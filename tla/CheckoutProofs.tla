--------------------------- MODULE CheckoutProofs ---------------------------
(* Theorems about Checkout for every number of installations, commits, pull   *)
(* requests and attempts.  An action changes one installation or GitHub:      *)
(* LocalStep reduces the first kind to the entry of that installation, and    *)
(* WorldStep handles the second.                                              *)
EXTENDS Checkout, TLAPS

USE CheckoutAssumption

-----------------------------------------------------------------------------
(* The invariant for one installation *)

\* What CheckoutInv says of an installation with job J, repository R, position
\* P and verified head H, when V are the verified commits and n pull requests
\* have been created.
BotOK(J, R, P, H, V, n) ==
  /\ J \in Job /\ R \in Repo /\ P \in Stages /\ H \in Ref
  /\ P \in {"prepare", "charge"} => J.base # None /\ J.tries < Attempts
  /\ P \notin {"idle", "prepare"} => R.branch # None
  /\ P = "agent" => J.tries > 0
  /\ P \in {"recheck", "push", "publish"} => H # None
  /\ P \in {"push", "publish"} => H \in V
  /\ R.tree = "here" => R.branch # None
  /\ J.gone <= n
  /\ J.base = None /\ ~R.stale => R.branch = None /\ R.tree # "here"

\* ... and of what is shared.
WorldOK ==
  /\ anc \in [Commits -> SUBSET Commits]
  /\ own \subseteq Commits
  /\ main \in Commits
  /\ remote \in Ref
  /\ pull \in Pull
  /\ verified \subseteq Commits
  /\ remote # None => remote \in verified
  /\ pull.head # None => pull.head \in verified

Shaped ==
  /\ job \in [Bots -> Job] /\ repo \in [Bots -> Repo]
  /\ pc \in [Bots -> Stages] /\ head \in [Bots -> Ref]
  /\ \A i \in Bots : BotOK(job[i], repo[i], pc[i], head[i], verified, pull.n)

\* The invariant is the conjunction of the two.
LEMMA Parts == CheckoutInv <=> WorldOK /\ Shaped
<1>1. ASSUME CheckoutInv PROVE WorldOK
  BY <1>1 DEF CheckoutInv, TypeOK, RemoteIsVerified, WorldOK
<1>2. ASSUME CheckoutInv PROVE Shaped
  <2>1. /\ job \in [Bots -> Job] /\ repo \in [Bots -> Repo]
        /\ pc \in [Bots -> Stages] /\ head \in [Bots -> Ref]
    BY <1>2 DEF CheckoutInv, TypeOK
  <2>2. ASSUME NEW i \in Bots
        PROVE  BotOK(job[i], repo[i], pc[i], head[i], verified, pull.n)
    <3>1. job[i] \in Job /\ repo[i] \in Repo /\ pc[i] \in Stages /\ head[i] \in Ref
      BY <2>1
    <3>2. QED
      BY <1>2, <3>1 DEF CheckoutInv, Staged, Founded, BaselessIsClean, BotOK
  <2>3. QED
    BY <2>1, <2>2 DEF Shaped
<1>3. ASSUME WorldOK, Shaped PROVE CheckoutInv
  <2>1. TypeOK /\ RemoteIsVerified
    BY <1>3 DEF WorldOK, Shaped, TypeOK, RemoteIsVerified
  <2>2. Staged /\ Founded /\ BaselessIsClean
    BY <1>3 DEF Shaped, BotOK, Staged, Founded, BaselessIsClean
  <2>3. QED
    BY <2>1, <2>2 DEF CheckoutInv
<1>4. QED
  BY <1>1, <1>2, <1>3

\* An entry stays right when verified commits and pull requests are added.
LEMMA Monotone ==
  ASSUME NEW J, NEW R, NEW P, NEW H, NEW V, NEW W, NEW n \in Nat, NEW m \in Nat,
         BotOK(J, R, P, H, V, n), V \subseteq W, n <= m
  PROVE  BotOK(J, R, P, H, W, m)
  BY DEF BotOK, Job

\* The step touches no installation but i, whose new entry is right.
Local(i) ==
  /\ job' = [job EXCEPT ![i] = job'[i]] /\ repo' = [repo EXCEPT ![i] = repo'[i]]
  /\ pc' = [pc EXCEPT ![i] = pc'[i]] /\ head' = [head EXCEPT ![i] = head'[i]]
  /\ BotOK(job'[i], repo'[i], pc'[i], head'[i], verified', pull'.n)

\* What is shared only grows.
Grows == verified \subseteq verified' /\ pull.n <= pull'.n

\* A step of one installation preserves the invariant if its new entry is right
\* and what is shared stays right.
LEMMA LocalStep ==
  ASSUME CheckoutInv, NEW i \in Bots, Local(i), Grows, WorldOK'
  PROVE  CheckoutInv'
<1>1. WorldOK /\ Shaped
  BY Parts
<1>2. pull.n \in Nat /\ pull'.n \in Nat
  BY <1>1 DEF WorldOK, Pull
<1>3. /\ job' \in [Bots -> Job] /\ repo' \in [Bots -> Repo]
      /\ pc' \in [Bots -> Stages] /\ head' \in [Bots -> Ref]
  BY <1>1 DEF Local, Shaped, BotOK
<1>4. ASSUME NEW k \in Bots
      PROVE  BotOK(job'[k], repo'[k], pc'[k], head'[k], verified', pull'.n)
  <2>1. CASE k = i
    BY <2>1 DEF Local
  <2>2. CASE k # i
    <3>1. /\ job'[k] = job[k] /\ repo'[k] = repo[k]
          /\ pc'[k] = pc[k] /\ head'[k] = head[k]
      BY <1>1, <2>2 DEF Local, Shaped
    <3>2. BotOK(job[k], repo[k], pc[k], head[k], verified, pull.n)
      BY <1>1 DEF Shaped
    <3>3. BotOK(job[k], repo[k], pc[k], head[k], verified', pull'.n)
      BY <1>2, <3>2, Monotone DEF Grows
    <3>4. QED
      BY <3>1, <3>3
  <2>3. QED
    BY <2>1, <2>2
<1>5. Shaped'
  BY <1>3, <1>4 DEF Shaped
<1>6. CheckoutInv' <=> WorldOK' /\ Shaped'
  BY Parts, PTL
<1>7. QED
  BY <1>5, <1>6

\* What the invariant says of one installation, for use in a step.
LEMMA Entry ==
  ASSUME CheckoutInv, NEW i \in Bots
  PROVE  /\ WorldOK
         /\ job \in [Bots -> Job] /\ repo \in [Bots -> Repo]
         /\ pc \in [Bots -> Stages] /\ head \in [Bots -> Ref]
         /\ BotOK(job[i], repo[i], pc[i], head[i], verified, pull.n)
         /\ job[i] \in Job /\ repo[i] \in Repo
  BY Parts DEF Shaped

\* A commit is not the absence of one.
LEMMA CommitExists ==
  /\ \A c \in Commits : c # None /\ c \in Ref
  /\ \A c \in Ref : c # None => c \in Commits
  BY DEF Commits, None, Ref

\* A commit with its ancestors is added to the graph.
LEMMA GraphTypes ==
  ASSUME NEW f \in [Commits -> SUBSET Commits], NEW c \in Commits,
         NEW S \in SUBSET Commits
  PROVE  [f EXCEPT ![c] = S \cup {c}] \in [Commits -> SUBSET Commits]
  OBVIOUS

\* The commit an agent makes on its branch leaves what is shared in order.
LEMMA CommitTypes ==
  ASSUME WorldOK, NEW i \in Bots, NEW c \in Commits, repo[i] \in Repo,
         repo[i].branch # None, CommitOnBranch(i, c), UNCHANGED <<github, verified>>
  PROVE  Grows /\ WorldOK'
<1>1. repo[i].branch \in Commits
  BY CommitExists DEF Repo
<1>2. anc' \in [Commits -> SUBSET Commits]
  BY <1>1, GraphTypes DEF CommitOnBranch, WorldOK
<1>3. own' \subseteq Commits
  BY DEF CommitOnBranch, WorldOK
<1>4. pull.n \in Nat
  BY DEF WorldOK, Pull
<1>5. QED
  BY <1>2, <1>3, <1>4 DEF WorldOK, Grows, github

\* A new worktree starts at a commit.
LEMMA StartPointType ==
  ASSUME WorldOK, NEW i \in Bots, job[i] \in Job, repo[i] \in Repo, job[i].base # None
  PROVE  StartPoint(i) \in Commits
  BY DEF StartPoint, WorldOK, Job, Repo, Ref

\* The invariant is preserved by the steps that prepare the worktree.
LEMMA PrepareStep ==
  ASSUME CheckoutInv, NEW i \in Bots,
         Reconcile(i) \/ Open(i) \/ Reuse(i) \/ AddWorktree(i)
           \/ AddInterrupted(i) \/ Charge(i)
  PROVE  CheckoutInv'
<1>0. /\ WorldOK
      /\ job \in [Bots -> Job] /\ repo \in [Bots -> Repo]
      /\ pc \in [Bots -> Stages] /\ head \in [Bots -> Ref]
      /\ BotOK(job[i], repo[i], pc[i], head[i], verified, pull.n)
      /\ job[i] \in Job /\ repo[i] \in Repo
  BY Entry
<1>1. CASE Reconcile(i)
  <2>1. /\ job'[i] = Recorded(i)
        /\ repo'[i] = repo[i]
        /\ pc'[i] = pc[i] /\ head'[i] = head[i]
    BY <1>0, <1>1 DEF Reconcile, Goto, SetJob, SetRepo, github, commits
  <2>2. /\ job' = [job EXCEPT ![i] = job'[i]] /\ repo' = [repo EXCEPT ![i] = repo'[i]]
        /\ pc' = [pc EXCEPT ![i] = pc'[i]] /\ head' = [head EXCEPT ![i] = head'[i]]
    BY <1>0, <1>1 DEF Reconcile, Goto, SetJob, SetRepo, github, commits
  <2>3. Grows /\ WorldOK'
    BY <1>0, <1>1 DEF Reconcile, Goto, SetJob, SetRepo, github, commits, Grows,
       WorldOK, Pull, Ref
  <2>4. job'[i] \in Job /\ job'[i].base = job[i].base
        /\ job'[i].tries = job[i].tries /\ job'[i].gone = job[i].gone
    BY <1>0, <1>1, <2>1 DEF BotOK, Job, Reconcile, Recorded
  <2>5. repo'[i] \in Repo /\ repo'[i] = repo[i]
    BY <1>0, <1>1, <2>1
  <2>6. BotOK(job'[i], repo'[i], pc'[i], head'[i], verified', pull'.n)
    BY <1>0, <1>1, <2>1, <2>3, <2>4, <2>5 DEF BotOK, Stages, Grows, WorldOK,
       Ref, Pull, Job, Reconcile, Goto, SetJob, SetRepo, github, commits,
       Visible
  <2>7. QED
    BY <2>2, <2>3, <2>6, LocalStep DEF Local
<1>2. CASE Open(i)
  <2>1. /\ job'[i] = [job[i] EXCEPT !.base = IF @ = None THEN main ELSE @]
        /\ repo'[i] = [repo[i] EXCEPT !.origin = main, !.dir = "here"]
        /\ pc'[i] = "prepare" /\ head'[i] = head[i]
    BY <1>0, <1>2 DEF Open, Opens, Goto, SetJob, SetRepo, github, commits
  <2>2. /\ job' = [job EXCEPT ![i] = job'[i]] /\ repo' = [repo EXCEPT ![i] = repo'[i]]
        /\ pc' = [pc EXCEPT ![i] = pc'[i]] /\ head' = [head EXCEPT ![i] = head'[i]]
    BY <1>0, <1>2 DEF Open, Opens, Goto, SetJob, SetRepo, github, commits
  <2>3. Grows /\ WorldOK'
    BY <1>0, <1>2 DEF Open, Opens, Goto, SetJob, SetRepo, github, commits, Grows,
       WorldOK, Pull, Ref
  <2>4. job'[i] \in Job /\ job'[i].base # None
        /\ job'[i].tries = job[i].tries /\ job'[i].gone = job[i].gone
    <3>1. main \in Ref /\ main # None
      BY <1>0, CommitExists DEF WorldOK
    <3>2. QED
      BY <1>0, <2>1, <3>1 DEF Job
  <2>5. repo'[i] \in Repo /\ repo'[i].branch = repo[i].branch /\ repo'[i].tree = repo[i].tree
        /\ repo'[i].stale = repo[i].stale
    BY <1>0, <1>2, <2>1 DEF Repo, Ref, Commits, None, WorldOK, BotOK, Open, Opens
  <2>6. BotOK(job'[i], repo'[i], pc'[i], head'[i], verified', pull'.n)
    BY <1>0, <1>2, <2>1, <2>3, <2>4, <2>5 DEF BotOK, Stages, Grows, WorldOK,
       Ref, Pull, Job, Open, Opens, Goto, SetJob, SetRepo, github, commits
  <2>7. QED
    BY <2>2, <2>3, <2>6, LocalStep DEF Local
<1>3. CASE Reuse(i)
  <2>1. /\ job'[i] = job[i]
        /\ repo'[i] = repo[i]
        /\ pc'[i] = "charge" /\ head'[i] = head[i]
    BY <1>0, <1>3 DEF Reuse, Goto, SetJob, SetRepo, github, commits
  <2>2. /\ job' = [job EXCEPT ![i] = job'[i]] /\ repo' = [repo EXCEPT ![i] = repo'[i]]
        /\ pc' = [pc EXCEPT ![i] = pc'[i]] /\ head' = [head EXCEPT ![i] = head'[i]]
    BY <1>0, <1>3 DEF Reuse, Goto, SetJob, SetRepo, github, commits
  <2>3. Grows /\ WorldOK'
    BY <1>0, <1>3 DEF Reuse, Goto, SetJob, SetRepo, github, commits, Grows,
       WorldOK, Pull, Ref
  <2>4. job'[i] \in Job /\ job'[i] = job[i]
    BY <1>0, <1>3, <2>1
  <2>5. repo'[i] \in Repo /\ repo'[i] = repo[i]
    BY <1>0, <1>3, <2>1
  <2>6. BotOK(job'[i], repo'[i], pc'[i], head'[i], verified', pull'.n)
    BY <1>0, <1>3, <2>1, <2>3, <2>4, <2>5 DEF BotOK, Stages, Grows, WorldOK,
       Ref, Pull, Job, Reuse, Goto, SetJob, SetRepo, github, commits
  <2>7. QED
    BY <2>2, <2>3, <2>6, LocalStep DEF Local
<1>4. CASE AddWorktree(i)
  <2>1. /\ job'[i] = job[i]
        /\ repo'[i] = [repo[i] EXCEPT !.branch = StartPoint(i), !.tree = "here",
                                 !.on = TRUE, !.clean = TRUE]
        /\ pc'[i] = "charge" /\ head'[i] = head[i]
    BY <1>0, <1>4 DEF AddWorktree, Goto, SetJob, SetRepo, github, commits
  <2>2. /\ job' = [job EXCEPT ![i] = job'[i]] /\ repo' = [repo EXCEPT ![i] = repo'[i]]
        /\ pc' = [pc EXCEPT ![i] = pc'[i]] /\ head' = [head EXCEPT ![i] = head'[i]]
    BY <1>0, <1>4 DEF AddWorktree, Goto, SetJob, SetRepo, github, commits
  <2>3. Grows /\ WorldOK'
    BY <1>0, <1>4 DEF AddWorktree, Goto, SetJob, SetRepo, github, commits,
       Grows, WorldOK, Pull, Ref
  <2>4. job'[i] \in Job /\ job'[i] = job[i]
    BY <1>0, <1>4, <2>1
  <2>5. repo'[i] \in Repo /\ repo'[i].branch # None
        /\ repo'[i].stale = repo[i].stale
    <3>1. StartPoint(i) \in Commits
      BY <1>0, <1>4, StartPointType DEF AddWorktree, BotOK
    <3>2. main \in Ref
      BY <1>0, <1>4, CommitExists DEF WorldOK
    <3>3. QED
      BY <1>0, <1>4, <2>1, <3>1, <3>2, CommitExists DEF Repo
  <2>6. BotOK(job'[i], repo'[i], pc'[i], head'[i], verified', pull'.n)
    BY <1>0, <1>4, <2>1, <2>3, <2>4, <2>5 DEF BotOK, Stages, Grows, WorldOK,
       Ref, Pull, Job, AddWorktree, Goto, SetJob, SetRepo, github, commits
  <2>7. QED
    BY <2>2, <2>3, <2>6, LocalStep DEF Local
<1>5. CASE AddInterrupted(i)
  <2>1. PICK t \in {"none", "here"} :
         repo' = [repo EXCEPT ![i] = [repo[i] EXCEPT !.branch = StartPoint(i), !.tree = t,
                                       !.on = TRUE, !.clean = (t = "none")]]
    BY <1>0, <1>5 DEF AddInterrupted, Goto, SetJob, SetRepo, github, commits
  <2>2. /\ job'[i] = job[i]
        /\ repo'[i] = [repo[i] EXCEPT !.branch = StartPoint(i), !.tree = t,
                                 !.on = TRUE, !.clean = (t = "none")]
        /\ pc'[i] = "idle" /\ head'[i] = head[i]
    BY <1>0, <1>5, <2>1 DEF AddInterrupted, Goto, SetJob, SetRepo, github,
       commits
  <2>3. /\ job' = [job EXCEPT ![i] = job'[i]] /\ repo' = [repo EXCEPT ![i] = repo'[i]]
        /\ pc' = [pc EXCEPT ![i] = pc'[i]] /\ head' = [head EXCEPT ![i] = head'[i]]
    BY <1>0, <1>5, <2>1 DEF AddInterrupted, Goto, SetJob, SetRepo, github,
       commits
  <2>4. Grows /\ WorldOK'
    BY <1>0, <1>5, <2>1 DEF AddInterrupted, Goto, SetJob, SetRepo, github,
       commits, Grows, WorldOK, Pull, Ref
  <2>5. job'[i] \in Job /\ job'[i] = job[i]
    BY <1>0, <1>5, <2>1, <2>2
  <2>6. repo'[i] \in Repo /\ repo'[i].branch # None
        /\ repo'[i].stale = repo[i].stale
    <3>1. StartPoint(i) \in Commits
      BY <1>0, <1>5, <2>1, StartPointType DEF AddInterrupted, BotOK
    <3>2. main \in Ref
      BY <1>0, <1>5, <2>1, CommitExists DEF WorldOK
    <3>3. QED
      BY <1>0, <1>5, <2>1, <2>2, <3>1, <3>2, CommitExists DEF Repo
  <2>7. BotOK(job'[i], repo'[i], pc'[i], head'[i], verified', pull'.n)
    BY <1>0, <1>5, <2>1, <2>2, <2>4, <2>5, <2>6 DEF BotOK, Stages, Grows,
       WorldOK, Ref, Pull, Job, AddInterrupted, Goto, SetJob, SetRepo, github,
       commits
  <2>8. QED
    BY <2>3, <2>4, <2>7, LocalStep DEF Local
<1>6. CASE Charge(i)
  <2>1. /\ job'[i] = [job[i] EXCEPT !.tries = @ + 1]
        /\ repo'[i] = repo[i]
        /\ pc'[i] = "agent" /\ head'[i] = head[i]
    BY <1>0, <1>6 DEF Charge, Goto, SetJob, SetRepo, github, commits
  <2>2. /\ job' = [job EXCEPT ![i] = job'[i]] /\ repo' = [repo EXCEPT ![i] = repo'[i]]
        /\ pc' = [pc EXCEPT ![i] = pc'[i]] /\ head' = [head EXCEPT ![i] = head'[i]]
    BY <1>0, <1>6 DEF Charge, Goto, SetJob, SetRepo, github, commits
  <2>3. Grows /\ WorldOK'
    BY <1>0, <1>6 DEF Charge, Goto, SetJob, SetRepo, github, commits, Grows,
       WorldOK, Pull, Ref
  <2>4. job'[i] \in Job /\ job'[i].base = job[i].base
        /\ job'[i].gone = job[i].gone
    BY <1>0, <1>6, <2>1 DEF BotOK, Job, Charge
  <2>5. repo'[i] \in Repo /\ repo'[i] = repo[i]
    BY <1>0, <1>6, <2>1
  <2>6. BotOK(job'[i], repo'[i], pc'[i], head'[i], verified', pull'.n)
    BY <1>0, <1>6, <2>1, <2>3, <2>4, <2>5 DEF BotOK, Stages, Grows, WorldOK,
       Ref, Pull, Job, Charge, Goto, SetJob, SetRepo, github, commits
  <2>7. QED
    BY <2>2, <2>3, <2>6, LocalStep DEF Local
<1>7. QED
  BY <1>1, <1>2, <1>3, <1>4, <1>5, <1>6

\* The invariant is preserved by the agent.
LEMMA AgentStep ==
  ASSUME CheckoutInv, NEW i \in Bots,
         Agent(i)
  PROVE  CheckoutInv'
<1>0. /\ WorldOK
      /\ job \in [Bots -> Job] /\ repo \in [Bots -> Repo]
      /\ pc \in [Bots -> Stages] /\ head \in [Bots -> Ref]
      /\ BotOK(job[i], repo[i], pc[i], head[i], verified, pull.n)
      /\ job[i] \in Job /\ repo[i] \in Repo
  BY Entry
<1>1. CASE AgentCommits(i)
  <2>1. PICK c \in Commits : CommitOnBranch(i, c)
    BY <1>0, <1>1 DEF AgentCommits, Goto, SetJob, SetRepo, github, commits
  <2>2. /\ job'[i] = job[i]
        /\ repo'[i] = [repo[i] EXCEPT !.branch = c, !.clean = TRUE]
        /\ pc'[i] = pc[i] /\ head'[i] = head[i]
    BY <1>0, <1>1, <2>1 DEF AgentCommits, Goto, SetJob, SetRepo, github,
       commits, CommitOnBranch, Fresh
  <2>3. /\ job' = [job EXCEPT ![i] = job'[i]] /\ repo' = [repo EXCEPT ![i] = repo'[i]]
        /\ pc' = [pc EXCEPT ![i] = pc'[i]] /\ head' = [head EXCEPT ![i] = head'[i]]
    BY <1>0, <1>1, <2>1 DEF AgentCommits, Goto, SetJob, SetRepo, github,
       commits, CommitOnBranch, Fresh
  <2>4. Grows /\ WorldOK'
    BY <1>0, <1>1, <2>1, CommitTypes DEF AgentCommits, BotOK, Stages, github
  <2>5. job'[i] \in Job /\ job'[i] = job[i]
    BY <1>0, <1>1, <2>1, <2>2
  <2>6. repo'[i] \in Repo /\ repo'[i].branch # None
        /\ repo'[i].stale = repo[i].stale
    <3>1. c \in Commits
      BY <1>0, <1>1, <2>1
    <3>2. main \in Ref
      BY <1>0, <1>1, <2>1, CommitExists DEF WorldOK
    <3>3. QED
      BY <1>0, <1>1, <2>1, <2>2, <3>1, <3>2, CommitExists DEF Repo
  <2>7. BotOK(job'[i], repo'[i], pc'[i], head'[i], verified', pull'.n)
    BY <1>0, <1>1, <2>1, <2>2, <2>4, <2>5, <2>6 DEF BotOK, Stages, Grows,
       WorldOK, Ref, Pull, Job, AgentCommits, Goto, SetJob, SetRepo, github,
       commits, CommitOnBranch, Fresh
  <2>8. QED
    BY <2>3, <2>4, <2>7, LocalStep DEF Local
<1>2. CASE AgentMerges(i)
  <2>1. CASE repo[i].branch \in anc[main] /\ UNCHANGED anc
             /\ SetRepo(i, [repo[i] EXCEPT !.origin = main, !.branch = main])
    <3>1. /\ job'[i] = job[i]
          /\ repo'[i] = [repo[i] EXCEPT !.origin = main, !.branch = main]
          /\ pc'[i] = pc[i] /\ head'[i] = head[i]
      BY <1>0, <1>2, <2>1 DEF AgentMerges, Goto, SetJob, SetRepo, github,
         commits
    <3>2. /\ job' = [job EXCEPT ![i] = job'[i]] /\ repo' = [repo EXCEPT ![i] = repo'[i]]
          /\ pc' = [pc EXCEPT ![i] = pc'[i]] /\ head' = [head EXCEPT ![i] = head'[i]]
      BY <1>0, <1>2, <2>1 DEF AgentMerges, Goto, SetJob, SetRepo, github,
         commits
    <3>3. Grows /\ WorldOK'
      <4>1. pull.n \in Nat
        BY <1>0 DEF WorldOK, Pull
      <4>2. UNCHANGED <<anc, own, main, remote, pull, verified>>
        BY <1>0, <1>2, <2>1 DEF AgentMerges, github, commits
      <4>3. QED
        BY <1>0, <4>1, <4>2 DEF Grows, WorldOK
    <3>4. job'[i] \in Job /\ job'[i] = job[i]
      BY <1>0, <1>2, <2>1, <3>1
    <3>5. repo'[i] \in Repo /\ repo'[i].branch # None
          /\ repo'[i].stale = repo[i].stale
      <4>1. main \in Commits
        BY <1>0, <1>2, <2>1, CommitExists DEF WorldOK
      <4>2. main \in Ref
        BY <1>0, <1>2, <2>1, CommitExists DEF WorldOK
      <4>3. QED
        BY <1>0, <1>2, <2>1, <3>1, <4>1, <4>2, CommitExists DEF Repo
    <3>6. BotOK(job'[i], repo'[i], pc'[i], head'[i], verified', pull'.n)
      BY <1>0, <1>2, <2>1, <3>1, <3>3, <3>4, <3>5 DEF BotOK, Stages, Grows,
         WorldOK, Ref, Pull, Job, AgentMerges, Goto, SetJob, SetRepo, github,
         commits
    <3>7. QED
      BY <3>2, <3>3, <3>6, LocalStep DEF Local
  <2>2. CASE repo[i].branch \notin anc[main]
    <3>1. PICK c \in Commits :
         /\ anc' = [anc EXCEPT ![c] = anc[repo[i].branch] \cup anc[main] \cup {c}]
         /\ SetRepo(i, [repo[i] EXCEPT !.origin = main, !.branch = c])
      BY <1>0, <1>2, <2>2 DEF AgentMerges, Goto, SetJob, SetRepo, github,
         commits
    <3>2. /\ job'[i] = job[i]
          /\ repo'[i] = [repo[i] EXCEPT !.origin = main, !.branch = c]
          /\ pc'[i] = pc[i] /\ head'[i] = head[i]
      BY <1>0, <1>2, <2>2, <3>1 DEF AgentMerges, Goto, SetJob, SetRepo, github,
         commits
    <3>3. /\ job' = [job EXCEPT ![i] = job'[i]] /\ repo' = [repo EXCEPT ![i] = repo'[i]]
          /\ pc' = [pc EXCEPT ![i] = pc'[i]] /\ head' = [head EXCEPT ![i] = head'[i]]
      BY <1>0, <1>2, <2>2, <3>1 DEF AgentMerges, Goto, SetJob, SetRepo, github,
         commits
    <3>4. Grows /\ WorldOK'
      <4>1. anc[repo[i].branch] \cup anc[main] \in SUBSET Commits
        BY <1>0, <1>2, <2>2, <3>1, CommitExists DEF AgentMerges, BotOK, Stages,
           Repo, WorldOK
      <4>2. anc' \in [Commits -> SUBSET Commits]
        BY <1>0, <1>2, <2>2, <3>1, <4>1, GraphTypes DEF WorldOK
      <4>3. UNCHANGED <<own, main, remote, pull, verified>>
        BY <1>2 DEF AgentMerges, github
      <4>4. pull.n \in Nat
        BY <1>0 DEF WorldOK, Pull
      <4>5. QED
        BY <1>0, <4>2, <4>3, <4>4 DEF Grows, WorldOK
    <3>5. job'[i] \in Job /\ job'[i] = job[i]
      BY <1>0, <1>2, <2>2, <3>1, <3>2
    <3>6. repo'[i] \in Repo /\ repo'[i].branch # None
          /\ repo'[i].stale = repo[i].stale
      <4>1. c \in Commits
        BY <1>0, <1>2, <2>2, <3>1
      <4>2. main \in Ref
        BY <1>0, <1>2, <2>2, <3>1, CommitExists DEF WorldOK
      <4>3. QED
        BY <1>0, <1>2, <2>2, <3>1, <3>2, <4>1, <4>2, CommitExists DEF Repo
    <3>7. BotOK(job'[i], repo'[i], pc'[i], head'[i], verified', pull'.n)
      BY <1>0, <1>2, <2>2, <3>1, <3>2, <3>4, <3>5, <3>6 DEF BotOK, Stages,
         Grows, WorldOK, Ref, Pull, Job, AgentMerges, Goto, SetJob, SetRepo,
         github, commits
    <3>8. QED
      BY <3>3, <3>4, <3>7, LocalStep DEF Local
  <2>3. QED
    BY <1>2, <2>1, <2>2 DEF AgentMerges
<1>3. CASE AgentLeavesEdits(i)
  <2>1. /\ job'[i] = job[i]
        /\ repo'[i] = [repo[i] EXCEPT !.clean = FALSE]
        /\ pc'[i] = pc[i] /\ head'[i] = head[i]
    BY <1>0, <1>3 DEF AgentLeavesEdits, Goto, SetJob, SetRepo, github, commits
  <2>2. /\ job' = [job EXCEPT ![i] = job'[i]] /\ repo' = [repo EXCEPT ![i] = repo'[i]]
        /\ pc' = [pc EXCEPT ![i] = pc'[i]] /\ head' = [head EXCEPT ![i] = head'[i]]
    BY <1>0, <1>3 DEF AgentLeavesEdits, Goto, SetJob, SetRepo, github, commits
  <2>3. Grows /\ WorldOK'
    BY <1>0, <1>3 DEF AgentLeavesEdits, Goto, SetJob, SetRepo, github, commits,
       Grows, WorldOK, Pull, Ref
  <2>4. job'[i] \in Job /\ job'[i] = job[i]
    BY <1>0, <1>3, <2>1
  <2>5. repo'[i] \in Repo /\ repo'[i].branch = repo[i].branch /\ repo'[i].tree = repo[i].tree
        /\ repo'[i].stale = repo[i].stale
    BY <1>0, <1>3, <2>1 DEF Repo, Ref, Commits, None, WorldOK, BotOK,
       AgentLeavesEdits
  <2>6. BotOK(job'[i], repo'[i], pc'[i], head'[i], verified', pull'.n)
    BY <1>0, <1>3, <2>1, <2>3, <2>4, <2>5 DEF BotOK, Stages, Grows, WorldOK,
       Ref, Pull, Job, AgentLeavesEdits, Goto, SetJob, SetRepo, github, commits
  <2>7. QED
    BY <2>2, <2>3, <2>6, LocalStep DEF Local
<1>4. CASE AgentMisbehaves(i)
  <2>1. CASE \E c \in anc[repo[i].branch] \cup anc[main] :
               SetRepo(i, [repo[i] EXCEPT !.branch = c, !.on = TRUE, !.clean = TRUE])
    <3>1. PICK c \in anc[repo[i].branch] \cup anc[main] :
         SetRepo(i, [repo[i] EXCEPT !.branch = c, !.on = TRUE, !.clean = TRUE])
      BY <1>0, <1>4, <2>1 DEF AgentMisbehaves, Goto, SetJob, SetRepo, github,
         commits
    <3>2. /\ job'[i] = job[i]
          /\ repo'[i] = [repo[i] EXCEPT !.branch = c, !.on = TRUE, !.clean = TRUE]
          /\ pc'[i] = pc[i] /\ head'[i] = head[i]
      BY <1>0, <1>4, <2>1, <3>1 DEF AgentMisbehaves, Goto, SetJob, SetRepo,
         github, commits
    <3>3. /\ job' = [job EXCEPT ![i] = job'[i]] /\ repo' = [repo EXCEPT ![i] = repo'[i]]
          /\ pc' = [pc EXCEPT ![i] = pc'[i]] /\ head' = [head EXCEPT ![i] = head'[i]]
      BY <1>0, <1>4, <2>1, <3>1 DEF AgentMisbehaves, Goto, SetJob, SetRepo,
         github, commits
    <3>4. Grows /\ WorldOK'
      <4>1. pull.n \in Nat
        BY <1>0 DEF WorldOK, Pull
      <4>2. UNCHANGED <<anc, own, main, remote, pull, verified>>
        BY <1>0, <1>4, <2>1, <3>1 DEF AgentMisbehaves, github, commits
      <4>3. QED
        BY <1>0, <4>1, <4>2 DEF Grows, WorldOK
    <3>5. job'[i] \in Job /\ job'[i] = job[i]
      BY <1>0, <1>4, <2>1, <3>1, <3>2
    <3>6. repo'[i] \in Repo /\ repo'[i].branch # None
          /\ repo'[i].stale = repo[i].stale
      <4>1. c \in Commits
        BY <1>0, <1>4, <2>1, <3>1, CommitExists DEF AgentMisbehaves, BotOK,
           Stages, Repo, WorldOK
      <4>2. main \in Ref
        BY <1>0, <1>4, <2>1, <3>1, CommitExists DEF WorldOK
      <4>3. QED
        BY <1>0, <1>4, <2>1, <3>1, <3>2, <4>1, <4>2, CommitExists DEF Repo
    <3>7. BotOK(job'[i], repo'[i], pc'[i], head'[i], verified', pull'.n)
      BY <1>0, <1>4, <2>1, <3>1, <3>2, <3>4, <3>5, <3>6 DEF BotOK, Stages,
         Grows, WorldOK, Ref, Pull, Job, AgentMisbehaves, Goto, SetJob, SetRepo,
         github, commits
    <3>8. QED
      BY <3>3, <3>4, <3>7, LocalStep DEF Local
  <2>2. CASE SetRepo(i, [repo[i] EXCEPT !.on = FALSE])
    <3>1. /\ job'[i] = job[i]
          /\ repo'[i] = [repo[i] EXCEPT !.on = FALSE]
          /\ pc'[i] = pc[i] /\ head'[i] = head[i]
      BY <1>0, <1>4, <2>2 DEF AgentMisbehaves, Goto, SetJob, SetRepo, github,
         commits
    <3>2. /\ job' = [job EXCEPT ![i] = job'[i]] /\ repo' = [repo EXCEPT ![i] = repo'[i]]
          /\ pc' = [pc EXCEPT ![i] = pc'[i]] /\ head' = [head EXCEPT ![i] = head'[i]]
      BY <1>0, <1>4, <2>2 DEF AgentMisbehaves, Goto, SetJob, SetRepo, github,
         commits
    <3>3. Grows /\ WorldOK'
      <4>1. pull.n \in Nat
        BY <1>0 DEF WorldOK, Pull
      <4>2. UNCHANGED <<anc, own, main, remote, pull, verified>>
        BY <1>0, <1>4, <2>2 DEF AgentMisbehaves, github, commits
      <4>3. QED
        BY <1>0, <4>1, <4>2 DEF Grows, WorldOK
    <3>4. job'[i] \in Job /\ job'[i] = job[i]
      BY <1>0, <1>4, <2>2, <3>1
    <3>5. repo'[i] \in Repo /\ repo'[i].branch = repo[i].branch /\ repo'[i].tree = repo[i].tree
          /\ repo'[i].stale = repo[i].stale
      BY <1>0, <1>4, <2>2, <3>1 DEF Repo, Ref, Commits, None, WorldOK, BotOK,
         AgentMisbehaves
    <3>6. BotOK(job'[i], repo'[i], pc'[i], head'[i], verified', pull'.n)
      BY <1>0, <1>4, <2>2, <3>1, <3>3, <3>4, <3>5 DEF BotOK, Stages, Grows,
         WorldOK, Ref, Pull, Job, AgentMisbehaves, Goto, SetJob, SetRepo,
         github, commits
    <3>7. QED
      BY <3>2, <3>3, <3>6, LocalStep DEF Local
  <2>3. QED
    BY <1>4, <2>1, <2>2 DEF AgentMisbehaves
<1>5. CASE AgentSolved(i)
  <2>1. /\ job'[i] = job[i]
        /\ repo'[i] = repo[i]
        /\ pc'[i] = "verify" /\ head'[i] = head[i]
    BY <1>0, <1>5 DEF AgentSolved, Goto, SetJob, SetRepo, github, commits
  <2>2. /\ job' = [job EXCEPT ![i] = job'[i]] /\ repo' = [repo EXCEPT ![i] = repo'[i]]
        /\ pc' = [pc EXCEPT ![i] = pc'[i]] /\ head' = [head EXCEPT ![i] = head'[i]]
    BY <1>0, <1>5 DEF AgentSolved, Goto, SetJob, SetRepo, github, commits
  <2>3. Grows /\ WorldOK'
    BY <1>0, <1>5 DEF AgentSolved, Goto, SetJob, SetRepo, github, commits,
       Grows, WorldOK, Pull, Ref
  <2>4. job'[i] \in Job /\ job'[i] = job[i]
    BY <1>0, <1>5, <2>1
  <2>5. repo'[i] \in Repo /\ repo'[i] = repo[i]
    BY <1>0, <1>5, <2>1
  <2>6. BotOK(job'[i], repo'[i], pc'[i], head'[i], verified', pull'.n)
    BY <1>0, <1>5, <2>1, <2>3, <2>4, <2>5 DEF BotOK, Stages, Grows, WorldOK,
       Ref, Pull, Job, AgentSolved, Goto, SetJob, SetRepo, github, commits
  <2>7. QED
    BY <2>2, <2>3, <2>6, LocalStep DEF Local
<1>6. CASE AgentBlocked(i)
  <2>1. /\ job'[i] = [job[i] EXCEPT !.status = "blocked"]
        /\ repo'[i] = repo[i]
        /\ pc'[i] = "idle" /\ head'[i] = head[i]
    BY <1>0, <1>6 DEF AgentBlocked, Goto, SetJob, SetRepo, github, commits
  <2>2. /\ job' = [job EXCEPT ![i] = job'[i]] /\ repo' = [repo EXCEPT ![i] = repo'[i]]
        /\ pc' = [pc EXCEPT ![i] = pc'[i]] /\ head' = [head EXCEPT ![i] = head'[i]]
    BY <1>0, <1>6 DEF AgentBlocked, Goto, SetJob, SetRepo, github, commits
  <2>3. Grows /\ WorldOK'
    BY <1>0, <1>6 DEF AgentBlocked, Goto, SetJob, SetRepo, github, commits,
       Grows, WorldOK, Pull, Ref
  <2>4. job'[i] \in Job /\ job'[i].base = job[i].base
        /\ job'[i].tries = job[i].tries /\ job'[i].gone = job[i].gone
    BY <1>0, <1>6, <2>1 DEF BotOK, Job, AgentBlocked
  <2>5. repo'[i] \in Repo /\ repo'[i] = repo[i]
    BY <1>0, <1>6, <2>1
  <2>6. BotOK(job'[i], repo'[i], pc'[i], head'[i], verified', pull'.n)
    BY <1>0, <1>6, <2>1, <2>3, <2>4, <2>5 DEF BotOK, Stages, Grows, WorldOK,
       Ref, Pull, Job, AgentBlocked, Goto, SetJob, SetRepo, github, commits
  <2>7. QED
    BY <2>2, <2>3, <2>6, LocalStep DEF Local
<1>7. CASE AgentSetupFails(i)
  <2>1. /\ job'[i] = [job[i] EXCEPT !.tries = @ - 1]
        /\ repo'[i] = repo[i]
        /\ pc'[i] = "idle" /\ head'[i] = head[i]
    BY <1>0, <1>7 DEF AgentSetupFails, Goto, SetJob, SetRepo, github, commits
  <2>2. /\ job' = [job EXCEPT ![i] = job'[i]] /\ repo' = [repo EXCEPT ![i] = repo'[i]]
        /\ pc' = [pc EXCEPT ![i] = pc'[i]] /\ head' = [head EXCEPT ![i] = head'[i]]
    BY <1>0, <1>7 DEF AgentSetupFails, Goto, SetJob, SetRepo, github, commits
  <2>3. Grows /\ WorldOK'
    BY <1>0, <1>7 DEF AgentSetupFails, Goto, SetJob, SetRepo, github, commits,
       Grows, WorldOK, Pull, Ref
  <2>4. job'[i] \in Job /\ job'[i].base = job[i].base
        /\ job'[i].gone = job[i].gone
    BY <1>0, <1>7, <2>1 DEF BotOK, Job, AgentSetupFails
  <2>5. repo'[i] \in Repo /\ repo'[i] = repo[i]
    BY <1>0, <1>7, <2>1
  <2>6. BotOK(job'[i], repo'[i], pc'[i], head'[i], verified', pull'.n)
    BY <1>0, <1>7, <2>1, <2>3, <2>4, <2>5 DEF BotOK, Stages, Grows, WorldOK,
       Ref, Pull, Job, AgentSetupFails, Goto, SetJob, SetRepo, github, commits
  <2>7. QED
    BY <2>2, <2>3, <2>6, LocalStep DEF Local
<1>8. QED
  BY <1>1, <1>2, <1>3, <1>4, <1>5, <1>6, <1>7 DEF Agent

\* The invariant is preserved by verification and publication.
LEMMA PublishStep ==
  ASSUME CheckoutInv, NEW i \in Bots,
         Verify(i) \/ Recheck(i) \/ Disturb(i) \/ Push(i)
           \/ FoundPull(i) \/ Create(i) \/ Stop(i)
  PROVE  CheckoutInv'
<1>0. /\ WorldOK
      /\ job \in [Bots -> Job] /\ repo \in [Bots -> Repo]
      /\ pc \in [Bots -> Stages] /\ head \in [Bots -> Ref]
      /\ BotOK(job[i], repo[i], pc[i], head[i], verified, pull.n)
      /\ job[i] \in Job /\ repo[i] \in Repo
  BY Entry
<1>1. CASE Verify(i)
  <2>1. CASE Goto(i, "recheck") /\ UNCHANGED verified
    <3>1. /\ job'[i] = job[i]
          /\ repo'[i] = repo[i]
          /\ pc'[i] = "recheck" /\ head'[i] = repo[i].branch
      BY <1>0, <1>1, <2>1 DEF Verify, Goto, SetJob, SetRepo, github, commits
    <3>2. /\ job' = [job EXCEPT ![i] = job'[i]] /\ repo' = [repo EXCEPT ![i] = repo'[i]]
          /\ pc' = [pc EXCEPT ![i] = pc'[i]] /\ head' = [head EXCEPT ![i] = head'[i]]
      BY <1>0, <1>1, <2>1 DEF Verify, Goto, SetJob, SetRepo, github, commits
    <3>3. Grows /\ WorldOK'
      BY <1>0, <1>1, <2>1 DEF Verify, Goto, SetJob, SetRepo, github, commits,
         Grows, WorldOK, Pull, Ref
    <3>4. job'[i] \in Job /\ job'[i] = job[i]
      BY <1>0, <1>1, <2>1, <3>1
    <3>5. repo'[i] \in Repo /\ repo'[i] = repo[i]
      BY <1>0, <1>1, <2>1, <3>1
    <3>6. BotOK(job'[i], repo'[i], pc'[i], head'[i], verified', pull'.n)
      BY <1>0, <1>1, <2>1, <3>1, <3>3, <3>4, <3>5 DEF BotOK, Stages, Grows,
         WorldOK, Ref, Pull, Job, Repo, Verify, Goto, SetJob, SetRepo, github,
         commits
    <3>7. QED
      BY <3>2, <3>3, <3>6, LocalStep DEF Local
  <2>2. CASE Goto(i, "push") /\ verified' = verified \cup {repo[i].branch}
    <3>1. /\ job'[i] = job[i]
          /\ repo'[i] = repo[i]
          /\ pc'[i] = "push" /\ head'[i] = repo[i].branch
      BY <1>0, <1>1, <2>2 DEF Verify, Goto, SetJob, SetRepo, github, commits
    <3>2. /\ job' = [job EXCEPT ![i] = job'[i]] /\ repo' = [repo EXCEPT ![i] = repo'[i]]
          /\ pc' = [pc EXCEPT ![i] = pc'[i]] /\ head' = [head EXCEPT ![i] = head'[i]]
      BY <1>0, <1>1, <2>2 DEF Verify, Goto, SetJob, SetRepo, github, commits
    <3>3. Grows /\ WorldOK'
      <4>1. repo[i].branch \in Commits /\ pull.n \in Nat
        BY <1>0, <1>1, <2>2, CommitExists DEF Verify, BotOK, Stages, Repo,
           WorldOK, Pull
      <4>2. QED
        BY <1>0, <1>1, <2>2, <4>1 DEF Verify, github, commits, Grows, WorldOK
    <3>4. job'[i] \in Job /\ job'[i] = job[i]
      BY <1>0, <1>1, <2>2, <3>1
    <3>5. repo'[i] \in Repo /\ repo'[i] = repo[i]
      BY <1>0, <1>1, <2>2, <3>1
    <3>6. BotOK(job'[i], repo'[i], pc'[i], head'[i], verified', pull'.n)
      BY <1>0, <1>1, <2>2, <3>1, <3>3, <3>4, <3>5 DEF BotOK, Stages, Grows,
         WorldOK, Ref, Pull, Job, Repo, Verify, Goto, SetJob, SetRepo, github,
         commits
    <3>7. QED
      BY <3>2, <3>3, <3>6, LocalStep DEF Local
  <2>3. QED
    BY <1>1, <2>1, <2>2 DEF Verify
<1>2. CASE Recheck(i)
  <2>1. /\ job'[i] = job[i]
        /\ repo'[i] = repo[i]
        /\ pc'[i] = "push" /\ head'[i] = head[i]
    BY <1>0, <1>2 DEF Recheck, Goto, SetJob, SetRepo, github, commits
  <2>2. /\ job' = [job EXCEPT ![i] = job'[i]] /\ repo' = [repo EXCEPT ![i] = repo'[i]]
        /\ pc' = [pc EXCEPT ![i] = pc'[i]] /\ head' = [head EXCEPT ![i] = head'[i]]
    BY <1>0, <1>2 DEF Recheck, Goto, SetJob, SetRepo, github, commits
  <2>3. Grows /\ WorldOK'
    <3>1. head[i] \in Commits /\ pull.n \in Nat
      BY <1>0, <1>2, CommitExists DEF Recheck, BotOK, Stages, Repo, WorldOK,
         Pull
    <3>2. QED
      BY <1>0, <1>2, <3>1 DEF Recheck, github, commits, Grows, WorldOK
  <2>4. job'[i] \in Job /\ job'[i] = job[i]
    BY <1>0, <1>2, <2>1
  <2>5. repo'[i] \in Repo /\ repo'[i] = repo[i]
    BY <1>0, <1>2, <2>1
  <2>6. BotOK(job'[i], repo'[i], pc'[i], head'[i], verified', pull'.n)
    BY <1>0, <1>2, <2>1, <2>3, <2>4, <2>5 DEF BotOK, Stages, Grows, WorldOK,
       Ref, Pull, Job, Recheck, Goto, SetJob, SetRepo, github, commits
  <2>7. QED
    BY <2>2, <2>3, <2>6, LocalStep DEF Local
<1>3. CASE Disturb(i)
  <2>1. CASE \E c \in Commits : CommitOnBranch(i, c)
    <3>1. PICK c \in Commits : CommitOnBranch(i, c)
      BY <1>0, <1>3, <2>1 DEF Disturb, Goto, SetJob, SetRepo, github, commits
    <3>2. /\ job'[i] = job[i]
          /\ repo'[i] = [repo[i] EXCEPT !.branch = c, !.clean = TRUE]
          /\ pc'[i] = pc[i] /\ head'[i] = head[i]
      BY <1>0, <1>3, <2>1, <3>1 DEF Disturb, Goto, SetJob, SetRepo, github,
         commits, CommitOnBranch, Fresh
    <3>3. /\ job' = [job EXCEPT ![i] = job'[i]] /\ repo' = [repo EXCEPT ![i] = repo'[i]]
          /\ pc' = [pc EXCEPT ![i] = pc'[i]] /\ head' = [head EXCEPT ![i] = head'[i]]
      BY <1>0, <1>3, <2>1, <3>1 DEF Disturb, Goto, SetJob, SetRepo, github,
         commits, CommitOnBranch, Fresh
    <3>4. Grows /\ WorldOK'
      BY <1>0, <1>3, <2>1, <3>1, CommitTypes DEF Disturb, BotOK, Stages, github
    <3>5. job'[i] \in Job /\ job'[i] = job[i]
      BY <1>0, <1>3, <2>1, <3>1, <3>2
    <3>6. repo'[i] \in Repo /\ repo'[i].branch # None
          /\ repo'[i].stale = repo[i].stale
      <4>1. c \in Commits
        BY <1>0, <1>3, <2>1, <3>1
      <4>2. main \in Ref
        BY <1>0, <1>3, <2>1, <3>1, CommitExists DEF WorldOK
      <4>3. QED
        BY <1>0, <1>3, <2>1, <3>1, <3>2, <4>1, <4>2, CommitExists DEF Repo
    <3>7. BotOK(job'[i], repo'[i], pc'[i], head'[i], verified', pull'.n)
      BY <1>0, <1>3, <2>1, <3>1, <3>2, <3>4, <3>5, <3>6 DEF BotOK, Stages,
         Grows, WorldOK, Ref, Pull, Job, Disturb, Goto, SetJob, SetRepo, github,
         commits, CommitOnBranch, Fresh
    <3>8. QED
      BY <3>3, <3>4, <3>7, LocalStep DEF Local
  <2>2. CASE SetRepo(i, [repo[i] EXCEPT !.clean = FALSE]) /\ UNCHANGED commits
    <3>1. /\ job'[i] = job[i]
          /\ repo'[i] = [repo[i] EXCEPT !.clean = FALSE]
          /\ pc'[i] = pc[i] /\ head'[i] = head[i]
      BY <1>0, <1>3, <2>2 DEF Disturb, Goto, SetJob, SetRepo, github, commits
    <3>2. /\ job' = [job EXCEPT ![i] = job'[i]] /\ repo' = [repo EXCEPT ![i] = repo'[i]]
          /\ pc' = [pc EXCEPT ![i] = pc'[i]] /\ head' = [head EXCEPT ![i] = head'[i]]
      BY <1>0, <1>3, <2>2 DEF Disturb, Goto, SetJob, SetRepo, github, commits
    <3>3. Grows /\ WorldOK'
      BY <1>0, <1>3, <2>2 DEF Disturb, Goto, SetJob, SetRepo, github, commits,
         Grows, WorldOK, Pull, Ref
    <3>4. job'[i] \in Job /\ job'[i] = job[i]
      BY <1>0, <1>3, <2>2, <3>1
    <3>5. repo'[i] \in Repo /\ repo'[i].branch = repo[i].branch /\ repo'[i].tree = repo[i].tree
          /\ repo'[i].stale = repo[i].stale
      BY <1>0, <1>3, <2>2, <3>1 DEF Repo, Ref, Commits, None, WorldOK, BotOK,
         Disturb
    <3>6. BotOK(job'[i], repo'[i], pc'[i], head'[i], verified', pull'.n)
      BY <1>0, <1>3, <2>2, <3>1, <3>3, <3>4, <3>5 DEF BotOK, Stages, Grows,
         WorldOK, Ref, Pull, Job, Disturb, Goto, SetJob, SetRepo, github,
         commits
    <3>7. QED
      BY <3>2, <3>3, <3>6, LocalStep DEF Local
  <2>3. QED
    BY <1>3, <2>1, <2>2 DEF Disturb
<1>4. CASE Push(i)
  <2>1. PICK p \in {"publish", "idle"} : Goto(i, p)
    BY <1>0, <1>4 DEF Push, Goto, SetJob, SetRepo, github, commits
  <2>2. /\ job'[i] = job[i]
        /\ repo'[i] = repo[i]
        /\ pc'[i] = p /\ head'[i] = head[i]
    BY <1>0, <1>4, <2>1 DEF Push, Goto, SetJob, SetRepo, github, commits, Pushed
  <2>3. /\ job' = [job EXCEPT ![i] = job'[i]] /\ repo' = [repo EXCEPT ![i] = repo'[i]]
        /\ pc' = [pc EXCEPT ![i] = pc'[i]] /\ head' = [head EXCEPT ![i] = head'[i]]
    BY <1>0, <1>4, <2>1 DEF Push, Goto, SetJob, SetRepo, github, commits, Pushed
  <2>4. Grows /\ WorldOK'
    BY <1>0, <1>4, <2>1 DEF Push, Goto, SetJob, SetRepo, github, commits,
       Pushed, Grows, WorldOK, Pull, Ref, BotOK
  <2>5. job'[i] \in Job /\ job'[i] = job[i]
    BY <1>0, <1>4, <2>1, <2>2
  <2>6. repo'[i] \in Repo /\ repo'[i] = repo[i]
    BY <1>0, <1>4, <2>1, <2>2
  <2>7. BotOK(job'[i], repo'[i], pc'[i], head'[i], verified', pull'.n)
    BY <1>0, <1>4, <2>1, <2>2, <2>4, <2>5, <2>6 DEF BotOK, Stages, Grows,
       WorldOK, Ref, Pull, Job, Push, Goto, SetJob, SetRepo, github, commits,
       Pushed
  <2>8. QED
    BY <2>3, <2>4, <2>7, LocalStep DEF Local
<1>5. CASE FoundPull(i)
  <2>1. /\ job'[i] = Recorded(i)
        /\ repo'[i] = repo[i]
        /\ pc'[i] = "idle" /\ head'[i] = head[i]
    BY <1>0, <1>5 DEF FoundPull, Goto, SetJob, SetRepo, github, commits
  <2>2. /\ job' = [job EXCEPT ![i] = job'[i]] /\ repo' = [repo EXCEPT ![i] = repo'[i]]
        /\ pc' = [pc EXCEPT ![i] = pc'[i]] /\ head' = [head EXCEPT ![i] = head'[i]]
    BY <1>0, <1>5 DEF FoundPull, Goto, SetJob, SetRepo, github, commits
  <2>3. Grows /\ WorldOK'
    BY <1>0, <1>5 DEF FoundPull, Goto, SetJob, SetRepo, github, commits, Grows,
       WorldOK, Pull, Ref
  <2>4. job'[i] \in Job /\ job'[i].base = job[i].base
        /\ job'[i].tries = job[i].tries /\ job'[i].gone = job[i].gone
    BY <1>0, <1>5, <2>1 DEF BotOK, Job, FoundPull, Recorded
  <2>5. repo'[i] \in Repo /\ repo'[i] = repo[i]
    BY <1>0, <1>5, <2>1
  <2>6. BotOK(job'[i], repo'[i], pc'[i], head'[i], verified', pull'.n)
    BY <1>0, <1>5, <2>1, <2>3, <2>4, <2>5 DEF BotOK, Stages, Grows, WorldOK,
       Ref, Pull, Job, FoundPull, Goto, SetJob, SetRepo, github, commits,
       Visible
  <2>7. QED
    BY <2>2, <2>3, <2>6, LocalStep DEF Local
<1>6. CASE Create(i)
  <2>1. CASE SetJob(i, [job[i] EXCEPT !.status = "submitted"])
    <3>1. /\ job'[i] = [job[i] EXCEPT !.status = "submitted"]
          /\ repo'[i] = repo[i]
          /\ pc'[i] = "idle" /\ head'[i] = head[i]
      BY <1>0, <1>6, <2>1 DEF Create, Goto, SetJob, SetRepo, github, commits
    <3>2. /\ job' = [job EXCEPT ![i] = job'[i]] /\ repo' = [repo EXCEPT ![i] = repo'[i]]
          /\ pc' = [pc EXCEPT ![i] = pc'[i]] /\ head' = [head EXCEPT ![i] = head'[i]]
      BY <1>0, <1>6, <2>1 DEF Create, Goto, SetJob, SetRepo, github, commits
    <3>3. Grows /\ WorldOK'
      BY <1>0, <1>6, <2>1 DEF Create, Goto, SetJob, SetRepo, github, commits,
         Grows, WorldOK, Pull, Ref, BotOK
    <3>4. job'[i] \in Job /\ job'[i].base = job[i].base
          /\ job'[i].tries = job[i].tries /\ job'[i].gone = job[i].gone
      BY <1>0, <1>6, <2>1, <3>1 DEF BotOK, Job, Create
    <3>5. repo'[i] \in Repo /\ repo'[i] = repo[i]
      BY <1>0, <1>6, <2>1, <3>1
    <3>6. BotOK(job'[i], repo'[i], pc'[i], head'[i], verified', pull'.n)
      BY <1>0, <1>6, <2>1, <3>1, <3>3, <3>4, <3>5 DEF BotOK, Stages, Grows,
         WorldOK, Ref, Pull, Job, Create, Goto, SetJob, SetRepo, github, commits
    <3>7. QED
      BY <3>2, <3>3, <3>6, LocalStep DEF Local
  <2>2. CASE UNCHANGED job
    <3>1. /\ job'[i] = job[i]
          /\ repo'[i] = repo[i]
          /\ pc'[i] = "idle" /\ head'[i] = head[i]
      BY <1>0, <1>6, <2>2 DEF Create, Goto, SetJob, SetRepo, github, commits
    <3>2. /\ job' = [job EXCEPT ![i] = job'[i]] /\ repo' = [repo EXCEPT ![i] = repo'[i]]
          /\ pc' = [pc EXCEPT ![i] = pc'[i]] /\ head' = [head EXCEPT ![i] = head'[i]]
      BY <1>0, <1>6, <2>2 DEF Create, Goto, SetJob, SetRepo, github, commits
    <3>3. Grows /\ WorldOK'
      BY <1>0, <1>6, <2>2 DEF Create, Goto, SetJob, SetRepo, github, commits,
         Grows, WorldOK, Pull, Ref, BotOK
    <3>4. job'[i] \in Job /\ job'[i] = job[i]
      BY <1>0, <1>6, <2>2, <3>1
    <3>5. repo'[i] \in Repo /\ repo'[i] = repo[i]
      BY <1>0, <1>6, <2>2, <3>1
    <3>6. BotOK(job'[i], repo'[i], pc'[i], head'[i], verified', pull'.n)
      BY <1>0, <1>6, <2>2, <3>1, <3>3, <3>4, <3>5 DEF BotOK, Stages, Grows,
         WorldOK, Ref, Pull, Job, Create, Goto, SetJob, SetRepo, github, commits
    <3>7. QED
      BY <3>2, <3>3, <3>6, LocalStep DEF Local
  <2>3. QED
    BY <1>6, <2>1, <2>2 DEF Create
<1>7. CASE Stop(i)
  <2>1. /\ job'[i] = job[i]
        /\ repo'[i] = repo[i]
        /\ pc'[i] = "idle" /\ head'[i] = head[i]
    BY <1>0, <1>7 DEF Stop, Goto, SetJob, SetRepo, github, commits
  <2>2. /\ job' = [job EXCEPT ![i] = job'[i]] /\ repo' = [repo EXCEPT ![i] = repo'[i]]
        /\ pc' = [pc EXCEPT ![i] = pc'[i]] /\ head' = [head EXCEPT ![i] = head'[i]]
    BY <1>0, <1>7 DEF Stop, Goto, SetJob, SetRepo, github, commits
  <2>3. Grows /\ WorldOK'
    BY <1>0, <1>7 DEF Stop, Goto, SetJob, SetRepo, github, commits, Grows,
       WorldOK, Pull, Ref
  <2>4. job'[i] \in Job /\ job'[i] = job[i]
    BY <1>0, <1>7, <2>1
  <2>5. repo'[i] \in Repo /\ repo'[i] = repo[i]
    BY <1>0, <1>7, <2>1
  <2>6. BotOK(job'[i], repo'[i], pc'[i], head'[i], verified', pull'.n)
    BY <1>0, <1>7, <2>1, <2>3, <2>4, <2>5 DEF BotOK, Stages, Grows, WorldOK,
       Ref, Pull, Job, Stop, Goto, SetJob, SetRepo, github, commits
  <2>7. QED
    BY <2>2, <2>3, <2>6, LocalStep DEF Local
<1>8. QED
  BY <1>1, <1>2, <1>3, <1>4, <1>5, <1>6, <1>7

\* What discardWork leaves: nothing, or what was there, which is then recorded
\* as stale.
DiscardedOK(R) ==
  /\ R.tree = "here" => R.branch # None
  /\ ~R.stale => R.branch = None /\ R.tree # "here"

LEMMA DiscardedTypes ==
  ASSUME NEW i \in Bots, repo[i] \in Repo, repo[i].tree = "here" => repo[i].branch # None
  PROVE  Discarded(i) \in Repo /\ DiscardedOK(Discarded(i))
<1>1. CASE repo[i].dir = "here"
  <2>1. Discarded(i) = [repo[i] EXCEPT !.tree = "none", !.branch = None, !.stale = FALSE]
    BY <1>1 DEF Discarded
  <2>2. QED
    BY <2>1 DEF Repo, Ref, None, DiscardedOK
<1>2. CASE repo[i].dir # "here"
  <2>1. Discarded(i) = [repo[i] EXCEPT !.stale = repo[i].stale \/ repo[i].branch # None]
    BY <1>2 DEF Discarded
  <2>2. (repo[i].stale \/ repo[i].branch # None) \in BOOLEAN
    BY DEF Repo
  <2>3. QED
    BY <2>1, <2>2 DEF Repo, DiscardedOK
<1>3. QED
  BY <1>1, <1>2

\* It makes no new references.
LEMMA DiscardedRefs ==
  ASSUME NEW i \in Bots, repo[i] \in Repo
  PROVE  /\ Discarded(i).origin = repo[i].origin
         /\ Discarded(i).branch \in {repo[i].branch, None}
<1>1. CASE repo[i].dir = "here"
  BY <1>1 DEF Discarded, Repo
<1>2. CASE repo[i].dir # "here"
  <2>1. Discarded(i) = [repo[i] EXCEPT !.stale = repo[i].stale \/ repo[i].branch # None]
    BY <1>2 DEF Discarded
  <2>2. QED
    BY <2>1 DEF Repo
<1>3. QED
  BY <1>1, <1>2

\* The invariant is preserved by the operator and the loss of directories.
LEMMA OperatorStep ==
  ASSUME CheckoutInv, NEW i \in Bots,
         Retry(i) \/ Requeue(i) \/ LoseWorktree(i) \/ LoseCheckout(i)
         \/ PruneCheckout(i) \/ LoseWorkspace(i)
  PROVE  CheckoutInv'
<1>0. /\ WorldOK
      /\ job \in [Bots -> Job] /\ repo \in [Bots -> Repo]
      /\ pc \in [Bots -> Stages] /\ head \in [Bots -> Ref]
      /\ BotOK(job[i], repo[i], pc[i], head[i], verified, pull.n)
      /\ job[i] \in Job /\ repo[i] \in Repo
  BY Entry
<1>1. CASE Retry(i)
  <2>1. /\ job'[i] = [job[i] EXCEPT !.status = "pending", !.tries = 0]
        /\ repo'[i] = repo[i]
        /\ pc'[i] = pc[i] /\ head'[i] = head[i]
    BY <1>0, <1>1 DEF Retry, Goto, SetJob, SetRepo, github, commits
  <2>2. /\ job' = [job EXCEPT ![i] = job'[i]] /\ repo' = [repo EXCEPT ![i] = repo'[i]]
        /\ pc' = [pc EXCEPT ![i] = pc'[i]] /\ head' = [head EXCEPT ![i] = head'[i]]
    BY <1>0, <1>1 DEF Retry, Goto, SetJob, SetRepo, github, commits
  <2>3. Grows /\ WorldOK'
    BY <1>0, <1>1 DEF Retry, Goto, SetJob, SetRepo, github, commits, Grows,
       WorldOK, Pull, Ref
  <2>4. job'[i] \in Job /\ job'[i].base = job[i].base
        /\ job'[i].tries = 0 /\ job'[i].gone = job[i].gone
    <3>1. 0 \in 0..Attempts /\ "pending" \in {"pending", "submitted", "blocked"}
      BY CheckoutAssumption
    <3>2. QED
      BY <1>0, <2>1, <3>1 DEF Job
  <2>5. repo'[i] \in Repo /\ repo'[i] = repo[i]
    BY <1>0, <1>1, <2>1
  <2>6. BotOK(job'[i], repo'[i], pc'[i], head'[i], verified', pull'.n)
    BY <1>0, <1>1, <2>1, <2>3, <2>4, <2>5 DEF BotOK, Stages, Grows, WorldOK,
       Ref, Pull, Job, Retry, Goto, SetJob, SetRepo, github, commits
  <2>7. QED
    BY <2>2, <2>3, <2>6, LocalStep DEF Local
<1>2. CASE Requeue(i)
  <2>1. CASE SetRepo(i, Discarded(i)) /\ SetJob(i, [NewJob EXCEPT !.gone = pull.n])
    <3>1. /\ job'[i] = [NewJob EXCEPT !.gone = pull.n]
          /\ repo'[i] = Discarded(i)
          /\ pc'[i] = pc[i] /\ head'[i] = head[i]
      BY <1>0, <1>2, <2>1 DEF Requeue, Goto, SetJob, SetRepo, github, commits
    <3>2. /\ job' = [job EXCEPT ![i] = job'[i]] /\ repo' = [repo EXCEPT ![i] = repo'[i]]
          /\ pc' = [pc EXCEPT ![i] = pc'[i]] /\ head' = [head EXCEPT ![i] = head'[i]]
      BY <1>0, <1>2, <2>1 DEF Requeue, Goto, SetJob, SetRepo, github, commits
    <3>3. Grows /\ WorldOK'
      BY <1>0, <1>2, <2>1 DEF Requeue, Goto, SetJob, SetRepo, github, commits,
         Grows, WorldOK, Pull, Ref
    <3>4. job'[i] \in Job /\ job'[i].base = None
          /\ job'[i].gone = pull.n
      <4>1. NewJob \in Job /\ NewJob.base = None /\ pull.n \in 0..MaxPulls
        BY <1>0, CheckoutAssumption DEF NewJob, Job, Ref, None, WorldOK, Pull
      <4>2. QED
        BY <1>0, <3>1, <4>1 DEF Job
    <3>5. repo'[i] \in Repo /\ DiscardedOK(repo'[i])
      <4>1. repo[i].tree = "here" => repo[i].branch # None
        BY <1>0 DEF BotOK
      <4>2. QED
        BY <1>0, <3>1, <4>1, DiscardedTypes
    <3>6. BotOK(job'[i], repo'[i], pc'[i], head'[i], verified', pull'.n)
      BY <1>0, <1>2, <2>1, <3>1, <3>3, <3>4, <3>5 DEF BotOK, Stages, Grows,
         WorldOK, Ref, Pull, Job, Requeue, Goto, SetJob, SetRepo, github,
         commits, DiscardedOK
    <3>7. QED
      BY <3>2, <3>3, <3>6, LocalStep DEF Local
  <2>2. CASE SetRepo(i, Discarded(i)) /\ UNCHANGED job
    <3>1. /\ job'[i] = job[i]
          /\ repo'[i] = Discarded(i)
          /\ pc'[i] = pc[i] /\ head'[i] = head[i]
      BY <1>0, <1>2, <2>2 DEF Requeue, Goto, SetJob, SetRepo, github, commits
    <3>2. /\ job' = [job EXCEPT ![i] = job'[i]] /\ repo' = [repo EXCEPT ![i] = repo'[i]]
          /\ pc' = [pc EXCEPT ![i] = pc'[i]] /\ head' = [head EXCEPT ![i] = head'[i]]
      BY <1>0, <1>2, <2>2 DEF Requeue, Goto, SetJob, SetRepo, github, commits
    <3>3. Grows /\ WorldOK'
      BY <1>0, <1>2, <2>2 DEF Requeue, Goto, SetJob, SetRepo, github, commits,
         Grows, WorldOK, Pull, Ref
    <3>4. job'[i] \in Job /\ job'[i] = job[i]
      BY <1>0, <1>2, <2>2, <3>1
    <3>5. repo'[i] \in Repo /\ DiscardedOK(repo'[i])
      <4>1. repo[i].tree = "here" => repo[i].branch # None
        BY <1>0 DEF BotOK
      <4>2. QED
        BY <1>0, <3>1, <4>1, DiscardedTypes
    <3>6. BotOK(job'[i], repo'[i], pc'[i], head'[i], verified', pull'.n)
      BY <1>0, <1>2, <2>2, <3>1, <3>3, <3>4, <3>5 DEF BotOK, Stages, Grows,
         WorldOK, Ref, Pull, Job, Requeue, Goto, SetJob, SetRepo, github,
         commits, DiscardedOK
    <3>7. QED
      BY <3>2, <3>3, <3>6, LocalStep DEF Local
  <2>3. CASE SetRepo(i, [repo[i] EXCEPT !.tree = "none"]) /\ UNCHANGED job
    <3>1. /\ job'[i] = job[i]
          /\ repo'[i] = [repo[i] EXCEPT !.tree = "none"]
          /\ pc'[i] = pc[i] /\ head'[i] = head[i]
      BY <1>0, <1>2, <2>3 DEF Requeue, Goto, SetJob, SetRepo, github, commits
    <3>2. /\ job' = [job EXCEPT ![i] = job'[i]] /\ repo' = [repo EXCEPT ![i] = repo'[i]]
          /\ pc' = [pc EXCEPT ![i] = pc'[i]] /\ head' = [head EXCEPT ![i] = head'[i]]
      BY <1>0, <1>2, <2>3 DEF Requeue, Goto, SetJob, SetRepo, github, commits
    <3>3. Grows /\ WorldOK'
      BY <1>0, <1>2, <2>3 DEF Requeue, Goto, SetJob, SetRepo, github, commits,
         Grows, WorldOK, Pull, Ref
    <3>4. job'[i] \in Job /\ job'[i] = job[i]
      BY <1>0, <1>2, <2>3, <3>1
    <3>5. repo'[i] \in Repo /\ repo'[i].branch = repo[i].branch /\ repo'[i].tree = "none"
          /\ repo'[i].stale = repo[i].stale
      BY <1>0, <1>2, <2>3, <3>1 DEF Repo, Ref, Commits, None, WorldOK, BotOK,
         Requeue
    <3>6. BotOK(job'[i], repo'[i], pc'[i], head'[i], verified', pull'.n)
      BY <1>0, <1>2, <2>3, <3>1, <3>3, <3>4, <3>5 DEF BotOK, Stages, Grows,
         WorldOK, Ref, Pull, Job, Requeue, Goto, SetJob, SetRepo, github,
         commits
    <3>7. QED
      BY <3>2, <3>3, <3>6, LocalStep DEF Local
  <2>4. QED
    BY <1>2, <2>1, <2>2, <2>3 DEF Requeue
<1>3. CASE LoseWorktree(i)
  <2>1. /\ job'[i] = job[i]
        /\ repo'[i] = [repo[i] EXCEPT !.tree = "missing"]
        /\ pc'[i] = pc[i] /\ head'[i] = head[i]
    BY <1>0, <1>3 DEF LoseWorktree, Goto, SetJob, SetRepo, github, commits
  <2>2. /\ job' = [job EXCEPT ![i] = job'[i]] /\ repo' = [repo EXCEPT ![i] = repo'[i]]
        /\ pc' = [pc EXCEPT ![i] = pc'[i]] /\ head' = [head EXCEPT ![i] = head'[i]]
    BY <1>0, <1>3 DEF LoseWorktree, Goto, SetJob, SetRepo, github, commits
  <2>3. Grows /\ WorldOK'
    BY <1>0, <1>3 DEF LoseWorktree, Goto, SetJob, SetRepo, github, commits,
       Grows, WorldOK, Pull, Ref
  <2>4. job'[i] \in Job /\ job'[i] = job[i]
    BY <1>0, <1>3, <2>1
  <2>5. repo'[i] \in Repo /\ repo'[i].branch = repo[i].branch /\ repo'[i].tree = "missing"
        /\ repo'[i].stale = repo[i].stale
    BY <1>0, <1>3, <2>1 DEF Repo, Ref, Commits, None, WorldOK, BotOK,
       LoseWorktree
  <2>6. BotOK(job'[i], repo'[i], pc'[i], head'[i], verified', pull'.n)
    BY <1>0, <1>3, <2>1, <2>3, <2>4, <2>5 DEF BotOK, Stages, Grows, WorldOK,
       Ref, Pull, Job, LoseWorktree, Goto, SetJob, SetRepo, github, commits
  <2>7. QED
    BY <2>2, <2>3, <2>6, LocalStep DEF Local
<1>4. CASE LoseCheckout(i)
  <2>1. /\ job'[i] = job[i]
        /\ repo'[i] = [repo[i] EXCEPT !.dir = "missing"]
        /\ pc'[i] = pc[i] /\ head'[i] = head[i]
    BY <1>0, <1>4 DEF LoseCheckout, Goto, SetJob, SetRepo, github, commits
  <2>2. /\ job' = [job EXCEPT ![i] = job'[i]] /\ repo' = [repo EXCEPT ![i] = repo'[i]]
        /\ pc' = [pc EXCEPT ![i] = pc'[i]] /\ head' = [head EXCEPT ![i] = head'[i]]
    BY <1>0, <1>4 DEF LoseCheckout, Goto, SetJob, SetRepo, github, commits
  <2>3. Grows /\ WorldOK'
    BY <1>0, <1>4 DEF LoseCheckout, Goto, SetJob, SetRepo, github, commits,
       Grows, WorldOK, Pull, Ref
  <2>4. job'[i] \in Job /\ job'[i] = job[i]
    BY <1>0, <1>4, <2>1
  <2>5. repo'[i] \in Repo /\ repo'[i].branch = repo[i].branch /\ repo'[i].tree = repo[i].tree
        /\ repo'[i].stale = repo[i].stale
    BY <1>0, <1>4, <2>1 DEF Repo, Ref, Commits, None, WorldOK, BotOK,
       LoseCheckout
  <2>6. BotOK(job'[i], repo'[i], pc'[i], head'[i], verified', pull'.n)
    BY <1>0, <1>4, <2>1, <2>3, <2>4, <2>5 DEF BotOK, Stages, Grows, WorldOK,
       Ref, Pull, Job, LoseCheckout, Goto, SetJob, SetRepo, github, commits
  <2>7. QED
    BY <2>2, <2>3, <2>6, LocalStep DEF Local
<1>5. CASE PruneCheckout(i)
  <2>1. /\ job'[i] = job[i]
        /\ repo'[i] = [repo[i] EXCEPT !.dir = "none",
                           !.tree = IF @ = "missing" THEN "none" ELSE @]
        /\ pc'[i] = pc[i] /\ head'[i] = head[i]
    BY <1>0, <1>5 DEF PruneCheckout, Goto, SetJob, SetRepo, github, commits
  <2>2. /\ job' = [job EXCEPT ![i] = job'[i]] /\ repo' = [repo EXCEPT ![i] = repo'[i]]
        /\ pc' = [pc EXCEPT ![i] = pc'[i]] /\ head' = [head EXCEPT ![i] = head'[i]]
    BY <1>0, <1>5 DEF PruneCheckout, Goto, SetJob, SetRepo, github, commits
  <2>3. Grows /\ WorldOK'
    BY <1>0, <1>5 DEF PruneCheckout, Goto, SetJob, SetRepo, github, commits,
       Grows, WorldOK, Pull, Ref
  <2>4. job'[i] \in Job /\ job'[i] = job[i]
    BY <1>0, <1>5, <2>1
  <2>5. /\ repo'[i] \in Repo /\ repo'[i].branch = repo[i].branch
        /\ repo'[i].tree \in {repo[i].tree, "none"}
        /\ repo'[i].stale = repo[i].stale
    BY <1>0, <1>5, <2>1 DEF Repo, Ref, Commits, None, WorldOK, BotOK,
       PruneCheckout
  <2>6. BotOK(job'[i], repo'[i], pc'[i], head'[i], verified', pull'.n)
    BY <1>0, <1>5, <2>1, <2>3, <2>4, <2>5 DEF BotOK, Stages, Grows, WorldOK,
       Ref, Pull, Job, PruneCheckout, Goto, SetJob, SetRepo, github, commits
  <2>7. QED
    BY <2>2, <2>3, <2>6, LocalStep DEF Local
<1>6. CASE LoseWorkspace(i)
  <2>1. /\ job'[i] = job[i]
        /\ repo'[i] = NewRepo
        /\ pc'[i] = pc[i] /\ head'[i] = head[i]
    BY <1>0, <1>6 DEF LoseWorkspace, Goto, SetJob, SetRepo, github, commits
  <2>2. /\ job' = [job EXCEPT ![i] = job'[i]] /\ repo' = [repo EXCEPT ![i] = repo'[i]]
        /\ pc' = [pc EXCEPT ![i] = pc'[i]] /\ head' = [head EXCEPT ![i] = head'[i]]
    BY <1>0, <1>6 DEF LoseWorkspace, Goto, SetJob, SetRepo, github, commits
  <2>3. Grows /\ WorldOK'
    BY <1>0, <1>6 DEF LoseWorkspace, Goto, SetJob, SetRepo, github, commits,
       Grows, WorldOK, Pull, Ref
  <2>4. job'[i] \in Job /\ job'[i] = job[i]
    BY <1>0, <1>6, <2>1
  <2>5. repo'[i] \in Repo /\ repo'[i].branch = None /\ repo'[i].tree = "none"
    BY <1>0, <1>6, <2>1 DEF Repo, Ref, Commits, None, WorldOK, BotOK, NewRepo,
       LoseWorkspace
  <2>6. BotOK(job'[i], repo'[i], pc'[i], head'[i], verified', pull'.n)
    BY <1>0, <1>6, <2>1, <2>3, <2>4, <2>5 DEF BotOK, Stages, Grows, WorldOK,
       Ref, Pull, Job, LoseWorkspace, Goto, SetJob, SetRepo, github, commits
  <2>7. QED
    BY <2>2, <2>3, <2>6, LocalStep DEF Local
<1>7. QED
  BY <1>1, <1>2, <1>3, <1>4, <1>5, <1>6

\* The invariant is preserved by Town and the people on GitHub.
LEMMA WorldStep ==
  ASSUME CheckoutInv, ClosePull \/ DeleteBranch \/ AdvanceMain
  PROVE  CheckoutInv'
<1>0. WorldOK /\ Shaped
  BY Parts
<1>1. UNCHANGED <<job, repo, pc, head, verified>> /\ pull'.n = pull.n
  BY <1>0 DEF ClosePull, DeleteBranch, AdvanceMain, WorldOK, Pull
<1>2. Shaped'
  BY <1>0, <1>1 DEF Shaped
<1>3. WorldOK'
  <2>1. CASE ClosePull
    BY <1>0, <2>1 DEF ClosePull, commits, WorldOK, Pull
  <2>2. CASE DeleteBranch
    BY <1>0, <2>2 DEF DeleteBranch, commits, WorldOK, Ref
  <2>3. CASE AdvanceMain
    <3>1. PICK c \in Commits : anc' = [anc EXCEPT ![c] = anc[main] \cup {c}] /\ main' = c
      BY <2>3 DEF AdvanceMain
    <3>2. anc' \in [Commits -> SUBSET Commits]
      BY <1>0, <3>1, GraphTypes DEF WorldOK
    <3>3. UNCHANGED <<own, remote, pull, verified>>
      BY <2>3 DEF AdvanceMain
    <3>4. QED
      BY <1>0, <3>1, <3>2, <3>3 DEF WorldOK
  <2>4. QED
    BY <2>1, <2>2, <2>3
<1>4. CheckoutInv' <=> WorldOK' /\ Shaped'
  BY Parts, PTL
<1>5. QED
  BY <1>2, <1>3, <1>4

\* The invariant holds initially ...
LEMMA InitInv == Init => CheckoutInv
<1> SUFFICES ASSUME Init PROVE CheckoutInv
  OBVIOUS
<1>1. 1 \in Commits
  BY DEF Commits
<1>2. WorldOK
  BY <1>1 DEF Init, WorldOK, Ref, None, Pull
<1>3. NewJob \in Job /\ NewRepo \in Repo
  BY DEF NewJob, NewRepo, Job, Repo, Ref, None
<1>4. Shaped
  BY <1>3 DEF Init, Shaped, BotOK, NewJob, NewRepo, Stages, Ref, None
<1>5. QED
  BY <1>2, <1>4, Parts

\* ... and every step preserves it.
LEMMA NextInv == CheckoutInv /\ [Next]_vars => CheckoutInv'
<1> SUFFICES ASSUME CheckoutInv, [Next]_vars PROVE CheckoutInv'
  OBVIOUS
<1>1. ASSUME NEW i \in Bots, Attempt(i) PROVE CheckoutInv'
  BY <1>1, PrepareStep, AgentStep, PublishStep DEF Attempt
<1>2. ASSUME NEW i \in Bots, Retry(i) \/ Requeue(i) \/ LoseWorktree(i) \/ LoseCheckout(i)
                             \/ PruneCheckout(i) \/ LoseWorkspace(i)
      PROVE  CheckoutInv'
  BY <1>2, OperatorStep
<1>3. CASE ClosePull \/ DeleteBranch \/ AdvanceMain
  BY <1>3, WorldStep
<1>4. CASE UNCHANGED vars
  BY <1>4 DEF vars, CheckoutInv, TypeOK, Staged, Founded, RemoteIsVerified,
     BaselessIsClean
<1>5. QED
  BY <1>1, <1>2, <1>3, <1>4 DEF Next

-----------------------------------------------------------------------------
(* Theorems *)

\* The inductive invariant holds in every reachable state: what the position of
\* an attempt (engine.attempt) knows of its job and its private repository.
THEOREM CheckoutInvariant == Spec => []CheckoutInv
  BY InitInv, NextInv, PTL DEF Spec

\* Every variable has its type, in particular no attempt exceeds the budget.
THEOREM TypeCorrect == Spec => []TypeOK
<1>1. CheckoutInv => TypeOK
  BY DEF CheckoutInv
<1>2. QED
  BY <1>1, CheckoutInvariant, PTL

\* What is pushed has been verified (git.go verify, push), for any number of
\* installations and whatever moves HEAD in between.
THEOREM OnlyVerifiedIsPushed == Spec => []RemoteIsVerified
<1>1. CheckoutInv => RemoteIsVerified
  BY DEF CheckoutInv
<1>2. QED
  BY <1>1, CheckoutInvariant, PTL

\* A job without a starting commit has no branch and no worktree left over
\* (state.go Requeue, discardWork; git.go prepare), unless a requeue found no
\* management checkout and discarded nothing.
THEOREM FreshJobsAreClean == Spec => []BaselessIsClean
<1>1. CheckoutInv => BaselessIsClean
  BY DEF CheckoutInv
<1>2. QED
  BY <1>1, CheckoutInvariant, PTL

\* The starting commit changes only when requeue discards the job's work.
THEOREM BasesStand == Spec => BaseStands
<1>1. CheckoutInv /\ [Next]_vars
        => [\A i \in Bots : job[i].base # None /\ job'[i].base # job[i].base
              => job'[i].base = None /\ job'[i].gone = pull.n]_vars
  <2> SUFFICES ASSUME CheckoutInv, Next, NEW k \in Bots,
                      job[k].base # None, job'[k].base # job[k].base
               PROVE  job'[k].base = None /\ job'[k].gone = pull.n
    BY DEF vars
  <2>0. job \in [Bots -> Job] /\ job[k] \in Job /\ job'[k] # job[k]
    BY Parts DEF Shaped
  <2>1. PICK i \in Bots : \/ Reconcile(i) \/ Open(i) \/ Charge(i) \/ AgentBlocked(i)
                          \/ AgentSetupFails(i)
                          \/ FoundPull(i) \/ Create(i) \/ Retry(i) \/ Requeue(i)
    BY <2>0 DEF Next, Attempt, Agent, Reuse, AddWorktree, AddInterrupted,
       AgentCommits, AgentMerges, AgentLeavesEdits, AgentMisbehaves,
       AgentSolved, Verify, Recheck, Disturb, Push, Stop,
       LoseWorktree, LoseCheckout, PruneCheckout, LoseWorkspace, ClosePull,
       DeleteBranch, AdvanceMain
  <2>2. CASE Requeue(i)
    BY <2>0, <2>2 DEF Requeue, SetJob, NewJob, None
  <2>3. CASE Open(i)
    BY <2>0, <2>3 DEF Open, SetJob, Job
  <2>4. CASE Reconcile(i) \/ FoundPull(i)
    BY <2>0, <2>4 DEF Reconcile, FoundPull, Recorded, SetJob, Job
  <2>5. CASE AgentBlocked(i) \/ Retry(i)
    <3>1. PICK j : job' = [job EXCEPT ![i] = j] /\ j.base = job[i].base
      <4>1. job[i] \in Job
        BY <2>0
      <4>2. QED
        BY <2>5, <4>1 DEF AgentBlocked, Retry, SetJob, Job
    <3>2. QED
      BY <2>0, <3>1
  <2>6. CASE Create(i)
    BY <2>0, <2>6 DEF Create, SetJob, Job
  <2>7. CASE Charge(i)
    <3>1. job' = [job EXCEPT ![i] = [job[i] EXCEPT !.tries = job[i].tries + 1]]
      BY <2>7 DEF Charge, SetJob
    <3>2. CASE i = k
      BY <2>0, <3>1, <3>2 DEF Job
    <3>3. CASE i # k
      BY <2>0, <3>1, <3>3
    <3>4. QED
      BY <3>2, <3>3
  <2>8. CASE AgentSetupFails(i)
    <3>1. job' = [job EXCEPT ![i] = [job[i] EXCEPT !.tries = job[i].tries - 1]]
      BY <2>8 DEF AgentSetupFails, SetJob
    <3>2. CASE i = k
      BY <2>0, <3>1, <3>2 DEF Job
    <3>3. CASE i # k
      BY <2>0, <3>1, <3>3
    <3>4. QED
      BY <3>2, <3>3
  <2>9. QED
    BY <2>1, <2>2, <2>3, <2>4, <2>5, <2>6, <2>7, <2>8
<1>2. QED
  BY <1>1, CheckoutInvariant, PTL DEF Spec, BaseStands

\* What an attempt reports as submitted shows the commit that it verified, also
\* when other installations push to the same branch.
THEOREM SubmissionsAreVerified == Spec => SubmittedIsMine
<1>1. CheckoutInv /\ [Next]_vars
        => [\A i \in Bots :
              /\ pc[i] = "publish"
              /\ job[i].status = "pending" /\ job'[i].status = "submitted"
              => head[i] \in verified /\ pull'.head = head[i]]_vars
  <2> SUFFICES ASSUME CheckoutInv, Next, NEW k \in Bots, pc[k] = "publish",
                      job[k].status = "pending", job'[k].status = "submitted"
               PROVE  head[k] \in verified /\ pull'.head = head[k]
    BY DEF vars
  <2>0. job \in [Bots -> Job] /\ job[k] \in Job /\ job'[k] # job[k]
    BY Parts DEF Shaped
  <2>1. head[k] \in verified
    BY DEF CheckoutInv, Staged
  <2>2. PICK i \in Bots : \/ Reconcile(i) \/ Open(i) \/ Charge(i) \/ AgentBlocked(i)
                          \/ AgentSetupFails(i)
                          \/ FoundPull(i) \/ Create(i) \/ Retry(i) \/ Requeue(i)
    BY <2>0 DEF Next, Attempt, Agent, Reuse, AddWorktree, AddInterrupted,
       AgentCommits, AgentMerges, AgentLeavesEdits, AgentMisbehaves,
       AgentSolved, Verify, Recheck, Disturb, Push, Stop,
       LoseWorktree, LoseCheckout, PruneCheckout, LoseWorkspace, ClosePull,
       DeleteBranch, AdvanceMain
  <2>3. i = k
    BY <2>0, <2>2 DEF Reconcile, Open, Charge, AgentBlocked,
       AgentSetupFails, FoundPull, Create,
       Retry, Requeue, SetJob
  <2>4. CASE FoundPull(k)
    BY <2>1, <2>4 DEF FoundPull, HeadMatches, github
  <2>5. CASE Create(k)
    BY <2>0, <2>1, <2>5 DEF Create, CreatedMatches
  <2>6. FoundPull(k) \/ Create(k)
    BY <2>2, <2>3 DEF Reconcile, Open, Charge, AgentBlocked,
       AgentSetupFails, Retry, Requeue
  <2>7. QED
    BY <2>4, <2>5, <2>6
<1>2. QED
  BY <1>1, CheckoutInvariant, PTL DEF Spec, SubmittedIsMine

-----------------------------------------------------------------------------
(* The commit graph *)

\* The commits that exist, and sets of them that hold all their ancestors.
Made == {c \in Commits : anc[c] # {}}
Closed(S) == \A d \in S : d \in anc[d] /\ anc[d] \subseteq S

\* Being an ancestor is reflexive and transitive.
Ordered == \A c \in Made : c \in anc[c] /\ Closed(anc[c])

\* The commits one installation refers to.
Refs(i) == {repo[i].origin, repo[i].branch, job[i].base, head[i]}

\* No reference dangles.
Rooted ==
  /\ main \in Made /\ verified \subseteq Made
  /\ \A i \in Bots : Refs(i) \subseteq Made \cup {None}

GraphInv == Ordered /\ Rooted

\* A step leaves the graph alone or adds a commit on top of existing ones.
GraphStep ==
  \/ UNCHANGED anc
  \/ \E c \in Commits, S \in SUBSET Commits :
       /\ anc[c] = {} /\ Closed(S)
       /\ anc' = [anc EXCEPT ![c] = S \cup {c}]

\* No commit that exists gets other ancestors.
Kept == \A d \in Made : d \in Made' /\ anc'[d] = anc[d]

\* Such a step keeps the graph in order.
LEMMA Extension ==
  ASSUME anc \in [Commits -> SUBSET Commits], Ordered, GraphStep
  PROVE  Ordered' /\ Kept
<1>1. CASE UNCHANGED anc
  BY <1>1 DEF Ordered, Closed, Made, Kept
<1>2. CASE \E c \in Commits, S \in SUBSET Commits :
             /\ anc[c] = {} /\ Closed(S)
             /\ anc' = [anc EXCEPT ![c] = S \cup {c}]
  <2>1. PICK c \in Commits, S \in SUBSET Commits :
             /\ anc[c] = {} /\ Closed(S)
             /\ anc' = [anc EXCEPT ![c] = S \cup {c}]
    BY <1>2
  <2>2. /\ anc'[c] = S \cup {c}
        /\ \A d \in Commits : d # c => anc'[d] = anc[d]
        /\ c \notin S /\ S \subseteq Commits
    BY <2>1 DEF Closed
  <2>3. Kept
    BY <2>1, <2>2 DEF Kept, Made
  <2>4. \A T \in SUBSET Commits : Closed(T) => \A d \in T : d \in anc'[d] /\ anc'[d] \subseteq T
    BY <2>1, <2>2 DEF Closed
  <2>5. ASSUME NEW d \in Commits, anc'[d] # {}
        PROVE  d \in anc'[d] /\ \A e \in anc'[d] : e \in anc'[e] /\ anc'[e] \subseteq anc'[d]
    <3>1. CASE d = c
      BY <2>1, <2>2, <2>4, <3>1
    <3>2. CASE d # c
      <4>1. d \in Made /\ anc'[d] = anc[d] /\ anc[d] \in SUBSET Commits
        BY <2>2, <2>5, <3>2 DEF Made
      <4>2. QED
        BY <2>4, <4>1 DEF Ordered
    <3>3. QED
      BY <3>1, <3>2
  <2>6. QED
    BY <2>3, <2>5 DEF Ordered, Made, Closed
<1>3. QED
  BY <1>1, <1>2 DEF GraphStep

\* What a commit is made on top of is closed.
LEMMA Ancestry ==
  ASSUME anc \in [Commits -> SUBSET Commits], Ordered, NEW c \in Made
  PROVE  c \in anc[c] /\ Closed(anc[c]) /\ anc[c] \in SUBSET Commits /\ anc[c] \subseteq Made
  BY DEF Ordered, Closed, Made

\* So is what a merge is made on top of.
LEMMA Unions == \A S, T : Closed(S) /\ Closed(T) => Closed(S \cup T)
  BY DEF Closed

\* An attempt that has a branch has one that exists.
LEMMA BranchMade ==
  ASSUME CheckoutInv, GraphInv, NEW i \in Bots, repo[i].branch # None
  PROVE  repo[i].branch \in Made
  BY DEF GraphInv, Rooted, Refs

\* A commit on an installation's branch is such a step ...
LEMMA CommitGraph ==
  ASSUME CheckoutInv, GraphInv, NEW i \in Bots, NEW c \in Commits,
         repo[i].branch # None, CommitOnBranch(i, c)
  PROVE  GraphStep
<1>1. anc \in [Commits -> SUBSET Commits] /\ Ordered /\ repo[i].branch \in Made
  BY BranchMade DEF CheckoutInv, TypeOK, GraphInv
<1>2. Closed(anc[repo[i].branch]) /\ anc[repo[i].branch] \in SUBSET Commits
  BY <1>1, Ancestry
<1>3. anc[c] = {} /\ anc' = [anc EXCEPT ![c] = anc[repo[i].branch] \cup {c}]
  BY DEF CommitOnBranch, Fresh
<1>4. QED
  BY <1>2, <1>3 DEF GraphStep

\* ... and so is every step.
LEMMA GraphSteps ==
  ASSUME CheckoutInv, GraphInv, Next
  PROVE  GraphStep
<1>0. anc \in [Commits -> SUBSET Commits] /\ Ordered /\ main \in Made
  BY DEF CheckoutInv, TypeOK, GraphInv, Rooted
<1>1. ASSUME NEW i \in Bots, AgentCommits(i) PROVE GraphStep
  <2>1. repo[i].branch # None
    BY <1>1 DEF CheckoutInv, Staged, AgentCommits
  <2>2. QED
    BY <1>1, <2>1, CommitGraph DEF AgentCommits
<1>2. ASSUME NEW i \in Bots, AgentMerges(i) PROVE GraphStep
  <2>1. repo[i].branch # None
    BY <1>2 DEF CheckoutInv, Staged, AgentMerges
  <2>2. CASE UNCHANGED anc
    BY <2>2 DEF GraphStep
  <2>3. CASE \E c \in Commits :
               /\ Fresh(c)
               /\ anc' = [anc EXCEPT ![c] = anc[repo[i].branch] \cup anc[main] \cup {c}]
    <3>1. Closed(anc[repo[i].branch]) /\ anc[repo[i].branch] \in SUBSET Commits
      BY <1>0, <2>1, BranchMade, Ancestry
    <3>2. Closed(anc[main]) /\ anc[main] \in SUBSET Commits
      BY <1>0, Ancestry
    <3>3. /\ Closed(anc[repo[i].branch] \cup anc[main])
          /\ anc[repo[i].branch] \cup anc[main] \in SUBSET Commits
      BY <3>1, <3>2, Unions
    <3>4. QED
      BY <2>3, <3>3 DEF GraphStep, Fresh
  <2>4. QED
    BY <1>2, <2>2, <2>3 DEF AgentMerges
<1>3. ASSUME NEW i \in Bots, Disturb(i) PROVE GraphStep
  <2>1. CASE UNCHANGED anc
    BY <2>1 DEF GraphStep
  <2>2. CASE \E c \in Commits : CommitOnBranch(i, c)
    <3>1. repo[i].branch # None
      BY <1>3 DEF CheckoutInv, Staged, Disturb
    <3>2. QED
      BY <2>2, <3>1, CommitGraph
  <2>3. QED
    BY <1>3, <2>1, <2>2 DEF Disturb, commits
<1>4. CASE AdvanceMain
  <2>1. Closed(anc[main]) /\ anc[main] \in SUBSET Commits
    BY <1>0, Ancestry
  <2>2. QED
    BY <1>4, <2>1 DEF AdvanceMain, GraphStep, Fresh
<1>5. \/ UNCHANGED anc \/ AdvanceMain
      \/ \E i \in Bots : AgentCommits(i) \/ AgentMerges(i) \/ Disturb(i)
  BY DEF Next, Attempt, Agent, Reconcile, Open, Reuse, AddWorktree, AddInterrupted,
     Charge, AgentLeavesEdits, AgentMisbehaves, AgentSolved, AgentBlocked,
     AgentSetupFails, Verify, Recheck, Push, FoundPull, Create, Stop, Retry,
     Requeue, LoseWorktree, LoseCheckout, PruneCheckout, LoseWorkspace, ClosePull,
     DeleteBranch, commits
<1>6. QED
  BY <1>1, <1>2, <1>3, <1>4, <1>5 DEF GraphStep

\* The step gives installation i the job J, the repository R and the head H.
Moves(i, J, R, H) ==
  /\ job' = [job EXCEPT ![i] = J] /\ repo' = [repo EXCEPT ![i] = R]
  /\ head' = [head EXCEPT ![i] = H]
  /\ {R.origin, R.branch, J.base, H} \subseteq Made' \cup {None}

\* Such a step leaves no installation with a dangling reference.
LEMMA RefsLocal ==
  ASSUME CheckoutInv, GraphInv, Kept, NEW i \in Bots,
         \E J, R, H : Moves(i, J, R, H)
  PROVE  \A k \in Bots : Refs(k)' \subseteq Made' \cup {None}
<1>1. /\ job \in [Bots -> Job] /\ repo \in [Bots -> Repo] /\ head \in [Bots -> Ref]
      /\ \A k \in Bots : Refs(k) \subseteq Made \cup {None}
      /\ Made \subseteq Made'
  BY DEF CheckoutInv, TypeOK, GraphInv, Rooted, Kept
<1>2. PICK J, R, H : Moves(i, J, R, H)
  OBVIOUS
<1>3. ASSUME NEW k \in Bots PROVE Refs(k)' \subseteq Made' \cup {None}
  <2>1. CASE k = i
    <3>1. job'[i] = J /\ repo'[i] = R /\ head'[i] = H
      BY <1>1, <1>2 DEF Moves
    <3>2. QED
      BY <1>2, <2>1, <3>1 DEF Refs, Moves
  <2>2. CASE k # i
    <3>1. job'[k] = job[k] /\ repo'[k] = repo[k] /\ head'[k] = head[k]
      BY <1>1, <1>2, <2>2 DEF Moves
    <3>2. Refs(k)' = Refs(k)
      BY <3>1 DEF Refs
    <3>3. QED
      BY <1>1, <3>2
  <2>3. QED
    BY <2>1, <2>2
<1>4. QED
  BY <1>3

\* Every step of an installation is one: it keeps its references or takes
\* others that exist.
LEMMA RefsSteps ==
  ASSUME CheckoutInv, GraphInv, Kept, Ordered', NEW i \in Bots,
         Attempt(i) \/ Retry(i) \/ Requeue(i) \/ LoseWorktree(i) \/ LoseCheckout(i)
         \/ PruneCheckout(i) \/ LoseWorkspace(i)
  PROVE  \E J, R, H : Moves(i, J, R, H)
<1>0. /\ WorldOK /\ BotOK(job[i], repo[i], pc[i], head[i], verified, pull.n)
      /\ job \in [Bots -> Job] /\ repo \in [Bots -> Repo] /\ head \in [Bots -> Ref]
      /\ job[i] \in Job /\ repo[i] \in Repo /\ pc \in [Bots -> Stages]
  BY Entry
<1>1. /\ {repo[i].origin, repo[i].branch, job[i].base, head[i], main, remote} \subseteq Made \cup {None}
      /\ Made \subseteq Made'
  BY <1>0 DEF GraphInv, Rooted, Refs, Kept, WorldOK
<1>2. /\ [job EXCEPT ![i] = job[i]] = job /\ [repo EXCEPT ![i] = repo[i]] = repo
      /\ [head EXCEPT ![i] = head[i]] = head
  BY <1>0
<1>3. ASSUME NEW J, job' = [job EXCEPT ![i] = J], J.base = job[i].base,
             UNCHANGED <<repo, head>>
      PROVE  \E JJ, R, H : Moves(i, JJ, R, H)
  <2>1. Moves(i, J, repo[i], head[i])
    BY <1>1, <1>2, <1>3 DEF Moves
  <2>2. QED
    BY <2>1
<1>4. ASSUME NEW R, repo' = [repo EXCEPT ![i] = R], UNCHANGED <<job, head>>,
             {R.origin, R.branch} \subseteq Made' \cup {None}
      PROVE  \E J, RR, H : Moves(i, J, RR, H)
  <2>1. Moves(i, job[i], R, head[i])
    BY <1>1, <1>2, <1>4 DEF Moves
  <2>2. QED
    BY <2>1
<1>5. ASSUME UNCHANGED <<job, repo, head>>
      PROVE  \E J, RR, H : Moves(i, J, RR, H)
  <2>1. Moves(i, job[i], repo[i], head[i])
    BY <1>1, <1>2, <1>5 DEF Moves
  <2>2. QED
    BY <2>1
<1>6. CASE Reuse(i) \/ AgentSolved(i) \/ Recheck(i) \/ Push(i) \/ Stop(i)
  BY <1>5, <1>6 DEF Reuse, AgentSolved, Recheck, Push, Stop
<1>7. CASE Reconcile(i) \/ FoundPull(i)
  <2>1. Recorded(i).base = job[i].base /\ job' = [job EXCEPT ![i] = Recorded(i)]
    BY <1>0, <1>7 DEF Recorded, Job, Reconcile, FoundPull, SetJob
  <2>2. QED
    BY <1>3, <1>7, <2>1 DEF Reconcile, FoundPull
<1>8. CASE Charge(i)
  <2>1. [job[i] EXCEPT !.tries = @ + 1].base = job[i].base
    BY <1>0 DEF Job
  <2>2. job' = [job EXCEPT ![i] = [job[i] EXCEPT !.tries = @ + 1]]
    BY <1>8 DEF Charge, SetJob
  <2>3. QED
    BY <1>3, <1>8, <2>1, <2>2 DEF Charge
<1>8a. CASE AgentSetupFails(i)
  <2>1. [job[i] EXCEPT !.tries = @ - 1].base = job[i].base
    BY <1>0 DEF Job
  <2>2. job' = [job EXCEPT ![i] = [job[i] EXCEPT !.tries = @ - 1]]
    BY <1>8a DEF AgentSetupFails, SetJob
  <2>3. QED
    BY <1>3, <1>8a, <2>1, <2>2 DEF AgentSetupFails
<1>8b. CASE AgentBlocked(i)
  <2>1. [job[i] EXCEPT !.status = "blocked"].base = job[i].base
    BY <1>0 DEF Job
  <2>2. QED
    BY <1>3, <1>8b, <2>1 DEF AgentBlocked, SetJob
<1>8c. CASE Retry(i)
  <2>1. [job[i] EXCEPT !.status = "pending", !.tries = 0].base = job[i].base
    BY <1>0 DEF Job
  <2>2. QED
    BY <1>3, <1>8c, <2>1 DEF Retry, SetJob
<1>9. CASE Create(i)
  <2>1. CASE job' = [job EXCEPT ![i] = [job[i] EXCEPT !.status = "submitted"]]
    <3>1. [job[i] EXCEPT !.status = "submitted"].base = job[i].base
      BY <1>0 DEF Job
    <3>2. QED
      BY <1>3, <1>9, <2>1, <3>1 DEF Create
  <2>2. CASE UNCHANGED job
    BY <1>5, <1>9, <2>2 DEF Create
  <2>3. QED
    BY <1>9, <2>1, <2>2 DEF Create, SetJob
<1>10. CASE Open(i)
  <2>1. /\ [repo[i] EXCEPT !.origin = main, !.dir = "here"].origin = main
        /\ [repo[i] EXCEPT !.origin = main, !.dir = "here"].branch = repo[i].branch
        /\ [job[i] EXCEPT !.base = IF @ = None THEN main ELSE @].base \in {job[i].base, main}
    BY <1>0 DEF Job, Repo
  <2>2. Moves(i, [job[i] EXCEPT !.base = IF @ = None THEN main ELSE @],
             [repo[i] EXCEPT !.origin = main, !.dir = "here"], head[i])
    BY <1>1, <1>2, <1>10, <2>1 DEF Open, Opens, SetJob, SetRepo, Moves
  <2>3. QED
    BY <2>2
<1>11. CASE AddWorktree(i) \/ AddInterrupted(i)
  <2>1. StartPoint(i) \in Made \cup {None}
    BY <1>1 DEF StartPoint
  <2> DEFINE Added(t, q) == [repo[i] EXCEPT !.branch = StartPoint(i), !.tree = t,
                                            !.on = TRUE, !.clean = q]
  <2>2. \A t, q : Added(t, q).origin = repo[i].origin /\ Added(t, q).branch = StartPoint(i)
    BY <1>0 DEF Repo
  <2>3. PICK t, q : repo' = [repo EXCEPT ![i] = Added(t, q)]
    <3>1. CASE AddWorktree(i)
      BY <3>1 DEF AddWorktree, SetRepo
    <3>2. CASE AddInterrupted(i)
      BY <3>2 DEF AddInterrupted, SetRepo
    <3>3. QED
      BY <1>11, <3>1, <3>2
  <2>4. UNCHANGED <<job, head>>
    BY <1>11 DEF AddWorktree, AddInterrupted
  <2> HIDE DEF Added
  <2>5. {Added(t, q).origin, Added(t, q).branch} \subseteq Made' \cup {None}
    BY <1>1, <2>1, <2>2
  <2>6. QED
    BY <1>4, <2>3, <2>4, <2>5
<1>12. ASSUME NEW c \in Commits, CommitOnBranch(i, c), UNCHANGED <<job, head>>
       PROVE  \E J, RR, H : Moves(i, J, RR, H)
  <2>1. c \in Made'
    BY <1>0, <1>12 DEF CommitOnBranch, Made, WorldOK
  <2>2. repo' = [repo EXCEPT ![i] = [repo[i] EXCEPT !.branch = c, !.clean = TRUE]]
    BY <1>12 DEF CommitOnBranch, SetRepo
  <2>3. /\ [repo[i] EXCEPT !.branch = c, !.clean = TRUE].branch = c
        /\ [repo[i] EXCEPT !.branch = c, !.clean = TRUE].origin = repo[i].origin
    BY <1>0 DEF Repo
  <2>4. QED
    BY <1>1, <1>4, <1>12, <2>1, <2>2, <2>3
<1>13. CASE AgentCommits(i)
  BY <1>12, <1>13 DEF AgentCommits
<1>14. CASE Disturb(i)
  <2>1. CASE \E c \in Commits : CommitOnBranch(i, c)
    BY <1>12, <1>14, <2>1 DEF Disturb
  <2>2. CASE SetRepo(i, [repo[i] EXCEPT !.clean = FALSE])
    <3>1. /\ [repo[i] EXCEPT !.clean = FALSE].branch = repo[i].branch
          /\ [repo[i] EXCEPT !.clean = FALSE].origin = repo[i].origin
      BY <1>0 DEF Repo
    <3>2. QED
      BY <1>1, <1>4, <1>14, <2>2, <3>1 DEF Disturb, SetRepo
  <2>3. QED
    BY <1>14, <2>1, <2>2 DEF Disturb
<1>15. CASE AgentLeavesEdits(i)
  <2>1. /\ [repo[i] EXCEPT !.clean = FALSE].branch = repo[i].branch
        /\ [repo[i] EXCEPT !.clean = FALSE].origin = repo[i].origin
    BY <1>0 DEF Repo
  <2>2. QED
    BY <1>1, <1>4, <1>15, <2>1 DEF AgentLeavesEdits, SetRepo
<1>16. CASE AgentMerges(i)
  <2> DEFINE Merged(c) == [repo[i] EXCEPT !.origin = main, !.branch = c]
  <2>1. PICK c : /\ repo' = [repo EXCEPT ![i] = Merged(c)]
                 /\ \/ c = main
                    \/ c \in Commits /\ anc' = [anc EXCEPT ![c] = anc[repo[i].branch] \cup anc[main] \cup {c}]
    BY <1>16 DEF AgentMerges, SetRepo
  <2>2. c \in Made' \cup {None}
    <3>1. CASE c = main
      BY <1>1, <3>1
    <3>2. CASE c \in Commits /\ anc' = [anc EXCEPT ![c] = anc[repo[i].branch] \cup anc[main] \cup {c}]
      <4>1. anc'[c] # {}
        BY <1>0, <3>2 DEF WorldOK
      <4>2. QED
        BY <3>2, <4>1 DEF Made
    <3>3. QED
      BY <2>1, <3>1, <3>2
  <2>3. Merged(c).branch = c /\ Merged(c).origin = main
    BY <1>0 DEF Repo
  <2>4. UNCHANGED <<job, head>>
    BY <1>16 DEF AgentMerges
  <2> HIDE DEF Merged
  <2>5. QED
    BY <1>1, <1>4, <2>1, <2>2, <2>3, <2>4
<1>17. CASE AgentMisbehaves(i)
  <2>0. UNCHANGED <<job, head>>
    BY <1>17 DEF AgentMisbehaves
  <2>1. CASE \E c \in anc[repo[i].branch] \cup anc[main] :
               SetRepo(i, [repo[i] EXCEPT !.branch = c, !.on = TRUE, !.clean = TRUE])
    <3> DEFINE Moved(c) == [repo[i] EXCEPT !.branch = c, !.on = TRUE, !.clean = TRUE]
    <3>1. PICK c \in anc[repo[i].branch] \cup anc[main] : repo' = [repo EXCEPT ![i] = Moved(c)]
      BY <2>1 DEF SetRepo
    <3>2. main \in Made /\ repo[i].branch \in Made
      BY <1>0, <1>17, BranchMade DEF GraphInv, Rooted, BotOK, AgentMisbehaves
    <3>3. c \in Made
      BY <1>0, <3>1, <3>2, Ancestry DEF GraphInv, WorldOK
    <3>4. Moved(c).branch = c /\ Moved(c).origin = repo[i].origin
      BY <1>0 DEF Repo
    <3> HIDE DEF Moved
    <3>5. QED
      BY <1>1, <1>4, <2>0, <3>1, <3>3, <3>4
  <2>2. CASE SetRepo(i, [repo[i] EXCEPT !.on = FALSE])
    <3> DEFINE R == [repo[i] EXCEPT !.on = FALSE]
    <3>1. R.branch = repo[i].branch /\ R.origin = repo[i].origin
      BY <1>0 DEF Repo
    <3>2. repo' = [repo EXCEPT ![i] = R]
      BY <2>2 DEF SetRepo
    <3> HIDE DEF R
    <3>3. QED
      BY <1>1, <1>4, <2>0, <3>1, <3>2
  <2>3. QED
    BY <1>17, <2>1, <2>2 DEF AgentMisbehaves
<1>18. CASE Verify(i)
  <2>1. Moves(i, job[i], repo[i], repo[i].branch)
    BY <1>0, <1>1, <1>2, <1>18 DEF Verify, Moves
  <2>2. QED
    BY <2>1
<1>19. CASE Requeue(i)
  <2>1. PICK R : /\ repo' = [repo EXCEPT ![i] = R] /\ R.origin = repo[i].origin
                 /\ R.branch \in {repo[i].branch, None}
    <3>1. CASE SetRepo(i, Discarded(i))
      BY <1>0, <3>1, DiscardedRefs DEF SetRepo
    <3>2. CASE SetRepo(i, [repo[i] EXCEPT !.tree = "none"])
      <4>1. /\ [repo[i] EXCEPT !.tree = "none"].origin = repo[i].origin
            /\ [repo[i] EXCEPT !.tree = "none"].branch = repo[i].branch
        BY <1>0 DEF Repo
      <4>2. QED
        BY <3>2, <4>1 DEF SetRepo
    <3>3. QED
      BY <1>19, <3>1, <3>2 DEF Requeue
  <2>2. PICK J : job' = [job EXCEPT ![i] = J] /\ J.base \in {job[i].base, None}
    BY <1>0, <1>2, <1>19 DEF Requeue, NewJob, SetJob
  <2>3. Moves(i, J, R, head[i])
    BY <1>1, <1>2, <1>19, <2>1, <2>2 DEF Requeue, Moves
  <2>4. QED
    BY <2>3
<1>20. CASE LoseWorktree(i)
  <2>1. /\ [repo[i] EXCEPT !.tree = "missing"].branch = repo[i].branch
        /\ [repo[i] EXCEPT !.tree = "missing"].origin = repo[i].origin
    BY <1>0 DEF Repo
  <2>2. QED
    BY <1>1, <1>4, <1>20, <2>1 DEF LoseWorktree, SetRepo
<1>20a. CASE LoseCheckout(i)
  <2>1. /\ [repo[i] EXCEPT !.dir = "missing"].branch = repo[i].branch
        /\ [repo[i] EXCEPT !.dir = "missing"].origin = repo[i].origin
    BY <1>0 DEF Repo
  <2>2. QED
    BY <1>1, <1>4, <1>20a, <2>1 DEF LoseCheckout, SetRepo
<1>20b. CASE PruneCheckout(i)
  <2> DEFINE R == [repo[i] EXCEPT !.dir = "none",
                                  !.tree = IF @ = "missing" THEN "none" ELSE @]
  <2>1. R.branch = repo[i].branch /\ R.origin = repo[i].origin
    BY <1>0 DEF Repo
  <2>2. repo' = [repo EXCEPT ![i] = R] /\ UNCHANGED <<job, head>>
    BY <1>20b DEF PruneCheckout, SetRepo
  <2> HIDE DEF R
  <2>3. QED
    BY <1>1, <1>4, <2>1, <2>2
<1>21. CASE LoseWorkspace(i)
  <2>1. NewRepo.branch = None /\ NewRepo.origin = None
    BY DEF NewRepo
  <2>2. QED
    BY <1>1, <1>4, <1>21, <2>1 DEF LoseWorkspace, SetRepo
<1>22. QED
  BY <1>6, <1>7, <1>8, <1>8a, <1>8b, <1>8c, <1>9, <1>10, <1>11, <1>13, <1>14, <1>15, <1>16, <1>17,
     <1>18, <1>19, <1>20, <1>20a, <1>20b, <1>21 DEF Attempt, Agent

\* The invariant of the graph holds initially ...
LEMMA GraphInit == Init => GraphInv
<1> SUFFICES ASSUME Init PROVE GraphInv
  OBVIOUS
<1>1. 1 \in Commits /\ anc = [c \in Commits |-> IF c = 1 THEN {1} ELSE {}]
  BY DEF Init, Commits
<1>2. Made = {1} /\ anc[1] = {1}
  BY <1>1 DEF Made
<1>3. Ordered
  BY <1>2 DEF Ordered, Closed
<1>4. Rooted
  BY <1>2 DEF Init, Rooted, Refs, NewJob, NewRepo
<1>5. QED
  BY <1>3, <1>4 DEF GraphInv

\* ... and every step preserves it.
LEMMA GraphNext == CheckoutInv /\ GraphInv /\ [Next]_vars => GraphInv'
<1> SUFFICES ASSUME CheckoutInv, GraphInv, [Next]_vars PROVE GraphInv'
  OBVIOUS
<1>1. CASE UNCHANGED vars
  BY <1>1 DEF vars, GraphInv, Ordered, Closed, Rooted, Refs, Made
<1>2. CASE Next
  <2>1. Ordered' /\ Kept
    <3>1. anc \in [Commits -> SUBSET Commits] /\ Ordered
      BY DEF CheckoutInv, TypeOK, GraphInv
    <3>2. QED
      BY <1>2, <3>1, GraphSteps, Extension
  <2>2. main' \in Made'
    <3>1. CASE AdvanceMain
      <4>1. anc \in [Commits -> SUBSET Commits]
        BY DEF CheckoutInv, TypeOK
      <4>2. QED
        BY <3>1, <4>1 DEF AdvanceMain, Made
    <3>2. CASE ~AdvanceMain
      <4>1. UNCHANGED main
        BY <1>2, <3>2 DEF Next, Attempt, Agent, Reconcile, Open, Reuse, AddWorktree,
           AddInterrupted, Charge, AgentCommits, AgentMerges, AgentLeavesEdits,
           AgentMisbehaves, AgentSolved, AgentBlocked, AgentSetupFails, Verify,
           Recheck, Disturb, Push, FoundPull, Create, Stop, Retry, Requeue,
           LoseWorktree, LoseCheckout, PruneCheckout, LoseWorkspace, ClosePull,
           DeleteBranch, github
      <4>2. QED
        BY <2>1, <4>1 DEF GraphInv, Rooted, Kept
    <3>3. QED
      BY <3>1, <3>2
  <2>3. verified' \subseteq Made'
    <3>1. verified \subseteq Made /\ Made \subseteq Made'
      BY <2>1 DEF GraphInv, Rooted, Kept
    <3>2. ASSUME NEW i \in Bots, Verify(i) PROVE verified' \subseteq Made'
      <4>1. repo[i].branch \in Made
        BY <3>2, BranchMade DEF Verify, CheckoutInv, Staged
      <4>2. QED
        BY <3>1, <3>2, <4>1 DEF Verify
    <3>3. ASSUME NEW i \in Bots, Recheck(i) PROVE verified' \subseteq Made'
      <4>1. head[i] \in Made
        BY <3>3 DEF Recheck, CheckoutInv, Staged, GraphInv, Rooted, Refs
      <4>2. QED
        BY <3>1, <3>3, <4>1 DEF Recheck
    <3>4. UNCHANGED verified \/ \E i \in Bots : Verify(i) \/ Recheck(i)
      BY <1>2 DEF Next, Attempt, Agent, Reconcile, Open, Reuse, AddWorktree,
         AddInterrupted, Charge, AgentCommits, AgentMerges, AgentLeavesEdits,
         AgentMisbehaves, AgentSolved, AgentBlocked, AgentSetupFails,
         Disturb, Push, FoundPull, Create, Stop, Retry, Requeue,
         LoseWorktree, LoseCheckout, PruneCheckout, LoseWorkspace, ClosePull,
         DeleteBranch, AdvanceMain
    <3>5. QED
      BY <3>1, <3>2, <3>3, <3>4
  <2>4. \A k \in Bots : Refs(k)' \subseteq Made' \cup {None}
    <3>1. ASSUME NEW i \in Bots,
                 Attempt(i) \/ Retry(i) \/ Requeue(i) \/ LoseWorktree(i) \/ LoseCheckout(i)
                 \/ PruneCheckout(i) \/ LoseWorkspace(i)
          PROVE  \A k \in Bots : Refs(k)' \subseteq Made' \cup {None}
      BY <2>1, <3>1, RefsSteps, RefsLocal
    <3>2. CASE ClosePull \/ DeleteBranch \/ AdvanceMain
      <4>1. \A k \in Bots : Refs(k)' = Refs(k)
        BY <3>2 DEF ClosePull, DeleteBranch, AdvanceMain, Refs
      <4>2. QED
        BY <2>1, <4>1 DEF GraphInv, Rooted, Kept
    <3>3. QED
      BY <1>2, <3>1, <3>2 DEF Next
  <2>5. QED
    BY <2>1, <2>2, <2>3, <2>4 DEF GraphInv, Rooted
<1>3. QED
  BY <1>1, <1>2

\* Every commit that a job, a private repository or GitHub refers to exists, and
\* the ancestors of a commit never change (git.go open, prepare, push): what a
\* reference named stays reachable from it, with unruly agents and any number of
\* installations.
THEOREM GraphIsSound == Spec => []GraphInv
  BY GraphInit, GraphNext, CheckoutInvariant, PTL DEF Spec

-----------------------------------------------------------------------------
(* Recovery of what was pushed *)

\* One installation has the issue to itself.
Alone == \A i, j \in Bots : i = j

\* What an attempt is about to push is on its branch.
Carried == \A i \in Bots : pc[i] \in {"recheck", "push"} => head[i] \in anc[repo[i].branch]

\* A pull request that exists is counted.
Counted == pull.state # "none" => pull.n > 0

\* The inductive invariant: without the order of the graph a merge could lose
\* what was pushed, without Carried the push itself, without Counted a requeue.
RecoveryInv == CheckoutInv /\ GraphInv /\ Carried /\ Counted /\ PushedIsRecovered

\* What the property says of that installation, now and after a step.
LEMMA Recovered ==
  ASSUME Alone, NEW i \in Bots
  PROVE  PushedIsRecovered <=>
           (job[i].gone = 0 /\ repo[i].branch # None /\ remote # None
              => remote \in anc[repo[i].branch])
<1>1. \A k \in Bots : k = i
  BY DEF Alone
<1>2. QED
  BY <1>1 DEF PushedIsRecovered, WorkContainsPushed

LEMMA RecoveredNext ==
  ASSUME Alone, NEW i \in Bots
  PROVE  PushedIsRecovered' <=>
           (job'[i].gone = 0 /\ repo'[i].branch # None /\ remote' # None
              => remote' \in anc'[repo'[i].branch])
<1>1. \A k \in Bots : k = i
  BY DEF Alone
<1>2. QED
  BY <1>1 DEF PushedIsRecovered, WorkContainsPushed

\* The branch goes on: what was on it still is.
GoesOn(i) ==
  repo'[i].branch # None =>
    repo[i].branch # None /\ anc[repo[i].branch] \subseteq anc'[repo'[i].branch]

\* The steps that leave graph and branch alone.
LEMMA SameBranch ==
  ASSUME CheckoutInv, NEW i \in Bots,
         \/ Reconcile(i) \/ Open(i) \/ Reuse(i) \/ Charge(i) \/ AgentLeavesEdits(i)
         \/ AgentSolved(i) \/ AgentBlocked(i) \/ AgentSetupFails(i) \/ Verify(i)
         \/ Recheck(i) \/ Push(i) \/ FoundPull(i) \/ Create(i) \/ Stop(i) \/ Retry(i)
         \/ LoseWorktree(i) \/ LoseCheckout(i) \/ PruneCheckout(i)
  PROVE  /\ GoesOn(i) /\ UNCHANGED anc
         /\ repo'[i].branch = repo[i].branch /\ job'[i].gone = job[i].gone
<1>0. /\ job \in [Bots -> Job] /\ repo \in [Bots -> Repo]
      /\ job[i] \in Job /\ repo[i] \in Repo
  BY Entry
<1>1. UNCHANGED anc
  BY DEF Reconcile, Open, Reuse, Charge, AgentLeavesEdits, AgentSolved, AgentBlocked,
     AgentSetupFails, Verify, Recheck, Push, FoundPull, Create, Stop, Retry,
     LoseWorktree, LoseCheckout, PruneCheckout, commits
<1>2. repo'[i].branch = repo[i].branch
  <2>1. CASE Open(i)
    BY <1>0, <2>1 DEF Open, Opens, SetRepo, Repo
  <2>2. CASE AgentLeavesEdits(i)
    BY <1>0, <2>2 DEF AgentLeavesEdits, SetRepo, Repo
  <2>3. CASE LoseWorktree(i) \/ LoseCheckout(i)
    BY <1>0, <2>3 DEF LoseWorktree, LoseCheckout, SetRepo, Repo
  <2>3a. CASE PruneCheckout(i)
    <3> DEFINE R == [repo[i] EXCEPT !.dir = "none",
                                    !.tree = IF @ = "missing" THEN "none" ELSE @]
    <3>1. R.branch = repo[i].branch
      BY <1>0 DEF Repo
    <3>2. repo' = [repo EXCEPT ![i] = R]
      BY <2>3a DEF PruneCheckout, SetRepo
    <3> HIDE DEF R
    <3>3. QED
      BY <1>0, <3>1, <3>2
  <2>4. CASE UNCHANGED repo
    BY <2>4
  <2>5. QED
    BY <2>1, <2>2, <2>3, <2>3a, <2>4 DEF Reconcile, Reuse, Charge, AgentSolved,
       AgentBlocked,
       AgentSetupFails, Verify, Recheck, Push, FoundPull, Create, Stop, Retry
<1>3. job'[i].gone = job[i].gone
  <2>1. CASE Reconcile(i) \/ FoundPull(i)
    BY <1>0, <2>1 DEF Reconcile, FoundPull, Recorded, SetJob, Job
  <2>2. CASE Open(i)
    BY <1>0, <2>2 DEF Open, SetJob, Job
  <2>3. CASE Charge(i)
    <3>1. [job[i] EXCEPT !.tries = @ + 1].gone = job[i].gone
      BY <1>0 DEF Job
    <3>2. job' = [job EXCEPT ![i] = [job[i] EXCEPT !.tries = @ + 1]]
      BY <2>3 DEF Charge, SetJob
    <3>3. QED
      BY <1>0, <3>1, <3>2
  <2>4. CASE AgentSetupFails(i)
    <3>1. [job[i] EXCEPT !.tries = @ - 1].gone = job[i].gone
      BY <1>0 DEF Job
    <3>2. job' = [job EXCEPT ![i] = [job[i] EXCEPT !.tries = @ - 1]]
      BY <2>4 DEF AgentSetupFails, SetJob
    <3>3. QED
      BY <1>0, <3>1, <3>2
  <2>5. CASE AgentBlocked(i)
    BY <1>0, <2>5 DEF AgentBlocked, SetJob, Job
  <2>6. CASE Create(i)
    BY <1>0, <2>6 DEF Create, SetJob, Job
  <2>7. CASE Retry(i)
    BY <1>0, <2>7 DEF Retry, SetJob, Job
  <2>8. CASE UNCHANGED job
    BY <2>8
  <2>9. QED
    BY <2>1, <2>2, <2>3, <2>4, <2>5, <2>6, <2>7, <2>8 DEF Reuse, AgentLeavesEdits,
       AgentSolved, Verify, Recheck, Push, Stop, LoseWorktree, LoseCheckout,
       PruneCheckout
<1>4. QED
  BY <1>1, <1>2, <1>3 DEF GoesOn

\* A commit on the branch leaves what was on it.
LEMMA CommitGoesOn ==
  ASSUME CheckoutInv, GraphInv, Kept, NEW i \in Bots, NEW c \in Commits,
         repo[i].branch # None, CommitOnBranch(i, c)
  PROVE  GoesOn(i) /\ anc[repo[i].branch] \subseteq anc'[repo'[i].branch]
<1>1. /\ anc \in [Commits -> SUBSET Commits] /\ repo \in [Bots -> Repo] /\ repo[i] \in Repo
  BY DEF CheckoutInv, TypeOK
<1>2. repo'[i].branch = c
  BY <1>1 DEF CommitOnBranch, SetRepo, Repo
<1>3. anc'[c] = anc[repo[i].branch] \cup {c}
  BY <1>1 DEF CommitOnBranch
<1>4. QED
  BY <1>2, <1>3 DEF GoesOn

\* So does a merge of the base branch, also as a fast-forward.
LEMMA MergeGoesOn ==
  ASSUME CheckoutInv, GraphInv, NEW i \in Bots, AgentMerges(i)
  PROVE  GoesOn(i)
<1>1. /\ anc \in [Commits -> SUBSET Commits] /\ repo \in [Bots -> Repo] /\ repo[i] \in Repo
      /\ main \in Made /\ Ordered
  BY DEF CheckoutInv, TypeOK, GraphInv, Rooted
<1>2. repo[i].branch # None
  BY DEF CheckoutInv, Staged, AgentMerges
<1> DEFINE Merged(c) == [repo[i] EXCEPT !.origin = main, !.branch = c]
<1>3. \A c : Merged(c).branch = c
  BY <1>1 DEF Repo
<1>4. CASE repo' = [repo EXCEPT ![i] = Merged(main)] /\ UNCHANGED anc /\ repo[i].branch \in anc[main]
  <2>1. anc[repo[i].branch] \subseteq anc[main]
    BY <1>1, <1>4, Ancestry DEF Closed
  <2>2. repo'[i].branch = main
    BY <1>1, <1>3, <1>4
  <2>3. QED
    BY <1>2, <1>4, <2>1, <2>2 DEF GoesOn
<1>5. ASSUME NEW c \in Commits, repo' = [repo EXCEPT ![i] = Merged(c)],
             anc' = [anc EXCEPT ![c] = anc[repo[i].branch] \cup anc[main] \cup {c}]
      PROVE  GoesOn(i)
  <2>1. anc[repo[i].branch] \subseteq anc'[c]
    BY <1>1, <1>5
  <2>2. repo'[i].branch = c
    BY <1>1, <1>3, <1>5
  <2>3. QED
    BY <1>2, <2>1, <2>2 DEF GoesOn
<1>6. QED
  BY <1>4, <1>5 DEF AgentMerges, SetRepo

\* No step takes a head that is about to be pushed off its branch.
LEMMA CarriedStep ==
  ASSUME CheckoutInv, GraphInv, Carried, Next, Kept
  PROVE  Carried'
<1> SUFFICES ASSUME NEW k \in Bots, pc'[k] \in {"recheck", "push"}
             PROVE  head'[k] \in anc'[repo'[k].branch]
  BY DEF Carried
<1>0. /\ anc \in [Commits -> SUBSET Commits] /\ Ordered
      /\ repo \in [Bots -> Repo] /\ pc \in [Bots -> Stages] /\ head \in [Bots -> Ref]
      /\ repo[k] \in Repo
  BY DEF CheckoutInv, TypeOK, GraphInv
<1>1. ASSUME UNCHANGED <<pc, head>>, repo'[k] = repo[k]
      PROVE  head'[k] \in anc'[repo'[k].branch]
  <2>1. repo[k].branch \in Made
    BY <1>1, BranchMade DEF CheckoutInv, Staged
  <2>2. QED
    BY <1>1, <2>1 DEF Carried, Kept
<1>2. CASE ClosePull \/ DeleteBranch \/ AdvanceMain
  BY <1>1, <1>2 DEF ClosePull, DeleteBranch, AdvanceMain
<1>3. PICK i \in Bots :
        ClosePull \/ DeleteBranch \/ AdvanceMain \/ Attempt(i) \/ Retry(i)
        \/ Requeue(i) \/ LoseWorktree(i) \/ LoseCheckout(i)
        \/ PruneCheckout(i) \/ LoseWorkspace(i)
  BY DEF Next
<1>4. CASE i # k /\ ~(ClosePull \/ DeleteBranch \/ AdvanceMain)
  <2>1. \E p, h, R : /\ pc' = [pc EXCEPT ![i] = p] /\ head' = [head EXCEPT ![i] = h]
                     /\ repo' = [repo EXCEPT ![i] = R]
    <3>1. \E p : pc' = [pc EXCEPT ![i] = p]
      <4>1. UNCHANGED pc \/ \E p : Goto(i, p)
        BY <1>3, <1>4 DEF Attempt, Agent, Reconcile, Open, Opens, Reuse, AddWorktree,
           AddInterrupted,
           Charge, AgentCommits, AgentMerges, AgentLeavesEdits, AgentMisbehaves,
           AgentSolved, AgentBlocked, AgentSetupFails, Verify, Recheck, Disturb, Push,
           FoundPull, Create, Stop, Retry, Requeue, LoseWorktree, LoseCheckout,
           PruneCheckout, LoseWorkspace
      <4>2. pc = [pc EXCEPT ![i] = pc[i]]
        BY <1>0
      <4>3. QED
        BY <4>1, <4>2 DEF Goto
    <3>2. \E h : head' = [head EXCEPT ![i] = h]
      <4>1. UNCHANGED head \/ Verify(i)
        BY <1>3, <1>4 DEF Attempt, Agent, Reconcile, Open, Opens, Reuse, AddWorktree,
           AddInterrupted,
           Charge, AgentCommits, AgentMerges, AgentLeavesEdits, AgentMisbehaves,
           AgentSolved, AgentBlocked, AgentSetupFails, Recheck, Disturb, Push,
           FoundPull, Create, Stop, Retry, Requeue, LoseWorktree, LoseCheckout,
           PruneCheckout, LoseWorkspace
      <4>2. head = [head EXCEPT ![i] = head[i]]
        BY <1>0
      <4>3. QED
        BY <4>1, <4>2 DEF Verify
    <3>3. \E R : repo' = [repo EXCEPT ![i] = R]
      <4>1. UNCHANGED repo \/ \E R : SetRepo(i, R)
        BY <1>3, <1>4 DEF Attempt, Agent, Reconcile, Open, Opens, Reuse, AddWorktree,
           AddInterrupted,
           Charge, AgentCommits, AgentMerges, AgentLeavesEdits, AgentMisbehaves,
           AgentSolved, AgentBlocked, AgentSetupFails, Verify, Recheck, Disturb, Push,
           FoundPull, Create, Stop, Retry, Requeue, LoseWorktree, LoseCheckout,
           PruneCheckout, LoseWorkspace, CommitOnBranch
      <4>2. repo = [repo EXCEPT ![i] = repo[i]]
        BY <1>0
      <4>3. QED
        BY <4>1, <4>2 DEF SetRepo
    <3>4. QED
      BY <3>1, <3>2, <3>3
  <2>2. pc'[k] = pc[k] /\ head'[k] = head[k] /\ repo'[k] = repo[k]
    BY <1>0, <1>4, <2>1
  <2>3. repo[k].branch \in Made
    BY <2>2, BranchMade DEF CheckoutInv, Staged
  <2>4. QED
    BY <2>2, <2>3 DEF Carried, Kept
<1>5. CASE i = k
  <2>1. CASE Verify(i)
    <3>1. /\ repo[k].branch \in Made /\ head'[k] = repo[k].branch
          /\ UNCHANGED <<anc, repo>>
      BY <1>0, <1>5, <2>1, BranchMade DEF Verify, CheckoutInv, Staged, commits
    <3>2. QED
      BY <1>0, <3>1, Ancestry
  <2>2. CASE Recheck(i)
    <3>1. /\ repo[k].branch \in Made /\ head'[k] = repo[k].branch
          /\ UNCHANGED <<anc, repo>>
      BY <1>0, <1>5, <2>2, BranchMade DEF Recheck, CheckoutInv, Staged, commits
    <3>2. QED
      BY <1>0, <3>1, Ancestry
  <2>3. CASE Disturb(i)
    <3>1. pc'[k] = pc[k] /\ head'[k] = head[k] /\ repo[k].branch # None
      BY <1>5, <2>3 DEF Disturb, CheckoutInv, Staged
    <3>2. CASE UNCHANGED commits /\ SetRepo(i, [repo[i] EXCEPT !.clean = FALSE])
      <4>1. repo'[k].branch = repo[k].branch /\ UNCHANGED anc
        BY <1>0, <1>5, <3>2 DEF SetRepo, Repo, commits
      <4>2. QED
        BY <3>1, <4>1 DEF Carried
    <3>3. CASE \E c \in Commits : CommitOnBranch(i, c)
      BY <1>5, <3>1, <3>3, CommitGoesOn DEF Carried
    <3>4. QED
      BY <2>3, <3>2, <3>3 DEF Disturb
  <2>4. CASE Reconcile(i) \/ Retry(i) \/ Requeue(i) \/ LoseWorktree(i) \/ LoseCheckout(i)
             \/ PruneCheckout(i) \/ LoseWorkspace(i)
    BY <1>5, <2>4 DEF Reconcile, Retry, Requeue, LoseWorktree, LoseCheckout,
       PruneCheckout, LoseWorkspace
  <2>5. CASE AgentCommits(i) \/ AgentMerges(i) \/ AgentLeavesEdits(i) \/ AgentMisbehaves(i)
    BY <1>5, <2>5 DEF AgentCommits, AgentMerges, AgentLeavesEdits, AgentMisbehaves
  <2>6. CASE \/ Open(i) \/ Reuse(i) \/ AddWorktree(i) \/ AddInterrupted(i) \/ Charge(i)
             \/ AgentSolved(i) \/ AgentBlocked(i) \/ AgentSetupFails(i) \/ Push(i)
             \/ FoundPull(i) \/ Create(i) \/ Stop(i)
    <3>1. \E p \in {"prepare", "charge", "idle", "agent", "verify", "publish"} : Goto(i, p)
      BY <2>6 DEF Open, Reuse, AddWorktree, AddInterrupted, Charge, AgentSolved,
         AgentBlocked, AgentSetupFails, Push, FoundPull, Create, Stop
    <3>2. QED
      BY <1>0, <1>5, <3>1 DEF Goto
  <2>7. QED
    BY <1>2, <1>3, <2>1, <2>2, <2>3, <2>4, <2>5, <2>6 DEF Attempt, Agent
<1>6. QED
  BY <1>2, <1>4, <1>5

\* What was pushed stays on the branch of the one installation ...
LEMMA RecoveryStep ==
  ASSUME Alone, ~Unruly, RecoveryInv, Kept, NEW i \in Bots,
         Attempt(i) \/ Retry(i) \/ Requeue(i) \/ LoseWorktree(i) \/ LoseCheckout(i)
         \/ PruneCheckout(i) \/ LoseWorkspace(i)
  PROVE  PushedIsRecovered'
<1>0. /\ CheckoutInv /\ GraphInv /\ PushedIsRecovered /\ Carried /\ Counted
      /\ job \in [Bots -> Job] /\ repo \in [Bots -> Repo]
      /\ job[i] \in Job /\ repo[i] \in Repo /\ WorldOK
      /\ anc \in [Commits -> SUBSET Commits] /\ Ordered
  BY Entry DEF RecoveryInv, CheckoutInv, TypeOK, GraphInv
<1>1. ASSUME GoesOn(i), UNCHANGED remote, job'[i].gone = job[i].gone
      PROVE  PushedIsRecovered'
  BY <1>0, <1>1, Recovered, RecoveredNext DEF GoesOn
<1>2. CASE \/ Reconcile(i) \/ Open(i) \/ Reuse(i) \/ Charge(i) \/ AgentLeavesEdits(i)
           \/ AgentSolved(i) \/ AgentBlocked(i) \/ AgentSetupFails(i) \/ Verify(i)
           \/ Recheck(i) \/ FoundPull(i) \/ Create(i) \/ Stop(i) \/ Retry(i)
           \/ LoseWorktree(i) \/ LoseCheckout(i) \/ PruneCheckout(i)
  <2>1. UNCHANGED remote
    BY <1>2 DEF Reconcile, Open, Reuse, Charge, AgentLeavesEdits, AgentSolved,
       AgentBlocked,
       AgentSetupFails, Verify, Recheck, FoundPull, Create, Stop, Retry,
       LoseWorktree, LoseCheckout,
       PruneCheckout, github
  <2>2. QED
    BY <1>0, <1>1, <1>2, <2>1, SameBranch
<1>3. CASE AgentCommits(i) \/ Disturb(i)
  <2>1. repo[i].branch # None /\ UNCHANGED <<remote, job>>
    BY <1>0, <1>3 DEF AgentCommits, Disturb, CheckoutInv, Staged, github
  <2>2. CASE \E c \in Commits : CommitOnBranch(i, c)
    BY <1>0, <1>1, <2>1, <2>2, CommitGoesOn
  <2>3. CASE UNCHANGED commits /\ SetRepo(i, [repo[i] EXCEPT !.clean = FALSE])
    <3>1. repo'[i].branch = repo[i].branch /\ UNCHANGED anc
      BY <1>0, <2>3 DEF SetRepo, Repo, commits
    <3>2. QED
      BY <1>1, <2>1, <3>1 DEF GoesOn
  <2>4. QED
    BY <1>3, <2>2, <2>3 DEF AgentCommits, Disturb
<1>4. CASE AgentMerges(i)
  BY <1>0, <1>1, <1>4, MergeGoesOn DEF AgentMerges, github
<1>5. CASE AgentMisbehaves(i)
  BY <1>5 DEF AgentMisbehaves
\* A worktree that is created starts at what was pushed.
<1>6. CASE AddWorktree(i) \/ AddInterrupted(i)
  <2> DEFINE Added(t, q) == [repo[i] EXCEPT !.branch = StartPoint(i), !.tree = t,
                                            !.on = TRUE, !.clean = q]
  <2>1. \A t, q : Added(t, q).branch = StartPoint(i)
    BY <1>0 DEF Repo
  <2>2. PICK t, q : repo' = [repo EXCEPT ![i] = Added(t, q)]
    <3>1. CASE AddWorktree(i)
      BY <3>1 DEF AddWorktree, SetRepo
    <3>2. CASE AddInterrupted(i)
      BY <3>2 DEF AddInterrupted, SetRepo
    <3>3. QED
      BY <1>6, <3>1, <3>2
  <2> HIDE DEF Added
  <2>3. repo'[i].branch = StartPoint(i)
    BY <1>0, <2>1, <2>2
  <2>4. UNCHANGED <<anc, remote, job>>
    BY <1>6 DEF AddWorktree, AddInterrupted, commits, github
  <2>5. CASE repo[i].branch # None
    BY <1>0, <1>1, <2>3, <2>4, <2>5 DEF StartPoint, GoesOn
  <2>6. CASE repo[i].branch = None /\ remote # None /\ job[i].gone = 0
    <3>1. remote \in Made
      BY <1>0, <2>6 DEF GraphInv, Rooted, WorldOK
    <3>2. repo'[i].branch = remote
      BY <2>3, <2>6 DEF StartPoint
    <3>3. remote' \in anc'[repo'[i].branch]
      BY <1>0, <2>4, <3>1, <3>2, Ancestry
    <3>4. QED
      BY <3>3, RecoveredNext
  <2>7. CASE remote = None \/ job[i].gone # 0
    BY <2>4, <2>7, RecoveredNext
  <2>8. QED
    BY <2>5, <2>6, <2>7
\* What is pushed is on the branch.
<1>7. CASE Push(i)
  <2>1. /\ repo'[i].branch = repo[i].branch /\ UNCHANGED anc
    BY <1>0, <1>7, SameBranch
  <2>2. remote' = head[i] /\ head[i] \in anc[repo[i].branch]
    BY <1>0, <1>7 DEF Push, Pushed, Carried
  <2>3. QED
    BY <2>1, <2>2, RecoveredNext
\* A requeue leaves the branch, deletes it or supersedes what was pushed.
<1>8. CASE Requeue(i)
  <2>1. UNCHANGED <<anc, remote>>
    BY <1>8 DEF Requeue, commits, github
  <2>2. CASE UNCHANGED job
    <3>1. repo'[i].branch \in {repo[i].branch, None}
      <4>1. CASE SetRepo(i, Discarded(i))
        BY <1>0, <4>1, DiscardedRefs DEF SetRepo
      <4>2. CASE SetRepo(i, [repo[i] EXCEPT !.tree = "none"])
        BY <1>0, <4>2 DEF SetRepo, Repo
      <4>3. QED
        BY <1>8, <4>1, <4>2 DEF Requeue
    <3>2. GoesOn(i)
      BY <2>1, <3>1 DEF GoesOn
    <3>3. QED
      BY <1>1, <2>1, <2>2, <3>2
  <2>3. CASE SetJob(i, [NewJob EXCEPT !.gone = pull.n])
    <3>1. job'[i].gone = pull.n
      BY <1>0, <2>3 DEF SetJob, NewJob
    <3>2. pull.n > 0 /\ pull.n \in Nat
      BY <1>0, <1>8 DEF Requeue, Counted, WorldOK, Pull
    <3>3. QED
      BY <3>1, <3>2, RecoveredNext
  <2>4. QED
    BY <1>8, <2>2, <2>3 DEF Requeue
<1>9. CASE LoseWorkspace(i)
  <2>1. repo'[i].branch = None /\ UNCHANGED <<remote, job>>
    BY <1>0, <1>9 DEF LoseWorkspace, SetRepo, NewRepo, github
  <2>2. QED
    BY <1>1, <2>1 DEF GoesOn
<1>10. QED
  BY <1>2, <1>3, <1>4, <1>5, <1>6, <1>7, <1>8, <1>9 DEF Attempt, Agent

\* ... whatever happens on GitHub.
LEMMA RecoveryWorld ==
  ASSUME RecoveryInv, Kept, ClosePull \/ DeleteBranch \/ AdvanceMain
  PROVE  PushedIsRecovered'
<1>1. PushedIsRecovered /\ CheckoutInv /\ GraphInv
  BY DEF RecoveryInv
<1>2. UNCHANGED <<job, repo>> /\ remote' \in {remote, None}
  BY DEF ClosePull, DeleteBranch, AdvanceMain
<1>3. \A i \in Bots : repo[i].branch # None => anc'[repo[i].branch] = anc[repo[i].branch]
  BY <1>1, BranchMade DEF Kept
<1>4. QED
  BY <1>1, <1>2, <1>3 DEF PushedIsRecovered, WorkContainsPushed

\* The count of pull requests goes with their existence.
LEMMA CountedStep ==
  ASSUME CheckoutInv, Counted, Next
  PROVE  Counted'
<1>1. pull \in Pull /\ pull.n \in Nat
  BY DEF CheckoutInv, TypeOK, Pull
<1>2. CASE UNCHANGED pull
  BY <1>2 DEF Counted
<1>3. CASE ClosePull
  BY <1>1, <1>3 DEF ClosePull, Counted, Pull
<1>4. ASSUME NEW i \in Bots, Push(i) PROVE Counted'
  <2>1. pull'.n = pull.n /\ pull'.state = pull.state
    BY <1>1, <1>4 DEF Push, Pull
  <2>2. QED
    BY <2>1 DEF Counted
<1>5. ASSUME NEW i \in Bots, Create(i) PROVE Counted'
  BY <1>1, <1>5 DEF Create, Counted
<1>6. UNCHANGED pull \/ ClosePull \/ \E i \in Bots : Push(i) \/ Create(i)
  BY DEF Next, Attempt, Agent, Reconcile, Open, Reuse, AddWorktree,
     AddInterrupted, Charge, AgentCommits, AgentMerges, AgentLeavesEdits,
     AgentMisbehaves, AgentSolved, AgentBlocked, AgentSetupFails, Verify, Recheck,
     Disturb, FoundPull, Stop, Retry, Requeue,
     LoseWorktree, LoseCheckout, PruneCheckout, LoseWorkspace, DeleteBranch,
     AdvanceMain, github
<1>7. QED
  BY <1>2, <1>3, <1>4, <1>5, <1>6

\* An installation that has the issue to itself, with an agent that does not
\* reset its branch, always has what was pushed on the branch it works on, until
\* a requeue supersedes it (git.go prepare): also after worktree, management
\* checkout or workspace were lost, and after a worktree was created in part.
THEOREM PushedWorkIsRecovered ==
  ASSUME Alone, ~Unruly
  PROVE  Spec => []PushedIsRecovered
<1>1. Init => RecoveryInv
  BY InitInv, GraphInit DEF Init, RecoveryInv, Carried, Counted, PushedIsRecovered,
     WorkContainsPushed
<1>2. RecoveryInv /\ [Next]_vars => RecoveryInv'
  <2> SUFFICES ASSUME RecoveryInv, [Next]_vars PROVE RecoveryInv'
    OBVIOUS
  <2>1. CheckoutInv' /\ GraphInv'
    BY NextInv, GraphNext DEF RecoveryInv
  <2>2. CASE UNCHANGED vars
    BY <2>1, <2>2 DEF vars, RecoveryInv, Carried, Counted, PushedIsRecovered,
       WorkContainsPushed
  <2>3. CASE Next
    <3>1. anc \in [Commits -> SUBSET Commits] /\ Ordered
      BY DEF RecoveryInv, CheckoutInv, TypeOK, GraphInv
    <3>2. Kept
      BY <2>3, <3>1, GraphSteps, Extension DEF RecoveryInv
    <3>3. Carried' /\ Counted'
      BY <2>3, <3>2, CarriedStep, CountedStep DEF RecoveryInv
    <3>4. PushedIsRecovered'
      BY <2>3, <3>2, RecoveryStep, RecoveryWorld DEF Next
    <3>5. QED
      BY <2>1, <3>3, <3>4 DEF RecoveryInv
  <2>4. QED
    BY <2>2, <2>3
<1>3. RecoveryInv => PushedIsRecovered
  BY DEF RecoveryInv
<1>4. QED
  BY <1>1, <1>2, <1>3, PTL DEF Spec

=============================================================================
