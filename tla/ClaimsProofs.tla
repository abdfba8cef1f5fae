---------------------------- MODULE ClaimsProofs ----------------------------
(* Theorems about Claims for every number of instances, comments, tokens and  *)
(* delayed requests, with their proofs.                                       *)
EXTENDS Claims, FiniteSetTheorems, TLAPS

-----------------------------------------------------------------------------
(* Type correctness *)

\* A write of a well-typed claim leaves the comments well typed.
LEMMA ApplyType ==
  ASSUME TypeOK, NEW c \in Claim, Apply(c)
  PROVE  /\ comments' \in [Ids -> Comment]
         /\ posted' \in {0} \cup Ids
         /\ revived' \in [Ids -> BOOLEAN]
<1> DEFINE k == IF c.id = 0 THEN posted + 1 ELSE c.id
<1>1. /\ k \in Ids
      /\ posted' = IF c.id = 0 THEN k ELSE posted
      /\ comments' = [comments EXCEPT ![k] = Body(c)]
  BY DEF Apply
<1>2. revived' \in [Ids -> BOOLEAN]
  BY DEF Apply, TypeOK
<1>3. Body(c) \in Comment
  BY DEF Body, Claim, Comment
<1> HIDE DEF k
<1> QED
  BY <1>1, <1>2, <1>3 DEF TypeOK

\* Whatever a failed request did, the comments stay well typed.
LEMMA AmbiguousType ==
  ASSUME TypeOK, NEW c \in Claim, Ambiguous(c)
  PROVE  /\ comments' \in [Ids -> Comment]
         /\ posted' \in {0} \cup Ids
         /\ revived' \in [Ids -> BOOLEAN]
         /\ late' \subseteq Claim
<1>1. CASE UNCHANGED github
  BY <1>1 DEF github, TypeOK
<1>2. CASE Apply(c) /\ UNCHANGED late
  BY <1>2, ApplyType DEF TypeOK
<1>3. CASE late' = late \cup {c} /\ UNCHANGED <<comments, posted, revived>>
  BY <1>3 DEF TypeOK
<1> QED
  BY <1>1, <1>2, <1>3 DEF Ambiguous

\* A claim that ages stays a claim.
LEMMA OlderType == \A c \in Claim : Older(c) \in Claim
  BY ClaimsAssumption DEF Older, Less, Claim

\* The initial state is well typed.
LEMMA InitType == Init => TypeOK
<1> SUFFICES ASSUME Init PROVE TypeOK
  OBVIOUS
<1>1. NoJob \in Job
  BY ClaimsAssumption DEF NoJob, NoClaim, Job, Claim
<1>2. NoComment \in Comment
  BY ClaimsAssumption DEF NoComment, Comment
<1>3. next \in [Instances -> 0..Timeout]
  BY ClaimsAssumption DEF Init
<1>4. comments \in [Ids -> Comment] /\ revived \in [Ids -> BOOLEAN]
  BY <1>2 DEF Init
<1>5. mem \in [Instances -> Job] /\ disk \in [Instances -> Job]
  BY <1>1 DEF Init
<1> QED
  BY <1>3, <1>4, <1>5 DEF Init, TypeOK

\* A fresh claim is a claim while tokens last.
LEMMA NewClaimType ==
  ASSUME TypeOK, minted < MaxTokens
  PROVE  NewClaim \in Claim /\ minted + 1 \in Tokens
  BY ClaimsAssumption DEF TypeOK, NewClaim, Claim, Tokens

\* Setting one field of a claim to a value of its type gives a claim.
LEMMA FieldType ==
  ASSUME NEW c \in Claim
  PROVE  /\ \A id \in {0} \cup Ids : [c EXCEPT !.id = id] \in Claim
         /\ \A status \in {"working", "released", "done"} :
              [c EXCEPT !.status = status] \in Claim
         /\ \A left \in 0..Timeout : [c EXCEPT !.left = left] \in Claim
  BY DEF Claim

\* The claim that acquire is about to write.
LEMMA WriteFields ==
  ASSUME NEW c \in Claim, NEW id \in {0} \cup Ids
  PROVE  /\ [c EXCEPT !.id = id, !.status = "working", !.left = Timeout].id = id
         /\ [c EXCEPT !.id = id, !.status = "working", !.left = Timeout].token
              = c.token
<1>1. /\ [c EXCEPT !.id = id] \in Claim
      /\ [c EXCEPT !.id = id].id = id
      /\ [c EXCEPT !.id = id].token = c.token
  BY DEF Claim
<1> DEFINE d == [c EXCEPT !.id = id]
<1> HIDE DEF d
<1>2. /\ [d EXCEPT !.status = "working"] \in Claim
      /\ [d EXCEPT !.status = "working"].id = id
      /\ [d EXCEPT !.status = "working"].token = c.token
  BY <1>1 DEF Claim, d
<1> DEFINE e == [d EXCEPT !.status = "working"]
<1> HIDE DEF e
<1>3. /\ [e EXCEPT !.left = Timeout].id = id
      /\ [e EXCEPT !.left = Timeout].token = c.token
  BY <1>2 DEF Claim, e
<1> QED
  BY <1>3 DEF d, e

\* No time left, and the whole timeout, are both remainders of a lease.
LEMMA Instants == 0 \in 0..Timeout /\ Timeout \in 0..Timeout
  BY ClaimsAssumption

\* Replacing one job's claim, or concluding it, keeps the jobs well typed.
LEMMA SetClaimType ==
  ASSUME TypeOK, NEW i \in Instances, NEW c \in Claim, SetClaim(i, c)
  PROVE  mem' \in [Instances -> Job]
  BY DEF TypeOK, SetClaim, Job

\* Concluding one job keeps the jobs well typed.
LEMMA ConcludeType ==
  ASSUME TypeOK, NEW i \in Instances, NEW c \in Claim,
         NEW status \in {"released", "done"}, Conclude(i, c, status)
  PROVE  mem' \in [Instances -> Job]
<1>1. [c EXCEPT !.status = status] \in Claim
  BY FieldType
<1>2. [c EXCEPT !.status = status, !.left = 0] \in Claim
  BY <1>1, FieldType, Instants
<1> QED
  BY <1>2 DEF TypeOK, Conclude, Job

\* What an instance remembers is a claim.
LEMMA MemType == TypeOK => \A i \in Instances : mem[i].claim \in Claim
  BY DEF TypeOK, Job

\* The steps of claimedAttempt and acquire keep the types.
LEMMA AcquireType ==
  ASSUME TypeOK, NEW i \in Instances, Acquire(i)
  PROVE  TypeOK'
<1> USE DEF Save, Move, lease, github
<1> DEFINE c == mem[i].claim
<1>0. c \in Claim
  BY MemType
<1>1. CASE BeginClaim(i)
  <2>1. CASE Resumable(mem[i].claim) /\ UNCHANGED <<mem, minted>>
    BY <1>1, <2>1 DEF BeginClaim, TypeOK
  <2>2. CASE /\ minted < MaxTokens
             /\ minted' = minted + 1
             /\ SetClaim(i, NewClaim)
    <3>1. mem' \in [Instances -> Job]
      BY <2>2, NewClaimType, SetClaimType
    <3> QED
      BY <1>1, <2>2, <3>1, NewClaimType DEF BeginClaim, TypeOK
  <2> QED
    BY <1>1, <2>1, <2>2 DEF BeginClaim
<1>2. ASSUME Yield(i) PROVE TypeOK'
  <2>1. mem' \in [Instances -> Job]
    BY <1>0, <1>2, ConcludeType DEF Yield
  <2> QED
    BY <1>2, <2>1 DEF Yield, TypeOK
<1>3. CASE AcquireRead(i)
  <2>1. PICK id \in {0} \cup Ids :
          SetClaim(i, [c EXCEPT !.id = id, !.status = "working",
                                !.left = Timeout])
    BY <1>3 DEF AcquireRead
  <2>2. [c EXCEPT !.id = id] \in Claim
    BY <1>0, FieldType
  <2>3. [c EXCEPT !.id = id, !.status = "working"] \in Claim
    BY <2>2, FieldType
  <2>4. [c EXCEPT !.id = id, !.status = "working", !.left = Timeout] \in Claim
    BY <2>3, FieldType, Instants
  <2>5. mem' \in [Instances -> Job]
    BY <2>1, <2>4, SetClaimType
  <2> QED
    BY <1>3, <2>5 DEF AcquireRead, TypeOK
<1>4. CASE AcquireWrite(i)
  <2>1. /\ comments' \in [Ids -> Comment]
        /\ posted' \in {0} \cup Ids
        /\ revived' \in [Ids -> BOOLEAN]
    BY <1>0, <1>4, ApplyType DEF AcquireWrite
  <2>2. c.id = 0 => posted + 1 \in Ids
    BY <1>4 DEF AcquireWrite, Apply
  <2>3. [c EXCEPT !.id = IF @ = 0 THEN posted + 1 ELSE @] \in Claim
    BY <1>0, <2>2 DEF Claim
  <2>4. mem' \in [Instances -> Job]
    BY <1>4, <2>3, SetClaimType DEF AcquireWrite
  <2> QED
    BY <1>4, <2>1, <2>4 DEF AcquireWrite, TypeOK
<1>5. CASE AcquireWriteFails(i)
  BY <1>0, <1>5, AmbiguousType DEF AcquireWriteFails, TypeOK
<1>6. CASE AcquireReadFails(i)
  BY <1>6 DEF AcquireReadFails, TypeOK
<1>7. CASE Confirm(i)
  <2>1. comments[c.id].left \in 0..Timeout
    BY <1>7 DEF Confirm, Owns, TypeOK, Comment
  <2>2. [c EXCEPT !.left = comments[c.id].left] \in Claim
    BY <1>0, <2>1 DEF Claim
  <2>3. mem' \in [Instances -> Job]
    BY <1>7, <2>2, SetClaimType DEF Confirm
  <2> QED
    BY <1>7, <2>3 DEF Confirm, TypeOK
<1> QED
  BY <1>1, <1>2, <1>3, <1>4, <1>5, <1>6, <1>7
  DEF Acquire, YieldBeforePost, YieldAfterPost

\* The renewal goroutine keeps the types.
LEMMA RenewType ==
  ASSUME TypeOK, NEW i \in Instances, Renew(i)
  PROVE  TypeOK'
<1> USE DEF github
<1> DEFINE c == mem[i].claim
<1>0. c \in Claim /\ next[i] \in 0..Timeout
  BY MemType DEF TypeOK
<1>1. [c EXCEPT !.left = next[i]] \in Claim
  BY <1>0, FieldType
<1>2. CASE RenewRead(i)
  BY <1>2, Instants DEF RenewRead, TypeOK
<1>3. CASE RenewEdit(i)
  <2>1. next' \in [Instances -> 0..Timeout]
    BY <1>3, Instants DEF RenewEdit, TypeOK
  <2> QED
    BY <1>1, <1>3, <2>1, ApplyType DEF RenewEdit, TypeOK
<1>4. ASSUME StopWork(i)
      PROVE  /\ next' \in [Instances -> 0..Timeout]
             /\ renewal' \in [Instances -> {"off", "wait", "edit"}]
             /\ canceled' \in [Instances -> BOOLEAN]
  BY <1>4, Instants DEF StopWork, TypeOK
<1>5. CASE RenewLost(i) \/ RenewReadFails(i)
  BY <1>4, <1>5 DEF RenewLost, RenewReadFails, StopWork, TypeOK
<1>6. CASE RenewEditFails(i)
  BY <1>1, <1>4, <1>6, AmbiguousType DEF RenewEditFails, StopWork, TypeOK
<1> QED
  BY <1>2, <1>3, <1>5, <1>6 DEF Renew

\* The attempt and its end keep the types.
LEMMA WorkType ==
  ASSUME TypeOK, NEW i \in Instances, Work(i)
  PROVE  TypeOK'
<1> USE DEF Move, Save, github, lease
<1>1. CASE ReadyToPublish(i)
  BY <1>1 DEF ReadyToPublish, TypeOK
<1>2. CASE Publish(i)
  BY <1>2 DEF Publish, TypeOK
<1>3. ASSUME NEW status \in {"done", "released"}, Finish(i, status)
      PROVE  TypeOK'
  <2>1. mem' \in [Instances -> Job]
    BY <1>3, MemType, ConcludeType DEF Finish
  <2> QED
    BY <1>3, <2>1 DEF Finish, TypeOK
<1> QED
  BY <1>1, <1>2, <1>3 DEF Work

\* Delivering a final state keeps the types.
LEMMA DeliverType ==
  ASSUME TypeOK, NEW i \in Instances, Deliver(i)
  PROVE  TypeOK'
<1> USE DEF Move, Save, github, lease
<1> DEFINE c == mem[i].claim
<1>0. c \in Claim
  BY MemType
<1>1. CASE Complete(i)
  <2>1. CASE Conclude(i, c, "done") /\ UNCHANGED minted
    <3>1. mem' \in [Instances -> Job]
      BY <1>0, <2>1, ConcludeType
    <3> QED
      BY <1>1, <2>1, <3>1 DEF Complete, TypeOK
  <2>2. CASE /\ minted < MaxTokens
             /\ minted' = minted + 1
             /\ Conclude(i, NewClaim, "done")
    <3>1. mem' \in [Instances -> Job]
      BY <2>2, NewClaimType, ConcludeType
    <3> QED
      BY <1>1, <2>2, <3>1, NewClaimType DEF Complete, TypeOK
  <2> QED
    BY <1>1, <2>1, <2>2 DEF Complete
<1>2. CASE Sync(i)
  <2>1. CASE /\ mem' = [mem EXCEPT ![i].pending = FALSE]
             /\ UNCHANGED <<comments, posted, revived>>
    <3>1. mem' \in [Instances -> Job]
      BY <2>1 DEF TypeOK, Job
    <3> QED
      BY <1>2, <2>1, <3>1 DEF Sync, TypeOK
  <2>2. ASSUME NEW id \in {0} \cup Ids,
               Apply([c EXCEPT !.id = id]),
               mem' = [mem EXCEPT ![i] =
                 [claim |-> [c EXCEPT !.id = IF id = 0 THEN posted + 1 ELSE id],
                  pending |-> FALSE]]
        PROVE  TypeOK'
    <3>1. [c EXCEPT !.id = id] \in Claim
      BY <1>0, FieldType
    <3>2. /\ comments' \in [Ids -> Comment]
          /\ posted' \in {0} \cup Ids
          /\ revived' \in [Ids -> BOOLEAN]
      BY <2>2, <3>1, ApplyType
    <3>3. [c EXCEPT !.id = id].id = id
      BY <1>0 DEF Claim
    <3>4. id = 0 => posted + 1 \in Ids
      BY <2>2, <3>3 DEF Apply
    <3>5. [c EXCEPT !.id = IF id = 0 THEN posted + 1 ELSE id] \in Claim
      BY <1>0, <3>4, FieldType
    <3>6. mem' \in [Instances -> Job]
      BY <2>2, <3>5 DEF TypeOK, Job
    <3> QED
      BY <1>2, <3>2, <3>6 DEF Sync, TypeOK
  <2> QED
    BY <1>2, <2>1, <2>2 DEF Sync
<1>3. CASE SyncReadFails(i)
  BY <1>3 DEF SyncReadFails, TypeOK
<1>4. CASE SyncWriteFails(i)
  <2>1. PICK id \in {0} \cup Ids :
          /\ Ambiguous([c EXCEPT !.id = id])
          /\ SetClaim(i, [c EXCEPT !.id = IF id = 0 THEN @ ELSE id])
    BY <1>4 DEF SyncWriteFails
  <2>2. /\ [c EXCEPT !.id = id] \in Claim
        /\ [c EXCEPT !.id = IF id = 0 THEN @ ELSE id] \in Claim
    BY <1>0, FieldType DEF Claim
  <2>3. mem' \in [Instances -> Job]
    BY <2>1, <2>2, SetClaimType
  <2> QED
    BY <1>4, <2>1, <2>2, <2>3, AmbiguousType DEF SyncWriteFails, TypeOK
<1> QED
  BY <1>1, <1>2, <1>3, <1>4 DEF Deliver

\* Crashes, restarts, late writes and the passing of time keep the types.
LEMMA EnvironmentType ==
  ASSUME TypeOK,
         \/ \E i \in Instances : Crash(i) \/ Restart(i)
         \/ \E c \in late : LandLate(c)
         \/ Tick
  PROVE  TypeOK'
<1> USE DEF Move, github, lease
<1>1. ASSUME NEW i \in Instances, Crash(i) PROVE TypeOK'
  <2>1. NoJob \in Job
    BY Instants DEF NoJob, NoClaim, Job, Claim
  <2>2. next' \in [Instances -> 0..Timeout]
    BY <1>1, Instants DEF Crash, TypeOK
  <2> QED
    BY <1>1, <2>1, <2>2 DEF Crash, TypeOK
<1>2. ASSUME NEW i \in Instances, Restart(i) PROVE TypeOK'
  BY <1>2 DEF Restart, TypeOK
<1>3. ASSUME NEW c \in late, LandLate(c) PROVE TypeOK'
  BY <1>3, ApplyType DEF LandLate, TypeOK
<1>4. CASE Tick
  <2>1. \A k \in Ids : Older(comments[k]) \in Comment
    BY ClaimsAssumption DEF Older, Less, Comment, TypeOK
  <2>2. \A n \in 0..Timeout : Less(n) \in 0..Timeout
    BY ClaimsAssumption DEF Less
  <2>3. /\ mem' \in [Instances -> Job]
        /\ disk' \in [Instances -> Job]
    <3>1. ASSUME NEW j \in Job PROVE [j EXCEPT !.claim = Older(@)] \in Job
      BY <3>1, OlderType DEF Job
    <3>2. /\ \A i \in Instances : mem[i] \in Job /\ disk[i] \in Job
          /\ mem' = [i \in Instances |-> [mem[i] EXCEPT !.claim = Older(@)]]
          /\ disk' = [i \in Instances |-> [disk[i] EXCEPT !.claim = Older(@)]]
      BY <1>4 DEF Tick, TypeOK
    <3> QED
      BY <3>1, <3>2
  <2>4. late' \subseteq Claim
    BY <1>4, OlderType DEF Tick, TypeOK
  <2> QED
    BY <1>4, <2>1, <2>2, <2>3, <2>4 DEF Tick, TypeOK
<1> QED
  BY <1>1, <1>2, <1>3, <1>4

\* Every variable keeps its type in every behaviour of the protocol.
THEOREM TypeCorrect == Spec => []TypeOK
<1>1. TypeOK /\ [Next]_vars => TypeOK'
  <2> SUFFICES ASSUME TypeOK, [Next]_vars PROVE TypeOK'
    OBVIOUS
  <2>1. CASE Next
    BY <2>1, AcquireType, RenewType, WorkType, DeliverType, EnvironmentType
    DEF Next
  <2>2. CASE UNCHANGED vars
    BY <2>2 DEF vars, github, lease, TypeOK
  <2> QED
    BY <2>1, <2>2
<1> QED
  BY InitType, <1>1, PTL DEF Spec

-----------------------------------------------------------------------------
(* The election *)

\* A write of a claim that has a token and, if any, a comment of its own.
Good(c) == c \in Claim /\ c.token # 0 /\ Own(c)

\* What every step leaves of the comments: none disappears or changes its
\* token, and one that becomes active although it was not is marked revived.
GithubStable ==
  /\ posted' \in Nat /\ posted <= posted'
  /\ minted' \in Nat /\ minted <= minted'
  /\ \A k \in Ids :
       /\ k <= posted => comments'[k].token = comments[k].token
       /\ k <= posted /\ Active(k)' => Active(k) \/ revived'[k]
       /\ revived[k] => revived'[k]
       /\ comments'[k].token # 0 => comments[k].token # 0 \/ k <= posted'

\* A write of a sound claim is stable: it reposts or renames no comment.
LEMMA ApplyStable ==
  ASSUME TypeOK, NEW c, Good(c), Apply(c), minted' \in Nat, minted <= minted'
  PROVE  GithubStable
<1>1. PICK n \in Ids :
        /\ n = IF c.id = 0 THEN posted + 1 ELSE c.id
        /\ posted' = IF c.id = 0 THEN n ELSE posted
        /\ comments' = [comments EXCEPT ![n] = Body(c)]
        /\ revived' = [revived EXCEPT ![n] =
             @ \/ (c.id # 0 /\ c.status = "working" /\ c.left > 0 /\ ~Active(n))]
  BY DEF Apply
<1>2. posted \in Nat /\ posted' \in Nat /\ posted <= posted'
  BY <1>1 DEF TypeOK, Ids
<1>3. ASSUME NEW k \in Ids, k # n
      PROVE  /\ comments'[k] = comments[k]
             /\ revived'[k] = revived[k]
  BY <1>1, <1>3 DEF TypeOK
<1>4. n <= posted => c.id = n
  BY <1>1, <1>2
<1>5. n <= posted => comments'[n].token = comments[n].token
  BY <1>1, <1>4 DEF Good, Own, Body, TypeOK
<1>6. revived[n] => revived'[n]
  BY <1>1 DEF TypeOK
<1>7. n <= posted /\ Active(n)' => Active(n) \/ revived'[n]
  <2> SUFFICES ASSUME n <= posted, Active(n)', ~Active(n) PROVE revived'[n]
    OBVIOUS
  <2>1. comments'[n] = Body(c)
    BY <1>1 DEF TypeOK
  <2>2. c.status = "working" /\ c.left > 0
    BY <2>1 DEF Active, Body
  <2>3. c.id # 0
    BY <1>1, <1>4 DEF Ids
  <2> QED
    BY <1>1, <2>2, <2>3 DEF TypeOK
<1>8. n <= posted'
  BY <1>1, <1>2 DEF Good, Own, TypeOK, Ids
<1>9. ASSUME NEW k \in Ids
      PROVE  /\ k <= posted => comments'[k].token = comments[k].token
             /\ k <= posted /\ Active(k)' => Active(k) \/ revived'[k]
             /\ revived[k] => revived'[k]
             /\ comments'[k].token # 0 => comments[k].token # 0 \/ k <= posted'
  <2>1. CASE k = n
    BY <2>1, <1>5, <1>6, <1>7, <1>8
  <2>2. CASE k # n
    BY <2>2, <1>3 DEF Active
  <2> QED
    BY <2>1, <2>2
<1> QED
  BY <1>2, <1>9 DEF GithubStable

\* A step that leaves the comments alone is stable.
LEMMA UnchangedStable ==
  ASSUME TypeOK, UNCHANGED <<comments, posted, revived>>,
         minted' \in Nat, minted <= minted'
  PROVE  GithubStable
  BY DEF TypeOK, GithubStable, Active, Ids

\* Whatever a failed request did, or may still do, is stable.
LEMMA AmbiguousStable ==
  ASSUME TypeOK, NEW c, Good(c), Ambiguous(c),
         minted' \in Nat, minted <= minted'
  PROVE  GithubStable /\ late' \subseteq late \cup {c}
  BY ApplyStable, UnchangedStable DEF Ambiguous, github

\* A claim keeps its own comment through every such step.
LEMMA OwnStable ==
  ASSUME TypeOK, GithubStable, NEW c \in Claim, Own(c)
  PROVE  Own(c)'
  BY DEF Own, GithubStable, Claim, TypeOK, Ids

\* A sound job stays sound through every stable step.
LEMMA JobStable ==
  ASSUME TypeOK, TypeOK', GithubStable, NEW j \in Job, JobInv(j)
  PROVE  JobInv(j)'
<1>1. j.claim \in Claim
  BY DEF Job
<1>2. Own(j.claim)'
  BY <1>1, OwnStable DEF JobInv
<1>3. j.claim.token <= minted'
  BY <1>1 DEF Claim, TypeOK, Tokens, JobInv, GithubStable
<1> QED
  BY <1>2, <1>3 DEF JobInv

\* An elected attempt stays elected while its claim keeps its comment.
LEMMA ElectedStable ==
  ASSUME TypeOK, GithubStable, NEW i \in Instances, InstanceInv(i),
         Running(i), mem'[i].claim.id = mem[i].claim.id
  PROVE  Elected(i)'
<1> SUFFICES ASSUME NEW k \in Ids, k < mem[i].claim.id, Active(k)'
             PROVE  revived'[k]
  BY DEF Elected
<1>1. k <= posted
  <2>1. mem[i].claim \in Claim /\ Own(mem[i].claim)
    BY MemType DEF InstanceInv, JobInv
  <2> QED
    BY <2>1 DEF Own, Claim, Ids, TypeOK
<1> QED
  BY <1>1 DEF GithubStable, InstanceInv, Elected

\* Instance j is not the one that steps.
LEMMA OthersStable ==
  ASSUME TypeOK, TypeOK', GithubStable, NEW j \in Instances, InstanceInv(j),
         mem'[j] = mem[j], disk'[j] = disk[j], pc'[j] = pc[j],
         renewal'[j] = renewal[j]
  PROVE  InstanceInv(j)' /\ OwnTokens(j)' = OwnTokens(j)
<1>1. mem[j] \in Job /\ disk[j] \in Job
  BY DEF TypeOK
<1>2. JobInv(mem[j])' /\ JobInv(disk[j])'
  <2>1. JobInv(mem[j]) /\ JobInv(disk[j])
    BY DEF InstanceInv
  <2> QED
    BY <1>1, <2>1, JobStable DEF JobInv, Own
<1>3. Elected(j)'
  <2>1. CASE Running(j)
    BY <2>1, ElectedStable
  <2>2. CASE ~Running(j)
    BY <2>2 DEF Elected, Running
  <2> QED
    BY <2>1, <2>2
<1> QED
  BY <1>2, <1>3 DEF InstanceInv, OwnTokens, Running

\* The step of one instance preserves the invariant when it leaves the others
\* alone, keeps its own part, and takes no token but its own and fresh ones.
Frame(i) ==
  \A j \in Instances \ {i} :
    /\ mem'[j] = mem[j]
    /\ disk'[j] = disk[j]
    /\ pc'[j] = pc[j]
    /\ renewal'[j] = renewal[j]

\* A step of one instance preserves the invariant when its own part holds after it.
LEMMA OneInstance ==
  ASSUME TypeOK, TypeOK', ElectionInv, GithubStable,
         NEW i \in Instances, Frame(i), InstanceInv(i)',
         \A t \in OwnTokens(i)' : t \in OwnTokens(i) \/ t > minted,
         \A c \in late' : c \in late \/ (c \in Claim /\ c.token # 0 /\ Own(c))
  PROVE  ElectionInv'
<1>1. \A j \in Instances \ {i} : InstanceInv(j)' /\ OwnTokens(j)' = OwnTokens(j)
  BY OthersStable DEF Frame, ElectionInv
<1>2. \A c \in late' : c.token # 0 /\ Own(c)'
  <2> SUFFICES ASSUME NEW c \in late' PROVE c.token # 0 /\ Own(c)'
    OBVIOUS
  <2>1. c \in Claim /\ c.token # 0 /\ Own(c)
    BY DEF ElectionInv, TypeOK
  <2> QED
    BY <2>1, OwnStable
<1>3. \A j \in Instances : \A t \in OwnTokens(j) : t \in Nat /\ t <= minted
  <2> SUFFICES ASSUME NEW j \in Instances
               PROVE  \A t \in OwnTokens(j) : t \in Nat /\ t <= minted
    OBVIOUS
  <2>1. mem[j].claim \in Claim /\ disk[j].claim \in Claim
    BY DEF TypeOK, Job
  <2>2. mem[j].claim.token <= minted /\ disk[j].claim.token <= minted
    BY DEF ElectionInv, InstanceInv, JobInv
  <2> QED
    BY <2>1, <2>2 DEF OwnTokens, Claim, Tokens
<1>4. \A j \in Instances \ {i} : OwnTokens(i)' \cap OwnTokens(j) = {}
  <2> SUFFICES ASSUME NEW j \in Instances \ {i}, NEW t \in OwnTokens(i)',
                      t \in OwnTokens(j)
               PROVE  FALSE
    OBVIOUS
  <2>1. CASE t \in OwnTokens(i)
    BY <2>1 DEF ElectionInv
  <2>2. CASE t > minted
    BY <2>2, <1>3 DEF TypeOK, Tokens
  <2> QED
    BY <2>1, <2>2
<1>5. \A k \in Ids : comments'[k].token # 0 => k <= posted'
  BY DEF ElectionInv, GithubStable, TypeOK, Ids
<1> QED
  BY <1>1, <1>2, <1>4, <1>5 DEF ElectionInv

\* SetClaim changes the claim of one job and nothing else.
LEMMA SetClaimFacts ==
  ASSUME TypeOK, NEW i \in Instances, NEW c, SetClaim(i, c)
  PROVE  /\ mem'[i].claim = c
         /\ mem'[i].pending = mem[i].pending
         /\ \A j \in Instances \ {i} : mem'[j] = mem[j]
  BY DEF TypeOK, SetClaim, Job

\* Conclude keeps the token and the comment of the claim, and leaves it pending.
LEMMA ConcludeFacts ==
  ASSUME TypeOK, NEW i \in Instances, NEW c \in Claim, NEW status,
         Conclude(i, c, status)
  PROVE  /\ mem'[i].claim.id = c.id
         /\ mem'[i].claim.token = c.token
         /\ mem'[i].pending = TRUE
         /\ \A j \in Instances \ {i} : mem'[j] = mem[j]
  BY DEF TypeOK, Conclude, Claim

\* Save copies one job to disk.
LEMMA SaveFacts ==
  ASSUME TypeOK, NEW i \in Instances, Save(i)
  PROVE  /\ disk'[i] = mem'[i]
         /\ \A j \in Instances \ {i} : disk'[j] = disk[j]
  BY DEF TypeOK, Save

\* Move changes where one instance stands.
LEMMA MoveFacts ==
  ASSUME TypeOK, NEW i \in Instances, NEW where, Move(i, where)
  PROVE  /\ pc'[i] = where
         /\ \A j \in Instances \ {i} : pc'[j] = pc[j]
  BY DEF TypeOK, Move

\* What the invariant says of the claim of one instance.
LEMMA InstanceFacts ==
  ASSUME TypeOK, ElectionInv, NEW i \in Instances
  PROVE  /\ InstanceInv(i)
         /\ mem[i] \in Job
         /\ disk[i] \in Job
         /\ mem[i].claim \in Claim
         /\ Own(mem[i].claim)
         /\ ~Running(i) => renewal[i] = "off"
         /\ mem[i].claim.status # "none" => mem[i].claim.token # 0
         /\ mem[i].pending => mem[i].claim.token # 0
  BY DEF TypeOK, Job, ElectionInv, InstanceInv, JobInv

\* A claim of the instance itself with a comment of its own makes a sound job.
LEMMA NewJob ==
  ASSUME TypeOK', NEW i \in Instances,
         Own(mem[i].claim)', mem'[i].claim.token # 0,
         mem'[i].claim.token <= minted'
  PROVE  JobInv(mem[i])'
  BY DEF JobInv, Own

\* A step of i that leaves it without a running attempt preserves the invariant
\* when its new claim is sound and has an old or a fresh token.
LEMMA SettledStep ==
  ASSUME TypeOK, TypeOK', ElectionInv, GithubStable,
         NEW i \in Instances, Frame(i), JobInv(mem[i])',
         disk'[i] = disk[i] \/ disk'[i] = mem'[i],
         \/ mem'[i].claim.token \in OwnTokens(i) \cup {0}
         \/ mem'[i].claim.token > minted,
         pc'[i] \in {"down", "idle"} \/ mem'[i].claim.token # 0,
         ~Running(i)', renewal'[i] = "off",
         \A c \in late' : c \in late \/ Good(c)
  PROVE  ElectionInv'
<1>1. JobInv(disk[i])'
  <2>1. CASE disk'[i] = disk[i]
    <3>1. disk[i] \in Job /\ JobInv(disk[i])
      BY InstanceFacts DEF InstanceInv
    <3> QED
      BY <2>1, <3>1, JobStable DEF JobInv, Own
  <2>2. CASE disk'[i] = mem'[i]
    BY <2>2 DEF JobInv, Own
  <2> QED
    BY <2>1, <2>2
<1>2. InstanceInv(i)'
  BY <1>1 DEF InstanceInv, Elected
<1>3. \A t \in OwnTokens(i)' : t \in OwnTokens(i) \/ t > minted
  BY DEF OwnTokens
<1> QED
  BY <1>2, <1>3, OneInstance DEF Good

\* A step of i that keeps its attempt running and its jobs as they are
\* preserves the invariant.
LEMMA RunningStep ==
  ASSUME TypeOK, TypeOK', ElectionInv, GithubStable,
         NEW i \in Instances, Frame(i), mem'[i] = mem[i], disk'[i] = disk[i],
         Running(i), Running(i)',
         \A c \in late' : c \in late \/ Good(c)
  PROVE  ElectionInv'
<1>1. JobInv(mem[i])' /\ JobInv(disk[i])'
  <2>1. JobInv(mem[i]) /\ JobInv(disk[i])
    BY InstanceFacts DEF InstanceInv
  <2> QED
    BY <2>1, InstanceFacts, JobStable DEF JobInv, Own
<1>2. Elected(i)'
  BY InstanceFacts, ElectedStable
<1>3. mem'[i].claim.token # 0
  BY InstanceFacts DEF InstanceInv, Running
<1>4. InstanceInv(i)'
  BY <1>1, <1>2, <1>3 DEF InstanceInv
<1>5. OwnTokens(i)' = OwnTokens(i)
  BY DEF OwnTokens
<1> QED
  BY <1>4, <1>5, OneInstance DEF Good

\* The claim of a job that keeps its token and its comment stays sound.
LEMMA SameComment ==
  ASSUME TypeOK, TypeOK', ElectionInv, GithubStable, NEW i \in Instances,
         mem[i].claim.token # 0,
         mem'[i].claim.token = mem[i].claim.token,
         mem'[i].claim.id = mem[i].claim.id
  PROVE  JobInv(mem[i])' /\ mem'[i].claim.token \in OwnTokens(i)
<1>1. mem[i].claim \in Claim /\ Own(mem[i].claim) /\ JobInv(mem[i])
  BY InstanceFacts DEF InstanceInv
<1>2. Own(mem[i].claim)'
  BY <1>1, OwnStable DEF Own
<1>3. mem'[i].claim.token <= minted'
  BY <1>1 DEF JobInv, GithubStable, Claim, Tokens, TypeOK
<1> QED
  BY <1>2, <1>3, NewJob DEF OwnTokens

\* Drawing a token, or resuming a saved claim, preserves the invariant.
LEMMA BeginClaimElection ==
  ASSUME TypeOK, TypeOK', ElectionInv, NEW i \in Instances, BeginClaim(i)
  PROVE  ElectionInv'
<1>1. /\ pc[i] = "idle"
      /\ pc'[i] = "claimed"
      /\ disk'[i] = mem'[i]
      /\ UNCHANGED <<comments, posted, revived, late, renewal>>
  BY SaveFacts, MoveFacts DEF BeginClaim, github, lease
<1>2. /\ mem'[i].claim.token # 0
      /\ mem'[i].claim.token = mem[i].claim.token \/ mem'[i].claim.token > minted
      /\ minted' \in Nat /\ minted <= minted'
      /\ JobInv(mem[i])'
      /\ \A j \in Instances \ {i} : mem'[j] = mem[j]
  <2>1. CASE Resumable(mem[i].claim) /\ UNCHANGED <<mem, minted>>
    <3>1. minted' \in Nat /\ minted <= minted'
      BY <2>1 DEF TypeOK, Tokens
    <3>2. JobInv(mem[i])'
      BY <1>1, <2>1, InstanceFacts DEF InstanceInv, JobInv, Own
    <3> QED
      BY <2>1, <3>1, <3>2, InstanceFacts DEF Resumable
  <2>2. CASE minted' = minted + 1 /\ SetClaim(i, NewClaim)
    <3>1. minted \in Nat
      BY DEF TypeOK, Tokens
    <3>2. mem'[i].claim = NewClaim
      BY <2>2, SetClaimFacts
    <3>3. mem'[i].claim.token = minted + 1 /\ mem'[i].claim.id = 0
      BY <3>2 DEF NewClaim
    <3>4. Own(mem[i].claim)'
      BY <3>3 DEF Own
    <3> QED
      BY <2>2, <3>1, <3>3, <3>4, NewJob, SetClaimFacts
  <2> QED
    BY <2>1, <2>2 DEF BeginClaim
<1>3. GithubStable
  BY <1>1, <1>2, UnchangedStable
<1>4. Frame(i)
  BY <1>1, <1>2, SaveFacts, MoveFacts DEF Frame, BeginClaim
<1>5. mem'[i].claim.token \in OwnTokens(i) \/ mem'[i].claim.token > minted
  BY <1>2 DEF OwnTokens
<1>6. ~Running(i)' /\ renewal'[i] = "off"
  BY <1>1, InstanceFacts DEF Running
<1> QED
  BY <1>1, <1>2, <1>3, <1>4, <1>5, <1>6, SettledStep

\* The other steps of acquire.
LEMMA AcquireElection ==
  ASSUME TypeOK, TypeOK', ElectionInv, NEW i \in Instances, Acquire(i)
  PROVE  ElectionInv'
<1> USE DEF github, lease
<1> DEFINE c == mem[i].claim
<1>1. CASE BeginClaim(i)
  BY <1>1, BeginClaimElection
<1>2. ASSUME pc[i] \in {"claimed", "settle"}, Yield(i) PROVE ElectionInv'
  <2>1. c.token # 0 /\ renewal[i] = "off"
    BY <1>2, InstanceFacts DEF InstanceInv, Running
  <2>2. GithubStable
    BY <1>2, UnchangedStable DEF Yield, TypeOK, Tokens
  <2>3. Frame(i)
    BY <1>2, ConcludeFacts, SaveFacts, MoveFacts, InstanceFacts DEF Frame, Yield
  <2>4. JobInv(mem[i])' /\ mem'[i].claim.token \in OwnTokens(i)
    BY <1>2, <2>1, <2>2, ConcludeFacts, InstanceFacts, SameComment DEF Yield
  <2>5. pc'[i] = "sync" /\ disk'[i] = mem'[i] /\ mem'[i].claim.token # 0
    BY <1>2, <2>1, ConcludeFacts, SaveFacts, MoveFacts, InstanceFacts DEF Yield
  <2> QED
    BY <1>2, <2>1, <2>2, <2>3, <2>4, <2>5, SettledStep DEF Yield, Running
<1>3. CASE AcquireRead(i)
  <2>1. c.token # 0 /\ renewal[i] = "off"
    BY <1>3, InstanceFacts DEF InstanceInv, Running, AcquireRead
  <2>2. GithubStable
    BY <1>3, UnchangedStable DEF AcquireRead, TypeOK, Tokens
  <2>3. PICK id \in {0} \cup Ids :
          /\ Recovered(c, id)
          /\ SetClaim(i, [c EXCEPT !.id = id, !.status = "working",
                                   !.left = Timeout])
    BY <1>3 DEF AcquireRead
  <2>4. /\ mem'[i].claim.id = id
        /\ mem'[i].claim.token = c.token
        /\ \A j \in Instances \ {i} : mem'[j] = mem[j]
    <3>1. /\ mem'[i].claim = [c EXCEPT !.id = id, !.status = "working",
                                      !.left = Timeout]
          /\ \A j \in Instances \ {i} : mem'[j] = mem[j]
      BY <2>3, SetClaimFacts
    <3>2. c \in Claim
      BY InstanceFacts
    <3> HIDE DEF c
    <3> QED
      BY <3>1, <3>2, WriteFields
  <2>5. Own(mem[i].claim)'
    <3>1. id # 0 => id <= posted /\ comments[id].token = c.token
      BY <2>1, <2>3, InstanceFacts DEF Recovered, First, ElectionInv, Own
    <3> QED
      BY <1>3, <2>1, <2>4, <3>1 DEF Own, AcquireRead
  <2>6. JobInv(mem[i])' /\ c.token \in OwnTokens(i)
    <3>1. mem'[i].claim.token <= minted'
      BY <1>3, <2>4, InstanceFacts DEF InstanceInv, JobInv, AcquireRead
    <3> QED
      BY <2>1, <2>4, <2>5, <3>1, NewJob DEF OwnTokens
  <2>7. Frame(i) /\ pc'[i] = "write"
    BY <1>3, <2>4, MoveFacts DEF Frame, AcquireRead
  <2> QED
    BY <1>3, <2>1, <2>2, <2>4, <2>6, <2>7, SettledStep DEF AcquireRead, Running
<1>4. CASE AcquireWrite(i)
  <2>1. c.token # 0 /\ renewal[i] = "off"
    BY <1>4, InstanceFacts DEF InstanceInv, Running, AcquireWrite
  <2>2. GithubStable
    BY <1>4, <2>1, InstanceFacts, ApplyStable
    DEF AcquireWrite, TypeOK, Tokens, Good
  <2>3. /\ mem'[i].claim.id = IF c.id = 0 THEN posted + 1 ELSE c.id
        /\ mem'[i].claim.token = c.token
        /\ \A j \in Instances \ {i} : mem'[j] = mem[j]
    BY <1>4, SetClaimFacts, InstanceFacts DEF Claim, AcquireWrite
  <2>4. JobInv(mem[i])' /\ c.token \in OwnTokens(i)
    <3>1. CASE c.id = 0
      <4>1. /\ posted + 1 \in Ids
            /\ posted' = posted + 1
            /\ comments'[posted + 1].token = c.token
        BY <1>4, <3>1 DEF AcquireWrite, Apply, Body, TypeOK
      <4>2. Own(mem[i].claim)'
        BY <2>1, <2>3, <3>1, <4>1 DEF Own, Ids
      <4>3. mem'[i].claim.token <= minted'
        BY <1>4, <2>3, InstanceFacts DEF InstanceInv, JobInv, AcquireWrite
      <4> QED
        BY <2>1, <2>3, <4>2, <4>3, NewJob DEF OwnTokens
    <3>2. CASE c.id # 0
      BY <2>1, <2>2, <2>3, <3>2, SameComment
    <3> QED
      BY <3>1, <3>2
  <2>5. Frame(i) /\ pc'[i] = "settle"
    BY <1>4, <2>3, MoveFacts DEF Frame, AcquireWrite
  <2> QED
    BY <1>4, <2>1, <2>2, <2>3, <2>4, <2>5, SettledStep DEF AcquireWrite, Running
<1>5. CASE AcquireWriteFails(i)
  <2>1. c.token # 0 /\ renewal[i] = "off"
    BY <1>5, InstanceFacts DEF InstanceInv, Running, AcquireWriteFails
  <2>2. Good(c)
    BY <2>1, InstanceFacts DEF Good
  <2>3. GithubStable /\ late' \subseteq late \cup {c}
    BY <1>5, <2>2, AmbiguousStable DEF AcquireWriteFails, TypeOK, Tokens
  <2>4. Frame(i) /\ pc'[i] = "idle"
    BY <1>5, MoveFacts DEF Frame, AcquireWriteFails
  <2>5. JobInv(mem[i])' /\ mem'[i].claim.token \in OwnTokens(i)
    BY <1>5, <2>1, <2>3, SameComment DEF AcquireWriteFails
  <2> QED
    BY <1>5, <2>1, <2>2, <2>3, <2>4, <2>5, SettledStep
    DEF AcquireWriteFails, Running
<1>6. CASE AcquireReadFails(i)
  <2>1. c.token # 0 /\ renewal[i] = "off"
    BY <1>6, InstanceFacts DEF InstanceInv, Running, AcquireReadFails
  <2>2. GithubStable
    BY <1>6, UnchangedStable DEF AcquireReadFails, TypeOK, Tokens
  <2>3. Frame(i) /\ pc'[i] = "idle"
    BY <1>6, MoveFacts DEF Frame, AcquireReadFails
  <2>4. JobInv(mem[i])' /\ mem'[i].claim.token \in OwnTokens(i)
    BY <1>6, <2>1, <2>2, SameComment DEF AcquireReadFails
  <2> QED
    BY <1>6, <2>1, <2>2, <2>3, <2>4, SettledStep DEF AcquireReadFails, Running
<1>7. CASE Confirm(i)
  <2>1. c.token # 0
    BY <1>7, InstanceFacts DEF InstanceInv, Confirm
  <2>2. GithubStable
    BY <1>7, UnchangedStable DEF Confirm, TypeOK, Tokens
  <2>3. /\ mem'[i].claim.id = c.id
        /\ mem'[i].claim.token = c.token
        /\ \A j \in Instances \ {i} : mem'[j] = mem[j]
    BY <1>7, SetClaimFacts, InstanceFacts DEF Claim, Confirm
  <2>4. JobInv(mem[i])' /\ c.token \in OwnTokens(i)
    BY <2>1, <2>2, <2>3, SameComment
  <2>5. Frame(i) /\ pc'[i] = "working" /\ disk'[i] = mem'[i]
    BY <1>7, <2>3, MoveFacts, SaveFacts DEF Frame, Confirm, TypeOK
  <2>6. JobInv(disk[i])'
    BY <2>4, <2>5 DEF JobInv, Own
  <2>7. Elected(i)'
    <3> SUFFICES ASSUME NEW k \in Ids, k < mem'[i].claim.id, Active(k)'
                 PROVE  FALSE
      BY DEF Elected
    <3>1. Active(k) /\ k \in 1..(c.id - 1)
      BY <1>7, <2>3, InstanceFacts DEF Active, Confirm, Claim, Ids
    <3> QED
      BY <1>7, <3>1 DEF Confirm, Owns, Wins
  <2>8. InstanceInv(i)'
    BY <2>1, <2>3, <2>4, <2>5, <2>6, <2>7 DEF InstanceInv, Running
  <2>9. \A t \in OwnTokens(i)' : t \in OwnTokens(i)
    BY <2>3, <2>4, <2>5 DEF OwnTokens
  <2> QED
    BY <1>7, <2>2, <2>5, <2>8, <2>9, OneInstance DEF Confirm
<1> QED
  BY <1>1, <1>2, <1>3, <1>4, <1>5, <1>6, <1>7
  DEF Acquire, YieldBeforePost, YieldAfterPost

\* The renewal goroutine.
LEMMA RenewElection ==
  ASSUME TypeOK, TypeOK', ElectionInv, NEW i \in Instances, Renew(i)
  PROVE  ElectionInv'
<1> USE DEF github
<1> DEFINE c == mem[i].claim
<1> DEFINE d == [c EXCEPT !.left = next[i]]
<1>1. renewal[i] # "off" /\ UNCHANGED <<pc, mem, disk, minted>>
  BY DEF Renew, RenewRead, RenewEdit, RenewLost, RenewReadFails, RenewEditFails,
         StopWork
<1>2. Running(i) /\ Running(i)'
  BY <1>1, InstanceFacts DEF InstanceInv, Running
<1>3. c.token # 0 /\ minted' \in Nat /\ minted <= minted'
  BY <1>1, <1>2, InstanceFacts DEF InstanceInv, Running, TypeOK, Tokens
<1>4. Good(d)
  <2>1. c \in Claim /\ Own(c) /\ next[i] \in 0..Timeout
    BY InstanceFacts DEF TypeOK
  <2> QED
    BY <1>3, <2>1 DEF Good, Own, Claim
<1>5. Frame(i)
  BY <1>1 DEF Frame, TypeOK, Renew, RenewRead, RenewEdit, RenewLost,
              RenewReadFails, RenewEditFails, StopWork
<1> HIDE DEF d
<1>6. CASE RenewRead(i) \/ RenewLost(i) \/ RenewReadFails(i)
  <2>1. UNCHANGED github
    BY <1>6 DEF RenewRead, RenewLost, RenewReadFails
  <2>2. GithubStable
    BY <1>3, <2>1, UnchangedStable
  <2> QED
    BY <1>1, <1>2, <1>5, <2>1, <2>2, RunningStep
<1>7. CASE RenewEdit(i)
  <2>1. Apply(d) /\ UNCHANGED late
    BY <1>7 DEF RenewEdit, d
  <2>2. GithubStable
    BY <1>3, <1>4, <2>1, ApplyStable
  <2> QED
    BY <1>1, <1>2, <1>5, <2>1, <2>2, RunningStep
<1>8. CASE RenewEditFails(i)
  <2>1. Ambiguous(d)
    BY <1>8 DEF RenewEditFails, d
  <2>2. GithubStable /\ late' \subseteq late \cup {d}
    BY <1>3, <1>4, <2>1, AmbiguousStable
  <2> QED
    BY <1>1, <1>2, <1>4, <1>5, <2>2, RunningStep
<1> QED
  BY <1>6, <1>7, <1>8 DEF Renew

\* The attempt and its end.
LEMMA WorkElection ==
  ASSUME TypeOK, TypeOK', ElectionInv, NEW i \in Instances, Work(i)
  PROVE  ElectionInv'
<1> USE DEF github, lease
<1>1. /\ UNCHANGED <<comments, posted, revived, late>>
      /\ GithubStable
  <2>1. UNCHANGED <<github, minted>>
    BY DEF Work, ReadyToPublish, Publish, Finish
  <2> QED
    BY <2>1, UnchangedStable DEF TypeOK, Tokens
<1>2. CASE ReadyToPublish(i)
  <2>1. Frame(i) /\ Running(i) /\ Running(i)'
    BY <1>2, MoveFacts DEF Frame, ReadyToPublish, Running
  <2> QED
    BY <1>1, <1>2, <2>1, RunningStep DEF ReadyToPublish
<1>3. CASE Publish(i)
  <2>1. Frame(i) /\ Running(i) /\ Running(i)'
    BY <1>3 DEF Frame, Publish, Running
  <2> QED
    BY <1>1, <1>3, <2>1, RunningStep DEF Publish
<1>4. ASSUME NEW status, Finish(i, status) PROVE ElectionInv'
  <2>1. mem[i].claim.token # 0
    BY <1>4, InstanceFacts DEF Finish, Running, InstanceInv
  <2>2. /\ mem'[i].claim.id = mem[i].claim.id
        /\ mem'[i].claim.token = mem[i].claim.token
        /\ \A j \in Instances \ {i} : mem'[j] = mem[j]
    BY <1>4, InstanceFacts, ConcludeFacts DEF Finish
  <2>3. JobInv(mem[i])' /\ mem'[i].claim.token \in OwnTokens(i)
    BY <1>1, <2>1, <2>2, SameComment
  <2>4. Frame(i) /\ pc'[i] = "sync" /\ disk'[i] = mem'[i] /\ renewal'[i] = "off"
    BY <1>4, <2>2, MoveFacts, SaveFacts DEF Frame, Finish, TypeOK
  <2> QED
    BY <1>1, <2>1, <2>2, <2>3, <2>4, SettledStep DEF Running
<1> QED
  BY <1>2, <1>3, <1>4 DEF Work

\* The comment resolved by token is one of the claim's own.
LEMMA ResolvedGood ==
  ASSUME TypeOK, ElectionInv, NEW c \in Claim, c.token # 0,
         NEW id \in {0} \cup Ids, Resolved(c, id)
  PROVE  Good([c EXCEPT !.id = id])
<1>1. [c EXCEPT !.id = id] \in Claim
  BY FieldType
<1>2. id # 0 => id <= posted /\ comments[id].token = c.token
  BY DEF Resolved, First, ElectionInv
<1> QED
  BY <1>1, <1>2 DEF Good, Own, Claim

\* Delivering a final state.
LEMMA DeliverElection ==
  ASSUME TypeOK, TypeOK', ElectionInv, NEW i \in Instances, Deliver(i)
  PROVE  ElectionInv'
<1> USE DEF github, lease
<1> DEFINE c == mem[i].claim
<1>0. c \in Claim /\ renewal[i] = "off"
  BY InstanceFacts
     DEF Running, Deliver, Complete, Sync, SyncReadFails, SyncWriteFails,
         Delivering
<1>1. CASE Complete(i)
  <2>1. /\ mem'[i].claim.token # 0
        /\ mem'[i].claim.token \in OwnTokens(i) \/ mem'[i].claim.token > minted
        /\ GithubStable
        /\ JobInv(mem[i])'
        /\ \A j \in Instances \ {i} : mem'[j] = mem[j]
    <3>1. CASE c.token # 0 /\ Conclude(i, c, "done") /\ UNCHANGED minted
      <4>1. GithubStable
        BY <1>1, <3>1, UnchangedStable DEF Complete, TypeOK, Tokens
      <4> QED
        BY <1>0, <3>1, <4>1, ConcludeFacts, SameComment
    <3>2. CASE /\ minted < MaxTokens
               /\ minted' = minted + 1
               /\ Conclude(i, NewClaim, "done")
      <4>1. GithubStable
        BY <1>1, <3>2, UnchangedStable DEF Complete, TypeOK, Tokens
      <4>2. /\ mem'[i].claim.id = 0
            /\ mem'[i].claim.token = minted + 1
            /\ \A j \in Instances \ {i} : mem'[j] = mem[j]
        BY <3>2, NewClaimType, ConcludeFacts DEF NewClaim
      <4>3. Own(mem[i].claim)'
        BY <4>2 DEF Own
      <4>4. minted \in Nat
        BY DEF TypeOK, Tokens
      <4> QED
        BY <3>2, <4>1, <4>2, <4>3, <4>4, NewJob
    <3> QED
      BY <1>1, <3>1, <3>2 DEF Complete
  <2>2. Frame(i) /\ pc'[i] = "sync" /\ disk'[i] = mem'[i]
    BY <1>1, <2>1, MoveFacts, SaveFacts DEF Frame, Complete
  <2> QED
    BY <1>0, <1>1, <2>1, <2>2, SettledStep DEF Running, Complete
<1>2. CASE Sync(i)
  <2>1. c.token # 0
    BY <1>2, InstanceFacts DEF Sync, Delivering
  <2>2. PICK id \in {0} \cup Ids :
          /\ Resolved(c, id)
          /\ \/ /\ mem' = [mem EXCEPT ![i].pending = FALSE]
                /\ UNCHANGED <<comments, posted, revived>>
             \/ /\ Apply([c EXCEPT !.id = id])
                /\ mem' = [mem EXCEPT ![i] =
                     [claim |-> [c EXCEPT !.id = IF id = 0 THEN posted + 1 ELSE id],
                      pending |-> FALSE]]
    BY <1>2 DEF Sync
  <2>3. minted' \in Nat /\ minted <= minted'
    BY <1>2 DEF Sync, TypeOK, Tokens
  <2>4. /\ GithubStable
        /\ JobInv(mem[i])'
        /\ mem'[i].claim.token = c.token
        /\ \A j \in Instances \ {i} : mem'[j] = mem[j]
    <3>1. CASE /\ mem' = [mem EXCEPT ![i].pending = FALSE]
               /\ UNCHANGED <<comments, posted, revived>>
      <4>1. GithubStable
        BY <2>3, <3>1, UnchangedStable
      <4>2. mem'[i].claim = c /\ \A j \in Instances \ {i} : mem'[j] = mem[j]
        BY <3>1 DEF TypeOK, Job
      <4> QED
        BY <2>1, <4>1, <4>2, SameComment
    <3>2. CASE /\ Apply([c EXCEPT !.id = id])
               /\ mem' = [mem EXCEPT ![i] =
                    [claim |-> [c EXCEPT !.id = IF id = 0 THEN posted + 1 ELSE id],
                     pending |-> FALSE]]
      <4>1. Good([c EXCEPT !.id = id])
        BY <1>0, <2>1, <2>2, ResolvedGood
      <4>2. GithubStable
        BY <2>3, <3>2, <4>1, ApplyStable
      <4>3. /\ mem'[i].claim.id = IF id = 0 THEN posted + 1 ELSE id
            /\ mem'[i].claim.token = c.token
            /\ \A j \in Instances \ {i} : mem'[j] = mem[j]
        BY <1>0, <3>2 DEF TypeOK, Claim
      <4>4. LET k == IF id = 0 THEN posted + 1 ELSE id IN
              k <= posted' /\ comments'[k].token = c.token
        <5>1. /\ [c EXCEPT !.id = id].id = id
              /\ [c EXCEPT !.id = id].token = c.token
          BY <1>0 DEF Claim
        <5>2. CASE id = 0
          BY <3>2, <5>1, <5>2 DEF Apply, Body, TypeOK, Ids
        <5>3. CASE id # 0
          <6>1. id <= posted /\ comments'[id].token = c.token
            BY <3>2, <4>1, <5>1, <5>3 DEF Apply, Body, TypeOK, Good, Own
          <6> QED
            BY <5>3, <6>1, <4>2 DEF GithubStable, TypeOK, Ids
        <5> QED
          BY <5>2, <5>3
      <4>5. Own(mem[i].claim)'
        BY <2>1, <4>3, <4>4 DEF Own
      <4>6. mem'[i].claim.token <= minted'
        BY <1>2, <4>3, InstanceFacts DEF InstanceInv, JobInv, Sync
      <4> QED
        BY <2>1, <4>2, <4>3, <4>5, <4>6, NewJob
    <3> QED
      BY <2>2, <3>1, <3>2
  <2>5. Frame(i) /\ pc'[i] = "idle" /\ disk'[i] = mem'[i]
    BY <1>2, <2>4, MoveFacts, SaveFacts DEF Frame, Sync
  <2> QED
    BY <1>0, <1>2, <2>1, <2>4, <2>5, SettledStep DEF Running, Sync, OwnTokens
<1>3. CASE SyncReadFails(i)
  <2>1. c.token # 0
    BY <1>3, InstanceFacts DEF SyncReadFails, Delivering
  <2>2. GithubStable
    BY <1>3, UnchangedStable DEF SyncReadFails, TypeOK, Tokens
  <2>3. Frame(i) /\ pc'[i] = "idle"
    BY <1>3, MoveFacts DEF Frame, SyncReadFails
  <2>4. JobInv(mem[i])' /\ mem'[i].claim.token \in OwnTokens(i)
    BY <1>3, <2>1, <2>2, SameComment DEF SyncReadFails
  <2> QED
    BY <1>0, <1>3, <2>2, <2>3, <2>4, SettledStep DEF Running, SyncReadFails
<1>4. CASE SyncWriteFails(i)
  <2>1. c.token # 0
    BY <1>4, InstanceFacts DEF SyncWriteFails, Delivering
  <2>2. PICK id \in {0} \cup Ids :
          /\ Resolved(c, id)
          /\ Ambiguous([c EXCEPT !.id = id])
          /\ SetClaim(i, [c EXCEPT !.id = IF id = 0 THEN @ ELSE id])
    BY <1>4 DEF SyncWriteFails
  <2>3. Good([c EXCEPT !.id = id])
    BY <1>0, <2>1, <2>2, ResolvedGood
  <2>4. GithubStable /\ late' \subseteq late \cup {[c EXCEPT !.id = id]}
    BY <1>4, <2>2, <2>3, AmbiguousStable DEF SyncWriteFails, TypeOK, Tokens
  <2>5. /\ mem'[i].claim.id = IF id = 0 THEN c.id ELSE id
        /\ mem'[i].claim.token = c.token
        /\ \A j \in Instances \ {i} : mem'[j] = mem[j]
    BY <1>0, <2>2, SetClaimFacts DEF Claim
  <2>6. JobInv(mem[i])'
    <3>1. CASE id = 0
      BY <2>1, <2>4, <2>5, <3>1, SameComment
    <3>2. CASE id # 0
      <4>1. id \in Ids /\ id <= posted /\ comments[id].token = c.token
        BY <1>0, <2>3, <3>2 DEF Good, Own, Claim
      <4>2. id <= posted' /\ comments'[id].token = c.token
        BY <2>4, <4>1 DEF GithubStable, TypeOK, Ids
      <4>3. Own(mem[i].claim)'
        BY <2>1, <2>5, <3>2, <4>2 DEF Own
      <4>4. mem'[i].claim.token <= minted'
        BY <1>4, <2>5, InstanceFacts DEF InstanceInv, JobInv, SyncWriteFails
      <4> QED
        BY <2>1, <2>5, <4>3, <4>4, NewJob
    <3> QED
      BY <3>1, <3>2
  <2>7. Frame(i) /\ pc'[i] = "idle"
    BY <1>4, <2>5, MoveFacts DEF Frame, SyncWriteFails
  <2> QED
    BY <1>0, <1>4, <2>1, <2>3, <2>4, <2>5, <2>6, <2>7, SettledStep
    DEF Running, SyncWriteFails, OwnTokens
<1> QED
  BY <1>1, <1>2, <1>3, <1>4 DEF Deliver

\* A crash forgets the claim in memory, a restart takes the saved one.
LEMMA CrashElection ==
  ASSUME TypeOK, TypeOK', ElectionInv, NEW i \in Instances,
         Crash(i) \/ Restart(i)
  PROVE  ElectionInv'
<1> USE DEF github, lease
<1>1. GithubStable
  BY UnchangedStable DEF Crash, Restart, TypeOK, Tokens
<1>2. CASE Crash(i)
  <2>1. mem'[i] = NoJob /\ renewal'[i] = "off" /\ pc'[i] = "down"
    BY <1>2, MoveFacts DEF Crash, TypeOK
  <2>2. JobInv(mem[i])' /\ mem'[i].claim.token = 0
    BY <2>1 DEF JobInv, Own, NoJob, NoClaim, TypeOK, Tokens
  <2>3. Frame(i)
    BY <1>2, MoveFacts DEF Frame, Crash, TypeOK
  <2> QED
    BY <1>1, <1>2, <2>1, <2>2, <2>3, SettledStep DEF Running, Crash
<1>3. CASE Restart(i)
  <2>1. mem'[i] = disk[i] /\ pc'[i] = "idle" /\ renewal'[i] = "off"
    BY <1>3, MoveFacts, InstanceFacts DEF Restart, TypeOK, Running
  <2>2. JobInv(mem[i])'
    <3>1. JobInv(disk[i]) /\ disk[i] \in Job
      BY InstanceFacts DEF InstanceInv
    <3> QED
      BY <1>1, <2>1, <3>1, JobStable DEF JobInv, Own
  <2>3. mem'[i].claim.token \in OwnTokens(i) \cup {0}
    BY <2>1 DEF OwnTokens
  <2>4. Frame(i)
    BY <1>3, MoveFacts DEF Frame, Restart, TypeOK
  <2> QED
    BY <1>1, <1>3, <2>1, <2>2, <2>3, <2>4, SettledStep DEF Running, Restart
<1> QED
  BY <1>2, <1>3

\* A step that leaves the instances alone but writes to the comments.
LEMMA LandLateElection ==
  ASSUME TypeOK, TypeOK', ElectionInv, NEW c \in late, LandLate(c)
  PROVE  ElectionInv'
<1>1. Good(c)
  BY DEF ElectionInv, Good, TypeOK
<1>2. GithubStable
  BY <1>1, ApplyStable DEF LandLate, TypeOK, Tokens
<1>3. \A j \in Instances : InstanceInv(j)' /\ OwnTokens(j)' = OwnTokens(j)
  BY <1>2, OthersStable DEF LandLate, lease, ElectionInv
<1>4. \A w \in late' : w.token # 0 /\ Own(w)'
  <2> SUFFICES ASSUME NEW w \in late' PROVE w.token # 0 /\ Own(w)'
    OBVIOUS
  <2>1. w \in Claim /\ w.token # 0 /\ Own(w)
    BY DEF LandLate, ElectionInv, TypeOK
  <2> QED
    BY <1>2, <2>1, OwnStable
<1>5. \A k \in Ids : comments'[k].token # 0 => k <= posted'
  BY <1>2 DEF ElectionInv, GithubStable, TypeOK, Ids
<1> QED
  BY <1>3, <1>4, <1>5 DEF ElectionInv

\* Ageing changes only what is left of a lease.
LEMMA OlderFacts ==
  ASSUME NEW c \in Claim
  PROVE  /\ Older(c).token = c.token
         /\ Older(c).id = c.id
         /\ Older(c).status = c.status
  BY DEF Older, Claim

\* Time only ends claims.
LEMMA TickElection ==
  ASSUME TypeOK, TypeOK', ElectionInv, Tick
  PROVE  ElectionInv'
<1>1. \A k \in Ids : /\ comments'[k].token = comments[k].token
                     /\ Active(k)' => Active(k)
  <2> SUFFICES ASSUME NEW k \in Ids
               PROVE  /\ comments'[k].token = comments[k].token
                      /\ Active(k)' => Active(k)
    OBVIOUS
  <2>1. comments[k] \in Comment /\ comments'[k] = Older(comments[k])
    BY DEF Tick, TypeOK
  <2>2. /\ Older(comments[k]).token = comments[k].token
        /\ Older(comments[k]).status = comments[k].status
        /\ Older(comments[k]).left > 0 => comments[k].left > 0
    BY <2>1, ClaimsAssumption DEF Older, Less, Comment
  <2> QED
    BY <2>1, <2>2 DEF Active
<1>2. ASSUME NEW c \in Claim
      PROVE  Own(Older(c))' <=> Own(c)
  <2>1. c.id # 0 => c.id \in Ids
    BY DEF Claim
  <2>2. posted' = posted
    BY DEF Tick
  <2>3. /\ Older(c)'.id = c.id
        /\ Older(c)'.token = c.token
    BY OlderFacts
  <2> QED
    BY <1>1, <2>1, <2>2, <2>3 DEF Own
<1>3. ASSUME NEW i \in Instances
      PROVE  InstanceInv(i)' /\ OwnTokens(i)' = OwnTokens(i)
  <2>1. /\ mem[i].claim \in Claim /\ disk[i].claim \in Claim
        /\ JobInv(mem[i]) /\ JobInv(disk[i])
    BY InstanceFacts DEF InstanceInv, TypeOK, Job
  <2>2. /\ mem'[i].claim = Older(mem[i].claim)
        /\ mem'[i].pending = mem[i].pending
        /\ disk'[i].claim = Older(disk[i].claim)
        /\ disk'[i].pending = disk[i].pending
    BY DEF Tick, TypeOK, Job
  <2>3. /\ mem'[i].claim.id = mem[i].claim.id
        /\ mem'[i].claim.token = mem[i].claim.token
        /\ mem'[i].claim.status = mem[i].claim.status
        /\ disk'[i].claim.id = disk[i].claim.id
        /\ disk'[i].claim.token = disk[i].claim.token
        /\ disk'[i].claim.status = disk[i].claim.status
    BY <2>1, <2>2, OlderFacts
  <2>4. posted' = posted /\ minted' = minted /\ pc' = pc /\ renewal' = renewal
        /\ revived' = revived
    BY DEF Tick
  <2>5. JobInv(mem[i])' /\ JobInv(disk[i])'
    <3>1. /\ mem[i].claim.id # 0 => mem[i].claim.id \in Ids
          /\ disk[i].claim.id # 0 => disk[i].claim.id \in Ids
      BY <2>1 DEF Claim
    <3> QED
      BY <1>1, <2>1, <2>2, <2>3, <2>4, <3>1 DEF JobInv, Own
  <2>6. Elected(i)'
    BY <1>1, <2>3, <2>4, InstanceFacts DEF Elected, Running, InstanceInv
  <2> QED
    BY <2>3, <2>4, <2>5, <2>6, InstanceFacts DEF InstanceInv, OwnTokens, Running
<1>4. \A w \in late' : w.token # 0 /\ Own(w)'
  <2> SUFFICES ASSUME NEW c \in late
               PROVE  Older(c).token # 0 /\ Own(Older(c))'
    BY DEF Tick
  <2>1. c \in Claim /\ c.token # 0 /\ Own(c)
    BY DEF ElectionInv, TypeOK
  <2> QED
    BY <1>2, <2>1, OlderFacts
<1>5. \A k \in Ids : comments'[k].token # 0 => k <= posted'
  BY <1>1 DEF Tick, ElectionInv
<1> QED
  BY <1>3, <1>4, <1>5 DEF ElectionInv

\* The initial state satisfies the election invariant.
LEMMA InitElection == Init => ElectionInv
<1> SUFFICES ASSUME Init PROVE ElectionInv
  OBVIOUS
<1>1. \A i \in Instances : mem[i] = NoJob /\ disk[i] = NoJob
  BY DEF Init
<1>2. \A i \in Instances : InstanceInv(i) /\ OwnTokens(i) = {}
  BY <1>1 DEF Init, InstanceInv, JobInv, Own, Elected, Running, OwnTokens,
              NoJob, NoClaim
<1> QED
  BY <1>2 DEF Init, ElectionInv, NoComment

\* The election invariant is inductive, given the types.
THEOREM Elections == Spec => []ElectionInv
<1>1. TypeOK /\ TypeOK' /\ ElectionInv /\ [Next]_vars => ElectionInv'
  <2> SUFFICES ASSUME TypeOK, TypeOK', ElectionInv, [Next]_vars
               PROVE  ElectionInv'
    OBVIOUS
  <2>1. CASE Next
    BY <2>1, AcquireElection, RenewElection, WorkElection, DeliverElection,
       CrashElection, LandLateElection, TickElection
    DEF Next
  <2>2. CASE UNCHANGED vars
    BY <2>2 DEF vars, github, lease, ElectionInv, InstanceInv, JobInv, Own,
                Elected, Running, Active, OwnTokens
  <2> QED
    BY <2>1, <2>2
<1> QED
  BY InitElection, TypeCorrect, <1>1, PTL DEF Spec

\* Two instances hold live claims only when the lower comment was revived.
THEOREM ElectionHolds == Spec => []ExclusiveUnlessRevived
<1>1. TypeOK /\ ElectionInv => ExclusiveUnlessRevived
  <2> SUFFICES ASSUME TypeOK, ElectionInv,
                      NEW i \in Instances, NEW j \in Instances, i # j,
                      Holder(i), Holder(j),
                      mem[i].claim.id <= mem[j].claim.id
               PROVE  revived[mem[i].claim.id]
    BY DEF ExclusiveUnlessRevived
  <2> DEFINE a == mem[i].claim
             b == mem[j].claim
  <2>1. /\ a \in Claim /\ b \in Claim /\ Own(a) /\ Own(b)
        /\ a.token # 0 /\ b.token # 0
        /\ Elected(j)
    BY InstanceFacts DEF InstanceInv, Holder, Running
  <2>2. a.id # 0
    BY DEF Holder, Ids
  <2>3. CASE a.id = b.id
    <3>1. a.token = b.token
      BY <2>1, <2>2, <2>3 DEF Own
    <3> QED
      BY <2>1, <3>1 DEF ElectionInv, OwnTokens
  <2>4. CASE a.id # b.id
    <3>1. a.id \in Ids /\ a.id < b.id
      BY <2>1, <2>2, <2>4 DEF Claim, Ids
    <3> QED
      BY <2>1, <3>1 DEF Elected, Holder
  <2> QED
    BY <2>3, <2>4
<1> QED
  BY TypeCorrect, Elections, <1>1, PTL

-----------------------------------------------------------------------------
(* Tokens and final states, where no write is executed after its caller gave  *)
(* up                                                                         *)

Final == {"released", "done"}

\* Memory and state.json tell the same of a claim, but for its comment and its
\* expiry; an update to deliver is a final state; who acquires or works has a
\* working claim.
Synced(i) ==
  /\ mem[i].pending => mem[i].claim.status \in Final
  /\ disk[i].pending => disk[i].claim.status \in Final
  /\ pc[i] # "down" =>
       /\ mem[i].claim.token = disk[i].claim.token
       /\ mem[i].claim.status = disk[i].claim.status
       /\ mem[i].pending = disk[i].pending
  /\ pc[i] \in {"claimed", "write", "settle", "working", "checked"} =>
       mem[i].claim.status = "working"
  /\ Running(i) => mem[i].claim.id # 0

\* The saved claim of a comment in a final state is in a final state.
FinalIsSaved(i) ==
  disk[i].claim.token # 0 =>
    \A k \in Ids :
      comments[k].token = disk[i].claim.token /\ comments[k].status \in Final
        => disk[i].claim.status \in Final

\* Who is about to post a comment has none.
PostsOnce(i) ==
  pc[i] = "write" /\ mem[i].claim.id = 0 => ~Listed(mem[i].claim.token)

TokenInv ==
  /\ late = {}
  /\ \A k \in Ids : /\ comments[k].token <= minted
                    /\ comments[k].token = 0 => comments[k].status = "none"
  /\ \A i \in Instances : Synced(i) /\ FinalIsSaved(i) /\ PostsOnce(i)
  /\ OneCommentPerToken

\* What a step of instance i may do to the comments: bring its own one to the
\* status of its claim, or post its first.
Touches(i, n, b) ==
  /\ comments' = [comments EXCEPT ![n] = b]
  /\ b.token = mem[i].claim.token
  /\ b.token # 0
  /\ b.status = mem[i].claim.status
  /\ \/ comments[n].token = b.token
     \/ comments[n].token = 0 /\ ~Listed(b.token)

OwnWrites(i) ==
  \/ comments' = comments
  \/ pc[i] # "down" /\ \E n \in Ids, b \in Comment : Touches(i, n, b)

\* With no room for delayed requests, a failed one did its work or nothing.
LEMMA NoDelay ==
  ASSUME MaxLate = 0, late = {}, NEW c, Ambiguous(c)
  PROVE  late' = {} /\ (UNCHANGED github \/ Apply(c))
<1>1. Cardinality(late) = 0
  BY FS_EmptySet
<1>2. ~(Cardinality(late) < MaxLate)
  BY <1>1
<1>3. CASE UNCHANGED github
  BY <1>3 DEF github
<1>4. CASE Apply(c) /\ UNCHANGED late
  BY <1>4
<1> QED
  BY <1>2, <1>3, <1>4 DEF Ambiguous

\* A write of the instance's claim touches its own comment.
LEMMA WriteTouches ==
  ASSUME TypeOK, ElectionInv, NEW i \in Instances, pc[i] # "down",
         NEW c \in Claim, Own(c),
         c.token # 0, c.token = mem[i].claim.token,
         c.status = mem[i].claim.status,
         c.id = 0 => ~Listed(c.token),
         Apply(c)
  PROVE  OwnWrites(i)
<1>1. PICK n \in Ids :
        /\ n = IF c.id = 0 THEN posted + 1 ELSE c.id
        /\ comments' = [comments EXCEPT ![n] = Body(c)]
  BY DEF Apply
<1>2. /\ Body(c) \in Comment
      /\ Body(c).token = c.token
      /\ Body(c).status = c.status
  BY DEF Body, Claim, Comment
<1>3. CASE c.id = 0
  <2>1. n = posted + 1 /\ posted \in Nat
    BY <1>1, <1>3 DEF TypeOK, Ids
  <2>2. comments[n].token = 0
    BY <2>1 DEF ElectionInv
  <2>3. Touches(i, n, Body(c))
    BY <1>1, <1>2, <1>3, <2>2 DEF Touches
  <2> QED
    BY <1>2, <2>3 DEF OwnWrites
<1>4. CASE c.id # 0
  <2>1. comments[n].token = c.token
    BY <1>1, <1>4 DEF Own
  <2>2. Touches(i, n, Body(c))
    BY <1>1, <1>2, <2>1 DEF Touches
  <2> QED
    BY <1>2, <2>2 DEF OwnWrites
<1> QED
  BY <1>3, <1>4

\* What a step of instance i does to its own job and to nobody else's.
OwnStep(i) ==
  /\ Frame(i)
  /\ OwnWrites(i)
  /\ late' = {}
  /\ minted' \in Nat /\ minted <= minted'
  /\ Synced(i)'
  /\ PostsOnce(i)'
  /\ \/ /\ disk'[i].claim.token = disk[i].claim.token
        /\ disk[i].claim.status \in Final => disk'[i].claim.status \in Final
     \/ disk'[i].claim.token > minted /\ comments' = comments

\* A comment that the step of i may write to is not that of another claim.
LEMMA OthersComment ==
  ASSUME TypeOK, ElectionInv, NEW i \in Instances, NEW j \in Instances, i # j,
         NEW n \in Ids, NEW b \in Comment, Touches(i, n, b)
  PROVE  /\ b.token \notin OwnTokens(j)
         /\ comments[n].token \notin OwnTokens(j)
<1>1. b.token \in OwnTokens(i)
  BY DEF Touches, OwnTokens
<1>2. b.token \notin OwnTokens(j)
  BY <1>1 DEF ElectionInv
<1> QED
  BY <1>2 DEF Touches, OwnTokens

\* A step of one instance preserves the token invariant.
LEMMA TokensStep ==
  ASSUME TypeOK, TypeOK', ElectionInv, TokenInv, NEW i \in Instances, OwnStep(i)
  PROVE  TokenInv'
<1>0. /\ minted \in Nat /\ minted' \in Nat /\ minted <= minted'
      /\ \A k \in Ids : comments[k] \in Comment /\ comments'[k] \in Comment
      /\ \A k \in Ids : comments[k].token \in Nat
      /\ \A j \in Instances : disk[j] \in Job /\ mem[j] \in Job
      /\ \A j \in Instances : disk[j].claim.token <= minted /\ disk[j].claim.token \in Nat
  BY DEF TypeOK, OwnStep, Tokens, Comment, Job, Claim, ElectionInv, InstanceInv, JobInv
<1>1. \A k \in Ids : /\ comments'[k].token <= minted'
                     /\ comments'[k].token = 0 => comments'[k].status = "none"
  <2>1. CASE comments' = comments
    BY <2>1, <1>0 DEF TokenInv
  <2>2. ASSUME NEW n \in Ids, NEW b \in Comment, Touches(i, n, b)
        PROVE  \A k \in Ids : /\ comments'[k].token <= minted'
                              /\ comments'[k].token = 0 => comments'[k].status = "none"
    <3>1. b.token <= minted
      BY <2>2 DEF Touches, ElectionInv, InstanceInv, JobInv
    <3>2. b.token \in Nat
      BY DEF Comment, Tokens
    <3> SUFFICES ASSUME NEW k \in Ids
                 PROVE  /\ comments'[k].token <= minted'
                        /\ comments'[k].token = 0 => comments'[k].status = "none"
      OBVIOUS
    <3>3. CASE k = n
      <4>1. comments'[k] = b
        BY <2>2, <3>3 DEF Touches, TypeOK
      <4> QED
        BY <4>1, <3>1, <3>2, <1>0, <2>2 DEF Touches
    <3>4. CASE k # n
      <4>1. comments'[k] = comments[k]
        BY <2>2, <3>4 DEF Touches, TypeOK
      <4> QED
        BY <4>1, <1>0 DEF TokenInv
    <3> QED
      BY <3>3, <3>4
  <2> QED
    BY <2>1, <2>2 DEF OwnStep, OwnWrites
<1>2. OneCommentPerToken'
  <2>1. CASE comments' = comments
    BY <2>1 DEF TokenInv, OneCommentPerToken
  <2>2. ASSUME NEW n \in Ids, NEW b \in Comment, Touches(i, n, b)
        PROVE  OneCommentPerToken'
    <3> SUFFICES ASSUME NEW k \in Ids, NEW l \in Ids,
                        comments'[k].token # 0,
                        comments'[k].token = comments'[l].token
                 PROVE  k = l
      BY DEF OneCommentPerToken
    <3>1. \A m \in Ids : comments'[m] = IF m = n THEN b ELSE comments[m]
      BY <2>2 DEF Touches, TypeOK
    <3>2. \A m \in Ids \ {n} : comments[m].token # b.token
      BY <2>2 DEF Touches, Listed, TokenInv, OneCommentPerToken
    <3>3. CASE k = n \/ l = n
      BY <3>1, <3>2, <3>3
    <3>4. CASE k # n /\ l # n
      BY <3>1, <3>4 DEF TokenInv, OneCommentPerToken
    <3> QED
      BY <3>3, <3>4
  <2> QED
    BY <2>1, <2>2 DEF OwnStep, OwnWrites
<1>3. ASSUME NEW j \in Instances, j # i
      PROVE  Synced(j)' /\ FinalIsSaved(j)' /\ PostsOnce(j)'
  <2>1. mem'[j] = mem[j] /\ disk'[j] = disk[j] /\ pc'[j] = pc[j]
    BY <1>3 DEF OwnStep, Frame
  <2>2. Synced(j)'
    BY <2>1 DEF TokenInv, Synced, Running
  <2>3. CASE comments' = comments
    BY <2>1, <2>2, <2>3 DEF TokenInv, FinalIsSaved, PostsOnce, Listed
  <2>4. ASSUME NEW n \in Ids, NEW b \in Comment, Touches(i, n, b)
        PROVE  FinalIsSaved(j)' /\ PostsOnce(j)'
    <3>1. b.token \notin OwnTokens(j)
      BY <1>3, <2>4, OthersComment
    <3>2. \A m \in Ids : comments'[m] = IF m = n THEN b ELSE comments[m]
      BY <2>4 DEF Touches, TypeOK
    <3>3. FinalIsSaved(j)'
      <4> SUFFICES ASSUME disk[j].claim.token # 0, NEW k \in Ids,
                          comments'[k].token = disk[j].claim.token,
                          comments'[k].status \in Final
                   PROVE  disk[j].claim.status \in Final
        BY <2>1 DEF FinalIsSaved, Final
      <4>1. k # n
        BY <3>1, <3>2 DEF OwnTokens
      <4> QED
        BY <3>2, <4>1 DEF TokenInv, FinalIsSaved
    <3>4. PostsOnce(j)'
      <4> SUFFICES ASSUME pc[j] = "write", mem[j].claim.id = 0, NEW k \in Ids,
                          comments'[k].token = mem[j].claim.token
                   PROVE  FALSE
        BY <2>1 DEF PostsOnce, Listed
      <4>1. mem[j].claim.token # 0
        BY DEF ElectionInv, InstanceInv
      <4>2. k # n
        BY <3>1, <3>2, <4>1 DEF OwnTokens
      <4> QED
        BY <3>2, <4>2 DEF TokenInv, PostsOnce, Listed
    <3> QED
      BY <3>3, <3>4
  <2> QED
    BY <2>2, <2>3, <2>4 DEF OwnStep, OwnWrites
<1>4. FinalIsSaved(i)'
  <2> SUFFICES ASSUME disk'[i].claim.token # 0, NEW k \in Ids,
                      comments'[k].token = disk'[i].claim.token,
                      comments'[k].status \in Final
               PROVE  disk'[i].claim.status \in Final
    BY DEF FinalIsSaved, Final
  <2>1. CASE disk'[i].claim.token > minted /\ comments' = comments
    BY <1>0, <2>1 DEF TokenInv
  <2>2. CASE /\ disk'[i].claim.token = disk[i].claim.token
             /\ disk[i].claim.status \in Final => disk'[i].claim.status \in Final
    <3>1. CASE comments'[k] = comments[k]
      BY <2>2, <3>1 DEF TokenInv, FinalIsSaved
    <3>2. CASE comments'[k] # comments[k]
      <4>1. PICK n \in Ids, b \in Comment : pc[i] # "down" /\ Touches(i, n, b)
        BY <3>2 DEF OwnStep, OwnWrites
      <4>2. comments'[k] = b
        BY <3>2, <4>1 DEF Touches, TypeOK
      <4>3. disk[i].claim.status = b.status
        BY <4>1 DEF Touches, TokenInv, Synced
      <4> QED
        BY <2>2, <4>2, <4>3
    <3> QED
      BY <3>1, <3>2
  <2> QED
    BY <2>1, <2>2 DEF OwnStep
<1> QED
  BY <1>1, <1>2, <1>3, <1>4 DEF TokenInv, OwnStep

\* What the invariants say of one instance.
LEMMA OwnFacts ==
  ASSUME TypeOK, ElectionInv, TokenInv, NEW i \in Instances
  PROVE  /\ mem[i] \in Job /\ disk[i] \in Job
         /\ mem[i].claim \in Claim
         /\ Own(mem[i].claim)
         /\ Synced(i) /\ PostsOnce(i)
         /\ pc[i] \notin {"down", "idle"} => mem[i].claim.token # 0
         /\ mem[i].pending => mem[i].claim.token # 0
         /\ ~Running(i) => renewal[i] = "off"
  BY InstanceFacts DEF TokenInv, InstanceInv

\* A step that leaves the comments and the saved claim's token alone.
LEMMA NoWriteStep ==
  ASSUME TypeOK, TokenInv, NEW i \in Instances, Frame(i), UNCHANGED github,
         Synced(i)', PostsOnce(i)', minted' \in Nat, minted <= minted',
         \/ /\ disk'[i].claim.token = disk[i].claim.token
            /\ disk[i].claim.status \in Final => disk'[i].claim.status \in Final
         \/ disk'[i].claim.token > minted
  PROVE  OwnStep(i)
  BY DEF OwnStep, OwnWrites, github, TokenInv

\* A concluded claim has the final state asked for.
LEMMA ConcludeStatus ==
  ASSUME TypeOK, NEW i \in Instances, NEW c \in Claim, NEW status,
         Conclude(i, c, status)
  PROVE  mem'[i].claim.status = status
  BY DEF TypeOK, Conclude, Claim

\* claimedAttempt and acquire write to the own comment only.
LEMMA AcquireTokens ==
  ASSUME TypeOK, ElectionInv, TokenInv, MaxLate = 0,
         NEW i \in Instances, Acquire(i)
  PROVE  OwnStep(i)
<1> USE OwnFacts DEF lease
<1> DEFINE c == mem[i].claim
<1>0. minted \in Nat /\ minted' \in Nat /\ minted <= minted'
  <2>1. minted \in Nat
    BY DEF TypeOK, Tokens
  <2>2. minted' = minted \/ minted' = minted + 1
    <3>1. CASE BeginClaim(i)
      BY <3>1 DEF BeginClaim
    <3>2. CASE ~BeginClaim(i)
      BY <3>2 DEF Acquire, YieldBeforePost, AcquireRead, AcquireWrite,
                  AcquireWriteFails, AcquireReadFails, Confirm, YieldAfterPost, Yield
    <3> QED
      BY <3>1, <3>2
  <2> QED
    BY <2>1, <2>2
<1>1. CASE BeginClaim(i)
  <2>1. /\ pc[i] = "idle" /\ ~mem[i].pending /\ pc'[i] = "claimed"
        /\ disk'[i] = mem'[i] /\ UNCHANGED github
    BY <1>1, SaveFacts, MoveFacts DEF BeginClaim
  <2>2. CASE Resumable(c) /\ UNCHANGED <<mem, minted>>
    <3>1. Frame(i) /\ mem'[i] = mem[i]
      BY <1>1, <2>2, SaveFacts, MoveFacts DEF Frame, BeginClaim
    <3>2. Synced(i)' /\ PostsOnce(i)'
      BY <2>1, <2>2, <3>1 DEF Synced, PostsOnce, Running, Resumable, Final
    <3>3. /\ disk'[i].claim.token = disk[i].claim.token
          /\ disk'[i].claim.status = disk[i].claim.status
      BY <2>1, <3>1 DEF Synced
    <3> QED
      BY <1>0, <2>1, <3>1, <3>2, <3>3, NoWriteStep
  <2>3. CASE minted' = minted + 1 /\ SetClaim(i, NewClaim)
    <3>1. /\ mem'[i].claim = NewClaim
          /\ mem'[i].pending = mem[i].pending
          /\ \A j \in Instances \ {i} : mem'[j] = mem[j]
      BY <2>3, SetClaimFacts
    <3>2. /\ mem'[i].claim.token = minted + 1
          /\ mem'[i].claim.status = "working"
          /\ ~mem'[i].pending
      BY <2>1, <3>1 DEF NewClaim
    <3>3. Frame(i)
      BY <1>1, <3>1, SaveFacts, MoveFacts DEF Frame, BeginClaim
    <3>4. Synced(i)' /\ PostsOnce(i)'
      BY <2>1, <3>2 DEF Synced, PostsOnce, Running, Final
    <3> QED
      BY <1>0, <2>1, <3>2, <3>3, <3>4, NoWriteStep
  <2> QED
    BY <1>1, <2>2, <2>3 DEF BeginClaim
<1>2. ASSUME pc[i] \in {"claimed", "settle"}, Yield(i) PROVE OwnStep(i)
  <2>1. /\ mem'[i].claim.token = c.token
        /\ mem'[i].claim.status = "released"
        /\ mem'[i].pending = TRUE
        /\ \A j \in Instances \ {i} : mem'[j] = mem[j]
        /\ disk'[i] = mem'[i] /\ pc'[i] = "sync" /\ UNCHANGED github
    <3>1. Conclude(i, c, "released") /\ Save(i) /\ Move(i, "sync") /\ UNCHANGED github
      BY <1>2 DEF Yield
    <3>2. c \in Claim
      OBVIOUS
    <3> HIDE DEF c
    <3>3. /\ mem'[i].claim.token = c.token
          /\ mem'[i].pending = TRUE
          /\ \A j \in Instances \ {i} : mem'[j] = mem[j]
      BY <3>1, <3>2, ConcludeFacts
    <3>4. mem'[i].claim.status = "released"
      BY <3>1, <3>2, ConcludeStatus
    <3>5. disk'[i] = mem'[i] /\ pc'[i] = "sync"
      BY <3>1, SaveFacts, MoveFacts
    <3> QED
      BY <3>1, <3>3, <3>4, <3>5
  <2>2. Frame(i)
    BY <1>2, <2>1, SaveFacts, MoveFacts DEF Frame, Yield
  <2>3. Synced(i)' /\ PostsOnce(i)'
    BY <2>1 DEF Synced, PostsOnce, Running, Final
  <2>4. disk'[i].claim.token = disk[i].claim.token
    BY <1>2, <2>1 DEF Synced
  <2> QED
    BY <1>0, <2>1, <2>2, <2>3, <2>4, NoWriteStep DEF Final
<1>3. CASE AcquireRead(i)
  <2>1. PICK id \in {0} \cup Ids :
          /\ Recovered(c, id)
          /\ SetClaim(i, [c EXCEPT !.id = id, !.status = "working",
                                   !.left = Timeout])
    BY <1>3 DEF AcquireRead
  <2> DEFINE d == [c EXCEPT !.id = id, !.status = "working", !.left = Timeout]
  <2>2. d.id = id /\ d.token = c.token /\ d.status = "working"
    <3>1. c \in Claim
      OBVIOUS
    <3> HIDE DEF c
    <3>2. d.id = id /\ d.token = c.token
      BY <3>1, WriteFields
    <3>3. d.status = "working"
      BY <3>1 DEF Claim
    <3> QED
      BY <3>2, <3>3
  <2>3. /\ mem'[i].claim = d
        /\ mem'[i].pending = mem[i].pending
        /\ \A j \in Instances \ {i} : mem'[j] = mem[j]
    BY <2>1, SetClaimFacts
  <2> HIDE DEF d
  <2>4. /\ pc[i] = "claimed" /\ pc'[i] = "write" /\ UNCHANGED <<github, disk>>
        /\ Frame(i)
    BY <1>3, <2>3, MoveFacts DEF Frame, AcquireRead
  <2>5. PostsOnce(i)'
    <3>1. id = 0 => ~Listed(c.token)
      BY <2>1, <2>4 DEF Recovered, First, Listed, Own, Ids
    <3> QED
      BY <2>2, <2>3, <2>4, <3>1 DEF PostsOnce, Listed, github
  <2>6. Synced(i)'
    BY <2>2, <2>3, <2>4 DEF Synced, Running, Final
  <2> QED
    BY <1>0, <2>4, <2>5, <2>6, NoWriteStep
<1>4. CASE AcquireWrite(i)
  <2>1. /\ pc[i] = "write" /\ Apply(c) /\ pc'[i] = "settle" /\ UNCHANGED <<late, disk>>
    BY <1>4, MoveFacts DEF AcquireWrite
  <2>2. OwnWrites(i)
    BY <2>1, WriteTouches DEF PostsOnce
  <2>3. /\ mem'[i].claim.token = c.token
        /\ mem'[i].claim.status = c.status
        /\ mem'[i].pending = mem[i].pending
        /\ \A j \in Instances \ {i} : mem'[j] = mem[j]
    BY <1>4, SetClaimFacts DEF Claim, AcquireWrite
  <2>4. Frame(i)
    BY <1>4, <2>3, MoveFacts DEF Frame, AcquireWrite
  <2>5. Synced(i)' /\ PostsOnce(i)'
    BY <2>1, <2>3 DEF Synced, PostsOnce, Running, Final
  <2> QED
    BY <1>0, <2>1, <2>2, <2>4, <2>5 DEF OwnStep, TokenInv
<1>5. CASE AcquireWriteFails(i)
  <2>1. /\ pc[i] = "write" /\ Ambiguous(c) /\ pc'[i] = "idle" /\ UNCHANGED <<mem, disk>>
    BY <1>5, MoveFacts DEF AcquireWriteFails
  <2>2. late' = {} /\ (UNCHANGED github \/ Apply(c))
    BY <2>1, NoDelay DEF TokenInv
  <2>3. OwnWrites(i)
    <3>1. CASE Apply(c)
      BY <2>1, <3>1, WriteTouches DEF PostsOnce
    <3>2. CASE UNCHANGED github
      BY <3>2 DEF OwnWrites, github
    <3> QED
      BY <2>2, <3>1, <3>2
  <2>4. Frame(i)
    BY <1>5, MoveFacts DEF Frame, AcquireWriteFails
  <2>5. Synced(i)' /\ PostsOnce(i)'
    BY <2>1 DEF Synced, PostsOnce, Running, Final
  <2> QED
    BY <1>0, <2>1, <2>2, <2>3, <2>4, <2>5 DEF OwnStep
<1>6. CASE AcquireReadFails(i)
  <2>1. /\ pc[i] \in {"claimed", "settle"} /\ pc'[i] = "idle"
        /\ UNCHANGED <<mem, disk, github>> /\ Frame(i)
    BY <1>6, MoveFacts DEF Frame, AcquireReadFails
  <2>2. Synced(i)' /\ PostsOnce(i)'
    BY <2>1 DEF Synced, PostsOnce, Running, Final
  <2> QED
    BY <1>0, <2>1, <2>2, NoWriteStep
<1>7. CASE Confirm(i)
  <2>1. /\ mem'[i].claim.id = c.id
        /\ mem'[i].claim.token = c.token
        /\ mem'[i].claim.status = c.status
        /\ mem'[i].pending = mem[i].pending
        /\ \A j \in Instances \ {i} : mem'[j] = mem[j]
    BY <1>7, SetClaimFacts DEF Claim, Confirm
  <2>2. /\ pc[i] = "settle" /\ c.id # 0 /\ pc'[i] = "working" /\ disk'[i] = mem'[i]
        /\ UNCHANGED github /\ Frame(i)
    BY <1>7, <2>1, MoveFacts, SaveFacts DEF Frame, Confirm, TypeOK, Owns, Ids
  <2>3. Synced(i)' /\ PostsOnce(i)'
    BY <2>1, <2>2 DEF Synced, PostsOnce, Running, Final
  <2>4. /\ disk'[i].claim.token = disk[i].claim.token
        /\ disk'[i].claim.status = disk[i].claim.status
    BY <2>1, <2>2 DEF Synced
  <2> QED
    BY <1>0, <2>2, <2>3, <2>4, NoWriteStep
<1> QED
  BY <1>1, <1>2, <1>3, <1>4, <1>5, <1>6, <1>7
  DEF Acquire, YieldBeforePost, YieldAfterPost

\* The renewal goroutine writes to the own comment only.
LEMMA RenewTokens ==
  ASSUME TypeOK, ElectionInv, TokenInv, MaxLate = 0,
         NEW i \in Instances, Renew(i)
  PROVE  OwnStep(i)
<1> USE OwnFacts
<1> DEFINE d == [mem[i].claim EXCEPT !.left = next[i]]
<1>1. /\ renewal[i] # "off" /\ UNCHANGED <<pc, mem, disk, minted>>
      /\ Frame(i)
  BY DEF Renew, RenewRead, RenewEdit, RenewLost, RenewReadFails, RenewEditFails,
         StopWork, Frame, TypeOK
<1>2. Running(i) /\ mem[i].claim.id # 0 /\ mem[i].claim.token # 0
  BY <1>1 DEF Running, Synced
<1>3. Synced(i)' /\ PostsOnce(i)'
  BY <1>1, <1>2 DEF Synced, PostsOnce, Running, Final
<1>4. late' = {} /\ (UNCHANGED github \/ Apply(d))
  <2>1. CASE RenewRead(i) \/ RenewLost(i) \/ RenewReadFails(i)
    BY <2>1 DEF RenewRead, RenewLost, RenewReadFails, github, TokenInv
  <2>2. CASE RenewEdit(i)
    BY <2>2 DEF RenewEdit, TokenInv
  <2>3. CASE RenewEditFails(i)
    BY <2>3, NoDelay DEF RenewEditFails, TokenInv
  <2> QED
    BY <2>1, <2>2, <2>3 DEF Renew
<1>5. /\ d \in Claim /\ Own(d) /\ d.token = mem[i].claim.token
      /\ d.status = mem[i].claim.status /\ d.id = mem[i].claim.id
  <2>1. mem[i].claim \in Claim /\ next[i] \in 0..Timeout /\ Own(mem[i].claim)
    BY DEF TypeOK
  <2> QED
    BY <2>1 DEF Claim, Own
<1> HIDE DEF d
<1>6. OwnWrites(i)
  <2>1. CASE Apply(d)
    BY <1>2, <1>5, <2>1, WriteTouches DEF Running
  <2>2. CASE UNCHANGED github
    BY <2>2 DEF OwnWrites, github
  <2> QED
    BY <1>4, <2>1, <2>2
<1>7. minted' \in Nat /\ minted <= minted'
  BY <1>1 DEF TypeOK, Tokens
<1> QED
  BY <1>1, <1>3, <1>4, <1>6, <1>7 DEF OwnStep

\* The attempt writes no claim comment, and concludes its claim on disk.
LEMMA WorkTokens ==
  ASSUME TypeOK, ElectionInv, TokenInv, NEW i \in Instances, Work(i)
  PROVE  OwnStep(i)
<1> USE OwnFacts DEF lease
<1>1. minted' \in Nat /\ minted <= minted' /\ UNCHANGED github
  BY DEF Work, ReadyToPublish, Publish, Finish, TypeOK, Tokens
<1>2. CASE ReadyToPublish(i) \/ Publish(i)
  <2>1. /\ Frame(i) /\ Running(i) /\ pc'[i] \in {"working", "checked"}
        /\ UNCHANGED <<mem, disk>>
    BY <1>2, MoveFacts DEF Frame, ReadyToPublish, Publish, Running
  <2>2. Synced(i)' /\ PostsOnce(i)'
    BY <2>1 DEF Synced, PostsOnce, Running, Final
  <2> QED
    BY <1>1, <2>1, <2>2, NoWriteStep
<1>3. ASSUME NEW status \in {"done", "released"}, Finish(i, status)
      PROVE  OwnStep(i)
  <2>1. /\ Running(i) /\ pc'[i] = "sync" /\ disk'[i] = mem'[i]
        /\ mem'[i].claim.token = mem[i].claim.token
        /\ mem'[i].claim.status = status
        /\ mem'[i].pending = TRUE
        /\ \A j \in Instances \ {i} : mem'[j] = mem[j]
    <3>1. /\ Running(i) /\ Conclude(i, mem[i].claim, status)
          /\ Save(i) /\ Move(i, "sync")
      BY <1>3 DEF Finish
    <3>2. mem[i].claim \in Claim
      OBVIOUS
    <3>3. /\ mem'[i].claim.token = mem[i].claim.token
          /\ mem'[i].pending = TRUE
          /\ \A j \in Instances \ {i} : mem'[j] = mem[j]
      BY <3>1, <3>2, ConcludeFacts
    <3>4. mem'[i].claim.status = status
      BY <3>1, <3>2, ConcludeStatus
    <3>5. disk'[i] = mem'[i] /\ pc'[i] = "sync"
      BY <3>1, SaveFacts, MoveFacts
    <3> QED
      BY <3>1, <3>3, <3>4, <3>5
  <2>2. Frame(i)
    BY <1>3, <2>1, SaveFacts, MoveFacts DEF Frame, Finish, TypeOK
  <2>3. Synced(i)' /\ PostsOnce(i)'
    BY <2>1 DEF Synced, PostsOnce, Running, Final
  <2>4. disk'[i].claim.token = disk[i].claim.token /\ disk'[i].claim.status \in Final
    BY <2>1 DEF Synced, Running, Final
  <2> QED
    BY <1>1, <2>2, <2>3, <2>4, NoWriteStep
<1> QED
  BY <1>2, <1>3 DEF Work

\* Delivery writes to the own comment only, in the saved final state.
LEMMA DeliverTokens ==
  ASSUME TypeOK, ElectionInv, TokenInv, MaxLate = 0,
         NEW i \in Instances, Deliver(i)
  PROVE  OwnStep(i)
<1> USE OwnFacts DEF lease
<1> DEFINE c == mem[i].claim
<1>0. minted \in Nat /\ minted' \in Nat /\ minted <= minted'
  <2>1. minted \in Nat
    BY DEF TypeOK, Tokens
  <2>2. minted' = minted \/ minted' = minted + 1
    BY DEF Deliver, Complete, Sync, SyncReadFails, SyncWriteFails
  <2> QED
    BY <2>1, <2>2
<1>1. CASE Complete(i)
  <2>1. /\ pc[i] = "idle" /\ pc'[i] = "sync" /\ disk'[i] = mem'[i]
        /\ UNCHANGED github
    BY <1>1, SaveFacts, MoveFacts DEF Complete
  <2>2. PICK d \in Claim :
          /\ Conclude(i, d, "done")
          /\ \/ d.token # 0 /\ d.token = c.token
             \/ d.token = minted + 1
    <3>1. CASE c.token # 0 /\ Conclude(i, c, "done")
      BY <3>1
    <3>2. CASE minted < MaxTokens /\ Conclude(i, NewClaim, "done")
      BY <3>2, NewClaimType DEF NewClaim
    <3> QED
      BY <1>1, <3>1, <3>2 DEF Complete
  <2>3. /\ mem'[i].claim.token = d.token
        /\ mem'[i].claim.status = "done"
        /\ mem'[i].pending = TRUE
        /\ \A j \in Instances \ {i} : mem'[j] = mem[j]
    BY <2>2, ConcludeFacts, ConcludeStatus
  <2>4. Frame(i)
    BY <1>1, <2>3, SaveFacts, MoveFacts DEF Frame, Complete
  <2>5. Synced(i)' /\ PostsOnce(i)'
    BY <2>1, <2>3 DEF Synced, PostsOnce, Running, Final
  <2>6. c.token # 0 => c.token = disk[i].claim.token
    BY <2>1 DEF Synced
  <2> QED
    BY <1>0, <2>1, <2>2, <2>3, <2>4, <2>5, <2>6, NoWriteStep DEF Final
<1>2. CASE Sync(i)
  <2>1. /\ mem[i].pending /\ pc[i] \in {"idle", "sync"} /\ c.token # 0
        /\ pc'[i] = "idle" /\ disk'[i] = mem'[i] /\ UNCHANGED late
    BY <1>2, SaveFacts, MoveFacts DEF Sync, Delivering
  <2>2. PICK id \in {0} \cup Ids :
          /\ Resolved(c, id)
          /\ \/ /\ mem' = [mem EXCEPT ![i].pending = FALSE]
                /\ UNCHANGED <<comments, posted, revived>>
             \/ /\ Apply([c EXCEPT !.id = id])
                /\ mem' = [mem EXCEPT ![i] =
                     [claim |-> [c EXCEPT !.id = IF id = 0 THEN posted + 1 ELSE id],
                      pending |-> FALSE]]
    BY <1>2 DEF Sync
  <2>3. /\ mem'[i].claim.token = c.token
        /\ mem'[i].claim.status = c.status
        /\ ~mem'[i].pending
        /\ \A j \in Instances \ {i} : mem'[j] = mem[j]
    <3>1. CASE mem' = [mem EXCEPT ![i].pending = FALSE]
      BY <3>1 DEF TypeOK, Job
    <3>2. CASE mem' = [mem EXCEPT ![i] =
                 [claim |-> [c EXCEPT !.id = IF id = 0 THEN posted + 1 ELSE id],
                  pending |-> FALSE]]
      BY <3>2 DEF TypeOK, Claim
    <3> QED
      BY <2>2, <3>1, <3>2
  <2>4. OwnWrites(i)
    <3>1. CASE UNCHANGED <<comments, posted, revived>>
      BY <3>1 DEF OwnWrites
    <3>2. CASE Apply([c EXCEPT !.id = id])
      <4>1. /\ [c EXCEPT !.id = id] \in Claim
            /\ Own([c EXCEPT !.id = id])
        <5>1. c \in Claim /\ c.token # 0 /\ Resolved(c, id)
          BY <2>1, <2>2
        <5> HIDE DEF c
        <5>2. Good([c EXCEPT !.id = id])
          BY <5>1, ResolvedGood
        <5> QED
          BY <5>2 DEF Good
      <4>2. /\ [c EXCEPT !.id = id].id = id
            /\ [c EXCEPT !.id = id].token = c.token
            /\ [c EXCEPT !.id = id].status = c.status
        BY DEF Claim
      <4>3. id = 0 => ~Listed(c.token)
        BY <2>2 DEF Resolved, First, Ids
      <4> DEFINE d == [c EXCEPT !.id = id]
      <4> HIDE DEF d
      <4>4. /\ d \in Claim /\ Own(d) /\ d.token # 0 /\ d.token = mem[i].claim.token
            /\ d.status = mem[i].claim.status /\ (d.id = 0 => ~Listed(d.token))
            /\ Apply(d)
        BY <2>1, <3>2, <4>1, <4>2, <4>3 DEF d
      <4> QED
        BY <2>1, <4>4, WriteTouches
    <3> QED
      BY <2>2, <3>1, <3>2
  <2>5. Frame(i)
    BY <1>2, <2>3, SaveFacts, MoveFacts DEF Frame, Sync
  <2>6. Synced(i)' /\ PostsOnce(i)'
    BY <2>1, <2>3 DEF Synced, PostsOnce, Running, Final
  <2>7. /\ disk'[i].claim.token = disk[i].claim.token
        /\ disk'[i].claim.status = disk[i].claim.status
    BY <2>1, <2>3 DEF Synced
  <2> QED
    BY <1>0, <2>1, <2>4, <2>5, <2>6, <2>7 DEF OwnStep, TokenInv
<1>3. CASE SyncReadFails(i)
  <2>1. /\ mem[i].pending /\ pc[i] \in {"idle", "sync"} /\ pc'[i] = "idle"
        /\ UNCHANGED <<mem, disk, github>> /\ Frame(i)
    BY <1>3, MoveFacts DEF Frame, SyncReadFails, Delivering
  <2>2. Synced(i)' /\ PostsOnce(i)'
    BY <2>1 DEF Synced, PostsOnce, Running, Final
  <2> QED
    BY <1>0, <2>1, <2>2, NoWriteStep
<1>4. CASE SyncWriteFails(i)
  <2>1. /\ mem[i].pending /\ pc[i] \in {"idle", "sync"} /\ c.token # 0
        /\ pc'[i] = "idle" /\ UNCHANGED disk
    BY <1>4, MoveFacts DEF SyncWriteFails, Delivering
  <2>2. PICK id \in {0} \cup Ids :
          /\ Resolved(c, id)
          /\ Ambiguous([c EXCEPT !.id = id])
          /\ SetClaim(i, [c EXCEPT !.id = IF id = 0 THEN @ ELSE id])
    BY <1>4 DEF SyncWriteFails
  <2>3. /\ mem'[i].claim.token = c.token
        /\ mem'[i].claim.status = c.status
        /\ mem'[i].pending = mem[i].pending
        /\ \A j \in Instances \ {i} : mem'[j] = mem[j]
    BY <2>2, SetClaimFacts DEF Claim
  <2> DEFINE d == [c EXCEPT !.id = id]
  <2>4. /\ d \in Claim /\ Own(d) /\ d.token = c.token
        /\ d.status = c.status /\ (d.id = 0 => ~Listed(d.token))
    <3>1. d \in Claim /\ Own(d)
      <4>1. c \in Claim /\ c.token # 0 /\ Resolved(c, id)
        BY <2>1, <2>2
      <4> HIDE DEF c
      <4>2. Good([c EXCEPT !.id = id])
        BY <4>1, ResolvedGood
      <4> QED
        BY <4>2 DEF Good
    <3>2. d.id = id /\ d.token = c.token /\ d.status = c.status
      BY DEF Claim
    <3>3. id = 0 => ~Listed(c.token)
      BY <2>2 DEF Resolved, First, Ids
    <3> QED
      BY <3>1, <3>2, <3>3
  <2> HIDE DEF d
  <2>5. late' = {} /\ (UNCHANGED github \/ Apply(d))
    <3>1. Ambiguous(d) /\ late = {}
      BY <2>2 DEF d, TokenInv
    <3> QED
      BY <3>1, NoDelay
  <2>6. OwnWrites(i)
    <3>1. CASE Apply(d)
      BY <2>1, <2>4, <3>1, WriteTouches
    <3>2. CASE UNCHANGED github
      BY <3>2 DEF OwnWrites, github
    <3> QED
      BY <2>5, <3>1, <3>2
  <2>7. Frame(i)
    BY <1>4, <2>3, MoveFacts DEF Frame, SyncWriteFails
  <2>8. Synced(i)' /\ PostsOnce(i)'
    BY <2>1, <2>3 DEF Synced, PostsOnce, Running, Final
  <2> QED
    BY <1>0, <2>1, <2>5, <2>6, <2>7, <2>8 DEF OwnStep
<1> QED
  BY <1>1, <1>2, <1>3, <1>4 DEF Deliver

\* A crash and a restart write no comment.
LEMMA CrashTokens ==
  ASSUME TypeOK, ElectionInv, TokenInv, NEW i \in Instances, Crash(i) \/ Restart(i)
  PROVE  OwnStep(i)
<1> USE OwnFacts DEF lease
<1>1. /\ UNCHANGED <<github, disk, minted>> /\ minted \in Nat
  BY DEF Crash, Restart, TypeOK, Tokens
<1>2. CASE Crash(i)
  <2>1. pc'[i] = "down" /\ mem'[i] = NoJob /\ Frame(i)
    BY <1>2, MoveFacts DEF Frame, Crash, TypeOK
  <2>2. Synced(i)' /\ PostsOnce(i)'
    BY <1>1, <2>1 DEF Synced, PostsOnce, Running, Final, NoJob
  <2> QED
    BY <1>1, <2>1, <2>2, NoWriteStep
<1>3. CASE Restart(i)
  <2>1. pc'[i] = "idle" /\ mem'[i] = disk[i] /\ Frame(i)
    BY <1>3, MoveFacts DEF Frame, Restart, TypeOK
  <2>2. Synced(i)' /\ PostsOnce(i)'
    BY <1>1, <2>1 DEF Synced, PostsOnce, Running, Final
  <2> QED
    BY <1>1, <2>1, <2>2, NoWriteStep
<1> QED
  BY <1>2, <1>3

\* What a tick leaves alone.
LEMMA TickFacts ==
  ASSUME TypeOK, Tick
  PROVE  /\ \A k \in Ids : /\ comments'[k].token = comments[k].token
                           /\ comments'[k].status = comments[k].status
                           /\ Active(k)' => Active(k)
         /\ \A i \in Instances :
              /\ mem'[i].claim.token = mem[i].claim.token
              /\ mem'[i].claim.id = mem[i].claim.id
              /\ mem'[i].claim.status = mem[i].claim.status
              /\ mem'[i].pending = mem[i].pending
              /\ disk'[i].claim.token = disk[i].claim.token
              /\ disk'[i].claim.status = disk[i].claim.status
              /\ disk'[i].pending = disk[i].pending
         /\ UNCHANGED <<minted, pc, renewal>>
<1>1. ASSUME NEW k \in Ids
      PROVE  /\ comments'[k].token = comments[k].token
             /\ comments'[k].status = comments[k].status
             /\ Active(k)' => Active(k)
  <2>1. comments[k] \in Comment /\ comments'[k] = Older(comments[k])
    BY DEF Tick, TypeOK
  <2>2. /\ Older(comments[k]).token = comments[k].token
        /\ Older(comments[k]).status = comments[k].status
        /\ Older(comments[k]).left > 0 => comments[k].left > 0
    BY <2>1, ClaimsAssumption DEF Older, Less, Comment
  <2> QED
    BY <2>1, <2>2 DEF Active
<1>2. ASSUME NEW i \in Instances
      PROVE  /\ mem'[i].claim.token = mem[i].claim.token
             /\ mem'[i].claim.id = mem[i].claim.id
             /\ mem'[i].claim.status = mem[i].claim.status
             /\ mem'[i].pending = mem[i].pending
             /\ disk'[i].claim.token = disk[i].claim.token
             /\ disk'[i].claim.status = disk[i].claim.status
             /\ disk'[i].pending = disk[i].pending
  <2>1. mem[i].claim \in Claim /\ disk[i].claim \in Claim
    BY DEF TypeOK, Job
  <2>2. /\ mem'[i].claim = Older(mem[i].claim)
        /\ mem'[i].pending = mem[i].pending
        /\ disk'[i].claim = Older(disk[i].claim)
        /\ disk'[i].pending = disk[i].pending
    BY DEF Tick, TypeOK, Job
  <2> QED
    BY <2>1, <2>2, OlderFacts
<1> QED
  BY <1>1, <1>2 DEF Tick

\* Time leaves tokens and statuses alone.
LEMMA TickTokens ==
  ASSUME TypeOK, TokenInv, Tick
  PROVE  TokenInv'
<1>1. late' = {}
  BY DEF Tick, TokenInv
<1>2. \A k \in Ids : /\ comments'[k].token <= minted'
                     /\ comments'[k].token = 0 => comments'[k].status = "none"
  BY TickFacts DEF TokenInv
<1>3. \A i \in Instances : Synced(i)' /\ FinalIsSaved(i)' /\ PostsOnce(i)'
  <2> SUFFICES ASSUME NEW i \in Instances
               PROVE  Synced(i)' /\ FinalIsSaved(i)' /\ PostsOnce(i)'
    OBVIOUS
  <2>1. Synced(i) /\ FinalIsSaved(i) /\ PostsOnce(i)
    BY DEF TokenInv
  <2>2. Synced(i)'
    BY <2>1, TickFacts DEF Synced, Running, Final
  <2>3. FinalIsSaved(i)'
    BY <2>1, TickFacts DEF FinalIsSaved, Final
  <2>4. PostsOnce(i)'
    BY <2>1, TickFacts DEF PostsOnce, Listed
  <2> QED
    BY <2>2, <2>3, <2>4
<1>4. OneCommentPerToken'
  BY TickFacts DEF TokenInv, OneCommentPerToken
<1> QED
  BY <1>1, <1>2, <1>3, <1>4 DEF TokenInv

\* The initial state satisfies the token invariant.
LEMMA InitTokens == MaxLate = 0 /\ Init => TokenInv
<1> SUFFICES ASSUME Init PROVE TokenInv
  OBVIOUS
<1>1. /\ \A i \in Instances : mem[i] = NoJob /\ disk[i] = NoJob /\ pc[i] = "idle"
      /\ \A k \in Ids : comments[k] = NoComment
      /\ minted = 0 /\ late = {}
  BY DEF Init
<1>2. \A i \in Instances : Synced(i) /\ FinalIsSaved(i) /\ PostsOnce(i)
  BY <1>1 DEF Synced, FinalIsSaved, PostsOnce, Running, NoJob, NoClaim, Final
<1>3. OneCommentPerToken
  BY <1>1 DEF OneCommentPerToken, NoComment
<1> QED
  BY <1>1, <1>2, <1>3 DEF TokenInv, NoComment

\* Every step but a tick is a step of one instance.
LEMMA InstanceStep ==
  ASSUME TypeOK, ElectionInv, TokenInv, MaxLate = 0, Next, ~Tick
  PROVE  \E i \in Instances : OwnStep(i)
<1>1. ~(\E c \in late : LandLate(c))
  BY DEF TokenInv
<1>2. PICK i \in Instances :
        Acquire(i) \/ Renew(i) \/ Work(i) \/ Deliver(i) \/ Crash(i) \/ Restart(i)
  BY <1>1 DEF Next
<1>3. OwnStep(i)
  BY <1>2, AcquireTokens, RenewTokens, WorkTokens, DeliverTokens, CrashTokens
<1> QED
  BY <1>3

\* The token invariant is inductive, given the types and the election.
LEMMA TokensNext ==
  ASSUME TypeOK, TypeOK', ElectionInv, TokenInv, MaxLate = 0, [Next]_vars
  PROVE  TokenInv'
<1>1. CASE Tick
  BY <1>1, TickTokens
<1>2. CASE Next /\ ~Tick
  <2>1. PICK i \in Instances : OwnStep(i)
    BY <1>2, InstanceStep
  <2> QED
    BY <2>1, TokensStep
<1>3. CASE UNCHANGED vars
  BY <1>3 DEF vars, github, lease, TokenInv, Synced, FinalIsSaved, PostsOnce,
              Listed, Running, OneCommentPerToken
<1> QED
  BY <1>1, <1>2, <1>3

\* The token invariant is inductive when no abandoned request is executed.
THEOREM TokensHold == MaxLate = 0 => (Spec => []TokenInv)
<1> SUFFICES ASSUME MaxLate = 0 PROVE Spec => []TokenInv
  OBVIOUS
<1>1. Init => TokenInv
  BY InitTokens
<1>2. TypeOK /\ TypeOK' /\ ElectionInv /\ TokenInv /\ [Next]_vars => TokenInv'
  BY TokensNext
<1> QED
  BY <1>1, <1>2, TypeCorrect, Elections, PTL DEF Spec

\* One token never has two comments.
THEOREM OneComment == MaxLate = 0 => (Spec => []OneCommentPerToken)
<1> SUFFICES ASSUME MaxLate = 0 PROVE Spec => []OneCommentPerToken
  OBVIOUS
<1>1. TokenInv => OneCommentPerToken
  BY DEF TokenInv
<1> QED
  BY <1>1, TokensHold, PTL

\* What a step of an instance does to a comment that exists.
LEMMA WritesKeep ==
  ASSUME TypeOK, TypeOK', TokenInv, NEW i \in Instances, OwnStep(i), NEW k \in Ids
  PROVE  /\ comments[k].token # 0 => comments'[k].token = comments[k].token
         /\ comments[k].status \in Final => comments'[k].status # "working"
<1>1. CASE comments' = comments
  BY <1>1 DEF Final
<1>2. CASE comments' # comments
  <2>1. PICK n \in Ids, b \in Comment : pc[i] # "down" /\ Touches(i, n, b)
    BY <1>2 DEF OwnStep, OwnWrites
  <2>2. comments'[k] = IF k = n THEN b ELSE comments[k]
    BY <2>1 DEF Touches, TypeOK
  <2>3. ASSUME k = n, comments[k].token = b.token, comments[k].status \in Final
        PROVE  b.status # "working"
    <3>1. disk[i].claim.token = comments[k].token /\ disk[i].claim.token # 0
      BY <2>1, <2>3 DEF Touches, TokenInv, Synced
    <3>2. disk[i].claim.status \in Final
      BY <2>3, <3>1 DEF TokenInv, FinalIsSaved
    <3> QED
      BY <2>1, <3>2 DEF Touches, TokenInv, Synced, Final
  <2>4. comments[k].token = 0 => comments[k].status \notin Final
    BY DEF TokenInv, Final
  <2> QED
    BY <2>1, <2>2, <2>3, <2>4 DEF Touches, Final
<1> QED
  BY <1>1, <1>2

\* What any step does to a comment that exists.
LEMMA NextKeeps ==
  ASSUME TypeOK, TypeOK', ElectionInv, TokenInv, MaxLate = 0, [Next]_vars,
         NEW k \in Ids
  PROVE  /\ comments[k].token # 0 => comments'[k].token = comments[k].token
         /\ comments[k].status \in Final => comments'[k].status # "working"
<1>1. CASE Tick
  BY <1>1, TickFacts DEF Final
<1>2. CASE Next /\ ~Tick
  <2>1. PICK i \in Instances : OwnStep(i)
    BY <1>2, InstanceStep
  <2> QED
    BY <2>1, WritesKeep
<1>3. CASE UNCHANGED vars
  BY <1>3 DEF vars, github, Final
<1> QED
  BY <1>1, <1>2, <1>3

\* No instance writes into a comment posted under another token.
THEOREM TokensAreKept == MaxLate = 0 => (Spec => CommentKeepsItsToken)
<1> SUFFICES ASSUME MaxLate = 0 PROVE Spec => CommentKeepsItsToken
  OBVIOUS
<1>1. TypeOK /\ TypeOK' /\ ElectionInv /\ TokenInv /\ [Next]_vars
        => [\A k \in Ids : comments[k].token # 0
                             => comments'[k].token = comments[k].token]_vars
  BY NextKeeps
<1> QED
  BY <1>1, TypeCorrect, Elections, TokensHold, PTL DEF Spec, CommentKeepsItsToken

\* A finished claim is never announced as work in progress again.
THEOREM FinishedStays == MaxLate = 0 => (Spec => FinishedStaysFinished)
<1> SUFFICES ASSUME MaxLate = 0 PROVE Spec => FinishedStaysFinished
  OBVIOUS
<1>1. TypeOK /\ TypeOK' /\ ElectionInv /\ TokenInv /\ [Next]_vars
        => [\A k \in Ids : comments[k].status \in {"released", "done"}
                             => comments'[k].status # "working"]_vars
  BY NextKeeps DEF Final
<1> QED
  BY <1>1, TypeCorrect, Elections, TokensHold, PTL DEF Spec, FinishedStaysFinished

-----------------------------------------------------------------------------
(* At most one instance at work, when every write arrives in time *)

\* A live claim of a running attempt is the winner, nobody else has decided upon
\* a write while it is held, and a renewal writes to a live claim.
PromptInv ==
  /\ \A i \in Instances : Holder(i) => Wins(mem[i].claim.id)
  /\ \A i, j \in Instances : i # j /\ InFlight(i) => ~Holder(j)
  /\ \A i \in Instances : renewal[i] = "edit" => Active(mem[i].claim.id)

\* What is below an ID is another ID.
LEMMA Lower ==
  ASSUME NEW n \in Ids, NEW l \in 1..(n - 1)
  PROVE  l \in Ids /\ l # n
  BY ClaimsAssumption DEF Ids

\* Two claims cannot both have the lowest active comment.
LEMMA OneWinner ==
  ASSUME NEW k \in Ids, NEW l \in Ids, Wins(k), Wins(l)
  PROVE  k = l
<1>1. CASE k < l
  BY <1>1 DEF Wins, Ids
<1>2. CASE l < k
  BY <1>2 DEF Wins, Ids
<1> QED
  BY <1>1, <1>2 DEF Ids

\* Two instances never have claims of the same token.
LEMMA TokensDiffer ==
  ASSUME ElectionInv, NEW i \in Instances, NEW j \in Instances, i # j,
         mem[i].claim.token # 0
  PROVE  mem[i].claim.token # mem[j].claim.token
  BY DEF ElectionInv, OwnTokens

\* The comment of a claim carries the claim's token.
LEMMA HolderComment ==
  ASSUME TypeOK, ElectionInv, NEW j \in Instances, mem[j].claim.id \in Ids
  PROVE  /\ comments[mem[j].claim.id].token = mem[j].claim.token
         /\ mem[j].claim.token # 0
  BY InstanceFacts DEF Own, Ids

\* A step of one instance leaves the comment of another's claim alone.
LEMMA OthersKeep ==
  ASSUME TypeOK, ElectionInv, NEW i \in Instances, NEW j \in Instances, i # j,
         OwnWrites(i), mem[j].claim.id \in Ids
  PROVE  comments'[mem[j].claim.id] = comments[mem[j].claim.id]
<1> DEFINE k == mem[j].claim.id
<1>1. CASE comments' = comments
  BY <1>1
<1>2. ASSUME NEW n \in Ids, NEW b \in Comment, Touches(i, n, b)
      PROVE  comments'[k] = comments[k]
  <2>1. b.token \notin OwnTokens(j) /\ comments[n].token \notin OwnTokens(j)
    BY <1>2, OthersComment
  <2>2. comments[k].token \in OwnTokens(j)
    BY HolderComment DEF OwnTokens
  <2>3. k # n
    BY <2>1, <2>2
  <2> QED
    BY <1>2, <2>3 DEF Touches, TypeOK
<1> QED
  BY <1>1, <1>2 DEF OwnWrites

\* What the other instances keep in a step of i.
LEMMA OthersHold ==
  ASSUME TypeOK, TypeOK', ElectionInv, NEW i \in Instances, NEW j \in Instances,
         i # j, OwnStep(i)
  PROVE  /\ Holder(j)' <=> Holder(j)
         /\ mem'[j].claim.id = mem[j].claim.id
         /\ InFlight(j)' <=> InFlight(j)
         /\ renewal'[j] = renewal[j]
         /\ mem[j].claim.id \in Ids =>
              (Active(mem[j].claim.id)' <=> Active(mem[j].claim.id))
<1>1. mem'[j] = mem[j] /\ pc'[j] = pc[j] /\ renewal'[j] = renewal[j]
  BY DEF OwnStep, Frame
<1>2. mem[j].claim.id \in Ids
        => comments'[mem[j].claim.id] = comments[mem[j].claim.id]
  BY OthersKeep DEF OwnStep
<1> QED
  BY <1>1, <1>2 DEF Holder, Running, Active, InFlight

\* The comment of a renewal's claim is one of the IDs.
LEMMA RenewalComment ==
  ASSUME TypeOK, ElectionInv, TokenInv, NEW i \in Instances, renewal[i] # "off"
  PROVE  mem[i].claim.id \in Ids /\ Running(i)
<1>1. Running(i)
  BY InstanceFacts
<1>2. mem[i].claim.id # 0 /\ mem[i].claim \in Claim
  BY <1>1, InstanceFacts DEF TokenInv, Synced
<1> QED
  BY <1>1, <1>2 DEF Claim

\* A step of i that makes no comment active and decides upon no write.
LEMMA QuietStep ==
  ASSUME TypeOK, TypeOK', ElectionInv, TokenInv, PromptInv,
         NEW i \in Instances, OwnStep(i),
         \A k \in Ids : Active(k)' => Active(k),
         Running(i)' => Running(i) /\ mem'[i].claim.id = mem[i].claim.id,
         InFlight(i)' => InFlight(i),
         renewal'[i] = "edit" => Active(mem[i].claim.id)' /\ Running(i)'
  PROVE  PromptInv'
<1>1. ASSUME NEW j \in Instances, Holder(j)'
      PROVE  Holder(j) /\ mem'[j].claim.id = mem[j].claim.id
  <2>1. CASE j = i
    BY <1>1, <2>1 DEF Holder
  <2>2. CASE j # i
    BY <1>1, <2>2, OthersHold
  <2> QED
    BY <2>1, <2>2
<1>2. ASSUME NEW j \in Instances, InFlight(j)'
      PROVE  InFlight(j)
  BY <1>2, OthersHold
<1>3. ASSUME NEW j \in Instances, Holder(j)'
      PROVE  Wins(mem[j].claim.id)'
  <2>1. Wins(mem[j].claim.id) /\ mem[j].claim.id \in Ids
    BY <1>1, <1>3 DEF PromptInv, Holder
  <2>2. /\ \A l \in 1..(mem[j].claim.id - 1) : l \in Ids
        /\ mem'[j].claim.id = mem[j].claim.id
    BY <1>1, <1>3, <2>1, Lower
  <2> QED
    BY <1>3, <2>1, <2>2 DEF Wins, Holder, Active
<1>4. ASSUME NEW j \in Instances, renewal'[j] = "edit"
      PROVE  Active(mem[j].claim.id)'
  <2>1. CASE j = i
    BY <1>4, <2>1 DEF Active
  <2>2. CASE j # i
    <3>1. renewal[j] = "edit" /\ mem[j].claim.id \in Ids
      BY <1>4, <2>2, OthersHold, RenewalComment
    <3> QED
      BY <2>2, <3>1, OthersHold DEF PromptInv, Active
  <2> QED
    BY <2>1, <2>2
<1>5. ASSUME NEW j \in Instances, NEW l \in Instances, j # l, InFlight(j)'
      PROVE  ~Holder(l)'
  BY <1>1, <1>2, <1>5 DEF PromptInv
<1> QED
  BY <1>3, <1>4, <1>5 DEF PromptInv

\* The write that i had decided upon.
LEMMA WriteStep ==
  ASSUME TypeOK, TypeOK', ElectionInv, TokenInv, PromptInv,
         NEW i \in Instances, OwnStep(i), InFlight(i), ~InFlight(i)',
         \/ ~Running(i)'
         \/ renewal[i] = "edit" /\ mem'[i].claim.id = mem[i].claim.id
  PROVE  PromptInv'
<1>1. \A j \in Instances \ {i} : ~Holder(j)'
  BY OthersHold DEF PromptInv
<1>2. ASSUME NEW j \in Instances, Holder(j)'
      PROVE  Wins(mem[j].claim.id)'
  <2> DEFINE n == mem[i].claim.id
  <2>1. j = i /\ Running(i)' /\ renewal[i] = "edit" /\ mem'[i].claim.id = n
    BY <1>1, <1>2 DEF Holder
  <2>2. n \in Ids /\ Running(i)
    BY <2>1, RenewalComment
  <2>3. Wins(n)
    BY <2>1, <2>2 DEF PromptInv, Holder
  <2>4. \A k \in Ids \ {n} : comments'[k] = comments[k]
    <3>1. CASE comments' = comments
      BY <3>1
    <3>2. ASSUME NEW m \in Ids, NEW b \in Comment, Touches(i, m, b)
          PROVE  \A k \in Ids \ {n} : comments'[k] = comments[k]
      <4>1. comments[n].token = b.token /\ b.token # 0
        BY <2>2, <3>2, HolderComment DEF Touches
      <4>2. Listed(b.token)
        BY <2>2, <4>1 DEF Listed
      <4>3. m = n
        BY <2>2, <3>2, <4>1, <4>2 DEF Touches, TokenInv, OneCommentPerToken
      <4> QED
        BY <3>2, <4>3 DEF Touches, TypeOK
    <3> QED
      BY <3>1, <3>2 DEF OwnStep, OwnWrites
  <2>5. \A l \in 1..(n - 1) : l \in Ids \ {n}
    BY <2>2, Lower
  <2>6. \A l \in 1..(n - 1) : ~Active(l)'
    BY <2>3, <2>4, <2>5 DEF Wins, Active
  <2> QED
    BY <1>2, <2>1, <2>6 DEF Wins, Holder
<1>3. ASSUME NEW j \in Instances, renewal'[j] = "edit"
      PROVE  Active(mem[j].claim.id)'
  <2>1. j # i
    BY <1>3 DEF InFlight
  <2>2. renewal[j] = "edit" /\ mem[j].claim.id \in Ids
    BY <1>3, <2>1, OthersHold, RenewalComment
  <2> QED
    BY <2>1, <2>2, OthersHold DEF PromptInv, Active
<1>4. ASSUME NEW j \in Instances, NEW l \in Instances, j # l, InFlight(j)'
      PROVE  ~Holder(l)'
  <2>1. j # i /\ InFlight(j)
    BY <1>4, OthersHold
  <2>2. CASE l # i
    BY <1>1, <2>2
  <2>3. CASE l = i
    <3>1. ~Holder(i)
      BY <2>1, <2>3, <1>4 DEF PromptInv
    <3>2. CASE renewal[i] = "edit" /\ mem'[i].claim.id = mem[i].claim.id
      <4>1. Holder(i)
        BY <3>2, RenewalComment DEF PromptInv, Holder
      <4> QED
        BY <3>1, <4>1
    <3> QED
      BY <2>3, <3>2 DEF Holder
  <2> QED
    BY <2>2, <2>3
<1> QED
  BY <1>2, <1>3, <1>4 DEF PromptInv

\* i has read the comments and decided upon a write: nobody else is at work.
LEMMA DecideStep ==
  ASSUME TypeOK, TypeOK', ElectionInv, TokenInv, PromptInv,
         NEW i \in Instances, OwnStep(i), UNCHANGED comments,
         Running(i)' => Running(i) /\ mem'[i].claim.id = mem[i].claim.id,
         renewal'[i] = "edit" => Active(mem'[i].claim.id),
         mem[i].claim.token # 0,
         \A k \in Ids : Wins(k) => comments[k].token = mem[i].claim.token
  PROVE  PromptInv'
<1>1. \A j \in Instances \ {i} : ~Holder(j)'
  <2> SUFFICES ASSUME NEW j \in Instances \ {i}, Holder(j) PROVE FALSE
    BY OthersHold
  <2>1. mem[j].claim.id \in Ids /\ Wins(mem[j].claim.id)
    BY DEF Holder, PromptInv
  <2> QED
    BY <2>1, HolderComment, TokensDiffer
<1>2. Holder(i)' => Holder(i) /\ mem'[i].claim.id = mem[i].claim.id
  BY DEF Holder, Active
<1>3. \A j \in Instances : Holder(j)' => Wins(mem[j].claim.id)'
  BY <1>1, <1>2 DEF PromptInv, Wins, Active
<1>4. ASSUME NEW j \in Instances, renewal'[j] = "edit"
      PROVE  Active(mem[j].claim.id)'
  <2>1. CASE j = i
    BY <1>4, <2>1 DEF Active
  <2>2. CASE j # i
    BY <1>4, <2>2, OthersHold DEF PromptInv, Active
  <2> QED
    BY <2>1, <2>2
<1>5. ASSUME NEW j \in Instances, NEW l \in Instances, j # l, InFlight(j)'
      PROVE  ~Holder(l)'
  <2>1. CASE l # i
    BY <1>1, <2>1
  <2>2. CASE l = i
    BY <1>2, <1>5, <2>2, OthersHold DEF PromptInv
  <2> QED
    BY <2>1, <2>2
<1> QED
  BY <1>3, <1>4, <1>5 DEF PromptInv

\* claimedAttempt and acquire preserve the invariant.
LEMMA PromptAcquire ==
  ASSUME TypeOK, TypeOK', ElectionInv, TokenInv, PromptInv, Prompt, MaxLate = 0,
         NEW i \in Instances, Acquire(i)
  PROVE  PromptInv'
<1> USE DEF lease
<1>0. OwnStep(i)
  BY AcquireTokens
<1>1. CASE BeginClaim(i) \/ YieldBeforePost(i) \/ YieldAfterPost(i) \/ AcquireReadFails(i)
  <2>1. /\ UNCHANGED comments /\ UNCHANGED renewal
        /\ pc'[i] \in {"claimed", "sync", "idle"}
    BY <1>1, MoveFacts
       DEF BeginClaim, YieldBeforePost, YieldAfterPost, Yield, AcquireReadFails, github
  <2>2. renewal[i] = "off"
    BY <1>1, InstanceFacts
       DEF BeginClaim, YieldBeforePost, YieldAfterPost, AcquireReadFails, Running
  <2>3. ~Running(i)' /\ ~InFlight(i)' /\ \A k \in Ids : Active(k)' => Active(k)
    BY <2>1, <2>2 DEF Running, InFlight, Active
  <2> QED
    BY <1>0, <2>1, <2>2, <2>3, QuietStep
<1>2. CASE AcquireRead(i)
  <2>1. /\ UNCHANGED comments /\ UNCHANGED renewal
        /\ pc[i] = "claimed" /\ pc'[i] = "write"
        /\ ~Foreign(mem[i].claim)
    BY <1>2, MoveFacts DEF AcquireRead, github
  <2>2. renewal'[i] = "off" /\ ~Running(i)' /\ mem[i].claim.token # 0
    BY <2>1, OwnFacts DEF Running
  <2>3. \A k \in Ids : Wins(k) => comments[k].token = mem[i].claim.token
    BY <2>1 DEF Foreign
  <2> QED
    BY <1>0, <2>1, <2>2, <2>3, DecideStep
<1>3. CASE AcquireWrite(i) \/ AcquireWriteFails(i)
  <2>1. /\ UNCHANGED renewal /\ pc[i] = "write" /\ pc'[i] \in {"settle", "idle"}
    BY <1>3, MoveFacts DEF AcquireWrite, AcquireWriteFails
  <2>2. InFlight(i) /\ ~InFlight(i)' /\ ~Running(i)'
    BY <2>1, OwnFacts DEF InFlight, Running
  <2> QED
    BY <1>0, <2>2, WriteStep
<1>4. CASE Confirm(i)
  <2>1. /\ UNCHANGED comments /\ pc'[i] = "working" /\ renewal'[i] = "wait"
        /\ \A j \in Instances : ~InFlight(j)
        /\ Owns(mem[i].claim)
        /\ mem'[i].claim.id = mem[i].claim.id
    BY <1>4, MoveFacts, SetClaimFacts, OwnFacts DEF Confirm, github, TypeOK, Claim
  <2>2. \A j \in Instances : ~InFlight(j)'
    <3>1. ~InFlight(i)'
      BY <2>1 DEF InFlight
    <3> QED
      BY <1>0, <2>1, <3>1, OthersHold
  <2>3. \A j \in Instances : Holder(j)' => Wins(mem[j].claim.id)'
    <3>1. Wins(mem[i].claim.id)'
      BY <2>1 DEF Owns, Wins, Active
    <3>2. ASSUME NEW j \in Instances \ {i}, Holder(j)'
          PROVE  Wins(mem[j].claim.id)'
      BY <1>0, <2>1, <3>2, OthersHold DEF PromptInv, Wins, Active
    <3> QED
      BY <3>1, <3>2
  <2> QED
    BY <2>2, <2>3 DEF PromptInv, InFlight
<1> QED
  BY <1>1, <1>2, <1>3, <1>4 DEF Acquire

\* The renewal goroutine preserves the invariant.
LEMMA PromptRenew ==
  ASSUME TypeOK, TypeOK', ElectionInv, TokenInv, PromptInv, MaxLate = 0,
         NEW i \in Instances, Renew(i)
  PROVE  PromptInv'
<1>0. OwnStep(i)
  BY RenewTokens
<1>1. /\ renewal[i] # "off" /\ UNCHANGED <<pc, mem>>
      /\ mem[i].claim.id \in Ids /\ Running(i)
  <2>1. renewal[i] # "off" /\ UNCHANGED <<pc, mem>>
    BY DEF Renew, RenewRead, RenewEdit, RenewLost, RenewReadFails, RenewEditFails,
           StopWork
  <2> QED
    BY <2>1, RenewalComment
<1>2. pc[i] # "write" /\ pc'[i] # "write" /\ mem[i].claim.token # 0
  BY <1>1, OwnFacts DEF Running
<1>3. CASE RenewLost(i) \/ RenewReadFails(i)
  <2>1. UNCHANGED comments /\ renewal'[i] = "off"
    BY <1>3 DEF RenewLost, RenewReadFails, StopWork, github, TypeOK
  <2>2. ~InFlight(i)' /\ \A k \in Ids : Active(k)' => Active(k)
    BY <1>2, <2>1 DEF InFlight, Active
  <2> QED
    BY <1>0, <1>1, <2>1, <2>2, QuietStep
<1>4. CASE RenewEdit(i) \/ RenewEditFails(i)
  <2>1. renewal[i] = "edit" /\ renewal'[i] \in {"wait", "off"}
    BY <1>4 DEF RenewEdit, RenewEditFails, StopWork, TypeOK
  <2>2. InFlight(i) /\ ~InFlight(i)'
    BY <1>2, <2>1 DEF InFlight
  <2> QED
    BY <1>0, <1>1, <2>1, <2>2, WriteStep
<1>5. CASE RenewRead(i)
  <2>1. UNCHANGED comments /\ Owns(mem[i].claim)
    BY <1>5 DEF RenewRead, github
  <2>2. Active(mem[i].claim.id)
    BY <2>1 DEF Owns, Wins
  <2>3. \A k \in Ids : Wins(k) => comments[k].token = mem[i].claim.token
    BY <2>1, OneWinner DEF Owns
  <2>4. Running(i)' => Running(i) /\ mem'[i].claim.id = mem[i].claim.id
    BY <1>1
  <2> QED
    BY <1>0, <1>1, <1>2, <2>1, <2>2, <2>3, <2>4, DecideStep
<1> QED
  BY <1>3, <1>4, <1>5 DEF Renew

\* The attempt and its end preserve the invariant.
LEMMA PromptWork ==
  ASSUME TypeOK, TypeOK', ElectionInv, TokenInv, PromptInv,
         NEW i \in Instances, Work(i)
  PROVE  PromptInv'
<1> USE DEF lease
<1>0. OwnStep(i)
  BY WorkTokens
<1>1. UNCHANGED comments /\ Running(i)
  BY DEF Work, ReadyToPublish, Publish, Finish, Running, github
<1>2. \A k \in Ids : Active(k)' <=> Active(k)
  BY <1>1 DEF Active
<1>3. CASE ReadyToPublish(i) \/ Publish(i)
  <2>1. UNCHANGED <<mem, renewal>> /\ pc'[i] \in {"working", "checked"}
    BY <1>1, <1>3, MoveFacts DEF ReadyToPublish, Publish, Running
  <2>2. /\ Running(i)' => Running(i) /\ mem'[i].claim.id = mem[i].claim.id
        /\ InFlight(i)' => InFlight(i)
    BY <1>1, <2>1 DEF InFlight
  <2>3. renewal'[i] = "edit" => Active(mem[i].claim.id)' /\ Running(i)'
    BY <1>1, <2>1 DEF PromptInv, Active, Running
  <2> QED
    BY <1>0, <1>2, <2>2, <2>3, QuietStep
<1>4. ASSUME NEW status \in {"done", "released"}, Finish(i, status)
      PROVE  PromptInv'
  <2>1. pc'[i] = "sync" /\ renewal'[i] = "off"
    BY <1>4, MoveFacts DEF Finish, TypeOK
  <2>2. ~Running(i)' /\ ~InFlight(i)'
    BY <2>1 DEF Running, InFlight
  <2> QED
    BY <1>0, <1>2, <2>1, <2>2, QuietStep
<1> QED
  BY <1>3, <1>4 DEF Work

\* Delivery, crashes and restarts activate no comment.
LEMMA PromptDeliver ==
  ASSUME TypeOK, TypeOK', ElectionInv, TokenInv, PromptInv, MaxLate = 0,
         NEW i \in Instances, Deliver(i) \/ Crash(i) \/ Restart(i)
  PROVE  PromptInv'
<1> USE DEF lease
<1>0. OwnStep(i)
  BY DeliverTokens, CrashTokens
<1>1. /\ pc'[i] \in {"sync", "idle", "down"} /\ renewal'[i] = "off"
  <2>1. CASE Deliver(i)
    <3>1. ~Running(i) /\ UNCHANGED renewal
      BY <2>1 DEF Deliver, Complete, Sync, SyncReadFails, SyncWriteFails,
                  Delivering, Running
    <3>2. renewal'[i] = "off"
      BY <3>1, OwnFacts
    <3>3. pc'[i] \in {"sync", "idle"}
      BY <2>1, MoveFacts DEF Deliver, Complete, Sync, SyncReadFails, SyncWriteFails
    <3> QED
      BY <3>2, <3>3
  <2>2. CASE Crash(i)
    BY <2>2, MoveFacts DEF Crash, TypeOK
  <2>3. CASE Restart(i)
    <3>1. ~Running(i) /\ UNCHANGED renewal /\ pc'[i] = "idle"
      BY <2>3, MoveFacts DEF Restart, Running
    <3> QED
      BY <3>1, OwnFacts
  <2> QED
    BY <2>1, <2>2, <2>3
<1>2. ~Running(i)' /\ ~InFlight(i)'
  BY <1>1 DEF Running, InFlight
<1>3. ASSUME NEW k \in Ids, Active(k)'
      PROVE  Active(k)
  <2>1. CASE comments' = comments
    BY <1>3, <2>1 DEF Active
  <2>2. CASE comments' # comments
    <3>1. PICK n \in Ids, b \in Comment : pc[i] # "down" /\ Touches(i, n, b)
      BY <1>0, <2>2 DEF OwnStep, OwnWrites
    <3>2. b.status # "working"
      <4>1. mem[i].pending
        BY <2>2 DEF Deliver, Complete, Sync, SyncReadFails, SyncWriteFails,
                    Delivering, Crash, Restart, github
      <4> QED
        BY <3>1, <4>1 DEF Touches, TokenInv, Synced, Final
    <3> QED
      BY <1>3, <3>1, <3>2 DEF Touches, Active, TypeOK
  <2> QED
    BY <2>1, <2>2
<1> QED
  BY <1>0, <1>1, <1>2, <1>3, QuietStep

\* Time only ends claims, and passes while no write is on its way.
LEMMA PromptTick ==
  ASSUME TypeOK, TypeOK', ElectionInv, PromptInv, Prompt, Tick
  PROVE  PromptInv'
<1>1. \A i \in Instances : ~InFlight(i)
  BY DEF Tick
<1>2. \A i \in Instances : ~InFlight(i)'
  BY <1>1, TickFacts DEF InFlight
<1>3. ASSUME NEW i \in Instances, Holder(i)'
      PROVE  Wins(mem[i].claim.id)'
  <2> DEFINE n == mem[i].claim.id
  <2>1. n \in Ids /\ mem'[i].claim.id = n /\ Active(n) /\ Running(i)
    BY <1>3, TickFacts DEF Holder, Running
  <2>2. Wins(n)
    BY <2>1 DEF PromptInv, Holder
  <2>3. \A l \in 1..(n - 1) : l \in Ids
    BY <2>1, Lower
  <2>4. \A l \in 1..(n - 1) : ~Active(l)'
    BY <2>2, <2>3, TickFacts DEF Wins
  <2> QED
    BY <1>3, <2>1, <2>4 DEF Wins, Holder
<1> QED
  BY <1>2, <1>3 DEF PromptInv, InFlight

\* The invariant is inductive, given the others.
LEMMA PromptNext ==
  ASSUME TypeOK, TypeOK', ElectionInv, TokenInv, PromptInv, Prompt, MaxLate = 0,
         [Next]_vars
  PROVE  PromptInv'
<1>1. CASE Next
  <2>1. ~(\E c \in late : LandLate(c))
    BY DEF TokenInv
  <2> QED
    BY <1>1, <2>1, PromptAcquire, PromptRenew, PromptWork, PromptDeliver, PromptTick
    DEF Next
<1>2. CASE UNCHANGED vars
  BY <1>2 DEF vars, github, lease, PromptInv, Holder, Running, Wins, Active, InFlight
<1> QED
  BY <1>1, <1>2

\* The initial state satisfies the invariant.
LEMMA InitPrompt == Init => PromptInv
  BY DEF Init, PromptInv, Holder, Running, InFlight

\* When every write arrives in time, at most one instance works under a live
\* claim.
THEOREM ExclusiveHolds == Prompt /\ MaxLate = 0 => (Spec => []Exclusive)
<1> SUFFICES ASSUME Prompt, MaxLate = 0 PROVE Spec => []Exclusive
  OBVIOUS
<1>1. TypeOK /\ TypeOK' /\ ElectionInv /\ TokenInv /\ PromptInv /\ [Next]_vars
        => PromptInv'
  BY PromptNext
<1>2. TypeOK /\ ElectionInv /\ PromptInv => Exclusive
  <2> SUFFICES ASSUME TypeOK, ElectionInv, PromptInv,
                      NEW i \in Instances, NEW j \in Instances, i # j,
                      Holder(i), Holder(j)
               PROVE  FALSE
    BY DEF Exclusive
  <2>1. /\ mem[i].claim.id \in Ids /\ Wins(mem[i].claim.id)
        /\ mem[j].claim.id \in Ids /\ Wins(mem[j].claim.id)
    BY DEF PromptInv, Holder
  <2>2. mem[i].claim.id = mem[j].claim.id
    BY <2>1, OneWinner
  <2> QED
    BY <2>1, <2>2, HolderComment, TokensDiffer
<1> QED
  BY <1>1, <1>2, InitPrompt, TypeCorrect, Elections, TokensHold, PTL DEF Spec


-----------------------------------------------------------------------------
(* Orphans: a live comment that no installation knows of is left behind only  *)
(* by a crash, and only when the comment outlives what state.json says of it. *)

\* A live comment carries the saved token of i.
Used(i, k) == Active(k) /\ comments[k].token = disk[i].claim.token

\* The comment would expire later than the saved claim of i does.
Outlives(i) ==
  \E k \in Ids : /\ Used(i, k)
                 /\ disk[i].claim.status = "working"
                 /\ disk[i].claim.left < comments[k].left

\* What i goes by: its memory, or state.json while it is down.
Held(i) == IF pc[i] = "down" THEN disk[i].claim ELSE mem[i].claim

\* A live comment of i is one it works under or has still to conclude, and
\* between attempts i does not give its claim up before the comment expires.
Covered(i) ==
  \A k \in Ids : Used(i, k) =>
    /\ disk[i].claim.status = "working" \/ disk[i].pending
    /\ ~Running(i) /\ Held(i).status = "working"
         => comments[k].left <= Held(i).left

OrphanInv ==
  /\ \A k \in Ids : Active(k) => \E i \in Instances : Used(i, k)
  /\ \A i \in Instances : Covered(i)

Unused(i) == \A k \in Ids : ~Used(i, k)

\* What a step of i has to show.
Tidy(i) ==
  /\ Covered(i)'
  /\ disk'[i].claim.token = disk[i].claim.token \/ Unused(i)

\* A step of i changes only its own comment, and the other installations keep
\* what they have saved.
LEMMA OrphanStep ==
  ASSUME TypeOK, TypeOK', ElectionInv, TokenInv, OrphanInv,
         NEW i \in Instances, OwnStep(i), Tidy(i)
  PROVE  OrphanInv'
<1>1. \A j \in Instances \ {i} :
        mem'[j] = mem[j] /\ disk'[j] = disk[j] /\ pc'[j] = pc[j]
  BY DEF OwnStep, Frame
<1>2. ASSUME NEW k \in Ids, comments'[k] # comments[k]
      PROVE  /\ comments'[k].token = disk'[i].claim.token
             /\ \A j \in Instances \ {i} :
                  /\ comments'[k].token # disk[j].claim.token
  <2>1. PICK n \in Ids, b \in Comment : pc[i] # "down" /\ Touches(i, n, b)
    BY <1>2 DEF OwnStep, OwnWrites
  <2>2. comments'[k] = b
    BY <1>2, <2>1 DEF Touches, TypeOK
  <2>3. b.token = disk[i].claim.token /\ b.token # 0
    BY <2>1 DEF Touches, TokenInv, Synced
  <2>4. disk'[i].claim.token = disk[i].claim.token
    BY <1>2 DEF OwnStep
  <2>5. \A j \in Instances \ {i} : b.token \notin OwnTokens(j)
    BY <2>1, OthersComment
  <2> QED
    BY <2>2, <2>3, <2>4, <2>5 DEF OwnTokens
<1>3. ASSUME NEW k \in Ids, Active(k)'
      PROVE  \E j \in Instances : Used(j, k)'
  <2>1. CASE comments'[k] # comments[k]
    BY <1>2, <1>3, <2>1 DEF Used
  <2>2. CASE comments'[k] = comments[k]
    <3>1. Active(k)
      BY <1>3, <2>2 DEF Active
    <3>2. PICK j \in Instances : Used(j, k)
      BY <3>1 DEF OrphanInv
    <3>3. CASE j # i
      BY <1>1, <1>3, <2>2, <3>2, <3>3 DEF Used
    <3>4. CASE j = i
      BY <1>3, <2>2, <3>2, <3>4 DEF Used, Unused, Tidy
    <3> QED
      BY <3>3, <3>4
  <2> QED
    BY <2>1, <2>2
<1>4. ASSUME NEW j \in Instances PROVE Covered(j)'
  <2>1. CASE j = i
    BY <2>1 DEF Tidy
  <2>2. CASE j # i
    <3> SUFFICES ASSUME NEW k \in Ids, Used(j, k)'
                 PROVE  /\ disk'[j].claim.status = "working" \/ disk'[j].pending
                        /\ ~Running(j)' /\ Held(j)'.status = "working"
                             => comments'[k].left <= Held(j)'.left
      BY DEF Covered
    <3>1. mem'[j] = mem[j] /\ disk'[j] = disk[j] /\ pc'[j] = pc[j]
      BY <1>1, <2>2
    <3>2. comments'[k] = comments[k]
      BY <1>2, <2>2, <3>1 DEF Used
    <3>3. Used(j, k) /\ Held(j)' = Held(j) /\ Running(j)' = Running(j)
      BY <3>1, <3>2 DEF Used, Active, Held, Running
    <3>4. Covered(j)
      BY DEF OrphanInv
    <3> QED
      BY <3>1, <3>2, <3>3, <3>4 DEF Covered
  <2> QED
    BY <2>1, <2>2
<1> QED
  BY <1>3, <1>4 DEF OrphanInv

\* A claim that is saved as one to conclude covers its comment, whatever that is.
LEMMA PendingCovers ==
  ASSUME NEW i \in Instances, disk'[i].pending, Held(i)'.status # "working"
  PROVE  Covered(i)'
  BY DEF Covered

\* So does a working claim of a running attempt.
LEMMA RunningCovers ==
  ASSUME NEW i \in Instances, disk'[i].claim.status = "working", Running(i)'
  PROVE  Covered(i)'
  BY DEF Covered

\* A comment that is written from the claim expires with it.
LEMMA WriteCovers ==
  ASSUME TypeOK, TokenInv, OrphanInv, NEW i \in Instances,
         pc[i] \in {"claimed", "write", "settle"}, UNCHANGED disk,
         pc'[i] \in {"idle", "write", "settle"},
         mem'[i].claim.left = mem[i].claim.left,
         comments' = comments \/ Apply(mem[i].claim)
  PROVE  Covered(i)'
<1> SUFFICES ASSUME NEW k \in Ids, Used(i, k)'
             PROVE  /\ disk[i].claim.status = "working"
                    /\ comments'[k].left <= mem[i].claim.left
  BY DEF Covered, Held
<1>1. /\ disk[i].claim.status = "working" /\ mem[i].claim.status = "working"
      /\ ~Running(i) /\ Held(i) = mem[i].claim
      /\ mem[i].claim.left \in Nat
  BY DEF TokenInv, Synced, Running, Held, TypeOK, Job, Claim
<1>2. CASE comments'[k] = comments[k]
  <2>1. Used(i, k)
    BY <1>2 DEF Used, Active
  <2> QED
    BY <1>1, <1>2, <2>1 DEF OrphanInv, Covered
<1>3. CASE comments'[k] # comments[k]
  <2>1. comments'[k] = Body(mem[i].claim)
    BY <1>3 DEF Apply, TypeOK
  <2> QED
    BY <1>1, <2>1 DEF Body
<1> QED
  BY <1>2, <1>3

\* A step that changes neither comments nor what is saved or held.
LEMMA SameCovers ==
  ASSUME OrphanInv, NEW i \in Instances, UNCHANGED <<comments, disk>>,
         Held(i)' = Held(i), ~Running(i)
  PROVE  Tidy(i)
  BY DEF OrphanInv, Tidy, Covered, Used, Active

\* claimedAttempt draws a fresh token only when no live comment has the old one.
LEMMA AcquireCovers ==
  ASSUME TypeOK, TypeOK', ElectionInv, TokenInv, TokenInv', OrphanInv, MaxLate = 0,
         NEW i \in Instances, Acquire(i)
  PROVE  Tidy(i)
<1> DEFINE c == mem[i].claim
<1>0. /\ c \in Claim /\ Synced(i) /\ Synced(i)' /\ Covered(i)
      /\ comments \in [Ids -> Comment]
  BY OwnFacts DEF OrphanInv, TokenInv, TypeOK
<1>1. CASE BeginClaim(i)
  <2>1. /\ pc[i] = "idle" /\ ~mem[i].pending /\ pc'[i] = "claimed"
        /\ disk'[i] = mem'[i] /\ UNCHANGED comments
        /\ ~Running(i) /\ Held(i) = c /\ Held(i)' = mem'[i].claim
    BY <1>1, SaveFacts, MoveFacts DEF BeginClaim, github, Running, Held
  <2>2. CASE Resumable(c) /\ UNCHANGED <<mem, minted>>
    <3>1. disk'[i].claim.token = disk[i].claim.token
      BY <1>0, <2>1, <2>2 DEF Synced
    <3>2. Covered(i)'
      <4> SUFFICES ASSUME NEW k \in Ids, Used(i, k)'
                   PROVE  /\ disk'[i].claim.status = "working"
                          /\ comments'[k].left <= mem'[i].claim.left
        BY <2>1 DEF Covered
      <4>1. Used(i, k) /\ c.status = "working"
        BY <2>1, <2>2, <3>1 DEF Used, Active, Resumable
      <4> QED
        BY <1>0, <2>1, <2>2, <4>1 DEF Covered
    <3> QED
      BY <3>1, <3>2 DEF Tidy
  <2>3. CASE ~Resumable(c) /\ minted' = minted + 1 /\ SetClaim(i, NewClaim)
    <3>1. ASSUME NEW k \in Ids, Used(i, k) PROVE FALSE
      <4>1. c.status = "working" /\ comments[k].left <= c.left
        BY <1>0, <2>1, <3>1 DEF Covered, Synced
      <4>2. c.left = 0
        BY <1>0, <2>3, <4>1 DEF Resumable, Claim
      <4>3. comments[k].left > 0 /\ comments[k].left \in Nat
        BY <1>0, <3>1 DEF Used, Active, Comment
      <4> QED
        BY <4>1, <4>2, <4>3
    <3>2. ASSUME NEW k \in Ids, Used(i, k)' PROVE FALSE
      <4>1. disk'[i].claim.token = minted + 1
        BY <2>1, <2>3, SetClaimFacts DEF NewClaim
      <4>2. comments[k].token <= minted /\ minted \in Nat /\ comments[k].token \in Nat
        BY <1>0 DEF TokenInv, TypeOK, Tokens, Comment
      <4> QED
        BY <2>1, <3>2, <4>1, <4>2 DEF Used
    <3> QED
      BY <3>1, <3>2 DEF Tidy, Unused, Covered
  <2> QED
    BY <1>1, <2>2, <2>3 DEF BeginClaim
<1>2. CASE YieldBeforePost(i) \/ YieldAfterPost(i)
  <2>1. /\ pc[i] \in {"claimed", "settle"} /\ Conclude(i, c, "released")
        /\ Save(i) /\ Move(i, "sync")
    BY <1>2 DEF YieldBeforePost, YieldAfterPost, Yield
  <2> HIDE DEF c
  <2>2. /\ mem'[i].claim.token = c.token /\ mem'[i].pending
        /\ mem'[i].claim.status = "released"
        /\ disk'[i] = mem'[i] /\ pc'[i] = "sync"
    BY <1>0, <2>1, ConcludeFacts, ConcludeStatus, SaveFacts, MoveFacts
  <2>3. c.token = disk[i].claim.token
    BY <1>0, <2>1 DEF Synced, c
  <2>4. Covered(i)'
    BY <2>2, PendingCovers DEF Held
  <2> QED
    BY <2>2, <2>3, <2>4 DEF Tidy
<1>3. CASE AcquireRead(i)
  <2>1. /\ pc[i] = "claimed" /\ pc'[i] = "write" /\ UNCHANGED <<comments, disk>>
    BY <1>3, MoveFacts DEF AcquireRead, github
  <2>2. mem'[i].claim.left = Timeout
    <3>1. PICK id \in {0} \cup Ids :
            SetClaim(i, [c EXCEPT !.id = id, !.status = "working", !.left = Timeout])
      BY <1>3 DEF AcquireRead
    <3>2. [c EXCEPT !.id = id, !.status = "working", !.left = Timeout].left = Timeout
      <4>1. [c EXCEPT !.id = id] \in Claim
        BY <1>0, FieldType
      <4> DEFINE d == [c EXCEPT !.id = id]
      <4> HIDE DEF d
      <4>2. [d EXCEPT !.status = "working"] \in Claim
        BY <4>1, FieldType DEF d
      <4>3. [d EXCEPT !.status = "working", !.left = Timeout].left = Timeout
        BY <4>2 DEF Claim
      <4> QED
        BY <4>3 DEF d
    <3> QED
      BY <3>1, <3>2, SetClaimFacts
  <2>3. disk[i].claim.status = "working"
    BY <1>0, <2>1 DEF Synced
  <2>4. \A k \in Ids : comments[k].left <= Timeout
    BY <1>0, ClaimsAssumption DEF Comment
  <2> QED
    BY <2>1, <2>2, <2>3, <2>4 DEF Tidy, Covered, Held
<1>4. CASE AcquireWrite(i)
  <2>1. /\ pc[i] = "write" /\ pc'[i] = "settle" /\ UNCHANGED disk /\ Apply(c)
    BY <1>4, MoveFacts DEF AcquireWrite
  <2>2. mem'[i].claim.left = c.left
    BY <1>0, <1>4, SetClaimFacts DEF AcquireWrite, Claim
  <2> QED
    BY <2>1, <2>2, WriteCovers DEF Tidy
<1>5. CASE AcquireWriteFails(i)
  <2>1. /\ pc[i] = "write" /\ pc'[i] = "idle" /\ UNCHANGED <<disk, mem>>
    BY <1>5, MoveFacts DEF AcquireWriteFails
  <2>2. comments' = comments \/ Apply(c)
    BY <1>5, NoDelay DEF AcquireWriteFails, TokenInv, github
  <2> QED
    BY <2>1, <2>2, WriteCovers DEF Tidy
<1>6. CASE AcquireReadFails(i)
  <2>1. /\ pc[i] \in {"claimed", "settle"} /\ pc'[i] = "idle"
        /\ UNCHANGED <<comments, disk, mem>>
    BY <1>6, MoveFacts DEF AcquireReadFails, github
  <2> QED
    BY <2>1, WriteCovers DEF Tidy
<1>7. CASE Confirm(i)
  <2>1. /\ pc[i] = "settle" /\ pc'[i] = "working" /\ disk'[i] = mem'[i]
    BY <1>7, SaveFacts, MoveFacts DEF Confirm
  <2>2. mem'[i].claim.token = c.token /\ c.token = disk[i].claim.token
    BY <1>0, <1>7, <2>1, SetClaimFacts DEF Confirm, Claim, Synced
  <2>3. disk'[i].claim.status = "working" /\ Running(i)'
    BY <1>0, <2>1 DEF Synced, Running
  <2> QED
    BY <2>1, <2>2, <2>3, RunningCovers DEF Tidy
<1> QED
  BY <1>1, <1>2, <1>3, <1>4, <1>5, <1>6, <1>7 DEF Acquire

\* While it works, what is saved is the working claim; when it stops, the claim
\* is saved with its final state to deliver.
LEMMA WorkCovers ==
  ASSUME TypeOK, ElectionInv, TokenInv, NEW i \in Instances, Renew(i) \/ Work(i)
  PROVE  Tidy(i)
<1>1. Running(i)
  <2>1. CASE Renew(i)
    <3>1. renewal[i] # "off"
      BY <2>1 DEF Renew, RenewRead, RenewEdit, RenewLost, RenewReadFails,
         RenewEditFails
    <3> QED
      BY <3>1, OwnFacts
  <2>2. CASE Work(i)
    BY <2>2 DEF Work, ReadyToPublish, Publish, Finish, Running
  <2> QED
    BY <2>1, <2>2
<1>2. /\ disk[i].claim.status = "working" /\ mem[i].claim \in Claim
      /\ mem[i].claim.token = disk[i].claim.token
  BY <1>1, OwnFacts DEF Synced, Running
<1>3. CASE Renew(i) \/ ReadyToPublish(i) \/ Publish(i)
  <2>1. UNCHANGED disk
    BY <1>3 DEF Renew, RenewRead, RenewEdit, RenewLost, RenewReadFails,
       RenewEditFails, StopWork, ReadyToPublish, Publish
  <2>2. Running(i)'
    <3>1. CASE Renew(i) \/ Publish(i)
      BY <1>1, <3>1 DEF Renew, RenewRead, RenewEdit, RenewLost, RenewReadFails,
         RenewEditFails, StopWork, Publish, Running
    <3>2. CASE ReadyToPublish(i)
      BY <3>2, MoveFacts DEF ReadyToPublish, Running
    <3> QED
      BY <1>3, <3>1, <3>2
  <2> QED
    BY <1>2, <2>1, <2>2, RunningCovers DEF Tidy
<1>4. ASSUME NEW status \in {"done", "released"}, Finish(i, status)
      PROVE  Tidy(i)
  <2> DEFINE c == mem[i].claim
  <2>1. /\ Conclude(i, c, status) /\ Save(i) /\ Move(i, "sync") /\ c \in Claim
    BY <1>2, <1>4 DEF Finish
  <2> HIDE DEF c
  <2>2. /\ mem'[i].claim.token = c.token /\ mem'[i].pending
        /\ mem'[i].claim.status = status
        /\ disk'[i] = mem'[i] /\ pc'[i] = "sync"
    BY <2>1, ConcludeFacts, ConcludeStatus, SaveFacts, MoveFacts
  <2>3. Covered(i)'
    BY <2>2, PendingCovers DEF Held
  <2> QED
    BY <1>2, <2>2, <2>3 DEF Tidy, c
<1> QED
  BY <1>3, <1>4 DEF Work

\* A claim is taken off the list of updates only when its comment shows the
\* final state or does not exist.
LEMMA DeliverCovers ==
  ASSUME TypeOK, TypeOK', ElectionInv, TokenInv, TokenInv', OrphanInv, MaxLate = 0,
         NEW i \in Instances, Deliver(i)
  PROVE  Tidy(i)
<1> DEFINE c == mem[i].claim
<1>0. /\ c \in Claim /\ Synced(i) /\ Covered(i)
  BY OwnFacts DEF OrphanInv
<1>1. CASE Complete(i)
  <2>1. /\ pc[i] = "idle" /\ pc'[i] = "sync" /\ disk'[i] = mem'[i]
    BY <1>1, SaveFacts, MoveFacts DEF Complete
  <2>2. PICK d \in Claim : Conclude(i, d, "done") /\ (c.token # 0 => d = c)
    <3>1. CASE c.token # 0
      BY <1>0, <1>1, <3>1 DEF Complete
    <3>2. CASE c.token = 0
      BY <1>1, <3>2, NewClaimType DEF Complete
    <3> QED
      BY <3>1, <3>2
  <2>3. /\ mem'[i].claim.token = d.token /\ mem'[i].pending
        /\ mem'[i].claim.status = "done"
    BY <2>2, ConcludeFacts, ConcludeStatus
  <2>4. Covered(i)'
    BY <2>1, <2>3, PendingCovers DEF Held
  <2>5. c.token = disk[i].claim.token
    BY <1>0, <2>1 DEF Synced
  <2>6. c.token = 0 => Unused(i)
    BY <2>5 DEF Unused, Used, Active, TokenInv
  <2> QED
    BY <2>1, <2>2, <2>3, <2>4, <2>5, <2>6 DEF Tidy
<1>2. CASE Sync(i)
  <2>1. /\ mem[i].pending /\ pc[i] \in {"idle", "sync"} /\ disk'[i] = mem'[i]
    BY <1>2, SaveFacts DEF Sync, Delivering
  <2>2. c.status \in Final /\ c.token = disk[i].claim.token /\ c.token # 0
    BY <1>0, <2>1, OwnFacts DEF Synced
  <2>3. PICK id \in {0} \cup Ids :
          \/ /\ NothingToSync(i)
             /\ mem' = [mem EXCEPT ![i].pending = FALSE]
             /\ UNCHANGED <<comments, posted, revived>>
          \/ /\ Apply([c EXCEPT !.id = id])
             /\ mem' = [mem EXCEPT ![i] =
                  [claim |-> [c EXCEPT !.id = IF id = 0 THEN posted + 1 ELSE id],
                   pending |-> FALSE]]
    BY <1>2 DEF Sync
  <2>4. CASE NothingToSync(i) /\ mem' = [mem EXCEPT ![i].pending = FALSE]
             /\ UNCHANGED comments
    <3>1. mem'[i].claim = c
      BY <2>4 DEF TypeOK, Job
    <3>2. \A k \in Ids : comments'[k].token # c.token
      BY <2>4 DEF NothingToSync, Listed
    <3> QED
      BY <2>1, <2>2, <3>1, <3>2 DEF Tidy, Covered, Used
  <2>5. CASE /\ Apply([c EXCEPT !.id = id])
             /\ mem' = [mem EXCEPT ![i] =
                  [claim |-> [c EXCEPT !.id = IF id = 0 THEN posted + 1 ELSE id],
                   pending |-> FALSE]]
    <3> DEFINE d == [c EXCEPT !.id = id]
    <3>1. mem'[i].claim.token = c.token
      BY <1>0, <2>5 DEF TypeOK, Claim
    <3>2. d.token = c.token /\ d.status = c.status
      BY <1>0 DEF Claim
    <3> HIDE DEF d
    <3>3. PICK n \in Ids : comments' = [comments EXCEPT ![n] = Body(d)]
      BY <2>5 DEF Apply, d
    <3>4. comments'[n] = Body(d)
      BY <3>3 DEF TypeOK
    <3>5. comments'[n].token = c.token /\ comments'[n].status = c.status
      BY <3>2, <3>4 DEF Body
    <3>6. \A k \in Ids : comments'[k].token = c.token => k = n
      BY <2>2, <3>5 DEF TokenInv, OneCommentPerToken
    <3>7. \A k \in Ids : ~Used(i, k)'
      BY <2>1, <2>2, <3>1, <3>5, <3>6 DEF Used, Active, Final
    <3> QED
      BY <2>1, <2>2, <3>1, <3>7 DEF Tidy, Covered
  <2> QED
    BY <2>3, <2>4, <2>5
<1>3. CASE SyncReadFails(i) \/ SyncWriteFails(i)
  <2>1. /\ mem[i].pending /\ pc[i] \in {"idle", "sync"} /\ pc'[i] = "idle"
        /\ UNCHANGED disk
    BY <1>3, MoveFacts DEF SyncReadFails, SyncWriteFails, Delivering
  <2>2. c.status \in Final /\ disk[i].pending
    BY <1>0, <2>1 DEF Synced
  <2>3. mem'[i].claim.status = c.status
    <3>1. CASE SyncReadFails(i)
      BY <3>1 DEF SyncReadFails
    <3>2. CASE SyncWriteFails(i)
      BY <1>0, <3>2, SetClaimFacts DEF SyncWriteFails, Claim
    <3> QED
      BY <1>3, <3>1, <3>2
  <2> QED
    BY <2>1, <2>2, <2>3, PendingCovers DEF Tidy, Held, Final
<1> QED
  BY <1>1, <1>2, <1>3 DEF Deliver

\* The process may end where its saved claim lasts as long as its comment.
LEMMA CrashCovers ==
  ASSUME TypeOK, TokenInv, OrphanInv, NEW i \in Instances,
         Crash(i) \/ Restart(i), Crash(i) => ~Outlives(i)
  PROVE  Tidy(i)
<1>0. /\ comments \in [Ids -> Comment] /\ disk[i].claim \in Claim /\ Covered(i)
  BY DEF TypeOK, Job, OrphanInv
<1>1. CASE Crash(i)
  <2>1. pc'[i] = "down" /\ UNCHANGED <<comments, disk>>
    BY <1>1, MoveFacts DEF Crash, github
  <2>2. Held(i)' = disk[i].claim
    BY <2>1 DEF Held
  <2>3. ASSUME NEW k \in Ids, Used(i, k)'
        PROVE  /\ disk'[i].claim.status = "working" \/ disk'[i].pending
               /\ Held(i)'.status = "working" => comments'[k].left <= Held(i)'.left
    <3>1. Used(i, k)
      BY <2>1, <2>3 DEF Used, Active
    <3>2. disk[i].claim.status = "working" => comments[k].left <= disk[i].claim.left
      BY <1>0, <1>1, <3>1 DEF Outlives, Comment, Claim
    <3> QED
      BY <1>0, <2>1, <2>2, <3>1, <3>2 DEF Covered
  <2> QED
    BY <2>1, <2>3 DEF Tidy, Covered
<1>2. CASE Restart(i)
  <2>1. /\ pc[i] = "down" /\ pc'[i] = "idle" /\ mem'[i] = disk[i]
        /\ UNCHANGED <<comments, disk>>
    BY <1>2, MoveFacts DEF Restart, github, TypeOK
  <2> QED
    BY <2>1, SameCovers DEF Held, Running
<1> QED
  BY <1>1, <1>2

\* Time passes for comments and claims alike.
LEMMA TickCovers ==
  ASSUME TypeOK, OrphanInv, Tick
  PROVE  OrphanInv'
<1>1. ASSUME NEW i \in Instances, NEW k \in Ids, Used(i, k)'
      PROVE  Used(i, k)
  BY <1>1, TickFacts DEF Used
<1>2. ASSUME NEW k \in Ids, Active(k)'
      PROVE  \E i \in Instances : Used(i, k)'
  <2>1. PICK i \in Instances : Used(i, k)
    BY <1>2, TickFacts DEF OrphanInv
  <2> QED
    BY <1>2, <2>1, TickFacts DEF Used
<1>3. ASSUME NEW i \in Instances PROVE Covered(i)'
  <2>1. Held(i) \in Claim /\ Held(i)' = Older(Held(i)) /\ pc'[i] = pc[i]
    BY DEF Held, TypeOK, Job, Tick
  <2>2. /\ Held(i)'.status = Held(i).status
        /\ Held(i)'.left = Less(Held(i).left) /\ Held(i).left \in Nat
    BY <2>1 DEF Older, Claim
  <2>3. \A k \in Ids : /\ comments'[k].left = Less(comments[k].left)
                       /\ comments[k].left \in Nat
    BY DEF Tick, TypeOK, Older, Comment
  <2>4. \A m, n \in Nat : m <= n => Less(m) <= Less(n)
    BY DEF Less
  <2>5. ASSUME NEW k \in Ids, Used(i, k)', ~Running(i)', Held(i)'.status = "working"
        PROVE  comments'[k].left <= Held(i)'.left
    <3>1. comments[k].left <= Held(i).left
      BY <1>1, <2>1, <2>2, <2>5 DEF OrphanInv, Covered, Running
    <3> QED
      BY <2>2, <2>3, <2>4, <3>1
  <2>6. ASSUME NEW k \in Ids, Used(i, k)'
        PROVE  disk'[i].claim.status = "working" \/ disk'[i].pending
    BY <1>1, <2>6, TickFacts DEF OrphanInv, Covered
  <2> QED
    BY <2>5, <2>6 DEF Covered
<1> QED
  BY <1>2, <1>3 DEF OrphanInv

\* A live comment that no installation knows of is left behind by nothing but a
\* crash that comes while the comment outlives the saved claim: between the
\* write of acquire and its save, or after a renewal, which is never saved.
THEOREM OrphansComeFromCrashes ==
  MaxLate = 0 =>
    (Spec /\ [][\A i \in Instances : Crash(i) => ~Outlives(i)]_vars
       => []NoOrphanClaim)
<1> SUFFICES ASSUME MaxLate = 0
             PROVE  Spec /\ [][\A i \in Instances : Crash(i) => ~Outlives(i)]_vars
                      => []NoOrphanClaim
  OBVIOUS
<1> DEFINE Kindly == \A i \in Instances : Crash(i) => ~Outlives(i)
<1>1. Init => OrphanInv
  BY DEF Init, NoComment, OrphanInv, Active, Covered, Used
<1>2. TypeOK /\ TypeOK' /\ ElectionInv /\ TokenInv /\ TokenInv' /\ OrphanInv
        /\ [Next]_vars /\ [Kindly]_vars => OrphanInv'
  <2> SUFFICES ASSUME TypeOK, TypeOK', ElectionInv, TokenInv, TokenInv', OrphanInv,
                      [Next]_vars, [Kindly]_vars
               PROVE  OrphanInv'
    OBVIOUS
  <2>1. CASE UNCHANGED vars
    BY <2>1 DEF vars, github, OrphanInv, Covered, Used, Active, Held, Running
  <2>2. CASE Tick
    BY <2>2, TickCovers
  <2>3. CASE Next /\ Kindly /\ ~Tick
    <3>1. PICK i \in Instances :
            Acquire(i) \/ Renew(i) \/ Work(i) \/ Deliver(i) \/ Crash(i) \/ Restart(i)
      BY <2>3 DEF Next, TokenInv
    <3>2. OwnStep(i)
      BY <3>1, AcquireTokens, RenewTokens, WorkTokens, DeliverTokens, CrashTokens
    <3>3. Tidy(i)
      BY <2>3, <3>1, AcquireCovers, WorkCovers, DeliverCovers, CrashCovers
    <3> QED
      BY <3>2, <3>3, OrphanStep
  <2> QED
    BY <2>1, <2>2, <2>3
<1>3. OrphanInv => NoOrphanClaim
  BY DEF OrphanInv, Used, NoOrphanClaim
<1> QED
  BY <1>1, <1>2, <1>3, TypeCorrect, Elections, TokensHold, PTL DEF Spec
=============================================================================
