------------------------------- MODULE Claims -------------------------------
(***************************************************************************)
(* The claim protocol of one issue: several issue-bot installations elect, *)
(* renew, lose and release an advisory lease kept in the issue's comments  *)
(* (src/claim.go, src/comments.go, and the skeleton of claimedAttempt,     *)
(* complete and syncClaim in src/run.go).                                  *)
(*                                                                         *)
(* Time is counted down: `left' is what remains of an ExpiresAt, and Tick  *)
(* advances every clock at once (the protocol asks for synchronised        *)
(* clocks).  A GitHub listing is evaluated when it is answered, in one     *)
(* step with what the caller computes from it; the gap between that        *)
(* listing and the POST or PATCH that follows it is modelled.              *)
(***************************************************************************)
EXTENDS Naturals, FiniteSets

CONSTANTS
  Instances,    \* the installations that work on the same repository
  Timeout,      \* config.ClaimTimeout, in ticks
  MaxComments,  \* bound: comments posted on the issue
  MaxTokens,    \* bound: random tokens drawn
  MaxLate,      \* bound: abandoned requests the server may still execute
  Prompt        \* TRUE: a write reaches GitHub within the two-second wait
                \* of a competitor and before a clock ticks

ASSUME ClaimsAssumption ==
  /\ Timeout \in Nat \ {0}
  /\ MaxComments \in Nat
  /\ MaxTokens \in Nat
  /\ MaxLate \in Nat
  /\ Prompt \in BOOLEAN

VARIABLES
  comments,   \* the issue's comments that carry a claim, by ascending ID
  posted,     \* how many have been posted
  minted,     \* how many tokens have been drawn
  late,       \* writes whose caller gave up, still on their way
  published,  \* a pull request of the issue branch exists
  pc,         \* where each instance stands
  mem,        \* its job: the Claim and ClaimPending
  disk,       \* the same in state.json
  renewal,    \* its renewal goroutine
  next,       \* the expiry in the renewal's PATCH
  canceled,   \* the work context has been cancelled
  revived     \* history: a PATCH made this comment active after it was not

github == <<comments, posted, late, revived>>
lease  == <<renewal, next, canceled>>
vars   == <<github, minted, published, pc, mem, disk, lease>>

Ids    == 1..MaxComments
Tokens == 1..MaxTokens

Claim   == [token : {0} \cup Tokens, id : {0} \cup Ids,
            status : {"none", "working", "released", "done"}, left : 0..Timeout]
Comment == [token : {0} \cup Tokens,
            status : {"none", "working", "released", "done"}, left : 0..Timeout]
Job     == [claim : Claim, pending : BOOLEAN]

NoClaim   == [token |-> 0, id |-> 0, status |-> "none", left |-> 0]
NoComment == [token |-> 0, status |-> "none", left |-> 0]
NoJob     == [claim |-> NoClaim, pending |-> FALSE]

Init ==
  /\ comments = [k \in Ids |-> NoComment]
  /\ posted = 0
  /\ minted = 0
  /\ late = {}
  /\ published = FALSE
  /\ pc = [i \in Instances |-> "idle"]
  /\ mem = [i \in Instances |-> NoJob]
  /\ disk = [i \in Instances |-> NoJob]
  /\ renewal = [i \in Instances |-> "off"]
  /\ next = [i \in Instances |-> 0]
  /\ canceled = [i \in Instances |-> FALSE]
  /\ revived = [k \in Ids |-> FALSE]

-----------------------------------------------------------------------------
(* Reading the comments *)

\* A claim that counts: marked working and not expired.
Active(k) == comments[k].status = "working" /\ comments[k].left > 0

\* Mutant of Wins: any active claim counts, the comment IDs do not matter.
WinsAnyId(k) == Active(k)

\* claimWinner: the lowest comment ID among the active claims.
Wins(k) == Active(k) /\ \A l \in 1..(k - 1) : ~Active(l)

\* Mutant of Owns: the claim is still alive, whoever the winner is.
OwnsIfAlive(c) ==
  c.id \in Ids /\ Active(c.id) /\ comments[c.id].token = c.token

\* The winner is the claim c itself, comment ID included.
Owns(c) == c.id \in Ids /\ Wins(c.id) /\ comments[c.id].token = c.token

\* The winner is a claim of another token.
Foreign(c) == \E k \in Ids : Wins(k) /\ comments[k].token # c.token

\* Mutant of First: the first claim in the listing, of whatever token.
FirstClaim(t, k) ==
  /\ k \in Ids
  /\ comments[k].token # 0
  /\ \A l \in 1..(k - 1) : comments[l].token = 0

\* The first comment in the listing that carries the token t.
First(t, k) ==
  /\ k \in Ids
  /\ comments[k].token = t
  /\ \A l \in 1..(k - 1) : comments[l].token # t

\* Mutant of Recovered: no recovery, only the ID remembered.
RecoveredNever(c, id) == id = c.id

\* The comment ID found by token; the one remembered when none is listed.
Recovered(c, id) ==
  \/ First(c.token, id)
  \/ id = c.id /\ \A k \in Ids : comments[k].token # c.token

-----------------------------------------------------------------------------
(* Writing the comments *)

\* The request that POSTs (id = 0) or PATCHes the comment of claim c.
Body(c) == [token |-> c.token, status |-> c.status, left |-> c.left]

Apply(c) ==
  LET k == IF c.id = 0 THEN posted + 1 ELSE c.id IN
    /\ k \in Ids
    /\ posted' = IF c.id = 0 THEN k ELSE posted
    /\ comments' = [comments EXCEPT ![k] = Body(c)]
    /\ revived' = [revived EXCEPT ![k] =
         @ \/ (c.id # 0 /\ c.status = "working" /\ c.left > 0 /\ ~Active(k))]

\* What a failed request may have done: nothing, its work although the
\* response was lost, or its work later.
Ambiguous(c) ==
  \/ UNCHANGED github
  \/ Apply(c) /\ UNCHANGED late
  \/ /\ Cardinality(late) < MaxLate
     /\ late' = late \cup {c}
     /\ UNCHANGED <<comments, posted, revived>>

\* A write has been decided upon and has not reached GitHub.
InFlight(i) == pc[i] = "write" \/ renewal[i] = "edit"

-----------------------------------------------------------------------------
(* claimedAttempt and acquire *)

\* newClaim: a fresh random token, working until the claim timeout.
NewClaim == [token |-> minted + 1, id |-> 0, status |-> "working",
             left |-> Timeout]

\* j.Claim becomes c.
SetClaim(i, c) == mem' = [mem EXCEPT ![i].claim = c]

\* j.Claim becomes c in a final state that its comment does not show yet.
Conclude(i, c, status) ==
  mem' = [mem EXCEPT ![i] = [claim |-> [c EXCEPT !.status = status, !.left = 0],
                             pending |-> TRUE]]

Save(i) == disk' = [disk EXCEPT ![i] = mem'[i]]
Move(i, where) == pc' = [pc EXCEPT ![i] = where]

\* Mutant of Resumable: any saved claim is resumed, a released one too.
ResumableAny(c) == c.token # 0

\* A saved claim is resumed while it is working and not expired.
Resumable(c) == c.status = "working" /\ c.left > 0

\* A fresh token is drawn unless the saved claim can be resumed; either way the
\* claim is on disk before any comment carries it.
BeginClaim(i) ==
  /\ pc[i] = "idle"
  /\ ~published
  /\ ~mem[i].pending
  /\ mem[i].claim.status # "done"
  /\ \/ /\ Resumable(mem[i].claim)
        /\ UNCHANGED <<mem, minted>>
     \/ /\ ~Resumable(mem[i].claim)
        /\ minted < MaxTokens
        /\ minted' = minted + 1
        /\ SetClaim(i, NewClaim)
  /\ Save(i)
  /\ Move(i, "claimed")
  /\ UNCHANGED <<github, published, lease>>

\* acquire returned false: the claim is marked released, saved, and its
\* comment is about to be updated.
Yield(i) ==
  /\ Conclude(i, mem[i].claim, "released")
  /\ Save(i)
  /\ Move(i, "sync")
  /\ UNCHANGED <<github, minted, published, lease>>

YieldBeforePost(i) ==
  /\ pc[i] = "claimed"
  /\ Foreign(mem[i].claim)
  /\ Yield(i)

\* The first listing shows no other winner: recover the comment by token and
\* compute the expiry that the write will carry.
AcquireRead(i) ==
  /\ pc[i] = "claimed"
  /\ ~Foreign(mem[i].claim)
  /\ \E id \in {0} \cup Ids :
       /\ Recovered(mem[i].claim, id)
       /\ SetClaim(i, [mem[i].claim EXCEPT !.id = id, !.status = "working",
                                          !.left = Timeout])
  /\ Move(i, "write")
  /\ UNCHANGED <<github, minted, published, disk, lease>>

AcquireWrite(i) ==
  /\ pc[i] = "write"
  /\ Apply(mem[i].claim)
  /\ SetClaim(i, [mem[i].claim EXCEPT !.id = IF @ = 0 THEN posted + 1 ELSE @])
  /\ Move(i, "settle")
  /\ UNCHANGED <<late, minted, published, disk, lease>>

\* The request failed: acquire returns the error, the scan ends, the claim
\* stays working in memory and as it was saved.
AcquireWriteFails(i) ==
  /\ pc[i] = "write"
  /\ Ambiguous(mem[i].claim)
  /\ Move(i, "idle")
  /\ UNCHANGED <<minted, published, mem, disk, lease>>

\* A listing or the two-second wait failed.
AcquireReadFails(i) ==
  /\ pc[i] \in {"claimed", "settle"}
  /\ Move(i, "idle")
  /\ UNCHANGED <<github, minted, published, mem, disk, lease>>

\* The second listing elects this claim: it is saved as listed and the
\* renewal goroutine starts.
Confirm(i) ==
  /\ pc[i] = "settle"
  /\ Prompt => \A j \in Instances : ~InFlight(j)
  /\ Owns(mem[i].claim)
  /\ SetClaim(i, [mem[i].claim EXCEPT !.left = comments[mem[i].claim.id].left])
  /\ Save(i)
  /\ Move(i, "working")
  /\ renewal' = [renewal EXCEPT ![i] = "wait"]
  /\ UNCHANGED <<github, minted, published, next, canceled>>

YieldAfterPost(i) ==
  /\ pc[i] = "settle"
  /\ ~Owns(mem[i].claim)
  /\ Yield(i)

-----------------------------------------------------------------------------
(* The lease while the attempt runs *)

Running(i) == pc[i] \in {"working", "checked"}

\* A tick of the renewal goroutine lists the comments under the mutex.
RenewRead(i) ==
  /\ renewal[i] = "wait"
  /\ Owns(mem[i].claim)
  /\ renewal' = [renewal EXCEPT ![i] = "edit"]
  /\ next' = [next EXCEPT ![i] = Timeout]
  /\ UNCHANGED <<github, minted, published, pc, mem, disk, canceled>>

RenewEdit(i) ==
  /\ renewal[i] = "edit"
  /\ Apply([mem[i].claim EXCEPT !.left = next[i]])
  /\ renewal' = [renewal EXCEPT ![i] = "wait"]
  /\ next' = [next EXCEPT ![i] = 0]
  /\ UNCHANGED <<late, minted, published, pc, mem, disk, canceled>>

\* Mutant of StopWork: the goroutine ends without cancelling the work.
StopRenewalOnly(i) ==
  /\ renewal' = [renewal EXCEPT ![i] = "off"]
  /\ next' = [next EXCEPT ![i] = 0]
  /\ UNCHANGED <<minted, published, pc, mem, disk, canceled>>

\* The renewal goroutine cancels the work context and ends.
StopWork(i) ==
  /\ renewal' = [renewal EXCEPT ![i] = "off"]
  /\ next' = [next EXCEPT ![i] = 0]
  /\ canceled' = [canceled EXCEPT ![i] = TRUE]
  /\ UNCHANGED <<minted, published, pc, mem, disk>>

\* errClaimLost or a failed listing: the goroutine cancels the work and ends.
RenewLost(i) ==
  /\ renewal[i] = "wait"
  /\ ~Owns(mem[i].claim)
  /\ StopWork(i)
  /\ UNCHANGED github

RenewReadFails(i) ==
  /\ renewal[i] = "wait"
  /\ StopWork(i)
  /\ UNCHANGED github

RenewEditFails(i) ==
  /\ renewal[i] = "edit"
  /\ StopWork(i)
  /\ Ambiguous([mem[i].claim EXCEPT !.left = next[i]])

\* readyToPublish: the claim is still the winner and no pull request shows.
\* The mutex keeps it out while a renewal is between its list and its edit.
ReadyToPublish(i) ==
  /\ Running(i)
  /\ ~canceled[i]
  /\ renewal[i] # "edit"
  /\ Owns(mem[i].claim)
  /\ ~published
  /\ Move(i, "checked")
  /\ UNCHANGED <<github, minted, published, mem, disk, lease>>

\* The pull request is created; nothing ties this to the claim comment.
Publish(i) ==
  /\ pc[i] = "checked"
  /\ ~published
  /\ published' = TRUE
  /\ UNCHANGED <<github, minted, pc, mem, disk, lease>>

\* The attempt has seen a pull request: its own or one found after the push.
Submitted(i) == pc[i] = "checked" /\ published

\* The attempt returned and close() joined the renewal goroutine; the claim is
\* done when the attempt recorded a pull request and released otherwise.
Finish(i, status) ==
  /\ Running(i)
  /\ renewal[i] # "edit"
  /\ status = "done" => Submitted(i)
  /\ Conclude(i, mem[i].claim, status)
  /\ Save(i)
  /\ Move(i, "sync")
  /\ renewal' = [renewal EXCEPT ![i] = "off"]
  /\ canceled' = [canceled EXCEPT ![i] = FALSE]
  /\ UNCHANGED <<github, minted, published, next>>

-----------------------------------------------------------------------------
(* Delivering the final state of a claim *)

\* complete: a saved job turns out to have a pull request already.
Complete(i) ==
  /\ pc[i] = "idle"
  /\ published
  /\ mem[i].claim.status # "done"
  /\ \/ /\ mem[i].claim.token # 0
        /\ Conclude(i, mem[i].claim, "done")
        /\ UNCHANGED minted
     \/ /\ mem[i].claim.token = 0
        /\ minted < MaxTokens
        /\ minted' = minted + 1
        /\ Conclude(i, NewClaim, "done")
  /\ Save(i)
  /\ Move(i, "sync")
  /\ UNCHANGED <<github, published, lease>>

\* Mutant of Delivering: later scans do not retry.
DeliveringOnce(i) == mem[i].pending /\ pc[i] = "sync"

\* claimedAttempt and complete deliver at once, every later scan retries.
Delivering(i) == mem[i].pending /\ pc[i] \in {"idle", "sync"}

\* Some comment in the listing carries the token t.
Listed(t) == \E k \in Ids : comments[k].token = t

\* sync found nothing to write: a released claim that never got a comment.
NothingToSync(i) ==
  mem[i].claim.status = "released" /\ ~Listed(mem[i].claim.token)

\* The comment of claim c by its token, or 0 when the listing has none.
Resolved(c, id) ==
  \/ First(c.token, id)
  \/ id = 0 /\ ~Listed(c.token)

\* sync and syncClaim: resolve the comment by token, bring it to the saved
\* state, or post it anew when a done claim has none; clear ClaimPending.
Sync(i) ==
  LET c == mem[i].claim IN
    /\ Delivering(i)
    /\ \E id \in {0} \cup Ids :
         /\ Resolved(c, id)
         /\ \/ /\ NothingToSync(i)
               /\ mem' = [mem EXCEPT ![i].pending = FALSE]
               /\ UNCHANGED <<comments, posted, revived>>
            \/ /\ ~NothingToSync(i)
               /\ Apply([c EXCEPT !.id = id])
               /\ mem' = [mem EXCEPT ![i] =
                    [claim |-> [c EXCEPT !.id = IF id = 0 THEN posted + 1 ELSE id],
                     pending |-> FALSE]]
    /\ Save(i)
    /\ Move(i, "idle")
    /\ UNCHANGED <<late, minted, published, lease>>

\* The listing failed: ClaimPending stays set and the next scan retries.
SyncReadFails(i) ==
  /\ Delivering(i)
  /\ Move(i, "idle")
  /\ UNCHANGED <<github, minted, published, mem, disk, lease>>

\* The write failed; an ID found in the listing is remembered.
SyncWriteFails(i) ==
  LET c == mem[i].claim IN
    /\ Delivering(i)
    /\ ~NothingToSync(i)
    /\ \E id \in {0} \cup Ids :
         /\ Resolved(c, id)
         /\ Ambiguous([c EXCEPT !.id = id])
         /\ SetClaim(i, [c EXCEPT !.id = IF id = 0 THEN @ ELSE id])
    /\ Move(i, "idle")
    /\ UNCHANGED <<minted, published, disk, lease>>

-----------------------------------------------------------------------------
(* The environment *)

\* The process dies; a request in flight is lost, or its failure came first.
Crash(i) ==
  /\ pc[i] # "down"
  /\ Move(i, "down")
  /\ mem' = [mem EXCEPT ![i] = NoJob]
  /\ renewal' = [renewal EXCEPT ![i] = "off"]
  /\ next' = [next EXCEPT ![i] = 0]
  /\ canceled' = [canceled EXCEPT ![i] = FALSE]
  /\ UNCHANGED <<github, minted, published, disk>>

\* A new process reads state.json.
Restart(i) ==
  /\ pc[i] = "down"
  /\ Move(i, "idle")
  /\ mem' = [mem EXCEPT ![i] = disk[i]]
  /\ UNCHANGED <<github, minted, published, disk, lease>>

\* GitHub executes a write whose caller gave up.
LandLate(c) ==
  /\ c \in late
  /\ late' = late \ {c}
  /\ Apply(c)
  /\ UNCHANGED <<minted, published, pc, mem, disk, lease>>

Less(n) == IF n = 0 THEN 0 ELSE n - 1
Older(c) == [c EXCEPT !.left = Less(@)]

\* Time passes, but a renewal's context ends after a third of the timeout: by
\* then its request has been answered or has failed.
Tick ==
  /\ Prompt => \A i \in Instances : ~InFlight(i)
  /\ \A i \in Instances :
       renewal[i] = "edit" => Timeout - next[i] < Timeout \div 3
  /\ comments' = [k \in Ids |-> Older(comments[k])]
  /\ late' = {Older(c) : c \in late}
  /\ mem' = [i \in Instances |-> [mem[i] EXCEPT !.claim = Older(@)]]
  /\ disk' = [i \in Instances |-> [disk[i] EXCEPT !.claim = Older(@)]]
  /\ next' = [i \in Instances |-> Less(next[i])]
  /\ UNCHANGED <<posted, revived, minted, published, pc, renewal, canceled>>

Acquire(i) ==
  \/ BeginClaim(i) \/ YieldBeforePost(i) \/ AcquireRead(i)
  \/ AcquireWrite(i) \/ AcquireWriteFails(i) \/ AcquireReadFails(i)
  \/ Confirm(i) \/ YieldAfterPost(i)

Renew(i) == RenewRead(i) \/ RenewEdit(i) \/ RenewLost(i)
            \/ RenewReadFails(i) \/ RenewEditFails(i)

Work(i) ==
  \/ ReadyToPublish(i) \/ Publish(i)
  \/ \E status \in {"done", "released"} : Finish(i, status)

Deliver(i) == Complete(i) \/ Sync(i) \/ SyncReadFails(i) \/ SyncWriteFails(i)

Next ==
  \/ \E i \in Instances :
       Acquire(i) \/ Renew(i) \/ Work(i) \/ Deliver(i) \/ Crash(i) \/ Restart(i)
  \/ \E c \in late : LandLate(c)
  \/ Tick

Spec == Init /\ [][Next]_vars

\* What keeps running by itself: the renewal ticker and its requests, the
\* cancelled attempt on its way out, and the scan that delivers updates.
Fairness ==
  \A i \in Instances :
    /\ WF_vars(Renew(i))
    /\ WF_vars(canceled[i] /\ Finish(i, "released"))
    /\ WF_vars(Sync(i))

FairSpec == Spec /\ Fairness

-----------------------------------------------------------------------------
(* Properties *)

\* Every variable has its type, and the comments form a prefix of the IDs.
TypeOK ==
  /\ comments \in [Ids -> Comment]
  /\ posted \in {0} \cup Ids
  /\ minted \in {0} \cup Tokens
  /\ late \subseteq Claim
  /\ published \in BOOLEAN
  /\ pc \in [Instances -> {"down", "idle", "claimed", "write", "settle",
                           "working", "checked", "sync"}]
  /\ mem \in [Instances -> Job]
  /\ disk \in [Instances -> Job]
  /\ renewal \in [Instances -> {"off", "wait", "edit"}]
  /\ next \in [Instances -> 0..Timeout]
  /\ canceled \in [Instances -> BOOLEAN]
  /\ revived \in [Ids -> BOOLEAN]

\* Instance i runs an attempt under a claim that is neither finished nor expired.
Holder(i) ==
  Running(i) /\ mem[i].claim.id \in Ids /\ Active(mem[i].claim.id)

\* While every write arrives within its competitor's two-second wait, the
\* election of acquire and the ownership check of refresh leave at most one
\* instance at work on the issue under a live claim.
Exclusive ==
  \A i, j \in Instances : i # j => ~(Holder(i) /\ Holder(j))

\* With writes of any delay, two instances can hold live claims only when a
\* PATCH brought a comment back to life after it had expired or been released:
\* the lower of the two comments is such a one.  No other interleaving of
\* acquire, refresh, crashes and lost responses breaks the election.
ExclusiveUnlessRevived ==
  \A i, j \in Instances :
    /\ i # j
    /\ Holder(i)
    /\ Holder(j)
    /\ mem[i].claim.id <= mem[j].claim.id
    => revived[mem[i].claim.id]

\* A claim refers to no comment or to one posted under its own token.
Own(c) ==
  c.id # 0 => c.token # 0 /\ c.id <= posted /\ comments[c.id].token = c.token

JobInv(j) ==
  /\ Own(j.claim)
  /\ j.claim.token <= minted
  /\ j.claim.token = 0 => j.claim.status = "none" /\ ~j.pending

\* What a running attempt can rely on: every lower comment that is active now
\* was brought back to life, for none was active when the claim was confirmed.
Elected(i) ==
  Running(i) => \A k \in Ids :
                  k < mem[i].claim.id /\ Active(k) => revived[k]

InstanceInv(i) ==
  /\ JobInv(mem[i])
  /\ JobInv(disk[i])
  /\ pc[i] \notin {"down", "idle"} => mem[i].claim.token # 0
  /\ renewal[i] # "off" => Running(i)
  /\ Elected(i)

OwnTokens(i) == {mem[i].claim.token, disk[i].claim.token} \ {0}

\* The inductive strengthening of ExclusiveUnlessRevived: in memory, on disk
\* and in delayed requests every claim refers to its own comment, no two
\* instances share a token, and a running attempt was elected.
ElectionInv ==
  /\ \A k \in Ids : comments[k].token # 0 => k <= posted
  /\ \A i \in Instances : InstanceInv(i)
  /\ \A c \in late : c.token # 0 /\ Own(c)
  /\ \A i, j \in Instances : i # j => OwnTokens(i) \cap OwnTokens(j) = {}

\* The starting comment is idempotent: however often acquire and sync are
\* retried after lost responses and restarts, one token never has two comments.
OneCommentPerToken ==
  \A k, l \in Ids :
    comments[k].token # 0 /\ comments[k].token = comments[l].token => k = l

\* No instance ever writes into a comment posted under another token: recovery
\* by token, renewal and delivery all edit the instance's own comment.
CommentKeepsItsToken ==
  [][\A k \in Ids :
       comments[k].token # 0 => comments'[k].token = comments[k].token]_vars

\* A claim whose comment says released or done is never announced as work in
\* progress again: the final state is on disk before the comment changes, so
\* no restart resumes it.
FinishedStaysFinished ==
  [][\A k \in Ids :
       comments[k].status \in {"released", "done"}
         => comments'[k].status # "working"]_vars

\* An interrupted attempt leaves no live claim behind that nobody will finish:
\* the token of a live comment is still in its instance's saved state.
NoOrphanClaim ==
  \A k \in Ids : Active(k) =>
    \E i \in Instances : comments[k].token \in
                           {mem[i].claim.token, disk[i].claim.token}

\* An instance that is no longer the elected one stops working: the renewal
\* notices it, the work context is cancelled and the attempt ends.
LostClaimStopsWork ==
  \A i \in Instances :
    (Running(i) /\ ~Owns(mem[i].claim))
      ~> (~Running(i) \/ Owns(mem[i].claim))

\* A saved final state reaches the comment, whatever failed before, as long as
\* the process stays up and GitHub eventually accepts the update.
FinalStateDelivered ==
  \A i \in Instances :
    mem[i].pending ~> (~mem[i].pending \/ posted = MaxComments)
=============================================================================
