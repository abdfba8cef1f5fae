------------------------------- MODULE Worker -------------------------------
(***************************************************************************)
(* The worker service of one process: runs that clients start and follow   *)
(* as streams of events, the two lock files that keep installations apart, *)
(* and the end of the service.  Other processes (daemons, retry) compete   *)
(* for the same locks.                                                     *)
(*                                                                         *)
(* A run is reduced to what concerns its surroundings: it may claim an     *)
(* issue, works, saves that the claim has ended, and updates the comment,  *)
(* unless an error ends it in between.                                     *)
(***************************************************************************)
EXTENDS Naturals, Sequences

CONSTANTS
  Streams,      \* requests to this worker
  Others,       \* other processes
  StateDir,     \* per actor: its state directory
  Checkout,     \* per actor: its managed checkout
  Nobody,
  MaxProgress   \* bound: progress events per stream

Actors == Streams \cup Others
States == {StateDir[a] : a \in Actors}
Checkouts == {Checkout[a] : a \in Actors}

ASSUME WorkerAssumption ==
  /\ Streams \cap Others = {} /\ Nobody \notin Actors \cup Checkouts
  /\ Actors \subseteq DOMAIN StateDir /\ Actors \subseteq DOMAIN Checkout
  /\ MaxProgress \in Nat

VARIABLES
  pc,            \* per actor: where it stands
  todo,          \* per actor: what it wants the locks for
  stateLock,     \* per state directory: who holds daemon.lock
  checkoutLock,  \* per checkout: who holds its lock file
  saved,         \* per state directory: the identity and the claim in state.json
  failed,        \* per stream: s.run will return an error
  canceled,      \* per stream: runCtx is done
  conn,          \* per stream: the connection
  seq,           \* per stream: the number of events written
  got,           \* per stream: the events the client received
  service,       \* whether the process serves, is asked to stop, has exited
  cause          \* who asked it to stop

locks  == <<stateLock, checkoutLock>>
stream == <<failed, canceled, conn, seq, got>>
vars == <<pc, todo, locks, saved, stream, service, cause>>

Unlocked == {"idle", "state", "read", "result", "terminal", "done", "killed"}
Locked   == {"locked", "claimed", "closing"}
Active(s) == pc[s] \notin {"idle", "done", "killed"}

Types == {"progress", "result", "error", "canceled", "complete"}
Terminals == {"error", "canceled", "complete"}

\* claim is the actor whose claim is saved as working.
Saved == [dir : Checkouts \cup {Nobody}, claim : Actors \cup {Nobody}]

Init ==
  /\ pc = [a \in Actors |-> "idle"]
  /\ todo = [a \in Actors |-> "run"]
  /\ stateLock = [d \in States |-> Nobody]
  /\ checkoutLock = [c \in Checkouts |-> Nobody]
  /\ saved = [d \in States |-> [dir |-> Nobody, claim |-> Nobody]]
  /\ failed = [s \in Streams |-> FALSE]
  /\ canceled = [s \in Streams |-> FALSE]
  /\ conn = [s \in Streams |-> "none"]
  /\ seq = [s \in Streams |-> 0]
  /\ got = [s \in Streams |-> <<>>]
  /\ service = "serving"
  /\ cause = "none"

-----------------------------------------------------------------------------
(* Building blocks *)

Goto(a, p) == pc' = [pc EXCEPT ![a] = p]

\* write counts an event and sends it as far as the connection still stands.
Emit(s, types) ==
  /\ seq' = [seq EXCEPT ![s] = @ + Len(types)]
  /\ got' = [got EXCEPT ![s] =
       IF conn[s] = "open"
       THEN @ \o [k \in 1..Len(types) |-> [type |-> types[k], seq |-> seq[s] + k]]
       ELSE @]

\* Where an actor goes when Requeue or Run returns: a failed requeue ends the
\* request, a run is followed by a look at the saved jobs.
Back(a) ==
  IF a \in Others THEN "idle"
  ELSE IF todo[a] = "requeue" THEN "terminal" ELSE "read"

\* Requeue or Run returns, with an error or without one.
Return(a, error) ==
  /\ Goto(a, Back(a))
  /\ failed' = IF a \in Streams THEN [failed EXCEPT ![a] = error] ELSE failed

Unlock(a) ==
  /\ stateLock' = [stateLock EXCEPT ![StateDir[a]] = Nobody]
  /\ checkoutLock' = [checkoutLock EXCEPT ![Checkout[a]] = Nobody]

\* state.json belongs to another configuration: ReadState refuses it.
Foreign(a) == saved[StateDir[a]].dir \notin {Nobody, Checkout[a]}

-----------------------------------------------------------------------------
(* Requests *)

\* A connection that was accepted is served, also while the service stops.
Request(s) ==
  /\ pc[s] = "idle" /\ service \in {"serving", "stopping"}
  /\ conn' = [conn EXCEPT ![s] = "open"]
  /\ \E t \in {"requeue", "run"} : todo' = [todo EXCEPT ![s] = t]
  /\ Goto(s, "state")
  /\ UNCHANGED <<locks, saved, failed, canceled, seq, got, service, cause>>

\* A malformed request or another protocol version: an answer without events.
Refuse(s) ==
  /\ pc[s] = "idle" /\ service \in {"serving", "stopping"}
  /\ Goto(s, "done")
  /\ UNCHANGED <<todo, locks, saved, stream, service, cause>>

\* Mutant of HangUp: the run's context does not descend from the request's.
HangUpUnnoticed(s) ==
  /\ Active(s) /\ conn[s] = "open" /\ ~canceled[s]
  /\ UNCHANGED canceled
  /\ \E c \in {"open", "closed"} : conn' = [conn EXCEPT ![s] = c]
  /\ UNCHANGED <<pc, todo, locks, saved, failed, seq, got, service, cause>>

\* The client goes, or only ends its own half of the connection.
HangUp(s) ==
  /\ Active(s) /\ conn[s] = "open" /\ ~canceled[s]
  /\ canceled' = [canceled EXCEPT ![s] = TRUE]
  /\ \E c \in {"open", "closed"} : conn' = [conn EXCEPT ![s] = c]
  /\ UNCHANGED <<pc, todo, locks, saved, failed, seq, got, service, cause>>

-----------------------------------------------------------------------------
(* Requeue and Run under the locks *)

\* Another process starts a scan, or a retry.
Start(o) ==
  /\ pc[o] = "idle"
  /\ Goto(o, "state")
  /\ UNCHANGED <<todo, locks, saved, stream, service, cause>>

TakeState(a) ==
  /\ pc[a] = "state" /\ stateLock[StateDir[a]] = Nobody
  /\ stateLock' = [stateLock EXCEPT ![StateDir[a]] = a]
  /\ Goto(a, "checkout")
  /\ UNCHANGED <<todo, checkoutLock, saved, stream, service, cause>>

StateBusy(a) ==
  /\ pc[a] = "state" /\ stateLock[StateDir[a]] # Nobody
  /\ Return(a, TRUE)
  /\ UNCHANGED <<todo, locks, saved, canceled, conn, seq, got, service, cause>>

\* Mutant of TakeCheckout: the checkout is taken from its holder.
TakeCheckoutAnyway(a) ==
  /\ pc[a] = "checkout"
  /\ checkoutLock' = [checkoutLock EXCEPT ![Checkout[a]] = a]
  /\ Goto(a, "locked")
  /\ UNCHANGED <<todo, stateLock, saved, stream, service, cause>>

TakeCheckout(a) ==
  /\ pc[a] = "checkout" /\ checkoutLock[Checkout[a]] = Nobody
  /\ checkoutLock' = [checkoutLock EXCEPT ![Checkout[a]] = a]
  /\ Goto(a, "locked")
  /\ UNCHANGED <<todo, stateLock, saved, stream, service, cause>>

\* Mutant of CheckoutBusy: the state lock is kept.
CheckoutBusyKeeps(a) ==
  /\ pc[a] = "checkout" /\ checkoutLock[Checkout[a]] # Nobody
  /\ Return(a, TRUE)
  /\ UNCHANGED <<todo, locks, saved, canceled, conn, seq, got, service, cause>>

\* The second lock is held by somebody else: the first is given back.
CheckoutBusy(a) ==
  /\ pc[a] = "checkout" /\ checkoutLock[Checkout[a]] # Nobody
  /\ stateLock' = [stateLock EXCEPT ![StateDir[a]] = Nobody]
  /\ Return(a, TRUE)
  /\ UNCHANGED <<todo, checkoutLock, saved, canceled, conn, seq, got, service, cause>>

\* Requeue is done and the request goes on with Run, which locks again.
Requeue(s) ==
  /\ pc[s] = "locked" /\ todo[s] = "requeue"
  /\ ~Foreign(s) /\ saved[StateDir[s]].claim = Nobody
  /\ saved' = [saved EXCEPT ![StateDir[s]].dir = Checkout[s]]
  /\ todo' = [todo EXCEPT ![s] = "run"]
  /\ Unlock(s)
  /\ Goto(s, "state")
  /\ UNCHANGED <<stream, service, cause>>

\* Somebody works on the issue, the state is not this configuration's, or a git
\* command fails.
RequeueFails(s) ==
  /\ pc[s] = "locked" /\ todo[s] = "requeue"
  /\ Unlock(s)
  /\ Return(s, TRUE)
  /\ UNCHANGED <<todo, saved, canceled, conn, seq, got, service, cause>>

\* The scan claims an issue, or takes a claim up that its saved job still has.
Claim(a) ==
  /\ pc[a] = "locked" /\ todo[a] = "run" /\ ~Foreign(a)
  /\ a \in Streams => ~canceled[a]
  /\ saved' = [saved EXCEPT ![StateDir[a]] = [dir |-> Checkout[a], claim |-> a]]
  /\ Goto(a, "claimed")
  /\ UNCHANGED <<todo, locks, stream, service, cause>>

\* The scan finds nothing to do, or fails before it works on an issue.
Scan(a) ==
  /\ pc[a] = "locked" /\ todo[a] = "run"
  /\ Unlock(a)
  /\ \E error \in BOOLEAN : Return(a, error) /\ (Foreign(a) => error)
  /\ UNCHANGED <<todo, saved, canceled, conn, seq, got, service, cause>>

\* report, from the goroutine of the run; a canceled run is silent.
Progress(s) ==
  /\ pc[s] \in Locked /\ todo[s] = "run" /\ ~canceled[s]
  /\ seq[s] < MaxProgress
  /\ Emit(s, <<"progress">>)
  /\ UNCHANGED <<pc, todo, locks, saved, failed, canceled, conn, service, cause>>

\* Mutant of Ended: the end of the claim is not saved.
EndedUnsaved(a) == saved

\* The saved claim is released or done.
Ended(a) == [saved EXCEPT ![StateDir[a]].claim = Nobody]

\* Run returns, or a daemon goes on with its next scan.
Leave(a, error) ==
  \/ Unlock(a) /\ Return(a, error)
  \/ a \in Others /\ Goto(a, "locked") /\ UNCHANGED <<locks, failed>>

\* The election fails, or a save after it: the claim stays saved as working.
Abandon(a) ==
  /\ pc[a] = "claimed"
  /\ Leave(a, TRUE)
  /\ UNCHANGED <<todo, saved, canceled, conn, seq, got, service, cause>>

\* The election is lost: the claim is released and the scan goes on.
Yield(a) ==
  /\ pc[a] = "claimed"
  /\ saved' = Ended(a)
  /\ Goto(a, "locked")
  /\ UNCHANGED <<todo, locks, stream, service, cause>>

\* The attempt ends, by itself or because its context is done.
Work(a) ==
  /\ pc[a] = "claimed"
  /\ saved' = Ended(a)
  /\ Goto(a, "closing")
  /\ UNCHANGED <<todo, locks, stream, service, cause>>

\* The comment is updated, or 30 seconds pass.
Close(a) ==
  /\ pc[a] = "closing"
  /\ \E error \in BOOLEAN : Leave(a, error)
  /\ UNCHANGED <<todo, saved, canceled, conn, seq, got, service, cause>>

\* The saved jobs are read without the locks.
Read(s) ==
  /\ pc[s] = "read"
  /\ failed' = [failed EXCEPT ![s] = @ \/ Foreign(s)]
  /\ Goto(s, "result")
  /\ UNCHANGED <<todo, locks, saved, canceled, conn, seq, got, service, cause>>

-----------------------------------------------------------------------------
(* The end of a stream *)

WriteResult(s) ==
  /\ pc[s] = "result"
  /\ Emit(s, <<"result">>)
  /\ Goto(s, "terminal")
  /\ UNCHANGED <<todo, locks, saved, failed, canceled, conn, service, cause>>

\* Mutant of Terminal: no return after the first branch.
TerminalBoth(s) ==
  IF failed[s] THEN IF canceled[s] THEN <<"canceled", "error">> ELSE <<"error">>
  ELSE <<"complete">>

Terminal(s) ==
  IF failed[s] THEN IF canceled[s] THEN <<"canceled">> ELSE <<"error">>
  ELSE <<"complete">>

WriteTerminal(s) ==
  /\ pc[s] = "terminal"
  /\ Emit(s, Terminal(s))
  /\ conn' = [conn EXCEPT ![s] = "closed"]
  /\ Goto(s, "done")
  /\ UNCHANGED <<todo, locks, saved, failed, canceled, service, cause>>

-----------------------------------------------------------------------------
(* The end of the service *)

\* POST /v1/shutdown, or a signal.
Stop ==
  /\ service = "serving"
  /\ service' = "stopping"
  /\ cause' \in {"town", "signal"}
  /\ UNCHANGED <<pc, todo, locks, saved, stream>>

\* Shutdown has waited for the last handler.
Drained ==
  /\ service = "stopping" /\ \A s \in Streams : ~Active(s)
  /\ service' = "exited"
  /\ UNCHANGED <<pc, todo, locks, saved, stream, cause>>

\* Mutant of Deadline: Shutdown waits without a limit.
DeadlineNone == FALSE /\ UNCHANGED vars

\* After five seconds the connections are closed, which ends their contexts.
Deadline ==
  /\ service = "stopping" /\ \E s \in Streams : Active(s)
  /\ service' = "closed"
  /\ conn' = [s \in Streams |-> IF Active(s) THEN "closed" ELSE conn[s]]
  /\ canceled' = [s \in Streams |-> canceled[s] \/ Active(s)]
  /\ UNCHANGED <<pc, todo, locks, saved, failed, seq, got, cause>>

\* Serve returns and the process ends with all its goroutines and locks.
Exit ==
  /\ service = "closed"
  /\ service' = "exited"
  /\ pc' = [a \in Actors |-> IF a \in Streams /\ Active(a) THEN "killed" ELSE pc[a]]
  /\ stateLock' = [d \in States |-> IF stateLock[d] \in Streams THEN Nobody ELSE stateLock[d]]
  /\ checkoutLock' =
       [c \in Checkouts |-> IF checkoutLock[c] \in Streams THEN Nobody ELSE checkoutLock[c]]
  /\ UNCHANGED <<todo, saved, stream, cause>>

Steps(a) ==
  \/ TakeState(a) \/ StateBusy(a) \/ TakeCheckout(a) \/ CheckoutBusy(a)
  \/ Claim(a) \/ Scan(a) \/ Abandon(a) \/ Yield(a) \/ Work(a) \/ Close(a)

Handler(s) ==
  \/ Requeue(s) \/ RequeueFails(s)
  \/ Read(s) \/ WriteResult(s) \/ WriteTerminal(s)

Next ==
  \/ \E s \in Streams : Request(s) \/ Refuse(s) \/ HangUp(s) \/ Progress(s) \/ Handler(s)
  \/ \E o \in Others : Start(o)
  \/ \E a \in Actors : Steps(a)
  \/ Stop \/ Drained \/ Deadline \/ Exit

Spec == Init /\ [][Next]_vars

\* The goroutines of the service go on, its timer fires, and a canceled attempt
\* returns; one that is not canceled may take as long as it likes.
Fairness ==
  /\ WF_vars(Drained) /\ WF_vars(Deadline) /\ WF_vars(Exit)
  /\ \A s \in Streams :
       WF_vars((pc[s] # "claimed" \/ canceled[s]) /\ (Steps(s) \/ Handler(s)))

FairSpec == Spec /\ Fairness

-----------------------------------------------------------------------------
(* Properties *)

Event == [type : Types, seq : Nat]

\* Every variable has its type; other processes answer no client.
TypeOK ==
  /\ pc \in [Actors -> Unlocked \cup Locked \cup {"checkout"}]
  /\ \A o \in Others : pc[o] \notin {"read", "result", "terminal", "done", "killed"}
  /\ todo \in [Actors -> {"requeue", "run"}] /\ \A o \in Others : todo[o] = "run"
  /\ stateLock \in [States -> Actors \cup {Nobody}]
  /\ checkoutLock \in [Checkouts -> Actors \cup {Nobody}]
  /\ saved \in [States -> Saved]
  /\ failed \in [Streams -> BOOLEAN] /\ canceled \in [Streams -> BOOLEAN]
  /\ conn \in [Streams -> {"none", "open", "closed"}]
  /\ seq \in [Streams -> Nat]
  /\ got \in [Streams -> Seq(Event)]
  /\ service \in {"serving", "stopping", "closed", "exited"}
  /\ cause \in {"none", "town", "signal"}

\* "Local locks protect against two processes sharing the same checkout/state":
\* no two actors, in whatever combination of directories, work at once with a
\* state directory or a checkout in common.
Excluded ==
  \A a, b \in Actors :
    a # b /\ pc[a] \in Locked /\ pc[b] \in Locked
      => StateDir[a] # StateDir[b] /\ Checkout[a] # Checkout[b]

\* A lock is held exactly by the actor that stands behind it: whoever failed,
\* finished or was killed holds none, also after only the second one was busy.
LocksReturned ==
  \A a \in Actors :
    /\ stateLock[StateDir[a]] = a <=> pc[a] \in Locked \cup {"checkout"}
    /\ checkoutLock[Checkout[a]] = a <=> pc[a] \in Locked

\* "Contiguous newline-delimited JSON events: progress, optional typed result,
\* and error, canceled, or complete": whatever a client got of its stream is
\* numbered from one without a gap, a result is followed by the terminal event
\* only, and nothing follows that one.
WellFormed ==
  \A s \in Streams : \A k \in DOMAIN got[s] :
    /\ got[s][k].seq = k
    /\ got[s][k].type = "result" => k + 1 >= Len(got[s])
    /\ got[s][k].type \in Terminals => k = Len(got[s])
    /\ k > 1 /\ got[s][k].type = "progress" => got[s][k - 1].type = "progress"

\* A run that the client is told is complete has given its claim back: no
\* "working" claim of it is left in state.json for a requeue to trip over.  After
\* "error" or "canceled" there may be one.
CompleteMeansReleased ==
  \A s \in Streams :
    (\E k \in DOMAIN got[s] : got[s][k].type = "complete")
      => \A d \in States : saved[d].claim # s

\* Whoever asks the service to stop need not wait for an agent.
StopIsPrompt == service = "stopping" ~> service = "exited"

\* A client that goes away does not leave its run behind: without the client the
\* run ends, whatever its agent is doing.
AbandonedRunEnds ==
  \A s \in Streams : (Active(s) /\ conn[s] = "closed") ~> ~Active(s)

-----------------------------------------------------------------------------
(* Statements of README.md that the code does not keep.  No run of the project *)
(* checks them: README.md says with which constants TLC refutes each.          *)

\* "POST /v1/shutdown asks the service to stop after the current stream".
StopsAfterStream ==
  service = "exited" /\ cause = "town" => \A s \in Streams : pc[s] # "killed"

\* "Failed or interrupted attempts mark the claim released", also when it is the
\* worker that is interrupted.
InterruptedReleases ==
  service = "exited" /\ cause = "signal"
    => \A d \in States : saved[d].claim \notin Streams
=============================================================================
