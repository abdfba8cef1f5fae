---------------------------- MODULE WorkerProofs ----------------------------
(* Theorems about Worker for any number of requests, other processes and      *)
(* installations, whatever directories they share.                            *)
EXTENDS Worker, SequenceTheorems, TLAPS

USE WorkerAssumption DEF Actors, States, Checkouts

\* At the position P, a request whose run has failed (F) or not may have left a
\* claim: while it works, when it was killed, and after it failed.
Kept(P, F) ==
  \/ P \in {"claimed", "killed"}
  \/ P \in {"read", "result", "terminal", "done"} /\ F

\* A saved claim of a request belongs to its running attempt, to one that was
\* killed or to one that failed, and is in the file of its own state directory.
ClaimsInPlace ==
  \A d \in States, s \in Streams :
    saved[d].claim = s => d = StateDir[s] /\ Kept(pc[s], failed[s])

\* The terminal event is the last thing a request does, and tells whether its run
\* failed.
TerminalAtEnd ==
  \A s \in Streams : \A k \in DOMAIN got[s] :
    got[s][k].type \in Terminals
      => pc[s] = "done" /\ (got[s][k].type = "complete" => ~failed[s])

\* The inductive invariant.
WorkerInv == TypeOK /\ LocksReturned /\ ClaimsInPlace /\ TerminalAtEnd

\* What the position P, the connection C and the n events written of a request
\* say of the events g that its client has got.
StreamOK(P, C, n, g) ==
  /\ P = "idle" => C = "none"
  /\ C = "none" => P \in {"idle", "done"}
  /\ C = "none" => n = 0 /\ g = <<>>
  /\ C = "open" => Len(g) = n
  /\ P \notin {"terminal", "done", "killed"} => \A k \in DOMAIN g : g[k].type = "progress"
  /\ P = "terminal" => \A k \in DOMAIN g :
        g[k].type \in {"progress", "result"} /\ (g[k].type = "result" => k = Len(g))
  /\ \A k \in DOMAIN g :
        /\ g[k].seq = k
        /\ g[k].type = "result" => k + 1 >= Len(g)
        /\ g[k].type \in Terminals => k = Len(g)
        /\ k > 1 /\ g[k].type = "progress" => g[k - 1].type = "progress"

Streaming == \A s \in Streams : StreamOK(pc[s], conn[s], seq[s], got[s])

-----------------------------------------------------------------------------
(* Events *)

\* What a client has got is extended by events.
LEMMA EmitTypes ==
  ASSUME NEW s \in Streams, NEW types \in Seq(Types),
         seq \in [Streams -> Nat], got \in [Streams -> Seq(Event)], Emit(s, types)
  PROVE  seq' \in [Streams -> Nat] /\ got' \in [Streams -> Seq(Event)]
<1>1. seq' \in [Streams -> Nat]
  <2>1. Len(types) \in Nat
    OBVIOUS
  <2>2. QED
    BY <2>1 DEF Emit
<1> DEFINE new == [k \in 1..Len(types) |-> [type |-> types[k], seq |-> seq[s] + k]]
<1>2. new \in Seq(Event)
  <2>1. \A k \in 1..Len(types) : types[k] \in Types /\ seq[s] + k \in Nat
    OBVIOUS
  <2>2. \A k \in 1..Len(types) : [type |-> types[k], seq |-> seq[s] + k] \in Event
    BY <2>1 DEF Event
  <2>3. Len(types) \in Nat
    OBVIOUS
  <2>4. QED
    BY <2>2, <2>3
<1>3. got[s] \o new \in Seq(Event)
  BY <1>2
<1>4. got' = [got EXCEPT ![s] = IF conn[s] = "open" THEN got[s] \o new ELSE got[s]]
  BY DEF Emit
<1>5. QED
  BY <1>1, <1>3, <1>4

\* Extending it with events that are not terminal leaves no terminal one.
LEMMA EmitOpen ==
  ASSUME NEW s \in Streams, NEW t \in Types \ Terminals,
         got \in [Streams -> Seq(Event)], Emit(s, <<t>>)
  PROVE  \A z \in Streams : \A k \in DOMAIN got'[z] :
           got'[z][k].type \in Terminals => k \in DOMAIN got[z] /\ got'[z][k] = got[z][k]
<1> DEFINE new == [k \in 1..Len(<<t>>) |-> [type |-> <<t>>[k], seq |-> seq[s] + k]]
<1>1. got' = [got EXCEPT ![s] = IF conn[s] = "open" THEN got[s] \o new ELSE got[s]]
  BY DEF Emit
<1>2. new \in Seq({[type |-> t, seq |-> seq[s] + 1]}) /\ Len(new) = 1
      /\ new[1] = [type |-> t, seq |-> seq[s] + 1]
  <2>1. Len(<<t>>) = 1 /\ <<t>>[1] = t
    OBVIOUS
  <2>2. QED
    BY <2>1
<1>3. TAKE z \in Streams
<1>4. CASE z # s \/ conn[s] # "open"
  BY <1>1, <1>4
<1>5. CASE z = s /\ conn[s] = "open"
  <2>1. got'[s] = got[s] \o new
    BY <1>1, <1>5
  <2>2. ASSUME NEW k \in DOMAIN (got[s] \o new),
               (got[s] \o new)[k].type \in Terminals
        PROVE  k \in DOMAIN got[s] /\ (got[s] \o new)[k] = got[s][k]
    <3>1. CASE k \in 1..Len(got[s])
      <4>1. (got[s] \o new)[k] = got[s][k]
        BY <1>2, <3>1
      <4>2. QED
        BY <2>2, <3>1, <4>1
    <3>2. CASE k \notin 1..Len(got[s])
      <4>1. k = Len(got[s]) + 1
        BY <1>2, <2>2, <3>2
      <4>2. (got[s] \o new)[k] = new[1]
        BY <1>2, <4>1
      <4>3. QED
        BY <1>2, <2>2, <4>2
    <3>3. QED
      BY <3>1, <3>2
  <2>3. QED
    BY <1>5, <2>1, <2>2
<1>6. QED
  BY <1>4, <1>5
\* A request ends with one event.
LEMMA TerminalTypes ==
  ASSUME NEW s \in Streams
  PROVE  Terminal(s) \in Seq(Types)
<1>1. \A t \in Types : <<t>> \in Seq(Types)
  OBVIOUS
<1>2. {"canceled", "error", "complete"} \subseteq Types
  BY DEF Types
<1>3. \E t \in {"canceled", "error", "complete"} : Terminal(s) = <<t>>
  BY DEF Terminal
<1>4. QED
  BY <1>1, <1>2, <1>3

\* A sequence that is extended by one element.
LEMMA AppendedOne ==
  ASSUME NEW S, NEW g \in Seq(S), NEW new \in Seq(S), Len(new) = 1
  PROVE  /\ DOMAIN (g \o new) = 1..(Len(g) + 1) /\ Len(g \o new) = Len(g) + 1
         /\ \A k \in 1..Len(g) : (g \o new)[k] = g[k]
         /\ (g \o new)[Len(g) + 1] = new[1]
<1>1. Len(g) \in Nat
  OBVIOUS
<1>2. QED
  BY <1>1, ConcatProperties

\* What an event does to the stream it is written to, and to no other.
LEMMA EmitShape ==
  ASSUME NEW s \in Streams, NEW t \in Types,
         seq \in [Streams -> Nat], got \in [Streams -> Seq(Event)], Emit(s, <<t>>)
  PROVE  /\ \A z \in Streams : z # s => got'[z] = got[z] /\ seq'[z] = seq[z]
         /\ seq'[s] = seq[s] + 1
         /\ conn[s] # "open" => got'[s] = got[s]
         /\ conn[s] = "open" =>
              /\ DOMAIN got'[s] = 1..(Len(got[s]) + 1)
              /\ Len(got'[s]) = Len(got[s]) + 1
              /\ \A k \in 1..Len(got[s]) : got'[s][k] = got[s][k]
              /\ got'[s][Len(got[s]) + 1] = [type |-> t, seq |-> seq[s] + 1]
<1> DEFINE e == [type |-> t, seq |-> seq[s] + 1]
           new == [k \in 1..Len(<<t>>) |-> [type |-> <<t>>[k], seq |-> seq[s] + k]]
<1>1. Len(<<t>>) = 1 /\ <<t>>[1] = t
  OBVIOUS
<1>2. new \in Seq(Event) /\ Len(new) = 1 /\ new[1] = e
  <2>1. e \in Event
    BY DEF Event
  <2>2. QED
    BY <1>1, <2>1
<1>3. got' = [got EXCEPT ![s] = IF conn[s] = "open" THEN got[s] \o new ELSE got[s]]
  BY DEF Emit
<1>4. seq' = [seq EXCEPT ![s] = seq[s] + 1]
  BY <1>1 DEF Emit
<1>5. ASSUME conn[s] = "open"
      PROVE  /\ DOMAIN got'[s] = 1..(Len(got[s]) + 1)
             /\ Len(got'[s]) = Len(got[s]) + 1
             /\ \A k \in 1..Len(got[s]) : got'[s][k] = got[s][k]
             /\ got'[s][Len(got[s]) + 1] = e
  <2>1. got'[s] = got[s] \o new
    BY <1>3, <1>5
  <2>2. got[s] \in Seq(Event)
    OBVIOUS
  <2> HIDE DEF new, e
  <2>3. QED
    BY <1>2, <2>1, <2>2, AppendedOne
<1>6. QED
  BY <1>3, <1>4, <1>5

-----------------------------------------------------------------------------
(* The invariant *)

\* Whoever leaves goes where an actor of its kind may be.
LEMMA LeaveTypes ==
  ASSUME TypeOK, NEW a \in Actors, NEW error \in BOOLEAN, Leave(a, error)
  PROVE  /\ failed' \in [Streams -> BOOLEAN] /\ stateLock' \in [States -> Actors \cup {Nobody}]
         /\ checkoutLock' \in [Checkouts -> Actors \cup {Nobody}]
         /\ pc' \in [Actors -> Unlocked \cup Locked \cup {"checkout"}]
         /\ \A o \in Others : pc'[o] \notin {"read", "result", "terminal", "done", "killed"}
<1>1. /\ failed \in [Streams -> BOOLEAN] /\ stateLock \in [States -> Actors \cup {Nobody}]
      /\ checkoutLock \in [Checkouts -> Actors \cup {Nobody}]
      /\ pc \in [Actors -> Unlocked \cup Locked \cup {"checkout"}]
      /\ \A o \in Others : pc[o] \notin {"read", "result", "terminal", "done", "killed"}
  BY DEF TypeOK
<1>2. CASE Unlock(a) /\ Return(a, error)
  <2>1. /\ pc' \in [Actors -> Unlocked \cup Locked \cup {"checkout"}]
        /\ \A o \in Others : pc'[o] \notin {"read", "result", "terminal", "done", "killed"}
    <3>1. PICK p \in {"idle", "terminal", "read"} : p = Back(a) /\ (a \in Others => p = "idle")
      BY DEF Back
    <3>2. pc' = [pc EXCEPT ![a] = p]
      BY <1>2, <3>1 DEF Return, Goto
    <3>3. QED
      BY <1>1, <3>1, <3>2 DEF Unlocked
  <2>2. failed' \in [Streams -> BOOLEAN]
    BY <1>1, <1>2 DEF Return
  <2>3. stateLock' \in [States -> Actors \cup {Nobody}]
    BY <1>1, <1>2 DEF Unlock
  <2>4. checkoutLock' \in [Checkouts -> Actors \cup {Nobody}]
    BY <1>1, <1>2 DEF Unlock
  <2>5. QED
    BY <2>1, <2>2, <2>3, <2>4
<1>3. CASE a \in Others /\ Goto(a, "locked") /\ UNCHANGED <<locks, failed>>
  BY <1>1, <1>3 DEF Goto, locks, Locked
<1>4. QED
  BY <1>2, <1>3 DEF Leave

\* Whoever leaves gives its locks back, or keeps them and scans again.
LEMMA LeaveLocks ==
  ASSUME WorkerInv, NEW a \in Actors, NEW error \in BOOLEAN, Leave(a, error),
         pc[a] \in Locked
  PROVE  LocksReturned'
<1>1. TypeOK /\ LocksReturned
  BY DEF WorkerInv
<1>2. CASE Unlock(a) /\ Return(a, error)
  <2>1. pc' = [pc EXCEPT ![a] = Back(a)] /\ Back(a) \in {"idle", "terminal", "read"}
    BY <1>2 DEF Return, Goto, Back
  <2>2. QED
    BY <1>1, <1>2, <2>1 DEF LocksReturned, TypeOK, Unlock, Locked
<1>3. CASE a \in Others /\ Goto(a, "locked") /\ UNCHANGED <<locks, failed>>
  BY <1>1, <1>3 DEF LocksReturned, TypeOK, Goto, locks, Locked
<1>4. QED
  BY <1>2, <1>3 DEF Leave

\* A run that saves the end of its claim leaves the claims of the others.
LEMMA EndedInPlace ==
  ASSUME WorkerInv, NEW a \in Actors, NEW p, Goto(a, p), saved' = Ended(a),
         UNCHANGED failed
  PROVE  ClaimsInPlace'
<1>1. /\ pc \in [Actors -> Unlocked \cup Locked \cup {"checkout"}]
      /\ saved \in [States -> Saved]
  BY DEF WorkerInv, TypeOK
<1>2. ASSUME NEW d \in States, NEW s \in Streams, saved'[d].claim = s
      PROVE  d = StateDir[s] /\ Kept(pc'[s], failed'[s])
  <2>1. d # StateDir[a] /\ saved'[d] = saved[d]
    BY <1>1, <1>2 DEF Ended, Saved
  <2>2. d = StateDir[s] /\ Kept(pc[s], failed[s])
    BY <1>2, <2>1 DEF WorkerInv, ClaimsInPlace
  <2>3. s # a
    BY <2>1, <2>2
  <2>4. pc'[s] = pc[s]
    BY <1>1, <2>3 DEF Goto
  <2>5. QED
    BY <2>2, <2>4
<1>3. QED
  BY <1>2 DEF ClaimsInPlace

\* Types are preserved.
LEMMA TypeStep ==
  ASSUME WorkerInv, Next
  PROVE  TypeOK'
<1> USE DEF WorkerInv
<1>1. ASSUME NEW s \in Streams, Request(s) PROVE TypeOK'
  BY <1>1 DEF TypeOK, Request, Goto, Return, Back, Unlock, locks, stream,
     Locked, Unlocked, Saved
<1>2. ASSUME NEW s \in Streams, Refuse(s) PROVE TypeOK'
  BY <1>2 DEF TypeOK, Refuse, Goto, Return, Back, Unlock, locks, stream, Locked,
     Unlocked, Saved
<1>3. ASSUME NEW s \in Streams, HangUp(s) PROVE TypeOK'
  BY <1>3 DEF TypeOK, HangUp, Goto, Return, Back, Unlock, locks, stream, Locked,
     Unlocked, Saved
<1>4. ASSUME NEW s \in Streams, Requeue(s) PROVE TypeOK'
  <2>1. saved \in [States -> Saved] /\ StateDir[s] \in States
    BY DEF TypeOK
  <2>2. saved' \in [States -> Saved]
    BY <1>4, <2>1 DEF Requeue, Saved
  <2>3. QED
    BY <1>4, <2>2 DEF TypeOK, Requeue, Goto, Return, Back, Unlock, locks,
       stream, Locked, Unlocked
<1>5. ASSUME NEW s \in Streams, RequeueFails(s) PROVE TypeOK'
  <2>1. Return(s, TRUE)
    BY <1>5 DEF RequeueFails
  <2>2. failed' \in [Streams -> BOOLEAN]
    BY <2>1 DEF Return, TypeOK
  <2>3. pc' = [pc EXCEPT ![s] = Back(s)]
    BY <2>1 DEF Return, Goto
  <2>4. QED
    BY <1>5, <2>2, <2>3 DEF TypeOK, RequeueFails, Back, Unlock, locks, Locked,
       Unlocked, Saved
<1>6. ASSUME NEW s \in Streams, Progress(s) PROVE TypeOK'
  <2>1. <<"progress">> \in Seq(Types)
    BY DEF Types
  <2>2. Emit(s, <<"progress">>)
    BY <1>6 DEF Progress
  <2>3. seq' \in [Streams -> Nat] /\ got' \in [Streams -> Seq(Event)]
    BY <2>1, <2>2, EmitTypes DEF TypeOK
  <2>4. QED
    BY <1>6, <2>3 DEF TypeOK, Progress, Goto, Return, Back, Unlock, locks,
       stream, Locked, Unlocked, Saved
<1>7. ASSUME NEW s \in Streams, Read(s) PROVE TypeOK'
  BY <1>7 DEF TypeOK, Read, Goto, Return, Back, Unlock, locks, stream, Locked,
     Unlocked, Saved
<1>8. ASSUME NEW s \in Streams, WriteResult(s) PROVE TypeOK'
  <2>1. <<"result">> \in Seq(Types)
    BY DEF Types
  <2>2. Emit(s, <<"result">>)
    BY <1>8 DEF WriteResult
  <2>3. seq' \in [Streams -> Nat] /\ got' \in [Streams -> Seq(Event)]
    BY <2>1, <2>2, EmitTypes DEF TypeOK
  <2>4. QED
    BY <1>8, <2>3 DEF TypeOK, WriteResult, Goto, Return, Back, Unlock, locks,
       stream, Locked, Unlocked, Saved
<1>9. ASSUME NEW s \in Streams, WriteTerminal(s) PROVE TypeOK'
  <2>1. Terminal(s) \in Seq(Types)
    BY TerminalTypes
  <2>2. Emit(s, Terminal(s))
    BY <1>9 DEF WriteTerminal
  <2>3. seq' \in [Streams -> Nat] /\ got' \in [Streams -> Seq(Event)]
    BY <2>1, <2>2, EmitTypes DEF TypeOK
  <2>4. QED
    BY <1>9, <2>3 DEF TypeOK, WriteTerminal, Goto, Return, Back, Unlock, locks,
       stream, Locked, Unlocked, Saved
<1>10. ASSUME NEW o \in Others, Start(o) PROVE TypeOK'
  BY <1>10 DEF TypeOK, Start, Goto, Return, Back, Unlock, locks, stream, Locked,
     Unlocked, Saved
<1>11. ASSUME NEW a \in Actors, TakeState(a) PROVE TypeOK'
  BY <1>11 DEF TypeOK, TakeState, Goto, Return, Back, Unlock, locks, stream,
     Locked, Unlocked, Saved
<1>12. ASSUME NEW a \in Actors, StateBusy(a) PROVE TypeOK'
  <2>1. Return(a, TRUE)
    BY <1>12 DEF StateBusy
  <2>2. failed' \in [Streams -> BOOLEAN]
    BY <2>1 DEF Return, TypeOK
  <2>3. pc' = [pc EXCEPT ![a] = Back(a)]
    BY <2>1 DEF Return, Goto
  <2>4. QED
    BY <1>12, <2>2, <2>3 DEF TypeOK, StateBusy, Back, Unlock, locks, Locked,
       Unlocked, Saved
<1>13. ASSUME NEW a \in Actors, TakeCheckout(a) PROVE TypeOK'
  BY <1>13 DEF TypeOK, TakeCheckout, Goto, Return, Back, Unlock, locks, stream,
     Locked, Unlocked, Saved
<1>14. ASSUME NEW a \in Actors, CheckoutBusy(a) PROVE TypeOK'
  <2>1. Return(a, TRUE)
    BY <1>14 DEF CheckoutBusy
  <2>2. failed' \in [Streams -> BOOLEAN]
    BY <2>1 DEF Return, TypeOK
  <2>3. pc' = [pc EXCEPT ![a] = Back(a)]
    BY <2>1 DEF Return, Goto
  <2>4. QED
    BY <1>14, <2>2, <2>3 DEF TypeOK, CheckoutBusy, Back, Unlock, locks, Locked,
       Unlocked, Saved
<1>15. ASSUME NEW a \in Actors, Claim(a) PROVE TypeOK'
  BY <1>15 DEF TypeOK, Claim, Goto, Return, Back, Unlock, locks, stream, Locked,
     Unlocked, Saved
<1>16. ASSUME NEW a \in Actors, Scan(a) PROVE TypeOK'
  <2>1. PICK error \in BOOLEAN : Return(a, error)
    BY <1>16 DEF Scan
  <2>2. failed' \in [Streams -> BOOLEAN]
    BY <2>1 DEF Return, TypeOK
  <2>3. pc' = [pc EXCEPT ![a] = Back(a)]
    BY <2>1 DEF Return, Goto
  <2>4. QED
    BY <1>16, <2>2, <2>3 DEF TypeOK, Scan, Back, Unlock, locks, Locked,
       Unlocked, Saved
<1>17. ASSUME NEW a \in Actors, Work(a) PROVE TypeOK'
  <2>1. saved \in [States -> Saved] /\ StateDir[a] \in States
    BY DEF TypeOK
  <2>2. saved' \in [States -> Saved]
    BY <1>17, <2>1 DEF Work, Ended, Saved
  <2>3. QED
    BY <1>17, <2>2 DEF TypeOK, Work, Goto, Return, Back, Unlock, locks, stream,
       Locked, Unlocked
<1>18. ASSUME NEW a \in Actors, Close(a) PROVE TypeOK'
  <2>1. PICK error \in BOOLEAN : Leave(a, error)
    BY <1>18 DEF Close
  <2>2. /\ failed' \in [Streams -> BOOLEAN] /\ stateLock' \in [States -> Actors \cup {Nobody}]
        /\ checkoutLock' \in [Checkouts -> Actors \cup {Nobody}]
        /\ pc' \in [Actors -> Unlocked \cup Locked \cup {"checkout"}]
        /\ \A o \in Others : pc'[o] \notin {"read", "result", "terminal", "done", "killed"}
    BY <2>1, LeaveTypes
  <2>3. QED
    BY <1>18, <2>2 DEF TypeOK, Close
<1>19. ASSUME Stop PROVE TypeOK'
  BY <1>19 DEF TypeOK, Stop, Goto, Return, Back, Unlock, locks, stream, Locked,
     Unlocked, Saved
<1>20. ASSUME Drained PROVE TypeOK'
  BY <1>20 DEF TypeOK, Drained, Goto, Return, Back, Unlock, locks, stream,
     Locked, Unlocked, Saved
<1>21. ASSUME Deadline PROVE TypeOK'
  BY <1>21 DEF TypeOK, Deadline, Goto, Return, Back, Unlock, locks, stream,
     Locked, Unlocked, Saved
<1>22. ASSUME Exit PROVE TypeOK'
  BY <1>22 DEF TypeOK, Exit, Active, Goto, Return, Back, Unlock, locks, stream,
     Locked, Unlocked, Saved
<1>23. ASSUME NEW a \in Actors, Abandon(a) PROVE TypeOK'
  <2>1. Leave(a, TRUE)
    BY <1>23 DEF Abandon
  <2>2. /\ failed' \in [Streams -> BOOLEAN] /\ stateLock' \in [States -> Actors \cup {Nobody}]
        /\ checkoutLock' \in [Checkouts -> Actors \cup {Nobody}]
        /\ pc' \in [Actors -> Unlocked \cup Locked \cup {"checkout"}]
        /\ \A o \in Others : pc'[o] \notin {"read", "result", "terminal", "done", "killed"}
    BY <2>1, LeaveTypes
  <2>3. QED
    BY <1>23, <2>2 DEF TypeOK, Abandon
<1>24. ASSUME NEW a \in Actors, Yield(a) PROVE TypeOK'
  <2>1. saved \in [States -> Saved] /\ StateDir[a] \in States
    BY DEF TypeOK
  <2>2. saved' \in [States -> Saved]
    BY <1>24, <2>1 DEF Yield, Ended, Saved
  <2>3. QED
    BY <1>24, <2>2 DEF TypeOK, Yield, Goto, Return, Back, Unlock, locks, stream,
       Locked, Unlocked
<1>25. QED
  BY <1>1, <1>2, <1>3, <1>4, <1>5, <1>6, <1>7, <1>8, <1>9, <1>10, <1>11, <1>12,
     <1>13, <1>14, <1>15, <1>16, <1>17, <1>18, <1>19, <1>20, <1>21, <1>22, <1>23,
     <1>24 DEF
     Next, Handler, Steps

\* Locks are taken and given back with the position.
LEMMA LockStep ==
  ASSUME WorkerInv, Next
  PROVE  LocksReturned'
<1> USE DEF WorkerInv
<1>1. ASSUME NEW s \in Streams, Request(s) PROVE LocksReturned'
  BY <1>1 DEF TypeOK, LocksReturned, Request, Goto, Return, Back, Unlock, locks,
     stream, Locked, Unlocked
<1>2. ASSUME NEW s \in Streams, Refuse(s) PROVE LocksReturned'
  BY <1>2 DEF TypeOK, LocksReturned, Refuse, Goto, Return, Back, Unlock, locks,
     stream, Locked, Unlocked
<1>3. ASSUME NEW s \in Streams, HangUp(s) PROVE LocksReturned'
  BY <1>3 DEF TypeOK, LocksReturned, HangUp, Goto, Return, Back, Unlock, locks,
     stream, Locked, Unlocked
<1>4. ASSUME NEW s \in Streams, Requeue(s) PROVE LocksReturned'
  BY <1>4 DEF TypeOK, LocksReturned, Requeue, Goto, Return, Back, Unlock, locks,
     stream, Locked, Unlocked
<1>5. ASSUME NEW s \in Streams, RequeueFails(s) PROVE LocksReturned'
  BY <1>5 DEF TypeOK, LocksReturned, RequeueFails, Goto, Return, Back, Unlock,
     locks, stream, Locked, Unlocked
<1>6. ASSUME NEW s \in Streams, Progress(s) PROVE LocksReturned'
  BY <1>6 DEF TypeOK, LocksReturned, Progress, Goto, Return, Back, Unlock,
     locks, stream, Locked, Unlocked
<1>7. ASSUME NEW s \in Streams, Read(s) PROVE LocksReturned'
  BY <1>7 DEF TypeOK, LocksReturned, Read, Goto, Return, Back, Unlock, locks,
     stream, Locked, Unlocked
<1>8. ASSUME NEW s \in Streams, WriteResult(s) PROVE LocksReturned'
  BY <1>8 DEF TypeOK, LocksReturned, WriteResult, Goto, Return, Back, Unlock,
     locks, stream, Locked, Unlocked
<1>9. ASSUME NEW s \in Streams, WriteTerminal(s) PROVE LocksReturned'
  BY <1>9 DEF TypeOK, LocksReturned, WriteTerminal, Goto, Return, Back, Unlock,
     locks, stream, Locked, Unlocked
<1>10. ASSUME NEW o \in Others, Start(o) PROVE LocksReturned'
  BY <1>10 DEF TypeOK, LocksReturned, Start, Goto, Return, Back, Unlock, locks,
     stream, Locked, Unlocked
<1>11. ASSUME NEW a \in Actors, TakeState(a) PROVE LocksReturned'
  BY <1>11 DEF TypeOK, LocksReturned, TakeState, Goto, Return, Back, Unlock,
     locks, stream, Locked, Unlocked
<1>12. ASSUME NEW a \in Actors, StateBusy(a) PROVE LocksReturned'
  BY <1>12 DEF TypeOK, LocksReturned, StateBusy, Goto, Return, Back, Unlock,
     locks, stream, Locked, Unlocked
<1>13. ASSUME NEW a \in Actors, TakeCheckout(a) PROVE LocksReturned'
  BY <1>13 DEF TypeOK, LocksReturned, TakeCheckout, Goto, Return, Back, Unlock,
     locks, stream, Locked, Unlocked
<1>14. ASSUME NEW a \in Actors, CheckoutBusy(a) PROVE LocksReturned'
  BY <1>14 DEF TypeOK, LocksReturned, CheckoutBusy, Goto, Return, Back, Unlock,
     locks, stream, Locked, Unlocked
<1>15. ASSUME NEW a \in Actors, Claim(a) PROVE LocksReturned'
  BY <1>15 DEF TypeOK, LocksReturned, Claim, Goto, Return, Back, Unlock, locks,
     stream, Locked, Unlocked
<1>16. ASSUME NEW a \in Actors, Scan(a) PROVE LocksReturned'
  BY <1>16 DEF TypeOK, LocksReturned, Scan, Goto, Return, Back, Unlock, locks,
     stream, Locked, Unlocked
<1>17. ASSUME NEW a \in Actors, Work(a) PROVE LocksReturned'
  BY <1>17 DEF TypeOK, LocksReturned, Work, Ended, Goto, Return, Back, Unlock,
     locks, stream, Locked, Unlocked
<1>18. ASSUME NEW a \in Actors, Close(a) PROVE LocksReturned'
  <2>1. \E error \in BOOLEAN : Leave(a, error)
    BY <1>18 DEF Close
  <2>2. pc[a] \in Locked
    BY <1>18 DEF Close, Locked
  <2>3. QED
    BY <2>1, <2>2, LeaveLocks
<1>19. ASSUME Stop PROVE LocksReturned'
  BY <1>19 DEF TypeOK, LocksReturned, Stop, Goto, Return, Back, Unlock, locks,
     stream, Locked, Unlocked
<1>20. ASSUME Drained PROVE LocksReturned'
  BY <1>20 DEF TypeOK, LocksReturned, Drained, Goto, Return, Back, Unlock,
     locks, stream, Locked, Unlocked
<1>21. ASSUME Deadline PROVE LocksReturned'
  BY <1>21 DEF TypeOK, LocksReturned, Deadline, Goto, Return, Back, Unlock,
     locks, stream, Locked, Unlocked
<1>22. ASSUME Exit PROVE LocksReturned'
  BY <1>22 DEF TypeOK, LocksReturned, Exit, Active, Goto, Return, Back, Unlock,
     locks, stream, Locked, Unlocked
<1>23. ASSUME NEW a \in Actors, Abandon(a) PROVE LocksReturned'
  <2>1. Leave(a, TRUE) /\ pc[a] \in Locked
    BY <1>23 DEF Abandon, Locked
  <2>2. QED
    BY <2>1, LeaveLocks
<1>24. ASSUME NEW a \in Actors, Yield(a) PROVE LocksReturned'
  BY <1>24 DEF TypeOK, LocksReturned, Yield, Ended, Goto, Return, Back, Unlock,
     locks, stream, Locked, Unlocked
<1>25. QED
  BY <1>1, <1>2, <1>3, <1>4, <1>5, <1>6, <1>7, <1>8, <1>9, <1>10, <1>11, <1>12,
     <1>13, <1>14, <1>15, <1>16, <1>17, <1>18, <1>19, <1>20, <1>21, <1>22, <1>23,
     <1>24 DEF
     Next, Handler, Steps

\* A claim stays where its attempt is.
LEMMA ClaimStep ==
  ASSUME WorkerInv, Next
  PROVE  ClaimsInPlace'
<1> USE DEF WorkerInv
<1>1. ASSUME NEW s \in Streams, Request(s) PROVE ClaimsInPlace'
  <2>1. \A d \in States : saved'[d].claim = saved[d].claim
    BY <1>1 DEF Request, Goto, Return, Back, Unlock, locks, stream
  <2>2. /\ pc \in [Actors -> Unlocked \cup Locked \cup {"checkout"}]
        /\ failed \in [Streams -> BOOLEAN]
    BY DEF TypeOK
  <2>3. \A z \in Streams :
          Kept(pc[z], failed[z]) => Kept(pc'[z], failed'[z])
    BY <1>1, <2>2 DEF Kept, Request, Goto, Return, Back, Unlock, locks, stream,
       Locked, Unlocked
  <2>4. QED
    BY <2>1, <2>3 DEF ClaimsInPlace
<1>2. ASSUME NEW s \in Streams, Refuse(s) PROVE ClaimsInPlace'
  <2>1. \A d \in States : saved'[d].claim = saved[d].claim
    BY <1>2 DEF Refuse, Goto, Return, Back, Unlock, locks, stream
  <2>2. /\ pc \in [Actors -> Unlocked \cup Locked \cup {"checkout"}]
        /\ failed \in [Streams -> BOOLEAN]
    BY DEF TypeOK
  <2>3. \A z \in Streams :
          Kept(pc[z], failed[z]) => Kept(pc'[z], failed'[z])
    BY <1>2, <2>2 DEF Kept, Refuse, Goto, Return, Back, Unlock, locks, stream, Locked,
       Unlocked
  <2>4. QED
    BY <2>1, <2>3 DEF ClaimsInPlace
<1>3. ASSUME NEW s \in Streams, HangUp(s) PROVE ClaimsInPlace'
  <2>1. \A d \in States : saved'[d].claim = saved[d].claim
    BY <1>3 DEF HangUp, Goto, Return, Back, Unlock, locks, stream
  <2>2. /\ pc \in [Actors -> Unlocked \cup Locked \cup {"checkout"}]
        /\ failed \in [Streams -> BOOLEAN]
    BY DEF TypeOK
  <2>3. \A z \in Streams :
          Kept(pc[z], failed[z]) => Kept(pc'[z], failed'[z])
    BY <1>3, <2>2 DEF Kept, HangUp, Goto, Return, Back, Unlock, locks, stream, Locked,
       Unlocked
  <2>4. QED
    BY <2>1, <2>3 DEF ClaimsInPlace
<1>4. ASSUME NEW s \in Streams, Requeue(s) PROVE ClaimsInPlace'
  <2>1. \A d \in States : saved'[d].claim = saved[d].claim
    <3>1. saved \in [States -> Saved] /\ Checkout[s] \in Checkouts
      BY DEF TypeOK
    <3>2. QED
      BY <1>4, <3>1 DEF Requeue, Saved
  <2>2. /\ pc \in [Actors -> Unlocked \cup Locked \cup {"checkout"}]
        /\ failed \in [Streams -> BOOLEAN]
    BY DEF TypeOK
  <2>3. \A z \in Streams :
          Kept(pc[z], failed[z]) => Kept(pc'[z], failed'[z])
    BY <1>4, <2>2 DEF Kept, Requeue, Goto, Return, Back, Unlock, locks, stream,
       Locked, Unlocked
  <2>4. QED
    BY <2>1, <2>3 DEF ClaimsInPlace
<1>5. ASSUME NEW s \in Streams, RequeueFails(s) PROVE ClaimsInPlace'
  <2>1. \A d \in States : saved'[d].claim = saved[d].claim
    BY <1>5 DEF RequeueFails, Goto, Return, Back, Unlock, locks, stream
  <2>2. /\ pc \in [Actors -> Unlocked \cup Locked \cup {"checkout"}]
        /\ failed \in [Streams -> BOOLEAN]
    BY DEF TypeOK
  <2>3. \A z \in Streams :
          Kept(pc[z], failed[z]) => Kept(pc'[z], failed'[z])
    BY <1>5, <2>2 DEF Kept, RequeueFails, Goto, Return, Back, Unlock, locks, stream,
       Locked, Unlocked
  <2>4. QED
    BY <2>1, <2>3 DEF ClaimsInPlace
<1>6. ASSUME NEW s \in Streams, Progress(s) PROVE ClaimsInPlace'
  <2>1. \A d \in States : saved'[d].claim = saved[d].claim
    BY <1>6 DEF Progress, Goto, Return, Back, Unlock, locks, stream
  <2>2. /\ pc \in [Actors -> Unlocked \cup Locked \cup {"checkout"}]
        /\ failed \in [Streams -> BOOLEAN]
    BY DEF TypeOK
  <2>3. \A z \in Streams :
          Kept(pc[z], failed[z]) => Kept(pc'[z], failed'[z])
    BY <1>6, <2>2 DEF Kept, Progress, Goto, Return, Back, Unlock, locks, stream,
       Locked, Unlocked
  <2>4. QED
    BY <2>1, <2>3 DEF ClaimsInPlace
<1>7. ASSUME NEW s \in Streams, Read(s) PROVE ClaimsInPlace'
  <2>1. \A d \in States : saved'[d].claim = saved[d].claim
    BY <1>7 DEF Read, Goto, Return, Back, Unlock, locks, stream
  <2>2. /\ pc \in [Actors -> Unlocked \cup Locked \cup {"checkout"}]
        /\ failed \in [Streams -> BOOLEAN]
    BY DEF TypeOK
  <2>3. \A z \in Streams :
          Kept(pc[z], failed[z]) => Kept(pc'[z], failed'[z])
    BY <1>7, <2>2 DEF Kept, Read, Goto, Return, Back, Unlock, locks, stream, Locked,
       Unlocked
  <2>4. QED
    BY <2>1, <2>3 DEF ClaimsInPlace
<1>8. ASSUME NEW s \in Streams, WriteResult(s) PROVE ClaimsInPlace'
  <2>1. \A d \in States : saved'[d].claim = saved[d].claim
    BY <1>8 DEF WriteResult, Goto, Return, Back, Unlock, locks, stream
  <2>2. /\ pc \in [Actors -> Unlocked \cup Locked \cup {"checkout"}]
        /\ failed \in [Streams -> BOOLEAN]
    BY DEF TypeOK
  <2>3. \A z \in Streams :
          Kept(pc[z], failed[z]) => Kept(pc'[z], failed'[z])
    BY <1>8, <2>2 DEF Kept, WriteResult, Goto, Return, Back, Unlock, locks, stream,
       Locked, Unlocked
  <2>4. QED
    BY <2>1, <2>3 DEF ClaimsInPlace
<1>9. ASSUME NEW s \in Streams, WriteTerminal(s) PROVE ClaimsInPlace'
  <2>1. \A d \in States : saved'[d].claim = saved[d].claim
    BY <1>9 DEF WriteTerminal, Goto, Return, Back, Unlock, locks, stream
  <2>2. /\ pc \in [Actors -> Unlocked \cup Locked \cup {"checkout"}]
        /\ failed \in [Streams -> BOOLEAN]
    BY DEF TypeOK
  <2>3. \A z \in Streams :
          Kept(pc[z], failed[z]) => Kept(pc'[z], failed'[z])
    BY <1>9, <2>2 DEF Kept, WriteTerminal, Goto, Return, Back, Unlock, locks, stream,
       Locked, Unlocked
  <2>4. QED
    BY <2>1, <2>3 DEF ClaimsInPlace
<1>10. ASSUME NEW o \in Others, Start(o) PROVE ClaimsInPlace'
  <2>1. \A d \in States : saved'[d].claim = saved[d].claim
    BY <1>10 DEF Start, Goto, Return, Back, Unlock, locks, stream
  <2>2. /\ pc \in [Actors -> Unlocked \cup Locked \cup {"checkout"}]
        /\ failed \in [Streams -> BOOLEAN]
    BY DEF TypeOK
  <2>3. \A z \in Streams :
          Kept(pc[z], failed[z]) => Kept(pc'[z], failed'[z])
    BY <1>10, <2>2 DEF Kept, Start, Goto, Return, Back, Unlock, locks, stream, Locked,
       Unlocked
  <2>4. QED
    BY <2>1, <2>3 DEF ClaimsInPlace
<1>11. ASSUME NEW a \in Actors, TakeState(a) PROVE ClaimsInPlace'
  <2>1. \A d \in States : saved'[d].claim = saved[d].claim
    BY <1>11 DEF TakeState, Goto, Return, Back, Unlock, locks, stream
  <2>2. /\ pc \in [Actors -> Unlocked \cup Locked \cup {"checkout"}]
        /\ failed \in [Streams -> BOOLEAN]
    BY DEF TypeOK
  <2>3. \A z \in Streams :
          Kept(pc[z], failed[z]) => Kept(pc'[z], failed'[z])
    BY <1>11, <2>2 DEF Kept, TakeState, Goto, Return, Back, Unlock, locks, stream,
       Locked, Unlocked
  <2>4. QED
    BY <2>1, <2>3 DEF ClaimsInPlace
<1>12. ASSUME NEW a \in Actors, StateBusy(a) PROVE ClaimsInPlace'
  <2>1. \A d \in States : saved'[d].claim = saved[d].claim
    BY <1>12 DEF StateBusy, Goto, Return, Back, Unlock, locks, stream
  <2>2. /\ pc \in [Actors -> Unlocked \cup Locked \cup {"checkout"}]
        /\ failed \in [Streams -> BOOLEAN]
    BY DEF TypeOK
  <2>3. \A z \in Streams :
          Kept(pc[z], failed[z]) => Kept(pc'[z], failed'[z])
    BY <1>12, <2>2 DEF Kept, StateBusy, Goto, Return, Back, Unlock, locks, stream,
       Locked, Unlocked
  <2>4. QED
    BY <2>1, <2>3 DEF ClaimsInPlace
<1>13. ASSUME NEW a \in Actors, TakeCheckout(a) PROVE ClaimsInPlace'
  <2>1. \A d \in States : saved'[d].claim = saved[d].claim
    BY <1>13 DEF TakeCheckout, Goto, Return, Back, Unlock, locks, stream
  <2>2. /\ pc \in [Actors -> Unlocked \cup Locked \cup {"checkout"}]
        /\ failed \in [Streams -> BOOLEAN]
    BY DEF TypeOK
  <2>3. \A z \in Streams :
          Kept(pc[z], failed[z]) => Kept(pc'[z], failed'[z])
    BY <1>13, <2>2 DEF Kept, TakeCheckout, Goto, Return, Back, Unlock, locks, stream,
       Locked, Unlocked
  <2>4. QED
    BY <2>1, <2>3 DEF ClaimsInPlace
<1>14. ASSUME NEW a \in Actors, CheckoutBusy(a) PROVE ClaimsInPlace'
  <2>1. \A d \in States : saved'[d].claim = saved[d].claim
    BY <1>14 DEF CheckoutBusy, Goto, Return, Back, Unlock, locks, stream
  <2>2. /\ pc \in [Actors -> Unlocked \cup Locked \cup {"checkout"}]
        /\ failed \in [Streams -> BOOLEAN]
    BY DEF TypeOK
  <2>3. \A z \in Streams :
          Kept(pc[z], failed[z]) => Kept(pc'[z], failed'[z])
    BY <1>14, <2>2 DEF Kept, CheckoutBusy, Goto, Return, Back, Unlock, locks, stream,
       Locked, Unlocked
  <2>4. QED
    BY <2>1, <2>3 DEF ClaimsInPlace
<1>15. ASSUME NEW a \in Actors, Claim(a) PROVE ClaimsInPlace'
  BY <1>15 DEF TypeOK, LocksReturned, ClaimsInPlace, Kept, Claim, Goto, Return, Back,
     Unlock, locks, stream, Locked, Unlocked
<1>16. ASSUME NEW a \in Actors, Scan(a) PROVE ClaimsInPlace'
  <2>1. \A d \in States : saved'[d].claim = saved[d].claim
    BY <1>16 DEF Scan, Goto, Return, Back, Unlock, locks, stream
  <2>2. /\ pc \in [Actors -> Unlocked \cup Locked \cup {"checkout"}]
        /\ failed \in [Streams -> BOOLEAN]
    BY DEF TypeOK
  <2>3. \A z \in Streams :
          Kept(pc[z], failed[z]) => Kept(pc'[z], failed'[z])
    BY <1>16, <2>2 DEF Kept, Scan, Goto, Return, Back, Unlock, locks, stream, Locked,
       Unlocked
  <2>4. QED
    BY <2>1, <2>3 DEF ClaimsInPlace
<1>17. ASSUME NEW a \in Actors, Work(a) PROVE ClaimsInPlace'
  BY <1>17, EndedInPlace DEF Work, stream
<1>18. ASSUME NEW a \in Actors, Close(a) PROVE ClaimsInPlace'
  <2>1. \A d \in States : saved'[d].claim = saved[d].claim
    BY <1>18 DEF Close, Leave, Goto, Return, Back, Unlock, locks, stream
  <2>2. /\ pc \in [Actors -> Unlocked \cup Locked \cup {"checkout"}]
        /\ failed \in [Streams -> BOOLEAN]
    BY DEF TypeOK
  <2>3. \A z \in Streams :
          Kept(pc[z], failed[z]) => Kept(pc'[z], failed'[z])
    BY <1>18, <2>2 DEF Kept, Close, Leave, Goto, Return, Back, Unlock, locks, stream, Locked,
       Unlocked
  <2>4. QED
    BY <2>1, <2>3 DEF ClaimsInPlace
<1>19. ASSUME Stop PROVE ClaimsInPlace'
  <2>1. \A d \in States : saved'[d].claim = saved[d].claim
    BY <1>19 DEF Stop, Goto, Return, Back, Unlock, locks, stream
  <2>2. /\ pc \in [Actors -> Unlocked \cup Locked \cup {"checkout"}]
        /\ failed \in [Streams -> BOOLEAN]
    BY DEF TypeOK
  <2>3. \A z \in Streams :
          Kept(pc[z], failed[z]) => Kept(pc'[z], failed'[z])
    BY <1>19, <2>2 DEF Kept, Stop, Goto, Return, Back, Unlock, locks, stream, Locked,
       Unlocked
  <2>4. QED
    BY <2>1, <2>3 DEF ClaimsInPlace
<1>20. ASSUME Drained PROVE ClaimsInPlace'
  <2>1. \A d \in States : saved'[d].claim = saved[d].claim
    BY <1>20 DEF Drained, Goto, Return, Back, Unlock, locks, stream
  <2>2. /\ pc \in [Actors -> Unlocked \cup Locked \cup {"checkout"}]
        /\ failed \in [Streams -> BOOLEAN]
    BY DEF TypeOK
  <2>3. \A z \in Streams :
          Kept(pc[z], failed[z]) => Kept(pc'[z], failed'[z])
    BY <1>20, <2>2 DEF Kept, Drained, Goto, Return, Back, Unlock, locks, stream,
       Locked, Unlocked
  <2>4. QED
    BY <2>1, <2>3 DEF ClaimsInPlace
<1>21. ASSUME Deadline PROVE ClaimsInPlace'
  <2>1. \A d \in States : saved'[d].claim = saved[d].claim
    BY <1>21 DEF Deadline, Goto, Return, Back, Unlock, locks, stream
  <2>2. /\ pc \in [Actors -> Unlocked \cup Locked \cup {"checkout"}]
        /\ failed \in [Streams -> BOOLEAN]
    BY DEF TypeOK
  <2>3. \A z \in Streams :
          Kept(pc[z], failed[z]) => Kept(pc'[z], failed'[z])
    BY <1>21, <2>2 DEF Kept, Deadline, Goto, Return, Back, Unlock, locks, stream,
       Locked, Unlocked
  <2>4. QED
    BY <2>1, <2>3 DEF ClaimsInPlace
<1>22. ASSUME Exit PROVE ClaimsInPlace'
  <2>1. \A d \in States : saved'[d].claim = saved[d].claim
    BY <1>22 DEF Exit, Goto, Return, Back, Unlock, locks, stream
  <2>2. /\ pc \in [Actors -> Unlocked \cup Locked \cup {"checkout"}]
        /\ failed \in [Streams -> BOOLEAN]
    BY DEF TypeOK
  <2>3. \A z \in Streams :
          Kept(pc[z], failed[z]) => Kept(pc'[z], failed'[z])
    BY <1>22, <2>2 DEF Kept, Exit, Active, Goto, Return, Back, Unlock, locks, stream,
       Locked, Unlocked
  <2>4. QED
    BY <2>1, <2>3 DEF ClaimsInPlace
<1>23. ASSUME NEW a \in Actors, Abandon(a) PROVE ClaimsInPlace'
  <2>1. \A d \in States : saved'[d].claim = saved[d].claim
    BY <1>23 DEF Abandon, Leave, Goto, Return, Back, Unlock, locks, stream
  <2>2. /\ pc \in [Actors -> Unlocked \cup Locked \cup {"checkout"}]
        /\ failed \in [Streams -> BOOLEAN]
    BY DEF TypeOK
  <2>3. \A z \in Streams :
          Kept(pc[z], failed[z]) => Kept(pc'[z], failed'[z])
    BY <1>23, <2>2 DEF Kept, Abandon, Leave, Goto, Return, Back, Unlock, locks, stream, Locked,
       Unlocked
  <2>4. QED
    BY <2>1, <2>3 DEF ClaimsInPlace
<1>24. ASSUME NEW a \in Actors, Yield(a) PROVE ClaimsInPlace'
  BY <1>24, EndedInPlace DEF Yield, stream
<1>25. QED
  BY <1>1, <1>2, <1>3, <1>4, <1>5, <1>6, <1>7, <1>8, <1>9, <1>10, <1>11, <1>12,
     <1>13, <1>14, <1>15, <1>16, <1>17, <1>18, <1>19, <1>20, <1>21, <1>22, <1>23,
     <1>24 DEF
     Next, Handler, Steps

\* Nothing follows a terminal event.
LEMMA TerminalStep ==
  ASSUME WorkerInv, Next
  PROVE  TerminalAtEnd'
<1> USE DEF WorkerInv
<1>1. ASSUME NEW s \in Streams, Request(s) PROVE TerminalAtEnd'
  <2>1. got' = got
    BY <1>1 DEF Request, Goto, Return, Back, Unlock, locks, stream
  <2>2. \A z \in Streams : pc[z] = "done" => pc'[z] = "done" /\ failed'[z] = failed[z]
    BY <1>1 DEF TypeOK, Request, Goto, Return, Back, Unlock, locks, stream,
       Locked, Unlocked
  <2>3. QED
    BY <2>1, <2>2 DEF TerminalAtEnd
<1>2. ASSUME NEW s \in Streams, Refuse(s) PROVE TerminalAtEnd'
  <2>1. got' = got
    BY <1>2 DEF Refuse, Goto, Return, Back, Unlock, locks, stream
  <2>2. \A z \in Streams : pc[z] = "done" => pc'[z] = "done" /\ failed'[z] = failed[z]
    BY <1>2 DEF TypeOK, Refuse, Goto, Return, Back, Unlock, locks, stream,
       Locked, Unlocked
  <2>3. QED
    BY <2>1, <2>2 DEF TerminalAtEnd
<1>3. ASSUME NEW s \in Streams, HangUp(s) PROVE TerminalAtEnd'
  <2>1. got' = got
    BY <1>3 DEF HangUp, Goto, Return, Back, Unlock, locks, stream
  <2>2. \A z \in Streams : pc[z] = "done" => pc'[z] = "done" /\ failed'[z] = failed[z]
    BY <1>3 DEF TypeOK, HangUp, Goto, Return, Back, Unlock, locks, stream,
       Locked, Unlocked
  <2>3. QED
    BY <2>1, <2>2 DEF TerminalAtEnd
<1>4. ASSUME NEW s \in Streams, Requeue(s) PROVE TerminalAtEnd'
  <2>1. got' = got
    BY <1>4 DEF Requeue, Goto, Return, Back, Unlock, locks, stream
  <2>2. \A z \in Streams : pc[z] = "done" => pc'[z] = "done" /\ failed'[z] = failed[z]
    BY <1>4 DEF TypeOK, Requeue, Goto, Return, Back, Unlock, locks, stream,
       Locked, Unlocked
  <2>3. QED
    BY <2>1, <2>2 DEF TerminalAtEnd
<1>5. ASSUME NEW s \in Streams, RequeueFails(s) PROVE TerminalAtEnd'
  <2>1. got' = got
    BY <1>5 DEF RequeueFails, Goto, Return, Back, Unlock, locks, stream
  <2>2. \A z \in Streams : pc[z] = "done" => pc'[z] = "done" /\ failed'[z] = failed[z]
    BY <1>5 DEF TypeOK, RequeueFails, Goto, Return, Back, Unlock, locks, stream,
       Locked, Unlocked
  <2>3. QED
    BY <2>1, <2>2 DEF TerminalAtEnd
<1>6. ASSUME NEW s \in Streams, Progress(s) PROVE TerminalAtEnd'
  <2>1. "progress" \in Types \ Terminals
    BY DEF Types, Terminals
  <2>2. Emit(s, <<"progress">>)
    BY <1>6 DEF Progress
  <2>3. \A z \in Streams : \A k \in DOMAIN got'[z] :
          got'[z][k].type \in Terminals => k \in DOMAIN got[z] /\ got'[z][k] = got[z][k]
    BY <2>1, <2>2, EmitOpen DEF TypeOK
  <2>4. pc \in [Actors -> Unlocked \cup Locked \cup {"checkout"}]
    BY DEF TypeOK
  <2>5. \A z \in Streams : pc[z] = "done" => pc'[z] = "done" /\ failed'[z] = failed[z]
    BY <1>6, <2>4 DEF Progress, Goto, Locked, Unlocked
  <2>6. QED
    BY <2>3, <2>5 DEF TerminalAtEnd
<1>7. ASSUME NEW s \in Streams, Read(s) PROVE TerminalAtEnd'
  <2>1. got' = got
    BY <1>7 DEF Read, Goto, Return, Back, Unlock, locks, stream
  <2>2. \A z \in Streams : pc[z] = "done" => pc'[z] = "done" /\ failed'[z] = failed[z]
    BY <1>7 DEF TypeOK, Read, Goto, Return, Back, Unlock, locks, stream, Locked,
       Unlocked
  <2>3. QED
    BY <2>1, <2>2 DEF TerminalAtEnd
<1>8. ASSUME NEW s \in Streams, WriteResult(s) PROVE TerminalAtEnd'
  <2>1. "result" \in Types \ Terminals
    BY DEF Types, Terminals
  <2>2. Emit(s, <<"result">>)
    BY <1>8 DEF WriteResult
  <2>3. \A z \in Streams : \A k \in DOMAIN got'[z] :
          got'[z][k].type \in Terminals => k \in DOMAIN got[z] /\ got'[z][k] = got[z][k]
    BY <2>1, <2>2, EmitOpen DEF TypeOK
  <2>4. pc \in [Actors -> Unlocked \cup Locked \cup {"checkout"}]
    BY DEF TypeOK
  <2>5. \A z \in Streams : pc[z] = "done" => pc'[z] = "done" /\ failed'[z] = failed[z]
    BY <1>8, <2>4 DEF WriteResult, Goto, Locked, Unlocked
  <2>6. QED
    BY <2>3, <2>5 DEF TerminalAtEnd
<1>9. ASSUME NEW s \in Streams, WriteTerminal(s) PROVE TerminalAtEnd'
  <2>1. pc'[s] = "done" /\ \A z \in Streams : z # s => pc'[z] = pc[z]
    BY <1>9 DEF WriteTerminal, Goto, TypeOK
  <2>2. PICK t \in {"canceled", "error", "complete"} :
          Terminal(s) = <<t>> /\ (t = "complete" => ~failed[s])
    BY DEF Terminal
  <2>3. t \in Types /\ Emit(s, <<t>>) /\ failed' = failed
    BY <1>9, <2>2 DEF WriteTerminal, Types
  <2>4. \A z \in Streams : z # s => got'[z] = got[z]
    BY <2>3, EmitShape DEF TypeOK
  <2>5. \A k \in DOMAIN got[s] : got[s][k].type \notin Terminals
    BY <1>9 DEF TerminalAtEnd, WriteTerminal
  <2>6. ASSUME NEW k \in DOMAIN got'[s], got'[s][k].type = "complete"
        PROVE  ~failed[s]
    <3>1. DOMAIN got[s] = 1..Len(got[s]) /\ Len(got[s]) \in Nat
      BY DEF TypeOK
    <3>2. /\ conn[s] # "open" => got'[s] = got[s]
          /\ conn[s] = "open" =>
               /\ DOMAIN got'[s] = 1..(Len(got[s]) + 1)
               /\ \A m \in 1..Len(got[s]) : got'[s][m] = got[s][m]
               /\ got'[s][Len(got[s]) + 1] = [type |-> t, seq |-> seq[s] + 1]
      <4>1. seq \in [Streams -> Nat] /\ got \in [Streams -> Seq(Event)]
        BY DEF TypeOK
      <4>2. QED
        BY <2>3, <4>1, EmitShape
    <3>3. \A m \in 1..Len(got[s]) : got'[s][m] = got[s][m] => m # k
      BY <2>5, <2>6, <3>1 DEF Terminals
    <3>4. conn[s] = "open" /\ k = Len(got[s]) + 1
      BY <3>1, <3>2, <3>3
    <3>5. QED
      BY <2>2, <2>6, <3>2, <3>4
  <2>7. QED
    BY <2>1, <2>3, <2>4, <2>6 DEF TerminalAtEnd
<1>10. ASSUME NEW o \in Others, Start(o) PROVE TerminalAtEnd'
  <2>1. got' = got
    BY <1>10 DEF Start, Goto, Return, Back, Unlock, locks, stream
  <2>2. \A z \in Streams : pc[z] = "done" => pc'[z] = "done" /\ failed'[z] = failed[z]
    BY <1>10 DEF TypeOK, Start, Goto, Return, Back, Unlock, locks, stream,
       Locked, Unlocked
  <2>3. QED
    BY <2>1, <2>2 DEF TerminalAtEnd
<1>11. ASSUME NEW a \in Actors, TakeState(a) PROVE TerminalAtEnd'
  <2>1. got' = got
    BY <1>11 DEF TakeState, Goto, Return, Back, Unlock, locks, stream
  <2>2. \A z \in Streams : pc[z] = "done" => pc'[z] = "done" /\ failed'[z] = failed[z]
    BY <1>11 DEF TypeOK, TakeState, Goto, Return, Back, Unlock, locks, stream,
       Locked, Unlocked
  <2>3. QED
    BY <2>1, <2>2 DEF TerminalAtEnd
<1>12. ASSUME NEW a \in Actors, StateBusy(a) PROVE TerminalAtEnd'
  <2>1. got' = got
    BY <1>12 DEF StateBusy, Goto, Return, Back, Unlock, locks, stream
  <2>2. \A z \in Streams : pc[z] = "done" => pc'[z] = "done" /\ failed'[z] = failed[z]
    BY <1>12 DEF TypeOK, StateBusy, Goto, Return, Back, Unlock, locks, stream,
       Locked, Unlocked
  <2>3. QED
    BY <2>1, <2>2 DEF TerminalAtEnd
<1>13. ASSUME NEW a \in Actors, TakeCheckout(a) PROVE TerminalAtEnd'
  <2>1. got' = got
    BY <1>13 DEF TakeCheckout, Goto, Return, Back, Unlock, locks, stream
  <2>2. \A z \in Streams : pc[z] = "done" => pc'[z] = "done" /\ failed'[z] = failed[z]
    BY <1>13 DEF TypeOK, TakeCheckout, Goto, Return, Back, Unlock, locks,
       stream, Locked, Unlocked
  <2>3. QED
    BY <2>1, <2>2 DEF TerminalAtEnd
<1>14. ASSUME NEW a \in Actors, CheckoutBusy(a) PROVE TerminalAtEnd'
  <2>1. got' = got
    BY <1>14 DEF CheckoutBusy, Goto, Return, Back, Unlock, locks, stream
  <2>2. \A z \in Streams : pc[z] = "done" => pc'[z] = "done" /\ failed'[z] = failed[z]
    BY <1>14 DEF TypeOK, CheckoutBusy, Goto, Return, Back, Unlock, locks,
       stream, Locked, Unlocked
  <2>3. QED
    BY <2>1, <2>2 DEF TerminalAtEnd
<1>15. ASSUME NEW a \in Actors, Claim(a) PROVE TerminalAtEnd'
  <2>1. got' = got
    BY <1>15 DEF Claim, Goto, Return, Back, Unlock, locks, stream
  <2>2. \A z \in Streams : pc[z] = "done" => pc'[z] = "done" /\ failed'[z] = failed[z]
    BY <1>15 DEF TypeOK, Claim, Goto, Return, Back, Unlock, locks, stream,
       Locked, Unlocked
  <2>3. QED
    BY <2>1, <2>2 DEF TerminalAtEnd
<1>16. ASSUME NEW a \in Actors, Scan(a) PROVE TerminalAtEnd'
  <2>1. got' = got
    BY <1>16 DEF Scan, Goto, Return, Back, Unlock, locks, stream
  <2>2. \A z \in Streams : pc[z] = "done" => pc'[z] = "done" /\ failed'[z] = failed[z]
    BY <1>16 DEF TypeOK, Scan, Goto, Return, Back, Unlock, locks, stream,
       Locked, Unlocked
  <2>3. QED
    BY <2>1, <2>2 DEF TerminalAtEnd
<1>17. ASSUME NEW a \in Actors, Work(a) PROVE TerminalAtEnd'
  <2>1. got' = got
    BY <1>17 DEF Work, Goto, Return, Back, Unlock, locks, stream
  <2>2. \A z \in Streams : pc[z] = "done" => pc'[z] = "done" /\ failed'[z] = failed[z]
    BY <1>17 DEF TypeOK, Work, Ended, Goto, Return, Back, Unlock, locks, stream,
       Locked, Unlocked
  <2>3. QED
    BY <2>1, <2>2 DEF TerminalAtEnd
<1>18. ASSUME NEW a \in Actors, Close(a) PROVE TerminalAtEnd'
  <2>1. got' = got
    BY <1>18 DEF Close, Leave, Goto, Return, Back, Unlock, locks, stream
  <2>2. \A z \in Streams : pc[z] = "done" => pc'[z] = "done" /\ failed'[z] = failed[z]
    BY <1>18 DEF TypeOK, Close, Leave, Goto, Return, Back, Unlock, locks, stream,
       Locked, Unlocked
  <2>3. QED
    BY <2>1, <2>2 DEF TerminalAtEnd
<1>19. ASSUME Stop PROVE TerminalAtEnd'
  <2>1. got' = got
    BY <1>19 DEF Stop, Goto, Return, Back, Unlock, locks, stream
  <2>2. \A z \in Streams : pc[z] = "done" => pc'[z] = "done" /\ failed'[z] = failed[z]
    BY <1>19 DEF TypeOK, Stop, Goto, Return, Back, Unlock, locks, stream,
       Locked, Unlocked
  <2>3. QED
    BY <2>1, <2>2 DEF TerminalAtEnd
<1>20. ASSUME Drained PROVE TerminalAtEnd'
  <2>1. got' = got
    BY <1>20 DEF Drained, Goto, Return, Back, Unlock, locks, stream
  <2>2. \A z \in Streams : pc[z] = "done" => pc'[z] = "done" /\ failed'[z] = failed[z]
    BY <1>20 DEF TypeOK, Drained, Goto, Return, Back, Unlock, locks, stream,
       Locked, Unlocked
  <2>3. QED
    BY <2>1, <2>2 DEF TerminalAtEnd
<1>21. ASSUME Deadline PROVE TerminalAtEnd'
  <2>1. got' = got
    BY <1>21 DEF Deadline, Goto, Return, Back, Unlock, locks, stream
  <2>2. \A z \in Streams : pc[z] = "done" => pc'[z] = "done" /\ failed'[z] = failed[z]
    BY <1>21 DEF TypeOK, Deadline, Goto, Return, Back, Unlock, locks, stream,
       Locked, Unlocked
  <2>3. QED
    BY <2>1, <2>2 DEF TerminalAtEnd
<1>22. ASSUME Exit PROVE TerminalAtEnd'
  <2>1. got' = got
    BY <1>22 DEF Exit, Goto, Return, Back, Unlock, locks, stream
  <2>2. \A z \in Streams : pc[z] = "done" => pc'[z] = "done" /\ failed'[z] = failed[z]
    BY <1>22 DEF TypeOK, Exit, Active, Goto, Return, Back, Unlock, locks,
       stream, Locked, Unlocked
  <2>3. QED
    BY <2>1, <2>2 DEF TerminalAtEnd
<1>23. ASSUME NEW a \in Actors, Abandon(a) PROVE TerminalAtEnd'
  <2>1. got' = got
    BY <1>23 DEF Abandon, Leave, Goto, Return, Back, Unlock, locks, stream
  <2>2. \A z \in Streams : pc[z] = "done" => pc'[z] = "done" /\ failed'[z] = failed[z]
    BY <1>23 DEF TypeOK, Abandon, Leave, Goto, Return, Back, Unlock, locks, stream,
       Locked, Unlocked
  <2>3. QED
    BY <2>1, <2>2 DEF TerminalAtEnd
<1>24. ASSUME NEW a \in Actors, Yield(a) PROVE TerminalAtEnd'
  <2>1. got' = got
    BY <1>24 DEF Yield, Goto, Return, Back, Unlock, locks, stream
  <2>2. \A z \in Streams : pc[z] = "done" => pc'[z] = "done" /\ failed'[z] = failed[z]
    BY <1>24 DEF TypeOK, Yield, Ended, Goto, Return, Back, Unlock, locks, stream,
       Locked, Unlocked
  <2>3. QED
    BY <2>1, <2>2 DEF TerminalAtEnd
<1>25. QED
  BY <1>1, <1>2, <1>3, <1>4, <1>5, <1>6, <1>7, <1>8, <1>9, <1>10, <1>11, <1>12,
     <1>13, <1>14, <1>15, <1>16, <1>17, <1>18, <1>19, <1>20, <1>21, <1>22, <1>23,
     <1>24 DEF
     Next, Handler, Steps

\* The invariant holds in every reachable state.
THEOREM WorkerInvariant == Spec => []WorkerInv
<1>1. Init => WorkerInv
  <2> SUFFICES ASSUME Init PROVE WorkerInv
    OBVIOUS
  <2>1. TypeOK
    BY DEF Init, TypeOK, Unlocked, Locked, Saved
  <2>2. LocksReturned
    BY DEF Init, LocksReturned, Locked
  <2>3. ClaimsInPlace
    BY DEF Init, ClaimsInPlace
  <2>4. TerminalAtEnd
    BY DEF Init, TerminalAtEnd
  <2>5. QED
    BY <2>1, <2>2, <2>3, <2>4 DEF WorkerInv
<1>2. WorkerInv /\ [Next]_vars => WorkerInv'
  <2>1. ASSUME WorkerInv, Next PROVE WorkerInv'
    BY <2>1, TypeStep, LockStep, ClaimStep, TerminalStep DEF WorkerInv
  <2>2. ASSUME WorkerInv, UNCHANGED vars PROVE WorkerInv'
    BY <2>2 DEF WorkerInv, TypeOK, LocksReturned, ClaimsInPlace, TerminalAtEnd,
       vars, locks, stream
  <2>3. QED
    BY <2>1, <2>2
<1>3. QED
  BY <1>1, <1>2, PTL DEF Spec

\* Every variable has its type, for every configuration of directories.
THEOREM TypeCorrect == Spec => []TypeOK
<1>1. WorkerInv => TypeOK
  BY DEF WorkerInv
<1>2. QED
  BY <1>1, WorkerInvariant, PTL

\* No lock file is left locked, whichever of the two was busy and however a
\* request ended.
THEOREM LocksAreReturned == Spec => []LocksReturned
<1>1. WorkerInv => LocksReturned
  BY DEF WorkerInv
<1>2. QED
  BY <1>1, WorkerInvariant, PTL

\* No two actors work with a directory in common.
THEOREM LocksExclude == Spec => []Excluded
<1>1. WorkerInv => Excluded
  <2> SUFFICES ASSUME WorkerInv, NEW a \in Actors, NEW b \in Actors, a # b,
                      pc[a] \in Locked, pc[b] \in Locked
               PROVE  StateDir[a] # StateDir[b] /\ Checkout[a] # Checkout[b]
    BY DEF Excluded
  <2>1. /\ stateLock[StateDir[a]] = a /\ stateLock[StateDir[b]] = b
        /\ checkoutLock[Checkout[a]] = a /\ checkoutLock[Checkout[b]] = b
    BY DEF WorkerInv, LocksReturned
  <2>2. QED
    BY <2>1
<1>2. QED
  BY <1>1, WorkerInvariant, PTL

\* When a client is told that its run is complete, the run has no claim left, for
\* any number of requests and whatever directories they share.
THEOREM CompleteRunsAreReleased == Spec => []CompleteMeansReleased
<1>1. WorkerInv => CompleteMeansReleased
  BY DEF WorkerInv, TerminalAtEnd, ClaimsInPlace, Kept, Terminals, CompleteMeansReleased
<1>2. QED
  BY <1>1, WorkerInvariant, PTL

-----------------------------------------------------------------------------
(* The events of a stream *)

\* A request may go on, and its connection be opened or closed, without an event.
Onward(P, C, Q, D) ==
  /\ Q = "idle" => P = "idle" /\ D = C
  /\ D = "none" => C = "none" /\ (Q = P \/ Q = "done")
  /\ D = "open" => C \in {"none", "open"}
  /\ Q \notin {"terminal", "done", "killed"} => P \notin {"terminal", "done", "killed"}
  /\ Q = "terminal" => P \notin {"done", "killed"}

LEMMA Quiet ==
  ASSUME NEW P, NEW C, NEW Q, NEW D, NEW n, NEW g,
         StreamOK(P, C, n, g), Onward(P, C, Q, D)
  PROVE  StreamOK(Q, D, n, g)
<1>1. Len(<<>>) = 0
  OBVIOUS
<1>2. D = "open" => Len(g) = n
  BY <1>1 DEF StreamOK, Onward
<1>3. ASSUME Q = "terminal"
      PROVE  \A k \in DOMAIN g :
               g[k].type \in {"progress", "result"} /\ (g[k].type = "result" => k = Len(g))
  BY <1>3 DEF StreamOK, Onward
<1>4. QED
  BY <1>2, <1>3 DEF StreamOK, Onward

\* An event that fits the position is added to what an open connection brought.
LEMMA Spoken ==
  ASSUME NEW g \in Seq(Event), NEW h, NEW n \in Nat, NEW P, NEW Q, NEW D, NEW t \in Types,
         StreamOK(P, "open", n, g), Len(h) = Len(g) + 1, DOMAIN h = 1..(Len(g) + 1),
         \A k \in 1..Len(g) : h[k] = g[k],
         h[Len(g) + 1] = [type |-> t, seq |-> n + 1],
         P \notin {"idle", "done", "killed"}, Q # "idle", D \in {"open", "closed"},
         \/ P # "terminal" /\ Q = P /\ t = "progress"
         \/ P # "terminal" /\ Q = "terminal" /\ t = "result"
         \/ P = "terminal" /\ Q = "done" /\ t \in Terminals
  PROVE  StreamOK(Q, D, n + 1, h)
<1>1. Len(g) = n /\ DOMAIN g = 1..n
  BY DEF StreamOK
<1>2. \A k \in 1..n : h[k] = g[k] /\ g[k].seq = k
  BY <1>1 DEF StreamOK
<1>3. h[n + 1].type = t /\ h[n + 1].seq = n + 1 /\ Len(h) = n + 1 /\ DOMAIN h = 1..(n + 1)
  BY <1>1
<1>4. CASE P # "terminal" /\ Q = P /\ t = "progress"
  <2>1. \A k \in 1..(n + 1) : h[k].type = "progress" /\ h[k].seq = k
    BY <1>1, <1>2, <1>3, <1>4 DEF StreamOK
  <2>2. "progress" \notin Terminals
    BY DEF Terminals
  <2>3. QED
    BY <1>3, <1>4, <2>1, <2>2 DEF StreamOK
<1>5. CASE P # "terminal" /\ Q = "terminal" /\ t = "result"
  <2>1. \A k \in 1..n : h[k].type = "progress" /\ h[k].seq = k
    BY <1>1, <1>2, <1>5 DEF StreamOK
  <2>2. {"progress", "result"} \cap Terminals = {}
    BY DEF Terminals
  <2>3. QED
    BY <1>3, <1>5, <2>1, <2>2 DEF StreamOK
<1>6. CASE P = "terminal" /\ Q = "done" /\ t \in Terminals
  <2>1. \A k \in 1..n : /\ h[k].type \in {"progress", "result"} /\ h[k].seq = k
                        /\ h[k].type = "result" => k = n
                        /\ k > 1 /\ h[k].type = "progress" => h[k - 1].type = "progress"
    BY <1>1, <1>2, <1>6 DEF StreamOK
  <2>2. {"progress", "result"} \cap Terminals = {}
    BY DEF Terminals
  <2>3. QED
    BY <1>3, <1>6, <2>1, <2>2 DEF StreamOK
<1>7. QED
  BY <1>4, <1>5, <1>6

\* The whole of it for the stream that an event is written to.
LEMMA Speech ==
  ASSUME WorkerInv, Streaming, NEW s \in Streams, NEW t \in Types, Emit(s, <<t>>),
         \/ pc[s] # "terminal" /\ pc'[s] = pc[s] /\ t = "progress"
         \/ pc[s] # "terminal" /\ pc'[s] = "terminal" /\ t = "result"
         \/ pc[s] = "terminal" /\ pc'[s] = "done" /\ t \in Terminals,
         pc[s] \notin {"idle", "done", "killed"}, pc'[s] # "idle",
         \A z \in Streams : z # s => pc'[z] = pc[z] /\ conn'[z] = conn[z],
         conn'[s] \in {"open", "closed"} \/ conn'[s] = conn[s],
         conn'[s] = "open" => conn[s] = "open"
  PROVE  Streaming'
<1>1. /\ seq \in [Streams -> Nat] /\ got \in [Streams -> Seq(Event)]
      /\ seq[s] \in Nat /\ got[s] \in Seq(Event)
      /\ conn[s] \in {"none", "open", "closed"}
  BY DEF WorkerInv, TypeOK
<1>2. StreamOK(pc[s], conn[s], seq[s], got[s])
  BY DEF Streaming
<1>3. seq'[s] = seq[s] + 1 /\ \A z \in Streams : z # s => got'[z] = got[z] /\ seq'[z] = seq[z]
  BY <1>1, EmitShape
<1>4. CASE conn[s] = "open"
  <2>1. /\ DOMAIN got'[s] = 1..(Len(got[s]) + 1) /\ Len(got'[s]) = Len(got[s]) + 1
        /\ \A k \in 1..Len(got[s]) : got'[s][k] = got[s][k]
        /\ got'[s][Len(got[s]) + 1] = [type |-> t, seq |-> seq[s] + 1]
    BY <1>1, <1>4, EmitShape
  <2>2. conn'[s] \in {"open", "closed"} /\ StreamOK(pc[s], "open", seq[s], got[s])
    BY <1>2, <1>4
  <2>3. StreamOK(pc'[s], conn'[s], seq[s] + 1, got'[s])
    BY <1>1, <2>1, <2>2, Spoken
  <2>4. QED
    BY <1>3, <2>3 DEF Streaming
<1>5. CASE conn[s] = "closed"
  <2>1. got'[s] = got[s]
    BY <1>1, <1>5, EmitShape
  <2>2. conn'[s] = "closed"
    BY <1>5
  <2>3. StreamOK(pc'[s], conn'[s], seq[s] + 1, got[s])
    BY <1>2, <1>5, <2>2 DEF StreamOK
  <2>4. QED
    BY <1>3, <2>1, <2>3 DEF Streaming
<1>6. conn[s] # "none"
  BY <1>2 DEF StreamOK
<1>7. QED
  BY <1>1, <1>4, <1>5, <1>6

\* What a client has got stays a well-formed beginning.
LEMMA StreamStep ==
  ASSUME WorkerInv, Streaming, Next
  PROVE  Streaming'
<1> USE DEF WorkerInv
<1>1. ASSUME NEW s \in Streams, Request(s) PROVE Streaming'
  <2>1. UNCHANGED <<seq, got>>
    BY <1>1 DEF Request
  <2>2. conn[s] = "none"
    BY <1>1 DEF Request, Streaming, StreamOK
  <2>3. conn' = [conn EXCEPT ![s] = "open"] /\ pc' = [pc EXCEPT ![s] = "state"] /\ pc[s] = "idle"
    BY <1>1 DEF Request, Goto
  <2>4. ASSUME NEW z \in Streams PROVE Onward(pc[z], conn[z], pc'[z], conn'[z])
    BY <2>2, <2>3, <2>4 DEF TypeOK, Onward
  <2>5. QED
    BY <2>1, <2>4, Quiet DEF Streaming
<1>2. ASSUME NEW s \in Streams, Refuse(s) PROVE Streaming'
  <2>1. UNCHANGED <<seq, got>>
    BY <1>2 DEF Refuse, Goto, Return, Back, Unlock, locks, stream
  <2>2. ASSUME NEW z \in Streams PROVE Onward(pc[z], conn[z], pc'[z], conn'[z])
    <3>1. conn[z] = "none" => pc[z] \in {"idle", "done"}
      BY DEF Streaming, StreamOK
    <3>2. QED
      BY <1>2, <2>2, <3>1 DEF TypeOK, Refuse, Goto, Return, Back, Unlock, locks,
         stream, Locked, Unlocked, Onward
  <2>3. QED
    BY <2>1, <2>2, Quiet DEF Streaming
<1>3. ASSUME NEW s \in Streams, HangUp(s) PROVE Streaming'
  <2>1. UNCHANGED <<pc, seq, got>> /\ conn[s] = "open" /\ pc[s] # "idle"
    BY <1>3 DEF HangUp, Active
  <2>2. PICK c \in {"open", "closed"} : conn' = [conn EXCEPT ![s] = c]
    BY <1>3 DEF HangUp
  <2>3. ASSUME NEW z \in Streams PROVE Onward(pc[z], conn[z], pc'[z], conn'[z])
    BY <2>1, <2>2, <2>3 DEF TypeOK, Onward
  <2>4. QED
    BY <2>1, <2>3, Quiet DEF Streaming
<1>4. ASSUME NEW s \in Streams, Requeue(s) PROVE Streaming'
  <2>1. UNCHANGED <<seq, got>>
    BY <1>4 DEF Requeue, Goto, Return, Back, Unlock, locks, stream
  <2>2. ASSUME NEW z \in Streams PROVE Onward(pc[z], conn[z], pc'[z], conn'[z])
    <3>1. conn[z] = "none" => pc[z] \in {"idle", "done"}
      BY DEF Streaming, StreamOK
    <3>2. QED
      BY <1>4, <2>2, <3>1 DEF TypeOK, Requeue, Goto, Return, Back, Unlock,
         locks, stream, Locked, Unlocked, Onward
  <2>3. QED
    BY <2>1, <2>2, Quiet DEF Streaming
<1>5. ASSUME NEW s \in Streams, RequeueFails(s) PROVE Streaming'
  <2>1. UNCHANGED <<seq, got>>
    BY <1>5 DEF RequeueFails, Goto, Return, Back, Unlock, locks, stream
  <2>2. ASSUME NEW z \in Streams PROVE Onward(pc[z], conn[z], pc'[z], conn'[z])
    <3>1. conn[z] = "none" => pc[z] \in {"idle", "done"}
      BY DEF Streaming, StreamOK
    <3>2. QED
      BY <1>5, <2>2, <3>1 DEF TypeOK, RequeueFails, Goto, Return, Back, Unlock,
         locks, stream, Locked, Unlocked, Onward
  <2>3. QED
    BY <2>1, <2>2, Quiet DEF Streaming
<1>6. ASSUME NEW s \in Streams, Progress(s) PROVE Streaming'
  <2>1. PICK t \in Types :
          /\ Emit(s, <<t>>)
          /\ \/ pc[s] # "terminal" /\ pc'[s] = pc[s] /\ t = "progress"
             \/ pc[s] # "terminal" /\ pc'[s] = "terminal" /\ t = "result"
             \/ pc[s] = "terminal" /\ pc'[s] = "done" /\ t \in Terminals
    BY <1>6 DEF Progress, Goto, TypeOK, Types, Locked, Unlocked
  <2>2. pc[s] \notin {"idle", "done", "killed"} /\ pc'[s] # "idle"
    BY <1>6, <2>1 DEF Progress, Locked, Unlocked
  <2>3. /\ \A z \in Streams : z # s => pc'[z] = pc[z] /\ conn'[z] = conn[z]
        /\ conn'[s] \in {"open", "closed"} \/ conn'[s] = conn[s]
        /\ conn'[s] = "open" => conn[s] = "open"
    BY <1>6 DEF Progress, Goto, TypeOK
  <2>4. QED
    BY <2>1, <2>2, <2>3, Speech
<1>7. ASSUME NEW s \in Streams, Read(s) PROVE Streaming'
  <2>1. UNCHANGED <<seq, got>>
    BY <1>7 DEF Read, Goto, Return, Back, Unlock, locks, stream
  <2>2. ASSUME NEW z \in Streams PROVE Onward(pc[z], conn[z], pc'[z], conn'[z])
    <3>1. conn[z] = "none" => pc[z] \in {"idle", "done"}
      BY DEF Streaming, StreamOK
    <3>2. QED
      BY <1>7, <2>2, <3>1 DEF TypeOK, Read, Goto, Return, Back, Unlock, locks,
         stream, Locked, Unlocked, Onward
  <2>3. QED
    BY <2>1, <2>2, Quiet DEF Streaming
<1>8. ASSUME NEW s \in Streams, WriteResult(s) PROVE Streaming'
  <2>1. PICK t \in Types :
          /\ Emit(s, <<t>>)
          /\ \/ pc[s] # "terminal" /\ pc'[s] = pc[s] /\ t = "progress"
             \/ pc[s] # "terminal" /\ pc'[s] = "terminal" /\ t = "result"
             \/ pc[s] = "terminal" /\ pc'[s] = "done" /\ t \in Terminals
    BY <1>8 DEF WriteResult, Goto, TypeOK, Types, Locked, Unlocked
  <2>2. pc[s] \notin {"idle", "done", "killed"} /\ pc'[s] # "idle"
    BY <1>8, <2>1 DEF WriteResult, Locked, Unlocked
  <2>3. /\ \A z \in Streams : z # s => pc'[z] = pc[z] /\ conn'[z] = conn[z]
        /\ conn'[s] \in {"open", "closed"} \/ conn'[s] = conn[s]
        /\ conn'[s] = "open" => conn[s] = "open"
    BY <1>8 DEF WriteResult, Goto, TypeOK
  <2>4. QED
    BY <2>1, <2>2, <2>3, Speech
<1>9. ASSUME NEW s \in Streams, WriteTerminal(s) PROVE Streaming'
  <2>1. PICK t \in Types :
          /\ Emit(s, <<t>>)
          /\ \/ pc[s] # "terminal" /\ pc'[s] = pc[s] /\ t = "progress"
             \/ pc[s] # "terminal" /\ pc'[s] = "terminal" /\ t = "result"
             \/ pc[s] = "terminal" /\ pc'[s] = "done" /\ t \in Terminals
    <3>1. PICK t \in {"canceled", "error", "complete"} : Terminal(s) = <<t>>
      BY DEF Terminal
    <3>2. pc[s] = "terminal" /\ pc'[s] = "done" /\ Emit(s, <<t>>)
      BY <1>9, <3>1 DEF WriteTerminal, Goto, TypeOK
    <3>3. t \in Types /\ t \in Terminals
      BY DEF Types, Terminals
    <3>4. QED
      BY <3>2, <3>3
  <2>2. pc[s] \notin {"idle", "done", "killed"} /\ pc'[s] # "idle"
    BY <1>9, <2>1 DEF WriteTerminal, Locked, Unlocked
  <2>3. /\ \A z \in Streams : z # s => pc'[z] = pc[z] /\ conn'[z] = conn[z]
        /\ conn'[s] \in {"open", "closed"} \/ conn'[s] = conn[s]
        /\ conn'[s] = "open" => conn[s] = "open"
    BY <1>9 DEF WriteTerminal, Goto, TypeOK
  <2>4. QED
    BY <2>1, <2>2, <2>3, Speech
<1>10. ASSUME NEW o \in Others, Start(o) PROVE Streaming'
  <2>1. UNCHANGED <<seq, got>>
    BY <1>10 DEF Start, Goto, Return, Back, Unlock, locks, stream
  <2>2. ASSUME NEW z \in Streams PROVE Onward(pc[z], conn[z], pc'[z], conn'[z])
    <3>1. conn[z] = "none" => pc[z] \in {"idle", "done"}
      BY DEF Streaming, StreamOK
    <3>2. QED
      BY <1>10, <2>2, <3>1 DEF TypeOK, Start, Goto, Return, Back, Unlock, locks,
         stream, Locked, Unlocked, Onward
  <2>3. QED
    BY <2>1, <2>2, Quiet DEF Streaming
<1>11. ASSUME NEW a \in Actors, TakeState(a) PROVE Streaming'
  <2>1. UNCHANGED <<seq, got>>
    BY <1>11 DEF TakeState, Goto, Return, Back, Unlock, locks, stream
  <2>2. ASSUME NEW z \in Streams PROVE Onward(pc[z], conn[z], pc'[z], conn'[z])
    <3>1. conn[z] = "none" => pc[z] \in {"idle", "done"}
      BY DEF Streaming, StreamOK
    <3>2. QED
      BY <1>11, <2>2, <3>1 DEF TypeOK, TakeState, Goto, Return, Back, Unlock,
         locks, stream, Locked, Unlocked, Onward
  <2>3. QED
    BY <2>1, <2>2, Quiet DEF Streaming
<1>12. ASSUME NEW a \in Actors, StateBusy(a) PROVE Streaming'
  <2>1. UNCHANGED <<seq, got>>
    BY <1>12 DEF StateBusy, Goto, Return, Back, Unlock, locks, stream
  <2>2. ASSUME NEW z \in Streams PROVE Onward(pc[z], conn[z], pc'[z], conn'[z])
    <3>1. conn[z] = "none" => pc[z] \in {"idle", "done"}
      BY DEF Streaming, StreamOK
    <3>2. QED
      BY <1>12, <2>2, <3>1 DEF TypeOK, StateBusy, Goto, Return, Back, Unlock,
         locks, stream, Locked, Unlocked, Onward
  <2>3. QED
    BY <2>1, <2>2, Quiet DEF Streaming
<1>13. ASSUME NEW a \in Actors, TakeCheckout(a) PROVE Streaming'
  <2>1. UNCHANGED <<seq, got>>
    BY <1>13 DEF TakeCheckout, Goto, Return, Back, Unlock, locks, stream
  <2>2. ASSUME NEW z \in Streams PROVE Onward(pc[z], conn[z], pc'[z], conn'[z])
    <3>1. conn[z] = "none" => pc[z] \in {"idle", "done"}
      BY DEF Streaming, StreamOK
    <3>2. QED
      BY <1>13, <2>2, <3>1 DEF TypeOK, TakeCheckout, Goto, Return, Back, Unlock,
         locks, stream, Locked, Unlocked, Onward
  <2>3. QED
    BY <2>1, <2>2, Quiet DEF Streaming
<1>14. ASSUME NEW a \in Actors, CheckoutBusy(a) PROVE Streaming'
  <2>1. UNCHANGED <<seq, got>>
    BY <1>14 DEF CheckoutBusy, Goto, Return, Back, Unlock, locks, stream
  <2>2. ASSUME NEW z \in Streams PROVE Onward(pc[z], conn[z], pc'[z], conn'[z])
    <3>1. conn[z] = "none" => pc[z] \in {"idle", "done"}
      BY DEF Streaming, StreamOK
    <3>2. QED
      BY <1>14, <2>2, <3>1 DEF TypeOK, CheckoutBusy, Goto, Return, Back, Unlock,
         locks, stream, Locked, Unlocked, Onward
  <2>3. QED
    BY <2>1, <2>2, Quiet DEF Streaming
<1>15. ASSUME NEW a \in Actors, Claim(a) PROVE Streaming'
  <2>1. UNCHANGED <<seq, got>>
    BY <1>15 DEF Claim, Goto, Return, Back, Unlock, locks, stream
  <2>2. ASSUME NEW z \in Streams PROVE Onward(pc[z], conn[z], pc'[z], conn'[z])
    <3>1. conn[z] = "none" => pc[z] \in {"idle", "done"}
      BY DEF Streaming, StreamOK
    <3>2. QED
      BY <1>15, <2>2, <3>1 DEF TypeOK, Claim, Goto, Return, Back, Unlock, locks,
         stream, Locked, Unlocked, Onward
  <2>3. QED
    BY <2>1, <2>2, Quiet DEF Streaming
<1>16. ASSUME NEW a \in Actors, Scan(a) PROVE Streaming'
  <2>1. UNCHANGED <<seq, got>>
    BY <1>16 DEF Scan, Goto, Return, Back, Unlock, locks, stream
  <2>2. ASSUME NEW z \in Streams PROVE Onward(pc[z], conn[z], pc'[z], conn'[z])
    <3>1. conn[z] = "none" => pc[z] \in {"idle", "done"}
      BY DEF Streaming, StreamOK
    <3>2. QED
      BY <1>16, <2>2, <3>1 DEF TypeOK, Scan, Goto, Return, Back, Unlock, locks,
         stream, Locked, Unlocked, Onward
  <2>3. QED
    BY <2>1, <2>2, Quiet DEF Streaming
<1>17. ASSUME NEW a \in Actors, Work(a) PROVE Streaming'
  <2>1. UNCHANGED <<seq, got>>
    BY <1>17 DEF Work, Goto, Return, Back, Unlock, locks, stream
  <2>2. ASSUME NEW z \in Streams PROVE Onward(pc[z], conn[z], pc'[z], conn'[z])
    <3>1. conn[z] = "none" => pc[z] \in {"idle", "done"}
      BY DEF Streaming, StreamOK
    <3>2. QED
      BY <1>17, <2>2, <3>1 DEF TypeOK, Work, Ended, Goto, Return, Back, Unlock,
         locks, stream, Locked, Unlocked, Onward
  <2>3. QED
    BY <2>1, <2>2, Quiet DEF Streaming
<1>18. ASSUME NEW a \in Actors, Close(a) PROVE Streaming'
  <2>1. UNCHANGED <<seq, got>>
    BY <1>18 DEF Close, Leave, Goto, Return, Back, Unlock, locks, stream
  <2>2. ASSUME NEW z \in Streams PROVE Onward(pc[z], conn[z], pc'[z], conn'[z])
    <3>1. conn[z] = "none" => pc[z] \in {"idle", "done"}
      BY DEF Streaming, StreamOK
    <3>2. QED
      BY <1>18, <2>2, <3>1 DEF TypeOK, Close, Leave, Goto, Return, Back, Unlock, locks,
         stream, Locked, Unlocked, Onward
  <2>3. QED
    BY <2>1, <2>2, Quiet DEF Streaming
<1>19. ASSUME Stop PROVE Streaming'
  <2>1. UNCHANGED <<seq, got>>
    BY <1>19 DEF Stop, Goto, Return, Back, Unlock, locks, stream
  <2>2. ASSUME NEW z \in Streams PROVE Onward(pc[z], conn[z], pc'[z], conn'[z])
    <3>1. conn[z] = "none" => pc[z] \in {"idle", "done"}
      BY DEF Streaming, StreamOK
    <3>2. QED
      BY <1>19, <2>2, <3>1 DEF TypeOK, Stop, Goto, Return, Back, Unlock, locks,
         stream, Locked, Unlocked, Onward
  <2>3. QED
    BY <2>1, <2>2, Quiet DEF Streaming
<1>20. ASSUME Drained PROVE Streaming'
  <2>1. UNCHANGED <<seq, got>>
    BY <1>20 DEF Drained, Goto, Return, Back, Unlock, locks, stream
  <2>2. ASSUME NEW z \in Streams PROVE Onward(pc[z], conn[z], pc'[z], conn'[z])
    <3>1. conn[z] = "none" => pc[z] \in {"idle", "done"}
      BY DEF Streaming, StreamOK
    <3>2. QED
      BY <1>20, <2>2, <3>1 DEF TypeOK, Drained, Goto, Return, Back, Unlock,
         locks, stream, Locked, Unlocked, Onward
  <2>3. QED
    BY <2>1, <2>2, Quiet DEF Streaming
<1>21. ASSUME Deadline PROVE Streaming'
  <2>1. UNCHANGED <<pc, seq, got>>
    BY <1>21 DEF Deadline
  <2>2. ASSUME NEW z \in Streams PROVE Onward(pc[z], conn[z], pc'[z], conn'[z])
    <3>1. conn'[z] = IF Active(z) THEN "closed" ELSE conn[z]
      BY <1>21, <2>2 DEF Deadline
    <3>2. QED
      BY <2>1, <2>2, <3>1 DEF TypeOK, Onward, Active
  <2>3. QED
    BY <2>1, <2>2, Quiet DEF Streaming
<1>22. ASSUME Exit PROVE Streaming'
  <2>1. UNCHANGED <<seq, got>>
    BY <1>22 DEF Exit, Goto, Return, Back, Unlock, locks, stream
  <2>2. ASSUME NEW z \in Streams PROVE Onward(pc[z], conn[z], pc'[z], conn'[z])
    <3>1. conn[z] = "none" => pc[z] \in {"idle", "done"}
      BY DEF Streaming, StreamOK
    <3>2. QED
      BY <1>22, <2>2, <3>1 DEF TypeOK, Exit, Active, Goto, Return, Back, Unlock,
         locks, stream, Locked, Unlocked, Onward
  <2>3. QED
    BY <2>1, <2>2, Quiet DEF Streaming
<1>23. ASSUME NEW a \in Actors, Abandon(a) PROVE Streaming'
  <2>1. UNCHANGED <<seq, got>>
    BY <1>23 DEF Abandon, Leave, Goto, Return, Back, Unlock, locks, stream
  <2>2. ASSUME NEW z \in Streams PROVE Onward(pc[z], conn[z], pc'[z], conn'[z])
    <3>1. conn[z] = "none" => pc[z] \in {"idle", "done"}
      BY DEF Streaming, StreamOK
    <3>2. QED
      BY <1>23, <2>2, <3>1 DEF TypeOK, Abandon, Leave, Goto, Return, Back, Unlock, locks,
         stream, Locked, Unlocked, Onward
  <2>3. QED
    BY <2>1, <2>2, Quiet DEF Streaming
<1>24. ASSUME NEW a \in Actors, Yield(a) PROVE Streaming'
  <2>1. UNCHANGED <<seq, got>>
    BY <1>24 DEF Yield, Goto, Return, Back, Unlock, locks, stream
  <2>2. ASSUME NEW z \in Streams PROVE Onward(pc[z], conn[z], pc'[z], conn'[z])
    <3>1. conn[z] = "none" => pc[z] \in {"idle", "done"}
      BY DEF Streaming, StreamOK
    <3>2. QED
      BY <1>24, <2>2, <3>1 DEF TypeOK, Yield, Ended, Goto, Return, Back, Unlock,
         locks, stream, Locked, Unlocked, Onward
  <2>3. QED
    BY <2>1, <2>2, Quiet DEF Streaming
<1>25. QED
  BY <1>1, <1>2, <1>3, <1>4, <1>5, <1>6, <1>7, <1>8, <1>9, <1>10, <1>11, <1>12,
     <1>13, <1>14, <1>15, <1>16, <1>17, <1>18, <1>19, <1>20, <1>21, <1>22, <1>23,
     <1>24 DEF
     Next, Handler, Steps

\* Every client gets a well-formed stream, or a beginning of one.
THEOREM StreamsAreWellFormed == Spec => []WellFormed
<1>1. Init => Streaming
  <2>1. Len(<<>>) = 0 /\ DOMAIN <<>> = {}
    OBVIOUS
  <2>2. QED
    BY <2>1 DEF Init, Streaming, StreamOK
<1>2. WorkerInv /\ Streaming /\ [Next]_vars => Streaming'
  <2>1. ASSUME WorkerInv, Streaming, Next PROVE Streaming'
    BY <2>1, StreamStep
  <2>2. ASSUME Streaming, UNCHANGED vars PROVE Streaming'
    BY <2>2 DEF Streaming, vars, stream
  <2>3. QED
    BY <2>1, <2>2
<1>3. Streaming => WellFormed
  BY DEF Streaming, StreamOK, WellFormed
<1>4. QED
  BY <1>1, <1>2, <1>3, WorkerInvariant, PTL DEF Spec
=============================================================================
