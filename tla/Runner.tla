------------------------------- MODULE Runner -------------------------------
(***************************************************************************)
(* One command run by internal/osrun: the process and a descendant it may  *)
(* leave behind, the two pipes, the goroutines that copy them into bounded *)
(* tails, the context that kills the process group, and the one-second     *)
(* WaitDelay of os/exec after which Run stops waiting for the pipes.       *)
(*                                                                         *)
(* A byte is the lead of a rune, named by the bytes of that rune, or one   *)
(* of its continuations.  Trimming of white space and the wording of       *)
(* errors are left out.  The steps of os/exec are those its documentation  *)
(* gives for the fields that StartCommand sets.                            *)
(***************************************************************************)
EXTENDS Naturals, Sequences

CONSTANTS
  Leads,        \* the runes that occur in the output, each by its first byte
  OutCapacity,  \* bytes kept of standard output (8 MiB)
  ErrCapacity,  \* bytes kept of standard error (64 KiB)
  MaxOut,       \* bound: bytes written to standard output
  MaxErr        \* bound: bytes written to standard error

\* How many bytes a rune with this first byte has; every other byte is "cont".
Width == [one |-> 1, two |-> 2, three |-> 3, four |-> 4]

ASSUME RunnerAssumption ==
  /\ Leads \subseteq DOMAIN Width
  /\ OutCapacity \in Nat
  /\ ErrCapacity \in Nat
  /\ MaxOut \in Nat
  /\ MaxErr \in Nat

VARIABLES
  pc,        \* where Run stands: wait, reaped, copying, returned
  leader,    \* the process that Run started
  child,     \* a descendant of it that inherited the pipes
  canceled,  \* the caller's context is done
  killed,    \* the process group was killed for that
  timer,     \* WaitDelay
  failed,    \* cmd.Run has an error to return
  written,   \* history: what was written to each stream
  pipe,      \* what of it is still in the pipe
  tail,      \* the Tail of each stream
  answer     \* what Run returned

procs   == <<leader, child>>
streams == <<written, pipe, tail>>
vars    == <<pc, procs, canceled, killed, timer, failed, streams, answer>>

Streams == {"stdout", "stderr"}
Bytes   == Leads \cup {"cont"}

Capacity == [stdout |-> OutCapacity, stderr |-> ErrCapacity]
Limit    == [stdout |-> MaxOut, stderr |-> MaxErr]

NoAnswer == [ok |-> FALSE, text |-> <<>>]

Init ==
  /\ pc = "wait"
  /\ leader = "running"
  /\ child = "none"
  /\ canceled = FALSE
  /\ killed = FALSE
  /\ timer = "off"
  /\ failed = FALSE
  /\ written = [s \in Streams |-> <<>>]
  /\ pipe = [s \in Streams |-> <<>>]
  /\ tail = [s \in Streams |-> [bytes |-> <<>>, truncated |-> FALSE]]
  /\ answer = NoAnswer

-----------------------------------------------------------------------------
(* The bounded tail *)

\* The last n bytes of b.
Last(b, n) == IF Len(b) <= n THEN b ELSE SubSeq(b, Len(b) - n + 1, Len(b))

\* Mutant of TailWrite: the excess is computed before the chunk is cut.
TailWriteEager(t, p, n) ==
  [bytes     |-> IF Len(t.bytes) + Len(p) > n THEN Last(p, n) ELSE t.bytes \o p,
   truncated |-> t.truncated \/ Len(t.bytes) + Len(p) > n]

\* Write: first the chunk is cut to the capacity, then older bytes make room.
TailWrite(t, p, n) ==
  LET chunk  == Last(p, n)
      excess == Len(t.bytes) + Len(chunk) > n
  IN  [bytes     |-> (IF excess THEN Last(t.bytes, n - Len(chunk)) ELSE t.bytes) \o chunk,
       truncated |-> t.truncated \/ Len(p) > n \/ excess]

\* The bytes from the i-th on start with a whole rune.
Rune(b, i) ==
  /\ b[i] \in Leads
  /\ i + Width[b[i]] <= Len(b) + 1
  /\ \A k \in (i + 1)..(i + Width[b[i]] - 1) : b[k] = "cont"

\* What the bytes from each one on decode to.
Decoded(b) ==
  LET from[i \in 1..(Len(b) + 1)] ==
        IF i > Len(b) THEN <<>>
        ELSE IF Rune(b, i) THEN <<b[i]>> \o from[i + Width[b[i]]]
        ELSE IF from[i + 1] # <<>> /\ Head(from[i + 1]) = "bad" THEN from[i + 1]
        ELSE <<"bad">> \o from[i + 1]
  IN  from

\* strings.ToValidUTF8: a run of bytes that form no rune becomes one "bad".
ValidUTF8(b) == Decoded(b)[1]

\* The first byte that may start a rune, or the end.
FirstStart(b) ==
  CHOOSE i \in 1..(Len(b) + 1) :
    /\ \A k \in 1..(i - 1) : b[k] = "cont"
    /\ i <= Len(b) => b[i] # "cont"

\* Mutant of TextOf: the cut may stay in the middle of a rune.
TextOfRaw(t) == ValidUTF8(t.bytes)

\* Text: the rest of a rune that was cut in the middle is left out.
TextOf(t) == ValidUTF8(SubSeq(t.bytes, FirstStart(t.bytes), Len(t.bytes)))

-----------------------------------------------------------------------------
(* The command *)

\* Somebody holds the writing end of the pipes.
Writers == leader = "running" \/ child \in {"running", "detached"}

Write(s, b) ==
  /\ pc # "returned" /\ Writers
  /\ Len(written[s]) < Limit[s]
  /\ written' = [written EXCEPT ![s] = Append(@, b)]
  /\ pipe' = [pipe EXCEPT ![s] = Append(@, b)]
  /\ UNCHANGED <<pc, procs, canceled, killed, timer, failed, tail, answer>>

\* It starts a process that goes on on its own, and that may leave the group.
Fork ==
  /\ leader = "running" /\ child = "none"
  /\ child' = "running"
  /\ UNCHANGED <<pc, leader, canceled, killed, timer, failed, streams, answer>>

Detach ==
  /\ child = "running" /\ pc # "returned"
  /\ child' = "detached"
  /\ UNCHANGED <<pc, leader, canceled, killed, timer, failed, streams, answer>>

ChildEnds ==
  /\ child \in {"running", "detached"} /\ pc # "returned"
  /\ child' = "gone"
  /\ UNCHANGED <<pc, leader, canceled, killed, timer, failed, streams, answer>>

Ends ==
  /\ leader = "running"
  /\ leader' \in {"succeeded", "failed"}
  /\ UNCHANGED <<pc, child, canceled, killed, timer, failed, streams, answer>>

-----------------------------------------------------------------------------
(* Run *)

\* The caller's timeout passes or its context is canceled.
Cancel ==
  /\ ~canceled /\ pc # "returned"
  /\ canceled' = TRUE
  /\ UNCHANGED <<pc, procs, killed, timer, failed, streams, answer>>

\* The copying goroutine of a pipe reads what is there, in one chunk or several.
Copy(s) ==
  /\ pc # "returned" /\ timer # "expired"
  /\ \E n \in 1..Len(pipe[s]) :
       /\ tail' = [tail EXCEPT ![s] = TailWrite(@, SubSeq(pipe[s], 1, n), Capacity[s])]
       /\ pipe' = [pipe EXCEPT ![s] = SubSeq(@, n + 1, Len(@))]
  /\ UNCHANGED <<pc, procs, canceled, killed, timer, failed, written, answer>>

\* Mutant of Signal: only the process itself is killed.
SignalLeader ==
  /\ leader' = IF leader = "running" THEN "failed" ELSE leader
  /\ UNCHANGED child

\* kill(-pid): every process of the group.
Signal ==
  /\ leader' = IF leader = "running" THEN "failed" ELSE leader
  /\ child' = IF child = "running" THEN "gone" ELSE child

\* Kill: the group is gone once the process is reaped and no descendant is left
\* in it; that is no error.
Kill ==
  /\ canceled /\ ~killed /\ pc \in {"wait", "reaped"}
  /\ killed' = TRUE
  /\ timer' = "running"
  /\ Signal
  /\ failed' = (failed \/ pc = "wait" \/ child = "running")
  /\ UNCHANGED <<pc, canceled, streams, answer>>

\* The process has ended and its status is read.
Reap ==
  /\ pc = "wait" /\ leader # "running"
  /\ pc' = "reaped"
  /\ failed' = (failed \/ leader = "failed")
  /\ UNCHANGED <<procs, canceled, killed, timer, streams, answer>>

\* Both pipes are at their end.
EOF == ~Writers /\ \A s \in Streams : pipe[s] = <<>>

\* Mutant of Await: no WaitDelay.
AwaitForever ==
  /\ pc = "reaped"
  /\ pc' = "copying"
  /\ UNCHANGED <<procs, canceled, killed, timer, failed, streams, answer>>

\* From here on the context is not watched, and the pipes have a second.
Await ==
  /\ pc = "reaped"
  /\ pc' = "copying"
  /\ timer' = IF timer = "off" THEN "running" ELSE timer
  /\ UNCHANGED <<procs, canceled, killed, failed, streams, answer>>

\* Mutant of Expire: giving up on the pipes is no error.
ExpireSilently ==
  /\ timer = "running" /\ pc # "returned" /\ ~EOF
  /\ timer' = "expired"
  /\ UNCHANGED <<pc, procs, canceled, killed, failed, streams, answer>>

\* WaitDelay is over and a pipe is still open: both are closed.
Expire ==
  /\ timer = "running" /\ pc # "returned" /\ ~EOF
  /\ timer' = "expired"
  /\ failed' = TRUE
  /\ UNCHANGED <<pc, procs, canceled, killed, streams, answer>>

\* What Run makes of it: a text that was cut is an error of its own.
Output ==
  IF failed THEN [ok |-> FALSE, text |-> TextOf(tail["stdout"])]
  ELSE IF tail["stdout"].truncated THEN NoAnswer
  ELSE [ok |-> TRUE, text |-> TextOf(tail["stdout"])]

Finish ==
  /\ pc = "copying" /\ (EOF \/ timer = "expired")
  /\ pc' = "returned"
  /\ answer' = Output
  /\ UNCHANGED <<procs, canceled, killed, timer, failed, streams>>

Command == \/ \E s \in Streams, b \in Bytes : Write(s, b)
           \/ Fork \/ Detach \/ ChildEnds \/ Ends

Next ==
  \/ Command
  \/ Cancel
  \/ \E s \in Streams : Copy(s)
  \/ Kill \/ Reap \/ Await \/ Expire \/ Finish

Spec == Init /\ [][Next]_vars

\* The kernel delivers the signal, the runtime's timers expire and Run's own
\* goroutine goes on.  Nothing is asked of the command and its descendants.
Fairness ==
  /\ WF_vars(Kill)
  /\ WF_vars(Reap)
  /\ WF_vars(Await)
  /\ WF_vars(Expire)
  /\ WF_vars(Finish)

FairSpec == Spec /\ Fairness

-----------------------------------------------------------------------------
(* Properties *)

Copied(s) == SubSeq(written[s], 1, Len(written[s]) - Len(pipe[s]))

\* Every variable has its type, and a tail never holds more than its capacity.
TypeOK ==
  /\ pc \in {"wait", "reaped", "copying", "returned"}
  /\ leader \in {"running", "succeeded", "failed"}
  /\ child \in {"none", "running", "detached", "gone"}
  /\ canceled \in BOOLEAN
  /\ killed \in BOOLEAN
  /\ timer \in {"off", "running", "expired"}
  /\ failed \in BOOLEAN
  /\ written \in [Streams -> Seq(Bytes)]
  /\ pipe \in [Streams -> Seq(Bytes)]
  /\ tail \in [Streams -> [bytes : Seq(Bytes), truncated : BOOLEAN]]
  /\ \A s \in Streams : Len(tail[s].bytes) <= Capacity[s]
  /\ answer.ok \in BOOLEAN

\* A tail is the end of what was copied, whatever the chunks, and
\* it says that something is missing exactly when something is.
TailsAreExact ==
  \A s \in Streams :
    /\ tail[s].bytes = Last(Copied(s), Capacity[s])
    /\ tail[s].truncated <=> Len(Copied(s)) > Capacity[s]

\* Output that Run reports without an error is all that the command and its
\* descendants wrote: nothing was cut, left in a pipe or given up.
WholeOutput ==
  answer.ok => /\ tail["stdout"].bytes = written["stdout"]
               /\ tail["stderr"].bytes = Last(written["stderr"], ErrCapacity)

\* The bytes of a text, from each of its runes on.
Sizes(text) ==
  LET from[i \in 1..(Len(text) + 1)] ==
        IF i > Len(text) THEN 0
        ELSE (IF text[i] = "bad" THEN 1 ELSE Width[text[i]]) + from[i + 1]
  IN  from

\* The text of a tail is the end of the text that was copied, with no rune that
\* the cut would have damaged, and at most three bytes short: those of a rune of
\* four bytes that lost its first one.
TextIsWhole ==
  \A s \in Streams :
    LET whole == ValidUTF8(Copied(s))
        text  == TextOf(tail[s])
    IN  (\A i \in 1..Len(whole) : whole[i] # "bad") =>
           /\ text = Last(whole, Len(text))
           /\ Len(tail[s].bytes) <= Sizes(text)[1] + 3

\* A canceled command is stopped with all of its process group when Run
\* returns, unless it had ended before.
GroupStops ==
  pc = "returned" /\ killed => leader # "running" /\ child # "running"

\* Run returns after its command was canceled or has ended, also when a
\* descendant left the process group and holds the pipes.
Returns == (canceled \/ leader # "running") ~> (pc = "returned")

=============================================================================
