------------------------------ MODULE Terminal ------------------------------
(***************************************************************************)
(* One dashboard session of `bib` (cmd/bib/terminal.go): the loop that     *)
(* every tick reads the terminal, decodes keys and draws, next to the run  *)
(* that reports and logs into the same dashboard.                          *)
(*                                                                         *)
(* A byte is itself, but "start" and "end" stand for the parameters 200    *)
(* and 201 of the sequences around a pasted text.  Bytes arrive in pieces  *)
(* of any size and after any number of ticks.                              *)
(***************************************************************************)
EXTENDS Dashboard

CONSTANTS
  Pressed,     \* keys that the user presses: a subset of the domain of Code
  Pasted,      \* texts that the user pastes
  MaxPending,  \* bytes of an unfinished sequence that are kept (32)
  MaxEvents,   \* bound: reports, records, keys and pastes of a session
  MaxSlack     \* bound: lines that do not fit on the screen

VARIABLES
  wire,      \* what the terminal has sent and was not read
  pending,   \* keyDecoder.pending
  paste,     \* keyDecoder.paste
  queue,     \* decoded keys that the dashboard has not handled
  loop,      \* the session's loop: poll, keys, done
  run,       \* the run's goroutine: on, returned
  canceled,  \* its context
  due,       \* history: keys pressed that were not decoded
  astray,    \* history: something else was decoded
  cut,       \* history: a tick came between an escape byte and what follows it
  events     \* history: how many there were

input   == <<wire, pending, paste, queue>>
history == <<due, astray, cut>>
vars    == <<dashVars, input, loop, run, canceled, history, events>>

\* What the terminal sends for a key.
Code == [up    |-> <<"esc", "[", "A">>,
         down  |-> <<"esc", "O", "B">>,
         esc   |-> <<"esc">>,
         enter |-> <<"cr">>,
         tab   |-> <<"tab">>,
         g     |-> <<"g">>,
         G     |-> <<"G">>,
         q     |-> <<"q">>]

\* "other" is any byte that ends no sequence and is no key of the dashboard.
Bytes == {"A", "B", "O", "[", "~", "g", "G", "q", "esc", "cr", "tab", "start", "end", "other"}

Bracketed(text) == <<"esc", "[", "start", "~">> \o text \o <<"esc", "[", "end", "~">>

\* A terminal leaves escape bytes out of what is pasted; otherwise the text
\* itself could end the paste.  No sequence of Code is cut off by the limit.
ASSUME TerminalAssumption ==
  /\ Pressed \subseteq DOMAIN Code
  /\ Pasted \subseteq Seq(Bytes \ {"esc"})
  /\ MaxPending \in Nat /\ MaxPending >= 3
  /\ MaxEvents \in Nat
  /\ MaxSlack \in Nat

Start ==
  /\ Init
  /\ wire = <<>> /\ pending = <<>> /\ queue = <<>>
  /\ paste = FALSE
  /\ loop = "poll"
  /\ run = "on"
  /\ canceled = FALSE
  /\ due = <<>> /\ astray = FALSE /\ cut = FALSE
  /\ events = 0

-----------------------------------------------------------------------------
(* The key decoder *)

\* Bytes from 0x40 to 0x7e end a sequence.
Finals == {"A", "B", "O", "[", "~", "g", "G", "q"}

From(q, i) == SubSeq(q, i, Len(q))

\* A sequence begins with the i-th of the bytes ...
Introduced(b, i) == i < Len(b) /\ b[i] = "esc" /\ b[i + 1] \in {"[", "O"}

\* ... and may end here.
Ends(b, i) == {k \in (i + 2)..Len(b) : b[k] \in Finals}

\* Mutant of Unfinished: an escape byte at the end of a read is taken for the key.
UnfinishedEager(b, i) == Introduced(b, i) /\ Ends(b, i) = {}

\* What the i-th byte begins may go on in the next read.
Unfinished(b, i) ==
  \/ i = Len(b) /\ b[i] = "esc"
  \/ Introduced(b, i) /\ Ends(b, i) = {}

\* The sequence, or the one byte, that the i-th byte begins.
Unit(b, i) ==
  IF Introduced(b, i)
  THEN SubSeq(b, i, CHOOSE k \in Ends(b, i) : \A l \in Ends(b, i) : k <= l)
  ELSE <<b[i]>>

\* Its keys: most sequences have none.
KeysOf(unit) ==
  CASE unit \in {<<"esc", "[", "A">>, <<"esc", "O", "A">>} -> <<"up">>
    [] unit \in {<<"esc", "[", "B">>, <<"esc", "O", "B">>} -> <<"down">>
    [] unit = <<"cr">> -> <<"enter">>
    [] OTHER -> IF Len(unit) = 1 THEN unit ELSE <<>>

\* Whether what comes behind it is pasted.
PasteAfter(unit, in) ==
  CASE unit = <<"esc", "[", "start", "~">> -> TRUE
    [] unit = <<"esc", "[", "end", "~">>   -> FALSE
    [] OTHER -> in

\* What feed makes of the bytes from each one on, inside a paste or outside.
Fed(b) ==
  LET from[i \in 1..(Len(b) + 1)] ==
        [in \in BOOLEAN |->
           IF i > Len(b) \/ Unfinished(b, i)
           THEN [keys |-> <<>>, paste |-> in,
                 pending |-> IF Len(b) - i + 1 > MaxPending THEN <<>> ELSE From(b, i)]
           ELSE LET unit == Unit(b, i)
                    keys == IF in THEN <<>> ELSE KeysOf(unit)
                IN  [from[i + Len(unit)][PasteAfter(unit, in)] EXCEPT !.keys = keys \o @]]
  IN  from

\* feed: the new bytes are added to the pending ones.
Feed(text) == Fed(pending \o text)[1][paste]

\* The user sees the keys that were pressed taken, in their order.
Taken(keys) ==
  IF Len(keys) <= Len(due) /\ SubSeq(due, 1, Len(keys)) = keys
  THEN due' = From(due, Len(keys) + 1) /\ UNCHANGED astray
  ELSE astray' = TRUE /\ UNCHANGED due

-----------------------------------------------------------------------------
(* The session *)

Happens == events < MaxEvents /\ events' = events + 1

Press(k) ==
  /\ Happens /\ loop # "done"
  /\ wire' = wire \o Code[k]
  /\ due' = Append(due, k)
  /\ UNCHANGED <<dashVars, pending, paste, queue, loop, run, canceled, astray, cut>>

Paste(text) ==
  /\ Happens /\ loop # "done"
  /\ wire' = wire \o Bracketed(text)
  /\ UNCHANGED <<dashVars, pending, paste, queue, loop, run, canceled, history>>

\* A tick that finds n bytes.
Read(n) ==
  /\ loop = "poll"
  /\ LET d == Feed(SubSeq(wire, 1, n))
     IN  /\ pending' = d.pending
         /\ paste' = d.paste
         /\ queue' = d.keys
         /\ Taken(d.keys)
  /\ wire' = From(wire, n + 1)
  /\ loop' = "keys"
  /\ UNCHANGED <<dashVars, run, canceled, cut, events>>

\* A tick that finds none: an escape byte that nothing follows was the key.
ReadNothing ==
  /\ loop = "poll"
  /\ IF pending = <<"esc">>
     THEN /\ pending' = <<>>
          /\ queue' = <<"esc">>
          /\ Taken(<<"esc">>)
          /\ cut' = (cut \/ wire # <<>>)
     ELSE UNCHANGED <<pending, queue, history>>
  /\ loop' = "keys"
  /\ UNCHANGED <<dashVars, wire, paste, run, canceled, events>>

Handle ==
  /\ loop = "keys" /\ queue # <<>>
  /\ Key(Head(queue))
  /\ queue' = Tail(queue)
  /\ canceled' = (canceled \/ Head(queue) = "q")
  /\ UNCHANGED <<wire, pending, paste, loop, run, history, events>>

Draw ==
  /\ loop = "keys" /\ queue = <<>>
  /\ \E slack \in 0..MaxSlack : Render(slack, canceled)
  /\ loop' = "poll"
  /\ UNCHANGED <<input, run, canceled, history, events>>

\* A signal, or the terminal hangs up.
Interrupt ==
  /\ Happens /\ ~canceled /\ loop # "done"
  /\ canceled' = TRUE
  /\ UNCHANGED <<dashVars, input, loop, run, history>>

Observe ==
  /\ run = "on" /\ Happens
  /\ \/ \E found \in SUBSET (Issues \ jobs), a \in Issues \cup {NoIssue} : Report(found, a)
     \/ \E s \in Streams, ends \in Texts : Transcript(s, ends)
     \/ Message
  /\ UNCHANGED <<input, loop, run, canceled, history>>

RunReturns ==
  /\ run = "on" /\ (canceled \/ Happens)
  /\ run' = "returned"
  /\ UNCHANGED <<dashVars, input, loop, canceled, history>>
  /\ canceled => UNCHANGED events

Leave ==
  /\ loop = "poll" /\ run = "returned"
  /\ loop' = "done"
  /\ UNCHANGED <<dashVars, input, run, canceled, history, events>>

SessionNext ==
  \/ \E k \in Pressed : Press(k)
  \/ \E text \in Pasted : Paste(text)
  \/ \E n \in 1..Len(wire) : Read(n)
  \/ ReadNothing \/ Handle \/ Draw
  \/ Interrupt \/ Observe \/ RunReturns \/ Leave

Session == Start /\ [][SessionNext]_vars

-----------------------------------------------------------------------------
(* Properties *)

\* However the input is cut into reads, the dashboard is given the keys that
\* were pressed, in order, and nothing of a pasted text, unless a tick passes
\* between an escape byte and the rest of its sequence (terminal.go:110).
KeysAreWhole ==
  ~cut => /\ ~astray
          /\ wire = <<>> /\ pending = <<>> => due = <<>>

=============================================================================
