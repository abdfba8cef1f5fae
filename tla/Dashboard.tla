------------------------------ MODULE Dashboard ------------------------------
(***************************************************************************)
(* What `bib` shows while it runs: the snapshots that the engine reports   *)
(* (progress.go) and the dashboard that several goroutines change under    *)
(* one mutex: progress reports, log records and keys (cmd/bib/dashboard.go)*)
(*                                                                         *)
(* Left out are the display's data: statuses, titles, counters, clocks and *)
(* the wording of rows.  A row of activity is the sequence of the pieces   *)
(* of text it was made of; how it wraps and how large the terminal is are  *)
(* the renderer's choice of how far back there is something to scroll to.  *)
(***************************************************************************)
EXTENDS Integers, Sequences, FiniteSets

CONSTANTS
  Issues,         \* issue numbers
  Window,         \* issues in one report (200)
  ActivityLimit,  \* rows of activity that are kept (200)
  Streams,        \* transcript streams: a source and its stream_id
  Log,            \* the source of rows that are no transcript
  PageStep,       \* lines that a page key scrolls in the detail (10)
  Far             \* beyond every offset (1 << 30)

ASSUME DashboardAssumption ==
  /\ Issues \subseteq Nat \ {0} /\ IsFiniteSet(Issues)
  /\ Window \in Nat \ {0}
  /\ ActivityLimit \in Nat \ {0}
  /\ Log \notin Streams
  /\ PageStep \in Nat \ {0}
  /\ Far \in Nat \ {0}

VARIABLES
  jobs,        \* numbers of the jobs at the last report
  active,      \* number of the active job, or NoIssue
  shown,       \* d.progress.Issues, oldest first
  view,        \* 0 overview, 1 issues, 2 activity
  selected,    \* distance of the selected issue from the newest
  detail,      \* the selected issue is open
  scroll,      \* lines scrolled in the detail, or back in the activity
  stopping,    \* the user has asked to stop
  activity,    \* rows of activity
  streamKey,   \* the stream of the last transcript
  streamOpen   \* its last line has not ended

engineVars == <<jobs, active>>
listVars   == <<shown, selected>>
paneVars   == <<view, detail>>
rowVars    == <<activity, streamKey, streamOpen>>
dashVars   == <<engineVars, listVars, paneVars, scroll, stopping, rowVars>>

NoIssue == 0

Init ==
  /\ jobs = {}
  /\ active = NoIssue
  /\ shown = <<>>
  /\ view = 0
  /\ selected = 0
  /\ detail = FALSE
  /\ scroll = 0
  /\ stopping = FALSE
  /\ activity = <<>>
  /\ streamKey = Log
  /\ streamOpen = FALSE

-----------------------------------------------------------------------------
(* Reports *)

Least(a, b)    == IF a <= b THEN a ELSE b
Greatest(a, b) == IF a >= b THEN a ELSE b

\* sort.Ints: the i-th has i - 1 smaller ones before it.
Ascending(s) ==
  [i \in 1..Cardinality(s) |-> CHOOSE n \in s : Cardinality({m \in s : m < n}) = i - 1]

LastOf(q, n) == IF Len(q) <= n THEN q ELSE SubSeq(q, Len(q) - n + 1, Len(q))

\* Mutant of Listed: the active issue replaces the oldest one whatever its age.
ListedAlways(s, a) ==
  LET newest == LastOf(Ascending(s), Window)
  IN  IF Cardinality(s) > Window /\ a # NoIssue
      THEN [newest EXCEPT ![1] = a]
      ELSE newest

\* report: the newest jobs; an older active one takes the place of the oldest.
Listed(s, a) ==
  LET newest == LastOf(Ascending(s), Window)
  IN  IF Cardinality(s) > Window /\ a # NoIssue /\ a < newest[1]
      THEN [newest EXCEPT ![1] = a]
      ELSE newest

Cursor == shown[Len(shown) - selected]

Browsed == (detail \/ selected > 0) /\ Len(shown) > selected

\* Mutant of Moved: the selection is kept by its distance from the newest.
MovedNot(list) == selected

\* The selection follows the issue under it to its place in a new list.
Moved(list) ==
  LET places == {i \in 1..Len(list) : list[i] = Cursor}
  IN  IF Browsed /\ places # {}
      THEN Len(list) - CHOOSE i \in places : \A k \in places : i <= k
      ELSE selected

\* update
Update(list) ==
  /\ shown' = list
  /\ selected' = Greatest(0, Least(Moved(list), Len(list) - 1))

\* The engine has found issues, has taken one or none, and reports.
Report(found, a) ==
  /\ jobs' = jobs \cup found
  /\ active' = a
  /\ a \in jobs' \cup {NoIssue}
  /\ Update(Listed(jobs', a))
  /\ UNCHANGED <<paneVars, scroll, stopping, rowVars>>

-----------------------------------------------------------------------------
(* Log records *)

\* addActivity: a reader who has scrolled back stays where he is.
AddRows(kept, added) ==
  /\ activity' = LastOf(kept \o added, ActivityLimit)
  /\ scroll' = IF view = 2 /\ scroll > 0 THEN scroll + Len(added) ELSE scroll

\* A record "agent transcript": ends[i] says whether its i-th line is complete;
\* all but the last are.  The first may go on with the row that was last.
Transcript(s, ends) ==
  LET piece  == [i \in 1..Len(ends) |-> [of |-> s, end |-> ends[i]]]
      joined == streamOpen /\ streamKey = s /\ activity # <<>>
      row    == Len(activity)
      kept   == IF joined THEN [activity EXCEPT ![row] = Append(@, piece[1])] ELSE activity
      first  == IF joined THEN 2 ELSE 1
  IN  /\ AddRows(kept, [i \in 1..(Len(ends) - first + 1) |-> <<piece[first + i - 1]>>])
      /\ streamKey' = s
      /\ streamOpen' = ~ends[Len(ends)]
      /\ UNCHANGED <<engineVars, listVars, paneVars, stopping>>

\* Mutant of Message: the open row stays open.
MessageLeavesOpen ==
  /\ AddRows(activity, <<<<[of |-> Log, end |-> TRUE]>>>>)
  /\ UNCHANGED <<engineVars, listVars, paneVars, stopping, streamKey, streamOpen>>

\* Every other record is a row of its own and ends the one before.
Message ==
  /\ AddRows(activity, <<<<[of |-> Log, end |-> TRUE]>>>>)
  /\ streamOpen' = FALSE
  /\ UNCHANGED <<engineVars, listVars, paneVars, stopping, streamKey>>

-----------------------------------------------------------------------------
(* Keys *)

Ups   == {"up", "pgup"}
Downs == {"down", "pgdown"}
Keys  == {"q", "esc", "enter", "1", "2", "3", "tab", "g", "G"} \cup Ups \cup Downs

Quit(k) ==
  /\ k = "q"
  /\ stopping' = TRUE
  /\ UNCHANGED <<engineVars, listVars, paneVars, scroll, rowVars>>

Back(k) ==
  /\ k = "esc" \/ (k = "enter" /\ detail)
  /\ detail' = FALSE
  /\ scroll' = 0
  /\ UNCHANGED <<engineVars, listVars, view, stopping, rowVars>>

ScrollDetail(k) ==
  /\ detail
  /\ scroll' = CASE k = "down"   -> scroll + 1
                 [] k = "up"     -> Greatest(0, scroll - 1)
                 [] k = "pgdown" -> scroll + PageStep
                 [] k = "pgup"   -> Greatest(0, scroll - PageStep)
                 [] k = "g"      -> 0
                 [] k = "G"      -> Far
                 [] OTHER        -> scroll
  /\ k \notin {"q", "esc", "enter"}
  /\ UNCHANGED <<engineVars, listVars, paneVars, stopping, rowVars>>

Switch(k) ==
  /\ ~detail
  /\ k \in {"1", "2", "3", "tab"}
  /\ view' = CASE k = "1" -> 0 [] k = "2" -> 1 [] k = "3" -> 2
               [] k = "tab" -> (view + 1) % 3
  /\ scroll' = 0
  /\ UNCHANGED <<engineVars, listVars, detail, stopping, rowVars>>

\* Mutant of Open: the activity has a detail too.
OpenAnywhere(k) ==
  /\ ~detail /\ k = "enter"
  /\ IF shown # <<>>
     THEN detail' = TRUE /\ scroll' = 0
     ELSE UNCHANGED <<detail, scroll>>
  /\ UNCHANGED <<engineVars, listVars, view, stopping, rowVars>>

Open(k) ==
  /\ ~detail /\ k = "enter"
  /\ IF shown # <<>> /\ view # 2
     THEN detail' = TRUE /\ scroll' = 0
     ELSE UNCHANGED <<detail, scroll>>
  /\ UNCHANGED <<engineVars, listVars, view, stopping, rowVars>>

ScrollActivity(k) ==
  /\ ~detail /\ view = 2
  /\ k \in Ups \cup Downs \cup {"g", "G"}
  /\ scroll' = CASE k \in Downs -> Greatest(0, scroll - 1)
                 [] k \in Ups   -> scroll + 1
                 [] k = "g"     -> Far
                 [] k = "G"     -> 0
  /\ UNCHANGED <<engineVars, listVars, paneVars, stopping, rowVars>>

Browse(k) ==
  /\ ~detail /\ view # 2
  /\ k \in Ups \cup Downs \cup {"g", "G"}
  /\ selected' = CASE k \in Downs -> Greatest(0, Least(Len(shown) - 1, selected + 1))
                   [] k \in Ups   -> Greatest(0, selected - 1)
                   [] k = "g"     -> 0
                   [] k = "G"     -> Greatest(0, Len(shown) - 1)
  /\ UNCHANGED <<engineVars, shown, paneVars, scroll, stopping, rowVars>>

Ignored(k) ==
  /\ ~detail /\ k \notin Keys
  /\ UNCHANGED dashVars

Key(k) ==
  \/ Quit(k) \/ Back(k) \/ Open(k) \/ Switch(k) \/ Ignored(k)
  \/ ScrollDetail(k) \/ ScrollActivity(k) \/ Browse(k)

\* render: an offset ends where the text does, `slack` lines away.
Clamp(slack) ==
  scroll' = IF detail \/ (view = 2 /\ activity # <<>>) THEN Least(scroll, slack) ELSE scroll

\* A tick draws, after it has noted that the context ended.
Render(slack, ended) ==
  /\ stopping' = (stopping \/ ended)
  /\ Clamp(slack)
  /\ UNCHANGED <<engineVars, listVars, paneVars, rowVars>>

-----------------------------------------------------------------------------
\* The lines of one transcript record, none of them unfinished but the last.
Texts == {<<TRUE>>, <<FALSE>>, <<TRUE, FALSE>>}

Next ==
  \/ \E found \in SUBSET Issues, a \in Issues \cup {NoIssue} : Report(found, a)
  \/ \E s \in Streams, ends \in Texts : Transcript(s, ends)
  \/ Message
  \/ \E k \in Keys : Key(k)
  \/ \E slack \in Nat, ended \in BOOLEAN : Render(slack, ended)

Spec == Init /\ [][Next]_dashVars

-----------------------------------------------------------------------------
(* Properties *)

\* Variables have their types.
TypeOK ==
  /\ jobs \subseteq Issues
  /\ active \in Issues \cup {NoIssue}
  /\ shown \in Seq(Issues)
  /\ view \in 0..2
  /\ selected \in Nat
  /\ detail \in BOOLEAN
  /\ scroll \in Nat
  /\ stopping \in BOOLEAN
  /\ activity \in Seq(Seq([of : Streams \cup {Log}, end : BOOLEAN]))
  /\ Len(activity) <= ActivityLimit
  /\ streamKey \in Streams \cup {Log}
  /\ streamOpen \in BOOLEAN

ShownSet == {shown[i] : i \in 1..Len(shown)}

\* A report lists as many saved jobs as fit, in ascending order and each once,
\* the active one among them, and leaves out only jobs older than all the
\* others it lists (progress.go:14).
SnapshotIsRight ==
  [][shown' # shown =>
       /\ Len(shown') = Least(Cardinality(jobs'), Window)
       /\ \A i \in 2..Len(shown') : shown'[i - 1] < shown'[i]
       /\ ShownSet' \subseteq jobs'
       /\ active' # NoIssue => active' \in ShownSet'
       /\ \A n \in jobs' \ ShownSet', m \in ShownSet' \ {active'} : n < m]_dashVars

\* New results leave the open issue open, and the one that a user has browsed
\* to selected, as long as the report still lists it; else the list follows
\* the newest (dashboard.go:62).
CursorIsKept ==
  [][/\ shown' # shown =>
          IF detail \/ selected > 0 THEN Cursor \in ShownSet' => Cursor' = Cursor
          ELSE selected' = 0
     /\ shown' = shown /\ detail /\ detail' => Cursor' = Cursor]_dashVars

\* The selection is an issue of the list, the activity has no detail, and an
\* offset belongs to the pane that is shown, never to the one before.
PaneIsConsistent ==
  /\ shown = <<>> => selected = 0
  /\ shown # <<>> => selected < Len(shown)
  /\ detail => shown # <<>> /\ view # 2
  /\ scroll > 0 => detail \/ view = 2

\* A row has the text of one stream and ends where its line does; a line that
\* came in several records without another in between is one row.
RowsFollowStreams ==
  \A r \in 1..Len(activity) :
    /\ \A i \in 1..Len(activity[r]) :
         /\ activity[r][i].of = activity[r][1].of
         /\ activity[r][i].end => i = Len(activity[r])
    /\ r < Len(activity) /\ activity[r][1].of = activity[r + 1][1].of
         => activity[r][Len(activity[r])].end

=============================================================================
