------------------------------ MODULE Lifecycle ------------------------------
(***************************************************************************)
(* What the bot promises about each issue, without a word on how: the      *)
(* decision on record, the pull request on the issue's branch, the agent   *)
(* runs charged to the issue's budget and what the bot's comment says.     *)
(* Scans, calls, failures, crashes and restarts are not visible here; the  *)
(* module Engine is shown to implement it.                                 *)
(***************************************************************************)
EXTENDS Naturals

CONSTANTS
  Issues,   \* the issues
  Attempts  \* agent runs an issue is worth

VARIABLES
  decision,  \* what is on record, "undecided" at first
  pull,      \* the issue's branch has a pull request
  runs,      \* agent runs since the budget was last reset
  comment    \* what the comment of the current claim says

vars == <<decision, pull, runs, comment>>

Decisions == {"submitted", "has_pr", "blocked", "skipped"}

Init ==
  /\ decision = [n \in Issues |-> "undecided"]
  /\ pull = [n \in Issues |-> FALSE]
  /\ runs = [n \in Issues |-> 0]
  /\ comment = [n \in Issues |-> "none"]

\* Only an undecided issue is worked on, and only within its budget.
Work(n) ==
  /\ decision[n] = "undecided" /\ runs[n] < Attempts
  /\ runs' = [runs EXCEPT ![n] = @ + 1]
  /\ UNCHANGED <<decision, pull, comment>>

\* A run that never began costs nothing.
Refund(n) ==
  /\ decision[n] = "undecided" /\ runs[n] > 0
  /\ runs' = [runs EXCEPT ![n] = @ - 1]
  /\ UNCHANGED <<decision, pull, comment>>

\* The bot's pull request is there, whether or not the bot knows.
Appear(n) ==
  /\ ~pull[n]
  /\ pull' = [pull EXCEPT ![n] = TRUE]
  /\ UNCHANGED <<decision, runs, comment>>

\* A decision has its reason: a pull request, or a run that was spent on it.
Decide(n, d) ==
  /\ decision[n] = "undecided"
  /\ d = "submitted" => pull'[n]
  /\ d = "blocked" => pull'[n] \/ runs[n] > 0
  /\ d = "skipped" => runs[n] > 0
  /\ decision' = [decision EXCEPT ![n] = d]
  /\ pull' \in {pull, [pull EXCEPT ![n] = TRUE]}
  /\ UNCHANGED <<runs, comment>>

\* The comment says Working only of an undecided issue ...
Claim(n) ==
  /\ decision[n] = "undecided"
  /\ comment' \in {[comment EXCEPT ![n] = s] : s \in {"none", "working"}}
  /\ UNCHANGED <<decision, pull, runs>>

Release(n) ==
  /\ comment' = [comment EXCEPT ![n] = "released"]
  /\ UNCHANGED <<decision, pull, runs>>

\* ... and Done only when there is a pull request.  The decision it stands for
\* is on record by then, but the operator's retry may have withdrawn it.
Announce(n) ==
  /\ pull[n]
  /\ comment' = [comment EXCEPT ![n] = "done"]
  /\ UNCHANGED <<decision, pull, runs>>

\* The operator gives blocked and undecided issues a fresh budget ...
Retry(chosen) ==
  /\ \A n \in chosen : decision[n] \in {"undecided", "blocked"}
  /\ decision' = [n \in Issues |-> IF n \in chosen THEN "undecided" ELSE decision[n]]
  /\ runs' = [n \in Issues |-> IF n \in chosen THEN 0 ELSE runs[n]]
  /\ UNCHANGED <<pull, comment>>

\* ... or has one that has a pull request done again, without that one.
Requeue(n) ==
  /\ pull[n]
  /\ decision' = [decision EXCEPT ![n] = "undecided"]
  /\ pull' = [pull EXCEPT ![n] = FALSE]
  /\ runs' = [runs EXCEPT ![n] = 0]
  /\ UNCHANGED comment

Next ==
  \/ \E n \in Issues :
       \/ Work(n) \/ Refund(n) \/ Appear(n)
       \/ \E d \in Decisions : Decide(n, d)
       \/ Claim(n) \/ Release(n) \/ Announce(n)
       \/ Requeue(n)
  \/ \E chosen \in SUBSET Issues : Retry(chosen)

Spec == Init /\ [][Next]_vars

=============================================================================
