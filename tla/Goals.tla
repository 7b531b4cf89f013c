------------------------------- MODULE Goals -------------------------------
(***************************************************************************)
(* Standing goals of one conversation: /goal and /subgoal, the CLI's goal  *)
(* commands, the row in session_goals, and the judge that is asked after a *)
(* turn, outside the turn, whether the goal is met.                        *)
(*                                                                         *)
(* The commands name the goal by the worker's routing key ("raw").  A turn *)
(* looks it up by the thread id resolveSessionThreadId returns, which is   *)
(* the key with a session suffix ("suffixed") unless the resolver fails.   *)
(***************************************************************************)
EXTENDS Naturals, FiniteSets

CONSTANTS
  MaxGoals,          \* bound: goals set
  MaxGoalTurns,      \* bound: turns of the conversation
  MaxJudges,         \* bound: judges in flight at once
  TurnBudget,        \* maxTurns
  MaxParseFailures,  \* maxConsecutiveParseFailures
  MaxSubgoals,       \* MAX_SUBGOALS_PER_GOAL
  ResolverMayFail    \* TRUE when the session lookup of a turn can throw

ASSUME GoalBounds == {TurnBudget, MaxParseFailures, MaxSubgoals} \subseteq Nat

GoalKeys == {"raw", "suffixed"}
NoGoal == [status |-> "absent", goal |-> 0, used |-> 0, fails |-> 0, subgoals |-> 0, judged |-> 0]

VARIABLES
  goals,       \* session_goals, by thread id
  goalCount,   \* goals set so far, the last goal's name
  judges,      \* judge calls in flight: the row as it was read
  goalTurns,   \* turns of this conversation that ended
  overtaken,   \* goals that were set while a judge of an earlier one was out
  unjudged     \* TRUE once a turn ended under an active goal and asked no judge

goalVars == <<goals, goalCount, judges, goalTurns, overtaken, unjudged>>

GoalsInit ==
  /\ goals = [k \in GoalKeys |-> NoGoal]
  /\ goalCount = 0 /\ judges = {} /\ goalTurns = 0
  /\ overtaken = {} /\ unjudged = FALSE

(* /goal <text>: upsertSessionGoal overwrites every column but created_at *)
FreshRowKeepsStatus ==
  [NoGoal EXCEPT !.status = IF goals["raw"].status = "absent" THEN "active" ELSE goals["raw"].status,
                 !.goal = goalCount + 1]
FreshRow == [NoGoal EXCEPT !.status = "active", !.goal = goalCount + 1]
UpsertSessionGoal(row) == [goals EXCEPT !["raw"] = row]
SetGoal ==
  /\ goalCount < MaxGoals
  /\ goalCount' = goalCount + 1
  /\ goals' = UpsertSessionGoal(FreshRow)
  /\ overtaken' = IF judges = {} THEN overtaken ELSE overtaken \cup {goalCount + 1}
  /\ UNCHANGED <<judges, goalTurns, unjudged>>

(* /goal pause|resume|clear, and the same from the CLI on the database *)
PatchGoal(row) ==
  /\ goals["raw"].status # "absent" /\ row # goals["raw"]
  /\ goals' = [goals EXCEPT !["raw"] = row]
  /\ UNCHANGED <<goalCount, judges, goalTurns, overtaken, unjudged>>
PauseGoal == PatchGoal([goals["raw"] EXCEPT !.status = "paused"])
ResumeGoal == PatchGoal([goals["raw"] EXCEPT !.status = "active", !.used = 0, !.fails = 0])
ClearGoal == PatchGoal(NoGoal)

(* /subgoal: only an active goal takes more, up to the cap *)
AddSubgoal ==
  /\ goals["raw"].status = "active" /\ goals["raw"].subgoals < MaxSubgoals
  /\ PatchGoal([goals["raw"] EXCEPT !.subgoals = @ + 1])
RemoveSubgoal == goals["raw"].subgoals > 0 /\ PatchGoal([goals["raw"] EXCEPT !.subgoals = @ - 1])
ClearSubgoals == PatchGoal([goals["raw"] EXCEPT !.subgoals = 0])

-----------------------------------------------------------------------------
(* dispatchPostTurn: a finished turn reads its row; an exhausted budget    *)
(* pauses the goal at once, otherwise the judge is called.                 *)
LookupKey(resolved) == IF resolved THEN "suffixed" ELSE "raw"
OneOverBudget(row) == row.used <= TurnBudget
WithinBudget(row) == row.used + 1 <= TurnBudget
TurnUnderGoal(resolved) ==
  LET k == LookupKey(resolved)  row == goals[k]  asks == row.status = "active" /\ WithinBudget(row) IN
  /\ goalTurns < MaxGoalTurns /\ (asks => Cardinality(judges) < MaxJudges)
  /\ resolved \/ ResolverMayFail
  /\ goalTurns' = goalTurns + 1
  /\ judges' = IF asks THEN judges \cup {[key |-> k, row |-> row, n |-> goalTurns]} ELSE judges
  /\ goals' = IF row.status = "active" /\ ~asks THEN [goals EXCEPT ![k].status = "paused"] ELSE goals
  /\ unjudged' = (unjudged \/ (goals["raw"].status = "active" /\ k # "raw"))
  /\ UNCHANGED <<goalCount, overtaken>>

(* What judge() returns: a reply it cannot parse is "skipped", a call that *)
(* throws or times out is "continue".                                      *)
Verdicts == {"done", "continue", "skipped"}

(* The row a verdict writes: the counters come from the row as it was read *)
(* before the call, the status only when it changes, and a row deleted     *)
(* meanwhile stays deleted.  A failed call counts as "continue".           *)
Judged(j, verdict) ==
  LET now == goals[j.key]  fails == j.row.fails + 1 IN
  IF now.status = "absent" THEN now
  ELSE IF verdict = "skipped" /\ fails >= MaxParseFailures
       THEN [now EXCEPT !.status = "paused", !.fails = fails, !.judged = j.row.goal]
       ELSE [now EXCEPT !.status = IF verdict = "done" THEN "done" ELSE now.status,
                        !.used = j.row.used + 1,
                        !.fails = IF verdict = "skipped" THEN fails ELSE 0,
                        !.judged = j.row.goal]

(* The verdict arrives.  A continuation is routed as a message of a peer   *)
(* whose id is the whole routing key, so it opens a conversation of its    *)
(* own, which has no goal: it leaves nothing behind here.                  *)
JudgeAnswers(j, verdict) ==
  /\ j \in judges
  /\ judges' = judges \ {j}
  /\ goals' = [goals EXCEPT ![j.key] = Judged(j, verdict)]
  /\ UNCHANGED <<goalCount, goalTurns, overtaken, unjudged>>

GoalsNext ==
  \/ SetGoal \/ PauseGoal \/ ResumeGoal \/ ClearGoal
  \/ AddSubgoal \/ RemoveSubgoal \/ ClearSubgoals
  \/ \E r \in BOOLEAN : TurnUnderGoal(r)
  \/ \E j \in judges, v \in Verdicts : JudgeAnswers(j, v)

-----------------------------------------------------------------------------
(* A goal is done by a verdict about itself.  The one exception the code   *)
(* leaves open is a goal set while the judge of the goal before it was     *)
(* still out: that verdict is written to whatever row is there.            *)
DoneByOwnVerdict ==
  \A k \in GoalKeys : goals[k].status = "done" =>
     goals[k].judged = goals[k].goal \/ goals[k].goal \in overtaken

(* The counter never passes the budget, although judges overlap and write  *)
(* counters they read before.                                              *)
BudgetHolds == \A k \in GoalKeys : goals[k].used <= TurnBudget

(* "Set a standing goal the agent works toward until done": a turn that    *)
(* ends under an active goal is judged.                                    *)
GoalIsDriven == ~unjudged
=============================================================================
