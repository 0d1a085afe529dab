----------------------------- MODULE WuInstall -----------------------------
(***************************************************************************)
(* windows-update.ps1: the launcher that the host runs over SSH, and the   *)
(* worker that it starts as a scheduled task.  The worker writes a log,    *)
(* whose last line is its result; a launcher follows the log by line       *)
(* number and exits with the result.  An SSH session may drop at any       *)
(* point: the worker goes on, and the next launcher attaches to it if it   *)
(* is running.  The host runs one launcher at a time.                      *)
(*                                                                         *)
(* A worker is known by the number of its run.  The task scheduler keeps   *)
(* at most one instance of a registered task and ignores a start while     *)
(* there is one; an instance that waits to start is shown as queued or not *)
(* at all; unregistering cancels it, and leaves one that runs alone.       *)
(* Registering and starting are one step.  A query of the scheduler that   *)
(* fails is not told from a task that is not there (SilentlyContinue).     *)
(***************************************************************************)
EXTENDS Integers, SequencesExt

CONSTANTS
    Steps,          \* lines a worker logs before its result
    MaxLaunches     \* bound: runs of the script by the host

ASSUME InstallAssumption == Steps \in Nat /\ MaxLaunches \in Nat

VARIABLES
    log,            \* the lines of windows-update.log
    current,        \* the run that is the task's instance, or 0
    worker,         \* of each run: none, waiting, running, finished (its
                    \* result is logged) or ended
    step,           \* of each run: how many lines it has tried to log
    verdict,        \* of each run: the result it came to, or none
    launches,       \* how often the host has run the script
    pc,             \* where the launcher is; idle if there is none
    printed,        \* its $printed
    stoppedSeen,    \* its $stoppedSeen
    misled,         \* history: how often it took the task for stopped while
                    \* it was under way
    graceOver,      \* its start is 30 s ago
    result,         \* its $result: ok, failed, stopped, timed out or none
    follows,        \* history: the run that it started or attached to
    out,            \* history: the lines it passed on to the host, a result
                    \* line as its exit code
    wrote,          \* history: the lines of each run that reached the log
    spoiled         \* history: "log" if a log was emptied beside a worker;
                    \* "task" if one was unregistered while its worker ran

taskVars == <<current, worker, step, verdict, wrote>>
ownVars  == <<launches, pc, printed, stoppedSeen, misled, graceOver, result,
              follows, out>>
vars     == <<log, taskVars, ownVars, spoiled>>

-----------------------------------------------------------------------------
Run == 1..MaxLaunches    \* a launcher starts one worker at most
Result == {"ok", "failed"}
Line == [run : Run, no : 0..Steps, result : Result \cup {"none"}]

Running(w) == worker[w] \in {"running", "finished"}
TaskRunning == current # 0 /\ Running(current)
TaskWaiting == current # 0 /\ worker[current] = "waiting"

Init ==
    /\ log = <<>> /\ current = 0
    /\ worker = [w \in Run |-> "none"] /\ step = [w \in Run |-> 0]
    /\ verdict = [w \in Run |-> "none"] /\ wrote = [w \in Run |-> <<>>]
    /\ launches = 0 /\ pc = "idle" /\ printed = 0
    /\ stoppedSeen = FALSE /\ misled = 0 /\ graceOver = FALSE
    /\ result = "none" /\ follows = 0 /\ out = <<>> /\ spoiled = {}

-----------------------------------------------------------------------------
(* The worker.                                                             *)

\* Out-Log: ten tries, then the line is given up.
OutLog(w, line) ==
    \/ /\ log' = Append(log, line)
       /\ wrote' = [wrote EXCEPT ![w] = Append(@, line)]
    \/ UNCHANGED <<log, wrote>>

WorkerStarts(w) ==
    /\ worker[w] = "waiting"
    /\ worker' = [worker EXCEPT ![w] = "running"]
    /\ UNCHANGED <<log, current, step, verdict, wrote, ownVars, spoiled>>

\* PROGRESS of a search, a download or an install.
WorkerLogs(w) ==
    /\ worker[w] = "running" /\ step[w] < Steps
    /\ step' = [step EXCEPT ![w] = @ + 1]
    /\ OutLog(w, [run |-> w, no |-> step'[w], result |-> "none"])
    /\ UNCHANGED <<current, worker, verdict, ownVars, spoiled>>

\* Nothing to do, everything installed, something failed, or an exception.
WorkerConcludes(w, r) ==
    /\ worker[w] = "running"
    /\ worker' = [worker EXCEPT ![w] = "finished"]
    /\ verdict' = [verdict EXCEPT ![w] = r]
    /\ OutLog(w, [run |-> w, no |-> step[w], result |-> r])
    /\ UNCHANGED <<current, step, ownVars, spoiled>>

\* It exits; or it is killed, by its time limit or an administrator.
WorkerEnds(w) ==
    /\ Running(w)
    /\ worker' = [worker EXCEPT ![w] = "ended"]
    /\ UNCHANGED <<log, current, step, verdict, wrote, ownVars, spoiled>>

-----------------------------------------------------------------------------
(* The launcher.                                                           *)

\* The task is running: its log is followed.
Attach ==
    /\ pc = "idle" /\ launches < MaxLaunches
    /\ TaskRunning
    /\ launches' = launches + 1
    /\ pc' = "read" /\ follows' = current
    /\ UNCHANGED <<log, taskVars, printed, stoppedSeen, misled, graceOver,
                   result, out, spoiled>>

\* There is no task, its state is another one (Ready, Queued), or the query
\* failed: nothing tells the launcher of a worker that runs.
NotRunning ==
    /\ pc = "idle" /\ launches < MaxLaunches
    /\ launches' = launches + 1
    /\ pc' = "clear"
    /\ UNCHANGED <<log, taskVars, printed, stoppedSeen, misled, graceOver,
                   result, follows, out, spoiled>>

\* Mutant of EmptyLog: the log of the last update is left in place.
KeepLog ==
    /\ pc = "clear"
    /\ pc' = "start"
    /\ UNCHANGED <<log, taskVars, launches, printed, stoppedSeen, misled,
                   graceOver, result, follows, out, spoiled>>

\* Set-Content.
EmptyLog ==
    /\ pc = "clear"
    /\ log' = <<>>
    /\ spoiled' = spoiled \cup (IF TaskWaiting \/ \E w \in Run : Running(w)
                             THEN {"log"} ELSE {})
    /\ pc' = "start"
    /\ UNCHANGED <<taskVars, launches, printed, stoppedSeen, misled,
                   graceOver, result, follows, out>>

\* Mutant of StartTask: the task's instance, if any, is not looked at.
StartAnyway ==
    /\ pc = "start"
    /\ pc' = "read" /\ current' = launches /\ follows' = launches
    /\ worker' = [worker EXCEPT ![launches] = "waiting"]
    /\ UNCHANGED <<log, step, verdict, wrote, launches, printed,
                   stoppedSeen, misled, graceOver, result, out, spoiled>>

\* Register-ScheduledTask -Force and Start-ScheduledTask.
StartTask ==
    /\ pc = "start"
    /\ pc' = "read"
    /\ IF TaskRunning \/ TaskWaiting
       THEN UNCHANGED <<current, worker>>
       ELSE /\ current' = launches
            /\ worker' = [worker EXCEPT ![launches] = "waiting"]
    /\ follows' = current'
    /\ UNCHANGED <<log, step, verdict, wrote, launches, printed,
                   stoppedSeen, misled, graceOver, result, out, spoiled>>

ThirtySecondsPass ==
    /\ pc \in {"read", "look"} /\ ~graceOver
    /\ graceOver' = TRUE
    /\ UNCHANGED <<log, taskVars, launches, pc, printed, stoppedSeen,
                   misled, result, follows, out, spoiled>>

\* Mutant of NewLines: one line too many is taken for printed.
NewLinesButOne == SubSeq(log, printed + 2, Len(log))

NewLines == SubSeq(log, printed + 1, Len(log))

\* Mutant of LinesRead: the empty line that Set-Content wrote is counted.
LinesWithBlank == Len(log) + 1

LinesRead == Len(log)

\* Get-Content and the loop over what is new.  A read that fails in the
\* middle of a write is tried again, and changes nothing.
ReadLog ==
    /\ pc = "read"
    /\ LET results == {i \in DOMAIN NewLines : NewLines[i].result # "none"}
       IN  result' = IF results = {} THEN result
                     ELSE NewLines[Max(results)].result
    /\ out' = out \o NewLines
    /\ printed' = LinesRead
    /\ pc' = IF result' = "none" THEN "look" ELSE "end"
    /\ UNCHANGED <<log, taskVars, launches, stoppedSeen, misled, graceOver,
                   follows, spoiled>>

\* The state of the task after that read: still under way, or not yet.
LookAgain ==
    /\ pc = "look"
    /\ TaskRunning \/ TaskWaiting \/ (printed = 0 /\ ~graceOver)
    /\ pc' = "read"
    /\ UNCHANGED <<log, taskVars, launches, printed, stoppedSeen, misled,
                   graceOver, result, follows, out, spoiled>>

\* The query tells of no task under way: there is none, it waits and is not
\* shown, or the query failed.
LooksStopped ==
    /\ pc = "look" /\ (printed # 0 \/ graceOver)
    /\ misled' = misled + (IF TaskRunning \/ TaskWaiting THEN 1 ELSE 0)
    /\ UNCHANGED <<log, taskVars, launches, printed, graceOver, follows,
                   out, spoiled>>

\* Mutant of SeesStopped: the log is not read once more.
SeesStoppedOnce ==
    /\ LooksStopped
    /\ result' = "stopped" /\ pc' = "end" /\ UNCHANGED stoppedSeen

\* Mutant of SeesStopped: that it was seen is not remembered.
SeesStoppedAgain ==
    /\ LooksStopped
    /\ pc' = "read" /\ UNCHANGED <<result, stoppedSeen>>

\* Taken for stopped: the log is read once more before that is an error.
\* $stoppedSeen is never taken back, however much is logged in between.
SeesStopped ==
    /\ LooksStopped
    /\ IF stoppedSeen
       THEN result' = "stopped" /\ pc' = "end" /\ UNCHANGED stoppedSeen
       ELSE stoppedSeen' = TRUE /\ pc' = "read" /\ UNCHANGED result

\* Four hours after the start.
Deadline ==
    /\ pc = "read" /\ graceOver
    /\ result' = "timed out" /\ pc' = "end"
    /\ UNCHANGED <<log, taskVars, launches, printed, stoppedSeen, misled,
                   graceOver, follows, out, spoiled>>

\* The process is gone, with what it knew.
Gone ==
    /\ pc' = "idle" /\ printed' = 0 /\ stoppedSeen' = FALSE /\ misled' = 0
    /\ graceOver' = FALSE /\ result' = "none" /\ follows' = 0 /\ out' = <<>>

\* Unregister-ScheduledTask, which may fail as well, and exit $result.
Exit ==
    /\ pc = "end"
    /\ Gone
    /\ \/ UNCHANGED <<current, worker, spoiled>>
       \/ /\ current' = 0
          /\ worker' = [w \in Run |-> IF worker[w] = "waiting"
                                     THEN "ended" ELSE worker[w]]
          /\ spoiled' = spoiled \cup
                 (IF current # 0 /\ worker[current] = "running"
                  THEN {"task"} ELSE {})
    /\ UNCHANGED <<log, step, verdict, wrote, launches>>

\* The connection is lost and the launcher with it; or one of its commands
\* throws before it follows the log.
SessionDrops ==
    /\ pc # "idle"
    /\ Gone
    /\ UNCHANGED <<log, taskVars, launches, spoiled>>

-----------------------------------------------------------------------------
Work(w) ==
    \/ WorkerStarts(w) \/ WorkerLogs(w) \/ WorkerEnds(w)
    \/ \E r \in Result : WorkerConcludes(w, r)

Launch ==
    \/ EmptyLog \/ StartTask \/ ReadLog \/ LookAgain \/ SeesStopped \/ Exit

Next ==
    \/ \E w \in Run : Work(w)
    \/ Attach \/ NotRunning \/ Launch
    \/ ThirtySecondsPass \/ Deadline \/ SessionDrops

(* A worker that may run is run, and ended by its time limit if need be; a *)
(* launcher goes on, and time passes for it.                               *)
Fairness ==
    /\ \A w \in Run : WF_vars(Work(w))
    /\ WF_vars(Launch) /\ WF_vars(ThirtySecondsPass)

Spec == Init /\ [][Next]_vars /\ Fairness

-----------------------------------------------------------------------------
(* Properties.                                                             *)

HasResult(w) == \E i \in DOMAIN wrote[w] : wrote[w][i].result # "none"

(* Every variable keeps its type; a launcher that follows the log knows    *)
(* whose it is, and has not counted lines that are not there.              *)
TypeOK ==
    /\ log \in Seq(Line) /\ out \in Seq(Line) /\ wrote \in [Run -> Seq(Line)]
    /\ current \in 0..launches /\ launches \in 0..MaxLaunches
    /\ worker \in [Run -> {"none", "waiting", "running", "finished", "ended"}]
    /\ step \in [Run -> 0..Steps]
    /\ verdict \in [Run -> Result \cup {"none"}]
    /\ pc \in {"idle", "clear", "start", "read", "look", "end"}
    /\ {stoppedSeen, graceOver} \subseteq BOOLEAN /\ misled \in 0..2
    /\ spoiled \subseteq {"log", "task"}
    /\ result \in Result \cup {"none", "stopped", "timed out"}
    /\ follows \in 0..launches
    /\ follows # 0 <=> pc \in {"read", "look", "end"}
    /\ printed \in 0..Len(log)

(* What the host is sent is what its worker logged, from the first line,   *)
(* each line once and in order, also by a launcher that attached to an     *)
(* update that another one started (lines 94-95, 107, 115-118).            *)
StreamIsLog == follows # 0 /\ spoiled = {} => IsPrefix(out, wrote[follows])

(* An exit code that was read from the log is the worker's own result, and *)
(* is given when everything before it has been sent: never the result of   *)
(* an update before this one.                                              *)
ResultIsWorkers ==
    result \in Result /\ spoiled = {} =>
        result = verdict[follows] /\ out = wrote[follows]

(* Two workers never install side by side, whatever sessions were dropped  *)
(* and however the next launcher found the task.                           *)
OneInstall ==
    "task" \notin spoiled => \A v, w \in Run :
        worker[v] = "running" /\ worker[w] = "running" => v = w

(* "The update task stopped without reporting a result" (line 125) takes   *)
(* two looks that show no task, and each of them may be wrong.  With none  *)
(* wrong it is true, though the log is read before the task is looked at   *)
(* and the worker may finish in between (line 123).  With one wrong, at    *)
(* any time since the launcher began, the worker has ended, but its result *)
(* may be overlooked; a worker that is still at work is given up only      *)
(* after both (lines 120-129).                                             *)
StoppedIsTrue ==
    [][result = "none" /\ result' = "stopped" =>
           \/ spoiled # {} \/ misled' = 2
           \/ /\ worker[follows] = "ended"
              /\ misled' = 0 => ~HasResult(follows)]_vars

(* The host is never kept waiting: whatever becomes of the worker and of   *)
(* the lines that could not be logged, a launcher comes to an exit code,   *)
(* also without its deadline of four hours.                                *)
LauncherEnds == pc # "idle" ~> pc = "idle"
=============================================================================
