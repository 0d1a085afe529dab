--------------------------- MODULE WindowsUpdate ---------------------------
(***************************************************************************)
(* The Windows Update collector (client/collectors/windows_update.py) in   *)
(* the report loop: collect() answers at once with what a search of the    *)
(* local update cache last found, and starts another in a background       *)
(* thread (_refresh) when that is old.  Both share _state under _lock;     *)
(* each section under the lock is one action.                              *)
(*                                                                         *)
(* An optional value (None) is a set with at most one element.  The age of *)
(* the answer is a difference of time.time(), which may be set, counted up *)
(* to one more than its limit.  The dates in an answer are days old where  *)
(* the interval is an hour: a tick may or may not end a day, and the clock *)
(* is not set back by days.  While the system is out of order PowerShell   *)
(* fails or no thread can be started.  The other collectors are in Report. *)
(***************************************************************************)
EXTENDS Integers

CONSTANTS
    RefreshAfter,   \* REFRESH_SECONDS, in units of time
    FlagAfter,      \* the age in days from which the host flags a machine
    MaxClockSteps,  \* bound on the times the clock is set
    MaxCrashes      \* bound on the times the process dies

ASSUME UpdateAssumption ==
    /\ {RefreshAfter, FlagAfter} \subseteq Nat \ {0}
    /\ {MaxClockSteps, MaxCrashes} \subseteq Nat

VARIABLES
    at,             \* the main thread: down, collecting, or elsewhere
    raw,            \* _state["raw"]: what the last search found
    resultAge,      \* time.time() - _state["at"]
    running,        \* _state["running"]
    search,         \* where _refresh is: idle, asking, stored
    windows,        \* Windows' own record: updates pending, ages of its dates
    works,          \* PowerShell answers and threads start
    sinceSearch,    \* history: true time since a search was stored
    excused,        \* history: a restart or a clock set forward since then
    wedged,         \* history: Thread.start raised in this process
    clockSteps, crashes

state   == <<raw, resultAge, running, search>>
history == <<sinceSearch, excused, wedged>>
budgets == <<clockSteps, crashes>>
vars    == <<at, state, windows, works, history, budgets>>

-----------------------------------------------------------------------------
Older(age)   == IF age <= RefreshAfter THEN age + 1 ELSE age
Younger(age) == IF age > RefreshAfter THEN {age - 1, age} ELSE {age - 1}
Aged(date) == {IF age < FlagAfter THEN age + 1 ELSE age : age \in date}

\* Mutant of Passed: the ages are computed when the answer is stored.
PassedFrozen(answer) == answer

\* _age: an answer holds dates, whose ages are taken when a report is made.
Passed(answer) ==
    [answer EXCEPT !.searched = Aged(@), !.installed = Aged(@)]

\* A clock set forward passes every limit, also the one of the host.
Flagged(date) == {FlagAfter : age \in date}
Late(answer) ==
    [answer EXCEPT !.searched = Flagged(@), !.installed = Flagged(@)]

\* What the script may answer: its offline search may fail by itself.
Answers ==
    {[windows EXCEPT !.pending = p] : p \in {windows.pending, "unknown"}}

Init ==
    /\ at = "collect"
    /\ raw = {} /\ resultAge = RefreshAfter + 1
    /\ running = FALSE /\ search = "idle"
    /\ \E p \in {"none", "some"}, s, i \in {{}, {0}} :
           /\ i # {} => s # {}
           /\ windows = [pending |-> p, searched |-> s, installed |-> i]
    /\ works = TRUE
    /\ sinceSearch = RefreshAfter + 1 /\ excused = FALSE /\ wedged = FALSE
    /\ clockSteps = 0 /\ crashes = 0

-----------------------------------------------------------------------------
(* The machine.                                                            *)

Tick ==
    /\ resultAge' = Older(resultAge)
    /\ \/ UNCHANGED <<raw, windows>>
       \/ /\ raw' = {Passed(r) : r \in raw}
          /\ windows' = [windows EXCEPT !.searched = Aged(@),
                                        !.installed = Aged(@)]
    /\ sinceSearch' = Older(sinceSearch)
    /\ UNCHANGED <<at, running, search, works, excused, wedged, budgets>>

ClockForward ==
    /\ clockSteps < MaxClockSteps
    /\ clockSteps' = clockSteps + 1
    /\ resultAge' = RefreshAfter + 1
    /\ raw' = {Late(r) : r \in raw} /\ windows' = Late(windows)
    /\ excused' = TRUE
    /\ UNCHANGED <<at, running, search, works, sinceSearch, wedged, crashes>>

ClockBack ==
    /\ clockSteps < MaxClockSteps
    /\ clockSteps' = clockSteps + 1
    /\ resultAge' \in Younger(resultAge)
    /\ UNCHANGED <<at, raw, running, search, windows, works, history, crashes>>

\* Windows looks for updates, or installs some of those it found.
WindowsActs ==
    /\ \E p \in {"none", "some"}, date \in {"searched", "installed"} :
           /\ date = "installed" => windows.searched # {}
           /\ windows' = [windows EXCEPT !.pending = p, ![date] = {0}]
    /\ UNCHANGED <<at, state, works, history, budgets>>

BreaksOrRecovers ==
    /\ works' = ~works
    /\ UNCHANGED <<at, state, windows, history, budgets>>

Crash ==
    /\ at # "down"
    /\ crashes < MaxCrashes
    /\ crashes' = crashes + 1
    /\ at' = "down"
    /\ search' = "idle"
    /\ UNCHANGED <<raw, resultAge, running, windows, works, history, clockSteps>>

\* The watchdog trigger of the scheduled task starts a new process.
Restart ==
    /\ at = "down"
    /\ at' = "collect"
    /\ raw' = {} /\ resultAge' = RefreshAfter + 1 /\ running' = FALSE
    /\ excused' = TRUE /\ wedged' = FALSE
    /\ UNCHANGED <<search, windows, works, sinceSearch, budgets>>

-----------------------------------------------------------------------------
(* _refresh, in its thread.                                                *)

\* Mutant of Keep: the answer is stored whatever it is.
KeepAny(answer) == raw' = answer

\* Mutant of Keep: the old answer is kept beside the new one.
KeepBoth(answer) == raw' = raw \cup answer

\* A search that failed (None) does not replace an answer.
Keep(answer) == raw' = (IF answer # {} \/ raw = {} THEN answer ELSE raw)

\* powershell_json has returned; the first section under the lock.
SearchStores ==
    /\ search = "asking"
    /\ search' = "stored"
    /\ \/ works /\ \E answer \in Answers : Keep({answer})
       \/ ~works /\ Keep({})
    /\ resultAge' = 0
    /\ sinceSearch' = 0 /\ excused' = FALSE
    /\ UNCHANGED <<at, running, windows, works, wedged, budgets>>

\* Mutant of SearchRaises: _refresh has no finally clause.
SearchDies ==
    /\ search = "asking" /\ ~works
    /\ search' = "idle"
    /\ UNCHANGED <<at, raw, resultAge, running, windows, works, history, budgets>>

\* subprocess cannot start the threads that read the pipes: not an OSError.
SearchRaises ==
    /\ search = "asking" /\ ~works
    /\ search' = "stored"
    /\ UNCHANGED <<at, raw, resultAge, running, windows, works, history, budgets>>

\* Mutant of SearchEnds: the flag is reset before the answer is stored.
SearchEndsEarly ==
    /\ search # "idle"
    /\ running' = FALSE
    /\ search' = (IF search = "stored" THEN "idle" ELSE search)
    /\ UNCHANGED <<at, raw, resultAge, windows, works, history, budgets>>

\* The finally clause: the second section under the lock.
SearchEnds ==
    /\ search = "stored"
    /\ search' = "idle"
    /\ running' = FALSE
    /\ UNCHANGED <<at, raw, resultAge, windows, works, history, budgets>>

-----------------------------------------------------------------------------
(* collect, in the main thread.                                            *)

\* Mutant of SearchDue: a search is started whenever none is under way.
SearchAlwaysDue == ~running

SearchDue == resultAge > RefreshAfter /\ ~running

\* The section under the lock.
Collect ==
    /\ at = "collect"
    /\ at' = "elsewhere"
    /\ IF SearchDue
       THEN running' = TRUE /\ search' = "asking"
       ELSE UNCHANGED <<running, search>>
    /\ UNCHANGED <<raw, resultAge, windows, works, history, budgets>>

\* Thread.start raises: the flag stays set, and the report is lost.
SearchThreadFails ==
    /\ at = "collect" /\ ~works /\ SearchDue
    /\ at' = "elsewhere"
    /\ running' = TRUE /\ wedged' = TRUE
    /\ UNCHANGED <<raw, resultAge, search, windows, works, sinceSearch,
                   excused, budgets>>

\* The rest of a report, the pause and what comes first in the next report.
NextReport ==
    /\ at = "elsewhere"
    /\ at' = "collect"
    /\ UNCHANGED <<state, windows, works, history, budgets>>

Main   == Collect \/ SearchThreadFails \/ NextReport
Search == SearchStores \/ SearchRaises \/ SearchEnds

Next ==
    \/ Tick \/ ClockForward \/ ClockBack \/ WindowsActs \/ BreaksOrRecovers
    \/ Crash \/ Restart \/ Search \/ Main

(* Time passes, the watchdog restarts the task, PowerShell is killed after *)
(* its timeout, and the loop goes on.                                      *)
Fairness ==
    WF_vars(Tick) /\ WF_vars(Restart) /\ WF_vars(Search) /\ WF_vars(Main)

Spec == Init /\ [][Next]_vars /\ Fairness

-----------------------------------------------------------------------------
(* What a report says of updates: summarize.                               *)

\* Mutant of AgesShown: the date of the install is used whatever is pending.
AgesOfAny(r) == IF r.installed # {} THEN r.installed ELSE r.searched

\* "_age(installed) or _age(searched)": an age of 0.0 (a date that is not yet
\* past) is passed over like None.
AgesShown(r) ==
    IF r.pending = "some" /\ r.installed # {}
    THEN r.installed \cup (IF 0 \in r.installed THEN r.searched ELSE {})
    ELSE r.searched

AgeKnown == \E r \in raw : AgesShown(r) # {}

-----------------------------------------------------------------------------
(* Properties.                                                             *)

Ages   == (-MaxClockSteps)..(RefreshAfter + 1)
Dates  == {{}} \cup {{age} : age \in 0..FlagAfter}
Answer == [pending : {"none", "some", "unknown"}, searched : Dates,
           installed : Dates]

(* Every variable keeps its type: one search at a time, one answer kept.   *)
TypeOK ==
    /\ at \in {"down", "collect", "elsewhere"}
    /\ {running, works, excused, wedged} \subseteq BOOLEAN
    /\ raw \in {{}} \cup {{r} : r \in Answer}
    /\ windows \in Answer /\ windows.pending # "unknown"
    /\ resultAge \in Ages /\ sinceSearch \in 0..(RefreshAfter + 1)
    /\ search \in {"idle", "asking", "stored"}
    /\ clockSteps \in 0..MaxClockSteps /\ crashes \in 0..MaxCrashes

(* The flag tells of the thread, whoever wrote it last: it is set exactly  *)
(* while a search is under way (windows_update.py:90-92, 80-82), but for   *)
(* the process whose Thread.start raised, which keeps it set for good.     *)
RunningIsTrue ==
    at # "down" => (running <=> search # "idle" \/ wedged)

(* "A machine whose Windows Update is broken still ages and gets flagged"  *)
(* (windows_update.py:51-54): whatever was cached and whenever, the age    *)
(* shown is never less than the true time since the last search or, with   *)
(* updates waiting, since the last install.                                *)
AgeNeverFlatters ==
    \A r \in raw : \A shown \in AgesShown(r) :
        \A age \in (IF r.pending = "some" THEN windows.installed
                    ELSE windows.searched) : shown >= age

(* Searches of the update cache, which are slow, start more than           *)
(* RefreshAfter after the last one that PowerShell ended, unless the agent *)
(* was restarted or the clock set forward in between (lines 79 and 89).    *)
SearchesAreSpaced ==
    [][search = "idle" /\ search' = "asking" =>
           sinceSearch > RefreshAfter \/ excused]_vars

(* Once a report has shown an age, the next ones do too as long as the     *)
(* process lives: neither a search that fails (lines 77-79) nor one that   *)
(* finds no count (line 25) hides how long the machine has been without    *)
(* updates.                                                                *)
AgeStaysKnown == [][AgeKnown => AgeKnown' \/ at = "down"]_vars

(* When PowerShell works again there is an answer again, whatever failed   *)
(* before: no search that ended badly keeps the next from being made.      *)
Recovers == <>[]works => <>[](raw # {} \/ wedged)
=============================================================================
