----------------------------- MODULE LinuxAgent -----------------------------
(***************************************************************************)
(* The agent on a native Linux install, run as root: run_forever           *)
(* (client/main.py) gathers a report and posts it, over and over; the apt  *)
(* collector (client/collectors/apt.py) also refreshes the package lists   *)
(* in a background thread, when they are old and no attempt was made       *)
(* lately.                                                                 *)
(*                                                                         *)
(* Ages are differences of time.time(), which the system may set forward   *)
(* or back; they are counted up to the limit the code compares them with.  *)
(* A clock set forward (a suspend, a late NTP sync) passes every limit.    *)
(* Package lists exist.  A daemon thread and its apt-get die with the      *)
(* service (control group); systemd starts it again after a failure.  The  *)
(* other collectors either return or raise, and what the host does with a  *)
(* report is not modelled.                                                 *)
(***************************************************************************)
EXTENDS Integers

CONSTANTS
    RetryAfter,     \* RETRY_AFTER, in units of time
    RefreshAfter,   \* REFRESH_AFTER
    MaxClockSteps,  \* bound on the times the clock is set
    MaxCrashes      \* bound on the times the process dies

ASSUME AgentAssumption ==
    /\ RetryAfter \in Nat \ {0}
    /\ RefreshAfter \in Nat \ {0}
    /\ {MaxClockSteps, MaxCrashes} \subseteq Nat

VARIABLES
    at,             \* where the main thread is in run_forever
    cycle,          \* the last report: what it says of apt, or what dropped it
    tried,          \* time.time() - _refresh["tried"]
    running,        \* _refresh["running"]
    updating,       \* how many threads are in _run_update
    listAge,        \* time.time() - the newest mtime of apt's lists
    seenAge,        \* the same for the mtime that collect() read
    behind,         \* history: parts of the report older than the lists
    sinceTry,       \* history: true time since an update was started
    excused,        \* history: since then a restart or a clock set forward
    wedged,         \* history: Thread.start raised in this process
    clockSteps, crashes

loop    == <<at, cycle>>
refresh == <<tried, running, updating>>
lists   == <<listAge, seenAge, behind>>
history == <<sinceTry, excused, wedged>>
budgets == <<clockSteps, crashes>>
vars    == <<loop, refresh, lists, history, budgets>>

-----------------------------------------------------------------------------
Older(age, limit) == IF age < limit THEN age + 1 ELSE limit

\* The ages an age may have after the clock is set back by one unit.
Younger(age, limit) ==
    IF age = limit THEN {limit - 1, limit} ELSE {age - 1}

Init ==
    /\ at = "early" /\ cycle = "none"
    /\ tried = RetryAfter /\ running = FALSE /\ updating = 0
    /\ listAge \in 0..RefreshAfter /\ seenAge = listAge /\ behind = {}
    /\ sinceTry = RetryAfter /\ excused = FALSE /\ wedged = FALSE
    /\ clockSteps = 0 /\ crashes = 0

-----------------------------------------------------------------------------
(* Time and the world.                                                     *)

Tick ==
    /\ tried' = Older(tried, RetryAfter)
    /\ listAge' = Older(listAge, RefreshAfter)
    /\ seenAge' = Older(seenAge, RefreshAfter)
    /\ sinceTry' = Older(sinceTry, RetryAfter)
    /\ UNCHANGED <<loop, running, updating, behind, excused, wedged, budgets>>

ClockForward ==
    /\ clockSteps < MaxClockSteps
    /\ clockSteps' = clockSteps + 1
    /\ tried' = RetryAfter
    /\ listAge' = RefreshAfter /\ seenAge' = RefreshAfter
    /\ excused' = TRUE
    /\ UNCHANGED <<loop, running, updating, behind, sinceTry, wedged, crashes>>

ClockBack ==
    /\ clockSteps < MaxClockSteps
    /\ clockSteps' = clockSteps + 1
    /\ tried' \in Younger(tried, RetryAfter)
    /\ listAge' \in Younger(listAge, RefreshAfter)
    /\ seenAge' \in Younger(seenAge, RefreshAfter)
    /\ UNCHANGED <<loop, running, updating, behind, history, crashes>>

\* apt-get update, started here or by somebody else, replaces the lists.
ListsReplaced ==
    /\ listAge' = 0
    /\ behind' = {"age", "count"}
    /\ UNCHANGED <<loop, refresh, seenAge, history, budgets>>

Crash ==
    /\ at # "down"
    /\ crashes < MaxCrashes
    /\ crashes' = crashes + 1
    /\ at' = "down"
    /\ updating' = 0
    /\ UNCHANGED <<cycle, tried, running, lists, history, clockSteps>>

\* systemd: Restart=on-failure.  The module starts with _refresh anew.
Restart ==
    /\ at = "down"
    /\ at' = "early"
    /\ cycle' = "none"
    /\ tried' = RetryAfter /\ running' = FALSE
    /\ excused' = TRUE /\ wedged' = FALSE
    /\ UNCHANGED <<updating, lists, sinceTry, budgets>>

-----------------------------------------------------------------------------
(* _run_update, in a thread.                                               *)

\* Mutant of UpdateEnds: running is reset only where apt-get succeeded.
UpdateEndsInError ==
    /\ updating > 0
    /\ updating' = updating - 1
    /\ running' \in {running, FALSE}
    /\ UNCHANGED <<loop, tried, lists, history, budgets>>

\* apt-get succeeds, fails or is killed after its timeout: in every case the
\* finally clause runs.
UpdateEnds ==
    /\ updating > 0
    /\ updating' = updating - 1
    /\ running' = FALSE
    /\ UNCHANGED <<loop, tried, lists, history, budgets>>

-----------------------------------------------------------------------------
(* run_forever, gather_report and apt.collect.                             *)

\* system, tailscale, ssh_auth, docker_containers and users.
CollectFirst ==
    /\ at = "early"
    /\ at' = "mtime"
    /\ UNCHANGED <<cycle, refresh, lists, history, budgets>>

\* journalctl takes more than 10 s: subprocess.TimeoutExpired is not caught in
\* _lines_from_journalctl, unlike a missing journalctl or one that fails.
JournalTimesOut ==
    /\ at = "early"
    /\ at' = "sleep"
    /\ cycle' = "timeout"
    /\ UNCHANGED <<refresh, lists, history, budgets>>

\* Mutant of CollectorRaises: run_forever has no try.
CollectorKills ==
    /\ at \in {"early", "late"}
    /\ at' = "down"
    /\ cycle' = "raised"
    /\ UNCHANGED <<refresh, lists, history, budgets>>

\* Another exception of a collector other than apt; run_forever logs it.
CollectorRaises ==
    /\ at \in {"early", "late"}
    /\ at' = "sleep"
    /\ cycle' = "raised"
    /\ UNCHANGED <<refresh, lists, history, budgets>>

\* _last_refresh_mtime.
ReadMtime ==
    /\ at = "mtime"
    /\ at' = "decide"
    /\ seenAge' = listAge
    /\ behind' = behind \ {"age"}
    /\ UNCHANGED <<cycle, refresh, listAge, history, budgets>>

\* A list file goes away between iterdir and stat: collect() gives up.
ReadMtimeFails ==
    /\ at = "mtime"
    /\ at' = "late"
    /\ cycle' = "missing"
    /\ UNCHANGED <<refresh, lists, history, budgets>>

\* Mutant of Due: _refresh["running"] is not looked at.
DueWhileRunning == tried >= RetryAfter /\ seenAge >= RefreshAfter

\* The conditions of _refresh_if_stale.
Due == ~running /\ tried >= RetryAfter /\ seenAge >= RefreshAfter

NoRefresh ==
    /\ at = "decide"
    /\ ~Due
    /\ at' = "count"
    /\ UNCHANGED <<cycle, refresh, lists, history, budgets>>

\* Mutant of MarkTried: only a finished update counts as tried.
MarkRunning == running' = TRUE /\ UNCHANGED tried

MarkTried == running' = TRUE /\ tried' = 0

StartRefresh ==
    /\ at = "decide"
    /\ Due
    /\ at' = "count"
    /\ MarkTried
    /\ updating' = updating + 1
    /\ sinceTry' = 0 /\ excused' = FALSE
    /\ UNCHANGED <<cycle, lists, wedged, budgets>>

\* Thread.start raises (no more threads): running stays set, and collect()
\* reports apt as not available.
RefreshThreadFails ==
    /\ at = "decide"
    /\ Due
    /\ at' = "late"
    /\ cycle' = "missing"
    /\ MarkTried
    /\ sinceTry' = 0 /\ excused' = FALSE
    /\ wedged' = TRUE
    /\ UNCHANGED <<updating, lists, budgets>>

\* Mutant of CountUpgradable: the count of an earlier report is used again.
CountCached ==
    /\ at = "count"
    /\ at' = "late"
    /\ cycle' = "shown"
    /\ UNCHANGED <<refresh, lists, history, budgets>>

\* _upgradable_count; without an answer the report has the age alone.
CountUpgradable ==
    /\ at = "count"
    /\ at' = "late"
    /\ cycle' = "shown"
    /\ behind' = behind \ {"count"}
    /\ UNCHANGED <<refresh, listAge, seenAge, history, budgets>>

\* subprocess.run raises something else (no memory for a process, output that
\* is not text): collect() gives up, also where a refresh was just started.
CountFails ==
    /\ at = "count"
    /\ at' = "late"
    /\ cycle' = "missing"
    /\ UNCHANGED <<refresh, lists, history, budgets>>

\* power.collect; then send_report, which may fail in many ways, all of them
\* caught there or in run_forever.
CollectLast ==
    /\ at = "late"
    /\ at' = "post"
    /\ UNCHANGED <<cycle, refresh, lists, history, budgets>>

Post ==
    /\ at = "post"
    /\ at' = "sleep"
    /\ UNCHANGED <<cycle, refresh, lists, history, budgets>>

Wake ==
    /\ at = "sleep"
    /\ at' = "early"
    /\ UNCHANGED <<cycle, refresh, lists, history, budgets>>

Main ==
    \/ CollectFirst \/ JournalTimesOut \/ CollectorRaises
    \/ ReadMtime \/ ReadMtimeFails
    \/ NoRefresh \/ StartRefresh \/ RefreshThreadFails
    \/ CountUpgradable \/ CountFails
    \/ CollectLast \/ Post \/ Wake

Next ==
    \/ Tick \/ ClockForward \/ ClockBack \/ ListsReplaced \/ Crash \/ Restart
    \/ UpdateEnds \/ Main

(* Time passes, systemd restarts the service, apt-get is killed after 600  *)
(* s and every call of the main thread that can block has a timeout.       *)
Fairness ==
    WF_vars(Tick) /\ WF_vars(Restart) /\ WF_vars(UpdateEnds) /\ WF_vars(Main)

Spec == Init /\ [][Next]_vars /\ Fairness

-----------------------------------------------------------------------------
(* Properties.                                                             *)

TypeAges ==
    /\ tried \in (-MaxClockSteps)..RetryAfter
    /\ {listAge, seenAge} \subseteq (-MaxClockSteps)..RefreshAfter
    /\ sinceTry \in 0..RetryAfter

TypeFlags ==
    /\ {running, excused, wedged} \subseteq BOOLEAN
    /\ behind \subseteq {"age", "count"}

TypeRest ==
    /\ at \in {"down", "early", "mtime", "decide", "count", "late", "post",
              "sleep"}
    /\ cycle \in {"none", "timeout", "raised", "missing", "shown"}
    /\ updating \in {0, 1}
    /\ clockSteps \in 0..MaxClockSteps /\ crashes \in 0..MaxCrashes

(* Every variable keeps its type; at most one apt-get update of this agent  *)
(* is under way (apt.py:65), and no age is further below 0 than the clock   *)
(* was set back.                                                           *)
TypeOK == TypeAges /\ TypeFlags /\ TypeRest

(* The running flag and the thread agree, whoever wrote the flag last: it  *)
(* is set exactly while one update is under way (lines 67-68, 55), but for *)
(* the process whose Thread.start raised, which keeps it set for good.     *)
RunningIsTrue ==
    at # "down" => updating = (IF running /\ ~wedged THEN 1 ELSE 0)

(* "tried at most once an hour" (apt.py:18-21): two updates are started    *)
(* RetryAfter of true time apart, whatever became of the first and also    *)
(* when the clock was set back, unless the agent was restarted or the      *)
(* clock was set forward in between.                                       *)
TriesAreSpaced ==
    [][updating' > updating => sinceTry = RetryAfter \/ excused]_vars

(* A report never shows its package lists as newer than the ones its count *)
(* of upgradable packages was made from, though both are read while an     *)
(* update may be replacing them: the mtime is read first (lines 95-97).    *)
AgeNeverFlatters ==
    at \in {"late", "post"} /\ cycle = "shown" /\ "count" \in behind =>
        "age" \in behind

(* Old lists are noticed: an update is started, unless somebody else made  *)
(* one, the process died, or a report did not get as far as the decision.  *)
(* The process whose Thread.start raised never tries again.                *)
StaleIsTried ==
    at # "down" /\ listAge = RefreshAfter ~>
        \/ updating > 0 \/ listAge < RefreshAfter
        \/ at = "down" \/ wedged \/ cycle \in {"timeout", "raised", "missing"}

(* The agent reports for ever: no exception of a collector, no update and  *)
(* no failed send ends or blocks the loop (main.py:49-62).                 *)
ReportsGoOn == []<>(at = "sleep")

(* The inductive invariant: no update outlives the process, nothing resets *)
(* the flag of one that did not start, an age is below 0 only for a clock  *)
(* set back, and what the agent takes for the time since its last try is   *)
(* never more than the true time.                                          *)
Updates ==
    /\ at = "down" => updating = 0
    /\ wedged => running
Ages ==
    /\ \A age \in {tried, listAge, seenAge} : -clockSteps <= age
    /\ ~excused => tried <= sinceTry
IInv == TypeOK /\ RunningIsTrue /\ AgeNeverFlatters /\ Updates /\ Ages

(* README.md:133, "Any collector that has nothing to read degrades to      *)
(* empty rather than failing": a journal that cannot be read in time       *)
(* leaves the report without logins, and does not cost the report.         *)
JournalDegrades == cycle # "timeout"
=============================================================================
