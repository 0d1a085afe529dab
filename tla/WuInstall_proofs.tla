-------------------------- MODULE WuInstall_proofs --------------------------
(***************************************************************************)
(* Proofs about WuInstall, for any number of lines and any number of runs  *)
(* of the script: that workers are alone is about the task alone (Inv);    *)
(* what the host is told is about the log as well (LogInv).                *)
(***************************************************************************)
EXTENDS WuInstall, SequenceTheorems, WellFoundedInduction, TLAPS

Workers == worker \in [Run -> {"none", "waiting", "running", "finished", "ended"}]
Task    == current \in {0} \cup Run

\* The launcher's number is that of a run while there is a launcher.
Numbered == launches \in 0..MaxLaunches /\ (pc # "idle" => launches \in Run)

(* A worker that is not done is the instance of the task.                  *)
Registered ==
    "task" \notin spoiled =>
        \A w \in Run : worker[w] \in {"waiting", "running"} => w = current

Inv == Workers /\ Task /\ Numbered /\ Registered

(* Steps that touch neither the task nor who runs the script.              *)
LEMMA TaskAlone ==
    ASSUME Inv, UNCHANGED <<current, worker, launches, spoiled>>,
           pc = "idle" => pc' = "idle"
    PROVE  Inv'
  BY DEF Inv, Workers, Task, Numbered, Registered

LEMMA LaunchStep ==
    ASSUME Inv, NotRunning \/ Attach
    PROVE  Inv'
<1>1. /\ launches < MaxLaunches /\ launches' = launches + 1
      /\ UNCHANGED <<current, worker, spoiled>>
  BY DEF NotRunning, Attach, taskVars
<1>2. launches' \in 0..MaxLaunches /\ launches' \in Run
  BY <1>1, InstallAssumption, SMT DEF Inv, Numbered, Run, InstallAssumption
<1> QED BY <1>1, <1>2 DEF Inv, Workers, Task, Numbered, Registered

(* A worker goes on: it may start only if it waits.                        *)
LEMMA WorkStep ==
    ASSUME Inv, NEW w \in Run, Work(w)
    PROVE  Inv'
<1> USE DEF Inv, Workers, Task, Numbered, Registered
<1>0. UNCHANGED <<current, launches, pc, spoiled>>
  BY DEF Work, WorkerStarts, WorkerLogs, WorkerEnds, WorkerConcludes, ownVars
<1>1. CASE WorkerStarts(w)
  <2>1. worker[w] = "waiting" /\ worker' = [worker EXCEPT ![w] = "running"]
    BY <1>1 DEF WorkerStarts
  <2> QED BY <1>0, <2>1
<1>2. CASE WorkerLogs(w)
  BY <1>0, <1>2 DEF WorkerLogs
<1>3. CASE WorkerEnds(w)
  <2>1. worker' = [worker EXCEPT ![w] = "ended"] BY <1>3 DEF WorkerEnds
  <2> QED BY <1>0, <2>1
<1>4. ASSUME NEW r \in Result, WorkerConcludes(w, r) PROVE Inv'
  <2>1. worker' = [worker EXCEPT ![w] = "finished"] BY <1>4 DEF WorkerConcludes
  <2> QED BY <1>0, <2>1
<1> QED BY <1>1, <1>2, <1>3, <1>4 DEF Work

(* A worker is started only where none waits and none runs as the task.    *)
LEMMA StartStep ==
    ASSUME Inv, StartTask
    PROVE  Inv'
<1> USE DEF Inv, Workers, Task, Numbered, Registered
<1>0. pc = "start" /\ launches \in Run /\ UNCHANGED <<launches, spoiled>>
  BY DEF StartTask
<1>1. CASE TaskRunning \/ TaskWaiting
  BY <1>0, <1>1 DEF StartTask
<1>2. CASE ~(TaskRunning \/ TaskWaiting)
  <2>1. current' = launches /\ worker' = [worker EXCEPT ![launches] = "waiting"]
    BY <1>2 DEF StartTask
  <2>2. "task" \notin spoiled =>
            \A w \in Run : worker[w] \notin {"waiting", "running"}
    <3>1. 0 \notin Run BY SMT DEF Run
    <3> QED BY <1>2, <3>1 DEF TaskRunning, TaskWaiting, Running
  <2> QED BY <1>0, <2>1, <2>2
<1> QED BY <1>1, <1>2

(* What is left when the task is gone was cancelled, or is noted.          *)
LEMMA ExitStep ==
    ASSUME Inv, Exit
    PROVE  Inv'
<1>0. pc = "end" /\ pc' = "idle" /\ launches' = launches BY DEF Exit, Gone
<1>1. CASE UNCHANGED <<current, worker, spoiled>>
  BY <1>0, <1>1, TaskAlone
<1>2. CASE ~UNCHANGED <<current, worker, spoiled>>
  <2> USE DEF Inv, Workers, Task, Numbered, Registered
  <2>1. /\ current' = 0
        /\ worker' = [w \in Run |-> IF worker[w] = "waiting"
                                   THEN "ended" ELSE worker[w]]
        /\ spoiled' = spoiled \cup (IF current # 0 /\ worker[current] = "running"
                                    THEN {"task"} ELSE {})
    BY <1>2 DEF Exit
  <2>2. Workers' BY <2>1
  <2>3. Registered'
    <3> SUFFICES ASSUME "task" \notin spoiled', NEW w \in Run,
                        worker'[w] \in {"waiting", "running"}
                 PROVE  FALSE
      BY DEF Registered
    <3>1. worker[w] = "running" BY <2>1
    <3>2. "task" \notin spoiled BY <2>1
    <3>3. w = current BY <3>1, <3>2
    <3>4. w # 0 BY SMT DEF Run
    <3> QED BY <2>1, <3>1, <3>3, <3>4
  <2> QED BY <1>0, <2>1, <2>2, <2>3
<1> QED BY <1>1, <1>2

LEMMA Step == Inv /\ [Next]_vars => Inv'
<1> SUFFICES ASSUME Inv, [Next]_vars PROVE Inv' OBVIOUS
<1>0. CASE UNCHANGED vars
  BY <1>0, TaskAlone DEF vars, taskVars, ownVars
<1>1. ASSUME NEW w \in Run, Work(w) PROVE Inv' BY <1>1, WorkStep
<1>2. CASE Attach \/ NotRunning BY <1>2, LaunchStep
<1>3. CASE EmptyLog
  <2>1. UNCHANGED <<current, worker, launches>> /\ pc # "idle"
    BY <1>3 DEF EmptyLog, taskVars
  <2>2. "task" \in spoiled' <=> "task" \in spoiled BY <1>3 DEF EmptyLog
  <2> QED BY <2>1, <2>2 DEF Inv, Workers, Task, Numbered, Registered
<1>4. CASE StartTask BY <1>4, StartStep
<1>5. CASE \/ ReadLog \/ LookAgain \/ SeesStopped \/ ThirtySecondsPass
            \/ Deadline \/ SessionDrops
  <2>1. UNCHANGED <<current, worker, launches, spoiled>> /\ pc # "idle"
    BY <1>5 DEF ReadLog, LookAgain, SeesStopped, LooksStopped,
                ThirtySecondsPass, Deadline, SessionDrops, taskVars
  <2> QED BY <2>1, TaskAlone
<1>6. CASE Exit BY <1>6, ExitStep
<1> QED BY <1>0, <1>1, <1>2, <1>3, <1>4, <1>5, <1>6 DEF Next, Launch

(* Two workers never install side by side, whatever sessions were dropped  *)
(* and whatever workers died, unless a task was unregistered under its     *)
(* running worker (windows-update.ps1:93-104, 132).                        *)
THEOREM Alone == Spec => []OneInstall
<1>1. Init => Inv
  <2> SUFFICES ASSUME Init PROVE Inv OBVIOUS
  <2>1. launches \in 0..MaxLaunches
    BY InstallAssumption, SMT DEF Init, InstallAssumption
  <2> QED BY <2>1 DEF Init, Inv, Workers, Task, Numbered, Registered
<1>2. Inv => OneInstall BY DEF Inv, Registered, OneInstall
<1> QED BY <1>1, <1>2, Step, PTL DEF Spec

-----------------------------------------------------------------------------
(* What the host is told.                                                  *)

Lines ==
    log \in Seq(Line) /\ out \in Seq(Line) /\ wrote \in [Run -> Seq(Line)]

Places == pc \in {"idle", "clear", "start", "read", "look", "end"}

Kinds ==
    /\ step \in [Run -> 0..Steps]
    /\ verdict \in [Run -> Result \cup {"none"}]
    /\ Places
    /\ stoppedSeen \in BOOLEAN /\ graceOver \in BOOLEAN
    /\ spoiled \subseteq {"log", "task"}
    /\ result \in Result \cup {"none", "stopped", "timed out"}

Active(w) == worker[w] \in {"waiting", "running", "finished"}

\* A run that was not started has logged nothing.
Started ==
    /\ \A w \in Run : worker[w] = "none" => wrote[w] = <<>>
    /\ \A w \in Run : w > launches => worker[w] = "none"
    /\ pc \in {"clear", "start"} => worker[launches] = "none"

\* Whoever follows the log follows the task's instance, which was started.
Place ==
    /\ follows # 0 <=> pc \in {"read", "look", "end"}
    /\ follows # 0 => follows = current
    /\ current # 0 => worker[current] # "none"

\* Whoever does not follow the log yet has seen nothing.
Fresh ==
    pc \in {"idle", "clear", "start"} =>
        printed = 0 /\ out = <<>> /\ result = "none" /\ ~stoppedSeen

\* What was passed on is the log up to $printed.
Sent == printed \in 0..Len(log) /\ out = SubSeq(log, 1, printed)

\* The log is its worker's own, and stays so while it is followed.
OwnLog ==
    spoiled = {} =>
        /\ \A v, w \in Run : Active(v) /\ Active(w) => v = w
        /\ \A w \in Run : Active(w) => log = wrote[w]
        /\ pc = "start" => log = <<>> /\ \A w \in Run : ~Active(w)
        /\ follows # 0 => /\ log = wrote[follows]
                          /\ \A w \in Run : Active(w) => w = follows

\* A worker that has logged its result logs nothing more.
Results ==
    \A w \in Run : \A i \in DOMAIN wrote[w] :
        wrote[w][i].result # "none" =>
            /\ wrote[w][i].result = verdict[w]
            /\ worker[w] \in {"finished", "ended"}

\* A launcher goes on only while it has read no result.
Unread ==
    pc \in {"read", "look"} =>
        result = "none" /\ \A i \in 1..printed : log[i].result = "none"

\* What was truly seen stopped has ended, and its log is read after that.
Stopped ==
    spoiled = {} /\ stoppedSeen /\ misled = 0 =>
        worker[follows] = "ended" /\ (pc = "look" => printed = Len(log))

\* A result that was read is its worker's, and nothing comes after it.
Final ==
    result \in Result =>
        /\ pc = "end"
        /\ spoiled = {} => /\ printed = Len(log) /\ result = verdict[follows]
                           /\ worker[follows] \in {"finished", "ended"}

Told == Started /\ Place /\ Fresh /\ Sent /\ OwnLog /\ Results /\ Unread
            /\ Stopped /\ Final

(* A launcher looks twice before it reports a stop, so it is misled twice  *)
(* at most, and once at most while it follows the log.                     *)
Misled ==
    /\ misled \in 0..2 /\ stoppedSeen \in BOOLEAN
    /\ ~stoppedSeen => misled = 0
    /\ pc # "end" => misled < 2

LogInv == Inv /\ Misled /\ Lines /\ Kinds /\ Told

LEMMA MisledStep == Misled /\ [Next]_vars => Misled'
<1> SUFFICES ASSUME Misled, [Next]_vars PROVE Misled' OBVIOUS
<1>1. CASE SeesStopped
  <2>1. /\ pc = "look" /\ (pc' # "end" => ~stoppedSeen)
        /\ misled' = misled + (IF TaskRunning \/ TaskWaiting THEN 1 ELSE 0)
    BY <1>1, Zenon DEF SeesStopped, LooksStopped
  <2>2. stoppedSeen' = TRUE
    BY <1>1, Zenon DEF SeesStopped, Misled
  <2>3. misled \in 0..2 /\ misled < 2 BY <2>1 DEF Misled
  <2>4. misled' \in 0..2 /\ (misled = 0 => misled' < 2)
    BY <2>1, <2>3
  <2>5. pc' # "end" => misled = 0 BY <2>1, Zenon DEF Misled
  <2>6. pc' # "end" => misled' < 2 BY <2>4, <2>5
  <2> QED BY <2>2, <2>4, <2>6, Zenon DEF Misled
<1>2. CASE Exit \/ SessionDrops
  <2>1. misled' = 0 /\ stoppedSeen' = FALSE
    BY <1>2, Zenon DEF Exit, SessionDrops, Gone
  <2>2. misled' \in 0..2 /\ misled' < 2 BY <2>1
  <2> QED BY <2>1, <2>2, Zenon DEF Misled
<1>3. CASE UNCHANGED <<misled, stoppedSeen>> /\ (pc' # "end" => pc # "end")
  BY <1>3 DEF Misled
<1>4. \A w \in Run : Work(w) => UNCHANGED <<misled, stoppedSeen, pc>>
  BY DEF Work, WorkerStarts, WorkerLogs, WorkerEnds, WorkerConcludes, ownVars
<1>5. CASE \/ Attach \/ NotRunning \/ EmptyLog \/ StartTask \/ ReadLog
            \/ LookAgain \/ ThirtySecondsPass \/ Deadline
  BY <1>3, <1>5 DEF Attach, NotRunning, EmptyLog, StartTask, ReadLog, LookAgain,
                    ThirtySecondsPass, Deadline
<1>6. CASE UNCHANGED vars BY <1>3, <1>6 DEF vars, ownVars
<1> QED BY <1>1, <1>2, <1>3, <1>4, <1>5, <1>6 DEF Next, Launch

(* The new lines are those after the ones that were printed.               *)
LEMMA NewLinesFacts ==
    ASSUME Lines, Sent
    PROVE  /\ NewLines \in Seq(Line)
           /\ Len(NewLines) = Len(log) - printed
           /\ DOMAIN NewLines = 1..(Len(log) - printed)
           /\ \A i \in 1..(Len(log) - printed) : NewLines[i] = log[printed + i]
           /\ out \o NewLines = log
<1>1. log \in Seq(Line) /\ printed \in Nat /\ Len(log) \in Nat
         /\ printed <= Len(log)
  BY LenProperties DEF Lines, Sent
<1>2. \A i \in (printed + 1)..Len(log) : log[i] \in Line
  BY <1>1, ElementOfSeq
<1>3. /\ SubSeq(log, printed + 1, Len(log)) \in Seq(Line)
      /\ Len(SubSeq(log, printed + 1, Len(log))) = Len(log) - printed
      /\ \A i \in 1..(Len(log) - printed) :
             SubSeq(log, printed + 1, Len(log))[i] = log[printed + i]
  <2> DEFINE m == printed + 1
             n == Len(log)
  <2>1. m \in Int /\ n \in Int BY <1>1
  <2>2. /\ SubSeq(log, m, n) \in Seq(Line)
        /\ Len(SubSeq(log, m, n)) = IF m <= n THEN n - m + 1 ELSE 0
        /\ \A i \in 1..(n - m + 1) : SubSeq(log, m, n)[i] = log[m + i - 1]
    BY <1>2, <2>1, SubSeqProperties
  <2>3. n - m + 1 = n - printed BY <1>1
  <2>4. \A i \in 1..(n - printed) : m + i - 1 = printed + i BY <1>1
  <2>5. Len(SubSeq(log, m, n)) = n - printed
    <3>1. \A a, b \in Nat : b <= a =>
              (IF b + 1 <= a THEN a - (b + 1) + 1 ELSE 0) = a - b
      OBVIOUS
    <3> QED BY <1>1, <2>2, <3>1, Zenon
  <2>6. \A i \in 1..(n - printed) : SubSeq(log, m, n)[i] = log[printed + i]
    BY <2>2, <2>3, <2>4
  <2> QED BY <2>2, <2>5, <2>6
<1>4. SubSeq(log, 1, printed) \o SubSeq(log, printed + 1, Len(log))
          = SubSeq(log, 1, Len(log))
  <2>1. 1 \in 1..Len(log) + 1 /\ printed \in 1 - 1..Len(log)
           /\ Len(log) \in printed..Len(log)
    BY <1>1
  <2> QED BY <1>1, <2>1, ConcatAdjacentSubSeq
<1>5. SubSeq(log, 1, Len(log)) = log BY <1>1, SubSeqFull
<1>6. DOMAIN SubSeq(log, printed + 1, Len(log)) = 1..(Len(log) - printed)
  BY <1>3, LenProperties
<1> QED BY <1>3, <1>4, <1>5, <1>6 DEF NewLines, Sent

(* The log from the first line to the last one read.                       *)
LEMMA PrefixKept ==
    ASSUME NEW l \in Seq(Line), NEW line \in Line, NEW n \in 0..Len(l)
    PROVE  SubSeq(Append(l, line), 1, n) = SubSeq(l, 1, n)
<1>1. Len(l) \in Nat /\ <<line>> \in Seq(Line) BY LenProperties
<1>2. CASE n = 0 BY <1>1, <1>2, SubSeqEmpty
<1>3. CASE n # 0
  <2>1. 1 \in 1..Len(l) /\ n \in 1..Len(l) BY <1>1, <1>3
  <2>2. SubSeq(l \o <<line>>, 1, n) = SubSeq(l, 1, n)
    BY <1>1, <2>1, SubSeqOfConcat1
  <2> QED BY <2>2, AppendIsConcat
<1> QED BY <1>2, <1>3

(* What a line that is logged, or is given up, changes.                    *)
LEMMA Logging ==
    ASSUME Lines, NEW w \in Run, NEW line \in Line, OutLog(w, line)
    PROVE  /\ log' \in Seq(Line) /\ wrote' \in [Run -> Seq(Line)]
           /\ \A v \in Run : v # w => wrote'[v] = wrote[v]
           /\ log = wrote[w] => log' = wrote'[w]
           /\ Len(log) <= Len(log')
           /\ \A i \in 1..Len(log) : log'[i] = log[i]
           /\ \A n \in 0..Len(log) : SubSeq(log', 1, n) = SubSeq(log, 1, n)
           /\ \A i \in DOMAIN wrote'[w] :
                  \/ i \in DOMAIN wrote[w] /\ wrote'[w][i] = wrote[w][i]
                  \/ wrote'[w][i] = line
<1>1. log \in Seq(Line) /\ wrote[w] \in Seq(Line) /\ Len(log) \in Nat
         /\ Len(wrote[w]) \in Nat
  BY LenProperties DEF Lines
<1>2. CASE UNCHANGED <<log, wrote>>
  BY <1>1, <1>2 DEF Lines
<1>3. CASE /\ log' = Append(log, line)
           /\ wrote' = [wrote EXCEPT ![w] = Append(@, line)]
  <2>1. wrote'[w] = Append(wrote[w], line) /\ \A v \in Run : v # w => wrote'[v] = wrote[v]
    BY <1>3 DEF Lines
  <2>2. /\ log' \in Seq(Line) /\ Len(log') = Len(log) + 1
        /\ \A i \in 1..Len(log) : log'[i] = log[i]
    BY <1>1, <1>3, AppendProperties
  <2>3. /\ wrote'[w] \in Seq(Line) /\ Len(wrote'[w]) = Len(wrote[w]) + 1
        /\ \A i \in 1..Len(wrote[w]) : wrote'[w][i] = wrote[w][i]
        /\ wrote'[w][Len(wrote[w]) + 1] = line
    BY <1>1, <2>1, AppendProperties
  <2>4. wrote' \in [Run -> Seq(Line)] BY <1>3, <2>1, <2>3 DEF Lines
  <2>5. log = wrote[w] => log' = wrote'[w] BY <1>3, <2>1
  <2>6. \A n \in 0..Len(log) : SubSeq(log', 1, n) = SubSeq(log, 1, n)
    BY <1>1, <1>3, PrefixKept
  <2>7. ASSUME NEW i \in DOMAIN wrote'[w]
        PROVE  \/ i \in DOMAIN wrote[w] /\ wrote'[w][i] = wrote[w][i]
               \/ wrote'[w][i] = line
    <3>1. i \in 1..(Len(wrote[w]) + 1) BY <2>3, LenProperties
    <3>2. DOMAIN wrote[w] = 1..Len(wrote[w]) BY <1>1, LenProperties
    <3>3. i \in 1..Len(wrote[w]) \/ i = Len(wrote[w]) + 1 BY <1>1, <3>1
    <3> QED BY <2>3, <3>2, <3>3
  <2>8. Len(log) <= Len(log') BY <1>1, <2>2
  <2> QED BY <2>1, <2>2, <2>4, <2>5, <2>6, <2>7, <2>8
<1> QED BY <1>2, <1>3 DEF OutLog

\* What the launcher knows.
launcherVars == <<current, launches, pc, printed, stoppedSeen, misled,
                  graceOver, result, follows, out, spoiled>>

\* The log grows, and what run w wrote grows with it.
Grows(w) ==
    /\ log' \in Seq(Line) /\ wrote' \in [Run -> Seq(Line)]
    /\ \A v \in Run : v # w => wrote'[v] = wrote[v]
    /\ log = wrote[w] => log' = wrote'[w]
    /\ Len(log) <= Len(log')
    /\ \A i \in 1..Len(log) : log'[i] = log[i]
    /\ \A n \in 0..Len(log) : SubSeq(log', 1, n) = SubSeq(log, 1, n)

\* Run w goes on.
Lives(w) ==
    /\ Active(w)
    /\ worker'[w] \in {"running", "finished", "ended"}
    /\ \A v \in Run : v # w => worker'[v] = worker[v] /\ verdict'[v] = verdict[v]
    /\ worker[w] = "finished" =>
           worker'[w] = "ended" /\ UNCHANGED <<log, verdict, wrote>>

\* A result among its lines is an old one, or the one it has come to.
Reports(w) ==
    \A i \in DOMAIN wrote'[w] :
        \/ i \in DOMAIN wrote[w] /\ wrote'[w][i] = wrote[w][i]
        \/ wrote'[w][i].result # "none" =>
               wrote'[w][i].result = verdict'[w] /\ worker'[w] = "finished"

(* What a step of a worker changes.                                        *)
LEMMA WorkShape ==
    ASSUME LogInv, NEW w \in Run, Work(w)
    PROVE  /\ UNCHANGED launcherVars
           /\ step' \in [Run -> 0..Steps]
           /\ verdict' \in [Run -> Result \cup {"none"}]
           /\ Grows(w) /\ Lives(w) /\ Reports(w)
<1>1. Lines /\ Workers /\ Kinds BY DEF LogInv, Inv
<1>2. log \in Seq(Line) /\ Len(log) \in Nat /\ Steps \in Nat
  BY <1>1, LenProperties, InstallAssumption DEF Lines, InstallAssumption
<1>3. UNCHANGED <<log, wrote>> => Grows(w) /\ Reports(w)
  BY <1>1, <1>2 DEF Grows, Reports, Lines
<1>4. step[w] \in 0..Steps BY <1>1 DEF Kinds
<1>5. CASE WorkerStarts(w)
  <2>1. /\ worker[w] = "waiting" /\ worker' = [worker EXCEPT ![w] = "running"]
        /\ UNCHANGED <<log, step, verdict, wrote>> /\ UNCHANGED launcherVars
    BY <1>5 DEF WorkerStarts, ownVars, launcherVars
  <2>2. Lives(w) BY <1>1, <2>1 DEF Lives, Active, Workers
  <2> QED BY <1>1, <1>3, <2>1, <2>2 DEF Kinds
<1>6. CASE WorkerEnds(w)
  <2>1. /\ worker[w] \in {"running", "finished"}
        /\ worker' = [worker EXCEPT ![w] = "ended"]
        /\ UNCHANGED <<log, step, verdict, wrote>> /\ UNCHANGED launcherVars
    BY <1>6 DEF WorkerEnds, Running, ownVars, launcherVars
  <2>2. Lives(w) BY <1>1, <2>1 DEF Lives, Active, Workers
  <2> QED BY <1>1, <1>3, <2>1, <2>2 DEF Kinds
<1>7. CASE WorkerLogs(w)
  <2> DEFINE line == [run |-> w, no |-> step'[w], result |-> "none"]
  <2>1. /\ worker[w] = "running" /\ step[w] < Steps
        /\ step' = [step EXCEPT ![w] = @ + 1]
        /\ OutLog(w, line)
        /\ UNCHANGED <<worker, verdict>> /\ UNCHANGED launcherVars
    BY <1>7 DEF WorkerLogs, ownVars, launcherVars
  <2>2. step' \in [Run -> 0..Steps] /\ step'[w] \in 0..Steps
    <3>1. step[w] + 1 \in 0..Steps BY <1>2, <1>4, <2>1
    <3>2. step \in [Run -> 0..Steps] BY <1>1 DEF Kinds
    <3> QED BY <2>1, <3>1, <3>2
  <2>3. line \in Line BY <2>2 DEF Line
  <2>4. Grows(w) /\ \A i \in DOMAIN wrote'[w] :
            \/ i \in DOMAIN wrote[w] /\ wrote'[w][i] = wrote[w][i]
            \/ wrote'[w][i] = line
    <3> HIDE DEF line
    <3> QED BY <1>1, <2>1, <2>3, Logging DEF Grows
  <2>5. Reports(w) BY <2>4 DEF Reports
  <2>6. Lives(w) BY <1>1, <2>1 DEF Lives, Active, Workers
  <2> QED BY <1>1, <2>1, <2>2, <2>4, <2>5, <2>6 DEF Kinds
<1>8. ASSUME NEW r \in Result, WorkerConcludes(w, r)
      PROVE  /\ UNCHANGED launcherVars
             /\ step' \in [Run -> 0..Steps]
             /\ verdict' \in [Run -> Result \cup {"none"}]
             /\ Grows(w) /\ Lives(w) /\ Reports(w)
  <2> DEFINE line == [run |-> w, no |-> step[w], result |-> r]
  <2>1. /\ worker[w] = "running" /\ worker' = [worker EXCEPT ![w] = "finished"]
        /\ verdict' = [verdict EXCEPT ![w] = r]
        /\ OutLog(w, line)
        /\ UNCHANGED step /\ UNCHANGED launcherVars
    BY <1>8 DEF WorkerConcludes, ownVars, launcherVars
  <2>2. verdict' \in [Run -> Result \cup {"none"}] /\ verdict'[w] = r
    BY <1>1, <1>8, <2>1 DEF Kinds
  <2>3. line \in Line BY <1>4, <1>8 DEF Line
  <2>4. Grows(w) /\ \A i \in DOMAIN wrote'[w] :
            \/ i \in DOMAIN wrote[w] /\ wrote'[w][i] = wrote[w][i]
            \/ wrote'[w][i] = line
    <3> HIDE DEF line
    <3> QED BY <1>1, <2>1, <2>3, Logging DEF Grows
  <2>5. worker'[w] = "finished" BY <1>1, <2>1 DEF Workers
  <2>6. Reports(w) BY <2>2, <2>4, <2>5 DEF Reports
  <2>7. \A v \in Run : v # w => worker'[v] = worker[v] /\ verdict'[v] = verdict[v]
    BY <1>1, <2>1 DEF Workers, Kinds
  <2>8. Lives(w) BY <2>1, <2>5, <2>7 DEF Lives, Active
  <2> QED BY <1>1, <2>1, <2>2, <2>4, <2>6, <2>8 DEF Kinds
<1> QED BY <1>5, <1>6, <1>7, <1>8 DEF Work

(* A step of a worker leaves what the host is told true.                   *)
LEMMA WorkTold ==
    ASSUME LogInv, NEW w \in Run, Work(w)
    PROVE  Lines' /\ Kinds' /\ Told'
<1>1. /\ UNCHANGED launcherVars
      /\ step' \in [Run -> 0..Steps]
      /\ verdict' \in [Run -> Result \cup {"none"}]
      /\ Grows(w) /\ Lives(w) /\ Reports(w)
  BY WorkShape
<1>2. Lines /\ Kinds /\ Told /\ Workers /\ Task BY DEF LogInv, Inv
<1>3. Lines' /\ Kinds'
  <2>1. graceOver' \in BOOLEAN
    BY <1>2 DEF Work, WorkerStarts, WorkerLogs, WorkerEnds, WorkerConcludes,
                Kinds, ownVars
  <2>2. Lines' BY <1>1, <1>2 DEF Lines, Grows, launcherVars
  <2> QED BY <1>1, <1>2, <2>1, <2>2 DEF Kinds, Places, launcherVars
<1>4. /\ Len(log) \in Nat /\ Len(log') \in Nat /\ printed \in 0..Len(log)
      /\ log \in Seq(Line)
  BY <1>1, <1>2, LenProperties DEF Lines, Told, Sent, Grows
<1>5. worker[w] # "none" /\ worker'[w] # "none"
  BY <1>1 DEF Lives, Active
<1>6. Started'
  <2>1. \A v \in Run : worker'[v] = "none" <=> worker[v] = "none"
    BY <1>1, <1>5 DEF Lives
  <2>2. \A v \in Run : worker[v] = "none" => v # w /\ wrote'[v] = wrote[v]
    BY <1>1, <1>5 DEF Grows
  <2>3. \A v \in Run : worker'[v] = "none" => wrote'[v] = <<>>
    BY <1>2, <2>1, <2>2 DEF Told, Started
  <2>4. \A v \in Run : v > launches' => worker'[v] = "none"
    BY <1>1, <1>2, <2>1 DEF Told, Started, launcherVars
  <2>5. pc' \in {"clear", "start"} => worker'[launches'] = "none"
    <3>1. pc # "idle" => launches \in Run BY DEF LogInv, Inv, Numbered
    <3> QED BY <1>1, <1>2, <2>1, <3>1 DEF Told, Started, launcherVars
  <2> QED BY <2>3, <2>4, <2>5 DEF Started
<1>7. Place'
  <2>1. current # 0 => current \in Run BY <1>2 DEF Task
  <2>2. current # 0 => worker'[current] # "none"
    BY <1>1, <1>2, <1>5, <2>1 DEF Told, Place, Lives
  <2> QED BY <1>1, <1>2, <2>2 DEF Told, Place, launcherVars
<1>8. Fresh' BY <1>1, <1>2 DEF Fresh, Told, launcherVars
<1>9. Sent'
  <2>1. printed' \in 0..Len(log') BY <1>1, <1>4 DEF Grows, launcherVars
  <2>2. out' = SubSeq(log', 1, printed')
    BY <1>1, <1>2, <1>4 DEF Grows, launcherVars, Told, Sent
  <2> QED BY <2>1, <2>2 DEF Sent
<1>10. OwnLog'
  <2> SUFFICES ASSUME spoiled' = {} PROVE OwnLog' BY DEF OwnLog
  <2>1. spoiled = {} BY <1>1 DEF launcherVars
  <2>2. \A v \in Run : Active(v)' => Active(v)
    BY <1>1 DEF Lives, Active
  <2>3. \A v \in Run : Active(v) => v = w
    BY <1>1, <1>2, <2>1 DEF Told, OwnLog, Lives
  <2>4. log' = wrote'[w]
    BY <1>1, <1>2, <2>1 DEF Told, OwnLog, Lives, Grows
  <2>5. pc # "start" BY <1>1, <1>2, <2>1 DEF Told, OwnLog, Lives
  <2>6. follows # 0 => follows = w
    BY <1>1, <1>2, <2>1 DEF Told, OwnLog, Lives
  <2>7. follows' = follows /\ pc' = pc BY <1>1 DEF launcherVars
  <2>8. \A v \in Run : Active(v)' => v = w BY <2>2, <2>3
  <2> QED BY <2>4, <2>5, <2>6, <2>7, <2>8 DEF OwnLog
<1>11. Results'
  <2> SUFFICES ASSUME NEW v \in Run, NEW i \in DOMAIN wrote'[v],
                      wrote'[v][i].result # "none"
               PROVE  /\ wrote'[v][i].result = verdict'[v]
                      /\ worker'[v] \in {"finished", "ended"}
    BY DEF Results
  <2>1. CASE v # w
    BY <1>1, <1>2, <2>1 DEF Grows, Lives, Told, Results
  <2>2. CASE v = w
    <3>1. CASE i \in DOMAIN wrote[w] /\ wrote'[w][i] = wrote[w][i]
      <4>1. wrote[w][i].result = verdict[w] /\ worker[w] \in {"finished", "ended"}
        BY <1>2, <2>2, <3>1 DEF Told, Results
      <4>2. worker[w] = "finished" BY <1>1, <4>1 DEF Lives, Active
      <4>3. worker'[w] = "ended" /\ verdict'[w] = verdict[w]
        BY <1>1, <4>2 DEF Lives
      <4> QED BY <2>2, <3>1, <4>1, <4>3
    <3>2. CASE ~(i \in DOMAIN wrote[w] /\ wrote'[w][i] = wrote[w][i])
      BY <1>1, <2>2, <3>2 DEF Reports
    <3> QED BY <3>1, <3>2
  <2> QED BY <2>1, <2>2
<1>12. Unread'
  <2>1. \A i \in 1..printed : i \in 1..Len(log) BY <1>4
  <2>2. \A i \in 1..printed : log'[i] = log[i] BY <1>1, <2>1 DEF Grows
  <2> QED BY <1>1, <1>2, <2>2 DEF Told, Unread, launcherVars
<1>13. Stopped'
  <2> SUFFICES ASSUME spoiled' = {}, stoppedSeen', misled' = 0 PROVE Stopped'
    BY DEF Stopped
  <2>1. spoiled = {} /\ stoppedSeen /\ misled = 0 BY <1>1 DEF launcherVars
  <2>2. worker[follows] = "ended" BY <1>2, <2>1 DEF Told, Stopped
  <2>3. follows # 0
    BY <1>2, <2>1 DEF Told, Fresh, Place, Kinds, Places
  <2>4. w = follows BY <1>1, <1>2, <2>1, <2>3 DEF Told, OwnLog, Lives
  <2> QED BY <1>1, <2>2, <2>4 DEF Lives, Active
<1>14. Final'
  <2> SUFFICES ASSUME result' \in Result PROVE Final' BY DEF Final
  <2>1. result \in Result /\ pc' = "end" /\ follows # 0
    BY <1>1, <1>2 DEF Told, Final, Place, launcherVars
  <2> SUFFICES ASSUME spoiled' = {}
               PROVE  /\ printed' = Len(log') /\ result' = verdict'[follows']
                      /\ worker'[follows'] \in {"finished", "ended"}
    BY <2>1 DEF Final
  <2>2. spoiled = {} BY <1>1 DEF launcherVars
  <2>3. w = follows BY <1>1, <1>2, <2>1, <2>2 DEF Told, OwnLog, Lives
  <2>4. /\ printed = Len(log) /\ result = verdict[follows]
        /\ worker[follows] \in {"finished", "ended"}
    BY <1>2, <2>1, <2>2 DEF Told, Final
  <2>5. worker[w] = "finished" BY <1>1, <2>3, <2>4 DEF Lives, Active
  <2>6. worker'[w] = "ended" /\ UNCHANGED <<log, verdict>>
    BY <1>1, <2>5 DEF Lives
  <2> QED BY <1>1, <2>3, <2>4, <2>6 DEF launcherVars
<1> QED BY <1>3, <1>6, <1>7, <1>8, <1>9, <1>10, <1>11, <1>12, <1>13, <1>14
        DEF Told

(* Nothing of the log or the workers changes, and what was read stays.     *)
LEMMA IdleTold ==
    ASSUME LogInv, Attach \/ NotRunning
    PROVE  Lines' /\ Kinds' /\ Told'
<1>1. Lines /\ Kinds /\ Told /\ Inv BY DEF LogInv
<1>2. /\ pc = "idle" /\ launches' = launches + 1
      /\ UNCHANGED <<log, current, worker, step, verdict, wrote, printed,
                     stoppedSeen, graceOver, result, out, spoiled>>
      /\ launches \in 0..MaxLaunches /\ launches' \in Run
  <2>1. launches < MaxLaunches /\ launches \in 0..MaxLaunches
    BY <1>1 DEF Attach, NotRunning, Inv, Numbered
  <2>2. launches + 1 \in Run
    BY <2>1, InstallAssumption, SMT DEF Run, InstallAssumption
  <2> QED BY <2>1, <2>2 DEF Attach, NotRunning, taskVars
<1>3. printed = 0 /\ out = <<>> /\ result = "none" /\ ~stoppedSeen /\ follows = 0
  BY <1>1, <1>2 DEF Told, Fresh, Place
<1>4. \/ pc' = "read" /\ follows' = current /\ TaskRunning
      \/ pc' = "clear" /\ follows' = 0
  BY <1>3 DEF Attach, NotRunning
<1>5. Lines' /\ Kinds' BY <1>1, <1>2, <1>4 DEF Lines, Kinds, Places
<1>6. Started'
  <2>1. worker'[launches'] = "none"
    <3>1. launches + 1 > launches BY <1>2, SMT
    <3> QED BY <1>1, <1>2, <3>1 DEF Told, Started
  <2>2. \A v \in Run : v > launches' => v > launches
    BY <1>2, SMT DEF Run
  <2> QED BY <1>1, <1>2, <2>1, <2>2 DEF Told, Started
<1>7. pc' = "read" => current \in Run /\ current # 0 /\ Active(current)
  BY <1>1, <1>4 DEF TaskRunning, Running, Active, Inv, Task
<1>8. Place'
  <2>1. current # 0 => worker[current] # "none" BY <1>1 DEF Told, Place
  <2> QED BY <1>2, <1>4, <1>7, <2>1 DEF Place
<1>9. Fresh' BY <1>2, <1>3 DEF Fresh
<1>10. Sent' BY <1>1, <1>2 DEF Told, Sent
<1>11. OwnLog'
  BY <1>1, <1>2, <1>4, <1>7 DEF Told, OwnLog, Active
<1>12. Results' BY <1>1, <1>2 DEF Told, Results
<1>13. Unread' BY <1>2, <1>3, SMT DEF Unread
<1>14. Stopped' BY <1>2, <1>3 DEF Stopped
<1>15. Final' BY <1>2, <1>3, <1>1 DEF Final, Result
<1> QED BY <1>5, <1>6, <1>8, <1>9, <1>10, <1>11, <1>12, <1>13, <1>14, <1>15
        DEF Told

(* The log is emptied before a worker is started.                          *)
LEMMA EmptyTold ==
    ASSUME LogInv, EmptyLog
    PROVE  Lines' /\ Kinds' /\ Told'
<1>1. Lines /\ Kinds /\ Told /\ Inv BY DEF LogInv
<1>2. /\ pc = "clear" /\ pc' = "start" /\ log' = <<>>
      /\ spoiled' = spoiled \cup (IF TaskWaiting \/ \E w \in Run : Running(w)
                                  THEN {"log"} ELSE {})
      /\ UNCHANGED <<current, worker, step, verdict, wrote, launches, printed,
                     stoppedSeen, graceOver, result, follows, out>>
  BY DEF EmptyLog, taskVars
<1>3. printed = 0 /\ out = <<>> /\ result = "none" /\ ~stoppedSeen /\ follows = 0
  BY <1>1, <1>2 DEF Told, Fresh, Place
<1>4. log' \in Seq(Line) /\ Len(log') = 0 BY <1>2, EmptySeq
<1>5. Lines' /\ Kinds'
  <2>1. Lines' BY <1>1, <1>2, <1>4 DEF Lines
  <2>2. spoiled' \subseteq {"log", "task"} BY <1>1, <1>2 DEF Kinds
  <2> QED BY <1>1, <1>2, <2>1, <2>2 DEF Kinds, Places
<1>6. Started' BY <1>1, <1>2 DEF Told, Started
<1>7. Place' BY <1>1, <1>2, <1>3 DEF Told, Place
<1>8. Fresh' BY <1>2, <1>3 DEF Fresh
<1>9. Sent'
  <2>1. SubSeq(log', 1, 0) = <<>> BY SubSeqEmpty
  <2> QED BY <1>2, <1>3, <1>4, <2>1 DEF Sent
<1>10. OwnLog'
  <2> SUFFICES ASSUME spoiled' = {} PROVE OwnLog' BY DEF OwnLog
  <2>1. spoiled = {} /\ ~TaskWaiting /\ \A w \in Run : ~Running(w)
    BY <1>2
  <2>2. \A w \in Run : ~Active(w)
    <3> SUFFICES ASSUME NEW w \in Run, Active(w) PROVE FALSE OBVIOUS
    <3>1. worker[w] = "waiting" BY <2>1 DEF Active, Running
    <3>2. w = current BY <1>1, <2>1, <3>1 DEF Inv, Registered
    <3>3. w # 0 BY SMT DEF Run
    <3> QED BY <2>1, <3>1, <3>2, <3>3 DEF TaskWaiting
  <2>3. \A w \in Run : ~Active(w)' BY <1>2, <2>2 DEF Active
  <2> QED BY <1>2, <1>3, <2>3 DEF OwnLog
<1>11. Results' BY <1>1, <1>2 DEF Told, Results
<1>12. Unread' BY <1>2 DEF Unread
<1>13. Stopped' BY <1>2, <1>3 DEF Stopped
<1>14. Final' BY <1>2, <1>3 DEF Final, Result
<1> QED BY <1>5, <1>6, <1>7, <1>8, <1>9, <1>10, <1>11, <1>12, <1>13, <1>14
        DEF Told

(* The worker that is started has an empty log and follows nobody's.       *)
LEMMA StartTold ==
    ASSUME LogInv, StartTask
    PROVE  Lines' /\ Kinds' /\ Told'
<1>1. Lines /\ Kinds /\ Told /\ Inv BY DEF LogInv
<1>2. /\ pc = "start" /\ pc' = "read" /\ follows' = current'
      /\ UNCHANGED <<log, step, verdict, wrote, launches, printed, stoppedSeen,
                     graceOver, result, out, spoiled>>
      /\ launches \in Run /\ 0 \notin Run
  <2>1. 0 \notin Run BY SMT DEF Run
  <2> QED BY <1>1, <2>1 DEF StartTask, Inv, Numbered
<1>3. printed = 0 /\ out = <<>> /\ result = "none" /\ ~stoppedSeen
  BY <1>1, <1>2 DEF Told, Fresh
<1>4. worker[launches] = "none" /\ wrote[launches] = <<>>
  BY <1>1, <1>2 DEF Told, Started
<1>6. CASE (TaskRunning \/ TaskWaiting) /\ UNCHANGED <<current, worker>>
  <2>1. current # 0 /\ current \in Run /\ Active(current)
    BY <1>1, <1>6 DEF TaskRunning, TaskWaiting, Running, Active, Inv, Task
  <2>2. spoiled # {} BY <1>1, <1>2, <2>1 DEF Told, OwnLog
  <2>3. Lines' /\ Kinds' BY <1>1, <1>2 DEF Lines, Kinds, Places
  <2>4. Started' BY <1>1, <1>2, <1>6 DEF Told, Started
  <2>5. Place' BY <1>2, <1>6, <2>1 DEF Place, Active
  <2>6. Fresh' /\ Stopped' BY <1>2, <1>3 DEF Fresh, Stopped
  <2>7. Sent' BY <1>1, <1>2 DEF Told, Sent
  <2>8. OwnLog' BY <1>2, <2>2 DEF OwnLog
  <2>9. Results' BY <1>1, <1>2, <1>6 DEF Told, Results
  <2>10. Unread' BY <1>2, <1>3, SMT DEF Unread
  <2>11. Final' BY <1>2, <1>3 DEF Final, Result
  <2> QED BY <2>3, <2>4, <2>5, <2>6, <2>7, <2>8, <2>9, <2>10, <2>11 DEF Told
<1>7. CASE /\ current' = launches
           /\ worker' = [worker EXCEPT ![launches] = "waiting"]
  <2>1. /\ worker'[launches] = "waiting"
        /\ \A v \in Run : v # launches => worker'[v] = worker[v]
    BY <1>1, <1>2, <1>7 DEF Inv, Workers
  <2>2. Lines' /\ Kinds' BY <1>1, <1>2 DEF Lines, Kinds, Places
  <2>3. Started'
    <3>1. \A v \in Run : v > launches => v # launches BY <1>2, SMT DEF Run
    <3>2. \A v \in Run : worker'[v] = "none" => worker[v] = "none"
      BY <2>1
    <3>3. \A v \in Run : v > launches => worker'[v] = "none"
      BY <1>1, <2>1, <3>1 DEF Told, Started
    <3> QED BY <1>1, <1>2, <3>2, <3>3 DEF Told, Started
  <2>4. Place' BY <1>2, <1>7, <2>1 DEF Place
  <2>5. Fresh' /\ Stopped' BY <1>2, <1>3 DEF Fresh, Stopped
  <2>6. Sent' BY <1>1, <1>2 DEF Told, Sent
  <2>7. OwnLog'
    <3> SUFFICES ASSUME spoiled' = {} PROVE OwnLog' BY DEF OwnLog
    <3>1. log = <<>> /\ \A w \in Run : ~Active(w)
      BY <1>1, <1>2 DEF Told, OwnLog
    <3>2. \A w \in Run : Active(w)' => w = launches
      BY <2>1, <3>1 DEF Active
    <3>3. log' = wrote'[launches] BY <1>2, <1>4, <3>1
    <3> QED BY <1>2, <1>7, <3>2, <3>3 DEF OwnLog
  <2>8. Results'
    <3> SUFFICES ASSUME NEW v \in Run, NEW i \in DOMAIN wrote'[v],
                        wrote'[v][i].result # "none"
                 PROVE  /\ wrote'[v][i].result = verdict'[v]
                        /\ worker'[v] \in {"finished", "ended"}
      BY DEF Results
    <3>1. /\ wrote[v][i].result = verdict[v]
          /\ worker[v] \in {"finished", "ended"}
      BY <1>1, <1>2 DEF Told, Results
    <3> QED BY <1>2, <1>4, <2>1, <3>1
  <2>9. Unread' BY <1>2, <1>3, SMT DEF Unread
  <2>10. Final' BY <1>2, <1>3 DEF Final, Result
  <2> QED BY <2>2, <2>3, <2>4, <2>5, <2>6, <2>7, <2>8, <2>9, <2>10 DEF Told
<1> QED BY <1>6, <1>7 DEF StartTask

(* Any natural numbers have a least.                                       *)
LEMMA Least == \A T \in SUBSET Nat : T # {} => \E x \in T : \A y \in T : x <= y
<1> SUFFICES ASSUME NEW T \in SUBSET Nat, T # {}
             PROVE  \E x \in T : \A y \in T : x <= y
  OBVIOUS
<1>1. \E x \in T : \A y \in T : ~ (<<y, x>> \in OpToRel(<, Nat))
  BY NatLessThanWellFounded, WFMin
<1>2. \A x, y \in Nat : y < x => <<y, x>> \in OpToRel(<, Nat)
  BY DEF OpToRel
<1>3. \E x \in T : \A y \in T : ~(y < x) BY <1>1, <1>2, Zenon
<1>4. \A x, y \in Nat : ~(y < x) => x <= y OBVIOUS
<1> QED BY <1>3, <1>4

(* The last of some of the numbers up to n is one of them.                 *)
LEMMA MaxIsIn ==
    ASSUME NEW n \in Nat, NEW S \in SUBSET (1..n), S # {}
    PROVE  Max(S) \in S
<1> DEFINE T == {k \in Nat : n - k \in S}
<1>1. T \in SUBSET Nat OBVIOUS
<1>2. T # {}
  <2>1. PICK x \in S : TRUE OBVIOUS
  <2>2. n - x \in Nat /\ n - (n - x) = x OBVIOUS
  <2> QED BY <2>1, <2>2
<1>3. PICK t \in T : \A u \in T : t <= u
  <2> HIDE DEF T
  <2> QED BY <1>1, <1>2, Least
<1>4. ASSUME NEW y \in S PROVE n - t >= y
  <2>1. y \in Int /\ n - y \in Nat /\ n - (n - y) = y OBVIOUS
  <2>2. n - y \in T BY <2>1
  <2>3. t <= n - y /\ t \in Nat BY <1>3, <2>2
  <2> QED BY <2>1, <2>3
<1>5. n - t \in S BY <1>3
<1> QED BY <1>4, <1>5 DEF Max

(* A read moves nothing but what was read and where the launcher is.       *)
LEMMA ReadSame ==
    ASSUME Lines, Told, pc = "read", pc' \in {"look", "end"},
           log \in Seq(Line), Len(log) \in Nat,
           follows # 0, follows \in Run,
           out' = log, printed' = Len(log),
           UNCHANGED <<log, current, worker, verdict, wrote, launches,
                       stoppedSeen, misled, follows, spoiled>>
    PROVE  Lines' /\ Started' /\ Place' /\ Fresh' /\ Sent' /\ OwnLog'
               /\ Results' /\ Stopped'
<1>1. Lines' BY DEF Lines
<1>2. Started' /\ Place' /\ Fresh' BY DEF Told, Started, Place, Fresh
<1>3. Sent'
  <2>1. SubSeq(log, 1, Len(log)) = log BY SubSeqFull
  <2> QED BY <2>1 DEF Sent
<1>4. OwnLog'
  <2>1. \A v \in Run : Active(v)' <=> Active(v) BY DEF Active
  <2> QED BY <2>1 DEF Told, OwnLog
<1>5. Results' BY DEF Told, Results
<1>6. Stopped' BY DEF Told, Stopped
<1> QED BY <1>1, <1>2, <1>3, <1>4, <1>5, <1>6

(* What is read is passed on; the last result among it is the worker's.    *)
LEMMA ReadTold ==
    ASSUME LogInv, ReadLog
    PROVE  Lines' /\ Kinds' /\ Told' /\ result' \in Result \cup {"none"}
<1>1. Lines /\ Kinds /\ Told /\ Inv BY DEF LogInv
<1>2. /\ NewLines \in Seq(Line)
      /\ DOMAIN NewLines = 1..(Len(log) - printed)
      /\ \A i \in 1..(Len(log) - printed) : NewLines[i] = log[printed + i]
      /\ out \o NewLines = log
  BY <1>1, NewLinesFacts DEF Told
<1> DEFINE results == {i \in DOMAIN NewLines : NewLines[i].result # "none"}
<1>3. /\ pc = "read" /\ printed' = Len(log) /\ out' = out \o NewLines
      /\ result' = IF results = {} THEN result ELSE NewLines[Max(results)].result
      /\ pc' = IF result' = "none" THEN "look" ELSE "end"
      /\ UNCHANGED <<log, current, worker, step, verdict, wrote, launches,
                     stoppedSeen, misled, graceOver, follows, spoiled>>
  BY DEF ReadLog, LinesRead, taskVars
<1>4. /\ Len(log) \in Nat /\ printed \in 0..Len(log) /\ log \in Seq(Line)
      /\ DOMAIN log = 1..Len(log)
  BY <1>1, LenProperties DEF Lines, Told, Sent
<1>5. result = "none" /\ \A i \in 1..printed : log[i].result = "none"
  BY <1>1, <1>3 DEF Told, Unread
<1>6. follows # 0 /\ follows = current /\ follows \in Run
  BY <1>1, <1>3 DEF Told, Place, Inv, Task
<1>7. /\ Lines' /\ Started' /\ Place' /\ Fresh' /\ Sent' /\ OwnLog'
      /\ Results' /\ Stopped'
  <2>1. out' = log /\ printed' = Len(log) /\ pc' \in {"look", "end"}
    BY <1>2, <1>3
  <2> HIDE DEF results
  <2> QED BY <1>1, <1>3, <1>4, <1>6, <2>1, ReadSame
<1>8. CASE results = {}
  <2>1. \A i \in 1..Len(log) : log[i].result = "none"
    <3> SUFFICES ASSUME NEW i \in 1..Len(log), log[i].result # "none"
                 PROVE  FALSE
      OBVIOUS
    <3>1. i > printed BY <1>4, <1>5
    <3>2. i - printed \in 1..(Len(log) - printed) /\ printed + (i - printed) = i
      BY <1>4, <3>1
    <3>3. NewLines[i - printed] = log[i] BY <1>2, <3>2
    <3> QED BY <1>2, <1>8, <3>2, <3>3
  <2>2. result' = "none" /\ pc' = "look" BY <1>3, <1>5, <1>8
  <2>3. Unread' BY <1>3, <2>1, <2>2 DEF Unread
  <2>4. Final' BY <2>2 DEF Final, Result
  <2>5. Kinds' BY <1>1, <1>3, <2>2 DEF Kinds, Places
  <2> QED BY <1>7, <2>2, <2>3, <2>4, <2>5 DEF Told
<1>9. CASE results # {}
  <2>1. Max(results) \in results
    <3>1. results \in SUBSET (1..(Len(log) - printed)) BY <1>2
    <3>2. Len(log) - printed \in Nat BY <1>4
    <3> HIDE DEF results
    <3> QED BY <1>9, <3>1, <3>2, MaxIsIn
  <2> DEFINE m == Max(results)
  <2>2. /\ m \in 1..(Len(log) - printed) /\ NewLines[m].result # "none"
        /\ NewLines[m] = log[printed + m] /\ result' = log[printed + m].result
    BY <1>2, <1>3, <1>9, <2>1
  <2>3. printed + m \in 1..Len(log) BY <1>4, <2>2
  <2>4. log[printed + m] \in Line BY <1>4, <2>3, ElementOfSeq
  <2>5. result' \in Result /\ pc' = "end"
    BY <1>3, <2>2, <2>4 DEF Line
  <2>6. Unread' BY <2>5 DEF Unread
  <2>7. Kinds' BY <1>1, <1>3, <2>5 DEF Kinds, Places
  <2>8. Final'
    <3> SUFFICES ASSUME spoiled = {}
                 PROVE  /\ printed' = Len(log') /\ result' = verdict'[follows']
                        /\ worker'[follows'] \in {"finished", "ended"}
      BY <1>3, <2>5 DEF Final
    <3>1. log = wrote[follows] BY <1>1, <1>6 DEF Told, OwnLog
    <3>2. /\ wrote[follows][printed + m].result = verdict[follows]
          /\ worker[follows] \in {"finished", "ended"}
      BY <1>1, <1>4, <1>6, <2>2, <2>3, <3>1 DEF Told, Results
    <3> QED BY <1>3, <2>2, <3>1, <3>2
  <2> QED BY <1>7, <2>5, <2>6, <2>7, <2>8 DEF Told
<1> QED BY <1>8, <1>9

(* The launcher looks at the task again, and time passes.                  *)
LEMMA LookTold ==
    ASSUME LogInv, LookAgain \/ ThirtySecondsPass
    PROVE  Lines' /\ Kinds' /\ Told'
<1>1. Lines /\ Kinds /\ Told /\ Inv BY DEF LogInv
<1>2. /\ pc \in {"read", "look"} /\ pc' \in {pc, "read"}
      /\ graceOver' \in BOOLEAN
      /\ UNCHANGED <<log, current, worker, step, verdict, wrote, launches,
                     printed, stoppedSeen, misled, result, follows, out,
                     spoiled>>
  BY <1>1 DEF LookAgain, ThirtySecondsPass, taskVars, Kinds
<1>3. Lines' /\ Kinds' BY <1>1, <1>2 DEF Lines, Kinds, Places
<1>4. Started' BY <1>1, <1>2 DEF Told, Started
<1>5. Place' /\ Fresh' BY <1>1, <1>2 DEF Told, Place, Fresh
<1>6. Sent' BY <1>1, <1>2 DEF Told, Sent
<1>7. OwnLog'
  <2>1. \A v \in Run : Active(v)' <=> Active(v) BY <1>2 DEF Active
  <2>2. pc' # "start" /\ pc # "start" BY <1>2
  <2> QED BY <1>1, <1>2, <2>1, <2>2 DEF Told, OwnLog
<1>8. Results' BY <1>1, <1>2 DEF Told, Results
<1>9. Unread' BY <1>1, <1>2 DEF Told, Unread
<1>10. Stopped' BY <1>1, <1>2 DEF Told, Stopped
<1>11. Final' BY <1>1, <1>2 DEF Told, Final
<1> QED BY <1>3, <1>4, <1>5, <1>6, <1>7, <1>8, <1>9, <1>10, <1>11 DEF Told

(* The launcher sees the task stopped, or gives up.                        *)
LEMMA StopTold ==
    ASSUME LogInv, SeesStopped \/ Deadline
    PROVE  Lines' /\ Kinds' /\ Told'
<1>1. Lines /\ Kinds /\ Told /\ Inv BY DEF LogInv
<1>2. /\ pc \in {"read", "look"} /\ pc' \in {"read", "end"}
      /\ UNCHANGED <<log, current, worker, step, verdict, wrote, launches,
                     printed, graceOver, follows, out, spoiled>>
      /\ result' \in {result, "stopped", "timed out"}
      /\ pc' = "read" => result' = result
  BY <1>1 DEF SeesStopped, LooksStopped, Deadline, taskVars, Kinds
<1>3. /\ stoppedSeen' \in BOOLEAN
      /\ stoppedSeen' /\ misled' = 0 =>
             misled = 0 /\ (stoppedSeen \/ (~TaskRunning /\ ~TaskWaiting))
  <2>1. CASE Deadline BY <1>1, <2>1 DEF Deadline, Kinds
  <2>2. CASE SeesStopped
    <3>1. misled \in 0..2 BY DEF LogInv, Misled
    <3>2. misled' = misled + (IF TaskRunning \/ TaskWaiting THEN 1 ELSE 0)
      BY <2>2 DEF SeesStopped, LooksStopped
    <3>3. misled' = 0 => misled = 0 /\ ~(TaskRunning \/ TaskWaiting)
      BY <3>1, <3>2
    <3>4. stoppedSeen' = stoppedSeen \/ stoppedSeen' = TRUE
      BY <2>2 DEF SeesStopped
    <3>5. stoppedSeen \in BOOLEAN BY <1>1 DEF Kinds
    <3> QED BY <3>3, <3>4, <3>5
  <2> QED BY <2>1, <2>2
<1>4. Lines' /\ Kinds' BY <1>1, <1>2, <1>3 DEF Lines, Kinds, Places
<1>5. Started' BY <1>1, <1>2 DEF Told, Started
<1>6. Place' /\ Fresh' BY <1>1, <1>2 DEF Told, Place, Fresh
<1>7. Sent' BY <1>1, <1>2 DEF Told, Sent
<1>8. OwnLog'
  <2> SUFFICES ASSUME spoiled' = {} PROVE OwnLog' BY DEF OwnLog
  <2>1. \A v \in Run : Active(v)' <=> Active(v) BY <1>2 DEF Active
  <2>2. pc' # "start" /\ pc # "start" /\ spoiled = {} BY <1>2
  <2> QED BY <1>1, <1>2, <2>1, <2>2 DEF Told, OwnLog
<1>9. Results' BY <1>1, <1>2 DEF Told, Results
<1>10. Unread' BY <1>1, <1>2 DEF Told, Unread
<1>11. Stopped'
  <2> SUFFICES ASSUME spoiled' = {}, stoppedSeen', misled' = 0
               PROVE  worker'[follows'] = "ended"
    BY <1>2 DEF Stopped
  <2>1. spoiled = {} /\ misled = 0 BY <1>2, <1>3
  <2>2. CASE stoppedSeen BY <1>1, <1>2, <2>1, <2>2 DEF Told, Stopped
  <2>3. CASE ~TaskRunning /\ ~TaskWaiting
    <3>1. follows # 0 /\ follows = current /\ worker[follows] # "none"
             /\ follows \in Run
      BY <1>1, <1>2 DEF Told, Place, Inv, Task
    <3>2. worker[follows] \in {"none", "waiting", "running", "finished", "ended"}
      BY <1>1, <3>1 DEF Inv, Workers
    <3> QED BY <1>2, <2>3, <3>1, <3>2 DEF TaskRunning, TaskWaiting, Running
  <2> QED BY <1>3, <2>2, <2>3
<1>12. Final'
  <2>1. result = "none" BY <1>1, <1>2 DEF Told, Unread
  <2> QED BY <1>2, <2>1 DEF Final, Result
<1> QED BY <1>4, <1>5, <1>6, <1>7, <1>8, <1>9, <1>10, <1>11, <1>12 DEF Told

(* The launcher is gone: it exits, or its session drops.                   *)
LEMMA GoneTold ==
    ASSUME LogInv, Exit \/ SessionDrops
    PROVE  Lines' /\ Kinds' /\ Told'
<1>1. Lines /\ Kinds /\ Told /\ Inv BY DEF LogInv
<1>2. /\ pc' = "idle" /\ printed' = 0 /\ stoppedSeen' = FALSE
      /\ graceOver' = FALSE /\ result' = "none" /\ follows' = 0 /\ out' = <<>>
      /\ UNCHANGED <<log, step, verdict, wrote, launches>>
      /\ spoiled \subseteq spoiled' /\ spoiled' \subseteq {"log", "task"}
  BY <1>1 DEF Exit, SessionDrops, Gone, taskVars, Kinds
<1>3. \A v \in Run : \/ worker'[v] = worker[v]
                     \/ worker[v] = "waiting" /\ worker'[v] = "ended"
  BY DEF Exit, SessionDrops, taskVars
<1>4. log \in Seq(Line) /\ Len(log) \in Nat
  BY <1>1, LenProperties DEF Lines
<1>5. Lines' /\ Kinds'
  <2>1. <<>> \in Seq(Line) BY EmptySeq
  <2> QED BY <1>1, <1>2, <2>1 DEF Lines, Kinds, Places
<1>6. Started' BY <1>1, <1>2, <1>3 DEF Told, Started
<1>7. Place'
  <2>1. current' # 0 => current' = current BY DEF Exit, SessionDrops, taskVars
  <2>2. current # 0 => current \in Run /\ worker[current] # "none"
    BY <1>1 DEF Told, Place, Inv, Task
  <2>3. current' # 0 => worker'[current'] # "none" BY <1>3, <2>1, <2>2
  <2> QED BY <1>2, <2>3 DEF Place
<1>8. Sent'
  <2>1. SubSeq(log', 1, 0) = <<>> BY SubSeqEmpty
  <2> QED BY <1>2, <1>4, <2>1 DEF Sent
<1>9. OwnLog'
  <2> SUFFICES ASSUME spoiled' = {} PROVE OwnLog' BY DEF OwnLog
  <2>1. \A v \in Run : Active(v)' => Active(v) BY <1>3 DEF Active
  <2>2. spoiled = {} BY <1>2
  <2> QED BY <1>1, <1>2, <2>1, <2>2 DEF Told, OwnLog
<1>10. Results'
  <2> SUFFICES ASSUME NEW v \in Run, NEW i \in DOMAIN wrote'[v],
                      wrote'[v][i].result # "none"
               PROVE  /\ wrote'[v][i].result = verdict'[v]
                      /\ worker'[v] \in {"finished", "ended"}
    BY DEF Results
  <2>1. /\ wrote[v][i].result = verdict[v]
        /\ worker[v] \in {"finished", "ended"}
    BY <1>1, <1>2 DEF Told, Results
  <2> QED BY <1>2, <1>3, <2>1
<1>11. Unread' /\ Stopped' /\ Final'
  BY <1>2 DEF Unread, Stopped, Final, Result
<1>12. Fresh' BY <1>2 DEF Fresh
<1> QED BY <1>5, <1>6, <1>7, <1>8, <1>9, <1>10, <1>11, <1>12 DEF Told

LEMMA LogStep == LogInv /\ [Next]_vars => LogInv'
<1> SUFFICES ASSUME LogInv, [Next]_vars PROVE LogInv' OBVIOUS
<1>1. Inv' /\ Misled' BY Step, MisledStep DEF LogInv
<1>2. Lines' /\ Kinds' /\ Told'
  <2>1. CASE UNCHANGED vars
    <3>1. Lines /\ Kinds /\ Told BY DEF LogInv
    <3>2. UNCHANGED <<log, current, worker, step, verdict, wrote, launches, pc,
                      printed, stoppedSeen, misled, graceOver, result,
                      follows, out, spoiled>>
      BY <2>1 DEF vars, taskVars, ownVars
    <3>3. Lines' /\ Kinds' BY <3>1, <3>2 DEF Lines, Kinds, Places
    <3>4. Started' /\ Place' /\ Fresh' /\ Sent'
      BY <3>1, <3>2 DEF Told, Started, Place, Fresh, Sent
    <3>5. OwnLog'
      <4>1. \A v \in Run : Active(v)' <=> Active(v) BY <3>2 DEF Active
      <4> QED BY <3>1, <3>2, <4>1 DEF Told, OwnLog
    <3>6. Results' /\ Unread' /\ Stopped' /\ Final'
      BY <3>1, <3>2 DEF Told, Results, Unread, Stopped, Final
    <3> QED BY <3>3, <3>4, <3>5, <3>6 DEF Told
  <2>2. ASSUME NEW w \in Run, Work(w) PROVE Lines' /\ Kinds' /\ Told'
    BY <2>2, WorkTold
  <2>3. CASE Attach \/ NotRunning BY <2>3, IdleTold
  <2>4. CASE EmptyLog BY <2>4, EmptyTold
  <2>5. CASE StartTask BY <2>5, StartTold
  <2>6. CASE ReadLog BY <2>6, ReadTold
  <2>7. CASE LookAgain \/ ThirtySecondsPass BY <2>7, LookTold
  <2>8. CASE SeesStopped \/ Deadline BY <2>8, StopTold
  <2>9. CASE Exit \/ SessionDrops BY <2>9, GoneTold
  <2> QED BY <2>1, <2>2, <2>3, <2>4, <2>5, <2>6, <2>7, <2>8, <2>9
          DEF Next, Launch
<1> QED BY <1>1, <1>2 DEF LogInv

LEMMA LogStart == Init => LogInv
<1> SUFFICES ASSUME Init PROVE LogInv OBVIOUS
<1>1. Inv
  <2>1. launches \in 0..MaxLaunches
    BY InstallAssumption, SMT DEF Init, InstallAssumption
  <2> QED BY <2>1 DEF Init, Inv, Workers, Task, Numbered, Registered
<1>2. log = <<>> /\ out = <<>> /\ <<>> \in Seq(Line) /\ Len(log) = 0
  BY EmptySeq DEF Init
<1>3. Lines BY <1>2 DEF Init, Lines
<1>4. Kinds
  <2>1. 0 \in 0..Steps BY InstallAssumption, SMT DEF InstallAssumption
  <2> QED BY <2>1 DEF Init, Kinds, Places
<1>5. Started /\ Place /\ Fresh BY DEF Init, Started, Place, Fresh
<1>6. Sent
  <2>1. SubSeq(log, 1, 0) = <<>> BY SubSeqEmpty
  <2> QED BY <1>2, <2>1 DEF Init, Sent
<1>7. OwnLog BY DEF Init, OwnLog, Active
<1>8. Results
  <2> SUFFICES ASSUME NEW v \in Run, NEW i \in DOMAIN wrote[v] PROVE FALSE
    BY DEF Results
  <2>1. wrote[v] = <<>> BY DEF Init
  <2> QED BY <2>1
<1>9. Unread /\ Stopped /\ Final BY DEF Init, Unread, Stopped, Final, Result
<1>10. Misled
  <2>1. misled = 0 /\ stoppedSeen = FALSE BY Zenon DEF Init
  <2>2. misled \in 0..2 /\ misled < 2 BY <2>1
  <2> QED BY <2>1, <2>2, Zenon DEF Misled
<1> QED BY <1>1, <1>3, <1>4, <1>5, <1>6, <1>7, <1>8, <1>9, <1>10
        DEF LogInv, Told

LEMMA LogAlways == Spec => []LogInv
<1> QED BY LogStart, LogStep, PTL DEF Spec

(* Every variable keeps its type; a launcher that follows the log knows    *)
(* whose it is, and has not counted lines that are not there               *)
(* (windows-update.ps1:107-118).                                           *)
THEOREM Typed == Spec => []TypeOK
<1>1. LogInv => TypeOK
  <2> SUFFICES ASSUME LogInv PROVE TypeOK OBVIOUS
  <2>1. Lines /\ Kinds /\ Told /\ Inv BY DEF LogInv
  <2>2. launches \in 0..MaxLaunches /\ current \in {0} \cup Run
    BY <2>1 DEF Inv, Numbered, Task
  <2>3. current \in 0..launches
    <3>1. current \in Run => ~(current > launches)
      <4>1. current \in Run => current # 0 BY SMT DEF Run
      <4> QED BY <2>1, <4>1 DEF Told, Started, Place
    <3> QED BY <2>2, <3>1, SMT DEF Run
  <2>4. follows \in 0..launches
    <3>1. follows = 0 \/ follows = current BY <2>1 DEF Told, Place
    <3>2. 0 \in 0..launches BY <2>2
    <3> QED BY <2>3, <3>1, <3>2
  <2>5. follows # 0 <=> pc \in {"read", "look", "end"}
    BY <2>1 DEF Told, Place
  <2>6. printed \in 0..Len(log) BY <2>1 DEF Told, Sent
  <2>7. result \in Result \cup {"none", "stopped", "timed out"} BY <2>1 DEF Kinds
  <2>8. /\ log \in Seq(Line) /\ out \in Seq(Line) /\ wrote \in [Run -> Seq(Line)]
        /\ worker \in [Run -> {"none", "waiting", "running", "finished", "ended"}]
        /\ step \in [Run -> 0..Steps]
        /\ verdict \in [Run -> Result \cup {"none"}]
        /\ pc \in {"idle", "clear", "start", "read", "look", "end"}
        /\ {stoppedSeen, graceOver} \subseteq BOOLEAN
        /\ spoiled \subseteq {"log", "task"}
    BY <2>1 DEF Lines, Kinds, Places, Inv, Workers
  <2>9. misled \in 0..2 BY DEF LogInv, Misled
  <2> QED BY <2>2, <2>3, <2>4, <2>5, <2>6, <2>7, <2>8, <2>9 DEF TypeOK
<1> QED BY <1>1, LogAlways, PTL

(* What the host is sent is what its worker logged, from the first line,   *)
(* each line once and in order, also by a launcher that attached to an     *)
(* update another one started, as long as no log was emptied beside a      *)
(* worker (windows-update.ps1:94-95, 107, 115-118).                        *)
THEOREM Streams == Spec => []StreamIsLog
<1>1. LogInv => StreamIsLog
  <2> SUFFICES ASSUME LogInv, follows # 0, spoiled = {}
               PROVE  IsPrefix(out, wrote[follows])
    BY DEF StreamIsLog
  <2>1. Lines /\ Told BY DEF LogInv
  <2>2. log = wrote[follows] BY <2>1 DEF Told, OwnLog
  <2>3. log \in Seq(Line) /\ Len(log) \in Nat /\ printed \in 0..Len(log)
    BY <2>1, LenProperties DEF Lines, Told, Sent
  <2>4. out = SubSeq(log, 1, printed) BY <2>1 DEF Told, Sent
  <2>5. Len(out) = printed
    <3>1. \A i \in 1..printed : log[i] \in Line
      BY <2>3, ElementOfSeq
    <3>2. Len(SubSeq(log, 1, printed)) =
              IF 1 <= printed THEN printed - 1 + 1 ELSE 0
      BY <2>3, <3>1, SubSeqProperties
    <3>3. \A n \in Nat : (IF 1 <= n THEN n - 1 + 1 ELSE 0) = n OBVIOUS
    <3> QED BY <2>3, <2>4, <3>2, <3>3
  <2>6. SubSeq(out, 1, Len(out)) = out
    BY <2>1, SubSeqFull DEF Lines
  <2> QED BY <2>2, <2>3, <2>4, <2>5, <2>6 DEF IsPrefix
<1> QED BY <1>1, LogAlways, PTL

(* An exit code that was read from the log is the worker's own result, and *)
(* is given when everything before it has been sent: never the result of   *)
(* an update before this one (windows-update.ps1:97, 113-119).             *)
THEOREM ResultsAreTrue == Spec => []ResultIsWorkers
<1>1. LogInv => ResultIsWorkers
  <2> SUFFICES ASSUME LogInv, result \in Result, spoiled = {}
               PROVE  result = verdict[follows] /\ out = wrote[follows]
    BY DEF ResultIsWorkers
  <2>1. Lines /\ Told BY DEF LogInv
  <2>2. /\ pc = "end" /\ printed = Len(log) /\ result = verdict[follows]
    BY <2>1 DEF Told, Final
  <2>3. log = wrote[follows] BY <2>1, <2>2 DEF Told, OwnLog, Place
  <2>4. SubSeq(log, 1, Len(log)) = log BY <2>1, SubSeqFull DEF Lines
  <2> QED BY <2>1, <2>2, <2>3, <2>4 DEF Told, Sent
<1> QED BY <1>1, LogAlways, PTL

(* "The update task stopped without reporting a result" takes two looks    *)
(* that show no task (windows-update.ps1:120-129).  If neither is wrong it *)
(* is true, though the log is read before the state of the task and the    *)
(* worker may finish in between: the log is read once more, and nothing is *)
(* added to it after that.  If one is wrong, the other one still shows     *)
(* that the worker has ended.                                              *)
THEOREM StopsAreTrue == Spec => StoppedIsTrue
<1> DEFINE Claim ==
        result = "none" /\ result' = "stopped" =>
            \/ spoiled # {} \/ misled' = 2
            \/ /\ worker[follows] = "ended"
               /\ misled' = 0 => ~HasResult(follows)
<1>1. LogInv /\ [Next]_vars => [Claim]_vars
  <2> SUFFICES ASSUME LogInv, Next, result = "none", result' = "stopped",
                      spoiled = {}, misled' # 2
               PROVE  /\ worker[follows] = "ended"
                      /\ misled' = 0 => ~HasResult(follows)
    OBVIOUS
  <2>1. Lines /\ Told /\ Misled /\ Inv BY DEF LogInv
  <2>2. SeesStopped
    <3>1. \A w \in Run : ~Work(w)
      BY WorkShape DEF launcherVars
    <3>2. ~ReadLog
      <4> SUFFICES ASSUME ReadLog PROVE FALSE OBVIOUS
      <4>1. result' \in Result \cup {"none"} BY ReadTold
      <4> QED BY <4>1 DEF Result
    <3> QED BY <3>1, <3>2 DEF Next, Launch, Attach, NotRunning, EmptyLog,
              StartTask, LookAgain, Exit, Gone, ThirtySecondsPass, Deadline,
              SessionDrops
  <2>3. /\ pc = "look" /\ stoppedSeen
        /\ misled' = misled + (IF TaskRunning \/ TaskWaiting THEN 1 ELSE 0)
    BY <2>2 DEF SeesStopped, LooksStopped
  <2>4. misled \in {0, 1} BY <2>1, <2>3 DEF Misled
  <2>5. misled # 0 => ~TaskRunning /\ ~TaskWaiting BY <2>3, <2>4
  <2>6. misled' = 0 => misled = 0 BY <2>3, <2>4
  <2>7. CASE misled = 0
    <3>1. worker[follows] = "ended" /\ printed = Len(log) /\ log = wrote[follows]
      BY <2>1, <2>3, <2>7 DEF Told, Stopped, OwnLog, Place
    <3>2. \A i \in 1..Len(log) : log[i].result = "none"
      BY <2>1, <2>3, <3>1 DEF Told, Unread
    <3>3. DOMAIN log = 1..Len(log) BY <2>1, LenProperties DEF Lines
    <3> QED BY <3>1, <3>2, <3>3 DEF HasResult
  <2>8. CASE misled # 0
    <3>1. /\ follows # 0 /\ follows = current /\ follows \in Run
          /\ worker[follows] # "none"
      BY <2>1, <2>3 DEF Told, Place, Inv, Task
    <3>2. worker[follows] \in {"none", "waiting", "running", "finished", "ended"}
      BY <2>1, <3>1 DEF Inv, Workers
    <3>3. worker[follows] = "ended"
      BY <2>5, <2>8, <3>1, <3>2 DEF TaskRunning, TaskWaiting, Running
    <3> QED BY <2>6, <2>8, <3>3
  <2> QED BY <2>7, <2>8
<1> QED BY <1>1, LogAlways, PTL DEF Spec, StoppedIsTrue
=============================================================================
