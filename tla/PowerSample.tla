---------------------------- MODULE PowerSample ----------------------------
(***************************************************************************)
(* What one call of Estimator.sample (power/pve_power.py) measures.        *)
(*                                                                         *)
(* Every quantity comes from a counter that only grows: the sample takes   *)
(* the difference to the value it remembers and divides it by a time or by *)
(* another difference.  sample() reads the sources one after the other and *)
(* remembers each as it goes.  The host's counters are read at once, but   *)
(* then the drives may be asked and the energy saved, which takes time,    *)
(* before the guests are read; and an exception leaves it in the middle    *)
(* (serve's loop prints it and samples again).  What it remembers may      *)
(* therefore date from different moments, and from different samples.      *)
(*                                                                         *)
(* The state is therefore what has been added to each counter since the    *)
(* value the estimator remembers (last_t, rapl.last, last_cpu, last_io,    *)
(* last_guests), in units of time: the package draws a constant power, so  *)
(* its energy is the time it covers.  One processor runs one guest, the    *)
(* host itself or nothing.  One rotational drive; PowerServe has the       *)
(* energy total and the loop.                                              *)
(***************************************************************************)
EXTENDS Integers, FiniteSets, Functions

CONSTANTS
    Guest,          \* LXCs and VMs
    StandbyCheck,   \* STANDBY_CHECK_S, in units of time
    Horizon,        \* bound on the time from one sample that succeeds to the
                    \* end of the next
    MaxUsage        \* bound on what a guest had used before it restarts

ASSUME SampleAssumption ==
    /\ StandbyCheck \in Nat \ {0}
    /\ Horizon \in Nat \ {0}
    /\ MaxUsage \in Nat
    /\ IsFiniteSet(Guest) /\ Guest \cap {"host", "idle"} = {}

VARIABLES
    at,             \* where sample() is: rest, drives or guests
    sinceOk,        \* time since the start of the last sample that succeeded
    gap,            \* time since last_t
    pkg,            \* package energy since rapl.last
    busy,           \* busy time since last_cpu
    ticks,          \* the drive's I/O time has moved since last_io
    used,           \* what each guest's usage_usec has moved since last_guests
    alive,          \* the guests that run
    remembered,     \* the guests in last_guests
    spinning,       \* the drive's platters turn
    spunFor,        \* for how long, counted up to StandbyCheck
    ioSince,        \* history: I/O since the last standby check
    standby,        \* Estimator.standby: asleep, awake or unknown (None)
    checkAge,       \* time since standby_checked, counted up to StandbyCheck
    reading         \* what sample() has measured, and at rest what it returned:
                    \* package energy (cpu) over a time, busy time (whole) and
                    \* its split, I/O (ticks), whether to ask the drive (due),
                    \* whether it is shown asleep;
                    \* history: aligned; late, the busy time since it was read;
                    \* ioSince and spunFor when the drive was looked at

sensors  == <<gap, pkg, busy, ticks, used>>
drive    == <<spinning, spunFor, ioSince, standby, checkAge>>
vars     == <<at, sinceOk, sensors, alive, remembered, drive, reading>>

-----------------------------------------------------------------------------
AtMost(a, b)  == IF a <= b THEN a ELSE b
AtLeast(a, b) == IF a >= b THEN a ELSE b
Older(age)    == AtMost(age + 1, StandbyCheck)

NoReading ==
    [cpu |-> 0, over |-> 0, whole |-> 0, split |-> [g \in {} |-> 0],
     ticks |-> FALSE, due |-> FALSE, asleep |-> FALSE,
     aligned |-> TRUE, late |-> 0, ioSince |-> FALSE, spunFor |-> 0]

Init ==
    /\ at = "rest"
    /\ sinceOk = 0 /\ gap = 0 /\ pkg = 0 /\ busy = 0 /\ ticks = FALSE
    /\ used = [g \in Guest |-> 0]
    /\ alive \in SUBSET Guest /\ remembered = alive
    /\ spinning \in BOOLEAN /\ spunFor = 0 /\ ioSince = FALSE
    /\ standby = "unknown" /\ checkAge = StandbyCheck
    /\ reading = NoReading

-----------------------------------------------------------------------------
(* The machine being measured.  It goes on while a sample is taken.        *)

\* A result is looked at once; what is being measured is kept.
Meanwhile ==
    /\ reading' = (IF at = "rest" THEN NoReading ELSE reading)
    /\ UNCHANGED at

\* One unit of time: somebody has the processor, the drive works or not.
Run(who, io) ==
    /\ sinceOk < Horizon
    /\ who \in alive \cup {"host", "idle"}
    /\ sinceOk' = sinceOk + 1
    /\ gap' = gap + 1
    /\ pkg' = pkg + 1
    /\ busy' = (IF who = "idle" THEN busy ELSE busy + 1)
    /\ used' = [g \in Guest |-> IF g = who THEN used[g] + 1 ELSE used[g]]
    /\ ticks' = (ticks \/ io)
    /\ ioSince' = (ioSince \/ io)
    /\ spinning' = (spinning \/ io)
    /\ spunFor' = (IF spinning' THEN Older(spunFor) ELSE 0)
    /\ checkAge' = Older(checkAge)
    /\ Meanwhile
    /\ UNCHANGED <<alive, remembered, standby>>

GuestStops(g) ==
    /\ g \in alive
    /\ alive' = alive \ {g}
    /\ Meanwhile
    /\ UNCHANGED <<sinceOk, sensors, remembered, drive>>

\* A new cgroup counts from 0, which may be below the remembered usage.
GuestStarts(g) ==
    /\ g \in Guest \ alive
    /\ alive' = alive \cup {g}
    /\ \E before \in 0..MaxUsage : used' = [used EXCEPT ![g] = -before]
    /\ Meanwhile
    /\ UNCHANGED <<sinceOk, gap, pkg, busy, ticks, remembered, drive>>

DriveSleeps ==
    /\ spinning
    /\ spinning' = FALSE /\ spunFor' = 0
    /\ Meanwhile
    /\ UNCHANGED <<sinceOk, sensors, alive, remembered, ioSince, standby,
                   checkAge>>

\* A SMART command or a bus reset spins the drive up without any I/O.
DriveSpinsUp ==
    /\ ~spinning
    /\ spinning' = TRUE
    /\ Meanwhile
    /\ UNCHANGED <<sinceOk, sensors, alive, remembered, spunFor, ioSince,
                   standby, checkAge>>

-----------------------------------------------------------------------------
(* Estimator.sample.                                                       *)

\* Mutant of Answers: the words hdparm prints are passed on.
AnswersVerbatim == {"unknown", IF spinning THEN "active/idle" ELSE "sleeping"}

\* hdd_in_standby: hdparm or smartctl may be missing, fail or time out.
Answers == {"unknown", IF spinning THEN "awake" ELSE "asleep"}

\* Lines 301-304: the answer, if it was time to ask when the sample began,
\* else what is known.  The age of an answer counts from that time too.
AskDrive(answer) ==
    IF reading.due
    THEN answer \in Answers /\ checkAge' = AtMost(gap, StandbyCheck) /\ ioSince' = FALSE
    ELSE answer = standby /\ UNCHANGED <<checkAge, ioSince>>

\* Mutant of MeasureDrive: I/O does not clear a standby answer.
MeasureDriveKeepingAnswer(answer) ==
    /\ AskDrive(answer)
    /\ standby' = answer

\* The same, and lines 315-319: a drive with I/O is awake whatever it said.
MeasureDrive(answer) ==
    /\ AskDrive(answer)
    /\ standby' = (IF reading.ticks THEN "awake" ELSE answer)

\* Lines 347-351: guests known from the last time, their usage cut to the
\* busy time of the host.
Split ==
    IF reading.whole > 0
    THEN [g \in alive \cap remembered |-> AtMost(AtLeast(used[g], 0), reading.whole)]
    ELSE [g \in {} |-> 0]

\* Mutant of RememberGuests: self.last_guests = guests_now is missing.
RememberNothing == UNCHANGED <<used, remembered>>

\* Line 356.
RememberGuests ==
    /\ used' = [g \in Guest |-> 0]
    /\ remembered' = alive

\* Reading the RAPL counters raises: only last_t has moved.
SampleFailsAtRapl ==
    /\ at = "rest" /\ gap > 0
    /\ gap' = 0
    /\ reading' = NoReading
    /\ UNCHANGED <<at, sinceOk, pkg, busy, ticks, used, alive, remembered, drive>>

SampleFailsAtCpu ==
    /\ at = "rest" /\ gap > 0
    /\ gap' = 0 /\ pkg' = 0
    /\ reading' = NoReading
    /\ UNCHANGED <<at, sinceOk, busy, ticks, used, alive, remembered, drive>>

SampleFailsAtIo ==
    /\ at = "rest" /\ gap > 0
    /\ gap' = 0 /\ pkg' = 0 /\ busy' = 0
    /\ reading' = NoReading
    /\ UNCHANGED <<at, sinceOk, ticks, used, alive, remembered, drive>>

\* Lines 283-300, and whether line 301 will ask.  Nothing fails before what
\* was read of the I/O is remembered.
ReadHost ==
    /\ at = "rest" /\ gap > 0
    /\ at' = "drives"
    /\ gap' = 0 /\ pkg' = 0 /\ busy' = 0 /\ ticks' = FALSE
    /\ reading' = [NoReading EXCEPT !.cpu = pkg, !.over = gap, !.whole = busy,
                       !.ticks = ticks, !.due = checkAge >= StandbyCheck,
                       !.ioSince = ioSince, !.spunFor = spunFor]
    /\ UNCHANGED <<sinceOk, used, alive, remembered, drive>>

\* Lines 301-337: hdparm and smartctl may take ten seconds each, the save
\* some time as well.
ReadDrives ==
    /\ at = "drives"
    /\ at' = "guests"
    /\ \E answer \in Answers \cup {standby} :
        /\ MeasureDrive(answer)
        /\ reading' = [reading EXCEPT
               !.asleep = answer = "asleep" /\ ~reading.ticks,
               !.ioSince = IF reading.due THEN FALSE ELSE @,
               !.spunFor = IF reading.due THEN spunFor ELSE @]
    /\ UNCHANGED <<sinceOk, sensors, alive, remembered, spinning, spunFor>>

\* read_guests raises, for one when a guest stops between glob and open.
SampleFailsAtGuests ==
    /\ at = "guests"
    /\ at' = "rest"
    /\ reading' = NoReading
    /\ UNCHANGED <<sinceOk, sensors, alive, remembered, drive>>

\* Lines 340-382.
SampleSucceeds ==
    /\ at = "guests"
    /\ at' = "rest"
    /\ sinceOk' = gap
    /\ RememberGuests
    /\ reading' = [reading EXCEPT !.split = Split, !.late = busy,
                       !.aligned = reading.over + gap = sinceOk]
    /\ UNCHANGED <<gap, pkg, busy, ticks, alive, drive>>

Environment ==
    \/ \E who \in alive \cup {"host", "idle"}, io \in BOOLEAN : Run(who, io)
    \/ \E g \in Guest : GuestStops(g) \/ GuestStarts(g)
    \/ DriveSleeps \/ DriveSpinsUp

Sample ==
    \/ SampleFailsAtRapl \/ SampleFailsAtCpu \/ SampleFailsAtIo
    \/ ReadHost \/ ReadDrives \/ SampleFailsAtGuests \/ SampleSucceeds

Next == Environment \/ Sample

Spec == Init /\ [][Next]_vars

-----------------------------------------------------------------------------
(* Properties.                                                             *)

(* Every variable keeps its type; a standby answer is yes, no or unknown    *)
(* whatever hdparm and smartctl print (lines 186-202).                      *)
TypeOK ==
    /\ at \in {"rest", "drives", "guests"}
    /\ {sinceOk, gap, pkg, busy} \subseteq 0..Horizon
    /\ used \in [Guest -> Int]
    /\ alive \subseteq Guest /\ remembered \subseteq Guest
    /\ {ticks, spinning, ioSince} \subseteq BOOLEAN
    /\ {spunFor, checkAge} \subseteq 0..StandbyCheck
    /\ standby \in {"asleep", "awake", "unknown"}
    /\ {reading.cpu, reading.over, reading.whole, reading.late} \subseteq 0..Horizon
    /\ {reading.ticks, reading.due, reading.asleep, reading.aligned,
        reading.ioSince} \subseteq BOOLEAN
    /\ reading.spunFor \in 0..StandbyCheck

SplitSum == FoldFunction(+, 0, reading.split)

Returned == at = "rest"

(* A failed sample spoils one reading at most.  When the sample before it  *)
(* succeeded, package power is what was drawn, and the guests together get *)
(* no more than the whole and what has run since the whole was read, while *)
(* the drives were asked (lines 295-340): whoever stopped, started or      *)
(* restarted in between, and however long the sample before it took.       *)
DistortionEnds ==
    Returned /\ reading.aligned =>
        reading.cpu = reading.over /\ SplitSum <= reading.whole + reading.late

(* A drive shown asleep has done no I/O from when it was last seen asleep  *)
(* until it was looked at, and had not been turning for as long as a       *)
(* standby check takes to come round (lines 300-304 and 315-319).          *)
AsleepIsRecent ==
    Returned /\ reading.asleep =>
        ~reading.ioSince /\ reading.spunFor < StandbyCheck

(* Line 11: "CPU power split across LXCs/VMs by their share of CPU time":  *)
(* shares of the whole, so together they are not more than it.             *)
GuestSplitWithinWhole == Returned => SplitSum <= reading.whole
=============================================================================
