------------------------------ MODULE WinPower ------------------------------
(***************************************************************************)
(* The Windows power exporter (power/win_power.ps1) as a process: its      *)
(* energy total, the state file it writes in place, the reading it leaves  *)
(* in power.json.  A unit of energy is what the machine draws in a unit of *)
(* time; what it draws is in PowerReadings for the Linux exporter.         *)
(*                                                                         *)
(* Get-Date is the local clock: summer time, a clock that is set and a     *)
(* machine that was suspended all make an interval of it differ from the   *)
(* time that was measured.  An optional value is a set with at most one    *)
(* element; the state file is empty when it is absent, cut short or bad.   *)
(***************************************************************************)
EXTENDS Integers

CONSTANTS
    SaveEvery,      \* the time between two saves (60 s)
    MaxGap,         \* the longest interval between two samples
    Shift,          \* how far the local clock jumps
    MaxClockSteps,  \* bound on the times it does
    MaxTotal        \* bound on the energy measured

ASSUME WinPowerAssumption ==
    /\ {SaveEvery, MaxGap} \subseteq Nat \ {0}
    /\ {Shift, MaxClockSteps, MaxTotal} \subseteq Nat

VARIABLES
    at,             \* off, sleep, save, write (the file is open), publish
    total,          \* $EnergyWh
    sinceSave,      \* $now - $LastSave
    file,           \* what power-state.json holds
    shown,          \* the energy in power.json
    saved,          \* history: the total of the last save, or load
    failing,        \* history: the last save failed
    spoiled,        \* history: the clock jumped, or a load found no total
    clockSteps

vars == <<at, total, sinceSave, file, shown, saved, failing, spoiled, clockSteps>>

-----------------------------------------------------------------------------
Init ==
    /\ at = "off" /\ total = 0 /\ sinceSave = 0
    /\ file = {} /\ shown = {}
    /\ saved = 0 /\ failing = FALSE /\ spoiled = FALSE /\ clockSteps = 0

StartWith(energy) ==
    /\ at = "off"
    /\ at' = "sleep" /\ sinceSave' = 0
    /\ total' = energy /\ saved' = energy
    /\ UNCHANGED <<file, shown, failing, clockSteps>>

Start == \E energy \in file : StartWith(energy) /\ UNCHANGED spoiled

\* No file, one that was cut short, one that cannot be read: 0.
StartEmpty == StartWith(0) /\ spoiled' = (spoiled \/ saved # 0)

\* The task is stopped, or started anew; the machine goes down; a kill.
Stop ==
    /\ at # "off"
    /\ at' = "off"
    /\ failing' = FALSE
    /\ UNCHANGED <<total, sinceSave, file, shown, saved, spoiled, clockSteps>>

\* win_power_install.ps1 removes the reading while the task is stopped.
RemoveReading ==
    /\ at = "off"
    /\ shown' = {}
    /\ UNCHANGED <<at, total, sinceSave, file, saved, failing, spoiled, clockSteps>>

-----------------------------------------------------------------------------
\* Mutant of SaveDue: the clock of the saves is looked at too late.
SaveDueLate(time) == time >= SaveEvery + MaxGap

SaveDue(time) == time >= SaveEvery

\* An interval of the local clock.
Jumped(interval, jump) ==
    /\ sinceSave' = sinceSave + interval
    /\ jump # 0 => clockSteps < MaxClockSteps
    /\ clockSteps' = IF jump # 0 THEN clockSteps + 1 ELSE clockSteps
    /\ spoiled' = (spoiled \/ jump # 0)

\* The sensors answer: the interval is counted, and a save may be due.
Sample ==
    /\ at = "sleep" /\ total < MaxTotal
    /\ \E gap \in 1..MaxGap, jump \in {0, Shift, -Shift} :
           /\ Jumped(gap + jump, jump)
           /\ total' = total + gap + jump
    /\ at' = IF SaveDue(sinceSave') THEN "save" ELSE "publish"
    /\ UNCHANGED <<file, shown, saved, failing>>

\* Read-Sensors throws when $Last has moved: the interval is lost.
SampleFails ==
    /\ at = "sleep" /\ sinceSave < SaveEvery + MaxGap
    /\ \E gap \in 1..MaxGap, jump \in {0, Shift, -Shift} : Jumped(gap + jump, jump)
    /\ UNCHANGED <<at, total, file, shown, saved, failing>>

\* Set-Content cuts the file off,
SaveOpens ==
    /\ at = "save"
    /\ at' = "write" /\ file' = {}
    /\ UNCHANGED <<total, sinceSave, shown, saved, failing, spoiled, clockSteps>>

\* and writes it.
SaveWrites ==
    /\ at = "write"
    /\ at' = "publish" /\ file' = {total}
    /\ sinceSave' = 0
    /\ saved' = total /\ failing' = FALSE
    /\ UNCHANGED <<total, shown, spoiled, clockSteps>>

\* Mutant of SaveFails: the error does not end the sample.
SaveFailsQuietly ==
    /\ at \in {"save", "write"}
    /\ at' = "publish"
    /\ failing' = TRUE
    /\ UNCHANGED <<total, sinceSave, file, shown, saved, spoiled, clockSteps>>

\* Either throws: there is no reading, and the next sample saves again.
SaveFails ==
    /\ at \in {"save", "write"}
    /\ at' = "sleep"
    /\ failing' = TRUE
    /\ UNCHANGED <<total, sinceSave, file, shown, saved, spoiled, clockSteps>>

\* A new file is moved over power.json.
Publish ==
    /\ at = "publish"
    /\ at' = "sleep" /\ shown' = {total}
    /\ UNCHANGED <<total, sinceSave, file, saved, failing, spoiled, clockSteps>>

\* It cannot be written, or power.json is open in a reader.
PublishFails ==
    /\ at = "publish"
    /\ at' = "sleep"
    /\ UNCHANGED <<total, sinceSave, file, shown, saved, failing, spoiled, clockSteps>>

Next ==
    \/ Start \/ StartEmpty \/ Stop \/ RemoveReading
    \/ Sample \/ SampleFails \/ SaveOpens \/ SaveWrites \/ SaveFails
    \/ Publish \/ PublishFails

Spec == Init /\ [][Next]_vars

-----------------------------------------------------------------------------
(* Properties.                                                             *)

(* "energy total survives restarts" (line 104): a restart falls behind the *)
(* reading a client could see by less than SaveEvery, however many saves   *)
(* failed, because a sample whose save throws leaves no reading.  Not so   *)
(* once the local clock jumped, or where a start finds no total: a stop or *)
(* a failure between SaveOpens and SaveWrites leaves none.                 *)
ReadingsSurvive ==
    [][at = "off" /\ at' = "sleep" =>
           spoiled' \/ \A energy \in shown : energy - total' < SaveEvery]_vars

Meter == INSTANCE EnergyMeter WITH
    Window  <- SaveEvery - 1 + MaxGap,
    total   <- IF spoiled THEN 0 ELSE IF at = "off" THEN saved ELSE total,
    durable <- IF spoiled THEN 0 ELSE saved

(* The exporter implements EnergyMeter, with the two situations in which   *)
(* the code loses or invents energy as its Spoil: the clock, and a file    *)
(* that is written in place.                                               *)
MeterSpec == Meter!Spec
=============================================================================
