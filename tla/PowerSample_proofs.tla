------------------------- MODULE PowerSample_proofs -------------------------
(***************************************************************************)
(* Proofs about PowerSample, for any guests, any interval of the standby   *)
(* check and any time without a successful sample.                         *)
(***************************************************************************)
EXTENDS PowerSample, FiniteSetTheorems, WellFoundedInduction, TLAPS

-----------------------------------------------------------------------------
(* Types, in parts that the provers take one at a time.                    *)

Place    == at \in {"rest", "drives", "guests"}
Lengths  == /\ sinceOk \in 0..Horizon /\ gap \in 0..Horizon
            /\ pkg \in 0..Horizon /\ busy \in 0..Horizon
            /\ gap <= sinceOk /\ pkg <= sinceOk /\ busy <= sinceOk
\* While a sample is taken, everything but the guests counts from its start.
Fresh    == at # "rest" =>
                /\ pkg = gap /\ busy <= gap
                /\ reading.over > 0 /\ reading.over + gap <= sinceOk
Guests   == used \in [Guest -> Int] /\ alive \subseteq Guest /\ remembered \subseteq Guest
Switches == ticks \in BOOLEAN /\ spinning \in BOOLEAN /\ ioSince \in BOOLEAN
Checks   == spunFor \in 0..StandbyCheck /\ checkAge \in 0..StandbyCheck
Known    == standby \in {"asleep", "awake", "unknown"}
Shaped   == DOMAIN reading = {"cpu", "over", "whole", "split", "ticks", "due", "asleep",
                              "aligned", "late", "ioSince", "spunFor"}
Amounts  == /\ reading.cpu \in 0..Horizon /\ reading.over \in 0..Horizon
            /\ reading.whole \in 0..Horizon /\ reading.late \in 0..Horizon
            /\ reading.spunFor \in 0..StandbyCheck
Flags    == /\ reading.ticks \in BOOLEAN /\ reading.due \in BOOLEAN
            /\ reading.asleep \in BOOLEAN /\ reading.aligned \in BOOLEAN
            /\ reading.ioSince \in BOOLEAN

Measuring == Place /\ Lengths /\ Shaped /\ Amounts /\ Flags /\ Fresh
Typed     == Measuring /\ Guests /\ Switches /\ Checks /\ Known

(* Without a reading there is nothing to be wrong about.                   *)
LEMMA Nothing ==
    /\ NoReading.cpu = 0 /\ NoReading.over = 0 /\ NoReading.whole = 0
    /\ NoReading.late = 0 /\ NoReading.spunFor = 0
    /\ NoReading.asleep = FALSE /\ NoReading.aligned = TRUE
    /\ NoReading.ioSince = FALSE /\ NoReading.ticks = FALSE /\ NoReading.due = FALSE
    /\ NoReading.split = [g \in {} |-> 0]
    /\ DOMAIN NoReading = {"cpu", "over", "whole", "split", "ticks", "due", "asleep",
                           "aligned", "late", "ioSince", "spunFor"}
  BY DEF NoReading

(* What becomes of the reading: it is left alone, dropped, begun, completed *)
(* by the drives, or returned.                                             *)
LEMMA ReadingSteps ==
    [Next]_vars => \/ UNCHANGED <<at, reading>>
                   \/ at' = "rest" /\ reading' = NoReading
                   \/ ReadHost \/ ReadDrives \/ SampleSucceeds
<1> SUFFICES ASSUME [Next]_vars
             PROVE  \/ UNCHANGED <<at, reading>>
                    \/ at' = "rest" /\ reading' = NoReading
                    \/ ReadHost \/ ReadDrives \/ SampleSucceeds
  OBVIOUS
<1>1. CASE UNCHANGED vars BY <1>1 DEF vars
<1>2. CASE Environment
  <2>1. Meanwhile
    BY <1>2 DEF Environment, Run, GuestStops, GuestStarts, DriveSleeps, DriveSpinsUp
  <2> QED BY <2>1 DEF Meanwhile
<1>3. CASE Sample
  BY <1>3 DEF Sample, SampleFailsAtRapl, SampleFailsAtCpu, SampleFailsAtIo,
              SampleFailsAtGuests
<1> QED BY <1>1, <1>2, <1>3 DEF Next

LEMMA HostRead ==
    ReadHost =>
        /\ at = "rest" /\ gap > 0 /\ at' = "drives"
        /\ gap' = 0 /\ pkg' = 0 /\ busy' = 0 /\ ticks' = FALSE
        /\ reading'.cpu = pkg /\ reading'.over = gap /\ reading'.whole = busy
        /\ reading'.ticks = ticks /\ reading'.due = (checkAge >= StandbyCheck)
        /\ reading'.ioSince = ioSince /\ reading'.spunFor = spunFor
        /\ reading'.asleep = FALSE /\ reading'.aligned = TRUE /\ reading'.late = 0
        /\ UNCHANGED <<sinceOk, used, alive, remembered, drive>>
        /\ Shaped'
  BY DEF ReadHost, NoReading, Shaped

\* The drive was asked, or not, and this is what the reading says of it.
DriveRead(answer) ==
    /\ MeasureDrive(answer)
    /\ reading'.asleep = (answer = "asleep" /\ ~reading.ticks)
    /\ reading'.ioSince = (IF reading.due THEN FALSE ELSE reading.ioSince)
    /\ reading'.spunFor = (IF reading.due THEN spunFor ELSE reading.spunFor)

LEMMA DrivesRead ==
    ASSUME Shaped, ReadDrives
    PROVE  /\ \E answer \in Answers \cup {standby} : DriveRead(answer)
           /\ at = "drives" /\ at' = "guests"
           /\ reading'.cpu = reading.cpu /\ reading'.over = reading.over
           /\ reading'.whole = reading.whole /\ reading'.late = reading.late
           /\ reading'.ticks = reading.ticks /\ reading'.due = reading.due
           /\ reading'.aligned = reading.aligned
           /\ UNCHANGED <<sinceOk, gap, pkg, busy, ticks, used, alive, remembered,
                          spinning, spunFor>>
           /\ Shaped'
<1>1. PICK answer \in Answers \cup {standby} :
          /\ MeasureDrive(answer)
          /\ reading' = [reading EXCEPT
                 !.asleep = answer = "asleep" /\ ~reading.ticks,
                 !.ioSince = IF reading.due THEN FALSE ELSE @,
                 !.spunFor = IF reading.due THEN spunFor ELSE @]
  BY DEF ReadDrives
<1>2. DriveRead(answer) BY <1>1 DEF DriveRead, Shaped
<1>3. /\ reading'.cpu = reading.cpu /\ reading'.over = reading.over
      /\ reading'.whole = reading.whole /\ reading'.late = reading.late
      /\ reading'.ticks = reading.ticks /\ reading'.due = reading.due
      /\ reading'.aligned = reading.aligned /\ Shaped'
  BY <1>1 DEF Shaped
<1> QED BY <1>2, <1>3 DEF ReadDrives, sensors

LEMMA ReadingReturned ==
    ASSUME Shaped, SampleSucceeds
    PROVE  /\ at = "guests" /\ at' = "rest"
           /\ reading'.cpu = reading.cpu /\ reading'.over = reading.over
           /\ reading'.whole = reading.whole /\ reading'.ticks = reading.ticks
           /\ reading'.due = reading.due /\ reading'.asleep = reading.asleep
           /\ reading'.ioSince = reading.ioSince /\ reading'.spunFor = reading.spunFor
           /\ reading'.split = Split /\ reading'.late = busy
           /\ reading'.aligned = (reading.over + gap = sinceOk)
           /\ sinceOk' = gap /\ UNCHANGED <<gap, pkg, busy, ticks, alive, drive>>
           /\ used' = [g \in Guest |-> 0] /\ remembered' = alive
           /\ Shaped'
  BY DEF SampleSucceeds, RememberGuests, Shaped

LEMMA NothingMeasured ==
    ASSUME Lengths', at' = "rest", reading' = NoReading
    PROVE  Measuring'
<1>1. 0 \in 0..Horizon /\ 0 \in 0..StandbyCheck
  BY SampleAssumption, SMT DEF SampleAssumption
<1>2. /\ reading'.cpu = 0 /\ reading'.over = 0 /\ reading'.whole = 0
      /\ reading'.late = 0 /\ reading'.spunFor = 0
      /\ reading'.asleep = FALSE /\ reading'.aligned = TRUE
      /\ reading'.ioSince = FALSE /\ reading'.ticks = FALSE /\ reading'.due = FALSE
  BY Nothing, Zenon
<1>3. Amounts' BY <1>1, <1>2, Zenon DEF Amounts
<1>4. Flags' BY <1>2, Zenon DEF Flags
<1>5. Shaped' BY Nothing, Zenon DEF Shaped
<1> QED BY <1>3, <1>4, <1>5 DEF Measuring, Place, Fresh

LEMMA LengthsStep == Measuring /\ [Next]_vars => Lengths'
<1> SUFFICES ASSUME Measuring, [Next]_vars PROVE Lengths' OBVIOUS
<1> USE SampleAssumption DEF SampleAssumption, Lengths
<1>a. Lengths BY DEF Measuring
<1>0. CASE UNCHANGED vars BY <1>0, <1>a DEF vars, sensors
<1>1. ASSUME NEW who \in alive \cup {"host", "idle"}, NEW io \in BOOLEAN, Run(who, io)
      PROVE Lengths'
  <2>1. /\ sinceOk < Horizon /\ sinceOk' = sinceOk + 1
        /\ gap' = gap + 1 /\ pkg' = pkg + 1
        /\ busy' = busy \/ busy' = busy + 1
    BY <1>1 DEF Run
  <2> QED BY <1>a, <2>1, SMT
<1>2. CASE \/ \E g \in Guest : GuestStops(g) \/ GuestStarts(g)
           \/ DriveSleeps \/ DriveSpinsUp
  BY <1>2, <1>a DEF GuestStops, GuestStarts, DriveSleeps, DriveSpinsUp, sensors
<1>3. CASE SampleFailsAtRapl BY <1>3, <1>a, SMT DEF SampleFailsAtRapl
<1>4. CASE SampleFailsAtCpu BY <1>4, <1>a, SMT DEF SampleFailsAtCpu
<1>5. CASE SampleFailsAtIo BY <1>5, <1>a, SMT DEF SampleFailsAtIo
<1>6. CASE SampleFailsAtGuests BY <1>6, <1>a DEF SampleFailsAtGuests, sensors
<1>7. CASE ReadHost
  <2>1. UNCHANGED sinceOk /\ gap' = 0 /\ pkg' = 0 /\ busy' = 0
    BY <1>7 DEF ReadHost
  <2> QED BY <1>a, <2>1, SMT
<1>8. CASE ReadDrives BY <1>8, <1>a DEF ReadDrives, sensors
<1>9. CASE SampleSucceeds
  <2>1. at # "rest" /\ sinceOk' = gap /\ UNCHANGED <<gap, pkg, busy>>
    BY <1>9 DEF SampleSucceeds
  <2>2. pkg = gap /\ busy <= gap BY <2>1 DEF Measuring, Fresh
  <2> QED BY <1>a, <2>1, <2>2, SMT
<1> QED
  BY <1>0, <1>1, <1>2, <1>3, <1>4, <1>5, <1>6, <1>7, <1>8, <1>9
  DEF Next, Environment, Sample

(* Time that passes while a sample is taken passes for all its counters.   *)
LEMMA FreshStep ==
    ASSUME Measuring, [Next]_vars, UNCHANGED <<at, reading>>
    PROVE  Fresh'
<1>0. Lengths /\ Fresh /\ Amounts BY DEF Measuring
<1>1. CASE at = "rest" BY <1>1 DEF Fresh
<1>2. CASE at # "rest" /\ UNCHANGED <<sinceOk, gap, pkg, busy>>
  BY <1>0, <1>2 DEF Fresh
<1>3. ASSUME at # "rest", NEW who \in alive \cup {"host", "idle"}, NEW io \in BOOLEAN,
             Run(who, io)
      PROVE Fresh'
  <2>1. /\ sinceOk' = sinceOk + 1 /\ gap' = gap + 1 /\ pkg' = pkg + 1
        /\ busy' = busy \/ busy' = busy + 1
    BY <1>3 DEF Run
  <2>2. /\ pkg = gap /\ busy <= gap /\ reading.over > 0
        /\ reading.over + gap <= sinceOk
    BY <1>0, <1>3 DEF Fresh
  <2>3. reading'.over = reading.over OBVIOUS
  <2>4. /\ sinceOk \in Int /\ gap \in Int /\ busy \in Int /\ reading.over \in Int
    BY <1>0, SampleAssumption DEF Lengths, Amounts, SampleAssumption
  <2>5. pkg' = gap' /\ busy' <= gap' /\ reading'.over + gap' <= sinceOk'
    BY <2>1, <2>2, <2>3, <2>4, SMT
  <2> QED BY <2>2, <2>3, <2>5 DEF Fresh
<1>4. CASE /\ at # "rest"
           /\ \/ UNCHANGED vars
              \/ \E g \in Guest : GuestStops(g) \/ GuestStarts(g)
              \/ DriveSleeps \/ DriveSpinsUp
  <2>1. UNCHANGED <<sinceOk, gap, pkg, busy>>
    BY <1>4 DEF GuestStops, GuestStarts, DriveSleeps, DriveSpinsUp, sensors, vars
  <2> QED BY <1>2, <1>4, <2>1
<1>5. CASE at # "rest" /\ Sample
  <2>1. at' # at
    BY <1>5 DEF Sample, SampleFailsAtRapl, SampleFailsAtCpu, SampleFailsAtIo,
                ReadHost, ReadDrives, SampleFailsAtGuests, SampleSucceeds
  <2> QED BY <2>1
<1> QED BY <1>1, <1>3, <1>4, <1>5 DEF Next, Environment

LEMMA MeasuringStep ==
    Measuring /\ Switches /\ Checks /\ Known /\ [Next]_vars => Measuring'
<1> SUFFICES ASSUME Measuring, Switches, Checks, Known, [Next]_vars
             PROVE Measuring'
  OBVIOUS
<1>1. Lengths' BY LengthsStep
<1>2. CASE UNCHANGED <<at, reading>>
  <2>1. Fresh' BY <1>2, FreshStep
  <2> QED BY <1>1, <1>2, <2>1 DEF Measuring, Place, Shaped, Amounts, Flags
<1>3. CASE at' = "rest" /\ reading' = NoReading
  BY <1>1, <1>3, NothingMeasured
<1>4. CASE ReadHost
  <2> USE SampleAssumption DEF SampleAssumption
  <2>1. Amounts' BY <1>4, HostRead, SMT DEF Measuring, Lengths, Amounts, Checks
  <2>2. Flags'
    <3>1. reading'.due = (checkAge >= StandbyCheck) BY <1>4, HostRead
    <3>2. (checkAge >= StandbyCheck) \in BOOLEAN BY SMT DEF Checks
    <3>3. reading'.due \in BOOLEAN BY <3>1, <3>2, Zenon
    <3> QED BY <1>4, <3>3, HostRead DEF Switches, Flags
  <2>3. Fresh' BY <1>4, HostRead, SMT DEF Measuring, Lengths, Fresh
  <2> QED BY <1>1, <1>4, <2>1, <2>2, <2>3, HostRead DEF Measuring, Place
<1>5. CASE ReadDrives
  <2>0. Shaped BY DEF Measuring
  <2>1. PICK answer \in Answers \cup {standby} : DriveRead(answer)
    BY <1>5, <2>0, DrivesRead
  <2>2. /\ at = "drives" /\ at' = "guests" /\ Shaped'
        /\ reading'.cpu = reading.cpu /\ reading'.over = reading.over
        /\ reading'.whole = reading.whole /\ reading'.late = reading.late
        /\ reading'.ticks = reading.ticks /\ reading'.due = reading.due
        /\ reading'.aligned = reading.aligned
        /\ UNCHANGED <<sinceOk, gap, pkg, busy>>
    BY <1>5, <2>0, DrivesRead
  <2>3. reading'.spunFor = spunFor \/ reading'.spunFor = reading.spunFor
    BY <2>1 DEF DriveRead
  <2>4. Amounts' BY <2>2, <2>3 DEF Measuring, Amounts, Checks
  <2>5. reading'.asleep \in BOOLEAN BY <2>1, Zenon DEF DriveRead
  <2>6. reading'.ioSince \in BOOLEAN BY <2>1 DEF DriveRead, Measuring, Flags
  <2>7. Flags' BY <2>2, <2>5, <2>6 DEF Measuring, Flags
  <2>8. Fresh' BY <2>2 DEF Measuring, Fresh
  <2> QED BY <1>1, <2>2, <2>4, <2>7, <2>8 DEF Measuring, Place
<1>6. CASE SampleSucceeds
  <2>0. Shaped BY DEF Measuring
  <2>1. Amounts' BY <1>6, <2>0, ReadingReturned DEF Measuring, Lengths, Amounts
  <2>2. reading'.aligned \in BOOLEAN
    <3>1. reading'.aligned = (reading.over + gap = sinceOk)
      BY <1>6, <2>0, ReadingReturned
    <3> QED BY <3>1, Zenon
  <2>3. Flags' BY <1>6, <2>0, <2>2, ReadingReturned DEF Measuring, Flags
  <2>4. at' = "rest" /\ Shaped' BY <1>6, <2>0, ReadingReturned
  <2> QED BY <1>1, <2>1, <2>3, <2>4 DEF Measuring, Place, Fresh
<1> QED BY <1>2, <1>3, <1>4, <1>5, <1>6, ReadingSteps

LEMMA GuestsStep == Guests /\ [Next]_vars => Guests'
<1> SUFFICES ASSUME Guests, [Next]_vars PROVE Guests' OBVIOUS
<1> USE DEF Guests
<1>0. CASE UNCHANGED vars BY <1>0 DEF vars, sensors
<1>1. ASSUME NEW who \in alive \cup {"host", "idle"}, NEW io \in BOOLEAN, Run(who, io)
      PROVE Guests'
  <2>1. used' = [g \in Guest |-> IF g = who THEN used[g] + 1 ELSE used[g]]
    BY <1>1 DEF Run
  <2>2. used' \in [Guest -> Int] BY <2>1, SMT
  <2> QED BY <1>1, <2>2 DEF Run
<1>2. ASSUME NEW g \in Guest, GuestStops(g) PROVE Guests'
  BY <1>2 DEF GuestStops, sensors
<1>3. ASSUME NEW g \in Guest, GuestStarts(g) PROVE Guests'
  <2>1. PICK before \in 0..MaxUsage : used' = [used EXCEPT ![g] = -before]
    BY <1>3 DEF GuestStarts
  <2>2. -before \in Int BY SampleAssumption, SMT DEF SampleAssumption
  <2>3. used' \in [Guest -> Int] BY <2>1, <2>2
  <2> QED BY <1>3, <2>3 DEF GuestStarts
<1>4. CASE DriveSleeps \/ DriveSpinsUp \/ ReadDrives \/ SampleFailsAtGuests
  BY <1>4 DEF DriveSleeps, DriveSpinsUp, ReadDrives, SampleFailsAtGuests, sensors
<1>5. CASE SampleFailsAtRapl \/ SampleFailsAtCpu \/ SampleFailsAtIo \/ ReadHost
  BY <1>5 DEF SampleFailsAtRapl, SampleFailsAtCpu, SampleFailsAtIo, ReadHost
<1>6. CASE SampleSucceeds
  BY <1>6 DEF SampleSucceeds, RememberGuests
<1> QED BY <1>0, <1>1, <1>2, <1>3, <1>4, <1>5, <1>6 DEF Next, Environment, Sample

LEMMA DriveAsked ==
    ASSUME NEW answer, MeasureDrive(answer), Measuring, Switches, Checks, Known,
           answer \in Answers \cup {standby}
    PROVE  ioSince' \in BOOLEAN /\ checkAge' \in 0..StandbyCheck /\ Known'
<1>1. answer \in {"asleep", "awake", "unknown"} BY DEF Answers, Known
<1>2. standby' = answer \/ standby' = "awake" BY DEF MeasureDrive
<1>3. AtMost(gap, StandbyCheck) \in 0..StandbyCheck
  BY SampleAssumption, SMT DEF SampleAssumption, AtMost, Measuring, Lengths
<1>4. \/ checkAge' = AtMost(gap, StandbyCheck) /\ ioSince' = FALSE
      \/ UNCHANGED <<checkAge, ioSince>>
  BY DEF MeasureDrive, AskDrive
<1> QED BY <1>1, <1>2, <1>3, <1>4 DEF Switches, Checks, Known

LEMMA Ages == \A age \in 0..StandbyCheck : Older(age) \in 0..StandbyCheck
  BY SampleAssumption, SMT DEF SampleAssumption, Older, AtMost

LEMMA DriveStep ==
    Typed /\ [Next]_vars => Switches' /\ Checks' /\ Known'
<1> SUFFICES ASSUME Typed, [Next]_vars PROVE Switches' /\ Checks' /\ Known'
  OBVIOUS
<1>a. Measuring /\ Switches /\ Checks /\ Known BY DEF Typed
<1>0. CASE UNCHANGED vars
  BY <1>a, <1>0 DEF vars, sensors, drive, Switches, Checks, Known
<1>1. ASSUME NEW who \in alive \cup {"host", "idle"}, NEW io \in BOOLEAN, Run(who, io)
      PROVE Switches' /\ Checks' /\ Known'
  <2>1. 0 \in 0..StandbyCheck BY SampleAssumption, SMT DEF SampleAssumption
  <2>2. spunFor' = Older(spunFor) \/ spunFor' = 0 BY <1>1 DEF Run
  <2>3. Checks' BY <1>a, <1>1, <2>1, <2>2, Ages DEF Run, Checks
  <2>4. /\ ticks' = (ticks \/ io) /\ ioSince' = (ioSince \/ io)
        /\ spinning' = (spinning \/ io) /\ standby' = standby
    BY <1>1 DEF Run
  <2>5. Switches' BY <2>4, Zenon DEF Switches
  <2> QED BY <1>a, <2>3, <2>4, <2>5 DEF Known
<1>2. ASSUME NEW g \in Guest, GuestStops(g) \/ GuestStarts(g)
      PROVE Switches' /\ Checks' /\ Known'
  BY <1>a, <1>2 DEF GuestStops, GuestStarts, sensors, drive, Switches, Checks, Known
<1>3. CASE DriveSleeps \/ DriveSpinsUp
  <2>1. 0 \in 0..StandbyCheck BY SampleAssumption, SMT DEF SampleAssumption
  <2> QED BY <1>a, <1>3, <2>1
          DEF DriveSleeps, DriveSpinsUp, sensors, Switches, Checks, Known
<1>4. CASE \/ SampleFailsAtRapl \/ SampleFailsAtCpu \/ SampleFailsAtIo
           \/ ReadHost \/ SampleFailsAtGuests \/ SampleSucceeds
  BY <1>a, <1>4 DEF SampleFailsAtRapl, SampleFailsAtCpu, SampleFailsAtIo, ReadHost,
              SampleFailsAtGuests, SampleSucceeds, sensors, drive, Switches, Checks, Known
<1>5. CASE ReadDrives
  <2>1. UNCHANGED <<ticks, spinning, spunFor>> BY <1>5 DEF ReadDrives, sensors
  <2>2. PICK answer \in Answers \cup {standby} : MeasureDrive(answer)
    BY <1>5 DEF ReadDrives
  <2>3. ioSince' \in BOOLEAN /\ checkAge' \in 0..StandbyCheck /\ Known'
    BY <1>a, <2>2, DriveAsked
  <2> QED BY <1>a, <2>1, <2>3 DEF Switches, Checks
<1> QED BY <1>0, <1>1, <1>2, <1>3, <1>4, <1>5 DEF Next, Environment, Sample

LEMMA Initially == Init => Typed
<1> SUFFICES ASSUME Init PROVE Typed OBVIOUS
<1>1. 0 \in 0..Horizon /\ 0 \in 0..StandbyCheck /\ StandbyCheck \in 0..StandbyCheck
  BY SampleAssumption, SMT DEF SampleAssumption
<1>2. Lengths BY <1>1, SMT DEF Init, Lengths
<1>3. Guests BY DEF Init, Guests
<1>4. Switches /\ Checks /\ Known BY <1>1 DEF Init, Switches, Checks, Known
<1>5. Shaped /\ Amounts /\ Flags
  <2>1. /\ reading.cpu = 0 /\ reading.over = 0 /\ reading.whole = 0
        /\ reading.late = 0 /\ reading.spunFor = 0
        /\ reading.asleep = FALSE /\ reading.aligned = TRUE
        /\ reading.ioSince = FALSE /\ reading.ticks = FALSE /\ reading.due = FALSE
    BY Nothing, Zenon DEF Init
  <2>2. Shaped BY Nothing, Zenon DEF Init, Shaped
  <2>3. Amounts BY <1>1, <2>1, Zenon DEF Amounts
  <2>4. Flags BY <2>1, Zenon DEF Flags
  <2> QED BY <2>2, <2>3, <2>4
<1>6. Place /\ Fresh BY DEF Init, Place, Fresh
<1> QED BY <1>2, <1>3, <1>4, <1>5, <1>6 DEF Typed, Measuring

LEMMA TypedStep == Typed /\ [Next]_vars => Typed'
  BY MeasuringStep, GuestsStep, DriveStep DEF Typed

(* Every variable keeps its type in every reachable state; no counter      *)
(* covers more time than has passed since a sample succeeded, and while a  *)
(* sample is taken all but the guests' count from its start.               *)
THEOREM AlwaysTyped == Spec => []Typed
BY Initially, TypedStep, PTL DEF Spec

(* The type invariant of the runs.                                         *)
THEOREM Typing == Spec => []TypeOK
<1>1. Typed => TypeOK
  BY DEF Typed, Measuring, Place, Lengths, Guests, Switches, Checks, Known, Amounts,
         Flags, TypeOK
<1> QED BY <1>1, AlwaysTyped, PTL

-----------------------------------------------------------------------------
(* A drive shown asleep.                                                   *)

\* Platters that stand still have turned for no time.
Still     == ~spinning => spunFor = 0

\* An answer "asleep" is older than the platters have turned since, and I/O
\* that came after it has moved the counter that a sample looks at, this
\* one or the next.
AsleepIs  ==
    standby = "asleep" =>
        /\ spunFor <= checkAge
        /\ ioSince => ticks \/ (at = "drives" /\ reading.ticks)

\* What a sample that does not ask again relies on.
Recent == ~reading.ioSince /\ reading.spunFor < StandbyCheck
Relied ==
    at = "drives" /\ standby = "asleep" /\ ~reading.due /\ ~reading.ticks => Recent
Evident == reading.asleep => Recent

DriveInv  == Typed /\ Still /\ AsleepIs /\ Relied /\ Evident

LEMMA OlderKeepsOrder ==
    \A a, b \in 0..StandbyCheck : a <= b => Older(a) <= Older(b) /\ 0 <= Older(b)
  BY SampleAssumption, SMT DEF SampleAssumption, Older, AtMost

LEMMA StillStep == Typed /\ Still /\ [Next]_vars => Still'
  BY DEF Still, Next, Environment, Sample, Run, GuestStops, GuestStarts,
         DriveSleeps, DriveSpinsUp, SampleFailsAtRapl, SampleFailsAtCpu,
         SampleFailsAtIo, ReadHost, ReadDrives, SampleFailsAtGuests,
         SampleSucceeds, vars, drive

(* What a sample takes for asleep, whether it has just asked or not.       *)
LEMMA AsleepAnswer ==
    ASSUME NEW answer \in Answers \cup {standby}, DriveRead(answer), DriveInv,
           at = "drives", answer = "asleep", ~reading.ticks
    PROVE  Recent' /\ spunFor <= checkAge' /\ (ioSince' => ticks)
<1> USE SampleAssumption DEF SampleAssumption
<1>0. reading.due \in BOOLEAN BY DEF DriveInv, Typed, Measuring, Flags
<1>1. CASE reading.due
  <2>1. /\ answer \in Answers /\ checkAge' = AtMost(gap, StandbyCheck)
        /\ ioSince' = FALSE
    BY <1>1 DEF DriveRead, MeasureDrive, AskDrive
  <2>2. spunFor = 0 BY <2>1 DEF Answers, Still, DriveInv
  <2>3. reading'.ioSince = FALSE /\ reading'.spunFor = spunFor
    BY <1>1 DEF DriveRead
  <2>4. 0 <= checkAge'
    BY <2>1, SMT DEF AtMost, DriveInv, Typed, Measuring, Lengths
  <2> QED BY <2>1, <2>2, <2>3, <2>4 DEF Recent
<1>2. CASE ~reading.due
  <2>1. standby = "asleep" /\ checkAge' = checkAge /\ ioSince' = ioSince
    BY <1>2 DEF DriveRead, MeasureDrive, AskDrive
  <2>2. spunFor <= checkAge /\ (ioSince => ticks)
    BY <2>1 DEF DriveInv, AsleepIs
  <2>3. Recent BY <1>2, <2>1 DEF DriveInv, Relied
  <2>4. reading'.ioSince = reading.ioSince /\ reading'.spunFor = reading.spunFor
    BY <1>2 DEF DriveRead
  <2> QED BY <2>1, <2>2, <2>3, <2>4 DEF Recent
<1> QED BY <1>0, <1>1, <1>2

LEMMA AsleepIsStep == DriveInv /\ [Next]_vars => AsleepIs'
<1> SUFFICES ASSUME DriveInv, [Next]_vars PROVE AsleepIs' OBVIOUS
<1>a. Typed /\ AsleepIs BY DEF DriveInv
<1>0. CASE UNCHANGED vars BY <1>a, <1>0 DEF vars, sensors, drive, AsleepIs
<1>1. ASSUME NEW who \in alive \cup {"host", "idle"}, NEW io \in BOOLEAN, Run(who, io)
      PROVE AsleepIs'
  <2>1. /\ standby' = standby /\ checkAge' = Older(checkAge)
        /\ spunFor' = Older(spunFor) \/ spunFor' = 0
    BY <1>1 DEF Run
  <2>2. /\ ticks' = (ticks \/ io) /\ ioSince' = (ioSince \/ io)
    BY <1>1 DEF Run
  <2>3. at' = at /\ (at = "drives" => reading' = reading)
    BY <1>1 DEF Run, Meanwhile
  <2>4. standby = "asleep" =>
            (ioSince' => ticks' \/ (at' = "drives" /\ reading'.ticks))
    BY <1>a, <2>2, <2>3, Zenon DEF AsleepIs
  <2>5. standby = "asleep" => spunFor' <= checkAge'
    BY <1>a, <2>1, OlderKeepsOrder DEF AsleepIs, Typed, Checks
  <2> QED BY <2>1, <2>4, <2>5 DEF AsleepIs
<1>2. ASSUME NEW g \in Guest, GuestStops(g) \/ GuestStarts(g) PROVE AsleepIs'
  BY <1>a, <1>2 DEF GuestStops, GuestStarts, Meanwhile, sensors, drive, AsleepIs
<1>3. CASE DriveSleeps
  <2>1. spunFor' = 0 /\ UNCHANGED <<ticks, ioSince, standby, checkAge, at>>
        /\ (at = "drives" => reading' = reading)
    BY <1>3 DEF DriveSleeps, Meanwhile, sensors
  <2>2. 0 <= checkAge BY <1>a, SMT DEF Typed, Checks
  <2> QED BY <1>a, <2>1, <2>2 DEF AsleepIs
<1>4. CASE DriveSpinsUp
  BY <1>a, <1>4 DEF DriveSpinsUp, Meanwhile, sensors, AsleepIs
<1>5. CASE SampleFailsAtRapl \/ SampleFailsAtCpu \/ SampleFailsAtIo
  BY <1>a, <1>5 DEF SampleFailsAtRapl, SampleFailsAtCpu, SampleFailsAtIo, drive, AsleepIs
<1>6. CASE ReadHost BY <1>a, <1>6, HostRead DEF drive, AsleepIs
<1>7. CASE ReadDrives
  <2>0. Shaped BY <1>a DEF Typed, Measuring
  <2>1. PICK answer \in Answers \cup {standby} : DriveRead(answer)
    BY <1>7, <2>0, DrivesRead
  <2>2. at = "drives" /\ UNCHANGED <<spunFor, ticks>> BY <1>7, <2>0, DrivesRead
  <2>3. standby' = "asleep" => answer = "asleep" /\ ~reading.ticks
    BY <2>1 DEF DriveRead, MeasureDrive
  <2> QED BY <2>1, <2>2, <2>3, AsleepAnswer DEF AsleepIs
<1>8. CASE SampleFailsAtGuests \/ SampleSucceeds
  <2>1. at # "drives" /\ UNCHANGED <<ticks, ioSince, standby, checkAge, spunFor>>
    BY <1>8 DEF SampleFailsAtGuests, SampleSucceeds, sensors, drive
  <2> QED BY <1>a, <2>1 DEF AsleepIs
<1> QED
  BY <1>0, <1>1, <1>2, <1>3, <1>4, <1>5, <1>6, <1>7, <1>8
  DEF Next, Environment, Sample

LEMMA RecentStep == DriveInv /\ [Next]_vars => Relied' /\ Evident'
<1> SUFFICES ASSUME DriveInv, [Next]_vars PROVE Relied' /\ Evident' OBVIOUS
<1>0. Typed /\ Shaped /\ Relied /\ Evident BY DEF DriveInv, Typed, Measuring
<1>1. CASE UNCHANGED <<at, reading>>
  <2>1. UNCHANGED standby \/ at # "drives"
    BY <1>1 DEF Next, Environment, Sample, Run, GuestStops, GuestStarts,
         DriveSleeps, DriveSpinsUp, SampleFailsAtRapl, SampleFailsAtCpu,
         SampleFailsAtIo, ReadHost, ReadDrives, SampleFailsAtGuests,
         SampleSucceeds, vars, drive
  <2> QED BY <1>0, <1>1, <2>1 DEF Relied, Evident, Recent
<1>2. CASE at' = "rest" /\ reading' = NoReading
  BY <1>2, Nothing DEF Relied, Evident
<1>3. CASE ReadHost
  <2>1. /\ at = "rest" /\ reading'.asleep = FALSE /\ UNCHANGED standby
        /\ reading'.ticks = ticks /\ reading'.due = (checkAge >= StandbyCheck)
        /\ reading'.ioSince = ioSince /\ reading'.spunFor = spunFor
    BY <1>3, HostRead DEF drive
  <2>2. standby = "asleep" => spunFor <= checkAge /\ (ioSince => ticks)
    BY <2>1 DEF DriveInv, AsleepIs
  <2>3. spunFor \in Int /\ checkAge \in Int /\ StandbyCheck \in Int
    BY <1>0, SampleAssumption DEF Typed, Checks, SampleAssumption
  <2>4. ~(checkAge >= StandbyCheck) /\ spunFor <= checkAge => spunFor < StandbyCheck
    BY <2>3, SMT
  <2> QED BY <2>1, <2>2, <2>4 DEF Relied, Evident, Recent
<1>4. CASE ReadDrives
  <2>1. PICK answer \in Answers \cup {standby} : DriveRead(answer)
    BY <1>0, <1>4, DrivesRead
  <2>2. at = "drives" /\ at' = "guests" BY <1>0, <1>4, DrivesRead
  <2>3. reading'.asleep = (answer = "asleep" /\ ~reading.ticks)
    BY <2>1 DEF DriveRead
  <2>4. reading'.asleep => Recent' BY <2>1, <2>2, <2>3, AsleepAnswer
  <2> QED BY <2>2, <2>4 DEF Relied, Evident
<1>5. CASE SampleSucceeds
  <2>1. /\ at' = "rest" /\ reading'.asleep = reading.asleep
        /\ reading'.ioSince = reading.ioSince /\ reading'.spunFor = reading.spunFor
    BY <1>0, <1>5, ReadingReturned
  <2> QED BY <1>0, <2>1 DEF Relied, Evident, Recent
<1> QED BY <1>1, <1>2, <1>3, <1>4, <1>5, ReadingSteps

(* A drive shown asleep has been seen asleep recently, whatever I/O and    *)
(* samples that failed came in between, and however long asking it took    *)
(* (pve_power.py:301-304, 315-319).                                        *)
THEOREM AsleepRecent == Spec => []AsleepIsRecent
<1>1. Init => DriveInv
  <2> SUFFICES ASSUME Init PROVE DriveInv OBVIOUS
  <2>1. Typed BY Initially
  <2>2. Still /\ AsleepIs /\ Relied BY DEF Init, Still, AsleepIs, Relied
  <2>3. Evident BY Nothing DEF Init, Evident
  <2> QED BY <2>1, <2>2, <2>3 DEF DriveInv
<1>2. DriveInv /\ [Next]_vars => DriveInv'
  BY TypedStep, StillStep, AsleepIsStep, RecentStep DEF DriveInv
<1>3. DriveInv => AsleepIsRecent
  BY DEF DriveInv, Evident, Recent, AsleepIsRecent
<1> QED BY <1>1, <1>2, <1>3, PTL DEF Spec

-----------------------------------------------------------------------------
(* Sums, which FoldFunction computes by recursion over the domain.  The    *)
(* function it recurs with exists, as it does for the subsets of every     *)
(* size; what holds of it is shown by taking a least subset it fails for.  *)

(* Any natural numbers have a least.                                       *)
LEMMA Least == \A T \in SUBSET Nat : T # {} => \E x \in T : \A y \in T : x <= y
<1> SUFFICES ASSUME NEW T \in SUBSET Nat, T # {}
             PROVE  \E x \in T : \A y \in T : x <= y
  OBVIOUS
<1>1. \E x \in T : \A y \in T : ~ (<<y, x>> \in OpToRel(<, Nat))
  BY NatLessThanWellFounded, WFMin
<1>2. \A x, y \in Nat : y < x => <<y, x>> \in OpToRel(<, Nat)
  BY DEF OpToRel
<1>3. \E x \in T : \A y \in T : ~(y < x) BY <1>1, <1>2, Zenon
<1>4. \A x, y \in Nat : ~(y < x) => x <= y OBVIOUS
<1> QED BY <1>3, <1>4

\* The element FoldFunction takes next.
One(s) == CHOOSE x \in s : TRUE

\* The sums of f over the members of D, computed one from the other.
Folds(f, D, F) ==
    F = [s \in D |-> IF s = {} THEN 0 ELSE f[One(s)] + F[s \ {One(s)}]]

UpTo(S, n) == {s \in SUBSET S : Cardinality(s) <= n}

LEMMA FoldIsFold ==
    ASSUME NEW f
    PROVE  FoldFunction(+, 0, f) =
               (CHOOSE F : Folds(f, SUBSET (DOMAIN f), F))[DOMAIN f]
  BY Zenon DEF FoldFunction, FoldFunctionOnSet, MapThenFoldSet, Folds, One

LEMMA Smaller ==
    ASSUME NEW S, IsFiniteSet(S), NEW s \in SUBSET S, NEW x \in s
    PROVE  /\ IsFiniteSet(s) /\ s \ {x} \in SUBSET S
           /\ Cardinality(s) \in Nat \ {0}
           /\ Cardinality(s \ {x}) = Cardinality(s) - 1
<1>1. IsFiniteSet(s) BY FS_Subset
<1>2. Cardinality(s) \in Nat BY <1>1, FS_CardinalityType
<1>3. Cardinality(s) # 0 BY <1>1, FS_EmptySet
<1>4. Cardinality(s \ {x}) = Cardinality(s) - 1 BY <1>1, FS_RemoveElement
<1> QED BY <1>1, <1>2, <1>3, <1>4

LEMMA FoldsOneMore ==
    ASSUME NEW S, IsFiniteSet(S), NEW f, NEW n \in Nat,
           NEW F, Folds(f, UpTo(S, n), F)
    PROVE  \E G : Folds(f, UpTo(S, n + 1), G)
<1> DEFINE G == [s \in UpTo(S, n + 1) |->
                    IF s = {} THEN 0 ELSE f[One(s)] + F[s \ {One(s)}]]
<1>1. ASSUME NEW s \in UpTo(S, n + 1), s # {}
      PROVE  G[s \ {One(s)}] = F[s \ {One(s)}]
  <2> DEFINE t == s \ {One(s)}
  <2>1. One(s) \in s BY <1>1 DEF One
  <2>2. t \in SUBSET S /\ Cardinality(t) = Cardinality(s) - 1
        /\ Cardinality(s) \in Nat \ {0}
    BY <2>1, Smaller DEF UpTo
  <2>3. Cardinality(s) <= n + 1 BY DEF UpTo
  <2>4. Cardinality(t) <= n /\ Cardinality(t) <= n + 1 BY <2>2, <2>3
  <2>5. t \in UpTo(S, n) /\ t \in UpTo(S, n + 1) BY <2>2, <2>4 DEF UpTo
  <2> HIDE DEF t
  <2>6. F[t] = IF t = {} THEN 0 ELSE f[One(t)] + F[t \ {One(t)}]
    BY <2>5, Zenon DEF Folds
  <2>7. G[t] = IF t = {} THEN 0 ELSE f[One(t)] + F[t \ {One(t)}]
    BY <2>5, Zenon
  <2>8. G[t] = F[t] BY <2>6, <2>7
  <2> HIDE DEF G
  <2> QED BY <2>8 DEF t
<1>2. G = [s \in UpTo(S, n + 1) |->
              IF s = {} THEN 0 ELSE f[One(s)] + G[s \ {One(s)}]]
  <2> DEFINE H == [s \in UpTo(S, n + 1) |->
                      IF s = {} THEN 0 ELSE f[One(s)] + G[s \ {One(s)}]]
  <2>1. ASSUME NEW s \in UpTo(S, n + 1) PROVE G[s] = H[s]
    <3> DEFINE t == s \ {One(s)}
    <3>1. s # {} => G[t] = F[t] BY <1>1
    <3>2. G[s] = IF s = {} THEN 0 ELSE f[One(s)] + F[t] BY Zenon
    <3>3. H[s] = IF s = {} THEN 0 ELSE f[One(s)] + G[t] BY Zenon
    <3> HIDE DEF G, H, t
    <3> QED BY <3>1, <3>2, <3>3
  <2>2. G = [s \in UpTo(S, n + 1) |-> G[s]] BY Zenon
  <2> HIDE DEF G
  <2>3. H = [s \in UpTo(S, n + 1) |-> H[s]] BY Zenon
  <2> HIDE DEF H
  <2>4. G = H BY <2>1, <2>2, <2>3
  <2> QED BY <2>4 DEF H
<1> HIDE DEF G
<1>3. Folds(f, UpTo(S, n + 1), G) BY <1>2, Zenon DEF Folds
<1> QED BY <1>3

LEMMA FoldsAll ==
    ASSUME NEW S, IsFiniteSet(S), NEW f
    PROVE  \E F : Folds(f, SUBSET S, F)
<1> DEFINE Without == {n \in Nat : ~ \E F : Folds(f, UpTo(S, n), F)}
<1>1. 0 \notin Without
  <2>1. UpTo(S, 0) = {{}}
    <3>1. {} \in UpTo(S, 0) BY FS_EmptySet DEF UpTo
    <3>2. ASSUME NEW s \in UpTo(S, 0) PROVE s = {}
      <4>1. s \in SUBSET S /\ Cardinality(s) <= 0 BY DEF UpTo
      <4>2. IsFiniteSet(s) BY <4>1, FS_Subset
      <4>3. Cardinality(s) \in Nat BY <4>2, FS_CardinalityType
      <4> QED BY <4>1, <4>2, <4>3, FS_EmptySet
    <3> QED BY <3>1, <3>2
  <2> DEFINE F == [s \in {{}} |-> 0]
  <2>2. F = [s \in {{}} |-> IF s = {} THEN 0 ELSE f[One(s)] + F[s \ {One(s)}]]
    OBVIOUS
  <2> HIDE DEF F
  <2>3. Folds(f, UpTo(S, 0), F) BY <2>1, <2>2, Zenon DEF Folds
  <2> QED BY <2>3
<1>2. Without = {}
  <2> SUFFICES ASSUME Without # {} PROVE FALSE OBVIOUS
  <2>1. PICK n \in Without : \A m \in Without : n <= m
    <3>1. Without \in SUBSET Nat OBVIOUS
    <3> HIDE DEF Without
    <3> QED BY <3>1, Least
  <2>2. n # 0 BY <1>1
  <2>3. n - 1 \in Nat /\ ~(n <= n - 1) /\ (n - 1) + 1 = n BY <2>2
  <2>4. n - 1 \notin Without BY <2>1, <2>3
  <2>5. PICK F : Folds(f, UpTo(S, n - 1), F) BY <2>3, <2>4
  <2>6. \E G : Folds(f, UpTo(S, (n - 1) + 1), G) BY <2>3, <2>5, FoldsOneMore
  <2>7. \E G : Folds(f, UpTo(S, n), G) BY <2>3, <2>6
  <2> QED BY <2>7
<1> DEFINE n == Cardinality(S)
<1>3. n \in Nat BY FS_CardinalityType
<1>4. UpTo(S, n) = SUBSET S BY FS_Subset DEF UpTo
<1>5. \E F : Folds(f, UpTo(S, n), F) BY <1>2, <1>3
<1> QED BY <1>4, <1>5

\* What such sums are.
Adds(f, S, F) ==
    /\ F[{}] = 0
    /\ \A s \in SUBSET S : s # {} => F[s] = f[One(s)] + F[s \ {One(s)}]

LEMMA FoldsAre ==
    ASSUME NEW S, NEW f, NEW F, Folds(f, SUBSET S, F)
    PROVE  Adds(f, S, F)
<1>1. \A s \in SUBSET S :
          F[s] = IF s = {} THEN 0 ELSE f[One(s)] + F[s \ {One(s)}]
  BY Zenon DEF Folds
<1>2. {} \in SUBSET S OBVIOUS
<1> QED BY <1>1, <1>2 DEF Adds

(* Induction over the subsets of a finite set: if some are wrong, one is    *)
(* wrong whose elements cannot be taken away without putting it right.      *)
LEMMA FirstWrong ==
    ASSUME NEW S, IsFiniteSet(S), NEW X \in SUBSET (SUBSET S), X # {}
    PROVE  \E s \in X : \A x \in s : s \ {x} \notin X
<1> DEFINE Sizes == {Cardinality(s) : s \in X}
<1>1. \A s \in X : Cardinality(s) \in Nat
  <2> SUFFICES ASSUME NEW s \in X PROVE Cardinality(s) \in Nat OBVIOUS
  <2>1. IsFiniteSet(s) BY FS_Subset
  <2> QED BY <2>1, FS_CardinalityType
<1>2. PICK n \in Sizes : \A m \in Sizes : n <= m
  <2>1. Sizes \in SUBSET Nat /\ Sizes # {} BY <1>1
  <2> HIDE DEF Sizes
  <2> QED BY <2>1, Least
<1>3. PICK s \in X : Cardinality(s) = n OBVIOUS
<1>4. ASSUME NEW x \in s, s \ {x} \in X PROVE FALSE
  <2>1. Cardinality(s \ {x}) = n - 1 /\ n \in Nat BY <1>1, <1>3, <1>4, Smaller
  <2>2. n - 1 \in Sizes BY <1>4, <2>1
  <2> HIDE DEF Sizes
  <2>3. n <= n - 1 BY <1>2, <2>2
  <2> QED BY <2>1, <2>3
<1> QED BY <1>3, <1>4

(* Sums are integers.                                                      *)
LEMMA AddsToInt ==
    ASSUME NEW S, IsFiniteSet(S), NEW f \in [S -> Int], NEW F, Adds(f, S, F)
    PROVE  \A s \in SUBSET S : F[s] \in Int
<1> DEFINE X == {s \in SUBSET S : F[s] \notin Int}
<1> SUFFICES ASSUME X # {} PROVE FALSE OBVIOUS
<1>1. PICK s \in X : \A x \in s : s \ {x} \notin X
  <2>1. X \in SUBSET (SUBSET S) OBVIOUS
  <2> HIDE DEF X
  <2> QED BY <2>1, FirstWrong
<1>2. s # {}
  <2> SUFFICES ASSUME s = {} PROVE FALSE OBVIOUS
  <2>1. F[s] = 0 BY Zenon DEF Adds
  <2>2. 0 \in Int OBVIOUS
  <2> QED BY <2>1, <2>2, Zenon
<1> DEFINE x == One(s)
<1>3. x \in s BY <1>2 DEF One
<1>4. F[s] = f[x] + F[s \ {x}] BY <1>2 DEF Adds
<1> HIDE DEF x
<1>5. F[s \ {x}] \in Int BY <1>1, <1>3
<1>6. f[x] \in Int BY <1>3
<1> QED BY <1>4, <1>5, <1>6

(* The order in which they are added does not matter.                      *)
LEMMA AnyOrder ==
    ASSUME NEW S, IsFiniteSet(S), NEW f \in [S -> Int], NEW F, Adds(f, S, F)
    PROVE  \A s \in SUBSET S : \A y \in s : F[s] = f[y] + F[s \ {y}]
<1> DEFINE Fine(s) == \A y \in s : F[s] = f[y] + F[s \ {y}]
           X == {s \in SUBSET S : ~Fine(s)}
<1> SUFFICES ASSUME X # {} PROVE FALSE OBVIOUS
<1>1. PICK s \in X : \A x \in s : s \ {x} \notin X
  <2>1. X \in SUBSET (SUBSET S) OBVIOUS
  <2> HIDE DEF X
  <2> QED BY <2>1, FirstWrong
<1>2. PICK y \in s : F[s] # f[y] + F[s \ {y}] OBVIOUS
<1> DEFINE x == One(s)
<1>3. x \in s BY <1>2 DEF One
<1>4. F[s] = f[x] + F[s \ {x}] BY <1>2 DEF Adds
<1> HIDE DEF x
<1>5. x # y BY <1>2, <1>4
<1>6. Fine(s \ {x}) /\ Fine(s \ {y})
  <2>1. s \ {x} \in SUBSET S /\ s \ {y} \in SUBSET S OBVIOUS
  <2> HIDE DEF Fine
  <2> QED BY <1>1, <1>2, <1>3, <2>1
<1>7. F[s \ {x}] = f[y] + F[(s \ {x}) \ {y}] BY <1>2, <1>5, <1>6
<1>8. F[s \ {y}] = f[x] + F[(s \ {y}) \ {x}] BY <1>3, <1>5, <1>6
<1>9. (s \ {x}) \ {y} = (s \ {y}) \ {x} OBVIOUS
<1> DEFINE r == F[(s \ {x}) \ {y}]
<1>10. r \in Int
  <2>1. \A u \in SUBSET S : F[u] \in Int BY AddsToInt
  <2> QED BY <2>1
<1>11. f[x] \in Int /\ f[y] \in Int BY <1>2, <1>3
<1>12. F[s \ {x}] = f[y] + r /\ F[s \ {y}] = f[x] + r BY <1>7, <1>8, <1>9
<1> HIDE DEF r
<1>13. F[s] = f[y] + F[s \ {y}] BY <1>4, <1>10, <1>11, <1>12
<1> QED BY <1>2, <1>13

(* Functions that agree have the same sums.                                *)
LEMMA SameSums ==
    ASSUME NEW S, NEW T \in SUBSET S, IsFiniteSet(S),
           NEW f, NEW F, Adds(f, S, F), NEW h, NEW H, Adds(h, T, H),
           \A x \in T : f[x] = h[x]
    PROVE  F[T] = H[T]
<1> DEFINE X == {s \in SUBSET T : F[s] # H[s]}
<1> SUFFICES ASSUME X # {} PROVE FALSE
  <2>1. T \notin X => F[T] = H[T] OBVIOUS
  <2> QED BY <2>1
<1>1. PICK s \in X : \A x \in s : s \ {x} \notin X
  <2>1. X \in SUBSET (SUBSET T) OBVIOUS
  <2>2. IsFiniteSet(T) BY FS_Subset
  <2> HIDE DEF X
  <2> QED BY <2>1, <2>2, FirstWrong
<1>2. s # {}
  <2> SUFFICES ASSUME s = {} PROVE FALSE OBVIOUS
  <2>1. F[s] = 0 /\ H[s] = 0 BY Zenon DEF Adds
  <2> QED BY <2>1
<1> DEFINE x == One(s)
<1>3. x \in s BY <1>2 DEF One
<1>4. F[s] = f[x] + F[s \ {x}] /\ H[s] = h[x] + H[s \ {x}] BY <1>2 DEF Adds
<1> HIDE DEF x
<1>5. F[s \ {x}] = H[s \ {x}] BY <1>1, <1>3
<1>6. f[x] = h[x] BY <1>3
<1>7. F[s] = H[s] BY <1>4, <1>5, <1>6
<1> QED BY <1>7

Total(f) == FoldFunction(+, 0, f)

LEMMA TotalAdds ==
    ASSUME NEW S, IsFiniteSet(S), NEW f \in [S -> Int]
    PROVE  \E F : Adds(f, S, F) /\ Total(f) = F[S]
<1> DEFINE F == CHOOSE F : Folds(f, SUBSET S, F)
<1>1. \E G : Folds(f, SUBSET S, G) BY FoldsAll
<1>2. Folds(f, SUBSET S, F) BY <1>1
<1>3. DOMAIN f = S OBVIOUS
<1>4. Total(f) = F[S] BY <1>3, FoldIsFold, Zenon DEF Total
<1> HIDE DEF F
<1> QED BY <1>2, <1>4, FoldsAre

\* f without y.
Others(f, S, y) == [x \in S \ {y} |-> f[x]]

(* The sum is that of one element and of the others.                       *)
LEMMA TotalIsOneMore ==
    ASSUME NEW S, IsFiniteSet(S), NEW f \in [S -> Int], NEW y \in S
    PROVE  /\ Total(Others(f, S, y)) \in Int
           /\ Total(f) = f[y] + Total(Others(f, S, y))
<1> DEFINE T == S \ {y}
           others == Others(f, S, y)
<1>1. PICK F : Adds(f, S, F) /\ Total(f) = F[S] BY TotalAdds
<1>2. IsFiniteSet(T) BY FS_Subset
<1>3. others \in [T -> Int] BY DEF Others
<1>4. \A x \in T : f[x] = others[x] BY DEF Others
<1>5. T \in SUBSET S OBVIOUS
<1> HIDE DEF T, others
<1>6. PICK H : Adds(others, T, H) /\ Total(others) = H[T]
  BY <1>2, <1>3, TotalAdds
<1>7. F[T] = H[T] BY <1>1, <1>4, <1>5, <1>6, SameSums
<1>8. F[S] = f[y] + F[T]
  <2>1. S \in SUBSET S OBVIOUS
  <2>2. F[S] = f[y] + F[S \ {y}] BY <1>1, <2>1, AnyOrder
  <2> QED BY <2>2 DEF T
<1>9. F[T] \in Int
  <2>1. \A s \in SUBSET S : F[s] \in Int BY <1>1, AddsToInt
  <2> QED BY <1>5, <2>1
<1> QED BY <1>1, <1>6, <1>7, <1>8, <1>9 DEF T, others

(* Nothing adds up to nothing.                                             *)
LEMMA TotalOfNothing ==
    ASSUME NEW S, IsFiniteSet(S), NEW f \in [S -> Int], \A x \in S : f[x] = 0
    PROVE  Total(f) = 0
<1>1. PICK F : Adds(f, S, F) /\ Total(f) = F[S] BY TotalAdds
<1> DEFINE X == {s \in SUBSET S : F[s] # 0}
<1> SUFFICES ASSUME X # {} PROVE FALSE
  <2>1. S \notin X => F[S] = 0 OBVIOUS
  <2> QED BY <1>1, <2>1
<1>2. PICK s \in X : \A x \in s : s \ {x} \notin X
  <2>1. X \in SUBSET (SUBSET S) OBVIOUS
  <2> HIDE DEF X
  <2> QED BY <2>1, FirstWrong
<1>3. s # {}
  <2> SUFFICES ASSUME s = {} PROVE FALSE OBVIOUS
  <2>1. F[s] = 0 BY <1>1, Zenon DEF Adds
  <2> QED BY <2>1
<1> DEFINE x == One(s)
<1>4. x \in s BY <1>3 DEF One
<1>5. F[s] = f[x] + F[s \ {x}] BY <1>1, <1>3 DEF Adds
<1> HIDE DEF x
<1>6. F[s \ {x}] = 0 /\ f[x] = 0 BY <1>2, <1>4
<1>7. F[s] = 0 BY <1>5, <1>6
<1> QED BY <1>7

\* One less for y.
Less(h, y) == [h EXCEPT ![y] = h[y] - 1]

(* One less in one place is one less in the sum.                           *)
LEMMA OneLess ==
    ASSUME NEW S, IsFiniteSet(S), NEW h \in [S -> Nat], NEW y \in S, h[y] > 0
    PROVE  /\ Less(h, y) \in [S -> Nat]
           /\ Total(Less(h, y)) \in Int /\ Total(h) = Total(Less(h, y)) + 1
<1> DEFINE k == Less(h, y)
           r == Total(Others(h, S, y))
<1>1. k \in [S -> Nat] /\ k[y] = h[y] - 1 BY DEF Less
<1>2. Others(k, S, y) = Others(h, S, y) BY DEF Others, Less
<1>3. h \in [S -> Int] /\ k \in [S -> Int] BY <1>1
<1> HIDE DEF k
<1>4. r \in Int /\ Total(h) = h[y] + r BY <1>3, TotalIsOneMore
<1>5. Total(k) = k[y] + r BY <1>2, <1>3, TotalIsOneMore
<1>6. h[y] \in Nat OBVIOUS
<1> HIDE DEF r
<1> QED BY <1>1, <1>4, <1>5, <1>6 DEF k

-----------------------------------------------------------------------------
(* One failed sample spoils one reading.                                   *)

\* The busy time from last_cpu on, where a sample has already read a part.
Whole == IF at = "rest" THEN busy ELSE reading.whole + busy

(* What guests used since last_guests, each at least nothing, and any part *)
(* of it, adds up to no more than the processor was busy: stated of all    *)
(* that is below it, the sum survives a guest that starts again from 0.    *)
Covered ==
    \A T \in SUBSET Guest : \A h \in [T -> Nat] :
        (\A g \in T : h[g] <= AtLeast(used[g], 0)) => Total(h) <= Whole

(* While no sample has failed since one succeeded, all the counters date   *)
(* from that one.  A sample that fails moves last_t alone, and nothing     *)
(* makes up for it but a sample that succeeds.                             *)
Aligned ==
    /\ at = "rest" /\ gap = sinceOk => pkg = gap /\ Covered
    /\ at # "rest" /\ reading.over + gap = sinceOk =>
           reading.cpu = reading.over /\ Covered

LEMMA UsedIsInt == Typed => \A g \in Guest : used[g] \in Int
  BY DEF Typed, Guests

LEMMA WholeIsInt == Typed => Whole \in Int
  BY SampleAssumption
  DEF Typed, Measuring, Lengths, Amounts, Whole, SampleAssumption

LEMMA WholeRun ==
    ASSUME NEW who \in alive \cup {"host", "idle"}, NEW io \in BOOLEAN, Run(who, io),
           Typed
    PROVE  Whole' = IF who = "idle" THEN Whole ELSE Whole + 1
<1>1. busy' = (IF who = "idle" THEN busy ELSE busy + 1) BY DEF Run
<1>2. at' = at /\ (at # "rest" => reading'.whole = reading.whole)
  BY DEF Run, Meanwhile
<1>3. busy \in Int /\ reading.whole \in Int
  BY SampleAssumption DEF Typed, Measuring, Lengths, Amounts, SampleAssumption
<1> QED BY <1>1, <1>2, <1>3, SMT DEF Whole

LEMMA CoveredRun ==
    ASSUME NEW who \in alive \cup {"host", "idle"}, NEW io \in BOOLEAN, Run(who, io),
           Typed, Covered
    PROVE  Covered'
<1>1. used' = [g \in Guest |-> IF g = who THEN used[g] + 1 ELSE used[g]]
  BY DEF Run
<1>2. Whole' = (IF who = "idle" THEN Whole ELSE Whole + 1) BY WholeRun
<1>3. Whole \in Int /\ \A g \in Guest : used[g] \in Int
  BY UsedIsInt, WholeIsInt
<1> HIDE DEF Whole
<1> SUFFICES ASSUME NEW T \in SUBSET Guest, NEW h \in [T -> Nat],
                    \A g \in T : h[g] <= AtLeast(used'[g], 0)
             PROVE  Total(h) <= Whole'
  BY DEF Covered
<1>4. IsFiniteSet(T) BY SampleAssumption, FS_Subset DEF SampleAssumption
<1>5. \A g \in T : g # who => used'[g] = used[g] BY <1>1
<1>6. Whole <= Whole' BY <1>2, <1>3
<1>7. CASE who \notin T
  <2>1. \A g \in T : h[g] <= AtLeast(used[g], 0) BY <1>5, <1>7
  <2>2. Total(h) <= Whole BY <2>1 DEF Covered
  <2>3. Total(h) \in Int
    <3>1. h \in [T -> Int] OBVIOUS
    <3>2. PICK F : Adds(h, T, F) /\ Total(h) = F[T] BY <1>4, <3>1, TotalAdds
    <3>3. \A s \in SUBSET T : F[s] \in Int BY <1>4, <3>1, <3>2, AddsToInt
    <3> QED BY <3>2, <3>3
  <2> QED BY <1>2, <1>3, <1>6, <2>2, <2>3
<1>8. CASE who \in T /\ h[who] = 0
  <2>1. \A g \in T : h[g] <= AtLeast(used[g], 0)
    BY <1>3, <1>5, <1>8 DEF AtLeast
  <2>2. Total(h) <= Whole BY <2>1 DEF Covered
  <2>3. Total(h) \in Int
    <3>1. h \in [T -> Int] OBVIOUS
    <3>2. PICK F : Adds(h, T, F) /\ Total(h) = F[T] BY <1>4, <3>1, TotalAdds
    <3>3. \A s \in SUBSET T : F[s] \in Int BY <1>4, <3>1, <3>2, AddsToInt
    <3> QED BY <3>2, <3>3
  <2> QED BY <1>2, <1>3, <1>6, <2>2, <2>3
<1>9. CASE who \in T /\ h[who] # 0
  <2> DEFINE k == Less(h, who)
  <2>1. h[who] > 0 BY <1>9
  <2>2. /\ k \in [T -> Nat] /\ Total(k) \in Int
        /\ Total(h) = Total(k) + 1
    BY <1>4, <1>9, <2>1, OneLess
  <2>3. \A g \in T : k[g] <= AtLeast(used[g], 0)
    <3> SUFFICES ASSUME NEW g \in T PROVE k[g] <= AtLeast(used[g], 0) OBVIOUS
    <3>1. CASE g = who
      <4>1. used'[g] = used[g] + 1 BY <1>1, <3>1
      <4>2. k[g] = h[g] - 1 BY <3>1 DEF Less
      <4>3. h[g] <= AtLeast(used'[g], 0) /\ h[g] \in Nat /\ used[g] \in Int
        BY <1>3
      <4> HIDE DEF k
      <4> QED BY <2>1, <3>1, <4>1, <4>2, <4>3 DEF AtLeast
    <3>2. CASE g # who BY <1>5, <3>2 DEF Less
    <3> QED BY <3>1, <3>2
  <2> HIDE DEF k
  <2>4. Total(k) <= Whole BY <2>2, <2>3 DEF Covered
  <2>5. who # "idle" BY <1>9, SampleAssumption DEF SampleAssumption
  <2> QED BY <1>2, <1>3, <2>2, <2>4, <2>5
<1> QED BY <1>7, <1>8, <1>9

LEMMA CoveredStart ==
    ASSUME NEW g \in Guest, GuestStarts(g), Typed, Covered
    PROVE  Covered'
<1>1. PICK before \in 0..MaxUsage : used' = [used EXCEPT ![g] = -before]
  BY DEF GuestStarts
<1>2. Whole' = Whole BY DEF GuestStarts, Meanwhile, Whole
<1>3. \A x \in Guest : used[x] \in Int BY UsedIsInt
<1>4. before \in Nat BY SampleAssumption DEF SampleAssumption
<1>5. \A x \in Guest : used'[x] = IF x = g THEN -before ELSE used[x]
  BY <1>1 DEF Typed, Guests
<1>6. \A x \in Guest : AtLeast(used'[x], 0) <= AtLeast(used[x], 0)
  BY <1>3, <1>4, <1>5 DEF AtLeast
<1>7. \A x \in Guest : AtLeast(used'[x], 0) \in Int /\ AtLeast(used[x], 0) \in Int
  BY <1>3, <1>4, <1>5 DEF AtLeast
<1> SUFFICES ASSUME NEW T \in SUBSET Guest, NEW h \in [T -> Nat],
                    \A x \in T : h[x] <= AtLeast(used'[x], 0)
             PROVE  Total(h) <= Whole
  BY <1>2 DEF Covered
<1>8. \A x \in T : h[x] <= AtLeast(used[x], 0) BY <1>6, <1>7
<1> QED BY <1>8 DEF Covered

(* Whatever is to be covered, nothing is.                                  *)
LEMMA CoveredAnew ==
    ASSUME NEW u, NEW b, u = [g \in Guest |-> 0], b \in Nat
    PROVE  \A T \in SUBSET Guest : \A h \in [T -> Nat] :
               (\A g \in T : h[g] <= AtLeast(u[g], 0)) => Total(h) <= b
<1> SUFFICES ASSUME NEW T \in SUBSET Guest, NEW h \in [T -> Nat],
                    \A g \in T : h[g] <= AtLeast(u[g], 0)
             PROVE  Total(h) <= b
  OBVIOUS
<1>1. IsFiniteSet(T) BY SampleAssumption, FS_Subset DEF SampleAssumption
<1>2. \A g \in T : h[g] = 0 BY DEF AtLeast
<1>3. h \in [T -> Int] OBVIOUS
<1>4. Total(h) = 0 BY <1>1, <1>2, <1>3, TotalOfNothing
<1> QED BY <1>4

LEMMA CoveredKept ==
    ASSUME Covered, used' = used, Whole' = Whole
    PROVE  Covered'
  BY DEF Covered

LEMMA AlignedStep == Typed /\ Aligned /\ [Next]_vars => Aligned'
<1> SUFFICES ASSUME Typed, Aligned, [Next]_vars PROVE Aligned' OBVIOUS
<1>0. /\ gap \in Int /\ sinceOk \in Int /\ pkg \in Int /\ gap <= sinceOk
      /\ reading.over \in Int /\ reading.whole \in Int /\ busy \in Int
      /\ gap \in Nat /\ busy \in Nat
  BY SampleAssumption DEF Typed, Measuring, Lengths, Amounts, SampleAssumption
<1>1. CASE /\ UNCHANGED <<at, gap, sinceOk, pkg, busy, used>>
           /\ at # "rest" => reading' = reading
  BY <1>1 DEF Aligned, Covered, Whole
<1>2. ASSUME NEW who \in alive \cup {"host", "idle"}, NEW io \in BOOLEAN, Run(who, io)
      PROVE Aligned'
  <2>1. gap' = gap + 1 /\ sinceOk' = sinceOk + 1 /\ pkg' = pkg + 1
    BY <1>2 DEF Run
  <2>2. at' = at /\ (at # "rest" => reading' = reading) BY <1>2 DEF Run, Meanwhile
  <2>3. Covered => Covered' BY <1>2, CoveredRun
  <2>4. gap' = sinceOk' => gap = sinceOk BY <1>0, <2>1
  <2>5. reading.over + gap' = sinceOk' => reading.over + gap = sinceOk
    BY <1>0, <2>1
  <2>6. at = "rest" => Aligned' BY <2>1, <2>2, <2>3, <2>4 DEF Aligned
  <2>7. at # "rest" => Aligned' BY <2>2, <2>3, <2>5 DEF Aligned
  <2> QED BY <2>6, <2>7
<1>3. ASSUME NEW g \in Guest, GuestStarts(g) PROVE Aligned'
  <2>1. UNCHANGED <<at, gap, sinceOk, pkg>> /\ (at # "rest" => reading' = reading)
    BY <1>3 DEF GuestStarts, Meanwhile
  <2>2. Covered => Covered' BY <1>3, CoveredStart
  <2> QED BY <2>1, <2>2 DEF Aligned
<1>4. CASE SampleFailsAtRapl \/ SampleFailsAtCpu \/ SampleFailsAtIo
  <2>1. gap > 0 /\ gap' = 0 /\ sinceOk' = sinceOk /\ at' = "rest"
    BY <1>4 DEF SampleFailsAtRapl, SampleFailsAtCpu, SampleFailsAtIo
  <2>2. gap' # sinceOk' BY <1>0, <2>1
  <2> QED BY <2>1, <2>2 DEF Aligned
<1>5. CASE SampleFailsAtGuests
  <2>1. at # "rest" /\ at' = "rest" /\ UNCHANGED <<gap, sinceOk>>
    BY <1>5 DEF SampleFailsAtGuests, sensors
  <2>2. reading.over > 0 /\ reading.over + gap <= sinceOk
    BY <2>1 DEF Typed, Measuring, Fresh
  <2>3. gap' # sinceOk' BY <1>0, <2>1, <2>2
  <2> QED BY <2>1, <2>3 DEF Aligned
<1>6. CASE ReadHost
  <2>1. /\ at = "rest" /\ at' = "drives" /\ UNCHANGED <<used, sinceOk>>
        /\ gap' = 0 /\ busy' = 0
        /\ reading'.cpu = pkg /\ reading'.over = gap /\ reading'.whole = busy
    BY <1>6, HostRead
  <2>2. Whole' = Whole BY <1>0, <2>1 DEF Whole
  <2>3. Covered => Covered' BY <2>1, <2>2, CoveredKept
  <2>4. reading'.over + gap' = sinceOk' => gap = sinceOk BY <1>0, <2>1
  <2> QED BY <2>1, <2>3, <2>4 DEF Aligned
<1>7. CASE ReadDrives
  <2>0. Shaped BY DEF Typed, Measuring
  <2>1. /\ at = "drives" /\ at' = "guests" /\ UNCHANGED <<used, sinceOk, gap, busy>>
        /\ reading'.cpu = reading.cpu /\ reading'.over = reading.over
        /\ reading'.whole = reading.whole
    BY <1>7, <2>0, DrivesRead
  <2>2. Covered => Covered' BY <2>1, CoveredKept DEF Whole
  <2> QED BY <2>1, <2>2 DEF Aligned
<1>8. CASE SampleSucceeds
  <2>0. Shaped BY DEF Typed, Measuring
  <2>1. /\ at = "guests" /\ at' = "rest" /\ UNCHANGED <<gap, pkg, busy>>
        /\ used' = [g \in Guest |-> 0]
    BY <1>8, <2>0, ReadingReturned
  <2>2. pkg' = gap' BY <2>1 DEF Typed, Measuring, Fresh
  <2>3. Whole' = busy BY <2>1 DEF Whole
  <2>4. Covered' BY <1>0, <2>1, <2>3, CoveredAnew DEF Covered
  <2> QED BY <2>1, <2>2, <2>4 DEF Aligned
<1>9. CASE \/ \E g \in Guest : GuestStops(g)
           \/ DriveSleeps \/ DriveSpinsUp \/ UNCHANGED vars
  <2>1. /\ UNCHANGED <<at, gap, sinceOk, pkg, busy, used>>
        /\ at # "rest" => reading' = reading
    BY <1>9 DEF GuestStops, DriveSleeps, DriveSpinsUp, Meanwhile, sensors, vars
  <2> QED BY <1>1, <2>1
<1> QED
  BY <1>2, <1>3, <1>4, <1>5, <1>6, <1>7, <1>8, <1>9 DEF Next, Environment, Sample

\* Nothing is split among nobody.
LEMMA NobodyGets == Total([g \in {} |-> 0]) = 0
<1>1. IsFiniteSet({}) BY FS_EmptySet
<1>2. [g \in {} |-> 0] \in [{} -> Int] OBVIOUS
<1> QED BY <1>1, <1>2, TotalOfNothing

LEMMA SplitIsCovered ==
    ASSUME Typed, Covered, at = "guests"
    PROVE  Total(Split) <= reading.whole + busy
<1>0. reading.whole \in Nat /\ busy \in Nat
  BY SampleAssumption DEF Typed, Measuring, Lengths, Amounts, SampleAssumption
<1>1. CASE reading.whole > 0
  <2> DEFINE T == alive \cap remembered
             h == [g \in T |-> AtMost(AtLeast(used[g], 0), reading.whole)]
  <2>1. T \in SUBSET Guest BY DEF Typed, Guests
  <2>2. \A g \in T : used[g] \in Int BY <2>1, UsedIsInt
  <2> HIDE DEF T
  <2>3. \A g \in T : /\ AtMost(AtLeast(used[g], 0), reading.whole) \in Nat
                    /\ AtMost(AtLeast(used[g], 0), reading.whole) <= AtLeast(used[g], 0)
    BY <1>0, <2>2 DEF AtMost, AtLeast
  <2>4. h \in [T -> Nat] /\ \A g \in T : h[g] <= AtLeast(used[g], 0) BY <2>3
  <2>5. Split = h BY <1>1, Zenon DEF Split, T
  <2> HIDE DEF h
  <2>6. Total(h) <= Whole BY <2>1, <2>4 DEF Covered
  <2>7. Whole = reading.whole + busy BY DEF Whole
  <2> QED BY <2>5, <2>6, <2>7
<1>2. CASE ~(reading.whole > 0)
  <2>1. Split = [g \in {} |-> 0] BY <1>2, Zenon DEF Split
  <2>2. Total(Split) = 0 BY <2>1, NobodyGets
  <2> QED BY <1>0, <2>2
<1> QED BY <1>1, <1>2

(* The sum shown is the total of whatever the reading's split is, before   *)
(* and after a step.                                                       *)
SumIsTotal == \A s : reading.split = s => SplitSum = Total(s)

LEMMA SumsNow == SumIsTotal
BY Zenon DEF SumIsTotal, SplitSum, Total

LEMMA SumsNext == \A s : reading'.split = s => SplitSum' = Total(s)
<1>1. SumIsTotal' BY SumsNow, PTL
<1> QED BY <1>1, Zenon DEF SumIsTotal

LEMMA NothingSplit ==
    ASSUME reading' = NoReading
    PROVE  DistortionEnds'
<1>1. /\ reading'.cpu = 0 /\ reading'.over = 0 /\ reading'.whole = 0
      /\ reading'.late = 0 /\ reading'.split = [g \in {} |-> 0]
  BY Nothing, Zenon
<1>2. SplitSum' = 0 BY <1>1, NobodyGets, SumsNext, Zenon
<1> QED BY <1>1, <1>2 DEF DistortionEnds

LEMMA DistortionStep ==
    Typed /\ Aligned /\ DistortionEnds /\ [Next]_vars => DistortionEnds'
<1> SUFFICES ASSUME Typed, Aligned, DistortionEnds, [Next]_vars
             PROVE  DistortionEnds'
  OBVIOUS
<1>1. CASE UNCHANGED <<at, reading>>
  <2>1. SplitSum' = SplitSum BY <1>1, SumsNow, SumsNext, Zenon DEF SumIsTotal
  <2> QED BY <1>1, <2>1 DEF DistortionEnds, Returned
<1>2. CASE at' = "rest" /\ reading' = NoReading BY <1>2, NothingSplit
<1>3. CASE ReadHost \/ ReadDrives
  <2>1. at' # "rest" BY <1>3 DEF ReadHost, ReadDrives
  <2> QED BY <2>1 DEF DistortionEnds, Returned
<1>4. CASE SampleSucceeds
  <2>0. Shaped BY DEF Typed, Measuring
  <2>1. /\ at = "guests" /\ reading'.split = Split /\ reading'.late = busy
        /\ reading'.cpu = reading.cpu /\ reading'.over = reading.over
        /\ reading'.whole = reading.whole
        /\ reading'.aligned = (reading.over + gap = sinceOk)
    BY <1>4, <2>0, ReadingReturned
  <2>2. SplitSum' = Total(Split) BY <2>1, SumsNext, Zenon
  <2>3. reading.over + gap = sinceOk =>
            reading.cpu = reading.over /\ Total(Split) <= reading.whole + busy
    BY <2>1, SplitIsCovered DEF Aligned
  <2> QED BY <2>1, <2>2, <2>3 DEF DistortionEnds
<1> QED BY <1>1, <1>2, <1>3, <1>4, ReadingSteps

(* A failed sample spoils one reading at most: after one that succeeded,   *)
(* package power is what was drawn, and the guests together get no more    *)
(* than the whole and what ran while the drives were asked, however many   *)
(* they are, whoever stopped or restarted in between, and for as long as   *)
(* asking takes (pve_power.py:283-304, 340-356).                           *)
THEOREM OneReadingSpoiled == Spec => []DistortionEnds
<1>1. Init => Typed /\ Aligned /\ DistortionEnds
  <2> SUFFICES ASSUME Init PROVE Typed /\ Aligned /\ DistortionEnds OBVIOUS
  <2>1. Typed BY Initially
  <2>2. at = "rest" /\ pkg = gap /\ busy = 0 /\ used = [g \in Guest |-> 0]
    BY DEF Init
  <2>3. Whole = 0 BY <2>2 DEF Whole
  <2>4. Aligned BY <2>2, <2>3, CoveredAnew DEF Aligned, Covered
  <2>5. /\ reading.cpu = 0 /\ reading.over = 0 /\ reading.whole = 0
        /\ reading.late = 0 /\ reading.split = [g \in {} |-> 0]
    BY Nothing, Zenon DEF Init
  <2>6. SplitSum = 0 BY <2>5, NobodyGets DEF SplitSum, Total
  <2> QED BY <2>1, <2>4, <2>5, <2>6 DEF DistortionEnds
<1> QED BY <1>1, TypedStep, AlignedStep, DistortionStep, PTL DEF Spec
=============================================================================
