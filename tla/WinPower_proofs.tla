-------------------------- MODULE WinPower_proofs --------------------------
(***************************************************************************)
(* Proofs about WinPower, for every interval, jump of the clock and bound. *)
(* As long as nothing is spoiled: a state file that holds a total holds    *)
(* the last one saved, what is not saved is no more than the time since    *)
(* the save, and no reading is SaveEvery ahead of it.                      *)
(***************************************************************************)
EXTENDS WinPower, TLAPS

Typed ==
    /\ at \in {"off", "sleep", "save", "write", "publish"}
    /\ total \in Int /\ sinceSave \in Int /\ saved \in Int
    /\ file \in SUBSET Int /\ shown \in SUBSET Int

Flags == failing \in BOOLEAN /\ spoiled \in BOOLEAN

Saved ==
    /\ saved >= 0
    /\ \A energy \in file : energy = saved

Unsaved ==
    /\ at # "off" => /\ total - saved <= sinceSave
                     /\ total >= saved
    /\ at = "publish" => total - saved < SaveEvery
    /\ at = "sleep" => failing \/ total - saved < SaveEvery
    /\ at \in {"save", "write"} => failing \/ total - saved < SaveEvery + MaxGap

Readings == \A energy \in shown : energy - saved < SaveEvery

Sound == ~spoiled => Saved /\ Unsaved /\ Readings
Inv   == Typed /\ Flags /\ Sound

-----------------------------------------------------------------------------
(* A jump of the clock spoils; without one an interval is a gap.           *)
LEMMA Intervals ==
    ASSUME NEW gap \in 1..MaxGap, NEW jump \in {0, Shift, -Shift}, Typed
    PROVE  /\ gap + jump \in Int
           /\ jump = 0 => gap + jump \in 1..MaxGap
  BY WinPowerAssumption, SMT DEF WinPowerAssumption, Typed

LEMMA TypedStep == Typed /\ [Next]_vars => Typed'
<1> SUFFICES ASSUME Typed, [Next]_vars PROVE Typed' OBVIOUS
<1>0. CASE UNCHANGED vars BY <1>0 DEF Typed, vars
<1>1. CASE Start BY <1>1 DEF Typed, Start, StartWith
<1>2. CASE StartEmpty BY <1>2 DEF Typed, StartEmpty, StartWith
<1>3. CASE Stop BY <1>3 DEF Typed, Stop
<1>4. CASE RemoveReading BY <1>4 DEF Typed, RemoveReading
<1>5. CASE Sample
  <2>1. PICK gap \in 1..MaxGap, jump \in {0, Shift, -Shift} :
            /\ Jumped(gap + jump, jump)
            /\ total' = total + gap + jump
    BY <1>5 DEF Sample
  <2>2. gap \in Int /\ jump \in Int BY WinPowerAssumption DEF WinPowerAssumption
  <2> QED BY <1>5, <2>1, <2>2 DEF Typed, Sample, Jumped
<1>6. CASE SampleFails
  <2>1. PICK gap \in 1..MaxGap, jump \in {0, Shift, -Shift} :
            Jumped(gap + jump, jump)
    BY <1>6 DEF SampleFails
  <2>2. gap + jump \in Int BY Intervals
  <2> QED BY <1>6, <2>1, <2>2 DEF Typed, SampleFails, Jumped
<1>7. CASE SaveOpens BY <1>7 DEF Typed, SaveOpens
<1>8. CASE SaveWrites BY <1>8 DEF Typed, SaveWrites
<1>9. CASE SaveFails BY <1>9 DEF Typed, SaveFails
<1>10. CASE Publish BY <1>10 DEF Typed, Publish
<1>11. CASE PublishFails BY <1>11 DEF Typed, PublishFails
<1> QED BY <1>0, <1>1, <1>2, <1>3, <1>4, <1>5, <1>6, <1>7, <1>8, <1>9, <1>10,
           <1>11 DEF Next

LEMMA FlagsStep == Flags /\ [Next]_vars => Flags'
<1> SUFFICES ASSUME Flags, [Next]_vars PROVE Flags' OBVIOUS
<1>0. CASE UNCHANGED vars BY <1>0 DEF Flags, vars
<1>1. CASE Start \/ StartEmpty
  BY <1>1 DEF Flags, Start, StartEmpty, StartWith
<1>2. CASE Stop \/ RemoveReading BY <1>2 DEF Flags, Stop, RemoveReading
<1>3. CASE Sample \/ SampleFails
  BY <1>3 DEF Flags, Sample, SampleFails, Jumped
<1>4. CASE SaveOpens \/ SaveWrites \/ SaveFails
  BY <1>4 DEF Flags, SaveOpens, SaveWrites, SaveFails
<1>5. CASE Publish \/ PublishFails BY <1>5 DEF Flags, Publish, PublishFails
<1> QED BY <1>0, <1>1, <1>2, <1>3, <1>4, <1>5 DEF Next

(* What is spoiled stays so.                                               *)
LEMMA SpoiledStays == Flags /\ [Next]_vars => (spoiled => spoiled')
<1> SUFFICES ASSUME Flags, [Next]_vars, spoiled PROVE spoiled' OBVIOUS
<1> QED BY DEF Next, vars, Start, StartEmpty, StartWith, Stop, RemoveReading,
           Sample, SampleFails, Jumped, SaveOpens, SaveWrites, SaveFails,
           Publish, PublishFails

(* A sample that spoils nothing took a gap of the clock.                   *)
LEMMA SampleGap ==
    ASSUME Typed, Sample, ~spoiled'
    PROVE  \E gap \in 1..MaxGap : /\ sinceSave' = sinceSave + gap
                                  /\ total' = total + gap
<1>1. PICK gap \in 1..MaxGap, jump \in {0, Shift, -Shift} :
          /\ Jumped(gap + jump, jump)
          /\ total' = total + gap + jump
  BY DEF Sample
<1>2. jump = 0 BY <1>1 DEF Jumped
<1>3. gap \in Int BY WinPowerAssumption DEF WinPowerAssumption
<1>4. sinceSave' = sinceSave + (gap + jump) BY <1>1 DEF Jumped
<1>5. sinceSave' = sinceSave + gap /\ total' = total + gap
  BY <1>1, <1>2, <1>3, <1>4 DEF Typed
<1> QED BY <1>5

LEMMA SampleFailsGap ==
    ASSUME Typed, SampleFails, ~spoiled'
    PROVE  \E gap \in 1..MaxGap : sinceSave' = sinceSave + gap
<1>1. PICK gap \in 1..MaxGap, jump \in {0, Shift, -Shift} :
          Jumped(gap + jump, jump)
  BY DEF SampleFails
<1>2. jump = 0 BY <1>1 DEF Jumped
<1>3. gap \in Int BY WinPowerAssumption DEF WinPowerAssumption
<1>4. sinceSave' = sinceSave + (gap + jump) BY <1>1 DEF Jumped
<1>5. sinceSave' = sinceSave + gap BY <1>2, <1>3, <1>4 DEF Typed
<1> QED BY <1>5

LEMMA NotDue == \A time \in Int : ~SaveDue(time) => time < SaveEvery
  BY WinPowerAssumption DEF SaveDue, WinPowerAssumption

(* A start that spoils nothing goes on from the last total saved.          *)
LEMMA StartGoesOn ==
    ASSUME Typed, Flags, Sound, Start \/ StartEmpty, ~spoiled'
    PROVE  /\ total' = saved /\ saved' = saved /\ ~spoiled
           /\ at' = "sleep" /\ sinceSave' = 0
           /\ UNCHANGED <<file, shown>>
<1>1. CASE Start
  <2>1. PICK energy \in file : StartWith(energy) /\ UNCHANGED spoiled
    BY <1>1 DEF Start
  <2>2. energy = saved BY <2>1 DEF Sound, Saved
  <2> QED BY <2>1, <2>2 DEF StartWith
<1>2. CASE StartEmpty
  <2>1. ~spoiled /\ saved = 0 BY <1>2 DEF StartEmpty
  <2> QED BY <1>2, <2>1 DEF StartEmpty, StartWith
<1> QED BY <1>1, <1>2

LEMMA SoundStep == Inv /\ [Next]_vars => Sound'
<1> SUFFICES ASSUME Inv, [Next]_vars, ~spoiled'
             PROVE  Saved' /\ Unsaved' /\ Readings'
  BY DEF Sound
<1> USE WinPowerAssumption DEF WinPowerAssumption
<1>t. Typed /\ Typed' /\ Flags BY TypedStep DEF Inv
<1>u. ~spoiled BY SpoiledStays DEF Inv
<1>s. Saved /\ Unsaved /\ Readings BY <1>u DEF Inv, Sound
<1>0. CASE UNCHANGED vars
  BY <1>0, <1>s DEF vars, Saved, Unsaved, Readings
<1>1. CASE Start \/ StartEmpty
  <2>1. /\ total' = saved /\ saved' = saved
        /\ at' = "sleep" /\ sinceSave' = 0 /\ UNCHANGED <<file, shown>>
    BY <1>1, <1>t, StartGoesOn DEF Inv
  <2>2. Saved' /\ Readings' BY <2>1, <1>s DEF Saved, Readings
  <2>3. Unsaved' BY <2>1, <1>t DEF Typed, Unsaved
  <2> QED BY <2>2, <2>3
<1>2. CASE Stop BY <1>2, <1>s DEF Stop, Saved, Unsaved, Readings
<1>3. CASE RemoveReading
  BY <1>3, <1>s DEF RemoveReading, Saved, Unsaved, Readings
<1>4. CASE Sample
  <2>1. PICK gap \in 1..MaxGap : /\ sinceSave' = sinceSave + gap
                                 /\ total' = total + gap
    BY <1>4, <1>t, SampleGap
  <2>2. UNCHANGED <<file, shown, saved, failing>> /\ at = "sleep" BY <1>4 DEF Sample
  <2>3. Saved' /\ Readings' BY <2>2, <1>s DEF Saved, Readings
  <2>4. total' - saved' <= sinceSave' /\ total' >= saved'
    BY <2>1, <2>2, <1>s, <1>t DEF Typed, Unsaved
  <2>5. CASE SaveDue(sinceSave')
    <3>1. at' = "save" BY <1>4, <2>5 DEF Sample
    <3>2. failing' \/ total' - saved' < SaveEvery + MaxGap
      <4>1. CASE failing BY <4>1, <2>2
      <4>2. CASE total - saved < SaveEvery
        BY <4>2, <2>1, <2>2, <1>t DEF Typed
      <4> QED BY <4>1, <4>2, <2>2, <1>s DEF Unsaved
    <3> QED BY <3>1, <3>2, <2>3, <2>4 DEF Unsaved
  <2>6. CASE ~SaveDue(sinceSave')
    <3>1. at' = "publish" BY <1>4, <2>6 DEF Sample
    <3>2. /\ sinceSave' \in Int /\ total' \in Int /\ saved' \in Int
          /\ SaveEvery \in Int
      BY <1>t DEF Typed
    <3>3. sinceSave' < SaveEvery BY <2>6, <3>2, NotDue
    <3>4. (total + gap) - saved < SaveEvery
      BY <2>1, <2>2, <3>2, <3>3, <1>s, <1>t DEF Typed, Unsaved
    <3>5. total' - saved' < SaveEvery BY <2>1, <2>2, <3>4
    <3> QED BY <3>1, <3>5, <2>3, <2>4 DEF Unsaved
  <2> QED BY <2>5, <2>6
<1>5. CASE SampleFails
  <2>1. PICK gap \in 1..MaxGap : sinceSave' = sinceSave + gap
    BY <1>5, <1>t, SampleFailsGap
  <2>2. UNCHANGED <<at, total, file, shown, saved, failing>> BY <1>5 DEF SampleFails
  <2>3. Saved' /\ Readings' BY <2>2, <1>s DEF Saved, Readings
  <2>4. at # "off" => total' - saved' <= sinceSave'
    BY <2>1, <2>2, <1>s, <1>t DEF Typed, Unsaved
  <2> QED BY <2>2, <2>3, <2>4, <1>s DEF Unsaved
<1>6. CASE SaveOpens BY <1>6, <1>s DEF SaveOpens, Saved, Unsaved, Readings
<1>7. CASE SaveWrites
  <2>1. /\ at' = "publish" /\ at = "write" /\ file' = {total} /\ sinceSave' = 0
        /\ saved' = total /\ total' = total /\ shown' = shown
    BY <1>7 DEF SaveWrites
  <2>2. total >= saved /\ saved >= 0 BY <2>1, <1>s DEF Saved, Unsaved
  <2>3. Saved' BY <2>1, <2>2, <1>t DEF Saved, Typed
  <2>4. Unsaved' BY <2>1, <1>t DEF Unsaved, Typed
  <2>5. Readings'
    <3> SUFFICES ASSUME NEW energy \in shown PROVE energy - total < SaveEvery
      BY <2>1 DEF Readings
    <3>1. energy - saved < SaveEvery /\ energy \in Int
      BY <1>s, <1>t DEF Readings, Typed
    <3> QED BY <3>1, <2>2, <1>t DEF Typed
  <2> QED BY <2>3, <2>4, <2>5
<1>8. CASE SaveFails
  BY <1>8, <1>s DEF SaveFails, Saved, Unsaved, Readings
<1>9. CASE Publish
  <2>1. at = "publish" /\ shown' = {total} /\ at' = "sleep"
        /\ UNCHANGED <<total, sinceSave, file, saved, failing>>
    BY <1>9 DEF Publish
  <2>2. total - saved < SaveEvery BY <2>1, <1>s DEF Unsaved
  <2> QED BY <2>1, <2>2, <1>s DEF Saved, Unsaved, Readings
<1>10. CASE PublishFails
  BY <1>10, <1>s DEF PublishFails, Saved, Unsaved, Readings
<1> QED BY <1>0, <1>1, <1>2, <1>3, <1>4, <1>5, <1>6, <1>7, <1>8, <1>9, <1>10
        DEF Next

(* Init and every step establish what is typed and what is saved.          *)
THEOREM Inductive == Spec => []Inv
<1>1. Init => Inv
  <2> SUFFICES ASSUME Init PROVE Typed /\ Flags /\ Saved /\ Unsaved /\ Readings
    BY DEF Inv, Sound
  <2>1. Typed BY DEF Init, Typed
  <2>2. Flags BY DEF Init, Flags
  <2>3. Saved /\ Unsaved /\ Readings BY DEF Init, Saved, Unsaved, Readings
  <2> QED BY <2>1, <2>2, <2>3
<1>2. Inv /\ [Next]_vars => Inv' BY TypedStep, FlagsStep, SoundStep DEF Inv
<1> QED BY <1>1, <1>2, PTL DEF Spec

-----------------------------------------------------------------------------
(* A restart falls behind a reading by less than SaveEvery, also when      *)
(* every save failed (win_power.ps1:104, 131-134, 153).                    *)
THEOREM Survival == Spec => ReadingsSurvive
<1> DEFINE Step == at = "off" /\ at' = "sleep" =>
                       spoiled' \/ \A energy \in shown : energy - total' < SaveEvery
<1>1. ASSUME Inv, Next, at = "off", at' = "sleep", ~spoiled'
      PROVE  \A energy \in shown : energy - total' < SaveEvery
  <2>1. Start \/ StartEmpty
    BY <1>1 DEF Next, Stop, RemoveReading, Sample, SampleFails, SaveOpens,
       SaveWrites, SaveFails, Publish, PublishFails
  <2>2. total' = saved /\ ~spoiled BY <1>1, <2>1, StartGoesOn DEF Inv
  <2> QED BY <1>1, <2>2 DEF Inv, Sound, Readings
<1>2. Inv /\ [Next]_vars => [Step]_vars BY <1>1
<1> QED BY <1>2, Inductive, PTL DEF Spec, ReadingsSurvive

-----------------------------------------------------------------------------
(* Every step is one of EnergyMeter or leaves it alone; what spoils, or is *)
(* already spoiled, is its Spoil.                                          *)
LEMMA MeterStep ==
    Inv /\ [Next]_vars => [Meter!Next]_(Meter!vars)
<1> SUFFICES ASSUME Inv, [Next]_vars PROVE [Meter!Next]_(Meter!vars) OBVIOUS
<1>t. Typed /\ Typed' /\ Flags /\ Flags' /\ Sound /\ Sound'
  BY TypedStep, FlagsStep, SoundStep DEF Inv
<1>0. CASE UNCHANGED vars BY <1>0 DEF vars, Meter!vars
<1>1. CASE spoiled'
  <2>1. Meter!Spoil BY <1>1, <1>t DEF Meter!Spoil, Flags
  <2> QED BY <2>1 DEF Meter!Next
<1>2. CASE ~spoiled' /\ Next
  <2>u. ~spoiled BY <1>2, <1>t, SpoiledStays
  <2>s. /\ Saved /\ Unsaved /\ Saved' /\ Unsaved' BY <1>2, <1>t, <2>u DEF Sound
  <2>1. CASE Start \/ StartEmpty
    <3>1. at = "off" /\ failing' = failing
      BY <2>1 DEF Start, StartEmpty, StartWith
    <3>2. total' = saved /\ saved' = saved /\ at' = "sleep"
      BY <2>1, <1>2, <1>t, StartGoesOn
    <3> QED BY <3>1, <3>2, <1>2, <2>u, <1>t DEF Meter!vars, Flags
  <2>2. CASE Stop
    <3>1. Meter!Restart BY <2>2, <1>2, <2>u, <1>t DEF Meter!Restart, Stop, Flags
    <3> QED BY <3>1 DEF Meter!Next
  <2>3. CASE RemoveReading
    BY <2>3, <1>2, <2>u, <1>t DEF RemoveReading, Meter!vars, Flags
  <2>4. CASE Sample
    <3>1. PICK gap \in 1..MaxGap : total' = total + gap
      BY <2>4, <1>2, <1>t, SampleGap
    <3>2. /\ at = "sleep" /\ at' \in {"save", "publish"}
          /\ saved' = saved /\ failing' = failing
      BY <2>4 DEF Sample
    <3>3. /\ total \in Int /\ saved \in Int /\ gap \in Int /\ gap >= 1 /\ gap <= MaxGap
          /\ SaveEvery \in Int /\ MaxGap \in Int
      BY <1>t, WinPowerAssumption DEF Typed, WinPowerAssumption
    <3>4. total >= saved /\ saved >= 0 BY <2>s, <3>2 DEF Saved, Unsaved
    <3>5. total' \in Nat /\ total' >= total BY <3>1, <3>3, <3>4
    <3>6. failing \/ total' - saved <= SaveEvery - 1 + MaxGap
      <4>1. ASSUME total - saved < SaveEvery
            PROVE  total' - saved <= SaveEvery - 1 + MaxGap
        BY <4>1, <3>1, <3>3
      <4> QED BY <4>1, <2>s, <3>2 DEF Unsaved
    <3>7. Meter!Measure
      BY <3>2, <3>5, <3>6, <1>2, <2>u, <1>t DEF Meter!Measure, Flags
    <3> QED BY <3>7 DEF Meter!Next
  <2>5. CASE SampleFails
    BY <2>5, <1>2, <2>u, <1>t DEF SampleFails, Meter!vars, Flags
  <2>6. CASE SaveOpens
    BY <2>6, <1>2, <2>u, <1>t DEF SaveOpens, Meter!vars, Flags
  <2>7. CASE SaveWrites
    <3>1. /\ at = "write" /\ at' = "publish" /\ total' = total /\ saved' = total
          /\ failing' = FALSE
      BY <2>7 DEF SaveWrites
    <3>2. /\ total \in Int /\ saved \in Int /\ SaveEvery \in Nat \ {0} /\ MaxGap \in Nat \ {0}
      BY <1>t, WinPowerAssumption DEF Typed, WinPowerAssumption
    <3>3. total >= saved /\ saved >= 0 BY <2>s, <3>1 DEF Saved, Unsaved
    <3>4. /\ total \in Nat /\ total <= total
          /\ total - total <= SaveEvery - 1 + MaxGap
      BY <3>2, <3>3
    <3>5. Meter!Persist
      BY <3>1, <3>3, <3>4, <1>2, <2>u, <1>t DEF Meter!Persist, Flags
    <3> QED BY <3>5 DEF Meter!Next
  <2>8. CASE SaveFails
    <3>1. Meter!PersistFails
      BY <2>8, <1>2, <2>u, <1>t DEF Meter!PersistFails, SaveFails, Flags
    <3> QED BY <3>1 DEF Meter!Next
  <2>9. CASE Publish
    BY <2>9, <1>2, <2>u, <1>t DEF Publish, Meter!vars, Flags
  <2>10. CASE PublishFails
    BY <2>10, <1>2, <2>u, <1>t DEF PublishFails, Meter!vars, Flags
  <2> QED BY <1>2, <2>1, <2>2, <2>3, <2>4, <2>5, <2>6, <2>7, <2>8, <2>9, <2>10
          DEF Next
<1> QED BY <1>0, <1>1, <1>2

(* The exporter implements EnergyMeter with Window the interval of the     *)
(* saves and one gap, in spite of lost intervals and failed saves          *)
(* (win_power.ps1:104-155).                                                *)
THEOREM Refinement == Spec => MeterSpec
<1>1. Init => Meter!Init BY DEF Init, Meter!Init
<1>2. Inv /\ [Next]_vars => [Meter!Next]_(Meter!vars) BY MeterStep
<1> QED BY <1>1, <1>2, Inductive, PTL DEF Spec, MeterSpec, Meter!Spec
=============================================================================
