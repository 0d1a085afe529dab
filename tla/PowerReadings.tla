--------------------------- MODULE PowerReadings ---------------------------
(***************************************************************************)
(* The arithmetic of the Linux power exporter (power/pve_power.py), as     *)
(* operators: energy from a counter that wraps, the loss of a power supply *)
(* from its test curve, the breakdown of a reading into components, with   *)
(* and without Apple's sensors.  Powers are integers, in hundredths of a   *)
(* watt where the constants of the source are copied.                      *)
(***************************************************************************)
EXTENDS Integers, Sequences

-----------------------------------------------------------------------------
(* Rapl.                                                                   *)

\* What the counter shows: it goes from max_energy_range_uj to 0.
Counter(energy, max) == energy % (max + 1)

\* Mutant of Energy: a counter that went back is taken as it is.
EnergySigned(last, now, max) == now - last

\* Rapl.sample: the energy since the last sample.
Energy(last, now, max) ==
    IF now < last THEN now - last + max ELSE now - last

-----------------------------------------------------------------------------
(* The power supply.                                                       *)

\* PSU_CURVE: DC out, AC in.
PsuCurve ==
    <<<<2000, 2805>>, <<4000, 4857>>, <<6000, 6925>>, <<6500, 7494>>,
      <<8000, 8999>>, <<13000, 14276>>, <<19500, 21108>>, <<26000, 28019>>,
      <<32510, 35024>>, <<38930, 42023>>, <<45480, 49231>>, <<51960, 56473>>,
      <<58500, 63850>>, <<64980, 71303>>>>

DC(i) == PsuCurve[i][1]
Loss(i) == PsuCurve[i][2] - PsuCurve[i][1]

\* Mutant of Segment: the segment after the right one.
SegmentAfter(dc) ==
    CHOOSE i \in 1..(Len(PsuCurve) - 1) :
        \/ dc <= DC(i) /\ \A j \in 1..(i - 1) : dc > DC(j)
        \/ i = Len(PsuCurve) - 1 /\ dc > DC(i)

\* The first segment that does not end below.
Segment(dc) ==
    CHOOSE i \in 1..(Len(PsuCurve) - 1) :
        dc <= DC(i + 1) /\ \A j \in 1..(i - 1) : dc > DC(j + 1)

\* psu_ac
PsuAC(dc) ==
    LET n == Len(PsuCurve)
    IN  IF dc <= DC(1) THEN dc + Loss(1)
        ELSE IF dc > DC(n) THEN dc + (dc * Loss(n)) \div DC(n)
        ELSE LET i == Segment(dc)
             IN  dc + Loss(i)
                 + ((Loss(i + 1) - Loss(i)) * (dc - DC(i))) \div (DC(i + 1) - DC(i))

-----------------------------------------------------------------------------
(* SmcEstimator.                                                           *)

\* CHARGER_EFFICIENCY = 0.85.
ChargerLoss(ac) == (3 * ac) \div 17

\* Half a watt.
Skew == 50

\* Mutant of Rest: the sensors are believed to agree.
RestSigned(system, soc) == system - soc

Rest(system, soc) == IF system > soc THEN system - soc ELSE 0

\* smc_sensors, and what SmcEstimator.sample takes from it, of the sensors
\* with these labels: without the one at the wall, or where one cannot be read
\* (no labels), it takes nothing, and 0 for any other that is missing.
Sensors(power, labels) ==
    LET Get(label) == IF {"ac", label} \subseteq labels THEN power[label] ELSE 0
    IN  [ac |-> Get("ac"), system |-> Get("system"), soc |-> Get("soc")]

\* The components of a reading, and the power at the wall.
SmcReading(w) ==
    [wall |-> IF w.ac > 0 THEN w.ac + ChargerLoss(w.ac) ELSE 0,
     on_battery |-> w.ac <= 0,
     soc |-> w.soc,
     rest |-> Rest(w.system, w.soc),
     battery |-> IF w.ac - w.system > Skew THEN w.ac - w.system ELSE 0,
     charger |-> IF w.ac > 0 THEN ChargerLoss(w.ac) ELSE 0]
=============================================================================
