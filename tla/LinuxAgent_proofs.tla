------------------------- MODULE LinuxAgent_proofs -------------------------
(***************************************************************************)
(* Proofs about LinuxAgent for every retry and refresh interval and any    *)
(* number of crashes and clock changes.                                    *)
(***************************************************************************)
EXTENDS LinuxAgent, TLAPS

USE AgentAssumption DEF AgentAssumption

LEMMA InitInv == Init => IInv
<1> SUFFICES ASSUME Init PROVE IInv
  OBVIOUS
<1>1. TypeAges
  BY DEF Init, TypeAges
<1>2. TypeFlags
  BY DEF Init, TypeFlags
<1>5. TypeRest
  BY DEF Init, TypeRest
<1>3. RunningIsTrue /\ AgeNeverFlatters /\ Updates
  BY DEF Init, RunningIsTrue, AgeNeverFlatters, Updates
<1>4. Ages
  BY DEF Init, Ages
<1> QED
  BY <1>1, <1>2, <1>3, <1>4, <1>5 DEF IInv, TypeOK

-----------------------------------------------------------------------------
(* The steps, by what they change.                                         *)

\* One unit of time passes.
LEMMA TickStep == IInv /\ Tick => IInv'
<1> SUFFICES ASSUME IInv, Tick PROVE IInv'
  OBVIOUS
<1> USE DEF IInv, Tick, Older, loop, budgets
<1>1. TypeOK'
  <2>1. TypeAges'
    BY DEF TypeOK, TypeAges, Ages
  <2>2. TypeFlags'
    BY DEF TypeOK, TypeFlags
  <2>3. TypeRest'
    BY DEF TypeOK, TypeRest
  <2> QED
    BY <2>1, <2>2, <2>3 DEF TypeOK
<1>2. RunningIsTrue' /\ Updates'
  BY DEF RunningIsTrue, Updates
<1>3. AgeNeverFlatters'
  BY DEF AgeNeverFlatters
<1>4. Ages'
  BY DEF Ages, TypeOK, TypeAges, TypeRest
<1> QED
  BY <1>1, <1>2, <1>3, <1>4

\* The clock is set.
LEMMA ClockStep == IInv /\ (ClockForward \/ ClockBack) => IInv'
<1> SUFFICES ASSUME IInv, ClockForward \/ ClockBack PROVE IInv'
  OBVIOUS
<1> USE DEF IInv, ClockForward, ClockBack, Younger, loop, history
<1>1. TypeOK'
  <2>1. TypeAges'
    <3>1. CASE ClockForward
      BY <3>1 DEF TypeOK, TypeAges
    <3>2. CASE ClockBack
      <4>1. \A age, limit \in Int :
              -clockSteps <= age /\ age <= limit /\ 0 < limit =>
                Younger(age, limit) \subseteq (-MaxClockSteps)..limit
        BY <3>2 DEF TypeOK, TypeRest
      <4>2. tried' \in (-MaxClockSteps)..RetryAfter
        BY <3>2, <4>1 DEF TypeOK, TypeAges, Ages
      <4>3. {listAge', seenAge'} \subseteq (-MaxClockSteps)..RefreshAfter
        BY <3>2, <4>1 DEF TypeOK, TypeAges, Ages
      <4> QED
        BY <3>2, <4>2, <4>3 DEF TypeOK, TypeAges
    <3> QED
      BY <3>1, <3>2
  <2>2. TypeFlags'
    BY DEF TypeOK, TypeFlags
  <2>3. TypeRest'
    BY DEF TypeOK, TypeRest
  <2> QED
    BY <2>1, <2>2, <2>3 DEF TypeOK
<1>2. RunningIsTrue' /\ Updates'
  BY DEF RunningIsTrue, Updates
<1>3. AgeNeverFlatters'
  BY DEF AgeNeverFlatters
<1>4. Ages'
  BY DEF Ages, TypeOK, TypeAges, TypeRest
<1> QED
  BY <1>1, <1>2, <1>3, <1>4

\* The lists, the process and the update thread.
LEMMA WorldStep ==
    IInv /\ (ListsReplaced \/ Crash \/ Restart \/ UpdateEnds) => IInv'
<1> SUFFICES ASSUME IInv, ListsReplaced \/ Crash \/ Restart \/ UpdateEnds
             PROVE IInv'
  OBVIOUS
<1> USE DEF IInv, ListsReplaced, Crash, Restart, UpdateEnds, loop, refresh,
            lists, history, budgets
<1>1. TypeOK'
  <2>1. TypeAges'
    BY DEF TypeOK, TypeAges, Ages
  <2>2. TypeFlags'
    BY DEF TypeOK, TypeFlags
  <2>3. TypeRest'
    BY DEF TypeOK, TypeRest
  <2> QED
    BY <2>1, <2>2, <2>3 DEF TypeOK
<1>2. RunningIsTrue' /\ Updates'
  BY DEF RunningIsTrue, Updates, TypeOK, TypeRest
<1>3. AgeNeverFlatters'
  BY DEF AgeNeverFlatters
<1>4. Ages'
  BY DEF Ages, TypeOK, TypeAges, TypeRest
<1> QED
  BY <1>1, <1>2, <1>3, <1>4

\* A refresh is due and its thread starts, or does not.
LEMMA RefreshStep == IInv /\ (StartRefresh \/ RefreshThreadFails) => IInv'
<1> SUFFICES ASSUME IInv, StartRefresh \/ RefreshThreadFails PROVE IInv'
  OBVIOUS
<1> USE DEF IInv, StartRefresh, RefreshThreadFails, MarkTried, Due, lists,
            budgets
<1>1. updating = 0
  BY DEF RunningIsTrue
<1>2. TypeOK'
  <2>1. TypeAges'
    BY <1>1 DEF TypeOK, TypeAges, Ages
  <2>2. TypeFlags'
    BY <1>1 DEF TypeOK, TypeFlags
  <2>3. TypeRest'
    BY <1>1 DEF TypeOK, TypeRest
  <2> QED
    BY <2>1, <2>2, <2>3 DEF TypeOK
<1>3. RunningIsTrue' /\ Updates'
  BY <1>1 DEF RunningIsTrue, Updates
<1>4. AgeNeverFlatters'
  BY DEF AgeNeverFlatters
<1>5. Ages'
  BY DEF Ages, TypeOK, TypeAges, TypeRest
<1> QED
  BY <1>2, <1>3, <1>4, <1>5

\* The other steps of the main thread move it and fill the report.
LEMMA LoopStep ==
    ASSUME IInv,
           \/ CollectFirst \/ JournalTimesOut \/ CollectorRaises
           \/ ReadMtime \/ ReadMtimeFails \/ NoRefresh
           \/ CountUpgradable \/ CountFails \/ CollectLast \/ Post \/ Wake
    PROVE  IInv'
<1> USE DEF IInv, CollectFirst, JournalTimesOut, CollectorRaises, ReadMtime,
            ReadMtimeFails, NoRefresh, CountUpgradable, CountFails,
            CollectLast, Post, Wake, refresh, lists, history, budgets
<1>1. TypeOK'
  <2>1. TypeAges'
    BY DEF TypeOK, TypeAges, Ages
  <2>2. TypeFlags'
    BY DEF TypeOK, TypeFlags
  <2>3. TypeRest'
    BY DEF TypeOK, TypeRest
  <2> QED
    BY <2>1, <2>2, <2>3 DEF TypeOK
<1>2. RunningIsTrue' /\ Updates'
  BY DEF RunningIsTrue, Updates
<1>3. AgeNeverFlatters'
  BY DEF AgeNeverFlatters
<1>4. Ages'
  BY DEF Ages
<1> QED
  BY <1>1, <1>2, <1>3, <1>4

LEMMA StutterStep == IInv /\ UNCHANGED vars => IInv'
  BY DEF vars, loop, refresh, lists, history, budgets, IInv, TypeOK,
         TypeAges, TypeFlags, TypeRest, RunningIsTrue, AgeNeverFlatters, Updates, Ages

LEMMA NextInv == IInv /\ [Next]_vars => IInv'
  BY TickStep, ClockStep, WorldStep, RefreshStep, LoopStep, StutterStep
  DEF Next, Main

-----------------------------------------------------------------------------
(* Theorems.                                                               *)

(* IInv is an invariant of the agent (client/main.py:46-62, apt.py:95-110).*)
THEOREM Inductive == Spec => []IInv
  BY InitInv, NextInv, PTL DEF Spec

(* Every variable keeps its type; no more than one update runs.            *)
THEOREM Typing == Spec => []TypeOK
  BY Inductive, PTL DEF IInv

(* The running flag is set exactly while an update is under way.           *)
THEOREM RunningTrue == Spec => []RunningIsTrue
  BY Inductive, PTL DEF IInv

(* A report's lists are never shown newer than those it counted from.      *)
THEOREM NeverFlatters == Spec => []AgeNeverFlatters
  BY Inductive, PTL DEF IInv

(* Two updates are started RetryAfter apart, but for a restart or a clock  *)
(* set forward: only StartRefresh starts one, and then tried, which is no  *)
(* more than the true time since the last, has reached RetryAfter.         *)
THEOREM Spaced == Spec => TriesAreSpaced
<1> DEFINE Far == sinceTry = RetryAfter \/ excused
<1>1. ASSUME IInv, [Next]_vars PROVE [updating' > updating => Far]_vars
  <2> SUFFICES ASSUME updating' > updating PROVE Far
    OBVIOUS
  <2>1. StartRefresh
    BY <1>1 DEF IInv, TypeOK, TypeRest, Next, Main, vars, refresh, Tick, ClockForward,
      ClockBack, ListsReplaced, Crash, Restart, UpdateEnds, CollectFirst,
      JournalTimesOut, CollectorRaises, ReadMtime, ReadMtimeFails, NoRefresh,
      RefreshThreadFails, CountUpgradable, CountFails, CollectLast, Post,
      Wake
  <2> QED
    BY <1>1, <2>1 DEF StartRefresh, Due, IInv, Ages, TypeOK, TypeAges
<1> QED
  BY <1>1, Inductive, PTL DEF Spec, TriesAreSpaced
=============================================================================
