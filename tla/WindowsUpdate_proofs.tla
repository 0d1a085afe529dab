------------------------ MODULE WindowsUpdate_proofs ------------------------
(***************************************************************************)
(* Proofs about WindowsUpdate, for every interval, every age from which    *)
(* the host flags, any number of crashes and of changes to the clock.      *)
(***************************************************************************)
EXTENDS WindowsUpdate, TLAPS

Places ==
    /\ at \in {"down", "collect", "elsewhere"}
    /\ search \in {"idle", "asking", "stored"}

Flags ==
    /\ running \in BOOLEAN /\ works \in BOOLEAN
    /\ excused \in BOOLEAN /\ wedged \in BOOLEAN

Numbers ==
    /\ resultAge \in Ages /\ sinceSearch \in 0..(RefreshAfter + 1)
    /\ clockSteps \in 0..MaxClockSteps /\ crashes \in 0..MaxCrashes

Records ==
    /\ raw \in {{}} \cup {{r} : r \in Answer}
    /\ windows \in Answer /\ windows.pending # "unknown"

LEMMA TypeParts == TypeOK <=> Places /\ Flags /\ Numbers /\ Records
  BY Zenon DEF TypeOK, Places, Flags, Numbers, Records

-----------------------------------------------------------------------------
LEMMA PlacesStep == Places /\ [Next]_vars => Places'
<1> SUFFICES ASSUME Places, [Next]_vars PROVE Places' OBVIOUS
<1>0. CASE UNCHANGED vars BY <1>0 DEF Places, vars, state
<1>1. CASE Tick \/ ClockForward \/ ClockBack \/ WindowsActs \/ BreaksOrRecovers
  BY <1>1 DEF Places, Tick, ClockForward, ClockBack, WindowsActs,
     BreaksOrRecovers, state
<1>2. CASE Crash \/ Restart BY <1>2 DEF Places, Crash, Restart
<1>3. CASE Search
  BY <1>3 DEF Places, Search, SearchStores, SearchRaises, SearchEnds
<1>4. CASE Main
  BY <1>4 DEF Places, Main, Collect, SearchThreadFails, NextReport, state
<1> QED BY <1>0, <1>1, <1>2, <1>3, <1>4 DEF Next

LEMMA FlagsStep == Flags /\ [Next]_vars => Flags'
<1> SUFFICES ASSUME Flags, [Next]_vars PROVE Flags' OBVIOUS
<1>0. CASE UNCHANGED vars BY <1>0 DEF Flags, vars, state, history
<1>1. CASE Tick \/ ClockForward \/ ClockBack \/ WindowsActs \/ BreaksOrRecovers
  BY <1>1 DEF Flags, Tick, ClockForward, ClockBack, WindowsActs,
     BreaksOrRecovers, state, history
<1>2. CASE Crash \/ Restart BY <1>2 DEF Flags, Crash, Restart, history
<1>3. CASE Search
  BY <1>3 DEF Flags, Search, SearchStores, SearchRaises, SearchEnds, history
<1>4. CASE Main
  BY <1>4 DEF Flags, Main, Collect, SearchThreadFails, NextReport, state, history
<1> QED BY <1>0, <1>1, <1>2, <1>3, <1>4 DEF Next

(* The clock may only have been set back as often as it was set.           *)
Behind == 0 - clockSteps <= resultAge

LEMMA AgesMove ==
    \A age \in Ages : Older(age) \in Ages /\ Older(age) >= age
  BY UpdateAssumption, SMT DEF UpdateAssumption, Ages, Older

LEMMA NumbersStep == Numbers /\ Behind /\ [Next]_vars => Numbers' /\ Behind'
<1> SUFFICES ASSUME Numbers, Behind, [Next]_vars PROVE Numbers' /\ Behind' OBVIOUS
<1> USE UpdateAssumption DEF UpdateAssumption
<1>0. CASE UNCHANGED vars
  BY <1>0 DEF Numbers, Behind, vars, state, history, budgets
<1>1. CASE Tick
  <2>1. resultAge' = Older(resultAge) /\ UNCHANGED budgets BY <1>1 DEF Tick
  <2>2. sinceSearch' \in 0..(RefreshAfter + 1)
    BY <1>1, SMT DEF Tick, Older, Numbers
  <2>3. resultAge' \in Ages /\ resultAge' >= resultAge
    BY <2>1, AgesMove DEF Numbers
  <2>4. 0 - clockSteps <= Older(resultAge)
    BY AgesMove DEF Numbers, Behind, Ages
  <2> QED BY <2>1, <2>2, <2>3, <2>4 DEF Numbers, Behind, budgets
<1>2. CASE ClockForward
  <2>1. /\ clockSteps < MaxClockSteps /\ clockSteps' = clockSteps + 1
        /\ resultAge' = RefreshAfter + 1 /\ UNCHANGED <<sinceSearch, crashes>>
    BY <1>2 DEF ClockForward
  <2> QED BY <2>1, SMT DEF Numbers, Behind, Ages
<1>3. CASE ClockBack
  <2>1. /\ clockSteps < MaxClockSteps /\ clockSteps' = clockSteps + 1
        /\ resultAge' \in Younger(resultAge) /\ UNCHANGED <<sinceSearch, crashes>>
    BY <1>3 DEF ClockBack, history
  <2>2. resultAge' = resultAge - 1 \/ resultAge' = resultAge
    BY <2>1 DEF Younger
  <2> QED BY <2>1, <2>2, SMT DEF Numbers, Behind, Ages
<1>4. CASE WindowsActs \/ BreaksOrRecovers
  BY <1>4 DEF Numbers, Behind, WindowsActs, BreaksOrRecovers, state, history,
     budgets
<1>5. CASE Crash \/ Restart
  BY <1>5, SMT DEF Numbers, Behind, Crash, Restart, Ages, history, budgets
<1>6. CASE Search
  BY <1>6, SMT DEF Numbers, Behind, Search, SearchStores, SearchRaises,
     SearchEnds, Ages, history, budgets
<1>7. CASE Main
  BY <1>7 DEF Numbers, Behind, Main, Collect, SearchThreadFails, NextReport,
     state, history, budgets
<1> QED BY <1>0, <1>1, <1>2, <1>3, <1>4, <1>5, <1>6, <1>7 DEF Next

-----------------------------------------------------------------------------
(* Dates have one age or none, and so do dates that got older.             *)
LEMMA DatesMove ==
    ASSUME NEW date \in Dates
    PROVE  /\ Aged(date) \in Dates
           /\ Flagged(date) \in Dates
           /\ date = {} <=> Aged(date) = {}
           /\ date = {} <=> Flagged(date) = {}
<1> USE UpdateAssumption DEF UpdateAssumption
<1>1. CASE date = {} BY <1>1 DEF Aged, Flagged, Dates
<1>2. CASE date # {}
  <2>1. PICK age \in 0..FlagAfter : date = {age} BY <1>2 DEF Dates
  <2>2. Flagged(date) = {FlagAfter} BY <2>1 DEF Flagged
  <2>3. Aged(date) = {IF age < FlagAfter THEN age + 1 ELSE age}
    BY <2>1 DEF Aged
  <2>4. (IF age < FlagAfter THEN age + 1 ELSE age) \in 0..FlagAfter
    BY SMT
  <2>5. FlagAfter \in 0..FlagAfter BY SMT
  <2> QED BY <1>2, <2>2, <2>3, <2>4, <2>5 DEF Dates
<1> QED BY <1>1, <1>2

LEMMA AnswerMoves ==
    ASSUME NEW r \in Answer
    PROVE  /\ Passed(r) \in Answer /\ Passed(r).pending = r.pending
           /\ Passed(r).searched = Aged(r.searched)
           /\ Passed(r).installed = Aged(r.installed)
<1>1. r.searched \in Dates /\ r.installed \in Dates BY DEF Answer
<1>2. Aged(r.searched) \in Dates /\ Aged(r.installed) \in Dates
  BY <1>1, DatesMove
<1> QED BY <1>2 DEF Answer, Passed

LEMMA AnswerLate ==
    ASSUME NEW r \in Answer
    PROVE  /\ Late(r) \in Answer /\ Late(r).pending = r.pending
           /\ Late(r).searched = Flagged(r.searched)
           /\ Late(r).installed = Flagged(r.installed)
<1>1. r.searched \in Dates /\ r.installed \in Dates BY DEF Answer
<1>2. /\ Flagged(r.searched) \in Dates
      /\ Flagged(r.installed) \in Dates
  BY <1>1, DatesMove
<1> QED BY <1>2 DEF Answer, Late

LEMMA Zero == {} \in Dates /\ {0} \in Dates
  BY UpdateAssumption, SMT DEF UpdateAssumption, Dates

(* What Windows does keeps its record whole.                               *)
LEMMA WindowsRecord ==
    ASSUME Records, WindowsActs
    PROVE  /\ windows' \in Answer /\ windows'.pending # "unknown"
           /\ raw' = raw
           /\ \/ windows'.searched = {0} /\ windows'.installed = windows.installed
              \/ /\ windows'.installed = {0} /\ windows'.searched = windows.searched
                 /\ windows.searched # {}
<1>1. PICK p \in {"none", "some"}, date \in {"searched", "installed"} :
          /\ date = "installed" => windows.searched # {}
          /\ windows' = [windows EXCEPT !.pending = p, ![date] = {0}]
  BY DEF WindowsActs
<1>2. raw' = raw BY DEF WindowsActs, state
<1>3. CASE date = "searched"
  BY <1>1, <1>2, <1>3, Zero DEF Records, Answer
<1>4. CASE date = "installed"
  BY <1>1, <1>2, <1>4, Zero DEF Records, Answer
<1> QED BY <1>3, <1>4

(* What a search that ends may store: the record of Windows, but for the   *)
(* count.                                                                  *)
LEMMA Stored ==
    ASSUME Records, SearchStores
    PROVE  /\ windows' = windows
           /\ \/ raw' = raw
              \/ \E r \in Answer : /\ raw' = {r}
                                   /\ r.searched = windows.searched
                                   /\ r.installed = windows.installed
                                   /\ r.pending \in {windows.pending, "unknown"}
<1>1. windows' = windows BY DEF SearchStores
<1>2. CASE \E answer \in Answers : Keep({answer})
  <2>1. PICK answer \in Answers : Keep({answer}) BY <1>2
  <2>2. PICK p \in {windows.pending, "unknown"} :
            answer = [windows EXCEPT !.pending = p]
    BY <2>1 DEF Answers
  <2>3. raw' = {answer} BY <2>1 DEF Keep
  <2>4. /\ answer \in Answer /\ answer.pending = p
        /\ answer.searched = windows.searched
        /\ answer.installed = windows.installed
    BY <2>2 DEF Records, Answer
  <2> QED BY <1>1, <2>3, <2>4
<1>3. CASE Keep({})
  <2>1. raw' = raw BY <1>3 DEF Keep
  <2> QED BY <1>1, <2>1
<1> QED BY <1>2, <1>3 DEF SearchStores

(* Where neither the answer nor the record of Windows moves.               *)
LEMMA RecordsRest ==
    [Next]_vars =>
        \/ Tick \/ ClockForward \/ WindowsActs \/ SearchStores \/ Restart
        \/ UNCHANGED <<raw, windows>>
  BY DEF Next, vars, state, ClockBack, BreaksOrRecovers, Crash, Search,
     SearchRaises, SearchEnds, Main, Collect, SearchThreadFails, NextReport

LEMMA RecordsStep == Records /\ [Next]_vars => Records'
<1> SUFFICES ASSUME Records, [Next]_vars PROVE Records' OBVIOUS
<1>r. \A r \in raw : r \in Answer BY DEF Records
<1>1. CASE Tick
  <2>1. CASE UNCHANGED <<raw, windows>> BY <2>1 DEF Records
  <2>2. CASE /\ raw' = {Passed(r) : r \in raw} /\ windows' = Passed(windows)
    <3>1. windows' \in Answer /\ windows'.pending # "unknown"
      BY <2>2, AnswerMoves DEF Records
    <3>2. CASE raw = {} BY <2>2, <3>1, <3>2 DEF Records
    <3>3. CASE \E r \in Answer : raw = {r}
      BY <2>2, <3>1, <3>3, AnswerMoves DEF Records
    <3> QED BY <3>2, <3>3 DEF Records
  <2> QED BY <1>1, <2>1, <2>2 DEF Tick, Passed
<1>2. CASE ClockForward
  <2>1. /\ raw' = {Late(r) : r \in raw} /\ windows' = Late(windows)
    BY <1>2 DEF ClockForward
  <2>2. windows' \in Answer /\ windows'.pending # "unknown"
    BY <2>1, AnswerLate DEF Records
  <2>3. CASE raw = {} BY <2>1, <2>2, <2>3 DEF Records
  <2>4. CASE \E r \in Answer : raw = {r}
    BY <2>1, <2>2, <2>4, AnswerLate DEF Records
  <2> QED BY <2>3, <2>4 DEF Records
<1>3. CASE WindowsActs BY <1>3, WindowsRecord DEF Records
<1>4. CASE SearchStores BY <1>4, Stored DEF Records
<1>5. CASE Restart BY <1>5 DEF Restart, Records
<1>6. CASE UNCHANGED <<raw, windows>> BY <1>6 DEF Records
<1> QED BY <1>1, <1>2, <1>3, <1>4, <1>5, <1>6, RecordsRest

LEMMA Initially == Init => Places /\ Flags /\ Numbers /\ Behind /\ Records
<1> SUFFICES ASSUME Init PROVE Places /\ Flags /\ Numbers /\ Behind /\ Records
  OBVIOUS
<1>1. Places BY DEF Init, Places
<1>2. Flags BY DEF Init, Flags
<1>3. Numbers /\ Behind
  BY UpdateAssumption, SMT DEF Init, Numbers, Behind, Ages, UpdateAssumption
<1>4. Records
  <2>1. PICK p \in {"none", "some"}, s, i \in {{}, {0}} :
            windows = [pending |-> p, searched |-> s, installed |-> i]
    BY DEF Init
  <2>2. windows \in Answer /\ windows.pending # "unknown"
    BY <2>1, Zero DEF Answer
  <2> QED BY <2>2 DEF Init, Records
<1> QED BY <1>1, <1>2, <1>3, <1>4

(* Every variable keeps its type: one search at a time, one answer kept    *)
(* (windows_update.py:34-35, 73-94).                                       *)
THEOREM Typing == Spec => []TypeOK
<1> DEFINE Typed == Places /\ Flags /\ Numbers /\ Behind /\ Records
<1>1. Init => Typed BY Initially
<1>2. Typed /\ [Next]_vars => Typed'
  BY PlacesStep, FlagsStep, NumbersStep, RecordsStep
<1>3. Typed => TypeOK BY TypeParts
<1> QED BY <1>1, <1>2, <1>3, PTL DEF Spec

-----------------------------------------------------------------------------
(* A search lives in a process that is up; where a thread did not start    *)
(* none ever does, because the flag stays set.                             *)
InProcess ==
    /\ at = "down" => search = "idle"
    /\ wedged /\ at # "down" => search = "idle"
    /\ RunningIsTrue

LEMMA InProcessStep ==
    Places /\ Flags /\ InProcess /\ [Next]_vars => InProcess'
<1> SUFFICES ASSUME Places, Flags, InProcess, [Next]_vars PROVE InProcess'
  OBVIOUS
<1> USE DEF InProcess, RunningIsTrue, Places, Flags
<1>0. CASE UNCHANGED vars BY <1>0 DEF vars, state, history
<1>1. CASE Tick \/ ClockForward \/ ClockBack \/ WindowsActs \/ BreaksOrRecovers
  BY <1>1 DEF Tick, ClockForward, ClockBack, WindowsActs, BreaksOrRecovers,
     state, history
<1>2. CASE Crash BY <1>2 DEF Crash, history
<1>3. CASE Restart BY <1>3 DEF Restart
<1>4. CASE SearchStores BY <1>4 DEF SearchStores
<1>5. CASE SearchRaises BY <1>5 DEF SearchRaises, history
<1>6. CASE SearchEnds BY <1>6 DEF SearchEnds, history
<1>7. CASE Collect BY <1>7 DEF Collect, SearchDue, history
<1>8. CASE SearchThreadFails BY <1>8 DEF SearchThreadFails, SearchDue
<1>9. CASE NextReport BY <1>9 DEF NextReport, state, history
<1> QED BY <1>0, <1>1, <1>2, <1>3, <1>4, <1>5, <1>6, <1>7, <1>8, <1>9
        DEF Next, Search, Main

(* What the collector takes for the age of its answer is no more than the  *)
(* true time since a search, unless a restart or the clock excuses it.     *)
AgeIsTrue == excused \/ resultAge <= sinceSearch

LEMMA OlderKeepsOrder ==
    \A a \in Ages, b \in 0..(RefreshAfter + 1) :
        a <= b => Older(a) <= Older(b)
  BY UpdateAssumption, SMT DEF UpdateAssumption, Ages, Older

LEMMA AgeIsTrueStep ==
    Numbers /\ Flags /\ AgeIsTrue /\ [Next]_vars => AgeIsTrue'
<1> SUFFICES ASSUME Numbers, Flags, AgeIsTrue, [Next]_vars PROVE AgeIsTrue'
  OBVIOUS
<1>0. CASE UNCHANGED vars BY <1>0 DEF AgeIsTrue, vars, state, history
<1>1. CASE Tick
  <2>1. /\ resultAge' = Older(resultAge) /\ sinceSearch' = Older(sinceSearch)
        /\ excused' = excused
    BY <1>1 DEF Tick, Older
  <2>2. CASE excused BY <2>1, <2>2 DEF AgeIsTrue
  <2>3. CASE resultAge <= sinceSearch
    <3>1. Older(resultAge) <= Older(sinceSearch)
      BY <2>3, OlderKeepsOrder DEF Numbers
    <3> QED BY <2>1, <3>1 DEF AgeIsTrue
  <2> QED BY <2>2, <2>3 DEF AgeIsTrue
<1>2. CASE ClockForward BY <1>2 DEF AgeIsTrue, ClockForward
<1>3. CASE ClockBack
  <2>1. /\ sinceSearch' = sinceSearch /\ excused' = excused
        /\ resultAge' = resultAge - 1 \/ resultAge' = resultAge
    BY <1>3 DEF ClockBack, history, Younger
  <2>2. resultAge \in Int /\ sinceSearch \in Int
    BY UpdateAssumption DEF Numbers, Ages, UpdateAssumption
  <2>3. resultAge <= sinceSearch =>
            resultAge - 1 <= sinceSearch
    BY <2>2
  <2> QED BY <2>1, <2>3 DEF AgeIsTrue
<1>4. CASE WindowsActs \/ BreaksOrRecovers
  BY <1>4 DEF AgeIsTrue, WindowsActs, BreaksOrRecovers, state, history
<1>5. CASE Crash \/ Restart BY <1>5 DEF AgeIsTrue, Crash, Restart, history
<1>6. CASE Search
  BY <1>6 DEF AgeIsTrue, Search, SearchStores, SearchRaises, SearchEnds, history
<1>7. CASE Main
  BY <1>7 DEF AgeIsTrue, Main, Collect, SearchThreadFails, NextReport, state,
     history
<1> QED BY <1>0, <1>1, <1>2, <1>3, <1>4, <1>5, <1>6, <1>7 DEF Next

-----------------------------------------------------------------------------
(* An installation follows a search; what was read was there.              *)
Known ==
    /\ windows.installed # {} => windows.searched # {}
    /\ \A r \in raw : r.searched # {} \/ r.installed # {} => windows.searched # {}

LEMMA KnownStep ==
    Records /\ Known /\ [Next]_vars =>
        Known' /\ (AgeKnown => AgeKnown' \/ at = "down")
<1> SUFFICES ASSUME Records, Known, [Next]_vars
             PROVE  Known' /\ (AgeKnown => AgeKnown' \/ at = "down")
  OBVIOUS
<1>r. windows \in Answer /\ \A r \in raw : r \in Answer BY DEF Records
<1>d. \A r \in Answer : r.searched \in Dates /\ r.installed \in Dates
  BY DEF Answer
<1>1. CASE UNCHANGED <<raw, windows>> BY <1>1 DEF Known, AgeKnown
<1>2. CASE raw' = {Passed(r) : r \in raw} /\ windows' = Passed(windows)
  <2>1. \A r \in Answer : /\ Passed(r).searched = {} <=> r.searched = {}
                          /\ Passed(r).installed = {} <=> r.installed = {}
                          /\ Passed(r).pending = r.pending
    BY AnswerMoves, DatesMove, <1>d
  <2>2. Known' BY <1>2, <2>1, <1>r DEF Known
  <2>3. \A r \in Answer : AgesShown(r) # {} => AgesShown(Passed(r)) # {}
    BY <2>1 DEF AgesShown
  <2> QED BY <1>2, <2>2, <2>3, <1>r DEF AgeKnown
<1>3. CASE ClockForward
  <2>0. raw' = {Late(r) : r \in raw} /\ windows' = Late(windows)
    BY <1>3 DEF ClockForward
  <2>1. \A r \in Answer : /\ Late(r).searched = {} <=> r.searched = {}
                          /\ Late(r).installed = {} <=> r.installed = {}
                          /\ Late(r).pending = r.pending
    BY AnswerLate, DatesMove, <1>d
  <2>2. Known' BY <2>0, <2>1, <1>r DEF Known
  <2>3. \A r \in Answer : AgesShown(r) # {} => AgesShown(Late(r)) # {}
    BY <2>1 DEF AgesShown
  <2> QED BY <2>0, <2>2, <2>3, <1>r DEF AgeKnown
<1>4. CASE WindowsActs
  BY <1>4, WindowsRecord DEF Known, AgeKnown
<1>5. CASE SearchStores
  <2>1. CASE raw' = raw BY <1>5, <2>1, Stored DEF Known, AgeKnown
  <2>2. CASE \E r \in Answer : /\ raw' = {r}
                               /\ r.searched = windows.searched
                               /\ r.installed = windows.installed
    <3>1. PICK r \in Answer : /\ raw' = {r}
                              /\ r.searched = windows.searched
                              /\ r.installed = windows.installed
      BY <2>2
    <3>2. windows' = windows BY <1>5, Stored
    <3>3. Known' BY <3>1, <3>2 DEF Known
    <3>4. AgeKnown => windows.searched # {}
      BY DEF AgeKnown, AgesShown, Known
    <3>5. r.searched # {} => AgesShown(r) # {} BY DEF AgesShown
    <3> QED BY <3>1, <3>3, <3>4, <3>5 DEF AgeKnown
  <2> QED BY <1>5, <2>1, <2>2, Stored
<1>6. CASE Restart BY <1>6 DEF Restart, Known
<1>7. Tick => \/ UNCHANGED <<raw, windows>>
              \/ raw' = {Passed(r) : r \in raw} /\ windows' = Passed(windows)
  BY DEF Tick, Passed
<1> QED BY <1>1, <1>2, <1>3, <1>4, <1>5, <1>6, <1>7, RecordsRest

-----------------------------------------------------------------------------
(* The dates of an answer are no younger than those of the record.         *)
NotYounger(dates, others) == \A a \in dates, b \in others : a >= b

Outdated(r) ==
    /\ NotYounger(r.searched, windows.searched)
    /\ NotYounger(r.installed, windows.installed)
    /\ r.installed = {} => NotYounger(r.searched, windows.installed)

NeverAhead == \A r \in raw : Outdated(r)

LEMMA OrderMoves ==
    ASSUME NEW d \in Dates, NEW e \in Dates, NotYounger(d, e)
    PROVE  /\ NotYounger(Aged(d), Aged(e))
           /\ NotYounger(Flagged(d), Flagged(e))
<1> USE UpdateAssumption DEF UpdateAssumption
<1>1. ASSUME NEW a \in Aged(d), NEW b \in Aged(e) PROVE a >= b
  <2>1. PICK x \in d : a = IF x < FlagAfter THEN x + 1 ELSE x BY DEF Aged
  <2>2. PICK y \in e : b = IF y < FlagAfter THEN y + 1 ELSE y BY DEF Aged
  <2>3. x \in 0..FlagAfter /\ y \in 0..FlagAfter BY DEF Dates
  <2>4. x >= y BY DEF NotYounger
  <2> QED BY <2>1, <2>2, <2>3, <2>4, SMT
<1>2. \A a \in Flagged(d), b \in Flagged(e) : a >= b BY SMT DEF Flagged
<1> QED BY <1>1, <1>2 DEF NotYounger

LEMMA Zeros ==
    ASSUME NEW d \in Dates
    PROVE  NotYounger(d, {0}) /\ NotYounger(d, d)
<1>1. \A a \in d : a \in 0..FlagAfter /\ \A b \in d : a = b BY DEF Dates
<1> QED BY <1>1, UpdateAssumption, SMT DEF NotYounger, UpdateAssumption

LEMMA NeverAheadStep == Records /\ NeverAhead /\ [Next]_vars => NeverAhead'
<1> SUFFICES ASSUME Records, NeverAhead, [Next]_vars PROVE NeverAhead' OBVIOUS
<1>r. windows \in Answer /\ \A r \in raw : r \in Answer BY DEF Records
<1>d. \A r \in Answer : r.searched \in Dates /\ r.installed \in Dates
  BY DEF Answer
<1>1. CASE UNCHANGED <<raw, windows>>
  BY <1>1 DEF NeverAhead, Outdated
<1>2. CASE raw' = {Passed(r) : r \in raw} /\ windows' = Passed(windows)
  <2> SUFFICES ASSUME NEW q \in raw' PROVE Outdated(q)' BY DEF NeverAhead
  <2>0. PICK r \in raw : q = Passed(r) BY <1>2
  <2>1. /\ Passed(r).searched = Aged(r.searched)
        /\ Passed(r).installed = Aged(r.installed)
        /\ windows'.searched = Aged(windows.searched)
        /\ windows'.installed = Aged(windows.installed)
    BY <1>2, <1>r, AnswerMoves
  <2>2. Passed(r).installed = {} <=> r.installed = {}
    BY <2>1, <1>r, <1>d, DatesMove
  <2>3. Outdated(r) BY DEF NeverAhead
  <2>4. /\ NotYounger(Passed(r).searched, windows'.searched)
        /\ NotYounger(Passed(r).installed, windows'.installed)
    BY <2>1, <2>3, <1>r, <1>d, OrderMoves DEF Outdated
  <2>5. Passed(r).installed = {} =>
            NotYounger(Passed(r).searched, windows'.installed)
    BY <2>1, <2>2, <2>3, <1>r, <1>d, OrderMoves DEF Outdated
  <2> QED BY <2>0, <2>4, <2>5 DEF Outdated
<1>3. CASE ClockForward
  <2>0. raw' = {Late(r) : r \in raw} /\ windows' = Late(windows)
    BY <1>3 DEF ClockForward
  <2> SUFFICES ASSUME NEW q \in raw' PROVE Outdated(q)' BY DEF NeverAhead
  <2>a. PICK r \in raw : q = Late(r) BY <2>0
  <2>1. /\ Late(r).searched = Flagged(r.searched)
        /\ Late(r).installed = Flagged(r.installed)
        /\ windows'.searched = Flagged(windows.searched)
        /\ windows'.installed = Flagged(windows.installed)
    BY <2>0, <1>r, AnswerLate
  <2>2. Late(r).installed = {} <=> r.installed = {}
    BY <2>1, <1>r, <1>d, DatesMove
  <2>3. Outdated(r) BY DEF NeverAhead
  <2>4. /\ NotYounger(Late(r).searched, windows'.searched)
        /\ NotYounger(Late(r).installed, windows'.installed)
    BY <2>1, <2>3, <1>r, <1>d, OrderMoves DEF Outdated
  <2>5. Late(r).installed = {} =>
            NotYounger(Late(r).searched, windows'.installed)
    BY <2>1, <2>2, <2>3, <1>r, <1>d, OrderMoves DEF Outdated
  <2> QED BY <2>a, <2>4, <2>5 DEF Outdated
<1>4. CASE WindowsActs
  <2>1. /\ raw' = raw
        /\ \/ windows'.searched = {0} /\ windows'.installed = windows.installed
           \/ windows'.installed = {0} /\ windows'.searched = windows.searched
    BY <1>4, WindowsRecord
  <2> SUFFICES ASSUME NEW r \in raw PROVE Outdated(r)' BY <2>1 DEF NeverAhead
  <2>2. Outdated(r) BY DEF NeverAhead
  <2>3. NotYounger(r.searched, {0}) /\ NotYounger(r.installed, {0})
    BY <1>r, <1>d, Zeros
  <2> QED BY <2>1, <2>2, <2>3 DEF Outdated
<1>5. CASE SearchStores
  <2>1. CASE raw' = raw BY <1>5, <2>1, Stored DEF NeverAhead, Outdated
  <2>2. CASE \E r \in Answer : /\ raw' = {r}
                               /\ r.searched = windows.searched
                               /\ r.installed = windows.installed
    <3>1. PICK r \in Answer : /\ raw' = {r}
                              /\ r.searched = windows.searched
                              /\ r.installed = windows.installed
      BY <2>2
    <3>2. windows' = windows BY <1>5, Stored
    <3>3. NotYounger(r.searched, r.searched) /\ NotYounger(r.installed, r.installed)
      BY <1>d, Zeros
    <3>4. r.installed = {} => NotYounger(r.searched, r.installed)
      BY DEF NotYounger
    <3> QED BY <3>1, <3>2, <3>3, <3>4 DEF NeverAhead, Outdated
  <2> QED BY <1>5, <2>1, <2>2, Stored
<1>6. CASE Restart BY <1>6 DEF Restart, NeverAhead
<1>7. Tick => \/ UNCHANGED <<raw, windows>>
              \/ raw' = {Passed(r) : r \in raw} /\ windows' = Passed(windows)
  BY DEF Tick, Passed
<1> QED BY <1>1, <1>2, <1>3, <1>4, <1>5, <1>6, <1>7, RecordsRest

LEMMA ShownOutdated == Records /\ NeverAhead => AgeNeverFlatters
<1> SUFFICES ASSUME Records, NeverAhead, NEW r \in raw, NEW shown \in AgesShown(r),
                    NEW age \in (IF r.pending = "some" THEN windows.installed
                                 ELSE windows.searched)
             PROVE  shown >= age
  BY DEF AgeNeverFlatters
<1>1. Outdated(r) /\ r \in Answer BY DEF NeverAhead, Records
<1>2. /\ r.searched \in Dates /\ r.installed \in Dates
      /\ windows.installed \in Dates
  BY <1>1 DEF Answer, Records
<1>3. CASE r.pending # "some" BY <1>1, <1>3 DEF AgesShown, Outdated, NotYounger
<1>4. CASE r.pending = "some" /\ r.installed = {}
  BY <1>1, <1>4 DEF AgesShown, Outdated, NotYounger
<1>5. CASE r.pending = "some" /\ r.installed # {}
  <2>1. CASE shown \in r.installed
    BY <1>1, <1>5, <2>1 DEF Outdated, NotYounger
  <2>2. CASE shown \in r.searched /\ 0 \in r.installed
    <3>1. 0 >= age BY <1>1, <1>5, <2>2 DEF Outdated, NotYounger
    <3>2. shown \in 0..FlagAfter /\ age \in 0..FlagAfter
      BY <1>2, <1>5, <2>2 DEF Dates
    <3> QED BY <3>1, <3>2, UpdateAssumption, SMT DEF UpdateAssumption
  <2> QED BY <1>5, <2>1, <2>2 DEF AgesShown
<1> QED BY <1>3, <1>4, <1>5

-----------------------------------------------------------------------------
Inv ==
    /\ Places /\ Flags /\ Numbers /\ Behind /\ Records
    /\ InProcess /\ AgeIsTrue /\ Known /\ NeverAhead

(* The inductive invariant: the flag and the thread, the age and the time, *)
(* the answer and the record of Windows.                                   *)
THEOREM Inductive == Spec => []Inv
<1>1. Init => Inv
  <2> SUFFICES ASSUME Init PROVE InProcess /\ AgeIsTrue /\ Known /\ NeverAhead
    BY Initially DEF Inv
  <2>1. InProcess BY DEF Init, InProcess, RunningIsTrue
  <2>2. AgeIsTrue
    BY UpdateAssumption, SMT DEF Init, AgeIsTrue, UpdateAssumption
  <2>3. Known BY DEF Init, Known
  <2>4. NeverAhead BY DEF Init, NeverAhead
  <2> QED BY <2>1, <2>2, <2>3, <2>4
<1>2. Inv /\ [Next]_vars => Inv'
  BY PlacesStep, FlagsStep, NumbersStep, RecordsStep, InProcessStep,
     AgeIsTrueStep, KnownStep, NeverAheadStep DEF Inv
<1> QED BY <1>1, <1>2, PTL DEF Spec

(* The flag is set exactly while a search is under way                     *)
(* (windows_update.py:80-82, 90-92), or where none can start any more.     *)
THEOREM RunningTrue == Spec => []RunningIsTrue
<1>1. Inv => RunningIsTrue BY DEF Inv, InProcess
<1> QED BY <1>1, Inductive, PTL

(* No age in a report is less than the true one (windows_update.py:50-70). *)
THEOREM NeverFlatters == Spec => []AgeNeverFlatters
<1>1. Inv => AgeNeverFlatters BY ShownOutdated DEF Inv
<1> QED BY <1>1, Inductive, PTL

(* Searches start RefreshAfter apart (windows_update.py:79, 89).           *)
THEOREM Spaced == Spec => SearchesAreSpaced
<1> DEFINE Step == search = "idle" /\ search' = "asking" =>
                       sinceSearch > RefreshAfter \/ excused
<1>1. ASSUME Inv, Next, search = "idle", search' = "asking"
      PROVE  sinceSearch > RefreshAfter \/ excused
  <2>1. Collect /\ SearchDue
    <3>1. ~(Tick \/ ClockForward \/ ClockBack \/ WindowsActs \/ BreaksOrRecovers)
      BY <1>1 DEF Tick, ClockForward, ClockBack, WindowsActs, BreaksOrRecovers,
         state
    <3>2. ~(Crash \/ Restart \/ Search)
      BY <1>1 DEF Crash, Restart, Search, SearchStores, SearchRaises, SearchEnds
    <3>3. Main => Collect /\ SearchDue
      BY <1>1 DEF Main, Collect, SearchThreadFails, NextReport, state
    <3> QED BY <1>1, <3>1, <3>2, <3>3 DEF Next
  <2>2. resultAge > RefreshAfter BY <2>1 DEF SearchDue
  <2>3. CASE excused BY <2>3
  <2>4. CASE resultAge <= sinceSearch
    <3>1. resultAge \in Int /\ sinceSearch \in Int /\ RefreshAfter \in Int
      BY <1>1, UpdateAssumption DEF Inv, Numbers, Ages, UpdateAssumption
    <3> QED BY <2>2, <2>4, <3>1
  <2> QED BY <1>1, <2>3, <2>4 DEF Inv, AgeIsTrue
<1>2. Inv /\ [Next]_vars => [Step]_vars BY <1>1
<1> QED BY <1>2, Inductive, PTL DEF Spec, SearchesAreSpaced

(* An age that a report has shown does not go out of the reports           *)
(* (windows_update.py:25, 77-79).                                          *)
THEOREM StaysKnown == Spec => AgeStaysKnown
<1> DEFINE Step == AgeKnown => AgeKnown' \/ at = "down"
<1>1. Inv /\ [Next]_vars => [Step]_vars BY KnownStep DEF Inv
<1> QED BY <1>1, Inductive, PTL DEF Spec, AgeStaysKnown
=============================================================================
