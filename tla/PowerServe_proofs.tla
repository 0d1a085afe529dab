------------------------- MODULE PowerServe_proofs -------------------------
(***************************************************************************)
(* Proofs about PowerServe for every SaveEvery, MaxGap, MaxClock and every *)
(* set of inodes and start modes.                                          *)
(***************************************************************************)
EXTENDS PowerServe, TLAPS

-----------------------------------------------------------------------------
(* Typing.                                                                 *)

LEMMA LoadType == TypeOK => Load \in Nat
  BY DEF TypeOK, TypeFiles, Load, Content, Empty, Torn

LEMMA InitType == Init => TypeOK
<1> SUFFICES ASSUME Init PROVE TypeOK
  OBVIOUS
<1>1. TypeControl
  BY DEF Init, TypeControl, Thread
<1>2. TypeMeter
  BY DEF Init, TypeMeter
<1>3. TypeFiles
  BY DEF Init, TypeFiles, Content
<1>4. TypeHistory
  BY DEF Init, TypeHistory
<1> QED
  BY <1>1, <1>2, <1>3, <1>4 DEF TypeOK

\* A thread keeps its own place in the program.
LEMMA ControlStep == TypeOK /\ [Next]_vars => TypeControl'
<1> SUFFICES ASSUME TypeOK, [Next]_vars PROVE TypeControl'
  OBVIOUS
<1> USE DEF TypeOK, TypeControl, Thread
<1>1. ASSUME NEW m \in Modes, Start(m) \/ StartReadFails(m) PROVE TypeControl'
  BY <1>1, ServeAssumption DEF ServeAssumption, Start, StartReadFails, StartWith
<1>2. CASE Crash \/ ExitForeground \/ ExitServe
  BY <1>2 DEF Crash, ExitForeground, ExitServe, Gone
<1>3. CASE Interrupt
  BY <1>3 DEF Interrupt, control
<1>4. CASE Signal \/ Get \/ StartLoop \/ EnterServeForever \/ LeaveServeForever
  BY <1>4 DEF Signal, Get, StartLoop, EnterServeForever, LeaveServeForever,
              control
<1>5. CASE HandlerStop \/ HandlerSpawn \/ ShutdownAsk \/ ShutdownWait
  BY <1>5 DEF HandlerStop, HandlerSpawn, ShutdownAsk, ShutdownWait
<1>6. ASSUME NEW d \in 1..MaxGap, Wake(d) PROVE TypeControl'
  BY <1>6 DEF Wake, control
<1>7. CASE LoopEnds \/ Add \/ SampleFails \/ Publish \/ PrintResult
  <2>1. CASE LoopEnds \/ Add \/ SampleFails \/ Publish
    BY <1>7, <2>1 DEF LoopEnds, Add, SampleFails, Publish, control
  <2>2. CASE PrintResult
    BY <1>7, <2>2 DEF PrintResult, control
  <2> QED BY <1>7, <2>1, <2>2
<1>8. ASSUME NEW t \in Thread, Save(t) PROVE TypeControl'
  <2>1. CASE Open(t) \/ Dump(t) \/ Close(t)
    BY <1>8, <2>1 DEF Open, Dump, Close, control
  <2>2. CASE Replace(t) \/ SaveFails(t)
    BY <1>8, <2>2 DEF Replace, SaveFails, SaveReturns, AfterSave, control
  <2> QED BY <1>8, <2>1, <2>2 DEF Save
<1>9. CASE UNCHANGED vars
  BY <1>9 DEF vars, control
<1> QED
  BY <1>1, <1>2, <1>3, <1>4, <1>5, <1>6, <1>7, <1>8, <1>9
     DEF Next, LoopStep, HandlerStep, MainStep, ShutdownStep

LEMMA MeterStep == TypeOK /\ [Next]_vars => TypeMeter'
<1> SUFFICES ASSUME TypeOK, [Next]_vars PROVE TypeMeter'
  OBVIOUS
<1> USE DEF TypeOK, TypeMeter
<1>1. ASSUME NEW m \in Modes, Start(m) \/ StartReadFails(m) PROVE TypeMeter'
  BY <1>1, LoadType DEF Start, StartReadFails, StartWith
<1>2. CASE Crash \/ ExitForeground \/ ExitServe
  BY <1>2 DEF Crash, ExitForeground, ExitServe, Gone
<1>3. CASE Interrupt
  BY <1>3 DEF Interrupt, history
<1>4. CASE Signal \/ Get \/ StartLoop \/ EnterServeForever \/ LeaveServeForever
  BY <1>4 DEF Signal, Get, StartLoop, EnterServeForever, LeaveServeForever,
              meter, history, Larger, NoReading
<1>5. CASE HandlerStop \/ HandlerSpawn \/ ShutdownAsk \/ ShutdownWait
  BY <1>5 DEF HandlerStop, HandlerSpawn, ShutdownAsk, ShutdownWait, meter,
              history
<1>6. ASSUME NEW d \in 1..MaxGap, Wake(d) PROVE TypeMeter'
  BY <1>6 DEF Wake, history
<1>7. CASE LoopEnds \/ Add \/ SampleFails \/ Publish \/ PrintResult
  BY <1>7 DEF LoopEnds, Add, SampleFails, Publish, PrintResult, meter, history,
              Larger
<1>8. ASSUME NEW t \in Thread, Save(t) PROVE TypeMeter'
  BY <1>8 DEF Save, Open, Dump, Close, Replace, SaveFails, SaveReturns, meter,
              history
<1>9. CASE UNCHANGED vars
  BY <1>9 DEF vars, meter, history
<1> QED
  BY <1>1, <1>2, <1>3, <1>4, <1>5, <1>6, <1>7, <1>8, <1>9
     DEF Next, LoopStep, HandlerStep, MainStep, ShutdownStep, Thread

LEMMA FilesStep == TypeOK /\ [Next]_vars => TypeFiles'
<1> SUFFICES ASSUME TypeOK, [Next]_vars PROVE TypeFiles'
  OBVIOUS
<1> USE DEF TypeOK, TypeFiles, TypeMeter, Thread, Content
<1>1. ASSUME NEW m \in Modes, Start(m) \/ StartReadFails(m) PROVE TypeFiles'
  BY <1>1 DEF Start, StartReadFails, StartWith, files
<1>2. CASE Crash \/ ExitForeground \/ ExitServe
  BY <1>2 DEF Crash, ExitForeground, ExitServe, Gone
<1>3. CASE Interrupt
  BY <1>3 DEF Interrupt
<1>4. CASE \/ Signal \/ Get \/ StartLoop \/ EnterServeForever
           \/ LeaveServeForever \/ LoopEnds \/ Add \/ SampleFails \/ Publish
           \/ PrintResult
  BY <1>4 DEF Signal, Get, StartLoop, EnterServeForever, LeaveServeForever,
              LoopEnds, Add, SampleFails, Publish, PrintResult, files
<1>5. CASE HandlerStop \/ HandlerSpawn \/ ShutdownAsk \/ ShutdownWait
  BY <1>5 DEF HandlerStop, HandlerSpawn, ShutdownAsk, ShutdownWait, files
<1>6. ASSUME NEW d \in 1..MaxGap, Wake(d) PROVE TypeFiles'
  BY <1>6 DEF Wake, files
<1>7. ASSUME NEW t \in Thread, Open(t) \/ Dump(t) PROVE TypeFiles'
  BY <1>7 DEF Open, Dump
<1>8. ASSUME NEW t \in Thread, Close(t) PROVE TypeFiles'
  BY <1>8 DEF Close, Overwrite
<1>9. ASSUME NEW t \in Thread, Replace(t) PROVE TypeFiles'
  BY <1>9 DEF Replace, SaveReturns
<1>10. ASSUME NEW t \in Thread, SaveFails(t) PROVE TypeFiles'
  BY <1>10 DEF SaveFails, SaveReturns
<1>11. CASE UNCHANGED vars
  BY <1>11 DEF vars, files
<1> QED
  BY <1>1, <1>2, <1>3, <1>4, <1>5, <1>6, <1>7, <1>8, <1>9, <1>10, <1>11
     DEF Next, LoopStep, HandlerStep, MainStep, ShutdownStep, Save

LEMMA HistoryStep == TypeOK /\ [Next]_vars => TypeHistory'
<1> SUFFICES ASSUME TypeOK, [Next]_vars PROVE TypeHistory'
  OBVIOUS
<1> USE DEF TypeOK, TypeHistory
<1>1. ASSUME NEW m \in Modes, Start(m) \/ StartReadFails(m) PROVE TypeHistory'
  BY <1>1 DEF Start, StartReadFails, StartWith
<1>2. CASE Crash \/ ExitForeground \/ ExitServe
  BY <1>2 DEF Crash, ExitForeground, ExitServe, Gone
<1>3. CASE \/ Interrupt \/ Signal \/ Get \/ StartLoop \/ EnterServeForever
           \/ LeaveServeForever \/ LoopEnds \/ Add \/ SampleFails \/ Publish
           \/ PrintResult
  BY <1>3 DEF Interrupt, Signal, Get, StartLoop, EnterServeForever,
              LeaveServeForever, LoopEnds, Add, SampleFails, Publish,
              PrintResult, history
<1>4. CASE HandlerStop \/ HandlerSpawn \/ ShutdownAsk \/ ShutdownWait
  BY <1>4 DEF HandlerStop, HandlerSpawn, ShutdownAsk, ShutdownWait, history
<1>5. ASSUME NEW d \in 1..MaxGap, Wake(d) PROVE TypeHistory'
  BY <1>5 DEF Wake, history
<1>6. ASSUME NEW t \in Thread, Save(t) PROVE TypeHistory'
  BY <1>6 DEF Save, Open, Dump, Close, Replace, SaveFails, history
<1>7. CASE UNCHANGED vars
  BY <1>7 DEF vars, history
<1> QED
  BY <1>1, <1>2, <1>3, <1>4, <1>5, <1>6, <1>7
     DEF Next, LoopStep, HandlerStep, MainStep, ShutdownStep, Thread

LEMMA NextType == TypeOK /\ [Next]_vars => TypeOK'
  BY ControlStep, MeterStep, FilesStep, HistoryStep DEF TypeOK

(* Every variable keeps its type, whatever the constants.                  *)
THEOREM Typing == Spec => []TypeOK
<1>1. Init => TypeOK
  BY InitType
<1>2. TypeOK /\ [Next]_vars => TypeOK'
  BY NextType
<1> QED
  BY <1>1, <1>2, PTL DEF Spec

-----------------------------------------------------------------------------
(* Who touches the files.                                                  *)

\* No file changes and no thread enters or leaves a save.
Quiet ==
    /\ UNCHANGED <<files, overlap>>
    /\ \A t \in Thread : \A p \in {"dump", "close", "replace"} :
            pc'[t] = p <=> pc[t] = p

LEMMA FileSteps ==
  ASSUME TypeOK, Places, [Next]_vars
  PROVE  (\E t \in Thread : Save(t)) \/ Interrupt \/ Gone \/ Quiet
<1> USE DEF TypeOK, TypeControl, Thread, Places, Quiet
<1>1. ASSUME NEW m \in Modes, Start(m) \/ StartReadFails(m) PROVE Quiet
  BY <1>1 DEF Start, StartReadFails, StartWith
<1>2. CASE Crash \/ ExitForeground \/ ExitServe
  BY <1>2 DEF Crash, ExitForeground, ExitServe
<1>3. ASSUME Signal \/ Get \/ StartLoop \/ EnterServeForever \/ LeaveServeForever
      PROVE  Quiet
  <2>1. CASE Signal \/ StartLoop
    BY <1>3, <2>1 DEF Signal, StartLoop, history
  <2>2. CASE Get \/ EnterServeForever \/ LeaveServeForever
    BY <1>3, <2>2 DEF Get, EnterServeForever, LeaveServeForever, history
  <2> QED BY <1>3, <2>1, <2>2
<1>4. ASSUME LoopEnds \/ Add \/ SampleFails \/ Publish \/ PrintResult
      PROVE  Quiet
  BY <1>4 DEF LoopEnds, Add, SampleFails, Publish, PrintResult, history
<1>5. ASSUME HandlerStop \/ HandlerSpawn \/ ShutdownAsk \/ ShutdownWait
      PROVE  Quiet
  BY <1>5 DEF HandlerStop, HandlerSpawn, ShutdownAsk, ShutdownWait, history
<1>6. ASSUME NEW d \in 1..MaxGap, Wake(d) PROVE Quiet
  BY <1>6 DEF Wake, history
<1>7. ASSUME UNCHANGED vars PROVE Quiet
  BY <1>7 DEF vars, history
<1> QED
  BY <1>1, <1>2, <1>3, <1>4, <1>5, <1>6, <1>7
     DEF Next, LoopStep, HandlerStep, MainStep, ShutdownStep

-----------------------------------------------------------------------------
(* The inductive invariant, part by part.                                  *)

LEMMA PlacesStep == TypeOK /\ Places /\ [Next]_vars => Places'
<1> SUFFICES ASSUME TypeOK, Places, [Next]_vars PROVE Places'
  OBVIOUS
<1> USE ServeAssumption
    DEF ServeAssumption, TypeOK, TypeControl, TypeMeter, Thread, Places
<1>1. ASSUME NEW m \in Modes, Start(m) \/ StartReadFails(m) PROVE Places'
  BY <1>1 DEF Start, StartReadFails, StartWith
<1>2. CASE Crash \/ ExitForeground \/ ExitServe
  BY <1>2 DEF Crash, ExitForeground, ExitServe, Gone
<1>3. CASE Interrupt
  BY <1>3 DEF Interrupt, control, history
<1>4. CASE Signal \/ StartLoop
  BY <1>4 DEF Signal, StartLoop, meter, history
<1>5. CASE Get \/ EnterServeForever \/ LeaveServeForever
  BY <1>5 DEF Get, EnterServeForever, LeaveServeForever, control, meter, history
<1>6. CASE HandlerStop \/ HandlerSpawn \/ ShutdownAsk \/ ShutdownWait
  BY <1>6 DEF HandlerStop, HandlerSpawn, ShutdownAsk, ShutdownWait, meter,
              history
<1>7. ASSUME NEW d \in 1..MaxGap, Wake(d) PROVE Places'
  BY <1>7 DEF Wake, control, history
<1>8. CASE LoopEnds \/ Add \/ SampleFails \/ Publish
  <2>1. CASE LoopEnds \/ Publish
    BY <2>1 DEF LoopEnds, Publish, control, meter, history
  <2>2. CASE Add
    BY <2>2 DEF Add, control, history
  <2>3. CASE SampleFails
    BY <2>3 DEF SampleFails, control, history
  <2> QED BY <1>8, <2>1, <2>2, <2>3
<1>9. CASE PrintResult
  BY <1>9 DEF PrintResult, control, meter
<1>10. ASSUME NEW t \in Thread, Save(t) PROVE Places'
  <2>1. CASE Open(t) \/ Dump(t) \/ Close(t)
    BY <1>10, <2>1 DEF Open, Dump, Close, control, meter, history
  <2>2. CASE Replace(t)
    BY <1>10, <2>2 DEF Replace, SaveReturns, AfterSave, control
  <2>3. CASE SaveFails(t)
    BY <1>10, <2>3 DEF SaveFails, SaveReturns, AfterSave, control
  <2> QED BY <1>10, <2>1, <2>2, <2>3 DEF Save
<1>11. CASE UNCHANGED vars
  BY <1>11 DEF vars, control, meter, history
<1> QED
  BY <1>1, <1>2, <1>3, <1>4, <1>5, <1>6, <1>7, <1>8, <1>9, <1>10, <1>11
     DEF Next, LoopStep, HandlerStep, MainStep, ShutdownStep

LEMMA NamesStep ==
  TypeOK /\ Places /\ Names /\ [Next]_vars => Names'
<1> SUFFICES ASSUME TypeOK, Places, Names, [Next]_vars PROVE Names'
  OBVIOUS
<1> USE ServeAssumption
    DEF ServeAssumption, TypeOK, TypeControl, TypeFiles, Thread, Names
<1>1. CASE Quiet
  BY <1>1 DEF Quiet, files
<1>2. CASE Gone
  BY <1>2 DEF Gone
<1>3. CASE Interrupt
  BY <1>3 DEF Interrupt, Places
<1>4. ASSUME NEW t \in Thread, Save(t) PROVE Names'
  <2>1. CASE Open(t)
    BY <1>4, <2>1 DEF Open, InUse
  <2>2. CASE Dump(t) \/ Close(t)
    BY <1>4, <2>2 DEF Dump, Close
  <2>3. CASE Replace(t) \/ SaveFails(t)
    BY <1>4, <2>3 DEF Replace, SaveFails, SaveReturns, AfterSave
  <2> QED BY <1>4, <2>1, <2>2, <2>3 DEF Save
<1> QED
  BY <1>1, <1>2, <1>3, <1>4, FileSteps

LEMMA OneSaverStep ==
  TypeOK /\ Places /\ Names /\ OneSaver /\ [Next]_vars => OneSaver'
<1> SUFFICES ASSUME TypeOK, Places, Names, OneSaver, [Next]_vars, ~overlap'
             PROVE  OneSaver'
  BY DEF OneSaver
<1> USE ServeAssumption
    DEF ServeAssumption, TypeOK, TypeControl, TypeFiles, TypeHistory, Thread,
        Names, OneSaver, Saving
<1>1. CASE Quiet
  BY <1>1 DEF Quiet, files
<1>2. CASE Gone
  BY <1>2 DEF Gone
<1>3. CASE Interrupt
  BY <1>3 DEF Interrupt, Places
<1>4. ASSUME NEW t \in Thread, Save(t) PROVE OneSaver'
  <2>1. CASE Open(t)
    <3>1. /\ ~overlap
          /\ \A u \in Thread \ {t} : ~Saving(u)
      BY <2>1 DEF Open
    <3>2. /\ pc'[t] = "dump" /\ fd'[t] = dir'.tmp /\ content'[fd'[t]] = Empty
          /\ \A u \in Thread \ {t} : pc'[u] = pc[u]
      BY <2>1 DEF Open
    <3> QED BY <3>1, <3>2
  <2>2. CASE Dump(t)
    BY <1>4, <2>2 DEF Dump, history
  <2>3. CASE Close(t)
    BY <1>4, <2>3 DEF Close, Overwrite, history
  <2>4. CASE Replace(t)
    BY <1>4, <2>4 DEF Replace, SaveReturns, AfterSave
  <2>5. CASE SaveFails(t)
    BY <1>4, <2>5 DEF SaveFails, SaveReturns, AfterSave
  <2> QED BY <1>4, <2>1, <2>2, <2>3, <2>4, <2>5 DEF Save
<1> QED
  BY <1>1, <1>2, <1>3, <1>4, FileSteps

LEMMA IntactStep ==
  TypeOK /\ Places /\ Names /\ OneSaver /\ IntactUnlessOverlap /\ [Next]_vars
    => IntactUnlessOverlap'
<1> SUFFICES ASSUME TypeOK, Places, Names, OneSaver, IntactUnlessOverlap,
                    [Next]_vars, ~overlap'
             PROVE  IntactUnlessOverlap'
  BY DEF IntactUnlessOverlap
<1> USE ServeAssumption
    DEF ServeAssumption, TypeOK, TypeControl, TypeFiles, TypeHistory, Thread,
        Names, OneSaver, Saving, IntactUnlessOverlap
<1>1. CASE Quiet
  BY <1>1 DEF Quiet, files
<1>2. CASE Gone
  BY <1>2 DEF Gone
<1>3. CASE Interrupt
  BY <1>3 DEF Interrupt, Places, history
<1>4. ASSUME NEW t \in Thread, Save(t) PROVE IntactUnlessOverlap'
  <2>1. CASE Open(t)
    BY <1>4, <2>1 DEF Open, InUse
  <2>2. CASE Dump(t)
    BY <1>4, <2>2 DEF Dump, history
  <2>3. CASE Close(t)
    BY <1>4, <2>3 DEF Close, Overwrite, history
  <2>4. CASE Replace(t)
    BY <1>4, <2>4 DEF Replace, SaveReturns
  <2>5. CASE SaveFails(t)
    BY <1>4, <2>5 DEF SaveFails, SaveReturns
  <2> QED BY <1>4, <2>1, <2>2, <2>3, <2>4, <2>5 DEF Save
<1> QED
  BY <1>1, <1>2, <1>3, <1>4, FileSteps

\* Only a rename changes what a restart would load, to what the saver dumped.
LEMMA LoadMoves ==
  ASSUME TypeOK, Places, Names, OneSaver, [Next]_vars, ~overlap',
         ~\E t \in Thread : Replace(t)
  PROVE  Load' = Load
<1> USE ServeAssumption
    DEF ServeAssumption, TypeOK, TypeControl, TypeFiles, TypeHistory, Thread,
        Names, OneSaver, Load
<1>1. CASE Quiet
  BY <1>1 DEF Quiet, files
<1>2. CASE Gone
  BY <1>2 DEF Gone
<1>3. CASE Interrupt
  BY <1>3 DEF Interrupt, Places, history
<1>4. ASSUME NEW t \in Thread, Save(t) PROVE Load' = Load
  <2>1. CASE Open(t)
    BY <1>4, <2>1 DEF Open, InUse
  <2>2. CASE Dump(t)
    BY <1>4, <2>2 DEF Dump, history
  <2>3. CASE Close(t)
    BY <1>4, <2>3 DEF Close, history
  <2>4. CASE SaveFails(t)
    BY <1>4, <2>4 DEF SaveFails
  <2> QED BY <1>4, <2>1, <2>2, <2>3, <2>4 DEF Save
<1> QED
  BY <1>1, <1>2, <1>3, <1>4, FileSteps

LEMMA LoadSaved ==
  ASSUME TypeOK, Names, OneSaver, ~overlap, NEW t \in Thread, Replace(t)
  PROVE  Load' = buf[t]
<1>1. /\ dir.tmp \in Inode /\ dir.tmp # dir.state
      /\ content[dir.tmp] = buf[t] /\ buf[t] \in Nat
  BY DEF TypeOK, TypeFiles, Names, OneSaver, Replace
<1>2. dir'.state = dir.tmp /\ content'[dir.tmp] = content[dir.tmp]
  BY <1>1 DEF Replace
<1> QED
  BY <1>1, <1>2, ServeAssumption DEF ServeAssumption, Load

LEMMA PendingStep ==
  /\ TypeOK /\ Places /\ Names /\ OneSaver /\ Pending
  /\ [Next]_vars
  => Pending'
<1> SUFFICES ASSUME TypeOK, Places, Names, OneSaver, Pending, [Next]_vars
             PROVE  Pending'
  OBVIOUS
<1>a. Load \in Nat
  BY LoadType
<1>b. ASSUME ~overlap', ~\E t \in Thread : Replace(t) PROVE Load' = Load
  BY <1>b, LoadMoves
<1> USE <1>a, <1>b
    DEF TypeOK, TypeControl, TypeMeter, TypeFiles, TypeHistory, Thread, Pending
<1>1. ASSUME NEW m \in Modes, Start(m) \/ StartReadFails(m) PROVE Pending'
  BY <1>1 DEF Start, StartReadFails, StartWith, Load, files
<1>2. CASE Crash \/ ExitForeground \/ ExitServe
  BY <1>2 DEF Crash, ExitForeground, ExitServe, Gone
<1>3. CASE Interrupt
  BY <1>3 DEF Interrupt, Places, Replace, control, history
<1>4. CASE \/ Signal \/ StartLoop \/ Get \/ EnterServeForever
           \/ LeaveServeForever \/ HandlerStop \/ HandlerSpawn \/ ShutdownAsk
           \/ ShutdownWait
  <2>1. UNCHANGED <<meter, files, overlap, loadFailed>>
    BY <1>4 DEF Signal, StartLoop, Get, EnterServeForever, LeaveServeForever,
                HandlerStop, HandlerSpawn, ShutdownAsk, ShutdownWait, history
  <2>2. \A t \in Thread : pc'[t] \in {"close", "replace"} => pc[t] = pc'[t]
    BY <1>4 DEF Signal, StartLoop, Get, EnterServeForever, LeaveServeForever,
                HandlerStop, HandlerSpawn, ShutdownAsk, ShutdownWait, control
  <2>3. main' # "down" => main # "down"
    BY <1>4 DEF Signal, StartLoop, Get, EnterServeForever, LeaveServeForever,
                HandlerStop, HandlerSpawn, ShutdownAsk, ShutdownWait, control
  <2>4. Load' = Load
    BY <2>1 DEF Load, files
  <2> QED BY <2>1, <2>2, <2>3, <2>4 DEF meter, files
<1>5. ASSUME NEW d \in 1..MaxGap, Wake(d) PROVE Pending'
  BY <1>5 DEF Wake, Places, Load, control, files, history
<1>6. CASE Add
  BY <1>6 DEF Add, Load, control, files, history
<1>7. CASE LoopEnds \/ SampleFails \/ Publish
  <2>1. CASE LoopEnds \/ Publish
    BY <2>1 DEF LoopEnds, Publish, Load, control, meter, files, history
  <2>2. CASE SampleFails
    <3>1. /\ gap' = 0 /\ pc'["handler"] = pc["handler"]
          /\ pc'["loop"] \notin {"close", "replace"}
          /\ UNCHANGED <<main, energy, buf, overlap, loadFailed>>
      BY <2>2 DEF SampleFails, control, files, history
    <3>2. Load' = Load
      BY <2>2 DEF SampleFails, Load, files
    <3>3. pc'["handler"] \in {"close", "replace"} =>
            /\ buf'["handler"] <= energy'
            /\ energy' + gap' - buf'["handler"] <= MaxGap
      BY <3>1, ServeAssumption DEF ServeAssumption
    <3> QED BY <3>1, <3>2, <3>3
  <2> QED BY <1>7, <2>1, <2>2
<1>8. CASE PrintResult
  BY <1>8 DEF PrintResult, Load, control, meter, files
<1>9. ASSUME NEW t \in Thread, Save(t) PROVE Pending'
  <2>1. CASE Open(t)
    BY <1>9, <2>1 DEF Open, Replace, control, meter
  <2>2. CASE Dump(t)
    BY <1>9, <2>2 DEF Dump, Replace, Places, Load, control, meter, history
  <2>3. CASE Close(t)
    BY <1>9, <2>3 DEF Close, Replace, control, meter, history
  <2>4. CASE Replace(t)
    BY <1>9, <2>4, LoadSaved DEF Replace, SaveReturns, AfterSave, control,
                                 OneSaver, Saving
  <2>5. CASE SaveFails(t)
    BY <1>9, <2>5, LoadMoves DEF SaveFails, SaveReturns, AfterSave, control,
                                 Replace
  <2> QED BY <1>9, <2>1, <2>2, <2>3, <2>4, <2>5 DEF Save
<1>10. CASE UNCHANGED vars
  BY <1>10 DEF vars, Load, control, meter, files, history
<1> QED
  BY <1>1, <1>2, <1>3, <1>4, <1>5, <1>6, <1>7, <1>8, <1>9, <1>10
     DEF Next, LoopStep, HandlerStep, MainStep, ShutdownStep

\* Overlap and a failed load are never forgotten.
LEMMA HistoryKept ==
  TypeOK /\ [Next]_vars => (overlap => overlap') /\ (loadFailed => loadFailed')
<1> SUFFICES ASSUME TypeOK, [Next]_vars
             PROVE  (overlap => overlap') /\ (loadFailed => loadFailed')
  OBVIOUS
<1>1. ASSUME NEW m \in Modes, Start(m) \/ StartReadFails(m)
      PROVE  (overlap => overlap') /\ (loadFailed => loadFailed')
  BY <1>1 DEF Start, StartReadFails, StartWith
<1>2. CASE Crash \/ ExitForeground \/ ExitServe
  BY <1>2 DEF Crash, ExitForeground, ExitServe, Gone
<1>3. ASSUME NEW t \in Thread, Save(t)
      PROVE  (overlap => overlap') /\ (loadFailed => loadFailed')
  <2>1. CASE Open(t)
    BY <2>1, Zenon DEF Open
  <2>2. CASE Dump(t) \/ Close(t) \/ Replace(t) \/ SaveFails(t)
    BY <2>2 DEF Dump, Close, Replace, SaveFails, history
  <2> QED BY <1>3, <2>1, <2>2 DEF Save
<1>4. CASE \/ Interrupt \/ Signal \/ Get \/ StartLoop \/ EnterServeForever
           \/ LeaveServeForever \/ HandlerStop \/ HandlerSpawn \/ ShutdownAsk
           \/ ShutdownWait \/ LoopEnds \/ Add \/ SampleFails \/ Publish
           \/ PrintResult \/ (\E d \in 1..MaxGap : Wake(d))
  BY <1>4 DEF Interrupt, Signal, Get, StartLoop, EnterServeForever,
              LeaveServeForever, HandlerStop, HandlerSpawn, ShutdownAsk,
              ShutdownWait, LoopEnds, Add, SampleFails, Publish, PrintResult,
              Wake, history
<1>5. CASE UNCHANGED vars
  BY <1>5 DEF vars, history
<1> QED
  BY <1>1, <1>2, <1>3, <1>4, <1>5
     DEF Next, LoopStep, HandlerStep, MainStep, ShutdownStep, Thread

LEMMA UnsavedStep ==
  /\ TypeOK /\ Places /\ Names /\ OneSaver /\ Pending /\ Unsaved
  /\ [Next]_vars
  => Unsaved'
<1> SUFFICES ASSUME TypeOK, Places, Names, OneSaver, Pending, Unsaved,
                    [Next]_vars, ~overlap'
             PROVE  Unsaved'
  BY DEF Unsaved
<1>a. ~overlap
  BY HistoryKept
<1>b. /\ Load \in Nat
      /\ energy \in Nat /\ gap \in Nat /\ clock \in Nat /\ lastSave \in Nat
  BY LoadType DEF TypeOK, TypeMeter
<1>c. SaveEvery \in Nat /\ SaveEvery > 0 /\ MaxGap \in Nat /\ MaxGap > 0
  BY ServeAssumption DEF ServeAssumption
<1>d. ASSUME ~\E t \in Thread : Replace(t) PROVE Load' = Load
  BY <1>d, LoadMoves
<1>e. /\ handlerSaved => energy + gap - Load <= MaxGap
      /\ Tracked /\ main # "down" =>
            IF pc["loop"] \in InSave
            THEN energy - Load <= AtRisk
            ELSE /\ energy - Load < SaveEvery
                 /\ energy + gap - Load <= clock - lastSave
  BY <1>a DEF Unsaved
<1> DEFINE Goal ==
      /\ handlerSaved' => energy' + gap' - Load' <= MaxGap
      /\ Tracked' /\ main' # "down" =>
            IF pc'["loop"] \in InSave
            THEN energy' - Load' <= AtRisk
            ELSE /\ energy' - Load' < SaveEvery
                 /\ energy' + gap' - Load' <= clock' - lastSave'
<1>f. SUFFICES Goal
  BY DEF Unsaved, AtRisk, InSave
<1>1. CASE \E m \in Modes : Start(m) \/ StartReadFails(m)
  <2>1. /\ Load' = Load /\ clock' = clock /\ lastSave' = clock /\ gap' = 0
        /\ pc'["loop"] \notin InSave
    BY <1>1 DEF Start, StartReadFails, StartWith, Load, files, Places, Thread,
                InSave
  <2>2. CASE energy' = Load
    BY <2>1, <2>2, <1>b, <1>c
  <2>3. CASE energy' = 0
    BY <2>1, <2>3, <1>b, <1>c
  <2> QED BY <1>1, <2>2, <2>3 DEF Start, StartReadFails, StartWith
<1>2. CASE Crash \/ ExitForeground \/ ExitServe
  BY <1>2 DEF Crash, ExitForeground, ExitServe, Gone
<1>3. CASE Interrupt
  <2>1. /\ Load' = Load
        /\ energy' = energy /\ gap' = 0 /\ pc'["loop"] = "open"
        /\ handlerSaved' = handlerSaved /\ (Tracked' => Tracked)
        /\ main # "down"
    BY <1>3, <1>d DEF Interrupt, Replace, Places, Thread, Tracked, history,
                      TypeOK, TypeControl
  <2> QED BY <2>1, <1>b, <1>c, <1>e DEF AtRisk, InSave
<1>4. CASE \/ Signal \/ StartLoop \/ Get \/ EnterServeForever
           \/ LeaveServeForever \/ HandlerStop \/ HandlerSpawn \/ ShutdownAsk
           \/ ShutdownWait \/ LoopEnds \/ Publish \/ PrintResult
  <2>1. /\ UNCHANGED <<clock, gap, energy, lastSave, dir, content>>
        /\ UNCHANGED <<loadFailed, saveFailed, handlerSaved>>
    BY <1>4 DEF Signal, StartLoop, Get, EnterServeForever, LeaveServeForever,
                HandlerStop, HandlerSpawn, ShutdownAsk, ShutdownWait, LoopEnds,
                Publish, PrintResult, meter, files, history
  <2>2. main # "down" /\ main' # "down"
    BY <1>4 DEF Signal, StartLoop, Get, EnterServeForever, LeaveServeForever,
                HandlerStop, HandlerSpawn, ShutdownAsk, ShutdownWait, LoopEnds,
                Publish, PrintResult, control, Places, Thread, TypeOK,
                TypeControl
  <2>3. pc'["loop"] \in InSave => pc["loop"] \in InSave \/ pc["loop"] = "rest"
    BY <1>4 DEF Signal, StartLoop, Get, EnterServeForever, LeaveServeForever,
                HandlerStop, HandlerSpawn, ShutdownAsk, ShutdownWait, LoopEnds,
                Publish, PrintResult, control, InSave, TypeOK, TypeControl,
                Thread
  <2>4. pc["loop"] \in InSave => pc'["loop"] \in InSave
    BY <1>4 DEF Signal, StartLoop, Get, EnterServeForever, LeaveServeForever,
                HandlerStop, HandlerSpawn, ShutdownAsk, ShutdownWait, LoopEnds,
                Publish, PrintResult, control, InSave, TypeOK, TypeControl,
                Thread, Places
  <2>5. Load' = Load /\ (Tracked' <=> Tracked)
    BY <2>1 DEF Load, Tracked
  <2> QED BY <2>1, <2>2, <2>3, <2>4, <2>5, <1>b, <1>c, <1>e DEF AtRisk, InSave
<1>5. ASSUME NEW d \in 1..MaxGap, Wake(d) PROVE Goal
  <2>1. /\ ~handlerSaved /\ handlerSaved' = handlerSaved
        /\ gap = 0 /\ gap' = d /\ clock' = clock + d /\ energy' = energy
        /\ lastSave' = lastSave /\ main' = main
        /\ pc["loop"] = "wait" /\ pc'["loop"] = "add"
    BY <1>5 DEF Wake, Places, history, control, TypeOK, TypeControl, Thread
  <2>2. Load' = Load /\ (Tracked' <=> Tracked)
    BY <1>5 DEF Wake, Load, Tracked, history, files
  <2> QED BY <2>1, <2>2, <1>b, <1>c, <1>e, <1>5 DEF InSave
<1>6. CASE Add
  <2>1. /\ handlerSaved' = handlerSaved /\ gap <= MaxGap
        /\ gap' = 0 /\ clock' = clock /\ energy' = energy + gap
        /\ lastSave' = lastSave /\ main' = main
        /\ pc["loop"] = "add"
        /\ pc'["loop"] = IF clock - lastSave >= SaveEvery THEN "open" ELSE "rest"
    BY <1>6 DEF Add, SaveDue, Places, history, control, TypeOK, TypeControl,
                Thread
  <2>2. Load' = Load /\ (Tracked' <=> Tracked)
    BY <1>6 DEF Add, Load, Tracked, history, files
  <2>3. CASE clock - lastSave >= SaveEvery
    BY <2>1, <2>2, <2>3, <1>b, <1>c, <1>e DEF InSave, AtRisk
  <2>4. CASE ~(clock - lastSave >= SaveEvery)
    BY <2>1, <2>2, <2>4, <1>b, <1>c, <1>e DEF InSave
  <2> QED BY <2>3, <2>4
<1>7. CASE SampleFails
  <2>1. /\ handlerSaved' = handlerSaved
        /\ gap' = 0 /\ clock' = clock /\ energy' = energy
        /\ lastSave' = lastSave /\ main' = main
        /\ pc["loop"] \in {"add", "rest"}
        /\ pc'["loop"] \in {"wait", "open"}
    BY <1>7 DEF SampleFails, history, control, TypeOK, TypeControl, Thread
  <2>2. Load' = Load /\ (Tracked' <=> Tracked)
    BY <1>7 DEF SampleFails, Load, Tracked, history, files
  <2> QED BY <2>1, <2>2, <1>b, <1>c, <1>e DEF InSave, AtRisk
<1>8. ASSUME NEW t \in Thread, Open(t) \/ Dump(t) \/ Close(t) PROVE Goal
  <2>1. /\ UNCHANGED <<main, meter, loadFailed, saveFailed, handlerSaved>>
        /\ ~\E u \in Thread : pc'[u] # pc[u] /\ u # t
        /\ pc[t] \in InSave /\ pc'[t] \in InSave
    BY <1>8 DEF Open, Dump, Close, control, history, InSave, TypeOK,
                TypeControl, Thread
  <2>2. Load' = Load
    <3>1. CASE \E u \in Thread : Replace(u)
      BY <1>8, <3>1 DEF Open, Dump, Close, Replace, TypeOK, TypeFiles, TypeControl, SaveReturns
    <3> QED BY <3>1, <1>d
  <2>3. (Tracked' <=> Tracked) /\ (pc'["loop"] \in InSave <=> pc["loop"] \in InSave)
    BY <2>1 DEF Tracked, Thread
  <2> QED BY <2>1, <2>2, <2>3, <1>e DEF meter, AtRisk, InSave
<1>9. ASSUME NEW t \in Thread, Replace(t) PROVE Goal
  <2>1. Load' = buf[t] /\ buf[t] \in Nat
    BY <1>9, <1>a, LoadSaved DEF TypeOK, TypeFiles
  <2>2. UNCHANGED <<main, energy, gap, clock, loadFailed>>
    BY <1>9 DEF Replace, control
  <2>3. CASE t = "loop"
    <3>1. /\ buf[t] = energy /\ gap = 0
          /\ lastSave' = clock \/ pc'["loop"] = "exit"
      BY <1>9, <2>3 DEF Replace, SaveReturns, AfterSave, Pending, Places,
                        TypeOK, TypeControl, Thread
    <3> QED BY <3>1, <2>1, <2>2, <1>b, <1>c DEF AtRisk, InSave
  <2>4. CASE t = "handler"
    <3>1. /\ energy + gap - buf[t] <= MaxGap
          /\ ~loadFailed /\ main # "down" => Load <= buf[t]
          /\ pc'["loop"] = pc["loop"] /\ lastSave' = lastSave
          /\ handlerSaved'
          /\ Tracked' => Tracked
          /\ Tracked' => ~loadFailed
      BY <1>9, <2>4, <1>a DEF Replace, SaveReturns, AfterSave, Pending, Tracked,
                        TypeOK, TypeControl, TypeHistory, Thread
    <3> QED BY <3>1, <2>1, <2>2, <1>b, <1>c, <1>e DEF AtRisk
  <2> QED BY <2>3, <2>4 DEF Thread
<1>10. ASSUME NEW t \in Thread, SaveFails(t), ~\E u \in Thread : Replace(u)
       PROVE Goal
  <2>1. /\ UNCHANGED <<main, energy, gap, clock, loadFailed, handlerSaved>>
        /\ ~Tracked'
    BY <1>10 DEF SaveFails, control, Tracked
  <2> QED BY <2>1, <1>d, <1>10, <1>e
<1>11. CASE UNCHANGED vars
  <2>1. /\ UNCHANGED <<main, pc, clock, gap, energy, lastSave, dir, content>>
        /\ UNCHANGED <<loadFailed, saveFailed, handlerSaved>>
    BY <1>11 DEF vars, control, meter, files, history
  <2>2. Load' = Load /\ (Tracked' <=> Tracked)
    BY <2>1 DEF Load, Tracked
  <2> QED BY <2>1, <2>2, <1>e DEF AtRisk, InSave
<1> QED
  BY <1>1, <1>2, <1>3, <1>4, <1>5, <1>6, <1>7, <1>8, <1>9, <1>10, <1>11
     DEF Next, LoopStep, HandlerStep, MainStep, ShutdownStep, Save, Thread

LEMMA ReadingsStep ==
  /\ TypeOK /\ Places /\ Names /\ OneSaver /\ Pending /\ Unsaved /\ Readings
  /\ [Next]_vars
  => Readings'
<1> SUFFICES ASSUME TypeOK, Places, Names, OneSaver, Pending, Unsaved,
                    Readings, [Next]_vars,
                    ~overlap', ~loadFailed', saveFailed' = "never"
             PROVE  shown' - Load' < SaveEvery /\ latest' - Load' < SaveEvery
  BY DEF Readings
<1>a. ~overlap /\ ~loadFailed
  BY HistoryKept
<1>b. /\ Load \in Nat /\ shown \in Nat /\ latest \in Nat \cup {-1}
      /\ energy \in Nat /\ gap \in Nat
  BY LoadType DEF TypeOK, TypeMeter, NoReading
<1>c. SaveEvery \in Nat /\ SaveEvery > 0
  BY ServeAssumption DEF ServeAssumption
<1>d. ASSUME ~\E t \in Thread : Replace(t) PROVE Load' = Load
  BY <1>d, LoadMoves
<1>e. saveFailed = "never" =>
        /\ shown - Load < SaveEvery /\ latest - Load < SaveEvery
        /\ pc["loop"] = "rest" => energy - Load < SaveEvery
  BY <1>a DEF Readings, Unsaved, Tracked, Places, InSave, Thread
<1> DEFINE Goal == shown' - Load' < SaveEvery /\ latest' - Load' < SaveEvery
<1>1. CASE \E m \in Modes : Start(m) \/ StartReadFails(m)
  <2>1. /\ Load' = Load /\ shown' = shown /\ latest' = latest
        /\ saveFailed = "never"
    BY <1>1 DEF Start, StartReadFails, StartWith, Load, files
  <2> QED BY <2>1, <1>e
<1>2. CASE Crash \/ ExitForeground \/ ExitServe
  <2>1. /\ Load' = Load /\ shown' = shown /\ latest' = -1
        /\ saveFailed = "never"
    BY <1>2 DEF Crash, ExitForeground, ExitServe, Gone, Load, NoReading
  <2> QED BY <2>1, <1>b, <1>c, <1>e
<1>3. CASE Interrupt
  <2>1. Load' = Load
    BY <1>3, <1>d DEF Interrupt, Replace, Places, TypeOK, TypeControl, Thread
  <2> QED BY <1>3, <2>1, <1>e DEF Interrupt, history
<1>4. CASE Get \/ PrintResult \/ Publish
  <2>1. Load' = Load /\ saveFailed = "never"
    BY <1>4 DEF Get, PrintResult, Publish, Load, files, history
  <2>2. CASE Get
    BY <2>1, <2>2, <1>b, <1>c, <1>e DEF Get, Larger
  <2>3. CASE PrintResult
    BY <2>1, <2>3, <1>b, <1>c, <1>e DEF PrintResult, Larger
  <2>4. CASE Publish
    BY <2>1, <2>4, <1>b, <1>c, <1>e DEF Publish, history
  <2> QED BY <1>4, <2>2, <2>3, <2>4
<1>5. CASE \/ Signal \/ StartLoop \/ EnterServeForever \/ LeaveServeForever
           \/ HandlerStop \/ HandlerSpawn \/ ShutdownAsk \/ ShutdownWait
           \/ LoopEnds \/ Add \/ SampleFails \/ (\E d \in 1..MaxGap : Wake(d))
  <2>1. UNCHANGED <<shown, latest, dir, content, saveFailed>>
    BY <1>5 DEF Signal, StartLoop, EnterServeForever, LeaveServeForever,
                HandlerStop, HandlerSpawn, ShutdownAsk, ShutdownWait, LoopEnds,
                Add, SampleFails, Wake, files, history
  <2>2. Load' = Load
    BY <2>1 DEF Load
  <2> QED BY <2>1, <2>2, <1>e
<1>6. ASSUME NEW t \in Thread, Save(t), ~\E u \in Thread : Replace(u)
      PROVE  Goal
  <2>1. UNCHANGED <<shown, latest, saveFailed>>
    BY <1>6 DEF Save, Open, Dump, Close, SaveFails, history
  <2> QED BY <2>1, <1>d, <1>6, <1>e
<1>7. ASSUME NEW t \in Thread, Replace(t) PROVE Goal
  <2>1. /\ shown' = shown /\ latest' = latest /\ saveFailed = "never"
        /\ pc[t] = "replace" /\ buf[t] \in Nat
    BY <1>7 DEF Replace, TypeOK, TypeFiles
  <2>2. Load' = buf[t]
    BY <1>7, <1>a, LoadSaved
  <2>3. Load <= buf[t]
    BY <2>1, <1>a, <1>7 DEF Pending
  <2> QED BY <2>1, <2>2, <2>3, <1>b, <1>c, <1>e
<1>8. CASE UNCHANGED vars
  <2>1. UNCHANGED <<shown, latest, dir, content, saveFailed>>
    BY <1>8 DEF vars, files, history
  <2> QED BY <2>1, <1>e DEF Load
<1> QED
  BY <1>1, <1>2, <1>3, <1>4, <1>5, <1>6, <1>7, <1>8
     DEF Next, LoopStep, HandlerStep, MainStep, ShutdownStep, Thread, Save

LEMMA InitInv == Init => IInv
<1> SUFFICES ASSUME Init PROVE IInv
  OBVIOUS
<1>1. TypeOK
  BY InitType
<1>2. Places /\ Names /\ OneSaver /\ IntactUnlessOverlap
  BY ServeAssumption
     DEF ServeAssumption, Init, Places, Names, OneSaver, IntactUnlessOverlap,
         Saving, Thread
<1>3. Load = 0
  BY DEF Init, Load
<1>4. Pending /\ Unsaved /\ Readings
  BY <1>3, ServeAssumption
     DEF ServeAssumption, Init, Pending, Unsaved, Readings, Thread, NoReading
<1> QED
  BY <1>1, <1>2, <1>4 DEF IInv

LEMMA NextInv == IInv /\ [Next]_vars => IInv'
  BY NextType, PlacesStep, NamesStep, OneSaverStep, IntactStep, PendingStep,
     UnsavedStep, ReadingsStep
     DEF IInv

THEOREM Inductive == Spec => []IInv
<1>1. Init => IInv
  BY InitInv
<1>2. IInv /\ [Next]_vars => IInv'
  BY NextInv
<1> QED
  BY <1>1, <1>2, PTL DEF Spec

-----------------------------------------------------------------------------
(* What follows from it.                                                   *)

(* As long as no two saves overlap, the state file always holds a number.  *)
THEOREM Intact == Spec => []IntactUnlessOverlap
<1>1. IInv => IntactUnlessOverlap
  BY DEF IInv
<1> QED
  BY <1>1, Inductive, PTL

(* No reading anyone was given is SaveEvery or more ahead of the file.     *)
THEOREM Survival == Spec => []ReadingsSurvive
<1>1. IInv => ReadingsSurvive
  BY DEF IInv, Readings, ReadingsSurvive
<1> QED
  BY <1>1, Inductive, PTL

(* After the handler's save a stop loses one sample at most.               *)
THEOREM Graceful == Spec => []GracefulLoss
<1>1. IInv => GracefulLoss
  <2> SUFFICES ASSUME IInv, handlerSaved, ~overlap
               PROVE  energy - Load <= MaxGap
    BY DEF GracefulLoss
  <2>1. energy + gap - Load <= MaxGap
    BY DEF IInv, Unsaved
  <2>2. energy \in Nat /\ gap \in Nat /\ Load \in Nat /\ MaxGap \in Nat
    BY LoadType, ServeAssumption DEF IInv, TypeOK, TypeMeter, ServeAssumption
  <2> QED BY <2>1, <2>2
<1> QED
  BY <1>1, Inductive, PTL

-----------------------------------------------------------------------------
(* PowerServe implements EnergyMeter.                                      *)

LEMMA WindowType == AtRisk \in Nat
  BY ServeAssumption DEF ServeAssumption, AtRisk

LEMMA MeterNextStep ==
  ASSUME IInv, [Next]_vars PROVE [Meter!Next]_(Meter!vars)
<1>a. IInv'
  BY NextInv
<1>b. /\ Load \in Nat /\ Load' \in Nat
      /\ energy \in Nat /\ energy' \in Nat
  <2>1. TypeOK /\ TypeOK'
    BY <1>a DEF IInv
  <2>2. Load \in Nat /\ energy \in Nat
    BY <2>1, LoadType DEF TypeOK, TypeMeter
  <2>3. Load' \in Nat
    BY <2>1 DEF TypeOK, TypeFiles, Load, Content, Empty, Torn
  <2>4. energy' \in Nat
    BY <2>1 DEF TypeOK, TypeMeter
  <2> QED BY <2>2, <2>3, <2>4
<1>c. SaveEvery \in Nat /\ SaveEvery > 0 /\ MaxGap \in Nat /\ MaxGap > 0
  BY ServeAssumption DEF ServeAssumption
<1>1. CASE overlap' \/ loadFailed'
  <2>1. Total' \in Nat /\ Failing' \in BOOLEAN
    BY <1>b DEF Total, Failing
  <2> QED BY <1>1, <1>b, <2>1, Zenon DEF Meter!Next, Meter!Spoil
<1>2. CASE ~overlap' /\ ~loadFailed'
  <2>a. /\ TypeOK /\ Places /\ Names /\ OneSaver /\ Pending /\ Unsaved
        /\ ~overlap /\ ~loadFailed
    BY <1>2, HistoryKept DEF IInv
  <2>b. ASSUME ~\E t \in Thread : Replace(t) PROVE Load' = Load
    BY <2>a, <2>b, <1>2, LoadMoves
  <2>c. (overlap \/ loadFailed) = (overlap' \/ loadFailed')
    BY <1>2, <2>a
  <2> DEFINE Stutter == Total' = Total /\ Load' = Load /\ Failing' = Failing
  <2>d. ASSUME Stutter PROVE UNCHANGED Meter!vars
    BY <2>c, <2>d DEF Meter!vars, Total, Failing
  <2>1. CASE \E m \in Modes : Start(m) \/ StartReadFails(m)
    <3>1. /\ main = "down" /\ main' # "down" /\ Load' = Load /\ energy' = Load
          /\ saveFailed' # "pending"
      BY <2>1, <1>2 DEF Start, StartReadFails, StartWith, Load, files
    <3> QED BY <3>1, <2>d DEF Total, Failing
  <2>2. CASE Gone
    <3>1. main' = "down" /\ Load' = Load
      BY <2>2 DEF Gone, Load
    <3> QED BY <3>1, <2>c DEF Meter!Next, Meter!Restart, Total, Failing
  <2>3. CASE \/ Interrupt \/ Signal \/ Get \/ StartLoop \/ EnterServeForever
             \/ LeaveServeForever \/ HandlerStop \/ HandlerSpawn
             \/ ShutdownAsk \/ ShutdownWait \/ LoopEnds \/ SampleFails
             \/ Publish \/ PrintResult \/ (\E d \in 1..MaxGap : Wake(d))
    <3>1. energy' = energy /\ saveFailed' = saveFailed
      BY <2>3 DEF Interrupt, Signal, Get, StartLoop, EnterServeForever,
                  LeaveServeForever, HandlerStop, HandlerSpawn, ShutdownAsk,
                  ShutdownWait, LoopEnds, SampleFails, Publish, PrintResult,
                  Wake, meter, history
    <3>2. main' # "down" /\ main # "down"
      BY <2>3, <2>a DEF Interrupt, Signal, Get, StartLoop, EnterServeForever,
                  LeaveServeForever, HandlerStop, HandlerSpawn, ShutdownAsk,
                  ShutdownWait, LoopEnds, SampleFails, Publish, PrintResult,
                  Wake, control, Places, Thread
    <3>3. Load' = Load
      <4>1. CASE Interrupt
        BY <4>1, <2>a, <2>b DEF Interrupt, Replace, Places, TypeOK, TypeControl,
                                Thread
      <4>2. CASE ~Interrupt
        <5>1. UNCHANGED <<dir, content>>
          BY <4>2, <2>3 DEF Signal, Get, StartLoop, EnterServeForever,
                  LeaveServeForever, HandlerStop, HandlerSpawn, ShutdownAsk,
                  ShutdownWait, LoopEnds, SampleFails, Publish, PrintResult,
                  Wake, files
        <5> QED BY <5>1 DEF Load
      <4> QED BY <4>1, <4>2
    <3> QED BY <3>1, <3>2, <3>3, <2>d DEF Total, Failing
  <2>4. CASE Add
    <3>1. /\ energy' = energy + gap /\ saveFailed' = saveFailed /\ main' = main
          /\ main # "down" /\ Load' = Load /\ gap \in Nat
          /\ pc["loop"] = "add"
      BY <2>4, <2>a DEF Add, control, files, history, Load, Places, Thread,
                        TypeOK, TypeMeter
    <3>2. saveFailed = "pending" \/ energy + gap - Load <= AtRisk
      <4>1. CASE handlerSaved
        BY <4>1, <2>a, <1>b, <1>c, <3>1 DEF Unsaved, AtRisk
      <4>2. CASE ~handlerSaved /\ saveFailed # "pending"
        <5>1. Tracked
          BY <4>2, <2>a DEF Tracked, TypeOK, TypeHistory
        <5>2. energy - Load < SaveEvery /\ gap <= MaxGap
          BY <5>1, <2>a, <3>1 DEF Unsaved, InSave, Places
        <5> QED BY <5>2, <1>b, <1>c, <3>1 DEF AtRisk
      <4> QED BY <4>1, <4>2
    <3>3. /\ Total' \in Nat /\ Total' >= Total
          /\ Failing \/ Total' - Load <= AtRisk
          /\ Failing' = Failing
      BY <3>1, <3>2, <1>b DEF Total, Failing
    <3> QED BY <3>1, <3>3, <2>c DEF Meter!Next, Meter!Measure, Total, Failing
  <2>5. ASSUME NEW t \in Thread, Open(t) \/ Dump(t) \/ Close(t)
        PROVE  UNCHANGED Meter!vars
    <3>1. energy' = energy /\ saveFailed' = saveFailed /\ main' = main
      BY <2>5 DEF Open, Dump, Close, control, meter, history
    <3>2. ~\E u \in Thread : Replace(u)
      BY <2>5, <2>a DEF Open, Dump, Close, Replace, SaveReturns, AfterSave,
                        TypeOK, TypeControl, TypeFiles, Thread
    <3> QED BY <3>1, <3>2, <2>b, <2>d DEF Total, Failing
  <2>6. ASSUME NEW t \in Thread, Replace(t) PROVE Meter!Persist
    <3>1. /\ Load' = buf[t] /\ energy' = energy /\ main' = main /\ main # "down"
          /\ saveFailed' # "pending" /\ pc[t] = "replace" /\ buf[t] \in Nat
      BY <2>6, <2>a, LoadSaved DEF Replace, control, TypeOK, TypeFiles,
                                   TypeHistory, Places, Thread
    <3>2. Load <= buf[t]
      BY <3>1, <2>a DEF Pending
    <3>3. buf[t] <= energy /\ energy - buf[t] <= AtRisk
      <4>1. CASE t = "loop"
        BY <4>1, <3>1, <2>a, <1>b, <1>c DEF Pending, AtRisk
      <4>2. CASE t = "handler"
        <5>1. /\ buf[t] <= energy /\ energy + gap - buf[t] <= MaxGap
              /\ gap \in Nat
          BY <4>2, <3>1, <2>a DEF Pending, TypeOK, TypeMeter
        <5> QED BY <5>1, <3>1, <1>b, <1>c DEF AtRisk
      <4> QED BY <4>1, <4>2 DEF Thread
    <3> QED BY <3>1, <3>2, <3>3, <2>c DEF Meter!Persist, Total, Failing
  <2>7. ASSUME NEW t \in Thread, SaveFails(t), ~\E u \in Thread : Replace(u)
        PROVE  Meter!PersistFails
    <3>1. /\ energy' = energy /\ main' = main /\ main # "down"
          /\ saveFailed' = "pending" /\ Load' = Load
      BY <2>7, <2>a, <2>b DEF SaveFails, control, Places, Thread
    <3> QED BY <3>1, <2>c DEF Meter!PersistFails, Total, Failing
  <2>8. CASE UNCHANGED vars
    <3>1. UNCHANGED <<energy, main, saveFailed, dir, content>>
      BY <2>8 DEF vars, control, meter, files, history
    <3> QED BY <3>1, <2>d DEF Total, Failing, Load
  <2> QED
    BY <2>1, <2>2, <2>3, <2>4, <2>5, <2>6, <2>7, <2>8
       DEF Next, LoopStep, HandlerStep, MainStep, ShutdownStep, Save, Thread,
           Crash, ExitForeground, ExitServe, Meter!Next
<1> QED
  BY <1>1, <1>2

(* The total a restart loads never falls, a restart resumes from it, and   *)
(* what is not on disk stays within AtRisk while saves work: unless two    *)
(* saves overlapped or a start could not read the file.                    *)
THEOREM Refinement == Spec => MeterSpec
<1>1. Init => Meter!Init
  BY DEF Init, Meter!Init, Load, Total, Failing
<1>2. IInv /\ [Next]_vars => [Meter!Next]_(Meter!vars)
  BY MeterNextStep
<1> QED
  BY <1>1, <1>2, Inductive, PTL DEF Spec, MeterSpec, Meter!Spec
=============================================================================
