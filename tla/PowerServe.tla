----------------------------- MODULE PowerServe -----------------------------
(***************************************************************************)
(* power/pve_power.py as a process: the sampling loop, the save of the     *)
(* energy total to STATE_FILE, the HTTP endpoint and the way the service   *)
(* is stopped (--serve), and the same estimator in the foreground (live    *)
(* view, --once).                                                          *)
(*                                                                         *)
(* Who runs:                                                               *)
(*  - the sampling thread ("loop"): serve's loop(), a daemon thread; in    *)
(*    the foreground modes the same steps run in the main thread;          *)
(*  - the main thread: starts the loop, then httpd.serve_forever; the      *)
(*    SIGTERM/SIGINT handler ("handler") runs on top of it, so the main    *)
(*    thread stands still until the handler returns;                       *)
(*  - the thread the handler starts to run httpd.shutdown;                 *)
(*  - the HTTP handler threads, which only read latest["r"].               *)
(* save_energy is called by the loop and by the handler with no lock: its  *)
(* system calls (open, write at close, rename) are separate steps here,    *)
(* over inodes, because both calls use the same temporary name.            *)
(*                                                                         *)
(* Abstractions.  Energy is counted in units of a constant load, so one    *)
(* unit of time measured is one unit of energy.  A file holds a number,    *)
(* nothing (Empty) or text that json.load rejects (Torn).  A process dies  *)
(* with what it had in memory; files keep what was written (power loss of  *)
(* the whole machine, where an unsynced rename may be lost, is not         *)
(* modelled).  One stop signal per process.  What a sample measures is     *)
(* module PowerSample.                                                     *)
(***************************************************************************)
EXTENDS Integers

CONSTANTS
    SaveEvery,      \* the 60 s of line 335
    MaxGap,         \* bound on the time between two samples
    MaxClock,       \* bound on the clock
    Inode,          \* inodes of the directory of STATE_FILE
    NoInode,        \* a name that is not there, a file that is not open
    Modes           \* how the program is started: serve, live, once

ASSUME ServeAssumption ==
    /\ SaveEvery \in Nat \ {0}
    /\ MaxGap \in Nat \ {0}
    /\ MaxClock \in Nat
    /\ NoInode \notin Inode
    /\ Modes \subseteq {"serve", "live", "once"}

VARIABLES
    main,           \* what the main thread is doing; "down": no process
    mode,           \* how this process was started
    pc,             \* where the loop and the signal handler are
    stop,           \* serve's stop event
    signalled,      \* SIGTERM or SIGINT has been delivered
    shut,           \* the thread that runs httpd.shutdown
    request,        \* BaseServer.__shutdown_request
    isDown,         \* BaseServer.__is_shut_down
    ending,         \* foreground modes: inside the finally of main()
    clock,          \* time.monotonic()
    gap,            \* dt_s of the sample in progress
    energy,         \* Estimator.energy_wh
    lastSave,       \* Estimator.last_save
    latest,         \* serve's latest["r"], its energy_kwh
    fd,             \* the file each thread has open for writing
    buf,            \* what each thread dumped and close will write
    dir,            \* inodes of STATE_FILE and STATE_FILE.tmp
    content,        \* what each inode holds
    shown,          \* history: the highest total anyone was shown
    overlap,        \* history: two saves were under way at once
    loadFailed,     \* history: a start could not read an existing file
    saveFailed,     \* history: never, pending (last save failed), recovered
    handlerSaved    \* history: the handler's save of this process is in place

control == <<main, mode, stop, signalled, shut, request, isDown>>
meter   == <<clock, gap, energy, lastSave>>
files   == <<fd, buf, dir, content>>
history == <<shown, overlap, loadFailed, saveFailed, handlerSaved>>
vars    == <<control, pc, ending, meter, latest, files, history>>

-----------------------------------------------------------------------------
Thread    == {"loop", "handler"}
Empty     == -1
Torn      == -2
NoReading == -1
Content   == Nat \cup {Empty, Torn}

Larger(a, b) == IF a >= b THEN a ELSE b

\* A thread that has the temporary file open or has yet to rename it.
Saving(t) == pc[t] \in {"dump", "close", "replace"}

\* Mutant of Load: the ValueError of a torn file is not caught.
LoadUnchecked == IF dir.state # NoInode THEN content[dir.state] ELSE 0

\* _load_energy: a missing or unreadable file counts as 0.
Load ==
    IF dir.state # NoInode /\ content[dir.state] \in Nat
    THEN content[dir.state]
    ELSE 0

Init ==
    /\ main = "down" /\ mode = "serve"
    /\ pc = [t \in Thread |-> "none"]
    /\ stop = FALSE /\ signalled = FALSE
    /\ shut = "none" /\ request = FALSE /\ isDown = FALSE
    /\ ending = FALSE
    /\ clock = 0 /\ gap = 0 /\ energy = 0 /\ lastSave = 0
    /\ latest = NoReading
    /\ fd = [t \in Thread |-> NoInode]
    /\ buf = [t \in Thread |-> 0]
    /\ dir = [state |-> NoInode, tmp |-> NoInode]
    /\ content = [i \in Inode |-> Empty]
    /\ shown = 0
    /\ overlap = FALSE /\ loadFailed = FALSE
    /\ saveFailed = "never" /\ handlerSaved = FALSE

-----------------------------------------------------------------------------
(* Start and end of a process.                                             *)

StartWith(m, e) ==
    /\ main = "down"
    /\ main' = (IF m = "serve" THEN "setup" ELSE "live")
    /\ mode' = m
    /\ pc' = [t \in Thread |->
                IF t = "loop" /\ m # "serve" THEN "wait" ELSE "none"]
    /\ energy' = e
    /\ lastSave' = clock
    /\ saveFailed' = (IF saveFailed = "pending" THEN "recovered"
                                               ELSE saveFailed)
    /\ UNCHANGED <<stop, signalled, shut, request, isDown, ending, clock, gap,
                   latest, files, shown, overlap, handlerSaved>>

\* Mutant of Start: the constructor starts at 0 and loads nothing.
StartFresh(m) == StartWith(m, 0) /\ UNCHANGED loadFailed

Start(m) == StartWith(m, Load) /\ UNCHANGED loadFailed

\* An OSError on a file that is there is taken for "no file yet".
StartReadFails(m) ==
    /\ dir.state # NoInode
    /\ StartWith(m, 0)
    /\ loadFailed' = TRUE

\* The process is gone; threads, memory and open files go with it.
Gone ==
    /\ main' = "down"
    /\ pc' = [t \in Thread |-> "none"]
    /\ stop' = FALSE /\ signalled' = FALSE
    /\ shut' = "none" /\ request' = FALSE /\ isDown' = FALSE
    /\ ending' = FALSE
    /\ gap' = 0 /\ energy' = 0 /\ lastSave' = 0
    /\ latest' = NoReading
    /\ fd' = [t \in Thread |-> NoInode]
    /\ buf' = [t \in Thread |-> 0]
    /\ handlerSaved' = FALSE
    /\ mode' = "serve"
    /\ UNCHANGED <<clock, dir, content, shown, overlap, loadFailed, saveFailed>>

\* kill -9, an OOM kill, SIGTERM before a handler is installed or in the
\* foreground modes: at any moment.
Crash == main # "down" /\ Gone

\* main() returns.  The loop is a daemon thread and is killed where it is.
ExitServe == main = "returned" /\ pc["handler"] = "none" /\ Gone

ExitForeground == main = "live" /\ pc["loop"] = "exit" /\ Gone

-----------------------------------------------------------------------------
(* Estimator.save_energy, step by step, in the loop or in the handler.     *)

InUse == {dir.state, dir.tmp} \cup {fd[t] : t \in Thread}

\* Where a thread goes on when save_energy returns.
AfterSave(t) ==
    IF t = "handler" THEN "spawn" ELSE IF ending THEN "exit" ELSE "rest"

\* The loop then sets last_save, whether the save worked or not.
SaveReturns(t) ==
    /\ pc' = [pc EXCEPT ![t] = AfterSave(t)]
    /\ buf' = [buf EXCEPT ![t] = 0]
    /\ lastSave' = (IF t = "loop" /\ ~ending THEN clock ELSE lastSave)

\* open(tmp, "w"): makes the file or empties the one that is there.
Open(t) ==
    /\ pc[t] = "open"
    /\ \E i \in Inode :
        /\ IF dir.tmp = NoInode THEN i \notin InUse ELSE i = dir.tmp
        /\ dir' = [dir EXCEPT !.tmp = i]
        /\ content' = [content EXCEPT ![i] = Empty]
        /\ fd' = [fd EXCEPT ![t] = i]
    /\ pc' = [pc EXCEPT ![t] = "dump"]
    /\ overlap' = (overlap \/ \E u \in Thread \ {t} : Saving(u))
    /\ UNCHANGED <<control, ending, meter, latest, buf, shown, loadFailed,
                   saveFailed, handlerSaved>>

\* json.dump: the total is read now, and only reaches the file's buffer.
Dump(t) ==
    /\ pc[t] = "dump"
    /\ buf' = [buf EXCEPT ![t] = energy]
    /\ pc' = [pc EXCEPT ![t] = "close"]
    /\ UNCHANGED <<control, ending, meter, latest, fd, dir, content, history>>

\* Writing new at the start of a file that holds old: what is there
\* afterwards depends on which text is longer.
Overwrite(old, new) == IF old \in {Empty, new} THEN {new} ELSE {new, Torn}

\* End of the with block: the buffer is written and the file closed.
Close(t) ==
    /\ pc[t] = "close"
    /\ \E c \in Overwrite(content[fd[t]], buf[t]) :
        content' = [content EXCEPT ![fd[t]] = c]
    /\ fd' = [fd EXCEPT ![t] = NoInode]
    /\ pc' = [pc EXCEPT ![t] = "replace"]
    /\ UNCHANGED <<control, ending, meter, latest, buf, dir, history>>

\* os.replace(tmp, STATE_FILE): the inode STATE_FILE named until now is gone.
Replace(t) ==
    /\ pc[t] = "replace"
    /\ dir.tmp # NoInode
    /\ dir' = [state |-> dir.tmp, tmp |-> NoInode]
    /\ content' = [i \in Inode |-> IF i = dir.state THEN Empty ELSE content[i]]
    /\ SaveReturns(t)
    /\ saveFailed' = (IF saveFailed = "pending" THEN "recovered"
                                                ELSE saveFailed)
    /\ handlerSaved' = (handlerSaved \/ t = "handler")
    /\ UNCHANGED <<control, ending, clock, gap, energy, latest, fd, shown,
                   overlap, loadFailed>>

\* Mutant of SaveFails: the write has a try of its own and the rename follows.
SaveFailsThenRenames(t) ==
    /\ pc[t] = "close"
    /\ fd' = [fd EXCEPT ![t] = NoInode]
    /\ pc' = [pc EXCEPT ![t] = "replace"]
    /\ UNCHANGED <<control, ending, meter, latest, buf, dir, content, history>>

\* An OSError anywhere in save_energy is printed and dropped; a temporary
\* name that is gone when os.replace runs is one of them.
SaveFails(t) ==
    /\ pc[t] \in {"open", "close", "replace"}
    /\ IF pc[t] = "close"
       THEN \E c \in {content[fd[t]], Torn} :
                content' = [content EXCEPT ![fd[t]] = c]
       ELSE UNCHANGED content
    /\ fd' = [fd EXCEPT ![t] = NoInode]
    /\ SaveReturns(t)
    /\ saveFailed' = "pending"
    /\ UNCHANGED <<control, ending, clock, gap, energy, latest, dir, shown,
                   overlap, loadFailed, handlerSaved>>

Save(t) == Open(t) \/ Dump(t) \/ Close(t) \/ Replace(t) \/ SaveFails(t)

-----------------------------------------------------------------------------
(* The sampling loop: Estimator.sample under serve's loop() or main().     *)

\* stop.wait(INTERVAL_S) times out (time.sleep returns), sample() takes now.
Wake(d) ==
    /\ pc["loop"] = "wait"
    /\ ~stop
    /\ clock + d <= MaxClock
    /\ clock' = clock + d
    /\ gap' = d
    /\ pc' = [pc EXCEPT !["loop"] = "add"]
    /\ UNCHANGED <<control, ending, energy, lastSave, latest, files, history>>

LoopEnds ==
    /\ pc["loop"] = "wait"
    /\ stop
    /\ pc' = [pc EXCEPT !["loop"] = "ended"]
    /\ UNCHANGED <<control, ending, meter, latest, files, history>>

\* Mutant of SaveDue: > for >=.
SaveDueLate == clock - lastSave > SaveEvery

SaveDue == clock - lastSave >= SaveEvery

\* self.energy_wh += ..., then save_energy when it is due.
Add ==
    /\ pc["loop"] = "add"
    /\ energy' = energy + gap
    /\ gap' = 0
    /\ pc' = [pc EXCEPT !["loop"] = IF SaveDue THEN "open" ELSE "rest"]
    /\ UNCHANGED <<control, ending, clock, lastSave, latest, files,
                   history>>

\* A sensor read raises, before the total is updated or after.  serve's loop
\* prints it and waits again; in the foreground it ends main().
SampleFails ==
    /\ pc["loop"] \in {"add", "rest"}
    /\ IF mode = "serve"
       THEN pc' = [pc EXCEPT !["loop"] = "wait"] /\ UNCHANGED ending
       ELSE pc' = [pc EXCEPT !["loop"] = "open"] /\ ending' = TRUE
    /\ gap' = 0
    /\ UNCHANGED <<control, clock, energy, lastSave, latest, files, history>>

\* The rest of sample(), then latest["r"] = r.
Publish ==
    /\ pc["loop"] = "rest"
    /\ mode = "serve"
    /\ latest' = energy
    /\ pc' = [pc EXCEPT !["loop"] = "wait"]
    /\ UNCHANGED <<control, ending, meter, files, history>>

\* The same in the foreground: the result is printed; --once leaves.
PrintResult ==
    /\ pc["loop"] = "rest"
    /\ mode # "serve"
    /\ shown' = Larger(shown, energy)
    /\ ending' = (mode = "once")
    /\ pc' = [pc EXCEPT !["loop"] = IF mode = "once" THEN "open" ELSE "wait"]
    /\ UNCHANGED <<control, meter, latest, files, overlap, loadFailed,
                   saveFailed, handlerSaved>>

\* KeyboardInterrupt in the foreground.  A file that is open is closed by
\* its with block, with as much in it as had been dumped.
Interrupt ==
    /\ main = "live"
    /\ ~ending
    /\ ending' = TRUE
    /\ pc' = [pc EXCEPT !["loop"] = "open"]
    /\ IF pc["loop"] = "close"
       THEN \E c \in {Empty, Torn, buf["loop"]} :
                content' = [content EXCEPT ![fd["loop"]] = c]
       ELSE UNCHANGED content
    /\ fd' = [fd EXCEPT !["loop"] = NoInode]
    /\ buf' = [buf EXCEPT !["loop"] = 0]
    /\ gap' = 0
    /\ UNCHANGED <<control, clock, energy, lastSave, latest, dir, history>>

-----------------------------------------------------------------------------
(* serve(): main thread, signal handler, shutdown thread, HTTP threads.    *)

MainFree == pc["handler"] = "none"

StartLoop ==
    /\ main = "setup" /\ MainFree
    /\ main' = "started"
    /\ pc' = [pc EXCEPT !["loop"] = "wait"]
    /\ UNCHANGED <<mode, stop, signalled, shut, request, isDown, ending, meter,
                   latest, files, history>>

EnterServeForever ==
    /\ main = "started" /\ MainFree
    /\ main' = "poll"
    /\ isDown' = FALSE
    /\ UNCHANGED <<mode, pc, stop, signalled, shut, request, ending, meter,
                   latest, files, history>>

\* serve_forever looks at the request first, so one made earlier counts.
LeaveServeForever ==
    /\ main = "poll" /\ MainFree
    /\ request
    /\ main' = "returned"
    /\ request' = FALSE
    /\ isDown' = TRUE
    /\ UNCHANGED <<mode, pc, stop, signalled, shut, ending, meter, latest,
                   files, history>>

Signal ==
    /\ main \in {"setup", "started", "poll", "returned"}
    /\ ~signalled
    /\ signalled' = TRUE
    /\ pc' = [pc EXCEPT !["handler"] = "stop"]
    /\ UNCHANGED <<main, mode, stop, shut, request, isDown, ending, meter,
                   latest, files, history>>

\* Mutant of HandlerStop: stop.set() is missing.
HandlerForgetsStop ==
    /\ pc["handler"] = "stop"
    /\ pc' = [pc EXCEPT !["handler"] = "open"]
    /\ UNCHANGED <<control, ending, meter, latest, files, history>>

\* shutdown(*_): stop.set(), est.save_energy(), Thread(httpd.shutdown).start()
HandlerStop ==
    /\ pc["handler"] = "stop"
    /\ stop' = TRUE
    /\ pc' = [pc EXCEPT !["handler"] = "open"]
    /\ UNCHANGED <<main, mode, signalled, shut, request, isDown, ending, meter,
                   latest, files, history>>

\* Mutant of HandlerSpawn: httpd.shutdown() is called in the handler.
HandlerShutsDown ==
    /\ pc["handler"] = "spawn"
    /\ isDown
    /\ request' = TRUE
    /\ pc' = [pc EXCEPT !["handler"] = "none"]
    /\ UNCHANGED <<main, mode, stop, signalled, shut, isDown, ending, meter,
                   latest, files, history>>

HandlerSpawn ==
    /\ pc["handler"] = "spawn"
    /\ shut' = "ask"
    /\ pc' = [pc EXCEPT !["handler"] = "none"]
    /\ UNCHANGED <<main, mode, stop, signalled, request, isDown, ending, meter,
                   latest, files, history>>

\* BaseServer.shutdown: ask serve_forever to return and wait until it has.
ShutdownAsk ==
    /\ shut = "ask"
    /\ shut' = "wait"
    /\ request' = TRUE
    /\ UNCHANGED <<main, mode, pc, stop, signalled, isDown, ending, meter,
                   latest, files, history>>

ShutdownWait ==
    /\ shut = "wait"
    /\ isDown
    /\ shut' = "done"
    /\ UNCHANGED <<main, mode, pc, stop, signalled, request, isDown, ending,
                   meter, latest, files, history>>

\* do_GET, in a thread of its own; before the first reading it answers 503.
Get ==
    /\ main \in {"poll", "returned"}
    /\ latest # NoReading
    /\ shown' = Larger(shown, latest)
    /\ UNCHANGED <<control, pc, ending, meter, latest, files, overlap,
                   loadFailed, saveFailed, handlerSaved>>

-----------------------------------------------------------------------------
LoopStep ==
    \/ \E d \in 1..MaxGap : Wake(d)
    \/ LoopEnds \/ Add \/ SampleFails \/ Publish \/ PrintResult \/ Save("loop")
HandlerStep == HandlerStop \/ Save("handler") \/ HandlerSpawn
MainStep ==
    StartLoop \/ EnterServeForever \/ LeaveServeForever \/ ExitServe
ShutdownStep == ShutdownAsk \/ ShutdownWait

Next ==
    \/ \E m \in Modes : Start(m) \/ StartReadFails(m)
    \/ Crash \/ ExitForeground \/ Interrupt \/ Signal \/ Get
    \/ LoopStep \/ HandlerStep \/ MainStep \/ ShutdownStep

(* The scheduler runs the main thread, the handler on top of it and the    *)
(* shutdown thread; nothing obliges a sample, a signal or a client.        *)
Fairness ==
    WF_vars(MainStep) /\ WF_vars(HandlerStep) /\ WF_vars(ShutdownStep)

Spec == Init /\ [][Next]_vars /\ Fairness

-----------------------------------------------------------------------------
(* Properties.                                                             *)

TypeControl ==
    /\ main \in {"down", "setup", "started", "poll", "returned", "live"}
    /\ mode \in {"serve", "live", "once"}
    /\ pc \in [Thread -> {"none", "wait", "add", "open", "dump", "close",
                          "replace", "rest", "exit", "ended", "stop", "spawn"}]
    /\ shut \in {"none", "ask", "wait", "done"}
    /\ {stop, signalled, request, isDown, ending} \subseteq BOOLEAN

TypeMeter ==
    /\ {clock, gap, energy, lastSave, shown} \subseteq Nat
    /\ latest \in Nat \cup {NoReading}

TypeFiles ==
    /\ fd \in [Thread -> Inode \cup {NoInode}]
    /\ buf \in [Thread -> Nat]
    /\ dir \in [state : Inode \cup {NoInode}, tmp : Inode \cup {NoInode}]
    /\ content \in [Inode -> Content]

TypeHistory ==
    /\ {overlap, loadFailed, handlerSaved} \subseteq BOOLEAN
    /\ saveFailed \in {"never", "pending", "recovered"}

(* Every variable keeps its type: no thread is in a place the code does not *)
(* have, and what _load_energy returns is a number (lines 270-275).         *)
TypeOK == TypeControl /\ TypeMeter /\ TypeFiles /\ TypeHistory

(* The state file, once there, holds a number a restart can load, whatever *)
(* was interrupted, failed or killed in the middle of a save: what writing *)
(* a temporary file and os.replace are for (lines 280-283).  It takes one  *)
(* save at a time; see StateFileParses.                                    *)
IntactUnlessOverlap ==
    ~overlap /\ dir.state # NoInode => content[dir.state] \in Nat

\* Energy measured since the last save, just before a save becomes due, and
\* the sample that then makes it due.
AtRisk == SaveEvery - 1 + MaxGap

(* With saves and loads that work, no chain of crashes, restarts and stops *)
(* makes the total restart SaveEvery or more below a reading a client was  *)
(* given: a sample that makes a save due is published only after the save  *)
(* (lines 335-337, 489-490, 558).                                          *)
ReadingsSurvive ==
    ~overlap /\ ~loadFailed /\ saveFailed = "never" => shown - Load < SaveEvery

(* After the handler has saved, a stop loses at most the one sample that   *)
(* was in progress: stop is set before the save (lines 520-521).           *)
GracefulLoss == handlerSaved /\ ~overlap => energy - Load <= MaxGap

(* A service told to stop terminates: httpd.shutdown waits for the main    *)
(* thread to leave serve_forever and must not run in it (line 522), and    *)
(* the request must not be lost when the signal comes before               *)
(* serve_forever.                                                          *)
StopTerminates == signalled ~> main = "down"

(* The promise of EnergyMeter: the total on disk never falls, a restart    *)
(* resumes from it, and at most AtRisk is not on disk while saves work.    *)
Total   == IF main = "down" THEN Load ELSE energy
Failing == main # "down" /\ saveFailed = "pending"

Meter == INSTANCE EnergyMeter WITH
    Window  <- AtRisk,
    total   <- Total,
    durable <- Load,
    failing <- Failing,
    spoiled <- overlap \/ loadFailed
MeterSpec == Meter!Spec

(* The inductive invariant behind the safety properties above: PowerServe_ *)
(* proofs shows that it is one.                                            *)

Places ==
    /\ pc["loop"] \in {"none", "wait", "add", "open", "dump", "close",
                       "replace", "rest", "exit", "ended"}
    /\ pc["handler"] \in {"none", "stop", "open", "dump", "close", "replace",
                          "spawn"}
    /\ main = "down" => shut = "none" /\ \A t \in Thread : pc[t] = "none"
    /\ main = "setup" => pc["loop"] = "none"
    /\ main \notin {"down", "live"} => mode = "serve"
    /\ ~signalled => pc["handler"] = "none"
    /\ ending => main = "live"
    /\ main = "live" => pc["handler"] = "none"
    /\ pc["handler"] \in {"open", "dump", "close", "replace", "spawn"} => stop
    /\ handlerSaved => stop
    /\ pc["loop"] # "add" => gap = 0
    /\ gap <= MaxGap

\* The two names never share an inode; a thread between open and close has
\* a file open, and no other thread has.
Names ==
    /\ dir.state # NoInode => dir.state # dir.tmp
    /\ \A t \in Thread : pc[t] \in {"dump", "close"} <=> fd[t] # NoInode

\* While saves do not overlap, the one that is under way owns the temporary
\* file: it is empty until close and then holds what was dumped.
OneSaver ==
    ~overlap =>
        /\ ~(Saving("loop") /\ Saving("handler"))
        /\ \A t \in Thread :
            /\ pc[t] \in {"dump", "close"} =>
                    fd[t] = dir.tmp /\ content[fd[t]] = Empty
            /\ pc[t] = "replace" =>
                    dir.tmp # NoInode /\ content[dir.tmp] = buf[t]

\* What is about to be written is neither older than the file nor too old.
Pending ==
    /\ pc["loop"] \in {"close", "replace"} => buf["loop"] = energy
    /\ pc["handler"] \in {"close", "replace"} =>
            buf["handler"] <= energy /\ energy + gap - buf["handler"] <= MaxGap
    /\ ~overlap /\ ~loadFailed =>
        /\ main # "down" => Load <= energy
        /\ \A t \in Thread : pc[t] \in {"close", "replace"} => Load <= buf[t]

\* The energy that is not on disk.
InSave == {"open", "dump", "close", "replace", "exit"}
Tracked ==
    /\ ~loadFailed
    /\ saveFailed = "never" \/ (saveFailed = "recovered" /\ ~handlerSaved)
Unsaved ==
    ~overlap =>
        /\ handlerSaved => energy + gap - Load <= MaxGap
        /\ Tracked /\ main # "down" =>
            IF pc["loop"] \in InSave
            THEN energy - Load <= AtRisk
            ELSE /\ energy - Load < SaveEvery
                 /\ energy + gap - Load <= clock - lastSave

Readings ==
    ~overlap /\ ~loadFailed /\ saveFailed = "never" =>
        shown - Load < SaveEvery /\ latest - Load < SaveEvery

IInv ==
    /\ TypeOK /\ Places /\ Names /\ OneSaver /\ IntactUnlessOverlap
    /\ Pending /\ Unsaved /\ Readings

(* Line 82: "cumulative kWh survives restarts", so at the end of an        *)
(* orderly stop, serve_forever having returned, the file that the next     *)
(* start loads holds a number.                                             *)
StateFileParses ==
    main = "returned" /\ dir.state # NoInode => content[dir.state] \in Nat
=============================================================================
