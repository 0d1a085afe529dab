# device-manager-client in TLA+

This directory holds a TLA+ model of the DeviceManager client: specifications
translated from the source, TLC configurations that check them on small
instances, and proofs about them that TLAPS checks. It is kept beside the code
and uses its names. Paths are relative to the repository's root.

## The system

The repository is what runs on a monitored machine: an agent that reports to a
host, power exporters that the agent reads, and the scripts that install them.
The host is not part of it.

| Part | State | Operations | Talks to |
|---|---|---|---|
| Linux power exporter (`power/pve_power.py`) | `energy_wh`, `last_save`, remembered counters, `latest["r"]`, `STATE_FILE` | sample, save, load, GET, stop by signal | kernel counters, file system, agent (HTTP :9105) |
| Agent loop (`client/main.py`, `sender.py`) | none between cycles | gather, post, sleep | all collectors, host (HTTP POST) |
| apt collector (`collectors/apt.py`) | `_refresh` (tried, running), package lists | age, count, background `apt-get update` | apt |
| Windows Update collector | `_state` under a lock | background search, cached answer | PowerShell |
| users collector | `_WIN_CACHE` on Windows | cached account list | PowerShell, passwd |
| docker, tailscale, system, ssh_auth, power collectors | none | one read per report, each with fallbacks | daemons, logs, exporter |
| Windows power exporter (`power/win_power.ps1`) | `$EnergyWh`, state file, output file | sample, save, write reading | agent (a file) |
| Windows Update runner (`windows-update.ps1`) | scheduled task, log file | launch, attach, work, tail | task scheduler |
| Windows installer (`install.ps1`) | install directory, scheduled task | stop, replace, configure, register | task scheduler, watchdog trigger |
| provisioning and Unix installers | files of the machine | run once | the administrator |

What makes these hard to test:

* **Threads without locks.** The exporter's signal handler saves the energy
  total while the sampling thread may be saving it, through one temporary file;
  the apt and Windows Update collectors share a flag with a background thread.
* **Failure in the middle.** A save that fails, a sample that raises after some
  counters were remembered and before others, a thread that does not start, a
  collector that raises.
* **Crashes and restarts.** Daemon threads are killed where they are, services
  are restarted, and memory (`tried`, `running`, `energy_wh`) is gone while
  files stay.
* **What others do meanwhile.** SSH sessions drop under a launcher whose worker
  goes on; containers are removed, guests stop and logs are rotated while they
  are read.
* **Order and time.** A stop flag set before or after a save, a reading
  published before or after its energy is on disk, ages computed from a wall
  clock that may be set, cached answers about a drive that has since woken up.

For each part, the properties that make it correct: the *exporters* never lose
more energy than their save interval allows, and the Linux one never leaves a
file it cannot read and terminates when told to; a *sample* is not distorted for
longer than the failure that caused it; the *agent* reports for ever, refreshes
old package lists and only so often, and never shows data as fresher than it is;
a *report* shows what any of its sources knows, and loses one container at most
for one that is removed; the *caches* keep the last good answer and are
eventually renewed; the *update runner* reports the worker's result to whoever
waits for it; the *installer* leaves a running client that matches its files.
`PROJECT.json` lists the hazards one by one, at the line where each bites, with
the properties that cover it or a note on what is still missing.

## Modules

| Module | Models | Runs |
|---|---|---|
| `EnergyMeter` | what an exporter promises of its total, without files or threads | implemented by `PowerServe` and `WinPower` |
| `PowerServe` | `pve_power.py` as a process | `serve`, `stop_race` |
| `PowerSample`, `MCPowerSample` | what one `Estimator.sample` measures | `sample`, `guest_split` |
| `LinuxAgent` | the report loop and the apt collector | `linux_agent`, `journal_timeout` |
| `WindowsUpdate` | the Windows Update collector in the report loop | `windows_update` |
| `Report` | one report after the other: every collector's sources and faults | `report` |
| `WuInstall` | `windows-update.ps1`: launchers, workers, scheduled task, log | `wu_install` |
| `WinPower` | `win_power.ps1` as a process | `win_power` |
| `AgentReadings`, `PowerReadings`, `MCReadings` | what is computed from what was read, as operators | `readings`, `auth_log` |
| `PowerServe_proofs`, `PowerSample_proofs`, `LinuxAgent_proofs`, `WindowsUpdate_proofs`, `Report_proofs`, `WuInstall_proofs`, `WinPower_proofs`, `MCReadings_proofs` | theorems about the module each is named for | |

The modules share no variables. They meet where one part promises what another
relies on: `EnergyMeter` is what a reader may expect of either exporter;
`Report` takes the updates as one source that may fail to start a thread, and
`LinuxAgent` and `WindowsUpdate` model that source and take the other collectors
as one step that may raise.

### PowerServe

The variables `pc["loop"]` and `pc["handler"]` say where the sampling thread
(in the foreground modes: the main thread) and the signal handler are; `main`
is where `serve()` or the process is. The handler runs on top of the main
thread, so `StartLoop`, `EnterServeForever`, `LeaveServeForever` and
`ExitServe` wait for it. `save_energy` is five actions (`Open`, `Dump`, `Close`,
`Replace`, `SaveFails`), because both threads may be inside it. Names (`dir`)
point to inodes, a thread holds an inode open (`fd`) and has text in a buffer
(`buf`) that reaches the file at `Close`: this is what makes the two ways a
save can spoil another visible (truncating the file the other writes; renaming
a file the other still has open). `Overwrite` says what a write at the start of
a file with other text leaves: either the new number or text that
`json.load` rejects.

A sample is `Wake` (the wait ends, time is taken), `Add` (the total grows, a
save starts when it is due), the save, and `Publish` or `PrintResult`;
`SampleFails` is an exception before or after the total has grown. `Start` is
the constructor, `StartReadFails` the constructor when the file is there and
cannot be read, `Crash` every way to die without code running. The socketserver
methods (`serve_forever`, `shutdown`) are external and follow the standard
library: `shutdown` sets the request and waits for `is_shut_down`, and
`serve_forever` honours a request made before it started.

`EnergyMeter` is the abstract promise. `PowerServe` implements it with `total`
the energy of the running process (or what a restart would load), `durable`
what the state file holds, and `spoiled` set once two saves overlapped or a
start could not read an existing file, which are exactly the two situations the
code does not guard against.

### PowerSample

Counters only grow and `sample()` takes differences, so the state is what each
counter has gained since the value the estimator remembers: `gap` (`last_t`),
`pkg` (`rapl.last`), `busy` (`last_cpu`), `ticks` (`last_io`), `used`
(`last_guests`). The package draws constant power, so its energy is measured in
time; one processor runs one guest, the host or nothing per unit of time. A
sample is three actions, between which the machine goes on: `ReadHost` reads
what is read at once (time, RAPL, processor, I/O), `ReadDrives` is the standby
check, which runs `hdparm` and `smartctl` for up to ten seconds each, and the
save, and `SampleSucceeds` reads the guests and returns. A sample that raises
at some read has remembered what it read before (`SampleFailsAtRapl`, `...Cpu`,
`...Io`, `...Guests`). `reading` is what the sample has measured so far, and
what it returned at its end; properties speak of the latter (`Returned`). Its
field `late` is the time the processor was busy between its own read and that
of the guests: the split may exceed the whole by that much when every sample
succeeds, and by no more (`DistortionEnds`).

### LinuxAgent

`at` is the main thread's place in one cycle: first collectors, `mtime`
(`_last_refresh_mtime`), `decide` (`_refresh_if_stale`), `count`
(`_upgradable_count`), last collector, `post`, `sleep`. Ages are differences of
`time.time()`, counted up to the limit they are compared with; `ClockForward`
makes every limit pass, `ClockBack` takes a unit off every age. The update
thread ends in one action whatever became of `apt-get` (`UpdateEnds`, the
`finally` clause). An exception of `collect` leaves the report without apt,
also where a refresh has just been started (`ReadMtimeFails`,
`RefreshThreadFails`, `CountFails`). `ListsReplaced` may happen at any moment, by this update or
somebody else's.

### WindowsUpdate

Each section under `_lock` is one action: `Collect` (the flag is looked at and
set), `SearchStores` (the answer replaces the old one, or does not: `Keep`),
`SearchEnds` (the `finally` clause). Between them the search thread is `asking`
PowerShell or has `stored`. `raw` holds dates, as `_state["raw"]` does: their
ages grow with time, and so do those in `windows`, the record Windows keeps of
its own updates, with which a report is compared. `SearchRaises` is an
exception of `subprocess` that `win.py` does not catch, `SearchThreadFails` a
`Thread.start` that raises with the flag set: the one way in which the
collector never asks again in this process, which the properties name
(`wedged`) instead of hiding it. The clock may be set as in `LinuxAgent`.

### Report

A field of the report is a chain of attempts (`Chain`): the source, the faults
after which the next source is tried, and those after which the field stays
empty; a fault in neither leaves `gather_report` and costs the report. So the
chains are the `except` clauses of `system.py`, `tailscale.py`, `ssh_auth.py`,
`users.py` and `power.py`, one operator per collector, and `FaultsOf` is what
may go wrong with a source: a file is absent, denied, garbled (it cannot be
decoded or parsed) or empty; a command or a daemon is slow, refuses, or answers
something of another shape (`odd`); there are no more threads or files
(`limit`). A machine is set up in one of the ways in `Setups`. `shown` is the
source whose answer the field shows, and `none` for everything that stands for
"nothing known" (for Tailscale also the statuses `timeout`, `error`,
`unparseable` and `not_installed`).

The docker collector is `List`, `Stats` (the thread pool asks in any order) and
`Images`, each request of which may be refused by itself. The cache of the
Windows accounts (`_WIN_CACHE`) is asked by two fields of a report
(`AskAccounts`, `AskAccountsFails`, `CachedAccounts`). `cacheAge` is what the
code computes from `time.time()`, `sinceTaken` the true time since PowerShell
was run for what is cached, and `setBack` how far the clock was set back since
then (`ClockIsSet`); only the first decides (`AccountsDue`), and the property
is about the second. That a failed ask makes every later one wait for
PowerShell again, and that `ssh_users` and `admin_user` may show the accounts of
different asks, is part of the model and no property speaks of it.

`Knows` says who knows a field, whichever collector asks. In a container two
know the system of the machine: a mounted `os-release` and the daemon. The
daemon is asked only where none is mounted (`system.py:178`), so that one that is
mounted and cannot be read, or has no `PRETTY_NAME`, leads to the image's own
system although the daemon would have told better. `AnsweredIsShown` excepts
exactly this (`PassedOver`) and does not catch it. `run_once` and
`run_forever` differ in what they do with an exception (`Lose`) and with the
answer of the host (`Post`).

### WuInstall

A worker is the number of its run. The task scheduler is `current` (the run
that is the registered task's instance) and `worker` (of each run: waiting,
running, ...); unregistering cancels an instance that waits and leaves one that
runs alone. A worker logs `Steps` lines and then its result; each line may be
given up after ten tries (`OutLog`), and the worker may die anywhere. A launcher
attaches (`Attach`) or empties the log and starts the task (`NotRunning`,
`EmptyLog`, `StartTask`), then alternates between the log (`ReadLog`, which
takes what is beyond `printed`) and the state of the task (`LookAgain`,
`SeesStopped`). `Get-ScheduledTask -ErrorAction SilentlyContinue` gives nothing
where the query fails, which looks like a task that does not run: `NotRunning`
and `LooksStopped` may happen beside a running worker. `SessionDrops` removes a launcher at any point and leaves the
task. `out` and `wrote` record what the host was sent and what each run logged.
`spoiled` records two situations the script does not guard against: a log
emptied beside a worker, and a task unregistered while its worker runs.
`misled` counts the looks of a launcher that took a task under way for stopped.

What the host is told is therefore true only within limits, which the
properties state. Without a log that was emptied beside a worker, what is
passed on is the worker's log and a result that was read is the worker's own
(`StreamIsLog`, `ResultIsWorkers`). The report of a stop (line 125) takes two
looks, and `$stoppedSeen` (line 129) is never reset: with two failed queries, at
any distance from each other, it is said of a worker that is still at work;
with one, of a worker that has ended and whose result was overlooked; with none
it is true (`StoppedIsTrue`). A result line that was given up after ten tries
makes a success a stop without a result.

### WinPower

The loop of `win_power.ps1`: `Sample` (the interval is counted, `$EnergyWh`
grows, a save may be due), `SaveOpens` and `SaveWrites` (`Set-Content` in place),
`Publish` (a new file is moved over `power.json`). A save that throws ends the
sample and leaves `$LastSave`, so that the next sample tries again: unlike the
Linux exporter, it never shows a reading whose save was due and failed.
`Jumped` is an interval of the local clock, which summer time, a suspend or an
administrator make longer or shorter than the time that was measured.
`StartEmpty` is a start that finds no total: no file yet, one that cannot be
read, or one that a stop or failure inside a save has cut short. `WinPower`
implements `EnergyMeter`; the clock and the file written in place are what its
`Spoil` stands for here. "Energy total survives restarts"
(`win_power.ps1:104`) does not hold in those two situations.

### AgentReadings, PowerReadings

Operators for what is computed from what was read: the drives of a machine
(`Disks`), the lines in which logins are counted (`SshLines`, `Logins`), the
names offered for a login (`WindowsUsers`), the shares of a container
(`CpuPercent`, `MemPercent`), the wrap of a RAPL counter (`Energy`), the loss of
a power supply (`PsuAC`), the parts of a Mac's power (`SmcReading`), of sensors
of which any may be missing (`Sensors`). Each is
checked against what it should mean, and not against a copy of itself.
Percentages and powers are integers in small units; where the code divides
floats, the operators round down, which the properties allow for. Python's sort
and its comprehensions are folds (`SortBy`, `Where`) and not `SortSeq` and
`SelectSeq`, which TLC alone can evaluate and nothing can be proved about.

## Runs

| Run | Instance | What it shows |
|---|---|---|
| `serve` | `SaveEvery` 2, `MaxGap` 1, `MaxClock` 3, two inodes, all start modes; 550,820 states | `TypeOK`, `IntactUnlessOverlap`, `ReadingsSurvive`, `GracefulLoss`, refinement of `EnergyMeter` (`MeterSpec`), `StopTerminates` |
| `stop_race` | `MaxClock` 2, `--serve` only | violates `StateFileParses` |
| `sample` | two interchangeable guests, `StandbyCheck` 3, `Horizon` 3; 3,666,882 states | `TypeOK`, `DistortionEnds`, `AsleepIsRecent` |
| `guest_split` | the same | violates `GuestSplitWithinWhole` |
| `linux_agent` | `RetryAfter` 2, `RefreshAfter` 3, one clock change, one crash | `TypeOK`, `RunningIsTrue`, `AgeNeverFlatters`, `TriesAreSpaced`, `StaleIsTried`, `ReportsGoOn` |
| `journal_timeout` | no clock change, no crash | violates `JournalDegrades` |
| `windows_update` | `RefreshAfter` 1, `FlagAfter` 1, one clock change, one crash; 50,844 states | `TypeOK`, `RunningIsTrue`, `AgeNeverFlatters`, `SearchesAreSpaced`, `AgeStaysKnown`, `Recovers` |
| `report` | two containers, `TTL` 2, a clock set back by 1, every set-up; 184,249 states | `TypeOK`, `AnsweredIsShown`, `NothingToReadIsNoError`, `ContainersAreListed`, `AccountsAreRecent`, `OnceTells` |
| `wu_install` | two runs of the script, two lines before the result; 1,075,558 states | `TypeOK`, `StreamIsLog`, `ResultIsWorkers`, `OneInstall`, `StoppedIsTrue`, `LauncherEnds` |
| `win_power` | `SaveEvery` 3, `MaxGap` 2, a clock that jumps once by 4, `MaxTotal` 8; 297,069 states | `ReadingsSurvive`, refinement of `EnergyMeter` (`MeterSpec`) |
| `readings` | three drives, three log lines, two accounts, counters up to 3, RAPL ranges up to 6, 0 to 700 W; 29,339 inputs | `DisksOnce`, `NamesOnce`, `SharesAreShares`, `EnergyIsUsed`, `BreakdownAddsUp` |
| `auth_log` | the same inputs | violates `LoginsAreRecent` |

**Bounds.** In `serve`, three units of clock with a save due every second one
allow a save, unsaved samples after it, and any number of crashes, restarts and
failed saves between them (these are not bounded). Two inodes are the most that
are in use at a time: a third name or file never exists. In `sample`, `Horizon`
bounds the time without a successful sample; any number of samples follow each
other, and each may last as long as the bound allows. `StandbyCheck` 3 leaves two units, so two samples, in which an answer is
reused: with one, the next sample after I/O always asks again. In `linux_agent`
and `windows_update` time is unbounded (ages saturate one past the limit they are
compared with), and only crashes and clock changes are counted: one of each,
before, during and after a search, in either order. `report` bounds the number
of containers (two are enough for one to be refused while the other is not) and
`MaxSetBack`, how far the clock is set back between two asks: one unit is enough
for a cache past its `TTL` to look like one within it; ages saturate. In `wu_install` two runs of the script are one that starts a worker and
one that finds it waiting, running, finished or gone; a dropped session is free.
Two lines before the result let a launcher that attaches find some lines
printed and some not. In `win_power` the jump is larger than the interval
between saves, so that both clocks of the loop pass it, in either direction;
failures and restarts are not counted. The inputs of `readings` are the smallest
that tell the branches of each operator apart: two devices with three mount
points, one log line more than are kept, one name in two spellings.

**Deadlock** is checked but for `report` (a process may exit) and `wu_install`
(the host runs the script no more).

**Fairness.** `PowerServe` assumes weak fairness of the main thread, the handler
and the shutdown thread, since the operating system schedules them and none
waits for anything but what is modelled; nothing obliges a sample, a signal or
a client. `LinuxAgent` assumes that time passes, that systemd restarts the
service (`Restart=on-failure`), that `apt-get` ends (it is killed after 600 s)
and that the main thread goes on (what it calls has a timeout, or answers).
`WindowsUpdate` assumes the same of time and the main thread, that the
watchdog trigger restarts the task, and that PowerShell is killed after its
timeout; nothing obliges the system to work, and `Recovers` speaks of systems
that do in the end. `WuInstall` assumes that a worker that may run is run and is
ended by its time limit if need be, that a launcher goes on, and that thirty
seconds pass; not its deadline of four hours. The other specifications state
no fairness.

**Violations.** Each of the four is a disagreement between the code and what
it says of itself.

1. `stop_race`: `STATE_FILE` "cumulative kWh survives restarts"
   (`pve_power.py:82`), but a SIGTERM during the loop's save leaves a file that
   the next start cannot read and takes for no file. A lock around
   `save_energy`, or a temporary name per thread, closes it.
2. `guest_split`: `pve_power.py:11` promises the CPU power "split across
   LXCs/VMs by their share of CPU time", but the guests are read after the drives
   were asked and the total was saved (lines 301-337), and the processor before.
   What runs in between is divided by a whole that does not contain it, so that
   the guests together may be given more CPU power than there is, without any
   sample that failed. One that fails while `read_guests` runs adds a whole
   interval to that. `DistortionEnds` bounds both: the excess is what ran while the
   drives were asked, and a failed sample spoils one reading.
3. `journal_timeout`: `README.md:133` says a collector with nothing to read
   degrades to empty; a slow `journalctl` drops the report instead.
4. `auth_log`: `README.md:109` calls `SSH_LOG_WINDOW_MINUTES` the window for
   counting recent logins; where `journalctl` is missing or fails, the last 500
   lines of the auth log are counted, of any age. (Not where the journal merely has
   nothing in the window: `journalctl` without `-q` then prints "-- No entries --",
   which is a line, and the auth log is not read.)

## Proofs

`PowerServe_proofs` proves, for every `SaveEvery`, `MaxGap`, `MaxClock`, set of
inodes and start modes allowed by `ServeAssumption`: `TypeOK`, the inductive
invariant `IInv`, `IntactUnlessOverlap`, `ReadingsSurvive`, `GracefulLoss`, and that
`PowerServe` implements `EnergyMeter` (`MeterSpec`).

None of the safety properties is inductive by itself. The file is intact only
because, while saves do not overlap, the one under way owns the temporary file
and what it renames is what it dumped (`OneSaver`, with `Names`: the two names
never share an inode). What is dumped is not older than the file (`Pending`),
which is why the total on disk never falls. What is not on disk is bounded by
the clock (`Unsaved`: outside a save, the energy not saved is at most the time
since `last_save`, and below `SaveEvery`), from which `Readings` follows
because nothing is published between `Add` and the save it makes due. The
handler's save bounds the loss because `stop` is set before it (`Places`), so
that at most one sample is still in progress. `Refinement` maps each action to
a step of `EnergyMeter`: `Add` to `Measure`, `Replace` to `Persist`,
`SaveFails` to `PersistFails`, the end of a process to `Restart`, and every step that
overlaps or starts from an unreadable file to `Spoil`.

`WinPower_proofs` proves `ReadingsSurvive` and the refinement of `EnergyMeter`
for every interval, every jump of the clock and any number of them. While
nothing is spoiled, the file holds what was saved last or is being written
(`Saved`), what is not saved is at most the time since the last save, and
below `SaveEvery` wherever no save is due (`Unsaved`), and a reading was
published only there (`Readings`). That a failed save ends the sample is what
makes the last step go through: the corresponding bound for the Linux exporter
needs the same order, but has to except saves that failed.

`LinuxAgent_proofs` proves `TypeOK`, `RunningIsTrue`, `AgeNeverFlatters` and
`TriesAreSpaced` for every interval and any number of crashes and clock
changes. The invariant adds that no update outlives its process, that a thread
that did not start leaves the flag set, and that `tried` is never more than the
true time since the last attempt unless something excuses it; the action
property follows because only `StartRefresh` starts an update.

`WindowsUpdate_proofs` proves `TypeOK`, `RunningIsTrue`, `AgeNeverFlatters`,
`SearchesAreSpaced` and `AgeStaysKnown` in the same generality. `RunningIsTrue`
needs that a search belongs to the process that lives (`InProcess`);
`SearchesAreSpaced` that the age the agent computes is at most the true one
(`AgeIsTrue`). `AgeNeverFlatters` is not inductive: an age that is hidden now
may be shown after a search that finds no count, so every date that is cached
has to be no newer than Windows' own (`NeverAhead`); and `AgeStaysKnown` needs
that Windows never has a date of an install without one of a search (`Known`).

`PowerSample_proofs` proves `TypeOK`, `AsleepIsRecent` and `DistortionEnds` for
any finite set of guests and any interval of the standby check. For
`AsleepIsRecent` the invariant says that an answer "asleep" is at least as old
as the platters have turned since, and that I/O that came after it has moved
the counter that the next sample looks at (`AsleepIs`), which a sample that
fails before the drive does not disturb; between the actions of a sample, that
what it has seen so far still allows "asleep" (`Relied`, `Evident`), while the drive
may wake up behind its back. `DistortionEnds` needs that as long as no sample has
failed since one succeeded, the package counter dates from that sample and what
the guests used since then adds up to no more than the processor was busy
(`Aligned`): by its counter, or, while a sample is taken, by what was read of it
and what it counted since (`Whole`). A guest that restarts has a counter below the one
remembered, which counts as nothing (`AtLeast`), so the sum alone is not
inductive: `Covered` says the same of every assignment to some of the guests
of at most what each of them gained, and that does not lose by a guest that
drops out. That a sum over a function is what one expects it to be (`Total` of
one element more, of nothing, of less) is proved there too.

`Report_proofs` proves `OnceTells`, `AccountsAreRecent` and, for any set of
containers, `ContainersAreListed`. The first needs that no report is accepted
before it is posted; the second that accounts are no older than the cache takes
them for and the clock was set back (`TrueAge`), and that no other collector shows
accounts;
the third that whoever was taken off the list of things to do was answered or
refused, first for the statistics and then for the image (`StatsSo`, `ImagesSo`).
It also proves `TypeOK`, `NothingToReadIsNoError` and `AnsweredIsShown`. Each
attempt of each chain is one of a finite set (`Attempts`; `ChainsOfAttempts` goes
through the chains), in which nobody lets an absent, empty or refusing source
leave the report: that is `NothingToReadIsNoError`. `AnsweredIsShown` speaks of
fields that are done; its invariant (`KnownInv`) adds that while a field is
pending, every source before the present one has failed (`Behind`), and six
lemmas, one for each field that is compared, show that whatever comes of the
next attempt, the field ends without an answer only when all those that know
have been asked (`Told`), or were passed over (`AskedOrPassedOver`).

`WuInstall_proofs` proves `TypeOK`, `OneInstall`, `StreamIsLog`, `ResultIsWorkers`
and the action property `StoppedIsTrue`, for any number of runs and of lines.
`OneInstall` rests on `Registered`: a worker that waits or runs is the instance
of the registered task, so that a launcher that finds none there may start
another. The others need the invariant `LogInv`: what was passed on is the log
up to `printed` (`Sent`); unless it was spoiled, the log is what the worker that
is followed has written, and no other worker is about (`OwnLog`); a worker that
has logged its result logs nothing more (`Results`), and a launcher that has read
one ends (`Unread`, `Final`). `StoppedIsTrue` holds because of the order of the
script: a task that was seen stopped is looked at once more after its log was
read to the end (`Stopped`), and because a launcher looks twice before it gives up,
so that it is misled at most twice, and at most once before it ends (`Misled`).

`MCReadings_proofs` proves the properties of the readings, as theorems about the
operators for values of any size, and from them that the specification of the
run satisfies its properties for every bound: `Energy` for a counter of any range
(quotient and remainder are unique), the shares of a container for any counters
(at most 100 % on Windows, and 100 % for each processor elsewhere, where the
container used no more than there was),
`PsuAC` for any load (it always lies between two points of its curve, and
`Waste`, what is lost, never falls), the parts of a Mac's power for any sensors
(where all of them are missing the parts add up to a wall of 0, so a sensor that
cannot be read for a moment is not told from a machine on battery),
`Disks` for a mount table of any length (`DrivesOfAnyTable`), and `WindowsUsers`
for any accounts (`NamesOfAnyAccounts`). The last two are about folds. A fold over a
list passes through a value for each prefix (`FoldingSteps`), so that what it
gives is shown by going from one prefix to the next: `Disks` has the first
good entry of each device of the prefix (`LoopFinds`), sorting and filtering give
elements of the list, each as often as before (`Picked`, `Sorts`), and the offers
only add names that are missing, at the end (`Extended`). The hypotheses are
those of the code: mount points are compared by rank, an account is there once,
and `SSH_USER` is at most one name.

The library's induction theorems take an operator as a parameter, which the
provers cannot instantiate. Where a proof goes over the length of a list or the
size of a set, it takes the least counterexample instead (`Least`, `StepByStep`).

Only model-checked: the liveness properties (`StopTerminates`, `StaleIsTried`,
`ReportsGoOn`, `Recovers`, `LauncherEnds`), which need fairness and `ENABLED`.
Every invariant and action property that a passing run checks is also proved.

## Not modelled, and the plan

Left out on purpose: wording, formats and logging; the host; the installers for
Unix and Docker files, which run once, top to bottom, for an administrator; in
the exporters, the finding of drives, sensors and names of guests. In
`PowerServe`: two processes at a time, a second signal while the first is
handled, loss of power to the machine (an unsynced rename); while every sample
fails its endpoint goes on serving the last good one, with the time it was
taken, and the code states no bound for that. In `LinuxAgent`: a
machine without package lists. In `Report`: a negative `REPORT_INTERVAL` (the
pause raises and the service is restarted for ever), a report that arrives
after its timeout, values that JSON cannot carry, a `SERVER_URL` that `httpx`
rejects; a listing of containers that fails as a whole because one vanished
while the library was inspecting it is one of the refusals of `List`. `AnsweredIsShown`
excepts sources that answer garbage: the code stops the search there, which
may or may not be what is wanted.

Next, in this order:

1. `WinInstaller`: `install.ps1` against the watchdog trigger: stop, replace,
   configure, register, and an exception after the client was stopped.
2. `provision-ssh.sh` as an operator over the lines of `authorized_keys`.
3. Two exporters beside each other on one `STATE_FILE`, in `PowerServe`.
4. Proofs: the theorems of what comes under 1 to 3.
