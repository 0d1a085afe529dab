------------------------------- MODULE Report -------------------------------
(***************************************************************************)
(* One report after the other: gather_report (client/sender.py) calls the  *)
(* collectors in order, send_report posts what they return, run_forever    *)
(* and run_once (client/main.py) deal with what they raise.                *)
(*                                                                         *)
(* A report is a sequence of fields.  Most fields are gathered by trying   *)
(* sources in turn, under except clauses that name some exceptions and not *)
(* others.  Such a field is a sequence of attempts: the source, the faults *)
(* after which the next one is tried, and those after which the field is   *)
(* left empty; any other fault leaves gather_report.  Containers and       *)
(* Windows accounts have actions of their own, updates a module each       *)
(* (LinuxAgent, WindowsUpdate).  No field is read again by a later one, so *)
(* the state holds one at a time, and the cache of the accounts.           *)
(***************************************************************************)
EXTENDS Integers, FiniteSets, Sequences

CONSTANTS
    Container,      \* Docker containers
    TTL,            \* _WIN_TTL, in units of time
    MaxSetBack      \* bound: how far the clock is set back between two asks

ASSUME ReportAssumption ==
    IsFiniteSet(Container) /\ TTL \in Nat /\ MaxSetBack \in Nat

VARIABLES
    setup,          \* how this machine is set up; see Setups
    at,             \* start, gather, lost, post, pause, or exit
    code,           \* what the process has exited with
    accepted,       \* history: the host has accepted the report
    field,          \* the field being gathered
    attempt,        \* which of its sources is tried
    shown,          \* what the field shows: pending, none, or the source
    faults,         \* history: what went wrong with which source in this field
    docker,         \* what collect() of docker_containers holds; see Idle
    cache,          \* _WIN_CACHE["value"]: none, empty or read
    cacheAge,       \* time.time() - _WIN_CACHE["at"], by the clock
    sinceTaken,     \* history: true time since what is cached was taken
    setBack         \* history: how far the clock was set back since then

process  == <<setup, at, code, accepted>>
gathered == <<field, attempt, shown, faults>>
accounts == <<cache, cacheAge, sinceTaken, setBack>>
vars     == <<process, gathered, docker, accounts>>

-----------------------------------------------------------------------------
(* Set-up, sources and what may go wrong with them.                        *)

\* Files of the host that are mounted in a container, POWER_URL, SSH_USER,
\* and whether the client runs with --once.
Setups ==
    {s \in [platform : {"native", "docker", "windows"},
            mounts : SUBSET {"host hostname", "host os-release", "host passwd"},
            power : {"unset", "off", "set"},
            ssh_user : BOOLEAN,
            once : BOOLEAN] :
        /\ s.platform # "docker" => s.mounts = {}
        /\ s.platform # "windows" => ~s.ssh_user}

Fields == <<"memory", "hostname", "os_version", "hardware_model", "cpu",
            "disks", "uptime", "local_ip", "tailscale", "ssh_auth",
            "docker_containers", "ssh_users", "apt", "admin_user", "power">>

OSErr == {"absent", "denied", "os error"}

\* A file that is not mounted is absent; one that is mounted is there.  A
\* log may be rotated after it was found.  "limit": no more threads or files.
FaultsOf(source) ==
    CASE source \in {"psutil", "own boot time"} -> {"os error"}
      [] source \in {"host hostname", "host os-release", "host passwd"} ->
             IF source \in setup.mounts
             THEN {"denied", "os error", "garbled", "empty"} ELSE {"absent"}
      [] source \in {"synology", "own os-release", "power.json"} ->
             OSErr \cup {"garbled", "empty"}
      [] source \in {"device tree", "dmi", "registry"} -> OSErr \cup {"empty"}
      [] source = "proc uptime" -> OSErr \cup {"garbled"}
      [] source = "auth log" -> OSErr \cup {"gone", "empty"}
      [] source \in {"journal", "event log", "tailscale cli"} ->
             OSErr \cup {"slow", "refused", "garbled", "empty"}
      [] source \in {"tailscale socket", "dockerd"} ->
             OSErr \cup {"slow", "refused", "garbled", "odd"}
      [] source \in {"exporter", "gateway exporter"} ->
             {"absent", "slow", "garbled", "empty", "odd"}
      [] source = "route" -> {"os error", "limit"}
      [] source = "updates" -> {"limit"}
      [] source = "pwd" -> {"os error"}
      [] source = "own name" -> {}

\* An attempt: try source; after next go on, else after none give up.
Try(source, next, none) == [of |-> source, next |-> next, none |-> none]
Any == OSErr \cup {"slow", "refused", "garbled", "odd", "empty"}

-----------------------------------------------------------------------------
(* The collectors, as attempts in order.                                   *)

\* virtual_memory and disk_usage, cpu_percent, disk_partitions: unguarded.
Measured == <<Try("psutil", {}, {})>>

\* Mutant of Hostname: the daemon is not asked.
HostnameOwn ==
    <<Try("host hostname", OSErr \cup {"empty"}, {}), Try("own name", {}, {})>>

\* A garbled file is a UnicodeDecodeError, which is not an OSError.
Hostname ==
    LET host == Try("host hostname", OSErr \cup {"empty"}, {})
        own  == Try("own name", {}, {})
    IN  IF setup.platform = "docker" THEN <<host, Try("dockerd", Any, {}), own>>
        ELSE <<host, own>>

\* Everything is caught by _os_version.
OsVersion ==
    LET file(source) == Try(source, OSErr \cup {"empty"}, Any)
    IN  IF setup.platform = "windows" THEN <<Try("registry", {}, Any)>>
        ELSE IF /\ setup.platform = "docker"
                /\ "host os-release" \notin setup.mounts
        THEN <<file("synology"), Try("dockerd", Any, {}),
               file("host os-release"), file("own os-release")>>
        ELSE <<file("synology"), file("host os-release"), file("own os-release")>>

\* _read replaces what cannot be decoded.
HardwareModel ==
    IF setup.platform = "windows" THEN <<Try("registry", {}, Any)>>
    ELSE <<Try("synology", OSErr \cup {"empty"}, Any),
           Try("device tree", OSErr \cup {"empty"}, Any),
           Try("dmi", OSErr \cup {"empty"}, Any)>>

Uptime ==
    <<Try("proc uptime", OSErr \cup {"garbled"}, {}), Try("own boot time", {}, {})>>

\* The socket is made outside the try; nothing is tried in a container.
LocalIp ==
    IF setup.platform = "docker" THEN <<>>
    ELSE <<Try("route", {}, {"os error"})>>

\* Mutant of Tailscale: only a socket that is absent leads to the command.
TailscaleSocketOnly ==
    <<Try("tailscale socket", {"absent"}, Any),
      Try("tailscale cli", {}, Any)>>

\* What is garbled for another reason than bad JSON, or has another shape,
\* leaves _via_localapi and is caught by collect.
Tailscale ==
    <<Try("tailscale socket", OSErr \cup {"slow", "refused", "garbled"}, {"odd"}),
      Try("tailscale cli", {}, Any)>>

\* Mutant of SshAuth: journalctl without its except clause.
SshAuthUnguarded ==
    <<Try("journal", {"refused", "empty"}, {}), Try("auth log", {}, {"absent", "denied"})>>

\* journalctl: FileNotFoundError only.  The log: PermissionError only, and
\* whatever can be decoded is.
SshAuth ==
    IF setup.platform = "windows" THEN <<Try("event log", {}, Any)>>
    ELSE <<Try("journal", {"absent", "refused", "empty"}, {}),
           Try("auth log", {}, {"absent", "denied", "empty"})>>

\* A passwd file without a single login user is believed.
Users ==
    <<Try("host passwd", OSErr, {"empty"}), Try("pwd", {}, Any)>>

\* "empty" is an answer without wall_w, "odd" one whose components are not
\* an object.  An httpx error and a ValueError lead to the next address.
Power ==
    LET asked == {"absent", "slow", "garbled", "empty"}
    IN  CASE setup.power = "off" -> <<>>
          [] setup.power = "set" -> <<Try("exporter", asked, {})>>
          [] OTHER ->
               CASE setup.platform = "windows" -> <<Try("power.json", {}, Any)>>
                 [] setup.platform = "docker" ->
                      <<Try("exporter", asked, {}), Try("gateway exporter", asked, {})>>
                 [] OTHER -> <<Try("exporter", asked, {})>>

Chain(f) ==
    CASE f \in {"memory", "cpu", "disks"} -> Measured
      [] f = "hostname" -> Hostname
      [] f = "os_version" -> OsVersion
      [] f = "hardware_model" -> HardwareModel
      [] f = "uptime" -> Uptime
      [] f = "local_ip" -> LocalIp
      [] f = "tailscale" -> Tailscale
      [] f = "ssh_auth" -> SshAuth
      [] f = "ssh_users" -> Users
      [] f = "apt" -> <<Try("updates", {}, {})>>
      [] f = "power" -> Power

\* Fields with actions of their own.
Special(f) ==
    \/ f = "docker_containers" \/ f = "admin_user"
    \/ f = "ssh_users" /\ setup.platform = "windows"

-----------------------------------------------------------------------------
(* A report.                                                               *)

Idle == [phase |-> "list", listed |-> {}, running |-> {}, todo |-> {},
         stats |-> {}, result |-> {}, refused |-> {}]

\* Longer than anything is compared with.
Long == TTL + MaxSetBack + 1

Init ==
    /\ setup \in Setups
    /\ at = "start" /\ code = 0 /\ accepted = FALSE
    /\ field = 1 /\ attempt = 1 /\ shown = "pending" /\ faults = {}
    /\ docker = Idle
    /\ cache = "none" /\ cacheAge = Long /\ sinceTaken = Long /\ setBack = 0

AtField(f) == at = "gather" /\ shown = "pending" /\ Fields[field] = f

\* load_env_file, the log file, load_config: each of them may end it.
Start ==
    /\ at = "start"
    /\ \/ at' = "gather" /\ UNCHANGED code
       \/ at' = "exit" /\ code' = 1
    /\ UNCHANGED <<setup, accepted, gathered, docker, accounts>>

AtAttempt ==
    /\ at = "gather" /\ shown = "pending" /\ ~Special(Fields[field])
    /\ attempt <= Len(Chain(Fields[field]))

Answers ==
    /\ AtAttempt
    /\ shown' = Chain(Fields[field])[attempt].of
    /\ UNCHANGED <<process, field, attempt, faults, docker, accounts>>

\* The except clauses around an attempt.
Fails ==
    /\ AtAttempt
    /\ LET a == Chain(Fields[field])[attempt]
       IN  \E fault \in FaultsOf(a.of) :
               /\ faults' = faults \cup {<<a.of, fault>>}
               /\ at' = (IF fault \in a.next \cup a.none THEN at ELSE "lost")
               /\ attempt' = (IF fault \in a.next THEN attempt + 1 ELSE attempt)
               /\ shown' = (IF fault \in a.none \ a.next THEN "none" ELSE shown)
    /\ UNCHANGED <<setup, code, accepted, field, docker, accounts>>

NothingLeft ==
    /\ at = "gather" /\ shown = "pending" /\ ~Special(Fields[field])
    /\ attempt > Len(Chain(Fields[field]))
    /\ shown' = "none"
    /\ UNCHANGED <<process, field, attempt, faults, docker, accounts>>

NextField ==
    /\ at = "gather" /\ shown # "pending"
    /\ IF field < Len(Fields)
       THEN field' = field + 1 /\ UNCHANGED at
       ELSE field' = 1 /\ at' = "post"
    /\ attempt' = 1 /\ shown' = "pending" /\ faults' = {} /\ docker' = Idle
    /\ UNCHANGED <<setup, code, accepted, accounts>>

\* send_report catches what httpx raises; run_once exits with the result.
Post ==
    /\ at = "post"
    /\ accepted' \in BOOLEAN
    /\ IF setup.once THEN at' = "exit" /\ code' = (IF accepted' THEN 0 ELSE 1)
       ELSE at' = "pause" /\ UNCHANGED code
    /\ UNCHANGED <<setup, gathered, docker, accounts>>

\* Mutant of Lose: run_once has a try that only logs.
LoseQuietly ==
    /\ at = "lost"
    /\ IF setup.once THEN at' = "exit" ELSE at' = "pause"
    /\ UNCHANGED <<setup, code, accepted, gathered, docker, accounts>>

\* run_forever logs the exception; run_once has no try.
Lose ==
    /\ at = "lost"
    /\ IF setup.once THEN at' = "exit" /\ code' = 1
       ELSE at' = "pause" /\ UNCHANGED code
    /\ UNCHANGED <<setup, accepted, gathered, docker, accounts>>

Pause ==
    /\ at = "pause"
    /\ at' = "gather" /\ accepted' = FALSE
    /\ field' = 1 /\ attempt' = 1 /\ shown' = "pending" /\ faults' = {}
    /\ docker' = Idle
    /\ UNCHANGED <<setup, code, accounts>>

-----------------------------------------------------------------------------
(* docker_containers.collect.  Containers come and go while it asks.       *)

\* Mutant of Live: statistics are asked of every container.
LiveAll(there, running) == there

\* Only a container that runs has statistics.
Live(there, running) == running

\* One request for the list, and one for each container in it; any of them
\* may fail, also because a container is removed in between.
List ==
    /\ AtField("docker_containers") /\ docker.phase = "list"
    /\ \/ /\ faults' = {<<"dockerd", "refused">>} /\ shown' = "none"
          /\ UNCHANGED docker
       \/ /\ \E there \in SUBSET Container : \E running \in SUBSET there :
                docker' = [docker EXCEPT !.phase = "stats", !.listed = there,
                               !.running = running, !.todo = Live(there, running)]
          /\ UNCHANGED <<faults, shown>>
    /\ UNCHANGED <<process, field, attempt, accounts>>

\* Mutant of FetchFails: the exception leaves _fetch_stats, and ends the map.
FetchFailsForAll(c) == [docker EXCEPT !.todo = {}, !.stats = {},
                                      !.refused = @ \cup {<<c, "stats">>}]

\* _fetch_stats returns None for its own container.
FetchFails(c) == [docker EXCEPT !.todo = @ \ {c},
                                !.refused = @ \cup {<<c, "stats">>}]

\* The pool asks in any order.  When it cannot start a thread there are no
\* statistics at all.
Stats ==
    /\ AtField("docker_containers") /\ docker.phase = "stats"
    /\ \/ \E c \in docker.todo :
              docker' \in {[docker EXCEPT !.todo = @ \ {c}, !.stats = @ \cup {c}],
                          FetchFails(c)}
       \/ /\ docker.todo # {}
          /\ docker' = [docker EXCEPT !.todo = {}, !.stats = {},
                 !.refused = @ \cup {<<c, "stats">> : c \in docker.running}]
       \/ /\ docker.todo = {}
          /\ docker' = [docker EXCEPT !.phase = "image", !.todo = docker.listed]
    /\ UNCHANGED <<process, gathered, accounts>>

\* c.image is one more request; one that fails drops the container.
Images ==
    /\ AtField("docker_containers") /\ docker.phase = "image"
    /\ \/ /\ \E c \in docker.todo : docker' \in
              {[docker EXCEPT !.todo = @ \ {c},
                              !.result = @ \cup {<<c, c \in docker.stats>>}],
               [docker EXCEPT !.todo = @ \ {c},
                              !.refused = @ \cup {<<c, "image">>}]}
          /\ UNCHANGED shown
       \/ /\ docker.todo = {}
          /\ shown' = "dockerd" /\ UNCHANGED docker
    /\ UNCHANGED <<process, field, attempt, faults, accounts>>

-----------------------------------------------------------------------------
(* users._windows_accounts, for ssh_users and for admin_user.              *)

AccountsDue == cache = "none" \/ cacheAge > TTL

\* admin_user is SSH_USER where that is set, and only for Windows.
NeedsAccounts(f) ==
    /\ AtField(f) /\ setup.platform = "windows"
    /\ f = "admin_user" => ~setup.ssh_user

NoAccounts ==
    /\ AtField("admin_user") /\ ~NeedsAccounts("admin_user")
    /\ shown' = (IF setup.ssh_user THEN "SSH_USER" ELSE "none")
    /\ UNCHANGED <<process, field, attempt, faults, docker, accounts>>

CachedAccounts ==
    /\ \E f \in {"ssh_users", "admin_user"} : NeedsAccounts(f)
    /\ ~AccountsDue
    /\ shown' = "accounts"
    /\ UNCHANGED <<process, field, attempt, faults, docker, accounts>>

\* Their time is that before PowerShell is run.
Taken == cacheAge' = 0 /\ sinceTaken' = 0 /\ setBack' = 0

AskAccounts ==
    /\ \E f \in {"ssh_users", "admin_user"} : NeedsAccounts(f)
    /\ AccountsDue
    /\ cache' = "read" /\ Taken
    /\ shown' = "accounts"
    /\ UNCHANGED <<process, field, attempt, faults, docker>>

\* Mutant of KeepAccounts: an ask that failed counts as one.
KeepForTTL ==
    /\ cache' = (IF cache = "none" THEN "empty" ELSE cache)
    /\ cacheAge' = 0
    /\ UNCHANGED <<sinceTaken, setBack>>

\* Without an answer, what was read is kept, as old as it is; the first time
\* the empty lists are kept like an answer.
KeepAccounts ==
    IF cache = "none" THEN cache' = "empty" /\ Taken ELSE UNCHANGED accounts

\* PowerShell failed, or a thread to read its output could not be started.
AskAccountsFails ==
    /\ \E f \in {"ssh_users", "admin_user"} : NeedsAccounts(f)
    /\ AccountsDue
    /\ \/ /\ faults' = {<<"accounts", "refused">>}
          /\ KeepAccounts
          /\ shown' = "accounts" /\ UNCHANGED at
       \/ /\ faults' = {<<"accounts", "limit">>} /\ at' = "lost"
          /\ UNCHANGED <<accounts, shown>>
    /\ UNCHANGED <<setup, code, accepted, field, attempt, docker>>

\* Time matters to the cache only; a field that is done is done at once.
TimeMatters ==
    /\ setup.platform = "windows" /\ shown = "pending" /\ cache # "none"
    /\ UNCHANGED <<process, gathered, docker, cache>>

Older(age) == IF age < Long THEN age + 1 ELSE age

Tick ==
    /\ TimeMatters
    /\ cacheAge' = Older(cacheAge) /\ sinceTaken' = Older(sinceTaken)
    /\ UNCHANGED setBack

\* By NTP or by hand: time.time() is the clock of the machine.
ClockIsSet ==
    /\ TimeMatters
    /\ \/ cacheAge' = Older(cacheAge) /\ UNCHANGED setBack
       \/ setBack < MaxSetBack /\ setBack' = setBack + 1 /\ cacheAge' = cacheAge - 1
    /\ UNCHANGED sinceTaken

-----------------------------------------------------------------------------
Gather ==
    \/ Answers \/ Fails \/ NothingLeft \/ NextField
    \/ List \/ Stats \/ Images
    \/ NoAccounts \/ CachedAccounts \/ AskAccounts \/ AskAccountsFails

Next == Start \/ Gather \/ Post \/ Lose \/ Pause \/ Tick \/ ClockIsSet

Spec == Init /\ [][Next]_vars

-----------------------------------------------------------------------------
(* Properties.                                                             *)

Done(f) == at = "gather" /\ Fields[field] = f /\ shown # "pending"
Failed(source) == \E fault \in faults : fault[1] = source

(* Every variable keeps its type; no field has more attempts than sources. *)
TypeOK ==
    /\ setup \in Setups
    /\ at \in {"start", "gather", "lost", "post", "pause", "exit"}
    /\ code \in 0..1 /\ accepted \in BOOLEAN
    /\ field \in 1..Len(Fields) /\ attempt \in 1..5
    /\ ~Special(Fields[field]) => attempt <= Len(Chain(Fields[field])) + 1
    /\ docker.phase \in {"list", "stats", "image"}
    /\ docker.running \subseteq docker.listed /\ docker.listed \subseteq Container
    /\ docker.todo \subseteq docker.listed /\ docker.stats \subseteq docker.running
    /\ cache \in {"none", "empty", "read"}
    /\ cacheAge \in -MaxSetBack..Long /\ sinceTaken \in 0..Long
    /\ setBack \in 0..MaxSetBack

\* Who knows what, whichever collector asks: the sources of a field.
Knows ==
    [hostname   |-> {"host hostname"} \cup
                    (IF setup.platform = "docker" THEN {"dockerd"} ELSE {"own name"}),
     os_version |-> IF setup.platform = "docker" THEN {"host os-release", "dockerd"}
                    ELSE IF setup.platform = "windows" THEN {"registry"}
                    ELSE {"own os-release"},
     uptime     |-> {"proc uptime", "own boot time"},
     tailscale  |-> {"tailscale socket", "tailscale cli"},
     ssh_auth   |-> IF setup.platform = "windows" THEN {"event log"}
                    ELSE {"journal", "auth log"},
     power      |-> IF setup.platform = "docker" /\ setup.power = "unset"
                    THEN {"exporter", "gateway exporter"} ELSE {}]

\* The daemon is not asked for the system where an os-release of the host is
\* mounted, also if that cannot be read or names none (system.py:178).
PassedOver(f, source) ==
    /\ f = "os_version" /\ source = "dockerd"
    /\ "host os-release" \in setup.mounts

(* What a machine is called, runs and is reachable by is shown whenever    *)
(* one of those that know it answers, however the others fail, and a       *)
(* container is not shown under its own name or with the system of its     *)
(* image instead (system.py:31-34, 141-143, tailscale.py:107-112).  Two    *)
(* exceptions: a daemon that is passed over although what it is passed     *)
(* over for has failed, and what can be decoded but not understood, which  *)
(* ends the search; see the README.                                        *)
AnsweredIsShown ==
    \A f \in DOMAIN Knows :
        Done(f) /\ shown \in {"none", "own name", "own os-release"} =>
            \/ shown \in Knows[f]
            \/ \A source \in Knows[f] : Failed(source) \/ PassedOver(f, source)
            \/ \E fault \in faults : fault[2] \in {"garbled", "odd"}

(* "Any collector that has nothing to read degrades to empty rather than   *)
(* failing" (README.md:133): no report is lost where every source that     *)
(* failed was absent, empty or answered with an error.                     *)
NothingToReadIsNoError ==
    at = "lost" => \E fault \in faults :
        fault[2] \notin {"absent", "empty", "refused"}

(* A container that is listed is in the report, with its statistics if it  *)
(* runs, unless a request about itself was refused: one that is removed    *)
(* while the report is made takes no other with it.                        *)
ContainersAreListed ==
    Done("docker_containers") /\ shown = "dockerd" =>
        \A c \in docker.listed :
            \/ <<c, c \in docker.running>> \in docker.result
            \/ <<c, "image">> \in docker.refused
            \/ <<c, FALSE>> \in docker.result /\ <<c, "stats">> \in docker.refused

(* Accounts in a report were taken at most TTL ago, and the time the clock *)
(* was set back since, unless they have just been asked for in vain: then  *)
(* those that were taken before are shown.  What the first ask left empty  *)
(* is asked for again like an answer (users.py:30-36).                     *)
AccountsAreRecent ==
    (Done("ssh_users") \/ Done("admin_user")) /\ shown = "accounts" =>
        /\ cache # "none"
        /\ sinceTaken <= TTL + setBack \/ Failed("accounts")

(* --once is a self-test (main.py:27-28): it exits with 0 exactly when the *)
(* host has accepted a report.                                             *)
OnceTells == at = "exit" => (code = 0 <=> accepted)
=============================================================================
