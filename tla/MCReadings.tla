----------------------------- MODULE MCReadings -----------------------------
(***************************************************************************)
(* AgentReadings and PowerReadings over bounded inputs: the state is one   *)
(* input, which its first part gives a kind.                               *)
(***************************************************************************)
EXTENDS AgentReadings, PowerReadings

CONSTANTS
    MaxParts,       \* bound: entries of the mount table
    MaxLines,       \* the max_lines of the auth log; one line more is tried
    MaxCount,       \* bound on the counters of a container
    MaxRange        \* bound on max_energy_range_uj

ASSUME ReadingsAssumption == {MaxParts, MaxLines, MaxCount, MaxRange} \subseteq Nat

VARIABLE input

-----------------------------------------------------------------------------
Upto(n, S) == UNION {[1..k -> S] : k \in 0..n}

Partition == [device : 1..2, mount : 0..2, kind : {"skipped", "file", "silent", "good"}]
MountTables == Upto(MaxParts, Partition)

LogLine == [kind : {"accepted", "failed", "other"}, recent : BOOLEAN]

\* Accounts are told apart by identity; administrators are spelled freely.
Name == [id : 1..3, caps : BOOLEAN]
AccountLists == {a \in Upto(2, Name) : \A i, j \in DOMAIN a : a[i].id = a[j].id => i = j}

Tables == {<<"disks", t>> : t \in MountTables}
Logs   == {<<"log", j, l>> : j \in BOOLEAN, l \in Upto(MaxLines + 1, LogLine)}
Names  == {<<"names", u, a, c, e>> : u \in AccountLists,
              a \in Upto(1, Name), c \in Upto(1, Name), e \in Upto(1, Name)}

Samples ==
    {<<"cpu", s>> : s \in [windows : BOOLEAN, cpu : 0..MaxCount,
        precpu : 0..MaxCount, system : 0..MaxCount, presystem : 0..MaxCount,
        processors : 0..2]}
Usages   == {<<"memory", u, c, m>> : u, c, m \in 0..MaxCount}
Counters == {<<"rapl", m, l, e>> : m \in 1..MaxRange, l, e \in 0..MaxRange}
Loads    == {<<"psu", 500 * d>> : d \in 0..140}

Powers == [ac : {34 * a : a \in 0..5}, system : {30 * s : s \in 0..5},
           soc : {30 * c : c \in 0..5}]
Feeds  == {<<"smc", p, ls>> : p \in Powers, ls \in SUBSET {"ac", "system", "soc"}}

Inputs == Tables \cup Logs \cup Names
              \cup Samples \cup Usages \cup Counters \cup Loads \cup Feeds

Init == input \in Inputs
Next == UNCHANGED input
Spec == Init /\ [][Next]_input

-----------------------------------------------------------------------------
(* Properties.                                                             *)

(* Each device with a drive that answers is shown, once, under the first   *)
(* of its mount points that answers: one that does not (system.py:102)     *)
(* hides no other of the same device; and the system drive is first, with  *)
(* any others that are mounted on the same mount point.                    *)
DisksOnce ==
    input[1] = "disks" =>
        LET parts == input[2]
            disks == Disks(parts)
            good(d) == {i \in DOMAIN parts : parts[i].device = d /\ parts[i].kind = "good"}
        IN  /\ \A i, j \in DOMAIN disks : disks[i].device = disks[j].device => i = j
            /\ \A d \in 1..2 : good(d) # {} =>
                   \E i \in good(d) : /\ Contains(disks, parts[i])
                                      /\ \A j \in good(d) : i <= j
            /\ \A i \in DOMAIN disks : disks[i].mount = 0 =>
                   \A j \in 1..i : disks[j].mount = 0

(* Nobody is offered twice, however SSH_USER, SSH_EXTRA_USERS and Windows  *)
(* spell a name (users.py:63-65); nobody is left out; SSH_USER is first    *)
(* ("the terminal dropdown preselects the first entry"), administrators    *)
(* come before others.                                                     *)
NamesOnce ==
    input[1] = "names" =>
        LET accounts == WindowsAccounts([users |-> input[2], admins |-> input[3]], {3})
            offered == WindowsUsers(accounts, input[4], input[5])
            Admin(n) == Lower(n) \in Lowered(accounts.admins)
        IN  /\ \A i, j \in DOMAIN offered : offered[i].id = offered[j].id => i = j
            /\ Lowered(offered) =
                   Lowered(accounts.users) \cup Lowered(input[4]) \cup Lowered(input[5])
            /\ input[4] # <<>> => Head(offered) = Head(input[4])
            /\ \A i, j \in (1 + Len(input[4]))..Len(offered) :
                   Admin(offered[j]) /\ ~Admin(offered[i]) => j < i

(* A share of the processors or of the memory is none, or lies between 0   *)
(* and the whole: also for a container that was restarted between the two  *)
(* samples, whose counter went back, or whose cache exceeds its usage.     *)
(* All of the processors are 100 % on Windows, and 100 % each elsewhere.   *)
SharesAreShares ==
    /\ input[1] = "cpu" =>
           LET s == input[2]
               n == IF s.processors = 0 THEN 1 ELSE s.processors
               passed == s.system - s.presystem
               whole == IF s.windows THEN passed * n ELSE passed
               all == IF s.windows THEN 1000 ELSE 1000 * n
           IN  \A share \in CpuPercent(s) :
                   share >= 0 /\ (s.cpu - s.precpu <= whole => share <= all)
    /\ input[1] = "memory" =>
           \A share \in MemPercent(input[2], input[3], input[4]) :
               share >= 0 /\ (input[2] <= input[4] => share <= 1000)

(* The energy between two samples is what was used, or one unit less when  *)
(* the counter wrapped in between (pve_power.py:121-122), as long as less  *)
(* than the whole range of the counter was used.                           *)
EnergyIsUsed ==
    input[1] = "rapl" /\ input[4] <= input[2] =>
        LET max == input[2]
            used == input[4]
            energy == Energy(Counter(input[3], max), Counter(input[3] + used, max), max)
        IN  energy = used \/ (energy = used - 1 /\ used > 0)

(* A power supply takes more than it gives, and more for more (psu_ac); on *)
(* a Mac the components add up to the power at the wall, within the half   *)
(* watt between two sensors, whenever the wall feeds the machine, and none *)
(* is negative however its sensors disagree or are missing, one or all of  *)
(* them (pve_power.py:394-403).                                            *)
BreakdownAddsUp ==
    /\ input[1] = "psu" => /\ PsuAC(input[2]) > input[2]
                           /\ PsuAC(input[2] + 500) - 500 >= PsuAC(input[2])
    /\ input[1] = "smc" =>
           LET w == Sensors(input[2], input[3])
               r == SmcReading(w)
               sum == r.soc + r.rest + r.battery + r.charger
           IN  /\ \A part \in {r.soc, r.rest, r.battery, r.charger} : part >= 0
               /\ w.soc <= w.system /\ w.system <= w.ac =>
                      sum \in (r.wall - Skew)..r.wall

(* README.md:109 calls SSH_LOG_WINDOW_MINUTES the "Window for counting     *)
(* recent SSH logins": no login that is older is counted, whether there is *)
(* a journal or the lines are those of the auth log (ssh_auth.py:35-43).   *)
LoginsAreRecent ==
    input[1] = "log" =>
        LET journal == IF input[2] THEN {input[3]} ELSE {}
            counted == Logins(SshLines(journal, input[3], MaxLines))
        IN  counted.accepted <=
                Len(SelectSeq(input[3], LAMBDA l : l.recent /\ l.kind = "accepted"))
=============================================================================
