--------------------------- MODULE AgentReadings ---------------------------
(***************************************************************************)
(* What the agent's collectors make of what they read, as operators:       *)
(* drives from the mount table, logins from log lines, the names offered   *)
(* for a login on Windows, shares of a container from its counters.        *)
(*                                                                         *)
(* A name has an identity, which Windows goes by, and a spelling; u.lower()*)
(* is the identity.  An optional value (None) is a set with at most one    *)
(* element.  Percentages are in tenths, rounded down.                      *)
(***************************************************************************)
EXTENDS Integers, SequencesExt

-----------------------------------------------------------------------------
(* Python's lists, as folds: SortSeq and SelectSeq are defined for TLC     *)
(* alone.  list.sort and sorted, by a rank of the elements: each goes      *)
(* before the first that ranks above it, so that equals keep their order.  *)

Insert(sorted, x, rank) ==
    LET above == {i \in DOMAIN sorted : rank[sorted[i]] > rank[x]}
    IN  InsertAt(sorted, Min(above \cup {Len(sorted) + 1}), x)

SortBy(seq, rank) == FoldLeft(LAMBDA sorted, x : Insert(sorted, x, rank), <<>>, seq)

(* A comprehension over a list: the elements that are in S, in order.      *)

AppendIf(kept, x, S) == IF x \in S THEN Append(kept, x) ELSE kept

Where(seq, S) == FoldLeft(LAMBDA kept, x : AppendIf(kept, x, S), <<>>, seq)

-----------------------------------------------------------------------------
(* system._disks.  A partition has a device, a mount point (0 is the       *)
(* system drive) and a kind: a file system that is skipped, a mount point  *)
(* that is a file, a drive that does not answer, or a good one.            *)

\* Mutant of Seen: the device is marked before the drive has answered.
SeenFirst(out, p) ==
    [out EXCEPT !.seen = @ \cup {p.device},
                !.disks = IF p.kind = "good" THEN Append(@, p) ELSE @]

\* disk_usage, and what follows it when it does not raise.
Seen(out, p) ==
    IF p.kind # "good" THEN out
    ELSE [seen |-> out.seen \cup {p.device}, disks |-> Append(out.disks, p)]

\* One turn of the loop: out and seen.
Visit(out, p) ==
    IF p.kind \in {"skipped", "file"} \/ p.device \in out.seen
    THEN out ELSE Seen(out, p)

Disks(partitions) ==
    LET found == FoldLeft(Visit, [seen |-> {}, disks |-> <<>>], partitions).disks
    IN  SortBy(found, [p \in Range(found) |-> p.mount])

-----------------------------------------------------------------------------
(* ssh_auth.  A line tells of a login that was accepted or failed, or of   *)
(* something else, and is in the window or older.                          *)

\* What journalctl prints, without -q, of a window with nothing in it.
NoEntries == [kind |-> "other", recent |-> TRUE]

\* journalctl --since, where there is a journal and it can be read.
LinesFromJournal(journal) ==
    IF journal = {} THEN <<>>
    ELSE LET recent == SelectSeq(CHOOSE lines \in journal : TRUE, LAMBDA line : line.recent)
         IN  IF recent = <<>> THEN <<NoEntries>> ELSE recent

\* readlines()[-max_lines:]
LinesFromAuthLog(lines, max) ==
    SubSeq(lines, 1 + (IF Len(lines) > max THEN Len(lines) - max ELSE 0), Len(lines))

SshLines(journal, log, max) ==
    LET lines == LinesFromJournal(journal)
    IN  IF lines = <<>> THEN LinesFromAuthLog(log, max) ELSE lines

Logins(lines) ==
    LET Of(kind) == SelectSeq(lines, LAMBDA line : line.kind = kind)
    IN  [accepted |-> Len(Of("accepted")), failed |-> Len(Of("failed")),
         lastAccepted |-> IF Of("accepted") = <<>> THEN {} ELSE {Last(Of("accepted"))}]

-----------------------------------------------------------------------------
(* users, on Windows.                                                      *)

Lower(name) == name.id
Lowered(names) == {Lower(names[i]) : i \in DOMAIN names}
SortedNames(names) == SortBy(names, [name \in Range(names) |-> Lower(name)])

\* _windows_accounts: enabled accounts but for the built-in ones, and those
\* of them that are administrators.
WindowsAccounts(data, skip) ==
    LET users == Where(data.users, {u \in Range(data.users) : Lower(u) \notin skip})
    IN  [users |-> users,
         admins |-> Where(users, {u \in Range(users) : Lower(u) \in Lowered(data.admins)})]

\* Mutant of WithoutConfigured: the spelling is compared.
WithoutSpelling(names, name) == Where(names, Range(names) \ {name})

WithoutConfigured(names, name) ==
    Where(names, {u \in Range(names) : Lower(u) # Lower(name)})

\* One turn of the loop over SSH_EXTRA_USERS.
Offer(names, name) ==
    IF Lower(name) \in Lowered(names) THEN names ELSE Append(names, name)

\* _windows_users: SSH_USER, the other administrators, everyone else, and
\* SSH_EXTRA_USERS.
WindowsUsers(accounts, configured, extra) ==
    LET others == Where(accounts.users, Range(accounts.users) \ Range(accounts.admins))
        ordered == SortedNames(accounts.admins) \o SortedNames(others)
        first == IF configured = <<>> THEN ordered
                 ELSE configured \o WithoutConfigured(ordered, Head(configured))
    IN  FoldLeft(Offer, first, extra)

-----------------------------------------------------------------------------
(* docker_containers.  Counters of one answer and of the sample before it; *)
(* the daemon leaves out what it does not know, which counts as 0.         *)

\* Mutant of CpuShare: a counter that went back is not looked for.
CpuShareOfAny(delta, whole, processors) ==
    IF whole > 0 THEN {(1000 * delta * processors) \div whole} ELSE {}

CpuShare(delta, whole, processors) ==
    IF whole > 0 /\ delta >= 0
    THEN {(1000 * delta * processors) \div whole} ELSE {}

\* _calc_cpu_percent: on Windows the whole is the time that passed, on each
\* of the processors, elsewhere the system's own counter.
CpuPercent(s) ==
    LET processors == IF s.processors = 0 THEN 1 ELSE s.processors
    IN  CpuShare(s.cpu - s.precpu,
                 IF s.windows THEN (s.system - s.presystem) * processors
                 ELSE s.system - s.presystem,
                 IF s.windows THEN 1 ELSE processors)

\* _calc_mem_percent
MemPercent(usage, inactive, limit) ==
    LET used == IF usage > inactive THEN usage - inactive ELSE 0
    IN  IF limit > 0 THEN {(1000 * used) \div limit} ELSE {}
=============================================================================
