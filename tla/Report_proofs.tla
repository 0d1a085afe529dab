---------------------------- MODULE Report_proofs ----------------------------
(***************************************************************************)
(* Proofs about Report, for any containers and any time that the accounts  *)
(* are kept.                                                               *)
(***************************************************************************)
EXTENDS Report, TLAPS

-----------------------------------------------------------------------------
(* The self-test.                                                          *)

(* Until a report is posted none has been accepted, and no code is given   *)
(* out before the process exits.                                           *)
Unposted == at \in {"start", "gather", "lost", "post"} => ~accepted
NoCode   == at # "exit" => code = 0
Places   == at \in {"start", "gather", "lost", "post", "pause", "exit"}
TellInv  == Places /\ Unposted /\ NoCode /\ OnceTells

(* Gathering a report posts nothing and never ends the process.            *)
LEMMA GatherIsQuiet ==
    Gather => /\ at \in {"gather"} /\ at' \in {"gather", "lost", "post"}
              /\ UNCHANGED <<setup, code, accepted>>
<1> SUFFICES ASSUME Gather
             PROVE  /\ at \in {"gather"} /\ at' \in {"gather", "lost", "post"}
                    /\ UNCHANGED <<setup, code, accepted>>
  OBVIOUS
<1> USE DEF AtAttempt, AtField, process
<1>1. CASE Answers BY <1>1 DEF Answers
<1>2. CASE Fails BY <1>2 DEF Fails
<1>3. CASE NothingLeft BY <1>3 DEF NothingLeft
<1>4. CASE NextField BY <1>4 DEF NextField
<1>5. CASE List BY <1>5 DEF List
<1>6. CASE Stats BY <1>6 DEF Stats
<1>7. CASE Images BY <1>7 DEF Images
<1>8. CASE NoAccounts BY <1>8 DEF NoAccounts
<1>9. CASE CachedAccounts BY <1>9 DEF CachedAccounts, NeedsAccounts
<1>10. CASE AskAccounts BY <1>10 DEF AskAccounts, NeedsAccounts
<1>11. CASE AskAccountsFails BY <1>11 DEF AskAccountsFails, NeedsAccounts
<1> QED BY <1>1, <1>2, <1>3, <1>4, <1>5, <1>6, <1>7, <1>8, <1>9, <1>10, <1>11
        DEF Gather

LEMMA TellStep == TellInv /\ [Next]_vars => TellInv'
<1> SUFFICES ASSUME TellInv, [Next]_vars PROVE TellInv' OBVIOUS
<1> USE DEF TellInv, Places, Unposted, NoCode, OnceTells
<1>0. CASE UNCHANGED vars BY <1>0 DEF vars, process
<1>1. CASE Start BY <1>1 DEF Start
<1>2. CASE Gather BY <1>2, GatherIsQuiet
<1>3. CASE Post
  <2>1. /\ at = "post" /\ accepted' \in BOOLEAN
        /\ \/ at' = "exit" /\ code' = IF accepted' THEN 0 ELSE 1
           \/ at' = "pause" /\ UNCHANGED code
    BY <1>3 DEF Post
  <2> QED BY <2>1
<1>4. CASE Lose BY <1>4 DEF Lose
<1>5. CASE Pause BY <1>5 DEF Pause
<1>6. CASE Tick \/ ClockIsSet
  BY <1>6 DEF Tick, ClockIsSet, TimeMatters, process
<1> QED BY <1>0, <1>1, <1>2, <1>3, <1>4, <1>5, <1>6 DEF Next

(* --once exits with 0 exactly when the host has accepted a report, however *)
(* a collector, the start or the post failed (main.py:27-28, 66-73).       *)
THEOREM SelfTest == Spec => []OnceTells
<1>1. Init => TellInv
  BY DEF Init, TellInv, Places, Unposted, NoCode, OnceTells
<1>2. TellInv => OnceTells BY DEF TellInv
<1> QED BY <1>1, <1>2, TellStep, PTL DEF Spec

-----------------------------------------------------------------------------
(* The cache of the accounts.                                              *)

Ages ==
    /\ cacheAge \in -MaxSetBack..Long /\ sinceTaken \in 0..Long
    /\ setBack \in 0..MaxSetBack
Cache == cache \in {"none", "empty", "read"}

(* What is cached is older than the clock makes it by no more than the     *)
(* clock was set back.                                                     *)
TrueAge == sinceTaken <= cacheAge + setBack

(* A field with accounts has been asked for in this step of the report, or *)
(* found them young enough: time passes between fields only.               *)
Fresh ==
    (Done("ssh_users") \/ Done("admin_user")) /\ shown = "accounts" =>
        /\ cache # "none"
        /\ cacheAge <= TTL \/ Failed("accounts")

(* A report begins with the first source of its first field.               *)
Tries == attempt \in Nat \ {0}
Blank == at = "start" => shown = "pending"

CacheInv == Ages /\ Cache /\ TrueAge /\ Tries /\ Blank /\ Fresh

LEMMA FreshSuffices == CacheInv => AccountsAreRecent
<1> SUFFICES ASSUME CacheInv PROVE AccountsAreRecent OBVIOUS
<1>1. cacheAge <= TTL => sinceTaken <= TTL + setBack
  <2>1. \A a, b, c, d \in Int : a <= b + c /\ b <= d => a <= d + c OBVIOUS
  <2>2. cacheAge \in Int /\ sinceTaken \in Int /\ setBack \in Int /\ TTL \in Int
    BY ReportAssumption, SMT DEF CacheInv, Ages, ReportAssumption, Long
  <2> QED BY <2>1, <2>2, Zenon DEF CacheInv, TrueAge
<1> QED BY <1>1, Zenon DEF CacheInv, Fresh, AccountsAreRecent

LEMMA TriesStep == Tries /\ Blank /\ [Next]_vars => Tries' /\ Blank'
<1> SUFFICES ASSUME Tries, Blank, [Next]_vars PROVE Tries' /\ Blank' OBVIOUS
<1> USE DEF Tries, Blank
<1>1. CASE UNCHANGED attempt /\ (at' # "start" \/ UNCHANGED <<at, shown>>)
  BY <1>1
<1>2. CASE Fails
  <2>1. attempt' = attempt \/ attempt' = attempt + 1 BY <1>2 DEF Fails
  <2>2. attempt' \in Nat \ {0} BY <2>1, SMT
  <2>3. at' # "start" BY <1>2, GatherIsQuiet DEF Gather
  <2> QED BY <2>2, <2>3
<1>3. CASE NextField \/ Pause
  BY <1>3 DEF NextField, Pause
<1>4. CASE UNCHANGED vars BY <1>4, <1>1 DEF vars, process, gathered
<1>5. CASE Gather /\ ~Fails /\ ~NextField
  <2>1. at' # "start" BY <1>5, GatherIsQuiet
  <2>2. UNCHANGED attempt
    BY <1>5 DEF Gather, Answers, NothingLeft, List, Stats, Images, NoAccounts,
                CachedAccounts, AskAccounts, AskAccountsFails, gathered
  <2> QED BY <2>1, <2>2, <1>1
<1>6. CASE Start \/ Post \/ Lose \/ Tick \/ ClockIsSet
  BY <1>6, <1>1 DEF Start, Post, Lose, Tick, ClockIsSet, TimeMatters, process,
                    gathered
<1> QED BY <1>2, <1>3, <1>4, <1>5, <1>6 DEF Next

(* Only the two fields themselves show accounts.                           *)
LEMMA OthersShowNone ==
    ASSUME AtAttempt, Tries, Fields[field] \in {"ssh_users", "admin_user"}
    PROVE  Chain(Fields[field])[attempt].of # "accounts"
<1>1. Fields[field] = "ssh_users" BY DEF AtAttempt, Special
<1>2. Chain(Fields[field]) = Users BY <1>1 DEF Chain
<1>3. Len(Users) = 2 /\ Users[1].of = "host passwd" /\ Users[2].of = "pwd"
  BY DEF Users, Try
<1>4. attempt <= Len(Chain(Fields[field])) BY DEF AtAttempt
<1>5. attempt <= 2 BY <1>2, <1>3, <1>4, Zenon
<1>6. attempt = 1 \/ attempt = 2 BY <1>5, SMT DEF Tries
<1> QED BY <1>2, <1>3, <1>6

LEMMA AgesStep == Ages /\ Cache /\ TrueAge /\ [Next]_vars => Ages' /\ Cache' /\ TrueAge'
<1> SUFFICES ASSUME Ages, Cache, TrueAge, [Next]_vars PROVE Ages' /\ Cache' /\ TrueAge'
  OBVIOUS
<1>0. TTL \in Nat /\ MaxSetBack \in Nat /\ Long = TTL + MaxSetBack + 1
  BY ReportAssumption DEF ReportAssumption, Long
<1>1. CASE UNCHANGED accounts
  BY <1>1 DEF accounts, Ages, Cache, TrueAge, Long
<1>2. CASE cache' \in {"read", "empty"} /\ Taken
  <2>1. Ages' /\ TrueAge' BY <1>0, <1>2, SMT DEF Taken, Ages, TrueAge
  <2> QED BY <1>2, <2>1 DEF Cache
<1>3. CASE AskAccounts BY <1>2, <1>3 DEF AskAccounts
<1>4. CASE AskAccountsFails
  BY <1>1, <1>2, <1>4 DEF AskAccountsFails, KeepAccounts
<1>5. CASE Tick
  <2>1. /\ cacheAge' = (IF cacheAge < Long THEN cacheAge + 1 ELSE cacheAge)
        /\ sinceTaken' = (IF sinceTaken < Long THEN sinceTaken + 1 ELSE sinceTaken)
        /\ setBack' = setBack /\ cache' = cache
    BY <1>5 DEF Tick, TimeMatters, Older
  <2>2. Ages' /\ TrueAge' BY <1>0, <2>1, SMT DEF Ages, TrueAge
  <2> QED BY <2>1, <2>2 DEF Cache
<1>6. CASE ClockIsSet
  <2>1. /\ sinceTaken' = sinceTaken /\ cache' = cache
        /\ \/ /\ cacheAge' = (IF cacheAge < Long THEN cacheAge + 1 ELSE cacheAge)
              /\ setBack' = setBack
           \/ /\ setBack < MaxSetBack /\ setBack' = setBack + 1
              /\ cacheAge' = cacheAge - 1
    BY <1>6 DEF ClockIsSet, TimeMatters, Older
  <2>2. Ages' /\ TrueAge'
    <3>1. CASE cacheAge - 1 \in -MaxSetBack..Long
      BY <1>0, <2>1, <3>1, SMT DEF Ages, TrueAge
    <3>2. CASE ~(cacheAge - 1 \in -MaxSetBack..Long)
      BY <1>0, <2>1, <3>2, SMT DEF Ages, TrueAge
    <3> QED BY <3>1, <3>2
  <2> QED BY <2>1, <2>2 DEF Cache
<1> QED
  BY <1>1, <1>3, <1>4, <1>5, <1>6
  DEF Next, Gather, Start, Answers, Fails, NothingLeft, NextField, List, Stats,
      Images, NoAccounts, CachedAccounts, Post, Lose, Pause, vars

LEMMA FreshStep == CacheInv /\ [Next]_vars => Fresh'
<1> SUFFICES ASSUME CacheInv, [Next]_vars PROVE Fresh' OBVIOUS
<1> USE ReportAssumption DEF ReportAssumption, CacheInv
<1>0. CASE UNCHANGED vars
  BY <1>0 DEF vars, process, gathered, accounts, Fresh, Done, Failed
<1>1. CASE Answers
  <2>1. /\ AtAttempt /\ shown' = Chain(Fields[field])[attempt].of
        /\ field' = field /\ at' = at
    BY <1>1 DEF Answers, process
  <2>2. Fields[field] \in {"ssh_users", "admin_user"} => shown' # "accounts"
    BY <2>1, OthersShowNone
  <2> QED BY <2>1, <2>2 DEF Fresh, Done
<1>2. CASE Fails
  <2>1. shown' = "none" \/ shown' = "pending" BY <1>2 DEF Fails, AtAttempt
  <2> QED BY <2>1 DEF Fresh
<1>3. CASE NothingLeft BY <1>3 DEF NothingLeft, Fresh
<1>4. CASE NextField \/ Pause BY <1>4 DEF NextField, Pause, Fresh
<1>5. CASE List
  <2>1. shown' = "none" \/ shown' = "pending" BY <1>5 DEF List, AtField
  <2> QED BY <2>1 DEF Fresh
<1>6. CASE Stats
  <2>1. shown' = "pending" BY <1>6 DEF Stats, AtField, gathered
  <2> QED BY <2>1 DEF Fresh
<1>7. CASE Images
  <2>1. shown' = "dockerd" \/ shown' = "pending" BY <1>7 DEF Images, AtField
  <2> QED BY <2>1 DEF Fresh
<1>8. CASE NoAccounts
  <2>1. shown' = "SSH_USER" \/ shown' = "none" BY <1>8 DEF NoAccounts
  <2> QED BY <2>1 DEF Fresh
<1>9. CASE CachedAccounts
  <2>1. cache # "none" /\ ~(cacheAge > TTL)
    BY <1>9 DEF CachedAccounts, AccountsDue
  <2>2. cache' = cache /\ cacheAge' = cacheAge
    BY <1>9 DEF CachedAccounts, accounts
  <2>3. cacheAge' <= TTL BY <2>1, <2>2, SMT DEF Ages, Long
  <2> QED BY <2>1, <2>2, <2>3 DEF Fresh
<1>10. CASE AskAccounts
  <2>1. cache' = "read" /\ cacheAge' = 0 BY <1>10 DEF AskAccounts, Taken
  <2>2. cacheAge' <= TTL BY <2>1, SMT
  <2> QED BY <2>1, <2>2 DEF Fresh
<1>11. CASE AskAccountsFails
  <2>1. \/ faults' = {<<"accounts", "refused">>} /\ cache' # "none"
        \/ at' = "lost"
    BY <1>11 DEF AskAccountsFails, KeepAccounts, accounts
  <2>2. CASE at' = "lost" BY <2>2 DEF Fresh, Done
  <2>3. CASE faults' = {<<"accounts", "refused">>} /\ cache' # "none"
    <3>1. Failed("accounts")' BY <2>3 DEF Failed
    <3> QED BY <2>3, <3>1 DEF Fresh
  <2> QED BY <2>1, <2>2, <2>3
<1>12. CASE Tick \/ ClockIsSet
  <2>1. shown' = "pending"
    BY <1>12 DEF Tick, ClockIsSet, TimeMatters, gathered
  <2> QED BY <2>1 DEF Fresh
<1>13. CASE Start
  <2>1. shown' = shown /\ at' \in {"gather", "exit"} /\ at = "start"
    BY <1>13 DEF Start, gathered
  <2> QED BY <2>1 DEF Fresh, Blank
<1>14. CASE Post \/ Lose
  <2>1. at' \in {"exit", "pause"} BY <1>14 DEF Post, Lose
  <2> QED BY <2>1 DEF Fresh, Done
<1> QED
  BY <1>0, <1>1, <1>2, <1>3, <1>4, <1>5, <1>6, <1>7, <1>8, <1>9, <1>10, <1>11,
     <1>12, <1>13, <1>14 DEF Next, Gather

(* Accounts in a report were taken at most TTL ago, and the time the clock *)
(* was set back since, or were asked for again just before in vain         *)
(* (users.py:26-37): the age the agent computes falls behind the true one  *)
(* by no more than that, and a failed ask never passes for an answer.      *)
THEOREM RecentAccounts == Spec => []AccountsAreRecent
<1>1. Init => CacheInv
  <2> SUFFICES ASSUME Init PROVE CacheInv OBVIOUS
  <2>1. Ages /\ TrueAge
    BY ReportAssumption, SMT DEF Init, Ages, TrueAge, ReportAssumption, Long
  <2>2. Cache /\ Tries /\ Blank BY DEF Init, Cache, Tries, Blank
  <2>3. Fresh BY DEF Init, Fresh
  <2> QED BY <2>1, <2>2, <2>3 DEF CacheInv
<1>2. CacheInv /\ [Next]_vars => CacheInv'
  BY AgesStep, TriesStep, FreshStep DEF CacheInv
<1> QED BY <1>1, <1>2, FreshSuffices, PTL DEF Spec
-----------------------------------------------------------------------------
(* The containers.                                                         *)

Held ==
    docker \in [phase : {"list", "stats", "image"}, listed : SUBSET Container,
                running : SUBSET Container, todo : SUBSET Container,
                stats : SUBSET Container,
                result : SUBSET (Container \X BOOLEAN),
                refused : SUBSET (Container \X {"stats", "image"})]

Within == /\ docker.stats \subseteq docker.running
          /\ docker.running \subseteq docker.listed
          /\ docker.todo \subseteq docker.listed
Todo   == /\ docker.phase = "list" => docker.stats = {}
          /\ docker.phase = "stats" => docker.todo \subseteq docker.running

(* Whoever has been taken off the list of things to do was answered or     *)
(* refused, first for the statistics, then for the image.                  *)
StatsSo ==
    docker.phase \in {"stats", "image"} =>
        \A c \in docker.running :
            \/ docker.phase = "stats" /\ c \in docker.todo
            \/ c \in docker.stats \/ <<c, "stats">> \in docker.refused
ImagesSo ==
    docker.phase = "image" =>
        \A c \in docker.listed :
            \/ c \in docker.todo
            \/ <<c, c \in docker.stats>> \in docker.result
            \/ <<c, "image">> \in docker.refused

(* The field is filled when nothing is left to ask.                        *)
Filled ==
    Done("docker_containers") /\ shown = "dockerd" =>
        docker.phase = "image" /\ docker.todo = {}

Orderly   == Held /\ Within /\ Todo /\ StatsSo /\ ImagesSo
BlankInv  == Tries /\ Blank
DockerInv == Orderly /\ Filled

(* What is noted of a container is of the type of what was noted before.   *)
LEMMA Notes ==
    \A c \in Container :
        /\ <<c, "stats">> \in Container \X {"stats", "image"}
        /\ <<c, "image">> \in Container \X {"stats", "image"}
        /\ \A b \in BOOLEAN : <<c, b>> \in Container \X BOOLEAN
  BY Zenon

LEMMA IdleOrderly == docker' = Idle => Orderly'
<1> SUFFICES ASSUME docker' = Idle PROVE Orderly' OBVIOUS
<1>1. Idle \in [phase : {"list", "stats", "image"}, listed : SUBSET Container,
                running : SUBSET Container, todo : SUBSET Container,
                stats : SUBSET Container,
                result : SUBSET (Container \X BOOLEAN),
                refused : SUBSET (Container \X {"stats", "image"})]
  BY DEF Idle
<1>2. /\ docker'.phase = "list" /\ docker'.listed = {} /\ docker'.running = {}
      /\ docker'.stats = {} /\ docker'.todo = {}
  BY DEF Idle
<1> QED BY <1>1, <1>2 DEF Orderly, Held, Within, Todo, StatsSo, ImagesSo

LEMMA ListStep == Orderly /\ List => Orderly'
<1> SUFFICES ASSUME Orderly, List PROVE Orderly' OBVIOUS
<1>1. CASE UNCHANGED docker
  BY <1>1 DEF Orderly, Held, Within, Todo, StatsSo, ImagesSo
<1>2. ASSUME NEW there \in SUBSET Container, NEW running \in SUBSET there,
             docker' = [docker EXCEPT !.phase = "stats", !.listed = there,
                            !.running = running, !.todo = Live(there, running)]
      PROVE  Orderly'
  <2>1. docker.phase = "list" BY DEF List
  <2>2. /\ docker'.phase = "stats" /\ docker'.listed = there
        /\ docker'.running = running /\ docker'.todo = running
        /\ docker'.stats = docker.stats
    BY <1>2 DEF Live, Orderly, Held
  <2>3. Held'
    BY <1>2 DEF Live, Orderly, Held
  <2>4. Within' /\ Todo' BY <2>1, <2>2 DEF Orderly, Within, Todo
  <2>5. StatsSo' /\ ImagesSo' BY <2>2 DEF StatsSo, ImagesSo
  <2> QED BY <2>3, <2>4, <2>5 DEF Orderly
<1> QED BY <1>1, <1>2 DEF List

LEMMA StatsStep == Orderly /\ Stats => Orderly'
<1> SUFFICES ASSUME Orderly, Stats PROVE Orderly' OBVIOUS
<1> USE DEF Orderly
<1>0. docker.phase = "stats" BY DEF Stats
<1>1. ASSUME NEW c \in docker.todo,
             docker' = [docker EXCEPT !.todo = @ \ {c}, !.stats = @ \cup {c}]
      PROVE  Orderly'
  <2>1. /\ docker'.phase = docker.phase /\ docker'.listed = docker.listed
        /\ docker'.running = docker.running /\ docker'.refused = docker.refused
        /\ docker'.todo = docker.todo \ {c} /\ docker'.stats = docker.stats \cup {c}
    BY <1>1 DEF Held
  <2>2. c \in Container BY DEF Held
  <2>3. Held' BY <1>1, <2>2 DEF Held
  <2>4. Within' /\ Todo' BY <1>0, <2>1 DEF Within, Todo
  <2>5. StatsSo' /\ ImagesSo' BY <1>0, <2>1 DEF StatsSo, ImagesSo
  <2> QED BY <2>3, <2>4, <2>5
<1>2. ASSUME NEW c \in docker.todo, docker' = FetchFails(c)
      PROVE  Orderly'
  <2>1. /\ docker'.phase = docker.phase /\ docker'.listed = docker.listed
        /\ docker'.running = docker.running /\ docker'.stats = docker.stats
        /\ docker'.todo = docker.todo \ {c}
        /\ docker'.refused = docker.refused \cup {<<c, "stats">>}
    BY <1>2 DEF Held, FetchFails
  <2>2. c \in Container BY DEF Held
  <2>3. Held' BY <1>2, <2>2, Notes DEF Held, FetchFails
  <2>4. Within' /\ Todo' BY <1>0, <2>1 DEF Within, Todo
  <2>5. StatsSo' /\ ImagesSo' BY <1>0, <2>1 DEF StatsSo, ImagesSo
  <2> QED BY <2>3, <2>4, <2>5
<1>3. ASSUME docker' = [docker EXCEPT !.todo = {}, !.stats = {},
                 !.refused = @ \cup {<<c, "stats">> : c \in docker.running}]
      PROVE  Orderly'
  <2>1. /\ docker'.phase = docker.phase /\ docker'.listed = docker.listed
        /\ docker'.running = docker.running /\ docker'.stats = {}
        /\ docker'.todo = {}
        /\ docker'.refused =
               docker.refused \cup {<<c, "stats">> : c \in docker.running}
    BY <1>3 DEF Held
  <2>2. Held'
    <3> DEFINE lost == {<<c, "stats">> : c \in docker.running}
    <3>1. lost \subseteq Container \X {"stats", "image"} BY Notes DEF Held
    <3>2. docker' = [docker EXCEPT !.todo = {}, !.stats = {}, !.refused = @ \cup lost]
      BY <1>3
    <3> HIDE DEF lost
    <3> QED BY <3>1, <3>2 DEF Held
  <2>3. Within' /\ Todo' BY <1>0, <2>1 DEF Within, Todo
  <2>4. StatsSo' /\ ImagesSo' BY <1>0, <2>1 DEF StatsSo, ImagesSo
  <2> QED BY <2>2, <2>3, <2>4
<1>4. ASSUME docker.todo = {},
             docker' = [docker EXCEPT !.phase = "image", !.todo = docker.listed]
      PROVE  Orderly'
  <2>1. /\ docker'.phase = "image" /\ docker'.listed = docker.listed
        /\ docker'.running = docker.running /\ docker'.stats = docker.stats
        /\ docker'.todo = docker.listed /\ docker'.refused = docker.refused
    BY <1>4 DEF Held
  <2>2. Held' BY <1>4 DEF Held
  <2>3. Within' /\ Todo' BY <2>1 DEF Within, Todo
  <2>4. StatsSo' /\ ImagesSo' BY <1>0, <1>4, <2>1 DEF StatsSo, ImagesSo
  <2> QED BY <2>2, <2>3, <2>4
<1> QED BY <1>1, <1>2, <1>3, <1>4 DEF Stats

LEMMA ImagesStep == Orderly /\ Images => Orderly'
<1> SUFFICES ASSUME Orderly, Images PROVE Orderly' OBVIOUS
<1> USE DEF Orderly
<1>0. docker.phase = "image" BY DEF Images
<1>1. ASSUME NEW c \in docker.todo,
             docker' = [docker EXCEPT !.todo = @ \ {c},
                              !.result = @ \cup {<<c, c \in docker.stats>>}]
      PROVE  Orderly'
  <2>1. /\ docker'.phase = docker.phase /\ docker'.listed = docker.listed
        /\ docker'.running = docker.running /\ docker'.stats = docker.stats
        /\ docker'.todo = docker.todo \ {c} /\ docker'.refused = docker.refused
        /\ docker'.result = docker.result \cup {<<c, c \in docker.stats>>}
    BY <1>1 DEF Held
  <2>2. <<c, c \in docker.stats>> \in Container \X BOOLEAN
    <3>1. c \in Container /\ (c \in docker.stats) \in BOOLEAN BY DEF Held
    <3> QED BY <3>1, Notes, Zenon
  <2>3. Held'
    <3> DEFINE note == <<c, c \in docker.stats>>
    <3>1. docker' = [docker EXCEPT !.todo = @ \ {c}, !.result = @ \cup {note}]
      BY <1>1
    <3>2. note \in Container \X BOOLEAN BY <2>2
    <3> HIDE DEF note
    <3> QED BY <3>1, <3>2 DEF Held
  <2>4. Within' /\ Todo' BY <1>0, <2>1 DEF Within, Todo
  <2>5. StatsSo' /\ ImagesSo' BY <1>0, <2>1 DEF StatsSo, ImagesSo
  <2> QED BY <2>3, <2>4, <2>5
<1>2. ASSUME NEW c \in docker.todo,
             docker' = [docker EXCEPT !.todo = @ \ {c},
                              !.refused = @ \cup {<<c, "image">>}]
      PROVE  Orderly'
  <2>1. /\ docker'.phase = docker.phase /\ docker'.listed = docker.listed
        /\ docker'.running = docker.running /\ docker'.stats = docker.stats
        /\ docker'.todo = docker.todo \ {c} /\ docker'.result = docker.result
        /\ docker'.refused = docker.refused \cup {<<c, "image">>}
    BY <1>2 DEF Held
  <2>2. c \in Container BY DEF Held
  <2>3. Held' BY <1>2, <2>2, Notes DEF Held
  <2>4. Within' /\ Todo' BY <1>0, <2>1 DEF Within, Todo
  <2>5. StatsSo' /\ ImagesSo' BY <1>0, <2>1 DEF StatsSo, ImagesSo
  <2> QED BY <2>3, <2>4, <2>5
<1>3. CASE UNCHANGED docker
  BY <1>3 DEF Held, Within, Todo, StatsSo, ImagesSo
<1> QED BY <1>1, <1>2, <1>3 DEF Images

LEMMA OrderlyStep == Orderly /\ [Next]_vars => Orderly'
<1> SUFFICES ASSUME Orderly, [Next]_vars PROVE Orderly' OBVIOUS
<1>1. CASE UNCHANGED docker
  BY <1>1 DEF Orderly, Held, Within, Todo, StatsSo, ImagesSo
<1>2. CASE docker' = Idle BY <1>2, IdleOrderly
<1> QED
  BY <1>1, <1>2, ListStep, StatsStep, ImagesStep
  DEF Next, Gather, Start, Answers, Fails, NothingLeft, NextField, NoAccounts,
      CachedAccounts, AskAccounts, AskAccountsFails, Post, Lose, Pause, Tick,
      ClockIsSet, TimeMatters, vars

(* Nothing but the last step of the collector fills its field.             *)
LEMMA FilledStep == Blank /\ Filled /\ [Next]_vars => Filled'
<1> SUFFICES ASSUME Blank, Filled, [Next]_vars PROVE Filled' OBVIOUS
<1>1. CASE UNCHANGED vars
  BY <1>1 DEF vars, process, gathered, Filled, Done
<1>2. CASE Images
  <2>1. CASE shown' = shown
    BY <1>2, <2>1 DEF Images, AtField, Filled
  <2>2. CASE docker.todo = {} /\ UNCHANGED docker
    BY <1>2, <2>2 DEF Images, Filled
  <2> QED BY <1>2, <2>1, <2>2 DEF Images
<1>3. CASE List \/ Stats
  BY <1>3 DEF List, Stats, AtField, gathered, Filled
<1>4. CASE Answers \/ Fails \/ NothingLeft
  <2>1. Fields[field] # "docker_containers" /\ UNCHANGED field
    BY <1>4 DEF Answers, Fails, NothingLeft, AtAttempt, Special
  <2> QED BY <2>1 DEF Filled, Done
<1>5. CASE NextField \/ Pause BY <1>5 DEF NextField, Pause, Filled
<1>6. CASE NoAccounts \/ CachedAccounts \/ AskAccounts \/ AskAccountsFails
  <2>1. shown' # "dockerd"
    BY <1>6 DEF NoAccounts, CachedAccounts, AskAccounts, AskAccountsFails,
                NeedsAccounts, AtField
  <2> QED BY <2>1 DEF Filled
<1>7. CASE Start BY <1>7 DEF Start, gathered, Blank, Filled
<1>8. CASE Post \/ Lose
  <2>1. at' \in {"exit", "pause"} BY <1>8 DEF Post, Lose
  <2> QED BY <2>1 DEF Filled, Done
<1>9. CASE Tick \/ ClockIsSet
  BY <1>9 DEF Tick, ClockIsSet, TimeMatters, gathered, Filled
<1> QED BY <1>1, <1>2, <1>3, <1>4, <1>5, <1>6, <1>7, <1>8, <1>9 DEF Next, Gather

LEMMA FilledSuffices == DockerInv => ContainersAreListed
<1> SUFFICES ASSUME DockerInv, Done("docker_containers"), shown = "dockerd",
                    NEW c \in docker.listed
             PROVE  \/ <<c, c \in docker.running>> \in docker.result
                    \/ <<c, "image">> \in docker.refused
                    \/ /\ <<c, FALSE>> \in docker.result
                       /\ <<c, "stats">> \in docker.refused
  BY DEF ContainersAreListed
<1>1. docker.phase = "image" /\ docker.todo = {} BY DEF DockerInv, Filled
<1>2. <<c, c \in docker.stats>> \in docker.result \/ <<c, "image">> \in docker.refused
  BY <1>1 DEF DockerInv, Orderly, ImagesSo
<1>3. CASE c \in docker.stats
  <2>1. c \in docker.running BY <1>3 DEF DockerInv, Orderly, Within
  <2>2. (c \in docker.stats) = (c \in docker.running) BY <1>3, <2>1
  <2> QED BY <1>2, <2>2
<1>4. CASE c \notin docker.stats /\ c \notin docker.running
  <2>1. (c \in docker.stats) = (c \in docker.running) BY <1>4
  <2> QED BY <1>2, <2>1
<1>5. CASE c \notin docker.stats /\ c \in docker.running
  <2>1. <<c, "stats">> \in docker.refused
    BY <1>1, <1>5 DEF DockerInv, Orderly, StatsSo
  <2>2. (c \in docker.stats) = FALSE BY <1>5
  <2> QED BY <1>2, <2>1, <2>2
<1> QED BY <1>3, <1>4, <1>5

(* However the daemon refuses single requests and the pool orders them, a  *)
(* container that was listed is in the report, with its statistics if it   *)
(* runs, unless it was refused itself (docker_containers.py:110-146).      *)
THEOREM AllListed == Spec => []ContainersAreListed
<1>1. Init => DockerInv
  <2> SUFFICES ASSUME Init PROVE DockerInv OBVIOUS
  <2>1. docker = Idle BY DEF Init
  <2>2. Held BY <2>1 DEF Held, Idle
  <2>3. Within /\ Todo /\ StatsSo /\ ImagesSo
    BY <2>1 DEF Idle, Within, Todo, StatsSo, ImagesSo
  <2>4. Blank /\ Filled BY DEF Init, Blank, Filled
  <2> QED BY <2>2, <2>3, <2>4 DEF DockerInv, Orderly
<1>2. BlankInv /\ [Next]_vars => BlankInv' BY TriesStep DEF BlankInv
<1>3. Init => BlankInv BY DEF Init, BlankInv, Tries, Blank
<1>4. DockerInv /\ BlankInv /\ [Next]_vars => DockerInv'
  BY OrderlyStep, FilledStep, TriesStep DEF DockerInv, BlankInv
<1> QED BY <1>1, <1>2, <1>3, <1>4, FilledSuffices, PTL DEF Spec

-----------------------------------------------------------------------------
(* The sources of a field.                                                 *)

Ordinary == {"memory", "cpu", "disks", "hostname", "os_version",
             "hardware_model", "uptime", "local_ip", "tailscale", "ssh_auth",
             "ssh_users", "apt", "power"}

InFields == field \in 1..15
Tried    == Chain(Fields[field])
Usual    == ~Special(Fields[field])

(* What is empty, absent or refused is dealt with where it is met.         *)
Sound(a) ==
    FaultsOf(a.of) \cap {"absent", "empty", "refused"} \subseteq a.next \cup a.none

LEMMA UsualIsOrdinary == InFields /\ Usual => Fields[field] \in Ordinary
  BY DEF InFields, Usual, Special, Fields, Ordinary

LEMMA ChainsAre ==
    /\ \A f \in {"memory", "cpu", "disks"} : Chain(f) = Measured
    /\ Chain("hostname") = Hostname /\ Chain("os_version") = OsVersion
    /\ Chain("hardware_model") = HardwareModel /\ Chain("uptime") = Uptime
    /\ Chain("local_ip") = LocalIp /\ Chain("tailscale") = Tailscale
    /\ Chain("ssh_auth") = SshAuth /\ Chain("ssh_users") = Users
    /\ Chain("apt") = <<Try("updates", {}, {})>> /\ Chain("power") = Power
  BY DEF Chain

(* Every way in which a collector tries a source.                          *)
Attempts == {
    Try("psutil", {}, {}),
    Try("own name", {}, {}),
    Try("own boot time", {}, {}),
    Try("updates", {}, {}),
    Try("host hostname", OSErr \cup {"empty"}, {}),
    Try("dockerd", Any, {}),
    Try("registry", {}, Any),
    Try("tailscale cli", {}, Any),
    Try("event log", {}, Any),
    Try("pwd", {}, Any),
    Try("power.json", {}, Any),
    Try("synology", OSErr \cup {"empty"}, Any),
    Try("host os-release", OSErr \cup {"empty"}, Any),
    Try("own os-release", OSErr \cup {"empty"}, Any),
    Try("device tree", OSErr \cup {"empty"}, Any),
    Try("dmi", OSErr \cup {"empty"}, Any),
    Try("proc uptime", OSErr \cup {"garbled"}, {}),
    Try("route", {}, {"os error"}),
    Try("tailscale socket", OSErr \cup {"slow", "refused", "garbled"}, {"odd"}),
    Try("journal", {"absent", "refused", "empty"}, {}),
    Try("auth log", {}, {"absent", "denied", "empty"}),
    Try("host passwd", OSErr, {"empty"}),
    Try("exporter", {"absent", "slow", "garbled", "empty"}, {}),
    Try("gateway exporter", {"absent", "slow", "garbled", "empty"}, {})}

LEMMA AttemptsSound == \A a \in Attempts : Sound(a)
<1>1. /\ Sound(Try("psutil", {}, {}))
      /\ Sound(Try("own name", {}, {}))
      /\ Sound(Try("own boot time", {}, {}))
      /\ Sound(Try("updates", {}, {}))
      /\ Sound(Try("host hostname", OSErr \cup {"empty"}, {}))
      /\ Sound(Try("dockerd", Any, {}))
      /\ Sound(Try("registry", {}, Any))
      /\ Sound(Try("tailscale cli", {}, Any))
      /\ Sound(Try("event log", {}, Any))
      /\ Sound(Try("pwd", {}, Any))
      /\ Sound(Try("power.json", {}, Any))
      /\ Sound(Try("synology", OSErr \cup {"empty"}, Any))
  BY DEF Sound, Try, FaultsOf, OSErr, Any
<1>2. /\ Sound(Try("host os-release", OSErr \cup {"empty"}, Any))
      /\ Sound(Try("own os-release", OSErr \cup {"empty"}, Any))
      /\ Sound(Try("device tree", OSErr \cup {"empty"}, Any))
      /\ Sound(Try("dmi", OSErr \cup {"empty"}, Any))
      /\ Sound(Try("proc uptime", OSErr \cup {"garbled"}, {}))
      /\ Sound(Try("route", {}, {"os error"}))
      /\ Sound(Try("tailscale socket", OSErr \cup {"slow", "refused", "garbled"}, {"odd"}))
      /\ Sound(Try("journal", {"absent", "refused", "empty"}, {}))
      /\ Sound(Try("auth log", {}, {"absent", "denied", "empty"}))
      /\ Sound(Try("host passwd", OSErr, {"empty"}))
      /\ Sound(Try("exporter", {"absent", "slow", "garbled", "empty"}, {}))
      /\ Sound(Try("gateway exporter", {"absent", "slow", "garbled", "empty"}, {}))
  BY DEF Sound, Try, FaultsOf, OSErr, Any
<1> QED BY <1>1, <1>2, Zenon DEF Attempts

(* Every attempt is made at a source.                                      *)
Named(a) == a.of # "none"

LEMMA AttemptsNamed == \A a \in Attempts : Named(a)
<1>1. /\ Named(Try("psutil", {}, {}))
      /\ Named(Try("own name", {}, {}))
      /\ Named(Try("own boot time", {}, {}))
      /\ Named(Try("updates", {}, {}))
      /\ Named(Try("host hostname", OSErr \cup {"empty"}, {}))
      /\ Named(Try("dockerd", Any, {}))
      /\ Named(Try("registry", {}, Any))
      /\ Named(Try("tailscale cli", {}, Any))
      /\ Named(Try("event log", {}, Any))
      /\ Named(Try("pwd", {}, Any))
      /\ Named(Try("power.json", {}, Any))
      /\ Named(Try("synology", OSErr \cup {"empty"}, Any))
  BY DEF Named, Try
<1>2. /\ Named(Try("host os-release", OSErr \cup {"empty"}, Any))
      /\ Named(Try("own os-release", OSErr \cup {"empty"}, Any))
      /\ Named(Try("device tree", OSErr \cup {"empty"}, Any))
      /\ Named(Try("dmi", OSErr \cup {"empty"}, Any))
      /\ Named(Try("proc uptime", OSErr \cup {"garbled"}, {}))
      /\ Named(Try("route", {}, {"os error"}))
      /\ Named(Try("tailscale socket", OSErr \cup {"slow", "refused", "garbled"}, {"odd"}))
      /\ Named(Try("journal", {"absent", "refused", "empty"}, {}))
      /\ Named(Try("auth log", {}, {"absent", "denied", "empty"}))
      /\ Named(Try("host passwd", OSErr, {"empty"}))
      /\ Named(Try("exporter", {"absent", "slow", "garbled", "empty"}, {}))
      /\ Named(Try("gateway exporter", {"absent", "slow", "garbled", "empty"}, {}))
  BY DEF Named, Try
<1> QED BY <1>1, <1>2, Zenon DEF Attempts

Short(c) == c \in Seq(Attempts) /\ Len(c) \in {0, 1, 2, 3, 4}

LEMMA ChainsOfAttempts == \A f \in Ordinary : Short(Chain(f))
<1>1. Short(Measured)
  <2>1. /\ Try("psutil", {}, {}) \in Attempts
    BY Zenon DEF Attempts
  <2> QED BY <2>1 DEF Short, Measured
<1>2. Short(Hostname)
  <2> DEFINE a == Try("host hostname", OSErr \cup {"empty"}, {})
             b == Try("dockerd", Any, {})
             c == Try("own name", {}, {})
  <2>1. {a, b, c} \subseteq Attempts BY Zenon DEF Attempts
  <2>2. Hostname = <<a, b, c>> \/ Hostname = <<a, c>>
    BY Zenon DEF Hostname
  <2> HIDE DEF a, b, c
  <2>3. Short(<<a, b, c>>) /\ Short(<<a, c>>)
    BY <2>1 DEF Short
  <2> QED BY <2>2, <2>3, Zenon
<1>3. Short(OsVersion)
  <2> DEFINE a == Try("registry", {}, Any)
             b == Try("dockerd", Any, {})
             c == Try("synology", OSErr \cup {"empty"}, Any)
             d == Try("host os-release", OSErr \cup {"empty"}, Any)
             e == Try("own os-release", OSErr \cup {"empty"}, Any)
  <2>1. {a, b, c, d, e} \subseteq Attempts BY Zenon DEF Attempts
  <2>2. OsVersion = <<a>> \/ OsVersion = <<c, b, d, e>> \/ OsVersion = <<c, d, e>>
    BY Zenon DEF OsVersion
  <2> HIDE DEF a, b, c, d, e
  <2>3. Short(<<a>>) /\ Short(<<c, b, d, e>>) /\ Short(<<c, d, e>>)
    BY <2>1 DEF Short
  <2> QED BY <2>2, <2>3, Zenon
<1>4. Short(HardwareModel)
  <2> DEFINE a == Try("registry", {}, Any)
             b == Try("synology", OSErr \cup {"empty"}, Any)
             c == Try("device tree", OSErr \cup {"empty"}, Any)
             d == Try("dmi", OSErr \cup {"empty"}, Any)
  <2>1. {a, b, c, d} \subseteq Attempts BY Zenon DEF Attempts
  <2>2. HardwareModel = <<a>> \/ HardwareModel = <<b, c, d>>
    BY Zenon DEF HardwareModel
  <2> HIDE DEF a, b, c, d
  <2>3. Short(<<a>>) /\ Short(<<b, c, d>>)
    BY <2>1 DEF Short
  <2> QED BY <2>2, <2>3, Zenon
<1>5. Short(Uptime)
  <2> DEFINE a == Try("proc uptime", OSErr \cup {"garbled"}, {})
             b == Try("own boot time", {}, {})
  <2>1. {a, b} \subseteq Attempts BY Zenon DEF Attempts
  <2>2. Uptime = <<a, b>>
    BY Zenon DEF Uptime
  <2> HIDE DEF a, b
  <2> QED BY <2>1, <2>2 DEF Short
<1>6. Short(LocalIp)
  <2> DEFINE a == Try("route", {}, {"os error"})
  <2>1. {a} \subseteq Attempts BY Zenon DEF Attempts
  <2>2. LocalIp = <<>> \/ LocalIp = <<a>>
    BY Zenon DEF LocalIp
  <2> HIDE DEF a
  <2>3. Short(<<>>) /\ Short(<<a>>)
    BY <2>1 DEF Short
  <2> QED BY <2>2, <2>3, Zenon
<1>7. Short(Tailscale)
  <2> DEFINE a == Try("tailscale socket", OSErr \cup {"slow", "refused", "garbled"}, {"odd"})
             b == Try("tailscale cli", {}, Any)
  <2>1. {a, b} \subseteq Attempts BY Zenon DEF Attempts
  <2>2. Tailscale = <<a, b>>
    BY Zenon DEF Tailscale
  <2> HIDE DEF a, b
  <2> QED BY <2>1, <2>2 DEF Short
<1>8. Short(SshAuth)
  <2> DEFINE a == Try("event log", {}, Any)
             b == Try("journal", {"absent", "refused", "empty"}, {})
             c == Try("auth log", {}, {"absent", "denied", "empty"})
  <2>1. {a, b, c} \subseteq Attempts BY Zenon DEF Attempts
  <2>2. SshAuth = <<a>> \/ SshAuth = <<b, c>>
    BY Zenon DEF SshAuth
  <2> HIDE DEF a, b, c
  <2>3. Short(<<a>>) /\ Short(<<b, c>>)
    BY <2>1 DEF Short
  <2> QED BY <2>2, <2>3, Zenon
<1>9. Short(Users)
  <2> DEFINE a == Try("host passwd", OSErr, {"empty"})
             b == Try("pwd", {}, Any)
  <2>1. {a, b} \subseteq Attempts BY Zenon DEF Attempts
  <2>2. Users = <<a, b>>
    BY Zenon DEF Users
  <2> HIDE DEF a, b
  <2> QED BY <2>1, <2>2 DEF Short
<1>10. Short(Power)
  <2> DEFINE a == Try("power.json", {}, Any)
             b == Try("exporter", {"absent", "slow", "garbled", "empty"}, {})
             c == Try("gateway exporter", {"absent", "slow", "garbled", "empty"}, {})
  <2>1. {a, b, c} \subseteq Attempts BY Zenon DEF Attempts
  <2>2. Power = <<>> \/ Power = <<a>> \/ Power = <<b>> \/ Power = <<b, c>>
    BY Zenon DEF Power
  <2> HIDE DEF a, b, c
  <2>3. Short(<<>>) /\ Short(<<a>>) /\ Short(<<b>>) /\ Short(<<b, c>>)
    BY <2>1 DEF Short
  <2> QED BY <2>2, <2>3, Zenon
<1>11. Short(<<Try("updates", {}, {})>>)
  <2>1. Try("updates", {}, {}) \in Attempts BY Zenon DEF Attempts
  <2> QED BY <2>1 DEF Short
<1> QED
  BY <1>1, <1>2, <1>3, <1>4, <1>5, <1>6, <1>7, <1>8, <1>9, <1>10, <1>11,
     ChainsAre, Zenon DEF Ordinary

LEMMA UsualIsShort == InFields /\ Usual => Short(Tried)
  BY UsualIsOrdinary, ChainsOfAttempts, Zenon DEF Tried

-----------------------------------------------------------------------------
(* Where the collectors stand.                                             *)

Counted ==
    /\ Usual => attempt <= Len(Tried) + 1
    /\ ~Usual => attempt = 1

WhereInv == InFields /\ Tries /\ Counted

(* A source that is tried is tried in one of the ways above.               *)
LEMMA TriedIsAttempt ==
    ASSUME WhereInv, AtAttempt
    PROVE  /\ Tried \in Seq(Attempts) /\ Len(Tried) \in {0, 1, 2, 3, 4}
           /\ attempt \in 1..Len(Tried) /\ Tried[attempt] \in Attempts
<1>1. Tried \in Seq(Attempts) /\ Len(Tried) \in {0, 1, 2, 3, 4}
  BY UsualIsShort DEF Short, WhereInv, Usual, AtAttempt
<1>2. attempt \in 1..Len(Tried)
  BY <1>1 DEF AtAttempt, Tried, WhereInv, Tries
<1>3. Tried[attempt] \in Attempts BY <1>1, <1>2
<1> QED BY <1>1, <1>2, <1>3

(* Nothing but a report that is lost, or begins, moves on.                 *)
LEMMA Elsewhere ==
    ASSUME [Next]_vars, ~Fails, ~NextField, ~Pause
    PROVE  UNCHANGED <<setup, field, attempt>>
  BY DEF Next, Gather, Start, Answers, NothingLeft, List, Stats, Images,
         NoAccounts, CachedAccounts, AskAccounts, AskAccountsFails, Post, Lose,
         Tick, ClockIsSet, TimeMatters, vars, process, gathered

LEMMA WhereStep == WhereInv /\ [Next]_vars => WhereInv'
<1> SUFFICES ASSUME WhereInv, [Next]_vars PROVE WhereInv' OBVIOUS
<1>1. ASSUME UNCHANGED <<setup, field, attempt>> PROVE WhereInv'
  <2>1. Usual' = Usual BY <1>1 DEF Usual, Special
  <2>2. Tried' = Tried
    BY <1>1 DEF Tried, Chain, Measured, Hostname, OsVersion, HardwareModel,
                Uptime, LocalIp, Tailscale, SshAuth, Users, Power
  <2> QED BY <1>1, <2>1, <2>2 DEF WhereInv, InFields, Tries, Counted
<1>2. ASSUME attempt' = 1, InFields' PROVE WhereInv'
  <2>1. Usual' => Len(Tried') \in {0, 1, 2, 3, 4}
    <3>1. (InFields /\ Usual => Short(Tried))' BY UsualIsShort, PTL
    <3> QED BY <1>2, <3>1 DEF Short
  <2> QED BY <1>2, <2>1 DEF WhereInv, Tries, Counted
<1>3. CASE Fails
  <2>1. AtAttempt /\ UNCHANGED <<setup, field>>
    BY <1>3 DEF Fails
  <2>2. attempt' = attempt \/ attempt' = attempt + 1
    BY <1>3 DEF Fails
  <2>3. Usual' = Usual /\ Usual BY <2>1 DEF Usual, Special, AtAttempt
  <2>4. Tried' = Tried
    BY <2>1 DEF Tried, Chain, Measured, Hostname, OsVersion, HardwareModel,
                Uptime, LocalIp, Tailscale, SshAuth, Users, Power
  <2>5. attempt \in 1..Len(Tried) /\ Len(Tried) \in {0, 1, 2, 3, 4}
    BY <2>1, TriedIsAttempt
  <2>6. attempt' \in Nat \ {0} /\ attempt' <= Len(Tried) + 1 BY <2>2, <2>5
  <2> QED BY <2>1, <2>3, <2>4, <2>6 DEF WhereInv, InFields, Tries, Counted
<1>4. CASE NextField
  <2>1. Len(Fields) = 15 BY DEF Fields
  <2>2. /\ attempt' = 1
        /\ \/ field' = 1
           \/ field < Len(Fields) /\ field' = field + 1
    BY <1>4, Zenon DEF NextField
  <2>3. InFields' BY <2>1, <2>2 DEF WhereInv, InFields
  <2> QED BY <1>2, <2>2, <2>3
<1>5. CASE Pause
  <2>1. attempt' = 1 /\ field' = 1 BY <1>5 DEF Pause
  <2>2. InFields' BY <2>1 DEF InFields
  <2> QED BY <1>2, <2>1, <2>2
<1> QED BY <1>1, <1>3, <1>4, <1>5, Elsewhere

LEMMA WhereStart == Init => WhereInv
<1> SUFFICES ASSUME Init PROVE WhereInv OBVIOUS
<1>1. field = 1 /\ attempt = 1 BY DEF Init
<1>2. InFields /\ Tries BY <1>1 DEF InFields, Tries
<1>3. Usual => Len(Tried) \in {0, 1, 2, 3, 4}
  BY <1>2, UsualIsShort DEF Short
<1> QED BY <1>1, <1>2, <1>3 DEF WhereInv, Counted

(* What is absent, empty or refused is dealt with by the collector that    *)
(* meets it, in every field and on every platform: no report is lost over  *)
(* it (README.md:133; the except clauses of client/collectors).            *)
THEOREM NothingToReadIsFine == Spec => []NothingToReadIsNoError
<1> DEFINE Lost == at = "lost" => \E fault \in faults :
                       fault[2] \notin {"absent", "empty", "refused"}
<1>1. Init => Lost BY DEF Init
<1>2. WhereInv /\ Lost /\ [Next]_vars => Lost'
  <2> SUFFICES ASSUME WhereInv, Lost, [Next]_vars, at' = "lost"
               PROVE  \E fault \in faults' :
                          fault[2] \notin {"absent", "empty", "refused"}
    OBVIOUS
  <2>1. CASE UNCHANGED <<at, faults>> BY <2>1
  <2>2. CASE Fails
    <3>1. PICK fault \in FaultsOf(Tried[attempt].of) :
              /\ faults' = faults \cup {<<Tried[attempt].of, fault>>}
              /\ at' = (IF fault \in Tried[attempt].next \cup Tried[attempt].none
                        THEN at ELSE "lost")
      BY <2>2 DEF Fails, Tried
    <3>2. at = "gather" /\ Tried[attempt] \in Attempts
      BY <2>2, TriedIsAttempt DEF Fails, AtAttempt
    <3>3. fault \notin Tried[attempt].next \cup Tried[attempt].none
      BY <3>1, <3>2
    <3>4. fault \notin {"absent", "empty", "refused"}
      BY <3>2, <3>3, AttemptsSound DEF Sound
    <3>5. <<Tried[attempt].of, fault>>[2] = fault OBVIOUS
    <3> QED BY <3>1, <3>4, <3>5
  <2>3. CASE AskAccountsFails
    <3>1. at = "gather" /\ (at' = at \/ faults' = {<<"accounts", "limit">>})
      BY <2>3 DEF AskAccountsFails, NeedsAccounts, AtField
    <3>2. <<"accounts", "limit">> \in faults' BY <3>1
    <3>3. <<"accounts", "limit">>[2] = "limit" OBVIOUS
    <3> QED BY <3>2, <3>3
  <2> QED
    BY <2>1, <2>2, <2>3
    DEF Next, Gather, Start, Answers, NothingLeft, NextField, List, Stats,
        Images, NoAccounts, CachedAccounts, AskAccounts, Post, Lose, Pause, Tick,
        ClockIsSet, TimeMatters, vars, process, gathered, AtField, AtAttempt,
        NeedsAccounts
<1> QED BY <1>1, <1>2, WhereStart, WhereStep, PTL DEF Spec, NothingToReadIsNoError

(* The machine stays what it is, and the answers are of their type.        *)
Plain == setup \in Setups /\ code \in 0..1 /\ accepted \in BOOLEAN /\ Places

LEMMA PlainStep == Plain /\ [Next]_vars => Plain'
<1> SUFFICES ASSUME Plain, [Next]_vars PROVE Plain' OBVIOUS
<1>1. CASE UNCHANGED vars BY <1>1 DEF vars, process, Plain, Places
<1>2. CASE Start BY <1>2 DEF Start, Plain, Places
<1>3. CASE Gather BY <1>3, GatherIsQuiet DEF Plain, Places
<1>4. CASE Post
  <2>1. /\ accepted' \in BOOLEAN /\ setup' = setup
        /\ \/ at' = "exit" /\ code' = IF accepted' THEN 0 ELSE 1
           \/ at' = "pause" /\ UNCHANGED code
    BY <1>4 DEF Post
  <2> QED BY <2>1 DEF Plain, Places
<1>5. CASE Lose BY <1>5 DEF Lose, Plain, Places
<1>6. CASE Pause BY <1>6 DEF Pause, Plain, Places
<1>7. CASE Tick \/ ClockIsSet
  BY <1>7 DEF Tick, ClockIsSet, TimeMatters, process, Plain, Places
<1> QED BY <1>1, <1>2, <1>3, <1>4, <1>5, <1>6, <1>7 DEF Next

(* Every variable keeps its type; no field has more attempts than sources, *)
(* and statistics are asked only of containers that run                    *)
(* (client/sender.py, docker_containers.py:110-146).                       *)
THEOREM Typed == Spec => []TypeOK
<1>1. Init => Plain /\ Ages /\ Cache /\ TrueAge /\ Orderly
  <2> SUFFICES ASSUME Init PROVE Plain /\ Ages /\ Cache /\ TrueAge /\ Orderly OBVIOUS
  <2>1. Ages /\ TrueAge
    BY ReportAssumption, SMT DEF Init, Ages, TrueAge, ReportAssumption, Long
  <2>2. docker = Idle BY DEF Init
  <2>3. Held BY <2>2 DEF Held, Idle
  <2>4. Within /\ Todo /\ StatsSo /\ ImagesSo
    BY <2>2 DEF Idle, Within, Todo, StatsSo, ImagesSo
  <2>5. code \in 0..1 BY SMT DEF Init
  <2>6. Plain BY <2>5, Zenon DEF Init, Plain, Places
  <2>7. Cache BY Zenon DEF Init, Cache
  <2> QED BY <2>1, <2>3, <2>4, <2>6, <2>7 DEF Orderly
<1>2. Plain /\ Ages /\ Cache /\ Orderly /\ WhereInv => TypeOK
  <2> SUFFICES ASSUME Plain, Ages, Cache, Orderly, WhereInv PROVE TypeOK OBVIOUS
  <2>1. field \in 1..Len(Fields)
    <3>1. Len(Fields) = 15 BY DEF Fields
    <3> QED BY <3>1 DEF WhereInv, InFields
  <2>2. /\ attempt \in 1..5
        /\ ~Special(Fields[field]) => attempt <= Len(Chain(Fields[field])) + 1
    <3>1. Usual => attempt <= Len(Tried) + 1 BY DEF WhereInv, Counted
    <3>2. Usual => Len(Tried) \in {0, 1, 2, 3, 4}
      BY UsualIsShort DEF WhereInv, Short
    <3>3. attempt \in Nat \ {0} /\ (~Usual => attempt = 1)
      BY DEF WhereInv, Tries, Counted
    <3>4. Usual => attempt \in 1..5
      <4>1. \A a \in Nat \ {0}, n \in {0, 1, 2, 3, 4} : a <= n + 1 => a \in 1..5
        OBVIOUS
      <4> QED BY <3>1, <3>2, <3>3, <4>1, Zenon
    <3>5. ~Usual => attempt \in 1..5 BY <3>3, SMT
    <3>6. attempt \in 1..5 BY <3>4, <3>5
    <3> QED BY <3>1, <3>6, Zenon DEF Usual, Tried
  <2>3. /\ docker.phase \in {"list", "stats", "image"}
        /\ docker.running \subseteq docker.listed /\ docker.listed \subseteq Container
        /\ docker.todo \subseteq docker.listed /\ docker.stats \subseteq docker.running
    BY DEF Orderly, Held, Within
  <2>4. /\ cacheAge \in -MaxSetBack..Long /\ sinceTaken \in 0..Long
        /\ setBack \in 0..MaxSetBack
    BY Zenon DEF Ages
  <2> QED BY <2>1, <2>2, <2>3, <2>4 DEF TypeOK, Plain, Places, Cache
<1> QED BY <1>1, <1>2, WhereStart, WhereStep, PlainStep, AgesStep, OrderlyStep,
          PTL DEF Spec

-----------------------------------------------------------------------------
(* Whoever knows is asked.                                                 *)

\* Those of them that are not passed over.
Asked ==
    [hostname   |-> Knows.hostname,
     os_version |-> IF setup.platform = "docker"
                    THEN {"host os-release"} \cup
                         (IF "host os-release" \in setup.mounts THEN {} ELSE {"dockerd"})
                    ELSE IF setup.platform = "windows" THEN {"registry"}
                    ELSE {"own os-release"},
     uptime     |-> Knows.uptime,
     tailscale  |-> Knows.tailscale,
     ssh_auth   |-> Knows.ssh_auth,
     power      |-> Knows.power]

AllAsked ==
    \A f \in DOMAIN Asked :
        Done(f) /\ shown \in {"none", "own name", "own os-release"} =>
            \/ shown \in Asked[f]
            \/ \A source \in Asked[f] : Failed(source)
            \/ \E fault \in faults : fault[2] \in {"garbled", "odd"}

(* Every field whose sources are compared is a usual one.                  *)
Compared == {"hostname", "os_version", "uptime", "tailscale", "ssh_auth", "power"}

LEMMA AskedCompared == DOMAIN Asked = Compared
  BY DEF Asked, Compared

LEMMA AskedOrPassedOver ==
    ASSUME NEW f \in DOMAIN Knows
    PROVE  /\ f \in DOMAIN Asked /\ Asked[f] \subseteq Knows[f]
           /\ \A s \in Knows[f] : s \in Asked[f] \/ PassedOver(f, s)
<1>1. f \in {"hostname", "os_version", "uptime", "tailscale", "ssh_auth", "power"}
  BY DEF Knows
<1>2. CASE f = "os_version" BY <1>2 DEF Knows, Asked, PassedOver
<1>3. CASE f # "os_version"
  <2>0. f \in Compared BY <1>1, Zenon DEF Compared
  <2>1. f \in DOMAIN Asked BY <2>0, AskedCompared, Zenon
  <2>2. /\ Asked["hostname"] = Knows["hostname"]
        /\ Asked["uptime"] = Knows["uptime"]
        /\ Asked["tailscale"] = Knows["tailscale"]
        /\ Asked["ssh_auth"] = Knows["ssh_auth"]
        /\ Asked["power"] = Knows["power"]
    BY DEF Asked
  <2>3. Asked[f] = Knows[f] BY <1>1, <1>3, <2>2, Zenon
  <2> QED BY <2>1, <2>3
<1> QED BY <1>2, <1>3

LEMMA AskedSuffices == AllAsked => AnsweredIsShown
<1> SUFFICES ASSUME AllAsked, NEW f \in DOMAIN Knows, Done(f),
                    shown \in {"none", "own name", "own os-release"}
             PROVE  \/ shown \in Knows[f]
                    \/ \A s \in Knows[f] : Failed(s) \/ PassedOver(f, s)
                    \/ \E fault \in faults : fault[2] \in {"garbled", "odd"}
  BY Zenon DEF AnsweredIsShown
<1>1. \/ shown \in Asked[f]
      \/ \A s \in Asked[f] : Failed(s)
      \/ \E fault \in faults : fault[2] \in {"garbled", "odd"}
  BY AskedOrPassedOver, Zenon DEF AllAsked
<1> QED BY <1>1, AskedOrPassedOver, Zenon

\* The sources before the present one have failed.
Passed(c) ==
    /\ attempt > 1 => Failed(c[1].of)
    /\ attempt > 2 => Failed(c[2].of)
    /\ attempt > 3 => Failed(c[3].of)
    /\ attempt > 4 => Failed(c[4].of)

\* Whatever becomes of source i, a collector that ends there without an
\* answer of those that know, or with what it knows of itself, has asked all
\* of them, or did not understand one.
Fair(c, i, known) ==
    /\ c[i].of \in {"own name", "own os-release"} =>
           c[i].of \in known \/ \A s \in known : Failed(s)
    /\ \A fault \in FaultsOf(c[i].of) :
           fault \in c[i].none \ c[i].next =>
               \/ fault \in {"garbled", "odd"}
               \/ \A s \in known : s = c[i].of \/ Failed(s)

Told(c, known) ==
    Fair(c, attempt, known) /\ (attempt > Len(c) => \A s \in known : Failed(s))

LEMMA ToldByTwo ==
    ASSUME NEW c, NEW known, attempt \in Nat \ {0}, Len(c) = 2,
           attempt = 1 => Fair(c, 1, known), attempt = 2 => Fair(c, 2, known),
           attempt > 2 => \A s \in known : Failed(s)
    PROVE  Told(c, known)
<1>1. attempt = 1 \/ attempt = 2 \/ attempt > 2 OBVIOUS
<1>2. attempt > Len(c) => attempt > 2 BY Zenon
<1> QED BY <1>1, <1>2, Zenon DEF Told, Fair

LEMMA ToldByThree ==
    ASSUME NEW c, NEW known, attempt \in Nat \ {0}, Len(c) = 3,
           attempt = 1 => Fair(c, 1, known), attempt = 2 => Fair(c, 2, known),
           attempt = 3 => Fair(c, 3, known),
           attempt > 3 => \A s \in known : Failed(s)
    PROVE  Told(c, known)
<1>1. attempt = 1 \/ attempt = 2 \/ attempt = 3 \/ attempt > 3 OBVIOUS
<1>2. attempt > Len(c) => attempt > 3 BY Zenon
<1> QED BY <1>1, <1>2, Zenon DEF Told, Fair

\* More were passed if more were tried.
LEMMA More ==
    ASSUME attempt \in Nat \ {0}
    PROVE  /\ attempt > 2 => attempt > 1
           /\ attempt > 3 => attempt > 1 /\ attempt > 2
           /\ attempt > 4 => attempt > 1 /\ attempt > 2 /\ attempt > 3
           /\ attempt = 2 => attempt > 1
           /\ attempt = 3 => attempt > 1 /\ attempt > 2
           /\ attempt = 4 => attempt > 1 /\ attempt > 2 /\ attempt > 3
  OBVIOUS

LEMMA HostnameTold ==
    ASSUME attempt \in Nat \ {0}, Passed(Hostname)
    PROVE  Told(Hostname, Asked.hostname)
<1> DEFINE known == Asked.hostname
<1>1. CASE setup.platform = "docker"
  <2>1. /\ Len(Hostname) = 3 /\ Hostname[1].of = "host hostname"
        /\ Hostname[2].of = "dockerd" /\ Hostname[3].of = "own name"
        /\ Hostname[1].none = {} /\ Hostname[2].none = {} /\ Hostname[3].none = {}
    BY <1>1 DEF Hostname, Try
  <2>2. known = {"host hostname", "dockerd"} BY <1>1 DEF Asked, Knows
  <2>3. Fair(Hostname, 1, known) /\ Fair(Hostname, 2, known) BY <2>1 DEF Fair
  <2>4. attempt > 2 => \A s \in known : Failed(s)
    BY <2>1, <2>2, More, Zenon DEF Passed
  <2>5. attempt = 3 => Fair(Hostname, 3, known)
    BY <2>1, <2>4, More DEF Fair
  <2>6. attempt > 3 => \A s \in known : Failed(s) BY <2>4, More
  <2> QED BY <2>1, <2>3, <2>5, <2>6, ToldByThree
<1>2. CASE setup.platform # "docker"
  <2>1. /\ Len(Hostname) = 2 /\ Hostname[1].of = "host hostname"
        /\ Hostname[2].of = "own name"
        /\ Hostname[1].none = {} /\ Hostname[2].none = {}
    BY <1>2 DEF Hostname, Try
  <2>2. known = {"host hostname", "own name"} BY <1>2 DEF Asked, Knows
  <2>3. Fair(Hostname, 1, known) BY <2>1 DEF Fair
  <2>4. Fair(Hostname, 2, known) BY <2>1, <2>2 DEF Fair
  <2>5. attempt > 2 => \A s \in known : Failed(s)
    BY <2>1, <2>2, More, Zenon DEF Passed
  <2> QED BY <2>1, <2>3, <2>4, <2>5, ToldByTwo
<1> QED BY <1>1, <1>2

LEMMA UptimeTold ==
    ASSUME attempt \in Nat \ {0}, Passed(Uptime)
    PROVE  Told(Uptime, Asked.uptime)
<1> DEFINE known == Asked.uptime
<1>1. /\ Len(Uptime) = 2 /\ Uptime[1].of = "proc uptime"
      /\ Uptime[2].of = "own boot time"
      /\ Uptime[1].none = {} /\ Uptime[2].none = {}
  BY DEF Uptime, Try
<1>2. known = {"proc uptime", "own boot time"} BY DEF Asked, Knows
<1>3. Fair(Uptime, 1, known) /\ Fair(Uptime, 2, known) BY <1>1 DEF Fair
<1>4. attempt > 2 => \A s \in known : Failed(s)
  BY <1>1, <1>2, More, Zenon DEF Passed
<1> QED BY <1>1, <1>3, <1>4, ToldByTwo

LEMMA TailscaleTold ==
    ASSUME attempt \in Nat \ {0}, Passed(Tailscale)
    PROVE  Told(Tailscale, Asked.tailscale)
<1> DEFINE known == Asked.tailscale
<1>1. /\ Len(Tailscale) = 2 /\ Tailscale[1].of = "tailscale socket"
      /\ Tailscale[2].of = "tailscale cli" /\ Tailscale[1].none = {"odd"}
  BY DEF Tailscale, Try
<1>2. known = {"tailscale socket", "tailscale cli"} BY DEF Asked, Knows
<1>3. Fair(Tailscale, 1, known) BY <1>1 DEF Fair
<1>4. attempt = 2 => Fair(Tailscale, 2, known)
  <2>1. attempt = 2 => \A s \in known : s = Tailscale[2].of \/ Failed(s)
    BY <1>1, <1>2, More, Zenon DEF Passed
  <2> QED BY <1>1, <2>1 DEF Fair
<1>5. attempt > 2 => \A s \in known : Failed(s)
  BY <1>1, <1>2, More, Zenon DEF Passed
<1> QED BY <1>1, <1>3, <1>4, <1>5, ToldByTwo

LEMMA ToldByOne ==
    ASSUME NEW c, NEW known, attempt \in Nat \ {0}, Len(c) = 1,
           attempt = 1 => Fair(c, 1, known),
           attempt > 1 => \A s \in known : Failed(s)
    PROVE  Told(c, known)
<1>1. attempt = 1 \/ attempt > 1 OBVIOUS
<1>2. attempt > Len(c) => attempt > 1 BY Zenon
<1> QED BY <1>1, <1>2, Zenon DEF Told, Fair

LEMMA ToldByFour ==
    ASSUME NEW c, NEW known, attempt \in Nat \ {0}, Len(c) = 4,
           attempt = 1 => Fair(c, 1, known), attempt = 2 => Fair(c, 2, known),
           attempt = 3 => Fair(c, 3, known),
           attempt > 3 => \A s \in known : Failed(s)
    PROVE  Told(c, known)
<1>1. attempt = 1 \/ attempt = 2 \/ attempt = 3 \/ attempt > 3 OBVIOUS
<1>2. attempt > 4 => attempt > 3 OBVIOUS
<1>3. attempt > Len(c) => attempt > 3 BY <1>2, Zenon
<1> QED BY <1>1, <1>3, Zenon DEF Told, Fair

\* There is nothing to know.
LEMMA ToldNothing == \A c : Told(c, {})
  BY Zenon DEF Told, Fair

LEMMA SshAuthTold ==
    ASSUME attempt \in Nat \ {0}, Passed(SshAuth)
    PROVE  Told(SshAuth, Asked.ssh_auth)
<1> DEFINE known == Asked.ssh_auth
<1>1. CASE setup.platform = "windows"
  <2>1. Len(SshAuth) = 1 /\ SshAuth[1].of = "event log" BY <1>1 DEF SshAuth, Try
  <2>2. known = {"event log"} BY <1>1 DEF Asked, Knows
  <2>3. Fair(SshAuth, 1, known) BY <2>1, <2>2 DEF Fair
  <2>4. attempt > 1 => \A s \in known : Failed(s)
    BY <2>1, <2>2, Zenon DEF Passed
  <2> QED BY <2>1, <2>3, <2>4, ToldByOne
<1>2. CASE setup.platform # "windows"
  <2>1. /\ Len(SshAuth) = 2 /\ SshAuth[1].of = "journal"
        /\ SshAuth[2].of = "auth log" /\ SshAuth[1].none = {}
    BY <1>2 DEF SshAuth, Try
  <2>2. known = {"journal", "auth log"} BY <1>2 DEF Asked, Knows
  <2>3. Fair(SshAuth, 1, known) BY <2>1 DEF Fair
  <2>4. attempt = 2 => Fair(SshAuth, 2, known)
    <3>1. attempt = 2 => \A s \in known : s = SshAuth[2].of \/ Failed(s)
      BY <2>1, <2>2, More, Zenon DEF Passed
    <3> QED BY <2>1, <3>1 DEF Fair
  <2>5. attempt > 2 => \A s \in known : Failed(s)
    BY <2>1, <2>2, More, Zenon DEF Passed
  <2> QED BY <2>1, <2>3, <2>4, <2>5, ToldByTwo
<1> QED BY <1>1, <1>2

LEMMA PowerTold ==
    ASSUME attempt \in Nat \ {0}, Passed(Power)
    PROVE  Told(Power, Asked.power)
<1> DEFINE known == Asked.power
<1>1. CASE setup.platform = "docker" /\ setup.power = "unset"
  <2>1. /\ Len(Power) = 2 /\ Power[1].of = "exporter"
        /\ Power[2].of = "gateway exporter"
        /\ Power[1].none = {} /\ Power[2].none = {}
    BY <1>1 DEF Power, Try
  <2>2. known = {"exporter", "gateway exporter"} BY <1>1 DEF Asked, Knows
  <2>3. Fair(Power, 1, known) /\ Fair(Power, 2, known) BY <2>1 DEF Fair
  <2>4. attempt > 2 => \A s \in known : Failed(s)
    BY <2>1, <2>2, More, Zenon DEF Passed
  <2> QED BY <2>1, <2>3, <2>4, ToldByTwo
<1>2. CASE ~(setup.platform = "docker" /\ setup.power = "unset")
  <2>1. known = {} BY <1>2 DEF Asked, Knows
  <2> QED BY <2>1, ToldNothing, Zenon
<1> QED BY <1>1, <1>2

LEMMA FileFaults ==
    \A s \in {"synology", "host os-release", "own os-release"} :
        \A fault \in FaultsOf(s) : fault \in OSErr \cup {"garbled", "empty"}
  BY DEF FaultsOf, OSErr

LEMMA OsVersionTold ==
    ASSUME attempt \in Nat \ {0}, Passed(OsVersion)
    PROVE  Told(OsVersion, Asked.os_version)
<1> DEFINE known == Asked.os_version
<1>1. CASE setup.platform = "windows"
  <2>1. Len(OsVersion) = 1 /\ OsVersion[1].of = "registry"
    BY <1>1 DEF OsVersion, Try
  <2>2. known = {"registry"} BY <1>1 DEF Asked, Knows
  <2>3. Fair(OsVersion, 1, known) BY <2>1, <2>2 DEF Fair
  <2>4. attempt > 1 => \A s \in known : Failed(s)
    BY <2>1, <2>2, Zenon DEF Passed
  <2> QED BY <2>1, <2>3, <2>4, ToldByOne
<1>2. CASE setup.platform = "docker" /\ "host os-release" \notin setup.mounts
  <2>1. /\ Len(OsVersion) = 4 /\ OsVersion[1].of = "synology"
        /\ OsVersion[2].of = "dockerd" /\ OsVersion[3].of = "host os-release"
        /\ OsVersion[4].of = "own os-release"
        /\ OsVersion[1].next = OSErr \cup {"empty"} /\ OsVersion[2].none = {}
        /\ OsVersion[3].next = OSErr \cup {"empty"}
    BY <1>2 DEF OsVersion, Try
  <2>2. known = {"host os-release", "dockerd"} BY <1>2 DEF Asked, Knows
  <2>3. Fair(OsVersion, 1, known) /\ Fair(OsVersion, 3, known)
    BY <2>1, FileFaults DEF Fair
  <2>4. Fair(OsVersion, 2, known) BY <2>1 DEF Fair
  <2>5. attempt > 3 => \A s \in known : Failed(s)
    BY <2>1, <2>2, More, Zenon DEF Passed
  <2> QED BY <2>1, <2>3, <2>4, <2>5, ToldByFour
<1>3. CASE setup.platform = "docker" /\ "host os-release" \in setup.mounts
  <2>1. /\ Len(OsVersion) = 3 /\ OsVersion[1].of = "synology"
        /\ OsVersion[2].of = "host os-release"
        /\ OsVersion[3].of = "own os-release"
        /\ OsVersion[1].next = OSErr \cup {"empty"}
        /\ OsVersion[2].next = OSErr \cup {"empty"}
    BY <1>3 DEF OsVersion, Try
  <2>2. known = {"host os-release"} BY <1>3 DEF Asked, Knows
  <2>3. Fair(OsVersion, 1, known) /\ Fair(OsVersion, 2, known)
    BY <2>1, FileFaults DEF Fair
  <2>4. attempt > 2 => \A s \in known : Failed(s)
    BY <2>1, <2>2, More, Zenon DEF Passed
  <2>5. attempt = 3 => Fair(OsVersion, 3, known)
    BY <2>4, More, Zenon DEF Fair
  <2>6. attempt > 3 => \A s \in known : Failed(s) BY <2>4, More
  <2> QED BY <2>1, <2>3, <2>5, <2>6, ToldByThree
<1>4. CASE setup.platform \notin {"windows", "docker"}
  <2>1. /\ Len(OsVersion) = 3 /\ OsVersion[1].of = "synology"
        /\ OsVersion[2].of = "host os-release"
        /\ OsVersion[3].of = "own os-release"
        /\ OsVersion[1].next = OSErr \cup {"empty"}
        /\ OsVersion[2].next = OSErr \cup {"empty"}
    BY <1>4 DEF OsVersion, Try
  <2>2. known = {"own os-release"} BY <1>4 DEF Asked, Knows
  <2>3. Fair(OsVersion, 1, known) /\ Fair(OsVersion, 2, known)
    BY <2>1, FileFaults DEF Fair
  <2>4. Fair(OsVersion, 3, known) BY <2>1, <2>2 DEF Fair
  <2>5. attempt > 3 => \A s \in known : Failed(s)
    BY <2>1, <2>2, More, Zenon DEF Passed
  <2> QED BY <2>1, <2>3, <2>4, <2>5, ToldByThree
<1> QED BY <1>1, <1>2, <1>3, <1>4

LEMMA ComparedTold ==
    ASSUME attempt \in Nat \ {0}, NEW f \in Compared, Passed(Chain(f))
    PROVE  Told(Chain(f), Asked[f])
<1>1. CASE f = "hostname" BY <1>1, ChainsAre, HostnameTold, Zenon
<1>2. CASE f = "os_version" BY <1>2, ChainsAre, OsVersionTold, Zenon
<1>3. CASE f = "uptime" BY <1>3, ChainsAre, UptimeTold, Zenon
<1>4. CASE f = "tailscale" BY <1>4, ChainsAre, TailscaleTold, Zenon
<1>5. CASE f = "ssh_auth" BY <1>5, ChainsAre, SshAuthTold, Zenon
<1>6. CASE f = "power" BY <1>6, ChainsAre, PowerTold, Zenon
<1> QED BY <1>1, <1>2, <1>3, <1>4, <1>5, <1>6, Zenon DEF Compared

(* While a field is pending, its earlier sources have failed.              *)
Behind == shown = "pending" /\ Usual => Passed(Tried)

KnownInv == WhereInv /\ Behind /\ Blank /\ AllAsked

LEMMA SameTried ==
    ASSUME UNCHANGED <<setup, field>>
    PROVE  Usual' = Usual /\ Tried' = Tried /\ Asked' = Asked
<1>1. Usual' = Usual BY DEF Usual, Special
<1>2. Tried' = Tried
  BY DEF Tried, Chain, Measured, Hostname, OsVersion, HardwareModel, Uptime,
         LocalIp, Tailscale, SshAuth, Users, Power
<1>3. Asked' = Asked BY DEF Asked, Knows
<1> QED BY <1>1, <1>2, <1>3

(* No field with an action of its own is compared.                         *)
LEMMA ComparedIsUsual ==
    ASSUME InFields, Fields[field] \in Compared
    PROVE  /\ Usual
           /\ Fields[field] \notin {"docker_containers", "admin_user", "ssh_users"}
  BY DEF Compared, Usual, Special

LEMMA BehindStep == WhereInv /\ Behind /\ [Next]_vars => Behind'
<1> SUFFICES ASSUME WhereInv, Behind, [Next]_vars, shown' = "pending", Usual'
             PROVE  Passed(Tried)'
  BY DEF Behind
<1>1. CASE attempt' = 1
  <2>1. ~(attempt' > 1) /\ ~(attempt' > 2) /\ ~(attempt' > 3) /\ ~(attempt' > 4)
    BY <1>1, SMT
  <2> QED BY <2>1 DEF Passed
<1>2. CASE Fails
  <2>1. AtAttempt /\ UNCHANGED <<setup, field>> /\ shown = "pending"
    BY <1>2 DEF Fails, AtAttempt
  <2>2. Usual /\ Usual' = Usual /\ Tried' = Tried BY <2>1, SameTried
  <2>3. Passed(Tried) BY <2>1, <2>2 DEF Behind
  <2>4. \A s : Failed(s) \/ s = Tried[attempt].of => \E f \in faults' : f[1] = s
    <3>1. PICK fault \in FaultsOf(Tried[attempt].of) :
              faults' = faults \cup {<<Tried[attempt].of, fault>>}
      BY <1>2 DEF Fails, Tried
    <3>2. <<Tried[attempt].of, fault>>[1] = Tried[attempt].of OBVIOUS
    <3>3. faults \subseteq faults' /\ <<Tried[attempt].of, fault>> \in faults'
      BY <3>1
    <3> QED BY <3>2, <3>3, Zenon DEF Failed
  <2>5. attempt' = attempt \/ attempt' = attempt + 1 BY <1>2 DEF Fails
  <2>6. /\ attempt' > 1 => attempt > 1 \/ attempt = 1
        /\ attempt' > 2 => attempt > 2 \/ attempt = 2
        /\ attempt' > 3 => attempt > 3 \/ attempt = 3
        /\ attempt' > 4 => attempt > 4 \/ attempt = 4
    BY <2>5 DEF WhereInv, Tries
  <2>7. /\ attempt' > 1 => \E f \in faults' : f[1] = Tried[1].of
        /\ attempt' > 2 => \E f \in faults' : f[1] = Tried[2].of
        /\ attempt' > 3 => \E f \in faults' : f[1] = Tried[3].of
        /\ attempt' > 4 => \E f \in faults' : f[1] = Tried[4].of
    BY <2>3, <2>4, <2>6, Zenon DEF Passed
  <2> QED BY <2>2, <2>7, Zenon DEF Passed, Failed
<1>3. CASE UNCHANGED <<setup, field, attempt, faults>> /\ shown = "pending"
  <2>1. Usual' = Usual /\ Tried' = Tried BY <1>3, SameTried
  <2> QED BY <1>3, <2>1 DEF Behind, Passed, Failed
<1>4. CASE List \/ AskAccountsFails
  <2>1. UNCHANGED <<setup, field, attempt>> /\ ~Usual
    BY <1>4 DEF List, AskAccountsFails, NeedsAccounts, AtField, Usual, Special,
                process
  <2> QED BY <2>1, SameTried
<1>5. CASE NextField \/ Pause BY <1>1, <1>5 DEF NextField, Pause
<1>6. ASSUME ~Fails, ~List, ~AskAccountsFails, ~NextField, ~Pause
      PROVE  UNCHANGED <<setup, field, attempt, faults>> /\ shown = "pending"
  BY <1>6
  DEF Next, Gather, Start, Answers, NothingLeft, Stats, Images, NoAccounts,
      CachedAccounts, AskAccounts, Post, Lose, Tick, ClockIsSet, TimeMatters,
      vars, process, gathered,
      AtField, AtAttempt, NeedsAccounts
<1> QED BY <1>2, <1>3, <1>4, <1>5, <1>6

LEMMA AnsweredStep == KnownInv /\ [Next]_vars => AllAsked'
<1> DEFINE f == Fields[field]
<1> SUFFICES ASSUME KnownInv, [Next]_vars, NEW g \in DOMAIN Asked',
                    at' = "gather", Fields[field'] = g, shown' # "pending",
                    shown' \in {"none", "own name", "own os-release"}
             PROVE  \/ shown' \in Asked'[g]
                    \/ \A s \in Asked'[g] : \E fault \in faults' : fault[1] = s
                    \/ \E fault \in faults' : fault[2] \in {"garbled", "odd"}
  BY DEF AllAsked, Done, Failed
<1>1. shown = "pending" \/ UNCHANGED <<setup, at, field, shown, faults>>
  BY DEF KnownInv, Next, Gather, Start, Answers, Fails, NothingLeft, NextField,
         List, Stats, Images, NoAccounts, CachedAccounts, AskAccounts,
         AskAccountsFails, Post, Lose, Pause, Tick, ClockIsSet, TimeMatters,
         vars, process, gathered,
         AtField, AtAttempt, NeedsAccounts, Blank
<1>2. CASE UNCHANGED <<setup, at, field, shown, faults>>
  <2>1. Asked' = Asked BY <1>2, SameTried
  <2> QED BY <1>2, <2>1 DEF KnownInv, AllAsked, Done, Failed
<1>3. ASSUME shown = "pending", ~UNCHANGED <<setup, at, field, shown, faults>>
      PROVE  /\ Answers \/ Fails \/ NothingLeft
             /\ UNCHANGED <<setup, field>>
             /\ f \in Compared
             /\ Passed(Tried) /\ Told(Tried, Asked[f])
  <2>1. UNCHANGED <<setup, field>>
    BY <1>3 DEF Next, Gather, Start, Answers, Fails, NothingLeft, NextField,
         List, Stats, Images, NoAccounts, CachedAccounts, AskAccounts,
         AskAccountsFails, Post, Lose, Pause, Tick, ClockIsSet, TimeMatters,
         vars, process, gathered
  <2>2. f \in Compared
    <3>1. Asked' = Asked BY <2>1, SameTried
    <3> QED BY <2>1, <3>1, AskedCompared
  <2>3. Usual /\ f \notin {"docker_containers", "admin_user", "ssh_users"}
    BY <2>2, ComparedIsUsual DEF KnownInv, WhereInv
  <2>4. Answers \/ Fails \/ NothingLeft
    BY <1>3, <2>3 DEF Next, Gather, Start, NextField, List, Stats, Images,
         NoAccounts, CachedAccounts, AskAccounts, AskAccountsFails, Post, Lose,
         Pause, Tick, ClockIsSet, TimeMatters, vars, process, gathered, AtField,
         NeedsAccounts
  <2>5. Passed(Tried) BY <1>3, <2>3 DEF KnownInv, Behind
  <2>6. Told(Tried, Asked[f])
    BY <2>2, <2>5, ComparedTold DEF Tried, KnownInv, WhereInv, Tries
  <2> QED BY <2>1, <2>2, <2>4, <2>5, <2>6
<1>4. ASSUME shown = "pending", ~UNCHANGED <<setup, at, field, shown, faults>>
      PROVE  \/ shown' \in Asked'[g]
             \/ \A s \in Asked'[g] : \E fault \in faults' : fault[1] = s
             \/ \E fault \in faults' : fault[2] \in {"garbled", "odd"}
  <2> DEFINE known == Asked[f]
  <2>1. /\ Answers \/ Fails \/ NothingLeft
        /\ Told(Tried, known) /\ Asked'[g] = known
    <3>1. UNCHANGED <<setup, field>> BY <1>3, <1>4
    <3>2. Asked' = Asked BY <3>1, SameTried
    <3> QED BY <1>3, <1>4, <3>1, <3>2
  <2> HIDE DEF known
  <2>2. CASE Answers
    <3>1. shown' = Tried[attempt].of /\ faults' = faults
      BY <2>2 DEF Answers, Tried
    <3>2. Tried[attempt].of # "none"
      <4>1. Tried[attempt] \in Attempts
        BY <2>2, TriedIsAttempt DEF Answers, KnownInv
      <4> QED BY <4>1, AttemptsNamed DEF Named
    <3> QED BY <2>1, <3>1, <3>2, Zenon DEF Told, Fair, Failed
  <2>3. CASE Fails
    <3>1. PICK fault \in FaultsOf(Tried[attempt].of) :
              /\ faults' = faults \cup {<<Tried[attempt].of, fault>>}
              /\ shown' = (IF fault \in Tried[attempt].none \ Tried[attempt].next
                           THEN "none" ELSE shown)
      BY <2>3 DEF Fails, Tried
    <3>2. fault \in Tried[attempt].none \ Tried[attempt].next
      BY <1>4, <3>1
    <3>3. \/ fault \in {"garbled", "odd"}
          \/ \A s \in known : s = Tried[attempt].of \/ Failed(s)
      BY <2>1, <3>2 DEF Told, Fair
    <3>4. /\ <<Tried[attempt].of, fault>>[1] = Tried[attempt].of
          /\ <<Tried[attempt].of, fault>>[2] = fault
      OBVIOUS
    <3>5. faults \subseteq faults' /\ <<Tried[attempt].of, fault>> \in faults'
      BY <3>1
    <3> QED BY <2>1, <3>3, <3>4, <3>5, Zenon DEF Failed
  <2>4. CASE NothingLeft
    <3>1. attempt > Len(Tried) /\ faults' = faults
      BY <2>4 DEF NothingLeft, Tried
    <3> QED BY <2>1, <3>1, Zenon DEF Told, Failed
  <2> QED BY <2>1, <2>2, <2>3, <2>4
<1> QED BY <1>1, <1>2, <1>4

(* What a machine is called, runs and is reachable by is shown whenever    *)
(* one of those that know it answers and what they answer is understood,   *)
(* however the others fail, and a container does not show its own name or  *)
(* the system of its image instead, but for a daemon that is passed over   *)
(* (system.py:31-34, 141-143, 178, tailscale.py:107-112).                  *)
THEOREM AnswersAreShown == Spec => []AnsweredIsShown
<1>1. Init => KnownInv
  <2> SUFFICES ASSUME Init PROVE KnownInv OBVIOUS
  <2>1. attempt = 1 /\ shown = "pending" /\ at = "start" BY DEF Init
  <2>2. ~(attempt > 1) /\ ~(attempt > 2) /\ ~(attempt > 3) /\ ~(attempt > 4)
    BY <2>1, SMT
  <2>3. Behind BY <2>2 DEF Behind, Passed
  <2>4. Blank /\ AllAsked BY <2>1 DEF Blank, AllAsked, Done
  <2> QED BY <2>3, <2>4, WhereStart DEF KnownInv
<1>2. KnownInv /\ [Next]_vars => KnownInv'
  BY WhereStep, BehindStep, AnsweredStep, TriesStep DEF KnownInv, WhereInv
<1>3. KnownInv => AnsweredIsShown BY AskedSuffices DEF KnownInv
<1> QED BY <1>1, <1>2, <1>3, PTL DEF Spec
=============================================================================
