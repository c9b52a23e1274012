------------------------------ MODULE Backups ------------------------------
(***************************************************************************)
(* The backups of a cluster: making, listing and thinning them out.        *)
(* pkg/backup (the store), pkg/etcd/backup.go (naming and uploading),      *)
(* pkg/backupcontroller (retention) and the two loops that use them,       *)
(* EtcdController.maybeBackup and BackupController.maybeBackup.            *)
(*                                                                         *)
(* A backup is a directory with a data file and, written after it, a meta  *)
(* file; only those with a meta file are listed.  Several agents may make  *)
(* backups and clean up at the same time: leadership is weak, and a        *)
(* backup agent beside every etcd goes by etcd's leader.  Each upload and  *)
(* each removal of a file is one step; any of them may fail, and an agent  *)
(* may crash between any two.                                              *)
(***************************************************************************)
EXTENDS Integers, FiniteSets

CONSTANTS Agents,
          BackupInterval, CleanupInterval,
          Hour, Day,               \* the widths of the buckets
          HourlyBackupsRetention, DailyBackupsRetention,
          MaxSequence,             \* 999999 in the code
          Manual,                  \* a backup whose name is not a time
          MaxTime, MaxBackups,     \* bounds
          MaxFaults                \* bound on calls that fail and agents that crash

ASSUME BackupsAssumption ==
    /\ {BackupInterval, CleanupInterval, MaxTime, MaxBackups, MaxFaults} \subseteq Nat
    /\ {Hour, Day, MaxSequence} \subseteq Nat \ {0} /\ Day % Hour = 0
    /\ {HourlyBackupsRetention, DailyBackupsRetention} \subseteq Nat
    /\ Hour <= HourlyBackupsRetention /\ HourlyBackupsRetention <= DailyBackupsRetention
    /\ Manual \notin [t : 0 .. MaxTime, seq : 0 .. MaxSequence]

VARIABLES
    time,
    tree,      \* the files in the store: <<backup, kind>>
    agent,     \* agent[a]: its memory, and where it is
    made,      \* history: the backups that were completed
    named,     \* history: the backups that were begun
    clashes,   \* history: the names that two agents have chosen
    mishaps    \* how many calls have failed and agents crashed

backupVars == <<time, tree, agent, made, named, clashes, mishaps>>

BackupNames == [t : 0 .. MaxTime, seq : 0 .. MaxSequence]
Before(b, c) == b.t < c.t \/ (b.t = c.t /\ b.seq < c.seq)

(* Go's zero time: longer ago than any interval. *)
Never == -1 - BackupInterval - CleanupInterval

NewAgent == [pc |-> "idle", sequence |-> 0, lastBackup |-> Never, lastCleanup |-> Never,
             name |-> Manual, todo |-> {}]

BackupsInit ==
    /\ time = 0
    /\ tree = {<<Manual, "data">>, <<Manual, "meta">>}
    /\ agent = [a \in Agents |-> NewAgent]
    /\ made = {} /\ named = {} /\ clashes = {}
    /\ mishaps = 0

Fault == mishaps < MaxFaults /\ mishaps' = mishaps + 1

(* a is done, or has met an error. *)
Done(a) == agent' = [agent EXCEPT ![a].pc = "idle", ![a].name = Manual, ![a].todo = {}]

(* ListBackups *)
Listed == {f[1] : f \in {g \in tree : g[2] = "meta"}}

-----------------------------------------------------------------------------
(* Making a backup *)

(* uploadBackup *)
NextSequence(n) == IF n + 1 > MaxSequence THEN 0 ELSE n + 1

(* maybeBackup, DoBackup: the name is the time, in seconds, and the        *)
(* sequence number of the process.                                         *)
MaybeBackup(a) ==
    LET n == NextSequence(agent[a].sequence)
        b == [t |-> time, seq |-> n]
    IN  /\ agent[a].pc = "idle"
        /\ time - agent[a].lastBackup > BackupInterval
        /\ Cardinality(named) < MaxBackups
        /\ agent' = [agent EXCEPT ![a].pc = "data", ![a].sequence = n, ![a].name = b]
        /\ named' = named \cup {b}
        /\ clashes' = clashes \cup (named \cap {b})
        /\ UNCHANGED <<time, tree, made, mishaps>>

(* Mutant: an error of the data file does not end AddBackup. *)
UploadDataUnchecked(a) ==
    /\ agent[a].pc = "data"
    /\ \/ tree' = tree \cup {<<agent[a].name, "data">>} /\ UNCHANGED mishaps
       \/ Fault /\ UNCHANGED tree
    /\ agent' = [agent EXCEPT ![a].pc = "meta"]
    /\ UNCHANGED <<time, made, named, clashes>>

(* AddBackup *)
UploadData(a) ==
    /\ agent[a].pc = "data"
    /\ \/ /\ tree' = tree \cup {<<agent[a].name, "data">>}
          /\ agent' = [agent EXCEPT ![a].pc = "meta"]
          /\ UNCHANGED mishaps
       \/ Fault /\ Done(a) /\ UNCHANGED tree
    /\ UNCHANGED <<time, made, named, clashes>>

(* The backup is complete, and MaybeDoBackupMaintenance decides whether to *)
(* clean up.                                                               *)
UploadMeta(a) ==
    LET due == time - agent[a].lastCleanup >= CleanupInterval
    IN  /\ agent[a].pc = "meta"
        /\ \/ /\ tree' = tree \cup {<<agent[a].name, "meta">>}
              /\ made' = made \cup {agent[a].name}
              /\ agent' = [agent EXCEPT
                     ![a].lastBackup = agent[a].name.t,
                     ![a].name = Manual,
                     ![a].pc = IF due THEN "list" ELSE "idle",
                     ![a].lastCleanup = IF due THEN time ELSE @]
              /\ UNCHANGED mishaps
           \/ Fault /\ Done(a) /\ UNCHANGED <<tree, made>>
        /\ UNCHANGED <<time, named, clashes>>

-----------------------------------------------------------------------------
(* Cleaning up *)

SameHour(b, c) == b.t \div Hour = c.t \div Hour
SameDay(b, c) == b.t \div Day = c.t \div Day

(* Mutant: the hourly backups are put into daily buckets. *)
BucketByDay(b, now) == Day * (b.t \div Day)

(* Where MaybeDoBackupMaintenance counts b: hourly and daily buckets are   *)
(* in one map, by the time they begin.                                     *)
Bucket(b, now) ==
    IF now - b.t < HourlyBackupsRetention THEN Hour * (b.t \div Hour) ELSE Day * (b.t \div Day)

(* What is kept of the backups in names at the time now: the last hour's,  *)
(* and the earliest of every bucket (of those made in the same second, the *)
(* last).                                                                  *)
Retained(names, now) ==
    LET old == {b \in names : now - b.t >= Hour /\ now - b.t < DailyBackupsRetention}
        Same(b) == {c \in old : Bucket(c, now) = Bucket(b, now)}
    IN  {b \in names : now - b.t < Hour} \cup
        {b \in old : \A c \in Same(b) : c = b \/ b.t < c.t \/ (b.t = c.t /\ c.seq < b.seq)}

(* A name that cannot be parsed is left alone. *)
CleanList(a) ==
    LET names == Listed \ {Manual}
        todo == names \ Retained(names, agent[a].lastCleanup)
    IN  /\ agent[a].pc = "list"
        /\ \/ agent' = [agent EXCEPT ![a].pc = "clean", ![a].todo = todo] /\ UNCHANGED mishaps
           \/ Fault /\ Done(a)
        /\ UNCHANGED <<time, tree, made, named, clashes>>

First(names) == CHOOSE b \in names : \A c \in names : c = b \/ Before(b, c)

(* RemoveBackup goes through the files in the order of their names, which  *)
(* puts the meta file first (external: the order of ReadTree).             *)
NextFile(b) == IF <<b, "meta">> \in tree THEN <<b, "meta">> ELSE <<b, "data">>

(* After an error the next backup is tried. *)
RemoveFile(a) ==
    LET b == First(agent[a].todo)
        rest == {f \in tree : f[1] = b} \ {NextFile(b)}
        Skip == agent' = [agent EXCEPT ![a].todo = @ \ {b}]
    IN  /\ agent[a].pc = "clean"
        /\ agent[a].todo # {}
        /\ \/ /\ tree' = tree \ {NextFile(b)}
              /\ IF rest = {} THEN Skip ELSE UNCHANGED agent
              /\ UNCHANGED mishaps
           \/ Fault /\ Skip /\ UNCHANGED tree
        /\ UNCHANGED <<time, made, named, clashes>>

CleanEnds(a) ==
    /\ agent[a].pc = "clean"
    /\ agent[a].todo = {}
    /\ Done(a)
    /\ UNCHANGED <<time, tree, made, named, clashes, mishaps>>

CrashAgent(a) ==
    /\ Fault
    /\ agent' = [agent EXCEPT ![a] = NewAgent]
    /\ UNCHANGED <<time, tree, made, named, clashes>>

Tick ==
    /\ time < MaxTime
    /\ time' = time + 1
    /\ UNCHANGED <<tree, agent, made, named, clashes, mishaps>>

BackupsNext ==
    \/ \E a \in Agents :
        \/ MaybeBackup(a) \/ UploadData(a) \/ UploadMeta(a)
        \/ CleanList(a) \/ RemoveFile(a) \/ CleanEnds(a)
        \/ CrashAgent(a)
    \/ Tick

BackupsSpec == BackupsInit /\ [][BackupsNext]_backupVars

BackupsTypeOK ==
    /\ time \in 0 .. MaxTime
    /\ tree \subseteq (BackupNames \cup {Manual}) \X {"data", "meta"}
    /\ \A a \in Agents :
           /\ agent[a].pc \in {"idle", "data", "meta", "list", "clean"}
           /\ agent[a].sequence \in 0 .. MaxSequence
           /\ {agent[a].lastBackup, agent[a].lastCleanup} \subseteq Never .. time
           /\ agent[a].name \in BackupNames \cup {Manual}
           /\ agent[a].todo \subseteq made
    /\ made \subseteq named /\ clashes \subseteq named /\ named \subseteq BackupNames
    /\ mishaps \in 0 .. MaxFaults

(* Every backup that is listed, and so may be restored from, has its data, *)
(* in the middle of uploads and removals of several agents and after       *)
(* crashes in either.  Two agents that choose the same name (in the same   *)
(* second, with the same sequence number) are beyond what the code can     *)
(* tell apart.                                                             *)
ListedIsComplete == \A b \in Listed \ clashes : <<b, "data">> \in tree

(* What retention promises, whoever cleans up and however often: a backup  *)
(* of the last hour is there; of an hour that is within the hourly         *)
(* retention, and of a day that is within the daily retention, at least    *)
(* one is (if one was ever made); and what etcd-manager did not name stays.*)
HistoryIsKept ==
    /\ \A b \in made :
           /\ time - b.t < Hour => b \in Listed
           /\ (\A c \in made : SameHour(b, c) => time - c.t < HourlyBackupsRetention)
                => \E c \in Listed \ {Manual} : SameHour(b, c)
           /\ (\A c \in made : SameDay(b, c) => time - c.t < DailyBackupsRetention)
                => \E c \in Listed \ {Manual} : SameDay(b, c)
    /\ Manual \in Listed
=============================================================================
