--------------------------- MODULE BackupsProofs ---------------------------
(***************************************************************************)
(* Backups, for any number of agents, any intervals and retentions, and    *)
(* any number of failed calls and crashes: what is listed can be restored  *)
(* from, and what retention promises is kept.                              *)
(*                                                                         *)
(* UploadsInv is about files.  An agent that is uploading has its name to  *)
(* itself (unless the name has clashed), so nobody removes the data file   *)
(* under it, and the meta file comes last; a removal begins with the meta  *)
(* file.                                                                   *)
(*                                                                         *)
(* RetentionInv is about names.  HistoryIsKept is not inductive: it says   *)
(* that some backup of an hour is there, not which.  Every clean-up keeps  *)
(* the same one, however stale its list is: the earliest of the hour (the  *)
(* last of those made in the same second), or of the day.  For whatever an *)
(* agent is about to remove, a better one of the same hour or day was      *)
(* made.  That the map of cleanup.go holds hourly and daily buckets under  *)
(* one key does no harm as a day begins with an hour, and a day's bucket   *)
(* that meets an hour's is met by earlier backups of that hour.            *)
(***************************************************************************)
EXTENDS Backups, WellFoundedInduction, TLAPS

(* Of two backups in a bucket, the one that MaybeDoBackupMaintenance keeps. *)
Better(c, b) == c.t < b.t \/ (c.t = b.t /\ c.seq > b.seq)

AgentStates ==
    [pc : {"idle", "data", "meta", "list", "clean"}, sequence : 0 .. MaxSequence,
     lastBackup : Int, lastCleanup : Int,
     name : BackupNames \cup {Manual}, todo : SUBSET BackupNames]

Uploading(a) == agent[a].pc \in {"data", "meta"}

FilesInv ==
    /\ BackupsTypeOK
    /\ agent \in [Agents -> AgentStates]
    /\ \A b \in named : b.t <= time
    /\ Listed \subseteq made \cup {Manual}
    /\ {<<Manual, "data">>, <<Manual, "meta">>} \subseteq tree
    /\ \A a \in Agents : Uploading(a) => agent[a].name \in named
    /\ \A a \in Agents : agent[a].pc # "clean" => agent[a].todo = {}

UploadsInv ==
    /\ \A a \in Agents : Uploading(a) /\ agent[a].name \notin clashes =>
           /\ agent[a].name \notin made
           /\ agent[a].pc = "meta" => <<agent[a].name, "data">> \in tree
           /\ \A o \in Agents \ {a} : Uploading(o) => agent[o].name # agent[a].name
    /\ ListedIsComplete

(* What an agent is about to remove: the best of its bucket was made too.  *)
TodoInv ==
    \A a \in Agents : \A x \in agent[a].todo :
        LET now == agent[a].lastCleanup
        IN  /\ now - x.t >= Hour
            /\ \/ now - x.t >= DailyBackupsRetention
               \/ \E c \in made : Bucket(c, now) = Bucket(x, now) /\ Better(c, x)

(* The best backup of an hour and of a day, for as long as it counts.      *)
BestOfHour(b) ==
    \A c \in made : SameHour(b, c) => time - c.t < HourlyBackupsRetention /\ ~Better(c, b)
BestOfDay(b) ==
    \A c \in made : SameDay(b, c) => time - c.t < DailyBackupsRetention /\ ~Better(c, b)

RetentionInv ==
    /\ TodoInv
    /\ \A b \in made :
           time - b.t < Hour \/ BestOfHour(b) \/ BestOfDay(b) => b \in Listed

-----------------------------------------------------------------------------
(* What the steps of an agent do to its record.                            *)

Turns(a, p, nm, td, lc) ==
    /\ agent' \in [Agents -> AgentStates]
    /\ \A o \in Agents \ {a} : agent'[o] = agent[o]
    /\ agent'[a].pc = p /\ agent'[a].name = nm /\ agent'[a].todo = td
    /\ agent'[a].lastCleanup = lc
    /\ agent'[a].lastBackup \in Never .. time /\ lc \in Never .. time

(* The clock.                                                              *)
LEMMA TimeIsNatural ==
    (FilesInv => time \in Nat) /\ (FilesInv' => time' \in Nat)
<1>1. \A t \in 0 .. MaxTime : t \in Nat
  OBVIOUS
<1>2. (FilesInv => time \in 0 .. MaxTime) /\ (FilesInv' => time' \in 0 .. MaxTime)
  BY Zenon DEF FilesInv, BackupsTypeOK
<1> QED
  BY <1>1, <1>2, Zenon

(* The facts about an agent that the lemmas below start from. *)
LEMMA AgentFacts ==
    ASSUME FilesInv, NEW a \in Agents
    PROVE  /\ agent \in [Agents -> AgentStates] /\ agent[a] \in AgentStates
           /\ agent[a].lastBackup \in Never .. time /\ agent[a].lastCleanup \in Never .. time
           /\ time \in 0 .. MaxTime /\ Never \in Int /\ Never <= 0
BY BackupsAssumption DEF FilesInv, BackupsTypeOK, Never

LEMMA DoneTurns ==
    ASSUME FilesInv, NEW a \in Agents, Done(a)
    PROVE  Turns(a, "idle", Manual, {}, agent[a].lastCleanup)
<1> DEFINE r == [agent[a] EXCEPT !.pc = "idle", !.name = Manual, !.todo = {}]
<1>1. agent' = [agent EXCEPT ![a] = r]
  BY AgentFacts, Zenon DEF Done
<1>2. r \in AgentStates
  BY AgentFacts, Zenon DEF AgentStates
<1>3. /\ r.pc = "idle" /\ r.name = Manual /\ r.todo = {}
      /\ r.lastCleanup = agent[a].lastCleanup /\ r.lastBackup = agent[a].lastBackup
  BY AgentFacts, Zenon DEF AgentStates
<1> HIDE DEF r
<1> QED
  BY <1>1, <1>2, <1>3, AgentFacts, Zenon DEF Turns

LEMMA CrashTurns ==
    ASSUME FilesInv, NEW a \in Agents, CrashAgent(a)
    PROVE  Turns(a, "idle", Manual, {}, Never)
<1>1. NewAgent \in AgentStates
  BY AgentFacts, BackupsAssumption DEF NewAgent, AgentStates
<1>2. /\ NewAgent.pc = "idle" /\ NewAgent.name = Manual /\ NewAgent.todo = {}
      /\ NewAgent.lastCleanup = Never /\ NewAgent.lastBackup = Never
  BY Zenon DEF NewAgent
<1>3. Never \in Never .. time
  BY AgentFacts
<1> QED
  BY <1>1, <1>2, <1>3, AgentFacts, Zenon DEF CrashAgent, Turns

LEMMA BackupTurns ==
    ASSUME FilesInv, NEW a \in Agents, MaybeBackup(a)
    PROVE  \E b \in BackupNames :
               /\ Turns(a, "data", b, {}, agent[a].lastCleanup)
               /\ b.t = time
               /\ named' = named \cup {b} /\ clashes' = clashes \cup (named \cap {b})
<1> DEFINE n == NextSequence(agent[a].sequence)
           b == [t |-> time, seq |-> n]
           r == [agent[a] EXCEPT !.pc = "data", !.sequence = n, !.name = b]
<1>1. agent' = [agent EXCEPT ![a] = r]
  BY AgentFacts, Zenon DEF MaybeBackup
<1>2. n \in 0 .. MaxSequence
  BY AgentFacts, BackupsAssumption DEF AgentStates, NextSequence
<1>3. b \in BackupNames /\ b.t = time
  BY <1>2, AgentFacts, Zenon DEF BackupNames
<1>4. named' = named \cup {b} /\ clashes' = clashes \cup (named \cap {b})
  BY Zenon DEF MaybeBackup
<1>5. agent[a].todo = {}
  BY Zenon DEF MaybeBackup, FilesInv
<1> HIDE DEF n, b
<1>6. r \in AgentStates
  BY <1>2, <1>3, AgentFacts, Zenon DEF AgentStates
<1>7. /\ r.pc = "data" /\ r.name = b /\ r.todo = {}
      /\ r.lastCleanup = agent[a].lastCleanup /\ r.lastBackup = agent[a].lastBackup
  BY <1>5, AgentFacts, Zenon DEF AgentStates
<1> HIDE DEF r
<1>8. Turns(a, "data", b, {}, agent[a].lastCleanup)
  BY <1>1, <1>6, <1>7, AgentFacts, Zenon DEF Turns
<1> QED
  BY <1>3, <1>4, <1>8, Zenon

(* UploadData, when it succeeds. *)
LEMMA DataTurns ==
    ASSUME FilesInv, NEW a \in Agents, agent[a].pc = "data",
           agent' = [agent EXCEPT ![a].pc = "meta"]
    PROVE  Turns(a, "meta", agent[a].name, {}, agent[a].lastCleanup)
<1> DEFINE r == [agent[a] EXCEPT !.pc = "meta"]
<1>1. agent' = [agent EXCEPT ![a] = r]
  BY AgentFacts, Zenon
<1>2. r \in AgentStates
  BY AgentFacts, Zenon DEF AgentStates
<1>3. /\ r.pc = "meta" /\ r.name = agent[a].name /\ r.todo = {}
      /\ r.lastCleanup = agent[a].lastCleanup /\ r.lastBackup = agent[a].lastBackup
  BY AgentFacts, Zenon DEF AgentStates, FilesInv
<1> HIDE DEF r
<1> QED
  BY <1>1, <1>2, <1>3, AgentFacts, Zenon DEF Turns

(* UploadMeta: the backup is complete, or an error ends it. *)
LEMMA MetaTurns ==
    ASSUME FilesInv, NEW a \in Agents, UploadMeta(a)
    PROVE  \/ /\ \E p \in {"list", "idle"}, lc \in Never .. time : Turns(a, p, Manual, {}, lc)
              /\ tree' = tree \cup {<<agent[a].name, "meta">>}
              /\ made' = made \cup {agent[a].name}
              /\ UNCHANGED mishaps
           \/ /\ Turns(a, "idle", Manual, {}, agent[a].lastCleanup)
              /\ Fault
              /\ UNCHANGED <<tree, made>>
<1>1. CASE Fault /\ Done(a) /\ UNCHANGED <<tree, made>>
  BY <1>1, DoneTurns, Zenon
<1> DEFINE due == time - agent[a].lastCleanup >= CleanupInterval
           p == IF due THEN "list" ELSE "idle"
           lc == IF due THEN time ELSE agent[a].lastCleanup
           lb == agent[a].name.t
           r == [agent[a] EXCEPT !.lastBackup = lb, !.name = Manual, !.pc = p, !.lastCleanup = lc]
<1>2. CASE /\ tree' = tree \cup {<<agent[a].name, "meta">>}
           /\ made' = made \cup {agent[a].name}
           /\ agent' = [agent EXCEPT
                  ![a].lastBackup = agent[a].name.t,
                  ![a].name = Manual,
                  ![a].pc = IF due THEN "list" ELSE "idle",
                  ![a].lastCleanup = IF due THEN time ELSE @]
           /\ UNCHANGED mishaps
  <2>1. p \in {"list", "idle"} /\ lc \in Never .. time
    BY AgentFacts
  <2>2. lb \in Never .. time
    <3>1. agent[a].name \in named
      BY Zenon DEF UploadMeta, FilesInv, Uploading
    <3>2. lb \in 0 .. MaxTime /\ lb <= time
      BY <3>1, Zenon DEF FilesInv, BackupsTypeOK, BackupNames
    <3> QED
      BY <3>2, AgentFacts
  <2>3. agent[a].todo = {}
    BY Zenon DEF UploadMeta, FilesInv
  <2>4. agent' = [agent EXCEPT ![a] = r]
    BY <1>2, AgentFacts, Zenon DEF AgentStates
  <2> HIDE DEF due, p, lc, lb
  <2>5. r \in AgentStates
    <3>1. lb \in Int /\ lc \in Int
      BY <2>1, <2>2, AgentFacts
    <3> QED
      BY <2>1, <3>1, AgentFacts, Zenon DEF AgentStates
  <2>6. /\ r.pc = p /\ r.name = Manual /\ r.todo = {} /\ r.lastCleanup = lc /\ r.lastBackup = lb
    BY <2>3, AgentFacts, Zenon DEF AgentStates
  <2> HIDE DEF r
  <2>7. Turns(a, p, Manual, {}, lc)
    BY <2>1, <2>2, <2>4, <2>5, <2>6, AgentFacts, Zenon DEF Turns
  <2> QED
    BY <1>2, <2>1, <2>7, Zenon
<1> QED
  BY <1>1, <1>2, Zenon DEF UploadMeta

-----------------------------------------------------------------------------
(* Names.                                                                  *)

LEMMA HasLeast ==
    ASSUME NEW S \in SUBSET Nat, S # {}
    PROVE  \E x \in S : \A y \in S : x <= y
<1> DEFINE R == OpToRel(<, Nat)
<1>1. IsWellFoundedOn(R, Nat)
  BY NatLessThanWellFounded, Zenon
<1>2. \A x, y \in Nat : y < x => <<y, x>> \in R
  BY Zenon DEF OpToRel
<1> HIDE DEF R
<1>3. PICK x \in S : \A y \in S : ~(<<y, x>> \in R)
  BY <1>1, WFMin, Zenon
<1>4. ASSUME NEW y \in S PROVE x <= y
  <2>1. x \in Nat /\ y \in Nat
    BY Zenon
  <2>2. ~(y < x)
    BY <1>2, <1>3, <2>1, Zenon
  <2> QED
    BY <2>1, <2>2
<1> QED
  BY <1>4, Zenon

LEMMA NameParts ==
    ASSUME NEW b \in BackupNames
    PROVE  /\ b.t \in Nat /\ b.t <= MaxTime /\ b.seq \in Nat /\ b.seq <= MaxSequence
           /\ b # Manual
BY BackupsAssumption DEF BackupNames

LEMMA NamesAreTheirParts ==
    ASSUME NEW b \in BackupNames, NEW c \in BackupNames, b.t = c.t, b.seq = c.seq
    PROVE  b = c
BY DEF BackupNames

(* Among the names with the earliest time, one has the lowest sequence     *)
(* number and one the highest.                                             *)
LEMMA EarliestNames ==
    ASSUME NEW S \in SUBSET BackupNames, S # {}
    PROVE  /\ \E b \in S : \A c \in S : b.t < c.t \/ (b.t = c.t /\ b.seq <= c.seq)
           /\ \E b \in S : \A c \in S : b.t < c.t \/ (b.t = c.t /\ b.seq >= c.seq)
<1> DEFINE times == {b.t : b \in S}
<1>1. PICK e \in S : \A c \in S : e.t <= c.t
  <2>1. times \in SUBSET Nat /\ times # {}
    BY NameParts, Zenon
  <2> HIDE DEF times
  <2>2. PICK x \in times : \A y \in times : x <= y
    BY <2>1, HasLeast, Zenon
  <2> QED
    BY <2>2, Zenon DEF times
<1> DEFINE early == {c \in S : c.t = e.t}
           seqs == {c.seq : c \in early}
           gaps == {MaxSequence - c.seq : c \in early}
<1>2. PICK b \in early : \A c \in early : b.seq <= c.seq
  <2>1. seqs \in SUBSET Nat /\ seqs # {}
    BY NameParts, Zenon
  <2> HIDE DEF seqs
  <2>2. PICK x \in seqs : \A y \in seqs : x <= y
    BY <2>1, HasLeast, Zenon
  <2> QED
    BY <2>2, Zenon DEF seqs
<1>3. PICK d \in early : \A c \in early : MaxSequence - d.seq <= MaxSequence - c.seq
  <2>1. gaps \in SUBSET Nat /\ gaps # {}
    <3>1. \A c \in early : MaxSequence - c.seq \in Nat
      BY NameParts, BackupsAssumption
    <3>2. early # {}
      BY Zenon
    <3> QED
      BY <3>1, <3>2, Zenon
  <2> HIDE DEF gaps
  <2>2. PICK x \in gaps : \A y \in gaps : x <= y
    BY <2>1, HasLeast, Zenon
  <2> QED
    BY <2>2, Zenon DEF gaps
<1>4. \A c \in S : c.t \in Nat /\ c.seq \in Nat
  BY NameParts, Zenon
<1>5. \A c \in S : b.t < c.t \/ (b.t = c.t /\ b.seq <= c.seq)
  BY <1>1, <1>2, <1>4
<1>6. \A c \in S : d.t < c.t \/ (d.t = c.t /\ d.seq >= c.seq)
  BY <1>1, <1>3, <1>4, BackupsAssumption
<1> QED
  BY <1>2, <1>3, <1>5, <1>6, Zenon

(* The clean-up always finds the next backup to remove. *)
LEMMA FirstIsOne ==
    ASSUME NEW S \in SUBSET BackupNames, S # {}
    PROVE  First(S) \in S
<1>1. PICK b \in S : \A c \in S : b.t < c.t \/ (b.t = c.t /\ b.seq <= c.seq)
  BY EarliestNames, Zenon
<1>2. ASSUME NEW c \in S PROVE c = b \/ Before(b, c)
  <2>1. b.seq \in Nat /\ c.seq \in Nat
    BY NameParts, Zenon
  <2>2. CASE b.t = c.t /\ b.seq = c.seq
    BY <2>2, NamesAreTheirParts, Zenon
  <2>3. CASE b.t < c.t \/ (b.t = c.t /\ b.seq < c.seq)
    BY <2>3, Zenon DEF Before
  <2> QED
    BY <1>1, <2>1, <2>2, <2>3
<1> QED
  BY <1>2, Zenon DEF First

(* The backups with a meta file, in any tree. *)
LEMMA ListedMeans ==
    ASSUME NEW S, NEW T \in SUBSET (S \X {"data", "meta"})
    PROVE  \A x : x \in {f[1] : f \in {g \in T : g[2] = "meta"}} <=> <<x, "meta">> \in T
<1>1. ASSUME NEW x, x \in {f[1] : f \in {g \in T : g[2] = "meta"}}
      PROVE  <<x, "meta">> \in T
  <2>1. PICK f \in T : f[2] = "meta" /\ f[1] = x
    BY <1>1, Zenon
  <2>2. f = <<f[1], f[2]>>
    OBVIOUS
  <2> QED
    BY <2>1, <2>2, Zenon
<1>2. ASSUME NEW x, <<x, "meta">> \in T
      PROVE  x \in {f[1] : f \in {g \in T : g[2] = "meta"}}
  BY <1>2
<1> QED
  BY <1>1, <1>2, Zenon

LEMMA ListedNow ==
    ASSUME BackupsTypeOK
    PROVE  \A x : x \in Listed <=> <<x, "meta">> \in tree
BY ListedMeans, Zenon DEF BackupsTypeOK, Listed

LEMMA ListedNext ==
    ASSUME tree' \subseteq (BackupNames \cup {Manual}) \X {"data", "meta"}
    PROVE  \A x : x \in Listed' <=> <<x, "meta">> \in tree'
BY ListedMeans, Zenon DEF Listed

LEMMA ListTurns ==
    ASSUME FilesInv, NEW a \in Agents, CleanList(a)
    PROVE  \/ LET names == Listed \ {Manual}
                  todo == names \ Retained(names, agent[a].lastCleanup)
              IN  Turns(a, "clean", agent[a].name, todo, agent[a].lastCleanup) /\ UNCHANGED mishaps
           \/ Turns(a, "idle", Manual, {}, agent[a].lastCleanup) /\ Fault
<1> DEFINE names == Listed \ {Manual}
           todo == names \ Retained(names, agent[a].lastCleanup)
           r == [agent[a] EXCEPT !.pc = "clean", !.todo = todo]
<1>1. CASE Fault /\ Done(a)
  BY <1>1, DoneTurns, Zenon
<1>2. CASE agent' = [agent EXCEPT ![a].pc = "clean", ![a].todo = todo] /\ UNCHANGED mishaps
  <2>1. todo \in SUBSET BackupNames
    BY Zenon DEF FilesInv, BackupsTypeOK
  <2> HIDE DEF todo
  <2>2. agent' = [agent EXCEPT ![a] = r]
    BY <1>2, AgentFacts, Zenon
  <2>3. r \in AgentStates
    BY <2>1, AgentFacts, Zenon DEF AgentStates
  <2>4. /\ r.pc = "clean" /\ r.name = agent[a].name /\ r.todo = todo
        /\ r.lastCleanup = agent[a].lastCleanup /\ r.lastBackup = agent[a].lastBackup
    BY AgentFacts, Zenon DEF AgentStates
  <2> HIDE DEF r
  <2>5. Turns(a, "clean", agent[a].name, todo, agent[a].lastCleanup)
    BY <2>2, <2>3, <2>4, AgentFacts, Zenon DEF Turns
  <2> QED
    BY <1>2, <2>5, Zenon DEF todo
<1> QED
  BY <1>1, <1>2, Zenon DEF CleanList

(* RemoveFile: one file of a backup that is to be removed, or none. *)
LEMMA RemoveTurns ==
    ASSUME FilesInv, NEW a \in Agents, RemoveFile(a)
    PROVE  \E b \in agent[a].todo, td \in SUBSET agent[a].todo :
               /\ Turns(a, "clean", agent[a].name, td, agent[a].lastCleanup)
               /\ tree' \in {tree, tree \ {NextFile(b)}}
               /\ mishaps' = mishaps \/ Fault
<1>1. agent[a] \in AgentStates
  BY AgentFacts, Zenon
<1>2. PICK todo \in SUBSET BackupNames : todo = agent[a].todo
  BY <1>1, Zenon DEF AgentStates
<1>3. PICK b \in todo : b = First(todo)
  BY <1>2, FirstIsOne, Zenon DEF RemoveFile
<1>4. ASSUME agent' = [agent EXCEPT ![a].todo = @ \ {b}]
      PROVE  Turns(a, "clean", agent[a].name, todo \ {b}, agent[a].lastCleanup)
  <2> DEFINE r == [agent[a] EXCEPT !.todo = todo \ {b}]
  <2>1. agent' = [agent EXCEPT ![a] = r]
    BY <1>2, <1>4, AgentFacts, Zenon
  <2>2. r \in AgentStates
    BY <1>1, <1>2, Zenon DEF AgentStates
  <2>3. /\ r.pc = "clean" /\ r.name = agent[a].name /\ r.todo = todo \ {b}
        /\ r.lastCleanup = agent[a].lastCleanup /\ r.lastBackup = agent[a].lastBackup
    BY <1>1, Zenon DEF AgentStates, RemoveFile
  <2> HIDE DEF r
  <2> QED
    BY <2>1, <2>2, <2>3, AgentFacts, Zenon DEF Turns
<1>5. ASSUME UNCHANGED agent
      PROVE  Turns(a, "clean", agent[a].name, todo, agent[a].lastCleanup)
  BY <1>2, <1>5, AgentFacts, Zenon DEF Turns, RemoveFile
<1>6. /\ agent' = [agent EXCEPT ![a].todo = @ \ {b}] \/ UNCHANGED agent
      /\ tree' \in {tree, tree \ {NextFile(b)}}
      /\ mishaps' = mishaps \/ Fault
  BY <1>2, <1>3, Zenon DEF RemoveFile
<1> QED
  BY <1>2, <1>4, <1>5, <1>6

-----------------------------------------------------------------------------
(* Files.                                                                  *)

(* The parts of the invariants that concern one agent follow from what it  *)
(* turns into.                                                             *)
LEMMA AgentKeeps ==
    ASSUME FilesInv, NEW a \in Agents, NEW p, NEW nm, NEW td, NEW lc,
           Turns(a, p, nm, td, lc),
           UNCHANGED time,
           made \subseteq made', made' \subseteq named', clashes' \subseteq named',
           named \subseteq named', named' \subseteq BackupNames,
           \A b \in named' : b.t <= time,
           tree' \subseteq (BackupNames \cup {Manual}) \X {"data", "meta"},
           {<<Manual, "data">>, <<Manual, "meta">>} \subseteq tree',
           \A x : <<x, "meta">> \in tree' => x \in made' \cup {Manual},
           td \subseteq made', p # "clean" => td = {},
           p \in {"data", "meta"} => nm \in named',
           mishaps' = mishaps \/ Fault
    PROVE  FilesInv'
<1>1. mishaps' \in 0 .. MaxFaults
  BY BackupsAssumption DEF FilesInv, BackupsTypeOK, Fault
<1>2. agent' \in [Agents -> AgentStates]
  BY Zenon DEF Turns
<1>3. ASSUME NEW o \in Agents
      PROVE  /\ agent'[o].pc \in {"idle", "data", "meta", "list", "clean"}
             /\ agent'[o].sequence \in 0 .. MaxSequence
             /\ agent'[o].name \in BackupNames \cup {Manual}
  BY <1>2, Zenon DEF AgentStates
<1>4. ASSUME NEW o \in Agents
      PROVE  /\ {agent'[o].lastBackup, agent'[o].lastCleanup} \subseteq Never .. time'
             /\ agent'[o].todo \subseteq made'
             /\ agent'[o].pc # "clean" => agent'[o].todo = {}
             /\ agent'[o].pc \in {"data", "meta"} => agent'[o].name \in named'
  <2>1. CASE o = a
    BY <2>1, Zenon DEF Turns
  <2>2. CASE o # a
    <3>1. agent'[o] = agent[o]
      BY <2>2, Zenon DEF Turns
    <3> QED
      BY <3>1 DEF FilesInv, BackupsTypeOK, Uploading
  <2> QED
    BY <2>1, <2>2, Zenon
<1>5. Listed' \subseteq made' \cup {Manual}
  BY ListedNext, Zenon
<1>6. BackupsTypeOK'
  BY <1>1, <1>3, <1>4, Zenon DEF FilesInv, BackupsTypeOK
<1> QED
  BY <1>2, <1>4, <1>5, <1>6, Zenon DEF FilesInv, Uploading

(* What AgentKeeps asks for, when nothing happens to the backups. *)
LEMMA FilesNow ==
    ASSUME FilesInv
    PROVE  /\ made \subseteq named /\ clashes \subseteq named /\ named \subseteq BackupNames
           /\ tree \subseteq (BackupNames \cup {Manual}) \X {"data", "meta"}
           /\ {<<Manual, "data">>, <<Manual, "meta">>} \subseteq tree
           /\ \A x : <<x, "meta">> \in tree => x \in made \cup {Manual}
           /\ \A b \in named : b.t <= time
BY ListedNow, Zenon DEF FilesInv, BackupsTypeOK

LEMMA MaybeBackupFiles ==
    ASSUME FilesInv, NEW a \in Agents, MaybeBackup(a)
    PROVE  FilesInv'
<1>1. PICK b \in BackupNames :
          /\ Turns(a, "data", b, {}, agent[a].lastCleanup)
          /\ b.t = time
          /\ named' = named \cup {b} /\ clashes' = clashes \cup (named \cap {b})
  BY BackupTurns, Zenon
<1>2. UNCHANGED <<time, tree, made, mishaps>>
  BY Zenon DEF MaybeBackup
<1>3. b.t <= time
  BY <1>1, NameParts
<1>4. \A c \in named' : c.t <= time
  BY <1>1, <1>3, FilesNow, Zenon
<1>5. made' \subseteq named' /\ clashes' \subseteq named' /\ named \subseteq named' /\ named' \subseteq BackupNames
  BY <1>1, <1>2, FilesNow, Zenon
<1>6. b \in named'
  BY <1>1, Zenon
<1> QED
  BY <1>1, <1>2, <1>4, <1>5, <1>6, FilesNow, AgentKeeps

LEMMA UploadDataFiles ==
    ASSUME FilesInv, NEW a \in Agents, UploadData(a)
    PROVE  FilesInv'
<1>1. UNCHANGED <<time, made, named, clashes>> /\ agent[a].name \in named
  BY Zenon DEF UploadData, FilesInv, Uploading
<1>2. CASE /\ tree' = tree \cup {<<agent[a].name, "data">>}
           /\ agent' = [agent EXCEPT ![a].pc = "meta"]
           /\ UNCHANGED mishaps
  <2>1. Turns(a, "meta", agent[a].name, {}, agent[a].lastCleanup)
    BY <1>2, DataTurns, Zenon DEF UploadData
  <2>2. tree' \subseteq (BackupNames \cup {Manual}) \X {"data", "meta"}
    BY <1>1, <1>2, FilesNow
  <2>3. \A x : <<x, "meta">> \in tree' => x \in made' \cup {Manual}
    BY <1>1, <1>2, FilesNow, Zenon
  <2>4. {<<Manual, "data">>, <<Manual, "meta">>} \subseteq tree'
    BY <1>2, FilesNow, Zenon
  <2> QED
    BY <1>1, <1>2, <2>1, <2>2, <2>3, <2>4, FilesNow, AgentKeeps
<1>3. CASE Fault /\ Done(a) /\ UNCHANGED tree
  <2>1. Turns(a, "idle", Manual, {}, agent[a].lastCleanup)
    BY <1>3, DoneTurns, Zenon
  <2> QED
    BY <1>1, <1>3, <2>1, FilesNow, AgentKeeps
<1> QED
  BY <1>2, <1>3, Zenon DEF UploadData

LEMMA UploadMetaFiles ==
    ASSUME FilesInv, NEW a \in Agents, UploadMeta(a)
    PROVE  FilesInv'
<1>1. UNCHANGED <<time, named, clashes>> /\ agent[a].name \in named
  BY Zenon DEF UploadMeta, FilesInv, Uploading
<1>2. CASE /\ \E p \in {"list", "idle"}, lc \in Never .. time : Turns(a, p, Manual, {}, lc)
           /\ tree' = tree \cup {<<agent[a].name, "meta">>}
           /\ made' = made \cup {agent[a].name}
           /\ UNCHANGED mishaps
  <2>1. PICK p \in {"list", "idle"}, lc \in Never .. time : Turns(a, p, Manual, {}, lc)
    BY <1>2, Zenon
  <2>2. tree' \subseteq (BackupNames \cup {Manual}) \X {"data", "meta"}
    BY <1>1, <1>2, FilesNow
  <2>3. \A x : <<x, "meta">> \in tree' => x \in made' \cup {Manual}
    BY <1>1, <1>2, FilesNow, Zenon
  <2>4. {<<Manual, "data">>, <<Manual, "meta">>} \subseteq tree'
    BY <1>2, FilesNow, Zenon
  <2>5. made \subseteq made' /\ made' \subseteq named'
    BY <1>1, <1>2, FilesNow, Zenon
  <2> QED
    BY <1>1, <1>2, <2>1, <2>2, <2>3, <2>4, <2>5, FilesNow, AgentKeeps
<1>3. CASE /\ Turns(a, "idle", Manual, {}, agent[a].lastCleanup)
           /\ Fault
           /\ UNCHANGED <<tree, made>>
  BY <1>1, <1>3, FilesNow, AgentKeeps
<1> QED
  BY <1>2, <1>3, MetaTurns, Zenon

LEMMA CleanListFiles ==
    ASSUME FilesInv, NEW a \in Agents, CleanList(a)
    PROVE  FilesInv'
<1> DEFINE names == Listed \ {Manual}
           todo == names \ Retained(names, agent[a].lastCleanup)
<1>1. UNCHANGED <<time, tree, made, named, clashes>>
  BY Zenon DEF CleanList
<1>2. todo \subseteq made
  BY Zenon DEF FilesInv
<1>3. CASE Turns(a, "clean", agent[a].name, todo, agent[a].lastCleanup) /\ UNCHANGED mishaps
  <2> HIDE DEF todo
  <2> QED
    BY <1>1, <1>2, <1>3, FilesNow, AgentKeeps, Zenon
<1>4. CASE Turns(a, "idle", Manual, {}, agent[a].lastCleanup) /\ Fault
  BY <1>1, <1>4, FilesNow, AgentKeeps
<1> QED
  BY <1>3, <1>4, ListTurns, Zenon

(* What a removal does to the files: never to those that etcd-manager did  *)
(* not name, never to those of a backup that is not complete yet, and to   *)
(* the data file only where the meta file is gone.                         *)
LEMMA RemovedFile ==
    ASSUME FilesInv, NEW a \in Agents, RemoveFile(a)
    PROVE  \E b \in made, td \in SUBSET agent[a].todo :
               /\ b \in agent[a].todo
               /\ Turns(a, "clean", agent[a].name, td, agent[a].lastCleanup)
               /\ tree' \subseteq tree
               /\ \A x, k : <<x, k>> \in tree \ tree' =>
                      x = b /\ (k = "data" => <<b, "meta">> \notin tree)
               /\ mishaps' = mishaps \/ Fault
<1>1. PICK b \in agent[a].todo, td \in SUBSET agent[a].todo :
          /\ Turns(a, "clean", agent[a].name, td, agent[a].lastCleanup)
          /\ tree' \in {tree, tree \ {NextFile(b)}}
          /\ mishaps' = mishaps \/ Fault
  BY RemoveTurns, Zenon
<1>2. b \in made
  BY Zenon DEF FilesInv, BackupsTypeOK
<1>3. ASSUME NEW x, NEW k, <<x, k>> = NextFile(b)
      PROVE  x = b /\ (k = "data" => <<b, "meta">> \notin tree)
  BY <1>3, Zenon DEF NextFile
<1> QED
  BY <1>1, <1>2, <1>3, Zenon

LEMMA RemoveFileFiles ==
    ASSUME FilesInv, NEW a \in Agents, RemoveFile(a)
    PROVE  FilesInv'
<1>1. PICK b \in made, td \in SUBSET agent[a].todo :
          /\ Turns(a, "clean", agent[a].name, td, agent[a].lastCleanup)
          /\ tree' \subseteq tree
          /\ \A x, k : <<x, k>> \in tree \ tree' =>
                 x = b /\ (k = "data" => <<b, "meta">> \notin tree)
          /\ mishaps' = mishaps \/ Fault
  BY RemovedFile, Zenon
<1>2. UNCHANGED <<time, made, named, clashes>>
  BY Zenon DEF RemoveFile
<1>3. b # Manual
  BY FilesNow, NameParts, Zenon
<1>4. {<<Manual, "data">>, <<Manual, "meta">>} \subseteq tree'
  BY <1>1, <1>3, FilesNow, Zenon
<1>5. td \subseteq made
  BY Zenon DEF FilesInv, BackupsTypeOK
<1>6. /\ tree' \subseteq (BackupNames \cup {Manual}) \X {"data", "meta"}
      /\ \A x : <<x, "meta">> \in tree' => x \in made' \cup {Manual}
  BY <1>1, <1>2, FilesNow, Zenon
<1> QED
  BY <1>1, <1>2, <1>4, <1>5, <1>6, FilesNow, AgentKeeps, Zenon

(* CleanEnds and CrashAgent leave the files alone. *)
LEMMA EndsFiles ==
    ASSUME FilesInv, NEW a \in Agents, CleanEnds(a) \/ CrashAgent(a)
    PROVE  FilesInv'
<1>1. UNCHANGED <<time, tree, made, named, clashes>> /\ (mishaps' = mishaps \/ Fault)
  BY Zenon DEF CleanEnds, CrashAgent
<1>2. \E lc : Turns(a, "idle", Manual, {}, lc)
  BY DoneTurns, CrashTurns, Zenon DEF CleanEnds
<1> QED
  BY <1>1, <1>2, FilesNow, AgentKeeps

LEMMA TickFiles ==
    ASSUME FilesInv, Tick
    PROVE  FilesInv'
<1>1. /\ time \in 0 .. MaxTime /\ time' \in 0 .. MaxTime /\ time <= time' /\ Never \in Int
      /\ UNCHANGED <<tree, agent, made, named, clashes, mishaps>>
  BY BackupsAssumption DEF FilesInv, BackupsTypeOK, Tick, Never
<1>2. Never .. time \subseteq Never .. time'
  BY <1>1
<1>3. \A b \in named : b.t <= time'
  BY <1>1, FilesNow, NameParts
<1>4. Listed' = Listed
  BY <1>1, Zenon DEF Listed
<1>5. \A a \in Agents : {agent[a].lastBackup, agent[a].lastCleanup} \subseteq Never .. time'
  BY <1>2, Zenon DEF FilesInv, BackupsTypeOK
<1>6. BackupsTypeOK'
  BY <1>1, <1>5, Zenon DEF FilesInv, BackupsTypeOK
<1> QED
  BY <1>1, <1>3, <1>4, <1>6, Zenon DEF FilesInv, Uploading

LEMMA StutterFiles ==
    ASSUME FilesInv, UNCHANGED backupVars
    PROVE  FilesInv'
BY Zenon DEF backupVars, FilesInv, BackupsTypeOK, Listed, Uploading

LEMMA FilesStep == FilesInv /\ [BackupsNext]_backupVars => FilesInv'
BY MaybeBackupFiles, UploadDataFiles, UploadMetaFiles, CleanListFiles, RemoveFileFiles,
   EndsFiles, TickFiles, StutterFiles, Zenon DEF BackupsNext

LEMMA FilesInit == BackupsInit => FilesInv
<1> SUFFICES ASSUME BackupsInit PROVE FilesInv
  BY Zenon
<1>1. Never \in Int /\ Never <= 0
  BY BackupsAssumption DEF Never
<1>2. NewAgent \in AgentStates
  BY <1>1, BackupsAssumption DEF NewAgent, AgentStates
<1>3. agent \in [Agents -> AgentStates] /\ \A a \in Agents : agent[a] = NewAgent
  BY <1>2, Zenon DEF BackupsInit
<1>4. /\ NewAgent.pc = "idle" /\ NewAgent.sequence = 0 /\ NewAgent.lastBackup = Never
      /\ NewAgent.lastCleanup = Never /\ NewAgent.name = Manual /\ NewAgent.todo = {}
  BY Zenon DEF NewAgent
<1>5. Never \in Never .. time /\ time \in 0 .. MaxTime /\ 0 \in 0 .. MaxSequence /\ mishaps \in 0 .. MaxFaults
  BY <1>1, BackupsAssumption DEF BackupsInit
<1>6. tree \subseteq (BackupNames \cup {Manual}) \X {"data", "meta"}
  BY DEF BackupsInit
<1>7. BackupsTypeOK
  BY <1>3, <1>4, <1>5, <1>6, Zenon DEF BackupsTypeOK, BackupsInit
<1>8. Listed \subseteq {Manual}
  BY <1>7, ListedNow, Zenon DEF BackupsInit
<1> QED
  BY <1>3, <1>4, <1>7, <1>8, Zenon DEF FilesInv, BackupsInit, Uploading

-----------------------------------------------------------------------------
(* Uploads.                                                                *)

(* What UploadsInv says of one agent. *)
OwnsName(a) ==
    /\ agent[a].name \notin made
    /\ agent[a].pc = "meta" => <<agent[a].name, "data">> \in tree
    /\ \A o \in Agents \ {a} : Uploading(o) => agent[o].name # agent[a].name

LEMMA OwnName ==
    ASSUME UploadsInv, NEW a \in Agents, Uploading(a), agent[a].name \notin clashes
    PROVE  OwnsName(a)
BY Zenon DEF UploadsInv, OwnsName

(* A step in which no agent begins an upload, and none gets a name. *)
LEMMA UploadsKeep ==
    ASSUME UploadsInv, NEW a \in Agents, NEW p, NEW nm, NEW td, NEW lc,
           Turns(a, p, nm, td, lc), p \notin {"data", "meta"},
           clashes' = clashes,
           \A o \in Agents \ {a} : Uploading(o) /\ agent[o].name \notin clashes =>
               /\ agent[o].name \notin made'
               /\ agent[o].pc = "meta" => <<agent[o].name, "data">> \in tree',
           ListedIsComplete'
    PROVE  UploadsInv'
<1>1. ASSUME NEW o \in Agents, Uploading(o)', agent'[o].name \notin clashes
      PROVE  OwnsName(o)'
  <2>1. o # a /\ agent'[o] = agent[o] /\ Uploading(o)
    BY <1>1, Zenon DEF Turns, Uploading
  <2>2. OwnsName(o)
    BY <1>1, <2>1, OwnName, Zenon
  <2>3. \A q \in Agents \ {o} : Uploading(q)' => agent'[q].name # agent'[o].name
    BY <2>1, <2>2, Zenon DEF OwnsName, Turns, Uploading
  <2>4. /\ agent'[o].name \notin made'
        /\ agent'[o].pc = "meta" => <<agent'[o].name, "data">> \in tree'
    BY <1>1, <2>1, Zenon
  <2> QED
    BY <2>3, <2>4, Zenon DEF OwnsName
<1> QED
  BY <1>1, Zenon DEF UploadsInv, OwnsName

(* ListedIsComplete in terms of files. *)
LEMMA CompleteNow ==
    ASSUME FilesInv, UploadsInv
    PROVE  \A b : <<b, "meta">> \in tree /\ b \notin clashes => <<b, "data">> \in tree
BY ListedNow, Zenon DEF FilesInv, UploadsInv, ListedIsComplete

LEMMA CompleteNext ==
    ASSUME FilesInv',
           \A b : <<b, "meta">> \in tree' /\ b \notin clashes' => <<b, "data">> \in tree'
    PROVE  ListedIsComplete'
BY ListedNext, Zenon DEF FilesInv, BackupsTypeOK, ListedIsComplete

(* A name that has been chosen before is a clash from now on. *)
LEMMA MaybeBackupUploads ==
    ASSUME FilesInv, FilesInv', UploadsInv, NEW a \in Agents, MaybeBackup(a)
    PROVE  UploadsInv'
<1>1. PICK b \in BackupNames :
          /\ Turns(a, "data", b, {}, agent[a].lastCleanup)
          /\ named' = named \cup {b} /\ clashes' = clashes \cup (named \cap {b})
  BY BackupTurns, Zenon
<1>2. UNCHANGED <<tree, made>>
  BY Zenon DEF MaybeBackup
<1>3. ListedIsComplete'
  BY <1>1, <1>2, CompleteNow, CompleteNext, Zenon
<1>4. ASSUME NEW o \in Agents, Uploading(o)', agent'[o].name \notin clashes'
      PROVE  OwnsName(o)'
  <2>1. CASE o = a
    <3>1. agent'[o].name = b /\ agent'[o].pc = "data" /\ b \notin named
      BY <1>1, <1>4, <2>1, Zenon DEF Turns
    <3>2. b \notin made'
      BY <1>2, <3>1, FilesNow, Zenon
    <3>3. \A q \in Agents \ {o} : Uploading(q)' => agent'[q].name # b
      BY <1>1, <2>1, <3>1 DEF Turns, Uploading, FilesInv
    <3> QED
      BY <3>1, <3>2, <3>3, Zenon DEF OwnsName
  <2>2. CASE o # a
    <3>1. agent'[o] = agent[o] /\ Uploading(o)
      BY <1>1, <1>4, <2>2, Zenon DEF Turns, Uploading
    <3>2. OwnsName(o) /\ agent[o].name \in named
      BY <1>1, <1>4, <3>1, OwnName, Zenon DEF FilesInv
    <3>3. agent[o].name # b
      BY <1>1, <1>4, <3>1, <3>2, Zenon
    <3>4. \A q \in Agents \ {o} : Uploading(q)' => agent'[q].name # agent'[o].name
      BY <1>1, <3>1, <3>2, <3>3, Zenon DEF OwnsName, Turns, Uploading
    <3> QED
      BY <1>2, <3>1, <3>2, <3>4, Zenon DEF OwnsName
  <2> QED
    BY <2>1, <2>2, Zenon
<1> QED
  BY <1>3, <1>4, Zenon DEF UploadsInv, OwnsName

LEMMA UploadDataUploads ==
    ASSUME FilesInv, FilesInv', UploadsInv, NEW a \in Agents, UploadData(a)
    PROVE  UploadsInv'
<1>1. UNCHANGED <<time, made, named, clashes>> /\ Uploading(a)
  BY Zenon DEF UploadData, Uploading
<1>2. CASE /\ tree' = tree \cup {<<agent[a].name, "data">>}
           /\ agent' = [agent EXCEPT ![a].pc = "meta"]
  <2>1. Turns(a, "meta", agent[a].name, {}, agent[a].lastCleanup)
    BY <1>2, DataTurns, Zenon DEF UploadData
  <2>2. \A o \in Agents : agent'[o].name = agent[o].name /\ (Uploading(o)' => Uploading(o))
    BY <1>1, <2>1, Zenon DEF Turns, Uploading
  <2>3. ListedIsComplete'
    BY <1>1, <1>2, CompleteNow, CompleteNext, Zenon
  <2>4. ASSUME NEW o \in Agents, Uploading(o)', agent'[o].name \notin clashes'
        PROVE  OwnsName(o)'
    <3>1. OwnsName(o)
      BY <1>1, <2>2, <2>4, OwnName, Zenon
    <3>2. agent'[o].pc = "meta" => <<agent'[o].name, "data">> \in tree'
      BY <1>2, <2>1, <2>2, <3>1 DEF Turns, OwnsName
    <3>3. \A q \in Agents \ {o} : Uploading(q)' => agent'[q].name # agent'[o].name
      BY <2>2, <3>1, Zenon DEF OwnsName
    <3> QED
      BY <1>1, <2>2, <3>1, <3>2, <3>3, Zenon DEF OwnsName
  <2> QED
    BY <2>3, <2>4, Zenon DEF UploadsInv, OwnsName
<1>3. CASE Done(a) /\ UNCHANGED tree
  <2>1. Turns(a, "idle", Manual, {}, agent[a].lastCleanup)
    BY <1>3, DoneTurns, Zenon
  <2>2. ListedIsComplete'
    BY <1>1, <1>3, CompleteNow, CompleteNext, Zenon
  <2> QED
    BY <1>1, <1>3, <2>1, <2>2, UploadsKeep DEF UploadsInv
<1> QED
  BY <1>2, <1>3, Zenon DEF UploadData

(* The meta file is written over the data file that the agent has written. *)
LEMMA UploadMetaUploads ==
    ASSUME FilesInv, FilesInv', UploadsInv, NEW a \in Agents, UploadMeta(a)
    PROVE  UploadsInv'
<1>1. UNCHANGED clashes /\ Uploading(a) /\ agent[a].pc = "meta"
  BY Zenon DEF UploadMeta, Uploading
<1>2. agent[a].name \notin clashes => OwnsName(a)
  BY <1>1, OwnName, Zenon
<1>3. CASE /\ \E p \in {"list", "idle"}, lc \in Never .. time : Turns(a, p, Manual, {}, lc)
           /\ tree' = tree \cup {<<agent[a].name, "meta">>}
           /\ made' = made \cup {agent[a].name}
  <2>1. PICK p \in {"list", "idle"}, lc \in Never .. time : Turns(a, p, Manual, {}, lc)
    BY <1>3, Zenon
  <2>2. ListedIsComplete'
    <3>1. \A b : <<b, "meta">> \in tree' /\ b \notin clashes => <<b, "data">> \in tree'
      BY <1>1, <1>2, <1>3, CompleteNow, Zenon DEF OwnsName
    <3> QED
      BY <1>1, <3>1, CompleteNext, Zenon
  <2>3. ASSUME NEW o \in Agents \ {a}, Uploading(o), agent[o].name \notin clashes
        PROVE  agent[o].name \notin made' /\ (agent[o].pc = "meta" => <<agent[o].name, "data">> \in tree')
    <3>1. OwnsName(o)
      BY <2>3, OwnName, Zenon
    <3> QED
      BY <1>1, <1>3, <3>1, Zenon DEF OwnsName
  <2> QED
    BY <1>1, <2>1, <2>2, <2>3, UploadsKeep, Zenon
<1>4. CASE /\ Turns(a, "idle", Manual, {}, agent[a].lastCleanup)
           /\ UNCHANGED <<tree, made>>
  <2>1. ListedIsComplete'
    BY <1>1, <1>4, CompleteNow, CompleteNext, Zenon
  <2> QED
    BY <1>1, <1>4, <2>1, UploadsKeep DEF UploadsInv
<1> QED
  BY <1>3, <1>4, MetaTurns, Zenon

(* Nobody removes the file of a backup that is not complete yet, and a     *)
(* data file goes only where the meta file has gone.                       *)
LEMMA RemoveFileUploads ==
    ASSUME FilesInv, FilesInv', UploadsInv, NEW a \in Agents, RemoveFile(a)
    PROVE  UploadsInv'
<1>1. PICK b \in made, td \in SUBSET agent[a].todo :
          /\ Turns(a, "clean", agent[a].name, td, agent[a].lastCleanup)
          /\ tree' \subseteq tree
          /\ \A x, k : <<x, k>> \in tree \ tree' =>
                 x = b /\ (k = "data" => <<b, "meta">> \notin tree)
  BY RemovedFile, Zenon
<1>2. UNCHANGED <<made, clashes>>
  BY Zenon DEF RemoveFile
<1>3. ListedIsComplete'
  <2>1. \A x : <<x, "meta">> \in tree' /\ x \notin clashes => <<x, "data">> \in tree'
    BY <1>1, CompleteNow, Zenon
  <2> QED
    BY <1>2, <2>1, CompleteNext, Zenon
<1>4. ASSUME NEW o \in Agents \ {a}, Uploading(o), agent[o].name \notin clashes
      PROVE  agent[o].name \notin made' /\ (agent[o].pc = "meta" => <<agent[o].name, "data">> \in tree')
  <2>1. OwnsName(o)
    BY <1>4, OwnName, Zenon
  <2> QED
    BY <1>1, <1>2, <2>1, Zenon DEF OwnsName
<1> QED
  BY <1>1, <1>2, <1>3, <1>4, UploadsKeep

LEMMA RestUploads ==
    ASSUME FilesInv, FilesInv', UploadsInv, NEW a \in Agents,
           CleanList(a) \/ CleanEnds(a) \/ CrashAgent(a)
    PROVE  UploadsInv'
<1>1. UNCHANGED <<tree, made, clashes>>
  BY Zenon DEF CleanList, CleanEnds, CrashAgent
<1>2. \E p \in {"clean", "idle"} : \E nm, td, lc : Turns(a, p, nm, td, lc)
  BY ListTurns, DoneTurns, CrashTurns, Zenon DEF CleanEnds
<1>3. ListedIsComplete'
  BY <1>1, CompleteNow, CompleteNext, Zenon
<1> QED
  BY <1>1, <1>2, <1>3, UploadsKeep, Zenon DEF UploadsInv

LEMMA UploadsStep == FilesInv /\ FilesInv' /\ UploadsInv /\ [BackupsNext]_backupVars => UploadsInv'
<1>1. ASSUME UploadsInv, Tick \/ UNCHANGED backupVars PROVE UploadsInv'
  BY <1>1, Zenon DEF Tick, backupVars, UploadsInv, Uploading, ListedIsComplete, Listed
<1> QED
  BY <1>1, MaybeBackupUploads, UploadDataUploads, UploadMetaUploads, RemoveFileUploads,
     RestUploads, Zenon DEF BackupsNext

-----------------------------------------------------------------------------
(* Hours and days.                                                         *)

LEMMA Quotient ==
    ASSUME NEW h \in Nat \ {0}, NEW t \in Nat
    PROVE  t \div h \in Nat /\ h * (t \div h) <= t /\ t < h * (t \div h) + h
BY SMT

LEMMA Remainder ==
    ASSUME NEW h \in Nat \ {0}, NEW t \in Nat
    PROVE  t = h * (t \div h) + (t % h)
BY SMT

LEMMA LowerFactor ==
    ASSUME NEW h \in Nat \ {0}, NEW i \in Int, NEW j \in Int, h * i < h * j + h
    PROVE  i <= j
BY SMT

LEMMA LowerProduct ==
    ASSUME NEW h \in Nat, NEW i \in Int, NEW j \in Int, i <= j
    PROVE  h * i <= h * j
BY SMT

LEMMA QuotientIs ==
    ASSUME NEW h \in Nat \ {0}, NEW t \in Nat, NEW q \in Nat, h * q <= t, t < h * q + h
    PROVE  q = t \div h
<1>1. PICK r \in Nat : r = t \div h /\ h * r <= t /\ t < h * r + h
  BY Quotient, Zenon
<1>2. h * q \in Nat /\ h * r \in Nat
  OBVIOUS
<1>3. h * q < h * r + h /\ h * r < h * q + h
  BY <1>1, <1>2
<1>4. q <= r /\ r <= q
  BY <1>3, LowerFactor
<1> QED
  BY <1>1, <1>4

LEMMA Widths ==
    /\ Hour \in Nat \ {0} /\ Day \in Nat \ {0}
    /\ HourlyBackupsRetention \in Nat /\ DailyBackupsRetention \in Nat
    /\ Hour <= HourlyBackupsRetention /\ HourlyBackupsRetention <= DailyBackupsRetention
    /\ \E k \in Nat : Day = Hour * k
<1>1. Day = Hour * (Day \div Hour) + (Day % Hour)
  BY BackupsAssumption, Remainder, Zenon
<1>2. Day \div Hour \in Nat
  BY Quotient, BackupsAssumption, Zenon
<1>3. Day = Hour * (Day \div Hour)
  BY <1>1, <1>2, BackupsAssumption
<1> QED
  BY <1>2, <1>3, BackupsAssumption, Zenon

(* Every day is made of whole hours. *)
LEMMA HoursAreWithinDays ==
    ASSUME NEW b \in BackupNames, NEW c \in BackupNames, SameHour(b, c)
    PROVE  SameDay(b, c)
<1>1. PICK k \in Nat : Day = Hour * k
  BY Widths, Zenon
<1>2. b.t \in Nat /\ c.t \in Nat
  BY NameParts, Zenon
<1>3. PICK q \in Nat : /\ q = b.t \div Hour /\ q = c.t \div Hour
                       /\ Hour * q <= b.t /\ b.t < Hour * q + Hour
                       /\ Hour * q <= c.t /\ c.t < Hour * q + Hour
  BY <1>2, Quotient, Widths, Zenon DEF SameHour
<1>4. PICK d \in Nat : d = b.t \div Day /\ Day * d <= b.t /\ b.t < Day * d + Day
  BY <1>2, Quotient, Widths, Zenon
<1>5. PICK e \in Nat : e = k * d
  OBVIOUS
<1>6. Day * d = Hour * e /\ Day * d + Day = Hour * (e + k)
  BY <1>1, <1>5, Widths
<1>7. e <= q
  <2>1. Hour * e < Hour * q + Hour
    BY <1>2, <1>3, <1>4, <1>6, Widths
  <2> QED
    BY <2>1, LowerFactor, Widths
<1>8. q + 1 <= e + k
  <2>1. Hour * q < Hour * (e + k - 1) + Hour
    <3>1. Hour * (e + k - 1) + Hour = Hour * (e + k)
      BY Widths
    <3> QED
      BY <1>2, <1>3, <1>4, <1>6, <3>1, Widths
  <2>2. q <= e + k - 1
    BY <2>1, LowerFactor, Widths
  <2> QED
    BY <2>2
<1>9. Hour * e <= Hour * q /\ Hour * (q + 1) <= Hour * (e + k)
  BY <1>7, <1>8, LowerProduct, Widths
<1>10. Hour * (q + 1) = Hour * q + Hour
  BY Widths
<1>11. Day * d <= c.t /\ c.t < Day * d + Day
  <2>1. PICK from \in Nat, to \in Nat, s \in Nat : from = Hour * e /\ to = Hour * (e + k) /\ s = Hour * q
    BY Widths
  <2>2. from <= s /\ s + Hour <= to /\ s <= c.t /\ c.t < s + Hour
    BY <1>3, <1>9, <1>10, <2>1, Zenon
  <2>3. from <= c.t /\ c.t < to
    BY <1>2, <2>1, <2>2, Widths
  <2> QED
    BY <1>6, <2>1, <2>3, Zenon
<1> QED
  BY <1>2, <1>4, <1>11, QuotientIs, Widths, Zenon DEF SameDay

(* Hourly and daily buckets are in one map of cleanup.go.  A backup that   *)
(* has to go for a better one in its bucket is of the same day, and, if it *)
(* is counted by the hour, of the same hour.                               *)
LEMMA SameBucket ==
    ASSUME NEW x \in BackupNames, NEW c \in BackupNames, NEW now \in Int,
           Bucket(c, now) = Bucket(x, now), Better(c, x)
    PROVE  /\ now - x.t < HourlyBackupsRetention => SameHour(x, c)
           /\ SameDay(x, c)
<1>1. x.t \in Nat /\ c.t \in Nat /\ c.t <= x.t
  BY NameParts DEF Better
<1>2. PICK i \in Nat : i = x.t \div Hour /\ Hour * i <= x.t /\ x.t < Hour * i + Hour
  BY <1>1, Quotient, Widths, Zenon
<1>3. CASE now - x.t < HourlyBackupsRetention
  <2>1. Bucket(c, now) = Hour * i
    BY <1>2, <1>3, Zenon DEF Bucket
  <2>2. Bucket(c, now) <= c.t
    BY <1>1, Quotient, Widths, Zenon DEF Bucket
  <2>3. Hour * i <= c.t /\ c.t < Hour * i + Hour
    BY <1>1, <1>2, <2>1, <2>2, Widths
  <2>4. SameHour(x, c)
    BY <1>1, <1>2, <2>3, QuotientIs, Widths, Zenon DEF SameHour
  <2> QED
    BY <2>4, HoursAreWithinDays, Zenon
<1>4. CASE ~(now - x.t < HourlyBackupsRetention)
  <2>1. ~(now - c.t < HourlyBackupsRetention)
    BY <1>1, <1>4, Widths
  <2>2. PICK j \in Nat : j = x.t \div Day /\ Day * j <= x.t /\ x.t < Day * j + Day
    BY <1>1, Quotient, Widths, Zenon
  <2>3. PICK l \in Nat : l = c.t \div Day /\ Day * l <= c.t /\ c.t < Day * l + Day
    BY <1>1, Quotient, Widths, Zenon
  <2>4. Day * l = Day * j
    BY <1>4, <2>1, <2>2, <2>3, Zenon DEF Bucket
  <2>5. Day * j <= c.t /\ c.t < Day * j + Day
    BY <2>3, <2>4, Zenon
  <2>6. SameDay(x, c)
    BY <1>1, <2>2, <2>5, QuotientIs, Widths, Zenon DEF SameDay
  <2> QED
    BY <1>4, <2>6, Zenon
<1> QED
  BY <1>3, <1>4, Zenon

-----------------------------------------------------------------------------
(* Retention.                                                              *)

(* What MaybeDoBackupMaintenance does not retain. *)
LEMMA NotRetained ==
    ASSUME NEW names \in SUBSET BackupNames, NEW now \in Int, NEW x \in names \ Retained(names, now)
    PROVE  /\ now - x.t >= Hour
           /\ \/ now - x.t >= DailyBackupsRetention
              \/ \E c \in names : Bucket(c, now) = Bucket(x, now) /\ Better(c, x)
<1>1. x.t \in Nat
  BY NameParts, Zenon
<1>2. now - x.t >= Hour
  BY <1>1, Widths DEF Retained
<1>3. CASE now - x.t < DailyBackupsRetention
  <2>1. PICK c \in names : /\ Bucket(c, now) = Bucket(x, now)
                           /\ c # x /\ ~(x.t < c.t) /\ ~(x.t = c.t /\ c.seq < x.seq)
    BY <1>2, <1>3, Zenon DEF Retained
  <2>2. c.t \in Nat /\ c.seq \in Nat /\ x.seq \in Nat
    BY NameParts, Zenon
  <2>3. c.t = x.t => c.seq # x.seq
    BY <2>1, NamesAreTheirParts, Zenon
  <2>4. Better(c, x)
    BY <1>1, <2>1, <2>2, <2>3 DEF Better
  <2> QED
    BY <1>2, <2>1, <2>4, Zenon
<1>4. CASE ~(now - x.t < DailyBackupsRetention)
  BY <1>1, <1>2, <1>4, Widths
<1> QED
  BY <1>3, <1>4, Zenon

(* No agent is about to remove a backup that still counts, however long    *)
(* ago it has read the list.                                               *)
LEMMA DoomedIsNotBest ==
    ASSUME FilesInv, TodoInv, NEW a \in Agents, NEW x \in agent[a].todo
    PROVE  ~(time - x.t < Hour) /\ ~BestOfHour(x) /\ ~BestOfDay(x)
<1>1. x \in made /\ x \in BackupNames /\ made \subseteq BackupNames
  BY Zenon DEF FilesInv, BackupsTypeOK
<1>2. PICK now \in Int : now = agent[a].lastCleanup /\ now <= time
  BY AgentFacts
<1>3. x.t \in Nat /\ time \in Nat
  BY <1>1, NameParts, AgentFacts
<1>4. /\ now - x.t >= Hour
      /\ \/ now - x.t >= DailyBackupsRetention
         \/ \E c \in made : Bucket(c, now) = Bucket(x, now) /\ Better(c, x)
  BY <1>2, Zenon DEF TodoInv
<1>5. ~(time - x.t < Hour)
  BY <1>2, <1>3, <1>4, Widths
<1>6. SameHour(x, x) /\ SameDay(x, x)
  BY Zenon DEF SameHour, SameDay
<1>7. CASE now - x.t >= DailyBackupsRetention
  <2>1. ~(time - x.t < DailyBackupsRetention) /\ ~(time - x.t < HourlyBackupsRetention)
    BY <1>2, <1>3, <1>7, Widths
  <2> QED
    BY <1>1, <1>5, <1>6, <2>1, Zenon DEF BestOfHour, BestOfDay
<1>8. CASE \E c \in made : Bucket(c, now) = Bucket(x, now) /\ Better(c, x)
  <2>1. PICK c \in made : Bucket(c, now) = Bucket(x, now) /\ Better(c, x)
    BY <1>8, Zenon
  <2>2. /\ now - x.t < HourlyBackupsRetention => SameHour(x, c)
        /\ SameDay(x, c)
    BY <1>1, <2>1, SameBucket, Zenon
  <2>3. ~BestOfDay(x)
    BY <2>1, <2>2, Zenon DEF BestOfDay
  <2>4. ~BestOfHour(x)
    <3>1. CASE now - x.t < HourlyBackupsRetention
      BY <2>1, <2>2, <3>1, Zenon DEF BestOfHour
    <3>2. CASE ~(now - x.t < HourlyBackupsRetention)
      <4>1. ~(time - x.t < HourlyBackupsRetention)
        BY <1>2, <1>3, <3>2, Widths
      <4> QED
        BY <1>1, <1>6, <4>1, Zenon DEF BestOfHour
    <3> QED
      BY <3>1, <3>2, Zenon
  <2> QED
    BY <1>5, <2>3, <2>4, Zenon
<1> QED
  BY <1>4, <1>7, <1>8, Zenon

(* What counts after a step has counted before it. *)
LEMMA CountedBefore ==
    ASSUME FilesInv, FilesInv', made \subseteq made', time <= time', NEW b \in made
    PROVE  /\ time' - b.t < Hour => time - b.t < Hour
           /\ BestOfHour(b)' => BestOfHour(b)
           /\ BestOfDay(b)' => BestOfDay(b)
<1>1. time \in Nat /\ time' \in Nat
  BY TimeIsNatural, Zenon
<1>2. \A c \in made : c.t \in Nat
  BY NameParts, Zenon DEF FilesInv, BackupsTypeOK
<1>3. \A c \in made : /\ time' - c.t < HourlyBackupsRetention => time - c.t < HourlyBackupsRetention
                      /\ time' - c.t < DailyBackupsRetention => time - c.t < DailyBackupsRetention
                      /\ time' - c.t < Hour => time - c.t < Hour
  BY <1>1, <1>2, Widths
<1>4. ASSUME BestOfHour(b)' PROVE BestOfHour(b)
  BY <1>3, <1>4, Zenon DEF BestOfHour, SameHour
<1>5. ASSUME BestOfDay(b)' PROVE BestOfDay(b)
  BY <1>3, <1>5, Zenon DEF BestOfDay, SameDay
<1> QED
  BY <1>3, <1>4, <1>5, Zenon

(* The part of RetentionInv that is about what is listed: only a removal   *)
(* can take something away, and what it takes does not count.              *)
LEMMA ListKeeps ==
    ASSUME FilesInv, FilesInv', RetentionInv, made \subseteq made', time <= time',
           \A b \in made' \ made : <<b, "meta">> \in tree',
           \A b \in made : <<b, "meta">> \in tree \ tree' =>
               \E a \in Agents : b \in agent[a].todo,
           TodoInv'
    PROVE  RetentionInv'
<1>1. /\ \A x : x \in Listed <=> <<x, "meta">> \in tree
      /\ \A x : x \in Listed' <=> <<x, "meta">> \in tree'
  BY ListedNow, ListedNext, Zenon DEF FilesInv, BackupsTypeOK
<1>2. ASSUME NEW b \in made, time' - b.t < Hour \/ BestOfHour(b)' \/ BestOfDay(b)'
      PROVE  b \in Listed'
  <2>1. time - b.t < Hour \/ BestOfHour(b) \/ BestOfDay(b)
    BY <1>2, CountedBefore, Zenon
  <2>2. b \in Listed
    BY <2>1, Zenon DEF RetentionInv
  <2>3. ~ \E a \in Agents : b \in agent[a].todo
    BY <2>1, DoomedIsNotBest, Zenon DEF RetentionInv
  <2> QED
    BY <1>1, <2>2, <2>3, Zenon
<1>3. \A b \in made' \ made : b \in Listed'
  BY <1>1, Zenon
<1> QED
  BY <1>2, <1>3, Zenon DEF RetentionInv

(* An agent that has less to remove than before, from the same list. *)
LEMMA TodoShrinks ==
    ASSUME TodoInv, NEW a \in Agents, NEW p, NEW nm, NEW td, NEW lc, Turns(a, p, nm, td, lc),
           td = {} \/ (td \subseteq agent[a].todo /\ lc = agent[a].lastCleanup),
           made \subseteq made'
    PROVE  TodoInv'
<1> SUFFICES ASSUME NEW o \in Agents, NEW x \in agent'[o].todo
             PROVE  /\ agent'[o].lastCleanup - x.t >= Hour
                    /\ \/ agent'[o].lastCleanup - x.t >= DailyBackupsRetention
                       \/ \E c \in made' : /\ Bucket(c, agent'[o].lastCleanup) = Bucket(x, agent'[o].lastCleanup)
                                           /\ Better(c, x)
  BY Zenon DEF TodoInv, Bucket, Better
<1>1. x \in agent[o].todo /\ agent'[o].lastCleanup = agent[o].lastCleanup
  BY Zenon DEF Turns
<1> QED
  BY <1>1, Zenon DEF TodoInv

(* The list of an agent that has just read it. *)
LEMMA CleanListRetains ==
    ASSUME FilesInv, FilesInv', RetentionInv, NEW a \in Agents, CleanList(a)
    PROVE  RetentionInv'
<1> DEFINE names == Listed \ {Manual}
           todo == names \ Retained(names, agent[a].lastCleanup)
<1>1. UNCHANGED <<time, tree, made>> /\ time \in Nat
  BY TimeIsNatural, Zenon DEF CleanList
<1>2. names \in SUBSET BackupNames /\ names \subseteq made
  BY Zenon DEF FilesInv, BackupsTypeOK
<1>3. PICK now \in Int : now = agent[a].lastCleanup
  BY AgentFacts
<1>4. TodoInv'
  <2>1. CASE Turns(a, "clean", agent[a].name, todo, agent[a].lastCleanup)
    <3> SUFFICES ASSUME NEW o \in Agents, NEW x \in agent'[o].todo
                 PROVE  /\ agent'[o].lastCleanup - x.t >= Hour
                        /\ \/ agent'[o].lastCleanup - x.t >= DailyBackupsRetention
                           \/ \E c \in made' : /\ Bucket(c, agent'[o].lastCleanup) = Bucket(x, agent'[o].lastCleanup)
                                               /\ Better(c, x)
      BY Zenon DEF TodoInv, Bucket, Better
    <3>1. CASE o = a
      <4>1. agent'[o].lastCleanup = now /\ x \in names \ Retained(names, now)
        BY <1>3, <2>1, <3>1, Zenon DEF Turns
      <4> HIDE DEF names
      <4>2. /\ now - x.t >= Hour
            /\ \/ now - x.t >= DailyBackupsRetention
               \/ \E c \in names : Bucket(c, now) = Bucket(x, now) /\ Better(c, x)
        BY <1>2, <4>1, NotRetained, Zenon
      <4> QED
        BY <1>1, <1>2, <4>1, <4>2, Zenon
    <3>2. CASE o # a
      <4>1. agent'[o] = agent[o]
        BY <2>1, <3>2, Zenon DEF Turns
      <4> QED
        BY <1>1, <4>1, Zenon DEF RetentionInv, TodoInv
    <3> QED
      BY <3>1, <3>2, Zenon
  <2>2. CASE Turns(a, "idle", Manual, {}, agent[a].lastCleanup)
    BY <1>1, <2>2, TodoShrinks, Zenon DEF RetentionInv
  <2> QED
    BY <2>1, <2>2, ListTurns, Zenon
<1> QED
  BY <1>1, <1>4, ListKeeps

LEMMA UploadRetains ==
    ASSUME FilesInv, FilesInv', RetentionInv, NEW a \in Agents,
           MaybeBackup(a) \/ UploadData(a) \/ UploadMeta(a)
    PROVE  RetentionInv'
<1>1. UNCHANGED time /\ time \in Nat
  BY TimeIsNatural, Zenon DEF MaybeBackup, UploadData, UploadMeta
<1>2. /\ made \subseteq made' /\ tree \subseteq tree'
      /\ \A b \in made' \ made : <<b, "meta">> \in tree'
  BY MetaTurns DEF MaybeBackup, UploadData
<1>3. \E p, nm, lc : Turns(a, p, nm, {}, lc)
  <2>1. CASE MaybeBackup(a)
    BY <2>1, BackupTurns, Zenon
  <2>2. CASE UploadData(a)
    BY <2>2, DataTurns, DoneTurns, Zenon DEF UploadData
  <2>3. CASE UploadMeta(a)
    BY <2>3, MetaTurns, Zenon
  <2> QED
    BY <2>1, <2>2, <2>3, Zenon
<1>4. TodoInv'
  BY <1>2, <1>3, TodoShrinks, Zenon DEF RetentionInv
<1> QED
  BY <1>1, <1>2, <1>4, ListKeeps

LEMMA RemoveFileRetains ==
    ASSUME FilesInv, FilesInv', RetentionInv, NEW a \in Agents, RemoveFile(a)
    PROVE  RetentionInv'
<1>1. PICK b \in made, td \in SUBSET agent[a].todo :
          /\ b \in agent[a].todo
          /\ Turns(a, "clean", agent[a].name, td, agent[a].lastCleanup)
          /\ \A x, k : <<x, k>> \in tree \ tree' => x = b /\ (k = "data" => <<b, "meta">> \notin tree)
  BY RemovedFile, Zenon
<1>2. UNCHANGED <<time, made>> /\ time \in Nat
  BY TimeIsNatural, Zenon DEF RemoveFile
<1>3. TodoInv'
  BY <1>1, <1>2, TodoShrinks, Zenon DEF RetentionInv
<1>4. \A x \in made : <<x, "meta">> \in tree \ tree' => \E o \in Agents : x \in agent[o].todo
  BY <1>1
<1> QED
  BY <1>2, <1>3, <1>4, ListKeeps

LEMMA EndsRetain ==
    ASSUME FilesInv, FilesInv', RetentionInv, NEW a \in Agents, CleanEnds(a) \/ CrashAgent(a)
    PROVE  RetentionInv'
<1>1. UNCHANGED <<time, tree, made>> /\ time \in Nat
  BY TimeIsNatural, Zenon DEF CleanEnds, CrashAgent
<1>2. \E lc : Turns(a, "idle", Manual, {}, lc)
  BY DoneTurns, CrashTurns, Zenon DEF CleanEnds
<1>3. TodoInv'
  BY <1>1, <1>2, TodoShrinks, Zenon DEF RetentionInv
<1> QED
  BY <1>1, <1>3, ListKeeps

LEMMA TickRetains ==
    ASSUME FilesInv, FilesInv', RetentionInv, Tick \/ UNCHANGED backupVars
    PROVE  RetentionInv'
<1>1. /\ UNCHANGED <<tree, made, agent>>
      /\ time \in Nat /\ time <= time'
  <2>1. time \in Nat
    BY TimeIsNatural, Zenon
  <2>2. UNCHANGED <<tree, made, agent>> /\ time' \in {time, time + 1}
    BY Zenon DEF Tick, backupVars
  <2> QED
    BY <2>1, <2>2
<1>2. TodoInv'
  BY <1>1 DEF RetentionInv, TodoInv, Bucket, Better
<1> QED
  BY <1>1, <1>2, ListKeeps, Zenon

LEMMA RetentionStep == FilesInv /\ FilesInv' /\ RetentionInv /\ [BackupsNext]_backupVars => RetentionInv'
BY UploadRetains, CleanListRetains, RemoveFileRetains, EndsRetain, TickRetains, Zenon DEF BackupsNext

(* From the best to some: in an hour that counts, one is the best. *)
LEMMA RetentionIsHistory ==
    ASSUME FilesInv, RetentionInv
    PROVE  HistoryIsKept
<1>1. made \in SUBSET BackupNames
  BY Zenon DEF FilesInv, BackupsTypeOK
<1>2. ASSUME NEW b \in made,
             \A c \in made : SameHour(b, c) => time - c.t < HourlyBackupsRetention
      PROVE  \E c \in Listed \ {Manual} : SameHour(b, c)
  <2> DEFINE hour == {c \in made : SameHour(b, c)}
  <2>1. hour \in SUBSET BackupNames /\ b \in hour
    BY <1>1, Zenon DEF SameHour
  <2> HIDE DEF hour
  <2>2. PICK e \in hour : \A c \in hour : e.t < c.t \/ (e.t = c.t /\ e.seq >= c.seq)
    BY <2>1, EarliestNames, Zenon
  <2>3. \A c \in hour : c.t \in Nat /\ c.seq \in Nat /\ c # Manual
    BY <2>1, NameParts, Zenon
  <2>4. \A c \in hour : ~Better(c, e)
    BY <2>2, <2>3 DEF Better
  <2> USE DEF hour
  <2>5. \A c \in made : SameHour(e, c) => c \in hour
    BY Zenon DEF SameHour
  <2>6. BestOfHour(e)
    BY <1>2, <2>4, <2>5, Zenon DEF BestOfHour
  <2>7. e \in Listed
    BY <2>6, Zenon DEF RetentionInv
  <2> QED
    BY <2>3, <2>7, Zenon
<1>3. ASSUME NEW b \in made,
             \A c \in made : SameDay(b, c) => time - c.t < DailyBackupsRetention
      PROVE  \E c \in Listed \ {Manual} : SameDay(b, c)
  <2> DEFINE day == {c \in made : SameDay(b, c)}
  <2>1. day \in SUBSET BackupNames /\ b \in day
    BY <1>1 DEF SameDay
  <2> HIDE DEF day
  <2>2. PICK e \in day : \A c \in day : e.t < c.t \/ (e.t = c.t /\ e.seq >= c.seq)
    BY <2>1, EarliestNames
  <2>3. \A c \in day : c.t \in Nat /\ c.seq \in Nat /\ c # Manual
    BY <2>1, NameParts
  <2>4. \A c \in day : ~Better(c, e)
    BY <2>2, <2>3 DEF Better
  <2> USE DEF day
  <2>5. \A c \in made : SameDay(e, c) => c \in day
    BY DEF SameDay
  <2>6. BestOfDay(e)
    BY <1>3, <2>4, <2>5 DEF BestOfDay
  <2>7. e \in Listed
    BY <2>6, Zenon DEF RetentionInv
  <2> QED
    BY <2>3, <2>7
<1>4. Manual \in Listed
  BY ListedNow, Zenon DEF FilesInv
<1> QED
  BY <1>2, <1>3, <1>4, Zenon DEF HistoryIsKept, RetentionInv

-----------------------------------------------------------------------------

LEMMA BackupsInvHolds == BackupsSpec => [](FilesInv /\ UploadsInv /\ RetentionInv)
<1>1. BackupsInit => FilesInv /\ UploadsInv /\ RetentionInv
  <2> SUFFICES ASSUME BackupsInit PROVE UploadsInv /\ RetentionInv
    BY FilesInit, Zenon
  <2>1. \A a \in Agents : agent[a].pc = "idle" /\ agent[a].todo = {}
    BY Zenon DEF BackupsInit, NewAgent
  <2>2. Listed \subseteq {Manual} /\ <<Manual, "data">> \in tree
    BY FilesInit, Zenon DEF FilesInv, BackupsInit
  <2> QED
    BY <2>1, <2>2, Zenon DEF BackupsInit, UploadsInv, RetentionInv, TodoInv, Uploading, ListedIsComplete
<1>2. FilesInv /\ UploadsInv /\ RetentionInv /\ [BackupsNext]_backupVars
        => (FilesInv /\ UploadsInv /\ RetentionInv)'
  BY FilesStep, UploadsStep, RetentionStep, Zenon
<1> QED
  BY <1>1, <1>2, PTL DEF BackupsSpec

(* The types of the store and its agents; an agent only ever removes       *)
(* backups that were completed.                                            *)
THEOREM BackupsTypes == BackupsSpec => []BackupsTypeOK
<1>1. FilesInv => BackupsTypeOK
  BY Zenon DEF FilesInv
<1> QED
  BY <1>1, BackupsInvHolds, PTL

(* AddBackup and RemoveBackup: whatever fails or crashes, and whoever      *)
(* uploads and cleans up at the same time, a backup that ListBackups       *)
(* returns has its data file, unless two agents chose its name.            *)
THEOREM ListedIsAlwaysComplete == BackupsSpec => []ListedIsComplete
<1>1. UploadsInv => ListedIsComplete
  BY Zenon DEF UploadsInv
<1> QED
  BY <1>1, BackupsInvHolds, PTL

(* MaybeDoBackupMaintenance: whatever the retentions and intervals, and    *)
(* however stale the list that an agent goes by, the backups of the last   *)
(* hour are there, and one of every hour and of every day that is within   *)
(* its retention.                                                          *)
THEOREM HistoryIsAlwaysKept == BackupsSpec => []HistoryIsKept
<1>1. FilesInv /\ RetentionInv => HistoryIsKept
  BY RetentionIsHistory, Zenon
<1> QED
  BY <1>1, BackupsInvHolds, PTL
=============================================================================
