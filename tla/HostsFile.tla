----------------------------- MODULE HostsFile -----------------------------
(***************************************************************************)
(* /etc/hosts as the etcd-managers of one machine share it: pkg/hosts.     *)
(*                                                                         *)
(* A control-plane machine runs one etcd-manager for each etcd cluster     *)
(* ("main" and "events"), each with a Provider of its own Key, and all     *)
(* have the same /etc/hosts bind-mounted, so that it cannot be replaced by *)
(* a rename.  Within a process the Provider's mutex orders the updates;    *)
(* between processes nothing does: reading the file, truncating it and     *)
(* writing it are steps of their own (os.WriteFile is an open with         *)
(* O_TRUNC and a write from the start of the file).                        *)
(*                                                                         *)
(* A text of the file is the guard blocks in it, in order, and whether the *)
(* lines outside the blocks (localhost and whatever the system put there)  *)
(* are all there.                                                          *)
(***************************************************************************)
EXTENDS Naturals, Sequences

CONSTANTS Managers,
          Records,      \* what UpdateHosts and AddFallbacks may ask for
          MaxAttempts   \* of pseudoAtomicWrite; 10 in the code

ASSUME HostsAssumption == MaxAttempts \in Nat \ {0}

VARIABLES
    etcHosts,   \* what /etc/hosts holds
    wanted,     \* wanted[m]: the records of m's latest update
    text,       \* text[m]: the text that m's latest update computed
    step,       \* step[m]: where m is in updateHostsFileWithRecords
    attempt,    \* attempt[m]: of pseudoAtomicWrite
    abandoned,  \* history: an update has ended without finding its text
    checked     \* history: the managers whose latest update ended well with
                \* no other under way, while none since has overlapped another
                \* or has been cut short

hostsVars == <<etcHosts, wanted, text, step, attempt, abandoned, checked>>

Blocks == [key : Managers, records : Records]
Whole(blocks) == [whole |-> TRUE, mixed |-> FALSE, blocks |-> blocks]
EmptyFile == [whole |-> FALSE, mixed |-> FALSE, blocks |-> <<>>]

(* One writer's text over the longer text of another: the rest of the      *)
(* longer one is left behind it.                                           *)
Mixed(t) == [t EXCEPT !.whole = FALSE, !.mixed = TRUE]

HostsInit ==
    /\ etcHosts = Whole(<<>>)
    /\ wanted \in [Managers -> Records]
    /\ text = [m \in Managers |-> EmptyFile]
    /\ step = [m \in Managers |-> "idle"]
    /\ attempt = [m \in Managers |-> 0]
    /\ abandoned = FALSE
    /\ checked = {}

(* No other manager is in the middle of an update. *)
Alone(m) == \A n \in Managers \ {m} : step[n] = "idle"

(* The blocks without m's, of which there is never more than one.          *)
Without(m, blocks) ==
    IF \E i \in DOMAIN blocks : blocks[i].key = m
    THEN LET own == CHOOSE i \in DOMAIN blocks : blocks[i].key = m
         IN  [i \in 1 .. Len(blocks) - 1 |-> IF i < own THEN blocks[i] ELSE blocks[i + 1]]
    ELSE blocks

(* updateHostsFileWithRecords: the text read without m's block, and the    *)
(* block at its end.  What a mixed text leaves behind stays.               *)
Updated(m, read, r) ==
    [whole  |-> read.whole,
     mixed  |-> FALSE,
     blocks |-> Append(Without(m, read.blocks), [key |-> m, records |-> r])]

(* Mutant: an update with the records of the last one is skipped. *)
UpdateRemembered(m, r) ==
    LET new == Updated(m, etcHosts, r)
        same == text[m] # EmptyFile /\ r = wanted[m]
    IN  /\ step[m] = "idle"
        /\ wanted' = [wanted EXCEPT ![m] = r]
        /\ text' = [text EXCEPT ![m] = new]
        /\ step' = [step EXCEPT ![m] = IF same THEN "idle" ELSE "open"]
        /\ attempt' = [attempt EXCEPT ![m] = IF same THEN 0 ELSE 1]
        /\ checked' = IF ~Alone(m) THEN {} ELSE IF same THEN checked \cup {m} ELSE checked \ {m}
        /\ UNCHANGED <<etcHosts, abandoned>>

(* UpdateHosts, which every leader's member map leads to, or AddFallbacks, *)
(* after every discovery: the file is read, and left alone if it already   *)
(* is what it should be.                                                   *)
Update(m, r) ==
    LET new == Updated(m, etcHosts, r)
        same == new = etcHosts
    IN  /\ step[m] = "idle"
        /\ wanted' = [wanted EXCEPT ![m] = r]
        /\ text' = [text EXCEPT ![m] = new]
        /\ step' = [step EXCEPT ![m] = IF same THEN "idle" ELSE "open"]
        /\ attempt' = [attempt EXCEPT ![m] = IF same THEN 0 ELSE 1]
        /\ checked' = IF ~Alone(m) THEN {} ELSE IF same THEN checked \cup {m} ELSE checked \ {m}
        /\ UNCHANGED <<etcHosts, abandoned>>

(* os.WriteFile opens the file, which empties it, *)
Open(m) ==
    /\ step[m] = "open"
    /\ etcHosts' = EmptyFile
    /\ step' = [step EXCEPT ![m] = "write"]
    /\ UNCHANGED <<wanted, text, attempt, abandoned, checked>>

(* Mutant: the text is written once, and not read again. *)
WriteOnce(m) ==
    /\ step[m] = "write"
    /\ etcHosts' \in IF etcHosts \in {EmptyFile, text[m]} THEN {text[m]}
                     ELSE {text[m], Mixed(text[m])}
    /\ step' = [step EXCEPT ![m] = "idle"]
    /\ attempt' = [attempt EXCEPT ![m] = 0]
    /\ checked' = IF Alone(m) THEN checked \cup {m} ELSE checked
    /\ UNCHANGED <<wanted, text, abandoned>>

(* and writes: over what another has written since, if there is anything.  *)
Write(m) ==
    /\ step[m] = "write"
    /\ etcHosts' \in IF etcHosts \in {EmptyFile, text[m]} THEN {text[m]}
                     ELSE {text[m], Mixed(text[m])}
    /\ step' = [step EXCEPT ![m] = "check"]
    /\ UNCHANGED <<wanted, text, attempt, abandoned, checked>>

(* After a pause pseudoAtomicWrite reads the file again, and starts over,  *)
(* with the same text, if it has changed; it also starts over when opening *)
(* it, writing it or reading it again fails.                               *)
Retry(m) ==
    /\ step[m] # "idle"
    /\ LET last == attempt[m] = MaxAttempts
       IN  /\ step' = [step EXCEPT ![m] = IF last THEN "idle" ELSE "open"]
           /\ attempt' = [attempt EXCEPT ![m] = IF last THEN 0 ELSE @ + 1]
           /\ abandoned' = (abandoned \/ last)
           /\ checked' = IF last THEN {} ELSE checked
    /\ UNCHANGED <<etcHosts, wanted, text>>

Succeed(m) ==
    /\ step[m] = "check"
    /\ etcHosts = text[m]
    /\ step' = [step EXCEPT ![m] = "idle"]
    /\ attempt' = [attempt EXCEPT ![m] = 0]
    /\ checked' = IF Alone(m) THEN checked \cup {m} ELSE checked
    /\ UNCHANGED <<etcHosts, wanted, text, abandoned>>

(* The process dies in the middle of an update. *)
Die(m) ==
    /\ step[m] # "idle"
    /\ step' = [step EXCEPT ![m] = "idle"]
    /\ attempt' = [attempt EXCEPT ![m] = 0]
    /\ abandoned' = TRUE
    /\ checked' = {}
    /\ UNCHANGED <<etcHosts, wanted, text>>

HostsNext ==
    \E m \in Managers :
        \/ \E r \in Records : Update(m, r)
        \/ Open(m)
        \/ Write(m)
        \/ Retry(m)
        \/ Succeed(m)
        \/ Die(m)

HostsSpec == HostsInit /\ [][HostsNext]_hostsVars

Quiet == \A m \in Managers : step[m] = "idle"

(* Types, and: an update takes its own block out before it adds the new    *)
(* one, so that no text has two of a manager (what may be in the rest that *)
(* a mixed text leaves behind apart).                                      *)
HostsTypeOK ==
    /\ \A t \in {etcHosts} \cup {text[m] : m \in Managers} :
           /\ t.whole \in BOOLEAN /\ t.mixed \in BOOLEAN
           /\ t.blocks \in Seq(Blocks)
           /\ \A i, j \in DOMAIN t.blocks : t.blocks[i].key = t.blocks[j].key => i = j
    /\ wanted \in [Managers -> Records]
    /\ step \in [Managers -> {"idle", "open", "write", "check"}]
    /\ attempt \in [Managers -> 0 .. MaxAttempts]
    /\ abandoned \in BOOLEAN
    /\ checked \in SUBSET Managers

(* pseudoAtomicWrite keeps two writes from being left in one file: when    *)
(* all updates are over, and none of them gave up or died, the file is the *)
(* text of one of them, whatever the order of their opens and writes.      *)
EndsAsOneText ==
    Quiet /\ ~abandoned => etcHosts \in {Whole(<<>>)} \cup {text[m] : m \in Managers}

(* An update that ends well with no other under way has left its records   *)
(* in the file, even if all that it did was to find nothing to change, and *)
(* whatever updates follow, one after the other, they carry those records  *)
(* along: when no update is under way they are in the file.  An update of  *)
(* another manager that overlaps it may still remove them.                 *)
RecordsArrive ==
    Quiet => \A m \in checked : \E i \in DOMAIN etcHosts.blocks :
                 etcHosts.blocks[i] = [key |-> m, records |-> wanted[m]]

(* hosts.go:206 says of pseudoAtomicWrite that "the end-result is not      *)
(* malformed (i.e. partial writes)".  Here: once all updates are over, and *)
(* none of them gave up or died, the lines outside the guard blocks are    *)
(* all there.  They are not when one manager has read the file between     *)
(* another's open and write.                                               *)
EndResultNotMalformed ==
    Quiet /\ ~abandoned => etcHosts.whole
=============================================================================
