------------------------------- MODULE Restore -------------------------------
(***************************************************************************)
(* DoRestore on one host (pkg/etcd/restore.go) and the copy of the keys    *)
(* (CopyTo, pkg/etcdclient/client.go).                                     *)
(*                                                                         *)
(* The backup is downloaded into a temporary directory and a second etcd   *)
(* is started from it; its keys are copied, a page at a time in key order, *)
(* into the etcd that the host is running.  Any call may fail; the         *)
(* deferred calls then stop the second etcd and remove the directory.      *)
(* They too may fail, which is only logged; the next request has an etcd   *)
(* and a directory of its own.                                             *)
(* A key is a number, 0 is the empty key, which etcd does not store.       *)
(***************************************************************************)
EXTENDS Naturals, FiniteSets, FiniteSetsExt

CONSTANTS MaxKey,    \* bound: the keys are 1 .. MaxKey
          PageSize,  \* WithLimit; 1000 in the code
          MaxWaits   \* how often copyEtcd asks whether etcd serves; 60 in the code

(* A page starts with the last key of the page before, so that a page of   *)
(* one key would never bring a new one.                                    *)
ASSUME RestoreAssumption ==
    /\ MaxKey \in Nat
    /\ PageSize \in Nat /\ PageSize >= 2
    /\ MaxWaits \in Nat

VARIABLES
    backup,    \* the keys in the backup
    target,    \* the keys in the etcd that is restored into
    restore,   \* where DoRestore is
    tempDir,   \* the temporary directory of the latest request exists
    tempEtcd,  \* the etcd that reads the backup for it
    warned,    \* history: which of its deferred calls have failed
    waits, lastKey,
    count,     \* CopyTo's count
    answer     \* what the latest request has been answered

restoreVars == <<backup, target, restore, tempDir, tempEtcd, warned, waits, lastKey, count, answer>>

(* Types, and: the target never holds a key that is not in the backup, and *)
(* no key is counted twice.                                                *)
RestoreTypeOK ==
    /\ backup \subseteq 1 .. MaxKey
    /\ target \subseteq backup
    /\ restore \in {"idle", "fetch", "start", "wait", "copy", "stop", "remove"}
    /\ tempDir \in BOOLEAN
    /\ tempEtcd \in {"none", "starting", "serving", "exited"}
    /\ warned \subseteq {"stop", "remove"}
    /\ waits \in 0 .. MaxWaits
    /\ lastKey \in {0} \cup backup
    /\ count \in 0 .. Cardinality(backup)
    /\ answer \in {"none", "ok", "error"}

RestoreInit ==
    /\ backup \in SUBSET (1 .. MaxKey)
    /\ target = {}
    /\ restore = "idle"
    /\ tempDir = FALSE
    /\ tempEtcd = "none"
    /\ warned = {}
    /\ waits = 0
    /\ lastKey = 0
    /\ count = 0
    /\ answer = "none"

Fails(next) ==
    /\ restore' = next
    /\ answer' = "error"

(* A request arrives, into a new cluster or into one that an earlier       *)
(* request has copied some of the keys to.                                 *)
DoRestore ==
    /\ restore = "idle"
    /\ restore' = "fetch"
    /\ tempDir' = TRUE
    /\ tempEtcd' = "none"
    /\ warned' = {}
    /\ answer' = "none"
    /\ waits' = 0 /\ lastKey' = 0 /\ count' = 0
    /\ target' \in {target, {}}
    /\ UNCHANGED backup

(* LoadInfo, DownloadBackup, createKeypairs, expand and RestoreV3Snapshot. *)
Fetch ==
    /\ restore = "fetch"
    /\ (restore' = "start" /\ UNCHANGED answer) \/ Fails("remove")
    /\ UNCHANGED <<backup, target, tempDir, tempEtcd, warned, waits, lastKey, count>>

StartSource ==
    /\ restore = "start"
    /\ \/ restore' = "wait" /\ tempEtcd' = "starting" /\ UNCHANGED answer
       \/ Fails("remove") /\ UNCHANGED tempEtcd
    /\ UNCHANGED <<backup, target, tempDir, warned, waits, lastKey, count>>

SourceServes ==
    /\ tempEtcd = "starting"
    /\ tempEtcd' = "serving"
    /\ UNCHANGED <<backup, target, restore, tempDir, warned, waits, lastKey, count, answer>>

SourceExits ==
    /\ tempEtcd \in {"starting", "serving"}
    /\ tempEtcd' = "exited"
    /\ UNCHANGED <<backup, target, restore, tempDir, warned, waits, lastKey, count, answer>>

(* copyEtcd asks until etcd serves or has exited; after 60 times it copies *)
(* all the same.                                                           *)
Wait ==
    /\ restore = "wait"
    /\ \/ /\ tempEtcd = "exited"
          /\ Fails("stop")
          /\ UNCHANGED waits
       \/ /\ tempEtcd # "exited"
          /\ UNCHANGED answer
          /\ IF tempEtcd = "serving" \/ waits = MaxWaits
             THEN restore' = "copy" /\ UNCHANGED waits
             ELSE restore' = "wait" /\ waits' = waits + 1
    /\ UNCHANGED <<backup, target, tempDir, tempEtcd, warned, lastKey, count>>

(* Get with WithFromKey, in ascending order, at most PageSize of them. *)
Page(from) ==
    {k \in backup : k >= from /\ Cardinality(backup \cap (from .. (k - 1))) < PageSize}

(* Mutant: the first key of a page is taken for the last one of the page   *)
(* before, on the first page too.                                          *)
NewKeysAfterFirst(from) ==
    IF Page(from) = {} THEN {} ELSE Page(from) \ {Min(Page(from))}

(* The keys of a page that are copied: not the one the page starts from. *)
NewKeys(from) == Page(from) \ {from}

(* Mutant: a page that only repeats the last key counts as more. *)
CopyPageUntilEmpty ==
    /\ restore = "copy"
    /\ tempEtcd = "serving"
    /\ LET new == NewKeys(lastKey)
       IN  IF Page(lastKey) = {} THEN restore' = "stop" /\ answer' = "ok"
                            /\ UNCHANGED <<target, lastKey, count>>
           ELSE /\ target' = target \cup new
                /\ lastKey' = Max(Page(lastKey))
                /\ count' = count + Cardinality(new)
                /\ UNCHANGED <<restore, answer>>
    /\ UNCHANGED <<backup, tempDir, tempEtcd, warned, waits>>

(* One page of CopyTo, or its end. *)
CopyPage ==
    /\ restore = "copy"
    /\ tempEtcd = "serving"
    /\ LET new == NewKeys(lastKey)
       IN  IF new = {} THEN restore' = "stop" /\ answer' = "ok"
                            /\ UNCHANGED <<target, lastKey, count>>
           ELSE /\ target' = target \cup new
                /\ lastKey' = Max(new)
                /\ count' = count + Cardinality(new)
                /\ UNCHANGED <<restore, answer>>
    /\ UNCHANGED <<backup, tempDir, tempEtcd, warned, waits>>

(* Get, or Put after some of the keys, fails. *)
CopyFails ==
    /\ restore = "copy"
    /\ \E k \in {lastKey} \cup (IF tempEtcd = "serving" THEN NewKeys(lastKey) ELSE {}) :
           target' = target \cup {x \in NewKeys(lastKey) : x < k}
    /\ Fails("stop")
    /\ UNCHANGED <<backup, tempDir, tempEtcd, warned, waits, lastKey, count>>

(* Mutant: the directory stays when the etcd in it could not be stopped. *)
StopSourceOrReturn ==
    /\ restore = "stop"
    /\ \/ tempEtcd' = "none" /\ restore' = "remove" /\ UNCHANGED warned
       \/ warned' = warned \cup {"stop"} /\ restore' = "idle" /\ UNCHANGED tempEtcd
    /\ UNCHANGED <<backup, target, tempDir, waits, lastKey, count, answer>>

(* The deferred calls. *)
StopSource ==
    /\ restore = "stop"
    /\ restore' = "remove"
    /\ \/ tempEtcd' = "none" /\ UNCHANGED warned
       \/ warned' = warned \cup {"stop"} /\ UNCHANGED tempEtcd
    /\ UNCHANGED <<backup, target, tempDir, waits, lastKey, count, answer>>

RemoveTempDir ==
    /\ restore = "remove"
    /\ restore' = "idle"
    /\ \/ tempDir' = FALSE /\ UNCHANGED warned
       \/ warned' = warned \cup {"remove"} /\ UNCHANGED tempDir
    /\ UNCHANGED <<backup, target, tempEtcd, waits, lastKey, count, answer>>

RestoreNext ==
    \/ DoRestore \/ Fetch \/ StartSource \/ Wait \/ CopyPage \/ CopyFails
    \/ StopSource \/ RemoveTempDir \/ SourceServes \/ SourceExits

RestoreSpec == RestoreInit /\ [][RestoreNext]_restoreVars

(* DoRestore runs on by itself; a read fails when there is no etcd to read *)
(* from, but need not fail otherwise.                                      *)
RestoreProgress ==
    \/ Fetch \/ StartSource \/ Wait \/ CopyPage \/ StopSource \/ RemoveTempDir
    \/ tempEtcd # "serving" /\ CopyFails

(* A restore that is answered without an error has copied every key of the *)
(* backup, and counted each once, wherever the pages happen to end and     *)
(* whatever an earlier, failed restore has left in the target.             *)
RestoreIsComplete ==
    answer = "ok" => target = backup /\ count = Cardinality(backup)

(* Whichever step a restore fails at, it tries both to stop its etcd and   *)
(* to remove its directory, the latter also when the former fails: what is *)
(* left of a request that has been answered is only what the deferred call *)
(* for it failed to clear away, with a warning.                            *)
RestoreCleansUp ==
    restore = "idle" =>
        /\ tempEtcd = "none" \/ "stop" \in warned
        /\ ~tempDir \/ "remove" \in warned

(* Every restore is answered: the copy moves on with every page. *)
RestoreEnds == []<>(restore = "idle")
=============================================================================
