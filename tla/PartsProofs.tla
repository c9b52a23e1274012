---------------------------- MODULE PartsProofs ----------------------------
(***************************************************************************)
(* Four parts of a node, each with its inductive invariant: etcd's key     *)
(* pair, the hosts file, the connection to a peer, and the restore of a    *)
(* backup.                                                                 *)
(***************************************************************************)
EXTENDS Keypairs, HostsFile, PeerConnection, Restore, TLAPS

-----------------------------------------------------------------------------
(* The key pair that etcd starts with, for any CAs, names and keys, any    *)
(* number of interrupted starts, and any durations for which               *)
(* CertMinTimeLeft is at least CertDuration. That assumption of certs.go   *)
(* is the heart of the argument: no certificate on disk ever has enough    *)
(* time left to be used again, so that each start has its own certificate, *)
(* signed by the CA of its own bundle.                                     *)

USE KeypairAssumption

(* A certificate that ensureKeypair has just made, or one that is no later *)
(* than that.                                                              *)
NoLaterThanNew(cert) ==
    /\ cert \in Certificates
    /\ cert.notAfter <= now + CertDuration

Writing == {"openKey", "writeKey", "openCert", "writeCert"}

(* The pair that is on its way to the files.                               *)
PairIsNew ==
    starting \in Writing =>
        /\ pair.key \in PrivateKeys
        /\ NoLaterThanNew(pair.cert)
        /\ pair.cert.key = pair.key
        /\ pair.cert.signer = ca
        /\ pair.cert.names = config

KeypairsInv ==
    /\ KeypairsTypeOK
    /\ certFile \notin {Missing, CutShort} => NoLaterThanNew(certFile)
    /\ starting \in {"load"} \cup Writing => bundleFile = ca
    /\ starting \in {"openKey", "writeKey"} => keyFile \notin PrivateKeys
    /\ starting \in {"openCert", "writeCert"} => keyFile = pair.key
    /\ PairIsNew
    /\ EtcdStartsWithMatchingPair

(* Nothing is reused: what the certificate file holds has too little time  *)
(* left.                                                                   *)
LEMMA NothingIsReusable ==
    ASSUME KeypairsInv, certFile # CutShort
    PROVE  ~Reusable(certFile)
<1>1. CASE certFile = Missing
  BY <1>1, Zenon DEF Reusable
<1>2. CASE certFile # Missing
  <2>1. certFile \in Certificates /\ certFile.notAfter <= now + CertDuration
    BY <1>2, Zenon DEF KeypairsInv, NoLaterThanNew
  <2>2. certFile.notAfter \in Nat /\ now \in Nat
    BY <2>1 DEF KeypairsInv, KeypairsTypeOK, Certificates
  <2> QED
    BY <2>1, <2>2 DEF Reusable
<1> QED
  BY <1>1, <1>2, Zenon

LEMMA SignedIsNew ==
    ASSUME KeypairsInv, NEW k \in PrivateKeys
    PROVE  /\ NoLaterThanNew(Signed(k))
           /\ Signed(k).key = k /\ Signed(k).signer = ca /\ Signed(k).names = config
<1>1. /\ now \in 0 .. MaxYears /\ ca \in CAs /\ config \in Names
  BY Zenon DEF KeypairsInv, KeypairsTypeOK
<1>2. now + CertDuration \in 0 .. (MaxYears + CertDuration)
  BY <1>1
<1> QED
  BY <1>1, <1>2 DEF Signed, NoLaterThanNew, Certificates

LEMMA LoadKeeps ==
    ASSUME KeypairsInv, Load
    PROVE  KeypairsInv'
<1> USE DEF KeypairsInv, KeypairsTypeOK
<1>1. CASE keyFile = CutShort \/ certFile = CutShort
  <2>1. starting' = "stopped" /\ pair' = NoPair
    BY <1>1, Zenon DEF Load, Unparseable
  <2> QED
    BY <2>1, Zenon DEF Load, Unparseable, NoPair, NoLaterThanNew, PairIsNew, EtcdStartsWithMatchingPair, Writing
<1>2. CASE ~(keyFile = CutShort \/ certFile = CutShort)
  <2>1. ~Reusable(certFile)
    BY <1>2, NothingIsReusable, Zenon
  <2>2. PICK k \in IF keyFile = Missing THEN PrivateKeys ELSE {keyFile} :
           /\ pair' = [key |-> k, cert |-> Signed(k)]
           /\ starting' = IF keyFile = Missing THEN "openKey" ELSE "openCert"
    BY <1>2, <2>1, Zenon DEF Load, Unparseable
  <2>3. k \in PrivateKeys
    BY <1>2, <2>2, Zenon
  <2>4. /\ pair'.key = k /\ pair'.cert = Signed(k)
        /\ starting' \in {"openKey", "openCert"}
        /\ starting' = "openCert" => keyFile = k
        /\ starting' = "openKey" => keyFile = Missing
    BY <2>2, Zenon
  <2>5. UNCHANGED <<now, storedCA, ca, config, bundleFile, keyFile, certFile, stops>>
    BY Zenon DEF Load
  <2>6. bundleFile = ca
    BY Zenon DEF Load
  <2>7. Signed(k) \in Certificates
    BY <2>3, SignedIsNew, Zenon DEF NoLaterThanNew
  <2>8. PairIsNew'
    BY <2>3, <2>4, <2>5, SignedIsNew, Zenon DEF PairIsNew, NoLaterThanNew
  <2> QED
    BY <2>3, <2>4, <2>5, <2>6, <2>7, <2>8, Zenon DEF NoLaterThanNew, EtcdStartsWithMatchingPair, Writing
<1> QED
  BY <1>1, <1>2, Zenon

LEMMA WritesKeep ==
    ASSUME KeypairsInv, WriteBundle \/ WriteKey \/ WriteCert
    PROVE  KeypairsInv'
<1> USE DEF KeypairsInv, KeypairsTypeOK, NoLaterThanNew, PairIsNew,
            EtcdStartsWithMatchingPair, Writing
<1>1. CASE WriteBundle
  BY <1>1, Zenon DEF WriteBundle
<1>2. CASE WriteKey
  <2>1. CASE starting = "openKey"
    BY <1>2, <2>1, Zenon DEF WriteKey
  <2>2. CASE starting = "writeKey"
    BY <1>2, <2>2, Zenon DEF WriteKey
  <2> QED
    BY <1>2, <2>1, <2>2, Zenon DEF WriteKey
<1>3. CASE WriteCert
  <2>1. CASE starting = "openCert"
    BY <1>3, <2>1, Zenon DEF WriteCert
  <2>2. CASE starting = "writeCert"
    BY <1>3, <2>2, Zenon DEF WriteCert
  <2> QED
    BY <1>3, <2>1, <2>2, Zenon DEF WriteCert
<1> QED
  BY <1>1, <1>2, <1>3, Zenon

LEMMA TimeKeeps ==
    ASSUME KeypairsInv, PassTime
    PROVE  KeypairsInv'
<1>1. now \in 0 .. MaxYears /\ now' = now + 1 /\ now < MaxYears
  BY Zenon DEF PassTime, KeypairsInv, KeypairsTypeOK
<1>2. \A c \in Certificates : c.notAfter \in Nat
  BY DEF Certificates
<1>3. \A c : NoLaterThanNew(c) => NoLaterThanNew(c)'
  BY <1>1, <1>2 DEF NoLaterThanNew, Certificates
<1>4. now' \in 0 .. MaxYears
  BY <1>1
<1> QED
  BY <1>3, <1>4 DEF PassTime, KeypairsInv, KeypairsTypeOK, PairIsNew, EtcdStartsWithMatchingPair

LEMMA StopsKeep ==
    ASSUME KeypairsInv, Stop \/ RestartManager \/ RotateCA \/ UNCHANGED pkiVars
    PROVE  KeypairsInv'
<1> USE DEF KeypairsInv, KeypairsTypeOK, NoLaterThanNew, PairIsNew,
            EtcdStartsWithMatchingPair, Writing
<1>1. CASE Stop
  BY <1>1 DEF Stop, NoPair
<1>2. CASE RestartManager
  BY <1>2 DEF RestartManager, NoPair
<1>3. CASE RotateCA
  BY <1>3 DEF RotateCA
<1>4. CASE UNCHANGED pkiVars
  BY <1>4 DEF pkiVars
<1> QED
  BY <1>1, <1>2, <1>3, <1>4, Zenon

LEMMA KeypairsInvHolds == KeypairsSpec => []KeypairsInv
<1>1. KeypairsInit => KeypairsInv
  BY DEF KeypairsInit, KeypairsInv, KeypairsTypeOK, NoPair, NoLaterThanNew, PairIsNew,
         EtcdStartsWithMatchingPair, Writing
<1>2. KeypairsInv /\ [KeypairsNext]_pkiVars => KeypairsInv'
  BY LoadKeeps, WritesKeep, TimeKeeps, StopsKeep, Zenon DEF KeypairsNext, StartStep
<1> QED
  BY <1>1, <1>2, PTL DEF KeypairsSpec

(* The variables of createKeypairs keep their types, and writePrivateKey   *)
(* comes before writeCertificates: no certificate is on disk without its   *)
(* private key.                                                            *)
THEOREM KeypairTypes == KeypairsSpec => []KeypairsTypeOK
<1>1. KeypairsInv => KeypairsTypeOK
  BY Zenon DEF KeypairsInv
<1> QED
  BY <1>1, KeypairsInvHolds, PTL

(* Whatever interrupts createKeypairs, and however often the CA is         *)
(* rotated, the etcd that startEtcdProcess starts has a certificate for    *)
(* its key, signed by the CA in its bundle, with the configured names.     *)
THEOREM StartsWithMatchingPair == KeypairsSpec => []EtcdStartsWithMatchingPair
<1>1. KeypairsInv => EtcdStartsWithMatchingPair
  BY Zenon DEF KeypairsInv
<1> QED
  BY <1>1, KeypairsInvHolds, PTL

HIDE KeypairAssumption

-----------------------------------------------------------------------------
(* The hosts file: pseudoAtomicWrite, for any number of etcd-managers on a *)
(* machine, any records and any number of attempts.                        *)

Texts == [whole : BOOLEAN, mixed : BOOLEAN, blocks : Seq(Blocks)]
OneOfEach(blocks) == \A i, j \in DOMAIN blocks : blocks[i].key = blocks[j].key => i = j
Proper(t) == t \in Texts /\ OneOfEach(t.blocks)
Steps == {"idle", "open", "write", "check"}

(* The text t has m's block, with the records r. *)
Has(t, m, r) == \E i \in DOMAIN t.blocks : t.blocks[i] = [key |-> m, records |-> r]

(* While there are records to be kept, at most one update is under way,    *)
(* not of the manager whose records they are, and its text has them.       *)
Carried(m) ==
    /\ step[m] = "idle"
    /\ \A n \in Managers : step[n] # "idle" => Alone(n) /\ Has(text[n], m, wanted[m])
    /\ Quiet => Has(etcHosts, m, wanted[m])

(* What EndsAsOneText and RecordsArrive need besides themselves: the text  *)
(* that a manager is writing has the records of its update, and those that *)
(* are to be kept.                                                         *)
HostsInv ==
    /\ Proper(etcHosts)
    /\ text = [m \in Managers |-> text[m]] /\ \A m \in Managers : Proper(text[m])
    /\ wanted \in [Managers -> Records] /\ step \in [Managers -> Steps]
    /\ attempt \in [Managers -> 0 .. MaxAttempts]
    /\ abandoned \in BOOLEAN /\ checked \in SUBSET Managers
    /\ \A m \in Managers : step[m] # "idle" => Has(text[m], m, wanted[m])
    /\ EndsAsOneText
    /\ \A m \in checked : Carried(m)

(* The skipped lines of updateHostsFileWithRecords. *)
LEMMA WithoutOwn ==
    ASSUME NEW m \in Managers, NEW blocks \in Seq(Blocks), OneOfEach(blocks)
    PROVE  /\ Without(m, blocks) \in Seq(Blocks)
           /\ OneOfEach(Without(m, blocks))
           /\ \A i \in DOMAIN Without(m, blocks) : Without(m, blocks)[i].key # m
           /\ \A i \in DOMAIN blocks : blocks[i].key # m =>
                  \E j \in DOMAIN Without(m, blocks) : Without(m, blocks)[j] = blocks[i]
<1>1. CASE ~ \E i \in DOMAIN blocks : blocks[i].key = m
  BY <1>1, Zenon DEF Without
<1>2. CASE \E i \in DOMAIN blocks : blocks[i].key = m
  <2>1. PICK own \in 1 .. Len(blocks) :
            /\ blocks[own].key = m
            /\ Without(m, blocks) = [i \in 1 .. Len(blocks) - 1 |-> IF i < own THEN blocks[i] ELSE blocks[i + 1]]
    <3> DEFINE one == CHOOSE i \in DOMAIN blocks : blocks[i].key = m
    <3>1. one \in 1 .. Len(blocks) /\ blocks[one].key = m
      BY <1>2
    <3>2. Without(m, blocks) = [i \in 1 .. Len(blocks) - 1 |-> IF i < one THEN blocks[i] ELSE blocks[i + 1]]
      BY <1>2, Zenon DEF Without
    <3> HIDE DEF one
    <3> QED
      BY <3>1, <3>2, Zenon
  <2> DEFINE rest == [i \in 1 .. Len(blocks) - 1 |-> IF i < own THEN blocks[i] ELSE blocks[i + 1]]
  <2>2. \A i \in 1 .. Len(blocks) : blocks[i] \in Blocks
    OBVIOUS
  <2>3. Len(blocks) \in Nat /\ DOMAIN blocks = 1 .. Len(blocks) /\ DOMAIN rest = 1 .. Len(blocks) - 1
    OBVIOUS
  <2>4. rest \in Seq(Blocks)
    <3>1. \A i \in 1 .. Len(blocks) - 1 : rest[i] \in Blocks
      BY <2>2, <2>3
    <3>2. Len(blocks) - 1 \in Nat
      BY <2>3
    <3> QED
      BY <3>1, <3>2
  <2>5. ASSUME NEW i \in 1 .. Len(blocks) - 1
        PROVE  \E k \in 1 .. Len(blocks) : k # own /\ rest[i] = blocks[k] /\ k = IF i < own THEN i ELSE i + 1
    BY <2>3
  <2>6. OneOfEach(rest)
    <3>1. ASSUME NEW i \in 1 .. Len(blocks) - 1, NEW j \in 1 .. Len(blocks) - 1, rest[i].key = rest[j].key
          PROVE  i = j
      <4>1. PICK k \in 1 .. Len(blocks) : rest[i] = blocks[k] /\ k = IF i < own THEN i ELSE i + 1
        BY <2>5, Zenon
      <4>2. PICK l \in 1 .. Len(blocks) : rest[j] = blocks[l] /\ l = IF j < own THEN j ELSE j + 1
        BY <2>5, Zenon
      <4>3. k = l
        BY <2>3, <3>1, <4>1, <4>2, Zenon DEF OneOfEach
      <4> QED
        BY <4>1, <4>2, <4>3
    <3> QED
      BY <2>3, <3>1, Zenon DEF OneOfEach
  <2>7. \A i \in 1 .. Len(blocks) - 1 : rest[i].key # m
    BY <2>1, <2>3, <2>5 DEF OneOfEach
  <2>8. ASSUME NEW i \in 1 .. Len(blocks), blocks[i].key # m
        PROVE  \E j \in 1 .. Len(blocks) - 1 : rest[j] = blocks[i]
    <3>1. i # own
      BY <2>1, <2>8, Zenon
    <3>2. CASE i < own
      <4>1. i \in 1 .. Len(blocks) - 1
        BY <2>3, <3>2
      <4> QED
        BY <3>2, <4>1
    <3>3. CASE i > own
      <4>1. i - 1 \in 1 .. Len(blocks) - 1 /\ ~(i - 1 < own) /\ (i - 1) + 1 = i
        BY <2>3, <3>3
      <4> QED
        BY <4>1
    <3> QED
      BY <3>1, <3>2, <3>3
  <2> QED
    BY <2>1, <2>3, <2>4, <2>6, <2>7, <2>8, Zenon
<1> QED
  BY <1>1, <1>2, Zenon

(* The text that an update computes has one block of each manager, the     *)
(* records asked for in its own, and the blocks of the others as they were.*)
LEMMA UpdatedText ==
    ASSUME NEW m \in Managers, NEW r \in Records, NEW t, Proper(t)
    PROVE  /\ Proper(Updated(m, t, r)) /\ Has(Updated(m, t, r), m, r)
           /\ \A n \in Managers \ {m}, w \in Records :
                  Has(t, n, w) => Has(Updated(m, t, r), n, w)
<1> DEFINE rest == Without(m, t.blocks)
           own == [key |-> m, records |-> r]
           new == Append(rest, own)
<1>1. t.blocks \in Seq(Blocks) /\ t.whole \in BOOLEAN
  BY Zenon DEF Proper, Texts
<1>2. /\ rest \in Seq(Blocks) /\ OneOfEach(rest) /\ \A i \in DOMAIN rest : rest[i].key # m
      /\ \A i \in DOMAIN t.blocks : t.blocks[i].key # m => \E j \in DOMAIN rest : rest[j] = t.blocks[i]
  BY <1>1, WithoutOwn, Zenon DEF Proper
<1>3. own \in Blocks /\ own.key = m
  BY Zenon DEF Blocks
<1> HIDE DEF rest, own
<1>4. /\ new \in Seq(Blocks) /\ DOMAIN new = 1 .. Len(rest) + 1 /\ new[Len(rest) + 1] = own
      /\ \A i \in DOMAIN rest : new[i] = rest[i]
      /\ DOMAIN rest = 1 .. Len(rest) /\ Len(rest) \in Nat
  BY <1>2, <1>3
<1> HIDE DEF new
<1>5. OneOfEach(new)
  BY <1>2, <1>3, <1>4 DEF OneOfEach
<1>6. Updated(m, t, r) = [whole |-> t.whole, mixed |-> FALSE, blocks |-> new]
  BY Zenon DEF Updated, new, rest, own
<1>7. Updated(m, t, r) \in Texts /\ Updated(m, t, r).blocks = new
  BY <1>1, <1>4, <1>6 DEF Texts
<1>8. (\E i \in DOMAIN new : new[i] = own) /\ DOMAIN rest \subseteq DOMAIN new
  BY <1>4
<1>9. ASSUME NEW n \in Managers \ {m}, NEW w \in Records, Has(t, n, w)
      PROVE  Has(Updated(m, t, r), n, w)
  <2>1. PICK i \in DOMAIN t.blocks : t.blocks[i] = [key |-> n, records |-> w]
    BY <1>9, Zenon DEF Has
  <2>2. t.blocks[i].key # m
    BY <2>1
  <2>3. PICK j \in DOMAIN rest : rest[j] = t.blocks[i]
    BY <1>2, <2>2, Zenon
  <2> QED
    BY <1>4, <1>7, <1>8, <2>1, <2>3, Zenon DEF Has
<1> QED
  BY <1>5, <1>7, <1>8, <1>9, Zenon DEF Proper, Has, own

LEMMA EmptyIsProper == Proper(EmptyFile) /\ Proper(Whole(<<>>))
BY DEF Proper, Texts, EmptyFile, Whole, OneOfEach

(* A manager that is somewhere in pseudoAtomicWrite after a step keeps the *)
(* machine from being quiet.                                               *)
LEMMA BusyIsNotQuiet ==
    ASSUME NEW m \in Managers, step'[m] # "idle"
    PROVE  EndsAsOneText'
BY Zenon DEF EndsAsOneText, Quiet

(* An update that finds the file as it should be makes that its own text;  *)
(* any other update is on its way to open it.                              *)
LEMMA UpdateKeeps ==
    ASSUME HostsInv, NEW m \in Managers, NEW r \in Records, Update(m, r)
    PROVE  HostsInv'
<1> DEFINE new == Updated(m, etcHosts, r)
           same == new = etcHosts
<1>1. /\ wanted' = [wanted EXCEPT ![m] = r] /\ text' = [text EXCEPT ![m] = new]
      /\ step' = [step EXCEPT ![m] = IF same THEN "idle" ELSE "open"]
      /\ attempt' = [attempt EXCEPT ![m] = IF same THEN 0 ELSE 1]
      /\ checked' = IF ~Alone(m) THEN {} ELSE IF same THEN checked \cup {m} ELSE checked \ {m}
      /\ UNCHANGED <<etcHosts, abandoned>>
      /\ step[m] = "idle"
  BY Zenon DEF Update
<1>2. /\ Proper(new) /\ Has(new, m, r)
      /\ \A n \in Managers \ {m}, w \in Records : Has(etcHosts, n, w) => Has(new, n, w)
  BY UpdatedText, Zenon DEF HostsInv
<1> HIDE DEF new
<1>3. /\ text' = [n \in Managers |-> text'[n]] /\ \A n \in Managers : Proper(text'[n])
      /\ wanted' \in [Managers -> Records]
  BY <1>1, <1>2, Zenon DEF HostsInv
<1>4. step' \in [Managers -> Steps] /\ checked' \in SUBSET Managers
  BY <1>1, Zenon DEF HostsInv, Steps
<1>5. attempt' \in [Managers -> 0 .. MaxAttempts]
  <2>1. (IF same THEN 0 ELSE 1) \in 0 .. MaxAttempts
    BY HostsAssumption
  <2> QED
    BY <1>1, <2>1, Zenon DEF HostsInv
<1>6. text'[m] = new /\ wanted'[m] = r /\ Has(text'[m], m, wanted'[m])
  BY <1>1, <1>2, Zenon DEF HostsInv
<1>7. \A n \in Managers \ {m} : text'[n] = text[n] /\ wanted'[n] = wanted[n] /\ step'[n] = step[n]
  BY <1>1, Zenon DEF HostsInv
<1>8. \A n \in Managers : step'[n] # "idle" => Has(text'[n], n, wanted'[n])
  BY <1>6, <1>7, Zenon DEF HostsInv
<1>9. ASSUME NEW n \in checked' PROVE Carried(n)'
  <2>1. /\ Alone(m) /\ n \in Managers
        /\ n # m => n \in checked
        /\ n = m => same
    BY <1>1, <1>9, Zenon DEF HostsInv
  <2>2. Quiet
    BY <1>1, <2>1, Zenon DEF Quiet, Alone
  <2>3. Has(etcHosts, n, wanted'[n]) /\ Has(new, n, wanted'[n])
    <3>1. CASE n = m
      BY <1>2, <1>6, <2>1, <3>1, Zenon
    <3>2. CASE n # m
      <4>1. Has(etcHosts, n, wanted[n]) /\ wanted'[n] = wanted[n] /\ wanted[n] \in Records
        BY <1>7, <2>1, <2>2, <3>2, Zenon DEF HostsInv, Carried
      <4> QED
        BY <1>2, <2>1, <3>2, <4>1, Zenon
    <3> QED
      BY <3>1, <3>2, Zenon
  <2>4. \A k \in Managers \ {m} : step'[k] = "idle"
    BY <1>7, <2>2, Zenon DEF Quiet
  <2>5. same => step'[m] = "idle"
    BY <1>1, Zenon DEF HostsInv
  <2>6. step'[n] = "idle"
    BY <2>1, <2>4, <2>5, Zenon
  <2>7. ASSUME NEW k \in Managers, step'[k] # "idle"
        PROVE  Alone(k)' /\ Has(text[k], n, wanted[n])'
    BY <1>6, <2>3, <2>4, <2>7, Zenon DEF Alone, Has
  <2> QED
    BY <1>1, <2>3, <2>6, <2>7, Zenon DEF Carried, Has
<1>10. EndsAsOneText'
  <2>1. CASE same
    BY <1>1, <1>6, <2>1, Zenon DEF EndsAsOneText
  <2>2. CASE ~same
    <3>1. step'[m] # "idle"
      BY <1>1, <2>2, Zenon DEF HostsInv
    <3> QED
      BY <3>1, BusyIsNotQuiet, Zenon
  <2> QED
    BY <2>1, <2>2, Zenon
<1> QED
  BY <1>1, <1>3, <1>4, <1>5, <1>8, <1>9, <1>10, Zenon DEF HostsInv, Has

(* Opening and writing are followed by the check. *)
LEMMA WritingKeeps ==
    ASSUME HostsInv, NEW m \in Managers, Open(m) \/ Write(m)
    PROVE  HostsInv'
<1>1. /\ step' \in [Managers -> Steps] /\ step'[m] # "idle" /\ step[m] # "idle"
      /\ \A n \in Managers \ {m} : step'[n] = step[n]
      /\ UNCHANGED <<wanted, text, attempt, abandoned, checked>>
  BY Zenon DEF HostsInv, Open, Write, Steps
<1>2. Proper(etcHosts')
  <2>1. Proper(text[m])
    BY Zenon DEF HostsInv
  <2>2. Proper(Mixed(text[m]))
    BY <2>1, Zenon DEF Proper, Mixed, Texts
  <2> QED
    BY <2>1, <2>2, EmptyIsProper, Zenon DEF Open, Write
<1>3. ASSUME NEW n \in checked' PROVE Carried(n)'
  <2>1. Carried(n) /\ n \in Managers /\ ~Quiet'
    BY <1>1, <1>3, Zenon DEF HostsInv, Quiet
  <2>2. step'[n] = "idle"
    BY <1>1, <2>1, Zenon DEF Carried
  <2>3. ASSUME NEW k \in Managers, step'[k] # "idle"
        PROVE  Alone(k)' /\ Has(text[k], n, wanted[n])'
    BY <1>1, <2>1, <2>3, Zenon DEF Carried, Alone, Has
  <2> QED
    BY <2>1, <2>2, <2>3, Zenon DEF Carried
<1>4. \A n \in Managers : step'[n] # "idle" => Has(text'[n], n, wanted'[n])
  BY <1>1, Zenon DEF HostsInv
<1> QED
  BY <1>1, <1>2, <1>3, <1>4, BusyIsNotQuiet, Zenon DEF HostsInv, Has

(* pseudoAtomicWrite ends well only on its own text, and otherwise it has  *)
(* given up.                                                               *)
LEMMA EndingKeeps ==
    ASSUME HostsInv, NEW m \in Managers, Retry(m) \/ Succeed(m) \/ Die(m)
    PROVE  HostsInv'
<1>1. /\ step' \in [Managers -> Steps] /\ step[m] # "idle"
      /\ \A n \in Managers \ {m} : step'[n] = step[n]
      /\ UNCHANGED <<etcHosts, wanted, text>>
  BY Zenon DEF HostsInv, Retry, Succeed, Die, Steps
<1>2. \A n \in Managers : step'[n] # "idle" => Has(text'[n], n, wanted'[n])
  BY <1>1, Zenon DEF HostsInv
<1>3. attempt' \in [Managers -> 0 .. MaxAttempts]
  <2>1. attempt[m] \in 0 .. MaxAttempts /\ 0 \in 0 .. MaxAttempts
    BY HostsAssumption DEF HostsInv
  <2>2. attempt[m] # MaxAttempts => attempt[m] + 1 \in 0 .. MaxAttempts
    BY <2>1, HostsAssumption
  <2> QED
    BY <2>1, <2>2, Zenon DEF HostsInv, Retry, Succeed, Die
<1>4. abandoned' \in BOOLEAN
  BY Zenon DEF HostsInv, Retry, Succeed, Die
<1>5. checked' \in SUBSET Managers /\ \A n \in checked' : Carried(n)'
  <2>1. checked' \subseteq checked \cup {m}
    BY Zenon DEF Retry, Succeed, Die
  <2>2. ASSUME NEW n \in checked' PROVE Carried(n)'
    <3>1. CASE Succeed(m)
      <4>1. etcHosts = text[m] /\ step' = [step EXCEPT ![m] = "idle"]
        BY <3>1, Zenon DEF Succeed
      <4>2. Alone(m) /\ Has(text[m], n, wanted[n])
        <5>1. CASE n \in checked
          BY <1>1, <5>1, Zenon DEF HostsInv, Carried
        <5>2. CASE n \notin checked
          BY <1>1, <2>2, <3>1, <5>2, Zenon DEF HostsInv, Succeed
        <5> QED
          BY <5>1, <5>2, Zenon
      <4>3. \A k \in Managers : step'[k] = "idle"
        BY <1>1, <4>1, <4>2, Zenon DEF HostsInv, Alone
      <4>4. n \in Managers
        BY <2>1, <2>2, Zenon DEF HostsInv
      <4> QED
        BY <1>1, <4>1, <4>2, <4>3, <4>4, Zenon DEF Carried, Has
    <3>2. CASE Retry(m) \/ Die(m)
      <4>1. n \in checked /\ step' = [step EXCEPT ![m] = "open"]
        BY <2>2, <3>2, Zenon DEF Retry, Die
      <4>2. Carried(n) /\ n \in Managers
        BY <4>1, Zenon DEF HostsInv
      <4>3. \A k \in Managers : step'[k] # "idle" <=> step[k] # "idle"
        BY <1>1, <4>1, Zenon DEF HostsInv
      <4> QED
        BY <1>1, <4>2, <4>3, Zenon DEF Carried, Alone, Quiet, Has
    <3> QED
      BY <3>1, <3>2, Zenon
  <2> QED
    BY <2>1, <2>2, Zenon DEF HostsInv
<1>6. EndsAsOneText'
  <2>1. CASE Retry(m)
    <3>1. CASE attempt[m] = MaxAttempts
      BY <2>1, <3>1, Zenon DEF Retry, EndsAsOneText
    <3>2. CASE attempt[m] # MaxAttempts
      <4>1. step'[m] # "idle"
        BY <2>1, <3>2, Zenon DEF Retry, HostsInv
      <4> QED
        BY <4>1, BusyIsNotQuiet, Zenon
    <3> QED
      BY <3>1, <3>2, Zenon
  <2>2. CASE Succeed(m)
    BY <2>2, Zenon DEF Succeed, EndsAsOneText
  <2>3. CASE Die(m)
    BY <2>3, Zenon DEF Die, EndsAsOneText
  <2> QED
    BY <2>1, <2>2, <2>3, Zenon
<1> QED
  BY <1>1, <1>2, <1>3, <1>4, <1>5, <1>6, Zenon DEF HostsInv, Has

LEMMA HostsInvHolds == HostsSpec => []HostsInv
<1>1. HostsInit => HostsInv
  <2> SUFFICES ASSUME HostsInit PROVE HostsInv
    BY Zenon
  <2>1. step \in [Managers -> Steps] /\ attempt \in [Managers -> 0 .. MaxAttempts]
    BY HostsAssumption DEF HostsInit, Steps
  <2>2. \A m \in Managers : step[m] = "idle" /\ Proper(text[m])
    BY EmptyIsProper, Zenon DEF HostsInit
  <2> QED
    BY <2>1, <2>2, EmptyIsProper, Zenon DEF HostsInit, HostsInv, EndsAsOneText
<1>2. HostsInv /\ [HostsNext]_hostsVars => HostsInv'
  <2>1. ASSUME HostsInv, UNCHANGED hostsVars PROVE HostsInv'
    <3>1. EndsAsOneText'
      BY <2>1, Zenon DEF hostsVars, HostsInv, EndsAsOneText, Quiet
    <3>2. ASSUME NEW m \in checked PROVE Carried(m)'
      <4>1. Carried(m)
        BY <2>1, Zenon DEF HostsInv
      <4> QED
        BY <2>1, <4>1, Zenon DEF hostsVars, Carried, Alone, Quiet, Has
    <3> QED
      BY <2>1, <3>1, <3>2, Zenon DEF hostsVars, HostsInv, Has
  <2> QED
    BY <2>1, UpdateKeeps, WritingKeeps, EndingKeeps, Zenon DEF HostsNext
<1> QED
  BY <1>1, <1>2, PTL DEF HostsSpec

(* The types of pkg/hosts; no text has two guard blocks of one manager,    *)
(* however often it is updated.                                            *)
THEOREM HostsTypes == HostsSpec => []HostsTypeOK
<1>1. HostsInv => HostsTypeOK
  <2> SUFFICES ASSUME HostsInv PROVE HostsTypeOK
    BY Zenon
  <2>1. ASSUME NEW t \in {etcHosts} \cup {text[m] : m \in Managers}
        PROVE  Proper(t)
    BY Zenon DEF HostsInv
  <2> QED
    BY <2>1, Zenon DEF HostsInv, HostsTypeOK, Proper, Texts, OneOfEach, Steps
<1> QED
  BY <1>1, HostsInvHolds, PTL

(* When all updates of pkg/hosts are over, and none of them gave up or     *)
(* died, /etc/hosts holds the text of one of them, and never parts of two. *)
THEOREM HostsEndAsOneText == HostsSpec => []EndsAsOneText
<1>1. HostsInv => EndsAsOneText
  BY Zenon DEF HostsInv
<1> QED
  BY <1>1, HostsInvHolds, PTL

(* The records of an update that ended well with no other under way are in *)
(* /etc/hosts whenever no update is under way, as long as those that       *)
(* follow do not overlap, also when the update had nothing to change.      *)
THEOREM RecordsAlwaysArrive == HostsSpec => []RecordsArrive
<1>1. HostsInv => RecordsArrive
  BY Zenon DEF HostsInv, RecordsArrive, Carried, Has
<1> QED
  BY <1>1, HostsInvHolds, PTL

-----------------------------------------------------------------------------
(* The connection to a peer, for any addresses, any number of moves and    *)
(* any number of connections that gRPC may have open. The argument is      *)
(* about who owns a connection. One that a caller is still trying belongs  *)
(* to that caller alone: it is open, it is not peer.conn, and it is no     *)
(* other caller's. So a caller that closes its own, after a failed ping or *)
(* a lost race, never closes peer.conn, and whoever closes peer.conn never *)
(* closes one that is being tried.                                         *)

USE ConnectionAssumption

Trying(c) == caller[c].pc \in {"ping", "publish"}

Owned ==
    \A c \in Callers :
        /\ caller[c].pc \in {"ping", "publish", "use"} => caller[c].conn \in Links
        /\ Trying(c) =>
               /\ link[caller[c].conn].state # "closed"
               /\ caller[c].conn # conn
               /\ \A d \in Callers \ {c} : Trying(d) => caller[d].conn # caller[c].conn

ConnectionInv == ConnectionTypeOK /\ Owned /\ NoConnectionLeaks

LinkStates == [to : Addresses, state : {"up", "failed", "closed"}]
CallerStates == [pc : {"idle", "collect", "dial", "ping", "publish", "use"},
                 conn : Links \cup {NoLink}, todo : SUBSET Addresses]

(* What Closed does: the one connection is closed, the others stay.        *)
LEMMA ClosedFacts ==
    ASSUME NEW lks \in [Links -> LinkStates], NEW l \in Links \cup {NoLink}
    PROVE  /\ Closed(lks, l) \in [Links -> LinkStates]
           /\ l \in Links => Closed(lks, l)[l].state = "closed"
           /\ \A k \in Links \ {l} : Closed(lks, l)[k] = lks[k]
<1>1. CASE l = NoLink
  BY <1>1, Zenon DEF Closed
<1>2. CASE l \in Links
  <2> DEFINE r == [lks[l] EXCEPT !.state = "closed"]
  <2>1. Closed(lks, l) = [lks EXCEPT ![l] = r]
    BY <1>2, Zenon DEF Closed
  <2>2. lks[l] \in LinkStates
    BY <1>2, Zenon
  <2>3. r \in LinkStates /\ r.state = "closed"
    BY <2>2, Zenon DEF LinkStates
  <2> HIDE DEF r
  <2> QED
    BY <1>2, <2>1, <2>3, Zenon
<1> QED
  BY <1>1, <1>2, Zenon

(* The same for a connection that changes its state to any other.          *)
WithState(lks, l, s) == [lks EXCEPT ![l].state = s]

LEMMA StateChange ==
    ASSUME NEW lks \in [Links -> LinkStates], NEW l \in Links,
           NEW s \in {"up", "failed", "closed"}
    PROVE  /\ WithState(lks, l, s) \in [Links -> LinkStates]
           /\ WithState(lks, l, s)[l].state = s
           /\ \A k \in Links \ {l} : WithState(lks, l, s)[k] = lks[k]
<1> DEFINE r == [lks[l] EXCEPT !.state = s]
<1>1. WithState(lks, l, s) = [lks EXCEPT ![l] = r]
  BY Zenon DEF WithState
<1>2. lks[l] \in LinkStates
  BY Zenon
<1>3. r \in LinkStates /\ r.state = s
  BY <1>2, Zenon DEF LinkStates
<1> HIDE DEF r
<1> QED
  BY <1>1, <1>3, Zenon

(* What a caller's step does to the callers.                               *)
LEMMA AtFacts ==
    ASSUME ConnectionInv, NEW c \in Callers,
           NEW pc \in {"idle", "collect", "dial", "ping", "publish", "use"},
           NEW l \in Links \cup {NoLink}, NEW todo \in SUBSET Addresses, At(c, pc, l, todo)
    PROVE  /\ caller' \in [Callers -> CallerStates]
           /\ caller'[c].pc = pc /\ caller'[c].conn = l /\ caller'[c].todo = todo
           /\ \A d \in Callers \ {c} : caller'[d] = caller[d]
<1>1. caller \in [Callers -> CallerStates]
  BY Zenon DEF ConnectionInv, ConnectionTypeOK, CallerStates
<1> QED
  BY <1>1, Zenon DEF At, CallerStates

(* updatePeerInfo closes peer.conn, which nobody is trying, or nothing.    *)
LEMMA UpdateFacts ==
    ASSUME ConnectionInv, NEW a \in Addresses, UpdatePeerInfo(a)
    PROVE  /\ lastInfo' \in Addresses /\ recent' \in BOOLEAN
           /\ conn' \in {conn, NoLink}
           /\ link' \in [Links -> LinkStates]
           /\ \A k \in Links : k # conn => link'[k] = link[k]
           /\ conn' = conn => link' = link \/ conn = NoLink
           /\ conn' # conn => conn \in Links /\ link'[conn].state = "closed"
<1>1. link \in [Links -> LinkStates] /\ conn \in Links \cup {NoLink}
  BY Zenon DEF ConnectionInv, ConnectionTypeOK, LinkStates
<1>2. lastInfo' = a /\ recent' = TRUE
  BY Zenon DEF UpdatePeerInfo
<1>3. CASE lastInfo \in {Nowhere, a}
  BY <1>1, <1>2, <1>3, Zenon DEF UpdatePeerInfo
<1>4. CASE lastInfo \notin {Nowhere, a}
  <2>1. conn' = NoLink /\ link' = Closed(link, conn)
    BY <1>4, Zenon DEF UpdatePeerInfo
  <2> QED
    BY <1>1, <1>2, <2>1, ClosedFacts, Zenon
<1> QED
  BY <1>3, <1>4, Zenon

(* The invariant, with the names above for the sets of records.            *)
LEMMA ConnectionSorts ==
    ASSUME ConnectionInv
    PROVE  /\ home \in Addresses \cup {Nowhere} /\ conn \in Links \cup {NoLink}
           /\ discovered \subseteq Addresses /\ lastInfo \in Addresses \cup {Nowhere}
           /\ link \in [Links -> LinkStates]
           /\ caller \in [Callers -> CallerStates]
BY Zenon DEF ConnectionInv, ConnectionTypeOK, LinkStates, CallerStates

LEMMA ConnectionOwners ==
    ASSUME ConnectionInv
    PROVE  /\ conn # NoLink => link[conn].state # "closed"
           /\ Owned
           /\ NoConnectionLeaks
BY Zenon DEF ConnectionInv, ConnectionTypeOK

(* The first section of connect.                                           *)
LEMMA ConnectKeeps ==
    ASSUME ConnectionInv, NEW c \in Callers, Connect(c)
    PROVE  ConnectionInv'
<1>1. caller[c].pc = "idle" /\ UNCHANGED <<home, ported, moves, discovered, lastInfo, recent>>
  BY Zenon DEF Connect
<1>2. CASE conn # NoLink /\ link[conn].state = "up"
  <2>1. At(c, "use", conn, {}) /\ UNCHANGED <<conn, link>>
    BY <1>2, Zenon DEF Connect
  <2>2. /\ caller' \in [Callers -> CallerStates] /\ caller'[c].pc = "use"
        /\ caller'[c].conn \in Links
        /\ \A d \in Callers \ {c} : caller'[d] = caller[d]
    BY <1>2, <2>1, AtFacts, ConnectionSorts
  <2>3. Owned'
    BY <1>1, <2>1, <2>2, ConnectionOwners, Zenon DEF Owned, Trying
  <2>4. NoConnectionLeaks'
    BY <1>1, <2>1, <2>2, ConnectionOwners DEF NoConnectionLeaks
  <2> QED
    BY <1>1, <2>1, <2>2, <2>3, <2>4, Zenon DEF ConnectionInv, ConnectionTypeOK, LinkStates, CallerStates
<1>3. CASE ~(conn # NoLink /\ link[conn].state = "up")
  <2>1. At(c, "collect", NoLink, {}) /\ link' = Closed(link, conn) /\ conn' = NoLink
    BY <1>3, Zenon DEF Connect
  <2>2. /\ caller' \in [Callers -> CallerStates] /\ caller'[c].pc = "collect"
        /\ \A d \in Callers \ {c} : caller'[d] = caller[d]
    BY <2>1, AtFacts
  <2>3. /\ link' \in [Links -> LinkStates]
        /\ conn \in Links => link'[conn].state = "closed"
        /\ \A k \in Links \ {conn} : link'[k] = link[k]
    BY <2>1, ClosedFacts, ConnectionSorts
  <2>4. Owned'
    BY <1>1, <2>1, <2>2, <2>3, ConnectionOwners DEF Owned, Trying
  <2>5. NoConnectionLeaks'
    BY <1>1, <2>1, <2>2, <2>3, ConnectionOwners DEF NoConnectionLeaks
  <2> QED
    BY <1>1, <2>1, <2>2, <2>3, <2>4, <2>5, Zenon DEF ConnectionInv, ConnectionTypeOK, LinkStates, CallerStates
<1> QED
  BY <1>2, <1>3, Zenon

(* Steps that leave the connections alone.                                 *)
LEMMA QuietKeeps ==
    ASSUME ConnectionInv, NEW c \in Callers, Collect(c) \/ NotConnected(c)
    PROVE  ConnectionInv'
<1>1. /\ caller[c].pc \in {"collect", "dial"}
      /\ UNCHANGED <<home, ported, moves, discovered, lastInfo, recent, conn, link>>
  BY Zenon DEF Collect, NotConnected
<1>2. /\ caller' \in [Callers -> CallerStates] /\ caller'[c].pc \in {"dial", "idle"}
      /\ \A d \in Callers \ {c} : caller'[d] = caller[d]
  <2>1. CASE Collect(c)
    <3>1. (IF ported THEN discovered ELSE {}) \cup ({lastInfo} \ {Nowhere}) \in SUBSET Addresses
      BY ConnectionSorts, Zenon
    <3> QED
      BY <2>1, <3>1, AtFacts, Zenon DEF Collect
  <2>2. CASE NotConnected(c)
    BY <2>2, AtFacts, Zenon DEF NotConnected
  <2> QED
    BY <2>1, <2>2, Zenon
<1>3. Owned'
  BY <1>1, <1>2, ConnectionOwners, Zenon DEF Owned, Trying
<1>4. NoConnectionLeaks'
  BY <1>1, <1>2, ConnectionOwners DEF NoConnectionLeaks
<1> QED
  BY <1>1, <1>2, <1>3, <1>4, Zenon DEF ConnectionInv, ConnectionTypeOK, LinkStates, CallerStates

(* A new connection belongs to the caller that dialled.                    *)
LEMMA DialKeeps ==
    ASSUME ConnectionInv, NEW c \in Callers, Dial(c)
    PROVE  ConnectionInv'
<1>1. /\ caller[c].pc = "dial"
      /\ UNCHANGED <<home, ported, moves, discovered, lastInfo, recent, conn>>
  BY Zenon DEF Dial
<1>2. PICK a \in caller[c].todo, l \in Links :
         /\ Free(l)
         /\ At(c, "ping", l, caller[c].todo \ {a})
         /\ link' = [link EXCEPT ![l] = [to |-> a, state |-> "up"]]
  BY Zenon DEF Dial
<1>3. caller[c].todo \in SUBSET Addresses
  BY ConnectionSorts, Zenon DEF CallerStates
<1>4. /\ caller' \in [Callers -> CallerStates]
      /\ caller'[c].pc = "ping" /\ caller'[c].conn = l
      /\ \A d \in Callers \ {c} : caller'[d] = caller[d]
  BY <1>2, <1>3, AtFacts
<1>5. /\ link' \in [Links -> LinkStates]
      /\ link'[l].state = "up"
      /\ \A k \in Links \ {l} : link'[k] = link[k]
  BY <1>2, <1>3, ConnectionSorts, Zenon DEF LinkStates
<1>6. /\ l # conn
      /\ \A d \in Callers : caller[d].conn # l
  BY <1>2, ConnectionOwners, Zenon DEF Free
<1>7. Owned'
  BY <1>1, <1>4, <1>5, <1>6, ConnectionOwners DEF Owned, Trying
<1>8. NoConnectionLeaks'
  BY <1>1, <1>4, <1>5, ConnectionOwners DEF NoConnectionLeaks
<1> QED
  BY <1>1, <1>4, <1>5, <1>6, <1>7, <1>8, Zenon DEF ConnectionInv, ConnectionTypeOK, LinkStates, CallerStates

(* The first ping: it may close peer.conn, if it is answered, or else      *)
(* closes its own connection.                                              *)
LEMMA PingKeeps ==
    ASSUME ConnectionInv, NEW c \in Callers, PingNew(c)
    PROVE  ConnectionInv'
<1> DEFINE l == caller[c].conn
<1>1. /\ caller[c].pc = "ping" /\ l \in Links /\ l # conn
      /\ UNCHANGED <<home, ported, moves, discovered>>
  BY ConnectionOwners, Zenon DEF PingNew, Owned, Trying
<1>2. CASE Answers(l)
  <2>1. UpdatePeerInfo(home) /\ At(c, "publish", l, {}) /\ home \in Addresses
    BY <1>1, <1>2, ConnectionSorts, Zenon DEF PingNew, Answers, LinkStates
  <2>2. /\ caller' \in [Callers -> CallerStates]
        /\ caller'[c].pc = "publish" /\ caller'[c].conn = l
        /\ \A d \in Callers \ {c} : caller'[d] = caller[d]
    BY <1>1, <2>1, AtFacts
  <2>3. /\ lastInfo' \in Addresses /\ recent' \in BOOLEAN
        /\ conn' \in {conn, NoLink}
        /\ link' \in [Links -> LinkStates]
        /\ \A k \in Links : k # conn => link'[k] = link[k]
        /\ conn' = conn => link' = link \/ conn = NoLink
        /\ conn' # conn => conn \in Links /\ link'[conn].state = "closed"
    BY <2>1, UpdateFacts, Zenon
  <2>4. Owned'
    BY <1>1, <2>2, <2>3, ConnectionOwners DEF Owned, Trying
  <2>5. NoConnectionLeaks'
    BY <1>1, <2>2, <2>3, ConnectionOwners DEF NoConnectionLeaks
  <2> QED
    BY <1>1, <2>2, <2>3, <2>4, <2>5, Zenon DEF ConnectionInv, ConnectionTypeOK, LinkStates, CallerStates
<1>3. CASE ~Answers(l)
  <2>1. /\ link' = Closed(link, l) /\ At(c, "dial", NoLink, caller[c].todo)
        /\ UNCHANGED <<lastInfo, recent, conn>>
    BY <1>3, Zenon DEF PingNew
  <2>2. caller[c].todo \in SUBSET Addresses
    BY ConnectionSorts, Zenon DEF CallerStates
  <2>3. /\ caller' \in [Callers -> CallerStates] /\ caller'[c].pc = "dial"
        /\ \A d \in Callers \ {c} : caller'[d] = caller[d]
    BY <2>1, <2>2, AtFacts, Zenon
  <2>4. /\ link' \in [Links -> LinkStates]
        /\ link'[l].state = "closed"
        /\ \A k \in Links \ {l} : link'[k] = link[k]
    BY <1>1, <2>1, ClosedFacts, ConnectionSorts
  <2>5. Owned'
    BY <1>1, <2>1, <2>3, <2>4, ConnectionOwners DEF Owned, Trying
  <2>6. NoConnectionLeaks'
    BY <1>1, <2>1, <2>3, <2>4, ConnectionOwners DEF NoConnectionLeaks
  <2> QED
    BY <1>1, <2>1, <2>3, <2>4, <2>5, <2>6, Zenon DEF ConnectionInv, ConnectionTypeOK, LinkStates, CallerStates
<1> QED
  BY <1>2, <1>3, Zenon

(* The last section of connect: the loser of the race closes its own.      *)
LEMMA PublishKeeps ==
    ASSUME ConnectionInv, NEW c \in Callers, Publish(c)
    PROVE  ConnectionInv'
<1> DEFINE l == caller[c].conn
<1>1. /\ caller[c].pc = "publish" /\ l \in Links /\ l # conn
      /\ link[l].state # "closed"
      /\ UNCHANGED <<home, ported, moves, discovered, lastInfo, recent>>
  BY ConnectionOwners, Zenon DEF Publish, Owned, Trying
<1>2. CASE conn # NoLink
  <2>1. link' = Closed(link, l) /\ At(c, "use", conn, {}) /\ UNCHANGED conn
    BY <1>2, Zenon DEF Publish
  <2>2. /\ caller' \in [Callers -> CallerStates] /\ caller'[c].pc = "use"
        /\ caller'[c].conn \in Links
        /\ \A d \in Callers \ {c} : caller'[d] = caller[d]
    BY <1>2, <2>1, AtFacts, ConnectionSorts
  <2>3. /\ link' \in [Links -> LinkStates]
        /\ link'[l].state = "closed"
        /\ \A k \in Links \ {l} : link'[k] = link[k]
    BY <1>1, <2>1, ClosedFacts, ConnectionSorts
  <2>4. Owned'
    BY <1>1, <2>1, <2>2, <2>3, ConnectionOwners DEF Owned, Trying
  <2>5. NoConnectionLeaks'
    BY <1>1, <2>1, <2>2, <2>3, ConnectionOwners DEF NoConnectionLeaks
  <2> QED
    BY <1>1, <2>1, <2>2, <2>3, <2>4, <2>5, Zenon DEF ConnectionInv, ConnectionTypeOK, LinkStates, CallerStates
<1>3. CASE conn = NoLink
  <2>1. conn' = l /\ At(c, "use", l, {}) /\ UNCHANGED link
    BY <1>3, Zenon DEF Publish
  <2>2. /\ caller' \in [Callers -> CallerStates] /\ caller'[c].pc = "use"
        /\ caller'[c].conn \in Links
        /\ \A d \in Callers \ {c} : caller'[d] = caller[d]
    BY <1>1, <2>1, AtFacts
  <2>3. Owned'
    BY <1>1, <2>1, <2>2, ConnectionOwners DEF Owned, Trying
  <2>4. NoConnectionLeaks'
    BY <1>1, <1>3, <2>1, <2>2, ConnectionOwners DEF NoConnectionLeaks
  <2> QED
    BY <1>1, <2>1, <2>2, <2>3, <2>4, Zenon DEF ConnectionInv, ConnectionTypeOK, LinkStates, CallerStates
<1> QED
  BY <1>2, <1>3, Zenon

(* A ping of the peer's, or an answer to one of ours.                      *)
LEMMA InfoKeeps ==
    ASSUME ConnectionInv, NEW a \in Addresses, UpdatePeerInfo(a),
           UNCHANGED <<home, ported, moves, discovered, caller>>
    PROVE  ConnectionInv'
<1>1. /\ lastInfo' \in Addresses /\ recent' \in BOOLEAN
      /\ conn' \in {conn, NoLink}
      /\ link' \in [Links -> LinkStates]
      /\ \A k \in Links : k # conn => link'[k] = link[k]
      /\ conn' = conn => link' = link \/ conn = NoLink
      /\ conn' # conn => conn \in Links /\ link'[conn].state = "closed"
  BY UpdateFacts, Zenon
<1>2. Owned'
  BY <1>1, ConnectionOwners DEF Owned, Trying
<1>3. NoConnectionLeaks'
  BY <1>1, ConnectionOwners DEF NoConnectionLeaks
<1> QED
  BY <1>1, <1>2, <1>3, Zenon DEF ConnectionInv, ConnectionTypeOK, LinkStates, CallerStates

(* sendPings, and the controller's request.                                *)
LEMMA UseKeeps ==
    ASSUME ConnectionInv, NEW c \in Callers, Use(c)
    PROVE  ConnectionInv'
<1> DEFINE answered == c = "pinger" /\ Answers(caller[c].conn)
<1>1. CASE answered /\ home \in Addresses
  BY <1>1, InfoKeeps, Zenon DEF Use
<1>2. CASE ~answered
  <2>1. /\ caller[c].pc = "use" /\ At(c, "idle", NoLink, {})
        /\ UNCHANGED <<home, ported, moves, discovered, lastInfo, recent, conn, link>>
    BY <1>2, Zenon DEF Use
  <2>2. /\ caller' \in [Callers -> CallerStates] /\ caller'[c].pc = "idle"
        /\ \A d \in Callers \ {c} : caller'[d] = caller[d]
    BY <2>1, AtFacts
  <2>3. Owned'
    BY <2>1, <2>2, ConnectionOwners DEF Owned, Trying
  <2>4. NoConnectionLeaks'
    BY <2>1, <2>2, ConnectionOwners DEF NoConnectionLeaks
  <2> QED
    BY <2>1, <2>2, <2>3, <2>4, Zenon DEF ConnectionInv, ConnectionTypeOK, LinkStates, CallerStates
<1>3. answered => home \in Addresses
  <2>1. caller[c].conn \in Links
    BY ConnectionOwners, Zenon DEF Use, Owned
  <2> QED
    BY <2>1, ConnectionSorts, Zenon DEF Answers, LinkStates
<1> QED
  BY <1>1, <1>2, <1>3, Zenon

(* Steps of the peer, of discovery, of time and of gRPC.                   *)
LEMMA OutsideKeeps ==
    ASSUME ConnectionInv,
           \/ Discover \/ TurnUnhealthy \/ UNCHANGED linkVars
           \/ \E a \in Addresses \cup {Nowhere} : Move(a)
    PROVE  ConnectionInv'
<1>1. UNCHANGED <<conn, link, caller>>
  BY Zenon DEF Discover, TurnUnhealthy, linkVars, Move
<1>2. /\ home' \in Addresses \cup {Nowhere} /\ moves' \in 0 .. MaxMoves
      /\ discovered' \subseteq Addresses /\ lastInfo' \in Addresses \cup {Nowhere}
      /\ recent' \in BOOLEAN /\ ported' \in BOOLEAN
  <2> USE DEF ConnectionInv, ConnectionTypeOK
  <2>1. CASE Discover
    BY <2>1, Zenon DEF Discover
  <2>2. CASE TurnUnhealthy
    BY <2>2, Zenon DEF TurnUnhealthy
  <2>3. CASE UNCHANGED linkVars
    BY <2>3, Zenon DEF linkVars
  <2>4. ASSUME NEW a \in Addresses \cup {Nowhere}, Move(a)
        PROVE  home' \in Addresses \cup {Nowhere} /\ moves' \in 0 .. MaxMoves
    BY <2>4 DEF Move
  <2>5. CASE \E a \in Addresses \cup {Nowhere} : Move(a)
    <3>1. UNCHANGED <<ported, discovered, lastInfo, recent>>
      BY <2>5, Zenon DEF Move
    <3> QED
      BY <2>4, <2>5, <3>1, Zenon
  <2> QED
    BY <2>1, <2>2, <2>3, <2>5, Zenon
<1>3. Owned' /\ NoConnectionLeaks'
  BY <1>1, Zenon DEF ConnectionInv, Owned, Trying, NoConnectionLeaks
<1> QED
  BY <1>1, <1>2, <1>3, Zenon DEF ConnectionInv, ConnectionTypeOK

LEMMA LinkKeeps ==
    ASSUME ConnectionInv, NEW l \in Links, Breaks(l) \/ Recovers(l)
    PROVE  ConnectionInv'
<1>1. PICK s \in {"up", "failed"} : link' = WithState(link, l, s)
  BY Zenon DEF Breaks, Recovers, WithState
<1>2. /\ link[l].state # "closed"
      /\ UNCHANGED <<home, ported, moves, discovered, lastInfo, recent, conn, caller>>
  BY Zenon DEF Breaks, Recovers
<1>3. /\ link' \in [Links -> LinkStates] /\ link'[l].state = s
      /\ \A k \in Links \ {l} : link'[k] = link[k]
  BY <1>1, StateChange, ConnectionSorts
<1>4. Owned'
  BY <1>2, <1>3, ConnectionOwners, Zenon DEF Owned, Trying
<1>5. NoConnectionLeaks'
  BY <1>2, <1>3, ConnectionOwners DEF NoConnectionLeaks
<1> QED
  BY <1>2, <1>3, <1>4, <1>5, Zenon DEF ConnectionInv, ConnectionTypeOK, LinkStates, CallerStates

LEMMA ConnectionInvHolds == ConnectionSpec => []ConnectionInv
<1>1. ConnectionInit => ConnectionInv
  <2> SUFFICES ASSUME ConnectionInit PROVE ConnectionInv
    BY Zenon
  <2>1. ConnectionTypeOK
    <3>1. caller \in [Callers -> CallerStates] /\ link \in [Links -> LinkStates]
      BY Zenon DEF ConnectionInit, Idle, CallerStates, LinkStates
    <3>2. moves \in 0 .. MaxMoves
      BY DEF ConnectionInit
    <3>3. /\ home \in Addresses \cup {Nowhere} /\ discovered \subseteq Addresses
          /\ lastInfo \in Addresses \cup {Nowhere} /\ recent \in BOOLEAN /\ ported \in BOOLEAN
          /\ conn \in Links \cup {NoLink}
          /\ conn # NoLink => link[conn].state # "closed"
      BY Zenon DEF ConnectionInit
    <3> QED
      BY <3>1, <3>2, <3>3, Zenon DEF ConnectionTypeOK, CallerStates, LinkStates
  <2>2. Owned /\ NoConnectionLeaks
    BY Zenon DEF ConnectionInit, Owned, Trying, NoConnectionLeaks, Idle
  <2> QED
    BY <2>1, <2>2, Zenon DEF ConnectionInv
<1>2. ConnectionInv /\ [ConnectionNext]_linkVars => ConnectionInv'
  <2> SUFFICES ASSUME ConnectionInv, [ConnectionNext]_linkVars
               PROVE  ConnectionInv'
    BY Zenon
  <2>1. ASSUME NEW c \in Callers, CallerStep(c)
        PROVE  ConnectionInv'
    BY <2>1, ConnectKeeps, QuietKeeps, DialKeeps, PingKeeps, PublishKeeps, UseKeeps, Zenon DEF CallerStep
  <2>2. ASSUME PingedByPeer
        PROVE  ConnectionInv'
    <3>1. home \in Addresses
      BY <2>2, Zenon DEF PingedByPeer, ConnectionInv, ConnectionTypeOK
    <3> QED
      BY <2>2, <3>1, InfoKeeps, Zenon DEF PingedByPeer
  <2>3. ASSUME NEW l \in Links, Breaks(l) \/ Recovers(l)
        PROVE  ConnectionInv'
    BY <2>3, LinkKeeps, Zenon
  <2> QED
    BY <2>1, <2>2, <2>3, OutsideKeeps, Zenon DEF ConnectionNext
<1> QED
  BY <1>1, <1>2, PTL DEF ConnectionSpec

(* peer.conn is never a connection that has been closed, by whichever of   *)
(* the two callers, or by updatePeerInfo.                                  *)
THEOREM ConnectionTypes == ConnectionSpec => []ConnectionTypeOK
<1>1. ConnectionInv => ConnectionTypeOK
  BY Zenon DEF ConnectionInv
<1> QED
  BY <1>1, ConnectionInvHolds, PTL

(* connect leaves no connection open that is neither peer.conn nor about   *)
(* to be tried by a caller, however the two callers race.                  *)
THEOREM NothingLeaks == ConnectionSpec => []NoConnectionLeaks
<1>1. ConnectionInv => NoConnectionLeaks
  BY Zenon DEF ConnectionInv
<1> QED
  BY <1>1, ConnectionInvHolds, PTL

HIDE ConnectionAssumption

-----------------------------------------------------------------------------
(* A restore that ends well has copied the whole backup, for any number of *)
(* keys and any page size from two on. CopyTo keeps no list of what it has *)
(* copied, only its last key. The invariant says what that stands for:     *)
(* everything up to lastKey is in the target, and has been counted once. A *)
(* page leaves no gap behind its last key (PageHasNoGap), and a page       *)
(* without a new key means that there is none (EmptyPageIsTheEnd), which   *)
(* is where the page size comes in.                                        *)

Finite == INSTANCE FiniteSetTheorems

(* The library's theorems, for the operators of FiniteSets that the model  *)
(* is written with.                                                        *)
LEMMA SameFinite == \A S : IsFiniteSet(S) <=> Finite!IsFiniteSet(S)
BY Zenon DEF IsFiniteSet, Finite!IsFiniteSet

LEMMA SameSize == \A S : Cardinality(S) = Finite!Cardinality(S)
BY Zenon DEF Cardinality, Finite!Cardinality

LEMMA SizeIsNatural ==
    ASSUME NEW S, IsFiniteSet(S)
    PROVE  Cardinality(S) \in Nat
BY SameFinite, SameSize, Finite!FS_CardinalityType, Zenon

LEMMA EmptySize ==
    /\ IsFiniteSet({}) /\ Cardinality({}) = 0
    /\ \A S : IsFiniteSet(S) => (Cardinality(S) = 0 <=> S = {})
BY SameFinite, SameSize, Finite!FS_EmptySet, Zenon

LEMMA SingletonSize ==
    \A x : IsFiniteSet({x}) /\ Cardinality({x}) = 1
BY SameFinite, SameSize, Finite!FS_Singleton, Zenon

LEMMA SubsetSize ==
    ASSUME NEW S, IsFiniteSet(S), NEW T \in SUBSET S
    PROVE  /\ IsFiniteSet(T) /\ Cardinality(T) <= Cardinality(S)
           /\ Cardinality(S) = Cardinality(T) => S = T
BY SameFinite, SameSize, Finite!FS_Subset, Zenon

LEMMA UnionSize ==
    ASSUME NEW S, IsFiniteSet(S), NEW T, IsFiniteSet(T)
    PROVE  /\ IsFiniteSet(S \cup T)
           /\ Cardinality(S \cup T) = Cardinality(S) + Cardinality(T) - Cardinality(S \cap T)
BY SameFinite, SameSize, Finite!FS_Union, Zenon

LEMMA IntervalIsFinite ==
    \A n \in Nat : IsFiniteSet(1..n)
BY SameFinite, SameSize, Finite!FS_Interval
LOCAL INSTANCE WellFoundedInduction
USE RestoreAssumption

(* The keys that CopyTo has gone through. *)
Passed(k) == backup \cap (1 .. k)

RestoreInv ==
    /\ RestoreTypeOK
    /\ restore \in {"fetch", "start", "wait", "copy"} =>
           /\ answer = "none"
           /\ Passed(lastKey) \subseteq target
           /\ count = Cardinality(Passed(lastKey))
    /\ restore \in {"fetch", "start"} => tempEtcd = "none"
    /\ restore \in {"idle", "remove"} => tempEtcd = "none" \/ "stop" \in warned
    /\ restore = "idle" => ~tempDir \/ "remove" \in warned
    /\ RestoreIsComplete

(* Sets of keys.                                                           *)

LEMMA HasLeast ==
    ASSUME NEW S \in SUBSET Nat, S # {}
    PROVE  \E x \in S : \A y \in S : x <= y
<1> DEFINE R == OpToRel(<, Nat)
<1>1. IsWellFoundedOn(R, Nat)
  BY NatLessThanWellFounded, Zenon
<1>2. \A x, y \in Nat : y < x => <<y, x>> \in R
  BY Zenon DEF OpToRel
<1> HIDE DEF R
<1>3. PICK x \in S : \A y \in S : ~(<<y, x>> \in R)
  BY <1>1, WFMin, Zenon
<1>4. ASSUME NEW y \in S PROVE x <= y
  <2>1. x \in Nat /\ y \in Nat
    BY Zenon
  <2>2. ~(y < x)
    BY <1>2, <1>3, <2>1, Zenon
  <2> QED
    BY <2>1, <2>2
<1> QED
  BY <1>4, Zenon

(* Max returns the largest key of a page. *)
LEMMA MaxOfKeys ==
    ASSUME NEW S \in SUBSET (1 .. MaxKey), S # {}
    PROVE  Max(S) \in S /\ \A y \in S : y <= Max(S)
<1> DEFINE T == {MaxKey - y : y \in S}
<1>0. T \in SUBSET Nat /\ T # {}
  <2>1. \A y \in S : y \in 1 .. MaxKey
    BY Zenon
  <2>2. \A y \in S : MaxKey - y \in Nat
    BY <2>1
  <2> QED
    BY <2>2, Zenon
<1> HIDE DEF T
<1>1. PICK t \in T : \A u \in T : t <= u
  BY <1>0, HasLeast, Zenon
<1> USE DEF T
<1>2. PICK x \in S : t = MaxKey - x
  BY <1>1, Zenon
<1>3. \A y \in S : x >= y
  BY <1>1, <1>2
<1> QED
  BY <1>3, Zenon DEF Max

(* Every set of keys is finite. *)
LEMMA KeysAreFinite ==
    ASSUME NEW S \in SUBSET (1 .. MaxKey)
    PROVE  IsFiniteSet(S) /\ Cardinality(S) \in Nat
<1>1. IsFiniteSet(1 .. MaxKey)
  BY IntervalIsFinite, Zenon
<1>2. IsFiniteSet(S)
  BY <1>1, SubsetSize, Zenon
<1> QED
  BY <1>2, SizeIsNatural, Zenon

(* CopyTo's pages.                                                         *)

(* A page goes on without a gap from its first key to its last.            *)
LEMMA PageHasNoGap ==
    ASSUME backup \subseteq 1 .. MaxKey, NEW from \in Nat, NEW k \in NewKeys(from),
           NEW j \in backup, from < j, j <= k
    PROVE  j \in NewKeys(from)
<1> DEFINE upTo(x) == backup \cap (from .. (x - 1))
<1>1. k \in backup /\ Cardinality(upTo(k)) < PageSize
  BY Zenon DEF NewKeys, Page
<1>2. upTo(k) \in SUBSET (1 .. MaxKey) /\ upTo(j) \in SUBSET upTo(k)
  BY <1>1
<1>3. IsFiniteSet(upTo(k)) /\ Cardinality(upTo(k)) \in Nat
  BY <1>2, KeysAreFinite, Zenon
<1>4. Cardinality(upTo(j)) <= Cardinality(upTo(k)) /\ Cardinality(upTo(j)) \in Nat
  BY <1>2, <1>3, SubsetSize, KeysAreFinite, Zenon
<1>5. Cardinality(upTo(j)) < PageSize
  BY <1>1, <1>3, <1>4
<1> QED
  BY <1>5 DEF NewKeys, Page

(* A page without a new key: there are none after the one it starts from.  *)
(* The next key would be the second of the page at the latest.             *)
LEMMA EmptyPageIsTheEnd ==
    ASSUME backup \subseteq 1 .. MaxKey, NEW from \in Nat, NewKeys(from) = {}
    PROVE  \A k \in backup : k <= from
<1> DEFINE Later == {k \in backup : k > from}
<1>1. SUFFICES ASSUME Later # {} PROVE FALSE
  OBVIOUS
<1>2. PICK k \in Later : \A y \in Later : k <= y
  <2>1. \A k \in Later : k \in 1 .. MaxKey
    BY Zenon
  <2> HIDE DEF Later
  <2>2. Later \in SUBSET Nat
    BY <2>1
  <2> QED
    BY <1>1, <2>2, HasLeast, Zenon
<1> DEFINE before == backup \cap (from .. (k - 1))
<1>3. before \in SUBSET {from}
  BY <1>2
<1>4. IsFiniteSet({from}) /\ Cardinality({from}) = 1
  BY SingletonSize, Zenon
<1>5. Cardinality(before) <= 1 /\ IsFiniteSet(before)
  BY <1>3, <1>4, SubsetSize
<1>6. Cardinality(before) \in Nat
  BY <1>5, SizeIsNatural, Zenon
<1>7. Cardinality(before) < PageSize
  BY <1>5, <1>6
<1> QED
  BY <1>2, <1>7 DEF NewKeys, Page

(* A page with new keys moves lastKey on, over just those keys.            *)
LEMMA PageAdvances ==
    ASSUME backup \subseteq 1 .. MaxKey, NEW from \in Nat, NewKeys(from) # {}
    PROVE  /\ Max(NewKeys(from)) \in backup
           /\ Passed(Max(NewKeys(from))) = Passed(from) \cup NewKeys(from)
           /\ Cardinality(Passed(Max(NewKeys(from))))
                = Cardinality(Passed(from)) + Cardinality(NewKeys(from))
<1> DEFINE new == NewKeys(from)
           last == Max(new)
<1>1. new \in SUBSET (1 .. MaxKey) /\ new \subseteq backup /\ \A k \in new : k > from
  <2>1. \A k \in new : k \in backup /\ k >= from /\ k # from
    BY Zenon DEF NewKeys, Page
  <2> HIDE DEF new
  <2>2. \A k \in new : k \in 1 .. MaxKey
    BY <2>1, Zenon
  <2>3. \A k \in new : k > from
    BY <2>1, <2>2
  <2> QED
    BY <2>1, <2>2, <2>3, Zenon
<1>2. last \in new /\ \A y \in new : y <= last
  BY <1>1, MaxOfKeys, Zenon
<1>3. \A j \in backup : from < j /\ j <= last => j \in new
  BY <1>2, PageHasNoGap, Zenon
<1> HIDE DEF new, last
<1>4. Passed(last) = Passed(from) \cup new
  <2>1. ASSUME NEW k \in backup PROVE k \in 1 .. last <=> k \in 1 .. from \/ k \in new
    <3>1. k \in Nat /\ last \in Nat /\ k >= 1 /\ last > from
      BY <1>1, <1>2
    <3>2. k \in new => k <= last
      BY <1>2, Zenon
    <3>3. k > from /\ k <= last => k \in new
      BY <1>3, Zenon
    <3> QED
      BY <3>1, <3>2, <3>3
  <2> QED
    BY <1>1, <2>1, Zenon DEF Passed
<1>5. Passed(from) \cap new = {} /\ Passed(from) \in SUBSET (1 .. MaxKey)
  BY <1>1 DEF Passed
<1>6. /\ IsFiniteSet(new) /\ Cardinality(new) \in Nat
      /\ IsFiniteSet(Passed(from)) /\ Cardinality(Passed(from)) \in Nat
  BY <1>1, <1>5, KeysAreFinite, Zenon
<1>7. Cardinality(Passed(from) \cup new) = Cardinality(Passed(from)) + Cardinality(new)
  BY <1>5, <1>6, UnionSize, EmptySize
<1> QED
  BY <1>1, <1>2, <1>4, <1>7, Zenon DEF new, last

(* The invariant.                                                          *)

LEMMA RestoreInitInv == RestoreInit => RestoreInv
<1> SUFFICES ASSUME RestoreInit PROVE RestoreInv
  BY Zenon
<1>1. IsFiniteSet(backup) /\ Cardinality(backup) \in Nat
  BY KeysAreFinite, Zenon DEF RestoreInit
<1>2. RestoreTypeOK
  <2>1. waits \in 0 .. MaxWaits /\ count \in 0 .. Cardinality(backup)
    BY <1>1 DEF RestoreInit
  <2>2. target \subseteq backup /\ backup \subseteq 1 .. MaxKey
    BY Zenon DEF RestoreInit
  <2>3. tempDir \in BOOLEAN
    BY Zenon DEF RestoreInit
  <2> QED
    BY <2>1, <2>2, <2>3, Zenon DEF RestoreInit, RestoreTypeOK
<1> QED
  BY <1>2, Zenon DEF RestoreInit, RestoreInv, RestoreIsComplete

(* A page that is copied, or the end of the copy.                          *)
LEMMA CopyPageKeeps == RestoreInv /\ CopyPage => RestoreInv'
<1> SUFFICES ASSUME RestoreInv, CopyPage PROVE RestoreInv'
  BY Zenon
<1> DEFINE new == NewKeys(lastKey)
<1>1. /\ backup \subseteq 1 .. MaxKey /\ lastKey \in Nat /\ lastKey \in {0} \cup backup
      /\ target \subseteq backup
      /\ Passed(lastKey) \subseteq target /\ count = Cardinality(Passed(lastKey))
      /\ restore = "copy" /\ answer = "none"
  BY DEF RestoreInv, RestoreTypeOK, CopyPage
<1>2. new \subseteq backup
  BY Zenon DEF NewKeys, Page
<1>3. CASE new = {}
  <2>1. Passed(lastKey) = backup
    <3>1. \A k \in backup : k <= lastKey
      BY <1>1, <1>3, EmptyPageIsTheEnd, Zenon
    <3>2. \A k \in backup : k \in 1 .. lastKey
      BY <1>1, <3>1
    <3> QED
      BY <3>2, Zenon DEF Passed
  <2>2. target = backup /\ count = Cardinality(backup)
    BY <1>1, <2>1, Zenon
  <2>3. /\ restore' = "stop" /\ answer' = "ok"
        /\ UNCHANGED <<backup, target, tempDir, tempEtcd, warned, waits, lastKey, count>>
    BY <1>3, Zenon DEF CopyPage
  <2> QED
    BY <2>2, <2>3, Zenon DEF RestoreInv, RestoreTypeOK, RestoreIsComplete
<1>4. CASE new # {}
  <2> DEFINE last == Max(new)
  <2>1. /\ target' = target \cup new /\ lastKey' = last /\ count' = count + Cardinality(new)
        /\ UNCHANGED <<backup, restore, tempDir, tempEtcd, warned, waits, answer>>
    BY <1>4, Zenon DEF CopyPage
  <2>2. /\ last \in backup
        /\ Passed(last) = Passed(lastKey) \cup new
        /\ Cardinality(Passed(last)) = Cardinality(Passed(lastKey)) + Cardinality(new)
    BY <1>1, <1>4, PageAdvances, Zenon
  <2> HIDE DEF new, last
  <2>3. Passed(lastKey)' = Passed(last)
    BY <2>1, Zenon DEF Passed
  <2>4. Passed(last) \subseteq target' /\ target' \subseteq backup /\ count' = Cardinality(Passed(last))
    BY <1>1, <1>2, <2>1, <2>2, Zenon
  <2>5. Cardinality(Passed(last)) \in 0 .. Cardinality(backup)
    <3>1. IsFiniteSet(backup) /\ Cardinality(backup) \in Nat /\ Passed(last) \in SUBSET backup
      BY <1>1, KeysAreFinite, Zenon DEF Passed
    <3>2. IsFiniteSet(Passed(last)) /\ Cardinality(Passed(last)) <= Cardinality(backup)
      BY <3>1, SubsetSize, Zenon
    <3>3. Cardinality(Passed(last)) \in Nat
      BY <3>2, SizeIsNatural, Zenon
    <3> QED
      BY <3>1, <3>2, <3>3
  <2>6. RestoreTypeOK'
    BY <2>1, <2>2, <2>4, <2>5, Zenon DEF RestoreInv, RestoreTypeOK
  <2> QED
    BY <1>1, <2>1, <2>3, <2>4, <2>6, Zenon DEF RestoreInv, RestoreIsComplete
<1> QED
  BY <1>3, <1>4, Zenon

(* A request that arrives starts from the first key, whatever the target   *)
(* already holds.                                                          *)
LEMMA DoRestoreKeeps == RestoreInv /\ DoRestore => RestoreInv'
<1> SUFFICES ASSUME RestoreInv, DoRestore PROVE RestoreInv'
  OBVIOUS
<1>1. Passed(lastKey)' = {} /\ Cardinality({}) = 0
  BY EmptySize DEF DoRestore, Passed
<1>2. Cardinality(backup) \in Nat
  BY KeysAreFinite, Zenon DEF RestoreInv, RestoreTypeOK
<1> QED
  BY <1>1, <1>2 DEF DoRestore, RestoreInv, RestoreTypeOK, RestoreIsComplete

(* A copy that fails has added keys of the backup only, and ends with an   *)
(* error.                                                                  *)
LEMMA CopyFailsKeeps == RestoreInv /\ CopyFails => RestoreInv'
<1> SUFFICES ASSUME RestoreInv, CopyFails PROVE RestoreInv'
  OBVIOUS
<1>1. target' \subseteq backup
  BY Zenon DEF CopyFails, NewKeys, Page, RestoreInv, RestoreTypeOK
<1> QED
  BY <1>1, Zenon DEF CopyFails, Fails, RestoreInv, RestoreTypeOK, RestoreIsComplete

(* The other steps copy nothing. *)
LEMMA RestKeepsInv ==
    ASSUME RestoreInv,
           \/ Fetch \/ StartSource \/ Wait \/ StopSource \/ RemoveTempDir
           \/ SourceServes \/ SourceExits \/ UNCHANGED restoreVars
    PROVE  RestoreInv'
<1>1. UNCHANGED <<backup, target, lastKey, count>>
  BY Zenon DEF Fetch, StartSource, Wait, StopSource, RemoveTempDir, SourceServes, SourceExits, restoreVars
<1>2. Passed(lastKey)' = Passed(lastKey) /\ Cardinality(backup)' = Cardinality(backup)
  BY <1>1, Zenon DEF Passed
<1>3. CASE Fetch
  BY <1>1, <1>2, <1>3, Zenon DEF Fetch, Fails, RestoreInv, RestoreTypeOK, RestoreIsComplete
<1>4. CASE StartSource
  BY <1>1, <1>2, <1>4, Zenon DEF StartSource, Fails, RestoreInv, RestoreTypeOK, RestoreIsComplete
<1>5. CASE Wait
  BY <1>1, <1>2, <1>5 DEF Wait, Fails, RestoreInv, RestoreTypeOK, RestoreIsComplete
<1>6. CASE StopSource
  BY <1>1, <1>2, <1>6, Zenon DEF StopSource, RestoreInv, RestoreTypeOK, RestoreIsComplete
<1>7. CASE RemoveTempDir
  BY <1>1, <1>2, <1>7, Zenon DEF RemoveTempDir, RestoreInv, RestoreTypeOK, RestoreIsComplete
<1>8. CASE SourceServes
  BY <1>1, <1>2, <1>8, Zenon DEF SourceServes, RestoreInv, RestoreTypeOK, RestoreIsComplete
<1>9. CASE SourceExits
  BY <1>1, <1>2, <1>9, Zenon DEF SourceExits, RestoreInv, RestoreTypeOK, RestoreIsComplete
<1>10. CASE UNCHANGED restoreVars
  BY <1>1, <1>2, <1>10, Zenon DEF restoreVars, RestoreInv, RestoreTypeOK, RestoreIsComplete
<1> QED
  BY <1>3, <1>4, <1>5, <1>6, <1>7, <1>8, <1>9, <1>10

LEMMA RestoreInvHolds == RestoreSpec => []RestoreInv
<1>1. RestoreInit => RestoreInv
  BY RestoreInitInv, Zenon
<1>2. RestoreInv /\ [RestoreNext]_restoreVars => RestoreInv'
  BY CopyPageKeeps, DoRestoreKeeps, CopyFailsKeeps, RestKeepsInv, Zenon DEF RestoreNext
<1> QED
  BY <1>1, <1>2, PTL DEF RestoreSpec


(* DoRestore and CopyTo: a restore that is answered without an error has   *)
(* copied every key of the backup and counted each once, for any backup,   *)
(* any page size from two on, and any sequence of failed attempts before.  *)
THEOREM RestoredIsComplete == RestoreSpec => []RestoreIsComplete
<1>1. RestoreInv => RestoreIsComplete
  BY Zenon DEF RestoreInv
<1> QED
  BY <1>1, RestoreInvHolds, PTL

(* The deferred calls of DoRestore: whichever step of it has failed, and   *)
(* also when the etcd could not be stopped, what is left of a request that *)
(* has been answered is only what the call that was to clear it away       *)
(* failed on.                                                              *)
THEOREM RestoreAlwaysCleansUp == RestoreSpec => []RestoreCleansUp
<1>1. RestoreInv => RestoreCleansUp
  BY Zenon DEF RestoreInv, RestoreCleansUp
<1> QED
  BY <1>1, RestoreInvHolds, PTL

(* The types of DoRestore's steps and of the copy: nothing is in the       *)
(* target that is not in the backup, and no more has been counted.         *)
THEOREM RestoreTypes == RestoreSpec => []RestoreTypeOK
<1>1. RestoreInv => RestoreTypeOK
  BY Zenon DEF RestoreInv
<1> QED
  BY <1>1, RestoreInvHolds, PTL
=============================================================================
