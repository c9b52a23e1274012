------------------------------ MODULE Keypairs ------------------------------
(***************************************************************************)
(* The key pair that etcd is started with: createKeypairs of               *)
(* pkg/etcd/pki.go, and the files behind it (pkg/pki).                     *)
(*                                                                         *)
(* Whenever etcd is started, the CA bundle, the private key and the        *)
(* certificate are brought up to date in files next to etcd's data.  Each  *)
(* file is emptied and then written in place; a crash, or a full disk,     *)
(* between the two leaves it cut short.  The CA is loaded when             *)
(* etcd-manager starts, and the operator may rotate it; the names in the   *)
(* certificate follow the configuration.                                   *)
(***************************************************************************)
EXTENDS Naturals

CONSTANTS CAs, Names, PrivateKeys,
          Missing, CutShort,  \* of a file
          CertDuration, CertMinTimeLeft,
          MaxYears,            \* bound on the clock, in years
          MaxStops            \* bound on the starts that are cut off

(* certs.go:41: CertMinTimeLeft is "(much) higher than CertDuration". *)
ASSUME KeypairAssumption ==
    /\ CertDuration \in Nat /\ CertMinTimeLeft \in Nat /\ MaxYears \in Nat /\ MaxStops \in Nat
    /\ CertDuration > 0
    /\ CertMinTimeLeft >= CertDuration
    /\ Missing \notin PrivateKeys /\ CutShort \notin PrivateKeys

VARIABLES
    now,
    storedCA,    \* the CA in etcd-manager's own PKI directory
    ca,          \* the CA that etcd-manager has loaded
    config,      \* the names that the certificate has to have
    bundleFile, keyFile, certFile,
    pair,        \* the Keypair in memory
    starting,    \* where startEtcdProcess is
    stops        \* how often etcd or etcd-manager has stopped

pkiVars == <<now, storedCA, ca, config, bundleFile, keyFile, certFile, pair, starting, stops>>

Certificates == [key : PrivateKeys, signer : CAs, names : Names,
                 notAfter : 0 .. (MaxYears + CertDuration)]
NoPair == [key |-> Missing, cert |-> Missing]

KeypairsInit ==
    /\ now = 0
    /\ storedCA \in CAs
    /\ ca = storedCA
    /\ config \in Names
    /\ bundleFile = Missing /\ keyFile = Missing /\ certFile = Missing
    /\ pair = NoPair
    /\ starting = "stopped"
    /\ stops = 0

-----------------------------------------------------------------------------
(* loadPrivateKey, loadCertificate: a file that is there but does not      *)
(* parse is an error.                                                      *)
Unparseable(file) == file = CutShort

(* Mutant: a certificate with the right names is always good enough. *)
ReusableByNames(cert) == cert # Missing /\ cert.names = config

(* ensureKeypair: time left and names are looked at, the signer is not. *)
Reusable(cert) ==
    /\ cert # Missing
    /\ cert.notAfter > now + CertMinTimeLeft
    /\ cert.names = config

(* newSignedCert *)
Signed(key) == [key |-> key, signer |-> ca, names |-> config, notAfter |-> now + CertDuration]

(* Mutant: a missing certificate is an error, like a missing CA. *)
LoadBoth ==
    /\ starting = "load"
    /\ IF Unparseable(keyFile) \/ Unparseable(certFile) \/ (keyFile # Missing /\ certFile = Missing)
       THEN starting' = "stopped" /\ pair' = NoPair
       ELSE \E k \in IF keyFile = Missing THEN PrivateKeys ELSE {keyFile} :
                /\ pair' = [key |-> k, cert |-> IF Reusable(certFile) THEN certFile ELSE Signed(k)]
                /\ starting' = IF keyFile = Missing THEN "openKey" ELSE "openCert"
    /\ UNCHANGED <<now, storedCA, ca, config, bundleFile, keyFile, certFile, stops>>

(* MutateKeypair loads both files, of which either may be missing, and     *)
(* makes the key, the certificate or both; what has changed is written.    *)
Load ==
    /\ starting = "load"
    /\ IF Unparseable(keyFile) \/ Unparseable(certFile)
       THEN starting' = "stopped" /\ pair' = NoPair
       ELSE \E k \in IF keyFile = Missing THEN PrivateKeys ELSE {keyFile} :
                /\ pair' = [key |-> k, cert |-> IF Reusable(certFile) THEN certFile ELSE Signed(k)]
                /\ starting' = IF keyFile = Missing THEN "openKey"
                               ELSE IF Reusable(certFile) THEN "running" ELSE "openCert"
    /\ UNCHANGED <<now, storedCA, ca, config, bundleFile, keyFile, certFile, stops>>

(* WriteCABundle, on every start. *)
WriteBundle ==
    /\ \/ starting = "stopped" /\ starting' = "bundle" /\ bundleFile' = CutShort
       \/ starting = "bundle" /\ starting' = "load" /\ bundleFile' = ca
    /\ UNCHANGED <<now, storedCA, ca, config, keyFile, certFile, pair, stops>>

(* writePrivateKey *)
WriteKey ==
    /\ \/ starting = "openKey" /\ starting' = "writeKey" /\ keyFile' = CutShort
       \/ /\ starting = "writeKey"
          /\ keyFile' = pair.key
          /\ starting' = IF pair.cert = certFile THEN "running" ELSE "openCert"
    /\ UNCHANGED <<now, storedCA, ca, config, bundleFile, certFile, pair, stops>>

(* writeCertificates *)
WriteCert ==
    /\ \/ starting = "openCert" /\ starting' = "writeCert" /\ certFile' = CutShort
       \/ starting = "writeCert" /\ starting' = "running" /\ certFile' = pair.cert
    /\ UNCHANGED <<now, storedCA, ca, config, bundleFile, keyFile, pair, stops>>

(* A write fails, or etcd exits: runOnce starts etcd again. *)
Stop ==
    /\ starting \notin {"stopped", "load"}
    /\ starting' = "stopped"
    /\ pair' = NoPair
    /\ stops < MaxStops /\ stops' = stops + 1
    /\ UNCHANGED <<now, storedCA, ca, config, bundleFile, keyFile, certFile>>

(* etcd-manager is restarted, perhaps with another configuration, at any   *)
(* moment.                                                                 *)
RestartManager ==
    /\ starting' = "stopped"
    /\ pair' = NoPair
    /\ stops < MaxStops /\ stops' = stops + 1
    /\ ca' = storedCA
    /\ config' \in Names
    /\ UNCHANGED <<now, storedCA, bundleFile, keyFile, certFile>>

RotateCA ==
    /\ storedCA' \in CAs \ {storedCA}
    /\ UNCHANGED <<now, ca, config, bundleFile, keyFile, certFile, pair, starting, stops>>

PassTime ==
    /\ now < MaxYears
    /\ now' = now + 1
    /\ UNCHANGED <<storedCA, ca, config, bundleFile, keyFile, certFile, pair, starting, stops>>

StartStep == WriteBundle \/ Load \/ WriteKey \/ WriteCert

KeypairsNext == StartStep \/ Stop \/ RestartManager \/ RotateCA \/ PassTime

KeypairsSpec == KeypairsInit /\ [][KeypairsNext]_pkiVars

(* Types, and: no certificate is on disk without a private key.            *)
KeypairsTypeOK ==
    /\ now \in 0 .. MaxYears
    /\ storedCA \in CAs /\ ca \in CAs
    /\ config \in Names
    /\ bundleFile \in CAs \cup {Missing, CutShort}
    /\ keyFile \in PrivateKeys \cup {Missing, CutShort}
    /\ certFile \in Certificates \cup {Missing, CutShort}
    /\ pair.key \in PrivateKeys \cup {Missing}
    /\ pair.cert \in Certificates \cup {Missing}
    /\ starting \in {"stopped", "bundle", "load", "openKey", "writeKey", "openCert", "writeCert",
                     "running"}
    /\ stops \in 0 .. MaxStops
    /\ keyFile \notin PrivateKeys => certFile = Missing

(* The etcd that has been started found a certificate for the private key  *)
(* beside it, signed by the CA in the bundle (which its peers have too),   *)
(* with the names of the configuration, through crashes in the middle of   *)
(* the files and rotations of the CA.                                      *)
EtcdStartsWithMatchingPair ==
    starting = "running" =>
        /\ certFile \in Certificates
        /\ certFile.key = keyFile
        /\ certFile.signer = bundleFile
        /\ certFile.names = config

(* A start that was interrupted is made up for, unless it was interrupted  *)
(* between emptying the key or the certificate and writing it: then no     *)
(* start succeeds any more (loadPrivateKey and loadCertificate tolerate a  *)
(* missing file, but not an empty one).                                    *)
StartsUnlessCutShort ==
    []<>(starting = "running" \/ keyFile = CutShort \/ certFile = CutShort)
=============================================================================
