---------------------------- MODULE Certificates ----------------------------
(***************************************************************************)
(* The certificate of one custom domain: LifecycleManager                  *)
(* (src/GoTunnel/internal/acme/lifecycle.go), its file store               *)
(* (acme/store_file.go), the DNS challenge (acme/dns_handler.go,           *)
(* dns/providers.go) and the relay's handler that asks for the certificate *)
(* (relay/server.go, ensureManagedCertificate).                            *)
(*                                                                         *)
(* Registrations of clients, revocations and the renewal worker run        *)
(* IssueCertificate at the same time.  Each locked section, each call of   *)
(* the certificate authority and each file written is a step.  A call      *)
(* keeps a pointer to the metadata it made, which another call may have    *)
(* replaced in the map meanwhile; metadata objects therefore have numbers, *)
(* and the certificate that a call obtains has the number of the call.     *)
(***************************************************************************)
EXTENDS Naturals

CONSTANTS Caller,       \* registrations and revocations under way
          Worker,       \* the renewal worker
          MaxRetries,
          MaxIssue,     \* bound on metadata objects
          MaxBadCa,     \* bound on failing calls of the authority
          MaxBadDisk,   \* bound on failing writes
          MaxHalt       \* bound on crashes of the relay

ASSUME CeAssumption == /\ Worker \notin Caller
                       /\ {MaxRetries, MaxIssue, MaxBadCa, MaxBadDisk, MaxHalt} \subseteq Nat

VARIABLES ceUp,         \* the relay runs
          ceWorks,      \* the renewal worker was started
          ceObj,        \* ceObj[n]: metadata object n
          ceLast,       \* objects made so far
          ceMeta,       \* the object in the map metadata, 0 if none
          ceCert,       \* the pair in the map certificates
          ceDisk,       \* the files of the domain
          ceTxt,        \* calls whose TXT record is in the zone
          ceRevoked,    \* certificates revoked at the authority
          ceDue,        \* certificates within the renewal window
          ceRun,        \* ceRun[t]: where thread t is
          ceBad,        \* failures so far: authority, disk, crashes
          ceSafe        \* no overlapping calls, failed or interrupted writes

ceVars == <<ceUp, ceWorks, ceObj, ceLast, ceMeta, ceCert, ceDisk, ceTxt, ceRevoked,
            ceDue, ceRun, ceBad, ceSafe>>

Id == 1..MaxIssue
CertState == {"none", "pending", "validating", "issued", "renewing", "failed"}
Thread == Caller \cup {Worker}

NoMeta == [state |-> "none", cert |-> 0, retry |-> 0]
NoPair == [cert |-> 0, key |-> 0]
NoFiles == [cert |-> 0, key |-> 0, meta |-> NoMeta]
Rest == [pc |-> "idle", id |-> 0]
At(pc, n) == [pc |-> pc, id |-> n]

CePc == {"idle", "issue", "authorize", "saveValidating", "challenge", "accept", "wait",
         "cleanup", "undo", "create", "saveCert", "saveKey", "install", "saveIssued", "fail",
         "renew", "saveRenewing", "revokeOld", "retry", "revoke", "delete"}

CeTypeOK ==
    /\ ceObj \in [Id -> [state : CertState, cert : {0} \cup Id, retry : 0..MaxRetries]]
    /\ ceLast \in {0} \cup Id /\ ceMeta \in {0} \cup Id
    /\ ceCert \in [cert : {0} \cup Id, key : {0} \cup Id]
    /\ ceDisk.cert \in {0} \cup Id /\ ceDisk.key \in {0} \cup Id
    /\ ceTxt \subseteq Id /\ ceRevoked \subseteq Id /\ ceDue \subseteq Id
    /\ ceRun \in [Thread -> [pc : CePc, id : {0} \cup Id]]
    /\ \A t \in Thread : ceRun[t].pc \in {"renew", "saveRenewing", "revokeOld", "retry"} => t = Worker

-----------------------------------------------------------------------------
\* NewLifecycleManager and Start over an empty directory.
CeInit ==
    /\ ceUp = TRUE
    /\ ceWorks = TRUE
    /\ ceObj = [n \in Id |-> NoMeta]
    /\ ceLast = 0
    /\ ceMeta = 0
    /\ ceCert = NoPair
    /\ ceDisk = NoFiles
    /\ ceTxt = {}
    /\ ceRevoked = {}
    /\ ceDue = {}
    /\ ceRun = [t \in Thread |-> Rest]
    /\ ceBad = [ca |-> 0, disk |-> 0, halt |-> 0]
    /\ ceSafe = TRUE

Goto(t, pc) == ceRun' = [ceRun EXCEPT ![t].pc = pc]
Alone(t) == \A u \in Thread \ {t} : ceRun[u].pc = "idle"

\* A call of the authority or of the DNS provider that fails.
CaFails == /\ ceBad.ca < MaxBadCa
           /\ ceBad' = [ceBad EXCEPT !.ca = @ + 1]

\* ensureManagedCertificate: a domain with a certificate needs none.
Ensure(t) ==
    /\ ceUp
    /\ t \in Caller
    /\ ceRun[t].pc = "idle"
    /\ ceCert = NoPair
    /\ ceSafe' = (ceSafe /\ Alone(t))
    /\ Goto(t, "issue")
    /\ UNCHANGED <<ceUp, ceWorks, ceObj, ceLast, ceMeta, ceCert, ceDisk, ceTxt, ceRevoked, ceDue, ceBad>>

\* IssueCertificate: fresh metadata replaces what the map has.
Issue(t) ==
    LET n == ceLast + 1
    IN  /\ ceUp
        /\ ceRun[t].pc = "issue"
        /\ n <= MaxIssue
        /\ ceLast' = n
        /\ ceObj' = [ceObj EXCEPT ![n] = [NoMeta EXCEPT !.state = "pending"]]
        /\ ceMeta' = n
        /\ ceRun' = [ceRun EXCEPT ![t] = At("authorize", n)]
        /\ UNCHANGED <<ceUp, ceWorks, ceCert, ceDisk, ceTxt, ceRevoked, ceDue, ceBad, ceSafe>>

AuthorizeUnsaved(t) ==
    /\ ceUp
    /\ ceRun[t].pc = "authorize"
    /\ \/ /\ ceObj' = [ceObj EXCEPT ![ceRun[t].id].state = "validating"]
          /\ Goto(t, "challenge")
          /\ UNCHANGED ceBad
       \/ /\ CaFails
          /\ Goto(t, "fail")
          /\ UNCHANGED ceObj
    /\ UNCHANGED <<ceUp, ceWorks, ceLast, ceMeta, ceCert, ceDisk, ceTxt, ceRevoked, ceDue, ceSafe>>

\* Authorize; the call's own metadata is written without the lock.
Authorize(t) ==
    /\ ceUp
    /\ ceRun[t].pc = "authorize"
    /\ \/ /\ ceObj' = [ceObj EXCEPT ![ceRun[t].id].state = "validating"]
          /\ Goto(t, "saveValidating")
          /\ UNCHANGED ceBad
       \/ /\ CaFails
          /\ Goto(t, "fail")
          /\ UNCHANGED ceObj
    /\ UNCHANGED <<ceUp, ceWorks, ceLast, ceMeta, ceCert, ceDisk, ceTxt, ceRevoked, ceDue, ceSafe>>

\* os.WriteFile of the files' part f: done, or it fails and the file stays, or
\* is left cut short, which no reader can parse.
WriteFile(f, v, empty, ok) ==
    \/ /\ ok
       /\ ceDisk' = [ceDisk EXCEPT ![f] = v]
       /\ UNCHANGED <<ceBad, ceSafe>>
    \/ /\ ~ok
       /\ ceBad.disk < MaxBadDisk
       /\ ceBad' = [ceBad EXCEPT !.disk = @ + 1]
       /\ ceSafe' = FALSE
       /\ \/ UNCHANGED ceDisk
          \/ ceDisk' = [ceDisk EXCEPT ![f] = empty]

AfterSave == [saveValidating |-> "challenge", saveRenewing |-> "revokeOld", saveIssued |-> "idle"]

\* SaveMetadata of the object that the thread points to; its error is dropped.
SaveMetadata(t) ==
    /\ ceUp
    /\ ceRun[t].pc \in DOMAIN AfterSave
    /\ \E ok \in BOOLEAN : WriteFile("meta", ceObj[ceRun[t].id], NoMeta, ok)
    /\ ceRun' = [ceRun EXCEPT ![t] = IF @.pc = "saveIssued" THEN Rest ELSE At(AfterSave[@.pc], @.id)]
    /\ UNCHANGED <<ceUp, ceWorks, ceObj, ceLast, ceMeta, ceCert, ceTxt, ceRevoked, ceDue>>

\* Choosing the challenge, and HandleChallenge with CreateChallengeRecord: one
\* more TXT record under the domain's name.
HandleChallenge(t) ==
    /\ ceUp
    /\ ceRun[t].pc = "challenge"
    /\ \/ /\ ceTxt' = ceTxt \cup {ceRun[t].id}
          /\ Goto(t, "accept")
          /\ UNCHANGED ceBad
       \/ /\ CaFails
          /\ Goto(t, "fail")
          /\ UNCHANGED ceTxt
    /\ UNCHANGED <<ceUp, ceWorks, ceObj, ceLast, ceMeta, ceCert, ceDisk, ceRevoked, ceDue, ceSafe>>

AcceptNoUndo(t) ==
    /\ ceUp
    /\ ceRun[t].pc = "accept"
    /\ \/ Goto(t, "wait") /\ UNCHANGED ceBad
       \/ CaFails /\ Goto(t, "fail")
    /\ UNCHANGED <<ceUp, ceWorks, ceObj, ceLast, ceMeta, ceCert, ceDisk, ceTxt, ceRevoked, ceDue, ceSafe>>

Accept(t) ==
    /\ ceUp
    /\ ceRun[t].pc = "accept"
    /\ \/ Goto(t, "wait") /\ UNCHANGED ceBad
       \/ CaFails /\ Goto(t, "undo")
    /\ UNCHANGED <<ceUp, ceWorks, ceObj, ceLast, ceMeta, ceCert, ceDisk, ceTxt, ceRevoked, ceDue, ceSafe>>

\* WaitAuthorization: the authority finds the call's record, or the
\* authorization fails, as it must when another call has deleted the record.
WaitAuthorization(t) ==
    /\ ceUp
    /\ ceRun[t].pc = "wait"
    /\ \/ ceRun[t].id \in ceTxt /\ Goto(t, "cleanup") /\ UNCHANGED ceBad
       \/ ceRun[t].id \in ceTxt /\ CaFails /\ Goto(t, "undo")
       \/ ceRun[t].id \notin ceTxt /\ Goto(t, "undo") /\ UNCHANGED ceBad
    /\ UNCHANGED <<ceUp, ceWorks, ceObj, ceLast, ceMeta, ceCert, ceDisk, ceTxt, ceRevoked, ceDue, ceSafe>>

\* CleanupChallenge: DeleteChallengeRecord deletes every record of the name.
CleanupChallenge(t) ==
    /\ ceUp
    /\ ceRun[t].pc \in {"cleanup", "undo"}
    /\ ceTxt' = {}
    /\ Goto(t, IF ceRun[t].pc = "cleanup" THEN "create" ELSE "fail")
    /\ UNCHANGED <<ceUp, ceWorks, ceObj, ceLast, ceMeta, ceCert, ceDisk, ceRevoked, ceDue, ceBad, ceSafe>>

\* The key, the request and CreateCert.
CreateCert(t) ==
    /\ ceUp
    /\ ceRun[t].pc = "create"
    /\ \/ Goto(t, "saveCert") /\ UNCHANGED ceBad
       \/ CaFails /\ Goto(t, "fail")
    /\ UNCHANGED <<ceUp, ceWorks, ceObj, ceLast, ceMeta, ceCert, ceDisk, ceTxt, ceRevoked, ceDue, ceSafe>>

\* SaveCertificate writes cert.pem and then key.pem, each in place.
SaveCertificate(t) ==
    /\ ceUp
    /\ ceRun[t].pc \in {"saveCert", "saveKey"}
    /\ \E ok \in BOOLEAN :
          /\ WriteFile(IF ceRun[t].pc = "saveCert" THEN "cert" ELSE "key", ceRun[t].id, 0, ok)
          /\ Goto(t, IF ~ok THEN "fail" ELSE IF ceRun[t].pc = "saveCert" THEN "saveKey" ELSE "install")
    /\ UNCHANGED <<ceUp, ceWorks, ceObj, ceLast, ceMeta, ceCert, ceTxt, ceRevoked, ceDue>>

\* The last locked section of IssueCertificate.
Install(t) ==
    LET n == ceRun[t].id
    IN  /\ ceUp
        /\ ceRun[t].pc = "install"
        /\ ceObj' = [ceObj EXCEPT ![n] = [state |-> "issued", cert |-> n, retry |-> 0]]
        /\ ceCert' = [cert |-> n, key |-> n]
        /\ Goto(t, "saveIssued")
        /\ UNCHANGED <<ceUp, ceWorks, ceLast, ceMeta, ceDisk, ceTxt, ceRevoked, ceDue, ceBad, ceSafe>>

IssueFailsRetries(t) ==
    /\ ceUp
    /\ ceRun[t].pc = "fail"
    /\ ceObj' = [n \in Id |-> IF n = ceMeta THEN [ceObj[n] EXCEPT !.state = "failed"] ELSE ceObj[n]]
    /\ ceRun' = [ceRun EXCEPT ![t] = At("retry", 0)]
    /\ UNCHANGED <<ceUp, ceWorks, ceLast, ceMeta, ceCert, ceDisk, ceTxt, ceRevoked, ceDue, ceBad, ceSafe>>

\* updateMetadataState(failed) writes whatever object the map has now.
IssueFails(t) ==
    /\ ceUp
    /\ ceRun[t].pc = "fail"
    /\ ceObj' = [n \in Id |-> IF n = ceMeta THEN [ceObj[n] EXCEPT !.state = "failed"] ELSE ceObj[n]]
    /\ ceRun' = [ceRun EXCEPT ![t] = IF t = Worker THEN At("retry", 0) ELSE Rest]
    /\ UNCHANGED <<ceUp, ceWorks, ceLast, ceMeta, ceCert, ceDisk, ceTxt, ceRevoked, ceDue, ceBad, ceSafe>>

-----------------------------------------------------------------------------
\* The certificate that is served comes within the renewal window.
BecomesDue ==
    /\ ceUp
    /\ ceCert.cert \notin ceDue \cup {0}
    /\ ceDue' = ceDue \cup {ceCert.cert}
    /\ UNCHANGED <<ceUp, ceWorks, ceObj, ceLast, ceMeta, ceCert, ceDisk, ceTxt, ceRevoked, ceRun, ceBad, ceSafe>>

NeedsRenewal == /\ ceMeta # 0
                /\ ceObj[ceMeta].state = "issued"
                /\ ceObj[ceMeta].cert \in ceDue

\* checkAndRenewCertificates up to RUnlock finds the domain.
CheckRenewal ==
    /\ ceUp
    /\ ceWorks
    /\ ceRun[Worker].pc = "idle"
    /\ NeedsRenewal
    /\ ceSafe' = (ceSafe /\ Alone(Worker))
    /\ Goto(Worker, "renew")
    /\ UNCHANGED <<ceUp, ceWorks, ceObj, ceLast, ceMeta, ceCert, ceDisk, ceTxt, ceRevoked, ceDue, ceBad>>

\* renewCertificate up to the unlock: the metadata may be gone by now.
Renew ==
    /\ ceUp
    /\ ceRun[Worker].pc = "renew"
    /\ \/ /\ ceMeta = 0
          /\ Goto(Worker, "retry")
          /\ UNCHANGED ceObj
       \/ /\ ceMeta # 0
          /\ ceObj' = [ceObj EXCEPT ![ceMeta].state = "renewing"]
          /\ ceRun' = [ceRun EXCEPT ![Worker] = At("saveRenewing", ceMeta)]
    /\ UNCHANGED <<ceUp, ceWorks, ceLast, ceMeta, ceCert, ceDisk, ceTxt, ceRevoked, ceDue, ceBad, ceSafe>>

\* renewCertificate revokes the certificate it replaces, before it has the new
\* one; an error is dropped.
RevokeOld ==
    /\ ceUp
    /\ ceRun[Worker].pc = "revokeOld"
    /\ \/ ceRevoked' = ceRevoked \cup ({ceCert.cert} \ {0}) /\ UNCHANGED ceBad
       \/ CaFails /\ UNCHANGED ceRevoked
    /\ Goto(Worker, "issue")
    /\ UNCHANGED <<ceUp, ceWorks, ceObj, ceLast, ceMeta, ceCert, ceDisk, ceTxt, ceDue, ceSafe>>

\* checkAndRenewCertificates after an error counts in the object the map has.
CountRetry ==
    LET more(m) == [m EXCEPT !.retry = @ + 1, !.state = IF m.retry + 1 >= MaxRetries THEN "failed" ELSE @]
    IN  /\ ceUp
        /\ ceRun[Worker].pc = "retry"
        /\ ceObj' = [n \in Id |-> IF n = ceMeta THEN more(ceObj[n]) ELSE ceObj[n]]
        /\ ceRun' = [ceRun EXCEPT ![Worker] = Rest]
        /\ UNCHANGED <<ceUp, ceWorks, ceLast, ceMeta, ceCert, ceDisk, ceTxt, ceRevoked, ceDue, ceBad, ceSafe>>

\* RevokeCertificate forgets the certificate, asks the authority, and deletes
\* the files unless the authority refuses.
RevokeCertificate(t) ==
    /\ ceUp
    /\ t \in Caller
    /\ ceRun[t].pc = "idle"
    /\ ceCert # NoPair
    /\ ceCert' = NoPair
    /\ ceMeta' = 0
    /\ ceRun' = [ceRun EXCEPT ![t] = At("revoke", ceCert.cert)]
    /\ ceSafe' = (ceSafe /\ Alone(t))
    /\ UNCHANGED <<ceUp, ceWorks, ceObj, ceLast, ceDisk, ceTxt, ceRevoked, ceDue, ceBad>>

RevokeCert(t) ==
    /\ ceUp
    /\ ceRun[t].pc = "revoke"
    /\ \/ /\ ceRevoked' = ceRevoked \cup {ceRun[t].id}
          /\ Goto(t, "delete")
          /\ UNCHANGED ceBad
       \/ /\ CaFails
          /\ ceRun' = [ceRun EXCEPT ![t] = Rest]
          /\ UNCHANGED ceRevoked
    /\ UNCHANGED <<ceUp, ceWorks, ceObj, ceLast, ceMeta, ceCert, ceDisk, ceTxt, ceDue, ceSafe>>

DeleteCertificate(t) ==
    /\ ceUp
    /\ ceRun[t].pc = "delete"
    /\ ceDisk' = NoFiles
    /\ ceRun' = [ceRun EXCEPT ![t] = Rest]
    /\ UNCHANGED <<ceUp, ceWorks, ceObj, ceLast, ceMeta, ceCert, ceTxt, ceRevoked, ceDue, ceBad, ceSafe>>

-----------------------------------------------------------------------------
\* What a crash can leave of the file that thread t is writing.
Torn(t) ==
    CASE ceRun[t].pc \in DOMAIN AfterSave -> {ceDisk, [ceDisk EXCEPT !.meta = NoMeta]}
      [] ceRun[t].pc = "saveCert" -> {ceDisk, [ceDisk EXCEPT !.cert = 0]}
      [] ceRun[t].pc = "saveKey"  -> {ceDisk, [ceDisk EXCEPT !.key = 0]}
      [] OTHER -> {ceDisk}

\* The relay stops, perhaps in the middle of a write.
CeHalt ==
    /\ ceUp
    /\ ceBad.halt < MaxHalt
    /\ ceBad' = [ceBad EXCEPT !.halt = @ + 1]
    /\ ceUp' = FALSE
    /\ \E t \in Thread : ceDisk' \in Torn(t)
    /\ ceSafe' = (ceSafe /\ ceDisk' = ceDisk /\ \A t \in Thread : ceRun[t].pc # "saveKey")
    /\ ceRun' = [t \in Thread |-> Rest]
    /\ UNCHANGED <<ceWorks, ceObj, ceLast, ceMeta, ceCert, ceTxt, ceRevoked, ceDue>>

\* ListCertificates needs metadata.json; LoadCertificate both files.
Listed == ceDisk.meta # NoMeta /\ ceDisk.cert # 0 /\ ceDisk.key # 0

\* X509KeyPair accepts a certificate only with its own key.
Loadable == Listed /\ ceDisk.cert = ceDisk.key

\* Start: an account that cannot be registered leaves the relay without its
\* certificates and without a renewal worker; otherwise what the files hold.
CeStartAny(loadable) ==
    LET n == ceLast + 1
    IN  /\ ~ceUp
        /\ ceUp' = TRUE
        /\ n <= MaxIssue
        /\ \/ /\ CaFails
              /\ ceWorks' = FALSE
              /\ ceMeta' = 0
              /\ ceCert' = NoPair
              /\ ceSafe' = FALSE
              /\ UNCHANGED <<ceObj, ceLast>>
           \/ /\ ceWorks' = TRUE
              /\ loadable
              /\ ceLast' = n
              /\ ceMeta' = n
              /\ ceObj' = [ceObj EXCEPT ![n] = ceDisk.meta]
              /\ ceCert' = [cert |-> ceDisk.cert, key |-> ceDisk.key]
              /\ UNCHANGED <<ceBad, ceSafe>>
           \/ /\ ceWorks' = TRUE
              /\ ~loadable
              /\ ceMeta' = 0
              /\ ceCert' = NoPair
              /\ UNCHANGED <<ceObj, ceLast, ceBad, ceSafe>>
        /\ UNCHANGED <<ceDisk, ceTxt, ceRevoked, ceDue, ceRun>>

CeStartUnchecked == CeStartAny(Listed)
CeStart == CeStartAny(Loadable)

CeNext ==
    \/ \E t \in Thread : \/ Ensure(t) \/ Issue(t) \/ Authorize(t) \/ SaveMetadata(t)
                         \/ HandleChallenge(t) \/ Accept(t) \/ WaitAuthorization(t)
                         \/ CleanupChallenge(t) \/ CreateCert(t) \/ SaveCertificate(t)
                         \/ Install(t) \/ IssueFails(t)
                         \/ RevokeCertificate(t) \/ RevokeCert(t) \/ DeleteCertificate(t)
    \/ BecomesDue \/ CheckRenewal \/ Renew \/ RevokeOld \/ CountRetry
    \/ CeHalt \/ CeStart

CeSpec == CeInit /\ [][CeNext]_ceVars

-----------------------------------------------------------------------------
\* Metadata that says "issued" has a certificate to serve, whatever calls and
\* revocations overlap and whatever a crash left on disk; the worker renews
\* nothing that is not there (lifecycle.go:335-351, 366-374, 528-555).
IssuedServed ==
    (ceUp /\ ceMeta # 0 /\ ceObj[ceMeta].state = "issued") => ceCert # NoPair

\* A certificate is only ever served with its own private key, also after a
\* crash between the two writes of SaveCertificate or two calls writing the
\* files in turn (store_file.go:24-33, lifecycle.go:544-547).
ServedOwnsKey == ceCert.cert = ceCert.key

\* Challenge records do not pile up: a record in the zone belongs to a call
\* that will still clean up, unless the relay crashed, if calls of the provider
\* either succeed or do nothing, as MemoryProvider's do; the module Domains has
\* the others (lifecycle.go:261-281).
ChallengeCleaned ==
    ceBad.halt = 0 => \A n \in ceTxt : \E t \in Thread :
        ceRun[t].id = n /\ ceRun[t].pc \in {"accept", "wait", "cleanup", "undo"}

\* A restart serves the certificate served before, or a newer one, at whatever
\* point of an issue, renewal or revocation the relay stopped, if calls did not
\* overlap and no write failed or was interrupted (lifecycle.go:196-362, 528-555).
RestartServes == [][~ceUp /\ ceUp' /\ ceSafe' => ceCert'.cert >= ceCert.cert]_ceVars

\* What the metadata promises can be served, with its own key: after any overlap
\* of RequestCertificate, RevokeCertificate and the worker, and any restart.
CertificateSound == IssuedServed /\ ServedOwnsKey
=============================================================================
