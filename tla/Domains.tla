------------------------------ MODULE Domains ------------------------------
(***************************************************************************)
(* DNS records of custom domains: the providers of                         *)
(* src/GoTunnel/internal/dns (providers.go, cloudflare.go,                 *)
(* digitalocean.go) as the certificate manager uses them for dns-01        *)
(* challenges (acme/dns_handler.go), and as the broker uses them to point  *)
(* a custom domain at a relay (domains/providers.go).                      *)
(*                                                                         *)
(* A provider is an HTTP client of a service that holds zones and records. *)
(* Each request is a step: it may fail, its answer may be lost after the   *)
(* service has acted, and calls for several domains, or several calls for  *)
(* one, interleave between the requests.  The owner of the account edits   *)
(* the zones meanwhile.                                                    *)
(*                                                                         *)
(* A name is the sequence of its labels, the leftmost first, without the   *)
(* trailing dot that TrimSuffix cuts; the relative name "@" is <<>>.       *)
(***************************************************************************)
EXTENDS Naturals, Sequences

CONSTANTS DnCall,       \* calls under way
          DnDomain,     \* custom domains
          DnZone,       \* zones the account may have and the configuration admits
          MaxRecord,    \* bound on records created
          MaxBadApi,    \* bound on requests that fail or lose their answer
          MaxZoneEdit   \* bound on edits of the zones

ASSUME DnAssumption == /\ DnDomain \cup DnZone \subseteq Seq(STRING) \ {<<>>}
                       /\ {MaxRecord, MaxBadApi, MaxZoneEdit} \subseteq Nat

VARIABLES dnProvider,   \* the provider that is configured
          dnZones,      \* the zones of the account
          dnRecs,       \* the records of the service
          dnLast,       \* records created so far
          dnRun,        \* dnRun[c]: where call c is
          dnBad, dnEdits

dnVars == <<dnProvider, dnZones, dnRecs, dnLast, dnRun, dnBad, dnEdits>>

Acme == "_acme-challenge"
MemoryZone == <<"memory", "local">>

Off == [pc |-> "idle", for |-> "none", domain |-> <<>>, zone |-> <<>>,
        id |-> 0, left |-> {}, moved |-> FALSE]

DnPc == {"idle", "find", "create", "made", "findAgain", "list", "delete", "done", "failed"}

DnTypeOK ==
    /\ \A c \in DnCall : /\ dnRun[c].pc \in DnPc
                         /\ dnRun[c].left \subseteq 1..dnLast
                         /\ dnRun[c].pc \in {"create", "list", "delete"} => dnRun[c].zone # <<>>
    /\ \A r, s \in dnRecs : r.id = s.id => r = s
    /\ \A r \in dnRecs : r.id \in 1..dnLast /\ r.zone \in dnZones \cup {MemoryZone}

DnInit ==
    /\ dnProvider \in {"cloudflare", "digitalocean", "memory"}
    /\ dnZones \in SUBSET DnZone
    /\ dnRecs = {}
    /\ dnLast = 0
    /\ dnRun = [c \in DnCall |-> Off]
    /\ dnBad = 0
    /\ dnEdits = 0

-----------------------------------------------------------------------------
(***************************************************************************)
(* Names.                                                                  *)
(***************************************************************************)
\* strings.HasSuffix of d and "." + z, or d = z: the name d is z or lies in it.
HasSuffix(d, z) == Len(z) =< Len(d) /\ SubSeq(d, Len(d) - Len(z) + 1, Len(d)) = z

\* FindZone: the longest zone that the domain is, or lies in; {} for nil.
FindZone(d, zones) ==
    {z \in zones : HasSuffix(d, z) /\ \A y \in zones : HasSuffix(d, y) => Len(y) =< Len(z)}

\* ExtractSubdomain: the name relative to the zone.
ExtractSubdomain(d, z) ==
    IF HasSuffix(d, z) THEN SubSeq(d, 1, Len(d) - Len(z)) ELSE d

ChallengeName(d) == <<Acme>> \o d

\* The name that GetRecords of the DigitalOcean provider gives a record, from
\* the relative name that the service returns.
RecordName(name, z) == IF name # <<>> /\ HasSuffix(name, z) THEN name ELSE name \o z

\* The name that a query resolves: DigitalOcean takes every name as relative to
\* the zone, Cloudflare only names that do not end in it.
Resolved(r) ==
    CASE dnProvider = "digitalocean" -> r.name \o r.zone
      [] dnProvider = "cloudflare"   -> RecordName(r.name, r.zone)
      [] OTHER                       -> r.name

Record(z, name, type) == [zone |-> z, name |-> name, type |-> type]

\* CreateChallengeRecord of the three providers.
CloudflareChallenge(d, z) == Record(z, ChallengeName(d), "TXT")
DigitalOceanChallenge(d, z) == Record(z, ExtractSubdomain(ChallengeName(d), z), "TXT")
MemoryChallenge(d) == Record(MemoryZone, ChallengeName(d), "TXT")

\* Ensure of DNSProviderAdapter: a CNAME for the target, at an apex a TXT record.
EnsuredRecord(d, z) ==
    LET sub == ExtractSubdomain(d, z)
    IN  Record(z, sub, IF sub = <<>> THEN "TXT" ELSE "CNAME")

Wanted(run) ==
    IF run.for = "ensure" THEN EnsuredRecord(run.domain, run.zone)
    ELSE IF dnProvider = "digitalocean" THEN DigitalOceanChallenge(run.domain, run.zone)
    ELSE CloudflareChallenge(run.domain, run.zone)

\* The record with the identifier that the service gives it.
Numbered(r, n) == [id |-> n, zone |-> r.zone, name |-> r.name, type |-> r.type]

-----------------------------------------------------------------------------
(***************************************************************************)
(* Calls of the providers.                                                 *)
(***************************************************************************)
Step(c, pc) == dnRun' = [dnRun EXCEPT ![c].pc = pc]

\* A request that fails, with or without effect on the service: Do returns an
\* error, also when only the answer is lost.
ApiFails == /\ dnBad < MaxBadApi
            /\ dnBad' = dnBad + 1

Begin(c, d, for) ==
    /\ dnRun[c].pc \in {"idle", "done", "failed"}
    /\ dnLast < MaxRecord
    /\ dnRun' = [dnRun EXCEPT ![c] = [Off EXCEPT !.pc = "find", !.for = for, !.domain = d]]
    /\ UNCHANGED <<dnProvider, dnZones, dnRecs, dnLast, dnBad, dnEdits>>

\* HandleChallenge of DNSChallengeHandler, when a certificate is issued.
StartChallenge(c, d) == Begin(c, d, "challenge")

\* Ensure of the broker's registry of domains; its memory provider keeps no
\* records.
EnsureDomain(c, d) == dnProvider # "memory" /\ Begin(c, d, "ensure")

\* GetZones and FindZone, at the beginning of CreateChallengeRecord, of
\* DeleteChallengeRecord and of Ensure.
LookUpZone(c, from, to) ==
    /\ dnProvider # "memory"
    /\ dnRun[c].pc = from
    /\ \/ /\ \E z \in FindZone(dnRun[c].domain, dnZones) :
                dnRun' = [dnRun EXCEPT ![c].pc = to, ![c].zone = z]
          /\ UNCHANGED dnBad
       \/ /\ FindZone(dnRun[c].domain, dnZones) = {}
          /\ Step(c, "failed")
          /\ UNCHANGED dnBad
       \/ /\ ApiFails
          /\ Step(c, "failed")
    /\ UNCHANGED <<dnProvider, dnZones, dnRecs, dnLast, dnEdits>>

\* resolveZoneID: the zone of a request must still be one of the account's, as
\* it must for the service when the request names the zone itself.
ResolveZoneID(c) == dnRun[c].zone \in dnZones

\* CreateRecord.  A challenge whose creation fails is not cleaned up.
CreateRecord(c) ==
    /\ dnRun[c].pc = "create"
    /\ dnLast < MaxRecord
    /\ LET made == dnRecs \cup {Numbered(Wanted(dnRun[c]), dnLast + 1)}
       IN  \/ /\ ResolveZoneID(c)
              /\ dnRecs' = made
              /\ dnLast' = dnLast + 1
              /\ dnRun' = [dnRun EXCEPT ![c].pc = "made", ![c].id = dnLast + 1]
              /\ UNCHANGED dnBad
           \/ /\ ~ResolveZoneID(c)
              /\ Step(c, "failed")
              /\ UNCHANGED <<dnRecs, dnLast, dnBad>>
           \/ /\ ApiFails
              /\ Step(c, "failed")
              /\ \/ ResolveZoneID(c) /\ dnRecs' = made /\ dnLast' = dnLast + 1
                 \/ UNCHANGED <<dnRecs, dnLast>>
    /\ UNCHANGED <<dnProvider, dnZones, dnEdits>>

\* The authority has validated the challenge or refused it: CleanupChallenge.
CleanUp(c) ==
    /\ dnRun[c].pc = "made"
    /\ Step(c, IF dnRun[c].for = "challenge" THEN "findAgain" ELSE "done")
    /\ UNCHANGED <<dnProvider, dnZones, dnRecs, dnLast, dnBad, dnEdits>>

Ids(recs) == {r.id : r \in recs}
TextRecords(run) == {r \in dnRecs : r.zone = run.zone /\ r.type = "TXT"}

\* GetRecords of Cloudflare: the service is asked for the name and the type.
CloudflareRecords(run) ==
    Ids({r \in TextRecords(run) : Resolved(r) = ChallengeName(run.domain)})

DigitalOceanRecordsRelative(run) ==
    Ids({r \in TextRecords(run) : r.name = ChallengeName(run.domain)})

\* GetRecords of DigitalOcean: all records of the zone, whose names and types
\* are compared here.
DigitalOceanRecords(run) ==
    Ids({r \in TextRecords(run) : RecordName(r.name, r.zone) = ChallengeName(run.domain)})

GetRecords(run) ==
    IF dnProvider = "cloudflare" THEN CloudflareRecords(run) ELSE DigitalOceanRecords(run)

ListRecords(c) ==
    /\ dnRun[c].pc = "list"
    /\ \/ /\ ResolveZoneID(c)
          /\ dnRun' = [dnRun EXCEPT ![c].pc = IF GetRecords(dnRun[c]) = {} THEN "done" ELSE "delete",
                                    ![c].left = GetRecords(dnRun[c])]
          /\ UNCHANGED dnBad
       \/ /\ ~ResolveZoneID(c)
          /\ Step(c, "failed")
          /\ UNCHANGED dnBad
       \/ /\ ApiFails
          /\ Step(c, "failed")
    /\ UNCHANGED <<dnProvider, dnZones, dnRecs, dnLast, dnEdits>>

\* DeleteRecord of one of the records listed.  Any error ends the call, also
\* that another call has deleted the record already.
DeleteRecord(c, n) ==
    /\ dnRun[c].pc = "delete"
    /\ n \in dnRun[c].left
    /\ LET there == ResolveZoneID(c) /\ \E r \in dnRecs : r.id = n
           rest == {r \in dnRecs : r.id # n}
       IN  \/ /\ there
              /\ dnRecs' = rest
              /\ dnRun' = [dnRun EXCEPT ![c].left = @ \ {n},
                                        ![c].pc = IF dnRun[c].left = {n} THEN "done" ELSE "delete"]
              /\ UNCHANGED dnBad
           \/ /\ ~there
              /\ Step(c, "failed")
              /\ UNCHANGED <<dnRecs, dnBad>>
           \/ /\ ApiFails
              /\ Step(c, "failed")
              /\ (there /\ dnRecs' = rest) \/ UNCHANGED dnRecs
    /\ UNCHANGED <<dnProvider, dnZones, dnLast, dnEdits>>

\* MemoryProvider: the records are a map under a mutex.
MemoryCreate(c) ==
    /\ dnProvider = "memory"
    /\ dnRun[c].pc = "find"
    /\ dnLast < MaxRecord
    /\ dnRecs' = dnRecs \cup {Numbered(MemoryChallenge(dnRun[c].domain), dnLast + 1)}
    /\ dnRun' = [dnRun EXCEPT ![c].pc = "made", ![c].id = dnLast + 1]
    /\ dnLast' = dnLast + 1
    /\ UNCHANGED <<dnProvider, dnZones, dnBad, dnEdits>>

MemoryDelete(c) ==
    /\ dnProvider = "memory"
    /\ dnRun[c].pc = "findAgain"
    /\ dnRecs' = {r \in dnRecs : r.name # ChallengeName(dnRun[c].domain)}
    /\ Step(c, "done")
    /\ UNCHANGED <<dnProvider, dnZones, dnLast, dnBad, dnEdits>>

\* The owner of the account adds or removes a zone, with its records.
EditZones(z) ==
    /\ dnProvider # "memory"
    /\ dnEdits < MaxZoneEdit
    /\ dnEdits' = dnEdits + 1
    /\ dnZones' = IF z \in dnZones THEN dnZones \ {z} ELSE dnZones \cup {z}
    /\ dnRecs' = {r \in dnRecs : r.zone \in dnZones'}
    /\ dnRun' = [c \in DnCall |-> [dnRun[c] EXCEPT !.moved = TRUE]]
    /\ UNCHANGED <<dnProvider, dnLast, dnBad>>

DnNext ==
    \/ \E c \in DnCall, d \in DnDomain : StartChallenge(c, d) \/ EnsureDomain(c, d)
    \/ \E c \in DnCall : \/ LookUpZone(c, "find", "create") \/ CreateRecord(c) \/ CleanUp(c)
                         \/ LookUpZone(c, "findAgain", "list") \/ ListRecords(c)
                         \/ MemoryCreate(c) \/ MemoryDelete(c)
    \/ \E c \in DnCall, n \in 1..MaxRecord : DeleteRecord(c, n)
    \/ \E z \in DnZone : EditZones(z)

DnSpec == DnInit /\ [][DnNext]_dnVars

-----------------------------------------------------------------------------
(***************************************************************************)
(* Properties.  A relative name that itself ends in the name of its zone   *)
(* is read as an absolute one, by GetRecords of the DigitalOcean provider  *)
(* and by Cloudflare: records with such names are left out below.          *)
(***************************************************************************)
Plain(d) ==
    \A z \in DnZone : HasSuffix(d, z) =>
        \A name \in {d, ChallengeName(d)} : ~HasSuffix(ExtractSubdomain(name, z), z)

\* Zones inside zones, relative and absolute names, two providers: the record
\* that CreateRecord made for a call answers queries for the call's domain, or
\* its challenge name, and is in the most specific zone, unless the zones of
\* the account were edited since the call began.
RecordPlaced ==
    \A c \in DnCall, r \in dnRecs :
        (r.id = dnRun[c].id /\ ~dnRun[c].moved /\ Plain(dnRun[c].domain)) =>
            /\ Resolved(r) = IF dnRun[c].for = "ensure" THEN dnRun[c].domain
                             ELSE ChallengeName(dnRun[c].domain)
            /\ dnProvider # "memory" => \A z \in dnZones : HasSuffix(dnRun[c].domain, z) => Len(z) =< Len(r.zone)

\* A cleanup that returns no error has removed the challenge record of its own
\* call, whatever other calls for the same or another domain did meanwhile:
\* DeleteChallengeRecord looks for the record by name, not by its identifier.
OwnRecordGone ==
    \A c \in DnCall :
        (dnRun[c].pc = "done" /\ dnRun[c].for = "challenge" /\ ~dnRun[c].moved /\ Plain(dnRun[c].domain)) =>
            \A r \in dnRecs : r.id # dnRun[c].id

\* DeleteChallengeRecord is about to delete challenge records of its domain
\* only, never the records that route a custom domain or the challenges of
\* other domains in the same zone.
OthersKept ==
    \A c \in DnCall, r \in dnRecs :
        (dnRun[c].pc = "delete" /\ r.id \in dnRun[c].left /\ ~HasSuffix(ExtractSubdomain(Resolved(r), r.zone), r.zone)) =>
            r.type = "TXT" /\ Resolved(r) = ChallengeName(dnRun[c].domain)

\* CreateRecord and DeleteChallengeRecord together: a record is placed where it is
\* asked for, a cleanup removes the record of its own call and no other record.
RecordsExact == RecordPlaced /\ OwnRecordGone /\ OthersKept
=============================================================================
