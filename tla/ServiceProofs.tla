--------------------------- MODULE ServiceProofs ---------------------------
(***************************************************************************)
(* Proofs about three services that share no state: the DNS records of     *)
(* custom domains (Domains), the certificates (Certificates) and the       *)
(* accounts (Auth).                                                        *)
(***************************************************************************)
EXTENDS Domains, Certificates, Auth, Integers, SequenceTheorems, TLAPS

(***************************************************************************)
(* The DNS records of custom domains.                                      *)
(***************************************************************************)

Label == STRING \cup {Acme}
DnName == Seq(Label)

\* Domains and zones are names over the labels that the code writes.
LEMMA NamesAreNames == DnDomain \cup DnZone \subseteq DnName
<1>1. STRING \subseteq Label
  BY Zenon DEF Label
<1>2. Seq(STRING) \subseteq DnName
  BY <1>1, SeqMonotonic, Zenon DEF DnName
<1> QED
  BY <1>2, DnAssumption, Zenon

\* What HasSuffix says, label by label.
Ends(z, d) == Len(z) =< Len(d) /\ \A i \in 1..Len(z) : z[i] = d[Len(d) - Len(z) + i]

LEMMA SuffixEnds ==
    ASSUME NEW z \in DnName, NEW d \in DnName
    PROVE  HasSuffix(d, z) <=> Ends(z, d)
<1>0. Len(z) \in Nat /\ Len(d) \in Nat
  BY DEF DnName
<1>1. PICK m, k : m = Len(z) /\ k = Len(d) /\ m \in Nat /\ k \in Nat
  BY <1>0, Zenon
<1>2. CASE ~(m =< k)
  BY <1>1, <1>2, Zenon DEF HasSuffix, Ends
<1>3. CASE m =< k
  <2>1. PICK s : s = SubSeq(d, k - m + 1, k)
    BY Zenon
  <2>2. \A i \in (k - m + 1)..k : d[i] \in Label
    <3>1. ASSUME NEW i \in (k - m + 1)..k PROVE i \in 1..Len(d)
      BY <1>1, <1>3
    <3> QED
      BY <3>1, ElementOfSeq, Zenon DEF DnName
  <2>3. k - m + 1 \in Int /\ k \in Int /\ k - (k - m + 1) + 1 = m
        /\ (IF k - m + 1 <= k THEN k - (k - m + 1) + 1 ELSE 0) = m
    BY <1>1, <1>3
  <2>4. /\ s \in Seq(Label) /\ Len(s) = m
        /\ \A i \in 1..m : s[i] = d[(k - m + 1) + i - 1]
    BY <2>1, <2>2, <2>3, SubSeqProperties
  <2>5. \A i \in 1..m : (k - m + 1) + i - 1 = k - m + i
    BY <1>1
  <2>6. s = z <=> \A i \in 1..m : z[i] = d[k - m + i]
    <3>1. s = z => \A i \in 1..m : z[i] = d[k - m + i]
      BY <2>4, <2>5, Zenon
    <3>2. ASSUME \A i \in 1..m : z[i] = d[k - m + i] PROVE s = z
      <4>1. Len(s) = Len(z) /\ \A i \in 1..Len(s) : s[i] = z[i]
        BY <1>1, <2>4, <2>5, <3>2, Zenon
      <4> QED
        BY <2>4, <4>1, SeqEqual, Zenon DEF DnName
    <3> QED
      BY <3>1, <3>2, Zenon
  <2>7. HasSuffix(d, z) <=> s = z
    BY <1>1, <1>3, <2>1, Zenon DEF HasSuffix
  <2>8. Ends(z, d) <=> \A i \in 1..m : z[i] = d[k - m + i]
    BY <1>1, <1>3, Zenon DEF Ends
  <2> QED
    BY <2>6, <2>7, <2>8, Zenon
<1> QED
  BY <1>2, <1>3, Zenon

\* ExtractSubdomain cuts the zone off and nothing else.
LEMMA CutJoin ==
    ASSUME NEW z \in DnName, NEW d \in DnName, HasSuffix(d, z)
    PROVE  /\ ExtractSubdomain(d, z) \in DnName
           /\ ExtractSubdomain(d, z) \o z = d
<1>1. Len(z) \in Nat /\ Len(d) \in Nat /\ Ends(z, d)
  BY SuffixEnds DEF DnName
<1>2. PICK k : k = Len(d) - Len(z)
  BY Zenon
<1>3. k \in 0..Len(d) /\ ExtractSubdomain(d, z) = SubSeq(d, 1, k)
  BY <1>1, <1>2 DEF ExtractSubdomain, Ends
<1>4. PICK s : s = SubSeq(d, 1, k)
  BY Zenon
<1>5. s \in Seq(Label) /\ Len(s) = k /\ \A i \in 1..k : s[i] = d[i]
  BY <1>3, <1>4 DEF DnName
<1>6. /\ s \o z \in Seq(Label) /\ Len(s \o z) = Len(d)
      /\ \A i \in 1..k : (s \o z)[i] = s[i]
      /\ \A i \in (k + 1)..Len(d) : (s \o z)[i] = z[i - k]
  BY <1>1, <1>2, <1>5 DEF DnName
<1>7. ASSUME NEW i \in 1..Len(d) PROVE (s \o z)[i] = d[i]
  <2>1. CASE i =< k
    BY <1>3, <1>5, <1>6, <2>1
  <2>2. CASE i > k
    <3>1. i \in (k + 1)..Len(d) /\ i - k \in 1..Len(z) /\ Len(d) - Len(z) + (i - k) = i
      BY <1>1, <1>2, <1>3, <2>2
    <3> QED
      BY <1>1, <1>6, <3>1, Zenon DEF Ends
  <2>3. k \in Int /\ i \in Int
    BY <1>1, <1>2
  <2>4. i =< k \/ i > k
    BY <2>3
  <2> QED
    BY <2>1, <2>2, <2>4, Zenon
<1>8. s \o z = d
  BY <1>6, <1>7, SeqEqual, Zenon DEF DnName
<1> QED
  BY <1>3, <1>4, <1>5, <1>8, Zenon DEF DnName

\* A name made relative and absolute again.
LEMMA JoinCut ==
    ASSUME NEW s \in DnName, NEW z \in DnName
    PROVE  s \o z \in DnName /\ HasSuffix(s \o z, z) /\ ExtractSubdomain(s \o z, z) = s
<1>1. /\ s \o z \in Seq(Label) /\ Len(s \o z) = Len(s) + Len(z)
      /\ Len(s) \in Nat /\ Len(z) \in Nat
      /\ \A i \in 1..Len(s) : (s \o z)[i] = s[i]
      /\ \A i \in 1..Len(z) : (s \o z)[Len(s) + i] = z[i]
  BY DEF DnName
<1>2. PICK d : d = s \o z
  BY Zenon
<1>3. Len(d) - Len(z) = Len(s)
  BY <1>1, <1>2
<1>4. Ends(z, d)
  BY <1>1, <1>2, <1>3 DEF Ends
<1>5. HasSuffix(d, z)
  BY <1>1, <1>2, <1>4, SuffixEnds, Zenon DEF DnName
<1>6. SubSeq(d, 1, Len(s)) = s
  BY <1>1, <1>2 DEF DnName
<1> QED
  BY <1>1, <1>2, <1>3, <1>5, <1>6, Zenon DEF ExtractSubdomain, DnName

\* The zone of a domain is the zone of its challenge name.
LEMMA ChallengeSuffix ==
    ASSUME NEW z \in DnName, NEW d \in DnName, HasSuffix(d, z)
    PROVE  ChallengeName(d) \in DnName /\ HasSuffix(ChallengeName(d), z)
<1>1. Len(z) \in Nat /\ Len(d) \in Nat /\ Ends(z, d)
  BY SuffixEnds DEF DnName
<1>2. <<Acme>> \in Seq(Label) /\ Len(<<Acme>>) = 1
  <2>1. Acme \in Label
    BY Zenon DEF Label
  <2> QED
    BY <2>1
<1>3. PICK x : x = ChallengeName(d)
  BY Zenon
<1>4. x \in Seq(Label) /\ Len(x) = Len(d) + 1 /\ \A i \in 1..Len(d) : x[i + 1] = d[i]
  BY <1>1, <1>2, <1>3 DEF ChallengeName, DnName
<1>5. ASSUME NEW i \in 1..Len(z) PROVE z[i] = x[Len(x) - Len(z) + i]
  <2>1. /\ Len(d) - Len(z) + i \in 1..Len(d)
        /\ Len(x) - Len(z) + i = (Len(d) - Len(z) + i) + 1
    BY <1>1, <1>4 DEF Ends
  <2>2. x[(Len(d) - Len(z) + i) + 1] = d[Len(d) - Len(z) + i]
    BY <1>4, <2>1, Zenon
  <2> QED
    BY <1>1, <2>1, <2>2, Zenon DEF Ends
<1>6. Ends(z, x)
  BY <1>1, <1>4, <1>5 DEF Ends
<1> QED
  BY <1>3, <1>4, <1>6, SuffixEnds, Zenon DEF DnName

\* FindZone finds one zone: suffixes of one length are the same.
LEMMA OneZone ==
    ASSUME NEW d \in DnName, NEW zones \in SUBSET DnName,
           NEW y \in FindZone(d, zones), NEW z \in FindZone(d, zones)
    PROVE  y = z
<1>1. y \in DnName /\ z \in DnName /\ HasSuffix(d, y) /\ HasSuffix(d, z)
      /\ Len(y) =< Len(z) /\ Len(z) =< Len(y)
  BY Zenon DEF FindZone
<1>2. /\ Len(y) \in Nat /\ Len(z) \in Nat /\ Ends(y, d) /\ Ends(z, d)
      /\ y \in [1..Len(y) -> Label] /\ z \in [1..Len(z) -> Label]
  BY <1>1, SuffixEnds DEF DnName
<1>3. Len(y) = Len(z)
  <2>1. Len(y) \in Nat /\ Len(z) \in Nat
    BY <1>2, Zenon
  <2>2. Len(y) =< Len(z) /\ Len(z) =< Len(y)
    BY <1>1, Zenon
  <2> QED
    BY <2>1, <2>2
<1>4. ASSUME NEW i \in 1..Len(y) PROVE y[i] = z[i]
  BY <1>2, <1>3, Zenon DEF Ends
<1> QED
  BY <1>1, <1>3, <1>4, SeqEqual, Zenon DEF DnName

\* A challenge name is not the apex of anything.
LEMMA ChallengeLonger ==
    ASSUME NEW d \in DnName PROVE ChallengeName(d) # <<>>
<1>1. Acme \in Label
  BY Zenon DEF Label
<1>2. <<Acme>> \in Seq(Label) /\ Len(<<Acme>>) = 1
  BY <1>1
<1>3. Len(ChallengeName(d)) = 1 + Len(d) /\ Len(d) \in Nat
  BY <1>2, ConcatProperties DEF ChallengeName, DnName
<1> QED
  BY <1>3

\* The state of a call, the types of its fields.
RunRecord == [pc : DnPc, for : {"none", "challenge", "ensure"}, domain : DnName, zone : DnName,
              id : Nat, left : SUBSET Nat, moved : BOOLEAN]

\* Wanted, with the provider as a parameter.
WantedBy(p, run) ==
    IF run.for = "ensure" THEN EnsuredRecord(run.domain, run.zone)
    ELSE IF p = "digitalocean" THEN DigitalOceanChallenge(run.domain, run.zone)
    ELSE CloudflareChallenge(run.domain, run.zone)

\* What both providers look for when a challenge of d is cleaned up.
Matches(r, d) == r.type = "TXT" /\ RecordName(r.name, r.zone) = ChallengeName(d)

\* Records have identifiers of their own and, in a zone, names.
RecsOK(p, recs, last) ==
    /\ last \in Nat
    /\ \A r \in recs : r.id \in 1..last
    /\ \A r, s \in recs : r.id = s.id => r = s
    /\ p # "memory" => \A r \in recs : r.zone \in DnName /\ r.name \in DnName

\* A call that has a record has looked up a zone, and works with no other as
\* long as the zones stay.
Zoned(p, run, zones) ==
    (p # "memory" /\ ~run.moved /\ run.pc \in {"create", "made", "findAgain", "list", "delete"})
        => run.zone \in FindZone(run.domain, zones)

\* The record of a call is the one that its domain and its zone ask for.
Mine(p, run, recs, zones) ==
    \A r \in recs : (r.id = run.id /\ ~run.moved) =>
        IF p = "memory" THEN run.for # "ensure" /\ r.name = ChallengeName(run.domain)
        ELSE run.zone \in FindZone(run.domain, zones) /\ r = Numbered(WantedBy(p, run), run.id)

\* A cleanup that is to delete records is to delete the call's own.
Cleaned(run, recs) ==
    \A r \in recs :
        (r.id = run.id /\ run.for = "challenge" /\ ~run.moved /\ Plain(run.domain)) =>
            run.pc # "done" /\ (run.pc = "delete" => r.id \in run.left)

\* What a cleanup is to delete was found by its name and type.
Found(run, recs) ==
    \A r \in recs : (run.pc = "delete" /\ r.id \in run.left) => Matches(r, run.domain)

RunOK(p, run, recs, zones, last) ==
    /\ run \in RunRecord
    /\ run.id \in 0..last /\ run.left \subseteq 1..last
    /\ run.pc \in {"idle", "find"} => run.id = 0
    /\ p = "memory" => run.for # "ensure" /\ run.pc \notin {"create", "list", "delete"}
    /\ Zoned(p, run, zones)
    /\ Mine(p, run, recs, zones)
    /\ Cleaned(run, recs)
    /\ Found(run, recs)

\* The inductive invariant.
DnInv ==
    /\ dnProvider \in {"cloudflare", "digitalocean", "memory"}
    /\ dnZones \subseteq DnZone
    /\ RecsOK(dnProvider, dnRecs, dnLast)
    /\ dnRun \in [DnCall -> RunRecord]
    /\ \A c \in DnCall : RunOK(dnProvider, dnRun[c], dnRecs, dnZones, dnLast)

\* A record that is made as Wanted says resolves to the name it was made for.
LEMMA WantedResolves ==
    ASSUME NEW p \in {"cloudflare", "digitalocean"}, NEW run \in RunRecord,
           NEW zones \in SUBSET DnZone, run.zone \in FindZone(run.domain, zones), Plain(run.domain),
           NEW w, w = WantedBy(p, run)
    PROVE  (IF p = "digitalocean" THEN w.name \o w.zone ELSE RecordName(w.name, w.zone))
             = (IF run.for = "ensure" THEN run.domain ELSE ChallengeName(run.domain))
<1>1. PICK z, d : z = run.zone /\ d = run.domain
  BY Zenon
<1>2. z \in DnName /\ d \in DnName /\ HasSuffix(d, z) /\ z \in DnZone
  BY <1>1, NamesAreNames, Zenon DEF RunRecord, FindZone
<1>3. ~HasSuffix(ExtractSubdomain(d, z), z) /\ ~HasSuffix(ExtractSubdomain(ChallengeName(d), z), z)
  BY <1>1, <1>2, Zenon DEF Plain
<1>4. ChallengeName(d) \in DnName /\ HasSuffix(ChallengeName(d), z)
  BY <1>2, ChallengeSuffix, Zenon
<1>5. ExtractSubdomain(d, z) \o z = d /\ ExtractSubdomain(ChallengeName(d), z) \o z = ChallengeName(d)
  BY <1>2, <1>4, CutJoin, Zenon
<1>6. CASE run.for = "ensure"
  <2>1. w.name = ExtractSubdomain(d, z) /\ w.zone = z
    <3>1. w = EnsuredRecord(d, z)
      BY <1>1, <1>6, Zenon DEF WantedBy
    <3>2. PICK t : w = Record(z, ExtractSubdomain(d, z), t)
      BY <3>1, Zenon DEF EnsuredRecord
    <3> QED
      BY <3>2 DEF Record
  <2>2. RecordName(w.name, w.zone) = w.name \o w.zone
    BY <1>3, <2>1, Zenon DEF RecordName
  <2> QED
    BY <1>1, <1>5, <1>6, <2>1, <2>2, Zenon
<1>7. CASE run.for # "ensure" /\ p = "digitalocean"
  <2>1. w.name = ExtractSubdomain(ChallengeName(d), z) /\ w.zone = z
    BY <1>1, <1>7, Zenon DEF WantedBy, DigitalOceanChallenge, Record
  <2> QED
    BY <1>1, <1>5, <1>7, <2>1, Zenon
<1>8. CASE run.for # "ensure" /\ p # "digitalocean"
  <2>1. w.name = ChallengeName(d) /\ w.zone = z
    BY <1>1, <1>8, Zenon DEF WantedBy, CloudflareChallenge, Record
  <2>2. ChallengeName(d) # <<>>
    BY <1>2, ChallengeLonger, Zenon
  <2>3. RecordName(w.name, w.zone) = ChallengeName(d)
    BY <1>4, <2>1, <2>2, Zenon DEF RecordName
  <2> QED
    BY <1>1, <1>8, <2>3, Zenon
<1> QED
  BY <1>6, <1>7, <1>8, Zenon

\* GetRecords finds the record of the call it is made for.
LEMMA WantedMatches ==
    ASSUME NEW p \in {"cloudflare", "digitalocean"}, NEW run \in RunRecord, run.for = "challenge",
           NEW zones \in SUBSET DnZone, run.zone \in FindZone(run.domain, zones), Plain(run.domain),
           NEW n
    PROVE  /\ Numbered(WantedBy(p, run), n).zone = run.zone
           /\ Matches(Numbered(WantedBy(p, run), n), run.domain)
<1>1. PICK z, d : z = run.zone /\ d = run.domain
  BY Zenon
<1>2. z \in DnName /\ d \in DnName /\ HasSuffix(d, z) /\ z \in DnZone
  BY <1>1, NamesAreNames, Zenon DEF RunRecord, FindZone
<1>3. ~HasSuffix(ExtractSubdomain(ChallengeName(d), z), z)
  BY <1>1, <1>2, Zenon DEF Plain
<1>4. ChallengeName(d) \in DnName /\ HasSuffix(ChallengeName(d), z)
  BY <1>2, ChallengeSuffix, Zenon
<1>5. ExtractSubdomain(ChallengeName(d), z) \o z = ChallengeName(d)
  BY <1>2, <1>4, CutJoin, Zenon
<1>6. PICK w : w = Numbered(WantedBy(p, run), n)
  BY Zenon
<1>7. CASE p = "digitalocean"
  <2>1. w.name = ExtractSubdomain(ChallengeName(d), z) /\ w.zone = z /\ w.type = "TXT"
    BY <1>1, <1>6, <1>7, Zenon DEF WantedBy, DigitalOceanChallenge, Record, Numbered
  <2>2. RecordName(w.name, w.zone) = w.name \o w.zone
    BY <1>3, <2>1, Zenon DEF RecordName
  <2> QED
    BY <1>1, <1>5, <1>6, <2>1, <2>2, Zenon DEF Matches
<1>8. CASE p # "digitalocean"
  <2>1. w.name = ChallengeName(d) /\ w.zone = z /\ w.type = "TXT"
    BY <1>1, <1>6, <1>8, Zenon DEF WantedBy, CloudflareChallenge, Record, Numbered
  <2>2. ChallengeName(d) # <<>>
    BY <1>2, ChallengeLonger, Zenon
  <2>3. RecordName(w.name, w.zone) = ChallengeName(d)
    BY <1>4, <2>1, <2>2, Zenon DEF RecordName
  <2> QED
    BY <1>1, <1>6, <2>1, <2>3, Zenon DEF Matches
<1> QED
  BY <1>7, <1>8, Zenon

\* A step of another call: records go, or one comes with the next identifier.
LEMMA RunKept ==
    ASSUME NEW p, NEW run, NEW recs, NEW zones, NEW last \in Nat, NEW recs2, NEW last2 \in Nat,
           RunOK(p, run, recs, zones, last), last =< last2,
           \A r \in recs2 : r \in recs \/ r.id = last + 1
    PROVE  RunOK(p, run, recs2, zones, last2)
<1>0. run.id \in 0..last /\ run.left \subseteq 1..last
  BY Zenon DEF RunOK
<1>1. \A r \in recs2 : (r.id = run.id \/ r.id \in run.left) => r \in recs
  <2>1. last + 1 \notin 0..last /\ last + 1 \notin 1..last
    OBVIOUS
  <2> QED
    BY <1>0, <2>1, Zenon
<1>2. run.id \in 0..last2 /\ run.left \subseteq 1..last2
  <2>1. 0..last \subseteq 0..last2 /\ 1..last \subseteq 1..last2
    OBVIOUS
  <2> QED
    BY <1>0, <2>1, Zenon
<1>3. Mine(p, run, recs2, zones)
  BY <1>1, Zenon DEF RunOK, Mine
<1>4. Cleaned(run, recs2)
  BY <1>1, Zenon DEF RunOK, Cleaned
<1>5. Found(run, recs2)
  BY <1>1, Zenon DEF RunOK, Found
<1> QED
  BY <1>2, <1>3, <1>4, <1>5, Zenon DEF RunOK

\* A call fails: it keeps its zone and its record.
LEMMA RunFails ==
    ASSUME NEW p, NEW run, NEW recs, NEW zones, NEW last,
           RunOK(p, run, recs, zones, last)
    PROVE  RunOK(p, [run EXCEPT !.pc = "failed"], recs, zones, last)
<1>1. PICK new : new = [run EXCEPT !.pc = "failed"]
  BY Zenon
<1>2. run \in RunRecord
  BY Zenon DEF RunOK
<1>3. /\ new \in RunRecord /\ new.pc = "failed" /\ new.for = run.for /\ new.domain = run.domain
      /\ new.zone = run.zone /\ new.id = run.id /\ new.left = run.left /\ new.moved = run.moved
  BY <1>1, <1>2, Zenon DEF RunRecord, DnPc
<1>4. WantedBy(p, new) = WantedBy(p, run)
  BY <1>3, Zenon DEF WantedBy
<1>5. Mine(p, new, recs, zones)
  BY <1>3, <1>4, Zenon DEF RunOK, Mine
<1>6. Zoned(p, new, zones) /\ Cleaned(new, recs) /\ Found(new, recs)
  BY <1>3, Zenon DEF RunOK, Zoned, Cleaned, Found
<1> QED
  BY <1>1, <1>3, <1>5, <1>6, Zenon DEF RunOK

\* The zones are edited under a call.
LEMMA RunMoved ==
    ASSUME NEW p, NEW run, NEW recs, NEW zones, NEW last, NEW recs2 \in SUBSET recs, NEW zones2,
           RunOK(p, run, recs, zones, last)
    PROVE  RunOK(p, [run EXCEPT !.moved = TRUE], recs2, zones2, last)
<1>1. PICK new : new = [run EXCEPT !.moved = TRUE]
  BY Zenon
<1>2. run \in RunRecord
  BY Zenon DEF RunOK
<1>3. /\ new \in RunRecord /\ new.pc = run.pc /\ new.for = run.for /\ new.domain = run.domain
      /\ new.id = run.id /\ new.left = run.left /\ new.moved
  BY <1>1, <1>2, Zenon DEF RunRecord
<1>4. Zoned(p, new, zones2) /\ Mine(p, new, recs2, zones2) /\ Cleaned(new, recs2)
  BY <1>3, Zenon DEF Zoned, Mine, Cleaned
<1>5. Found(new, recs2)
  BY <1>3, Zenon DEF RunOK, Found
<1> QED
  BY <1>1, <1>3, <1>4, <1>5, Zenon DEF RunOK

\* What a step of call c needs to show: its own call is in order afterwards.
LEMMA OneCallMoves ==
    ASSUME DnInv, NEW c \in DnCall, NEW new,
           dnRun' = [dnRun EXCEPT ![c] = new],
           RunOK(dnProvider, new, dnRecs', dnZones, dnLast'),
           UNCHANGED <<dnProvider, dnZones>>,
           RecsOK(dnProvider, dnRecs', dnLast'), dnLast =< dnLast',
           \A r \in dnRecs' : r \in dnRecs \/ r.id = dnLast + 1
    PROVE  DnInv'
<1>1. dnLast \in Nat /\ dnLast' \in Nat
  BY Zenon DEF DnInv, RecsOK
<1>2. dnRun \in [DnCall -> RunRecord] /\ new \in RunRecord
  BY Zenon DEF DnInv, RunOK
<1>3. dnRun' \in [DnCall -> RunRecord]
  BY <1>2, Zenon
<1>4. ASSUME NEW x \in DnCall PROVE RunOK(dnProvider, dnRun'[x], dnRecs', dnZones, dnLast')
  <2>1. CASE x = c
    <3>1. dnRun'[x] = new
      BY <1>2, <2>1, Zenon
    <3> QED
      BY <3>1, Zenon
  <2>2. CASE x # c
    <3>1. dnRun'[x] = dnRun[x]
      BY <1>2, <2>2, Zenon
    <3>2. RunOK(dnProvider, dnRun[x], dnRecs, dnZones, dnLast)
      BY Zenon DEF DnInv
    <3>3. RunOK(dnProvider, dnRun[x], dnRecs', dnZones, dnLast')
      BY <1>1, <3>2, RunKept, Zenon
    <3> QED
      BY <3>1, <3>3, Zenon
  <2> QED
    BY <2>1, <2>2, Zenon
<1>5. dnProvider' = dnProvider /\ dnZones' = dnZones
  BY Zenon
<1> QED
  BY <1>3, <1>4, <1>5, Zenon DEF DnInv

\* Fewer records are as well in order.
LEMMA FewerRecords ==
    ASSUME NEW p, NEW recs, NEW last, RecsOK(p, recs, last), NEW recs2 \in SUBSET recs
    PROVE  RecsOK(p, recs2, last)
BY Zenon DEF RecsOK

\* One record more.
LEMMA MoreRecords ==
    ASSUME NEW p, NEW recs, NEW last, RecsOK(p, recs, last), NEW w, w.id = last + 1,
           p # "memory" => w.zone \in DnName /\ w.name \in DnName
    PROVE  RecsOK(p, recs \cup {w}, last + 1)
<1>1. last \in Nat
  BY Zenon DEF RecsOK
<1>2. \A r \in recs : r.id \in 1..last
  BY Zenon DEF RecsOK
<1>3. \A r \in recs \cup {w} : r.id \in 1..(last + 1)
  BY <1>1, <1>2
<1>4. \A r \in recs : r.id # w.id
  BY <1>1, <1>2
<1>5. \A r, s \in recs \cup {w} : r.id = s.id => r = s
  BY <1>4, Zenon DEF RecsOK
<1>6. p # "memory" => \A r \in recs \cup {w} : r.zone \in DnName /\ r.name \in DnName
  BY Zenon DEF RecsOK
<1> QED
  BY <1>1, <1>3, <1>5, <1>6 DEF RecsOK

\* Calls of one kind: the records stay.
LEMMA OnlyRunMoves ==
    ASSUME DnInv, NEW c \in DnCall, NEW new, dnRun' = [dnRun EXCEPT ![c] = new],
           RunOK(dnProvider, new, dnRecs, dnZones, dnLast),
           UNCHANGED <<dnProvider, dnZones, dnRecs, dnLast>>
    PROVE  DnInv'
<1>1. /\ dnRecs' = dnRecs /\ dnLast' = dnLast
      /\ UNCHANGED <<dnProvider, dnZones>>
  BY Zenon
<1>2. dnLast =< dnLast'
  BY <1>1 DEF DnInv, RecsOK
<1>3. RecsOK(dnProvider, dnRecs', dnLast')
  BY <1>1, Zenon DEF DnInv
<1>4. RunOK(dnProvider, new, dnRecs', dnZones, dnLast')
  BY <1>1, Zenon
<1>5. \A r \in dnRecs' : r \in dnRecs \/ r.id = dnLast + 1
  BY <1>1, Zenon
<1> QED
  BY <1>1, <1>2, <1>3, <1>4, <1>5, OneCallMoves, Zenon

\* Step(c, "failed"), whatever records another part of the action left.
LEMMA StepFails ==
    ASSUME DnInv, NEW c \in DnCall, Step(c, "failed"), UNCHANGED <<dnProvider, dnZones>>,
           RecsOK(dnProvider, dnRecs', dnLast'), dnLast =< dnLast',
           \A r \in dnRecs' : r \in dnRecs \/ r.id = dnLast + 1
    PROVE  DnInv'
<1>1. PICK new : new = [dnRun[c] EXCEPT !.pc = "failed"]
  BY Zenon
<1>2. dnRun' = [dnRun EXCEPT ![c] = new]
  BY <1>1, Zenon DEF Step, DnInv
<1>3. dnLast \in Nat /\ dnLast' \in Nat
  BY Zenon DEF DnInv, RecsOK
<1>4. RunOK(dnProvider, dnRun[c], dnRecs', dnZones, dnLast')
  <2>1. RunOK(dnProvider, dnRun[c], dnRecs, dnZones, dnLast)
    BY Zenon DEF DnInv
  <2> QED
    BY <1>3, <2>1, RunKept, Zenon
<1>5. RunOK(dnProvider, new, dnRecs', dnZones, dnLast')
  BY <1>1, <1>4, RunFails, Zenon
<1> QED
  BY <1>2, <1>5, OneCallMoves, Zenon

\* A request that failed without effect.
LEMMA StepFailsAlone ==
    ASSUME DnInv, NEW c \in DnCall, Step(c, "failed"), UNCHANGED <<dnProvider, dnZones, dnRecs, dnLast>>
    PROVE  DnInv'
<1>1. dnRecs' = dnRecs /\ dnLast' = dnLast /\ UNCHANGED <<dnProvider, dnZones>>
  BY Zenon
<1>2. dnLast =< dnLast'
  BY <1>1 DEF DnInv, RecsOK
<1>3. RecsOK(dnProvider, dnRecs', dnLast')
  BY <1>1, Zenon DEF DnInv
<1>4. \A r \in dnRecs' : r \in dnRecs \/ r.id = dnLast + 1
  BY <1>1, Zenon
<1> QED
  BY <1>1, <1>2, <1>3, <1>4, StepFails, Zenon

\* A custom domain is a name.
LEMMA NamesOfDomains ==
    ASSUME NEW d \in DnDomain PROVE d \in DnName
BY NamesAreNames, Zenon

\* HandleChallenge and Ensure begin with nothing.
LEMMA BeginKeeps ==
    ASSUME DnInv, NEW c \in DnCall, NEW d \in DnDomain, NEW for \in {"challenge", "ensure"},
           Begin(c, d, for), for = "ensure" => dnProvider # "memory"
    PROVE  DnInv'
<1>1. PICK new : new = [Off EXCEPT !.pc = "find", !.for = for, !.domain = d]
  BY Zenon
<1>2. /\ dnRun' = [dnRun EXCEPT ![c] = new]
      /\ UNCHANGED <<dnProvider, dnZones, dnRecs, dnLast>>
  BY <1>1, Zenon DEF Begin
<1>3. /\ new = [pc |-> "find", for |-> for, domain |-> d, zone |-> <<>>, id |-> 0, left |-> {}, moved |-> FALSE]
  BY <1>1, Zenon DEF Off
<1>4. <<>> \in DnName
  BY DEF DnName
<1>5. new \in RunRecord
  BY <1>3, <1>4, NamesOfDomains, Zenon DEF RunRecord, DnPc
<1>6. new.pc = "find" /\ new.for = for /\ new.id = 0 /\ new.left = {}
  BY <1>3, Zenon
<1>7. \A r \in dnRecs : r.id # 0
  BY DEF DnInv, RecsOK
<1>8. Mine(dnProvider, new, dnRecs, dnZones) /\ Cleaned(new, dnRecs)
  BY <1>6, <1>7, Zenon DEF Mine, Cleaned
<1>9. Zoned(dnProvider, new, dnZones) /\ Found(new, dnRecs)
  BY <1>6, Zenon DEF Zoned, Found
<1>10. new.id \in 0..dnLast /\ new.left \subseteq 1..dnLast
  BY <1>6 DEF DnInv, RecsOK
<1>11. RunOK(dnProvider, new, dnRecs, dnZones, dnLast)
  BY <1>5, <1>6, <1>8, <1>9, <1>10, Zenon DEF RunOK
<1> QED
  BY <1>2, <1>11, OnlyRunMoves, Zenon

\* The fields of a call that goes on to pc, with zone z.
GoesOn(run, new, pc, z) ==
    /\ new \in RunRecord /\ new.pc = pc /\ new.zone = z
    /\ new.for = run.for /\ new.domain = run.domain /\ new.id = run.id
    /\ new.left = run.left /\ new.moved = run.moved

\* What EXCEPT on the state of a call says, field by field.
LEMMA Goes ==
    ASSUME NEW run \in RunRecord, NEW pc \in DnPc, NEW z \in DnName
    PROVE  /\ GoesOn(run, [run EXCEPT !.pc = pc, !.zone = z], pc, z)
           /\ GoesOn(run, [run EXCEPT !.pc = pc], pc, run.zone)
BY Zenon DEF RunRecord, GoesOn

\* The two lookups.
LookUp(from, to) == (from = "find" /\ to = "create") \/ (from = "findAgain" /\ to = "list")

\* A lookup that finds the zone.  The second one finds the zone of the first, unless the
\* zones were edited.
LEMMA LookUpFinds ==
    ASSUME DnInv, NEW c \in DnCall, dnProvider # "memory",
           NEW from, NEW to, LookUp(from, to),
           dnRun[c].pc = from, NEW z \in FindZone(dnRun[c].domain, dnZones),
           dnRun' = [dnRun EXCEPT ![c].pc = to, ![c].zone = z],
           UNCHANGED <<dnProvider, dnZones, dnRecs, dnLast>>
    PROVE  DnInv'
<1>1. PICK run : run = dnRun[c]
  BY Zenon
<1>2. PICK new : new = [run EXCEPT !.pc = to, !.zone = z]
  BY Zenon
<1>3. dnRun' = [dnRun EXCEPT ![c] = new]
  BY <1>1, <1>2, Zenon DEF DnInv
<1>4. run \in RunRecord /\ RunOK(dnProvider, run, dnRecs, dnZones, dnLast)
  BY <1>1, Zenon DEF DnInv
<1>5. to \in DnPc /\ to \in {"create", "list"} /\ from \in {"find", "findAgain"}
      /\ (from = "find" <=> to = "create")
  BY Zenon DEF DnPc, LookUp
<1>6. z \in DnName /\ dnZones \in SUBSET DnName
  BY NamesAreNames, Zenon DEF DnInv, FindZone
<1>7. GoesOn(run, new, to, z)
  BY <1>2, <1>4, <1>5, <1>6, Goes, Zenon
<1>8. z \in FindZone(run.domain, dnZones) /\ run.pc = from
  BY <1>1, Zenon
<1>9. Zoned(dnProvider, new, dnZones)
  BY <1>7, <1>8, Zenon DEF Zoned, GoesOn
<1>10. Mine(dnProvider, new, dnRecs, dnZones)
  <2> SUFFICES ASSUME NEW r \in dnRecs, r.id = new.id, ~new.moved
               PROVE  /\ new.zone \in FindZone(new.domain, dnZones)
                      /\ r = Numbered(WantedBy(dnProvider, new), new.id)
    BY Zenon DEF Mine
  <2>1. r.id = run.id /\ ~run.moved
    BY <1>7, Zenon DEF GoesOn
  <2>2. run.zone \in FindZone(run.domain, dnZones) /\ r = Numbered(WantedBy(dnProvider, run), run.id)
    BY <1>4, <2>1, Zenon DEF RunOK, Mine
  <2>3. run.domain \in DnName
    BY <1>4, Zenon DEF RunRecord
  <2>4. run.zone = z
    BY <1>6, <1>8, <2>2, <2>3, OneZone, Zenon
  <2>5. WantedBy(dnProvider, new) = WantedBy(dnProvider, run)
    BY <1>7, <2>4, Zenon DEF WantedBy, GoesOn
  <2> QED
    BY <1>7, <1>8, <2>2, <2>5, Zenon DEF GoesOn
<1>11. Cleaned(new, dnRecs) /\ Found(new, dnRecs)
  BY <1>5, <1>7, Zenon DEF Cleaned, Found, GoesOn
<1>12. RunOK(dnProvider, new, dnRecs, dnZones, dnLast)
  BY <1>4, <1>5, <1>7, <1>9, <1>10, <1>11, Zenon DEF RunOK, GoesOn
<1> QED
  BY <1>3, <1>12, OnlyRunMoves, Zenon

\* GetZones and FindZone, found or not.
LEMMA LookUpKeeps ==
    ASSUME DnInv, NEW c \in DnCall, NEW from, NEW to, LookUp(from, to), LookUpZone(c, from, to)
    PROVE  DnInv'
<1>1. /\ dnProvider # "memory" /\ dnRun[c].pc = from
      /\ UNCHANGED <<dnProvider, dnZones, dnRecs, dnLast>>
      /\ \/ \E z \in FindZone(dnRun[c].domain, dnZones) : dnRun' = [dnRun EXCEPT ![c].pc = to, ![c].zone = z]
         \/ Step(c, "failed")
  BY Zenon DEF LookUpZone
<1>2. CASE Step(c, "failed")
  BY <1>1, <1>2, StepFailsAlone, Zenon
<1>3. CASE \E z \in FindZone(dnRun[c].domain, dnZones) : dnRun' = [dnRun EXCEPT ![c].pc = to, ![c].zone = z]
  <2>1. PICK z \in FindZone(dnRun[c].domain, dnZones) : dnRun' = [dnRun EXCEPT ![c].pc = to, ![c].zone = z]
    BY <1>3, Zenon
  <2> QED
    BY <1>1, <2>1, LookUpFinds, Zenon
<1> QED
  BY <1>1, <1>2, <1>3, Zenon

\* The record that a call creates, in the zone it has looked up.
LEMMA WantedNamed ==
    ASSUME NEW p, NEW run \in RunRecord
    PROVE  WantedBy(p, run).zone = run.zone /\ WantedBy(p, run).name \in DnName
<1>1. PICK z, d : z = run.zone /\ d = run.domain /\ z \in DnName /\ d \in DnName
  BY Zenon DEF RunRecord
<1>2. ChallengeName(d) \in DnName
  <2>1. Acme \in Label
    BY Zenon DEF Label
  <2>2. <<Acme>> \in Seq(Label)
    BY <2>1
  <2> QED
    BY <1>1, <2>2, ConcatProperties, Zenon DEF ChallengeName, DnName
<1>3. ASSUME NEW x \in DnName PROVE ExtractSubdomain(x, z) \in DnName
  <2>1. CASE HasSuffix(x, z)
    BY <1>1, <2>1, CutJoin, Zenon
  <2>2. CASE ~HasSuffix(x, z)
    BY <2>2, Zenon DEF ExtractSubdomain
  <2> QED
    BY <2>1, <2>2, Zenon
<1>4. \A name, t : Record(z, name, t).zone = z /\ Record(z, name, t).name = name
  BY Zenon DEF Record
<1>5. PICK name, t : name \in DnName /\ WantedBy(p, run) = Record(z, name, t)
  <2>1. ExtractSubdomain(d, z) \in DnName /\ ExtractSubdomain(ChallengeName(d), z) \in DnName
    BY <1>1, <1>2, <1>3, Zenon
  <2> QED
    BY <1>1, <1>2, <2>1, Zenon
    DEF WantedBy, EnsuredRecord, DigitalOceanChallenge, CloudflareChallenge
<1> QED
  BY <1>1, <1>4, <1>5

\* What a call made is new: no other record has the number.
LEMMA Makes ==
    ASSUME NEW p, NEW run \in RunRecord, NEW recs, NEW zones, NEW last \in Nat,
           RunOK(p, run, recs, zones, last), \A r \in recs : r.id \in 1..last,
           run.pc \in {"find", "create"}, NEW w, w.id = last + 1,
           IF p = "memory" THEN run.for # "ensure" /\ w.name = ChallengeName(run.domain)
           ELSE run.pc = "create" /\ w = Numbered(WantedBy(p, run), last + 1)
    PROVE  RunOK(p, [run EXCEPT !.pc = "made", !.id = last + 1], recs \cup {w}, zones, last + 1)
<1>1. PICK new : new = [run EXCEPT !.pc = "made", !.id = last + 1]
  BY Zenon
<1>2. /\ new \in RunRecord /\ new.pc = "made" /\ new.id = last + 1
      /\ new.for = run.for /\ new.domain = run.domain /\ new.zone = run.zone
      /\ new.left = run.left /\ new.moved = run.moved
  <2>1. last + 1 \in Nat /\ "made" \in DnPc
    BY DEF DnPc
  <2> QED
    BY <1>1, <2>1, Zenon DEF RunRecord
<1>3. \A r \in recs \cup {w} : r.id = new.id => r = w
  BY <1>2
<1>4. WantedBy(p, new) = WantedBy(p, run)
  BY <1>2, Zenon DEF WantedBy
<1>5. Zoned(p, new, zones)
  <2> SUFFICES ASSUME p # "memory", ~new.moved PROVE new.zone \in FindZone(new.domain, zones)
    BY Zenon DEF Zoned
  <2>1. run.pc = "create" /\ ~run.moved
    BY <1>2, Zenon
  <2>2. run.zone \in FindZone(run.domain, zones)
    BY <2>1, Zenon DEF RunOK, Zoned
  <2> QED
    BY <1>2, <2>2, Zenon
<1>6. Mine(p, new, recs \cup {w}, zones)
  <2> SUFFICES ASSUME NEW r \in recs \cup {w}, r.id = new.id, ~new.moved
               PROVE  IF p = "memory" THEN new.for # "ensure" /\ r.name = ChallengeName(new.domain)
                      ELSE new.zone \in FindZone(new.domain, zones) /\ r = Numbered(WantedBy(p, new), new.id)
    BY Zenon DEF Mine
  <2>1. r = w
    BY <1>3, Zenon
  <2>2. CASE p = "memory"
    BY <1>2, <2>1, <2>2, Zenon
  <2>3. CASE p # "memory"
    <3>1. new.zone \in FindZone(new.domain, zones)
      BY <1>2, <1>5, <2>3, Zenon DEF Zoned
    <3>2. w = Numbered(WantedBy(p, new), new.id)
      BY <1>2, <1>4, <2>3, Zenon
    <3> QED
      BY <2>1, <2>3, <3>1, <3>2, Zenon
  <2> QED
    BY <2>2, <2>3, Zenon
<1>7. Cleaned(new, recs \cup {w}) /\ Found(new, recs \cup {w})
  BY <1>2, Zenon DEF Cleaned, Found
<1>8. new.id \in 0..(last + 1) /\ new.left \subseteq 1..(last + 1)
  <2>1. run.left \subseteq 1..last
    BY Zenon DEF RunOK
  <2>2. 1..last \subseteq 1..(last + 1) /\ last + 1 \in 0..(last + 1)
    OBVIOUS
  <2> QED
    BY <1>2, <2>1, <2>2, Zenon
<1>9. p = "memory" => new.for # "ensure"
  BY <1>2, Zenon
<1> QED
  BY <1>1, <1>2, <1>5, <1>6, <1>7, <1>8, <1>9, Zenon DEF RunOK

\* A record more in the service, that no call has or that call c has.
LEMMA CreateKeeps ==
    ASSUME DnInv, NEW c \in DnCall, CreateRecord(c)
    PROVE  DnInv'
<1>1. PICK run : run = dnRun[c] /\ run \in RunRecord /\ run.pc = "create"
  BY Zenon DEF DnInv, CreateRecord
<1>2. RunOK(dnProvider, run, dnRecs, dnZones, dnLast) /\ dnProvider # "memory"
  BY <1>1, Zenon DEF DnInv, RunOK
<1>3. /\ dnLast \in Nat /\ RecsOK(dnProvider, dnRecs, dnLast)
      /\ \A r \in dnRecs : r.id \in 1..dnLast
  BY Zenon DEF DnInv, RecsOK
<1>4. PICK w : w = Numbered(WantedBy(dnProvider, run), dnLast + 1)
  BY Zenon
<1>5. w = Numbered(Wanted(dnRun[c]), dnLast + 1)
  BY <1>1, <1>4, Zenon DEF Wanted, WantedBy
<1>6. w.id = dnLast + 1 /\ w.zone \in DnName /\ w.name \in DnName
  <2>1. WantedBy(dnProvider, run).zone \in DnName /\ WantedBy(dnProvider, run).name \in DnName
    BY <1>1, WantedNamed DEF RunRecord
  <2> QED
    BY <1>4, <2>1, Zenon DEF Numbered
<1>7. RecsOK(dnProvider, dnRecs \cup {w}, dnLast + 1)
  BY <1>3, <1>6, MoreRecords, Zenon
<1>8. \A r \in dnRecs \cup {w} : r \in dnRecs \/ r.id = dnLast + 1
  BY <1>6, Zenon
<1>9. /\ UNCHANGED <<dnProvider, dnZones>>
      /\ \/ /\ dnRecs' = dnRecs \cup {w} /\ dnLast' = dnLast + 1
            /\ dnRun' = [dnRun EXCEPT ![c].pc = "made", ![c].id = dnLast + 1]
         \/ /\ Step(c, "failed")
            /\ dnRecs' = dnRecs \cup {w} /\ dnLast' = dnLast + 1
         \/ /\ Step(c, "failed")
            /\ dnRecs' = dnRecs /\ dnLast' = dnLast
  BY <1>5, Zenon DEF CreateRecord
<1>10. dnLast =< dnLast + 1
  BY <1>3
<1>11. CASE /\ dnRecs' = dnRecs \cup {w} /\ dnLast' = dnLast + 1
            /\ dnRun' = [dnRun EXCEPT ![c].pc = "made", ![c].id = dnLast + 1]
  <2>1. PICK new : new = [run EXCEPT !.pc = "made", !.id = dnLast + 1]
    BY Zenon
  <2>2. dnRun' = [dnRun EXCEPT ![c] = new]
    BY <1>1, <1>11, <2>1, Zenon DEF DnInv
  <2>3. RunOK(dnProvider, new, dnRecs \cup {w}, dnZones, dnLast + 1)
    BY <1>1, <1>2, <1>3, <1>4, <1>6, <2>1, Makes, Zenon
  <2> QED
    BY <1>7, <1>8, <1>9, <1>10, <1>11, <2>2, <2>3, OneCallMoves, Zenon
<1>12. CASE Step(c, "failed") /\ dnRecs' = dnRecs \cup {w} /\ dnLast' = dnLast + 1
  BY <1>7, <1>8, <1>9, <1>10, <1>12, StepFails, Zenon
<1>13. CASE Step(c, "failed") /\ dnRecs' = dnRecs /\ dnLast' = dnLast
  BY <1>9, <1>13, StepFailsAlone, Zenon
<1> QED
  BY <1>9, <1>11, <1>12, <1>13, Zenon

\* CleanupChallenge: what was ensured stays, a challenge is looked for again.
LEMMA CleanUpKeeps ==
    ASSUME DnInv, NEW c \in DnCall, CleanUp(c)
    PROVE  DnInv'
<1>1. PICK run : run = dnRun[c] /\ run \in RunRecord /\ run.pc = "made"
  BY Zenon DEF DnInv, CleanUp
<1>2. PICK pc : pc = IF run.for = "challenge" THEN "findAgain" ELSE "done"
  BY Zenon
<1>3. PICK new : new = [run EXCEPT !.pc = pc]
  BY Zenon
<1>4. pc \in DnPc /\ pc \in {"findAgain", "done"} /\ (pc = "done" => run.for # "challenge")
  BY <1>2, Zenon DEF DnPc
<1>5. GoesOn(run, new, pc, run.zone)
  <2>1. run.zone \in DnName
    BY <1>1, Zenon DEF RunRecord
  <2> QED
    BY <1>1, <1>3, <1>4, <2>1, Goes, Zenon
<1>6. /\ dnRun' = [dnRun EXCEPT ![c] = new]
      /\ UNCHANGED <<dnProvider, dnZones, dnRecs, dnLast>>
  BY <1>1, <1>2, <1>3, Zenon DEF CleanUp, Step, DnInv
<1>7. RunOK(dnProvider, run, dnRecs, dnZones, dnLast)
  BY <1>1, Zenon DEF DnInv
<1>8. WantedBy(dnProvider, new) = WantedBy(dnProvider, run)
  BY <1>5, Zenon DEF WantedBy, GoesOn
<1>9. Mine(dnProvider, new, dnRecs, dnZones)
  BY <1>5, <1>7, <1>8, Zenon DEF RunOK, Mine, GoesOn
<1>10. Zoned(dnProvider, new, dnZones)
  BY <1>1, <1>5, <1>7, Zenon DEF RunOK, Zoned, GoesOn
<1>11. Cleaned(new, dnRecs) /\ Found(new, dnRecs)
  BY <1>4, <1>5, Zenon DEF Cleaned, Found, GoesOn
<1>12. RunOK(dnProvider, new, dnRecs, dnZones, dnLast)
  BY <1>4, <1>5, <1>7, <1>9, <1>10, <1>11, Zenon DEF RunOK, GoesOn
<1> QED
  BY <1>6, <1>12, OnlyRunMoves, Zenon

\* What GetRecords returns, with either provider.
LEMMA GetRecordsIs ==
    ASSUME NEW run
    PROVE  dnProvider # "memory" /\ dnProvider \in {"cloudflare", "digitalocean", "memory"} =>
             GetRecords(run) = {r.id : r \in {q \in dnRecs : q.zone = run.zone /\ Matches(q, run.domain)}}
<1> SUFFICES ASSUME dnProvider \in {"cloudflare", "digitalocean"}
             PROVE  GetRecords(run) = {r.id : r \in {q \in dnRecs : q.zone = run.zone /\ Matches(q, run.domain)}}
  BY Zenon
<1>1. DigitalOceanRecords(run) = {r.id : r \in {q \in dnRecs : q.zone = run.zone /\ Matches(q, run.domain)}}
  <2>1. {r \in TextRecords(run) : RecordName(r.name, r.zone) = ChallengeName(run.domain)}
          = {q \in dnRecs : q.zone = run.zone /\ Matches(q, run.domain)}
    BY Zenon DEF TextRecords, Matches
  <2> QED
    BY <2>1, Zenon DEF DigitalOceanRecords, Ids
<1>2. dnProvider = "cloudflare" => CloudflareRecords(run) = DigitalOceanRecords(run)
  <2> SUFFICES ASSUME dnProvider = "cloudflare" PROVE CloudflareRecords(run) = DigitalOceanRecords(run)
    BY Zenon
  <2>1. \A r : Resolved(r) = RecordName(r.name, r.zone)
    BY Zenon DEF Resolved
  <2> QED
    BY <2>1, Zenon DEF CloudflareRecords, DigitalOceanRecords
<1> QED
  BY <1>1, <1>2, Zenon DEF GetRecords

\* GetRecords finds the call's own record, and none that does not match.
LEMMA ListFinds ==
    ASSUME DnInv, NEW c \in DnCall, dnRun[c].pc = "list",
           dnRun' = [dnRun EXCEPT ![c].pc = IF GetRecords(dnRun[c]) = {} THEN "done" ELSE "delete",
                                  ![c].left = GetRecords(dnRun[c])],
           UNCHANGED <<dnProvider, dnZones, dnRecs, dnLast>>
    PROVE  DnInv'
<1>1. PICK run : run = dnRun[c] /\ run \in RunRecord /\ run.pc = "list"
  BY Zenon DEF DnInv
<1>2. RunOK(dnProvider, run, dnRecs, dnZones, dnLast) /\ RecsOK(dnProvider, dnRecs, dnLast)
  BY <1>1, Zenon DEF DnInv
<1>3. dnProvider \in {"cloudflare", "digitalocean"} /\ dnZones \in SUBSET DnZone
  BY <1>1, <1>2, Zenon DEF DnInv, RunOK
<1>4. PICK ids : ids = GetRecords(run)
  BY Zenon
<1>5. ids = {r.id : r \in {q \in dnRecs : q.zone = run.zone /\ Matches(q, run.domain)}}
  BY <1>3, <1>4, GetRecordsIs, Zenon
<1>6. PICK pc : pc = IF ids = {} THEN "done" ELSE "delete"
  BY Zenon
<1>7. PICK new : new = [run EXCEPT !.pc = pc, !.left = ids]
  BY Zenon
<1>8. dnRun' = [dnRun EXCEPT ![c] = new]
  BY <1>1, <1>4, <1>6, <1>7, Zenon DEF DnInv
<1>9. ids \subseteq 1..dnLast /\ ids \subseteq Nat
  <2>1. \A r \in dnRecs : r.id \in 1..dnLast
    BY <1>2, Zenon DEF RecsOK
  <2>2. ids \subseteq 1..dnLast
    BY <1>5, <2>1, Zenon
  <2>3. 1..dnLast \subseteq Nat
    BY <1>2 DEF RecsOK
  <2> QED
    BY <2>2, <2>3, Zenon
<1>10. pc \in DnPc /\ pc \in {"done", "delete"} /\ (pc = "done" => ids = {})
  BY <1>6, Zenon DEF DnPc
<1>11. /\ new \in RunRecord /\ new.pc = pc /\ new.left = ids /\ new.for = run.for
       /\ new.domain = run.domain /\ new.zone = run.zone /\ new.id = run.id /\ new.moved = run.moved
  BY <1>1, <1>7, <1>9, <1>10, Zenon DEF RunRecord
<1>12. WantedBy(dnProvider, new) = WantedBy(dnProvider, run)
  BY <1>11, Zenon DEF WantedBy
<1>13. Mine(dnProvider, new, dnRecs, dnZones)
  BY <1>2, <1>11, <1>12, Zenon DEF RunOK, Mine
<1>14. Zoned(dnProvider, new, dnZones)
  BY <1>1, <1>2, <1>11, Zenon DEF RunOK, Zoned
<1>15. Cleaned(new, dnRecs)
  <2> SUFFICES ASSUME NEW r \in dnRecs, r.id = new.id, new.for = "challenge", ~new.moved, Plain(new.domain)
               PROVE  r.id \in ids
    BY <1>10, <1>11, Zenon DEF Cleaned
  <2>1. r.id = run.id /\ run.for = "challenge" /\ ~run.moved /\ Plain(run.domain)
    BY <1>11, Zenon
  <2>2. dnProvider # "memory"
    BY <1>3, Zenon
  <2>3. run.zone \in FindZone(run.domain, dnZones) /\ r = Numbered(WantedBy(dnProvider, run), run.id)
    BY <1>2, <2>1, <2>2, Zenon DEF RunOK, Mine
  <2>4. r.zone = run.zone /\ Matches(r, run.domain)
    BY <1>1, <1>3, <2>1, <2>3, WantedMatches, Zenon
  <2> QED
    BY <1>5, <2>4, Zenon
<1>16. Found(new, dnRecs)
  <2> SUFFICES ASSUME NEW r \in dnRecs, r.id \in ids PROVE Matches(r, run.domain)
    BY <1>11, Zenon DEF Found
  <2>1. PICK q \in dnRecs : Matches(q, run.domain) /\ q.id = r.id
    BY <1>5, Zenon
  <2>2. q = r
    BY <1>2, <2>1, Zenon DEF RecsOK
  <2> QED
    BY <2>1, <2>2, Zenon
<1>17. RunOK(dnProvider, new, dnRecs, dnZones, dnLast)
  BY <1>2, <1>3, <1>9, <1>10, <1>11, <1>13, <1>14, <1>15, <1>16, Zenon DEF RunOK
<1> QED
  BY <1>8, <1>17, OnlyRunMoves, Zenon

\* GetRecords, of DeleteChallengeRecord.
LEMMA ListKeeps ==
    ASSUME DnInv, NEW c \in DnCall, ListRecords(c)
    PROVE  DnInv'
<1>1. /\ dnRun[c].pc = "list" /\ UNCHANGED <<dnProvider, dnZones, dnRecs, dnLast>>
      /\ \/ dnRun' = [dnRun EXCEPT ![c].pc = IF GetRecords(dnRun[c]) = {} THEN "done" ELSE "delete",
                                   ![c].left = GetRecords(dnRun[c])]
         \/ Step(c, "failed")
  BY Zenon DEF ListRecords
<1> QED
  BY <1>1, ListFinds, StepFailsAlone, Zenon

\* DeleteRecord of one of the records listed.
LEMMA DeleteDone ==
    ASSUME DnInv, NEW c \in DnCall, NEW num, dnRun[c].pc = "delete", num \in dnRun[c].left,
           dnRecs' = {r \in dnRecs : r.id # num},
           dnRun' = [dnRun EXCEPT ![c].left = @ \ {num},
                                  ![c].pc = IF dnRun[c].left = {num} THEN "done" ELSE "delete"],
           UNCHANGED <<dnProvider, dnZones, dnLast>>
    PROVE  DnInv'
<1>1. PICK run : run = dnRun[c] /\ run \in RunRecord /\ run.pc = "delete"
  BY Zenon DEF DnInv
<1>2. RunOK(dnProvider, run, dnRecs, dnZones, dnLast) /\ RecsOK(dnProvider, dnRecs, dnLast)
  BY <1>1, Zenon DEF DnInv
<1>3. PICK pc : pc = IF run.left = {num} THEN "done" ELSE "delete"
  BY Zenon
<1>4. PICK new : new = [run EXCEPT !.left = @ \ {num}, !.pc = pc]
  BY Zenon
<1>5. dnRun' = [dnRun EXCEPT ![c] = new]
  BY <1>1, <1>3, <1>4, Zenon DEF DnInv
<1>6. pc \in DnPc /\ pc \in {"done", "delete"} /\ (pc = "done" => run.left = {num})
  BY <1>3, Zenon DEF DnPc
<1>7. /\ new \in RunRecord /\ new.pc = pc /\ new.left = run.left \ {num} /\ new.for = run.for
      /\ new.domain = run.domain /\ new.zone = run.zone /\ new.id = run.id /\ new.moved = run.moved
  BY <1>1, <1>4, <1>6, Zenon DEF RunRecord
<1>8. WantedBy(dnProvider, new) = WantedBy(dnProvider, run)
  BY <1>7, Zenon DEF WantedBy
<1>9. dnRecs' \in SUBSET dnRecs /\ (\A r \in dnRecs' : r.id # num) /\ dnLast' = dnLast
  BY Zenon
<1>10. Mine(dnProvider, new, dnRecs', dnZones)
  BY <1>2, <1>7, <1>8, <1>9, Zenon DEF RunOK, Mine
<1>11. Zoned(dnProvider, new, dnZones)
  BY <1>1, <1>2, <1>7, Zenon DEF RunOK, Zoned
<1>12. Cleaned(new, dnRecs')
  <2> SUFFICES ASSUME NEW r \in dnRecs', r.id = new.id, new.for = "challenge", ~new.moved, Plain(new.domain)
               PROVE  new.pc # "done" /\ r.id \in new.left
    BY Zenon DEF Cleaned
  <2>1. r \in dnRecs /\ r.id # num
    BY <1>9, Zenon
  <2>2. r.id = run.id /\ run.for = "challenge" /\ ~run.moved /\ Plain(run.domain)
    BY <1>7, Zenon
  <2>3. r.id \in run.left
    BY <1>1, <1>2, <2>1, <2>2, Zenon DEF RunOK, Cleaned
  <2> QED
    BY <1>6, <1>7, <2>1, <2>3, Zenon
<1>13. Found(new, dnRecs')
  BY <1>1, <1>2, <1>7, <1>9, Zenon DEF RunOK, Found
<1>14. RunOK(dnProvider, new, dnRecs', dnZones, dnLast')
  <2>1. new.left \subseteq 1..dnLast /\ new.id \in 0..dnLast
    BY <1>2, <1>7, Zenon DEF RunOK
  <2>2. dnProvider # "memory"
    BY <1>1, <1>2, Zenon DEF RunOK
  <2>3. ~(new.pc \in {"idle", "find"})
    BY <1>6, <1>7, Zenon
  <2> QED
    BY <1>7, <1>9, <1>10, <1>11, <1>12, <1>13, <2>1, <2>2, <2>3, Zenon DEF RunOK
<1>15. RecsOK(dnProvider, dnRecs', dnLast')
  BY <1>2, <1>9, FewerRecords, Zenon
<1>16. dnLast =< dnLast'
  BY <1>2, <1>9 DEF RecsOK
<1>17. \A r \in dnRecs' : r \in dnRecs \/ r.id = dnLast + 1
  BY <1>9, Zenon
<1>18. UNCHANGED <<dnProvider, dnZones>>
  BY Zenon
<1> QED
  BY <1>5, <1>14, <1>15, <1>16, <1>17, <1>18, OneCallMoves, Zenon

\* DeleteRecord, also when its answer is lost or another call was faster.
LEMMA DeleteKeeps ==
    ASSUME DnInv, NEW c \in DnCall, NEW num, DeleteRecord(c, num)
    PROVE  DnInv'
<1>1. PICK rest : rest = {r \in dnRecs : r.id # num}
  BY Zenon
<1>2. /\ dnRun[c].pc = "delete" /\ num \in dnRun[c].left
      /\ UNCHANGED <<dnProvider, dnZones, dnLast>>
      /\ \/ /\ dnRecs' = rest
            /\ dnRun' = [dnRun EXCEPT ![c].left = @ \ {num},
                                      ![c].pc = IF dnRun[c].left = {num} THEN "done" ELSE "delete"]
         \/ Step(c, "failed") /\ dnRecs' = rest
         \/ Step(c, "failed") /\ dnRecs' = dnRecs
  BY <1>1, Zenon DEF DeleteRecord
<1>3. CASE /\ dnRecs' = rest
           /\ dnRun' = [dnRun EXCEPT ![c].left = @ \ {num},
                                     ![c].pc = IF dnRun[c].left = {num} THEN "done" ELSE "delete"]
  BY <1>1, <1>2, <1>3, DeleteDone, Zenon
<1>4. CASE Step(c, "failed") /\ (dnRecs' = rest \/ dnRecs' = dnRecs)
  <2>1. dnRecs' \in SUBSET dnRecs /\ dnLast' = dnLast
    BY <1>1, <1>2, <1>4, Zenon
  <2>2. RecsOK(dnProvider, dnRecs, dnLast)
    BY Zenon DEF DnInv
  <2>3. RecsOK(dnProvider, dnRecs', dnLast')
    BY <2>1, <2>2, FewerRecords, Zenon
  <2>4. dnLast =< dnLast'
    BY <2>1, <2>2 DEF RecsOK
  <2>5. \A r \in dnRecs' : r \in dnRecs \/ r.id = dnLast + 1
    BY <2>1, Zenon
  <2>6. UNCHANGED <<dnProvider, dnZones>>
    BY <1>2, Zenon
  <2> QED
    BY <1>4, <2>3, <2>4, <2>5, <2>6, StepFails, Zenon
<1> QED
  BY <1>2, <1>3, <1>4, Zenon

\* The memory provider.
LEMMA MemoryCreateKeeps ==
    ASSUME DnInv, NEW c \in DnCall, MemoryCreate(c)
    PROVE  DnInv'
<1>1. PICK run : run = dnRun[c] /\ run \in RunRecord /\ run.pc = "find"
  BY Zenon DEF DnInv, MemoryCreate
<1>2. RunOK(dnProvider, run, dnRecs, dnZones, dnLast) /\ dnProvider = "memory" /\ run.for # "ensure"
  BY <1>1, Zenon DEF DnInv, MemoryCreate, RunOK
<1>3. /\ dnLast \in Nat /\ RecsOK(dnProvider, dnRecs, dnLast)
      /\ \A r \in dnRecs : r.id \in 1..dnLast
  BY Zenon DEF DnInv, RecsOK
<1>4. PICK w : w = Numbered(MemoryChallenge(run.domain), dnLast + 1)
  BY Zenon
<1>5. w.id = dnLast + 1 /\ w.name = ChallengeName(run.domain)
  BY <1>4, Zenon DEF Numbered, MemoryChallenge, Record
<1>6. PICK new : new = [run EXCEPT !.pc = "made", !.id = dnLast + 1]
  BY Zenon
<1>7. /\ dnRecs' = dnRecs \cup {w} /\ dnLast' = dnLast + 1
      /\ UNCHANGED <<dnProvider, dnZones>>
  BY <1>1, <1>4, Zenon DEF MemoryCreate
<1>8. dnRun' = [dnRun EXCEPT ![c] = new]
  BY <1>1, <1>6, Zenon DEF MemoryCreate, DnInv
<1>9. RecsOK(dnProvider, dnRecs \cup {w}, dnLast + 1)
  BY <1>2, <1>3, <1>5, MoreRecords, Zenon
<1>10. RunOK(dnProvider, new, dnRecs \cup {w}, dnZones, dnLast + 1)
  BY <1>1, <1>2, <1>3, <1>5, <1>6, Makes, Zenon
<1>11. \A r \in dnRecs \cup {w} : r \in dnRecs \/ r.id = dnLast + 1
  BY <1>5, Zenon
<1>12. dnLast =< dnLast + 1
  BY <1>3
<1> QED
  BY <1>7, <1>8, <1>9, <1>10, <1>11, <1>12, OneCallMoves, Zenon

\* DeleteChallengeRecord of MemoryProvider.
LEMMA MemoryDeleteKeeps ==
    ASSUME DnInv, NEW c \in DnCall, MemoryDelete(c)
    PROVE  DnInv'
<1>1. PICK run : run = dnRun[c] /\ run \in RunRecord /\ run.pc = "findAgain"
  BY Zenon DEF DnInv, MemoryDelete
<1>2. RunOK(dnProvider, run, dnRecs, dnZones, dnLast) /\ dnProvider = "memory"
  BY <1>1, Zenon DEF DnInv, MemoryDelete
<1>3. PICK new : new = [run EXCEPT !.pc = "done"]
  BY Zenon
<1>4. GoesOn(run, new, "done", run.zone)
  <2>1. run.zone \in DnName /\ "done" \in DnPc
    BY <1>1, Zenon DEF RunRecord, DnPc
  <2> QED
    BY <1>1, <1>3, <2>1, Goes, Zenon
<1>5. dnRun' = [dnRun EXCEPT ![c] = new] /\ dnLast' = dnLast /\ UNCHANGED <<dnProvider, dnZones>>
  BY <1>1, <1>3, Zenon DEF MemoryDelete, Step, DnInv
<1>6. dnRecs' \in SUBSET dnRecs /\ \A r \in dnRecs' : r.name # ChallengeName(run.domain)
  BY <1>1, Zenon DEF MemoryDelete
<1>7. \A r \in dnRecs' : r.id = new.id => new.moved
  <2> SUFFICES ASSUME NEW r \in dnRecs', r.id = new.id, ~new.moved PROVE FALSE
    BY Zenon
  <2>1. r \in dnRecs /\ r.id = run.id /\ ~run.moved
    BY <1>4, <1>6, Zenon DEF GoesOn
  <2>2. r.name = ChallengeName(run.domain)
    BY <1>2, <2>1, Zenon DEF RunOK, Mine
  <2> QED
    BY <1>6, <2>2, Zenon
<1>8. Mine(dnProvider, new, dnRecs', dnZones) /\ Cleaned(new, dnRecs')
  BY <1>7, Zenon DEF Mine, Cleaned
<1>9. Found(new, dnRecs') /\ Zoned(dnProvider, new, dnZones)
  BY <1>2, <1>4, Zenon DEF Found, Zoned, GoesOn
<1>10. RunOK(dnProvider, new, dnRecs', dnZones, dnLast')
  BY <1>2, <1>4, <1>5, <1>8, <1>9, Zenon DEF RunOK, GoesOn
<1>11. RecsOK(dnProvider, dnRecs, dnLast)
  BY Zenon DEF DnInv
<1>12. RecsOK(dnProvider, dnRecs', dnLast')
  BY <1>5, <1>6, <1>11, FewerRecords, Zenon
<1>13. dnLast =< dnLast'
  BY <1>5, <1>11 DEF RecsOK
<1>14. \A r \in dnRecs' : r \in dnRecs \/ r.id = dnLast + 1
  BY <1>6, Zenon
<1> QED
  BY <1>5, <1>10, <1>12, <1>13, <1>14, OneCallMoves, Zenon

\* Zones are edited under all calls.
LEMMA EditKeeps ==
    ASSUME DnInv, NEW z \in DnZone, EditZones(z)
    PROVE  DnInv'
<1>1. dnRun \in [DnCall -> RunRecord] /\ dnZones \subseteq DnZone /\ RecsOK(dnProvider, dnRecs, dnLast)
  BY Zenon DEF DnInv
<1>2. /\ dnProvider' = dnProvider /\ dnLast' = dnLast
      /\ dnRun' = [c \in DnCall |-> [dnRun[c] EXCEPT !.moved = TRUE]]
  BY Zenon DEF EditZones
<1>3. dnZones' \subseteq DnZone /\ dnRecs' \in SUBSET dnRecs
  BY <1>1, Zenon DEF EditZones
<1>4. ASSUME NEW c \in DnCall PROVE RunOK(dnProvider, dnRun'[c], dnRecs', dnZones', dnLast)
  <2>1. RunOK(dnProvider, dnRun[c], dnRecs, dnZones, dnLast)
    BY Zenon DEF DnInv
  <2>2. RunOK(dnProvider, [dnRun[c] EXCEPT !.moved = TRUE], dnRecs', dnZones', dnLast)
    BY <1>3, <2>1, RunMoved, Zenon
  <2>3. dnRun'[c] = [dnRun[c] EXCEPT !.moved = TRUE]
    BY <1>2, Zenon
  <2> QED
    BY <2>2, <2>3, Zenon
<1>5. dnRun' \in [DnCall -> RunRecord]
  <2>1. \A c \in DnCall : dnRun'[c] \in RunRecord
    BY <1>4, Zenon DEF RunOK
  <2> QED
    BY <1>2, <2>1, Zenon
<1>6. RecsOK(dnProvider, dnRecs', dnLast)
  BY <1>1, <1>3, FewerRecords, Zenon
<1> QED
  BY <1>2, <1>3, <1>4, <1>5, <1>6, Zenon DEF DnInv

\* Every step keeps the invariant.
LEMMA DnInduction == DnInv /\ [DnNext]_dnVars => DnInv'
<1> SUFFICES ASSUME DnInv, [DnNext]_dnVars PROVE DnInv'
  BY Zenon
<1>1. ASSUME NEW c \in DnCall, NEW d \in DnDomain, StartChallenge(c, d) PROVE DnInv'
  <2>1. Begin(c, d, "challenge")
    BY <1>1, Zenon DEF StartChallenge
  <2> QED
    BY <2>1, BeginKeeps, Zenon
<1>2. ASSUME NEW c \in DnCall, NEW d \in DnDomain, EnsureDomain(c, d) PROVE DnInv'
  <2>1. Begin(c, d, "ensure") /\ dnProvider # "memory"
    BY <1>2, Zenon DEF EnsureDomain
  <2> QED
    BY <2>1, BeginKeeps, Zenon
<1>3. ASSUME NEW c \in DnCall, LookUpZone(c, "find", "create") PROVE DnInv'
  <2>1. LookUp("find", "create")
    BY Zenon DEF LookUp
  <2> QED
    BY <1>3, <2>1, LookUpKeeps, Zenon
<1>4. ASSUME NEW c \in DnCall, LookUpZone(c, "findAgain", "list") PROVE DnInv'
  <2>1. LookUp("findAgain", "list")
    BY Zenon DEF LookUp
  <2> QED
    BY <1>4, <2>1, LookUpKeeps, Zenon
<1>5. ASSUME NEW c \in DnCall, NEW num \in 1..MaxRecord, DeleteRecord(c, num) PROVE DnInv'
  BY <1>5, DeleteKeeps, Zenon
<1>6. ASSUME UNCHANGED dnVars PROVE DnInv'
  BY <1>6, Zenon DEF DnInv, dnVars
<1> QED
  BY <1>1, <1>2, <1>3, <1>4, <1>5, <1>6, CreateKeeps, CleanUpKeeps, ListKeeps,
     MemoryCreateKeeps, MemoryDeleteKeeps, EditKeeps, Zenon DEF DnNext

\* Nothing is under way and no record made at the beginning.
LEMMA DnBegins == DnInit => DnInv
<1> SUFFICES ASSUME DnInit PROVE DnInv
  BY Zenon
<1>1. dnRecs = {} /\ dnLast = 0 /\ dnRun = [c \in DnCall |-> Off]
  BY Zenon DEF DnInit
<1>2. <<>> \in DnName
  BY DEF DnName
<1>3. Off \in RunRecord /\ Off.pc = "idle" /\ Off.for = "none" /\ Off.id = 0 /\ Off.left = {}
  BY <1>2, Zenon DEF Off, RunRecord, DnPc
<1>4. RecsOK(dnProvider, {}, 0)
  BY Zenon DEF RecsOK
<1>5. Mine(dnProvider, Off, {}, dnZones) /\ Cleaned(Off, {}) /\ Found(Off, {})
  BY Zenon DEF Mine, Cleaned, Found
<1>6. RunOK(dnProvider, Off, {}, dnZones, 0)
  <2>1. Off.id \in 0..0 /\ Off.left \subseteq 1..0
    BY <1>3
  <2>2. Off.for # "ensure" /\ Off.pc \notin {"create", "made", "findAgain", "list", "delete"}
    BY <1>3, Zenon
  <2>3. Zoned(dnProvider, Off, dnZones)
    BY <2>2, Zenon DEF Zoned
  <2> QED
    BY <1>3, <1>5, <2>1, <2>2, <2>3, Zenon DEF RunOK
<1>7. dnProvider \in {"cloudflare", "digitalocean", "memory"} /\ dnZones \subseteq DnZone
  BY Zenon DEF DnInit
<1>8. \A c \in DnCall : dnRun[c] = Off
  BY <1>1, Zenon
<1>9. dnRun \in [DnCall -> RunRecord]
  BY <1>1, <1>3, Zenon
<1> QED
  BY <1>1, <1>4, <1>6, <1>7, <1>8, <1>9, Zenon DEF DnInv

\* What the invariant says of records in terms of what queries resolve.
LEMMA DnPlaced == DnInv => RecordPlaced
<1> SUFFICES ASSUME DnInv, NEW c \in DnCall, NEW r \in dnRecs,
                    r.id = dnRun[c].id, ~dnRun[c].moved, Plain(dnRun[c].domain)
             PROVE  /\ Resolved(r) = IF dnRun[c].for = "ensure" THEN dnRun[c].domain
                                     ELSE ChallengeName(dnRun[c].domain)
                    /\ dnProvider # "memory" =>
                         \A z \in dnZones : HasSuffix(dnRun[c].domain, z) => Len(z) =< Len(r.zone)
  BY Zenon DEF RecordPlaced
<1>1. PICK run : run = dnRun[c] /\ run \in RunRecord
  BY Zenon DEF DnInv
<1>2. RunOK(dnProvider, run, dnRecs, dnZones, dnLast)
  BY <1>1, Zenon DEF DnInv
<1>3. IF dnProvider = "memory" THEN run.for # "ensure" /\ r.name = ChallengeName(run.domain)
      ELSE run.zone \in FindZone(run.domain, dnZones) /\ r = Numbered(WantedBy(dnProvider, run), run.id)
  BY <1>1, <1>2, Zenon DEF RunOK, Mine
<1>4. CASE dnProvider = "memory"
  <2>1. Resolved(r) = r.name
    BY <1>4, Zenon DEF Resolved
  <2> QED
    BY <1>1, <1>3, <1>4, <2>1, Zenon
<1>5. CASE dnProvider # "memory"
  <2>1. dnProvider \in {"cloudflare", "digitalocean"} /\ dnZones \in SUBSET DnZone
    BY <1>5, Zenon DEF DnInv
  <2>2. PICK w : w = WantedBy(dnProvider, run)
    BY Zenon
  <2>3. r.name = w.name /\ r.zone = w.zone /\ w.zone = run.zone
    <3>1. r.name = w.name /\ r.zone = w.zone
      BY <1>3, <1>5, <2>2 DEF Numbered
    <3> QED
      BY <1>1, <2>2, <3>1, WantedNamed, Zenon
  <2>4. run.zone \in FindZone(run.domain, dnZones)
    BY <1>3, <1>5, Zenon
  <2>5. (IF dnProvider = "digitalocean" THEN w.name \o w.zone ELSE RecordName(w.name, w.zone))
          = (IF run.for = "ensure" THEN run.domain ELSE ChallengeName(run.domain))
    BY <1>1, <2>1, <2>2, <2>4, WantedResolves, Zenon
  <2>6. Resolved(r) = IF dnProvider = "digitalocean" THEN r.name \o r.zone ELSE RecordName(r.name, r.zone)
    BY <2>1, Zenon DEF Resolved
  <2>7. Resolved(r) = IF run.for = "ensure" THEN run.domain ELSE ChallengeName(run.domain)
    BY <2>3, <2>5, <2>6, Zenon
  <2>8. \A z \in dnZones : HasSuffix(run.domain, z) => Len(z) =< Len(run.zone)
    BY <2>4, Zenon DEF FindZone
  <2> QED
    BY <1>1, <2>3, <2>7, <2>8, Zenon
<1> QED
  BY <1>4, <1>5, Zenon

\* What is on the list of a cleanup is a challenge record of its domain.
LEMMA DnOthersKept == DnInv => OthersKept
<1> SUFFICES ASSUME DnInv, NEW c \in DnCall, NEW r \in dnRecs, dnRun[c].pc = "delete", r.id \in dnRun[c].left,
                    ~HasSuffix(ExtractSubdomain(Resolved(r), r.zone), r.zone)
             PROVE  r.type = "TXT" /\ Resolved(r) = ChallengeName(dnRun[c].domain)
  BY Zenon DEF OthersKept
<1>1. PICK run : run = dnRun[c] /\ RunOK(dnProvider, run, dnRecs, dnZones, dnLast)
  BY Zenon DEF DnInv
<1>2. dnProvider \in {"cloudflare", "digitalocean"}
  BY <1>1, Zenon DEF DnInv, RunOK
<1>3. r.type = "TXT" /\ RecordName(r.name, r.zone) = ChallengeName(run.domain)
  BY <1>1, Zenon DEF RunOK, Found, Matches
<1>4. r.zone \in DnName /\ r.name \in DnName
  BY <1>2, Zenon DEF DnInv, RecsOK
<1>5. CASE dnProvider = "cloudflare"
  BY <1>1, <1>3, <1>5, Zenon DEF Resolved
<1>6. CASE dnProvider = "digitalocean"
  <2>1. Resolved(r) = r.name \o r.zone
    BY <1>6, Zenon DEF Resolved
  <2>2. ExtractSubdomain(r.name \o r.zone, r.zone) = r.name
    BY <1>4, JoinCut, Zenon
  <2>3. ~HasSuffix(r.name, r.zone)
    BY <2>1, <2>2, Zenon
  <2>4. RecordName(r.name, r.zone) = r.name \o r.zone
    BY <2>3, Zenon DEF RecordName
  <2> QED
    BY <1>1, <1>3, <2>1, <2>4, Zenon
<1> QED
  BY <1>2, <1>5, <1>6, Zenon

\* RecordsExact: a record is placed in the most specific zone under the name it is asked
\* for, a cleanup without error has removed the record of its own call, and it deletes
\* challenge records of its domain only; for any calls, domains, zones and edits of
\* them, names of any length, and failures of requests.
THEOREM RecordsAreExact == DnSpec => []RecordsExact
<1>1. DnInv => OwnRecordGone
  BY Zenon DEF DnInv, RunOK, Cleaned, OwnRecordGone
<1>2. DnInv => RecordsExact
  BY <1>1, DnPlaced, DnOthersKept, Zenon DEF RecordsExact
<1> QED
  BY <1>2, DnBegins, DnInduction, PTL DEF DnSpec

(***************************************************************************)
(* Certificates.                                                           *)
(***************************************************************************)
MetaOK == [state : CertState, cert : {0} \cup Id, retry : Nat]

\* The calls of the authority, and the writes of SaveCertificate, of an issue.
Issuing == {"authorize", "saveValidating", "challenge", "accept", "wait", "cleanup", "undo",
            "create", "saveCert", "saveKey", "install", "saveIssued"}

\* The types of what the life cycle of a certificate writes, and that the
\* identifier of a running call is one that was given out.
CeShape ==
    /\ ceObj \in [Id -> MetaOK]
    /\ ceLast \in 0..MaxIssue
    /\ ceMeta \in 0..ceLast
    /\ ceCert \in [cert : 0..ceLast, key : 0..ceLast]
    /\ ceDisk \in [cert : 0..ceLast, key : 0..ceLast, meta : MetaOK]
    /\ ceRun \in [Thread -> [pc : CePc, id : 0..ceLast]]
    /\ ceBad \in [ca : Nat, disk : Nat, halt : Nat]
    /\ ceUp \in BOOLEAN /\ ceSafe \in BOOLEAN
    /\ \A t \in Thread : ceRun[t].pc \in Issuing \cup {"saveRenewing"} => ceRun[t].id # 0

LEMMA CeShapeInit == CeInit => CeShape
BY CeAssumption DEF CeInit, CeShape, MetaOK, NoMeta, NoPair, NoFiles, Rest, CertState, CePc, Issuing

\* Goto changes the place of one call.
LEMMA GotoEffect ==
    ASSUME CeShape, NEW t \in Thread, NEW pc \in CePc, Goto(t, pc)
    PROVE  /\ ceRun' \in [Thread -> [pc : CePc, id : 0..ceLast]]
           /\ ceRun'[t].pc = pc /\ ceRun'[t].id = ceRun[t].id
           /\ \A u \in Thread \ {t} : ceRun'[u] = ceRun[u]
BY Zenon DEF CeShape, Goto

\* A step that moves one call to r.
LEMMA MoveEffect ==
    ASSUME CeShape, NEW t \in Thread, NEW r \in [pc : CePc, id : 0..ceLast],
           ceRun' = [ceRun EXCEPT ![t] = r]
    PROVE  /\ ceRun' \in [Thread -> [pc : CePc, id : 0..ceLast]]
           /\ ceRun'[t] = r
           /\ \A u \in Thread \ {t} : ceRun'[u] = ceRun[u]
BY Zenon DEF CeShape

Files == [cert : 0..ceLast, key : 0..ceLast, meta : MetaOK]

\* os.WriteFile writes one file; a write that fails leaves the other files.
LEMMA WriteEffect ==
    ASSUME CeShape, NEW f \in {"cert", "key", "meta"}, NEW v, NEW empty, NEW ok,
           WriteFile(f, v, empty, ok),
           f = "meta" => v \in MetaOK /\ empty \in MetaOK,
           f # "meta" => v \in 0..ceLast /\ empty \in 0..ceLast
    PROVE  /\ ceDisk' \in Files
           /\ ceBad' \in [ca : Nat, disk : Nat, halt : Nat] /\ ceBad'.halt = ceBad.halt
           /\ ceSafe' \in BOOLEAN
           /\ ceSafe' => ceSafe /\ ok
           /\ ok => ceDisk'[f] = v
           /\ \A g \in {"cert", "key", "meta"} \ {f} : ceDisk'[g] = ceDisk[g]
<1>0. ceDisk \in Files /\ ceBad \in [ca : Nat, disk : Nat, halt : Nat] /\ ceSafe \in BOOLEAN
  BY Zenon DEF CeShape, Files
<1>1. ASSUME NEW x, f = "meta" => x \in MetaOK, f # "meta" => x \in 0..ceLast,
             ceDisk' = [ceDisk EXCEPT ![f] = x]
      PROVE  /\ ceDisk' \in Files /\ ceDisk'[f] = x
             /\ \A g \in {"cert", "key", "meta"} \ {f} : ceDisk'[g] = ceDisk[g]
  <2>1. CASE f = "cert"
    BY <1>0, <1>1, <2>1, Zenon DEF Files
  <2>2. CASE f = "key"
    BY <1>0, <1>1, <2>2, Zenon DEF Files
  <2>3. CASE f = "meta"
    BY <1>0, <1>1, <2>3, Zenon DEF Files
  <2> QED
    BY <2>1, <2>2, <2>3, Zenon
<1>2. CASE ok
  <2>1. ceDisk' = [ceDisk EXCEPT ![f] = v] /\ UNCHANGED <<ceBad, ceSafe>>
    BY <1>2, Zenon DEF WriteFile
  <2> QED
    BY <1>0, <1>1, <1>2, <2>1, Zenon
<1>3. CASE ~ok
  <2>1. /\ ceBad' = [ceBad EXCEPT !.disk = @ + 1]
        /\ ceSafe' = FALSE
        /\ ceDisk' = ceDisk \/ ceDisk' = [ceDisk EXCEPT ![f] = empty]
    BY <1>3, Zenon DEF WriteFile
  <2>2. ceBad' \in [ca : Nat, disk : Nat, halt : Nat] /\ ceBad'.halt = ceBad.halt
    BY <1>0, <2>1
  <2> QED
    BY <1>0, <1>1, <1>3, <2>1, <2>2, Zenon
<1> QED
  BY <1>2, <1>3, Zenon

\* A call of the authority that fails is counted, and is no crash.
LEMMA CaEffect ==
    ASSUME CeShape, CaFails \/ UNCHANGED ceBad
    PROVE  ceBad' \in [ca : Nat, disk : Nat, halt : Nat] /\ ceBad'.halt = ceBad.halt
BY DEF CeShape, CaFails

LEMMA CeShapeStep == CeShape /\ ServedOwnsKey /\ [CeNext]_ceVars => CeShape'
<1> SUFFICES ASSUME CeShape, ServedOwnsKey, [CeNext]_ceVars PROVE CeShape'
  BY Zenon
<1>w. Worker \in Thread
  BY Zenon DEF Thread
<1>z. Rest \in [pc : CePc, id : 0..ceLast]
  BY DEF Rest, CePc, CeShape
<1>1. ASSUME NEW t \in Thread, Ensure(t) PROVE CeShape'
  BY <1>1, CeAssumption DEF Ensure, CeShape, Goto, CaFails, CePc, Issuing, MetaOK, CertState
<1>2. ASSUME NEW t \in Thread, Issue(t) PROVE CeShape'
  <2> DEFINE n == ceLast + 1
             r == At("authorize", n)
  <2>1. /\ n \in Id /\ ceLast' = n /\ ceMeta' = n
        /\ ceObj' = [ceObj EXCEPT ![n] = [NoMeta EXCEPT !.state = "pending"]]
        /\ ceRun' = [ceRun EXCEPT ![t] = r]
        /\ UNCHANGED <<ceUp, ceCert, ceDisk, ceBad, ceSafe>>
    BY <1>2, CeAssumption DEF Issue, CeShape, Id
  <2>2. n \in 0..MaxIssue /\ 0..ceLast \subseteq 0..n
    BY <1>2, CeAssumption DEF Issue, CeShape
  <2>3. r.pc = "authorize" /\ r.id = n /\ r \in [pc : CePc, id : 0..n] /\ n # 0
    BY <2>2, CeAssumption DEF At, CePc, CeShape
  <2>4. ceObj' \in [Id -> MetaOK]
    BY <2>1, Zenon DEF CeShape, MetaOK, NoMeta, CertState
  <2> HIDE DEF n, r
  <2>5. ceRun' \in [Thread -> [pc : CePc, id : 0..n]]
    BY <2>1, <2>2, <2>3, Zenon DEF CeShape
  <2>6. \A u \in Thread : ceRun'[u].pc \in Issuing \cup {"saveRenewing"} => ceRun'[u].id # 0
    BY <2>1, <2>3, Zenon DEF CeShape
  <2>7. /\ ceCert' \in [cert : 0..n, key : 0..n]
        /\ ceDisk' \in [cert : 0..n, key : 0..n, meta : MetaOK]
    BY <2>1, <2>2, Zenon DEF CeShape
  <2> QED
    BY <2>1, <2>2, <2>4, <2>5, <2>6, <2>7 DEF CeShape
<1>3. ASSUME NEW t \in Thread, Authorize(t) PROVE CeShape'
  <2>1. ceRun[t].id \in Id /\ ceRun[t].id # 0
    BY <1>3, CeAssumption DEF Authorize, CeShape, Issuing, Id
  <2>2. ceObj' \in [Id -> MetaOK] /\ ceBad' \in [ca : Nat, disk : Nat, halt : Nat]
    BY <1>3, <2>1 DEF Authorize, CeShape, MetaOK, CertState, CaFails
  <2>3. PICK pc \in {"saveValidating", "fail"} : Goto(t, pc)
    BY <1>3, Zenon DEF Authorize
  <2>4. /\ ceRun' \in [Thread -> [pc : CePc, id : 0..ceLast]]
        /\ ceRun'[t].id = ceRun[t].id
        /\ \A u \in Thread \ {t} : ceRun'[u] = ceRun[u]
    BY <2>3, GotoEffect, Zenon DEF CePc
  <2> QED
    BY <1>3, <2>1, <2>2, <2>4, Zenon DEF Authorize, CeShape
<1>4. ASSUME NEW t \in Thread, SaveMetadata(t) PROVE CeShape'
  <2> DEFINE r == IF ceRun[t].pc = "saveIssued" THEN Rest ELSE At(AfterSave[ceRun[t].pc], ceRun[t].id)
  <2>1. /\ ceRun' = [ceRun EXCEPT ![t] = r]
        /\ UNCHANGED <<ceUp, ceObj, ceLast, ceMeta, ceCert>>
    BY <1>4, Zenon DEF SaveMetadata, CeShape
  <2>2. ceRun[t].pc \in {"saveValidating", "saveRenewing", "saveIssued"}
    BY <1>4, Zenon DEF SaveMetadata, AfterSave
  <2>3. ceRun[t].id \in Id /\ ceRun[t].id # 0
    BY <2>2, CeAssumption DEF CeShape, Issuing, Id
  <2>4. r \in [pc : CePc, id : 0..ceLast] /\ r.pc \in {"challenge", "revokeOld", "idle"}
        /\ (r.pc # "idle" => r.id # 0)
    BY <1>z, <2>2, <2>3 DEF CeShape, AfterSave, At, CePc, Rest
  <2>5. /\ ceDisk' \in [cert : 0..ceLast, key : 0..ceLast, meta : MetaOK]
        /\ ceBad' \in [ca : Nat, disk : Nat, halt : Nat] /\ ceSafe' \in BOOLEAN
    <3>1. ceObj[ceRun[t].id] \in MetaOK /\ NoMeta \in MetaOK
      BY <2>3, Zenon DEF CeShape, MetaOK, NoMeta, CertState
    <3> QED
      BY <1>4, <3>1, WriteEffect, Zenon DEF SaveMetadata, Files
  <2> HIDE DEF r
  <2>6. /\ ceRun' \in [Thread -> [pc : CePc, id : 0..ceLast]]
        /\ ceRun'[t] = r
        /\ \A u \in Thread \ {t} : ceRun'[u] = ceRun[u]
    BY <2>1, <2>4, MoveEffect, Zenon
  <2>7. \A u \in Thread : ceRun'[u].pc \in Issuing \cup {"saveRenewing"} => ceRun'[u].id # 0
    BY <2>4, <2>6, Zenon DEF CeShape, Issuing
  <2> QED
    BY <2>1, <2>5, <2>6, <2>7, Zenon DEF CeShape
<1>5. ASSUME NEW t \in Thread, HandleChallenge(t) PROVE CeShape'
  BY <1>5, CeAssumption DEF HandleChallenge, CeShape, Goto, CaFails, CePc, Issuing, MetaOK, CertState
<1>6. ASSUME NEW t \in Thread, Accept(t) PROVE CeShape'
  BY <1>6, CeAssumption DEF Accept, CeShape, Goto, CaFails, CePc, Issuing, MetaOK, CertState
<1>7. ASSUME NEW t \in Thread, WaitAuthorization(t) PROVE CeShape'
  BY <1>7, CeAssumption DEF WaitAuthorization, CeShape, Goto, CaFails, CePc, Issuing, MetaOK, CertState
<1>8. ASSUME NEW t \in Thread, CleanupChallenge(t) PROVE CeShape'
  BY <1>8, CeAssumption DEF CleanupChallenge, CeShape, Goto, CaFails, CePc, Issuing, MetaOK, CertState
<1>9. ASSUME NEW t \in Thread, CreateCert(t) PROVE CeShape'
  BY <1>9, CeAssumption DEF CreateCert, CeShape, Goto, CaFails, CePc, Issuing, MetaOK, CertState
<1>10. ASSUME NEW t \in Thread, SaveCertificate(t) PROVE CeShape'
  <2>1. ceRun[t].id \in 0..ceLast /\ ceRun[t].id # 0
    BY <1>10, Zenon DEF SaveCertificate, CeShape, Issuing
  <2>2. /\ ceDisk' \in [cert : 0..ceLast, key : 0..ceLast, meta : MetaOK]
        /\ ceBad' \in [ca : Nat, disk : Nat, halt : Nat] /\ ceSafe' \in BOOLEAN
    <3>1. PICK f \in {"cert", "key"}, ok \in BOOLEAN : WriteFile(f, ceRun[t].id, 0, ok)
      BY <1>10, Zenon DEF SaveCertificate
    <3>2. 0 \in 0..ceLast
      BY CeAssumption DEF CeShape
    <3> QED
      BY <2>1, <3>1, <3>2, WriteEffect, Zenon DEF Files
  <2>3. PICK pc \in {"saveKey", "install", "fail"} : Goto(t, pc)
    BY <1>10, Zenon DEF SaveCertificate
  <2>4. /\ ceRun' \in [Thread -> [pc : CePc, id : 0..ceLast]]
        /\ ceRun'[t].id = ceRun[t].id
        /\ \A u \in Thread \ {t} : ceRun'[u] = ceRun[u]
    BY <2>3, GotoEffect, Zenon DEF CePc
  <2> QED
    BY <1>10, <2>1, <2>2, <2>4, Zenon DEF SaveCertificate, CeShape
<1>11. ASSUME NEW t \in Thread, Install(t) PROVE CeShape'
  BY <1>11, CeAssumption DEF Install, CeShape, Goto, CaFails, CePc, Issuing, MetaOK, CertState
<1>12. ASSUME NEW t \in Thread, IssueFails(t) PROVE CeShape'
  BY <1>12, CeAssumption DEF IssueFails, CeShape, Goto, CaFails, CePc, Issuing, MetaOK, CertState, At, Rest
<1>13. ASSUME NEW t \in Thread, RevokeCertificate(t) PROVE CeShape'
  <2> DEFINE r == At("revoke", ceCert.cert)
  <2>1. /\ ceRun' = [ceRun EXCEPT ![t] = r]
        /\ ceCert' = NoPair /\ ceMeta' = 0 /\ ceSafe' = (ceSafe /\ Alone(t))
        /\ UNCHANGED <<ceUp, ceObj, ceLast, ceDisk, ceBad>>
    BY <1>13, Zenon DEF RevokeCertificate
  <2>2. r \in [pc : CePc, id : 0..ceLast] /\ r.pc = "revoke"
    BY Zenon DEF At, CePc, CeShape
  <2> HIDE DEF r
  <2>3. /\ ceRun' \in [Thread -> [pc : CePc, id : 0..ceLast]]
        /\ ceRun'[t] = r
        /\ \A u \in Thread \ {t} : ceRun'[u] = ceRun[u]
    BY <2>1, <2>2, MoveEffect, Zenon
  <2>4. \A u \in Thread : ceRun'[u].pc \in Issuing \cup {"saveRenewing"} => ceRun'[u].id # 0
    BY <2>2, <2>3, Zenon DEF CeShape, Issuing
  <2>5. ceSafe' \in BOOLEAN
    BY <2>1, Zenon DEF CeShape
  <2>6. ceMeta' \in 0..ceLast /\ ceCert' \in [cert : 0..ceLast, key : 0..ceLast]
    BY <2>1, CeAssumption DEF CeShape, NoPair
  <2> QED
    BY <2>1, <2>3, <2>4, <2>5, <2>6, Zenon DEF CeShape
<1>14. ASSUME NEW t \in Thread, RevokeCert(t) PROVE CeShape'
  <2>1. ceRun' \in [Thread -> [pc : CePc, id : 0..ceLast]]
    BY <1>14, <1>z, GotoEffect, MoveEffect, Zenon DEF RevokeCert, CePc
  <2>2. \A u \in Thread : ceRun'[u].pc \in Issuing \cup {"saveRenewing"} => ceRun'[u].id # 0
    BY <1>14 DEF RevokeCert, CeShape, Issuing, Goto, Rest
  <2>3. ceBad' \in [ca : Nat, disk : Nat, halt : Nat]
    BY <1>14, CaEffect, Zenon DEF RevokeCert
  <2> QED
    BY <1>14, <2>1, <2>2, <2>3, Zenon DEF RevokeCert, CeShape
<1>15. ASSUME NEW t \in Thread, DeleteCertificate(t) PROVE CeShape'
  <2>1. /\ ceRun' \in [Thread -> [pc : CePc, id : 0..ceLast]]
        /\ ceRun'[t] = Rest
        /\ \A u \in Thread \ {t} : ceRun'[u] = ceRun[u]
    BY <1>15, <1>z, MoveEffect, Zenon DEF DeleteCertificate
  <2>2. \A u \in Thread : ceRun'[u].pc \in Issuing \cup {"saveRenewing"} => ceRun'[u].id # 0
    BY <2>1 DEF CeShape, Issuing, Rest
  <2>3. ceDisk' \in [cert : 0..ceLast, key : 0..ceLast, meta : MetaOK]
    BY <1>15, CeAssumption DEF DeleteCertificate, CeShape, NoFiles, NoMeta, MetaOK, CertState
  <2> QED
    BY <1>15, <2>1, <2>2, <2>3, Zenon DEF DeleteCertificate, CeShape
<1>16. CASE BecomesDue
  BY <1>16, <1>w, <1>z, CeAssumption, Zenon DEF BecomesDue, CeShape, Goto, CaFails, CePc, Issuing, MetaOK, CertState
<1>17. CASE CheckRenewal
  BY <1>17, <1>w, <1>z, CeAssumption DEF CheckRenewal, CeShape, Goto, CaFails, CePc, Issuing, MetaOK, CertState
<1>18. CASE Renew
  <2>1. CASE ceMeta = 0 /\ Goto(Worker, "retry") /\ UNCHANGED ceObj
    <3>1. ceRun' \in [Thread -> [pc : CePc, id : 0..ceLast]]
      BY <2>1, <1>w, GotoEffect, Zenon DEF CePc
    <3>2. \A u \in Thread : ceRun'[u].pc \in Issuing \cup {"saveRenewing"} => ceRun'[u].id # 0
      BY <2>1, <1>w DEF Goto, CeShape, Issuing
    <3> QED
      BY <1>18, <2>1, <3>1, <3>2, Zenon DEF Renew, CeShape
  <2>2. CASE /\ ceMeta # 0
             /\ ceObj' = [ceObj EXCEPT ![ceMeta].state = "renewing"]
             /\ ceRun' = [ceRun EXCEPT ![Worker] = At("saveRenewing", ceMeta)]
    <3>1. ceMeta \in Id /\ ceMeta \in 0..ceLast
      BY <2>2, CeAssumption DEF CeShape, Id
    <3>2. ceObj' \in [Id -> MetaOK]
      BY <2>2, <3>1 DEF CeShape, MetaOK, CertState
    <3>3. At("saveRenewing", ceMeta) \in [pc : CePc, id : 0..ceLast] /\ At("saveRenewing", ceMeta).id = ceMeta
      BY <3>1, Zenon DEF At, CePc
    <3>4. /\ ceRun' \in [Thread -> [pc : CePc, id : 0..ceLast]]
          /\ ceRun'[Worker] = At("saveRenewing", ceMeta)
          /\ \A u \in Thread \ {Worker} : ceRun'[u] = ceRun[u]
      BY <2>2, <3>3, <1>w, MoveEffect, Zenon
    <3>5. \A u \in Thread : ceRun'[u].pc \in Issuing \cup {"saveRenewing"} => ceRun'[u].id # 0
      BY <2>2, <3>3, <3>4, Zenon DEF CeShape
    <3> QED
      BY <1>18, <3>2, <3>4, <3>5, Zenon DEF Renew, CeShape
  <2> QED
    BY <1>18, <2>1, <2>2, Zenon DEF Renew
<1>19. CASE RevokeOld
  BY <1>19, <1>w, <1>z, CeAssumption DEF RevokeOld, CeShape, Goto, CaFails, CePc, Issuing, MetaOK, CertState
<1>20. CASE CountRetry
  <2>1. /\ ceRun' \in [Thread -> [pc : CePc, id : 0..ceLast]]
        /\ ceRun'[Worker] = Rest
        /\ \A u \in Thread \ {Worker} : ceRun'[u] = ceRun[u]
    BY <1>20, <1>w, <1>z, MoveEffect, Zenon DEF CountRetry
  <2>2. \A u \in Thread : ceRun'[u].pc \in Issuing \cup {"saveRenewing"} => ceRun'[u].id # 0
    BY <2>1 DEF CeShape, Issuing, Rest
  <2>3. ceObj' \in [Id -> MetaOK]
    <3> DEFINE more(m) == [m EXCEPT !.retry = @ + 1, !.state = IF m.retry + 1 >= MaxRetries THEN "failed" ELSE @]
    <3>1. ASSUME NEW m \in MetaOK PROVE more(m) \in MetaOK
      <4> DEFINE st == IF m.retry + 1 >= MaxRetries THEN "failed" ELSE m.state
      <4>1. st \in CertState /\ m.retry + 1 \in Nat
        BY DEF MetaOK, CertState
      <4>2. more(m) = [m EXCEPT !.retry = m.retry + 1, !.state = st]
        BY Zenon DEF MetaOK
      <4> HIDE DEF st, more
      <4> QED
        BY <4>1, <4>2, Zenon DEF MetaOK
    <3>2. ceObj' = [n \in Id |-> IF n = ceMeta THEN more(ceObj[n]) ELSE ceObj[n]]
      BY <1>20, Zenon DEF CountRetry
    <3> HIDE DEF more
    <3> QED
      BY <3>1, <3>2, Zenon DEF CeShape
  <2> QED
    BY <1>20, <2>1, <2>2, <2>3, Zenon DEF CountRetry, CeShape
<1>21. CASE CeHalt
  <2>1. ceDisk' \in [cert : 0..ceLast, key : 0..ceLast, meta : MetaOK]
    <3>1. PICK t \in Thread : ceDisk' \in Torn(t)
      BY <1>21, Zenon DEF CeHalt
    <3>2. 0 \in 0..ceLast /\ NoMeta \in MetaOK
      BY CeAssumption DEF CeShape, MetaOK, NoMeta, CertState
    <3>3. ceDisk' \in {ceDisk, [ceDisk EXCEPT !.meta = NoMeta], [ceDisk EXCEPT !.cert = 0], [ceDisk EXCEPT !.key = 0]}
      BY <3>1, Zenon DEF Torn
    <3> QED
      BY <3>2, <3>3, Zenon DEF CeShape
  <2>2. /\ ceRun' \in [Thread -> [pc : CePc, id : 0..ceLast]]
        /\ \A u \in Thread : ceRun'[u].pc \in Issuing \cup {"saveRenewing"} => ceRun'[u].id # 0
    BY <1>21, <1>z, Zenon DEF CeHalt, Rest, Issuing
  <2>3. ceSafe' \in BOOLEAN /\ ceUp' \in BOOLEAN
    BY <1>21, Zenon DEF CeHalt
  <2>4. ceBad' \in [ca : Nat, disk : Nat, halt : Nat]
    BY <1>21 DEF CeHalt, CeShape
  <2> QED
    BY <1>21, <2>1, <2>2, <2>3, <2>4, Zenon DEF CeHalt, CeShape
<1>22. CASE CeStart
  <2> DEFINE n == ceLast + 1
  <2>1. n \in Id /\ n \in 0..MaxIssue /\ 0..ceLast \subseteq 0..n /\ 0 \in 0..ceLast
    BY <1>22, CeAssumption DEF CeStart, CeStartAny, CeShape, Id
  <2>2. ceLast' \in {ceLast, n} /\ UNCHANGED <<ceDisk, ceRun>> /\ ceUp' \in BOOLEAN /\ ceSafe' \in BOOLEAN
    BY <1>22, Zenon DEF CeStart, CeStartAny, CeShape
  <2>3. ceBad' \in [ca : Nat, disk : Nat, halt : Nat]
    BY <1>22, CaEffect, Zenon DEF CeStart, CeStartAny
  <2>4. CASE ceLast' = ceLast
    <3>1. ceMeta' = 0 /\ ceCert' = NoPair /\ ceObj' = ceObj
      BY <1>22, <2>4, CeAssumption DEF CeStart, CeStartAny, CeShape
    <3> QED
      BY <2>1, <2>2, <2>3, <2>4, <3>1, Zenon DEF CeShape, NoPair
  <2>5. CASE ceLast' = n
    <3>1. /\ ceMeta' = n /\ ceObj' = [ceObj EXCEPT ![n] = ceDisk.meta]
          /\ ceCert' = [cert |-> ceDisk.cert, key |-> ceDisk.key]
      BY <1>22, <2>5, CeAssumption DEF CeStart, CeStartAny, CeShape
    <3>2. ceObj' \in [Id -> MetaOK]
      BY <2>1, <3>1, Zenon DEF CeShape
    <3>3. /\ ceRun' \in [Thread -> [pc : CePc, id : 0..n]]
          /\ ceCert' \in [cert : 0..n, key : 0..n]
          /\ ceDisk' \in [cert : 0..n, key : 0..n, meta : MetaOK]
          /\ ceMeta' \in 0..n
      <4> HIDE DEF n
      <4>1. n \in 0..n
        BY <2>1
      <4> QED
        BY <2>1, <2>2, <3>1, <4>1, Zenon DEF CeShape
    <3>4. \A u \in Thread : ceRun'[u].pc \in Issuing \cup {"saveRenewing"} => ceRun'[u].id # 0
      BY <2>2, Zenon DEF CeShape
    <3> HIDE DEF n
    <3> QED
      BY <2>1, <2>2, <2>3, <2>5, <3>1, <3>2, <3>3, <3>4, Zenon DEF CeShape
  <2> QED
    BY <2>2, <2>4, <2>5, Zenon
<1>23. CASE UNCHANGED ceVars
  BY <1>23, Zenon DEF ceVars, CeShape
<1> QED
  BY <1>1, <1>2, <1>3, <1>4, <1>5, <1>6, <1>7, <1>8, <1>9, <1>10, <1>11, <1>12, <1>13, <1>14, <1>15, <1>16, <1>17, <1>18, <1>19, <1>20, <1>21, <1>22, <1>23, Zenon DEF CeNext

\* Metadata that says "issued" keeps having a certificate with its own key.
LEMMA CertificateStep == CeShape /\ CertificateSound /\ [CeNext]_ceVars => CertificateSound'
<1> SUFFICES ASSUME CeShape, CertificateSound, [CeNext]_ceVars PROVE CertificateSound'
  BY Zenon
<1>a. IssuedServed /\ ServedOwnsKey
  BY Zenon DEF CertificateSound
<1>b. IssuedServed' /\ ServedOwnsKey' => CertificateSound'
  BY Zenon DEF CertificateSound
<1>1. CASE UNCHANGED <<ceUp, ceObj, ceMeta, ceCert>>
  BY <1>1, <1>a, <1>b, Zenon DEF IssuedServed, ServedOwnsKey
<1>2. ASSUME NEW t \in Thread, Issue(t) PROVE CertificateSound'
  <2>1. ceLast + 1 \in Id
    BY <1>2, CeAssumption DEF Issue, CeShape, Id
  <2>2. ceMeta' = ceLast + 1 /\ ceObj'[ceLast + 1].state = "pending" /\ ceCert' = ceCert
    BY <1>2, <2>1, Zenon DEF Issue, CeShape, NoMeta
  <2> QED
    BY <1>a, <1>b, <2>2, Zenon DEF IssuedServed, ServedOwnsKey
<1>3. ASSUME NEW t \in Thread, Authorize(t) PROVE CertificateSound'
  <2>1. ceRun[t].id \in Id
    BY <1>3, CeAssumption DEF Authorize, CeShape, Issuing, Id
  <2>2. \A n \in Id : ceObj'[n].state = "issued" => ceObj[n].state = "issued"
    BY <1>3, <2>1 DEF Authorize, CeShape, MetaOK
  <2>3. UNCHANGED <<ceUp, ceMeta, ceCert>>
    BY <1>3, Zenon DEF Authorize
  <2>4. ceMeta # 0 => ceMeta \in Id
    BY CeAssumption DEF CeShape, Id
  <2> QED
    BY <1>a, <1>b, <2>2, <2>3, <2>4, Zenon DEF IssuedServed, ServedOwnsKey
<1>4. ASSUME NEW t \in Thread, Install(t) PROVE CertificateSound'
  <2>1. ceRun[t].id # 0
    BY <1>4, Zenon DEF Install, CeShape, Issuing
  <2>2. ceCert' = [cert |-> ceRun[t].id, key |-> ceRun[t].id]
    BY <1>4, Zenon DEF Install
  <2> QED
    BY <1>b, <2>1, <2>2, Zenon DEF IssuedServed, ServedOwnsKey, NoPair
<1>5. ASSUME NEW t \in Thread, IssueFails(t) PROVE CertificateSound'
  <2>1. ceMeta # 0 => ceMeta \in Id
    BY CeAssumption DEF CeShape, Id
  <2>2. UNCHANGED <<ceUp, ceMeta, ceCert>>
    BY <1>5, Zenon DEF IssueFails
  <2>3. ceMeta # 0 => ceObj'[ceMeta].state = "failed"
    BY <1>5, <2>1, Zenon DEF IssueFails, CeShape, MetaOK
  <2> QED
    BY <1>a, <1>b, <2>2, <2>3, Zenon DEF IssuedServed, ServedOwnsKey
<1>6. CASE Renew
  <2>1. ceMeta # 0 => ceMeta \in Id
    BY CeAssumption DEF CeShape, Id
  <2>2. UNCHANGED <<ceUp, ceMeta, ceCert>>
    BY <1>6, Zenon DEF Renew
  <2>3. ceMeta # 0 => ceObj'[ceMeta].state = "renewing"
    BY <1>6, <2>1 DEF Renew, CeShape, MetaOK
  <2> QED
    BY <1>a, <1>b, <2>2, <2>3, Zenon DEF IssuedServed, ServedOwnsKey
<1>7. CASE CountRetry
  <2>1. ceMeta # 0 => ceMeta \in Id
    BY CeAssumption DEF CeShape, Id
  <2>2. UNCHANGED <<ceUp, ceMeta, ceCert>>
    BY <1>7, Zenon DEF CountRetry
  <2>3. ceMeta # 0 => ceObj'[ceMeta].state \in {"failed", ceObj[ceMeta].state}
    BY <1>7, <2>1, Zenon DEF CountRetry, CeShape, MetaOK
  <2> QED
    BY <1>a, <1>b, <2>2, <2>3, Zenon DEF IssuedServed, ServedOwnsKey
<1>8. ASSUME NEW t \in Thread, RevokeCertificate(t) PROVE CertificateSound'
  BY <1>8, <1>b, Zenon DEF RevokeCertificate, IssuedServed, ServedOwnsKey, NoPair
<1>9. CASE CeHalt
  BY <1>9, <1>a, <1>b, Zenon DEF CeHalt, IssuedServed, ServedOwnsKey
<1>10. CASE CeStart
  <2>1. \/ ceMeta' = 0 /\ ceCert' = NoPair
        \/ ceCert' = [cert |-> ceDisk.cert, key |-> ceDisk.key] /\ Loadable
    BY <1>10, Zenon DEF CeStart, CeStartAny
  <2> QED
    BY <2>1, <1>b DEF IssuedServed, ServedOwnsKey, NoPair, Loadable, Listed
<1>11. ASSUME NEW t \in Thread,
              \/ Ensure(t) \/ SaveMetadata(t) \/ HandleChallenge(t) \/ Accept(t) \/ WaitAuthorization(t)
              \/ CleanupChallenge(t) \/ CreateCert(t) \/ SaveCertificate(t) \/ RevokeCert(t) \/ DeleteCertificate(t)
       PROVE  UNCHANGED <<ceUp, ceObj, ceMeta, ceCert>>
  BY <1>11, Zenon DEF Ensure, SaveMetadata, HandleChallenge, Accept, WaitAuthorization,
                      CleanupChallenge, CreateCert, SaveCertificate, RevokeCert, DeleteCertificate
<1>12. BecomesDue \/ CheckRenewal \/ RevokeOld \/ UNCHANGED ceVars => UNCHANGED <<ceUp, ceObj, ceMeta, ceCert>>
  BY Zenon DEF BecomesDue, CheckRenewal, RevokeOld, ceVars
<1> QED
  BY <1>1, <1>2, <1>3, <1>4, <1>5, <1>6, <1>7, <1>8, <1>9, <1>10, <1>11, <1>12, Zenon DEF CeNext

Cleaning == {"accept", "wait", "cleanup", "undo"}

\* A step that leaves the records of the zone and the calls that clean up.
LEMMA ChallengeKept ==
    ASSUME ChallengeCleaned, UNCHANGED ceTxt, ceBad'.halt = ceBad.halt,
           \A t \in Thread : ceRun[t].pc \in Cleaning => ceRun'[t].pc \in Cleaning /\ ceRun'[t].id = ceRun[t].id
    PROVE  ChallengeCleaned'
BY DEF ChallengeCleaned, Cleaning

\* Every record in the zone keeps a call that will delete it, until a crash.
LEMMA ChallengeStep == CeShape /\ ChallengeCleaned /\ [CeNext]_ceVars => ChallengeCleaned'
<1> SUFFICES ASSUME CeShape, ChallengeCleaned, [CeNext]_ceVars PROVE ChallengeCleaned'
  BY Zenon
<1>w. Worker \in Thread
  BY Zenon DEF Thread
<1>z. Rest \in [pc : CePc, id : 0..ceLast]
  BY DEF Rest, CePc, CeShape
<1>1. ASSUME NEW t \in Thread, NEW pc \in CePc, Goto(t, pc), UNCHANGED ceTxt, ceBad'.halt = ceBad.halt,
             ceRun[t].pc \in Cleaning => pc \in Cleaning
      PROVE  ChallengeCleaned'
  BY <1>1, GotoEffect, ChallengeKept, Zenon
<1>2. ASSUME NEW t \in Thread, ceRun[t].pc \notin Cleaning, UNCHANGED ceTxt, ceBad'.halt = ceBad.halt,
             NEW r, ceRun' = [ceRun EXCEPT ![t] = r]
      PROVE  ChallengeCleaned'
  <2>1. \A u \in Thread \ {t} : ceRun'[u] = ceRun[u]
    BY <1>2, Zenon DEF CeShape
  <2> QED
    BY <1>2, <2>1, ChallengeKept, Zenon
<1>3. ASSUME NEW t \in Thread, Ensure(t) PROVE ChallengeCleaned'
  BY <1>3, <1>1, Zenon DEF Ensure, CePc, Cleaning
<1>4. ASSUME NEW t \in Thread, Issue(t) PROVE ChallengeCleaned'
  BY <1>4, <1>2, Zenon DEF Issue, Cleaning
<1>5. ASSUME NEW t \in Thread, Authorize(t) PROVE ChallengeCleaned'
  BY <1>5, <1>1, CaEffect, Zenon DEF Authorize, CePc, Cleaning
<1>6. ASSUME NEW t \in Thread, SaveMetadata(t) PROVE ChallengeCleaned'
  <2>1. ceRun[t].pc \in {"saveValidating", "saveRenewing", "saveIssued"}
    BY <1>6, Zenon DEF SaveMetadata, AfterSave
  <2>2. ceBad'.halt = ceBad.halt
    BY <1>6, Zenon DEF SaveMetadata, WriteFile, CeShape
  <2>3. PICK r : ceRun' = [ceRun EXCEPT ![t] = r]
    BY <1>6, Zenon DEF SaveMetadata
  <2> QED
    BY <1>6, <2>1, <2>2, <2>3, <1>2, Zenon DEF SaveMetadata, Cleaning
<1>7. ASSUME NEW t \in Thread, HandleChallenge(t) PROVE ChallengeCleaned'
  <2>1. CASE ceTxt' = ceTxt \cup {ceRun[t].id} /\ Goto(t, "accept") /\ UNCHANGED ceBad
    <3>1. ceRun'[t].pc = "accept" /\ ceRun'[t].id = ceRun[t].id /\ \A u \in Thread \ {t} : ceRun'[u] = ceRun[u]
      BY <2>1, GotoEffect, Zenon DEF CePc
    <3> QED
      BY <1>7, <2>1, <3>1 DEF ChallengeCleaned, HandleChallenge
  <2>2. CASE CaFails /\ Goto(t, "fail") /\ UNCHANGED ceTxt
    BY <1>7, <2>2, <1>1, CaEffect, Zenon DEF HandleChallenge, CePc, Cleaning
  <2> QED
    BY <1>7, <2>1, <2>2, Zenon DEF HandleChallenge
<1>8. ASSUME NEW t \in Thread, Accept(t) PROVE ChallengeCleaned'
  BY <1>8, <1>1, CaEffect, Zenon DEF Accept, CePc, Cleaning
<1>9. ASSUME NEW t \in Thread, WaitAuthorization(t) PROVE ChallengeCleaned'
  BY <1>9, <1>1, CaEffect, Zenon DEF WaitAuthorization, CePc, Cleaning
<1>10. ASSUME NEW t \in Thread, CleanupChallenge(t) PROVE ChallengeCleaned'
  BY <1>10, Zenon DEF CleanupChallenge, ChallengeCleaned
<1>11. ASSUME NEW t \in Thread, CreateCert(t) PROVE ChallengeCleaned'
  BY <1>11, <1>1, CaEffect, Zenon DEF CreateCert, CePc, Cleaning
<1>12. ASSUME NEW t \in Thread, SaveCertificate(t) PROVE ChallengeCleaned'
  <2>1. PICK pc \in {"saveKey", "install", "fail"} : Goto(t, pc)
    BY <1>12, Zenon DEF SaveCertificate
  <2>2. ceBad'.halt = ceBad.halt
    BY <1>12, Zenon DEF SaveCertificate, WriteFile, CeShape
  <2> QED
    BY <1>12, <2>1, <2>2, <1>1, Zenon DEF SaveCertificate, CePc, Cleaning
<1>13. ASSUME NEW t \in Thread, Install(t) PROVE ChallengeCleaned'
  BY <1>13, <1>1, Zenon DEF Install, CePc, Cleaning
<1>14. ASSUME NEW t \in Thread, IssueFails(t) PROVE ChallengeCleaned'
  <2>1. PICK r : ceRun' = [ceRun EXCEPT ![t] = r]
    BY <1>14, Zenon DEF IssueFails
  <2> QED
    BY <1>14, <2>1, <1>2, Zenon DEF IssueFails, Cleaning
<1>15. ASSUME NEW t \in Thread, RevokeCertificate(t) PROVE ChallengeCleaned'
  BY <1>15, <1>2, Zenon DEF RevokeCertificate, Cleaning
<1>16. ASSUME NEW t \in Thread, RevokeCert(t) PROVE ChallengeCleaned'
  BY <1>16, <1>1, <1>2, CaEffect, Zenon DEF RevokeCert, CePc, Cleaning
<1>17. ASSUME NEW t \in Thread, DeleteCertificate(t) PROVE ChallengeCleaned'
  BY <1>17, <1>2, Zenon DEF DeleteCertificate, Cleaning
<1>18. CASE BecomesDue \/ UNCHANGED ceVars
  BY <1>18, ChallengeKept, Zenon DEF BecomesDue, ceVars
<1>19. CASE CheckRenewal
  BY <1>19, <1>1, <1>w, Zenon DEF CheckRenewal, CePc, Cleaning
<1>20. CASE Renew
  BY <1>20, <1>1, <1>2, <1>w, Zenon DEF Renew, CePc, Cleaning
<1>21. CASE RevokeOld
  BY <1>21, <1>1, <1>w, CaEffect, Zenon DEF RevokeOld, CePc, Cleaning
<1>22. CASE CountRetry
  BY <1>22, <1>2, <1>w, Zenon DEF CountRetry, Cleaning
<1>23. CASE CeHalt
  <2>1. ceBad'.halt # 0
    BY <1>23 DEF CeHalt, CeShape
  <2> QED
    BY <2>1, Zenon DEF ChallengeCleaned
<1>24. CASE CeStart
  BY <1>24, ChallengeKept, CaEffect, Zenon DEF CeStart, CeStartAny
<1> QED
  BY <1>3, <1>4, <1>5, <1>6, <1>7, <1>8, <1>9, <1>10, <1>11, <1>12, <1>13, <1>14, <1>15, <1>16, <1>17,
     <1>18, <1>19, <1>20, <1>21, <1>22, <1>23, <1>24, Zenon DEF CeNext

LEMMA CertificateInit == CeInit => CertificateSound /\ ChallengeCleaned
BY DEF CeInit, CertificateSound, IssuedServed, ServedOwnsKey, ChallengeCleaned, NoPair

\* Whatever calls of IssueCertificate and RevokeCertificate, renewals, failing
\* writes, crashes and restarts overlap: metadata that says "issued" has a
\* certificate to serve, and a certificate is served with its own key only.
THEOREM CertificatesSafe == CeSpec => []CertificateSound
<1>1. CeInit => CeShape /\ CertificateSound
  BY CeShapeInit, CertificateInit, Zenon
<1>2. CeShape /\ CertificateSound /\ [CeNext]_ceVars => (CeShape /\ CertificateSound)'
  BY CeShapeStep, CertificateStep, Zenon DEF CertificateSound
<1> QED
  BY <1>1, <1>2, PTL DEF CeSpec

\* As long as the relay has not crashed, every challenge record in the zone
\* belongs to a call that is going to run CleanupChallenge.
THEOREM ChallengesCleaned == CeSpec => []ChallengeCleaned
<1>1. CeInit => CeShape /\ CertificateSound /\ ChallengeCleaned
  BY CeShapeInit, CertificateInit, Zenon
<1>2. CeShape /\ CertificateSound /\ ChallengeCleaned /\ [CeNext]_ceVars
        => (CeShape /\ CertificateSound /\ ChallengeCleaned)'
  BY CeShapeStep, CertificateStep, ChallengeStep, Zenon DEF CertificateSound
<1> QED
  BY <1>1, <1>2, PTL DEF CeSpec

\* Metadata that was made has a state, also on disk.
HasState ==
    /\ \A n \in 1..ceLast : ceObj[n].state # "none"
    /\ ceDisk.meta = NoMeta \/ ceDisk.meta.state # "none"

\* Calls that do not overlap.
OneCall ==
    /\ \A t, u \in Thread : t # u => ceRun[t].pc = "idle" \/ ceRun[u].pc = "idle"
    /\ \A t \in Thread : ceRun[t].pc \in Issuing => ceRun[t].id = ceLast

\* The files of the domain, for a call that runs alone: what is served can be
\* loaded, except between the two writes of SaveCertificate.
FilesServe ==
    /\ (ceCert.cert # 0 /\ \A t \in Thread : ceRun[t].pc # "saveKey") =>
           Loadable /\ ceDisk.cert >= ceCert.cert
    /\ \A t \in Thread :
           /\ ceRun[t].pc \in Issuing \ {"authorize", "saveValidating"} => ceDisk.meta # NoMeta
           /\ ceRun[t].pc \in {"saveKey", "install"} => ceDisk.cert = ceLast
           /\ ceRun[t].pc = "install" => ceDisk.key = ceLast
           /\ ceRun[t].pc \in {"revoke", "delete"} => ceCert.cert = 0

\* What a restart relies on, as long as ceSafe says that calls did not overlap
\* and that no write failed or was interrupted.
RestartInv ==
    /\ CeShape /\ CertificateSound /\ HasState
    /\ ~ceUp => \A t \in Thread : ceRun[t].pc = "idle"
    /\ ceSafe => OneCall /\ FilesServe

LEMMA HasStateStep == CeShape /\ HasState /\ [CeNext]_ceVars => HasState'
<1> SUFFICES ASSUME CeShape, HasState, [CeNext]_ceVars PROVE HasState'
  BY Zenon
<1>i. 1..ceLast \subseteq Id
  BY CeAssumption DEF CeShape, Id
<1>1. CASE UNCHANGED <<ceObj, ceLast, ceDisk>>
  BY <1>1, Zenon DEF HasState
<1>2. ASSUME NEW t \in Thread, Issue(t) PROVE HasState'
  <2>1. ceLast + 1 \in Id /\ 1..(ceLast + 1) = 1..ceLast \cup {ceLast + 1}
    BY <1>2, CeAssumption DEF Issue, CeShape, Id
  <2>2. /\ ceLast' = ceLast + 1 /\ ceDisk' = ceDisk /\ ceObj'[ceLast + 1].state = "pending"
        /\ \A n \in 1..ceLast : ceObj'[n] = ceObj[n]
    BY <1>2, <1>i, <2>1, CeAssumption DEF Issue, CeShape, NoMeta
  <2> QED
    BY <2>1, <2>2, Zenon DEF HasState
<1>3. ASSUME UNCHANGED <<ceLast, ceDisk>>,
             \A n \in Id : ceObj'[n].state \in {ceObj[n].state, "validating", "issued", "failed", "renewing"}
      PROVE  HasState'
  BY <1>3, <1>i, Zenon DEF HasState
<1>4. ASSUME NEW t \in Thread, Authorize(t) PROVE HasState'
  <2>1. \A n \in Id : ceObj'[n].state \in {ceObj[n].state, "validating"}
    BY <1>4 DEF Authorize, CeShape, MetaOK
  <2> QED
    BY <1>3, <1>4, <2>1, Zenon DEF Authorize
<1>5. ASSUME NEW t \in Thread, Install(t) PROVE HasState'
  <2>1. \A n \in Id : ceObj'[n].state \in {ceObj[n].state, "issued"}
    BY <1>5, Zenon DEF Install, CeShape, MetaOK
  <2> QED
    BY <1>3, <1>5, <2>1, Zenon DEF Install
<1>6. ASSUME NEW t \in Thread, IssueFails(t) PROVE HasState'
  <2>1. \A n \in Id : ceObj'[n].state \in {ceObj[n].state, "failed"}
    BY <1>6, Zenon DEF IssueFails, CeShape, MetaOK
  <2> QED
    BY <1>3, <1>6, <2>1, Zenon DEF IssueFails
<1>7. CASE Renew
  <2>1. \A n \in Id : ceObj'[n].state \in {ceObj[n].state, "renewing"}
    BY <1>7 DEF Renew, CeShape, MetaOK
  <2> QED
    BY <1>3, <1>7, <2>1, Zenon DEF Renew
<1>8. CASE CountRetry
  <2>1. \A n \in Id : ceObj'[n].state \in {ceObj[n].state, "failed"}
    BY <1>8, Zenon DEF CountRetry, CeShape, MetaOK
  <2> QED
    BY <1>3, <1>8, <2>1, Zenon DEF CountRetry
<1>9. ASSUME NEW t \in Thread, SaveMetadata(t) PROVE HasState'
  <2>1. ceRun[t].id \in 1..ceLast
    BY <1>9, CeAssumption DEF SaveMetadata, AfterSave, CeShape, Issuing
  <2>2. ceDisk'.meta \in {ceDisk.meta, NoMeta, ceObj[ceRun[t].id]} /\ UNCHANGED <<ceObj, ceLast>>
    BY <1>9, Zenon DEF SaveMetadata, WriteFile, CeShape
  <2> QED
    BY <2>1, <2>2, Zenon DEF HasState
<1>10. ASSUME NEW t \in Thread, SaveCertificate(t) PROVE HasState'
  <2>1. ceDisk'.meta = ceDisk.meta /\ UNCHANGED <<ceObj, ceLast>>
    BY <1>10, Zenon DEF SaveCertificate, WriteFile, CeShape
  <2> QED
    BY <2>1, Zenon DEF HasState
<1>11. ASSUME NEW t \in Thread, DeleteCertificate(t) PROVE HasState'
  BY <1>11, Zenon DEF DeleteCertificate, HasState, NoFiles
<1>12. CASE CeHalt
  <2>1. PICK t \in Thread : ceDisk' \in Torn(t)
    BY <1>12, Zenon DEF CeHalt
  <2>2. ceDisk'.meta \in {ceDisk.meta, NoMeta} /\ UNCHANGED <<ceObj, ceLast>>
    BY <1>12, <2>1, Zenon DEF CeHalt, Torn, CeShape
  <2> QED
    BY <2>2, Zenon DEF HasState
<1>13. CASE CeStart
  <2>1. CASE ceLast' = ceLast
    <3>1. UNCHANGED <<ceObj, ceLast, ceDisk>>
      BY <1>13, <2>1, CeAssumption DEF CeStart, CeStartAny, CeShape
    <3> QED
      BY <3>1, <1>1, Zenon
  <2>2. CASE ceLast' # ceLast
    <3>1. ceLast + 1 \in Id /\ 1..(ceLast + 1) = 1..ceLast \cup {ceLast + 1}
      BY <1>13, CeAssumption DEF CeStart, CeStartAny, CeShape, Id
    <3>2. /\ ceLast' = ceLast + 1 /\ ceDisk' = ceDisk /\ ceObj'[ceLast + 1] = ceDisk.meta
          /\ \A n \in 1..ceLast : ceObj'[n] = ceObj[n]
          /\ ceDisk.meta # NoMeta
      BY <1>13, <1>i, <2>2, <3>1, CeAssumption DEF CeStart, CeStartAny, CeShape, Loadable, Listed
    <3> QED
      BY <3>1, <3>2, Zenon DEF HasState
  <2> QED
    BY <2>1, <2>2, Zenon
<1>14. ASSUME NEW t \in Thread,
              \/ Ensure(t) \/ HandleChallenge(t) \/ Accept(t) \/ WaitAuthorization(t)
              \/ CleanupChallenge(t) \/ CreateCert(t) \/ RevokeCertificate(t) \/ RevokeCert(t)
       PROVE  UNCHANGED <<ceObj, ceLast, ceDisk>>
  BY <1>14, Zenon DEF Ensure, HandleChallenge, Accept, WaitAuthorization,
                      CleanupChallenge, CreateCert, RevokeCertificate, RevokeCert
<1>15. BecomesDue \/ CheckRenewal \/ RevokeOld \/ UNCHANGED ceVars => UNCHANGED <<ceObj, ceLast, ceDisk>>
  BY Zenon DEF BecomesDue, CheckRenewal, RevokeOld, ceVars
<1> QED
  BY <1>1, <1>2, <1>4, <1>5, <1>6, <1>7, <1>8, <1>9, <1>10, <1>11, <1>12, <1>13, <1>14, <1>15, Zenon DEF CeNext

\* A relay that is down has no calls.
LEMMA DownIdle ==
    CeShape /\ (~ceUp => \A t \in Thread : ceRun[t].pc = "idle") /\ [CeNext]_ceVars
        => (~ceUp => \A t \in Thread : ceRun[t].pc = "idle")'
<1> SUFFICES ASSUME CeShape, ~ceUp => \A t \in Thread : ceRun[t].pc = "idle", [CeNext]_ceVars, ~ceUp'
             PROVE  \A t \in Thread : ceRun'[t].pc = "idle"
  BY Zenon
<1>1. CASE CeHalt
  BY <1>1, Zenon DEF CeHalt, Rest
<1>2. CASE UNCHANGED ceVars
  BY <1>2, Zenon DEF ceVars
<1>3. ASSUME NEW t \in Thread,
             \/ Ensure(t) \/ Issue(t) \/ Authorize(t) \/ SaveMetadata(t)
             \/ HandleChallenge(t) \/ Accept(t) \/ WaitAuthorization(t)
             \/ CleanupChallenge(t) \/ CreateCert(t) \/ SaveCertificate(t)
             \/ Install(t) \/ IssueFails(t)
             \/ RevokeCertificate(t) \/ RevokeCert(t) \/ DeleteCertificate(t)
      PROVE  FALSE
  BY <1>3, SMTT(20) DEF Ensure, Issue, Authorize, SaveMetadata, HandleChallenge, Accept, WaitAuthorization,
                     CleanupChallenge, CreateCert, SaveCertificate, Install, IssueFails,
                     RevokeCertificate, RevokeCert, DeleteCertificate
<1>4. ~(BecomesDue \/ CheckRenewal \/ Renew \/ RevokeOld \/ CountRetry)
  <2>1. ~(BecomesDue \/ CheckRenewal \/ Renew \/ RevokeOld)
    BY SMTT(20) DEF BecomesDue, CheckRenewal, Renew, RevokeOld
  <2>2. ~CountRetry
    <3>1. CountRetry => ceUp /\ ceUp' = ceUp
      BY Zenon DEF CountRetry
    <3> QED
      BY <3>1
  <2> QED
    BY <2>1, <2>2, Zenon
<1>5. ~CeStart
  BY Zenon DEF CeStart, CeStartAny
<1> QED
  BY <1>1, <1>2, <1>3, <1>4, <1>5, Zenon DEF CeNext


\* ceSafe never comes back.
LEMMA SafeFalls == CeShape /\ [CeNext]_ceVars /\ ceSafe' => ceSafe
<1> SUFFICES ASSUME CeShape, [CeNext]_ceVars, ceSafe' PROVE ceSafe
  BY Zenon
<1>1. ASSUME NEW t \in Thread, Ensure(t) \/ RevokeCertificate(t) PROVE ceSafe
  BY <1>1, Zenon DEF Ensure, RevokeCertificate
<1>2. ASSUME NEW t \in Thread, SaveMetadata(t) \/ SaveCertificate(t) PROVE ceSafe
  BY <1>2, Zenon DEF SaveMetadata, SaveCertificate, WriteFile
<1>3. ASSUME NEW t \in Thread,
             \/ Issue(t) \/ Authorize(t)
             \/ HandleChallenge(t) \/ Accept(t) \/ WaitAuthorization(t)
             \/ CleanupChallenge(t) \/ CreateCert(t)
             \/ Install(t) \/ IssueFails(t) \/ RevokeCert(t) \/ DeleteCertificate(t)
      PROVE  UNCHANGED ceSafe
  BY <1>3, Zenon DEF Issue, Authorize, HandleChallenge, Accept, WaitAuthorization,
                     CleanupChallenge, CreateCert, Install, IssueFails, RevokeCert, DeleteCertificate
<1>4. BecomesDue \/ Renew \/ RevokeOld \/ CountRetry \/ UNCHANGED ceVars => UNCHANGED ceSafe
  BY Zenon DEF BecomesDue, Renew, RevokeOld, CountRetry, ceVars
<1>5. CheckRenewal \/ CeHalt => ceSafe
  BY Zenon DEF CheckRenewal, CeHalt
<1>6. CeStart => ceSafe
  BY Zenon DEF CeStart, CeStartAny
<1> QED
  BY <1>1, <1>2, <1>3, <1>4, <1>5, <1>6, Zenon DEF CeNext

\* A step of the only call that moves it from p to q.
LEMMA OneCallMove ==
    ASSUME CeShape, NEW t \in Thread,
           \A u \in Thread \ {t} : ceRun[u].pc = "idle" /\ ceRun'[u] = ceRun[u],
           ceRun'[t].pc \in Issuing => ceRun'[t].id = ceLast'
    PROVE  OneCall'
BY DEF OneCall, Issuing

\* A step of the only call that leaves the files and the certificate.
LEMMA FilesMove ==
    ASSUME CeShape, FilesServe, NEW t \in Thread,
           \A u \in Thread \ {t} : ceRun[u].pc = "idle" /\ ceRun'[u] = ceRun[u],
           UNCHANGED <<ceDisk, ceCert>>,
           ceRun[t].pc # "saveKey", ceRun'[t].pc \notin {"saveKey", "install"},
           ceRun'[t].pc \in Issuing \ {"authorize", "saveValidating"}
              => ceRun[t].pc \in Issuing \ {"authorize", "saveValidating"},
           ceRun'[t].pc \in {"revoke", "delete"} => ceRun[t].pc \in {"revoke", "delete"}
    PROVE  FilesServe'
<1>1. \A u \in Thread : ceRun[u].pc # "saveKey"
  BY Zenon
<1>2. \A u \in Thread \ {t} : ceRun'[u].pc = "idle"
  BY Zenon
<1>3. (ceCert.cert # 0 => Loadable /\ ceDisk.cert >= ceCert.cert)'
  BY <1>1, Zenon DEF FilesServe, Loadable, Listed
<1>4. ceRun'[t].pc \in Issuing \ {"authorize", "saveValidating"} => ceDisk'.meta # NoMeta
  BY Zenon DEF FilesServe
<1>5. ceRun'[t].pc \in {"revoke", "delete"} => ceCert'.cert = 0
  BY Zenon DEF FilesServe
<1> QED
  BY <1>2, <1>3, <1>4, <1>5, Zenon DEF FilesServe, Issuing

LEMMA SafeStep ==
    ASSUME CeShape, HasState, OneCall, FilesServe, CeNext, ceSafe',
           ~ceUp => \A t \in Thread : ceRun[t].pc = "idle"
    PROVE  OneCall' /\ FilesServe'
<1>w. Worker \in Thread
  BY Zenon DEF Thread
<1>a. ASSUME NEW t \in Thread, ceRun[t].pc # "idle" PROVE Alone(t)
  BY <1>a, Zenon DEF OneCall, Alone
<1>z. Rest.pc = "idle" /\ \A p, n : At(p, n).pc = p /\ At(p, n).id = n
  BY Zenon DEF Rest, At
\* A step that only moves a call, by Goto.
<1>g. ASSUME NEW t \in Thread, NEW q \in CePc, Alone(t), Goto(t, q), UNCHANGED <<ceDisk, ceCert, ceLast>>,
             q \in Issuing => ceRun[t].pc \in Issuing,
             ceRun[t].pc # "saveKey", q \notin {"saveKey", "install"},
             q \in Issuing \ {"authorize", "saveValidating"}
                => ceRun[t].pc \in Issuing \ {"authorize", "saveValidating"},
             q \in {"revoke", "delete"} => ceRun[t].pc \in {"revoke", "delete"}
      PROVE  OneCall' /\ FilesServe'
  <2>1. /\ ceRun'[t].pc = q /\ ceRun'[t].id = ceRun[t].id
        /\ \A u \in Thread \ {t} : ceRun[u].pc = "idle" /\ ceRun'[u] = ceRun[u]
    BY <1>g, GotoEffect, Zenon DEF Alone
  <2>2. ceRun'[t].pc \in Issuing => ceRun'[t].id = ceLast'
    BY <1>g, <2>1, Zenon DEF OneCall
  <2>3. OneCall'
    BY <2>1, <2>2, OneCallMove, Zenon
  <2> HIDE <1>g
  <2>4. FilesServe'
    BY <1>g, <2>1, FilesMove, Zenon
  <2> QED
    BY <2>3, <2>4, Zenon
\* A call that ends.
<1>e. ASSUME NEW t \in Thread, NEW r, Alone(t), r.pc \in {"idle", "retry", "saveRenewing"},
             ceRun' = [ceRun EXCEPT ![t] = r], ceRun[t].pc # "saveKey", UNCHANGED <<ceDisk, ceCert>>
      PROVE  OneCall' /\ FilesServe'
  <2>1. /\ ceRun'[t] = r
        /\ \A u \in Thread \ {t} : ceRun[u].pc = "idle" /\ ceRun'[u] = ceRun[u]
    BY <1>e, Zenon DEF Alone, CeShape
  <2>2. r.pc \notin Issuing \cup {"revoke", "delete", "saveKey", "install"}
    BY <1>e, Zenon DEF Issuing
  <2>3. OneCall'
    BY <2>1, <2>2, OneCallMove, Zenon
  <2>4. FilesServe'
    BY <1>e, <2>1, <2>2, FilesMove, Zenon
  <2> QED
    BY <2>3, <2>4, Zenon
<1> DEFINE Goal == OneCall' /\ FilesServe'
<1>1. ASSUME NEW t \in Thread, Ensure(t) PROVE Goal
  <2>1. Alone(t) /\ Goto(t, "issue") /\ UNCHANGED <<ceDisk, ceCert, ceLast>> /\ ceRun[t].pc = "idle"
    BY <1>1, Zenon DEF Ensure
  <2>2. "issue" \in CePc /\ "issue" \notin Issuing
    BY Zenon DEF CePc, Issuing
  <2> QED
    BY <2>1, <2>2, <1>g, Zenon
<1>2. ASSUME NEW t \in Thread, Issue(t) PROVE Goal
  <2> DEFINE n == ceLast + 1
  <2>1. /\ ceRun'[t].pc = "authorize" /\ ceRun'[t].id = ceLast'
        /\ \A u \in Thread \ {t} : ceRun[u].pc = "idle" /\ ceRun'[u] = ceRun[u]
        /\ UNCHANGED <<ceDisk, ceCert>> /\ ceRun[t].pc = "issue"
    <3>1. ceRun' = [ceRun EXCEPT ![t] = At("authorize", n)] /\ ceLast' = n /\ ceRun[t].pc = "issue"
          /\ UNCHANGED <<ceDisk, ceCert>>
      BY <1>2, Zenon DEF Issue
    <3> QED
      BY <3>1, <1>a, <1>z DEF Alone, CeShape
  <2>2. OneCall'
    BY <2>1, OneCallMove, Zenon
  <2>3. FilesServe'
    BY <2>1, FilesMove, Zenon
  <2> QED
    BY <2>2, <2>3, Zenon
<1>3. ASSUME NEW t \in Thread, Authorize(t) PROVE Goal
  <2>1. PICK q \in {"saveValidating", "fail"} : Goto(t, q)
    BY <1>3, Zenon DEF Authorize
  <2>2. UNCHANGED <<ceDisk, ceCert, ceLast>> /\ ceRun[t].pc = "authorize"
    BY <1>3, Zenon DEF Authorize
  <2> QED
    BY <2>1, <2>2, <1>a, <1>g, Zenon DEF CePc, Issuing
<1>4. ASSUME NEW t \in Thread, HandleChallenge(t) PROVE Goal
  <2>1. PICK q \in {"accept", "fail"} : Goto(t, q)
    BY <1>4, Zenon DEF HandleChallenge
  <2>2. UNCHANGED <<ceDisk, ceCert, ceLast>> /\ ceRun[t].pc = "challenge"
    BY <1>4, Zenon DEF HandleChallenge
  <2> QED
    BY <2>1, <2>2, <1>a, <1>g, Zenon DEF CePc, Issuing
<1>5. ASSUME NEW t \in Thread, Accept(t) PROVE Goal
  <2>1. PICK q \in {"wait", "undo"} : Goto(t, q)
    BY <1>5, Zenon DEF Accept
  <2>2. UNCHANGED <<ceDisk, ceCert, ceLast>> /\ ceRun[t].pc = "accept"
    BY <1>5, Zenon DEF Accept
  <2> QED
    BY <2>1, <2>2, <1>a, <1>g, Zenon DEF CePc, Issuing
<1>6. ASSUME NEW t \in Thread, WaitAuthorization(t) PROVE Goal
  <2>1. PICK q \in {"cleanup", "undo"} : Goto(t, q)
    BY <1>6, Zenon DEF WaitAuthorization
  <2>2. UNCHANGED <<ceDisk, ceCert, ceLast>> /\ ceRun[t].pc = "wait"
    BY <1>6, Zenon DEF WaitAuthorization
  <2> QED
    BY <2>1, <2>2, <1>a, <1>g, Zenon DEF CePc, Issuing
<1>7. ASSUME NEW t \in Thread, CleanupChallenge(t) PROVE Goal
  <2>1. PICK q \in {"create", "fail"} : Goto(t, q)
    BY <1>7, Zenon DEF CleanupChallenge
  <2>2. UNCHANGED <<ceDisk, ceCert, ceLast>> /\ ceRun[t].pc \in {"cleanup", "undo"}
    BY <1>7, Zenon DEF CleanupChallenge
  <2> QED
    BY <2>1, <2>2, <1>a, <1>g, Zenon DEF CePc, Issuing
<1>8. ASSUME NEW t \in Thread, CreateCert(t) PROVE Goal
  <2>1. PICK q \in {"saveCert", "fail"} : Goto(t, q)
    BY <1>8, Zenon DEF CreateCert
  <2>2. UNCHANGED <<ceDisk, ceCert, ceLast>> /\ ceRun[t].pc = "create"
    BY <1>8, Zenon DEF CreateCert
  <2> QED
    BY <2>1, <2>2, <1>a, <1>g, Zenon DEF CePc, Issuing
<1>9. ASSUME NEW t \in Thread, IssueFails(t) PROVE Goal
  <2>1. PICK r \in {At("retry", 0), Rest} : ceRun' = [ceRun EXCEPT ![t] = r]
    BY <1>9, Zenon DEF IssueFails
  <2>2. UNCHANGED <<ceDisk, ceCert>> /\ ceRun[t].pc = "fail" /\ r.pc \in {"idle", "retry"}
    BY <1>9, <2>1, <1>z DEF IssueFails
  <2> QED
    BY <2>1, <2>2, <1>a, <1>e, Zenon
<1>10. CASE CheckRenewal
  <2>1. Alone(Worker) /\ Goto(Worker, "renew") /\ UNCHANGED <<ceDisk, ceCert, ceLast>>
        /\ ceRun[Worker].pc = "idle"
    BY <1>10, Zenon DEF CheckRenewal
  <2>2. "renew" \in CePc /\ "renew" \notin Issuing
    BY Zenon DEF CePc, Issuing
  <2> QED
    BY <2>1, <2>2, <1>w, <1>g, Zenon
<1>11. CASE Renew
  <2>1. UNCHANGED <<ceDisk, ceCert, ceLast>> /\ ceRun[Worker].pc = "renew"
    BY <1>11, Zenon DEF Renew
  <2>2. CASE Goto(Worker, "retry")
    BY <2>1, <2>2, <1>a, <1>g, <1>w, Zenon DEF CePc, Issuing
  <2>3. CASE ceRun' = [ceRun EXCEPT ![Worker] = At("saveRenewing", ceMeta)]
    <3> DEFINE r == At("saveRenewing", ceMeta)
    <3>1. r.pc = "saveRenewing" /\ ceRun' = [ceRun EXCEPT ![Worker] = r] /\ Alone(Worker)
      BY <2>1, <2>3, <1>a, <1>w, <1>z, Zenon
    <3> HIDE DEF r
    <3> QED
      BY <2>1, <3>1, <1>e, <1>w, Zenon
  <2> QED
    BY <1>11, <2>2, <2>3, Zenon DEF Renew
<1>12. CASE RevokeOld
  <2>1. UNCHANGED <<ceDisk, ceCert, ceLast>> /\ ceRun[Worker].pc = "revokeOld" /\ Goto(Worker, "issue")
    BY <1>12, Zenon DEF RevokeOld
  <2> QED
    BY <2>1, <1>a, <1>g, <1>w, Zenon DEF CePc, Issuing
<1>13. CASE CountRetry
  <2>1. UNCHANGED <<ceDisk, ceCert>> /\ ceRun[Worker].pc = "retry" /\ ceRun' = [ceRun EXCEPT ![Worker] = Rest]
    BY <1>13, Zenon DEF CountRetry
  <2> QED
    BY <2>1, <1>a, <1>e, <1>w, <1>z, Zenon
<1>14. ASSUME NEW t \in Thread, RevokeCert(t) PROVE Goal
  <2>1. UNCHANGED <<ceDisk, ceCert, ceLast>> /\ ceRun[t].pc = "revoke"
    BY <1>14, Zenon DEF RevokeCert
  <2>2. CASE Goto(t, "delete")
    BY <2>1, <2>2, <1>a, <1>g, Zenon DEF CePc, Issuing
  <2>3. CASE ceRun' = [ceRun EXCEPT ![t] = Rest]
    BY <2>1, <2>3, <1>a, <1>e, <1>z, Zenon
  <2> QED
    BY <1>14, <2>2, <2>3, Zenon DEF RevokeCert
<1>15. CASE BecomesDue
  <2>1. UNCHANGED <<ceDisk, ceCert, ceLast, ceRun>>
    BY <1>15, Zenon DEF BecomesDue
  <2> QED
    BY <2>1, Zenon DEF OneCall, FilesServe, Loadable, Listed
<1>16. ASSUME NEW t \in Thread, RevokeCertificate(t) PROVE Goal
  <2>1. /\ Alone(t) /\ UNCHANGED <<ceDisk, ceLast>> /\ ceCert'.cert = 0
        /\ ceRun' = [ceRun EXCEPT ![t] = At("revoke", ceCert.cert)]
    BY <1>16, Zenon DEF RevokeCertificate, NoPair
  <2>2. /\ ceRun'[t].pc = "revoke"
        /\ \A u \in Thread \ {t} : ceRun[u].pc = "idle" /\ ceRun'[u] = ceRun[u]
    BY <2>1, <1>z, Zenon DEF Alone, CeShape
  <2>3. OneCall'
    BY <2>2, OneCallMove, Zenon DEF Issuing
  <2>4. FilesServe'
    BY <2>1, <2>2, Zenon DEF FilesServe, Issuing
  <2> QED
    BY <2>3, <2>4, Zenon
<1>17. ASSUME NEW t \in Thread, DeleteCertificate(t) PROVE Goal
  <2>1. /\ ceRun[t].pc = "delete" /\ UNCHANGED <<ceCert, ceLast>> /\ ceRun' = [ceRun EXCEPT ![t] = Rest]
    BY <1>17, Zenon DEF DeleteCertificate
  <2>2. /\ ceRun'[t].pc = "idle"
        /\ \A u \in Thread \ {t} : ceRun[u].pc = "idle" /\ ceRun'[u] = ceRun[u]
    BY <2>1, <1>a, <1>z, Zenon DEF Alone, CeShape
  <2>3. OneCall'
    BY <2>2, OneCallMove, Zenon DEF Issuing
  <2>4. ceCert'.cert = 0
    BY <2>1, Zenon DEF FilesServe
  <2>5. FilesServe'
    BY <2>2, <2>4, Zenon DEF FilesServe, Issuing
  <2> QED
    BY <2>3, <2>5, Zenon
<1>18. ASSUME NEW t \in Thread, Install(t) PROVE Goal
  <2> DEFINE n == ceRun[t].id
  <2>1. /\ ceRun[t].pc = "install" /\ Goto(t, "saveIssued") /\ UNCHANGED <<ceDisk, ceLast>>
        /\ ceCert'.cert = n
    BY <1>18, Zenon DEF Install
  <2>2. n = ceLast /\ n # 0
    BY <2>1, Zenon DEF OneCall, CeShape, Issuing
  <2>3. /\ ceRun'[t].pc = "saveIssued" /\ ceRun'[t].id = ceLast
        /\ \A u \in Thread \ {t} : ceRun[u].pc = "idle" /\ ceRun'[u] = ceRun[u]
    BY <2>1, <2>2, <1>a, GotoEffect, Zenon DEF Alone, CePc
  <2>4. ceDisk.cert = ceLast /\ ceDisk.key = ceLast /\ ceDisk.meta # NoMeta
    BY <2>1, Zenon DEF FilesServe, Issuing
  <2>5. OneCall'
    BY <2>1, <2>3, OneCallMove, Zenon
  <2>6. (Loadable /\ ceDisk.cert >= ceCert.cert)'
    BY <2>1, <2>2, <2>4 DEF Loadable, Listed, CeShape
  <2>7. FilesServe'
    BY <2>1, <2>3, <2>4, <2>6, Zenon DEF FilesServe
  <2> QED
    BY <2>5, <2>7, Zenon
<1>19. ASSUME NEW t \in Thread, SaveMetadata(t) PROVE Goal
  <2> DEFINE m == ceObj[ceRun[t].id]
  <2>1. /\ ceRun[t].pc \in DOMAIN AfterSave /\ UNCHANGED <<ceCert, ceLast>>
        /\ ceRun' = [ceRun EXCEPT ![t] = IF @.pc = "saveIssued" THEN Rest ELSE At(AfterSave[@.pc], @.id)]
    BY <1>19, Zenon DEF SaveMetadata
  <2>2. ceRun[t].id \in 1..ceLast /\ ceRun[t].id \in Id
    BY <2>1, CeAssumption DEF AfterSave, CeShape, Issuing, Id
  <2>3. m \in MetaOK /\ NoMeta \in MetaOK /\ m.state # "none" /\ m # NoMeta
    BY <2>2 DEF CeShape, HasState, MetaOK, NoMeta, CertState
  <2>4. PICK ok \in BOOLEAN : WriteFile("meta", m, NoMeta, ok)
    BY <1>19, Zenon DEF SaveMetadata
  <2>5. /\ ceDisk'.meta = m /\ ceDisk'.cert = ceDisk.cert /\ ceDisk'.key = ceDisk.key
    BY <2>3, <2>4, WriteEffect, Zenon
  <2>6. \A u \in Thread \ {t} : ceRun[u].pc = "idle" /\ ceRun'[u] = ceRun[u]
    <3>1. Alone(t)
      BY <2>1, <1>a, Zenon DEF AfterSave
    <3> QED
      BY <2>1, <3>1, Zenon DEF Alone, CeShape
  <2>7. \/ ceRun[t].pc = "saveValidating" /\ ceRun'[t].pc = "challenge" /\ ceRun'[t].id = ceRun[t].id
        \/ ceRun[t].pc = "saveRenewing" /\ ceRun'[t].pc = "revokeOld"
        \/ ceRun[t].pc = "saveIssued" /\ ceRun'[t].pc = "idle"
    BY <2>1, <1>z DEF AfterSave, CeShape
  <2>8. ceRun'[t].pc \in Issuing => ceRun'[t].id = ceLast'
    BY <2>1, <2>7, Zenon DEF OneCall, Issuing
  <2>9. OneCall'
    BY <2>6, <2>8, OneCallMove, Zenon
  <2>10. (ceCert.cert # 0 => Loadable /\ ceDisk.cert >= ceCert.cert)'
    <3>1. \A u \in Thread : ceRun[u].pc # "saveKey"
      BY <2>6, <2>7, Zenon
    <3> QED
      BY <2>1, <2>3, <2>5, <3>1, Zenon DEF FilesServe, Loadable, Listed
  <2>11. FilesServe'
    BY <2>3, <2>5, <2>6, <2>7, <2>10, Zenon DEF FilesServe
  <2> QED
    BY <2>9, <2>11, Zenon
<1>20. ASSUME NEW t \in Thread, SaveCertificate(t) PROVE Goal
  <2>1. ceRun[t].pc \in {"saveCert", "saveKey"} /\ UNCHANGED <<ceCert, ceLast>>
    BY <1>20, Zenon DEF SaveCertificate
  <2>2. ceRun[t].id = ceLast /\ ceLast \in 0..ceLast /\ 0 \in 0..ceLast /\ ceLast # 0
    BY <2>1, CeAssumption DEF OneCall, CeShape, Issuing
  <2>3. Alone(t) /\ ceDisk.meta # NoMeta
    BY <2>1, <1>a, Zenon DEF FilesServe, Issuing
  <2>4. CASE ceRun[t].pc = "saveCert"
    <3>1. PICK ok \in BOOLEAN : WriteFile("cert", ceRun[t].id, 0, ok) /\ Goto(t, IF ~ok THEN "fail" ELSE "saveKey")
      BY <1>20, <2>4, Zenon DEF SaveCertificate
    <3>2. ok /\ ceDisk'.cert = ceLast /\ ceDisk'.meta = ceDisk.meta
      BY <2>2, <3>1, WriteEffect, Zenon
    <3>3. /\ ceRun'[t].pc = "saveKey" /\ ceRun'[t].id = ceLast
          /\ \A u \in Thread \ {t} : ceRun[u].pc = "idle" /\ ceRun'[u] = ceRun[u]
      BY <2>2, <2>3, <3>1, <3>2, GotoEffect, Zenon DEF Alone, CePc
    <3>4. OneCall'
      BY <2>1, <3>3, OneCallMove, Zenon
    <3>5. FilesServe'
      BY <2>1, <2>3, <3>2, <3>3, Zenon DEF FilesServe
    <3> QED
      BY <3>4, <3>5, Zenon
  <2>5. CASE ceRun[t].pc = "saveKey"
    <3>1. PICK ok \in BOOLEAN : WriteFile("key", ceRun[t].id, 0, ok) /\ Goto(t, IF ~ok THEN "fail" ELSE "install")
      BY <1>20, <2>5, Zenon DEF SaveCertificate
    <3>2. ok /\ ceDisk'.key = ceLast /\ ceDisk'.meta = ceDisk.meta /\ ceDisk'.cert = ceDisk.cert
      BY <2>2, <3>1, WriteEffect, Zenon
    <3>3. /\ ceRun'[t].pc = "install" /\ ceRun'[t].id = ceLast
          /\ \A u \in Thread \ {t} : ceRun[u].pc = "idle" /\ ceRun'[u] = ceRun[u]
      BY <2>2, <2>3, <3>1, <3>2, GotoEffect, Zenon DEF Alone, CePc
    <3>4. OneCall'
      BY <2>1, <3>3, OneCallMove, Zenon
    <3>5. ceDisk'.cert = ceLast
      BY <2>5, <3>2, Zenon DEF FilesServe
    <3>6. (Loadable /\ ceDisk.cert >= ceCert.cert)'
      BY <2>1, <2>2, <2>3, <3>2, <3>5 DEF Loadable, Listed, CeShape
    <3>7. FilesServe'
      BY <2>1, <2>3, <3>2, <3>3, <3>5, <3>6, Zenon DEF FilesServe
    <3> QED
      BY <3>4, <3>7, Zenon
  <2> QED
    BY <2>1, <2>4, <2>5, Zenon
<1>21. CASE CeHalt
  <2>1. /\ ceDisk' = ceDisk /\ ceCert' = ceCert /\ \A t \in Thread : ceRun[t].pc # "saveKey"
        /\ \A t \in Thread : ceRun'[t].pc = "idle"
    BY <1>21, <1>z, Zenon DEF CeHalt
  <2>2. OneCall'
    BY <2>1, Zenon DEF OneCall, Issuing
  <2>3. FilesServe'
    BY <2>1, Zenon DEF FilesServe, Issuing, Loadable, Listed
  <2> QED
    BY <2>2, <2>3, Zenon
<1>22. CASE CeStart
  <2>1. /\ ceDisk' = ceDisk /\ ceRun' = ceRun /\ \A t \in Thread : ceRun[t].pc = "idle"
        /\ \/ Loadable /\ ceCert'.cert = ceDisk.cert
           \/ ceCert'.cert = 0
    <3>1. \/ Loadable /\ ceCert' = [cert |-> ceDisk.cert, key |-> ceDisk.key]
          \/ ~Loadable /\ ceCert' = NoPair
          \/ ~ceSafe'
      BY <1>22, Zenon DEF CeStart, CeStartAny
    <3>2. ceDisk' = ceDisk /\ ceRun' = ceRun /\ ~ceUp
      BY <1>22, Zenon DEF CeStart, CeStartAny
    <3> QED
      BY <3>1, <3>2 DEF NoPair
  <2>2. OneCall'
    BY <2>1, Zenon DEF OneCall, Issuing
  <2>3. (ceCert.cert # 0 => Loadable /\ ceDisk.cert >= ceCert.cert)'
    BY <2>1 DEF Loadable, Listed, CeShape
  <2>4. FilesServe'
    BY <2>1, <2>3, Zenon DEF FilesServe, Issuing
  <2> QED
    BY <2>2, <2>4, Zenon
<1> QED
  BY <1>1, <1>2, <1>3, <1>4, <1>5, <1>6, <1>7, <1>8, <1>9, <1>10, <1>11, <1>12, <1>13, <1>14, <1>15,
     <1>16, <1>17, <1>18, <1>19, <1>20, <1>21, <1>22, Zenon DEF CeNext

\* A restart serves the certificate served before, or a newer one, wherever an
\* issue, a renewal or a revocation that ran alone was stopped: the files can be
\* loaded except between the two writes of SaveCertificate.
THEOREM RestartsServe == CeSpec => RestartServes
<1>1. CeInit => RestartInv
  <2>1. CeInit => HasState /\ OneCall /\ FilesServe
    BY DEF CeInit, HasState, OneCall, FilesServe, NoPair, NoFiles, NoMeta, Rest, Issuing
  <2>2. CeInit => ceUp
    BY Zenon DEF CeInit
  <2> QED
    BY <2>1, <2>2, CeShapeInit, CertificateInit, Zenon DEF RestartInv
<1>2. RestartInv /\ [CeNext]_ceVars => RestartInv'
  <2> SUFFICES ASSUME RestartInv, [CeNext]_ceVars PROVE RestartInv'
    BY Zenon
  <2>1. CeShape' /\ CertificateSound' /\ HasState' /\ (~ceUp => \A t \in Thread : ceRun[t].pc = "idle")'
    BY CeShapeStep, CertificateStep, HasStateStep, DownIdle, Zenon DEF RestartInv, CertificateSound
  <2>2. ASSUME ceSafe' PROVE OneCall' /\ FilesServe'
    <3>1. OneCall /\ FilesServe
      BY <2>2, SafeFalls, Zenon DEF RestartInv
    <3>2. CASE CeNext
      BY <2>2, <3>1, <3>2, SafeStep, Zenon DEF RestartInv
    <3>3. CASE UNCHANGED ceVars
      BY <3>1, <3>3, Zenon DEF ceVars, OneCall, FilesServe, Loadable, Listed
    <3> QED
      BY <3>2, <3>3, Zenon
  <2> QED
    BY <2>1, <2>2, Zenon DEF RestartInv
<1>3. RestartInv /\ [CeNext]_ceVars
        => [~ceUp /\ ceUp' /\ ceSafe' => ceCert'.cert >= ceCert.cert]_ceVars
  <2> SUFFICES ASSUME RestartInv, CeNext, ~ceUp, ceUp', ceSafe' PROVE ceCert'.cert >= ceCert.cert
    BY Zenon
  <2>1. FilesServe /\ (\A t \in Thread : ceRun[t].pc = "idle") /\ CeShape /\ CeShape'
    BY SafeFalls, CeShapeStep, Zenon DEF RestartInv, CertificateSound
  <2>2. CeStart
    <3>1. ASSUME NEW t \in Thread,
                 \/ Ensure(t) \/ Issue(t) \/ Authorize(t) \/ SaveMetadata(t)
                 \/ HandleChallenge(t) \/ Accept(t) \/ WaitAuthorization(t)
                 \/ CleanupChallenge(t) \/ CreateCert(t) \/ SaveCertificate(t)
                 \/ Install(t) \/ IssueFails(t)
                 \/ RevokeCertificate(t) \/ RevokeCert(t) \/ DeleteCertificate(t)
          PROVE  FALSE
      BY <3>1, Zenon DEF Ensure, Issue, Authorize, SaveMetadata, HandleChallenge, Accept, WaitAuthorization,
                         CleanupChallenge, CreateCert, SaveCertificate, Install, IssueFails,
                         RevokeCertificate, RevokeCert, DeleteCertificate
    <3>2. ~(BecomesDue \/ CheckRenewal \/ Renew \/ RevokeOld \/ CountRetry \/ CeHalt)
      BY Zenon DEF BecomesDue, CheckRenewal, Renew, RevokeOld, CountRetry, CeHalt
    <3> QED
      BY <3>1, <3>2, Zenon DEF CeNext
  <2>3. \/ Loadable /\ ceCert'.cert = ceDisk.cert
        \/ ~Loadable /\ ceCert'.cert = 0
    <3>1. \/ Loadable /\ ceCert' = [cert |-> ceDisk.cert, key |-> ceDisk.key]
          \/ ~Loadable /\ ceCert' = NoPair
          \/ ~ceSafe'
      BY <2>2, Zenon DEF CeStart, CeStartAny
    <3>2. ceDisk' = ceDisk /\ ceRun' = ceRun /\ ~ceUp
      BY <2>2, Zenon DEF CeStart, CeStartAny
    <3> QED
      BY <3>1, <3>2 DEF NoPair
  <2>4. ceCert.cert # 0 => Loadable /\ ceDisk.cert >= ceCert.cert
    BY <2>1, Zenon DEF FilesServe
  <2>5. ceCert.cert \in Nat /\ ceCert'.cert \in Nat
    BY <2>1, CeAssumption DEF CeShape
  <2> QED
    BY <2>3, <2>4, <2>5
<1> QED
  BY <1>1, <1>2, <1>3, PTL DEF CeSpec, RestartServes


(***************************************************************************)
(* Accounts.                                                               *)
(***************************************************************************)
\* Accounts: every step keeps UsersOK, and RequestsOK says that a request only
\* saves users that have a name and an address.

UserRec == [id : {0} \cup UserId, name : Name \cup {"none"}, email : Email \cup {"none"}, gen : 0..MaxGen, len : Int]
CallRec == [pc : {"idle", "create", "ssoCreate", "saveSession", "saveVerified", "saveUser"},
            user : UserRec, token : {0} \cup Token]

\* The users and their indexes.
UsersOK ==
    /\ auUser \in [UserId -> UserRec]
    /\ \A i \in UserId :
          \/ auUser[i].id = i /\ auUser[i].name \in Name /\ auUser[i].email \in Email
          \/ auUser[i].id = 0 /\ auUser[i].name = "none" /\ auUser[i].email = "none"
    /\ auByEmail \in [Email -> {0} \cup UserId]
    /\ auByName \in [Name -> {0} \cup UserId]
    /\ IndexesAgree

\* A copy that a request may save.
CallOK(x) ==
    /\ x \in CallRec
    /\ x.pc # "idle" => x.user.name \in Name /\ x.user.email \in Email
    /\ x.pc \in {"saveSession", "saveVerified", "saveUser"} => x.user.id \in UserId

RequestsOK ==
    /\ auCall \in [Call -> CallRec]
    /\ \A c \in Call : CallOK(auCall[c])
    /\ auSess \in [Token -> [user : {0} \cup UserId, mfa : BOOLEAN]]
    /\ auMade \in [user : Nat, token : Nat, gen : Nat]

\* SaveUser keeps the indexes whatever user is saved, an old copy included.
LEMMA SaveUserStep == ASSUME UsersOK, NEW u \in UserRec, u.id \in UserId, u.name \in Name, u.email \in Email,
                             SaveUser(u)
                      PROVE  UsersOK'
<1>1. CASE ~Accepts(u)
  BY <1>1 DEF SaveUser, UsersOK, IndexesAgree
<1>2. CASE Accepts(u)
  <2> DEFINE i == u.id
             old == auUser[i]
  <2>1. /\ auUser' = [auUser EXCEPT ![i] = u]
        /\ auByEmail' = [e \in Email |-> IF e = u.email THEN i ELSE IF e = old.email THEN 0 ELSE auByEmail[e]]
        /\ auByName' = [n \in Name |-> IF n = u.name THEN i ELSE IF n = old.name THEN 0 ELSE auByName[n]]
    BY <1>2, Zenon DEF SaveUser
  <2>2. auByEmail[u.email] \in {0, i} /\ auByName[u.name] \in {0, i}
    BY <1>2, Zenon DEF Accepts
  <2>3. /\ auUser' \in [UserId -> UserRec] /\ auUser'[i] = u
        /\ \A j \in UserId \ {i} : auUser'[j] = auUser[j]
    BY <2>1, Zenon DEF UsersOK
  <2>4. auByEmail' \in [Email -> {0} \cup UserId] /\ auByName' \in [Name -> {0} \cup UserId]
    BY <2>1, Zenon DEF UsersOK
  <2>5. ASSUME NEW j \in UserId, auUser'[j].id # 0
        PROVE  auByEmail'[auUser'[j].email] = j /\ auByName'[auUser'[j].name] = j
    <3>1. CASE j = i
      BY <2>1, <2>3, <3>1, Zenon
    <3>2. CASE j # i
      <4>1. /\ auUser'[j] = auUser[j] /\ auUser[j].id = j /\ auUser[j].email \in Email /\ auUser[j].name \in Name
            /\ auByEmail[auUser[j].email] = j /\ auByName[auUser[j].name] = j
        BY <2>3, <2>5, <3>2, Zenon DEF UsersOK, IndexesAgree
      <4>2. auUser[j].email # u.email /\ auUser[j].name # u.name /\ j # 0
        BY <2>2, <3>2, <4>1 DEF UserId
      <4>3. old.id # 0 => auByEmail[old.email] = i /\ auByName[old.name] = i
        BY Zenon DEF UsersOK, IndexesAgree
      <4>4. auUser[j].email # old.email /\ auUser[j].name # old.name
        <5>1. CASE old.id # 0
          BY <3>2, <4>1, <4>3, <5>1, Zenon
        <5>2. CASE old.id = 0
          <6>1. old.email = "none" /\ old.name = "none"
            BY <5>2 DEF UsersOK, UserId
          <6> QED
            BY <4>1, <6>1, AuAssumption, Zenon
        <5> QED
          BY <5>1, <5>2, Zenon
      <4> QED
        BY <2>1, <4>1, <4>2, <4>4, Zenon
    <3> QED
      BY <3>1, <3>2, Zenon
  <2>6. ASSUME NEW e \in Email, auByEmail'[e] # 0 PROVE auUser'[auByEmail'[e]].email = e
    <3>1. CASE e = u.email
      BY <2>1, <2>3, <3>1, Zenon
    <3>2. CASE e # u.email
      <4>1. e # old.email /\ auByEmail'[e] = auByEmail[e]
        BY <2>1, <2>6, <3>2, Zenon
      <4>2. auByEmail[e] \in UserId /\ auUser[auByEmail[e]].email = e
        BY <2>6, <4>1, Zenon DEF UsersOK, IndexesAgree
      <4> QED
        BY <2>3, <4>1, <4>2, Zenon
    <3> QED
      BY <3>1, <3>2, Zenon
  <2>7. ASSUME NEW n \in Name, auByName'[n] # 0 PROVE auUser'[auByName'[n]].name = n
    <3>1. CASE n = u.name
      BY <2>1, <2>3, <3>1, Zenon
    <3>2. CASE n # u.name
      <4>1. n # old.name /\ auByName'[n] = auByName[n]
        BY <2>1, <2>7, <3>2, Zenon
      <4>2. auByName[n] \in UserId /\ auUser[auByName[n]].name = n
        BY <2>7, <4>1, Zenon DEF UsersOK, IndexesAgree
      <4> QED
        BY <2>3, <4>1, <4>2, Zenon
    <3> QED
      BY <3>1, <3>2, Zenon
  <2>8. IndexesAgree'
    BY <2>5, <2>6, <2>7, Zenon DEF IndexesAgree
  <2>9. ASSUME NEW j \in UserId
        PROVE  \/ auUser'[j].id = j /\ auUser'[j].name \in Name /\ auUser'[j].email \in Email
               \/ auUser'[j].id = 0 /\ auUser'[j].name = "none" /\ auUser'[j].email = "none"
    BY <2>3, Zenon DEF UsersOK
  <2> QED
    BY <2>3, <2>4, <2>8, <2>9, Zenon DEF UsersOK
<1> QED
  BY <1>1, <1>2, Zenon

\* DeleteUser clears both indexes of the user.
LEMMA DeleteUserStep == ASSUME UsersOK, NEW i \in UserId, DeleteUser(i) PROVE UsersOK'
<1> DEFINE old == auUser[i]
<1>1. old.id = i /\ old.email \in Email /\ old.name \in Name /\ auByEmail[old.email] = i /\ auByName[old.name] = i
  BY Zenon DEF DeleteUser, UsersOK, IndexesAgree
<1>2. NoUser \in UserRec
  BY AuAssumption DEF NoUser, UserRec
<1>3. /\ auUser' \in [UserId -> UserRec] /\ auUser'[i] = NoUser
      /\ \A j \in UserId \ {i} : auUser'[j] = auUser[j]
  BY <1>2, Zenon DEF DeleteUser, UsersOK
<1>4. /\ auByEmail' \in [Email -> {0} \cup UserId] /\ auByEmail'[old.email] = 0
      /\ \A e \in Email \ {old.email} : auByEmail'[e] = auByEmail[e]
  BY <1>1, Zenon DEF DeleteUser, UsersOK
<1>5. /\ auByName' \in [Name -> {0} \cup UserId] /\ auByName'[old.name] = 0
      /\ \A n \in Name \ {old.name} : auByName'[n] = auByName[n]
  BY <1>1, Zenon DEF DeleteUser, UsersOK
<1>6. NoUser.id = 0 /\ NoUser.name = "none" /\ NoUser.email = "none"
  BY Zenon DEF NoUser
<1>7. ASSUME NEW j \in UserId, auUser'[j].id # 0
      PROVE  auByEmail'[auUser'[j].email] = j /\ auByName'[auUser'[j].name] = j
  <2>1. j # i /\ auUser'[j] = auUser[j]
    BY <1>3, <1>6, <1>7, Zenon
  <2>2. /\ auByEmail[auUser[j].email] = j /\ auByName[auUser[j].name] = j
        /\ auUser[j].email \in Email /\ auUser[j].name \in Name
    BY <1>7, <2>1, Zenon DEF UsersOK, IndexesAgree
  <2> QED
    BY <1>1, <1>4, <1>5, <2>1, <2>2, Zenon
<1>8. ASSUME NEW e \in Email, auByEmail'[e] # 0 PROVE auUser'[auByEmail'[e]].email = e
  <2>1. e # old.email /\ auByEmail'[e] = auByEmail[e]
    BY <1>4, <1>8, Zenon
  <2>2. auByEmail[e] \in UserId /\ auUser[auByEmail[e]].email = e
    BY <1>8, <2>1, Zenon DEF UsersOK, IndexesAgree
  <2> QED
    BY <1>3, <2>1, <2>2, Zenon
<1>9. ASSUME NEW n \in Name, auByName'[n] # 0 PROVE auUser'[auByName'[n]].name = n
  <2>1. n # old.name /\ auByName'[n] = auByName[n]
    BY <1>5, <1>9, Zenon
  <2>2. auByName[n] \in UserId /\ auUser[auByName[n]].name = n
    BY <1>9, <2>1, Zenon DEF UsersOK, IndexesAgree
  <2> QED
    BY <1>3, <2>1, <2>2, Zenon
<1>10. IndexesAgree'
  BY <1>7, <1>8, <1>9, Zenon DEF IndexesAgree
<1> QED
  BY <1>3, <1>4, <1>5, <1>6, <1>10, Zenon DEF UsersOK

\* A request that goes on as x.
LEMMA RequestStep == ASSUME RequestsOK, NEW c \in Call, NEW x, CallOK(x), auCall' = [auCall EXCEPT ![c] = x],
                            auSess' \in [Token -> [user : {0} \cup UserId, mfa : BOOLEAN]],
                            auMade' \in [user : Nat, token : Nat, gen : Nat]
                     PROVE  RequestsOK'
<1>1. x \in CallRec /\ auCall' \in [Call -> CallRec]
  BY Zenon DEF RequestsOK, CallOK
<1>2. ASSUME NEW d \in Call PROVE CallOK(auCall'[d])
  <2>1. CASE d = c
    BY <2>1, Zenon DEF RequestsOK
  <2>2. CASE d # c
    BY <2>2, Zenon DEF RequestsOK
  <2> QED
    BY <2>1, <2>2, Zenon
<1> QED
  BY <1>1, <1>2, Zenon DEF RequestsOK, CallOK

\* A request that has ended.
LEMMA NoCallOK == CallOK(NoCall) /\ NoUser \in UserRec
<1>1. NoUser \in UserRec
  BY AuAssumption DEF NoUser, UserRec
<1>2. NoCall \in CallRec /\ NoCall.pc = "idle"
  BY <1>1, Zenon DEF NoCall, CallRec
<1> QED
  BY <1>1, <1>2, Zenon DEF CallOK

\* A request that reads a user and goes on with the copy.
LEMMA TakeStep == ASSUME RequestsOK, NEW c \in Call, NEW u \in UserRec, u.name \in Name, u.email \in Email,
                         NEW pc \in {"create", "ssoCreate", "saveSession", "saveVerified", "saveUser"},
                         pc \in {"create", "ssoCreate"} \/ u.id \in UserId,
                         NEW t \in {0} \cup Token, Take(c, u, pc, t),
                         auSess' = auSess, auMade' \in [user : Nat, token : Nat, gen : Nat]
                  PROVE  RequestsOK'
<1> DEFINE x == [pc |-> pc, user |-> u, token |-> t]
<1>1. auCall' = [auCall EXCEPT ![c] = x]
  BY Zenon DEF Take
<1>2. x \in CallRec /\ x.pc = pc /\ x.user = u
  BY Zenon DEF CallRec
<1>3. CallOK(x)
  BY <1>2, Zenon DEF CallOK
<1> HIDE DEF x
<1> QED
  BY <1>1, <1>3, RequestStep, Zenon DEF RequestsOK

\* A user found by an index, by a session or by number.
LEMMA FoundUser == ASSUME UsersOK, NEW i \in UserId, auUser[i].id # 0
                   PROVE  /\ auUser[i] \in UserRec /\ auUser[i].id = i
                          /\ auUser[i].name \in Name /\ auUser[i].email \in Email
  BY Zenon DEF UsersOK

\* What the indexes by email and by name find is a user.
LEMMA Indexed == ASSUME UsersOK
                 PROVE  /\ \A e \in Email : auByEmail[e] # 0 => auByEmail[e] \in UserId /\ auUser[auByEmail[e]].id # 0
                        /\ \A n \in Name : auByName[n] # 0 => auByName[n] \in UserId /\ auUser[auByName[n]].id # 0
<1>1. ASSUME NEW e \in Email, auByEmail[e] # 0 PROVE auByEmail[e] \in UserId /\ auUser[auByEmail[e]].id # 0
  <2>1. auByEmail[e] \in UserId /\ auUser[auByEmail[e]].email = e
    BY <1>1, Zenon DEF UsersOK, IndexesAgree
  <2>2. auUser[auByEmail[e]].email # "none"
    BY <2>1, AuAssumption, Zenon
  <2> QED
    BY <2>1, <2>2 DEF UsersOK, UserId
<1>2. ASSUME NEW n \in Name, auByName[n] # 0 PROVE auByName[n] \in UserId /\ auUser[auByName[n]].id # 0
  <2>1. auByName[n] \in UserId /\ auUser[auByName[n]].name = n
    BY <1>2, Zenon DEF UsersOK, IndexesAgree
  <2>2. auUser[auByName[n]].name # "none"
    BY <2>1, AuAssumption, Zenon
  <2> QED
    BY <2>1, <2>2 DEF UsersOK, UserId
<1> QED
  BY <1>1, <1>2, Zenon

\* The user that CreateUser and AuthenticateWithSSO are about to make.
LEMMA NamedUser == ASSUME NEW n \in Name, NEW e \in Email
                   PROVE  Named(n, e) \in UserRec /\ Named(n, e).name = n /\ Named(n, e).email = e
  BY NoCallOK, Zenon DEF UserRec, Named

\* The steps that look users up: CreateUser, AuthenticateWithSSO and
\* AuthenticateWithPassword begin.
LEMMA ReadsStep == ASSUME UsersOK, RequestsOK, NEW c \in Call, NEW n \in Name, NEW e \in Email,
                          CreateUser(c, n, e) \/ AuthenticateWithSSO(c, n, e) \/ AuthenticateWithPassword(c, n)
                   PROVE  UsersOK' /\ RequestsOK'
<1>1. UNCHANGED <<auUser, auByEmail, auByName, auSess, auMade>>
  BY Zenon DEF CreateUser, AuthenticateWithSSO, AuthenticateWithPassword
<1>2. UsersOK' /\ auMade' \in [user : Nat, token : Nat, gen : Nat]
  <2>1. UsersOK'
    BY <1>1, Zenon DEF UsersOK, IndexesAgree
  <2>2. auMade' \in [user : Nat, token : Nat, gen : Nat]
    BY <1>1, Zenon DEF RequestsOK
  <2> QED
    BY <2>1, <2>2, Zenon
<1>3. CASE CreateUser(c, n, e)
  BY <1>1, <1>2, <1>3, NamedUser, TakeStep, SMTT(20) DEF CreateUser
<1>4. CASE AuthenticateWithSSO(c, n, e)
  <2>1. CASE auByEmail[e] # 0
    <3>1. Take(c, auUser[auByEmail[e]], "saveSession", 0)
      BY <1>4, <2>1, Zenon DEF AuthenticateWithSSO
    <3>2. auByEmail[e] \in UserId /\ auUser[auByEmail[e]].id # 0
      BY <2>1, Indexed, Zenon
    <3> QED
      BY <1>1, <1>2, <3>1, <3>2, FoundUser, TakeStep, Zenon
  <2>2. CASE auByEmail[e] = 0
    <3>1. Take(c, Named(n, e), "ssoCreate", 0)
      BY <1>4, <2>2, Zenon DEF AuthenticateWithSSO, ValidateToken
    <3> QED
      BY <1>1, <1>2, <3>1, NamedUser, TakeStep, Zenon
  <2> QED
    BY <2>1, <2>2, Zenon
<1>5. CASE AuthenticateWithPassword(c, n)
  <2>1. auByName[n] \in UserId /\ auUser[auByName[n]].id # 0 /\ Take(c, auUser[auByName[n]], "saveSession", 0)
    BY <1>5, Indexed, Zenon DEF AuthenticateWithPassword
  <2> QED
    BY <1>1, <1>2, <2>1, FoundUser, TakeStep, Zenon
<1> QED
  BY <1>3, <1>4, <1>5, Zenon

\* The SaveUser of CreateUser and AuthenticateWithSSO, with a fresh number.
LEMMA NewUserStep == ASSUME UsersOK, RequestsOK, NEW c \in Call, SaveNewUser(c) PROVE UsersOK' /\ RequestsOK'
<1> DEFINE i == auMade.user + 1
           u == [auCall[c].user EXCEPT !.id = i]
<1>1. CallOK(auCall[c]) /\ auCall[c].pc \in {"create", "ssoCreate"} /\ i \in UserId /\ auCall[c].user \in UserRec
  BY AuAssumption DEF RequestsOK, SaveNewUser, UserId, CallOK, CallRec
<1>2. u \in UserRec /\ u.id = i /\ u.name \in Name /\ u.email \in Email
  BY <1>1, Zenon DEF UserRec, CallOK
<1>3. SaveUser(u) /\ auSess' = auSess /\ auMade' \in [user : Nat, token : Nat, gen : Nat]
  BY <1>1 DEF SaveNewUser, RequestsOK
<1>4. auCall' = [auCall EXCEPT ![c] = IF auCall[c].pc = "ssoCreate" /\ Accepts(u)
                                      THEN [pc |-> "saveSession", user |-> u, token |-> 0] ELSE NoCall]
  BY Zenon DEF SaveNewUser
<1> HIDE DEF u, i
<1>5. UsersOK'
  BY <1>1, <1>2, <1>3, SaveUserStep, Zenon
<1>6. CallOK([pc |-> "saveSession", user |-> u, token |-> 0])
  BY <1>1, <1>2, Zenon DEF CallOK, CallRec
<1>7. CallOK(IF auCall[c].pc = "ssoCreate" /\ Accepts(u) THEN [pc |-> "saveSession", user |-> u, token |-> 0] ELSE NoCall)
  BY <1>6, NoCallOK, Zenon
<1>8. RequestsOK'
  BY <1>3, <1>4, <1>7, RequestStep, Zenon DEF RequestsOK
<1> QED
  BY <1>5, <1>8, Zenon

\* The steps that save a session or a copy of a user.
LEMMA SavesStep == ASSUME UsersOK, RequestsOK, NEW c \in Call,
                          SaveSession(c) \/ SaveVerified(c) \/ SaveUserBack(c)
                   PROVE  UsersOK' /\ RequestsOK'
<1>1. CallOK(auCall[c]) /\ auCall[c] \in CallRec /\ auCall[c].user \in UserRec
  BY Zenon DEF RequestsOK, CallRec
<1>2. CASE SaveUserBack(c)
  <2>1. /\ auCall[c].user.id \in UserId /\ auCall[c].user.name \in Name /\ auCall[c].user.email \in Email
        /\ SaveUser(auCall[c].user)
    BY <1>1, <1>2, Zenon DEF SaveUserBack, CallOK
  <2>2. UsersOK'
    BY <1>1, <2>1, SaveUserStep, Zenon
  <2>3. auCall' = [auCall EXCEPT ![c] = NoCall] /\ UNCHANGED <<auSess, auMade>>
    BY <1>2, Zenon DEF SaveUserBack
  <2>4. RequestsOK'
    BY <2>3, NoCallOK, RequestStep, Zenon DEF RequestsOK
  <2> QED
    BY <2>2, <2>4, Zenon
<1>3. CASE SaveSession(c) \/ SaveVerified(c)
  <2> DEFINE x == [auCall[c] EXCEPT !.pc = "saveUser"]
  <2>1. auCall[c].user.id \in UserId /\ auCall[c].user.name \in Name /\ auCall[c].user.email \in Email
    BY <1>1, <1>3, Zenon DEF SaveSession, SaveVerified, CallOK
  <2>2. x \in CallRec /\ x.user = auCall[c].user /\ x.pc = "saveUser"
    BY <1>1, Zenon DEF CallRec
  <2>3. CallOK(x)
    BY <2>1, <2>2, Zenon DEF CallOK
  <2>4. auCall' = [auCall EXCEPT ![c] = x] /\ UNCHANGED <<auUser, auByEmail, auByName>>
    BY <1>3, Zenon DEF SaveSession, SaveVerified
  <2>5. auMade' \in [user : Nat, token : Nat, gen : Nat]
    BY <1>3 DEF SaveSession, SaveVerified, RequestsOK
  <2>6. auSess' \in [Token -> [user : {0} \cup UserId, mfa : BOOLEAN]]
    <3>1. \E t, b : b \in BOOLEAN /\ auSess' = [auSess EXCEPT ![t] = [user |-> auCall[c].user.id, mfa |-> b]]
      BY <1>3, Zenon DEF SaveSession, SaveVerified
    <3>2. PICK t, b : b \in BOOLEAN /\ auSess' = [auSess EXCEPT ![t] = [user |-> auCall[c].user.id, mfa |-> b]]
      BY <3>1, Zenon
    <3>3. [user |-> auCall[c].user.id, mfa |-> b] \in [user : {0} \cup UserId, mfa : BOOLEAN]
      BY <2>1, <3>2, Zenon
    <3> QED
      BY <3>2, <3>3, Zenon DEF RequestsOK
  <2> HIDE DEF x
  <2>7. RequestsOK'
    BY <2>3, <2>4, <2>5, <2>6, RequestStep, Zenon
  <2>8. UsersOK'
    BY <2>4, Zenon DEF UsersOK, IndexesAgree
  <2> QED
    BY <2>7, <2>8, Zenon
<1> QED
  BY <1>2, <1>3, Zenon

\* HandleMFASetup, VerifyMFA and DisableMFA up to their SaveUser.
LEMMA MfaStep == ASSUME UsersOK, RequestsOK, NEW c \in Call,
                        \/ \E t \in Token : HandleMFASetup(c, t) \/ \E k \in {0} \cup CodeSet : VerifyMFA(c, t, k)
                        \/ \E i \in UserId : DisableMFA(c, i)
                 PROVE  UsersOK' /\ RequestsOK'
<1>1. UNCHANGED <<auUser, auByEmail, auByName, auSess>> /\ auMade' \in [user : Nat, token : Nat, gen : Nat]
  <2>1. UNCHANGED <<auUser, auByEmail, auByName, auSess>>
    BY Zenon DEF HandleMFASetup, EnableMFA, VerifyMFA, DisableMFA
  <2>2. auMade' = auMade \/ auMade' = [auMade EXCEPT !.gen = auMade.gen + 1]
    BY Zenon DEF HandleMFASetup, EnableMFA, VerifyMFA, DisableMFA
  <2> QED
    BY <2>1, <2>2 DEF RequestsOK
<1>2. UsersOK'
  BY <1>1, Zenon DEF UsersOK, IndexesAgree
<1>3. ASSUME NEW i \in UserId, DisableMFA(c, i) PROVE RequestsOK'
  <2> DEFINE u == [auUser[i] EXCEPT !.gen = 0, !.len = 0]
  <2>1. Take(c, u, "saveUser", 0) /\ auUser[i].id # 0
    BY <1>3, Zenon DEF DisableMFA
  <2>2. /\ auUser[i] \in UserRec /\ auUser[i].id = i
        /\ auUser[i].name \in Name /\ auUser[i].email \in Email
    BY <2>1, FoundUser, Zenon
  <2>3. 0 \in 0..MaxGen /\ 0 \in Int
    BY AuAssumption
  <2>4. u \in UserRec /\ u.id = i /\ u.name \in Name /\ u.email \in Email
    BY <2>2, <2>3, Zenon DEF UserRec
  <2> HIDE DEF u
  <2> QED
    BY <1>1, <2>1, <2>4, TakeStep, Zenon
<1>4. ASSUME NEW i \in UserId, EnableMFA(c, i) PROVE RequestsOK'
  <2> DEFINE u == [auUser[i] EXCEPT !.gen = auMade.gen + 1, !.len = Len(Code)]
  <2>1. Take(c, u, "saveUser", 0) /\ auUser[i].id # 0 /\ auMade.gen + 1 <= MaxGen
    BY <1>4, Zenon DEF EnableMFA
  <2>2. /\ auUser[i] \in UserRec /\ auUser[i].id = i
        /\ auUser[i].name \in Name /\ auUser[i].email \in Email
    BY <2>1, FoundUser, Zenon
  <2>3. auMade.gen + 1 \in 0..MaxGen /\ Len(Code) \in Int
    BY <2>1, AuAssumption DEF RequestsOK
  <2>4. u \in UserRec /\ u.id = i /\ u.name \in Name /\ u.email \in Email
    BY <2>2, <2>3, Zenon DEF UserRec
  <2> HIDE DEF u
  <2> QED
    BY <1>1, <2>1, <2>4, TakeStep, Zenon
<1>5. ASSUME NEW t \in Token, NEW k \in {0} \cup CodeSet, VerifyMFA(c, t, k) PROVE RequestsOK'
  <2> DEFINE u == auUser[auSess[t].user]
             v == [u EXCEPT !.len = @ - 1]
  <2>1. auSess[t].user \in UserId /\ u.id # 0
    BY <1>5, Zenon DEF VerifyMFA, RequestsOK
  <2>2. /\ u \in UserRec /\ u.id = auSess[t].user /\ u.name \in Name /\ u.email \in Email
    BY <2>1, FoundUser, Zenon
  <2>3. v \in UserRec /\ v.id = u.id /\ v.name = u.name /\ v.email = u.email
    BY <2>2 DEF UserRec
  <2>4. Take(c, u, "saveVerified", t) \/ Take(c, v, "saveVerified", t)
    BY <1>5, Zenon DEF VerifyMFA
  <2> HIDE DEF u, v
  <2> QED
    BY <1>1, <2>1, <2>2, <2>3, <2>4, TakeStep, Zenon
<1> QED
  BY <1>2, <1>3, <1>4, <1>5, Zenon DEF HandleMFASetup, RequestsOK, EnableMFA, Authorized, Valid

LEMMA AccountsInit == AuInit => UsersOK /\ RequestsOK
<1> SUFFICES ASSUME AuInit PROVE UsersOK /\ RequestsOK
  BY Zenon
<1>1. NoUser \in UserRec /\ NoUser.id = 0 /\ NoUser.name = "none" /\ NoUser.email = "none"
  BY NoCallOK, Zenon DEF NoUser
<1>2. UsersOK
  BY <1>1, Zenon DEF AuInit, UsersOK, IndexesAgree
<1>3. CallOK(NoCall) /\ NoCall \in CallRec
  BY NoCallOK, Zenon DEF CallOK
<1>4. NoSess \in [user : {0} \cup UserId, mfa : BOOLEAN]
  BY Zenon DEF NoSess
<1>5. RequestsOK
  BY <1>3, <1>4, Zenon DEF AuInit, RequestsOK
<1> QED
  BY <1>2, <1>5, Zenon

LEMMA AccountsStep == UsersOK /\ RequestsOK /\ [AuNext]_auVars => UsersOK' /\ RequestsOK'
<1> SUFFICES ASSUME UsersOK, RequestsOK, [AuNext]_auVars PROVE UsersOK' /\ RequestsOK'
  BY Zenon
<1>1. ASSUME NEW c \in Call, NEW n \in Name, NEW e \in Email, CreateUser(c, n, e) \/ AuthenticateWithSSO(c, n, e)
      PROVE  UsersOK' /\ RequestsOK'
  BY <1>1, ReadsStep, Zenon
<1>2. ASSUME NEW c \in Call, NEW n \in Name, AuthenticateWithPassword(c, n) PROVE UsersOK' /\ RequestsOK'
  <2>1. \E e : e \in Email
    BY <1>2, Indexed, FoundUser, Zenon DEF AuthenticateWithPassword
  <2> QED
    BY <1>2, <2>1, ReadsStep, Zenon
<1>3. ASSUME NEW c \in Call, SaveNewUser(c) PROVE UsersOK' /\ RequestsOK'
  BY <1>3, NewUserStep, Zenon
<1>4. ASSUME NEW c \in Call, SaveSession(c) \/ SaveUserBack(c) \/ SaveVerified(c) PROVE UsersOK' /\ RequestsOK'
  BY <1>4, SavesStep, Zenon
<1>5. ASSUME NEW c \in Call,
             \/ \E t \in Token : HandleMFASetup(c, t) \/ \E k \in {0} \cup CodeSet : VerifyMFA(c, t, k)
             \/ \E i \in UserId : DisableMFA(c, i)
      PROVE  UsersOK' /\ RequestsOK'
  BY <1>5, MfaStep, Zenon
<1>6. ASSUME NEW tokens \in SUBSET Token, Drop(tokens) PROVE auSess' \in [Token -> [user : {0} \cup UserId, mfa : BOOLEAN]]
  <2>1. NoSess \in [user : {0} \cup UserId, mfa : BOOLEAN]
    BY Zenon DEF NoSess
  <2> QED
    BY <1>6, <2>1, Zenon DEF Drop, RequestsOK
<1>7. ASSUME NEW tokens \in SUBSET Token, DropSessions(tokens) PROVE UsersOK' /\ RequestsOK'
  <2>1. UNCHANGED <<auUser, auByEmail, auByName, auCall, auMade>>
    BY <1>7, Zenon DEF DropSessions
  <2>2. auSess' \in [Token -> [user : {0} \cup UserId, mfa : BOOLEAN]]
    BY <1>6, <1>7, Zenon DEF DropSessions
  <2>3. UsersOK'
    BY <2>1, Zenon DEF UsersOK, IndexesAgree
  <2>4. RequestsOK'
    BY <2>1, <2>2, Zenon DEF RequestsOK, CallOK
  <2> QED
    BY <2>3, <2>4, Zenon
<1>8. ASSUME NEW i \in UserId, DeleteUser(i) PROVE UsersOK' /\ RequestsOK'
  <2>1. UsersOK'
    BY <1>8, DeleteUserStep, Zenon
  <2>2. UNCHANGED <<auCall, auMade>> /\ Drop(SessionsOf(i)) /\ SessionsOf(i) \in SUBSET Token
    BY <1>8, Zenon DEF DeleteUser, SessionsOf
  <2>3. auSess' \in [Token -> [user : {0} \cup UserId, mfa : BOOLEAN]]
    BY <1>6, <2>2, Zenon
  <2>4. RequestsOK'
    BY <2>2, <2>3, Zenon DEF RequestsOK, CallOK
  <2> QED
    BY <2>1, <2>4, Zenon
<1>9. CASE UNCHANGED auVars
  BY <1>9, Zenon DEF auVars, UsersOK, IndexesAgree, RequestsOK, CallOK
<1> QED
  BY <1>1, <1>2, <1>3, <1>4, <1>5, <1>7, <1>8, <1>9, Zenon DEF AuNext

\* IndexesAgree for any number of users, requests, names and addresses: no two
\* users of MemoryStore share an email or a name, and the indexes find them.
THEOREM IndexesSafe == AuSpec => []IndexesAgree
<1>1. UsersOK => IndexesAgree
  BY Zenon DEF UsersOK
<1> QED
  BY <1>1, AccountsInit, AccountsStep, PTL DEF AuSpec

-----------------------------------------------------------------------------
\* Backup codes: FreshCodes says what is left in the newest copy of a user, and
\* Newest which copy that is.

\* What BackupCodes of v still holds was never accepted, and holds no code twice.
FreshCodes(v, arr, uses) ==
    v.gen # 0 => /\ \A a, b \in 1..v.len : arr[v.gen][a] = arr[v.gen][b] => a = b
                 /\ \A a \in 1..v.len : uses[v.gen][arr[v.gen][a]] = 0

\* The setup of a copy v was made before, and for its user.
OwnSetup(v, made, owner) ==
    /\ v.id =< made.user /\ v.gen =< made.gen /\ v.len =< Len(Code)
    /\ v.gen # 0 => owner[v.gen] = v.id

\* Request x has a copy of user i.
Busy(x, i) == x.pc # "idle" /\ x.user.id = i

\* One request at most has a copy of user i, stored as user.  Its copy, or else the
\* stored one, is the newest, and saving it back will be accepted.
NewestOf(i, call, user, arr, uses) ==
    /\ \A c, d \in Call : Busy(call[c], i) /\ Busy(call[d], i) => c = d
    /\ (\A c \in Call : ~Busy(call[c], i)) => FreshCodes(user, arr, uses)
    /\ \A c \in Call : Busy(call[c], i) =>
           /\ FreshCodes(call[c].user, arr, uses)
           /\ user.id = i /\ call[c].user.email = user.email /\ call[c].user.name = user.name

CodesOK ==
    /\ auArr \in [Gen -> [DOMAIN Code -> CodeSet]]
    /\ auUses \in [Gen -> [CodeSet -> Nat]]
    /\ auOwner \in [Gen -> {0} \cup UserId]
    /\ \A g \in Gen : g > auMade.gen => auArr[g] = Code /\ \A k \in CodeSet : auUses[g][k] = 0
    /\ \A g \in Gen : auOwner[g] =< auMade.user

SetupsOK ==
    /\ \A i \in UserId : OwnSetup(auUser[i], auMade, auOwner)
    /\ \A c \in Call : OwnSetup(auCall[c].user, auMade, auOwner)
    /\ \A c \in Call : auCall[c].pc \in {"create", "ssoCreate"} => auCall[c].user.id = 0 /\ auCall[c].user.gen = 0

NewestOK == \A i \in UserId \ auRaced : NewestOf(i, auCall, auUser[i], auArr, auUses)

MfaInv == CodesOK /\ SetupsOK /\ NewestOK /\ CodeUsedOnce

\* A copy does not notice what happens to the codes of other setups.
LEMMA FreshKept ==
    ASSUME NEW v, NEW arr, NEW uses, NEW arr2, NEW uses2,
           v.gen # 0 => arr2[v.gen] = arr[v.gen] /\ uses2[v.gen] = uses[v.gen], FreshCodes(v, arr, uses)
    PROVE  FreshCodes(v, arr2, uses2)
  BY Zenon DEF FreshCodes

\* Code k, the i-th of copy v, is removed; w is the copy after.
TakesCode(v, w, i, k, arr, uses, arr2, uses2) ==
    /\ v \in UserRec /\ w \in UserRec /\ w.gen = v.gen /\ w.len = v.len - 1 /\ v.gen \in Gen /\ v.len =< Len(Code)
    /\ arr \in [Gen -> [DOMAIN Code -> CodeSet]] /\ uses \in [Gen -> [CodeSet -> Nat]]
    /\ i \in 1..v.len /\ k \in CodeSet /\ arr[v.gen][i] = k
    /\ arr2[v.gen] = Removed(arr[v.gen], i, v.len)
    /\ uses2[v.gen] \in [CodeSet -> Nat] /\ \A j \in CodeSet : j # k => uses2[v.gen][j] = uses[v.gen][j]

\* append(codes[:i], codes[i+1:]...) of codes that are fresh: the code that was
\* accepted had not been accepted before, and is no longer among the others.
LEMMA FreshRemoved ==
    ASSUME NEW v, NEW w, NEW i, NEW k, NEW arr, NEW uses, NEW arr2, NEW uses2,
           TakesCode(v, w, i, k, arr, uses, arr2, uses2), FreshCodes(v, arr, uses)
    PROVE  uses[v.gen][k] = 0 /\ FreshCodes(w, arr2, uses2)
<1> USE DEF TakesCode
<1>0. v.len \in Int /\ w.len \in Int /\ DOMAIN Code = 1..Len(Code) /\ Len(Code) \in Nat
  BY AuAssumption DEF UserRec
<1>1. PICK a : a = arr[v.gen] /\ a \in [DOMAIN Code -> CodeSet]
  BY Zenon
<1>2. /\ \A m, n \in 1..v.len : a[m] = a[n] => m = n
      /\ \A m \in 1..v.len : uses[v.gen][a[m]] = 0
  <2>1. v.gen # 0
    BY DEF Gen
  <2> QED
    BY <1>1, <2>1, Zenon DEF FreshCodes
<1>3. PICK b : b = Removed(a, i, v.len)
  BY Zenon
<1>4. \A j \in DOMAIN Code : b[j] = IF i <= j /\ j < v.len THEN a[j + 1] ELSE a[j]
  BY <1>1, <1>3, Zenon DEF Removed
<1>5. b \in [DOMAIN Code -> CodeSet]
  <2>1. ASSUME NEW j \in DOMAIN Code PROVE (IF i <= j /\ j < v.len THEN a[j + 1] ELSE a[j]) \in CodeSet
    <3>1. j < v.len => j + 1 \in DOMAIN Code
      BY <1>0
    <3> QED
      BY <1>1, <3>1, Zenon
  <2> QED
    BY <1>1, <1>3, <2>1, Zenon DEF Removed
<1>6. arr2[v.gen] = b
  BY <1>1, <1>3, Zenon
<1>7. ASSUME NEW m \in 1..w.len
      PROVE  \E n \in 1..v.len : b[m] = a[n] /\ n # i /\ n = IF i <= m THEN m + 1 ELSE m
  <2>1. m \in DOMAIN Code /\ m < v.len /\ m \in 1..v.len /\ m + 1 \in 1..v.len
    BY <1>0
  <2>2. b[m] = IF i <= m THEN a[m + 1] ELSE a[m]
    BY <1>4, <2>1, Zenon
  <2> QED
    BY <2>1, <2>2
<1>8. \A m, n \in 1..w.len : b[m] = b[n] => m = n
  BY <1>0, <1>2, <1>7
<1>9. \A m \in 1..w.len : b[m] # k /\ b[m] \in CodeSet /\ uses[v.gen][b[m]] = 0
  <2>1. ASSUME NEW m \in 1..w.len PROVE b[m] # k /\ b[m] \in CodeSet /\ uses[v.gen][b[m]] = 0
    <3>1. PICK n \in 1..v.len : b[m] = a[n] /\ n # i
      BY <1>7, Zenon
    <3>2. m \in DOMAIN Code
      BY <1>0
    <3> QED
      BY <1>1, <1>2, <1>5, <3>1, <3>2
  <2> QED
    BY <2>1, Zenon
<1>10. \A m \in 1..w.len : uses2[v.gen][b[m]] = 0
  BY <1>9, Zenon
<1> QED
  BY <1>1, <1>2, <1>6, <1>8, <1>10 DEF FreshCodes

\* The first codes of a setup.
LEMMA FreshMade ==
    ASSUME NEW v, NEW arr, NEW uses, v.gen \in Gen, v.len = Len(Code), arr[v.gen] = Code,
           \A k \in CodeSet : uses[v.gen][k] = 0
    PROVE  FreshCodes(v, arr, uses)
<1>1. DOMAIN Code = 1..Len(Code)
  BY AuAssumption
<1>2. \A a \in 1..v.len : Code[a] \in CodeSet
  BY <1>1, Zenon DEF CodeSet
<1> QED
  BY <1>1, <1>2, AuAssumption, Zenon DEF FreshCodes

\* How the newest copy of user i moves: a request takes one, ...
LEMMA NewestTaken ==
    ASSUME NEW call \in [Call -> CallRec], NEW c \in Call, NEW x, NEW i, NEW user, NEW arr, NEW uses,
           Busy(x, i), \A d \in Call : ~Busy(call[d], i),
           user.id = i, x.user.email = user.email, x.user.name = user.name, FreshCodes(x.user, arr, uses)
    PROVE  NewestOf(i, [call EXCEPT ![c] = x], user, arr, uses)
<1>1. PICK h : h = [call EXCEPT ![c] = x]
  BY Zenon
<1>2. h[c] = x /\ \A d \in Call : d # c => h[d] = call[d]
  BY <1>1, Zenon
<1>3. \A d \in Call : Busy(h[d], i) => d = c /\ h[d] = x
  BY <1>2, Zenon
<1>4. Busy(h[c], i)
  BY <1>2, Zenon
<1> QED
  BY <1>1, <1>2, <1>3, <1>4, Zenon DEF NewestOf

\* ... goes on with it, ...
LEMMA NewestMoved ==
    ASSUME NEW call \in [Call -> CallRec], NEW c \in Call, NEW x, NEW i, NEW user, NEW arr, NEW uses,
           x.user = call[c].user, Busy(x, i) <=> Busy(call[c], i), NewestOf(i, call, user, arr, uses)
    PROVE  NewestOf(i, [call EXCEPT ![c] = x], user, arr, uses)
<1>1. PICK h : h = [call EXCEPT ![c] = x]
  BY Zenon
<1>2. \A d \in Call : h[d].user = call[d].user /\ (Busy(h[d], i) <=> Busy(call[d], i))
  BY <1>1, Zenon
<1> QED
  BY <1>1, <1>2, Zenon DEF NewestOf

\* ... and saves it back.
LEMMA NewestSaved ==
    ASSUME NEW call \in [Call -> CallRec], NEW c \in Call, NEW x, NEW i, NEW user, NEW arr, NEW uses, ~Busy(x, i),
           Busy(call[c], i), NewestOf(i, call, user, arr, uses)
    PROVE  NewestOf(i, [call EXCEPT ![c] = x], call[c].user, arr, uses)
<1>1. PICK h : h = [call EXCEPT ![c] = x]
  BY Zenon
<1>2. \A d \in Call : ~Busy(h[d], i)
  <2>1. h[c] = x /\ \A d \in Call : d # c => h[d] = call[d]
    BY <1>1, Zenon
  <2> QED
    BY <2>1, Zenon DEF NewestOf
<1>3. FreshCodes(call[c].user, arr, uses)
  BY Zenon DEF NewestOf
<1> QED
  BY <1>1, <1>2, <1>3, Zenon DEF NewestOf

\* Requests for another user.
LEMMA NewestOther ==
    ASSUME NEW call \in [Call -> CallRec], NEW c \in Call, NEW x, NEW i, NEW user, NEW arr, NEW uses,
           NEW arr2, NEW uses2, ~Busy(x, i), ~Busy(call[c], i), NewestOf(i, call, user, arr, uses),
           FreshCodes(user, arr, uses) => FreshCodes(user, arr2, uses2),
           \A d \in Call : Busy(call[d], i) /\ FreshCodes(call[d].user, arr, uses) => FreshCodes(call[d].user, arr2, uses2)
    PROVE  NewestOf(i, [call EXCEPT ![c] = x], user, arr2, uses2)
<1>1. PICK h : h = [call EXCEPT ![c] = x]
  BY Zenon
<1>2. h[c] = x /\ \A d \in Call : d # c => h[d] = call[d]
  BY <1>1, Zenon
<1>3. \A d \in Call : Busy(h[d], i) => Busy(call[d], i) /\ h[d] = call[d]
  BY <1>2, Zenon
<1>4. \A d \in Call : Busy(call[d], i) => Busy(h[d], i)
  BY <1>2, Zenon
<1> QED
  BY <1>1, <1>3, <1>4, Zenon DEF NewestOf


LEMMA SetupKept ==
    ASSUME NEW v \in UserRec, NEW made \in [user : Nat, token : Nat, gen : Nat], NEW owner,
           NEW made2 \in [user : Nat, token : Nat, gen : Nat], NEW owner2,
           made.user =< made2.user, made.gen =< made2.gen, \A g \in Gen : g =< made.gen => owner2[g] = owner[g],
           OwnSetup(v, made, owner)
    PROVE  OwnSetup(v, made2, owner2)
<1>1. v.id \in Nat /\ v.gen \in 0..MaxGen
  BY AuAssumption DEF UserRec, UserId
<1>2. v.gen # 0 => v.gen \in Gen /\ v.gen =< made.gen
  BY <1>1, AuAssumption DEF Gen, OwnSetup
<1> QED
  BY <1>1, <1>2, AuAssumption DEF OwnSetup

\* Steps that accept no code and set up none.
LEMMA CodesKept ==
    ASSUME CodesOK, CodeUsedOnce, UNCHANGED <<auArr, auUses, auOwner>>, auRaced \subseteq auRaced',
           auMade'.gen = auMade.gen, auMade.user \in Nat, auMade'.user \in Nat, auMade.user =< auMade'.user
    PROVE  CodesOK' /\ CodeUsedOnce'
<1>1. \A g \in Gen : auOwner'[g] =< auMade'.user
  BY AuAssumption DEF CodesOK, UserId
<1>2. CodesOK'
  BY <1>1, Zenon DEF CodesOK
<1>3. CodeUsedOnce'
  BY Zenon DEF CodeUsedOnce
<1> QED
  BY <1>2, <1>3, Zenon

LEMMA Held == \A i : \A d \in Call : d \in Holding(i) <=> Busy(auCall[d], i)
  BY Zenon DEF Holding, Busy

\* A request reads user i and goes on with the copy u: it has the newest copy.
LEMMA ReadMfa ==
    ASSUME UsersOK, RequestsOK, SetupsOK, NewestOK, NEW c \in Call, NEW i \in UserId, auUser[i].id # 0,
           NEW u \in UserRec, u.id = i, u.name = auUser[i].name, u.email = auUser[i].email,
           NEW pc \in {"saveSession", "saveVerified", "saveUser"}, NEW t, Take(c, u, pc, t), UNCHANGED auUser,
           auMade' \in [user : Nat, token : Nat, gen : Nat],
           auMade.user =< auMade'.user, auMade.gen =< auMade'.gen,
           \A g \in Gen : g =< auMade.gen => auOwner'[g] = auOwner[g], OwnSetup(u, auMade', auOwner'),
           \A g \in Gen : g =< auMade.gen /\ auOwner[g] # i => auArr'[g] = auArr[g] /\ auUses'[g] = auUses[g],
           i \notin auRaced /\ FreshCodes(auUser[i], auArr, auUses) => FreshCodes(u, auArr', auUses')
    PROVE  SetupsOK' /\ NewestOK'
<1>t. auCall \in [Call -> CallRec] /\ auMade \in [user : Nat, token : Nat, gen : Nat] /\ auUser \in [UserId -> UserRec]
  BY SMTT(20) DEF RequestsOK, UsersOK
<1>1. PICK x : x = [pc |-> pc, user |-> u, token |-> t]
  BY Zenon
<1>2. x.pc = pc /\ x.user = u /\ x.pc # "idle" /\ x.pc \notin {"create", "ssoCreate"}
  BY <1>1, Zenon
<1>3. /\ auCall[c].pc = "idle" /\ auCall' = [auCall EXCEPT ![c] = x]
      /\ auRaced' = IF u.id # 0 /\ Holding(u.id) # {} THEN auRaced \cup {u.id} ELSE auRaced
  BY <1>1, Zenon DEF Take
<1>4. auCall'[c] = x /\ \A d \in Call : d # c => auCall'[d] = auCall[d]
  BY <1>t, <1>3, Zenon
<1>5. \A v \in UserRec : OwnSetup(v, auMade, auOwner) => OwnSetup(v, auMade', auOwner')
  BY <1>t, SetupKept
<1>6. SetupsOK'
  <2>1. ASSUME NEW j \in UserId PROVE OwnSetup(auUser'[j], auMade', auOwner')
    BY <1>t, <1>5, Zenon DEF SetupsOK
  <2>2. ASSUME NEW d \in Call
        PROVE  /\ OwnSetup(auCall'[d].user, auMade', auOwner')
               /\ auCall'[d].pc \in {"create", "ssoCreate"} => auCall'[d].user.id = 0 /\ auCall'[d].user.gen = 0
    <3>1. CASE d = c
      BY <1>2, <1>4, <3>1, Zenon
    <3>2. CASE d # c
      <4>1. auCall'[d] = auCall[d] /\ auCall[d].user \in UserRec
        BY <1>t, <1>4, <3>2, Zenon DEF CallRec
      <4> QED
        BY <1>5, <4>1, Zenon DEF SetupsOK
    <3> QED
      BY <3>1, <3>2, Zenon
  <2> QED
    BY <2>1, <2>2, Zenon DEF SetupsOK
<1>7. ASSUME NEW v \in UserRec, OwnSetup(v, auMade, auOwner), v.id # i, FreshCodes(v, auArr, auUses)
      PROVE  FreshCodes(v, auArr', auUses')
  <2>1. v.gen # 0 => v.gen \in Gen /\ v.gen =< auMade.gen /\ auOwner[v.gen] # i
    BY <1>7, AuAssumption DEF OwnSetup, UserRec, Gen
  <2> QED
    BY <1>7, <2>1, FreshKept, Zenon
<1>8. ASSUME NEW j \in UserId \ auRaced' PROVE NewestOf(j, auCall', auUser[j], auArr', auUses')
  <2>0. j \notin auRaced
    BY <1>3, Zenon
  <2>1. NewestOf(j, auCall, auUser[j], auArr, auUses)
    BY <2>0, Zenon DEF NewestOK
  <2>2. CASE j = i
    <3>1. Holding(i) = {}
      BY <1>3, <2>2, SMTT(20) DEF UserId
    <3>2. \A d \in Call : ~Busy(auCall[d], i)
      BY <3>1, Held, Zenon
    <3>3. FreshCodes(u, auArr', auUses')
      BY <2>0, <2>1, <2>2, <3>2, Zenon DEF NewestOf
    <3>4. Busy(x, i) /\ auUser[i].id = i
      BY <1>2, FoundUser, Zenon DEF Busy
    <3> QED
      BY <1>t, <1>2, <1>3, <2>2, <3>2, <3>3, <3>4, NewestTaken, Zenon
  <2>3. CASE j # i
    <3>1. ~Busy(x, j) /\ ~Busy(auCall[c], j)
      BY <1>2, <1>3, <2>3, Zenon DEF Busy
    <3>2. auUser[j] \in UserRec /\ auUser[j].id # i /\ OwnSetup(auUser[j], auMade, auOwner)
      BY <1>t, <2>3, Zenon DEF UsersOK, SetupsOK, UserId
    <3>3. ASSUME NEW d \in Call, Busy(auCall[d], j)
          PROVE  auCall[d].user \in UserRec /\ auCall[d].user.id # i /\ OwnSetup(auCall[d].user, auMade, auOwner)
      BY <1>t, <2>3, <3>3, Zenon DEF CallRec, Busy, SetupsOK
    <3> QED
      BY <1>t, <1>3, <1>7, <2>1, <3>1, <3>2, <3>3, NewestOther, Zenon
  <2> QED
    BY <2>2, <2>3, Zenon
<1> QED
  BY <1>6, <1>8, Zenon DEF NewestOK


\* CreateUser, AuthenticateWithPassword, AuthenticateWithSSO and DisableMFA take
\* a copy and accept no code.
LEMMA LookupMfa ==
    ASSUME UsersOK, RequestsOK, MfaInv, NEW c \in Call, NEW i \in UserId, auUser[i].id # 0,
           NEW u \in UserRec, u.id = i, u.name = auUser[i].name, u.email = auUser[i].email,
           u = auUser[i] \/ (u.gen = 0 /\ u.len = 0),
           NEW pc \in {"saveSession", "saveVerified", "saveUser"}, NEW t, Take(c, u, pc, t),
           UNCHANGED <<auUser, auMade, auOwner, auArr, auUses>>
    PROVE  MfaInv'
<1>t. auMade \in [user : Nat, token : Nat, gen : Nat]
  BY Zenon DEF RequestsOK
<1>1. auRaced \subseteq auRaced'
  BY Zenon DEF Take
<1>2. CodesOK' /\ CodeUsedOnce'
  BY <1>t, <1>1, CodesKept DEF MfaInv
<1>3. OwnSetup(u, auMade, auOwner)
  <2>1. OwnSetup(auUser[i], auMade, auOwner)
    BY Zenon DEF MfaInv, SetupsOK
  <2>2. auUser[i].id = i
    BY FoundUser, Zenon
  <2> QED
    BY <1>t, <2>1, <2>2, AuAssumption DEF OwnSetup
<1>4. FreshCodes(auUser[i], auArr, auUses) => FreshCodes(u, auArr, auUses)
  BY Zenon DEF FreshCodes
<1>5. auMade.user =< auMade'.user /\ auMade.gen =< auMade'.gen
  BY <1>t
<1>6. SetupsOK' /\ NewestOK'
  BY <1>t, <1>3, <1>4, <1>5, ReadMfa, Zenon DEF MfaInv
<1> QED
  BY <1>2, <1>6, Zenon DEF MfaInv

\* A copy of a user that is not saved yet.
LEMMA NamedMfa ==
    ASSUME UsersOK, RequestsOK, MfaInv, NEW c \in Call, NEW n \in Name, NEW e \in Email,
           NEW pc \in {"create", "ssoCreate"}, Take(c, Named(n, e), pc, 0),
           UNCHANGED <<auUser, auMade, auOwner, auArr, auUses>>
    PROVE  MfaInv'
<1>t. /\ auMade \in [user : Nat, token : Nat, gen : Nat] /\ auCall \in [Call -> CallRec]
  BY Zenon DEF RequestsOK
<1>1. PICK u \in UserRec : u = Named(n, e) /\ u.id = 0 /\ u.gen = 0 /\ u.len = 0
  <2>1. PICK h : h = [NoUser EXCEPT !.name = n]
    BY Zenon
  <2>2. Named(n, e) = [h EXCEPT !.email = e]
    BY <2>1, Zenon DEF Named
  <2>3. h.id = 0 /\ h.gen = 0 /\ h.len = 0 /\ h \in UserRec
    BY <2>1, NoCallOK, Zenon DEF NoUser, UserRec
  <2>4. Named(n, e).id = 0 /\ Named(n, e).gen = 0 /\ Named(n, e).len = 0
    BY <2>2, <2>3, Zenon DEF UserRec
  <2> QED
    BY <2>4, NamedUser, Zenon
<1>2. PICK x : x = [pc |-> pc, user |-> u, token |-> 0]
  BY Zenon
<1>3. x.user = u /\ x.pc = pc /\ x.pc # "idle"
  BY <1>2, Zenon
<1>4. auCall[c].pc = "idle" /\ auCall' = [auCall EXCEPT ![c] = x] /\ auRaced' = auRaced
  BY <1>1, <1>2, Zenon DEF Take
<1>5. CodesOK' /\ CodeUsedOnce'
  BY <1>t, <1>4, CodesKept DEF MfaInv
<1>6. OwnSetup(u, auMade, auOwner)
  BY <1>t, <1>1, AuAssumption DEF OwnSetup
<1>7. SetupsOK'
  <2>1. \A d \in Call : auCall'[d] = IF d = c THEN x ELSE auCall[d]
    BY <1>t, <1>4, Zenon
  <2> QED
    BY <1>1, <1>3, <1>6, <2>1, Zenon DEF MfaInv, SetupsOK
<1>8. ASSUME NEW j \in UserId \ auRaced PROVE NewestOf(j, auCall', auUser[j], auArr, auUses)
  <2>1. j # 0
    BY DEF UserId
  <2>2. ~Busy(x, j) /\ ~Busy(auCall[c], j)
    BY <1>1, <1>3, <1>4, <2>1, Zenon DEF Busy
  <2>3. NewestOf(j, auCall, auUser[j], auArr, auUses)
    BY Zenon DEF MfaInv, NewestOK
  <2> QED
    BY <1>t, <1>4, <2>2, <2>3, NewestOther, Zenon
<1> QED
  BY <1>4, <1>5, <1>7, <1>8, Zenon DEF MfaInv, NewestOK

\* Steps of a request with its copy: the session is saved.
LEMMA SessionMfa ==
    ASSUME UsersOK, RequestsOK, MfaInv, NEW c \in Call, SaveSession(c) \/ SaveVerified(c)
    PROVE  MfaInv'
<1>t. /\ auMade \in [user : Nat, token : Nat, gen : Nat] /\ auCall \in [Call -> CallRec]
  BY Zenon DEF RequestsOK
<1>1. /\ auCall[c].pc \in {"saveSession", "saveVerified"} /\ auCall' = [auCall EXCEPT ![c].pc = "saveUser"]
      /\ UNCHANGED <<auUser, auArr, auOwner, auUses, auRaced>>
  BY Zenon DEF SaveSession, SaveVerified
<1>2. auMade'.user = auMade.user /\ auMade'.gen = auMade.gen
  BY <1>t, Zenon DEF SaveSession, SaveVerified
<1>3. PICK x : x = [auCall[c] EXCEPT !.pc = "saveUser"]
  BY Zenon
<1>4. auCall' = [auCall EXCEPT ![c] = x]
  BY <1>1, <1>3, Zenon
<1>5. x.user = auCall[c].user /\ x.pc = "saveUser"
  BY <1>t, <1>3, Zenon DEF CallRec
<1>6. CodesOK' /\ CodeUsedOnce'
  BY <1>t, <1>1, <1>2, CodesKept DEF MfaInv
<1>7. \A v : OwnSetup(v, auMade, auOwner) => OwnSetup(v, auMade', auOwner)
  BY <1>2, Zenon DEF OwnSetup
<1>8. SetupsOK'
  <2>1. \A d \in Call : auCall'[d] = IF d = c THEN x ELSE auCall[d]
    BY <1>t, <1>4, Zenon
  <2>2. x.pc \notin {"create", "ssoCreate"}
    BY <1>5, Zenon
  <2>3. \A d \in Call : OwnSetup(auCall'[d].user, auMade', auOwner)
    BY <1>5, <1>7, <2>1, Zenon DEF MfaInv, SetupsOK
  <2>4. \A d \in Call : auCall'[d].pc \in {"create", "ssoCreate"} => auCall'[d].user.id = 0 /\ auCall'[d].user.gen = 0
    BY <2>1, <2>2, Zenon DEF MfaInv, SetupsOK
  <2> QED
    BY <1>1, <1>7, <2>3, <2>4, Zenon DEF MfaInv, SetupsOK
<1>9. ASSUME NEW j \in UserId \ auRaced PROVE NewestOf(j, auCall', auUser[j], auArr, auUses)
  <2>1. Busy(x, j) <=> Busy(auCall[c], j)
    BY <1>1, <1>5, Zenon DEF Busy
  <2>2. NewestOf(j, auCall, auUser[j], auArr, auUses)
    BY Zenon DEF MfaInv, NewestOK
  <2> QED
    BY <1>t, <1>4, <1>5, <2>1, <2>2, NewestMoved, Zenon
<1> QED
  BY <1>1, <1>6, <1>8, <1>9, Zenon DEF MfaInv, NewestOK

\* SaveUserBack: the store accepts the newest copy of a user whose requests do
\* not overlap, because the user is there and has the same email and name.
LEMMA BackMfa == ASSUME UsersOK, RequestsOK, MfaInv, NEW c \in Call, SaveUserBack(c) PROVE MfaInv'
<1>t. /\ auMade \in [user : Nat, token : Nat, gen : Nat] /\ auCall \in [Call -> CallRec] /\ auUser \in [UserId -> UserRec]
  BY Zenon DEF RequestsOK, UsersOK
<1>1. /\ auCall[c].pc = "saveUser" /\ SaveUser(auCall[c].user) /\ auCall' = [auCall EXCEPT ![c] = NoCall]
      /\ UNCHANGED <<auMade, auArr, auOwner, auUses, auRaced>>
  BY Zenon DEF SaveUserBack
<1>2. PICK u \in UserRec : u = auCall[c].user /\ u.id \in UserId
  BY <1>t, <1>1, Zenon DEF RequestsOK, CallOK, CallRec
<1>3. CodesOK' /\ CodeUsedOnce'
  BY <1>t, <1>1, CodesKept DEF MfaInv
<1>4. OwnSetup(NoCall.user, auMade, auOwner) /\ NoCall.pc = "idle"
  BY <1>t, AuAssumption DEF OwnSetup, NoCall, NoUser
<1>5. \A d \in Call : auCall'[d] = IF d = c THEN NoCall ELSE auCall[d]
  BY <1>t, <1>1, Zenon
<1>6. \A j \in UserId : auUser'[j] = IF j = u.id /\ Accepts(u) THEN u ELSE auUser[j]
  BY <1>t, <1>1, <1>2, Zenon DEF SaveUser
<1>7. SetupsOK'
  <2>1. \A j \in UserId : OwnSetup(auUser'[j], auMade, auOwner)
    BY <1>2, <1>6, Zenon DEF MfaInv, SetupsOK
  <2>2. NoCall.pc \notin {"create", "ssoCreate"}
    BY <1>4, Zenon
  <2> QED
    BY <1>1, <1>4, <1>5, <2>1, <2>2, Zenon DEF MfaInv, SetupsOK
<1>8. ASSUME NEW j \in UserId \ auRaced PROVE NewestOf(j, auCall', auUser'[j], auArr, auUses)
  <2>1. NewestOf(j, auCall, auUser[j], auArr, auUses)
    BY Zenon DEF MfaInv, NewestOK
  <2>2. ~Busy(NoCall, j)
    BY <1>4, Zenon DEF Busy
  <2>3. CASE j = u.id
    <3>1. Busy(auCall[c], j)
      BY <1>1, <1>2, <2>3, Zenon DEF Busy
    <3>2. auUser[j].id = j /\ u.email = auUser[j].email /\ u.name = auUser[j].name
      BY <1>2, <2>1, <3>1, Zenon DEF NewestOf
    <3>3. j # 0
      BY DEF UserId
    <3>4. Accepts(u)
      BY <2>3, <3>2, <3>3 DEF Accepts, UsersOK, IndexesAgree
    <3>5. auUser'[j] = auCall[c].user
      BY <1>2, <1>6, <2>3, <3>4, Zenon
    <3> QED
      BY <1>t, <1>1, <2>1, <2>2, <3>1, <3>5, NewestSaved, Zenon
  <2>4. CASE j # u.id
    <3>1. ~Busy(auCall[c], j)
      BY <1>2, <2>4, Zenon DEF Busy
    <3>2. auUser'[j] = auUser[j]
      BY <1>6, <2>4, Zenon
    <3> QED
      BY <1>t, <1>1, <2>1, <2>2, <3>1, <3>2, NewestOther, Zenon
  <2> QED
    BY <2>3, <2>4, Zenon
<1> QED
  BY <1>1, <1>3, <1>7, <1>8, Zenon DEF MfaInv, NewestOK

\* A user that is deleted while a request has a copy counts as raced.
LEMMA DeletedMfa == ASSUME UsersOK, RequestsOK, MfaInv, NEW i \in UserId, DeleteUser(i) PROVE MfaInv'
<1>t. /\ auMade \in [user : Nat, token : Nat, gen : Nat] /\ auUser \in [UserId -> UserRec]
  BY Zenon DEF RequestsOK, UsersOK
<1>1. /\ auUser' = [auUser EXCEPT ![i] = NoUser]
      /\ auRaced' = IF Holding(i) # {} THEN auRaced \cup {i} ELSE auRaced
      /\ UNCHANGED <<auArr, auCall, auMade, auOwner, auUses>>
  BY Zenon DEF DeleteUser
<1>2. CodesOK' /\ CodeUsedOnce'
  BY <1>t, <1>1, CodesKept DEF MfaInv
<1>3. OwnSetup(NoUser, auMade, auOwner) /\ FreshCodes(NoUser, auArr, auUses)
  BY <1>t, AuAssumption DEF OwnSetup, NoUser, FreshCodes
<1>4. \A j \in UserId : auUser'[j] = IF j = i THEN NoUser ELSE auUser[j]
  BY <1>t, <1>1, Zenon
<1>5. SetupsOK'
  BY <1>1, <1>3, <1>4, Zenon DEF MfaInv, SetupsOK
<1>6. ASSUME NEW j \in UserId \ auRaced' PROVE NewestOf(j, auCall, auUser'[j], auArr, auUses)
  <2>1. NewestOf(j, auCall, auUser[j], auArr, auUses)
    BY <1>1, Zenon DEF MfaInv, NewestOK
  <2>2. CASE j = i
    <3>1. Holding(i) = {}
      BY <1>1, <2>2, Zenon
    <3>2. \A d \in Call : ~Busy(auCall[d], i)
      BY <3>1, Held, Zenon
    <3> QED
      BY <1>3, <1>4, <2>1, <2>2, <3>2, Zenon DEF NewestOf
  <2>3. CASE j # i
    BY <1>4, <2>1, <2>3, Zenon
  <2> QED
    BY <2>2, <2>3, Zenon
<1> QED
  BY <1>1, <1>2, <1>5, <1>6, Zenon DEF MfaInv, NewestOK


\* SaveNewUser: the number is fresh, so nobody has a copy yet.
LEMMA NewMfa == ASSUME UsersOK, RequestsOK, MfaInv, NEW c \in Call, SaveNewUser(c) PROVE MfaInv'
<1>t. /\ auMade \in [user : Nat, token : Nat, gen : Nat] /\ auCall \in [Call -> CallRec] /\ auUser \in [UserId -> UserRec]
  BY Zenon DEF RequestsOK, UsersOK
<1>1. PICK i \in UserId : i = auMade.user + 1
  BY <1>t DEF SaveNewUser, UserId
<1>2. PICK u : u = [auCall[c].user EXCEPT !.id = i]
  BY Zenon
<1>3. PICK x : x = IF auCall[c].pc = "ssoCreate" /\ Accepts(u) THEN [pc |-> "saveSession", user |-> u, token |-> 0] ELSE NoCall
  BY Zenon
<1>4. /\ auCall[c].pc \in {"create", "ssoCreate"} /\ SaveUser(u) /\ auMade' = [auMade EXCEPT !.user = i]
      /\ auCall' = [auCall EXCEPT ![c] = x] /\ UNCHANGED <<auArr, auOwner, auUses, auRaced>>
  BY <1>1, <1>2, <1>3, Zenon DEF SaveNewUser
<1>5. /\ auCall[c].user.id = 0 /\ auCall[c].user.gen = 0 /\ auCall[c].user \in UserRec
      /\ OwnSetup(auCall[c].user, auMade, auOwner)
  BY <1>t, <1>4, Zenon DEF MfaInv, SetupsOK, CallRec
<1>6. u \in UserRec /\ u.id = i /\ u.gen = 0 /\ u.len = auCall[c].user.len
  BY <1>2, <1>5, Zenon DEF UserRec
<1>7. /\ auMade' \in [user : Nat, token : Nat, gen : Nat] /\ auMade'.user = i /\ auMade'.gen = auMade.gen
      /\ auMade.user =< auMade'.user
  BY <1>t, <1>1, <1>4
<1>8. CodesOK' /\ CodeUsedOnce'
  BY <1>t, <1>4, <1>7, CodesKept, Zenon DEF MfaInv
<1>9. OwnSetup(u, auMade', auOwner) /\ OwnSetup(NoUser, auMade', auOwner) /\ FreshCodes(u, auArr, auUses)
  BY <1>t, <1>1, <1>5, <1>6, <1>7, AuAssumption DEF OwnSetup, NoUser, FreshCodes
<1>10. \/ x.pc = "saveSession" /\ x.user = u /\ Accepts(u)
       \/ x = NoCall /\ x.pc = "idle" /\ x.user = NoUser
  BY <1>3, Zenon DEF NoCall
<1>11. \A d \in Call : auCall'[d] = IF d = c THEN x ELSE auCall[d]
  BY <1>t, <1>4, Zenon
<1>12. \A j \in UserId : auUser'[j] = IF j = i /\ Accepts(u) THEN u ELSE auUser[j]
  BY <1>t, <1>4, <1>6, Zenon DEF SaveUser
<1>13. \A v \in UserRec : OwnSetup(v, auMade, auOwner) => OwnSetup(v, auMade', auOwner)
  BY <1>t, <1>7, SetupKept
<1>14. SetupsOK'
  <2>1. \A j \in UserId : OwnSetup(auUser'[j], auMade', auOwner)
    BY <1>t, <1>9, <1>12, <1>13, Zenon DEF MfaInv, SetupsOK
  <2>2. ASSUME NEW d \in Call
        PROVE  /\ OwnSetup(auCall'[d].user, auMade', auOwner)
               /\ auCall'[d].pc \in {"create", "ssoCreate"} => auCall'[d].user.id = 0 /\ auCall'[d].user.gen = 0
    <3>1. CASE d = c
      <4>1. x.pc \notin {"create", "ssoCreate"} /\ OwnSetup(x.user, auMade', auOwner)
        BY <1>9, <1>10, Zenon
      <4> QED
        BY <1>11, <3>1, <4>1, Zenon
    <3>2. CASE d # c
      <4>1. auCall'[d] = auCall[d] /\ auCall[d].user \in UserRec
        BY <1>t, <1>11, <3>2, Zenon DEF CallRec
      <4> QED
        BY <1>13, <4>1, Zenon DEF MfaInv, SetupsOK
    <3> QED
      BY <3>1, <3>2, Zenon
  <2> QED
    BY <1>4, <2>1, <2>2, Zenon DEF SetupsOK
<1>15. ASSUME NEW j \in UserId \ auRaced PROVE NewestOf(j, auCall', auUser'[j], auArr, auUses)
  <2>0. j # 0
    BY DEF UserId
  <2>1. NewestOf(j, auCall, auUser[j], auArr, auUses)
    BY Zenon DEF MfaInv, NewestOK
  <2>2. ~Busy(auCall[c], j)
    BY <1>5, <2>0, Zenon DEF Busy
  <2>3. CASE j # i
    <3>1. ~Busy(x, j)
      BY <1>6, <1>10, <2>3, Zenon DEF Busy
    <3>2. auUser'[j] = auUser[j]
      BY <1>12, <2>3, Zenon
    <3> QED
      BY <1>t, <1>4, <2>1, <2>2, <3>1, <3>2, NewestOther, Zenon
  <2>4. CASE j = i
    <3>1. ASSUME NEW d \in Call PROVE ~Busy(auCall[d], i)
      <4>1. OwnSetup(auCall[d].user, auMade, auOwner) /\ auCall[d].user \in UserRec
        BY <1>t, Zenon DEF MfaInv, SetupsOK, CallRec
      <4> QED
        BY <1>t, <1>1, <4>1 DEF OwnSetup, Busy
    <3>2. CASE x.pc = "saveSession" /\ x.user = u /\ Accepts(u)
      <4>1. Busy(x, i) /\ auUser'[i] = u
        BY <1>6, <1>12, <3>2, Zenon DEF Busy
      <4> QED
        BY <1>t, <1>4, <1>6, <1>9, <2>4, <3>1, <3>2, <4>1, NewestTaken, Zenon
    <3>3. CASE x.pc = "idle"
      <4>1. \A d \in Call : ~Busy(auCall'[d], i)
        BY <1>11, <3>1, <3>3, Zenon DEF Busy
      <4>2. FreshCodes(auUser[i], auArr, auUses)
        BY <2>1, <2>4, <3>1, Zenon DEF NewestOf
      <4>3. FreshCodes(auUser'[i], auArr, auUses)
        BY <1>9, <1>12, <4>2, Zenon
      <4> QED
        BY <2>4, <4>1, <4>3, Zenon DEF NewestOf
    <3> QED
      BY <1>10, <3>2, <3>3, Zenon
  <2> QED
    BY <2>3, <2>4, Zenon
<1> QED
  BY <1>4, <1>8, <1>14, <1>15, Zenon DEF MfaInv, NewestOK

\* EnableMFA: a setup of its own, with codes that nobody used.
LEMMA EnableMfa == ASSUME UsersOK, RequestsOK, MfaInv, NEW c \in Call, NEW i \in UserId, EnableMFA(c, i) PROVE MfaInv'
<1>t. /\ auMade \in [user : Nat, token : Nat, gen : Nat] /\ auUser \in [UserId -> UserRec]
  BY Zenon DEF RequestsOK, UsersOK
<1>1. PICK g \in Gen : g = auMade.gen + 1
  BY <1>t DEF EnableMFA, Gen
<1>2. PICK u : u = [auUser[i] EXCEPT !.gen = g, !.len = Len(Code)]
  BY Zenon
<1>3. /\ auUser[i].id # 0 /\ Take(c, u, "saveUser", 0) /\ auMade' = [auMade EXCEPT !.gen = g]
      /\ auOwner' = [auOwner EXCEPT ![g] = auUser[i].id] /\ UNCHANGED <<auUser, auArr, auUses>>
  BY <1>1, <1>2, Zenon DEF EnableMFA
<1>4. auUser[i] \in UserRec /\ auUser[i].id = i
  BY <1>3, FoundUser, Zenon
<1>5. /\ u \in UserRec /\ u.id = i /\ u.name = auUser[i].name /\ u.email = auUser[i].email
      /\ u.gen = g /\ u.len = Len(Code)
  <2>1. PICK h : h = [auUser[i] EXCEPT !.gen = g]
    BY Zenon
  <2>2. u = [h EXCEPT !.len = Len(Code)]
    BY <1>2, <2>1, Zenon
  <2>3. g \in 0..MaxGen /\ Len(Code) \in Int
    BY AuAssumption DEF Gen
  <2>4. h \in UserRec /\ h.id = i /\ h.name = auUser[i].name /\ h.email = auUser[i].email /\ h.gen = g
    BY <1>4, <2>1, <2>3, Zenon DEF UserRec
  <2> QED
    BY <2>2, <2>3, <2>4, Zenon DEF UserRec
<1>6. /\ auMade' \in [user : Nat, token : Nat, gen : Nat] /\ auMade'.user = auMade.user /\ auMade'.gen = g
      /\ auMade.user =< auMade'.user /\ auMade.gen =< auMade'.gen
  BY <1>t, <1>1, <1>3
<1>7. /\ auOwner \in [Gen -> {0} \cup UserId] /\ auOwner' \in [Gen -> {0} \cup UserId]
      /\ auOwner'[g] = i /\ \A h \in Gen : h # g => auOwner'[h] = auOwner[h]
  BY <1>3, <1>4, Zenon DEF MfaInv, CodesOK
<1>8. \A h \in Gen : h =< auMade.gen => h # g
  BY <1>t, <1>1 DEF Gen
<1>9. i =< auMade.user
  BY <1>4, Zenon DEF MfaInv, SetupsOK, OwnSetup
<1>10. auArr[g] = Code /\ \A k \in CodeSet : auUses[g][k] = 0
  BY <1>t, <1>1, SMTT(20) DEF MfaInv, CodesOK
<1>11. OwnSetup(u, auMade', auOwner')
  BY <1>5, <1>6, <1>7, <1>9, AuAssumption, SMTT(20) DEF OwnSetup, Gen
<1>12. FreshCodes(u, auArr, auUses)
  BY <1>5, <1>10, FreshMade, Zenon
<1>13. SetupsOK' /\ NewestOK'
  BY <1>3, <1>5, <1>6, <1>7, <1>8, <1>11, <1>12, ReadMfa, Zenon DEF MfaInv
<1>14. CodesOK'
  <2>1. \A h \in Gen : h > auMade'.gen => auArr[h] = Code /\ \A k \in CodeSet : auUses[h][k] = 0
    BY <1>t, <1>1, <1>6 DEF MfaInv, CodesOK, Gen
  <2>2. \A h \in Gen : auOwner'[h] =< auMade'.user
    BY <1>6, <1>7, <1>9, Zenon DEF MfaInv, CodesOK
  <2> QED
    BY <1>3, <1>7, <2>1, <2>2, Zenon DEF MfaInv, CodesOK
<1>15. CodeUsedOnce'
  <2>1. auRaced \subseteq auRaced'
    BY <1>3, Zenon DEF Take
  <2>2. ASSUME NEW h \in Gen, auOwner'[h] \notin auRaced', NEW k \in CodeSet PROVE auUses[h][k] <= 1
    <3>1. CASE h = g
      BY <1>10, <3>1
    <3>2. CASE h # g
      BY <1>7, <2>1, <2>2, <3>2, Zenon DEF MfaInv, CodeUsedOnce
    <3> QED
      BY <3>1, <3>2, Zenon
  <2> QED
    BY <1>3, <2>2, Zenon DEF CodeUsedOnce
<1> QED
  BY <1>13, <1>14, <1>15, Zenon DEF MfaInv


\* VerifyMFA of a backup code: it was never accepted before, if the requests of
\* the user do not overlap, and the newest copy no longer has it.
LEMMA VerifyMfa ==
    ASSUME UsersOK, RequestsOK, MfaInv, NEW c \in Call, NEW t \in Token, NEW k \in {0} \cup CodeSet, VerifyMFA(c, t, k)
    PROVE  MfaInv'
<1>t. /\ auMade \in [user : Nat, token : Nat, gen : Nat] /\ auUser \in [UserId -> UserRec]
      /\ auArr \in [Gen -> [DOMAIN Code -> CodeSet]] /\ auUses \in [Gen -> [CodeSet -> Nat]]
  BY Zenon DEF RequestsOK, UsersOK, MfaInv, CodesOK
<1>1. PICK i : i = auSess[t].user
  BY Zenon
<1>2. PICK u : u = auUser[i]
  BY Zenon
<1>3. i # 0 /\ u.id # 0 /\ u.gen # 0 /\ UNCHANGED <<auUser, auMade, auOwner>>
  BY <1>1, <1>2, Zenon DEF VerifyMFA
<1>4. i \in UserId
  BY <1>1, <1>3, Zenon DEF RequestsOK
<1>5. u \in UserRec /\ u.id = i /\ u.gen \in Gen /\ u.len \in Int
  <2>1. u \in UserRec /\ u.id = i
    BY <1>2, <1>3, <1>4, FoundUser, Zenon
  <2> QED
    BY <1>3, <2>1, AuAssumption DEF UserRec, Gen
<1>6. OwnSetup(u, auMade, auOwner)
  BY <1>2, <1>4, Zenon DEF MfaInv, SetupsOK
<1>7. u.len =< Len(Code) /\ auOwner[u.gen] = i /\ Len(Code) \in Nat /\ DOMAIN Code = 1..Len(Code)
  BY <1>3, <1>5, <1>6, AuAssumption DEF OwnSetup
<1>8. CASE Take(c, u, "saveVerified", t) /\ UNCHANGED <<auArr, auUses>>
  BY <1>2, <1>3, <1>4, <1>5, <1>8, LookupMfa, Zenon
<1>9. ASSUME NEW m \in 1..u.len, auArr[u.gen][m] = k,
             Take(c, [u EXCEPT !.len = @ - 1], "saveVerified", t),
             auArr' = [auArr EXCEPT ![u.gen] = Removed(auArr[u.gen], m, u.len)],
             auUses' = [auUses EXCEPT ![u.gen][k] = IF @ < 2 THEN @ + 1 ELSE @]
      PROVE  MfaInv'
  <2>1. PICK w : w = [u EXCEPT !.len = @ - 1]
    BY Zenon
  <2>2. w \in UserRec /\ w.id = i /\ w.name = u.name /\ w.email = u.email /\ w.gen = u.gen /\ w.len = u.len - 1
    BY <1>5, <2>1 DEF UserRec
  <2>3. k \in CodeSet
    <3>1. m \in DOMAIN Code
      BY <1>5, <1>7
    <3> QED
      BY <1>t, <1>5, <1>9, <3>1
  <2>4. /\ auUses' \in [Gen -> [CodeSet -> Nat]] /\ (\A h \in Gen : h # u.gen => auUses'[h] = auUses[h])
        /\ auUses'[u.gen] \in [CodeSet -> Nat] /\ (\A j \in CodeSet : j # k => auUses'[u.gen][j] = auUses[u.gen][j])
        /\ auUses'[u.gen][k] = IF auUses[u.gen][k] < 2 THEN auUses[u.gen][k] + 1 ELSE auUses[u.gen][k]
    BY <1>t, <1>5, <1>9, <2>3
  <2>5. \A h \in Gen : h # u.gen => auArr'[h] = auArr[h]
    BY <1>t, <1>9, Zenon
  <2>6. auArr' \in [Gen -> [DOMAIN Code -> CodeSet]]
    <3>1. ASSUME NEW j \in DOMAIN Code
          PROVE  (IF m <= j /\ j < u.len THEN auArr[u.gen][j + 1] ELSE auArr[u.gen][j]) \in CodeSet
      <4>1. j < u.len => j + 1 \in DOMAIN Code
        BY <1>5, <1>7
      <4> QED
        BY <1>t, <1>5, <4>1
    <3>2. Removed(auArr[u.gen], m, u.len) \in [DOMAIN Code -> CodeSet]
      BY <1>t, <1>5, <3>1, Zenon DEF Removed
    <3> QED
      BY <1>t, <1>5, <1>9, <3>2, Zenon
  <2>7. FreshCodes(u, auArr, auUses) => auUses[u.gen][k] = 0 /\ FreshCodes(w, auArr', auUses')
    <3>1. PICK arr2, uses2 : arr2 = auArr' /\ uses2 = auUses'
      BY Zenon
    <3>2. /\ arr2[u.gen] = Removed(auArr[u.gen], m, u.len)
          /\ uses2[u.gen] \in [CodeSet -> Nat]
          /\ \A j \in CodeSet : j # k => uses2[u.gen][j] = auUses[u.gen][j]
      BY <1>t, <1>5, <1>9, <2>4, <3>1, Zenon
    <3>3. m \in 1..u.len /\ auArr[u.gen][m] = k /\ u.len =< Len(Code)
      BY <1>7, <1>9, Zenon
    <3>4. TakesCode(u, w, m, k, auArr, auUses, arr2, uses2)
      BY <1>t, <1>5, <2>2, <2>3, <3>2, <3>3, Zenon DEF TakesCode
    <3> QED
      BY <3>1, <3>4, FreshRemoved, Zenon
  <2>8. Take(c, w, "saveVerified", t)
    BY <1>9, <2>1, Zenon
  <2>9. OwnSetup(w, auMade, auOwner)
    BY <1>5, <1>6, <1>7, <2>2 DEF OwnSetup
  <2>10. auMade.user =< auMade'.user /\ auMade.gen =< auMade'.gen
    BY <1>t, <1>3
  <2>11. SetupsOK' /\ NewestOK'
    <3>1. \A h \in Gen : auOwner[h] # i => auArr'[h] = auArr[h] /\ auUses'[h] = auUses[h]
      BY <1>7, <2>4, <2>5, Zenon
    <3> QED
      BY <1>t, <1>2, <1>3, <1>4, <2>2, <2>7, <2>8, <2>9, <2>10, <3>1, ReadMfa, Zenon DEF MfaInv
  <2>12. CodesOK'
    <3>1. \A h \in Gen : h > auMade.gen => h # u.gen
      BY <1>t, <1>5, <1>6 DEF OwnSetup, Gen
    <3>2. /\ \A h \in Gen : h > auMade.gen => auArr[h] = Code /\ \A j \in CodeSet : auUses[h][j] = 0
          /\ auOwner \in [Gen -> {0} \cup UserId] /\ \A h \in Gen : auOwner[h] =< auMade.user
      BY Zenon DEF MfaInv, CodesOK
    <3>3. \A h \in Gen : h > auMade.gen => auArr'[h] = Code /\ \A j \in CodeSet : auUses'[h][j] = 0
      BY <2>4, <2>5, <3>1, <3>2
    <3> QED
      BY <1>3, <2>4, <2>6, <3>2, <3>3, Zenon DEF CodesOK
  <2>13. CodeUsedOnce'
    <3>1. auRaced \subseteq auRaced'
      BY <2>8, Zenon DEF Take
    <3>2. i \notin auRaced' => auUses[u.gen][k] = 0
      <4>1. ASSUME i \notin auRaced' PROVE Holding(i) = {} /\ i \notin auRaced
        BY <1>3, <2>2, <2>8, <4>1, Zenon DEF Take
      <4>2. ASSUME i \notin auRaced' PROVE FreshCodes(u, auArr, auUses)
        <5>1. \A d \in Call : ~Busy(auCall[d], i)
          BY <4>1, <4>2, Held, Zenon
        <5>2. NewestOf(i, auCall, u, auArr, auUses)
          BY <1>2, <1>4, <4>1, <4>2, Zenon DEF MfaInv, NewestOK
        <5> QED
          BY <5>1, <5>2, Zenon DEF NewestOf
      <4> QED
        BY <2>7, <4>2, Zenon
    <3>3. ASSUME NEW h \in Gen, auOwner[h] \notin auRaced', NEW j \in CodeSet PROVE auUses'[h][j] <= 1
      <4>1. auUses[h][j] <= 1
        BY <3>1, <3>3, Zenon DEF MfaInv, CodeUsedOnce
      <4>2. CASE h # u.gen
        BY <2>4, <4>1, <4>2, Zenon
      <4>3. CASE h = u.gen /\ j # k
        BY <2>4, <4>1, <4>3, Zenon
      <4>4. CASE h = u.gen /\ j = k
        BY <1>7, <2>4, <3>2, <3>3, <4>4
      <4> QED
        BY <4>2, <4>3, <4>4, Zenon
    <3> QED
      BY <1>3, <3>3, Zenon DEF CodeUsedOnce
  <2> QED
    BY <2>11, <2>12, <2>13, Zenon DEF MfaInv
<1> QED
  BY <1>1, <1>2, <1>8, <1>9, Zenon DEF VerifyMFA

LEMMA MfaInit == AuInit => MfaInv
<1> SUFFICES ASSUME AuInit PROVE MfaInv
  BY Zenon
<1>1. /\ auUser = [i \in UserId |-> NoUser] /\ auArr = [g \in Gen |-> Code] /\ auCall = [c \in Call |-> NoCall]
      /\ auMade = [user |-> 0, token |-> 0, gen |-> 0] /\ auOwner = [g \in Gen |-> 0]
      /\ auUses = [g \in Gen |-> [k \in CodeSet |-> 0]] /\ auRaced = {}
  BY Zenon DEF AuInit
<1>2. auMade.user = 0 /\ auMade.gen = 0
  BY <1>1, SMTT(20)
<1>3. /\ OwnSetup(NoUser, auMade, auOwner) /\ NoCall.user = NoUser /\ NoCall.pc = "idle"
      /\ FreshCodes(NoUser, auArr, auUses)
  BY <1>2, AuAssumption, SMTT(20) DEF OwnSetup, NoUser, NoCall, FreshCodes
<1>4. Code \in [DOMAIN Code -> CodeSet]
  BY AuAssumption DEF CodeSet
<1>5. CodesOK
  <2>1. \A g \in Gen : auArr[g] = Code /\ auOwner[g] = 0 /\ \A k \in CodeSet : auUses[g][k] = 0
    BY <1>1, Zenon
  <2>2. auArr \in [Gen -> [DOMAIN Code -> CodeSet]] /\ auOwner \in [Gen -> {0} \cup UserId]
    BY <1>1, <1>4, Zenon
  <2>3. auUses \in [Gen -> [CodeSet -> Nat]]
    BY <1>1, Zenon
  <2>4. \A g \in Gen : auOwner[g] =< auMade.user
    BY <1>2, <2>1
  <2> QED
    BY <2>1, <2>2, <2>3, <2>4, Zenon DEF CodesOK
<1>6. (\A i \in UserId : auUser[i] = NoUser) /\ (\A c \in Call : auCall[c] = NoCall)
  BY <1>1, Zenon
<1>7. SetupsOK
  BY <1>3, <1>6, Zenon DEF SetupsOK
<1>8. NewestOK
  BY <1>3, <1>6, Zenon DEF NewestOK, NewestOf, Busy
<1>9. CodeUsedOnce
  BY <1>1 DEF CodeUsedOnce
<1> QED
  BY <1>5, <1>7, <1>8, <1>9, Zenon DEF MfaInv

LEMMA MfaNext == UsersOK /\ RequestsOK /\ MfaInv /\ [AuNext]_auVars => MfaInv'
<1> SUFFICES ASSUME UsersOK, RequestsOK, MfaInv, [AuNext]_auVars PROVE MfaInv'
  BY Zenon
<1>1. ASSUME NEW c \in Call, NEW n \in Name, NEW e \in Email, CreateUser(c, n, e) PROVE MfaInv'
  BY <1>1, NamedMfa, Zenon DEF CreateUser
<1>2. ASSUME NEW i \in UserId, auUser[i].id # 0, NEW c \in Call, Take(c, auUser[i], "saveSession", 0),
             UNCHANGED <<auUser, auMade, auOwner, auArr, auUses>>
      PROVE  MfaInv'
  BY <1>2, FoundUser, LookupMfa, Zenon
<1>3. ASSUME NEW c \in Call, NEW n \in Name, NEW e \in Email, AuthenticateWithSSO(c, n, e) PROVE MfaInv'
  <2>1. CASE auByEmail[e] # 0
    BY <1>2, <1>3, <2>1, Indexed, Zenon DEF AuthenticateWithSSO
  <2>2. CASE auByEmail[e] = 0
    BY <1>3, <2>2, NamedMfa, Zenon DEF AuthenticateWithSSO, ValidateToken
  <2> QED
    BY <2>1, <2>2, Zenon
<1>4. ASSUME NEW c \in Call, NEW n \in Name, AuthenticateWithPassword(c, n) PROVE MfaInv'
  BY <1>2, <1>4, Indexed, Zenon DEF AuthenticateWithPassword
<1>5. ASSUME NEW c \in Call, NEW i \in UserId, DisableMFA(c, i) PROVE MfaInv'
  <2>1. PICK u : u = [auUser[i] EXCEPT !.gen = 0, !.len = 0]
    BY Zenon
  <2>2. /\ auUser[i].id # 0 /\ Take(c, u, "saveUser", 0) /\ UNCHANGED <<auUser, auMade, auOwner, auArr, auUses>>
    BY <1>5, <2>1, Zenon DEF DisableMFA
  <2>3. auUser[i] \in UserRec /\ auUser[i].id = i
    BY <2>2, FoundUser, Zenon
  <2>4. PICK h : h = [auUser[i] EXCEPT !.gen = 0]
    BY Zenon
  <2>5. u = [h EXCEPT !.len = 0]
    BY <2>1, <2>4, Zenon
  <2>6. h \in UserRec /\ h.id = i /\ h.name = auUser[i].name /\ h.email = auUser[i].email /\ h.gen = 0
    <3>1. 0 \in 0..MaxGen
      BY AuAssumption
    <3> QED
      BY <2>3, <2>4, <3>1, Zenon DEF UserRec
  <2>7. /\ u \in UserRec /\ u.id = i /\ u.name = auUser[i].name /\ u.email = auUser[i].email
        /\ u.gen = 0 /\ u.len = 0
    BY <2>5, <2>6 DEF UserRec
  <2> QED
    BY <2>2, <2>7, LookupMfa, Zenon
<1>6. ASSUME NEW c \in Call, NEW t \in Token, HandleMFASetup(c, t) PROVE MfaInv'
  <2>1. auSess[t].user \in UserId /\ EnableMFA(c, auSess[t].user)
    BY <1>6, Zenon DEF HandleMFASetup, Authorized, Valid, RequestsOK
  <2> QED
    BY <2>1, EnableMfa, Zenon
<1>7. CASE UNCHANGED <<auUser, auArr, auCall, auMade, auOwner, auUses, auRaced>>
  BY <1>7, Zenon DEF MfaInv, CodesOK, SetupsOK, NewestOK, CodeUsedOnce
<1>8. ASSUME NEW tokens \in SUBSET Token, DropSessions(tokens) PROVE MfaInv'
  BY <1>7, <1>8, Zenon DEF DropSessions
<1>9. CASE UNCHANGED auVars
  BY <1>7, <1>9, Zenon DEF auVars
<1> QED
  BY <1>1, <1>3, <1>4, <1>5, <1>6, <1>8, <1>9, NewMfa, SessionMfa, BackMfa, VerifyMfa, DeletedMfa, Zenon DEF AuNext

\* CodeUsedOnce for any number of users, sessions, requests and codes: "Remove used
\* backup code" of VerifyMFA, although it works on an array that copies of the user
\* share and on a copy that is saved later.
THEOREM CodesUsedOnce == AuSpec => []CodeUsedOnce
<1>1. MfaInv => CodeUsedOnce
  BY Zenon DEF MfaInv
<1>2. AuInit => UsersOK /\ RequestsOK /\ MfaInv
  BY AccountsInit, MfaInit, Zenon
<1>3. UsersOK /\ RequestsOK /\ MfaInv /\ [AuNext]_auVars => UsersOK' /\ RequestsOK' /\ MfaInv'
  BY AccountsStep, MfaNext, Zenon
<1> QED
  BY <1>1, <1>2, <1>3, PTL DEF AuSpec
=============================================================================
