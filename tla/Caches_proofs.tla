--------------------------- MODULE Caches_proofs ----------------------------
(***************************************************************************)
(* Proofs about what is answered from a cache: FeatureFlags and            *)
(* DnsRecords.  Each has an inductive invariant, named for it.             *)
(***************************************************************************)
EXTENDS Access_proofs, WellFoundedInduction
-----------------------------------------------------------------------------
(***************************************************************************)
(* Feature flags.                                                          *)
(***************************************************************************)
Asking == [op : {"idle", "change", "list", "evaluate"},
           pc : {"off", "written", "loaded", "flag", "answered"},
           got : Nat \union {None}, since : Nat, late : BOOLEAN, failed : BOOLEAN]

FlagTypes ==
  /\ revision \in Nat
  /\ cache \in [Servers -> Nat \union {None}]
  /\ flagRequest \in [FlagRequests -> Asking]
  /\ settled \in [Servers -> Nat]
  /\ outdated \in [Servers -> BOOLEAN]

\* A server's cache is as new as what the server has answered for.
Caches(s) ==
  /\ settled[s] <= revision
  /\ cache[s] # None /\ ~outdated[s] => cache[s] >= settled[s]

\* What a request holds: a change its revision, a listing that is not late the
\* latest one, an evaluation what was settled when it began, unless a read failed.
AsksFor(r) ==
  LET q == flagRequest[r]
  IN  /\ q.pc = "written" => q.got \in Nat /\ q.got <= revision
      /\ q.pc = "loaded" => q.late \/ q.got = revision
      /\ q.pc = "flag" => q.since <= settled[HomeOf[r]]
      /\ q.pc = "answered" => q.failed \/ q.late \/ (q.got \in Nat /\ q.got >= q.since)

FlagInv ==
  /\ FlagTypes
  /\ \A s \in Servers : Caches(s)
  /\ \A r \in FlagRequests : AsksFor(r)

LEMMA NewAsking ==
  /\ Flag!Idle \in Asking /\ Flag!Idle.pc = "off"
  /\ Flag!Idle.since = 0 /\ Flag!Idle.got = None /\ ~Flag!Idle.late
  BY DEF Flag!Idle, Asking

\* One request moves; no row is changed and what is settled does not become less.
LEMMA AskingMoves ==
  ASSUME FlagInv, NEW r \in FlagRequests, NEW q \in Asking,
         flagRequest' = [flagRequest EXCEPT ![r] = q],
         revision' = revision, settled' \in [Servers -> Nat],
         \A s \in Servers : settled[s] <= settled'[s],
         cache' \in [Servers -> Nat \union {None}], outdated' \in [Servers -> BOOLEAN],
         \A s \in Servers : Caches(s)',
         q.pc = "written" => q.got \in Nat /\ q.got <= revision,
         q.pc = "loaded" => q.late \/ q.got = revision,
         q.pc = "flag" => q.since <= settled'[HomeOf[r]],
         q.pc = "answered" => q.failed \/ q.late \/ (q.got \in Nat /\ q.got >= q.since)
  PROVE  FlagInv'
  <1>1. flagRequest \in [FlagRequests -> Asking] /\ settled \in [Servers -> Nat]
    BY DEF FlagInv, FlagTypes
  <1>2. /\ flagRequest' \in [FlagRequests -> Asking] /\ flagRequest'[r] = q
        /\ \A p \in FlagRequests : p # r => flagRequest'[p] = flagRequest[p]
    BY <1>1
  <1>3. FlagTypes'
    BY <1>2 DEF FlagInv, FlagTypes
  <1>4. ASSUME NEW p \in FlagRequests PROVE AsksFor(p)'
    <2>1. CASE p = r
      BY <1>2, <2>1 DEF AsksFor
    <2>2. CASE p # r
      <3>1. HomeOf[p] \in Servers /\ AsksFor(p) /\ flagRequest[p] \in Asking
        BY <1>1, PlatformAssumption DEF FlagInv, Flag!FlagAssumption
      <3>2. settled[HomeOf[p]] \in Nat /\ settled'[HomeOf[p]] \in Nat /\ flagRequest[p].since \in Nat
        BY <1>1, <3>1 DEF Asking
      <3>3. flagRequest[p].since <= settled[HomeOf[p]] => flagRequest[p].since <= settled'[HomeOf[p]]
        BY <3>1, <3>2
      <3> QED
        BY <1>2, <2>2, <3>1, <3>3 DEF AsksFor
    <2> QED
      BY <2>1, <2>2
  <1> QED
    BY <1>3, <1>4 DEF FlagInv

LEMMA WrittenKeeps ==
  ASSUME FlagInv, NEW r \in FlagRequests, Flag!Written(r)
  PROVE  FlagInv'
  <1> DEFINE new == [Flag!Idle EXCEPT !.op = "change", !.pc = "written", !.got = revision + 1]
  <1>1. FlagTypes /\ revision \in Nat /\ flagRequest \in [FlagRequests -> Asking]
    BY DEF FlagInv, FlagTypes
  <1>2. revision' = revision + 1
    BY DEF Flag!Written
  <1>3. cache' = cache /\ settled' = settled
    BY DEF Flag!Written
  <1>4. revision' \in Nat /\ revision < revision'
    BY <1>1, <1>2
  <1>5. new \in Asking /\ new.pc = "written" /\ new.got = revision + 1
    BY <1>1, <1>2, <1>4 DEF Asking, Flag!Idle
  <1>6. flagRequest' = [q \in FlagRequests |->
           IF q = r THEN new
           ELSE [flagRequest[q] EXCEPT !.late = flagRequest[q].late \/ flagRequest[q].pc = "loaded"]]
    BY DEF Flag!Written
  <1> HIDE DEF new
  <1>7. ASSUME NEW p \in FlagRequests
        PROVE  flagRequest'[p] \in Asking /\ AsksFor(p)'
    <2>1. CASE p = r
      BY <1>2, <1>4, <1>5, <1>6, <2>1 DEF AsksFor
    <2>2. CASE p # r
      <3>1. PICK b \in BOOLEAN : b = (flagRequest[p].late \/ flagRequest[p].pc = "loaded")
        OBVIOUS
      <3>2. flagRequest'[p] = [flagRequest[p] EXCEPT !.late = b]
        BY <1>6, <2>2, <3>1
      <3>3. flagRequest[p] \in Asking /\ AsksFor(p)
        BY <1>1 DEF FlagInv
      <3>4. /\ flagRequest'[p] \in Asking /\ flagRequest'[p].late = b
            /\ flagRequest'[p].pc = flagRequest[p].pc /\ flagRequest'[p].got = flagRequest[p].got
            /\ flagRequest'[p].since = flagRequest[p].since
            /\ flagRequest'[p].failed = flagRequest[p].failed
        BY <3>2, <3>3 DEF Asking
      <3>5. flagRequest[p].pc = "loaded" => flagRequest'[p].late
        BY <3>1, <3>4
      <3>6. flagRequest[p].late => flagRequest'[p].late
        BY <3>1, <3>4
      <3>7. flagRequest[p].got \in Nat /\ flagRequest[p].got <= revision => flagRequest[p].got <= revision'
        BY <1>1, <1>4
      <3> QED
        BY <1>3, <3>3, <3>4, <3>5, <3>6, <3>7 DEF AsksFor
    <2> QED
      BY <2>1, <2>2
  <1>8. outdated' \in [Servers -> BOOLEAN] /\ \A s \in Servers : outdated[s] => outdated'[s]
    BY <1>1 DEF FlagTypes, Flag!Written
  <1>9. flagRequest' \in [FlagRequests -> Asking]
    <2>1. flagRequest' = [p \in FlagRequests |-> flagRequest'[p]]
      BY <1>6
    <2> QED
      BY <1>7, <2>1
  <1>10. \A s \in Servers : Caches(s)'
    <2> SUFFICES ASSUME NEW s \in Servers PROVE Caches(s)'
      OBVIOUS
    <2>1. Caches(s) /\ settled[s] \in Nat
      BY <1>1 DEF FlagInv, FlagTypes
    <2> QED
      BY <1>1, <1>3, <1>4, <1>8, <2>1 DEF Caches
  <1>11. FlagTypes'
    BY <1>1, <1>3, <1>4, <1>8, <1>9 DEF FlagTypes
  <1> QED
    BY <1>7, <1>10, <1>11 DEF FlagInv

LEMMA FlagAnswerKeeps ==
  ASSUME FlagInv, NEW r \in FlagRequests, Flag!Answer(r)
  PROVE  FlagInv'
  <1>0. FlagTypes /\ AsksFor(r) /\ HomeOf[r] \in Servers
    BY PlatformAssumption DEF FlagInv, Flag!FlagAssumption
  <1>1. PICK s \in Servers : s = HomeOf[r]
    BY <1>0
  <1>2. /\ revision' = revision /\ cache' = [cache EXCEPT ![s] = None]
        /\ outdated' = [outdated EXCEPT ![s] = FALSE]
        /\ flagRequest' = [flagRequest EXCEPT ![r] = Flag!Idle] /\ flagRequest[r].pc = "written"
    BY <1>1 DEF Flag!Answer, Flag!Invalidate, Flag!Set
  <1>3. PICK g \in Nat : g = flagRequest[r].got /\ g <= revision
    BY <1>0, <1>2 DEF AsksFor
  <1>4. settled' = [settled EXCEPT ![s] = IF settled[s] < g THEN g ELSE settled[s]]
    BY <1>1, <1>3 DEF Flag!Answer
  <1>5. settled \in [Servers -> Nat] /\ revision \in Nat /\ \A t \in Servers : settled[t] <= revision
    BY <1>0 DEF FlagTypes, FlagInv, Caches
  <1>6. settled' \in [Servers -> Nat] /\ \A t \in Servers : settled[t] <= settled'[t] /\ settled'[t] <= revision
    BY <1>3, <1>4, <1>5
  <1>7. cache' \in [Servers -> Nat \union {None}] /\ outdated' \in [Servers -> BOOLEAN]
    BY <1>0, <1>2 DEF FlagTypes
  <1>8. ASSUME NEW t \in Servers PROVE Caches(t)'
    <2>1. CASE t = s
      BY <1>0, <1>2, <1>6, <2>1 DEF Caches, FlagTypes
    <2>2. CASE t # s
      <3>1. settled'[t] = settled[t] /\ cache'[t] = cache[t] /\ outdated'[t] = outdated[t]
        BY <1>0, <1>2, <1>4, <2>2 DEF FlagTypes
      <3> QED
        BY <1>2, <3>1 DEF FlagInv, Caches
    <2> QED
      BY <2>1, <2>2
  <1> QED
    BY <1>2, <1>6, <1>7, <1>8, NewAsking, AskingMoves

LEMMA FillKeeps ==
  ASSUME FlagInv, NEW r \in FlagRequests, Flag!Fill(r)
  PROVE  FlagInv'
  <1>0. FlagTypes /\ AsksFor(r) /\ HomeOf[r] \in Servers /\ flagRequest[r] \in Asking
    BY PlatformAssumption DEF FlagInv, FlagTypes, Flag!FlagAssumption
  <1>1. PICK s \in Servers : s = HomeOf[r]
    BY <1>0
  <1>2. /\ revision' = revision /\ settled' = settled
        /\ cache' = [cache EXCEPT ![s] = flagRequest[r].got]
        /\ outdated' = [outdated EXCEPT ![s] = flagRequest[r].late]
        /\ flagRequest' = [flagRequest EXCEPT ![r] = Flag!Idle] /\ flagRequest[r].pc = "loaded"
    BY <1>1 DEF Flag!Fill, Flag!Set
  <1>3. flagRequest[r].got \in Nat \union {None} /\ flagRequest[r].late \in BOOLEAN
    BY <1>0 DEF Asking
  <1>4. cache' \in [Servers -> Nat \union {None}] /\ outdated' \in [Servers -> BOOLEAN]
    BY <1>0, <1>2, <1>3 DEF FlagTypes
  <1>5. settled \in [Servers -> Nat] /\ \A t \in Servers : Caches(t)
    BY <1>0 DEF FlagTypes, FlagInv
  <1>6. ASSUME NEW t \in Servers PROVE Caches(t)'
    <2>1. CASE t = s
      <3>1. cache'[t] = flagRequest[r].got /\ outdated'[t] = flagRequest[r].late
        BY <1>0, <1>2, <2>1 DEF FlagTypes
      <3>2. flagRequest[r].late \/ flagRequest[r].got = revision
        BY <1>0, <1>2 DEF AsksFor
      <3> QED
        BY <1>2, <1>5, <3>1, <3>2 DEF Caches
    <2>2. CASE t # s
      <3>1. cache'[t] = cache[t] /\ outdated'[t] = outdated[t]
        BY <1>0, <1>2, <2>2 DEF FlagTypes
      <3> QED
        BY <1>2, <1>5, <3>1 DEF Caches
    <2> QED
      BY <2>1, <2>2
  <1>7. \A t \in Servers : settled[t] <= settled'[t]
    BY <1>2, <1>5
  <1> QED
    BY <1>2, <1>4, <1>5, <1>6, <1>7, NewAsking, AskingMoves

LEMMA ExpireKeeps ==
  ASSUME FlagInv, NEW s \in Servers, Flag!Expire(s)
  PROVE  FlagInv'
  <1>1. /\ revision' = revision /\ settled' = settled /\ flagRequest' = flagRequest
        /\ cache' = [cache EXCEPT ![s] = None] /\ outdated' = [outdated EXCEPT ![s] = FALSE]
    BY DEF Flag!Expire, Flag!Invalidate
  <1>2. FlagTypes'
    BY <1>1 DEF FlagInv, FlagTypes
  <1>3. ASSUME NEW t \in Servers PROVE Caches(t)'
    BY <1>1 DEF FlagInv, FlagTypes, Caches
  <1> QED
    BY <1>1, <1>2, <1>3 DEF FlagInv, AsksFor

\* A listing and an evaluation only read, and Return forgets.
LEMMA AskKeeps ==
  ASSUME FlagInv, NEW r \in FlagRequests,
         Flag!Load(r) \/ Flag!LookUpOverride(r) \/ Flag!LookUpFlag(r) \/ Flag!Return(r)
  PROVE  FlagInv'
  <1>0. /\ FlagTypes /\ AsksFor(r) /\ HomeOf[r] \in Servers /\ flagRequest[r] \in Asking
        /\ revision \in Nat /\ settled[HomeOf[r]] \in Nat /\ Caches(HomeOf[r])
        /\ cache[HomeOf[r]] \in Nat \union {None} /\ outdated[HomeOf[r]] \in BOOLEAN
    BY PlatformAssumption DEF FlagInv, FlagTypes, Flag!FlagAssumption
  <1>1. /\ revision' = revision /\ settled' = settled /\ cache' = cache /\ outdated' = outdated
    BY DEF Flag!Load, Flag!LookUpOverride, Flag!LookUpFlag, Flag!Return
  <1>2. /\ settled' \in [Servers -> Nat] /\ cache' \in [Servers -> Nat \union {None}]
        /\ outdated' \in [Servers -> BOOLEAN]
        /\ \A s \in Servers : settled[s] <= settled'[s]
        /\ \A s \in Servers : Caches(s)'
    BY <1>0, <1>1 DEF FlagTypes, FlagInv, Caches
  <1>3. ASSUME NEW q \in Asking, flagRequest' = [flagRequest EXCEPT ![r] = q],
               q.pc = "written" => q.got \in Nat /\ q.got <= revision,
               q.pc = "loaded" => q.late \/ q.got = revision,
               q.pc = "flag" => q.since <= settled[HomeOf[r]],
               q.pc = "answered" => q.failed \/ q.late \/ (q.got \in Nat /\ q.got >= q.since)
        PROVE  FlagInv'
    BY <1>1, <1>2, <1>3, AskingMoves
  <1>4. CASE Flag!Load(r)
    <2>1. PICK q : q = [Flag!Idle EXCEPT !.op = "list", !.pc = "loaded", !.got = revision]
      OBVIOUS
    <2>2. q \in Asking /\ q.pc = "loaded" /\ q.got = revision
      BY <1>0, <2>1 DEF Asking, Flag!Idle
    <2>3. flagRequest' = [flagRequest EXCEPT ![r] = q]
      BY <1>4, <2>1 DEF Flag!Load, Flag!Set
    <2> QED
      BY <1>3, <2>2, <2>3
  <1>5. CASE Flag!LookUpOverride(r)
    <2>1. PICK b \in BOOLEAN :
            \/ Flag!Set(r, [Flag!Idle EXCEPT !.op = "evaluate", !.since = settled[HomeOf[r]],
                                             !.pc = "answered", !.got = revision])
            \/ Flag!Set(r, [Flag!Idle EXCEPT !.op = "evaluate", !.since = settled[HomeOf[r]],
                                             !.pc = "flag", !.failed = b])
      BY <1>5 DEF Flag!LookUpOverride, Flag!Idle
    <2>2. PICK p, q :
            /\ p = [Flag!Idle EXCEPT !.op = "evaluate", !.since = settled[HomeOf[r]], !.pc = "answered",
                                     !.got = revision]
            /\ q = [Flag!Idle EXCEPT !.op = "evaluate", !.since = settled[HomeOf[r]], !.pc = "flag",
                                     !.failed = b]
      OBVIOUS
    <2>3. p \in Asking /\ p.pc = "answered" /\ p.got = revision /\ p.since = settled[HomeOf[r]]
      BY <1>0, <2>2 DEF Asking, Flag!Idle
    <2>4. q \in Asking /\ q.pc = "flag" /\ q.since = settled[HomeOf[r]]
      BY <1>0, <2>2 DEF Asking, Flag!Idle
    <2>5. flagRequest' = [flagRequest EXCEPT ![r] = p] \/ flagRequest' = [flagRequest EXCEPT ![r] = q]
      BY <2>1, <2>2 DEF Flag!Set
    <2>6. revision >= settled[HomeOf[r]]
      BY <1>0 DEF Caches
    <2> QED
      BY <1>0, <1>3, <2>3, <2>4, <2>5, <2>6
  <1>6. CASE Flag!LookUpFlag(r)
    <2>1. PICK b \in BOOLEAN : b = (cache[HomeOf[r]] # None /\ outdated[HomeOf[r]])
      OBVIOUS
    <2>2. PICK g : g = IF cache[HomeOf[r]] = None THEN revision ELSE cache[HomeOf[r]]
      OBVIOUS
    <2>3. PICK q : q = [flagRequest[r] EXCEPT !.pc = "answered", !.got = g, !.late = b]
      OBVIOUS
    <2>4. g \in Nat /\ (b \/ g >= settled[HomeOf[r]])
      BY <1>0, <2>1, <2>2 DEF Caches
    <2>5. q \in Asking /\ q.pc = "answered" /\ q.got = g /\ q.late = b /\ q.since = flagRequest[r].since
      BY <1>0, <2>3, <2>4 DEF Asking
    <2>6. PICK p : p = [flagRequest[r] EXCEPT !.pc = "answered", !.failed = TRUE]
      OBVIOUS
    <2>7. p \in Asking /\ p.pc = "answered" /\ p.failed
      BY <1>0, <2>6 DEF Asking
    <2>8. \/ flagRequest' = [flagRequest EXCEPT ![r] = q]
          \/ flagRequest' = [flagRequest EXCEPT ![r] = p]
      BY <1>6, <2>1, <2>2, <2>3, <2>6 DEF Flag!LookUpFlag, Flag!Set
    <2>9. flagRequest[r].since \in Nat /\ flagRequest[r].since <= settled[HomeOf[r]]
      BY <1>0, <1>6 DEF AsksFor, Asking, Flag!LookUpFlag
    <2>10. b \/ g >= flagRequest[r].since
      BY <1>0, <2>4, <2>9
    <2> QED
      BY <1>3, <2>4, <2>5, <2>7, <2>8, <2>10
  <1>7. CASE Flag!Return(r)
    <2>1. flagRequest' = [flagRequest EXCEPT ![r] = Flag!Idle]
      BY <1>7 DEF Flag!Return, Flag!Set
    <2> QED
      BY <1>3, <2>1, NewAsking
  <1> QED
    BY <1>4, <1>5, <1>6, <1>7

LEMMA FlagNextInv ==
  ASSUME FlagInv, [Flag!Next]_(Flag!vars)
  PROVE  FlagInv'
  <1>1. ASSUME NEW r \in FlagRequests,
               \/ Flag!UpdateFeatureFlag(r) \/ Flag!SetFeatureFlagOverride(r)
               \/ Flag!DeleteFeatureFlagOverride(r)
        PROVE  FlagInv'
    BY <1>1, WrittenKeeps DEF Flag!UpdateFeatureFlag, Flag!SetFeatureFlagOverride,
       Flag!DeleteFeatureFlagOverride
  <1>2. CASE UNCHANGED Flag!vars
    <2>1. /\ revision' = revision /\ settled' = settled /\ cache' = cache /\ outdated' = outdated
          /\ flagRequest' = flagRequest
      BY <1>2 DEF Flag!vars
    <2> QED
      BY <2>1 DEF FlagInv, FlagTypes, Caches, AsksFor
  <1> QED
    BY <1>1, <1>2, FlagAnswerKeeps, FillKeeps, ExpireKeeps, AskKeeps DEF Flag!Next

LEMMA FlagInitInv ==
  ASSUME Flag!Init
  PROVE  FlagInv
  <1>1. /\ revision = 0 /\ cache = [s \in Servers |-> None]
        /\ flagRequest = [r \in FlagRequests |-> Flag!Idle]
        /\ settled = [s \in Servers |-> 0] /\ outdated = [s \in Servers |-> FALSE]
    BY DEF Flag!Init
  <1>2. FlagTypes
    BY <1>1, NewAsking DEF FlagTypes
  <1> QED
    BY <1>1, <1>2, NewAsking DEF FlagInv, Caches, AsksFor

\* The invariant of a flag, for any servers, requests and number of changes.
THEOREM FlagInvariance == Flag!Spec => []FlagInv
  <1>1. Flag!Init => FlagInv
    BY FlagInitInv
  <1>2. FlagInv /\ [Flag!Next]_(Flag!vars) => FlagInv'
    BY FlagNextInv
  <1> QED
    BY <1>1, <1>2, PTL DEF Flag!Spec

\* Once a change of a flag was answered, an evaluation on that server sees it, unless a
\* read of the tables failed, or a listing that had read them before the change, or a
\* change of another server, left old rows in the cache (feature_flag_service.go).
THEOREM ChangesAreSeenCorrect == Flag!Spec => []Flag!ChangesAreSeen
  <1>1. FlagInv => Flag!ChangesAreSeen
    BY DEF FlagInv, AsksFor, Flag!ChangesAreSeen
  <1> QED
    BY <1>1, FlagInvariance, PTL
-----------------------------------------------------------------------------
(***************************************************************************)
(* DNS records.                                                            *)
(***************************************************************************)
DnsRow == [id : Nat, name : Names, version : Nat]
DnsSteps == {"zone", "find", "post", "page", "first"}
Calling == [pc : {"idle", "calling", "answered"},
            op : {None, "create", "update", "delete", "batch", "list"},
            todo : Seq(DnsSteps), name : Names \union {None}, record : Nat \union {None},
            got : SUBSET Nat, page : Nat, left : Nat, done : Nat, since : Nat,
            answer : {None, "ok", "error", "note"}, at : Nat]

DnsTypes ==
  /\ provider \in {"cloudflare", "alidns", "tencentcloud", "westdns"}
  /\ zone \in Seq(DnsRow)
  /\ versions \in 0..MaxVersions
  /\ ended \in [1..MaxVersions -> Nat \union {None}]
  /\ listing \in [kind : {"none", "list", "note"}, versions : SUBSET Nat, until : Nat]
  /\ dnsTime \in Nat
  /\ dnsCall \in [Actors -> Calling]

\* Identifiers and versions were made, each once; what is in the zone has not ended.
ZoneOk ==
  /\ \A i \in DOMAIN zone :
       zone[i].id \in 1..versions /\ zone[i].version \in 1..versions /\ ended[zone[i].version] = None
  /\ \A i, j \in DOMAIN zone :
       zone[i].id = zone[j].id \/ zone[i].version = zone[j].version => i = j
  /\ \A w \in 1..MaxVersions : w > versions => ended[w] = None

ListingOk ==
  IF listing.kind = "list"
  THEN /\ listing.until <= dnsTime + ListingLife
       /\ \A w \in listing.versions :
            w \in 1..versions /\ (ended[w] = None \/ listing.until <= ended[w] + ListingLife + 1)
  ELSE listing.versions = {}

\* The record a call has found has the call's name, or is gone.
Found(c) ==
  c.record # None =>
    /\ c.record \in 1..versions
    /\ \A i \in DOMAIN zone : zone[i].id = c.record => zone[i].name = c.name

\* What a call has seen was there after the call began.
Seen(c) ==
  /\ c.got \subseteq 1..versions
  /\ c.at <= dnsTime
  /\ c.pc = "calling" =>
       /\ c.since <= dnsTime /\ dnsTime <= c.since + 1 /\ c.at = 0
       /\ \A w \in c.got : ended[w] = None \/ c.since <= ended[w]
  /\ c.answer = "ok" => \A w \in c.got : ended[w] = None \/ c.at <= ended[w] + ListingLife + 1

\* The changes a call has made and has left, all of one name; a batch that failed
\* once will say so.
Counts(c) ==
  /\ c.pc = "calling" /\ c.op # "list" => c.name \in Names
  /\ c.pc = "calling" => IF c.op = "batch" THEN c.answer = "error" \/ c.done + c.left = 1
                         ELSE c.answer = None /\ c.done = 0 /\ c.left = 0
  /\ c.pc = "answered" /\ c.op # "list" /\ c.answer = "ok" =>
       c.done = IF c.op = "batch" THEN 2 ELSE 1

CallOk(c) == c \in Calling /\ Found(c) /\ Seen(c) /\ Counts(c)

DnsInv == DnsTypes /\ ZoneOk /\ ListingOk /\ \A r \in Actors : CallOk(dnsCall[r])

\* The first of some places is one of them.
LEMMA FirstIsOne ==
  ASSUME NEW P \in SUBSET Nat, P # {}
  PROVE  Dns!First(P) \in P
  <1> DEFINE Less == {p \in Nat \X Nat : p[1] < p[2]}
  <1>1. Less = OpToRel(<, Nat)
    BY DEF OpToRel
  <1>2. IsWellFoundedOn(Less, Nat)
    BY <1>1, NatLessThanWellFounded
  <1>3. \A x, y \in Nat : ~(<<y, x>> \in Less) => x <= y
    OBVIOUS
  <1> HIDE DEF Less
  <1>4. PICK x \in P : \A y \in P : ~(<<y, x>> \in Less)
    BY <1>2, WFMin
  <1>5. \A y \in P : x <= y
    BY <1>3, <1>4
  <1> QED
    BY <1>5 DEF Dns!First

\* A page of a listing shows records of the zone.
LEMMA PageShowsZone ==
  ASSUME NEW s \in Seq(DnsRow), NEW k \in Nat \ {0}
  PROVE  /\ Dns!PageOf(s, k) \in Seq(DnsRow)
         /\ \A i \in DOMAIN Dns!PageOf(s, k) : \E j \in DOMAIN s : Dns!PageOf(s, k)[i] = s[j]
  <1>1. PICK m \in Nat : m = (k - 1) * PageSize
    <2>1. k - 1 \in Nat /\ PageSize \in Nat
      BY PlatformAssumption DEF Dns!DnsAssumption
    <2>2. \A x, y \in Nat : x * y \in Nat
      OBVIOUS
    <2> QED
      BY <2>1, <2>2
  <1>2. PICK n \in Int : n <= Len(s) /\ n = IF k * PageSize < Len(s) THEN k * PageSize ELSE Len(s)
    <2>1. k \in Nat /\ PageSize \in Nat /\ Len(s) \in Nat
      BY PlatformAssumption DEF Dns!DnsAssumption
    <2>2. \A x, y \in Nat : x * y \in Nat
      OBVIOUS
    <2>3. k * PageSize \in Nat
      BY <2>1, <2>2
    <2> QED
      BY <2>1, <2>3
  <1>3. Dns!PageOf(s, k) = SubSeq(s, m + 1, n)
    BY <1>1, <1>2 DEF Dns!PageOf
  <1>4. Len(s) \in Nat /\ m + 1 \in Int /\ \A i \in (m + 1)..n : s[i] \in DnsRow
    BY <1>1, <1>2
  <1>5. /\ SubSeq(s, m + 1, n) \in Seq(DnsRow)
        /\ Len(SubSeq(s, m + 1, n)) = IF m + 1 <= n THEN n - (m + 1) + 1 ELSE 0
        /\ \A i \in 1..(n - (m + 1) + 1) : SubSeq(s, m + 1, n)[i] = s[(m + 1) + i - 1]
    BY <1>4, SubSeqProperties
  <1>6. ASSUME NEW i \in DOMAIN SubSeq(s, m + 1, n)
        PROVE  \E j \in DOMAIN s : SubSeq(s, m + 1, n)[i] = s[j]
    <2>1. i \in 1..Len(SubSeq(s, m + 1, n))
      BY <1>5, <1>6
    <2>2. m \in Nat /\ n \in Int /\ n <= Len(s) /\ Len(s) \in Nat
      BY <1>2, <1>4
    <2>3. i \in 1..(n - (m + 1) + 1)
      BY <1>5, <2>1, <2>2
    <2>4. (m + 1) + i - 1 \in 1..Len(s)
      BY <2>2, <2>3
    <2>5. SubSeq(s, m + 1, n)[i] = s[(m + 1) + i - 1]
      BY <1>5, <2>3
    <2> QED
      BY <2>4, <2>5
  <1> QED
    BY <1>3, <1>5, <1>6

LEMMA ClientsCall ==
  ASSUME DnsTypes, NEW op \in {"create", "update", "delete", "batch", "list"}
  PROVE  Dns!Calls(op) \in Seq(DnsSteps)
  <1>1. /\ <<"post">> \in Seq(DnsSteps) /\ <<"zone", "post">> \in Seq(DnsSteps)
        /\ <<"zone", "find", "post">> \in Seq(DnsSteps) /\ <<"find", "post">> \in Seq(DnsSteps)
        /\ <<"page", "post">> \in Seq(DnsSteps) /\ <<"page">> \in Seq(DnsSteps)
        /\ <<"first">> \in Seq(DnsSteps) /\ <<"zone", "first">> \in Seq(DnsSteps)
    BY DEF DnsSteps
  <1>2. provider \in {"cloudflare", "alidns", "tencentcloud", "westdns"}
    BY DEF DnsTypes
  <1>3. CASE op = "list"
    <2>1. Dns!Calls(op) = Dns!Lists[provider]
      BY <1>3 DEF Dns!Calls
    <2>2. /\ Dns!Lists["cloudflare"] \in Seq(DnsSteps) /\ Dns!Lists["alidns"] \in Seq(DnsSteps)
          /\ Dns!Lists["tencentcloud"] \in Seq(DnsSteps) /\ Dns!Lists["westdns"] \in Seq(DnsSteps)
      BY <1>1 DEF Dns!Lists, Dns!CloudflareList, Dns!AliyunList, Dns!TencentList, Dns!WestDNSList
    <2> QED
      BY <1>2, <2>1, <2>2
  <1>4. PICK change : change = Dns!Changes[provider]
    OBVIOUS
  <1>5. /\ change.create \in Seq(DnsSteps) /\ change.update \in Seq(DnsSteps)
        /\ change.delete \in Seq(DnsSteps)
    <2>1. CASE provider = "cloudflare"
      <3>1. change = Dns!Cloudflare
        BY <1>4, <2>1 DEF Dns!Changes
      <3> QED
        BY <1>1, <3>1 DEF Dns!Cloudflare
    <2>2. CASE provider = "alidns"
      <3>1. change = Dns!Aliyun
        BY <1>4, <2>2 DEF Dns!Changes
      <3> QED
        BY <1>1, <3>1 DEF Dns!Aliyun
    <2>3. CASE provider = "tencentcloud"
      <3>1. change = Dns!Tencent
        BY <1>4, <2>3 DEF Dns!Changes
      <3> QED
        BY <1>1, <3>1 DEF Dns!Tencent
    <2>4. CASE provider = "westdns"
      <3>1. change = Dns!WestDNS
        BY <1>4, <2>4 DEF Dns!Changes
      <3> QED
        BY <1>1, <3>1 DEF Dns!WestDNS
    <2> QED
      BY <1>2, <2>1, <2>2, <2>3, <2>4
  <1>6. /\ op = "batch" => Dns!Calls(op) = change.create
        /\ op = "create" => Dns!Calls(op) = change.create
        /\ op = "update" => Dns!Calls(op) = change.update
        /\ op = "delete" => Dns!Calls(op) = change.delete
    BY <1>4 DEF Dns!Calls
  <1> QED
    BY <1>3, <1>5, <1>6

\* One call moves; the zone, what has ended and the time stay.
LEMMA CallMoves ==
  ASSUME DnsInv, NEW r \in Actors, NEW e, CallOk(e),
         dnsCall' = [dnsCall EXCEPT ![r] = e],
         UNCHANGED <<provider, zone, versions, ended, dnsTime>>,
         listing' \in [kind : {"none", "list", "note"}, versions : SUBSET Nat, until : Nat],
         ListingOk'
  PROVE  DnsInv'
  <1>1. dnsCall \in [Actors -> Calling] /\ e \in Calling
    BY DEF DnsInv, DnsTypes, CallOk
  <1>2. /\ dnsCall' \in [Actors -> Calling] /\ dnsCall'[r] = e
        /\ \A q \in Actors : q # r => dnsCall'[q] = dnsCall[q]
    BY <1>1
  <1>3. DnsTypes'
    BY <1>2 DEF DnsInv, DnsTypes
  <1>4. ZoneOk'
    BY DEF DnsInv, ZoneOk
  <1>5. \A c : CallOk(c) => CallOk(c)'
    BY DEF CallOk, Found, Seen, Counts
  <1>6. ASSUME NEW q \in Actors PROVE CallOk(dnsCall[q])'
    <2>1. PICK c : c = dnsCall'[q]
      OBVIOUS
    <2>2. CallOk(c)
      BY <1>2, <2>1 DEF DnsInv
    <2> QED
      BY <1>5, <2>1, <2>2
  <1> QED
    BY <1>3, <1>4, <1>6 DEF DnsInv

\* The provider changed its zone: what was made stays made, what ended did so now,
\* and every record is new or was there under its name.
LEMMA ZoneAges ==
  ASSUME DnsInv, versions' \in 0..MaxVersions, versions <= versions',
         ended' \in [1..MaxVersions -> Nat \union {None}],
         \A w \in 1..versions : ended'[w] = ended[w] \/ ended'[w] = dnsTime,
         \A i \in DOMAIN zone' :
           \/ zone'[i].id \in Nat /\ zone'[i].id > versions
           \/ \E j \in DOMAIN zone : zone'[i].id = zone[j].id /\ zone'[i].name = zone[j].name,
         UNCHANGED <<listing, dnsTime>>
  PROVE  ListingOk' /\ \A c : CallOk(c) => CallOk(c)'
  <1>1. /\ versions \in 0..MaxVersions /\ MaxVersions \in Nat /\ ListingLife \in Nat /\ dnsTime \in Nat
        /\ ended \in [1..MaxVersions -> Nat \union {None}]
        /\ listing.versions \in SUBSET Nat /\ listing.until \in Nat
    BY PlatformAssumption DEF DnsInv, DnsTypes, Dns!DnsAssumption
  <1>2. 1..versions \subseteq 1..versions' /\ 1..versions \subseteq 1..MaxVersions
    BY <1>1
  <1>3. ASSUME listing.kind = "list"
        PROVE  /\ listing.until <= dnsTime + ListingLife
               /\ \A w \in listing.versions :
                    w \in 1..versions' /\ (ended'[w] = None \/ listing.until <= ended'[w] + ListingLife + 1)
    <2>1. listing.until <= dnsTime + ListingLife
      BY <1>3 DEF DnsInv, ListingOk
    <2>2. ASSUME NEW w \in listing.versions
          PROVE  w \in 1..versions' /\ (ended'[w] = None \/ listing.until <= ended'[w] + ListingLife + 1)
      <3>1. w \in 1..versions /\ (ended[w] = None \/ listing.until <= ended[w] + ListingLife + 1)
        BY <1>3 DEF DnsInv, ListingOk
      <3>2. ended'[w] = ended[w] \/ ended'[w] = dnsTime
        BY <3>1
      <3>3. listing.until <= dnsTime + ListingLife + 1
        BY <1>1, <2>1
      <3> QED
        BY <1>2, <3>1, <3>2, <3>3
    <2> QED
      BY <2>1, <2>2
  <1>4. ListingOk'
    <2>1. listing.kind # "list" => listing.versions = {}
      BY DEF DnsInv, ListingOk
    <2> QED
      BY <1>3, <2>1 DEF ListingOk
  <1>5. ASSUME NEW c, CallOk(c) PROVE CallOk(c)'
    <2>1. c \in Calling /\ c.at \in Nat /\ c.since \in Nat /\ c.got \in SUBSET Nat
      BY <1>5 DEF CallOk, Calling
    <2>2. Found(c)'
      <3> SUFFICES ASSUME c.record # None
                   PROVE  /\ c.record \in 1..versions'
                          /\ \A i \in DOMAIN zone' : zone'[i].id = c.record => zone'[i].name = c.name
        BY DEF Found
      <3>1. c.record \in 1..versions /\ \A j \in DOMAIN zone : zone[j].id = c.record => zone[j].name = c.name
        BY <1>5 DEF CallOk, Found
      <3>2. c.record \in Nat /\ ~(c.record > versions)
        BY <1>1, <3>1
      <3> QED
        BY <1>2, <3>1, <3>2
    <2>3. Seen(c)'
      <3>1. c.got \subseteq 1..versions /\ c.at <= dnsTime
        BY <1>5 DEF CallOk, Seen
      <3>2. ASSUME c.pc = "calling"
            PROVE  /\ c.since <= dnsTime /\ dnsTime <= c.since + 1 /\ c.at = 0
                   /\ \A w \in c.got : ended'[w] = None \/ c.since <= ended'[w]
        <4>1. /\ c.since <= dnsTime /\ dnsTime <= c.since + 1 /\ c.at = 0
              /\ \A w \in c.got : ended[w] = None \/ c.since <= ended[w]
          BY <1>5, <3>2 DEF CallOk, Seen
        <4> QED
          BY <3>1, <4>1
      <3>3. ASSUME c.answer = "ok", NEW w \in c.got
            PROVE  ended'[w] = None \/ c.at <= ended'[w] + ListingLife + 1
        <4>1. ended[w] = None \/ c.at <= ended[w] + ListingLife + 1
          BY <1>5, <3>3 DEF CallOk, Seen
        <4>2. ended'[w] = ended[w] \/ ended'[w] = dnsTime
          BY <3>1, <3>3
        <4>3. c.at <= dnsTime + ListingLife + 1
          BY <1>1, <2>1, <3>1
        <4> QED
          BY <4>1, <4>2, <4>3
      <3> QED
        BY <1>2, <3>1, <3>2, <3>3 DEF Seen
    <2>4. Counts(c)'
      BY <1>5 DEF CallOk, Counts
    <2> QED
      BY <1>5, <2>2, <2>3, <2>4 DEF CallOk
  <1> QED
    BY <1>4, <1>5

ZoneTypes ==
  /\ zone \in Seq(DnsRow)
  /\ versions \in 0..MaxVersions
  /\ ended \in [1..MaxVersions -> Nat \union {None}]

\* What ends when a record is changed or deleted, and what does not.
LEMMA EndsNow ==
  ASSUME DnsInv, NEW id,
         ended' = Dns!Ends({zone[i].version : i \in {j \in DOMAIN zone : zone[j].id = id}})
  PROVE  /\ ended' \in [1..MaxVersions -> Nat \union {None}]
         /\ \A w \in 1..MaxVersions : ended'[w] = ended[w] \/ ended'[w] = dnsTime
         /\ \A w \in 1..MaxVersions : w > versions => ended'[w] = None
         /\ \A j \in DOMAIN zone : zone[j].id # id => ended'[zone[j].version] = None
  <1>1. /\ versions \in 0..MaxVersions /\ MaxVersions \in Nat /\ dnsTime \in Nat
        /\ ended \in [1..MaxVersions -> Nat \union {None}] /\ ZoneOk
    BY PlatformAssumption DEF DnsInv, DnsTypes, Dns!DnsAssumption
  <1> DEFINE Gone == {zone[i].version : i \in {j \in DOMAIN zone : zone[j].id = id}}
  <1>2. ended' = [w \in 1..MaxVersions |-> IF w \in Gone THEN dnsTime ELSE ended[w]]
    BY DEF Dns!Ends, Dns!Versions
  <1>3. \A w \in Gone : w \in 1..versions
    BY <1>1 DEF ZoneOk
  <1>4. \A j \in DOMAIN zone : zone[j].id # id => zone[j].version \notin Gone
    BY <1>1 DEF ZoneOk
  <1>5. \A j \in DOMAIN zone : zone[j].version \in 1..versions /\ ended[zone[j].version] = None
    BY <1>1 DEF ZoneOk
  <1>6. \A w \in 1..MaxVersions : w > versions => ended[w] = None
    BY <1>1 DEF ZoneOk
  <1> HIDE DEF Gone
  <1>7. 1..versions \subseteq 1..MaxVersions /\ \A w \in 1..versions : ~(w > versions)
    BY <1>1
  <1>8. ended' \in [1..MaxVersions -> Nat \union {None}]
    BY <1>1, <1>2
  <1>9. \A w \in 1..MaxVersions : ended'[w] = IF w \in Gone THEN dnsTime ELSE ended[w]
    BY <1>2
  <1>10. \A w \in 1..MaxVersions : w > versions => ended'[w] = None
    BY <1>3, <1>6, <1>7, <1>9
  <1>11. \A j \in DOMAIN zone : zone[j].id # id => ended'[zone[j].version] = None
    BY <1>4, <1>5, <1>7, <1>9
  <1> QED
    BY <1>8, <1>9, <1>10, <1>11

LEMMA CreatesKeeps ==
  ASSUME DnsInv, NEW n \in Names, Dns!Creates(n), UNCHANGED <<listing, dnsTime>>
  PROVE  ZoneTypes' /\ ZoneOk' /\ ListingOk' /\ \A c : CallOk(c) => CallOk(c)'
  <1>1. /\ zone \in Seq(DnsRow) /\ versions \in 0..MaxVersions /\ MaxVersions \in Nat
        /\ ended \in [1..MaxVersions -> Nat \union {None}] /\ ZoneOk
    BY PlatformAssumption DEF DnsInv, DnsTypes, Dns!DnsAssumption
  <1>2. versions < MaxVersions /\ versions' = versions + 1 /\ ended' = ended
    BY DEF Dns!Creates
  <1>3. PICK new \in DnsRow : new = [id |-> versions + 1, name |-> n, version |-> versions + 1]
    <2>1. versions + 1 \in Nat
      BY <1>1
    <2>2. [id |-> versions + 1, name |-> n, version |-> versions + 1] \in DnsRow
      BY <2>1 DEF DnsRow
    <2> QED
      BY <2>2
  <1>4. zone' = Append(zone, new)
    BY <1>3 DEF Dns!Creates
  <1>5. /\ zone' \in Seq(DnsRow) /\ Len(zone') = Len(zone) + 1
        /\ \A i \in 1..Len(zone) : zone'[i] = zone[i]
        /\ zone'[Len(zone) + 1] = new
    BY <1>1, <1>4, AppendProperties
  <1>6. Len(zone) \in Nat /\ DOMAIN zone = 1..Len(zone) /\ DOMAIN zone' = 1..(Len(zone) + 1)
    BY <1>1, <1>5
  <1>7. \A i \in DOMAIN zone' :
           (zone'[i] = new /\ i = Len(zone) + 1) \/ (i \in DOMAIN zone /\ zone'[i] = zone[i])
    <2>1. \A i \in 1..(Len(zone) + 1) : i = Len(zone) + 1 \/ i \in 1..Len(zone)
      BY <1>6
    <2> QED
      BY <1>5, <1>6, <2>1
  <1>8. /\ new.id = versions + 1 /\ new.version = versions + 1 /\ versions + 1 \in 1..MaxVersions
        /\ versions + 1 \in Nat /\ versions + 1 > versions
    BY <1>1, <1>2, <1>3
  <1>9. ZoneTypes'
    BY <1>1, <1>2, <1>5, <1>8 DEF ZoneTypes
  <1>10. ended[versions + 1] = None
    BY <1>1, <1>8 DEF ZoneOk
  <1>11. /\ \A i \in DOMAIN zone :
              zone[i].id \in 1..versions /\ zone[i].version \in 1..versions /\ ended[zone[i].version] = None
         /\ \A i, j \in DOMAIN zone : zone[i].id = zone[j].id \/ zone[i].version = zone[j].version => i = j
         /\ \A w \in 1..MaxVersions : w > versions => ended[w] = None
    BY <1>1 DEF ZoneOk
  <1>12. 1..versions \subseteq 1..(versions + 1) /\ versions + 1 \in 1..(versions + 1)
         /\ versions + 1 \notin 1..versions /\ \A w \in 1..MaxVersions : w > versions + 1 => w > versions
    BY <1>1
  <1>13. ZoneOk'
    <2>1. ASSUME NEW i \in DOMAIN zone'
          PROVE  /\ zone'[i].id \in 1..(versions + 1) /\ zone'[i].version \in 1..(versions + 1)
                 /\ ended[zone'[i].version] = None
      BY <1>7, <1>8, <1>10, <1>11, <1>12
    <2>2. ASSUME NEW i \in DOMAIN zone', NEW j \in DOMAIN zone',
                 zone'[i].id = zone'[j].id \/ zone'[i].version = zone'[j].version
          PROVE  i = j
      BY <1>7, <1>8, <1>11, <1>12, <2>2
    <2>3. \A w \in 1..MaxVersions : w > versions + 1 => ended[w] = None
      BY <1>11, <1>12
    <2> QED
      BY <1>2, <2>1, <2>2, <2>3 DEF ZoneOk
  <1>14. \A i \in DOMAIN zone' :
           \/ zone'[i].id \in Nat /\ zone'[i].id > versions
           \/ \E j \in DOMAIN zone : zone'[i].id = zone[j].id /\ zone'[i].name = zone[j].name
    BY <1>7, <1>8
  <1>15. versions' \in 0..MaxVersions /\ versions <= versions'
    BY <1>1, <1>2
  <1>16. ended' \in [1..MaxVersions -> Nat \union {None}] /\ \A w \in 1..versions : ended'[w] = ended[w]
    BY <1>1, <1>2
  <1>17. ListingOk' /\ \A c : CallOk(c) => CallOk(c)'
    BY <1>14, <1>15, <1>16, ZoneAges
  <1> QED
    BY <1>9, <1>13, <1>17

LEMMA UpdatesKeeps ==
  ASSUME DnsInv, NEW id, Dns!Updates(id), UNCHANGED <<listing, dnsTime>>
  PROVE  ZoneTypes' /\ ZoneOk' /\ ListingOk' /\ \A c : CallOk(c) => CallOk(c)'
  <1>1. /\ zone \in Seq(DnsRow) /\ versions \in 0..MaxVersions /\ MaxVersions \in Nat
        /\ ended \in [1..MaxVersions -> Nat \union {None}] /\ ZoneOk
    BY PlatformAssumption DEF DnsInv, DnsTypes, Dns!DnsAssumption
  <1>2. /\ versions < MaxVersions /\ versions' = versions + 1
        /\ ended' = Dns!Ends({zone[i].version : i \in {j \in DOMAIN zone : zone[j].id = id}})
    BY DEF Dns!Updates
  <1>3. PICK new \in Nat : new = versions + 1
    BY <1>1
  <1>4. zone' = [i \in DOMAIN zone |->
                  IF zone[i].id = id THEN [zone[i] EXCEPT !.version = new] ELSE zone[i]]
    BY <1>3 DEF Dns!Updates
  <1>5. /\ ended' \in [1..MaxVersions -> Nat \union {None}]
        /\ \A w \in 1..MaxVersions : ended'[w] = ended[w] \/ ended'[w] = dnsTime
        /\ \A w \in 1..MaxVersions : w > versions => ended'[w] = None
        /\ \A j \in DOMAIN zone : zone[j].id # id => ended'[zone[j].version] = None
    BY <1>2, EndsNow
  <1>6. ASSUME NEW i \in DOMAIN zone
        PROVE  /\ zone'[i] \in DnsRow /\ zone'[i].id = zone[i].id /\ zone'[i].name = zone[i].name
               /\ zone'[i].version = IF zone[i].id = id THEN new ELSE zone[i].version
    <2>1. zone[i] \in DnsRow
      BY <1>1, <1>6
    <2> QED
      BY <1>4, <2>1 DEF DnsRow
  <1>7. DOMAIN zone' = DOMAIN zone
    BY <1>4
  <1>8. zone' \in Seq(DnsRow)
    <2>1. Len(zone) \in Nat /\ DOMAIN zone = 1..Len(zone)
      BY <1>1
    <2>2. zone' \in [1..Len(zone) -> DnsRow]
      BY <1>4, <1>6, <2>1
    <2> QED
      BY <2>1, <2>2
  <1>9. versions' = new /\ new \in 1..MaxVersions /\ new > versions /\ versions' \in 0..MaxVersions
        /\ versions <= versions' /\ 1..versions \subseteq 1..MaxVersions
    BY <1>1, <1>2, <1>3
  <1>10. ZoneTypes'
    BY <1>5, <1>8, <1>9 DEF ZoneTypes
  <1>11. /\ \A i \in DOMAIN zone : zone[i].id \in 1..versions /\ zone[i].version \in 1..versions
         /\ \A i, j \in DOMAIN zone : zone[i].id = zone[j].id \/ zone[i].version = zone[j].version => i = j
    BY <1>1 DEF ZoneOk
  <1>12. /\ 1..versions \subseteq 1..new /\ new \in 1..new /\ new \notin 1..versions
         /\ \A w \in 1..MaxVersions : w > new => w > versions
    BY <1>1, <1>3
  <1>13. ZoneOk'
    <2>1. ASSUME NEW i \in DOMAIN zone
          PROVE  /\ zone'[i].id \in 1..new /\ zone'[i].version \in 1..new
                 /\ ended'[zone'[i].version] = None
      BY <1>5, <1>6, <1>9, <1>11, <1>12
    <2>2. ASSUME NEW i \in DOMAIN zone, NEW j \in DOMAIN zone,
                 zone'[i].id = zone'[j].id \/ zone'[i].version = zone'[j].version
          PROVE  i = j
      <3>1. CASE zone[i].id = id /\ zone[j].id = id
        BY <1>11, <3>1
      <3>2. CASE ~(zone[i].id = id /\ zone[j].id = id)
        BY <1>6, <1>11, <1>12, <2>2, <3>2
      <3> QED
        BY <3>1, <3>2
    <2>3. \A w \in 1..MaxVersions : w > new => ended'[w] = None
      BY <1>5, <1>12
    <2> QED
      BY <1>7, <1>9, <2>1, <2>2, <2>3 DEF ZoneOk
  <1>14. ListingOk' /\ \A c : CallOk(c) => CallOk(c)'
    BY <1>5, <1>6, <1>7, <1>9, ZoneAges
  <1> QED
    BY <1>10, <1>13, <1>14

LEMMA DeletesKeeps ==
  ASSUME DnsInv, NEW id, Dns!Deletes(id), UNCHANGED <<listing, dnsTime>>
  PROVE  ZoneTypes' /\ ZoneOk' /\ ListingOk' /\ \A c : CallOk(c) => CallOk(c)'
  <1>1. /\ zone \in Seq(DnsRow) /\ versions \in 0..MaxVersions /\ MaxVersions \in Nat
        /\ ended \in [1..MaxVersions -> Nat \union {None}] /\ ZoneOk
    BY PlatformAssumption DEF DnsInv, DnsTypes, Dns!DnsAssumption
  <1>2. PICK k \in DOMAIN zone : zone[k].id = id /\ zone' = Dns!RemoveAt(zone, k)
    BY DEF Dns!Deletes
  <1>3. /\ versions' = versions
        /\ ended' = Dns!Ends({zone[i].version : i \in {j \in DOMAIN zone : zone[j].id = id}})
    BY DEF Dns!Deletes
  <1>4. PICK len \in Nat : len = Len(zone) /\ k \in 1..len
    BY <1>1, <1>2
  <1>5. DOMAIN zone = 1..len
    BY <1>1, <1>4
  <1> DEFINE Before == SubSeq(zone, 1, k - 1)
             After == SubSeq(zone, k + 1, len)
  <1>6. zone' = Before \o After
    BY <1>2, <1>4 DEF Dns!RemoveAt
  <1>7. /\ Before \in Seq(DnsRow) /\ Len(Before) = k - 1
        /\ \A i \in 1..(k - 1) : Before[i] = zone[i]
    <2>1. 1 \in Int /\ k - 1 \in Int /\ \A i \in 1..(k - 1) : zone[i] \in DnsRow
      BY <1>1, <1>4
    <2>2. /\ SubSeq(zone, 1, k - 1) \in Seq(DnsRow)
          /\ Len(SubSeq(zone, 1, k - 1)) = IF 1 <= k - 1 THEN k - 1 - 1 + 1 ELSE 0
          /\ \A i \in 1..(k - 1 - 1 + 1) : SubSeq(zone, 1, k - 1)[i] = zone[1 + i - 1]
      BY <2>1, SubSeqProperties
    <2> QED
      BY <1>4, <2>2
  <1>8. /\ After \in Seq(DnsRow) /\ Len(After) = len - k
        /\ \A i \in 1..(len - k) : After[i] = zone[k + i]
    <2>1. k + 1 \in Int /\ len \in Int /\ \A i \in (k + 1)..len : zone[i] \in DnsRow
      BY <1>1, <1>4
    <2>2. /\ SubSeq(zone, k + 1, len) \in Seq(DnsRow)
          /\ Len(SubSeq(zone, k + 1, len)) = IF k + 1 <= len THEN len - (k + 1) + 1 ELSE 0
          /\ \A i \in 1..(len - (k + 1) + 1) : SubSeq(zone, k + 1, len)[i] = zone[(k + 1) + i - 1]
      BY <2>1, SubSeqProperties
    <2>3. Len(SubSeq(zone, k + 1, len)) = len - k
      BY <1>4, <2>2
    <2>4. \A i \in 1..(len - k) : i \in 1..(len - (k + 1) + 1) /\ (k + 1) + i - 1 = k + i
      BY <1>4
    <2> QED
      BY <2>2, <2>3, <2>4
  <1> HIDE DEF Before, After
  <1>9. /\ zone' \in Seq(DnsRow) /\ Len(zone') = len - 1
        /\ \A i \in 1..(len - 1) : zone'[i] = IF i < k THEN zone[i] ELSE zone[i + 1]
    <2>1. /\ zone' \in Seq(DnsRow) /\ Len(zone') = Len(Before) + Len(After)
          /\ \A i \in 1..(Len(Before) + Len(After)) :
               zone'[i] = IF i <= Len(Before) THEN Before[i] ELSE After[i - Len(Before)]
      BY <1>6, <1>7, <1>8, ConcatProperties
    <2>2. Len(zone') = len - 1
      BY <1>4, <1>7, <1>8, <2>1
    <2>3. ASSUME NEW i \in 1..(len - 1)
          PROVE  zone'[i] = IF i < k THEN zone[i] ELSE zone[i + 1]
      <3>1. zone'[i] = IF i <= k - 1 THEN Before[i] ELSE After[i - (k - 1)]
        BY <1>4, <1>7, <1>8, <2>1
      <3>2. CASE i < k
        <4>1. i <= k - 1 /\ i \in 1..(k - 1)
          BY <1>4, <3>2
        <4> QED
          BY <1>7, <3>1, <3>2, <4>1
      <3>3. CASE ~(i < k)
        <4>1. ~(i <= k - 1) /\ i - (k - 1) \in 1..(len - k) /\ k + (i - (k - 1)) = i + 1
          BY <1>4, <3>3
        <4> QED
          BY <1>8, <3>1, <3>3, <4>1
      <3> QED
        BY <3>2, <3>3
    <2> QED
      BY <2>1, <2>2, <2>3
  <1> DEFINE Was(i) == IF i < k THEN i ELSE i + 1
  <1>10. DOMAIN zone' = 1..(len - 1)
    BY <1>4, <1>9
  <1>11. /\ \A i \in DOMAIN zone' : zone'[i] = zone[Was(i)] /\ Was(i) \in DOMAIN zone /\ Was(i) # k
         /\ \A i, j \in DOMAIN zone' : Was(i) = Was(j) => i = j
    BY <1>4, <1>5, <1>9, <1>10
  <1> HIDE DEF Was
  <1>12. /\ ended' \in [1..MaxVersions -> Nat \union {None}]
         /\ \A w \in 1..MaxVersions : ended'[w] = ended[w] \/ ended'[w] = dnsTime
         /\ \A w \in 1..MaxVersions : w > versions => ended'[w] = None
         /\ \A j \in DOMAIN zone : zone[j].id # id => ended'[zone[j].version] = None
    BY <1>3, EndsNow
  <1>13. ZoneTypes'
    BY <1>1, <1>3, <1>9, <1>12 DEF ZoneTypes
  <1>14. /\ \A i \in DOMAIN zone : zone[i].id \in 1..versions /\ zone[i].version \in 1..versions
         /\ \A i, j \in DOMAIN zone : zone[i].id = zone[j].id \/ zone[i].version = zone[j].version => i = j
    BY <1>1 DEF ZoneOk
  <1>15. \A i \in DOMAIN zone' : zone[Was(i)].id # id
    BY <1>2, <1>11, <1>14
  <1>16. ZoneOk'
    <2>1. ASSUME NEW i \in DOMAIN zone'
          PROVE  /\ zone'[i].id \in 1..versions /\ zone'[i].version \in 1..versions
                 /\ ended'[zone'[i].version] = None
      BY <1>11, <1>12, <1>14, <1>15
    <2>2. ASSUME NEW i \in DOMAIN zone', NEW j \in DOMAIN zone',
                 zone'[i].id = zone'[j].id \/ zone'[i].version = zone'[j].version
          PROVE  i = j
      BY <1>11, <1>14, <2>2
    <2> QED
      BY <1>3, <1>12, <2>1, <2>2 DEF ZoneOk
  <1>17. \A i \in DOMAIN zone' : \E j \in DOMAIN zone : zone'[i].id = zone[j].id /\ zone'[i].name = zone[j].name
    BY <1>11
  <1>18. versions' \in 0..MaxVersions /\ versions <= versions' /\ 1..versions \subseteq 1..MaxVersions
    BY <1>1, <1>3
  <1>19. ListingOk' /\ \A c : CallOk(c) => CallOk(c)'
    BY <1>12, <1>17, <1>18, ZoneAges
  <1> QED
    BY <1>13, <1>16, <1>19

\* What a call does that leaves the zone and the cached listing alone.
LEMMA CallGoesOn ==
  ASSUME DnsInv, NEW r \in Actors, NEW e, CallOk(e),
         dnsCall' = [dnsCall EXCEPT ![r] = e],
         UNCHANGED <<provider, zone, versions, ended, listing, dnsTime>>
  PROVE  DnsInv'
  <1>1. /\ listing' \in [kind : {"none", "list", "note"}, versions : SUBSET Nat, until : Nat]
        /\ ListingOk'
    BY DEF DnsInv, DnsTypes, ListingOk
  <1> QED
    BY <1>1, CallMoves

LEMMA NewCall ==
  ASSUME DnsInv
  PROVE  /\ Dns!Idle \in Calling /\ Dns!Idle.pc = "idle" /\ Dns!Idle.record = None /\ Dns!Idle.got = {}
         /\ Dns!Idle.done = 0 /\ Dns!Idle.left = 0 /\ Dns!Idle.answer = None /\ Dns!Idle.at = 0
         /\ CallOk(Dns!Idle)
  <1>1. Dns!Idle \in Calling
    BY DEF Dns!Idle, Calling
  <1>2. /\ Dns!Idle.pc = "idle" /\ Dns!Idle.record = None /\ Dns!Idle.got = {}
        /\ Dns!Idle.done = 0 /\ Dns!Idle.left = 0 /\ Dns!Idle.answer = None /\ Dns!Idle.at = 0
    BY DEF Dns!Idle
  <1>3. dnsTime \in Nat
    BY DEF DnsInv, DnsTypes
  <1> QED
    BY <1>1, <1>2, <1>3 DEF CallOk, Found, Seen, Counts

\* An answer: of a listing what it has seen, of anything else an error.
LEMMA AnswerOk ==
  ASSUME DnsInv, NEW c, CallOk(c), c.pc = "calling",
         NEW a \in {"ok", "error"}, a = "ok" => c.op = "list",
         NEW e, e = [Dns!Idle EXCEPT !.pc = "answered", !.op = c.op, !.got = c.got,
                                     !.done = c.done, !.answer = a, !.at = dnsTime]
  PROVE  CallOk(e)
  <1>1. c \in Calling /\ dnsTime \in Nat /\ ListingLife \in Nat
    BY PlatformAssumption DEF CallOk, DnsInv, DnsTypes, Dns!DnsAssumption
  <1>2. c.since \in Nat /\ c.got \in SUBSET Nat /\ c.done \in Nat
    BY <1>1 DEF Calling
  <1>3. /\ e \in Calling /\ e.pc = "answered" /\ e.op = c.op /\ e.got = c.got /\ e.done = c.done
        /\ e.answer = a /\ e.at = dnsTime /\ e.record = None
    BY <1>1, <1>2, NewCall DEF Calling, Dns!Idle
  <1>4. /\ c.got \subseteq 1..versions /\ dnsTime <= c.since + 1
        /\ \A w \in c.got : ended[w] = None \/ c.since <= ended[w]
    BY DEF CallOk, Seen
  <1>5. ended \in [1..MaxVersions -> Nat \union {None}] /\ 1..versions \subseteq 1..MaxVersions
    BY PlatformAssumption DEF DnsInv, DnsTypes, Dns!DnsAssumption
  <1>6. \A w \in c.got : ended[w] = None \/ dnsTime <= ended[w] + ListingLife + 1
    <2> SUFFICES ASSUME NEW w \in c.got, ended[w] # None
                 PROVE  dnsTime <= ended[w] + ListingLife + 1
      OBVIOUS
    <2>1. ended[w] \in Nat /\ c.since <= ended[w]
      BY <1>4, <1>5
    <2> QED
      BY <1>1, <1>2, <1>4, <2>1
  <1>7. Seen(e)
    BY <1>1, <1>3, <1>4, <1>6 DEF Seen
  <1>8. Found(e) /\ Counts(e)
    BY <1>3 DEF Found, Counts
  <1> QED
    BY <1>3, <1>7, <1>8 DEF CallOk

\* After a change or its refusal.
LEMMA ProceedsOk ==
  ASSUME DnsInv, NEW r \in Actors, NEW c, CallOk(c), c.pc = "calling", NEW d \in Nat,
         NEW a \in {"ok", "error"}, a = "ok" => d = c.done + 1 /\ c.op # "list",
         d = c.done \/ d = c.done + 1,
         Dns!Proceeds(r, [c EXCEPT !.done = d], a)
  PROVE  \E e : CallOk(e) /\ dnsCall' = [dnsCall EXCEPT ![r] = e]
  <1>1. /\ c \in Calling /\ c.since \in Nat /\ c.got \in SUBSET Nat /\ c.done \in Nat /\ c.left \in Nat
        /\ DnsTypes /\ dnsTime \in Nat
        /\ c.op \in {None, "create", "update", "delete", "batch", "list"}
    BY DEF CallOk, DnsInv, DnsTypes, Calling
  <1>2. PICK f : f = [c EXCEPT !.done = d]
    OBVIOUS
  <1>3. /\ f \in Calling /\ f.done = d /\ f.pc = c.pc /\ f.op = c.op /\ f.left = c.left
        /\ f.answer = c.answer /\ f.record = c.record /\ f.name = c.name /\ f.got = c.got
        /\ f.since = c.since /\ f.at = c.at
    BY <1>1, <1>2 DEF Calling
  <1>4. PICK sofar : sofar = IF c.answer = "error" THEN "error" ELSE a
    OBVIOUS
  <1>5. sofar \in {"ok", "error"} /\ (sofar = "ok" => a = "ok" /\ c.answer # "error")
    BY <1>4
  <1>6. Counts(c) /\ Seen(c) /\ Found(c)
    BY DEF CallOk
  <1>7. CASE c.left > 0
    <2>1. PICK e : e = [f EXCEPT !.left = f.left - 1, !.todo = Dns!Calls("batch"), !.answer = sofar]
      OBVIOUS
    <2>2. dnsCall' = [dnsCall EXCEPT ![r] = e]
      BY <1>2, <1>3, <1>4, <1>7, <2>1 DEF Dns!Proceeds, Dns!Becomes
    <2>3. Dns!Calls("batch") \in Seq(DnsSteps)
      BY <1>1, ClientsCall
    <2>4. f.left - 1 \in Nat
      BY <1>1, <1>3, <1>7
    <2>5. /\ e \in Calling /\ e.done = d /\ e.pc = c.pc /\ e.op = c.op /\ e.left = c.left - 1
          /\ e.answer = sofar /\ e.record = c.record /\ e.name = c.name /\ e.got = c.got
          /\ e.since = c.since /\ e.at = c.at
      BY <1>3, <1>5, <2>1, <2>3, <2>4 DEF Calling
    <2>6. c.op = "batch" /\ (c.answer = "error" \/ c.done + c.left = 1)
      BY <1>1, <1>6, <1>7 DEF Counts
    <2>7. Counts(e)
      <3>1. sofar = "error" \/ d + (c.left - 1) = 1
        BY <1>1, <1>5, <2>6
      <3>2. c.name \in Names
        BY <1>6, <2>6 DEF Counts
      <3> QED
        BY <2>5, <2>6, <3>1, <3>2 DEF Counts
    <2>8. Found(e)
      BY <1>6, <2>5 DEF Found
    <2>9. Seen(e)
      <3>1. /\ c.got \subseteq 1..versions /\ c.at <= dnsTime /\ c.at = 0
            /\ c.since <= dnsTime /\ dnsTime <= c.since + 1
            /\ \A w \in c.got : ended[w] = None \/ c.since <= ended[w]
        BY <1>6 DEF Seen
      <3>2. \A w \in c.got : ended[w] = None \/ 0 <= ended[w] + ListingLife + 1
        <4>1. /\ 1..versions \subseteq 1..MaxVersions /\ ended \in [1..MaxVersions -> Nat \union {None}]
              /\ ListingLife \in Nat
          BY <1>1, PlatformAssumption DEF DnsTypes, Dns!DnsAssumption
        <4>2. \A w \in c.got : ended[w] = None \/ ended[w] \in Nat
          BY <3>1, <4>1
        <4> QED
          BY <4>1, <4>2
      <3> QED
        BY <2>5, <3>1, <3>2 DEF Seen
    <2> QED
      BY <2>2, <2>5, <2>7, <2>8, <2>9 DEF CallOk
  <1>8. CASE ~(c.left > 0)
    <2>1. PICK e : e = [Dns!Idle EXCEPT !.pc = "answered", !.op = f.op, !.done = f.done, !.answer = sofar]
      OBVIOUS
    <2>2. dnsCall' = [dnsCall EXCEPT ![r] = e]
      BY <1>2, <1>3, <1>4, <1>8, <2>1 DEF Dns!Proceeds, Dns!Becomes
    <2>3. /\ e \in Calling /\ e.pc = "answered" /\ e.op = c.op /\ e.done = d /\ e.answer = sofar
          /\ e.got = {} /\ e.record = None /\ e.at = 0
      BY <1>1, <1>3, <1>5, <2>1, NewCall DEF Calling, Dns!Idle
    <2>4. c.left = 0
      BY <1>1, <1>8
    <2>5. Counts(e)
      <3>1. CASE sofar # "ok"
        BY <2>3, <3>1 DEF Counts
      <3>2. CASE sofar = "ok"
        <4>1. c.op = "batch" => c.done = 1
          BY <1>1, <1>5, <1>6, <2>4, <3>2 DEF Counts
        <4>2. c.op # "batch" => c.done = 0
          BY <1>6 DEF Counts
        <4>3. d = c.done + 1
          BY <1>5, <3>2
        <4>4. d = IF c.op = "batch" THEN 2 ELSE 1
          BY <4>1, <4>2, <4>3
        <4> QED
          BY <2>3, <4>4 DEF Counts
      <3> QED
        BY <3>1, <3>2
    <2>6. Found(e) /\ Seen(e)
      BY <1>1, <2>3 DEF Found, Seen
    <2> QED
      BY <2>2, <2>3, <2>5, <2>6 DEF CallOk
  <1> QED
    BY <1>7, <1>8

\* A record of the zone is one its name finds, and none of what it is has ended.
LEMMA ZoneShows ==
  ASSUME DnsInv, NEW j \in DOMAIN zone
  PROVE  /\ zone[j].id \in 1..versions /\ zone[j].version \in 1..versions /\ ended[zone[j].version] = None
         /\ \A i \in DOMAIN zone : zone[i].id = zone[j].id => zone[i].name = zone[j].name
  BY DEF DnsInv, ZoneOk

\* A call that has read more of the zone, and may have found its record there.
LEMMA ReadsZone ==
  ASSUME DnsInv, NEW c, CallOk(c), c.pc = "calling",
         NEW e \in Calling, e.pc = "calling", e.op = c.op, e.name = c.name, e.left = c.left,
         e.done = c.done, e.since = c.since, e.answer = c.answer, e.at = c.at,
         \A w \in e.got : w \in c.got \/ \E j \in DOMAIN zone : w = zone[j].version,
         \/ e.record = c.record
         \/ \E j \in DOMAIN zone : e.record = zone[j].id /\ zone[j].name = c.name
  PROVE  CallOk(e)
  <1>1. Found(c) /\ Seen(c) /\ Counts(c) /\ ListingLife \in Nat /\ MaxVersions \in Nat /\ DnsTypes
    BY PlatformAssumption DEF CallOk, DnsInv, Dns!DnsAssumption
  <1>2. Found(e)
    BY <1>1, ZoneShows DEF Found
  <1>3. Counts(e)
    BY <1>1 DEF Counts
  <1>4. Seen(e)
    <2>1. /\ c.got \subseteq 1..versions /\ c.at <= dnsTime /\ c.at = 0
          /\ c.since <= dnsTime /\ dnsTime <= c.since + 1
          /\ \A w \in c.got : ended[w] = None \/ c.since <= ended[w]
      BY <1>1 DEF Seen
    <2>2. e.got \subseteq 1..versions /\ \A w \in e.got : ended[w] = None \/ c.since <= ended[w]
      BY <2>1, ZoneShows
    <2>3. \A w \in e.got : ended[w] = None \/ 0 <= ended[w] + ListingLife + 1
      <3>1. 1..versions \subseteq 1..MaxVersions /\ ended \in [1..MaxVersions -> Nat \union {None}]
        BY <1>1 DEF DnsTypes
      <3>2. \A w \in e.got : ended[w] = None \/ ended[w] \in Nat
        BY <2>2, <3>1
      <3> QED
        BY <1>1, <3>2
    <2> QED
      BY <2>1, <2>2, <2>3 DEF Seen
  <1> QED
    BY <1>2, <1>3, <1>4 DEF CallOk

\* What a page shows.
LEMMA PageVersions ==
  ASSUME DnsInv, NEW k \in Nat \ {0}
  PROVE  /\ Dns!VersionsOf(Dns!PageOf(zone, k)) \in SUBSET Nat
         /\ \A w \in Dns!VersionsOf(Dns!PageOf(zone, k)) : \E j \in DOMAIN zone : w = zone[j].version
  <1>1. zone \in Seq(DnsRow)
    BY DEF DnsInv, DnsTypes
  <1>2. PICK page : page = Dns!PageOf(zone, k)
    OBVIOUS
  <1>3. page \in Seq(DnsRow) /\ \A i \in DOMAIN page : \E j \in DOMAIN zone : page[i] = zone[j]
    BY <1>1, <1>2, PageShowsZone
  <1>4. \A i \in DOMAIN page : page[i] \in DnsRow
    BY <1>3
  <1>5. \A i \in DOMAIN page : page[i].version \in Nat
    BY <1>4 DEF DnsRow
  <1> QED
    BY <1>2, <1>3, <1>5 DEF Dns!VersionsOf

\* The first record of a name among some records.
LEMMA FirstNamed ==
  ASSUME NEW s \in Seq(DnsRow), NEW n, Dns!Named(s, n) # {}
  PROVE  Dns!First(Dns!Named(s, n)) \in DOMAIN s /\ s[Dns!First(Dns!Named(s, n))].name = n
  <1>1. PICK P : P = Dns!Named(s, n)
    OBVIOUS
  <1>2. P = {i \in DOMAIN s : s[i].name = n}
    BY <1>1 DEF Dns!Named
  <1>3. P \in SUBSET Nat /\ P # {}
    BY <1>1, <1>2
  <1>4. Dns!First(P) \in P
    BY <1>3, FirstIsOne
  <1> QED
    BY <1>1, <1>2, <1>4

LEMMA CollectedOk ==
  ASSUME DnsInv, NEW r \in Actors, dnsCall[r].pc = "calling", dnsCall[r].todo # <<>>
  PROVE  CallOk(Dns!Collected(r)) /\ CallOk([Dns!Collected(r) EXCEPT !.todo = Tail(@)])
  <1>1. PICK c \in Calling : c = dnsCall[r]
    BY DEF DnsInv, DnsTypes
  <1>2. CallOk(c) /\ c.pc = "calling" /\ c.todo # <<>>
    BY <1>1 DEF DnsInv
  <1>3. zone \in Seq(DnsRow) /\ c.page + 1 \in Nat \ {0}
    BY <1>1 DEF DnsInv, DnsTypes, Calling
  <1>4. PICK page : page = Dns!PageOf(zone, c.page + 1)
    OBVIOUS
  <1>5. page \in Seq(DnsRow) /\ \A i \in DOMAIN page : \E j \in DOMAIN zone : page[i] = zone[j]
    BY <1>3, <1>4, PageShowsZone
  <1>6. PICK got \in SUBSET Nat : got = c.got \union Dns!VersionsOf(page)
    <2>1. Dns!VersionsOf(page) \in SUBSET Nat /\ c.got \in SUBSET Nat
      BY <1>1, <1>3, <1>4, PageVersions DEF Calling
    <2> QED
      BY <2>1
  <1>7. \A w \in got : w \in c.got \/ \E j \in DOMAIN zone : w = zone[j].version
    BY <1>3, <1>4, <1>6, PageVersions
  <1>8. PICK record1 : record1 = IF c.record = None /\ Dns!Named(page, c.name) # {}
                                 THEN page[Dns!First(Dns!Named(page, c.name))].id ELSE c.record
    OBVIOUS
  <1>9. /\ record1 \in Nat \union {None}
        /\ record1 = c.record \/ \E j \in DOMAIN zone : record1 = zone[j].id /\ zone[j].name = c.name
    <2>1. CASE c.record = None /\ Dns!Named(page, c.name) # {}
      <3>1. PICK k : k = Dns!First(Dns!Named(page, c.name))
        OBVIOUS
      <3>2. k \in DOMAIN page /\ page[k].name = c.name
        BY <1>5, <2>1, <3>1, FirstNamed
      <3>3. page[k] \in DnsRow /\ \E j \in DOMAIN zone : page[k] = zone[j]
        BY <1>5, <3>2
      <3>4. record1 = page[k].id
        BY <1>8, <2>1, <3>1
      <3> QED
        BY <3>2, <3>3, <3>4 DEF DnsRow
    <2>2. CASE ~(c.record = None /\ Dns!Named(page, c.name) # {})
      <3>1. record1 = c.record
        BY <1>8, <2>2
      <3> QED
        BY <1>1, <3>1 DEF Calling
    <2> QED
      BY <2>1, <2>2
  <1>10. PICK e : e = [c EXCEPT !.got = got, !.page = c.page + 1, !.record = record1]
    OBVIOUS
  <1>11. Dns!Collected(r) = e
    BY <1>1, <1>4, <1>6, <1>8, <1>10 DEF Dns!Collected
  <1>12. /\ e \in Calling /\ e.pc = "calling" /\ e.op = c.op /\ e.name = c.name /\ e.left = c.left
         /\ e.done = c.done /\ e.since = c.since /\ e.answer = c.answer /\ e.at = c.at
         /\ e.got = got /\ e.record = record1 /\ e.todo = c.todo
    <2>1. c.page + 1 \in Nat /\ c.pc = "calling"
      BY <1>2, <1>3
    <2>2. record1 \in Nat \union {None}
      BY <1>9
    <2>3. e \in Calling
      BY <1>10, <2>1, <2>2 DEF Calling
    <2> QED
      BY <1>10, <2>1, <2>3 DEF Calling
  <1>13. CallOk(e)
    <2>1. \A w \in e.got : w \in c.got \/ \E j \in DOMAIN zone : w = zone[j].version
      BY <1>7, <1>12
    <2>2. \/ e.record = c.record
          \/ \E j \in DOMAIN zone : e.record = zone[j].id /\ zone[j].name = c.name
      BY <1>9, <1>12
    <2> QED
      BY <1>2, <1>12, <2>1, <2>2, ReadsZone
  <1>14. PICK f : f = [e EXCEPT !.todo = Tail(e.todo)]
    OBVIOUS
  <1>15. Tail(c.todo) \in Seq(DnsSteps)
    BY <1>1, <1>2, HeadTailProperties DEF Calling
  <1>16. /\ f \in Calling /\ f.pc = "calling" /\ f.op = c.op /\ f.name = c.name /\ f.left = c.left
         /\ f.done = c.done /\ f.since = c.since /\ f.answer = c.answer /\ f.at = c.at
         /\ f.got = got /\ f.record = record1
    BY <1>12, <1>14, <1>15 DEF Calling
  <1>17. CallOk(f)
    <2>1. \A w \in f.got : w \in c.got \/ \E j \in DOMAIN zone : w = zone[j].version
      BY <1>7, <1>16
    <2>2. \/ f.record = c.record
          \/ \E j \in DOMAIN zone : f.record = zone[j].id /\ zone[j].name = c.name
      BY <1>9, <1>16
    <2> QED
      BY <1>2, <1>16, <2>1, <2>2, ReadsZone
  <1> QED
    BY <1>11, <1>13, <1>14, <1>17

LEMMA BeginKeeps ==
  ASSUME DnsInv, NEW r \in Actors, NEW n \in Names, NEW op \in {"create", "update", "delete", "batch"},
         Dns!Begin(r, op, n)
  PROVE  DnsInv'
  <1>1. DnsTypes /\ dnsTime \in Nat
    BY DEF DnsInv, DnsTypes
  <1>2. Dns!Calls(op) \in Seq(DnsSteps)
    BY <1>1, ClientsCall
  <1>3. UNCHANGED <<provider, zone, versions, ended, listing, dnsTime>>
    BY DEF Dns!Begin
  <1>4. PICK e, f :
          /\ e = [Dns!Idle EXCEPT !.pc = "calling", !.op = op, !.name = n, !.todo = Dns!Calls(op),
                                  !.left = IF op = "batch" THEN 1 ELSE 0, !.since = dnsTime]
          /\ f = [Dns!Idle EXCEPT !.pc = "answered", !.op = op, !.answer = "error"]
    OBVIOUS
  <1>5. dnsCall' = [dnsCall EXCEPT ![r] = e] \/ dnsCall' = [dnsCall EXCEPT ![r] = f]
    BY <1>4 DEF Dns!Begin, Dns!Becomes, Dns!Batch
  <1>6. CallOk(e)
    <2>1. /\ e \in Calling /\ e.pc = "calling" /\ e.op = op /\ e.name = n /\ e.since = dnsTime
          /\ e.left = (IF op = "batch" THEN 1 ELSE 0) /\ e.done = 0 /\ e.answer = None
          /\ e.record = None /\ e.got = {} /\ e.at = 0
      BY <1>1, <1>2, <1>4, NewCall DEF Calling, Dns!Idle
    <2>2. Found(e) /\ Counts(e)
      BY <2>1 DEF Found, Counts
    <2>3. Seen(e)
      BY <1>1, <2>1 DEF Seen
    <2> QED
      BY <2>1, <2>2, <2>3 DEF CallOk
  <1>7. CallOk(f)
    <2>1. /\ f \in Calling /\ f.pc = "answered" /\ f.answer = "error"
          /\ f.record = None /\ f.got = {} /\ f.at = 0
      BY <1>4, NewCall DEF Calling, Dns!Idle
    <2> QED
      BY <1>1, <2>1 DEF CallOk, Found, Counts, Seen
  <1> QED
    BY <1>3, <1>5, <1>6, <1>7, CallGoesOn

LEMMA ListFromCacheKeeps ==
  ASSUME DnsInv, NEW r \in Actors, Dns!ListFromCache(r)
  PROVE  DnsInv'
  <1>1. /\ DnsTypes /\ ListingOk /\ dnsTime \in Nat /\ listing.versions \in SUBSET Nat /\ listing.until \in Nat
        /\ listing.kind \in {"none", "list", "note"} /\ ListingLife \in Nat
        /\ 1..versions \subseteq 1..MaxVersions /\ ended \in [1..MaxVersions -> Nat \union {None}]
    BY PlatformAssumption DEF DnsInv, DnsTypes, Dns!DnsAssumption
  <1>2. dnsTime < listing.until
    BY DEF Dns!ListFromCache, Dns!Hit
  <1>3. UNCHANGED <<provider, zone, versions, ended, listing, dnsTime>>
    BY DEF Dns!ListFromCache
  <1>4. PICK a \in {"ok", "note"} : a = IF listing.kind = "list" THEN "ok" ELSE "note"
    OBVIOUS
  <1>5. PICK e : e = [Dns!Idle EXCEPT !.pc = "answered", !.op = "list", !.got = listing.versions,
                                      !.answer = a, !.at = dnsTime]
    OBVIOUS
  <1>6. dnsCall' = [dnsCall EXCEPT ![r] = e]
    BY <1>4, <1>5 DEF Dns!ListFromCache, Dns!Becomes
  <1>7. /\ e \in Calling /\ e.pc = "answered" /\ e.op = "list" /\ e.got = listing.versions
        /\ e.answer = a /\ e.at = dnsTime /\ e.record = None
    BY <1>1, <1>5, NewCall DEF Calling, Dns!Idle
  <1>8. listing.kind # "list" => listing.versions = {}
    BY DEF DnsInv, ListingOk
  <1>9. \A w \in listing.versions :
          w \in 1..versions /\ (ended[w] = None \/ dnsTime <= ended[w] + ListingLife + 1)
    <2> SUFFICES ASSUME NEW w \in listing.versions
                 PROVE  w \in 1..versions /\ (ended[w] = None \/ dnsTime <= ended[w] + ListingLife + 1)
      OBVIOUS
    <2>1. w \in 1..versions /\ (ended[w] = None \/ listing.until <= ended[w] + ListingLife + 1)
      BY <1>1, <1>8 DEF ListingOk
    <2>2. ended[w] = None \/ ended[w] \in Nat
      BY <1>1, <2>1
    <2> QED
      BY <1>1, <1>2, <2>1, <2>2
  <1>10. Seen(e)
    BY <1>1, <1>7, <1>9 DEF Seen
  <1>11. Found(e) /\ Counts(e)
    BY <1>7 DEF Found, Counts
  <1> QED
    BY <1>3, <1>6, <1>7, <1>10, <1>11, CallGoesOn DEF CallOk

\* The note of an error in the cache shows nothing.
LEMMA NoteIsOk ==
  ASSUME DnsInv, Dns!Caches("note", {}, 1)
  PROVE  /\ listing' \in [kind : {"none", "list", "note"}, versions : SUBSET Nat, until : Nat]
         /\ ListingOk'
  <1>1. dnsTime \in Nat
    BY DEF DnsInv, DnsTypes
  <1>2. PICK e : e = [kind |-> "note", versions |-> {}, until |-> dnsTime + 1]
    OBVIOUS
  <1>3. listing' = e
    BY <1>2 DEF Dns!Caches
  <1>4. /\ e \in [kind : {"none", "list", "note"}, versions : SUBSET Nat, until : Nat]
        /\ e.kind = "note" /\ e.versions = {}
    BY <1>1, <1>2
  <1> QED
    BY <1>3, <1>4 DEF ListingOk

LEMMA ListBeginsKeeps ==
  ASSUME DnsInv, NEW r \in Actors, Dns!ListBegins(r)
  PROVE  DnsInv'
  <1>1. DnsTypes /\ dnsTime \in Nat
    BY DEF DnsInv, DnsTypes
  <1>2. Dns!Calls("list") \in Seq(DnsSteps)
    BY <1>1, ClientsCall
  <1>3. UNCHANGED <<provider, zone, versions, ended, dnsTime>>
    BY DEF Dns!ListBegins
  <1>4. PICK e, f :
          /\ e = [Dns!Idle EXCEPT !.pc = "calling", !.op = "list", !.todo = Dns!Calls("list"), !.since = dnsTime]
          /\ f = [Dns!Idle EXCEPT !.pc = "answered", !.op = "list", !.answer = "error"]
    OBVIOUS
  <1>5. \/ dnsCall' = [dnsCall EXCEPT ![r] = e] /\ listing' = listing
        \/ dnsCall' = [dnsCall EXCEPT ![r] = f] /\ Dns!Caches("note", {}, 1)
    BY <1>4 DEF Dns!ListBegins, Dns!Becomes
  <1>6. CallOk(e)
    <2>1. /\ e \in Calling /\ e.pc = "calling" /\ e.op = "list" /\ e.since = dnsTime
          /\ e.left = 0 /\ e.done = 0 /\ e.answer = None
          /\ e.record = None /\ e.got = {} /\ e.at = 0
      BY <1>1, <1>2, <1>4, NewCall DEF Calling, Dns!Idle
    <2>2. Found(e) /\ Counts(e)
      BY <2>1 DEF Found, Counts
    <2>3. Seen(e)
      BY <1>1, <2>1 DEF Seen
    <2> QED
      BY <2>1, <2>2, <2>3 DEF CallOk
  <1>7. CallOk(f)
    <2>1. /\ f \in Calling /\ f.pc = "answered" /\ f.answer = "error"
          /\ f.record = None /\ f.got = {} /\ f.at = 0
      BY <1>4, NewCall DEF Calling, Dns!Idle
    <2> QED
      BY <1>1, <2>1 DEF CallOk, Found, Counts, Seen
  <1>8. CASE dnsCall' = [dnsCall EXCEPT ![r] = e] /\ listing' = listing
    BY <1>3, <1>6, <1>8, CallGoesOn
  <1>9. CASE dnsCall' = [dnsCall EXCEPT ![r] = f] /\ Dns!Caches("note", {}, 1)
    <2>1. /\ listing' \in [kind : {"none", "list", "note"}, versions : SUBSET Nat, until : Nat]
          /\ ListingOk'
      BY <1>9, NoteIsOk
    <2> QED
      BY <1>3, <1>7, <1>9, <2>1, CallMoves
  <1> QED
    BY <1>5, <1>8, <1>9

LEMMA CallFailsKeeps ==
  ASSUME DnsInv, NEW r \in Actors, Dns!CallFails(r)
  PROVE  DnsInv'
  <1>1. PICK c \in Calling : c = dnsCall[r] /\ CallOk(c) /\ c.pc = "calling"
    BY DEF DnsInv, DnsTypes, Dns!CallFails, Dns!Goes
  <1>2. PICK e : e = [Dns!Idle EXCEPT !.pc = "answered", !.op = c.op, !.got = c.got,
                                      !.done = c.done, !.answer = "error", !.at = dnsTime]
    OBVIOUS
  <1>3. CallOk(e)
    BY <1>1, <1>2, AnswerOk
  <1>4. dnsCall' = [dnsCall EXCEPT ![r] = e]
    BY <1>1, <1>2 DEF Dns!CallFails, Dns!Answers, Dns!Becomes
  <1>5. UNCHANGED <<provider, zone, versions, ended, dnsTime>>
        /\ (listing' = listing \/ Dns!Caches("note", {}, 1))
    BY DEF Dns!CallFails
  <1>6. CASE listing' = listing
    BY <1>3, <1>4, <1>5, <1>6, CallGoesOn
  <1>7. CASE Dns!Caches("note", {}, 1)
    <2>1. /\ listing' \in [kind : {"none", "list", "note"}, versions : SUBSET Nat, until : Nat]
          /\ ListingOk'
      BY <1>7, NoteIsOk
    <2> QED
      BY <1>3, <1>4, <1>5, <2>1, CallMoves
  <1> QED
    BY <1>5, <1>6, <1>7

LEMMA FindZoneKeeps ==
  ASSUME DnsInv, NEW r \in Actors, Dns!FindZone(r)
  PROVE  DnsInv'
  <1>1. PICK c \in Calling : c = dnsCall[r] /\ CallOk(c) /\ c.pc = "calling" /\ c.todo # <<>>
    BY DEF DnsInv, DnsTypes, Dns!FindZone, Dns!Goes
  <1>2. PICK e : e = [c EXCEPT !.todo = Tail(c.todo)]
    OBVIOUS
  <1>3. Tail(c.todo) \in Seq(DnsSteps)
    BY <1>1, HeadTailProperties DEF Calling
  <1>4. /\ e \in Calling /\ e.pc = "calling" /\ e.op = c.op /\ e.name = c.name /\ e.left = c.left
        /\ e.done = c.done /\ e.since = c.since /\ e.answer = c.answer /\ e.at = c.at
        /\ e.got = c.got /\ e.record = c.record
    BY <1>1, <1>2, <1>3 DEF Calling
  <1>5. CallOk(e)
    BY <1>1, <1>4, ReadsZone
  <1>6. dnsCall' = [dnsCall EXCEPT ![r] = e]
    BY <1>1, <1>2 DEF Dns!FindZone, Dns!Becomes, Dns!Next1
  <1>7. UNCHANGED <<provider, zone, versions, ended, listing, dnsTime>>
    BY DEF Dns!FindZone
  <1> QED
    BY <1>5, <1>6, <1>7, CallGoesOn

LEMMA FindRecordKeeps ==
  ASSUME DnsInv, NEW r \in Actors, Dns!FindRecord(r)
  PROVE  DnsInv'
  <1>1. PICK c \in Calling : c = dnsCall[r] /\ CallOk(c) /\ c.pc = "calling" /\ c.todo # <<>>
    BY DEF DnsInv, DnsTypes, Dns!FindRecord, Dns!Goes
  <1>2. UNCHANGED <<provider, zone, versions, ended, listing, dnsTime>>
    BY DEF Dns!FindRecord
  <1>3. CASE Dns!Named(zone, c.name) = {}
    <2>1. PICK e : e = [Dns!Idle EXCEPT !.pc = "answered", !.op = c.op, !.got = c.got,
                                        !.done = c.done, !.answer = "error", !.at = dnsTime]
      OBVIOUS
    <2>2. CallOk(e)
      BY <1>1, <2>1, AnswerOk
    <2>3. dnsCall' = [dnsCall EXCEPT ![r] = e]
      BY <1>1, <1>3, <2>1 DEF Dns!FindRecord, Dns!Answers, Dns!Becomes
    <2> QED
      BY <1>2, <2>2, <2>3, CallGoesOn
  <1>4. CASE Dns!Named(zone, c.name) # {}
    <2>1. PICK k : k = Dns!First(Dns!Named(zone, c.name))
      OBVIOUS
    <2>2. zone \in Seq(DnsRow)
      BY DEF DnsInv, DnsTypes
    <2>3. k \in DOMAIN zone /\ zone[k].name = c.name
      BY <1>4, <2>1, <2>2, FirstNamed
    <2>4. zone[k] \in DnsRow
      BY <2>2, <2>3
    <2>5. PICK id \in Nat : id = zone[k].id
      BY <2>4 DEF DnsRow
    <2>6. PICK e : e = [c EXCEPT !.todo = Tail(c.todo), !.record = id]
      OBVIOUS
    <2>7. Tail(c.todo) \in Seq(DnsSteps)
      BY <1>1, HeadTailProperties DEF Calling
    <2>8. /\ e \in Calling /\ e.pc = "calling" /\ e.op = c.op /\ e.name = c.name /\ e.left = c.left
          /\ e.done = c.done /\ e.since = c.since /\ e.answer = c.answer /\ e.at = c.at
          /\ e.got = c.got /\ e.record = id
      BY <1>1, <2>6, <2>7 DEF Calling
    <2>9. CallOk(e)
      BY <1>1, <2>3, <2>5, <2>8, ReadsZone
    <2>10. dnsCall' = [dnsCall EXCEPT ![r] = e]
      BY <1>1, <1>4, <2>1, <2>5, <2>6 DEF Dns!FindRecord, Dns!Becomes, Dns!Next1
    <2> QED
      BY <1>2, <2>9, <2>10, CallGoesOn
  <1> QED
    BY <1>3, <1>4

LEMMA FetchPageKeeps ==
  ASSUME DnsInv, NEW r \in Actors, Dns!FetchPage(r)
  PROVE  DnsInv'
  <1>1. PICK c \in Calling : c = dnsCall[r] /\ CallOk(c) /\ c.pc = "calling" /\ c.todo # <<>>
    BY DEF DnsInv, DnsTypes, Dns!FetchPage, Dns!Goes
  <1>2. UNCHANGED <<provider, zone, versions, ended, listing, dnsTime>>
    BY DEF Dns!FetchPage
  <1>3. PICK e, f, g :
          /\ e = [Dns!Idle EXCEPT !.pc = "answered", !.op = c.op, !.got = c.got,
                                  !.done = c.done, !.answer = "error", !.at = dnsTime]
          /\ f = Dns!Collected(r)
          /\ g = [Dns!Collected(r) EXCEPT !.todo = Tail(@)]
    OBVIOUS
  <1>4. CallOk(e)
    BY <1>1, <1>3, AnswerOk
  <1>5. CallOk(f) /\ CallOk(g)
    BY <1>1, <1>3, CollectedOk
  <1>6. \/ dnsCall' = [dnsCall EXCEPT ![r] = e]
        \/ dnsCall' = [dnsCall EXCEPT ![r] = f]
        \/ dnsCall' = [dnsCall EXCEPT ![r] = g]
    BY <1>1, <1>3 DEF Dns!FetchPage, Dns!Answers, Dns!Becomes
  <1> QED
    BY <1>2, <1>4, <1>5, <1>6, CallGoesOn

LEMMA FetchFirstKeeps ==
  ASSUME DnsInv, NEW r \in Actors, Dns!FetchFirst(r)
  PROVE  DnsInv'
  <1>1. PICK c \in Calling : c = dnsCall[r] /\ CallOk(c) /\ c.pc = "calling" /\ c.todo # <<>>
    BY DEF DnsInv, DnsTypes, Dns!FetchFirst, Dns!Goes
  <1>2. PICK got : got = Dns!VersionsOf(Dns!PageOf(zone, 1))
    OBVIOUS
  <1>3. got \in SUBSET Nat /\ \A w \in got : \E j \in DOMAIN zone : w = zone[j].version
    BY <1>2, PageVersions
  <1>4. PICK e : e = [c EXCEPT !.todo = Tail(c.todo), !.got = got]
    OBVIOUS
  <1>5. Tail(c.todo) \in Seq(DnsSteps)
    BY <1>1, HeadTailProperties DEF Calling
  <1>6. /\ e \in Calling /\ e.pc = "calling" /\ e.op = c.op /\ e.name = c.name /\ e.left = c.left
        /\ e.done = c.done /\ e.since = c.since /\ e.answer = c.answer /\ e.at = c.at
        /\ e.got = got /\ e.record = c.record
    BY <1>1, <1>3, <1>4, <1>5 DEF Calling
  <1>7. CallOk(e)
    BY <1>1, <1>3, <1>6, ReadsZone
  <1>8. dnsCall' = [dnsCall EXCEPT ![r] = e]
    BY <1>1, <1>2, <1>4 DEF Dns!FetchFirst, Dns!Becomes, Dns!Next1
  <1>9. UNCHANGED <<provider, zone, versions, ended, listing, dnsTime>>
    BY DEF Dns!FetchFirst
  <1> QED
    BY <1>7, <1>8, <1>9, CallGoesOn

LEMMA StoreListingKeeps ==
  ASSUME DnsInv, NEW r \in Actors, Dns!StoreListing(r)
  PROVE  DnsInv'
  <1>1. PICK c \in Calling : c = dnsCall[r] /\ CallOk(c) /\ c.pc = "calling" /\ c.op = "list"
    BY DEF DnsInv, DnsTypes, Dns!StoreListing
  <1>2. PICK e : e = [Dns!Idle EXCEPT !.pc = "answered", !.op = c.op, !.got = c.got,
                                      !.done = c.done, !.answer = "ok", !.at = dnsTime]
    OBVIOUS
  <1>3. CallOk(e)
    BY <1>1, <1>2, AnswerOk
  <1>4. dnsCall' = [dnsCall EXCEPT ![r] = e]
    BY <1>1, <1>2 DEF Dns!StoreListing, Dns!Answers, Dns!Becomes
  <1>5. UNCHANGED <<provider, zone, versions, ended, dnsTime>>
    BY DEF Dns!StoreListing
  <1>6. PICK l : l = [kind |-> "list", versions |-> c.got, until |-> dnsTime + ListingLife]
    OBVIOUS
  <1>7. listing' = l
    BY <1>1, <1>6 DEF Dns!StoreListing, Dns!Caches
  <1>8. /\ dnsTime \in Nat /\ ListingLife \in Nat /\ c.got \in SUBSET Nat /\ c.since \in Nat
        /\ 1..versions \subseteq 1..MaxVersions /\ ended \in [1..MaxVersions -> Nat \union {None}]
    BY <1>1, PlatformAssumption DEF DnsInv, DnsTypes, Calling, Dns!DnsAssumption
  <1>9. /\ l \in [kind : {"none", "list", "note"}, versions : SUBSET Nat, until : Nat]
        /\ l.kind = "list" /\ l.versions = c.got /\ l.until = dnsTime + ListingLife
    BY <1>6, <1>8
  <1>10. /\ c.got \subseteq 1..versions /\ dnsTime <= c.since + 1
         /\ \A w \in c.got : ended[w] = None \/ c.since <= ended[w]
    BY <1>1 DEF CallOk, Seen
  <1>11. \A w \in c.got : ended[w] = None \/ dnsTime + ListingLife <= ended[w] + ListingLife + 1
    <2> SUFFICES ASSUME NEW w \in c.got, ended[w] # None
                 PROVE  dnsTime + ListingLife <= ended[w] + ListingLife + 1
      OBVIOUS
    <2>1. ended[w] \in Nat /\ c.since <= ended[w]
      BY <1>8, <1>10
    <2> QED
      BY <1>8, <1>10, <2>1
  <1>12. listing' \in [kind : {"none", "list", "note"}, versions : SUBSET Nat, until : Nat] /\ ListingOk'
    BY <1>5, <1>7, <1>8, <1>9, <1>10, <1>11 DEF ListingOk
  <1> QED
    BY <1>3, <1>4, <1>5, <1>12, CallMoves

LEMMA PostKeeps ==
  ASSUME DnsInv, NEW r \in Actors, Dns!Post(r)
  PROVE  DnsInv'
  <1>1. PICK c \in Calling : c = dnsCall[r] /\ CallOk(c) /\ c.pc = "calling"
    BY DEF DnsInv, DnsTypes, Dns!Post, Dns!Goes
  <1>2. Dns!Takes(r) /\ UNCHANGED <<provider, listing, dnsTime>>
    BY DEF Dns!Post
  <1>3. PICK a \in {"ok", "error"} : Dns!Proceeds(r, [c EXCEPT !.done = c.done + 1], a)
    BY <1>1 DEF Dns!Post
  <1>4. c.op \in {"create", "batch", "update", "delete"}
    BY <1>1, <1>2 DEF Dns!Takes
  <1>5. c.name \in Names
    BY <1>1, <1>4 DEF CallOk, Counts
  <1>6. c.done + 1 \in Nat
    BY <1>1 DEF Calling
  <1>7. \E e : CallOk(e) /\ dnsCall' = [dnsCall EXCEPT ![r] = e]
    BY <1>1, <1>3, <1>4, <1>6, ProceedsOk
  <1>8. PICK e : CallOk(e) /\ dnsCall' = [dnsCall EXCEPT ![r] = e]
    BY <1>7
  <1>9. Dns!Creates(c.name) \/ Dns!Updates(c.record) \/ Dns!Deletes(c.record)
    BY <1>1, <1>2 DEF Dns!Takes
  <1>10. ZoneTypes' /\ ZoneOk' /\ ListingOk' /\ \A d : CallOk(d) => CallOk(d)'
    <2>1. CASE Dns!Creates(c.name)
      BY <1>2, <1>5, <2>1, CreatesKeeps
    <2>2. CASE Dns!Updates(c.record)
      BY <1>2, <2>2, UpdatesKeeps
    <2>3. CASE Dns!Deletes(c.record)
      BY <1>2, <2>3, DeletesKeeps
    <2> QED
      BY <1>9, <2>1, <2>2, <2>3
  <1>11. dnsCall \in [Actors -> Calling] /\ e \in Calling
    BY <1>8 DEF DnsInv, DnsTypes, CallOk
  <1>12. /\ dnsCall' \in [Actors -> Calling] /\ dnsCall'[r] = e
         /\ \A q \in Actors : q # r => dnsCall'[q] = dnsCall[q]
    BY <1>8, <1>11
  <1>13. ASSUME NEW q \in Actors PROVE CallOk(dnsCall[q])'
    <2>1. PICK d : d = dnsCall'[q]
      OBVIOUS
    <2>2. CallOk(d)
      BY <1>8, <1>12, <2>1 DEF DnsInv
    <2> QED
      BY <1>10, <2>1, <2>2
  <1>14. DnsTypes'
    BY <1>2, <1>10, <1>12 DEF DnsInv, DnsTypes, ZoneTypes
  <1> QED
    BY <1>10, <1>13, <1>14 DEF DnsInv

LEMMA RefusedKeeps ==
  ASSUME DnsInv, NEW r \in Actors, Dns!Refused(r)
  PROVE  DnsInv'
  <1>1. PICK c \in Calling : c = dnsCall[r] /\ CallOk(c) /\ c.pc = "calling"
    BY DEF DnsInv, DnsTypes, Dns!Refused, Dns!Refusal, Dns!Goes
  <1>2. PICK d \in Nat : d = c.done
    BY <1>1 DEF Calling
  <1>3. c = [c EXCEPT !.done = d]
    BY <1>1, <1>2 DEF Calling
  <1>4. Dns!Proceeds(r, [c EXCEPT !.done = d], "error")
    BY <1>1, <1>3 DEF Dns!Refused, Dns!Refusal
  <1>5. \E e : CallOk(e) /\ dnsCall' = [dnsCall EXCEPT ![r] = e]
    BY <1>1, <1>2, <1>4, ProceedsOk
  <1>6. UNCHANGED <<provider, zone, versions, ended, listing, dnsTime>>
    BY DEF Dns!Refused, Dns!Refusal
  <1> QED
    BY <1>5, <1>6, CallGoesOn

LEMMA ForgetKeeps ==
  ASSUME DnsInv, NEW r \in Actors, Dns!Forget(r)
  PROVE  DnsInv'
  <1>1. UNCHANGED <<provider, zone, versions, ended, listing, dnsTime>>
        /\ dnsCall' = [dnsCall EXCEPT ![r] = Dns!Idle]
    BY DEF Dns!Forget, Dns!Becomes
  <1> QED
    BY <1>1, NewCall, CallGoesOn

LEMMA DnsTickKeeps ==
  ASSUME DnsInv, Dns!Tick
  PROVE  DnsInv'
  <1>1. /\ dnsTime' = dnsTime + 1 /\ UNCHANGED <<provider, zone, versions, ended, listing, dnsCall>>
        /\ \A r \in Actors : dnsCall[r].pc = "calling" => dnsCall[r].since = dnsTime
    BY DEF Dns!Tick
  <1>2. DnsTypes /\ dnsTime \in Nat /\ dnsTime + 1 \in Nat /\ ListingLife \in Nat
    BY PlatformAssumption DEF DnsInv, DnsTypes, Dns!DnsAssumption
  <1>3. DnsTypes'
    BY <1>1, <1>2 DEF DnsTypes
  <1>4. ZoneOk'
    BY <1>1 DEF DnsInv, ZoneOk
  <1>5. ListingOk'
    <2>1. listing.until \in Nat
      BY <1>2 DEF DnsTypes
    <2>2. listing.until <= dnsTime + ListingLife => listing.until <= dnsTime' + ListingLife
      BY <1>1, <1>2, <2>1
    <2> QED
      BY <1>1, <2>2 DEF DnsInv, ListingOk
  <1>6. ASSUME NEW r \in Actors PROVE CallOk(dnsCall[r])'
    <2>1. PICK c \in Calling : c = dnsCall[r] /\ CallOk(c) /\ (c.pc = "calling" => c.since = dnsTime)
      BY <1>1 DEF DnsInv, DnsTypes
    <2>2. c.since \in Nat /\ c.at \in Nat
      BY <2>1 DEF Calling
    <2>3. c.pc = "calling" => c.since <= dnsTime' /\ dnsTime' <= c.since + 1
      BY <1>1, <1>2, <2>1, <2>2
    <2>4. c.at <= dnsTime => c.at <= dnsTime'
      BY <1>1, <1>2, <2>2
    <2>5. Seen(c)'
      BY <1>1, <2>1, <2>3, <2>4 DEF CallOk, Seen
    <2>6. Found(c)' /\ Counts(c)'
      BY <1>1, <2>1 DEF CallOk, Found, Counts
    <2>7. CallOk(c)'
      BY <2>1, <2>5, <2>6 DEF CallOk
    <2>8. dnsCall'[r] = c
      BY <1>1, <2>1
    <2> QED
      BY <2>7, <2>8
  <1> QED
    BY <1>3, <1>4, <1>5, <1>6 DEF DnsInv

LEMMA DnsNextKeeps == DnsInv /\ [Dns!Next]_(Dns!vars) => DnsInv'
  <1> SUFFICES ASSUME DnsInv, [Dns!Next]_(Dns!vars) PROVE DnsInv'
    OBVIOUS
  <1>1. CASE UNCHANGED Dns!vars
    <2>1. UNCHANGED <<provider, zone, versions, ended, listing, dnsTime, dnsCall>>
      BY <1>1 DEF Dns!vars
    <2> QED
      BY <2>1 DEF DnsInv, DnsTypes, ZoneOk, ListingOk, CallOk, Found, Seen, Counts
  <1>2. CASE Dns!Tick
    BY <1>2, DnsTickKeeps
  <1>3. ASSUME NEW r \in Actors, NEW op \in {"create", "update", "delete", "batch"}, NEW n \in Names,
               Dns!Begin(r, op, n)
        PROVE  DnsInv'
    BY <1>3, BeginKeeps
  <1>4. ASSUME NEW r \in Actors,
               \/ Dns!ListFromCache(r) \/ Dns!ListBegins(r) \/ Dns!CallFails(r) \/ Dns!FindZone(r)
               \/ Dns!FindRecord(r) \/ Dns!FetchPage(r)
        PROVE  DnsInv'
    BY <1>4, ListFromCacheKeeps, ListBeginsKeeps, CallFailsKeeps, FindZoneKeeps, FindRecordKeeps,
       FetchPageKeeps
  <1>5. ASSUME NEW r \in Actors,
               \/ Dns!FetchFirst(r) \/ Dns!StoreListing(r) \/ Dns!Post(r) \/ Dns!Refused(r) \/ Dns!Forget(r)
        PROVE  DnsInv'
    BY <1>5, FetchFirstKeeps, StoreListingKeeps, PostKeeps, RefusedKeeps, ForgetKeeps
  <1> QED
    BY <1>1, <1>2, <1>3, <1>4, <1>5 DEF Dns!Next

\* The inductive invariant of DNS records (dns_service.go): versions and identifiers are
\* made once, what a call or the cache holds was there after the call began, and a call
\* that found a record found one of its name.
THEOREM DnsInvariance == Dns!Spec => []DnsInv
  <1>1. Dns!Init => DnsInv
    <2> SUFFICES ASSUME Dns!Init PROVE DnsInv
      OBVIOUS
    <2>1. /\ provider \in {"cloudflare", "alidns", "tencentcloud", "westdns"} /\ zone = <<>> /\ versions = 0
          /\ ended = [w \in 1..MaxVersions |-> None]
          /\ listing = [kind |-> "none", versions |-> {}, until |-> 0] /\ dnsTime = 0
          /\ dnsCall = [r \in Actors |-> Dns!Idle]
      BY DEF Dns!Init, Dns!Changes, Dns!Versions
    <2>2. MaxVersions \in Nat /\ 0 \in 0..MaxVersions /\ zone \in Seq(DnsRow) /\ DOMAIN zone = {}
      BY <2>1, PlatformAssumption DEF Dns!DnsAssumption
    <2>3. Dns!Idle \in Calling /\ Dns!Idle.pc = "idle" /\ Dns!Idle.record = None /\ Dns!Idle.got = {}
          /\ Dns!Idle.at = 0
      BY DEF Dns!Idle, Calling
    <2>4. CallOk(Dns!Idle)
      BY <2>1, <2>3 DEF CallOk, Found, Seen, Counts
    <2>5. DnsTypes
      BY <2>1, <2>2, <2>3 DEF DnsTypes
    <2>6. ZoneOk /\ ListingOk
      BY <2>1, <2>2 DEF ZoneOk, ListingOk
    <2> QED
      BY <2>1, <2>4, <2>5, <2>6 DEF DnsInv
  <1> QED
    BY <1>1, DnsNextKeeps, PTL DEF Dns!Spec

\* A listing shows nothing that was gone for longer than a cached listing lives, however
\* many pages, records and requests there are.
THEOREM ListingsAreRecentCorrect == Dns!Spec => []Dns!ListingsAreRecent
  <1>1. DnsInv => Dns!ListingsAreRecent
    BY DEF DnsInv, CallOk, Seen, Dns!ListingsAreRecent
  <1> QED
    BY <1>1, DnsInvariance, PTL

\* An answer that says a change was made is true, and a change reaches a record of the
\* name it is for.
THEOREM RecordsHoldCorrect == Dns!Spec => []RecordsHold
  <1>1. DnsInv => Dns!SuccessIsMade
    BY DEF DnsInv, CallOk, Counts, Dns!SuccessIsMade, Dns!Batch
  <1>2. DnsInv => Dns!ChangesItsName
    BY DEF DnsInv, CallOk, Found, Dns!ChangesItsName
  <1> QED
    BY <1>1, <1>2, DnsInvariance, PTL DEF RecordsHold

\* A change of a flag is seen at the server that made it, with the exceptions of
\* ChangesAreSeen; whoever reaches a resource with a role below admin had access to it a
\* short time ago; and no listing of DNS records shows what is long gone.
THEOREM CachesHoldCorrect == Flag!Spec /\ Access!Spec /\ Dns!Spec => []CachesHold
  BY ChangesAreSeenCorrect, AnswersAreFreshCorrect, ListingsAreRecentCorrect, PTL DEF CachesHold
=============================================================================
