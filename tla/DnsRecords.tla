----------------------------- MODULE DnsRecords -----------------------------
(***************************************************************************)
(* The DNS records of one domain: the handlers and tools that create,      *)
(* update, delete and list them (internal/service/dns_service.go) through  *)
(* the interface of the provider that is enabled                           *)
(* (internal/provider/dns), and the cached listing.                        *)
(*                                                                         *)
(* The zone belongs to the provider and is external.  A provider's client  *)
(* is the sequence of calls each operation makes; between two calls other  *)
(* requests, and whoever else edits the zone, may come.  A version stands  *)
(* for a record with a value: it is made once and ends when its record is  *)
(* deleted or gets another value.  Left out: TTL, type and proxying (a     *)
(* name stands for a name with a type), signatures.                        *)
(***************************************************************************)
EXTENDS Naturals, Sequences, SequencesExt, FiniteSets

CONSTANTS Requests, Names, None,
          Page,         \* records on one page of a listing
          CacheLife,    \* ten minutes; the note of an error lasts one period
          MaxVersions, MaxTime

DnsAssumption == Page \in Nat \ {0} /\ CacheLife \in Nat /\ MaxVersions \in Nat

VARIABLES provider,  \* the enabled row of table providers
          zone,      \* the provider's records, oldest first
          made,      \* versions made so far
          ended,     \* history: when a version ceased to be
          listing,   \* b.Cache: the listing of the domain
          dnsTime,
          dnsCall    \* per request: its goroutine

vars == <<provider, zone, made, ended, listing, dnsTime, dnsCall>>

Versions == 1..MaxVersions

Batch == 2  \* records of a batch, here of one name

Idle == [pc |-> "idle", op |-> None, todo |-> <<>>, name |-> None, record |-> None, got |-> {},
         page |-> 0, left |-> 0, done |-> 0, since |-> 0, answer |-> None, at |-> 0]

(* The calls of each client.  "find" asks for the records of the name and takes *)
(* the first; "page" collects the records page by page and then takes the first *)
(* of the name; "first" asks for the records and gets the first page.           *)
Cloudflare == [create |-> <<"zone", "post">>, update |-> <<"zone", "find", "post">>,
               delete |-> <<"zone", "find", "post">>]
CloudflareList == <<"zone", "first">>
Aliyun == [create |-> <<"post">>, update |-> <<"find", "post">>, delete |-> <<"find", "post">>]
AliyunList == <<"first">>
Tencent == [create |-> <<"post">>, update |-> <<"find", "post">>, delete |-> <<"find", "post">>]
TencentList == <<"first">>
WestDNS == [create |-> <<"post">>, update |-> <<"page", "post">>, delete |-> <<"page", "post">>]
WestDNSList == <<"page">>

Changes == [cloudflare |-> Cloudflare, alidns |-> Aliyun, tencentcloud |-> Tencent, westdns |-> WestDNS]
Lists == [cloudflare |-> CloudflareList, alidns |-> AliyunList, tencentcloud |-> TencentList,
          westdns |-> WestDNSList]

Calls(op) ==
  CASE op = "list" -> Lists[provider]
    [] op = "batch" -> Changes[provider].create
    [] OTHER -> Changes[provider][op]

Init ==
  /\ provider \in DOMAIN Changes
  /\ zone = <<>>
  /\ made = 0
  /\ ended = [v \in Versions |-> None]
  /\ listing = [kind |-> "none", versions |-> {}, until |-> 0]
  /\ dnsTime = 0
  /\ dnsCall = [r \in Requests |-> Idle]

Becomes(r, c) == dnsCall' = [dnsCall EXCEPT ![r] = c]
Answers(r, answer) ==
  Becomes(r, [Idle EXCEPT !.pc = "answered", !.op = dnsCall[r].op, !.got = dnsCall[r].got,
                          !.done = dnsCall[r].done, !.answer = answer, !.at = dnsTime])
Goes(r) == dnsCall[r].pc = "calling" /\ dnsCall[r].todo # <<>>
Next1(r) == [dnsCall[r] EXCEPT !.todo = Tail(@)]

Ends(vs) == [v \in Versions |-> IF v \in vs THEN dnsTime ELSE ended[v]]
VersionsOf(s) == {s[i].version : i \in DOMAIN s}
Pages(s) == (Len(s) + Page - 1) \div Page
PageOf(s, k) == SubSeq(s, (k - 1) * Page + 1, IF k * Page < Len(s) THEN k * Page ELSE Len(s))
-----------------------------------------------------------------------------
(* Requests *)

Caches(kind, versions, life) ==
  listing' = [kind |-> kind, versions |-> versions, until |-> dnsTime + life]

\* getDNSProvider: the row, its configuration and the factory of its client.
\* A client made from an unusable row is an error.
Begin(r, op, n) ==
  /\ dnsCall[r].pc = "idle"
  /\ op # "list"
  /\ \/ Becomes(r, [Idle EXCEPT !.pc = "calling", !.op = op, !.name = n, !.todo = Calls(op),
                                !.left = IF op = "batch" THEN Batch - 1 ELSE 0, !.since = dnsTime])
     \/ Becomes(r, [Idle EXCEPT !.pc = "answered", !.op = op, !.answer = "error"])
  /\ UNCHANGED <<provider, zone, made, ended, listing, dnsTime>>

\* Mutant: entries do not expire.
ForeverHit == listing.kind # "none"

Hit == listing.kind # "none" /\ dnsTime < listing.until

\* A cached listing is the answer, and so is the note of an error.
ListFromCache(r) ==
  /\ dnsCall[r].pc = "idle"
  /\ Hit
  /\ Becomes(r, [Idle EXCEPT !.pc = "answered", !.op = "list", !.got = listing.versions,
                             !.answer = IF listing.kind = "list" THEN "ok" ELSE "note",
                             !.at = dnsTime])
  /\ UNCHANGED <<provider, zone, made, ended, listing, dnsTime>>

\* A provider that cannot be loaded leaves the note of an error in the cache.
ListBegins(r) ==
  /\ dnsCall[r].pc = "idle"
  /\ ~ Hit
  /\ \/ /\ Becomes(r, [Idle EXCEPT !.pc = "calling", !.op = "list", !.todo = Calls("list"),
                                   !.since = dnsTime])
        /\ UNCHANGED listing
     \/ /\ Becomes(r, [Idle EXCEPT !.pc = "answered", !.op = "list", !.answer = "error"])
        /\ Caches("note", {}, 1)
  /\ UNCHANGED <<provider, zone, made, ended, dnsTime>>

\* A call to the provider fails, or its answer does not arrive.
CallFails(r) ==
  /\ Goes(r)
  /\ Head(dnsCall[r].todo) # "post"
  /\ IF dnsCall[r].op = "list" THEN Caches("note", {}, 1) ELSE UNCHANGED listing
  /\ Answers(r, "error")
  /\ UNCHANGED <<provider, zone, made, ended, dnsTime>>

FindZone(r) ==
  /\ Goes(r)
  /\ Head(dnsCall[r].todo) = "zone"
  /\ Becomes(r, Next1(r))
  /\ UNCHANGED <<provider, zone, made, ended, listing, dnsTime>>

\* The places in a list of records that have a name, and the first of them.
Named(s, n) == {i \in DOMAIN s : s[i].name = n}

\* Mutant: every record of the list, whatever its name.
AnyName(s, n) == DOMAIN s

First(found) == CHOOSE i \in found : \A j \in found : i <= j

FindRecord(r) ==
  /\ Goes(r)
  /\ Head(dnsCall[r].todo) = "find"
  /\ LET found == Named(zone, dnsCall[r].name) IN
       IF found = {} THEN Answers(r, "error")
       ELSE Becomes(r, [Next1(r) EXCEPT !.record = zone[First(found)].id])
  /\ UNCHANGED <<provider, zone, made, ended, listing, dnsTime>>

\* Among the pages collected the first record of the name is taken; the pages
\* are of different moments.
Collected(r) ==
  LET page == PageOf(zone, dnsCall[r].page + 1)
      found == Named(page, dnsCall[r].name)
  IN [dnsCall[r] EXCEPT
        !.got = @ \union VersionsOf(page), !.page = @ + 1,
        !.record = IF @ = None /\ found # {} THEN page[First(found)].id ELSE @]

LastPage(r) ==
  dnsCall[r].page + 1 >= Pages(zone) \/ PageOf(zone, dnsCall[r].page + 1) = <<>>

FetchPage(r) ==
  /\ Goes(r)
  /\ Head(dnsCall[r].todo) = "page"
  /\ IF ~ LastPage(r) THEN Becomes(r, Collected(r))
     ELSE IF dnsCall[r].op # "list" /\ Collected(r).record = None THEN Answers(r, "error")
     ELSE Becomes(r, [Collected(r) EXCEPT !.todo = Tail(@)])
  /\ UNCHANGED <<provider, zone, made, ended, listing, dnsTime>>

FetchFirst(r) ==
  /\ Goes(r)
  /\ Head(dnsCall[r].todo) = "first"
  /\ Becomes(r, [Next1(r) EXCEPT !.got = VersionsOf(PageOf(zone, 1))])
  /\ UNCHANGED <<provider, zone, made, ended, listing, dnsTime>>

StoreListing(r) ==
  /\ dnsCall[r].pc = "calling" /\ dnsCall[r].op = "list" /\ dnsCall[r].todo = <<>>
  /\ Caches("list", dnsCall[r].got, CacheLife)
  /\ Answers(r, "ok")
  /\ UNCHANGED <<provider, zone, made, ended, dnsTime>>

(* What the provider does with a request to change its zone. *)
Creates(n) ==
  /\ made < MaxVersions
  /\ made' = made + 1
  /\ zone' = Append(zone, [id |-> made + 1, name |-> n, version |-> made + 1])
  /\ UNCHANGED ended

Present(id) == \E i \in DOMAIN zone : zone[i].id = id

Updates(id) ==
  /\ made < MaxVersions
  /\ made' = made + 1
  /\ zone' = [i \in DOMAIN zone |->
                IF zone[i].id = id THEN [zone[i] EXCEPT !.version = made + 1] ELSE zone[i]]
  /\ ended' = Ends({zone[i].version : i \in {j \in DOMAIN zone : zone[j].id = id}})

Deletes(id) ==
  /\ \E i \in DOMAIN zone : zone[i].id = id /\ zone' = RemoveAt(zone, i)
  /\ ended' = Ends({zone[i].version : i \in {j \in DOMAIN zone : zone[j].id = id}})
  /\ UNCHANGED made

Takes(r) ==
  \/ dnsCall[r].op \in {"create", "batch"} /\ Creates(dnsCall[r].name)
  \/ dnsCall[r].op = "update" /\ Present(dnsCall[r].record) /\ Updates(dnsCall[r].record)
  \/ dnsCall[r].op = "delete" /\ Present(dnsCall[r].record) /\ Deletes(dnsCall[r].record)

\* The batch goes on with its next record, whether or not this one was made; its
\* answer is an error when one was not.
Proceeds(r, c, answer) ==
  LET sofar == IF c.answer = "error" THEN "error" ELSE answer IN
    IF c.left > 0
    THEN Becomes(r, [c EXCEPT !.left = @ - 1, !.todo = Calls("batch"), !.answer = sofar])
    ELSE Becomes(r, [Idle EXCEPT !.pc = "answered", !.op = c.op, !.done = c.done, !.answer = sofar])

\* The change is made, and the answer says so or is lost.
Post(r) ==
  /\ Goes(r)
  /\ Head(dnsCall[r].todo) = "post"
  /\ Takes(r)
  /\ \E answer \in {"ok", "error"} : Proceeds(r, [dnsCall[r] EXCEPT !.done = @ + 1], answer)
  /\ UNCHANGED <<provider, listing, dnsTime>>

\* The provider refuses, by the status of its answer (Cloudflare, Aliyun) or in
\* the body, which the other two clients read.
Refusal(r, answer) ==
  /\ Goes(r)
  /\ Head(dnsCall[r].todo) = "post"
  /\ Proceeds(r, dnsCall[r], answer)
  /\ UNCHANGED <<provider, zone, made, ended, listing, dnsTime>>

\* Mutant: the body is not read.
UnreadRefusal(r) == Refusal(r, IF provider \in {"tencentcloud", "westdns"} THEN "ok" ELSE "error")

Refused(r) == Refusal(r, "error")

Forget(r) ==
  /\ dnsCall[r].pc = "answered"
  /\ Becomes(r, Idle)
  /\ UNCHANGED <<provider, zone, made, ended, listing, dnsTime>>

\* A request lasts seconds: each that runs began in this period.
Tick ==
  /\ dnsTime < MaxTime
  /\ \A r \in Requests : dnsCall[r].pc = "calling" => dnsCall[r].since = dnsTime
  /\ dnsTime' = dnsTime + 1
  /\ UNCHANGED <<provider, zone, made, ended, listing, dnsCall>>

Next ==
  \/ \E r \in Requests :
       \/ \E op \in {"create", "update", "delete", "batch"}, n \in Names : Begin(r, op, n)
       \/ ListFromCache(r) \/ ListBegins(r) \/ CallFails(r) \/ FindZone(r) \/ FindRecord(r)
       \/ FetchPage(r) \/ FetchFirst(r) \/ StoreListing(r) \/ Post(r) \/ Refused(r) \/ Forget(r)
  \/ Tick

Spec == Init /\ [][Next]_vars
-----------------------------------------------------------------------------
TypeOK ==
  /\ provider \in DOMAIN Changes
  /\ \A i \in DOMAIN zone : zone[i].name \in Names /\ zone[i].version \in Versions
  /\ made \in 0..MaxVersions
  /\ ended \in [Versions -> 0..MaxTime \union {None}]
  /\ listing.kind \in {"none", "list", "note"} /\ listing.versions \subseteq Versions
  /\ dnsTime \in 0..MaxTime
  /\ \A r \in Requests : dnsCall[r].pc \in {"idle", "calling", "answered"}

\* No listing shows a record, or a value of it, that was gone longer than a
\* cached listing lives (and the request that filled the cache took), whatever
\* was changed meanwhile: changes leave the cache alone (DNSListRecords).
ListingsAreRecent ==
  \A r \in Requests :
    dnsCall[r].op = "list" /\ dnsCall[r].answer = "ok" =>
      \A v \in dnsCall[r].got :
        ended[v] = None \/ dnsCall[r].at <= ended[v] + CacheLife + 1

\* A request whose answer is a success made its change, a batch all of its records
\* (DNSCreateRecord, BatchDNS and the four clients).
SuccessIsMade ==
  \A r \in Requests :
    dnsCall[r].pc = "answered" /\ dnsCall[r].op # "list" /\ dnsCall[r].answer = "ok" =>
      dnsCall[r].done = IF dnsCall[r].op = "batch" THEN Batch ELSE 1

\* An update or a deletion that was asked for by name touches a record of that
\* name, also when the zone changed between the search and the change
\* (UpdateRecord, DeleteRecord of the four clients).
ChangesItsName ==
  \A r \in Requests :
    dnsCall[r].pc = "calling" /\ dnsCall[r].record # None =>
      \A i \in DOMAIN zone : zone[i].id = dnsCall[r].record => zone[i].name = dnsCall[r].name
=============================================================================
