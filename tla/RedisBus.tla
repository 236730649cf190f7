------------------------------ MODULE RedisBus ------------------------------
(***************************************************************************)
(* The event buses over Redis (internal/service/redis_eventbus.go and      *)
(* typed_eventbus_redis.go): every server instance publishes to its local  *)
(* bus and to a Redis channel, and every subscription merges the two.  The  *)
(* subscriptions of the typed bus drop what their own instance published   *)
(* to Redis; those of the deploy bus do not.  No lock is held over a       *)
(* publish: the goroutines of an instance publish next to each other.      *)
(***************************************************************************)
EXTENDS Naturals, Sequences, SequencesExt

CONSTANTS Instances, Publishers,
          At,           \* the instance a publisher, a goroutine, runs in
          Subscribers,  \* the instances a client is subscribed at, at most one each
          Capacity,     \* of a subscriber's channel (100 in the code)
          MaxEvents     \* bound: events one publisher publishes

BusAssumption ==
  /\ At \in [Publishers -> Instances]
  /\ Subscribers \subseteq Instances /\ Capacity \in Nat /\ MaxEvents \in Nat

VARIABLES skipOwn,    \* it is the typed bus
          published,  \* how many events each publisher has published
          publishing, \* the publishers between the Redis and the local half of Publish
          remote,     \* per subscription: what Redis has for it
          local,      \* per subscription: its channel of the local bus
          merged,     \* per subscription: the channel its reader holds
          merger,     \* per subscription: its goroutine and whether it was cancelled
          seen        \* per subscription: what its reader has received

vars == <<skipOwn, published, publishing, remote, local, merged, merger, seen>>

\* The n-th event of a publisher on the one topic; "via", the half of Publish that
\* brought it, is not part of the message.
Event == [from : Publishers, n : 1..MaxEvents, via : {"redis", "local"}]

Init ==
  /\ skipOwn \in BOOLEAN
  /\ published = [p \in Publishers |-> 0]
  /\ publishing = {}
  /\ remote = [i \in Subscribers |-> <<>>]
  /\ local = [i \in Subscribers |-> <<>>]
  /\ merged = [i \in Subscribers |-> <<>>]
  /\ merger = [i \in Subscribers |-> "off"]
  /\ seen = [i \in Subscribers |-> <<>>]

\* A plausible bug: the capacity is checked for one event too many.
OfferBeyond(ch, e) == IF Len(ch) <= Capacity THEN Append(ch, e) ELSE ch

\* A send that drops the event when the channel is full.
Offer(ch, e) == IF Len(ch) < Capacity THEN Append(ch, e) ELSE ch

\* Subscribe: to the Redis channel, then to the local bus.
Subscribe(i) ==
  /\ merger[i] \in {"off", "remote"}
  /\ merger' = [merger EXCEPT ![i] = IF @ = "off" THEN "remote" ELSE "on"]
  /\ UNCHANGED <<skipOwn, published, publishing, remote, local, merged, seen>>

Subscribed == {i \in Subscribers : merger[i] \in {"remote", "on"}}

\* Publish, first half: fire and forget to the Redis channel, which reaches any
\* of the instances that are subscribed, its own one included.
PublishRemote(p) ==
  LET e == [from |-> p, n |-> published[p] + 1, via |-> "redis"]
  IN /\ p \notin publishing /\ published[p] < MaxEvents
     /\ published' = [published EXCEPT ![p] = @ + 1]
     /\ publishing' = publishing \union {p}
     /\ \E reached \in SUBSET Subscribed :
          remote' = [j \in Subscribers |-> IF j \in reached THEN Append(remote[j], e) ELSE remote[j]]
     /\ UNCHANGED <<skipOwn, local, merged, merger, seen>>

\* Publish, second half: the local bus.
PublishLocal(p) ==
  LET i == At[p]
      e == [from |-> p, n |-> published[p], via |-> "local"]
  IN /\ p \in publishing
     /\ publishing' = publishing \ {p}
     /\ local' = IF i \in Subscribers /\ merger[i] = "on"
                 THEN [local EXCEPT ![i] = Offer(@, e)] ELSE local
     /\ UNCHANGED <<skipOwn, published, remote, merged, merger, seen>>

\* A plausible bug: what other instances published is dropped.
SkippedOthers(i, e) == skipOwn /\ At[e.from] # i

\* The loop prevention of the typed bus.
Skipped(i, e) == skipOwn /\ At[e.from] = i

\* The goroutine takes an event from Redis ...
MergeRemote(i) ==
  /\ merger[i] = "on" /\ remote[i] # <<>>
  /\ remote' = [remote EXCEPT ![i] = Tail(@)]
  /\ merged' = IF Skipped(i, Head(remote[i])) THEN merged
               ELSE [merged EXCEPT ![i] = Offer(@, Head(remote[i]))]
  /\ UNCHANGED <<skipOwn, published, publishing, local, merger, seen>>

\* ... or from the local bus, whichever select picks.
MergeLocal(i) ==
  /\ merger[i] = "on" /\ local[i] # <<>>
  /\ local' = [local EXCEPT ![i] = Tail(@)]
  /\ merged' = [merged EXCEPT ![i] = Offer(@, Head(local[i]))]
  /\ UNCHANGED <<skipOwn, published, publishing, remote, merger, seen>>

\* The subscriber's context ends, or the bus is closed: the goroutine closes the
\* merged channel, which keeps what it holds.
Stop(i) ==
  /\ merger[i] = "on"
  /\ merger' = [merger EXCEPT ![i] = "closed"]
  /\ remote' = [remote EXCEPT ![i] = <<>>]
  /\ local' = [local EXCEPT ![i] = <<>>]
  /\ UNCHANGED <<skipOwn, published, publishing, merged, seen>>

Read(i) ==
  /\ merged[i] # <<>>
  /\ seen' = [seen EXCEPT ![i] = Append(@, Head(merged[i]))]
  /\ merged' = [merged EXCEPT ![i] = Tail(@)]
  /\ UNCHANGED <<skipOwn, published, publishing, remote, local, merger>>

Next ==
  \/ \E p \in Publishers : PublishRemote(p) \/ PublishLocal(p)
  \/ \E i \in Subscribers :
       Subscribe(i) \/ MergeRemote(i) \/ MergeLocal(i) \/ Stop(i) \/ Read(i)

Spec == Init /\ [][Next]_vars
-----------------------------------------------------------------------------
TypeOK ==
  /\ skipOwn \in BOOLEAN
  /\ published \in [Publishers -> 0..MaxEvents]
  /\ publishing \subseteq Publishers
  /\ remote \in [Subscribers -> Seq(Event)]
  /\ local \in [Subscribers -> Seq(Event)]
  /\ merged \in [Subscribers -> Seq(Event)]
  /\ merger \in [Subscribers -> {"off", "remote", "on", "closed"}]
  /\ seen \in [Subscribers -> Seq(Event)]
  /\ \A i \in Subscribers : Len(local[i]) <= Capacity /\ Len(merged[i]) <= Capacity

\* A subscriber receives each event of a publisher at most once and in the order
\* of its publications, however the two channels are merged, whoever publishes next
\* to it and whatever is lost on the way.  Only on the deploy bus, which does not
\* skip what its own instance published, a subscriber gets such an event twice, and
\* the order holds on each of the two ways alone (redis_eventbus.go:67-81).
OnceAndInOrder ==
  \A i \in Subscribers : \A a, b \in 1..Len(seen[i]) :
    LET x == seen[i][a]
        y == seen[i][b]
    IN (a < b /\ x.from = y.from /\ (skipOwn \/ At[x.from] # i \/ x.via = y.via)) => x.n < y.n
=============================================================================
