---------------------------- MODULE FeatureFlags ----------------------------
(***************************************************************************)
(* One feature flag and its override for one tenant, in the database, and  *)
(* the cache of every server (internal/service/feature_flag_service.go).   *)
(* Only the listings fill the cache, and with flags alone: an override is  *)
(* always read from the table.  A change invalidates the cache of the      *)
(* server that made it.  What the rows say is a revision number.           *)
(***************************************************************************)
EXTENDS Naturals

CONSTANTS Servers, Requests, HomeOf, None,
          MaxChanges   \* bound on the changes made

FlagAssumption == HomeOf \in [Requests -> Servers]

VARIABLES revision,    \* of the flag, counting the changes of its override
          overridden,  \* there is an override
          cache,       \* per server: the revision it holds, or None
          request,     \* per request
          settled,     \* per server: the latest revision a change made there answered for
          excused      \* per server: its cache may hold an older one

vars == <<revision, overridden, cache, request, settled, excused>>

Idle == [op |-> "idle", pc |-> "off", got |-> None, since |-> 0, late |-> FALSE, failed |-> FALSE]

Init ==
  /\ revision = 0
  /\ overridden = FALSE
  /\ cache = [s \in Servers |-> None]
  /\ request = [r \in Requests |-> Idle]
  /\ settled = [s \in Servers |-> 0]
  /\ excused = [s \in Servers |-> FALSE]

Set(r, record) == request' = [request EXCEPT ![r] = record]

\* A change is written: listings under way have read older rows, and caches of
\* other servers that hold the flag are not told.
Written(r) ==
  /\ revision < MaxChanges
  /\ revision' = revision + 1
  /\ request' = [q \in Requests |->
       IF q = r THEN [Idle EXCEPT !.op = "change", !.pc = "written", !.got = revision + 1]
       ELSE [request[q] EXCEPT !.late = @ \/ request[q].pc = "loaded"]]
  /\ excused' = [s \in Servers |-> excused[s] \/ (s # HomeOf[r] /\ cache[s] # None)]
  /\ UNCHANGED <<cache, settled>>

UpdateFeatureFlag(r) == request[r].op = "idle" /\ Written(r) /\ UNCHANGED overridden

SetFeatureFlagOverride(r) == request[r].op = "idle" /\ Written(r) /\ overridden' = TRUE

DeleteFeatureFlagOverride(r) ==
  request[r].op = "idle" /\ overridden /\ Written(r) /\ overridden' = FALSE

\* A plausible bug: the change does not touch the cache.
Leave(s) == cache' = cache /\ excused' = excused

Invalidate(s) == cache' = [cache EXCEPT ![s] = None] /\ excused' = [excused EXCEPT ![s] = FALSE]

\* The change invalidates the cache and answers.
Answer(r) ==
  LET s == HomeOf[r]
  IN  /\ request[r].pc = "written"
      /\ Invalidate(s)
      /\ settled' = [settled EXCEPT ![s] = IF @ < request[r].got THEN request[r].got ELSE @]
      /\ Set(r, Idle)
      /\ UNCHANGED <<revision, overridden>>
-----------------------------------------------------------------------------
(* ListFeatureFlags and GetFeatureFlagsForTenant load the table when the   *)
(* cache is empty or too old; what they evaluate then is an Evaluate.      *)

Load(r) ==
  /\ request[r].op = "idle" /\ cache[HomeOf[r]] = None
  /\ Set(r, [Idle EXCEPT !.op = "list", !.pc = "loaded", !.got = revision])
  /\ UNCHANGED <<revision, overridden, cache, settled, excused>>

Fill(r) ==
  /\ request[r].pc = "loaded"
  /\ cache' = [cache EXCEPT ![HomeOf[r]] = request[r].got]
  /\ excused' = [excused EXCEPT ![HomeOf[r]] = request[r].late]
  /\ Set(r, Idle)
  /\ UNCHANGED <<revision, overridden, settled>>

\* Five minutes.
Expire(s) ==
  /\ cache[s] # None
  /\ Invalidate(s)
  /\ UNCHANGED <<revision, overridden, request, settled>>
-----------------------------------------------------------------------------
(* EvaluateFeature *)

\* The override, for a tenant: it wins.  One that cannot be read counts as none.
LookUpOverride(r) ==
  /\ request[r].op = "idle"
  /\ LET asked == [Idle EXCEPT !.op = "evaluate", !.since = settled[HomeOf[r]]]
     IN  \/ overridden /\ Set(r, [asked EXCEPT !.pc = "answered", !.got = revision])
         \/ \E unread \in BOOLEAN : Set(r, [asked EXCEPT !.pc = "flag", !.failed = unread])
  /\ UNCHANGED <<revision, overridden, cache, settled, excused>>

\* The flag, from the cache or else from the table.  When the table cannot be read
\* the licence decides, as for a flag that does not exist.
LookUpFlag(r) ==
  LET s == HomeOf[r]
  IN  /\ request[r].pc = "flag"
      /\ \/ Set(r, [request[r] EXCEPT !.pc = "answered",
                                      !.got = IF cache[s] = None THEN revision ELSE cache[s],
                                      !.late = cache[s] # None /\ excused[s]])
         \/ cache[s] = None /\ Set(r, [request[r] EXCEPT !.pc = "answered", !.failed = TRUE])
      /\ UNCHANGED <<revision, overridden, cache, settled, excused>>

Return(r) ==
  /\ request[r].pc = "answered"
  /\ Set(r, Idle)
  /\ UNCHANGED <<revision, overridden, cache, settled, excused>>

Next ==
  \/ \E r \in Requests :
       \/ UpdateFeatureFlag(r) \/ SetFeatureFlagOverride(r) \/ DeleteFeatureFlagOverride(r) \/ Answer(r)
       \/ Load(r) \/ Fill(r)
       \/ LookUpOverride(r) \/ LookUpFlag(r) \/ Return(r)
  \/ \E s \in Servers : Expire(s)

Spec == Init /\ [][Next]_vars
-----------------------------------------------------------------------------
TypeOK ==
  /\ revision \in 0..MaxChanges /\ overridden \in BOOLEAN
  /\ cache \in [Servers -> 0..MaxChanges \union {None}]
  /\ request \in [Requests -> [op : {"idle", "change", "list", "evaluate"},
                               pc : {"off", "written", "loaded", "flag", "answered"},
                               got : 0..MaxChanges \union {None}, since : 0..MaxChanges,
                               late : BOOLEAN, failed : BOOLEAN]]
  /\ settled \in [Servers -> 0..MaxChanges]
  /\ excused \in [Servers -> BOOLEAN]

\* Once a change of a flag or of an override has been answered, an evaluation on
\* that server sees it, unless a table could not be read (the caller is not told)
\* or the cache is excused: it was filled meanwhile by a listing that had read the
\* table before the change, or the change was made on another server, and it holds
\* the old rows until they expire.  The licence decides only
\* when a read failed.
ChangesAreSeen ==
  \A r \in Requests : request[r].pc = "answered" =>
    \/ request[r].failed \/ request[r].late
    \/ request[r].got \in Nat /\ request[r].got >= request[r].since
=============================================================================
