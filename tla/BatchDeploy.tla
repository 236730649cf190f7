---------------------------- MODULE BatchDeploy ----------------------------
(***************************************************************************)
(* Deployments of several applications in one call:                        *)
(* internal/service/batch_deploy.go and its callers.  A strategy           *)
(* "sequential" or "rolling" takes one application after the other in the  *)
(* goroutine of the request (batches of rolling ones follow one another    *)
(* in the same loop); "parallel" starts a goroutine per application and    *)
(* waits for room in a semaphore before each.  What a single deployment    *)
(* does is Deployment's; here it ends well or not.  The context is the     *)
(* request's: it ends when the client leaves or the server's timeout comes.*)
(***************************************************************************)
EXTENDS Integers, FiniteSets, FiniteSetsExt

CONSTANTS Apps,        \* number of applications of the call
          MaxConcurrent, DefaultConcurrent,
          MaxPanics    \* bound on panics: Deploy publishes on a bus being closed

BatchAssumption == Apps \in Nat /\ MaxConcurrent \in Nat /\ DefaultConcurrent \in Nat \ {0}

VARIABLES call,     \* the request: strategy, index, limit, context, answer
          item,     \* what has become of each application
          results   \* the slots of the answer

vars == <<call, item, results>>

Indices == 1..Apps
Strategies == {"sequential", "parallel", "rolling"}

\* A value of the client that is not positive is replaced; an unknown strategy
\* is "sequential".
Limit(requested) == IF requested <= 0 THEN DefaultConcurrent ELSE requested

Init ==
  /\ call \in [pc : {"looping"}, strategy : Strategies, next : {1},
               limit : {Limit(n) : n \in 0..MaxConcurrent}, live : {TRUE}, panics : {0},
               success : {0}, failed : {0}]
  /\ item = [i \in Indices |-> "waiting"]
  /\ results = [i \in Indices |-> "empty"]

Deploying == {i \in Indices : item[i] = "deploying"}

\* A plausible bug: Acquire is called in the goroutine, after it was started.
NoWait == TRUE

\* The semaphore, whose holders are the goroutines that deploy.
Room == IF call.strategy = "parallel" THEN Cardinality(Deploying) < call.limit ELSE Deploying = {}

\* The next application.  Acquire fails as soon as the context has ended, the
\* other loops do not look at it.
Start ==
  /\ call.pc = "looping" /\ call.next \in Indices
  /\ call.strategy = "parallel" => call.live
  /\ Room
  /\ item' = [item EXCEPT ![call.next] = "deploying"]
  /\ call' = [call EXCEPT !.next = @ + 1]
  /\ UNCHANGED results

\* "context cancelled": the loop goes on and fills the other slots.
Skip ==
  /\ call.pc = "looping" /\ call.next \in Indices
  /\ call.strategy = "parallel" /\ ~call.live
  /\ results' = [results EXCEPT ![call.next] = "cancelled"]
  /\ call' = [call EXCEPT !.next = @ + 1]
  /\ UNCHANGED item

\* A plausible bug: the loop's variable is not copied for the goroutine.
LastSlot(i) == call.next - 1

\* The slot a goroutine writes is that of its own index.
Slot(i) == i

\* deploySingle.  A deployment whose context has ended may fail or may have
\* been beyond its last command.
Deployed(i) ==
  /\ item[i] = "deploying" /\ call.pc # "died"
  /\ \E outcome \in {"ok", "failed"} :
       /\ item' = [item EXCEPT ![i] = outcome]
       /\ results' = [results EXCEPT ![Slot(i)] = outcome]
  /\ UNCHANGED call

\* A panic ends the request, or, in a goroutine nobody recovers, the process.
Panic(i) ==
  /\ item[i] = "deploying" /\ call.pc # "died" /\ call.panics < MaxPanics
  /\ item' = [item EXCEPT ![i] = "failed"]
  /\ call' = [call EXCEPT !.pc = "died", !.panics = @ + 1]
  /\ UNCHANGED results

\* g.Wait, then the count.  The other loops end with their last application.
Answer ==
  /\ call.pc = "looping" /\ call.next > Apps /\ Deploying = {}
  /\ call' = [call EXCEPT !.pc = "answered",
       !.success = Quantify(Indices, LAMBDA i : results[i] = "ok"),
       !.failed = Quantify(Indices, LAMBDA i : results[i] # "ok")]
  /\ UNCHANGED <<item, results>>

ContextEnds ==
  /\ call.pc = "looping" /\ call.live
  /\ call' = [call EXCEPT !.live = FALSE]
  /\ UNCHANGED <<item, results>>

Next ==
  \/ Start \/ Skip \/ Answer \/ ContextEnds
  \/ \E i \in Indices : Deployed(i) \/ Panic(i)

Spec == Init /\ [][Next]_vars
-----------------------------------------------------------------------------
TypeOK ==
  /\ call.pc \in {"looping", "answered", "died"} /\ call.strategy \in Strategies
  /\ call.next \in 1..Apps + 1
  /\ item \in [Indices -> {"waiting", "deploying", "ok", "failed"}]
  /\ results \in [Indices -> {"empty", "ok", "failed", "cancelled"}]

\* At most MaxConcurrent applications are deployed at a time, and one at a time
\* where the strategy says so, in the order of the call.
ConcurrencyBounded ==
  /\ Cardinality(Deploying) <= IF call.strategy = "parallel" THEN call.limit ELSE 1
  /\ call.strategy # "parallel" =>
       \A i \in Deploying, j \in Indices : j < i => item[j] \in {"ok", "failed"}

\* An answer tells of each application what happened to it: none is still being
\* deployed, a cancelled one was not begun, and the counts make up the call.
AnswerTells ==
  call.pc = "answered" =>
    /\ \A i \in Indices :
         \/ results[i] = item[i] /\ item[i] \in {"ok", "failed"}
         \/ results[i] = "cancelled" /\ item[i] = "waiting"
    /\ call.success + call.failed = Apps
    /\ call.success = Cardinality({i \in Indices : item[i] = "ok"})
=============================================================================
