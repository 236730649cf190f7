------------------------- MODULE Operations_proofs --------------------------
(***************************************************************************)
(* Proofs about the components of Platform that work on behalf of an       *)
(* installation: BatchDeploy, Trials, Webhooks, Uptime, AuditLog and       *)
(* DatabaseBackups.  Each has an inductive invariant, named for it.        *)
(***************************************************************************)
EXTENDS Platform, Integers, Sequences, FiniteSets, FiniteSetTheorems, TLAPS
-----------------------------------------------------------------------------
(***************************************************************************)
(* Batches of deployments.                                                 *)
(***************************************************************************)

\* The two names that FiniteSets has here are of one operator.
LEMMA BatchCardinality ==
  ASSUME NEW S
  PROVE  Batch!Cardinality(S) = Cardinality(S)
  BY DEF Batch!Cardinality, Cardinality

BatchCall ==
  [pc : {"looping", "answered", "died"}, strategy : Batch!Strategies, next : 1..Apps + 1, limit : Nat \ {0},
   live : BOOLEAN, panics : Int, success : Int, failed : Int]

BatchTypes ==
  /\ batch \in BatchCall
  /\ item \in [Batch!Indices -> {"waiting", "deploying", "ok", "failed"}]
  /\ slots \in [Batch!Indices -> {"empty", "ok", "failed", "cancelled"}]

\* What the loop has not come to is as it was.
Ahead == \A i \in Batch!Indices : i >= batch.next => item[i] = "waiting" /\ slots[i] = "empty"

\* What it has passed was begun, or skipped, which only the parallel one does; the
\* slot of an application is its own, and none is lost unless there was a panic.
Behind ==
  \A i \in Batch!Indices : i < batch.next =>
    /\ item[i] = "waiting" => slots[i] = "cancelled" /\ batch.strategy = "parallel"
    /\ slots[i] = "cancelled" => item[i] = "waiting"
    /\ item[i] \in {"ok", "failed"} /\ batch.pc # "died" => slots[i] = item[i]

\* The loops that take one after the other are at most one ahead.
OneAtATime == batch.strategy # "parallel" => \A i \in Batch!Deploying : i + 1 = batch.next

Counted ==
  batch.pc = "answered" =>
    /\ batch.next = Apps + 1 /\ Batch!Deploying = {}
    /\ batch.success = Cardinality({i \in Batch!Indices : slots[i] = "ok"})
    /\ batch.failed = Cardinality({i \in Batch!Indices : slots[i] # "ok"})

BatchInv ==
  /\ BatchTypes
  /\ Ahead /\ Behind /\ OneAtATime /\ Counted
  /\ batch.strategy = "parallel" => Cardinality(Batch!Deploying) <= batch.limit

LEMMA FiniteIndices ==
  ASSUME Batch!BatchAssumption, NEW S \in SUBSET Batch!Indices
  PROVE  IsFiniteSet(S) /\ Cardinality(S) \in Nat
  <1>1. IsFiniteSet(1..Apps)
    BY FS_Interval DEF Batch!BatchAssumption
  <1>2. IsFiniteSet(Batch!Indices)
    BY <1>1 DEF Batch!Indices
  <1>3. IsFiniteSet(S)
    BY <1>2, FS_Subset
  <1> QED
    BY <1>3, FS_CardinalityType

LEMMA BatchInitInv ==
  ASSUME Batch!BatchAssumption, Batch!Init
  PROVE  BatchInv
  <1> DEFINE L == {Batch!Limit(n) : n \in 0..MaxConcurrent}
             True == {TRUE}
             First == {1}
  <1>a. L \subseteq Nat \ {0} /\ 1 \in 1..Apps + 1
    BY DEF Batch!BatchAssumption, Batch!Limit
  <1>b. batch \in [pc : {"looping"}, strategy : Batch!Strategies, next : First, limit : L, live : True,
                   panics : {0}, success : {0}, failed : {0}]
    BY DEF Batch!Init
  <1> HIDE DEF L, True, First
  <1>c. batch \in [pc : {"looping", "answered", "died"}, strategy : Batch!Strategies, next : First,
                   limit : L, live : True, panics : Int, success : Int, failed : Int]
    BY <1>b
  <1>d. First \subseteq 1..Apps + 1 /\ True \subseteq BOOLEAN
    BY <1>a DEF First, True
  <1>1. /\ batch.pc = "looping" /\ batch.strategy \in Batch!Strategies /\ batch.next = 1
        /\ batch \in BatchCall
    BY <1>a, <1>b, <1>c, <1>d DEF BatchCall, First
  <1>2. \A i \in Batch!Indices : item[i] = "waiting" /\ slots[i] = "empty" /\ ~(i < 1)
    BY DEF Batch!Init, Batch!Indices
  <1>3. Batch!Deploying = {}
    BY <1>2 DEF Batch!Deploying
  <1>4. Cardinality(Batch!Deploying) <= batch.limit
    BY <1>1, <1>3, FS_EmptySet DEF BatchCall
  <1>5. BatchTypes
    BY <1>1 DEF BatchTypes, Batch!Init
  <1> QED
    BY <1>1, <1>2, <1>3, <1>4, <1>5 DEF BatchInv, Ahead, Behind, OneAtATime, Counted

LEMMA StartKeeps ==
  ASSUME Batch!BatchAssumption, BatchInv, Batch!Start
  PROVE  BatchInv'
  <1> DEFINE n == batch.next
             c == [batch EXCEPT !.next = @ + 1]
  <1>1. /\ batch.pc = "looping" /\ n \in Batch!Indices /\ Batch!Room
        /\ item' = [item EXCEPT ![n] = "deploying"] /\ batch' = c /\ slots' = slots
    BY DEF Batch!Start
  <1>2. n \in 1..Apps /\ Apps \in Nat /\ n + 1 \in 1..Apps + 1
    BY <1>1 DEF Batch!Indices, Batch!BatchAssumption
  <1>3. /\ c \in BatchCall /\ c.next = n + 1 /\ c.pc = batch.pc /\ c.strategy = batch.strategy
        /\ c.limit = batch.limit /\ c.limit \in Nat
    BY <1>2 DEF BatchInv, BatchTypes, BatchCall
  <1> HIDE DEF c
  <1>4. /\ item'[n] = "deploying" /\ \A i \in Batch!Indices : i # n => item'[i] = item[i]
        /\ BatchTypes'
    BY <1>1, <1>3 DEF BatchInv, BatchTypes
  <1>5. Ahead' /\ Behind'
    BY <1>1, <1>2, <1>3, <1>4 DEF BatchInv, Ahead, Behind, Batch!Indices
  <1>6. Batch!Deploying' = Batch!Deploying \union {n}
    BY <1>1, <1>4 DEF Batch!Deploying
  <1>7. OneAtATime'
    BY <1>1, <1>3, <1>6 DEF OneAtATime, Batch!Room
  <1>8. Counted'
    BY <1>1, <1>3 DEF Counted
  <1>9. batch'.strategy = "parallel" => Cardinality(Batch!Deploying') <= batch'.limit
    <2>1. Batch!Deploying \in SUBSET Batch!Indices
      BY DEF Batch!Deploying
    <2>2. Cardinality(Batch!Deploying') <= Cardinality(Batch!Deploying) + 1
      BY <1>6, <2>1, FiniteIndices, FS_AddElement
    <2>3. batch.strategy = "parallel" => Cardinality(Batch!Deploying) < batch.limit
      BY <1>1, BatchCardinality DEF Batch!Room
    <2>4. Batch!Deploying' \in SUBSET Batch!Indices
      BY <1>1, <1>6, <2>1
    <2> QED
      BY <1>1, <1>3, <2>1, <2>2, <2>3, <2>4, FiniteIndices
  <1> QED
    BY <1>4, <1>5, <1>7, <1>8, <1>9 DEF BatchInv

LEMMA SkipKeeps ==
  ASSUME Batch!BatchAssumption, BatchInv, Batch!Skip
  PROVE  BatchInv'
  <1> DEFINE n == batch.next
             c == [batch EXCEPT !.next = @ + 1]
  <1>1. /\ batch.pc = "looping" /\ n \in Batch!Indices /\ batch.strategy = "parallel"
        /\ slots' = [slots EXCEPT ![n] = "cancelled"] /\ batch' = c /\ item' = item
    BY DEF Batch!Skip
  <1>2. n \in 1..Apps /\ Apps \in Nat /\ n + 1 \in 1..Apps + 1
    BY <1>1 DEF Batch!Indices, Batch!BatchAssumption
  <1>3. /\ c \in BatchCall /\ c.next = n + 1 /\ c.pc = batch.pc /\ c.strategy = batch.strategy
        /\ c.limit = batch.limit
    BY <1>2 DEF BatchInv, BatchTypes, BatchCall
  <1> HIDE DEF c
  <1>4. /\ slots'[n] = "cancelled" /\ \A i \in Batch!Indices : i # n => slots'[i] = slots[i]
        /\ BatchTypes'
    BY <1>1, <1>3 DEF BatchInv, BatchTypes
  <1>5. Ahead' /\ Behind'
    BY <1>1, <1>2, <1>3, <1>4 DEF BatchInv, Ahead, Behind, Batch!Indices
  <1>6. Batch!Deploying' = Batch!Deploying
    BY <1>1 DEF Batch!Deploying
  <1> QED
    BY <1>1, <1>3, <1>4, <1>5, <1>6 DEF BatchInv, OneAtATime, Counted

\* An application ends, in a slot of its own or with a panic.
LEMMA EndsKeeps ==
  ASSUME Batch!BatchAssumption, BatchInv, NEW i \in Batch!Indices, Batch!Deployed(i) \/ Batch!Panic(i)
  PROVE  BatchInv'
  <1>1. /\ item[i] = "deploying" /\ batch.pc # "died"
        /\ \E end \in {"ok", "failed"} :
             /\ item' = [item EXCEPT ![i] = end]
             /\ \/ slots' = [slots EXCEPT ![i] = end] /\ batch' = batch
                \/ slots' = slots /\ batch' = [batch EXCEPT !.pc = "died", !.panics = @ + 1]
    BY DEF Batch!Deployed, Batch!Panic, Batch!Slot
  <1>2. /\ batch' \in BatchCall /\ batch'.next = batch.next /\ batch'.strategy = batch.strategy
        /\ batch'.limit = batch.limit /\ (batch'.pc = batch.pc \/ batch'.pc = "died")
    <2> DEFINE c == [batch EXCEPT !.pc = "died", !.panics = @ + 1]
    <2>1. /\ c \in BatchCall /\ c.next = batch.next /\ c.strategy = batch.strategy
          /\ c.limit = batch.limit /\ c.pc = "died"
      <3>1. batch \in BatchCall /\ batch.panics + 1 \in Int
        BY DEF BatchInv, BatchTypes, BatchCall
      <3> QED
        BY <3>1 DEF BatchCall
    <2>2. batch' = batch \/ batch' = c
      BY <1>1
    <2> HIDE DEF c
    <2> QED
      BY <2>1, <2>2 DEF BatchInv, BatchTypes
  <1>3. PICK end \in {"ok", "failed"} :
          /\ item'[i] = end /\ (slots'[i] = end \/ (slots'[i] = slots[i] /\ batch'.pc = "died"))
          /\ \A j \in Batch!Indices : j # i => item'[j] = item[j] /\ slots'[j] = slots[j]
    BY <1>1 DEF BatchInv, BatchTypes, BatchCall
  <1>4. BatchTypes'
    BY <1>1, <1>2 DEF BatchInv, BatchTypes
  <1>5. i < batch.next
    <2>1. ~(i >= batch.next)
      BY <1>1 DEF BatchInv, Ahead
    <2>2. i \in Int /\ batch.next \in Int
      BY DEF BatchInv, BatchTypes, BatchCall, Batch!Indices, Batch!BatchAssumption
    <2> QED
      BY <2>1, <2>2
  <1>6. Ahead' /\ Behind'
    <2>1. slots[i] # "cancelled"
      BY <1>1, <1>5 DEF BatchInv, Behind
    <2>2. \A j \in Batch!Indices : j >= batch.next => j # i
      BY <1>1 DEF BatchInv, Ahead
    <2>3. Ahead'
      BY <1>2, <1>3, <2>2 DEF BatchInv, Ahead
    <2>4. Behind'
      BY <1>1, <1>2, <1>3, <1>5, <2>1 DEF BatchInv, Behind
    <2> QED
      BY <2>3, <2>4
  <1>7. Batch!Deploying' \subseteq Batch!Deploying /\ Batch!Deploying \in SUBSET Batch!Indices
    BY <1>3 DEF Batch!Deploying
  <1>8. Counted' /\ OneAtATime'
    <2>1. batch.pc # "answered"
      BY <1>1 DEF BatchInv, Counted, Batch!Deploying
    <2> QED
      BY <1>2, <1>7, <2>1 DEF BatchInv, Counted, OneAtATime
  <1>9. Cardinality(Batch!Deploying') <= Cardinality(Batch!Deploying)
    BY <1>7, FiniteIndices, FS_Subset
  <1>10. batch'.strategy = "parallel" => Cardinality(Batch!Deploying') <= batch'.limit
    <2>1. Cardinality(Batch!Deploying') \in Nat /\ Cardinality(Batch!Deploying) \in Nat
      BY <1>7, FiniteIndices
    <2>2. batch.limit \in Nat
      BY DEF BatchInv, BatchTypes, BatchCall
    <2> QED
      BY <1>2, <1>9, <2>1, <2>2 DEF BatchInv
  <1> QED
    BY <1>4, <1>6, <1>8, <1>10 DEF BatchInv

LEMMA AnswerKeeps ==
  ASSUME Batch!BatchAssumption, BatchInv, Batch!Answer
  PROVE  BatchInv'
  <1> DEFINE s == Cardinality({i \in Batch!Indices : slots[i] = "ok"})
             f == Cardinality({i \in Batch!Indices : slots[i] # "ok"})
             c == [batch EXCEPT !.pc = "answered", !.success = s, !.failed = f]
  <1>1. /\ batch.next > Apps /\ Batch!Deploying = {} /\ item' = item /\ slots' = slots
        /\ batch' = c /\ batch.pc = "looping"
    BY BatchCardinality DEF Batch!Answer, Batch!Quantify
  <1>2. s \in Int /\ f \in Int
    BY FiniteIndices
  <1>3. Batch!Deploying' = Batch!Deploying
    BY <1>1 DEF Batch!Deploying
  <1>4. batch.next = Apps + 1
    BY <1>1 DEF BatchInv, BatchTypes, BatchCall, Batch!BatchAssumption
  <1>5. s' = s /\ f' = f
    BY <1>1
  <1> HIDE DEF s, f
  <1>6. /\ c \in BatchCall /\ c.next = batch.next /\ c.strategy = batch.strategy
        /\ c.limit = batch.limit /\ c.pc = "answered" /\ c.success = s /\ c.failed = f
    BY <1>2 DEF BatchInv, BatchTypes, BatchCall
  <1> HIDE DEF c
  <1>7. Counted'
    BY <1>1, <1>3, <1>4, <1>5, <1>6 DEF Counted, s, f
  <1> QED
    BY <1>1, <1>3, <1>6, <1>7 DEF BatchInv, BatchTypes, Ahead, Behind, OneAtATime

LEMMA ContextEndsKeeps ==
  ASSUME BatchInv, Batch!ContextEnds
  PROVE  BatchInv'
  <1> DEFINE c == [batch EXCEPT !.live = FALSE]
  <1>1. batch' = c /\ item' = item /\ slots' = slots /\ batch.pc = "looping"
    BY DEF Batch!ContextEnds
  <1>2. /\ c \in BatchCall /\ c.next = batch.next /\ c.strategy = batch.strategy
        /\ c.limit = batch.limit /\ c.pc = batch.pc
    BY DEF BatchInv, BatchTypes, BatchCall
  <1> HIDE DEF c
  <1>3. Batch!Deploying' = Batch!Deploying
    BY <1>1 DEF Batch!Deploying
  <1> QED
    BY <1>1, <1>2, <1>3 DEF BatchInv, BatchTypes, Ahead, Behind, OneAtATime, Counted

LEMMA BatchNextInv ==
  ASSUME Batch!BatchAssumption, BatchInv, [Batch!Next]_(Batch!vars)
  PROVE  BatchInv'
  <1>1. CASE UNCHANGED Batch!vars
    BY <1>1 DEF Batch!vars, BatchInv, BatchTypes, Ahead, Behind, OneAtATime, Counted, Batch!Deploying
  <1> QED
    BY <1>1, StartKeeps, SkipKeeps, EndsKeeps, AnswerKeeps, ContextEndsKeeps DEF Batch!Next

\* The inductive invariant of a batch (batch_deploy.go): the loop has begun or skipped
\* what it has passed and nothing else, and an outcome is in the slot of its application.
THEOREM BatchInvariance == Batch!Spec => []BatchInv
  <1>1. Batch!Init => BatchInv
    BY BatchInitInv, PlatformAssumption
  <1>2. BatchInv /\ [Batch!Next]_(Batch!vars) => BatchInv'
    BY BatchNextInv, PlatformAssumption
  <1> QED
    BY <1>1, <1>2, PTL DEF Batch!Spec

LEMMA BatchInvHolds ==
  ASSUME Batch!BatchAssumption, BatchInv
  PROVE  BatchHolds
  <1>1. Batch!ConcurrencyBounded
    <2>1. Batch!Deploying \in SUBSET Batch!Indices /\ Batch!Indices \subseteq Int /\ batch.next \in Int
      BY DEF Batch!Deploying, Batch!Indices, BatchInv, BatchTypes, BatchCall, Batch!BatchAssumption
    <2>2. batch.strategy # "parallel" => Cardinality(Batch!Deploying) <= 1
      <3>1. SUFFICES ASSUME batch.strategy # "parallel" PROVE Cardinality(Batch!Deploying) <= 1
        OBVIOUS
      <3>2. Batch!Deploying \in SUBSET {batch.next - 1}
        BY <2>1, <3>1 DEF BatchInv, OneAtATime
      <3>3. IsFiniteSet({batch.next - 1}) /\ Cardinality({batch.next - 1}) = 1
        BY FS_Singleton
      <3>4. Cardinality(Batch!Deploying) <= Cardinality({batch.next - 1})
        BY <3>2, <3>3, FS_Subset
      <3> QED
        BY <3>3, <3>4
    <2>3. batch.strategy # "parallel" =>
            \A i \in Batch!Deploying, j \in Batch!Indices : j < i => item[j] \in {"ok", "failed"}
      <3>1. SUFFICES ASSUME batch.strategy # "parallel", NEW i \in Batch!Deploying, NEW j \in Batch!Indices,
                            j < i
                     PROVE  item[j] \in {"ok", "failed"}
        OBVIOUS
      <3>2. i + 1 = batch.next /\ i \in Int /\ j \in Int
        BY <2>1, <3>1 DEF BatchInv, OneAtATime
      <3>3. j < batch.next /\ j + 1 # batch.next
        BY <3>1, <3>2
      <3>4. item[j] # "waiting" /\ item[j] # "deploying"
        BY <3>1, <3>3 DEF BatchInv, Behind, OneAtATime, Batch!Deploying
      <3> QED
        BY <3>4 DEF BatchInv, BatchTypes
    <2> QED
      BY <2>2, <2>3, BatchCardinality DEF BatchInv, Batch!ConcurrencyBounded
  <1>2. Batch!AnswerTells
    <2>1. SUFFICES ASSUME batch.pc = "answered"
                   PROVE  /\ \A i \in Batch!Indices : \/ slots[i] = item[i] /\ item[i] \in {"ok", "failed"}
                                                      \/ slots[i] = "cancelled" /\ item[i] = "waiting"
                          /\ batch.success + batch.failed = Apps
                          /\ batch.success = Cardinality({i \in Batch!Indices : item[i] = "ok"})
      BY BatchCardinality DEF Batch!AnswerTells
    <2>2. \A i \in Batch!Indices : i < batch.next /\ item[i] # "deploying"
      BY <2>1 DEF BatchInv, Counted, Batch!Deploying, Batch!Indices, Batch!BatchAssumption
    <2>3. \A i \in Batch!Indices : \/ slots[i] = item[i] /\ item[i] \in {"ok", "failed"}
                                   \/ slots[i] = "cancelled" /\ item[i] = "waiting"
      BY <2>1, <2>2 DEF BatchInv, BatchTypes, Behind
    <2> DEFINE A == {i \in Batch!Indices : slots[i] = "ok"}
               B == {i \in Batch!Indices : slots[i] # "ok"}
    <2>4. batch.success = Cardinality(A) /\ batch.failed = Cardinality(B)
      BY <2>1 DEF BatchInv, Counted
    <2>5. {i \in Batch!Indices : item[i] = "ok"} = A
      BY <2>3
    <2>6. Cardinality(A) + Cardinality(B) = Apps
      <3>1. A \union B = Batch!Indices /\ A \intersect B = {}
        OBVIOUS
      <3>2. IsFiniteSet(A) /\ IsFiniteSet(B) /\ Cardinality(A) \in Nat /\ Cardinality(B) \in Nat
        BY FiniteIndices
      <3> HIDE DEF A, B
      <3>3. Cardinality(A \union B) = Cardinality(A) + Cardinality(B) - Cardinality(A \intersect B)
        BY <3>2, FS_Union
      <3>4. Cardinality(Batch!Indices) = Apps
        BY FS_Interval DEF Batch!Indices, Batch!BatchAssumption
      <3> QED
        BY <3>1, <3>2, <3>3, <3>4, FS_EmptySet
    <2> QED
      BY <2>3, <2>4, <2>5, <2>6
  <1> QED
    BY <1>1, <1>2 DEF BatchHolds

\* For any number of applications and any limits: no more applications are deployed
\* at a time than the strategy and the limit allow, and an answer tells of each what
\* happened to it.
THEOREM BatchHoldsCorrect == Batch!Spec => []BatchHolds
  <1>1. BatchInv => BatchHolds
    BY BatchInvHolds, PlatformAssumption
  <1> QED
    BY <1>1, BatchInvariance, PTL
-----------------------------------------------------------------------------
(***************************************************************************)
(* Trials.                                                                 *)
(***************************************************************************)
TrialRow ==
  [status : {"none", "active", "extended", "expired", "converted"}, started : Int, expires : Int, extended : Int]

TrialTypes ==
  /\ trialTime \in Int
  /\ trial \in TrialRow
  /\ extension \in [Actors -> [pc : {"idle", "found"}, read : TrialRow, days : Int]]
  /\ overwritten \in BOOLEAN

\* What an extension has read was neither missing nor converted.
ReadsOpenTrials ==
  \A h \in Actors : extension[h].pc = "found" => extension[h].read.status \notin {"none", "converted"}

\* The days it has read are not more than were granted then, and no fewer are granted now.
ReadsGrantedDays ==
  \A h \in Actors : extension[h].pc = "found" =>
    /\ trial.status # "none" /\ extension[h].days >= 0
    /\ extension[h].read.expires <= trial.started + OriginalDays + extension[h].read.extended
    /\ extension[h].read.extended <= trial.extended

TrialInv ==
  /\ TrialTypes
  /\ ReadsOpenTrials
  /\ ReadsGrantedDays
  /\ trial.status = "expired" => trialTime > trial.expires
  /\ Trial!DaysAddUp

LEMMA NoTrialIsRow == Trial!NoTrial \in TrialRow /\ Trial!NoTrial.status = "none" /\ Trial!Idle.pc = "idle"
                      /\ Trial!Idle \in [pc : {"idle", "found"}, read : TrialRow, days : Int]
  BY DEF Trial!NoTrial, Trial!Idle, TrialRow

LEMMA TrialInitInv ==
  ASSUME Trial!Init
  PROVE  TrialInv
  <1>1. /\ trialTime = 1 /\ trial = Trial!NoTrial /\ overwritten = FALSE
        /\ extension = [h \in Actors |-> Trial!Idle]
    BY DEF Trial!Init
  <1>2. TrialTypes /\ ReadsOpenTrials /\ ReadsGrantedDays
    <2>1. trialTime \in Int
      BY <1>1
    <2>3. trial \in TrialRow
      BY <1>1, NoTrialIsRow
    <2>4. overwritten \in BOOLEAN
      BY <1>1
    <2>5. \A h \in Actors : extension[h] = Trial!Idle
      BY <1>1
    <2>2. extension \in [Actors -> [pc : {"idle", "found"}, read : TrialRow, days : Int]]
      BY <1>1, NoTrialIsRow
    <2> QED
      BY <2>1, <2>2, <2>3, <2>4, <2>5, NoTrialIsRow DEF TrialTypes, ReadsOpenTrials, ReadsGrantedDays
  <1> QED
    BY <1>1, <1>2, NoTrialIsRow DEF TrialInv, Trial!DaysAddUp

LEMMA TrialStartKeeps ==
  ASSUME Trial!TrialAssumption, TrialInv, Trial!Start
  PROVE  TrialInv'
  <1> USE DEF Trial!TrialAssumption
  <1>1. /\ trialTime' = trialTime /\ overwritten' = overwritten
        /\ extension' = [h \in Actors |-> Trial!Idle]
        /\ \/ trial' = trial
           \/ /\ trial = Trial!NoTrial
              /\ trial' = [status |-> "active", started |-> trialTime,
                           expires |-> trialTime + OriginalDays, extended |-> 0]
           \/ /\ trial.status = "active" /\ trialTime > trial.expires
              /\ trial' = [trial EXCEPT !.status = "expired"]
    BY DEF Trial!Start
  <1>2. extension' \in [Actors -> [pc : {"idle", "found"}, read : TrialRow, days : Int]]
        /\ ReadsOpenTrials' /\ ReadsGrantedDays'
    BY <1>1, NoTrialIsRow DEF ReadsOpenTrials, ReadsGrantedDays
  <1>3. /\ trial' \in TrialRow
        /\ trial'.status = "expired" => trialTime > trial'.expires
        /\ \/ trial'.status = "none" /\ trial.status = "none"
           \/ /\ trial'.started = trial.started /\ trial'.expires = trial.expires
              /\ trial'.extended = trial.extended /\ trial.status # "none"
           \/ trial'.expires - trial'.started = OriginalDays + trial'.extended
    BY <1>1 DEF TrialInv, TrialTypes, TrialRow
  <1>4. TrialTypes'
    BY <1>1, <1>2, <1>3 DEF TrialInv, TrialTypes
  <1>5. trial'.started \in Int /\ trial'.expires \in Int /\ trial'.extended \in Int
    BY <1>3 DEF TrialRow
  <1>6. Trial!DaysAddUp'
    BY <1>1, <1>3, <1>5 DEF TrialInv, Trial!DaysAddUp
  <1> QED
    BY <1>1, <1>2, <1>3, <1>4, <1>6 DEF TrialInv

LEMMA ExtensionKeeps ==
  ASSUME Trial!TrialAssumption, TrialInv, NEW h \in Actors,
         Trial!Find(h) \/ Trial!ExtendTrial(h) \/ Trial!ExtendFails(h)
  PROVE  TrialInv'
  <1> USE DEF Trial!TrialAssumption
  <1>1. CASE Trial!Find(h)
    <2>1. PICK days \in 1..MaxDays :
            extension' = [extension EXCEPT ![h] = [pc |-> "found", read |-> trial, days |-> days]]
      BY <1>1 DEF Trial!Find
    <2>2. /\ trial.status \notin {"none", "converted"} /\ trial' = trial /\ trialTime' = trialTime
          /\ overwritten' = overwritten
      BY <1>1 DEF Trial!Find
    <2>3. TrialTypes' /\ ReadsOpenTrials'
      BY <2>1, <2>2 DEF TrialInv, TrialTypes, ReadsOpenTrials
    <2>4. ReadsGrantedDays'
      <3>1. trial.expires <= trial.started + OriginalDays + trial.extended
        BY <2>2 DEF TrialInv, TrialTypes, TrialRow, Trial!DaysAddUp
      <3>2. extension'[h] = [pc |-> "found", read |-> trial, days |-> days] /\ days >= 0
            /\ \A g \in Actors \ {h} : extension'[g] = extension[g]
        BY <2>1 DEF TrialInv, TrialTypes
      <3>3. trial.extended \in Int
        BY DEF TrialInv, TrialTypes, TrialRow
      <3> QED
        BY <2>2, <3>1, <3>2, <3>3 DEF TrialInv, ReadsGrantedDays
    <2> QED
      BY <2>2, <2>3, <2>4 DEF TrialInv, Trial!DaysAddUp
  <1>2. CASE Trial!ExtendTrial(h)
    <2> DEFINE r == extension[h].read
               d == extension[h].days
               t == [trial EXCEPT !.status = "extended", !.expires = r.expires + d, !.extended = @ + d]
    <2>1. /\ extension[h].pc = "found" /\ trial' = t /\ trialTime' = trialTime
          /\ overwritten' = (overwritten \/ trial # r)
          /\ extension' = [extension EXCEPT ![h] = Trial!Idle]
      BY <1>2 DEF Trial!ExtendTrial, Trial!NewExpiry
    <2>2. r \in TrialRow /\ d \in Int /\ trial \in TrialRow /\ r.status \notin {"none", "converted"}
      BY <2>1 DEF TrialInv, TrialTypes, ReadsOpenTrials
    <2>3. /\ t \in TrialRow /\ t.status = "extended" /\ t.started = trial.started
          /\ t.expires = r.expires + d /\ t.extended = trial.extended + d
      <3>1. r.expires + d \in Int /\ trial.extended + d \in Int
        BY <2>2 DEF TrialRow
      <3> QED
        BY <2>2, <3>1 DEF TrialRow
    <2> HIDE DEF t
    <2>4. TrialTypes' /\ ReadsOpenTrials'
      BY <2>1, <2>3, NoTrialIsRow DEF TrialInv, TrialTypes, ReadsOpenTrials
    <2>5. Trial!DaysAddUp'
      <3>1. t.expires - t.started <= OriginalDays + t.extended
        <4>1. r.expires <= trial.started + OriginalDays + r.extended /\ r.extended <= trial.extended
          BY <2>1 DEF TrialInv, ReadsGrantedDays
        <4> QED
          BY <2>2, <2>3, <4>1 DEF TrialRow
      <3>2. ASSUME ~overwritten, trial = r
            PROVE  t.expires - t.started = OriginalDays + t.extended
        <4>1. trial.expires - trial.started = OriginalDays + trial.extended
          BY <2>2, <3>2 DEF TrialInv, Trial!DaysAddUp
        <4> QED
          BY <2>2, <2>3, <3>2, <4>1 DEF TrialRow
      <3> QED
        BY <2>1, <3>1, <3>2 DEF Trial!DaysAddUp
    <2>6. ReadsGrantedDays'
      <3>1. \A g \in Actors : extension'[g].pc = "found" => extension'[g] = extension[g]
        BY <2>1, NoTrialIsRow DEF TrialInv, TrialTypes
      <3>2. \A g \in Actors : extension[g].read.extended \in Int
        BY DEF TrialInv, TrialTypes, TrialRow
      <3>3. d >= 0
        BY <2>1 DEF TrialInv, ReadsGrantedDays
      <3>4. \A x \in Int : x <= trial.extended => x <= trial.extended + d
        BY <2>2, <3>3 DEF TrialRow
      <3> QED
        BY <2>1, <2>3, <3>1, <3>2, <3>4 DEF TrialInv, ReadsGrantedDays
    <2> QED
      BY <2>1, <2>3, <2>4, <2>5, <2>6 DEF TrialInv
  <1>3. CASE Trial!ExtendFails(h)
    <2>1. /\ extension' = [extension EXCEPT ![h] = Trial!Idle]
          /\ trial' = trial /\ trialTime' = trialTime /\ overwritten' = overwritten
      BY <1>3 DEF Trial!ExtendFails
    <2>2. TrialTypes' /\ ReadsOpenTrials' /\ ReadsGrantedDays'
      BY <2>1, NoTrialIsRow DEF TrialInv, TrialTypes, ReadsOpenTrials, ReadsGrantedDays
    <2> QED
      BY <2>1, <2>2 DEF TrialInv, Trial!DaysAddUp
  <1> QED
    BY <1>1, <1>2, <1>3

LEMMA ActivateOrTickKeeps ==
  ASSUME TrialInv,
         \/ Trial!ActivateWithKey \/ Trial!ActivateCommunity \/ Trial!Deactivate \/ Trial!Tick
         \/ UNCHANGED Trial!vars
  PROVE  TrialInv'
  <1>1. CASE Trial!ActivateWithKey \/ Trial!ActivateCommunity \/ Trial!Deactivate
    <2>1. /\ trialTime' = trialTime /\ extension' = extension /\ overwritten' = overwritten
          /\ \/ trial' = trial
             \/ trial.status # "none" /\ trial' = [trial EXCEPT !.status = "converted"]
      BY <1>1 DEF Trial!ActivateWithKey, Trial!ActivateCommunity, Trial!Deactivate, Trial!Converted
    <2>2. TrialTypes' /\ ReadsOpenTrials'
      BY <2>1 DEF TrialInv, TrialTypes, ReadsOpenTrials, TrialRow
    <2>3. /\ trial'.status = "expired" => trial' = trial
          /\ trial'.status # "none" <=> trial.status # "none"
          /\ trial'.started = trial.started /\ trial'.expires = trial.expires /\ trial'.extended = trial.extended
      BY <2>1 DEF TrialInv, TrialTypes, TrialRow
    <2>4. ReadsGrantedDays'
      BY <2>1, <2>3 DEF TrialInv, ReadsGrantedDays
    <2> QED
      BY <2>1, <2>2, <2>3, <2>4 DEF TrialInv, Trial!DaysAddUp
  <1>2. CASE Trial!Tick
    <2>1. /\ trialTime' = trialTime + 1 /\ trial' = trial /\ extension' = extension
          /\ overwritten' = overwritten
      BY <1>2 DEF Trial!Tick
    <2>2. TrialTypes' /\ ReadsOpenTrials' /\ ReadsGrantedDays'
      BY <2>1 DEF TrialInv, TrialTypes, ReadsOpenTrials, ReadsGrantedDays
    <2>3. trialTime \in Int /\ trial.expires \in Int
      BY DEF TrialInv, TrialTypes, TrialRow
    <2> QED
      BY <2>1, <2>2, <2>3 DEF TrialInv, Trial!DaysAddUp
  <1>3. CASE UNCHANGED Trial!vars
    BY <1>3 DEF Trial!vars, TrialInv, TrialTypes, ReadsOpenTrials, ReadsGrantedDays, Trial!DaysAddUp
  <1> QED
    BY <1>1, <1>2, <1>3

LEMMA TrialStepKeeps ==
  ASSUME Trial!TrialAssumption, TrialInv, [Trial!Next]_(Trial!vars)
  PROVE  TrialInv'
  BY TrialStartKeeps, ExtensionKeeps, ActivateOrTickKeeps DEF Trial!Next

\* The inductive invariant of the trial: an extension has read a row that was there,
\* not converted, and had no more days than were granted; and a row is marked as
\* expired only after its end.
THEOREM TrialInvariance == Trial!Spec => []TrialInv
  <1>1. Trial!Init => TrialInv
    BY TrialInitInv
  <1>2. TrialInv /\ [Trial!Next]_(Trial!vars) => TrialInv'
    BY TrialStepKeeps, PlatformAssumption
  <1> QED
    BY <1>1, <1>2, PTL DEF Trial!Spec

\* For any days of a trial and of its extensions: an installation is shown as
\* read-only only when its licence or its days are over, and a trial has no more days
\* than were granted, however extensions overlap, and no fewer unless they do.
THEOREM TrialsHoldCorrect == Trial!Spec => []TrialsHold
  <1>1. TrialInv => TrialsHold
    BY DEF TrialInv, TrialsHold, Trial!ReadOnlyIsDue, Trial!ReadOnly, Trial!IsTrialExpired
  <1> QED
    BY <1>1, TrialInvariance, PTL

\* A converted trial stays converted, unless an extension had read it before.
THEOREM ConvertedStaysCorrect == Trial!Spec => ConvertedStays
  <1>1. TrialInv /\ [Trial!Next]_(Trial!vars) => [Trial!ConvertedStays]_trialVars
    <2>1. SUFFICES ASSUME TrialInv, trial.status = "converted", trial'.status # "converted",
                          [Trial!Next]_(Trial!vars)
                   PROVE  overwritten'
      BY DEF Trial!ConvertedStays
    <2>2. ~Trial!Start
      BY <2>1, NoTrialIsRow DEF Trial!Start, TrialInv, TrialTypes, TrialRow
    <2>3. /\ ~Trial!ActivateWithKey /\ ~Trial!ActivateCommunity /\ ~Trial!Deactivate
          /\ ~Trial!Tick /\ ~UNCHANGED Trial!vars
      BY <2>1 DEF Trial!ActivateWithKey, Trial!ActivateCommunity, Trial!Deactivate, Trial!Converted, Trial!Tick, Trial!vars, TrialInv, TrialTypes, TrialRow
    <2>4. PICK h \in Actors : Trial!ExtendTrial(h)
      BY <2>1, <2>2, <2>3 DEF Trial!Next, Trial!Find, Trial!ExtendFails
    <2>5. extension[h].pc = "found" /\ (trial # extension[h].read => overwritten')
      BY <2>4 DEF Trial!ExtendTrial
    <2>6. extension[h].read.status # "converted"
      BY <2>1, <2>5 DEF TrialInv, ReadsOpenTrials
    <2> QED
      BY <2>1, <2>5, <2>6
  <1>2. [][Trial!ConvertedStays]_trialVars <=> ConvertedStays
    BY PTL DEF ConvertedStays
  <1> QED
    BY <1>1, <1>2, TrialInvariance, PTL DEF Trial!Spec
-----------------------------------------------------------------------------
(***************************************************************************)
(* Webhooks.                                                               *)
(***************************************************************************)
HookRow == [present : BOOLEAN, config : Int, enabled : BOOLEAN, last : {"", "success", "failed"}]

Delivery ==
  [pc : {"off", "queued", "posted", "recorded", "waiting", "done"}, copy : HookRow \union {None},
   posts : Int, ok : BOOLEAN, lost : BOOLEAN]

Record == [attempt : Int, success : BOOLEAN]

SameSetting(r, s) == r.present = s.present /\ r.config = s.config /\ r.enabled = s.enabled

WebhookTypes ==
  /\ hook \in HookRow /\ edits \in Int /\ delivery \in [Actors -> Delivery]
  /\ record \in [Actors -> Record \union {None}]
  /\ serving \in BOOLEAN /\ disturbed \in BOOLEAN
  /\ \A e \in Actors : delivery[e].pc # "off" => delivery[e].copy \in HookRow

\* What a delivery has copied is the setting of the webhook, until that is changed
\* under it.
CopiesAgree ==
  ~disturbed => \A e \in Actors : delivery[e].pc \notin {"off", "done"} => SameSetting(delivery[e].copy, hook)

Recorded(e) == record[e] = [attempt |-> delivery[e].posts, success |-> delivery[e].ok]

LastPost == IF WebhookRetries = 0 THEN 1 ELSE WebhookRetries

\* What is known of a delivery at each of its steps.
Tells(e) ==
  LET d == delivery[e]
  IN  /\ d.pc \in {"off", "queued"} => d.posts = 0 /\ record[e] = None
      /\ d.pc \in {"posted", "recorded", "waiting"} => 1 <= d.posts /\ d.posts <= LastPost
      /\ d.pc = "waiting" => ~d.ok /\ d.posts < WebhookRetries
      /\ d.pc \in {"posted", "waiting"} => (record[e] = None \/ ~record[e].success)
      /\ d.pc \in {"recorded", "waiting", "done"} /\ d.posts > 0 =>
           /\ ~d.lost => Recorded(e)
           /\ record[e] = None \/ ~record[e].success \/ Recorded(e)
      /\ d.pc = "done" /\ d.posts > 0 /\ serving => d.ok \/ d.posts = LastPost

WebhookInv ==
  /\ WebhookTypes
  /\ Webhook!ChangesStand /\ CopiesAgree
  /\ \A e \in Actors : Tells(e)

LEMMA WebhookInitInv ==
  ASSUME Webhook!Init
  PROVE  WebhookInv
  <1> DEFINE r == [present |-> TRUE, config |-> 0, enabled |-> TRUE, last |-> ""]
  <1>1. r \in HookRow
    BY DEF HookRow
  <1> HIDE DEF r
  <1>2. /\ Webhook!Off \in Delivery /\ Webhook!Off.pc = "off" /\ Webhook!Off.posts = 0
    BY DEF Webhook!Off, Delivery
  <1>3. \A e \in Actors : delivery[e] = Webhook!Off /\ record[e] = None
    BY DEF Webhook!Init
  <1>4. delivery \in [Actors -> Delivery]
    BY <1>2 DEF Webhook!Init
  <1>5. serving \in BOOLEAN /\ disturbed \in BOOLEAN
    BY DEF Webhook!Init
  <1>a. edits \in Int /\ record \in [Actors -> Record \union {None}]
    <2>1. edits = 0 /\ record = [e \in Actors |-> None]
      BY DEF Webhook!Init
    <2> QED
      BY <2>1
  <1>b. hook \in HookRow
    BY <1>1 DEF Webhook!Init, r
  <1>6. WebhookTypes
    BY <1>a, <1>b, <1>2, <1>3, <1>4, <1>5 DEF WebhookTypes
  <1>7. CopiesAgree
    BY <1>2, <1>3 DEF CopiesAgree
  <1>8. Webhook!ChangesStand
    BY DEF Webhook!Init, Webhook!ChangesStand
  <1>9. ASSUME NEW e \in Actors PROVE Tells(e)
    BY <1>2, <1>3 DEF Tells
  <1> QED
    BY <1>6, <1>7, <1>8, <1>9 DEF WebhookInv

LEMMA ChangeKeeps ==
  ASSUME WebhookInv, Webhook!UpdateWebhook \/ Webhook!DeleteWebhook
  PROVE  WebhookInv'
  <1>1. \E r \in HookRow : Webhook!Changed(r)
    <2>1. CASE Webhook!UpdateWebhook
      <3>1. PICK b \in BOOLEAN :
              Webhook!Changed([present |-> TRUE, config |-> edits + 1, enabled |-> b, last |-> ""])
        BY <2>1 DEF Webhook!UpdateWebhook
      <3>2. edits + 1 \in Int
        BY DEF WebhookInv, WebhookTypes
      <3>3. [present |-> TRUE, config |-> edits + 1, enabled |-> b, last |-> ""] \in HookRow
        BY <3>2 DEF HookRow
      <3> QED
        BY <3>1, <3>3
    <2>2. CASE Webhook!DeleteWebhook
      <3>1. [hook EXCEPT !.present = FALSE] \in HookRow
        BY DEF WebhookInv, WebhookTypes, HookRow
      <3> QED
        BY <2>2, <3>1 DEF Webhook!DeleteWebhook
    <2> QED
      BY <2>1, <2>2
  <1>2. PICK r \in HookRow : Webhook!Changed(r)
    BY <1>1
  <1>3. /\ hook' = r /\ edits' = edits + 1 /\ delivery' = delivery /\ record' = record /\ serving' = serving
        /\ intended' = [present |-> r.present, config |-> r.config, enabled |-> r.enabled]
        /\ disturbed' = (Webhook!InFlight # {})
    BY <1>2 DEF Webhook!Changed
  <1>4. WebhookTypes'
    BY <1>3 DEF WebhookInv, WebhookTypes
  <1>5. Webhook!ChangesStand'
    BY <1>3 DEF Webhook!ChangesStand
  <1>6. CopiesAgree'
    BY <1>3 DEF CopiesAgree, Webhook!InFlight
  <1>7. \A e \in Actors : Tells(e)'
    BY <1>3 DEF WebhookInv, Tells, Recorded
  <1> QED
    BY <1>4, <1>5, <1>6, <1>7 DEF WebhookInv

LEMMA StopOrStutterKeeps ==
  ASSUME WebhookInv, Webhook!Stop \/ UNCHANGED Webhook!vars
  PROVE  WebhookInv'
  <1>1. /\ hook' = hook /\ delivery' = delivery /\ record' = record /\ edits' = edits
        /\ intended' = intended /\ disturbed' = disturbed
        /\ serving' = serving \/ serving' = FALSE
    BY DEF Webhook!Stop, Webhook!vars
  <1>2. serving' \in BOOLEAN /\ (serving' => serving)
    <2>1. serving \in BOOLEAN
      BY DEF WebhookInv, WebhookTypes
    <2>2. CASE serving' = serving
      BY <2>1, <2>2
    <2>3. CASE serving' = FALSE
      BY <2>3
    <2> QED
      BY <1>1, <2>2, <2>3
  <1>3. WebhookTypes'
    BY <1>1, <1>2 DEF WebhookInv, WebhookTypes
  <1>4. Webhook!ChangesStand' /\ CopiesAgree'
    BY <1>1 DEF WebhookInv, Webhook!ChangesStand, CopiesAgree
  <1>5. \A e \in Actors : Tells(e)'
    BY <1>1, <1>2 DEF WebhookInv, Tells, Recorded
  <1> QED
    BY <1>3, <1>4, <1>5 DEF WebhookInv

\* A step of one delivery leaves the others as they are.
LEMMA OneDelivery ==
  ASSUME WebhookInv, NEW e \in Actors, NEW d \in Delivery,
         delivery' = [delivery EXCEPT ![e] = d], d.pc # "off" => d.copy \in HookRow,
         hook' \in HookRow, edits' = edits, serving' = serving, disturbed' = disturbed, intended' = intended,
         disturbed \/ SameSetting(hook', hook),
         ~disturbed /\ d.pc \notin {"off", "done"} => SameSetting(d.copy, hook),
         record' \in [Actors -> Record \union {None}], \A f \in Actors : f # e => record'[f] = record[f],
         Tells(e)'
  PROVE  WebhookInv'
  <1>1. delivery'[e] = d /\ \A f \in Actors : f # e => delivery'[f] = delivery[f]
    BY DEF WebhookInv, WebhookTypes
  <1>2. delivery' \in [Actors -> Delivery]
    BY DEF WebhookInv, WebhookTypes
  <1>3. WebhookTypes'
    BY <1>1, <1>2 DEF WebhookInv, WebhookTypes
  <1>4. Webhook!ChangesStand'
    BY DEF WebhookInv, Webhook!ChangesStand, SameSetting
  <1>5. CopiesAgree'
    BY <1>1 DEF WebhookInv, CopiesAgree, SameSetting
  <1>6. ASSUME NEW f \in Actors, f # e PROVE Tells(f)'
    BY <1>1, <1>6 DEF WebhookInv, Tells, Recorded
  <1> QED
    BY <1>3, <1>4, <1>5, <1>6 DEF WebhookInv

LEMMA HandleEventKeeps ==
  ASSUME WebhookInv, NEW e \in Actors, Webhook!HandleEvent(e)
  PROVE  WebhookInv'
  <1> DEFINE d == [Webhook!Off EXCEPT !.pc = "queued", !.copy = hook]
  <1>1. /\ delivery' = [delivery EXCEPT ![e] = d] /\ delivery[e].pc = "off"
        /\ hook' = hook /\ record' = record /\ serving' = serving /\ edits' = edits
        /\ intended' = intended /\ disturbed' = disturbed
    BY DEF Webhook!HandleEvent, Webhook!Becomes, Webhook!Loaded
  <1>2. hook \in HookRow
    BY DEF WebhookInv, WebhookTypes
  <1>3. d \in Delivery /\ d.pc = "queued" /\ d.copy = hook /\ d.posts = 0
    <2>1. Webhook!Off \in Delivery /\ Webhook!Off.posts = 0
      BY DEF Webhook!Off, Delivery
    <2> QED
      BY <1>2, <2>1 DEF Delivery
  <1> HIDE DEF d
  <1>4. delivery'[e] = d /\ record[e] = None
    BY <1>1 DEF WebhookInv, WebhookTypes, Tells
  <1>5. Tells(e)'
    BY <1>1, <1>3, <1>4 DEF Tells
  <1>6. SameSetting(hook', hook) /\ SameSetting(d.copy, hook)
    BY <1>1, <1>3 DEF SameSetting
  <1>7. record' \in [Actors -> Record \union {None}] /\ \A f \in Actors : f # e => record'[f] = record[f]
    BY <1>1 DEF WebhookInv, WebhookTypes
  <1> QED
    BY <1>1, <1>2, <1>3, <1>5, <1>6, <1>7, OneDelivery

LEMMA PostKeeps ==
  ASSUME Webhook!WebhookAssumption, WebhookInv, NEW e \in Actors, Webhook!Post(e)
  PROVE  WebhookInv'
  <1> DEFINE c == delivery[e]
  <1>1. /\ hook' = hook /\ record' = record /\ serving' = serving /\ edits' = edits
        /\ intended' = intended /\ disturbed' = disturbed /\ c.pc \in {"queued", "waiting"}
    BY DEF Webhook!Post
  <1>2. PICK k \in BOOLEAN :
          delivery' = [delivery EXCEPT ![e] = [c EXCEPT !.pc = "posted", !.posts = @ + 1, !.ok = k]]
    BY DEF Webhook!Post, Webhook!Becomes
  <1> DEFINE d == [c EXCEPT !.pc = "posted", !.posts = @ + 1, !.ok = k]
  <1>3. c \in Delivery /\ c.copy \in HookRow /\ c.posts \in Int /\ c.posts + 1 \in Int
    BY <1>1 DEF WebhookInv, WebhookTypes, Delivery
  <1>4. d \in Delivery /\ d.pc = "posted" /\ d.copy = c.copy /\ d.posts = c.posts + 1
    BY <1>3 DEF Delivery
  <1> HIDE DEF d
  <1>5. delivery'[e] = d /\ (record[e] = None \/ ~record[e].success)
    BY <1>1, <1>2 DEF d, WebhookInv, WebhookTypes, Tells
  <1>6. 1 <= d.posts /\ d.posts <= LastPost
    BY <1>1, <1>3, <1>4 DEF WebhookInv, Tells, LastPost, Webhook!WebhookAssumption
  <1>7. Tells(e)'
    BY <1>1, <1>4, <1>5, <1>6 DEF Tells
  <1>8. SameSetting(hook', hook) /\ (~disturbed => SameSetting(d.copy, hook)) /\ hook' \in HookRow
    BY <1>1, <1>4 DEF SameSetting, WebhookInv, CopiesAgree, WebhookTypes
  <1>9. record' \in [Actors -> Record \union {None}] /\ \A f \in Actors : f # e => record'[f] = record[f]
    BY <1>1 DEF WebhookInv, WebhookTypes
  <1> QED
    BY <1>1, <1>2, <1>3, <1>4, <1>7, <1>8, <1>9, OneDelivery DEF d

LEMMA GiveUpKeeps ==
  ASSUME WebhookInv, NEW e \in Actors, Webhook!GiveUp(e) \/ Webhook!Refuse(e)
  PROVE  WebhookInv'
  <1> DEFINE c == delivery[e]
             d == [c EXCEPT !.pc = "done"]
  <1>1. /\ hook' = hook /\ record' = record /\ serving' = serving /\ edits' = edits
        /\ intended' = intended /\ disturbed' = disturbed /\ c.pc \in {"queued", "waiting"}
        /\ c.pc = "queued" \/ ~serving
        /\ delivery' = [delivery EXCEPT ![e] = d]
    BY DEF Webhook!GiveUp, Webhook!Refuse, Webhook!Becomes
  <1>2. c \in Delivery /\ c.copy \in HookRow
    BY <1>1 DEF WebhookInv, WebhookTypes, Delivery
  <1>3. /\ d \in Delivery /\ d.pc = "done" /\ d.copy = c.copy /\ d.posts = c.posts
        /\ d.ok = c.ok /\ d.lost = c.lost
    BY <1>2 DEF Delivery
  <1> HIDE DEF d
  <1>4. delivery'[e] = d
    BY <1>1 DEF WebhookInv, WebhookTypes
  <1>5. Tells(e)'
    <2>1. ~(c.pc = "queued" /\ d.posts > 0)
      BY <1>3 DEF WebhookInv, Tells
    <2> QED
      BY <1>1, <1>3, <1>4, <2>1 DEF WebhookInv, Tells, Recorded
  <1>6. SameSetting(hook', hook) /\ hook' \in HookRow
    BY <1>1 DEF SameSetting, WebhookInv, WebhookTypes
  <1>7. record' \in [Actors -> Record \union {None}] /\ \A f \in Actors : f # e => record'[f] = record[f]
    BY <1>1 DEF WebhookInv, WebhookTypes
  <1> QED
    BY <1>1, <1>2, <1>3, <1>5, <1>6, <1>7, OneDelivery

LEMMA SaveRecordKeeps ==
  ASSUME WebhookInv, NEW e \in Actors, Webhook!SaveRecord(e)
  PROVE  WebhookInv'
  <1> DEFINE c == delivery[e]
             r == [attempt |-> c.posts, success |-> c.ok]
  <1>1. /\ hook' = hook /\ serving' = serving /\ edits' = edits
        /\ intended' = intended /\ disturbed' = disturbed /\ c.pc = "posted"
        /\ \E lost \in BOOLEAN :
             /\ delivery' = [delivery EXCEPT ![e] = [c EXCEPT !.pc = "recorded", !.lost = lost]]
             /\ record' = IF lost THEN record ELSE [record EXCEPT ![e] = r]
    BY DEF Webhook!SaveRecord, Webhook!Becomes
  <1>2. PICK lost \in BOOLEAN :
             /\ delivery' = [delivery EXCEPT ![e] = [c EXCEPT !.pc = "recorded", !.lost = lost]]
             /\ record' = IF lost THEN record ELSE [record EXCEPT ![e] = r]
    BY <1>1
  <1> DEFINE d == [c EXCEPT !.pc = "recorded", !.lost = lost]
  <1>3. c \in Delivery /\ c.copy \in HookRow
    BY <1>1 DEF WebhookInv, WebhookTypes, Delivery
  <1>4. /\ d \in Delivery /\ d.pc = "recorded" /\ d.copy = c.copy /\ d.posts = c.posts
        /\ d.ok = c.ok /\ d.lost = lost
    BY <1>3 DEF Delivery
  <1> HIDE DEF d
  <1>a. r \in Record
    BY <1>3 DEF Record, Delivery
  <1> HIDE DEF r
  <1>b. record' \in [Actors -> Record \union {None}]
    BY <1>a, <1>2 DEF WebhookInv, WebhookTypes
  <1>5. delivery'[e] = d /\ \A f \in Actors : f # e => record'[f] = record[f]
    BY <1>2 DEF d, WebhookInv, WebhookTypes
  <1>6. /\ lost => record'[e] = record[e]
        /\ ~lost => record'[e] = r
    BY <1>2 DEF WebhookInv, WebhookTypes
  <1> HIDE DEF c
  <1>7. (~d.lost => record'[e] = r) /\ (record'[e] = None \/ ~record'[e].success \/ record'[e] = r)
    BY <1>1, <1>4, <1>6 DEF c, WebhookInv, Tells, r
  <1>8. 1 <= d.posts /\ d.posts <= LastPost
    BY <1>1, <1>4 DEF c, WebhookInv, Tells
  <1>9. Tells(e)'
    BY <1>4, <1>5, <1>7, <1>8 DEF Tells, Recorded, r
  <1>10. SameSetting(hook', hook) /\ (~disturbed => SameSetting(d.copy, hook)) /\ hook' \in HookRow
    BY <1>1, <1>4 DEF c, SameSetting, WebhookInv, CopiesAgree, WebhookTypes
  <1> QED
    BY <1>b, <1>1, <1>2, <1>3, <1>4, <1>5, <1>9, <1>10, OneDelivery DEF d

LEMMA SaveWebhookKeeps ==
  ASSUME Webhook!WebhookAssumption, WebhookInv, NEW e \in Actors, Webhook!SaveWebhook(e)
  PROVE  WebhookInv'
  <1> DEFINE c == delivery[e]
             saved == [c.copy EXCEPT !.last = IF c.ok THEN "success" ELSE "failed"]
             d == [c EXCEPT !.copy = saved, !.pc = IF Webhook!TriesAgain(e) THEN "waiting" ELSE "done"]
  <1>1. /\ record' = record /\ serving' = serving /\ edits' = edits
        /\ intended' = intended /\ disturbed' = disturbed /\ c.pc = "recorded"
        /\ hook' = saved \/ hook' = hook
        /\ delivery' = [delivery EXCEPT ![e] = d]
    BY DEF Webhook!SaveWebhook, Webhook!Becomes
  <1>2. c \in Delivery /\ c.copy \in HookRow /\ hook \in HookRow
    BY <1>1 DEF WebhookInv, WebhookTypes, Delivery
  <1>3. saved \in HookRow /\ SameSetting(saved, c.copy)
    BY <1>2 DEF HookRow, SameSetting
  <1> HIDE DEF saved
  <1>4. /\ d \in Delivery /\ d.copy = saved /\ d.posts = c.posts /\ d.ok = c.ok /\ d.lost = c.lost
        /\ d.pc = IF ~c.ok /\ c.posts < WebhookRetries THEN "waiting" ELSE "done"
    BY <1>2, <1>3 DEF Delivery, Webhook!TriesAgain
  <1> HIDE DEF d
  <1>5. delivery'[e] = d
    BY <1>1 DEF WebhookInv, WebhookTypes
  <1>6. /\ 1 <= d.posts /\ d.posts <= LastPost /\ d.posts \in Int
        /\ ~d.lost => Recorded(e)
        /\ record[e] = None \/ ~record[e].success \/ Recorded(e)
    <2>1. c.posts \in Int /\ 1 <= c.posts /\ c.posts <= LastPost
      BY <1>1, <1>2 DEF WebhookInv, Tells, Delivery
    <2>2. c.posts > 0
      BY <2>1
    <2> QED
      BY <1>1, <1>4, <2>1, <2>2 DEF WebhookInv, Tells
  <1>7. Recorded(e)' <=> Recorded(e)
    BY <1>1, <1>4, <1>5 DEF Recorded
  <1>8. d.pc = "done" => d.ok \/ d.posts = LastPost
    BY <1>4, <1>6 DEF LastPost, Webhook!WebhookAssumption
  <1>9. d.pc = "waiting" => record[e] = None \/ ~record[e].success
    BY <1>4, <1>6 DEF Recorded
  <1>10. Tells(e)'
    <2>1. d.pc \in {"waiting", "done"}
      BY <1>4
    <2> QED
      BY <1>1, <1>4, <1>5, <1>6, <1>7, <1>8, <1>9, <2>1 DEF Tells
  <1>11. hook' \in HookRow /\ (disturbed \/ (SameSetting(hook', hook) /\ SameSetting(saved, hook)))
    BY <1>1, <1>2, <1>3 DEF SameSetting, WebhookInv, CopiesAgree
  <1>12. record' \in [Actors -> Record \union {None}] /\ \A f \in Actors : f # e => record'[f] = record[f]
    BY <1>1 DEF WebhookInv, WebhookTypes
  <1> QED
    BY <1>1, <1>3, <1>4, <1>10, <1>11, <1>12, OneDelivery

LEMMA WebhookStepKeeps ==
  ASSUME Webhook!WebhookAssumption, WebhookInv, [Webhook!Next]_(Webhook!vars)
  PROVE  WebhookInv'
  BY ChangeKeeps, StopOrStutterKeeps, HandleEventKeeps, PostKeeps, GiveUpKeeps, SaveRecordKeeps,
     SaveWebhookKeeps DEF Webhook!Next

\* The inductive invariant of the webhook: what a delivery has copied is what is
\* configured, until that is changed under it, and what its record says at each of
\* its steps.
THEOREM WebhookInvariance == Webhook!Spec => []WebhookInv
  <1>1. Webhook!Init => WebhookInv
    BY WebhookInitInv
  <1>2. WebhookInv /\ [Webhook!Next]_(Webhook!vars) => WebhookInv'
    BY WebhookStepKeeps, PlatformAssumption
  <1> QED
    BY <1>1, <1>2, PTL DEF Webhook!Spec

\* For any number of events, slots and retries: a change made while nothing is in
\* flight stands, and the record of a delivery that ended tells what was posted.
THEOREM WebhooksHoldCorrect == Webhook!Spec => []WebhooksHold
  <1>1. WebhookInv => WebhooksHold
    <2>1. ASSUME WebhookInv, NEW e \in Actors, delivery[e].pc = "done", delivery[e].posts > 0
          PROVE  /\ ~delivery[e].lost => Recorded(e)
                 /\ serving => delivery[e].ok \/ delivery[e].posts = LastPost
                 /\ record[e] # None /\ record[e].success => record[e].attempt = delivery[e].posts
      BY <2>1 DEF WebhookInv, Tells, Recorded
    <2> QED
      BY <2>1 DEF WebhookInv, WebhooksHold, Webhook!RecordIsTrue, Recorded, LastPost
  <1> QED
    BY <1>1, WebhookInvariance, PTL
-----------------------------------------------------------------------------
(***************************************************************************)
(* Checks of monitors.                                                     *)
(***************************************************************************)
MonitorRow == [enabled : BOOLEAN, total : Nat, up : Nat, status : {"unknown", "none", "up", "down"}]

Checking == [todo : SUBSET Monitors, at : Monitors \union {None},
             row : MonitorRow \union {None}, answer : {None, "up", "down"}]

CheckTypes ==
  /\ monitor \in [Monitors -> MonitorRow \union {None}]
  /\ checker \in [Actors -> Checking]
  /\ counted \in [Monitors -> [total : Nat, up : Nat]]
  /\ overlapped \in [Monitors -> BOOLEAN]

\* While no row was saved over another, what a checker has read is what is there.
Reads(c) ==
  /\ checker[c].at # None =>
       /\ checker[c].row # None
       /\ ~overlapped[checker[c].at] => checker[c].row = monitor[checker[c].at]
  /\ checker[c].answer # None => checker[c].at # None

CheckInv ==
  /\ CheckTypes
  /\ \A c \in Actors : Reads(c)
  /\ Check!StatsAddUp

LEMMA CheckerMoves ==
  ASSUME CheckInv, NEW c \in Actors, NEW d \in Checking, checker' = [checker EXCEPT ![c] = d],
         monitor' = monitor, counted' = counted, overlapped' = overlapped,
         d.at # None => /\ d.row # None
                        /\ ~overlapped[d.at] => d.row = monitor[d.at],
         d.answer # None => d.at # None
  PROVE  CheckInv'
  <1>1. checker \in [Actors -> Checking]
    BY DEF CheckInv, CheckTypes
  <1>2. checker' \in [Actors -> Checking] /\ checker'[c] = d /\ \A e \in Actors : e # c => checker'[e] = checker[e]
    BY <1>1
  <1>3. CheckTypes'
    BY <1>2 DEF CheckInv, CheckTypes
  <1>4. ASSUME NEW e \in Actors PROVE Reads(e)'
    BY <1>2 DEF CheckInv, Reads
  <1>5. Check!StatsAddUp'
    BY DEF CheckInv, Check!StatsAddUp
  <1> QED
    BY <1>3, <1>4, <1>5 DEF CheckInv

\* A request writes the row of a monitor, or deletes it.
LEMMA RewrittenKeeps ==
  ASSUME CheckInv, NEW m \in Monitors, NEW r \in MonitorRow \union {None},
         r # None => r.total = 0 /\ r.up = 0, Check!Rewritten(m, r)
  PROVE  CheckInv'
  <1> DEFINE z == [total |-> 0, up |-> 0]
  <1>1. /\ monitor' = [monitor EXCEPT ![m] = r] /\ counted' = [counted EXCEPT ![m] = z]
        /\ overlapped' = [overlapped EXCEPT ![m] = Check!Held(m) # {}] /\ checker' = checker
    BY DEF Check!Rewritten
  <1>2. z \in [total : Nat, up : Nat] /\ z.total = 0 /\ z.up = 0
    OBVIOUS
  <1> HIDE DEF z
  <1>3. /\ monitor' \in [Monitors -> MonitorRow \union {None}] /\ monitor'[m] = r
        /\ \A n \in Monitors : n # m => monitor'[n] = monitor[n]
    BY <1>1 DEF CheckInv, CheckTypes
  <1>4. /\ counted' \in [Monitors -> [total : Nat, up : Nat]] /\ counted'[m] = z
        /\ \A n \in Monitors : n # m => counted'[n] = counted[n]
    BY <1>1, <1>2 DEF CheckInv, CheckTypes
  <1>5. /\ overlapped' \in [Monitors -> BOOLEAN] /\ overlapped'[m] = (Check!Held(m) # {})
        /\ \A n \in Monitors : n # m => overlapped'[n] = overlapped[n]
    <2>1. PICK b \in BOOLEAN : b = (Check!Held(m) # {})
      OBVIOUS
    <2> QED
      BY <1>1, <2>1 DEF CheckInv, CheckTypes
  <1>6. CheckTypes'
    BY <1>1, <1>3, <1>4, <1>5 DEF CheckInv, CheckTypes
  <1>7. ASSUME NEW c \in Actors PROVE Reads(c)'
    <2>1. Reads(c) /\ checker[c] \in Checking
      BY DEF CheckInv, CheckTypes
    <2>2. CASE checker[c].at = m
      <3>1. overlapped'[m]
        BY <1>5, <2>2 DEF Check!Held
      <3> QED
        BY <1>1, <2>1, <2>2, <3>1 DEF Reads
    <2>3. CASE checker[c].at # m
      BY <1>1, <1>3, <1>5, <2>1, <2>3 DEF Reads, Checking
    <2> QED
      BY <2>2, <2>3
  <1>8. Check!StatsAddUp'
    <2> SUFFICES ASSUME NEW n \in Monitors, monitor'[n] # None, ~overlapped'[n]
                 PROVE  monitor'[n].total = counted'[n].total /\ monitor'[n].up = counted'[n].up
      BY DEF Check!StatsAddUp
    <2>1. CASE n = m
      BY <1>2, <1>3, <1>4, <2>1
    <2>2. CASE n # m
      BY <1>3, <1>4, <1>5, <2>2 DEF CheckInv, Check!StatsAddUp
    <2> QED
      BY <2>1, <2>2
  <1> QED
    BY <1>6, <1>7, <1>8 DEF CheckInv

LEMMA CreatedRow ==
  ASSUME NEW e \in BOOLEAN, NEW status \in {"unknown", "none"}
  PROVE  /\ [Check!Created EXCEPT !.enabled = e, !.status = status] \in MonitorRow
         /\ [Check!Created EXCEPT !.enabled = e, !.status = status].total = 0
         /\ [Check!Created EXCEPT !.enabled = e, !.status = status].up = 0
         /\ Check!Created \in MonitorRow /\ Check!Created.total = 0 /\ Check!Created.up = 0
  BY DEF Check!Created, MonitorRow

\* What a check saves is what it read with one check more.
LEMMA CountedRow ==
  ASSUME NEW r \in MonitorRow, NEW answer \in {"up", "down"}
  PROVE  /\ Check!Counted(r, answer) \in MonitorRow
         /\ Check!Counted(r, answer).total = r.total + 1
         /\ Check!Counted(r, answer).up = r.up + Check!One(answer)
         /\ Check!One(answer) \in Nat
  <1>1. PICK n : n = Check!One(answer)
    OBVIOUS
  <1>2. n \in Nat
    BY <1>1 DEF Check!One
  <1>3. Check!Counted(r, answer) = [r EXCEPT !.total = r.total + 1, !.up = r.up + n, !.status = answer]
    BY <1>1 DEF Check!Counted, MonitorRow
  <1>4. r.total + 1 \in Nat /\ r.up + n \in Nat
    BY <1>2 DEF MonitorRow
  <1>5. [r EXCEPT !.total = r.total + 1, !.up = r.up + n, !.status = answer] \in MonitorRow
    BY <1>4 DEF MonitorRow
  <1> QED
    BY <1>1, <1>2, <1>3, <1>5 DEF MonitorRow

LEMMA StatsKeeps ==
  ASSUME CheckInv, NEW c \in Actors, Check!updateMonitorStats(c)
  PROVE  CheckInv'
  <1> DEFINE m == checker[c].at
             d == [Check!Idle EXCEPT !.todo = checker[c].todo \ {m}]
  <1>0. /\ checker \in [Actors -> Checking] /\ checker[c] \in Checking /\ Reads(c)
        /\ checker[c].answer # None
    BY DEF CheckInv, CheckTypes, Check!updateMonitorStats
  <1>1. /\ m \in Monitors /\ m # None /\ checker[c].row \in MonitorRow
        /\ checker[c].answer \in {"up", "down"}
    BY <1>0 DEF Reads, Checking
  <1>2. d \in Checking /\ d.at = None /\ d.answer = None
    BY <1>0 DEF Check!Idle, Checking
  <1>3. checker' = [checker EXCEPT ![c] = d]
    BY DEF Check!updateMonitorStats
  <1> HIDE DEF d
  <1>4. CASE UNCHANGED <<monitor, counted, overlapped>>
    BY <1>2, <1>3, <1>4, CheckerMoves
  <1>5. CASE ~UNCHANGED <<monitor, counted, overlapped>>
    <2>1. PICK r : r = Check!Counted(checker[c].row, checker[c].answer)
      OBVIOUS
    <2>2. /\ r \in MonitorRow /\ r.total = checker[c].row.total + 1
          /\ r.up = checker[c].row.up + Check!One(checker[c].answer)
          /\ Check!One(checker[c].answer) \in Nat
      BY <1>1, <2>1, CountedRow
    <2>3. PICK s : s = IF monitor[m] = None THEN [r EXCEPT !.enabled = TRUE] ELSE r
      OBVIOUS
    <2>4. s \in MonitorRow /\ s.total = r.total /\ s.up = r.up
      BY <2>2, <2>3 DEF MonitorRow
    <2>5. PICK k : k = [total |-> counted[m].total + 1, up |-> counted[m].up + Check!One(checker[c].answer)]
      OBVIOUS
    <2>6. counted[m] \in [total : Nat, up : Nat]
      BY <1>1 DEF CheckInv, CheckTypes
    <2>7. /\ k \in [total : Nat, up : Nat] /\ k.total = counted[m].total + 1
          /\ k.up = counted[m].up + Check!One(checker[c].answer)
      BY <2>2, <2>5, <2>6
    <2>8. PICK b \in BOOLEAN : b = (overlapped[m] \/ Check!Held(m) # {c})
      OBVIOUS
    <2>9. /\ monitor' = [monitor EXCEPT ![m] = s] /\ counted' = [counted EXCEPT ![m] = k]
          /\ overlapped' = [overlapped EXCEPT ![m] = b]
      <3>1. monitor' = [monitor EXCEPT ![m] = s]
        BY <1>5, <2>1, <2>3 DEF Check!updateMonitorStats
      <3>2. counted' = [counted EXCEPT ![m] = k]
        BY <1>5, <2>5 DEF Check!updateMonitorStats
      <3>3. overlapped' = [overlapped EXCEPT ![m] = overlapped[m] \/ Check!Held(m) # {c}]
        BY <1>5 DEF Check!updateMonitorStats
      <3> QED
        BY <2>8, <3>1, <3>2, <3>3
    <2>10. /\ monitor' \in [Monitors -> MonitorRow \union {None}] /\ monitor'[m] = s
           /\ \A n \in Monitors : n # m => monitor'[n] = monitor[n]
      BY <1>1, <2>4, <2>9 DEF CheckInv, CheckTypes
    <2>11. /\ counted' \in [Monitors -> [total : Nat, up : Nat]] /\ counted'[m] = k
           /\ \A n \in Monitors : n # m => counted'[n] = counted[n]
      BY <1>1, <2>7, <2>9 DEF CheckInv, CheckTypes
    <2>12. /\ overlapped' \in [Monitors -> BOOLEAN] /\ overlapped'[m] = b
           /\ \A n \in Monitors : n # m => overlapped'[n] = overlapped[n]
      BY <1>1, <2>9 DEF CheckInv, CheckTypes
    <2>13. /\ checker' \in [Actors -> Checking] /\ checker'[c] = d
           /\ \A e \in Actors : e # c => checker'[e] = checker[e]
      BY <1>0, <1>2, <1>3
    <2>14. CheckTypes'
      BY <2>10, <2>11, <2>12, <2>13 DEF CheckTypes
    <2>15. ASSUME NEW e \in Actors PROVE Reads(e)'
      <3>1. CASE e = c
        BY <1>2, <2>13, <3>1 DEF Reads
      <3>2. CASE e # c /\ checker[e].at = m
        <4>1. b
          BY <2>8, <3>2 DEF Check!Held
        <4> QED
          BY <2>12, <2>13, <3>2, <4>1 DEF CheckInv, Reads
      <3>3. CASE e # c /\ checker[e].at # m
        <4>1. Reads(e) /\ checker[e].at \in Monitors \union {None}
          BY DEF CheckInv, CheckTypes, Checking
        <4> QED
          BY <2>10, <2>12, <2>13, <3>3, <4>1 DEF Reads
      <3> QED
        BY <3>1, <3>2, <3>3
    <2>16. Check!StatsAddUp'
      <3> SUFFICES ASSUME NEW n \in Monitors, monitor'[n] # None, ~overlapped'[n]
                   PROVE  monitor'[n].total = counted'[n].total /\ monitor'[n].up = counted'[n].up
        BY DEF Check!StatsAddUp
      <3>1. CASE n = m
        <4>1. ~overlapped[m]
          BY <2>8, <2>12, <3>1
        <4>2. checker[c].row = monitor[m] /\ monitor[m] # None
          BY <1>0, <1>1, <4>1 DEF Reads
        <4>3. monitor[m].total = counted[m].total /\ monitor[m].up = counted[m].up
          BY <1>1, <4>1, <4>2 DEF CheckInv, Check!StatsAddUp
        <4> QED
          BY <2>2, <2>4, <2>7, <2>10, <2>11, <3>1, <4>2, <4>3
      <3>2. CASE n # m
        BY <2>10, <2>11, <2>12, <3>2 DEF CheckInv, Check!StatsAddUp
      <3> QED
        BY <3>1, <3>2
    <2> QED
      BY <2>14, <2>15, <2>16 DEF CheckInv
  <1> QED
    BY <1>4, <1>5

LEMMA GetMonitorKeeps ==
  ASSUME CheckInv, NEW c \in Actors, NEW m \in Monitors, Check!GetMonitor(c, m)
  PROVE  CheckInv'
  <1>0. checker[c] \in Checking /\ Reads(c) /\ checker[c].at = None
    BY DEF CheckInv, CheckTypes, Check!GetMonitor
  <1>1. checker[c].answer = None
    BY <1>0 DEF Reads
  <1>2. UNCHANGED <<monitor, counted, overlapped>>
    BY DEF Check!GetMonitor
  <1>3. CASE monitor[m] = None
    <2> DEFINE d == [checker[c] EXCEPT !.todo = checker[c].todo \ {m}]
    <2>1. d \in Checking /\ d.at = None /\ d.answer = None
      BY <1>0, <1>1 DEF Checking
    <2>2. checker' = [checker EXCEPT ![c] = d]
      BY <1>3 DEF Check!GetMonitor
    <2> HIDE DEF d
    <2> QED
      BY <1>2, <2>1, <2>2, CheckerMoves
  <1>4. CASE monitor[m] # None
    <2> DEFINE d == [checker[c] EXCEPT !.at = m, !.row = monitor[m]]
    <2>0. monitor[m] \in MonitorRow \union {None}
      BY DEF CheckInv, CheckTypes
    <2>1. d \in Checking /\ d.at = m /\ d.row = monitor[m] /\ d.answer = None
      BY <1>0, <1>1, <2>0 DEF Checking
    <2>2. checker' = [checker EXCEPT ![c] = d]
      BY <1>4 DEF Check!GetMonitor
    <2> HIDE DEF d
    <2> QED
      BY <1>2, <1>4, <2>1, <2>2, CheckerMoves
  <1> QED
    BY <1>3, <1>4

LEMMA BeginsKeeps ==
  ASSUME CheckInv, NEW c \in Actors,
         \/ Check!CheckAllMonitors(c) \/ Check!SaveResult(c)
         \/ \E m \in Monitors : Check!CheckMonitor(c, m)
  PROVE  CheckInv'
  <1>0. checker[c] \in Checking /\ Reads(c)
    BY DEF CheckInv, CheckTypes
  <1>1. UNCHANGED <<monitor, counted, overlapped>>
    BY DEF Check!CheckAllMonitors, Check!SaveResult, Check!CheckMonitor
  <1>2. CASE Check!CheckAllMonitors(c) \/ \E m \in Monitors : Check!CheckMonitor(c, m)
    <2>1. PICK todo \in SUBSET Monitors : checker' = [checker EXCEPT ![c].todo = todo]
      BY <1>2 DEF Check!CheckAllMonitors, Check!CheckMonitor
    <2> DEFINE d == [checker[c] EXCEPT !.todo = todo]
    <2>2. d \in Checking /\ d.at = checker[c].at /\ d.row = checker[c].row /\ d.answer = checker[c].answer
      BY <1>0 DEF Checking
    <2>3. checker' = [checker EXCEPT ![c] = d]
      BY <2>1
    <2> HIDE DEF d
    <2> QED
      BY <1>0, <1>1, <2>2, <2>3, CheckerMoves DEF Reads
  <1>3. CASE Check!SaveResult(c)
    <2>1. PICK answer \in {"up", "down"} : checker' = [checker EXCEPT ![c].answer = answer]
      BY <1>3 DEF Check!SaveResult
    <2> DEFINE d == [checker[c] EXCEPT !.answer = answer]
    <2>2. d \in Checking /\ d.at = checker[c].at /\ d.row = checker[c].row
      BY <1>0 DEF Checking
    <2>3. checker' = [checker EXCEPT ![c] = d] /\ checker[c].at # None
      BY <1>3, <2>1 DEF Check!SaveResult
    <2> HIDE DEF d
    <2> QED
      BY <1>0, <1>1, <2>2, <2>3, CheckerMoves DEF Reads
  <1> QED
    BY <1>2, <1>3

(***************************************************************************)
(* Heartbeats.                                                             *)
(***************************************************************************)
BeatRow == [age : Nat \union {None}, status : {"unknown", "up", "down"}]

BeatTypes ==
  /\ heartbeat \in [Heartbeats -> BeatRow \union {None}]
  /\ sweep \subseteq Heartbeats /\ raced \in [Heartbeats -> BOOLEAN]

\* What a sweep is about to mark is overdue, unless it was pinged since.
Swept(h) == h \in sweep => heartbeat[h] = None \/ Check!Overdue(h) \/ raced[h]

Shown(h) ==
  heartbeat[h] # None /\ heartbeat[h].status = "down" => Check!Overdue(h) \/ raced[h]

BeatInv == BeatTypes /\ \A h \in Heartbeats : Swept(h) /\ Shown(h)

\* One heartbeat changes.
LEMMA BeatKeeps ==
  ASSUME BeatInv, NEW h \in Heartbeats, NEW r \in BeatRow \union {None}, NEW b \in BOOLEAN,
         heartbeat' = [heartbeat EXCEPT ![h] = r], raced' = [raced EXCEPT ![h] = b],
         sweep' \subseteq sweep,
         h \in sweep' => r = None \/ b,
         r # None => r.status # "down" \/ b \/ (r.age # None /\ r.age > CheckTimeout)
  PROVE  BeatInv'
  <1>1. /\ heartbeat' \in [Heartbeats -> BeatRow \union {None}] /\ heartbeat'[h] = r
        /\ \A g \in Heartbeats : g # h => heartbeat'[g] = heartbeat[g]
    BY DEF BeatInv, BeatTypes
  <1>2. /\ raced' \in [Heartbeats -> BOOLEAN] /\ raced'[h] = b
        /\ \A g \in Heartbeats : g # h => raced'[g] = raced[g]
    BY DEF BeatInv, BeatTypes
  <1>3. BeatTypes'
    BY <1>1, <1>2 DEF BeatInv, BeatTypes
  <1>4. ASSUME NEW g \in Heartbeats PROVE Swept(g)' /\ Shown(g)'
    <2>1. CASE g = h
      BY <1>1, <1>2, <2>1 DEF Swept, Shown, Check!Overdue
    <2>2. CASE g # h
      BY <1>1, <1>2, <2>2 DEF BeatInv, Swept, Shown, Check!Overdue
    <2> QED
      BY <2>1, <2>2
  <1> QED
    BY <1>3, <1>4 DEF BeatInv

LEMMA RequestKeepsBeats ==
  ASSUME BeatInv, NEW h \in Heartbeats,
         Check!CreateHeartbeat(h) \/ Check!DeleteHeartbeat(h) \/ Check!PingHeartbeat(h)
  PROVE  BeatInv'
  <1>0. sweep' = sweep /\ raced \in [Heartbeats -> BOOLEAN]
    BY DEF BeatInv, BeatTypes, Check!CreateHeartbeat, Check!DeleteHeartbeat, Check!PingHeartbeat
  <1>1. PICK b \in BOOLEAN : b = (h \in sweep)
    <2>1. (h \in sweep) = TRUE \/ (h \in sweep) = FALSE
      OBVIOUS
    <2> QED
      BY <2>1
  <1>2. CASE Check!CreateHeartbeat(h)
    <2> DEFINE r == [age |-> None, status |-> "unknown"]
    <2>1. r \in BeatRow /\ r.status = "unknown"
      BY DEF BeatRow
    <2>2. heartbeat' = [heartbeat EXCEPT ![h] = r] /\ raced' = [raced EXCEPT ![h] = b]
      BY <1>1, <1>2 DEF Check!CreateHeartbeat
    <2> HIDE DEF r
    <2> QED
      BY <1>0, <1>1, <2>1, <2>2, BeatKeeps
  <1>3. CASE Check!DeleteHeartbeat(h)
    <2>1. heartbeat' = [heartbeat EXCEPT ![h] = None] /\ raced' = [raced EXCEPT ![h] = raced[h]]
      BY <1>0, <1>3 DEF Check!DeleteHeartbeat
    <2>2. raced[h] \in BOOLEAN
      BY <1>0
    <2> QED
      BY <1>0, <2>1, <2>2, BeatKeeps
  <1>4. CASE Check!PingHeartbeat(h)
    <2>0. PICK r : r = Check!Beat(heartbeat[h])
      OBVIOUS
    <2>1. r \in BeatRow /\ r.status = "up"
      BY <2>0 DEF BeatRow, Check!Beat
    <2>2. heartbeat' = [heartbeat EXCEPT ![h] = r] /\ raced' = [raced EXCEPT ![h] = b]
      BY <1>1, <1>4, <2>0 DEF Check!PingHeartbeat
    <2> QED
      BY <1>0, <1>1, <2>1, <2>2, BeatKeeps
  <1> QED
    BY <1>2, <1>3, <1>4

LEMMA MarkDownKeeps ==
  ASSUME BeatInv, NEW h \in Heartbeats, Check!MarkDown(h)
  PROVE  BeatInv'
  <1>0. /\ h \in sweep /\ sweep' = sweep \ {h} /\ raced' = raced
        /\ raced \in [Heartbeats -> BOOLEAN] /\ Swept(h)
    BY DEF BeatInv, BeatTypes, Check!MarkDown
  <1>1. CASE heartbeat' = heartbeat
    BY <1>0, <1>1 DEF BeatInv, BeatTypes, Swept, Shown, Check!Overdue
  <1>2. CASE heartbeat' # heartbeat
    <2>1. heartbeat[h] # None /\ heartbeat' = [heartbeat EXCEPT ![h].status = "down"]
      BY <1>2 DEF Check!MarkDown
    <2>2. heartbeat[h] \in BeatRow
      BY <2>1 DEF BeatInv, BeatTypes
    <2>3. PICK r : r = [heartbeat[h] EXCEPT !.status = "down"]
      OBVIOUS
    <2>4. r \in BeatRow /\ r.age = heartbeat[h].age
      BY <2>2, <2>3 DEF BeatRow
    <2>5. heartbeat' = [heartbeat EXCEPT ![h] = r] /\ raced' = [raced EXCEPT ![h] = raced[h]]
      BY <1>0, <2>1, <2>3
    <2>6. raced[h] \in BOOLEAN /\ (raced[h] \/ (r.age # None /\ r.age > CheckTimeout))
      BY <1>0, <2>1, <2>4 DEF Swept, Check!Overdue
    <2> QED
      BY <1>0, <2>4, <2>5, <2>6, BeatKeeps
  <1> QED
    BY <1>1, <1>2

LEMMA TickKeepsBeats ==
  ASSUME BeatInv, Check!Tick
  PROVE  BeatInv'
  <1>0. sweep' = sweep /\ raced' = raced
    BY DEF Check!Tick
  <1>1. ASSUME NEW h \in Heartbeats
        PROVE  /\ heartbeat'[h] \in BeatRow \union {None} /\ Swept(h)' /\ Shown(h)'
    <2>0. Swept(h) /\ Shown(h) /\ heartbeat[h] \in BeatRow \union {None}
      BY DEF BeatInv, BeatTypes
    <2>1. CASE heartbeat[h] = None \/ heartbeat[h].age = None \/ Check!Overdue(h)
      <3>1. heartbeat'[h] = heartbeat[h]
        BY <2>1 DEF Check!Tick
      <3> QED
        BY <1>0, <2>0, <3>1 DEF Swept, Shown, Check!Overdue
    <2>2. CASE ~(heartbeat[h] = None \/ heartbeat[h].age = None \/ Check!Overdue(h))
      <3>1. heartbeat'[h] = [heartbeat[h] EXCEPT !.age = heartbeat[h].age + 1]
        BY <2>2 DEF Check!Tick
      <3>2. heartbeat[h] \in BeatRow /\ heartbeat[h].age \in Nat
        BY <2>0, <2>2 DEF BeatRow
      <3>3. heartbeat'[h] \in BeatRow /\ heartbeat'[h].status = heartbeat[h].status
        BY <3>1, <3>2 DEF BeatRow
      <3> QED
        BY <1>0, <2>0, <2>2, <3>3 DEF Swept, Shown
    <2> QED
      BY <2>1, <2>2
  <1>2. heartbeat' \in [Heartbeats -> BeatRow \union {None}]
    <2>1. heartbeat' = [h \in Heartbeats |-> heartbeat'[h]]
      BY DEF Check!Tick
    <2> QED
      BY <1>1, <2>1
  <1> QED
    BY <1>0, <1>1, <1>2 DEF BeatInv, BeatTypes

\* Checks of monitors leave the heartbeats alone, and the other way round.
LEMMA CheckNextInv ==
  ASSUME CheckInv, BeatInv, [Check!Next]_(Check!vars)
  PROVE  CheckInv' /\ BeatInv'
  <1>1. ASSUME UNCHANGED Check!Checks PROVE CheckInv'
    BY <1>1 DEF CheckInv, CheckTypes, Reads, Check!StatsAddUp, Check!Checks
  <1>2. ASSUME UNCHANGED Check!Beats PROVE BeatInv'
    BY <1>2 DEF BeatInv, BeatTypes, Swept, Shown, Check!Overdue, Check!Beats
  <1>3. ASSUME NEW m \in Monitors,
               Check!CreateMonitor(m) \/ Check!UpdateMonitor(m) \/ Check!DeleteMonitor(m)
        PROVE  CheckInv' /\ BeatInv'
    <2>1. CASE Check!UpdateMonitor(m)
      <3>1. PICK e \in BOOLEAN :
              Check!Rewritten(m, [Check!Created EXCEPT !.enabled = e \/ monitor[m] = None, !.status = "none"])
        BY <2>1 DEF Check!UpdateMonitor
      <3>2. PICK f \in BOOLEAN : f = (e \/ monitor[m] = None)
        OBVIOUS
      <3>3. PICK r : r = [Check!Created EXCEPT !.enabled = f, !.status = "none"]
        OBVIOUS
      <3>4. r \in MonitorRow /\ r.total = 0 /\ r.up = 0
        BY <3>3, CreatedRow
      <3>5. Check!Rewritten(m, r)
        BY <3>1, <3>2, <3>3
      <3>6. UNCHANGED Check!Beats
        BY <3>5 DEF Check!Rewritten
      <3> QED
        BY <1>2, <3>4, <3>5, <3>6, RewrittenKeeps
    <2>2. CASE Check!CreateMonitor(m)
      <3>1. Check!Rewritten(m, Check!Created)
        BY <2>2 DEF Check!CreateMonitor
      <3>2. Check!Created \in MonitorRow /\ Check!Created.total = 0 /\ Check!Created.up = 0
        BY CreatedRow
      <3>3. UNCHANGED Check!Beats
        BY <3>1 DEF Check!Rewritten
      <3> QED
        BY <1>2, <3>1, <3>2, <3>3, RewrittenKeeps
    <2>3. CASE Check!DeleteMonitor(m)
      <3>1. Check!Rewritten(m, None)
        BY <2>3 DEF Check!DeleteMonitor
      <3>2. UNCHANGED Check!Beats
        BY <3>1 DEF Check!Rewritten
      <3> QED
        BY <1>2, <3>1, <3>2, RewrittenKeeps
    <2> QED
      BY <1>3, <2>1, <2>2, <2>3
  <1>4. ASSUME NEW c \in Actors,
               \/ Check!CheckAllMonitors(c) \/ Check!SaveResult(c) \/ Check!updateMonitorStats(c)
               \/ \E m \in Monitors : Check!CheckMonitor(c, m) \/ Check!GetMonitor(c, m)
        PROVE  CheckInv' /\ BeatInv'
    <2>1. UNCHANGED Check!Beats
      BY <1>4 DEF Check!CheckAllMonitors, Check!SaveResult, Check!updateMonitorStats,
                  Check!CheckMonitor, Check!GetMonitor
    <2> QED
      BY <1>2, <1>4, <2>1, BeginsKeeps, StatsKeeps, GetMonitorKeeps
  <1>5. ASSUME NEW h \in Heartbeats,
               \/ Check!CreateHeartbeat(h) \/ Check!DeleteHeartbeat(h)
               \/ Check!PingHeartbeat(h) \/ Check!MarkDown(h)
        PROVE  CheckInv' /\ BeatInv'
    <2>1. UNCHANGED Check!Checks
      BY <1>5 DEF Check!CreateHeartbeat, Check!DeleteHeartbeat, Check!PingHeartbeat, Check!MarkDown
    <2> QED
      BY <1>1, <1>5, <2>1, RequestKeepsBeats, MarkDownKeeps
  <1>6. CASE Check!CheckHeartbeats
    <2>1. /\ UNCHANGED Check!Checks /\ heartbeat' = heartbeat /\ raced' = raced
          /\ sweep' = {h \in Heartbeats : Check!Overdue(h)}
      BY <1>6 DEF Check!CheckHeartbeats
    <2>2. BeatInv'
      BY <2>1 DEF BeatInv, BeatTypes, Swept, Shown, Check!Overdue
    <2> QED
      BY <1>1, <2>1, <2>2
  <1>7. CASE Check!Tick
    <2>1. UNCHANGED Check!Checks
      BY <1>7 DEF Check!Tick
    <2> QED
      BY <1>1, <1>7, <2>1, TickKeepsBeats
  <1>8. CASE UNCHANGED Check!vars
    <2>1. UNCHANGED Check!Checks /\ UNCHANGED Check!Beats
      BY <1>8 DEF Check!vars, Check!Checks, Check!Beats
    <2> QED
      BY <1>1, <1>2, <2>1
  <1> QED
    BY <1>3, <1>4, <1>5, <1>6, <1>7, <1>8 DEF Check!Next

LEMMA CheckInitInv ==
  ASSUME Check!Init
  PROVE  CheckInv /\ BeatInv
  <1> DEFINE z == [total |-> 0, up |-> 0]
  <1>1. /\ monitor = [m \in Monitors |-> None] /\ checker = [c \in Actors |-> Check!Idle]
        /\ counted = [m \in Monitors |-> z] /\ overlapped = [m \in Monitors |-> FALSE]
        /\ heartbeat = [h \in Heartbeats |-> None] /\ sweep = {}
        /\ raced = [h \in Heartbeats |-> FALSE]
    BY DEF Check!Init
  <1>2. z \in [total : Nat, up : Nat]
    OBVIOUS
  <1> HIDE DEF z
  <1>3. Check!Idle \in Checking /\ Check!Idle.at = None /\ Check!Idle.answer = None
    BY DEF Check!Idle, Checking
  <1>4. CheckTypes
    BY <1>1, <1>2, <1>3 DEF CheckTypes
  <1>5. CheckInv
    BY <1>1, <1>3, <1>4 DEF CheckInv, Reads, Check!StatsAddUp
  <1>6. BeatInv
    BY <1>1 DEF BeatInv, BeatTypes, Swept, Shown
  <1> QED
    BY <1>5, <1>6

\* The invariants of monitors and heartbeats, for any number of them and of checkers.
THEOREM CheckInvariance == Check!Spec => [](CheckInv /\ BeatInv)
  <1>1. Check!Init => CheckInv /\ BeatInv
    BY CheckInitInv
  <1>2. CheckInv /\ BeatInv /\ [Check!Next]_(Check!vars) => (CheckInv /\ BeatInv)'
    BY CheckNextInv
  <1> QED
    BY <1>1, <1>2, PTL DEF Check!Spec

\* The counts of a monitor are those of its checks, unless one saved a row it had read
\* before another save; a heartbeat shown as down is overdue, unless it was pinged
\* between the sweep's reading and its marking.
THEOREM ChecksHoldCorrect == Check!Spec => []ChecksHold
  <1>1. CheckInv /\ BeatInv => ChecksHold
    BY DEF CheckInv, BeatInv, Shown, ChecksHold, Check!DownIsOverdue
  <1> QED
    BY <1>1, CheckInvariance, PTL
-----------------------------------------------------------------------------
(***************************************************************************)
(* The audit log.                                                          *)
(***************************************************************************)
AuditRow ==
  [user : Users \union {Audit!Nobody}, hash : [user : Users, key : Nat], archived : BOOLEAN]

\* A row was hashed by this process or by an earlier one.
AuditInv ==
  /\ auditRows \in Seq(AuditRow) /\ hmacKey \in Nat
  /\ \A i \in DOMAIN auditRows : auditRows[i].hash.key <= hmacKey
  /\ lines \in Seq(Nat) /\ writers \subseteq DOMAIN auditRows
  /\ Audit!FileFollowsTable

\* The rows change in place: none is added, and the hash of each stays.
LEMMA AuditRowsKeep ==
  ASSUME AuditInv, NEW f \in [DOMAIN auditRows -> AuditRow],
         \A i \in DOMAIN auditRows : f[i].hash = auditRows[i].hash,
         auditRows' = [i \in DOMAIN auditRows |-> f[i]],
         hmacKey' = hmacKey, writers' = writers, lines' = lines
  PROVE  AuditInv'
  <1>1. auditRows \in Seq(AuditRow)
    BY DEF AuditInv
  <1>2. DOMAIN auditRows = 1..Len(auditRows) /\ Len(auditRows) \in Nat
    BY <1>1
  <1>3. auditRows' \in Seq(AuditRow) /\ DOMAIN auditRows' = DOMAIN auditRows
    BY <1>2
  <1> QED
    BY <1>3 DEF AuditInv, Audit!FileFollowsTable, Audit!Range, Audit!IsInjective

LEMMA RecordKeeps ==
  ASSUME AuditInv, NEW u \in Users, Audit!Record(u)
  PROVE  AuditInv'
  <1> DEFINE r == [user |-> u, hash |-> Audit!computeRecordHash(u), archived |-> FALSE]
  <1>0. /\ auditRows \in Seq(AuditRow) /\ hmacKey \in Nat /\ Len(auditRows) \in Nat
        /\ DOMAIN auditRows = 1..Len(auditRows)
    BY DEF AuditInv
  <1>1. r \in AuditRow /\ r.hash.key = hmacKey
    BY <1>0 DEF AuditRow, Audit!computeRecordHash
  <1>2. /\ auditRows' = Append(auditRows, r) /\ writers' = writers \union {Len(auditRows) + 1}
        /\ hmacKey' = hmacKey /\ lines' = lines
    BY DEF Audit!Record, Audit!Created
  <1> HIDE DEF r
  <1>3. /\ auditRows' \in Seq(AuditRow) /\ DOMAIN auditRows' = DOMAIN auditRows \union {Len(auditRows) + 1}
        /\ auditRows'[Len(auditRows) + 1] = r
        /\ \A i \in DOMAIN auditRows : auditRows'[i] = auditRows[i]
    BY <1>0, <1>1, <1>2
  <1>4. Len(auditRows) + 1 \notin DOMAIN auditRows
    BY <1>0
  <1>5. \A i \in DOMAIN auditRows' : auditRows'[i].hash.key <= hmacKey'
    BY <1>0, <1>1, <1>2, <1>3 DEF AuditInv
  <1>6. writers' \subseteq DOMAIN auditRows'
    BY <1>2, <1>3 DEF AuditInv
  <1>7. Audit!FileFollowsTable'
    BY <1>2, <1>3, <1>4 DEF AuditInv, Audit!FileFollowsTable, Audit!Range, Audit!IsInjective
  <1> QED
    BY <1>2, <1>3, <1>5, <1>6, <1>7 DEF AuditInv

LEMMA WriteKeeps ==
  ASSUME AuditInv, Audit!Write
  PROVE  AuditInv'
  <1>1. PICK n \in writers : writers' = writers \ {n} /\ lines' \in {lines, Append(lines, n)}
    BY DEF Audit!Write
  <1>2. auditRows' = auditRows /\ hmacKey' = hmacKey
    BY DEF Audit!Write
  <1>3. auditRows \in Seq(AuditRow) /\ lines \in Seq(Nat) /\ n \in DOMAIN auditRows /\ n \in Nat
    BY <1>1 DEF AuditInv
  <1>4. CASE lines' = lines
    BY <1>1, <1>2, <1>4 DEF AuditInv, Audit!FileFollowsTable, Audit!Range, Audit!IsInjective
  <1>5. CASE lines' = Append(lines, n)
    <2>1. /\ lines' \in Seq(Nat) /\ DOMAIN lines' = DOMAIN lines \union {Len(lines) + 1}
          /\ lines'[Len(lines) + 1] = n /\ \A i \in DOMAIN lines : lines'[i] = lines[i]
      BY <1>3, <1>5
    <2>2. \A i \in DOMAIN lines : lines[i] # n /\ lines[i] \in DOMAIN auditRows /\ lines[i] \notin writers
      BY <1>1 DEF AuditInv, Audit!FileFollowsTable, Audit!Range
    <2>3. Audit!IsInjective(lines')
      BY <2>1, <2>2 DEF AuditInv, Audit!FileFollowsTable, Audit!IsInjective
    <2>4. Audit!Range(lines') \subseteq DOMAIN auditRows' /\ Audit!Range(lines') \intersect writers' = {}
      BY <1>1, <1>2, <1>3, <2>1, <2>2 DEF Audit!Range
    <2> QED
      BY <1>1, <1>2, <2>1, <2>3, <2>4 DEF AuditInv, Audit!FileFollowsTable
  <1> QED
    BY <1>1, <1>4, <1>5

LEMMA AuditNextInv ==
  ASSUME AuditInv, [Audit!Next]_(Audit!vars)
  PROVE  AuditInv'
  <1>0. auditRows \in Seq(AuditRow) /\ \A i \in DOMAIN auditRows : auditRows[i] \in AuditRow
    BY DEF AuditInv
  <1>1. ASSUME NEW u \in Users, Audit!DeleteUserData(u)
        PROVE  AuditInv'
    <2> DEFINE f == [i \in DOMAIN auditRows |->
                      IF auditRows[i].user = u THEN [auditRows[i] EXCEPT !.user = Audit!Nobody]
                      ELSE auditRows[i]]
    <2>1. f \in [DOMAIN auditRows -> AuditRow] /\ \A i \in DOMAIN auditRows : f[i].hash = auditRows[i].hash
      BY <1>0 DEF AuditRow
    <2>2. /\ auditRows' = [i \in DOMAIN auditRows |-> f[i]]
          /\ hmacKey' = hmacKey /\ writers' = writers /\ lines' = lines
      BY <1>1 DEF Audit!DeleteUserData
    <2> HIDE DEF f
    <2> QED
      BY <2>1, <2>2, AuditRowsKeep
  <1>2. CASE Audit!Archive
    <2>1. PICK n \in 1..Len(auditRows) : auditRows' =
            [i \in DOMAIN auditRows |-> IF i <= n THEN [auditRows[i] EXCEPT !.archived = TRUE] ELSE auditRows[i]]
      BY <1>2 DEF Audit!Archive
    <2> DEFINE f == [i \in DOMAIN auditRows |->
                      IF i <= n THEN [auditRows[i] EXCEPT !.archived = TRUE] ELSE auditRows[i]]
    <2>2. f \in [DOMAIN auditRows -> AuditRow] /\ \A i \in DOMAIN auditRows : f[i].hash = auditRows[i].hash
      BY <1>0 DEF AuditRow
    <2>3. /\ auditRows' = [i \in DOMAIN auditRows |-> f[i]]
          /\ hmacKey' = hmacKey /\ writers' = writers /\ lines' = lines
      BY <1>2, <2>1 DEF Audit!Archive
    <2> HIDE DEF f
    <2> QED
      BY <2>2, <2>3, AuditRowsKeep
  <1>3. CASE Audit!Restart
    <2>1. /\ auditRows' = auditRows /\ hmacKey' = hmacKey + 1 /\ writers' = {} /\ lines' = lines
      BY <1>3 DEF Audit!Restart
    <2>2. hmacKey \in Nat /\ \A i \in DOMAIN auditRows : auditRows[i].hash.key \in Nat
      BY <1>0 DEF AuditInv, AuditRow
    <2>3. hmacKey' \in Nat /\ \A i \in DOMAIN auditRows' : auditRows'[i].hash.key <= hmacKey'
      BY <2>1, <2>2 DEF AuditInv
    <2> QED
      BY <2>1, <2>3 DEF AuditInv, Audit!FileFollowsTable, Audit!Range, Audit!IsInjective
  <1>4. CASE UNCHANGED Audit!vars
    BY <1>4 DEF AuditInv, Audit!FileFollowsTable, Audit!Range, Audit!IsInjective, Audit!vars
  <1> QED
    BY <1>1, <1>2, <1>3, <1>4, RecordKeeps, WriteKeeps DEF Audit!Next

LEMMA AuditInitInv ==
  ASSUME Audit!Init
  PROVE  AuditInv
  <1>1. auditRows = <<>> /\ hmacKey = 1 /\ writers = {} /\ lines = <<>>
    BY DEF Audit!Init
  <1>2. auditRows \in Seq(AuditRow) /\ lines \in Seq(Nat) /\ DOMAIN auditRows = {} /\ DOMAIN lines = {}
    BY <1>1
  <1> QED
    BY <1>1, <1>2 DEF AuditInv, Audit!FileFollowsTable, Audit!Range, Audit!IsInjective

\* The invariant of the audit log, for any users, page and number of starts.
THEOREM AuditInvariance == Audit!Spec => []AuditInv
  <1>1. Audit!Init => AuditInv
    BY AuditInitInv
  <1>2. AuditInv /\ [Audit!Next]_(Audit!vars) => AuditInv'
    BY AuditNextInv
  <1> QED
    BY <1>1, <1>2, PTL DEF Audit!Spec

\* A row is reported exactly when a field of it was changed after it was recorded or
\* an earlier process recorded it.
LEMMA VerifyRecordIsTrue ==
  ASSUME AuditInv, NEW i \in DOMAIN auditRows
  PROVE  Audit!VerifyRecord(auditRows[i]) <=>
           ~(auditRows[i].user # auditRows[i].hash.user \/ auditRows[i].hash.key < hmacKey)
  <1>0. auditRows[i] \in AuditRow /\ hmacKey \in Nat /\ auditRows[i].hash.key <= hmacKey
    BY DEF AuditInv
  <1>1. auditRows[i].hash \in [user : Users, key : Nat]
    BY <1>0 DEF AuditRow
  <1>2. auditRows[i].hash = [user |-> auditRows[i].hash.user, key |-> auditRows[i].hash.key]
    BY <1>1
  <1>3. Audit!VerifyRecord(auditRows[i]) <=>
          auditRows[i].hash.user = auditRows[i].user /\ auditRows[i].hash.key = hmacKey
    BY <1>2 DEF Audit!VerifyRecord, Audit!computeRecordHash
  <1> QED
    BY <1>0, <1>1, <1>3

\* The verification of the log reports what was changed and what an earlier process
\* wrote, and the file has a line of a row once at most.
THEOREM AuditHoldsCorrect == Audit!Spec => []AuditHolds
  <1>1. AuditInv => AuditHolds
    <2> SUFFICES ASSUME AuditInv PROVE Audit!VerificationIsTrue
      BY DEF AuditInv, AuditHolds
    <2>1. Audit!List(Audit!ActiveRows) \subseteq DOMAIN auditRows
      BY DEF Audit!List, Audit!ActiveRows
    <2> QED
      BY <2>1, VerifyRecordIsTrue DEF Audit!VerificationIsTrue, Audit!failed_ids
  <1> QED
    BY <1>1, AuditInvariance, PTL
-----------------------------------------------------------------------------
(***************************************************************************)
(* Backups of the database.                                                *)
(***************************************************************************)
BackupRow ==
  [pc : {"off", "named", "written", "saved", "listed", "done"}, name : Backup!Times, ok : BOOLEAN,
   list : SUBSET [name : Backup!Times, made : Backup!Times], left : SUBSET Backup!Times,
   since : Backup!Times]

\* What a pass has not removed of its listing is there, as it was listed.
ListingHolds(b) ==
  backup[b].pc = "listed" /\ ~stale[b] =>
    /\ backup[b].left \subseteq Backup!Files
    /\ \A f \in backup[b].list : f.name \in backup[b].left /\ f.made = file[f.name].made

BackupInv ==
  /\ Backup!TypeOK
  /\ \A b \in Actors : backup[b].since <= now /\ ListingHolds(b)

LEMMA BackupCardinality ==
  ASSUME NEW S
  PROVE  Backup!Cardinality(S) = Cardinality(S)
  BY DEF Backup!Cardinality, Cardinality

LEMMA BackupConstants ==
  None \notin Actors /\ Kept \in Int /\ Lifetime \in Int /\ MaxBackupTime \in Nat
  BY PlatformAssumption DEF Backup!BackupAssumption

LEMMA BackupInitInv ==
  ASSUME Backup!Init
  PROVE  BackupInv
  <1>1. Backup!Off \in BackupRow /\ 0 \in Backup!Times
    BY BackupConstants DEF Backup!Off, BackupRow, Backup!Times
  <1>2. Backup!TypeOK
    BY <1>1 DEF Backup!Init, Backup!TypeOK, BackupRow
  <1> QED
    BY <1>2 DEF Backup!Init, BackupInv, ListingHolds, Backup!Off

\* A pass keeps its listing when nothing is written or removed but files of which it is told.
LEMMA OthersListingHolds ==
  ASSUME BackupInv, NEW c \in Actors, backup'[c] = backup[c], now' = now,
         NEW b, b # c, NEW t, Backup!Touches(b, t),
         \A s \in Backup!Times : s # t => file'[s] = file[s]
  PROVE  backup'[c].since <= now' /\ ListingHolds(c)'
  <1>1. backup[c].since <= now /\ ListingHolds(c) /\ backup[c] \in BackupRow
    BY DEF BackupInv, Backup!TypeOK, BackupRow
  <1>2. SUFFICES ASSUME backup[c].pc = "listed", ~stale'[c]
                 PROVE  /\ backup[c].left \subseteq Backup!Files'
                        /\ \A f \in backup[c].list :
                             f.name \in backup[c].left /\ f.made = file'[f.name].made
    BY <1>1 DEF ListingHolds
  <1>3. ~stale[c] /\ t \notin backup[c].left
    BY <1>2 DEF Backup!Touches
  <1>4. backup[c].left \subseteq Backup!Files /\ backup[c].left \subseteq Backup!Times
    BY <1>1, <1>2, <1>3 DEF ListingHolds, BackupRow
  <1>5. \A s \in backup[c].left : file'[s] = file[s]
    BY <1>3, <1>4
  <1> QED
    BY <1>1, <1>2, <1>3, <1>4, <1>5 DEF ListingHolds, Backup!Files

LEMMA ListingStays ==
  ASSUME BackupInv, NEW c \in Actors, backup'[c] = backup[c] \/ backup'[c].pc # "listed",
         backup'[c].since = backup[c].since, now <= now', now' \in Nat,
         UNCHANGED file, stale'[c] = stale[c]
  PROVE  backup'[c].since <= now' /\ ListingHolds(c)'
  <1>1. backup[c].since <= now /\ ListingHolds(c) /\ backup[c] \in BackupRow /\ now \in Nat
    BY BackupConstants DEF BackupInv, Backup!TypeOK, BackupRow, Backup!Times
  <1>2. backup[c].since \in Nat
    BY <1>1, BackupConstants DEF BackupRow, Backup!Times
  <1>3. backup'[c].since <= now'
    BY <1>1, <1>2
  <1> QED
    BY <1>1, <1>3 DEF ListingHolds, Backup!Files

LEMMA TickKeepsBackups ==
  ASSUME BackupInv, Backup!Tick
  PROVE  BackupInv'
  <1>1. now \in Nat /\ now' = now + 1 /\ now' \in Backup!Times
    BY BackupConstants DEF BackupInv, Backup!TypeOK, Backup!Tick, Backup!Times
  <1>2. Backup!TypeOK'
    BY <1>1 DEF BackupInv, Backup!TypeOK, Backup!Tick, Backup!Files
  <1>3. \A c \in Actors : backup'[c].since <= now' /\ ListingHolds(c)'
    BY <1>1, ListingStays DEF Backup!Tick
  <1> QED
    BY <1>2, <1>3 DEF BackupInv

\* Steps of a backup that has no listing, and write no file.
LEMMA QuietStep ==
  ASSUME BackupInv, NEW b \in Actors, NEW r \in BackupRow, Backup!Becomes(b, r),
         r.pc # "listed", r.since <= now, UNCHANGED <<now, file, stale>>,
         (cloud \in [Backup!Times -> [by : Actors, put : Backup!Times] \union {None}])',
         (backupRecord \in [Actors -> [completed : BOOLEAN, name : Backup!Times,
                                       uploaded : BOOLEAN] \union {None}])'
  PROVE  BackupInv'
  <1>1. Backup!TypeOK'
    BY DEF BackupInv, Backup!TypeOK, Backup!Becomes, BackupRow
  <1>2. ASSUME NEW c \in Actors
        PROVE  backup'[c].since <= now' /\ ListingHolds(c)'
    <2>1. CASE c = b
      BY <2>1 DEF ListingHolds, Backup!Becomes, BackupInv, Backup!TypeOK
    <2>2. CASE c # b
      BY <2>2, ListingStays, BackupConstants
         DEF Backup!Becomes, BackupInv, Backup!TypeOK, Backup!Times
    <2> QED
      BY <2>1, <2>2
  <1> QED
    BY <1>1, <1>2 DEF BackupInv

LEMMA CreateBackupKeeps ==
  ASSUME BackupInv, NEW b \in Actors, Backup!CreateBackup(b)
  PROVE  BackupInv'
  <1> DEFINE r == [Backup!Off EXCEPT !.pc = "named", !.name = now]
  <1>0. now \in Backup!Times /\ 0 \in Backup!Times /\ 0 <= now
    BY BackupConstants DEF BackupInv, Backup!TypeOK, Backup!Times
  <1>3. Backup!Off \in BackupRow /\ Backup!Off.since = 0
    BY <1>0 DEF Backup!Off, BackupRow
  <1>1. r \in BackupRow /\ r.pc # "listed" /\ r.since <= now
    BY <1>0, <1>3 DEF BackupRow
  <1>2. Backup!Becomes(b, r) /\ UNCHANGED <<now, file, stale, cloud, backupRecord>>
    BY DEF Backup!CreateBackup
  <1> HIDE DEF r
  <1> QED
    BY <1>1, <1>2, QuietStep DEF BackupInv, Backup!TypeOK

LEMMA WriteBackupKeeps ==
  ASSUME BackupInv, NEW b \in Actors, Backup!WriteBackup(b)
  PROVE  BackupInv'
  <1> DEFINE r == [backup[b] EXCEPT !.pc = "written", !.ok = TRUE]
             q == [backup[b] EXCEPT !.pc = "written"]
             t == backup[b].name
             new == [by |-> b, made |-> now, raw |-> file[t] # None]
  <1>1. backup[b] \in BackupRow /\ backup[b].since <= now
    BY DEF BackupInv, Backup!TypeOK, BackupRow
  <1>2. /\ r \in BackupRow /\ r.pc = "written" /\ r.since <= now
        /\ q \in BackupRow /\ q.pc = "written" /\ q.since <= now
    BY <1>1 DEF BackupRow
  <1>3. new \in [by : Actors, made : Backup!Times, raw : BOOLEAN]
    BY DEF BackupInv, Backup!TypeOK
  <1>4. CASE Backup!Becomes(b, q) /\ UNCHANGED <<now, file, stale, cloud, backupRecord>>
    <2> HIDE DEF q
    <2> QED
      BY <1>2, <1>4, QuietStep DEF BackupInv, Backup!TypeOK
  <1>5. CASE /\ file' = [file EXCEPT ![t] = new]
             /\ Backup!Becomes(b, r) /\ Backup!Touches(b, t)
             /\ UNCHANGED <<now, cloud, backupRecord>>
    <2> HIDE DEF r, new
    <2>1. Backup!TypeOK'
      BY <1>2, <1>3, <1>5 DEF BackupInv, Backup!TypeOK, Backup!Becomes, Backup!Touches, BackupRow
    <2>2. ASSUME NEW c \in Actors, c # b
          PROVE  backup'[c].since <= now' /\ ListingHolds(c)'
      <3>1. backup'[c] = backup[c] /\ \A s \in Backup!Times : s # t => file'[s] = file[s]
        BY <1>5, <2>2 DEF BackupInv, Backup!TypeOK, Backup!Becomes
      <3> QED
        BY <1>5, <2>2, <3>1, OthersListingHolds
    <2>3. backup'[b].since <= now' /\ ListingHolds(b)'
      BY <1>2, <1>5 DEF BackupInv, Backup!TypeOK, Backup!Becomes, ListingHolds
    <2> QED
      BY <2>1, <2>2, <2>3 DEF BackupInv
  <1>6. (Backup!Becomes(b, q) /\ UNCHANGED <<now, file, stale, cloud, backupRecord>>)
          \/ (/\ file' = [file EXCEPT ![t] = new]
              /\ Backup!Becomes(b, r) /\ Backup!Touches(b, t)
              /\ UNCHANGED <<now, cloud, backupRecord>>)
    BY DEF Backup!WriteBackup, Backup!Goto
  <1> QED
    BY <1>4, <1>5, <1>6

LEMMA SaveBackupKeeps ==
  ASSUME BackupInv, NEW b \in Actors, Backup!saveRecord(b)
  PROVE  BackupInv'
  <1> DEFINE r == [backup[b] EXCEPT !.pc = IF backup[b].ok THEN "saved" ELSE "done"]
             kept == [completed |-> backup[b].ok, name |-> backup[b].name, uploaded |-> FALSE]
  <1>1. backup[b] \in BackupRow /\ backup[b].since <= now
    BY DEF BackupInv, Backup!TypeOK, BackupRow
  <1>2. r \in BackupRow /\ r.pc # "listed" /\ r.since <= now
    BY <1>1 DEF BackupRow
  <1>3. kept \in [completed : BOOLEAN, name : Backup!Times, uploaded : BOOLEAN]
    BY <1>1 DEF BackupRow
  <1>4. Backup!Becomes(b, r) /\ UNCHANGED <<now, file, stale, cloud>>
        /\ (backupRecord' = [backupRecord EXCEPT ![b] = kept] \/ UNCHANGED backupRecord)
    BY DEF Backup!saveRecord, Backup!Goto
  <1> HIDE DEF r, kept
  <1> QED
    BY <1>2, <1>3, <1>4, QuietStep DEF BackupInv, Backup!TypeOK

\* A listing is of what is there.
LEMMA ListBackupsKeeps ==
  ASSUME BackupInv, NEW b \in Actors, Backup!ListBackups(b)
  PROVE  BackupInv'
  <1> DEFINE list == {[name |-> t, made |-> file[t].made] : t \in Backup!Listed}
             r == [backup[b] EXCEPT !.pc = "listed", !.left = Backup!Listed, !.since = now, !.list = list]
  <1>1. backup[b] \in BackupRow /\ now \in Backup!Times /\ now <= now
    BY BackupConstants DEF BackupInv, Backup!TypeOK, BackupRow, Backup!Times
  <1>2. Backup!Listed \subseteq Backup!Files /\ Backup!Listed \subseteq Backup!Times
    BY DEF Backup!Listed, Backup!Files
  <1>3. \A t \in Backup!Listed : file[t].made \in Backup!Times
    BY <1>2 DEF BackupInv, Backup!TypeOK, Backup!Files
  <1>4. list \in SUBSET [name : Backup!Times, made : Backup!Times]
    BY <1>2, <1>3
  <1>5. \A f \in list : f.name \in Backup!Listed /\ f.made = file[f.name].made
    OBVIOUS
  <1>6. UNCHANGED <<now, file, cloud, backupRecord>> /\ Backup!Becomes(b, r)
        /\ stale' = [stale EXCEPT ![b] = FALSE]
    BY DEF Backup!ListBackups
  <1> HIDE DEF list
  <1>7. r \in BackupRow /\ r.left = Backup!Listed /\ r.list = list /\ r.since = now
    BY <1>1, <1>2, <1>4 DEF BackupRow
  <1> HIDE DEF r
  <1>8. Backup!TypeOK'
    BY <1>6, <1>7 DEF BackupInv, Backup!TypeOK, Backup!Becomes, BackupRow
  <1>9. ASSUME NEW c \in Actors
        PROVE  backup'[c].since <= now' /\ ListingHolds(c)'
    <2>1. CASE c = b
      <3>1. backup'[c] = r
        BY <1>6, <2>1 DEF BackupInv, Backup!TypeOK, Backup!Becomes
      <3> QED
        BY <1>1, <1>2, <1>5, <1>6, <1>7, <3>1 DEF ListingHolds, Backup!Files
    <2>2. CASE c # b
      <3>1. backup'[c] = backup[c] /\ stale'[c] = stale[c] /\ now' \in Nat /\ now <= now'
        BY <1>1, <1>6, <2>2, BackupConstants
           DEF Backup!Becomes, BackupInv, Backup!TypeOK, Backup!Times
      <3> QED
        BY <1>6, <3>1, ListingStays
    <2> QED
      BY <2>1, <2>2
  <1> QED
    BY <1>8, <1>9 DEF BackupInv

LEMMA ApplyRetentionKeeps ==
  ASSUME BackupInv, NEW b \in Actors, Backup!ApplyRetention(b)
  PROVE  BackupInv'
  <1>1. backup[b] \in BackupRow /\ backup[b].since <= now /\ ListingHolds(b)
    BY DEF BackupInv, Backup!TypeOK, BackupRow
  <1>2. PICK f \in Backup!Oldest(backup[b]) :
          \/ /\ Backup!Exceeds(backup[b], f) /\ file[f.name] # None
             /\ Backup!Removed(b, f.name)
             /\ Backup!Becomes(b, [backup[b] EXCEPT !.list = @ \ {f}, !.left = @ \ {f.name}])
          \/ /\ Backup!Becomes(b, [backup[b] EXCEPT !.list = @ \ {f}])
             /\ UNCHANGED <<file, stale>>
    BY DEF Backup!ApplyRetention
  <1>3. UNCHANGED <<now, cloud, backupRecord>> /\ backup[b].pc = "listed"
    BY DEF Backup!ApplyRetention
  <1>4. f \in backup[b].list /\ f.name \in Backup!Times
    BY <1>1 DEF Backup!Oldest, BackupRow
  <1>5. CASE /\ Backup!Removed(b, f.name)
             /\ Backup!Becomes(b, [backup[b] EXCEPT !.list = @ \ {f}, !.left = @ \ {f.name}])
    <2> DEFINE r == [backup[b] EXCEPT !.list = @ \ {f}, !.left = @ \ {f.name}]
    <2>1. /\ r \in BackupRow /\ r.list = backup[b].list \ {f} /\ r.left = backup[b].left \ {f.name}
          /\ r.since = backup[b].since
      BY <1>1 DEF BackupRow
    <2> HIDE DEF r
    <2>2. /\ backup' = [backup EXCEPT ![b] = r] /\ file' = [file EXCEPT ![f.name] = None]
          /\ Backup!Touches(b, f.name)
      BY <1>5 DEF r, Backup!Becomes, Backup!Removed
    <2>3. Backup!TypeOK'
      BY <1>3, <2>1, <2>2 DEF BackupInv, Backup!TypeOK, Backup!Touches, BackupRow
    <2>4. ASSUME NEW c \in Actors, c # b
          PROVE  backup'[c].since <= now' /\ ListingHolds(c)'
      <3>1. backup'[c] = backup[c] /\ \A s \in Backup!Times : s # f.name => file'[s] = file[s]
        BY <2>2, <2>4 DEF BackupInv, Backup!TypeOK
      <3> QED
        BY <1>3, <2>2, <2>4, <3>1, OthersListingHolds
    <2>5. backup'[b] = r /\ stale'[b] = stale[b]
      BY <2>2 DEF BackupInv, Backup!TypeOK, Backup!Touches
    <2>6. \A s \in Backup!Times : s # f.name => file'[s] = file[s]
      BY <2>2 DEF BackupInv, Backup!TypeOK
    <2>7. \A g \in [name : Backup!Times, made : Backup!Times] :
            g.name = f.name /\ g.made = f.made => g = f
      BY <1>1, <1>4 DEF BackupRow
    <2>8. ASSUME ~stale[b]
          PROVE  /\ r.left \subseteq Backup!Files'
                 /\ \A g \in r.list : g.name \in r.left /\ g.made = file'[g.name].made
      <3>1. /\ backup[b].left \subseteq Backup!Files
            /\ \A g \in backup[b].list : g.name \in backup[b].left /\ g.made = file[g.name].made
        BY <1>1, <1>3, <2>8 DEF ListingHolds
      <3>2. ASSUME NEW g \in r.list
            PROVE  g.name \in r.left /\ g.made = file'[g.name].made
        <4>1. g \in backup[b].list /\ g # f /\ g \in [name : Backup!Times, made : Backup!Times]
          BY <1>1, <2>1 DEF BackupRow
        <4>2. g.name # f.name
          BY <1>4, <2>7, <3>1, <4>1
        <4> QED
          BY <2>1, <2>6, <3>1, <4>1, <4>2
      <3>3. r.left \subseteq Backup!Files'
        BY <2>1, <2>6, <3>1 DEF Backup!Files
      <3> QED
        BY <3>2, <3>3
    <2>9. backup'[b].since <= now' /\ ListingHolds(b)'
      BY <1>1, <1>3, <2>1, <2>5, <2>8 DEF ListingHolds
    <2> QED
      BY <2>3, <2>4, <2>9 DEF BackupInv
  <1>6. CASE Backup!Becomes(b, [backup[b] EXCEPT !.list = @ \ {f}]) /\ UNCHANGED <<file, stale>>
    <2> DEFINE r == [backup[b] EXCEPT !.list = @ \ {f}]
    <2>1. /\ r \in BackupRow /\ r.list \subseteq backup[b].list /\ r.left = backup[b].left
          /\ r.since = backup[b].since
      BY <1>1 DEF BackupRow
    <2> HIDE DEF r
    <2>2. backup' = [backup EXCEPT ![b] = r]
      BY <1>6 DEF r, Backup!Becomes
    <2>3. Backup!TypeOK'
      BY <1>3, <1>6, <2>1, <2>2 DEF BackupInv, Backup!TypeOK, BackupRow
    <2>4. ASSUME NEW c \in Actors, c # b
          PROVE  backup'[c].since <= now' /\ ListingHolds(c)'
      BY <1>3, <1>6, <2>2, <2>4, ListingStays, BackupConstants
         DEF BackupInv, Backup!TypeOK, Backup!Times
    <2>5. backup'[b] = r
      BY <2>2 DEF BackupInv, Backup!TypeOK
    <2>6. backup'[b].since <= now' /\ ListingHolds(b)'
      BY <1>1, <1>3, <1>6, <2>1, <2>5 DEF ListingHolds, Backup!Files
    <2> QED
      BY <2>3, <2>4, <2>6 DEF BackupInv
  <1> QED
    BY <1>2, <1>5, <1>6

LEMMA UploadKeeps ==
  ASSUME BackupInv, NEW b \in Actors, Backup!uploadToCloud(b)
  PROVE  BackupInv'
  <1> DEFINE r == [backup[b] EXCEPT !.pc = "done", !.left = {}]
             t == backup[b].name
             put == [by |-> file[t].by, put |-> now]
             marked == IF backupRecord[b] = None THEN None
                       ELSE [backupRecord[b] EXCEPT !.uploaded = TRUE]
  <1>1. backup[b] \in BackupRow /\ backup[b].since <= now /\ now \in Backup!Times
    BY DEF BackupInv, Backup!TypeOK, BackupRow
  <1>2. r \in BackupRow /\ r.pc # "listed" /\ r.since <= now /\ t \in Backup!Times
    BY <1>1 DEF BackupRow
  <1>3. file[t] # None => put \in [by : Actors, put : Backup!Times]
    BY <1>1, <1>2 DEF BackupInv, Backup!TypeOK
  <1>4. marked \in [completed : BOOLEAN, name : Backup!Times, uploaded : BOOLEAN] \union {None}
    BY DEF BackupInv, Backup!TypeOK
  <1>5. /\ Backup!Becomes(b, r) /\ UNCHANGED <<now, file, stale>>
        /\ \/ file[t] # None /\ cloud' = [cloud EXCEPT ![t] = put]
              /\ backupRecord' = [backupRecord EXCEPT ![b] = marked]
           \/ UNCHANGED <<cloud, backupRecord>>
    BY DEF Backup!uploadToCloud, BackupInv, Backup!TypeOK
  <1> HIDE DEF r, put, marked
  <1>6. (cloud \in [Backup!Times -> [by : Actors, put : Backup!Times] \union {None}])'
    BY <1>2, <1>3, <1>5 DEF BackupInv, Backup!TypeOK, Backup!Times
  <1>7. (backupRecord \in [Actors -> [completed : BOOLEAN, name : Backup!Times,
                                      uploaded : BOOLEAN] \union {None}])'
    BY <1>4, <1>5 DEF BackupInv, Backup!TypeOK, Backup!Times
  <1> QED
    BY <1>2, <1>5, <1>6, <1>7, QuietStep

\* What no backup does itself: deletions and downloads.
LEMMA OthersFile ==
  ASSUME BackupInv, NEW t \in Backup!Times, Backup!Touches(None, t), UNCHANGED <<now, backup>>,
         NEW new \in [by : Actors, made : Backup!Times, raw : BOOLEAN] \union {None},
         file' = [file EXCEPT ![t] = new],
         (cloud \in [Backup!Times -> [by : Actors, put : Backup!Times] \union {None}])',
         (backupRecord \in [Actors -> [completed : BOOLEAN, name : Backup!Times,
                                       uploaded : BOOLEAN] \union {None}])'
  PROVE  BackupInv'
  <1>1. Backup!TypeOK'
    BY DEF BackupInv, Backup!TypeOK, Backup!Touches
  <1>2. \A s \in Backup!Times : s # t => file'[s] = file[s]
    BY DEF BackupInv, Backup!TypeOK
  <1>3. \A c \in Actors : backup'[c].since <= now' /\ ListingHolds(c)'
    BY <1>2, BackupConstants, OthersListingHolds
  <1> QED
    BY <1>1, <1>3 DEF BackupInv

\* Steps that change neither the files nor the backups in progress.
LEMMA FilesAlone ==
  ASSUME BackupInv, UNCHANGED <<now, file, backup, stale>>,
         (cloud \in [Backup!Times -> [by : Actors, put : Backup!Times] \union {None}])',
         (backupRecord \in [Actors -> [completed : BOOLEAN, name : Backup!Times,
                                       uploaded : BOOLEAN] \union {None}])'
  PROVE  BackupInv'
  BY DEF BackupInv, Backup!TypeOK, ListingHolds, Backup!Files

LEMMA DeleteBackupKeeps ==
  ASSUME BackupInv, NEW b \in Actors, Backup!DeleteRecord(b)
  PROVE  BackupInv'
  <1>1. /\ backupRecord[b].name \in Backup!Times /\ UNCHANGED <<now, cloud, backup>>
        /\ (backupRecord' = [backupRecord EXCEPT ![b] = None] \/ UNCHANGED backupRecord)
    BY DEF Backup!DeleteRecord, BackupInv, Backup!TypeOK
  <1>2. (backupRecord \in [Actors -> [completed : BOOLEAN, name : Backup!Times,
                                      uploaded : BOOLEAN] \union {None}])'
    BY <1>1 DEF BackupInv, Backup!TypeOK
  <1>3. CASE Backup!Removed(None, backupRecord[b].name)
    BY <1>1, <1>2, <1>3, OthersFile DEF Backup!Removed, BackupInv, Backup!TypeOK
  <1>4. CASE UNCHANGED <<file, stale>>
    BY <1>1, <1>2, <1>4, FilesAlone DEF BackupInv, Backup!TypeOK
  <1> QED
    BY <1>3, <1>4 DEF Backup!DeleteRecord

LEMMA DownloadKeeps ==
  ASSUME BackupInv, NEW b \in Actors, Backup!DownloadFromCloud(b)
  PROVE  BackupInv'
  <1> DEFINE t == backupRecord[b].name
             new == [by |-> cloud[t].by, made |-> now, raw |-> FALSE]
  <1>1. /\ t \in Backup!Times /\ UNCHANGED <<now, cloud, backupRecord, backup>>
        /\ file' = [file EXCEPT ![t] = new] /\ Backup!Touches(None, t) /\ cloud[t] # None
    BY DEF Backup!DownloadFromCloud, BackupInv, Backup!TypeOK
  <1>2. new \in [by : Actors, made : Backup!Times, raw : BOOLEAN]
    BY <1>1 DEF BackupInv, Backup!TypeOK
  <1> HIDE DEF new, t
  <1> QED
    BY <1>1, <1>2, OthersFile DEF BackupInv, Backup!TypeOK

LEMMA CloudRetentionKeeps ==
  ASSUME BackupInv, Backup!ApplyCloudRetention
  PROVE  BackupInv'
  <1>1. (cloud \in [Backup!Times -> [by : Actors, put : Backup!Times] \union {None}])'
    BY DEF Backup!ApplyCloudRetention, BackupInv, Backup!TypeOK
  <1> QED
    BY <1>1, FilesAlone DEF Backup!ApplyCloudRetention, BackupInv, Backup!TypeOK

LEMMA BackupStepKeeps ==
  ASSUME BackupInv, [Backup!Next]_backupVars
  PROVE  BackupInv'
  <1>1. CASE UNCHANGED backupVars
    BY <1>1, FilesAlone DEF backupVars, BackupInv, Backup!TypeOK
  <1>2. CASE Backup!Next
    BY <1>2, TickKeepsBackups, CloudRetentionKeeps, CreateBackupKeeps, WriteBackupKeeps,
       SaveBackupKeeps, ListBackupsKeeps, ApplyRetentionKeeps, UploadKeeps, DeleteBackupKeeps,
       DownloadKeeps DEF Backup!Next
  <1> QED
    BY <1>1, <1>2

\* What a pass has not removed of a listing that no other has touched is there,
\* with the times the listing has.
THEOREM BackupInvariance == Backup!Spec => []BackupInv
  <1>1. Backup!Init => BackupInv
    BY BackupInitInv
  <1>2. BackupInv /\ [Backup!Next]_(Backup!vars) => BackupInv'
    BY BackupStepKeeps DEF Backup!vars, backupVars
  <1> QED
    BY <1>1, <1>2, PTL DEF Backup!Spec

\* What a pass takes away is one of its listing that exceeds the count or the age.
LEMMA OnlyExcessGoes ==
  ASSUME BackupInv, Backup!Next, NEW b \in Actors, backup[b].pc = "listed", ~stale[b],
         NEW t \in Backup!Files, file'[t] = None, backup'[b] # backup[b]
  PROVE  \E f \in backup[b].list : f.name = t /\ Backup!Exceeds(backup[b], f)
  <1>1. t \in Backup!Times /\ file[t] # None
    BY DEF Backup!Files
  <1>2. file' # file
    BY <1>1
  <1>3. \E c \in Actors : Backup!WriteBackup(c) \/ Backup!ApplyRetention(c)
    BY <1>2 DEF Backup!Next, Backup!Tick, Backup!ApplyCloudRetention, Backup!CreateBackup,
                Backup!saveRecord, Backup!ListBackups, Backup!uploadToCloud,
                Backup!DeleteRecord, Backup!DownloadFromCloud
  <1>4. PICK c \in Actors : Backup!WriteBackup(c) \/ Backup!ApplyRetention(c)
    BY <1>3
  <1>5. c = b
    BY <1>4 DEF Backup!WriteBackup, Backup!ApplyRetention, Backup!Becomes, Backup!Goto,
                BackupInv, Backup!TypeOK
  <1>6. Backup!ApplyRetention(b)
    BY <1>4, <1>5 DEF Backup!WriteBackup
  <1>7. PICK f \in Backup!Oldest(backup[b]) :
          Backup!Exceeds(backup[b], f) /\ file' = [file EXCEPT ![f.name] = None]
    BY <1>2, <1>6 DEF Backup!ApplyRetention, Backup!Removed
  <1>8. f.name = t
    BY <1>1, <1>7 DEF BackupInv, Backup!TypeOK
  <1> QED
    BY <1>7, <1>8 DEF Backup!Oldest

LEMMA RetentionStepHolds ==
  ASSUME BackupInv, [Backup!Next]_backupVars
  PROVE  [Backup!RetentionStep]_backupVars
  <1>1. SUFFICES ASSUME Backup!Next, NEW b \in Actors, backup[b].pc = "listed", ~stale[b],
                        NEW t \in Backup!Files, file'[t] = None, backup'[b] # backup[b]
                 PROVE  \/ Kept > 0 /\ Backup!Cardinality(Backup!Files) > Kept
                        \/ Lifetime > 0 /\ file[t].made + Lifetime < now
    BY DEF Backup!RetentionStep
  <1>2. PICK f \in backup[b].list : f.name = t /\ Backup!Exceeds(backup[b], f)
    BY <1>1, OnlyExcessGoes
  <1>3. /\ backup[b].left \subseteq Backup!Files /\ f.made = file[t].made
        /\ backup[b].since <= now
    BY <1>1, <1>2 DEF BackupInv, ListingHolds
  <1>4. f.made \in Int /\ now \in Int /\ backup[b].since \in Int
    BY BackupConstants DEF BackupInv, Backup!TypeOK, Backup!Times
  <1>5. CASE Lifetime > 0 /\ f.made + Lifetime < backup[b].since
    BY <1>3, <1>4, <1>5, BackupConstants
  <1>6. CASE Kept > 0 /\ Backup!Cardinality(backup[b].left) > Kept
    <2>1. IsFiniteSet(Backup!Files)
      <3>1. IsFiniteSet(0..MaxBackupTime)
        BY FS_Interval, BackupConstants
      <3> QED
        BY <3>1, FS_Subset DEF Backup!Files, Backup!Times
    <2>2. /\ Cardinality(backup[b].left) <= Cardinality(Backup!Files)
          /\ IsFiniteSet(backup[b].left)
      BY <1>3, <2>1, FS_Subset
    <2>3. Cardinality(backup[b].left) \in Nat /\ Cardinality(Backup!Files) \in Nat
      BY <2>1, <2>2, FS_CardinalityType
    <2> QED
      BY <1>6, <2>2, <2>3, BackupCardinality, BackupConstants
  <1> QED
    BY <1>2, <1>5, <1>6 DEF Backup!Exceeds

\* Retention removes a backup only while more than RetentionCount are left or when it
\* is over age, unless another removed or wrote a file of the pass's listing.
THEOREM RetentionKeepsCorrect == Backup!Spec => RetentionKeeps
  <1>1. BackupInv /\ [Backup!Next]_(Backup!vars) => [Backup!RetentionStep]_backupVars
    BY RetentionStepHolds DEF Backup!vars, backupVars
  <1> QED
    BY <1>1, BackupInvariance, PTL DEF Backup!Spec, RetentionKeeps
=============================================================================
