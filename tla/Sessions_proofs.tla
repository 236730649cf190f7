-------------------------- MODULE Sessions_proofs ---------------------------
(***************************************************************************)
(* Proofs about who is logged in and how often anybody may try: LoginGuard, *)
(* RateLimits, Sessions and WebSession.  Each has an inductive invariant,  *)
(* named for it.                                                           *)
(***************************************************************************)
EXTENDS Platform, Integers, FiniteSets, FiniteSetTheorems, Sequences, SequenceTheorems,
        WellFoundedInduction, TLAPS
-----------------------------------------------------------------------------
(***************************************************************************)
(* The protection of the login.                                            *)
(***************************************************************************)
Guarded == [attempts : Seq(1..Window), lock : 0..Lockout]

InOrder(a) == \A i, j \in DOMAIN a : i <= j => a[i] <= a[j]

\* An account with too many attempts is locked for as long as they count.
Outlasts(s) ==
  Len(s.attempts) >= MaxAttempts => \A i \in DOMAIN s.attempts : s.attempts[i] <= s.lock

Protected(s) == s \in Guarded /\ InOrder(s.attempts) /\ Outlasts(s)

LoginInv ==
  /\ accounts \in [Users -> Guarded]
  /\ \A u \in Users : Protected(accounts[u])
  /\ login \in [Actors -> [user : Users, ip : IPs] \union {None}]
  /\ Login!GuessesBounded

LEMMA LoginCardinality ==
  ASSUME NEW S
  PROVE  Login!Cardinality(S) = Cardinality(S) /\ (Login!IsFiniteSet(S) <=> IsFiniteSet(S))
  <1>1. Login!Cardinality(S) = Cardinality(S)
    BY DEF Login!Cardinality, Cardinality
  <1>2. Login!IsFiniteSet(S) <=> IsFiniteSet(S)
    BY DEF Login!IsFiniteSet, IsFiniteSet
  <1> QED
    BY <1>1, <1>2

LEMMA LoginConstants ==
  /\ IsFiniteSet(Actors) /\ MaxAttempts \in Nat /\ MaxAttempts > 0 /\ Window \in Nat /\ Window > 0
  /\ Lockout \in Nat /\ Window <= Lockout
  BY PlatformAssumption, LoginCardinality DEF Login!LoginAssumption

LEMMA ClearIsProtected == Protected(Login!Clear) /\ Len(Login!Clear.attempts) = 0
  <1>1. Login!Clear.attempts = <<>> /\ Login!Clear.lock = 0 /\ Login!Clear \in Guarded
    BY LoginConstants DEF Login!Clear, Guarded
  <1> QED
    BY <1>1, LoginConstants DEF Protected, InOrder, Outlasts

\* One more attempt, which counts longest.
LEMMA FailureKeeps ==
  ASSUME NEW s, Protected(s)
  PROVE  LET f == Login!Failure(s, MaxAttempts, Lockout)
         IN  Protected(f) /\ Len(f.attempts) = Len(s.attempts) + 1
  <1> DEFINE f == Login!Failure(s, MaxAttempts, Lockout)
  <1> DEFINE a == Append(s.attempts, Window)
  <1>1. s.attempts \in Seq(1..Window) /\ s.lock \in 0..Lockout /\ Window \in 1..Window /\ Lockout \in 0..Lockout
    BY LoginConstants DEF Protected, Guarded
  <1>2. /\ a \in Seq(1..Window) /\ Len(a) = Len(s.attempts) + 1 /\ Len(s.attempts) \in Nat
        /\ DOMAIN a = 1..Len(a) /\ DOMAIN s.attempts = 1..Len(s.attempts)
        /\ \A i \in 1..Len(s.attempts) : a[i] = s.attempts[i]
        /\ a[Len(a)] = Window
    BY <1>1
  <1>3. \A i \in DOMAIN a : a[i] \in 1..Window
    BY <1>2
  <1> HIDE DEF a
  <1>4. InOrder(a)
    <2> SUFFICES ASSUME NEW i \in DOMAIN a, NEW j \in DOMAIN a, i <= j
                 PROVE  a[i] <= a[j]
      BY DEF InOrder
    <2>1. CASE j = Len(a)
      BY <1>2, <1>3, <2>1, LoginConstants
    <2>2. CASE j # Len(a)
      <3>1. i \in 1..Len(s.attempts) /\ j \in 1..Len(s.attempts)
        BY <1>2, <2>2
      <3> QED
        BY <1>2, <3>1 DEF Protected, InOrder
    <2> QED
      BY <2>1, <2>2
  <1>5. f.attempts = a /\ f.lock = (IF Len(a) >= MaxAttempts THEN Lockout ELSE s.lock)
        /\ f = [attempts |-> f.attempts, lock |-> f.lock]
    BY DEF Login!Failure, a
  <1> HIDE DEF f
  <1>6. f.lock \in 0..Lockout
    BY <1>1, <1>5
  <1>7. f \in Guarded
    BY <1>2, <1>5, <1>6 DEF Guarded
  <1>8. Outlasts(f)
    BY <1>2, <1>3, <1>5, LoginConstants DEF Outlasts
  <1> QED
    BY <1>2, <1>4, <1>5, <1>7, <1>8 DEF Protected, f

\* Of attempts in order, those whose time is over are the first ones.
LEMMA GoneComeFirst ==
  ASSUME NEW a \in Seq(1..Window), InOrder(a)
  PROVE  \E n \in 0..Len(a) : \A i \in DOMAIN a : a[i] > 1 <=> i > n
  <1> DEFINE P == {n \in 0..Len(a) : \A i \in DOMAIN a : i > n => a[i] > 1}
             Less == {x \in Nat \X Nat : x[1] < x[2]}
  <1>0. Len(a) \in Nat /\ DOMAIN a = 1..Len(a) /\ \A i \in DOMAIN a : a[i] \in 1..Window
    BY ElementOfSeq, LenProperties
  <1>1. Len(a) \in P /\ P \subseteq Nat
    BY <1>0
  <1>2. Less = OpToRel(<, Nat)
    BY DEF OpToRel
  <1>3. IsWellFoundedOn(Less, Nat)
    BY <1>2, NatLessThanWellFounded
  <1>9. \A x, y \in Nat : ~(<<y, x>> \in Less) => x <= y
    OBVIOUS
  <1>4. PICK n \in P : \A m \in P : ~(<<m, n>> \in Less)
    <2> HIDE DEF P, Less
    <2> QED
      BY <1>1, <1>3, WFMin
  <1>5. \A m \in P : n <= m
    <2> HIDE DEF P, Less
    <2> QED
      BY <1>1, <1>4, <1>9
  <1>6. ASSUME NEW i \in DOMAIN a, i <= n
        PROVE  ~(a[i] > 1)
    <2>1. n - 1 \in 0..Len(a) /\ n - 1 \notin P /\ n \in DOMAIN a
      BY <1>0, <1>5, <1>6
    <2>2. PICK j \in DOMAIN a : j > n - 1 /\ ~(a[j] > 1)
      BY <2>1
    <2>3. j = n
      BY <1>0, <1>4, <2>1, <2>2
    <2> QED
      BY <1>0, <1>6, <2>1, <2>2, <2>3, LoginConstants DEF InOrder
  <1>7. n \in 0..Len(a)
    OBVIOUS
  <1>8. \A i \in DOMAIN a : a[i] > 1 <=> i > n
    BY <1>0, <1>6, <1>7
  <1> QED
    BY <1>7, <1>8

LEMMA OlderKeeps ==
  ASSUME NEW s, Protected(s)
  PROVE  Protected(Login!Older(s)) /\ Len(Login!Older(s).attempts) <= Len(s.attempts)
  <1> DEFINE a == s.attempts
             o == Login!Older(s)
             gone == CHOOSE n \in 0..Len(a) : \A i \in DOMAIN a : a[i] > 1 <=> i > n
             b == [i \in 1..Len(a) - gone |-> a[gone + i] - 1]
  <1>1. a \in Seq(1..Window) /\ InOrder(a) /\ s.lock \in 0..Lockout
    BY DEF Protected, Guarded
  <1>2. Len(a) \in Nat /\ DOMAIN a = 1..Len(a) /\ \A i \in DOMAIN a : a[i] \in 1..Window
    BY <1>1, ElementOfSeq, LenProperties
  <1>3. gone \in 0..Len(a) /\ \A i \in DOMAIN a : a[i] > 1 <=> i > gone
    <2> HIDE DEF a
    <2> QED
      BY <1>1, GoneComeFirst
  <1>4. /\ o.attempts = b /\ o.lock = IF s.lock = 0 THEN 0 ELSE s.lock - 1
        /\ o = [attempts |-> o.attempts, lock |-> o.lock]
    BY DEF Login!Older
  <1> HIDE DEF gone, o, a
  <1>5. \A i \in 1..Len(a) - gone : /\ gone + i \in DOMAIN a /\ a[gone + i] > 1
                                    /\ b[i] = a[gone + i] - 1 /\ b[i] \in 1..Window
    BY <1>2, <1>3, LoginConstants
  <1>6. Len(a) - gone \in Nat
    BY <1>2, <1>3
  <1>7. b \in Seq(1..Window) /\ Len(b) = Len(a) - gone /\ DOMAIN b = 1..Len(a) - gone
    <2>1. b \in [1..Len(a) - gone -> 1..Window]
      BY <1>5
    <2> HIDE DEF b
    <2>2. PICK m \in Nat : m = Len(a) - gone
      BY <1>6
    <2>3. b \in [1..m -> 1..Window]
      BY <2>1, <2>2
    <2>4. b \in Seq(1..Window)
      BY <2>3, SeqDef
    <2>5. DOMAIN b = 1..m /\ DOMAIN b = 1..Len(b) /\ Len(b) \in Nat
      BY <2>3, <2>4, LenProperties
    <2> QED
      BY <2>2, <2>4, <2>5
  <1> HIDE DEF b
  <1>8. InOrder(b)
    <2> SUFFICES ASSUME NEW i \in DOMAIN b, NEW j \in DOMAIN b, i <= j
                 PROVE  b[i] <= b[j]
      BY DEF InOrder
    <2>1. a[gone + i] <= a[gone + j]
      BY <1>1, <1>2, <1>3, <1>5, <1>7 DEF InOrder
    <2> QED
      BY <1>2, <1>5, <1>7, <2>1
  <1>9. ASSUME Len(b) >= MaxAttempts, NEW i \in DOMAIN b
        PROVE  b[i] <= o.lock
    <2>1. Len(a) >= MaxAttempts
      BY <1>2, <1>3, <1>7, <1>9, LoginConstants
    <2>2. a[gone + i] <= s.lock
      BY <1>5, <1>7, <2>1 DEF Protected, Outlasts, a
    <2> QED
      BY <1>1, <1>2, <1>4, <1>5, <1>7, <2>2, LoginConstants
  <1>10. o.lock \in 0..Lockout
    BY <1>1, <1>4, LoginConstants
  <1>11. o \in Guarded
    BY <1>4, <1>7, <1>10 DEF Guarded
  <1>12. Len(b) <= Len(a)
    BY <1>2, <1>3, <1>7
  <1> QED
    BY <1>4, <1>8, <1>9, <1>11, <1>12 DEF Protected, Outlasts, o, a

\* An account that is not locked has room for attempts.
LEMMA UnlockedHasRoom ==
  ASSUME NEW s, Protected(s), s.lock = 0
  PROVE  Len(s.attempts) <= MaxAttempts - 1
  <1>1. Len(s.attempts) \in Nat /\ DOMAIN s.attempts = 1..Len(s.attempts)
        /\ \A i \in DOMAIN s.attempts : s.attempts[i] \in 1..Window
    BY ElementOfSeq, LenProperties DEF Protected, Guarded
  <1>2. SUFFICES ASSUME Len(s.attempts) >= MaxAttempts
                 PROVE  FALSE
    BY <1>1, LoginConstants
  <1>3. 1 \in DOMAIN s.attempts
    BY <1>1, <1>2, LoginConstants
  <1> QED
    BY <1>1, <1>2, <1>3, LoginConstants DEF Protected, Outlasts

LEMMA InFlightIsFinite ==
  ASSUME NEW u
  PROVE  /\ IsFiniteSet(Login!InFlight(u))
         /\ Cardinality(Login!InFlight(u)) \in Nat /\ Cardinality(Actors) \in Nat
         /\ Cardinality(Login!InFlight(u)) <= Cardinality(Actors)
  <1>1. Login!InFlight(u) \subseteq Actors
    BY DEF Login!InFlight
  <1> QED
    BY <1>1, LoginConstants, FS_Subset, FS_CardinalityType

\* Bounded in terms of one notion of cardinality.
LEMMA BoundedMeans ==
  Login!GuessesBounded <=>
    \A u \in Users : Len(accounts[u].attempts) + Cardinality(Login!InFlight(u))
                       <= MaxAttempts - 1 + Cardinality(Actors)
  BY LoginCardinality DEF Login!GuessesBounded, Login!MaxCounted

LEMMA LoginInitInv ==
  ASSUME Login!Init
  PROVE  LoginInv
  <1>1. accounts \in [Users -> Guarded] /\ \A u \in Users : accounts[u] = Login!Clear
    BY ClearIsProtected DEF Login!Init, Protected
  <1>2. login \in [Actors -> [user : Users, ip : IPs] \union {None}]
    BY DEF Login!Init
  <1>3. ASSUME NEW u \in Users
        PROVE  Len(accounts[u].attempts) + Cardinality(Login!InFlight(u))
                 <= MaxAttempts - 1 + Cardinality(Actors)
    BY <1>1, ClearIsProtected, InFlightIsFinite, LoginConstants
  <1> QED
    BY <1>1, <1>2, <1>3, ClearIsProtected, BoundedMeans DEF LoginInv

\* What is tried of an account does not grow, or it was not locked.
LEMMA LoginMoves ==
  ASSUME LoginInv,
         accounts' \in [Users -> Guarded], \A u \in Users : Protected(accounts'[u]),
         login' \in [Actors -> [user : Users, ip : IPs] \union {None}],
         \A u \in Users :
           \/ Len(accounts'[u].attempts) <= MaxAttempts - 1
           \/ Len(accounts'[u].attempts) + Cardinality(Login!InFlight(u)')
                <= Len(accounts[u].attempts) + Cardinality(Login!InFlight(u))
  PROVE  LoginInv'
  <1>1. ASSUME NEW u \in Users
        PROVE  Len(accounts'[u].attempts) + Cardinality(Login!InFlight(u)')
                 <= MaxAttempts - 1 + Cardinality(Actors)
    <2>1. /\ Cardinality(Login!InFlight(u)') \in Nat /\ Cardinality(Actors) \in Nat
          /\ Cardinality(Login!InFlight(u)') <= Cardinality(Actors)
          /\ Cardinality(Login!InFlight(u)) \in Nat
      <3>1. Login!InFlight(u)' \subseteq Actors
        BY DEF Login!InFlight
      <3> QED
        BY <3>1, InFlightIsFinite, LoginConstants, FS_Subset, FS_CardinalityType
    <2>2. Len(accounts'[u].attempts) \in Nat /\ Len(accounts[u].attempts) \in Nat
      BY LenProperties DEF LoginInv, Guarded
    <2>3. Len(accounts[u].attempts) + Cardinality(Login!InFlight(u)) <= MaxAttempts - 1 + Cardinality(Actors)
      BY BoundedMeans DEF LoginInv
    <2>4. CASE Len(accounts'[u].attempts) <= MaxAttempts - 1
      BY <2>1, <2>2, <2>4, LoginConstants
    <2>5. CASE Len(accounts'[u].attempts) + Cardinality(Login!InFlight(u)')
                 <= Len(accounts[u].attempts) + Cardinality(Login!InFlight(u))
      <3> HIDE DEF Login!InFlight
      <3> QED
        BY <2>1, <2>2, <2>3, <2>5, LoginConstants
    <2> QED
      BY <2>4, <2>5
  <1>2. Login!GuessesBounded'
    BY <1>1, LoginCardinality DEF Login!GuessesBounded, Login!MaxCounted
  <1> QED
    BY <1>2 DEF LoginInv

LEMMA LoginStepKeeps ==
  ASSUME LoginInv, [Login!Next]_(Login!vars)
  PROVE  LoginInv'
  <1>0. /\ accounts \in [Users -> Guarded] /\ \A u \in Users : Protected(accounts[u])
        /\ login \in [Actors -> [user : Users, ip : IPs] \union {None}]
        /\ \A u \in Users : Len(accounts[u].attempts) \in Nat /\ Cardinality(Login!InFlight(u)) \in Nat
    BY InFlightIsFinite, LenProperties DEF LoginInv, Guarded
  <1>1. ASSUME NEW r \in Actors, Login!Check(r)
        PROVE  LoginInv'
    <2>1. PICK u \in Users, p \in IPs :
            /\ login[r] = None /\ accounts[u].lock = 0 /\ accounts' = accounts
            /\ login' = [login EXCEPT ![r] = [user |-> u, ip |-> p]]
      BY <1>1 DEF Login!Check, Login!Allowed
    <2>2. login' \in [Actors -> [user : Users, ip : IPs] \union {None}]
      BY <1>0, <2>1
    <2>3. ASSUME NEW v \in Users
          PROVE  \/ Len(accounts'[v].attempts) <= MaxAttempts - 1
                 \/ Len(accounts'[v].attempts) + Cardinality(Login!InFlight(v)')
                      <= Len(accounts[v].attempts) + Cardinality(Login!InFlight(v))
      <3>1. CASE v = u
        BY <1>0, <2>1, <3>1, UnlockedHasRoom
      <3>2. CASE v # u
        <4>1. Login!InFlight(v)' = Login!InFlight(v)
          BY <1>0, <2>1, <3>2 DEF Login!InFlight
        <4> QED
          BY <1>0, <2>1, <4>1
      <3> QED
        BY <3>1, <3>2
    <2> QED
      BY <1>0, <2>1, <2>2, <2>3, LoginMoves
  <1>2. ASSUME NEW r \in Actors, Login!RecordFailure(r)
        PROVE  LoginInv'
    <2>1. /\ login[r] # None /\ login[r] \in [user : Users, ip : IPs]
          /\ accounts' = [accounts EXCEPT ![login[r].user] =
                            Login!Failure(accounts[login[r].user], MaxAttempts, Lockout)]
          /\ login' = [login EXCEPT ![r] = None]
      BY <1>0, <1>2 DEF Login!RecordFailure
    <2>2. login' \in [Actors -> [user : Users, ip : IPs] \union {None}]
      BY <1>0, <2>1
    <2>3. PICK u \in Users : u = login[r].user
      BY <2>1
    <2>4. PICK f : f = Login!Failure(accounts[u], MaxAttempts, Lockout)
      OBVIOUS
    <2>5. Protected(f) /\ f \in Guarded /\ Len(f.attempts) = Len(accounts[u].attempts) + 1
      BY <1>0, <2>4, FailureKeeps DEF Protected
    <2>6. accounts' = [accounts EXCEPT ![u] = f]
      BY <2>1, <2>3, <2>4
    <2>7. accounts' \in [Users -> Guarded] /\ \A v \in Users : Protected(accounts'[v])
      BY <1>0, <2>5, <2>6
    <2>8. ASSUME NEW v \in Users
          PROVE  Len(accounts'[v].attempts) + Cardinality(Login!InFlight(v)')
                   <= Len(accounts[v].attempts) + Cardinality(Login!InFlight(v))
      <3>1. CASE v = u
        <4>1. Login!InFlight(v)' = Login!InFlight(v) \ {r} /\ r \in Login!InFlight(v)
          BY <1>0, <2>1, <2>3, <3>1 DEF Login!InFlight
        <4>2. Cardinality(Login!InFlight(v)') = Cardinality(Login!InFlight(v)) - 1
          BY <4>1, InFlightIsFinite, FS_RemoveElement
        <4> QED
          BY <1>0, <2>5, <2>6, <3>1, <4>2
      <3>2. CASE v # u
        <4>1. Login!InFlight(v)' = Login!InFlight(v)
          BY <1>0, <2>1, <2>3, <3>2 DEF Login!InFlight
        <4> QED
          BY <1>0, <2>6, <3>2, <4>1
      <3> QED
        BY <3>1, <3>2
    <2> QED
      BY <2>2, <2>7, <2>8, LoginMoves
  <1>3. ASSUME NEW r \in Actors, Login!RecordSuccess(r)
        PROVE  LoginInv'
    <2>1. /\ login[r] # None /\ login[r] \in [user : Users, ip : IPs]
          /\ accounts' = [accounts EXCEPT ![login[r].user] = Login!Clear]
          /\ login' = [login EXCEPT ![r] = None]
      BY <1>0, <1>3 DEF Login!RecordSuccess
    <2>2. login' \in [Actors -> [user : Users, ip : IPs] \union {None}]
      BY <1>0, <2>1
    <2>3. accounts' \in [Users -> Guarded] /\ \A v \in Users : Protected(accounts'[v])
      BY <1>0, <2>1, ClearIsProtected DEF Protected
    <2>4. ASSUME NEW v \in Users
          PROVE  \/ Len(accounts'[v].attempts) <= MaxAttempts - 1
                 \/ Len(accounts'[v].attempts) + Cardinality(Login!InFlight(v)')
                      <= Len(accounts[v].attempts) + Cardinality(Login!InFlight(v))
      <3>1. CASE v = login[r].user
        BY <1>0, <2>1, <3>1, ClearIsProtected, LoginConstants
      <3>2. CASE v # login[r].user
        <4>1. Login!InFlight(v)' = Login!InFlight(v)
          BY <1>0, <2>1, <3>2 DEF Login!InFlight
        <4> QED
          BY <1>0, <2>1, <3>2, <4>1
      <3> QED
        BY <3>1, <3>2
    <2> QED
      BY <2>2, <2>3, <2>4, LoginMoves
  <1>4. ASSUME NEW u \in Users, Login!UnlockAccount(u)
        PROVE  LoginInv'
    <2>1. accounts' = [accounts EXCEPT ![u] = Login!Clear] /\ login' = login
      BY <1>4 DEF Login!UnlockAccount
    <2>2. accounts' \in [Users -> Guarded] /\ \A v \in Users : Protected(accounts'[v])
      BY <1>0, <2>1, ClearIsProtected DEF Protected
    <2>3. \A v \in Users : Login!InFlight(v)' = Login!InFlight(v)
      BY <2>1 DEF Login!InFlight
    <2>4. \A v \in Users : Len(accounts'[v].attempts) <= Len(accounts[v].attempts)
      BY <1>0, <2>1, ClearIsProtected
    <2>5. \A v \in Users : Len(accounts'[v].attempts) \in Nat
      BY <2>2, LenProperties DEF Guarded
    <2>6. \A v \in Users : Len(accounts'[v].attempts) + Cardinality(Login!InFlight(v)')
                             <= Len(accounts[v].attempts) + Cardinality(Login!InFlight(v))
      BY <1>0, <2>3, <2>4, <2>5
    <2> QED
      BY <1>0, <2>1, <2>2, <2>6, LoginMoves
  <1>5. CASE Login!Tick
    <2>1. accounts' = [u \in Users |-> Login!Older(accounts[u])] /\ login' = login
      BY <1>5 DEF Login!Tick
    <2>2. ASSUME NEW v \in Users
          PROVE  /\ Protected(accounts'[v]) /\ accounts'[v] \in Guarded
                 /\ Len(accounts'[v].attempts) <= Len(accounts[v].attempts)
      BY <1>0, <2>1, OlderKeeps DEF Protected
    <2>3. accounts' \in [Users -> Guarded]
      BY <2>1, <2>2
    <2>4. \A v \in Users : Login!InFlight(v)' = Login!InFlight(v)
      BY <2>1 DEF Login!InFlight
    <2>5. \A v \in Users : Len(accounts'[v].attempts) \in Nat
      BY <2>3, LenProperties DEF Guarded
    <2>6. \A v \in Users : Len(accounts'[v].attempts) + Cardinality(Login!InFlight(v)')
                             <= Len(accounts[v].attempts) + Cardinality(Login!InFlight(v))
      BY <1>0, <2>2, <2>4, <2>5
    <2> QED
      BY <1>0, <2>1, <2>2, <2>3, <2>6, LoginMoves
  <1>6. ASSUME accounts' = accounts, login' = login
        PROVE  LoginInv'
    <2>1. \A v \in Users : Login!InFlight(v)' = Login!InFlight(v)
      BY <1>6 DEF Login!InFlight
    <2> QED
      BY <1>0, <1>6, <2>1, LoginMoves
  <1>7. ASSUME NEW p \in IPs, Login!UnlockIP(p)
        PROVE  LoginInv'
    BY <1>6, <1>7 DEF Login!UnlockIP
  <1>8. CASE UNCHANGED Login!vars
    BY <1>6, <1>8 DEF Login!vars
  <1> QED
    BY <1>1, <1>2, <1>3, <1>4, <1>5, <1>7, <1>8 DEF Login!Next

\* The inductive invariant of the login's protection: an account with too many attempts is
\* locked for as long as they count, so that nobody passes the check until some are gone.
THEOREM LoginInvariance == Login!Spec => []LoginInv
  <1>1. Login!Init => LoginInv
    BY LoginInitInv
  <1>2. LoginInv /\ [Login!Next]_(Login!vars) => LoginInv'
    BY LoginStepKeeps
  <1> QED
    BY <1>1, <1>2, PTL DEF Login!Spec

\* For any limits and any number of accounts, addresses and logins at once: within a window
\* an account is tried at most one time less than the limit, and once more by each login
\* that is handled at the same time.
THEOREM GuessesBoundedCorrect == Login!Spec => []Login!GuessesBounded
  <1>1. LoginInv => Login!GuessesBounded
    BY DEF LoginInv
  <1> QED
    BY <1>1, LoginInvariance, PTL
-----------------------------------------------------------------------------
(***************************************************************************)
(* The limits on requests.                                                 *)
(***************************************************************************)
BucketRow == [tokens : 0..Rate, lastRefill : 1..MaxLimitTime]

\* What is left of a bucket next to what was allowed since t: as much as one minute
\* has, and as much again once it was refilled; nothing was allowed after a minute
\* without refilling.
Covers(b, t, n) ==
  /\ b.lastRefill >= t => n + b.tokens <= 2 * Rate
  /\ b.lastRefill < t => n + b.tokens <= Rate
  /\ n > 0 => t < b.lastRefill + Minute

Running(t, length) == t <= limitTime /\ limitTime < t + length

BucketInv ==
  /\ limitTime \in 1..MaxLimitTime
  /\ allowed \in [1..MaxLimitTime -> Nat]
  /\ bucket = Limit!Absent \/ (bucket \in BucketRow /\ bucket.lastRefill <= limitTime)
  /\ Limit!RequestsBounded
  /\ \A t \in 1..MaxLimitTime :
       /\ limitTime < t => allowed[t] = 0
       /\ Running(t, Minute) =>
            IF bucket = Limit!Absent THEN allowed[t] = 0 ELSE Covers(bucket, t, allowed[t])

LEMMA LimitConstants ==
  /\ Rate \in Nat /\ Minute \in Nat /\ Minute > 0 /\ StaleAfter \in Nat /\ 2 * Minute <= StaleAfter
  /\ CodeAttempts \in Nat /\ CodeAttempts > 0 /\ CodeWindow \in Nat
  /\ MaxLimitTime \in Nat /\ MaxLimitTime > 0
  BY PlatformAssumption DEF Limit!LimitAssumption

\* A refill adds nothing within a minute, and fills the bucket after one.
LEMMA RefillFills ==
  ASSUME limitTime \in 1..MaxLimitTime, NEW b \in BucketRow, b.lastRefill <= limitTime
  PROVE  LET c == Limit!Refill(b)
         IN  /\ c \in BucketRow /\ c.lastRefill <= limitTime /\ limitTime < c.lastRefill + Minute
             /\ c = b \/ (c.tokens = Rate /\ c.lastRefill >= b.lastRefill + Minute)
  <1> DEFINE c == Limit!Refill(b)
  <1> DEFINE k == (limitTime - b.lastRefill) \div Minute
  <1>1. b.tokens \in Nat /\ b.tokens <= Rate /\ b.lastRefill \in Nat /\ b.lastRefill >= 1
    BY LimitConstants DEF BucketRow
  <1>2. limitTime \in Nat /\ limitTime <= MaxLimitTime
    BY LimitConstants
  <1>3. k \in Nat /\ k * Minute \in Nat /\ k * Minute <= limitTime - b.lastRefill
        /\ limitTime - b.lastRefill < k * Minute + Minute
    BY <1>1, <1>2, LimitConstants, SMT
  <1>4. c.tokens = Limit!Least(Rate, b.tokens + k * Rate) /\ c.lastRefill = b.lastRefill + k * Minute
        /\ c = [tokens |-> c.tokens, lastRefill |-> c.lastRefill]
    BY DEF Limit!Refill
  <1>5. k = 0 \/ (k >= 1 /\ k * Minute >= Minute /\ k * Rate >= Rate /\ k * Rate \in Nat)
    BY <1>3, LimitConstants, SMT
  <1> HIDE DEF k
  <1>6. CASE k = 0
    <2>1. c.tokens = b.tokens /\ c.lastRefill = b.lastRefill
      BY <1>1, <1>4, <1>6, LimitConstants, SMT DEF Limit!Least
    <2>2. c = b
      BY <1>4, <2>1 DEF BucketRow
    <2> QED
      BY <1>1, <1>2, <1>3, <1>6, <2>2, LimitConstants
  <1>7. CASE k >= 1
    <2>1. k * Minute >= Minute /\ k * Rate >= Rate /\ k * Rate \in Nat
      BY <1>3, <1>5, <1>7
    <2>2. c.tokens = Rate
      BY <1>1, <1>4, <2>1, LimitConstants DEF Limit!Least
    <2>3. c.lastRefill \in Nat /\ c.lastRefill >= b.lastRefill + Minute /\ c.lastRefill <= limitTime
          /\ limitTime < c.lastRefill + Minute
      BY <1>1, <1>2, <1>3, <1>4, <2>1, LimitConstants
    <2>4. c \in BucketRow
      <3> HIDE DEF c
      <3> QED
        BY <1>1, <1>2, <1>4, <2>2, <2>3, LimitConstants DEF BucketRow
    <2> QED
      BY <2>2, <2>3, <2>4
  <1> QED
    BY <1>3, <1>5, <1>6, <1>7

\* The bucket that a request finds, or makes, and refills covers what was allowed.
LEMMA RefillCovers ==
  ASSUME BucketInv
  PROVE  LET c == Limit!Refill(Limit!Bucket)
         IN  /\ c \in BucketRow /\ c.lastRefill <= limitTime /\ limitTime < c.lastRefill + Minute
             /\ \A t \in 1..MaxLimitTime : Running(t, Minute) => Covers(c, t, allowed[t])
  <1> DEFINE b == Limit!Bucket
  <1> DEFINE c == Limit!Refill(b)
  <1>0. limitTime \in 1..MaxLimitTime
    BY DEF BucketInv
  <1>1. /\ b \in BucketRow /\ b.lastRefill <= limitTime
        /\ \A t \in 1..MaxLimitTime : Running(t, Minute) => Covers(b, t, allowed[t])
    <2>1. CASE bucket = Limit!Absent
      <3>1. b = [tokens |-> Rate, lastRefill |-> limitTime]
        BY <2>1 DEF Limit!Bucket
      <3> QED
        BY <2>1, <3>1, LimitConstants DEF BucketInv, BucketRow, Covers, Running
    <2>2. CASE bucket # Limit!Absent
      BY <2>2 DEF BucketInv, Limit!Bucket
    <2> QED
      BY <2>1, <2>2
  <1> HIDE DEF b
  <1>2. /\ c \in BucketRow /\ c.lastRefill <= limitTime /\ limitTime < c.lastRefill + Minute
        /\ c = b \/ (c.tokens = Rate /\ c.lastRefill >= b.lastRefill + Minute)
    BY <1>0, <1>1, RefillFills
  <1> HIDE DEF c
  <1>3. ASSUME NEW t \in 1..MaxLimitTime, Running(t, Minute)
        PROVE  Covers(c, t, allowed[t])
    <2>1. Covers(b, t, allowed[t]) /\ allowed[t] \in Nat
      BY <1>1, <1>3 DEF BucketInv
    <2>2. /\ b.tokens \in Nat /\ b.lastRefill \in Nat /\ c.tokens \in Nat /\ c.lastRefill \in Nat /\ t \in Nat
      BY <1>1, <1>2, LimitConstants DEF BucketRow
    <2>3. CASE c = b
      BY <2>1, <2>3
    <2>4. CASE c.tokens = Rate /\ c.lastRefill >= b.lastRefill + Minute
      <3>1. CASE allowed[t] = 0
        BY <2>2, <2>4, <3>1, LimitConstants DEF Covers
      <3>2. CASE allowed[t] > 0
        <4>1. t < c.lastRefill
          BY <2>1, <2>2, <2>4, <3>2, LimitConstants DEF Covers
        <4>2. allowed[t] <= Rate \/ b.lastRefill >= t
          BY <2>1, <2>2, LimitConstants DEF Covers
        <4>3. ~(b.lastRefill >= t)
          \* the stretch would be over by the time of the refill
          BY <1>0, <1>2, <1>3, <2>2, <2>4, LimitConstants DEF Running
        <4> QED
          BY <2>1, <2>2, <2>4, <4>1, <4>2, <4>3, LimitConstants DEF Covers
      <3> QED
        BY <2>1, <3>1, <3>2
    <2> QED
      BY <1>2, <2>3, <2>4
  <1> QED
    BY <1>2, <1>3 DEF b, c

\* One more allowed, in each stretch that is running.
LEMMA OneMoreCounts ==
  ASSUME NEW f \in [1..MaxLimitTime -> Nat], NEW length \in Nat
  PROVE  LET g == Limit!OneMore(f, length)
         IN  /\ g \in [1..MaxLimitTime -> Nat]
             /\ \A t \in 1..MaxLimitTime : g[t] = IF Running(t, length) THEN f[t] + 1 ELSE f[t]
  BY DEF Limit!OneMore, Running

LEMMA BucketInitInv ==
  ASSUME Limit!Init
  PROVE  BucketInv
  BY LimitConstants DEF Limit!Init, BucketInv, Limit!RequestsBounded

\* A bucket of the table, with so much allowed since each time.
LEMMA BucketMoves ==
  ASSUME BucketInv, limitTime' = limitTime, allowed' \in [1..MaxLimitTime -> Nat],
         bucket' \in BucketRow, bucket'.lastRefill <= limitTime,
         \A t \in 1..MaxLimitTime :
           IF Running(t, Minute) THEN Covers(bucket', t, allowed'[t]) ELSE allowed'[t] = allowed[t]
  PROVE  BucketInv'
  <1>1. bucket'.tokens \in Nat /\ bucket' # Limit!Absent
    BY LimitConstants DEF BucketRow, Limit!Absent
  <1>2. ASSUME NEW t \in 1..MaxLimitTime
        PROVE  allowed'[t] <= 2 * Rate
    <2>1. allowed'[t] \in Nat /\ bucket'.lastRefill \in Nat /\ t \in Nat
      BY LimitConstants DEF BucketRow
    <2>2. CASE Running(t, Minute)
      BY <1>1, <2>1, <2>2, LimitConstants DEF Covers
    <2>3. CASE ~Running(t, Minute)
      BY <2>3 DEF BucketInv, Limit!RequestsBounded
    <2> QED
      BY <2>2, <2>3
  <1>3. \A t \in 1..MaxLimitTime : limitTime < t => allowed'[t] = 0
    BY LimitConstants DEF BucketInv, Running
  <1> QED
    BY <1>1, <1>2, <1>3 DEF BucketInv, Limit!RequestsBounded, Covers, Running

LEMMA BucketStepKeeps ==
  ASSUME BucketInv, [Limit!Next]_(Limit!vars)
  PROVE  BucketInv'
  <1>0. limitTime \in Nat /\ limitTime <= MaxLimitTime
    BY LimitConstants DEF BucketInv
  <1> DEFINE c == Limit!Refill(Limit!Bucket)
  <1>1. /\ c \in BucketRow /\ c.lastRefill <= limitTime /\ limitTime < c.lastRefill + Minute
        /\ \A t \in 1..MaxLimitTime : Running(t, Minute) => Covers(c, t, allowed[t])
    BY RefillCovers
  <1>2. CASE Limit!Allow
    <2>1. limitTime' = limitTime
      BY <1>2 DEF Limit!Allow
    <2>2. CASE c.tokens > 0
      <3>1. bucket' = [c EXCEPT !.tokens = @ - 1] /\ allowed' = Limit!OneMore(allowed, Minute)
        BY <1>2, <2>2 DEF Limit!Allow
      <3> HIDE DEF c
      <3>2. /\ allowed' \in [1..MaxLimitTime -> Nat]
            /\ \A t \in 1..MaxLimitTime :
                 allowed'[t] = IF Running(t, Minute) THEN allowed[t] + 1 ELSE allowed[t]
        BY <3>1, OneMoreCounts, LimitConstants DEF BucketInv
      <3>3. bucket' \in BucketRow /\ bucket'.tokens = c.tokens - 1 /\ bucket'.lastRefill = c.lastRefill
        BY <1>1, <2>2, <3>1, LimitConstants DEF BucketRow
      <3>4. ASSUME NEW t \in 1..MaxLimitTime, Running(t, Minute)
            PROVE  Covers(bucket', t, allowed'[t])
        <4>1. allowed[t] \in Nat /\ t \in Nat /\ c.tokens \in Nat /\ c.lastRefill \in Nat
          BY <1>1, LimitConstants DEF BucketInv, BucketRow
        <4>2. allowed'[t] = allowed[t] + 1 /\ Covers(c, t, allowed[t])
          BY <1>1, <3>2, <3>4
        <4>3. t < c.lastRefill + Minute
          BY <1>0, <1>1, <3>4, <4>1, LimitConstants DEF Running
        <4> QED
          BY <3>3, <4>1, <4>2, <4>3, LimitConstants DEF Covers
      <3> QED
        BY <1>1, <2>1, <3>2, <3>3, <3>4, BucketMoves
    <2>3. CASE ~(c.tokens > 0)
      <3>1. bucket' = c /\ allowed' = allowed
        BY <1>2, <2>3 DEF Limit!Allow
      <3> HIDE DEF c
      <3>2. allowed \in [1..MaxLimitTime -> Nat]
        BY DEF BucketInv
      <3> QED
        BY <1>1, <2>1, <3>1, <3>2, BucketMoves
    <2> QED
      BY <2>2, <2>3
  <1>3. CASE Limit!Remaining
    <2>1. bucket' = c /\ allowed' = allowed /\ limitTime' = limitTime
      BY <1>3 DEF Limit!Remaining
    <2> HIDE DEF c
    <2>2. allowed \in [1..MaxLimitTime -> Nat]
      BY DEF BucketInv
    <2> QED
      BY <1>1, <2>1, <2>2, BucketMoves
  <1>4. CASE Limit!Cleanup
    \* the bucket was not refilled for two minutes
    <2>1. /\ bucket \in BucketRow /\ bucket.lastRefill < limitTime - StaleAfter
          /\ bucket' = Limit!Absent /\ allowed' = allowed /\ limitTime' = limitTime
      BY <1>4 DEF Limit!Cleanup, BucketInv
    <2>2. bucket.lastRefill \in Nat
      BY <2>1, LimitConstants DEF BucketRow
    <2>3. ASSUME NEW t \in 1..MaxLimitTime, Running(t, Minute)
          PROVE  allowed[t] = 0
      <3>1. allowed[t] \in Nat /\ t \in Nat /\ Covers(bucket, t, allowed[t])
        BY <1>4, <2>3, LimitConstants DEF BucketInv, Limit!Cleanup
      <3> QED
        BY <1>0, <2>1, <2>2, <2>3, <3>1, LimitConstants DEF Covers, Running
    <2> QED
      BY <2>1, <2>3 DEF BucketInv, Limit!RequestsBounded, Running
  <1>5. CASE Limit!Tick
    <2>1. limitTime' = limitTime + 1 /\ limitTime < MaxLimitTime /\ bucket' = bucket /\ allowed' = allowed
      BY <1>5 DEF Limit!Tick
    <2>2. limitTime' \in 1..MaxLimitTime
      BY <1>0, <2>1, LimitConstants DEF BucketInv
    <2>3. bucket = Limit!Absent \/ (bucket \in BucketRow /\ bucket.lastRefill <= limitTime + 1)
      BY <1>0, LimitConstants DEF BucketInv, BucketRow
    <2>4. ASSUME NEW t \in 1..MaxLimitTime, t <= limitTime + 1, limitTime + 1 < t + Minute
          PROVE  IF bucket = Limit!Absent THEN allowed[t] = 0 ELSE Covers(bucket, t, allowed[t])
      <3>1. CASE t <= limitTime
        BY <1>0, <2>4, <3>1, LimitConstants DEF BucketInv, Running
      <3>2. CASE t = limitTime + 1
        <4>1. allowed[t] = 0
          BY <1>0, <3>2 DEF BucketInv
        <4> QED
          BY <1>0, <3>2, <4>1, LimitConstants DEF BucketInv, BucketRow, Covers
      <3> QED
        BY <1>0, <2>4, <3>1, <3>2
    <2>5. \A t \in 1..MaxLimitTime : limitTime + 1 < t => allowed[t] = 0
      BY <1>0 DEF BucketInv
    <2> QED
      BY <2>1, <2>2, <2>3, <2>4, <2>5 DEF BucketInv, Limit!RequestsBounded, Running, Covers
  <1>6. CASE Limit!Attempt \/ Limit!CleanupAttempts \/ UNCHANGED Limit!vars
    <2>1. bucket' = bucket /\ allowed' = allowed /\ limitTime' = limitTime
      BY <1>6 DEF Limit!Attempt, Limit!CleanupAttempts, Limit!vars
    <2> QED
      BY <2>1 DEF BucketInv, Limit!RequestsBounded, Running, Covers
  <1> QED
    BY <1>2, <1>3, <1>4, <1>5, <1>6 DEF Limit!Next

(***************************************************************************)
(* The windows of attempts.                                                *)
(***************************************************************************)
Began == attempts.expireAt - CodeWindow

\* The attempts of the current window that were let through.
Counted == Limit!Least(attempts.count, CodeAttempts)

\* What was admitted since t: if the window began later, those of this window and at most
\* all but one of the window before; else at most all but one of this window.
Admits(t) ==
  IF attempts.count > 0
  THEN /\ t <= Began => admitted[t] <= CodeAttempts - 1 + Counted
       /\ Began < t => admitted[t] <= Counted - 1
  ELSE admitted[t] <= CodeAttempts - 1

AttemptInv ==
  /\ limitTime \in 1..MaxLimitTime
  /\ attempts \in [count : Nat, expireAt : Nat]
  /\ admitted \in [1..MaxLimitTime -> Nat]
  /\ IF attempts.count > 0 THEN Began <= limitTime ELSE attempts = Limit!NoAttempts
  /\ Limit!AttemptsBounded
  /\ \A t \in 1..MaxLimitTime :
       /\ limitTime < t => admitted[t] = 0
       /\ Running(t, CodeWindow + 1) => Admits(t)

LEMMA AttemptInitInv ==
  ASSUME Limit!Init
  PROVE  AttemptInv
  BY LimitConstants DEF Limit!Init, Limit!NoAttempts, AttemptInv, Limit!AttemptsBounded, Admits

\* A window that is over began before any stretch that is not.
LEMMA OverAdmits ==
  ASSUME AttemptInv, Limit!Over, NEW t \in 1..MaxLimitTime, Running(t, CodeWindow + 1)
  PROVE  admitted[t] <= CodeAttempts - 1
  <1>0. /\ limitTime \in Nat /\ attempts.count \in Nat /\ attempts.expireAt \in Nat
        /\ t \in Nat /\ admitted[t] \in Nat
    BY LimitConstants DEF AttemptInv
  <1>1. Admits(t)
    BY DEF AttemptInv
  <1>2. CASE attempts.count > 0
    <2>1. limitTime > attempts.expireAt
      BY <1>2 DEF Limit!Over, Limit!NoAttempts
    <2>2. Began < t
      BY <1>0, <2>1, LimitConstants DEF Began, Running
    <2>3. Counted <= CodeAttempts /\ Counted \in Int
      BY <1>0, LimitConstants DEF Counted, Limit!Least
    <2> QED
      BY <1>0, <1>1, <1>2, <2>2, <2>3, LimitConstants DEF Admits
  <1>3. CASE ~(attempts.count > 0)
    BY <1>1, <1>3 DEF Admits
  <1> QED
    BY <1>2, <1>3

LEMMA AttemptStepKeeps ==
  ASSUME AttemptInv, [Limit!Next]_(Limit!vars)
  PROVE  AttemptInv'
  <1>0. /\ limitTime \in Nat /\ limitTime >= 1 /\ limitTime <= MaxLimitTime
        /\ attempts.count \in Nat /\ attempts.expireAt \in Nat
        /\ \A t \in 1..MaxLimitTime : t \in Nat /\ admitted[t] \in Nat
    BY LimitConstants DEF AttemptInv
  <1>1. CASE Limit!Attempt
    <2>1. limitTime' = limitTime /\ attempts' = Limit!Count
      BY <1>1 DEF Limit!Attempt
    <2>2. CASE Limit!Over
      <3>1. attempts' = [count |-> 1, expireAt |-> limitTime + CodeWindow]
        BY <2>1, <2>2 DEF Limit!Count
      <3>2. admitted' = Limit!OneMore(admitted, CodeWindow + 1)
        BY <1>1, <2>2, LimitConstants DEF Limit!Attempt, Limit!Count
      <3>3. /\ admitted' \in [1..MaxLimitTime -> Nat]
            /\ \A t \in 1..MaxLimitTime :
                 admitted'[t] = IF Running(t, CodeWindow + 1) THEN admitted[t] + 1 ELSE admitted[t]
        <4>1. admitted \in [1..MaxLimitTime -> Nat] /\ CodeWindow + 1 \in Nat
          BY LimitConstants DEF AttemptInv
        <4> QED
          BY <3>2, <4>1, OneMoreCounts
      <3>4. attempts'.count = 1 /\ Began' = limitTime /\ Counted' = 1
        BY <1>0, <3>1, LimitConstants DEF Began, Counted, Limit!Least
      <3>5. \A t \in 1..MaxLimitTime : Running(t, CodeWindow + 1) => admitted[t] <= CodeAttempts - 1
        BY <2>2, OverAdmits
      <3>6. ASSUME NEW t \in 1..MaxLimitTime
            PROVE  admitted'[t] <= 2 * CodeAttempts - 1
        <4>1. CASE Running(t, CodeWindow + 1)
          BY <1>0, <3>3, <3>5, <4>1, LimitConstants
        <4>2. CASE ~Running(t, CodeWindow + 1)
          BY <3>3, <4>2 DEF AttemptInv, Limit!AttemptsBounded
        <4> QED
          BY <4>1, <4>2
      <3>7. ASSUME NEW t \in 1..MaxLimitTime, Running(t, CodeWindow + 1)
            PROVE  Admits(t)'
        <4>1. admitted'[t] = admitted[t] + 1 /\ admitted[t] <= CodeAttempts - 1 /\ t <= limitTime
          BY <3>3, <3>5, <3>7 DEF Running
        <4> QED
          BY <1>0, <3>4, <4>1, LimitConstants DEF Admits
      <3>8. \A t \in 1..MaxLimitTime : limitTime < t => admitted'[t] = 0
        BY <1>0, <3>3 DEF AttemptInv, Running
      <3>9. attempts' \in [count : Nat, expireAt : Nat]
        BY <1>0, <3>1, LimitConstants
      <3> QED
        BY <1>0, <2>1, <3>3, <3>4, <3>6, <3>7, <3>8, <3>9 DEF AttemptInv, Limit!AttemptsBounded, Running
    <2>3. CASE ~Limit!Over
      <3>1. attempts' = [attempts EXCEPT !.count = @ + 1]
        BY <2>1, <2>3 DEF Limit!Count
      <3>2. /\ attempts'.count = attempts.count + 1 /\ attempts'.expireAt = attempts.expireAt
            /\ attempts' \in [count : Nat, expireAt : Nat]
        BY <1>0, <3>1 DEF AttemptInv
      <3>3. limitTime <= attempts.expireAt
        BY <1>0, <2>3 DEF Limit!Over, Limit!NoAttempts
      <3>4. Began' = Began /\ Began \in Int /\ Began <= limitTime /\ attempts.count > 0
        BY <1>0, <2>3, <3>2, LimitConstants DEF Began, AttemptInv, Limit!Over
      <3>5. CASE attempts.count < CodeAttempts
        <4>1. admitted' = Limit!OneMore(admitted, CodeWindow + 1)
          BY <1>0, <1>1, <2>1, <3>2, <3>5, LimitConstants DEF Limit!Attempt
        <4>2. admitted \in [1..MaxLimitTime -> Nat] /\ CodeWindow + 1 \in Nat
          BY LimitConstants DEF AttemptInv
        <4>3. /\ admitted' \in [1..MaxLimitTime -> Nat]
              /\ \A t \in 1..MaxLimitTime :
                   admitted'[t] = IF Running(t, CodeWindow + 1) THEN admitted[t] + 1 ELSE admitted[t]
          BY <4>1, <4>2, OneMoreCounts
        <4>4. Counted = attempts.count /\ Counted' = attempts.count + 1
          BY <1>0, <3>2, <3>5, LimitConstants DEF Counted, Limit!Least
        <4>5. ASSUME NEW t \in 1..MaxLimitTime, Running(t, CodeWindow + 1)
              PROVE  Admits(t)' /\ admitted'[t] <= 2 * CodeAttempts - 1
          <5>1. Admits(t) /\ admitted'[t] = admitted[t] + 1
            BY <4>3, <4>5 DEF AttemptInv
          <5> QED
            BY <1>0, <3>2, <3>4, <3>5, <4>4, <5>1, LimitConstants DEF Admits
        <4>6. \A t \in 1..MaxLimitTime : admitted'[t] <= 2 * CodeAttempts - 1
          BY <4>3, <4>5 DEF AttemptInv, Limit!AttemptsBounded
        <4>7. \A t \in 1..MaxLimitTime : limitTime < t => admitted'[t] = 0
          BY <1>0, <4>3 DEF AttemptInv, Running
        <4>8. attempts'.count > 0
          BY <1>0, <3>2
        <4> QED
          BY <2>1, <3>2, <3>4, <4>3, <4>5, <4>6, <4>7, <4>8 DEF AttemptInv, Limit!AttemptsBounded, Running
      <3>6. CASE ~(attempts.count < CodeAttempts)
        <4>1. admitted' = admitted
          BY <1>0, <1>1, <2>1, <3>2, <3>6, LimitConstants DEF Limit!Attempt
        <4>2. Counted' = Counted
          BY <1>0, <3>2, <3>6, LimitConstants DEF Counted, Limit!Least
        <4>3. attempts'.count > 0
          BY <1>0, <3>2
        <4> QED
          BY <2>1, <3>2, <3>4, <4>1, <4>2, <4>3 DEF AttemptInv, Limit!AttemptsBounded, Running, Admits
      <3> QED
        BY <3>5, <3>6
    <2> QED
      BY <2>2, <2>3
  <1>2. CASE Limit!CleanupAttempts
    <2>1. /\ Limit!Over /\ attempts' = Limit!NoAttempts /\ admitted' = admitted /\ limitTime' = limitTime
      BY <1>2 DEF Limit!CleanupAttempts
    <2>2. \A t \in 1..MaxLimitTime : Running(t, CodeWindow + 1) => admitted[t] <= CodeAttempts - 1
      BY <2>1, OverAdmits
    <2> QED
      BY <2>1, <2>2 DEF AttemptInv, Limit!AttemptsBounded, Running, Admits, Limit!NoAttempts
  <1>3. CASE Limit!Tick
    <2>1. /\ limitTime' = limitTime + 1 /\ limitTime < MaxLimitTime
          /\ attempts' = attempts /\ admitted' = admitted
      BY <1>3 DEF Limit!Tick
    <2>2. Counted' = Counted /\ Began' = Began /\ Began \in Int /\ limitTime' \in 1..MaxLimitTime
      BY <1>0, <2>1, LimitConstants DEF Counted, Began, Limit!Least
    <2>3. ASSUME NEW t \in 1..MaxLimitTime, t <= limitTime + 1, limitTime + 1 < t + (CodeWindow + 1)
          PROVE  Admits(t)
      <3>1. CASE t <= limitTime
        BY <1>0, <2>3, <3>1, LimitConstants DEF AttemptInv, Running
      <3>2. CASE t = limitTime + 1
        <4>1. admitted[t] = 0
          BY <1>0, <3>2 DEF AttemptInv
        <4>2. attempts.count > 0 => Began < t /\ Counted >= 1 /\ Counted \in Nat
          BY <1>0, <2>2, <3>2, LimitConstants DEF AttemptInv, Counted, Limit!Least
        <4> QED
          BY <1>0, <2>2, <3>2, <4>1, <4>2, LimitConstants DEF Admits
      <3> QED
        BY <1>0, <2>3, <3>1, <3>2
    <2>4. \A t \in 1..MaxLimitTime : limitTime + 1 < t => admitted[t] = 0
      BY <1>0 DEF AttemptInv
    <2>5. attempts.count > 0 => Began <= limitTime + 1
      BY <1>0, <2>2 DEF AttemptInv
    <2> QED
      BY <2>1, <2>2, <2>3, <2>4, <2>5 DEF AttemptInv, Limit!AttemptsBounded, Running, Admits
  <1>4. CASE Limit!Allow \/ Limit!Remaining \/ Limit!Cleanup \/ UNCHANGED Limit!vars
    <2>1. attempts' = attempts /\ admitted' = admitted /\ limitTime' = limitTime
      BY <1>4 DEF Limit!Allow, Limit!Remaining, Limit!Cleanup, Limit!vars
    <2> QED
      BY <2>1 DEF AttemptInv, Limit!AttemptsBounded, Running, Admits, Began, Counted, Limit!Least
  <1> QED
    BY <1>1, <1>2, <1>3, <1>4 DEF Limit!Next

\* The inductive invariant of the token buckets: what is left of a bucket and what was
\* allowed since any time come to at most a minute's tokens, or twice that after a refill.
THEOREM BucketInvariance == Limit!Spec => []BucketInv
  <1>1. Limit!Init => BucketInv
    BY BucketInitInv
  <1>2. BucketInv /\ [Limit!Next]_(Limit!vars) => BucketInv'
    BY BucketStepKeeps
  <1> QED
    BY <1>1, <1>2, PTL DEF Limit!Spec

\* The inductive invariant of the attempts: a stretch as long as the window has attempts
\* of at most two windows, and not the one that opened the first.
THEOREM AttemptInvariance == Limit!Spec => []AttemptInv
  <1>1. Limit!Init => AttemptInv
    BY AttemptInitInv
  <1>2. AttemptInv /\ [Limit!Next]_(Limit!vars) => AttemptInv'
    BY AttemptStepKeeps
  <1> QED
    BY <1>1, <1>2, PTL DEF Limit!Spec
-----------------------------------------------------------------------------
\* Guesses of a password, requests of an address and attempts at a code are bounded, for any
\* limits: the first within a window, the others in any stretch of a minute or a window.
THEOREM LimitsHoldCorrect == Login!Spec /\ Limit!Spec => []LimitsHold
  <1>1. LoginInv => Login!GuessesBounded
    BY DEF LoginInv
  <1>2. BucketInv => Limit!RequestsBounded
    BY DEF BucketInv
  <1>3. AttemptInv => Limit!AttemptsBounded
    BY DEF AttemptInv
  <1> QED
    BY <1>1, <1>2, <1>3, LoginInvariance, BucketInvariance, AttemptInvariance, PTL DEF LimitsHold
-----------------------------------------------------------------------------
(***************************************************************************)
(* Sessions.                                                               *)
(***************************************************************************)
SessionToken ==
  [live : BOOLEAN, listed : BOOLEAN, used : BOOLEAN, seen : Nat,
   over : BOOLEAN, exchanged : 0..2, excused : BOOLEAN]

SessionRequest ==
  [pc : {"idle", "storing", "indexing", "refreshing", "kicking", "listed", "deleted"},
   old : RefreshTokens \union {None}, new : RefreshTokens \union {None},
   list : SUBSET RefreshTokens, seen : Nat, over : BOOLEAN]

SessionTypes ==
  /\ token \in [RefreshTokens -> SessionToken]
  /\ request \in [Actors -> SessionRequest]
  /\ epoch \in Nat

\* A request that overlapped a logout is about to add t to the set.
Late(t) == \E q \in Actors : request[q].pc = "indexing" /\ request[q].new = t /\ request[q].over

Indexing(t) == \E q \in Actors : request[q].pc = "indexing" /\ request[q].new = t

\* A valid token that is not excepted is of this epoch, is found by the next logout,
\* and is deleted by one that has begun.
Reached(t) ==
  token[t].live /\ ~token[t].over =>
    /\ token[t].seen = epoch \/ Late(t)
    /\ token[t].listed \/ Indexing(t)
    /\ \A r \in Actors :
         /\ request[r].pc = "listed" => t \in request[r].list \/ Late(t)
         /\ request[r].pc = "deleted" => Late(t)

\* A token that was exchanged without an excuse is gone and nobody holds it.
Spent(t) ==
  /\ token[t].live \/ token[t].exchanged # 0 => token[t].used
  /\ token[t].exchanged # 0 /\ ~token[t].excused =>
       /\ token[t].exchanged = 1 /\ ~token[t].live
       /\ \A r \in Actors : ~(request[r].pc = "refreshing" /\ request[r].old = t)

\* What a request will store is its own, and belongs to this epoch unless the
\* request knows that it overlapped a logout.
Pending(r) ==
  /\ request[r].pc \in {"storing", "indexing"} => request[r].new \in RefreshTokens
  /\ request[r].pc \notin {"storing", "indexing"} => request[r].new = None
  /\ request[r].pc = "storing" => ~token[request[r].new].used
  /\ request[r].pc = "indexing" =>
       token[request[r].new].used /\ (token[request[r].new].over => request[r].over)
  /\ request[r].pc \in {"refreshing", "kicking"} =>
       request[r].old \in RefreshTokens /\ token[request[r].old].used
  /\ request[r].pc \in {"storing", "indexing", "refreshing"} /\ ~request[r].over =>
       request[r].seen = epoch /\ ~Session!LoggingOut
  /\ request[r].pc \in {"indexing", "listed", "deleted"} => backend = "redis"

Apart(r, q) == request[r].new = request[q].new => request[r].new = None \/ r = q

SessionInv ==
  /\ SessionTypes
  /\ \A t \in RefreshTokens : Reached(t) /\ Spent(t)
  /\ \A r \in Actors : Pending(r) /\ \A q \in Actors : Apart(r, q)

LEMMA IdleSession ==
  /\ Session!Idle \in SessionRequest /\ Session!Idle.pc = "idle" /\ Session!Idle.new = None
  BY DEF Session!Idle, SessionRequest

LEMMA UnusedToken ==
  /\ Session!Unused \in SessionToken /\ ~Session!Unused.live /\ ~Session!Unused.used
  /\ Session!Unused.exchanged = 0
  BY DEF Session!Unused, SessionToken

\* What an assignment to one request leaves of the others.
LEMMA OneRequest ==
  ASSUME SessionTypes, NEW r \in Actors, NEW d \in SessionRequest, request' = [request EXCEPT ![r] = d]
  PROVE  /\ request' \in [Actors -> SessionRequest] /\ request'[r] = d
         /\ \A q \in Actors : q # r => request'[q] = request[q]
  BY DEF SessionTypes

LEMMA OneToken ==
  ASSUME SessionTypes, NEW t \in RefreshTokens, NEW d \in SessionToken, token' = [token EXCEPT ![t] = d]
  PROVE  /\ token' \in [RefreshTokens -> SessionToken] /\ token'[t] = d
         /\ \A s \in RefreshTokens : s # t => token'[s] = token[s]
  BY DEF SessionTypes

LEMMA SessionInitInv ==
  ASSUME Session!Init
  PROVE  SessionInv
  <1>1. /\ token = [t \in RefreshTokens |-> Session!Unused]
        /\ request = [r \in Actors |-> Session!Idle] /\ epoch = 0
    BY DEF Session!Init
  <1>2. SessionTypes
    BY <1>1, IdleSession, UnusedToken DEF SessionTypes
  <1>3. \A t \in RefreshTokens : Reached(t) /\ Spent(t)
    BY <1>1, UnusedToken DEF Reached, Spent
  <1>4. \A r \in Actors : Pending(r) /\ \A q \in Actors : Apart(r, q)
    BY <1>1, IdleSession DEF Pending, Apart
  <1> QED
    BY <1>2, <1>3, <1>4 DEF SessionInv

\* A request begins: it knows whether a logout is under way.
LEMMA BeginKeeps ==
  ASSUME SessionInv, NEW r \in Actors, Session!Login(r) \/ Session!Retrieve(r)
  PROVE  SessionInv'
  <1>1. backend' = backend /\ token' = token /\ epoch' = epoch /\ request[r].pc = "idle"
    BY DEF Session!Login, Session!Retrieve
  <1>2. PICK d \in SessionRequest :
          /\ request' = [request EXCEPT ![r] = d] /\ d.seen = epoch
          /\ Session!LoggingOut => d.over
          /\ \/ d.pc = "storing" /\ d.new \in Session!Fresh
             \/ /\ d.pc \in {"refreshing", "kicking"} /\ d.new = None
                /\ d.old \in RefreshTokens /\ token[d.old].live /\ token[d.old].used
    <2>1. PICK p, old, new :
            /\ Session!Begin(r, p, old, new)
            /\ \/ p = "storing" /\ old = None /\ new \in Session!Fresh
               \/ p \in {"refreshing", "kicking"} /\ old \in RefreshTokens /\ token[old].live /\ new = None
      BY DEF Session!Login, Session!Retrieve
    <2>2. new \in RefreshTokens \union {None} /\ old \in RefreshTokens \union {None}
      BY <2>1 DEF Session!Fresh
    <2>3. PICK o \in BOOLEAN : (Session!LoggingOut => o)
                               /\ request' = [request EXCEPT ![r] = [Session!Idle EXCEPT
                                    !.pc = p, !.old = old, !.new = new, !.seen = epoch, !.over = o]]
      <3>1. Session!LoggingOut \in BOOLEAN
        BY DEF Session!LoggingOut
      <3> QED
        BY <2>1, <3>1 DEF Session!Begin
    <2> DEFINE e == [Session!Idle EXCEPT !.pc = p, !.old = old, !.new = new, !.seen = epoch, !.over = o]
    <2>4. e \in SessionRequest
      BY <2>1, <2>2 DEF Session!Idle, SessionRequest, SessionInv, SessionTypes
    <2>5. e.pc = p /\ e.old = old /\ e.new = new /\ e.seen = epoch /\ e.over = o
      BY DEF Session!Idle
    <2>6. request' = [request EXCEPT ![r] = e]
      BY <2>3
    <2> HIDE DEF e
    <2>7. \/ e.pc = "storing" /\ e.new \in Session!Fresh
          \/ /\ e.pc \in {"refreshing", "kicking"} /\ e.new = None
             /\ e.old \in RefreshTokens /\ token[e.old].live /\ token[e.old].used
      BY <2>1, <2>5 DEF SessionInv, Spent
    <2>8. Session!LoggingOut => e.over
      BY <2>3, <2>5
    <2> QED
      BY <2>4, <2>5, <2>6, <2>7, <2>8
  <1>3. /\ request' \in [Actors -> SessionRequest] /\ request'[r] = d
        /\ \A q \in Actors : q # r => request'[q] = request[q]
    BY <1>2, OneRequest DEF SessionInv
  <1>4. d.pc = "storing" => /\ d.new \in RefreshTokens /\ ~token[d.new].used
                            /\ \A q \in Actors : request[q].new # d.new
    BY <1>2 DEF Session!Fresh
  <1>5. SessionTypes'
    BY <1>1, <1>3 DEF SessionInv, SessionTypes
  <1>6. Session!LoggingOut' => Session!LoggingOut
    BY <1>2, <1>3 DEF Session!LoggingOut
  <1>7. ASSUME NEW t \in RefreshTokens PROVE Reached(t)' /\ Spent(t)'
    <2>1. (Late(t) => Late(t)') /\ (Indexing(t) => Indexing(t)')
      BY <1>1, <1>3 DEF Late, Indexing
    <2>2. Reached(t)'
      BY <1>1, <1>2, <1>3, <2>1 DEF SessionInv, Reached
    <2>3. Spent(t)'
      BY <1>1, <1>2, <1>3 DEF SessionInv, Spent
    <2> QED
      BY <2>2, <2>3
  <1>8. ASSUME NEW s \in Actors PROVE Pending(s)'
    <2>1. CASE s = r
      BY <1>1, <1>2, <1>3, <1>4, <1>6, <2>1 DEF Pending
    <2>2. CASE s # r
      BY <1>1, <1>3, <1>6, <2>2 DEF SessionInv, Pending
    <2> QED
      BY <2>1, <2>2
  <1>9. ASSUME NEW s \in Actors, NEW q \in Actors PROVE Apart(s, q)'
    BY <1>2, <1>3, <1>4 DEF SessionInv, Apart
  <1> QED
    BY <1>5, <1>7, <1>8, <1>9 DEF SessionInv

\* The identifier a request stores is no other request's.
LEMMA OwnToken ==
  ASSUME SessionInv, NEW r \in Actors, request[r].pc \in {"storing", "indexing"}
  PROVE  /\ request[r] \in SessionRequest /\ request[r].new \in RefreshTokens
         /\ token[request[r].new] \in SessionToken
         /\ request[r].pc = "storing" => ~token[request[r].new].used
         /\ \A q \in Actors : q # r => request[q].new # request[r].new
         /\ request[r].pc = "indexing" =>
              token[request[r].new].used /\ (token[request[r].new].over => request[r].over)
         /\ ~request[r].over => request[r].seen = epoch /\ ~Session!LoggingOut
  <1>1. request[r] \in SessionRequest /\ Pending(r) /\ \A q \in Actors : Apart(r, q)
    BY DEF SessionInv, SessionTypes
  <1>2. request[r].new \in RefreshTokens
    BY <1>1 DEF Pending
  <1>3. request[r].new # None
    BY <1>2, PlatformAssumption DEF Session!SessionAssumption
  <1>4. token[request[r].new] \in SessionToken
    BY <1>2 DEF SessionInv, SessionTypes
  <1> QED
    BY <1>1, <1>2, <1>3, <1>4 DEF Pending, Apart

\* A request that stores goes on or ends; its token becomes what it stored.
LEMMA StoringKeeps ==
  ASSUME SessionInv, NEW r \in Actors, request[r].pc \in {"storing", "indexing"},
         NEW d \in SessionToken, NEW e \in SessionRequest,
         token' = [token EXCEPT ![request[r].new] = d], request' = [request EXCEPT ![r] = e],
         backend' = backend, epoch' = epoch,
         d.used, d.exchanged = 0 \/ d.exchanged = token[request[r].new].exchanged,
         d.excused = token[request[r].new].excused \/ d.exchanged = 0,
         \/ e.pc = "idle" /\ e.new = None
         \/ /\ e.pc = "indexing" /\ e.new = request[r].new /\ e.seen = request[r].seen
            /\ e.over = request[r].over /\ backend = "redis",
         e.pc = "indexing" /\ d.over => e.over,
         d.live /\ request[r].pc = "indexing" => token[request[r].new].live,
         d.live /\ ~d.over =>
           /\ d.seen = epoch \/ (e.pc = "indexing" /\ e.over)
           /\ d.listed \/ e.pc = "indexing"
           /\ Session!LoggingOut => e.pc = "indexing" /\ e.over
  PROVE  SessionInv'
  <1> DEFINE n == request[r].new
  <1>0. /\ n \in RefreshTokens /\ token[n] \in SessionToken /\ request[r] \in SessionRequest
        /\ request[r].pc = "storing" => ~token[n].used
        /\ \A q \in Actors : q # r => request[q].new # n
        /\ ~request[r].over => request[r].seen = epoch /\ ~Session!LoggingOut
    BY OwnToken
  <1>1. /\ request' \in [Actors -> SessionRequest] /\ request'[r] = e
        /\ \A q \in Actors : q # r => request'[q] = request[q]
    BY OneRequest DEF SessionInv
  <1>2. /\ token' \in [RefreshTokens -> SessionToken] /\ token'[n] = d
        /\ \A s \in RefreshTokens : s # n => token'[s] = token[s]
    BY <1>0, OneToken DEF SessionInv
  <1>3. SessionTypes'
    BY <1>1, <1>2 DEF SessionInv, SessionTypes
  <1>4. Session!LoggingOut' => Session!LoggingOut
    BY <1>1 DEF Session!LoggingOut
  <1>5. ASSUME NEW t \in RefreshTokens PROVE Reached(t)'
    <2>1. CASE t = n
      <3>1. e.pc = "indexing" /\ e.over => Late(n)'
        BY <1>1 DEF Late
      <3>2. e.pc = "indexing" => Indexing(n)'
        BY <1>1 DEF Indexing
      <3>3. \A q \in Actors : request'[q].pc \in {"listed", "deleted"} => Session!LoggingOut
        BY <1>1 DEF Session!LoggingOut
      <3> QED
        BY <1>2, <2>1, <3>1, <3>2, <3>3 DEF Reached
    <2>2. CASE t # n
      <3>1. (Late(t) => Late(t)') /\ (Indexing(t) => Indexing(t)')
        BY <1>1, <2>2 DEF Late, Indexing
      <3>2. token'[t] = token[t] /\ Reached(t)
        BY <1>2, <2>2 DEF SessionInv
      <3>3. \A q \in Actors : request'[q].pc \in {"listed", "deleted"} => request'[q] = request[q]
        BY <1>1
      <3> QED
        BY <3>1, <3>2, <3>3 DEF Reached
    <2> QED
      BY <2>1, <2>2
  <1>6. ASSUME NEW t \in RefreshTokens PROVE Spent(t)'
    <2>0. \A q \in Actors : request'[q].pc = "refreshing" => request'[q] = request[q]
      BY <1>1
    <2>1. CASE t = n
      <3>1. Spent(n)
        BY <1>0 DEF SessionInv
      <3>2. d.exchanged \in 0..2 /\ token[n].exchanged \in 0..2
        BY <1>0 DEF SessionToken
      <3>3. d.live => ~token[n].used \/ token[n].live
        BY <1>0
      <3> QED
        BY <1>2, <2>0, <2>1, <3>1, <3>2, <3>3 DEF Spent
    <2>2. CASE t # n
      BY <1>2, <2>0, <2>2 DEF SessionInv, Spent
    <2> QED
      BY <2>1, <2>2
  <1>7. ASSUME NEW s \in Actors PROVE Pending(s)'
    <2>1. CASE s = r
      BY <1>0, <1>1, <1>2, <1>4, <2>1 DEF Pending
    <2>2. CASE s # r
      <3>1. request'[s] = request[s] /\ Pending(s) /\ request[s].new # n
        BY <1>0, <1>1, <2>2 DEF SessionInv
      <3>2. request[s].pc \in {"storing", "indexing"} => token'[request[s].new] = token[request[s].new]
        BY <1>2, <3>1 DEF Pending
      <3>3. \A x \in RefreshTokens : token[x].used => token'[x].used
        BY <1>2
      <3> QED
        BY <1>4, <3>1, <3>2, <3>3 DEF Pending
    <2> QED
      BY <2>1, <2>2
  <1>8. ASSUME NEW s \in Actors, NEW q \in Actors PROVE Apart(s, q)'
    BY <1>0, <1>1 DEF SessionInv, Apart
  <1> QED
    BY <1>3, <1>5, <1>6, <1>7, <1>8 DEF SessionInv

LEMMA IssuedToken ==
  ASSUME NEW r \in Actors, request[r] \in SessionRequest
  PROVE  /\ Session!Issued(r) \in SessionToken /\ Session!Issued(r).live /\ Session!Issued(r).used
         /\ Session!Issued(r).seen = request[r].seen /\ Session!Issued(r).exchanged = 0
  <1>1. request[r].seen \in Nat
    BY DEF SessionRequest
  <1>2. Session!Issued(r) \in SessionToken
    BY <1>1, UnusedToken DEF Session!Issued, SessionToken
  <1>3. Session!Issued(r).live /\ Session!Issued(r).used
    BY UnusedToken DEF Session!Issued, SessionToken
  <1>4. Session!Issued(r).seen = request[r].seen /\ Session!Issued(r).exchanged = 0
    BY UnusedToken DEF Session!Issued, SessionToken
  <1> QED
    BY <1>2, <1>3, <1>4

LEMMA StoreTokenKeeps ==
  ASSUME SessionInv, NEW r \in Actors,
         Session!StoreToken(r) \/ Session!IndexToken(r) \/ Session!StoreFails(r)
  PROVE  SessionInv'
  <1> DEFINE old == request[r]
             n == old.new
  <1>1. old.pc \in {"storing", "indexing"} /\ backend' = backend /\ epoch' = epoch
    BY DEF Session!StoreToken, Session!IndexToken, Session!StoreFails
  <1>2. /\ old \in SessionRequest /\ n \in RefreshTokens /\ token[n] \in SessionToken
        /\ old.pc = "storing" => ~token[n].used
        /\ old.pc = "indexing" => token[n].used /\ (token[n].over => old.over)
        /\ ~old.over => old.seen = epoch /\ ~Session!LoggingOut
        /\ old.over \in BOOLEAN
    BY <1>1, OwnToken DEF SessionRequest
  <1>3. /\ Reached(n) /\ Spent(n)
        /\ Late(n) => old.over
    BY <1>1, <1>2, OwnToken DEF SessionInv, Late
  <1>4. CASE Session!StoreToken(r)
    <2>1. CASE /\ backend = "memory" /\ Session!Done(r)
               /\ token' = [token EXCEPT ![n] = [[Session!Issued(r) EXCEPT !.over = old.over] EXCEPT !.listed = TRUE]]
      <3> DEFINE i == Session!Issued(r)
                 d == [[i EXCEPT !.over = old.over] EXCEPT !.listed = TRUE]
      <3>1. request' = [request EXCEPT ![r] = Session!Idle] /\ token' = [token EXCEPT ![n] = d]
        BY <2>1 DEF Session!Done
      <3>2. /\ d \in SessionToken /\ d.live /\ d.used /\ d.seen = old.seen /\ d.over = old.over
            /\ d.listed = TRUE /\ d.exchanged = 0
        <4>1. i \in SessionToken /\ i.live /\ i.used /\ i.seen = old.seen /\ i.exchanged = 0
          BY <1>2, IssuedToken
        <4> HIDE DEF i
        <4> QED
          BY <1>2, <4>1 DEF SessionToken
      <3>3. old.pc = "storing"
        BY <1>4 DEF Session!StoreToken
      <3> HIDE DEF d
      <3> QED
        BY <1>1, <1>2, <3>1, <3>2, <3>3, IdleSession, StoringKeeps
    <2>2. CASE /\ backend = "redis" /\ Session!Goto(r, "indexing")
               /\ token' = [token EXCEPT ![n] = [Session!Issued(r) EXCEPT !.over = old.over]]
      <3> DEFINE i == Session!Issued(r)
                 d == [i EXCEPT !.over = old.over]
                 e == [old EXCEPT !.pc = "indexing"]
      <3>1. request' = [request EXCEPT ![r] = e] /\ token' = [token EXCEPT ![n] = d]
        BY <2>2 DEF Session!Goto
      <3>2. /\ d \in SessionToken /\ d.live /\ d.used /\ d.seen = old.seen /\ d.over = old.over
            /\ d.exchanged = 0
        <4>1. i \in SessionToken /\ i.live /\ i.used /\ i.seen = old.seen /\ i.exchanged = 0
          BY <1>2, IssuedToken
        <4> HIDE DEF i
        <4> QED
          BY <1>2, <4>1 DEF SessionToken
      <3>3. /\ e \in SessionRequest /\ e.pc = "indexing" /\ e.new = n /\ e.seen = old.seen
            /\ e.over = old.over
        BY <1>2 DEF SessionRequest
      <3>4. old.pc = "storing"
        BY <1>4 DEF Session!StoreToken
      <3> HIDE DEF d, e
      <3> QED
        BY <1>1, <1>2, <2>2, <3>1, <3>2, <3>3, <3>4, StoringKeeps
    <2> QED
      BY <1>4, <2>1, <2>2 DEF Session!StoreToken
  <1>5. CASE Session!IndexToken(r)
    <2> DEFINE d == [token[n] EXCEPT !.listed = TRUE, !.over = old.over]
    <2>1. /\ request' = [request EXCEPT ![r] = Session!Idle] /\ token' = [token EXCEPT ![n] = d]
          /\ old.pc = "indexing"
      BY <1>5 DEF Session!IndexToken, Session!Done
    <2>2. /\ d \in SessionToken /\ d.live = token[n].live /\ d.used = token[n].used
          /\ d.seen = token[n].seen /\ d.over = old.over /\ d.listed
          /\ d.exchanged = token[n].exchanged /\ d.excused = token[n].excused
      BY <1>2 DEF SessionToken
    <2> HIDE DEF d
    <2>3. d.used
      BY <1>2, <2>1, <2>2
    <2>4. d.live /\ ~d.over => d.seen = epoch /\ ~Session!LoggingOut
      BY <1>2, <1>3, <2>1, <2>2 DEF Reached
    <2> QED
      BY <1>1, <1>2, <2>1, <2>2, <2>3, <2>4, IdleSession, StoringKeeps
  <1>6. CASE Session!StoreFails(r)
    <2> DEFINE d == [token[n] EXCEPT !.used = TRUE]
    <2>1. /\ request' = [request EXCEPT ![r] = Session!Idle] /\ token' = [token EXCEPT ![n] = d]
          /\ old.pc = "storing"
      BY <1>6 DEF Session!StoreFails, Session!Done
    <2>2. /\ d \in SessionToken /\ d.live = token[n].live /\ d.used
          /\ d.exchanged = token[n].exchanged /\ d.excused = token[n].excused
      BY <1>2 DEF SessionToken
    <2>3. ~token[n].live
      BY <1>2, <1>3, <2>1 DEF Spent
    <2> HIDE DEF d
    <2> QED
      BY <1>1, <1>2, <2>1, <2>2, <2>3, IdleSession, StoringKeeps
  <1> QED
    BY <1>4, <1>5, <1>6

\* Tokens end or stay as they are, and no request starts to log out or to add a
\* token to the set.
LEMMA EndingKeeps ==
  ASSUME SessionInv, token' \in [RefreshTokens -> SessionToken], request' \in [Actors -> SessionRequest],
         epoch' = epoch, backend' = backend,
         \A t \in RefreshTokens :
           /\ token'[t].used = token[t].used /\ token'[t].over = token[t].over
           /\ token'[t].seen = token[t].seen
           /\ token'[t].live => token[t].live /\ token'[t].listed = token[t].listed
           /\ Spent(t)',
         \A q \in Actors :
           \/ request'[q] = request[q]
           \/ /\ request[q].pc # "indexing" /\ request'[q].pc \notin {"indexing", "listed"} /\ Pending(q)'
              /\ request'[q].pc = "deleted" => /\ request[q].pc = "listed"
                                               /\ \A t \in request[q].list : ~token'[t].live,
         \A q \in Actors, s \in Actors : Apart(q, s)'
  PROVE  SessionInv'
  <1>1. SessionTypes'
    BY DEF SessionInv, SessionTypes
  <1>2. Session!LoggingOut' => Session!LoggingOut
    BY DEF Session!LoggingOut
  <1>3. ASSUME NEW t \in RefreshTokens PROVE Reached(t)'
    <2>1. (Late(t) => Late(t)') /\ (Indexing(t) => Indexing(t)')
      BY DEF Late, Indexing
    <2>2. SUFFICES ASSUME token'[t].live, ~token'[t].over PROVE Reached(t)'
      BY DEF Reached
    <2>3. token[t].live /\ ~token[t].over /\ Reached(t)
      BY <2>2 DEF SessionInv
    <2>4. ASSUME NEW q \in Actors
          PROVE  /\ request'[q].pc = "listed" => t \in request'[q].list \/ Late(t)'
                 /\ request'[q].pc = "deleted" => Late(t)'
      BY <2>1, <2>2, <2>3 DEF Reached
    <2> QED
      BY <2>1, <2>2, <2>3, <2>4 DEF Reached
  <1>4. ASSUME NEW q \in Actors PROVE Pending(q)'
    <2>1. CASE request'[q] = request[q]
      <3>1. Pending(q)
        BY DEF SessionInv
      <3>2. request[q].pc \in {"storing", "indexing"} => request[q].new \in RefreshTokens
        BY <3>1 DEF Pending
      <3> QED
        BY <1>2, <2>1, <3>1, <3>2 DEF Pending
    <2> QED
      BY <2>1
  <1> QED
    BY <1>1, <1>3, <1>4 DEF SessionInv

\* A token's record when it is exchanged, and when it is deleted besides.
LEMMA ExchangedToken ==
  ASSUME NEW t \in RefreshTokens, token[t] \in SessionToken, NEW excuse \in BOOLEAN, Spent(t)
  PROVE  LET d == Session!Exchanged(t, excuse)
         IN  /\ d \in SessionToken /\ d.used = token[t].used /\ d.over = token[t].over
             /\ d.seen = token[t].seen /\ d.live = token[t].live /\ d.listed = token[t].listed
             /\ excuse => d.excused
             /\ token[t].excused => d.excused
             /\ (\E p, q \in Session!Holders(t) : p # q) => d.excused
             /\ token[t].exchanged = 0 => d.exchanged = 1
             /\ d.exchanged # 0
  <1> DEFINE more == token[t].excused \/ excuse \/ \E p, q \in Session!Holders(t) : p # q
             count == IF token[t].exchanged < 2 THEN token[t].exchanged + 1 ELSE token[t].exchanged
  <1>1. Session!Exchanged(t, excuse) = [token[t] EXCEPT !.exchanged = count, !.excused = more]
    BY DEF Session!Exchanged
  <1>2. token[t].exchanged \in 0..2 /\ token[t].excused \in BOOLEAN
    BY DEF SessionToken
  <1>3. count \in 1..2 /\ (token[t].exchanged = 0 => count = 1)
    BY <1>2
  <1>4. more \in BOOLEAN
    OBVIOUS
  <1> HIDE DEF count
  <1>5. PICK b \in BOOLEAN : b = more
    BY <1>4
  <1>6. /\ excuse => b
        /\ token[t].excused => b
        /\ (\E p, q \in Session!Holders(t) : p # q) => b
    BY <1>5
  <1>7. Session!Exchanged(t, excuse) = [token[t] EXCEPT !.exchanged = count, !.excused = b]
    BY <1>1, <1>5
  <1> HIDE DEF more
  <1> DEFINE d == [token[t] EXCEPT !.exchanged = count, !.excused = b]
  <1>8. /\ d \in SessionToken /\ d.used = token[t].used /\ d.over = token[t].over
        /\ d.seen = token[t].seen /\ d.live = token[t].live /\ d.listed = token[t].listed
    <2>1. count \in 0..2
      BY <1>3
    <2>2. d \in SessionToken
      BY <2>1 DEF SessionToken
    <2>3. /\ d.used = token[t].used /\ d.over = token[t].over
          /\ d.seen = token[t].seen /\ d.live = token[t].live /\ d.listed = token[t].listed
      BY DEF SessionToken
    <2> QED
      BY <2>2, <2>3
  <1>9. d.exchanged = count /\ d.excused = b
    BY DEF SessionToken
  <1>10. Session!Exchanged(t, excuse) = d
    BY <1>7
  <1> HIDE DEF d
  <1> QED
    BY <1>3, <1>6, <1>8, <1>9, <1>10

\* A refresh deletes its token, unless Redis refuses, and takes a fresh identifier.
LEMMA RefreshKeeps ==
  ASSUME SessionInv, NEW r \in Actors, Session!RefreshRevokes(r)
  PROVE  SessionInv'
  <1> DEFINE old == request[r]
  <1>1. /\ old.pc = "refreshing" /\ backend' = backend /\ epoch' = epoch
    BY DEF Session!RefreshRevokes
  <1>0. PICK t \in RefreshTokens : t = old.old
    BY <1>1 DEF SessionInv, Pending
  <1>2. /\ old \in SessionRequest /\ t \in RefreshTokens /\ token[t] \in SessionToken
        /\ Spent(t) /\ Pending(r)
    BY <1>0, <1>1 DEF SessionInv, SessionTypes, Pending
  <1>3. PICK n \in Session!Fresh : request' = [request EXCEPT ![r] = [old EXCEPT !.pc = "storing", !.new = n]]
    BY DEF Session!RefreshRevokes
  <1>4. n \in RefreshTokens /\ ~token[n].used /\ \A q \in Actors : request[q].new # n
    BY <1>3 DEF Session!Fresh
  <1> DEFINE e == [old EXCEPT !.pc = "storing", !.new = n]
  <1>5. /\ e \in SessionRequest /\ e.pc = "storing" /\ e.new = n /\ e.over = old.over
        /\ e.seen = old.seen
    BY <1>2, <1>4 DEF SessionRequest
  <1>6. request' = [request EXCEPT ![r] = e]
    BY <1>3
  <1> HIDE DEF e
  <1>7. /\ request' \in [Actors -> SessionRequest] /\ request'[r] = e
        /\ \A q \in Actors : q # r => request'[q] = request[q]
    BY <1>5, <1>6, OneRequest DEF SessionInv
  <1>8. PICK d \in SessionToken :
          /\ token' = [token EXCEPT ![t] = d]
          /\ d.used = token[t].used /\ d.over = token[t].over /\ d.seen = token[t].seen
          /\ d.live => token[t].live /\ d.listed = token[t].listed /\ d.excused
          /\ token[t].excused => d.excused
          /\ (\E p, q \in Session!Holders(t) : p # q) => d.excused
          /\ token[t].exchanged = 0 => d.exchanged = 1
    <2>1. CASE token' = [token EXCEPT ![t] = Session!Unstored(t, FALSE)]
      <3> DEFINE x == Session!Exchanged(t, FALSE)
                 d == [x EXCEPT !.live = FALSE, !.listed = FALSE]
      <3>1. /\ x \in SessionToken /\ x.used = token[t].used /\ x.over = token[t].over
            /\ x.seen = token[t].seen
            /\ token[t].excused => x.excused
            /\ (\E p, q \in Session!Holders(t) : p # q) => x.excused
            /\ token[t].exchanged = 0 => x.exchanged = 1
        BY <1>2, ExchangedToken
      <3>2. token' = [token EXCEPT ![t] = d]
        BY <1>0, <2>1 DEF Session!Unstored
      <3> HIDE DEF x
      <3>3. /\ d \in SessionToken /\ d.used = x.used /\ d.over = x.over /\ d.seen = x.seen
            /\ ~d.live /\ d.excused = x.excused /\ d.exchanged = x.exchanged
        BY <3>1 DEF SessionToken
      <3> HIDE DEF d
      <3> QED
        BY <3>1, <3>2, <3>3
    <2>2. CASE token' = [token EXCEPT ![t] = Session!Exchanged(t, TRUE)]
      BY <1>2, <2>2, ExchangedToken
    <2> QED
      BY <1>0, <2>1, <2>2 DEF Session!RefreshRevokes
  <1>9. /\ token' \in [RefreshTokens -> SessionToken] /\ token'[t] = d
        /\ \A s \in RefreshTokens : s # t => token'[s] = token[s]
    BY <1>2, <1>8, OneToken DEF SessionInv
  <1>10. \A q \in Actors : request'[q].pc = "refreshing" => q # r /\ request'[q] = request[q]
    BY <1>5, <1>7
  <1>11. Spent(t)'
    <2>1. token[t].used /\ d.exchanged \in 0..2
      BY <1>0, <1>1, <1>2 DEF Pending, SessionToken
    <2>2. ASSUME ~d.excused
          PROVE  /\ d.exchanged = 1 /\ ~d.live
                 /\ \A q \in Actors : ~(request'[q].pc = "refreshing" /\ request'[q].old = t)
      <3>1. token[t].exchanged = 0
        BY <1>0, <1>1, <1>2, <1>8, <2>2 DEF Spent
      <3>2. ASSUME NEW q \in Actors, request'[q].pc = "refreshing", request'[q].old = t PROVE FALSE
        <4>1. q \in Session!Holders(t) /\ r \in Session!Holders(t) /\ q # r
          BY <1>0, <1>1, <1>10, <3>2 DEF Session!Holders
        <4> QED
          BY <1>8, <2>2, <4>1
      <3> QED
        BY <1>8, <2>2, <3>1, <3>2
    <2>3. token'[t] = d /\ d.used
      BY <1>8, <1>9, <2>1
    <2> QED
      BY <2>2, <2>3 DEF Spent
  <1>12. ASSUME NEW s \in RefreshTokens, s # t PROVE Spent(s)'
    <2>1. token'[s] = token[s] /\ Spent(s)
      BY <1>9, <1>12 DEF SessionInv
    <2> QED
      BY <1>10, <2>1 DEF Spent
  <1>13. Pending(r)'
    <2>1. Session!LoggingOut' => Session!LoggingOut
      BY <1>1, <1>5, <1>7 DEF Session!LoggingOut
    <2>2. ~token'[n].used
      BY <1>4, <1>8, <1>9
    <2> QED
      BY <1>1, <1>2, <1>4, <1>5, <1>7, <2>1, <2>2 DEF Pending
  <1>14. ASSUME NEW q \in Actors, NEW s \in Actors PROVE Apart(q, s)'
    BY <1>4, <1>5, <1>7 DEF SessionInv, Apart
  <1>15. \A s \in RefreshTokens :
           /\ token'[s].used = token[s].used /\ token'[s].over = token[s].over
           /\ token'[s].seen = token[s].seen
           /\ token'[s].live => token[s].live /\ token'[s].listed = token[s].listed
    BY <1>8, <1>9
  <1>16. \A s \in RefreshTokens : Spent(s)'
    BY <1>11, <1>12
  <1>17. ASSUME NEW q \in Actors, request'[q] # request[q]
         PROVE  /\ request[q].pc # "indexing" /\ request'[q].pc \notin {"indexing", "listed", "deleted"}
                /\ Pending(q)'
    <2>1. q = r
      BY <1>7, <1>17
    <2> QED
      BY <1>1, <1>5, <1>7, <1>13, <2>1
  <1> QED
    BY <1>1, <1>7, <1>9, <1>14, <1>15, <1>16, <1>17, EndingKeeps

\* A token ends alone: by a kick, or by its expiry.
LEMMA FadedToken ==
  ASSUME SessionInv, NEW t \in RefreshTokens, NEW l \in BOOLEAN,
         token' = [token EXCEPT ![t] = [token[t] EXCEPT !.live = FALSE, !.listed = l]]
  PROVE  /\ token' \in [RefreshTokens -> SessionToken]
         /\ \A s \in RefreshTokens :
              /\ token'[s].used = token[s].used /\ token'[s].over = token[s].over
              /\ token'[s].seen = token[s].seen /\ token'[s].exchanged = token[s].exchanged
              /\ token'[s].excused = token[s].excused
              /\ token'[s].live => token[s].live /\ token'[s].listed = token[s].listed
  <1> DEFINE d == [token[t] EXCEPT !.live = FALSE, !.listed = l]
  <1>1. token[t] \in SessionToken
    BY DEF SessionInv, SessionTypes
  <1>2. d \in SessionToken
    BY <1>1 DEF SessionToken
  <1>3. /\ d.used = token[t].used /\ d.over = token[t].over /\ d.seen = token[t].seen
        /\ d.exchanged = token[t].exchanged /\ d.excused = token[t].excused /\ ~d.live
    BY <1>1 DEF SessionToken
  <1> HIDE DEF d
  <1>4. /\ token' \in [RefreshTokens -> SessionToken] /\ token'[t] = d
        /\ \A s \in RefreshTokens : s # t => token'[s] = token[s]
    BY <1>2, OneToken DEF SessionInv, d
  <1>5. ASSUME NEW s \in RefreshTokens
        PROVE  /\ token'[s].used = token[s].used /\ token'[s].over = token[s].over
               /\ token'[s].seen = token[s].seen /\ token'[s].exchanged = token[s].exchanged
               /\ token'[s].excused = token[s].excused
               /\ token'[s].live => token[s].live /\ token'[s].listed = token[s].listed
    <2>1. CASE s = t
      BY <1>3, <1>4, <2>1
    <2>2. CASE s # t
      BY <1>4, <2>2
    <2> QED
      BY <2>1, <2>2
  <1> QED
    BY <1>4, <1>5

\* Tokens end, and at most the request r is over.
LEMMA FadeKeeps ==
  ASSUME SessionInv, NEW r \in Actors, request[r].pc # "indexing",
         request' = request \/ request' = [request EXCEPT ![r] = Session!Idle],
         epoch' = epoch, backend' = backend, token' \in [RefreshTokens -> SessionToken],
         \A s \in RefreshTokens :
           /\ token'[s].used = token[s].used /\ token'[s].over = token[s].over
           /\ token'[s].seen = token[s].seen /\ token'[s].exchanged = token[s].exchanged
           /\ token'[s].excused = token[s].excused
           /\ token'[s].live => token[s].live /\ token'[s].listed = token[s].listed
  PROVE  SessionInv'
  <1>1. request \in [Actors -> SessionRequest]
    BY DEF SessionInv, SessionTypes
  <1>2. /\ request' \in [Actors -> SessionRequest]
        /\ \A q \in Actors : q # r => request'[q] = request[q]
        /\ request'[r] = request[r] \/ request'[r] = Session!Idle
    BY <1>1, IdleSession
  <1>3. ASSUME NEW s \in RefreshTokens PROVE Spent(s)'
    <2>1. \A q \in Actors : request'[q].pc = "refreshing" => request'[q] = request[q]
      BY <1>2, IdleSession
    <2>2. Spent(s)
      BY DEF SessionInv
    <2> QED
      BY <2>1, <2>2 DEF Spent
  <1>4. ASSUME NEW q \in Actors, request'[q] # request[q]
        PROVE  /\ request[q].pc # "indexing" /\ request'[q].pc \notin {"indexing", "listed", "deleted"}
               /\ Pending(q)'
    <2>1. q = r /\ request'[q] = Session!Idle
      BY <1>2, <1>4
    <2> QED
      BY <2>1, IdleSession DEF Pending
  <1>5. ASSUME NEW q \in Actors, NEW s \in Actors PROVE Apart(q, s)'
    BY <1>2, IdleSession DEF SessionInv, Apart
  <1> QED
    BY <1>2, <1>3, <1>4, <1>5, EndingKeeps

LEMMA KickKeeps ==
  ASSUME SessionInv, NEW r \in Actors, Session!Kick(r) \/ Session!LogoutFails(r)
  PROVE  SessionInv'
  <1>1. /\ request[r].pc # "indexing" /\ epoch' = epoch /\ backend' = backend
        /\ request' = [request EXCEPT ![r] = Session!Idle]
    BY DEF Session!Kick, Session!LogoutFails, Session!Done
  <1>2. CASE token' = token
    <2>1. token' \in [RefreshTokens -> SessionToken]
      BY <1>2 DEF SessionInv, SessionTypes
    <2> QED
      BY <1>1, <1>2, <2>1, FadeKeeps
  <1>3. CASE token' # token
    <2>1. /\ request[r].pc = "kicking"
          /\ token' = [token EXCEPT ![request[r].old] = [token[request[r].old] EXCEPT !.live = FALSE, !.listed = FALSE]]
      BY <1>3 DEF Session!Kick, Session!LogoutFails
    <2>2. request[r].old \in RefreshTokens
      BY <2>1 DEF SessionInv, Pending
    <2> QED
      BY <1>1, <2>1, <2>2, FadedToken, FadeKeeps
  <1> QED
    BY <1>2, <1>3

LEMMA ExpireKeeps ==
  ASSUME SessionInv, NEW t \in RefreshTokens, Session!Expire(t)
  PROVE  SessionInv'
  <1>1. request' = request /\ epoch' = epoch /\ backend' = backend
    BY DEF Session!Expire
  <1>2. token[t] \in SessionToken
    BY DEF SessionInv, SessionTypes
  <1>3. PICK l \in BOOLEAN : token' = [token EXCEPT ![t] = [token[t] EXCEPT !.live = FALSE, !.listed = l]]
    <2>1. (token[t].listed /\ backend = "redis") \in BOOLEAN
      OBVIOUS
    <2> QED
      BY <2>1 DEF Session!Expire
  <1>4. /\ token' \in [RefreshTokens -> SessionToken]
        /\ \A s \in RefreshTokens :
             /\ token'[s].used = token[s].used /\ token'[s].over = token[s].over
             /\ token'[s].seen = token[s].seen /\ token'[s].exchanged = token[s].exchanged
             /\ token'[s].excused = token[s].excused
             /\ token'[s].live => token[s].live /\ token'[s].listed = token[s].listed
    BY <1>3, FadedToken
  <1>5. ASSUME NEW s \in RefreshTokens PROVE Spent(s)'
    BY <1>1, <1>4 DEF SessionInv, Spent
  <1>6. request' \in [Actors -> SessionRequest]
    BY <1>1 DEF SessionInv, SessionTypes
  <1>7. \A q \in Actors, s \in Actors : Apart(q, s)'
    BY <1>1 DEF SessionInv, Apart
  <1> QED
    BY <1>1, <1>4, <1>5, <1>6, <1>7, EndingKeeps

\* The batch deletes what the set listed when it was read.
LEMMA DeleteTokensKeeps ==
  ASSUME SessionInv, NEW r \in Actors, Session!DeleteTokens(r)
  PROVE  SessionInv'
  <1> DEFINE old == request[r]
             e == [old EXCEPT !.pc = "deleted"]
  <1>1. /\ old.pc = "listed" /\ epoch' = epoch /\ backend' = backend
        /\ token' = [t \in RefreshTokens |->
             IF t \in old.list THEN [token[t] EXCEPT !.live = FALSE] ELSE token[t]]
        /\ request' = [request EXCEPT ![r] = e]
    BY DEF Session!DeleteTokens, Session!Goto
  <1>2. old \in SessionRequest /\ Pending(r)
    BY DEF SessionInv, SessionTypes
  <1>3. e \in SessionRequest /\ e.pc = "deleted" /\ e.new = old.new
    BY <1>2 DEF SessionRequest
  <1> HIDE DEF e
  <1>4. /\ request' \in [Actors -> SessionRequest] /\ request'[r] = e
        /\ \A q \in Actors : q # r => request'[q] = request[q]
    BY <1>1, <1>3, OneRequest DEF SessionInv
  <1>5. ASSUME NEW s \in RefreshTokens
        PROVE  /\ token'[s] \in SessionToken
               /\ token'[s].used = token[s].used /\ token'[s].over = token[s].over
               /\ token'[s].seen = token[s].seen /\ token'[s].exchanged = token[s].exchanged
               /\ token'[s].excused = token[s].excused /\ token'[s].listed = token[s].listed
               /\ token'[s].live => token[s].live /\ s \notin old.list
    <2>0. token[s] \in SessionToken
      BY DEF SessionInv, SessionTypes
    <2>1. CASE s \in old.list
      <3> DEFINE d == [token[s] EXCEPT !.live = FALSE]
      <3>1. /\ d \in SessionToken /\ d.used = token[s].used /\ d.over = token[s].over
            /\ d.seen = token[s].seen /\ d.exchanged = token[s].exchanged
            /\ d.excused = token[s].excused /\ d.listed = token[s].listed /\ ~d.live
        BY <2>0 DEF SessionToken
      <3>2. token'[s] = d
        BY <1>1, <2>1
      <3> HIDE DEF d
      <3> QED
        BY <3>1, <3>2
    <2>2. CASE s \notin old.list
      BY <1>1, <2>0, <2>2
    <2> QED
      BY <2>1, <2>2
  <1>6. token' \in [RefreshTokens -> SessionToken]
    BY <1>1, <1>5
  <1>7. ASSUME NEW s \in RefreshTokens PROVE Spent(s)'
    <2>1. \A q \in Actors : request'[q].pc = "refreshing" => request'[q] = request[q]
      BY <1>3, <1>4
    <2>2. Spent(s)
      BY DEF SessionInv
    <2> QED
      BY <1>5, <2>1, <2>2 DEF Spent
  <1>8. Pending(r)'
    BY <1>1, <1>2, <1>3, <1>4 DEF Pending
  <1>9. ASSUME NEW q \in Actors, request'[q] # request[q]
        PROVE  /\ request[q].pc # "indexing" /\ request'[q].pc = "deleted" /\ Pending(q)'
               /\ request[q].pc = "listed" /\ \A t \in request[q].list : ~token'[t].live
    <2>1. q = r
      BY <1>4, <1>9
    <2>2. \A t \in old.list : t \in RefreshTokens
      BY <1>2 DEF SessionRequest
    <2> QED
      BY <1>1, <1>3, <1>4, <1>5, <1>8, <2>1, <2>2
  <1>10. ASSUME NEW q \in Actors, NEW s \in Actors PROVE Apart(q, s)'
    BY <1>3, <1>4 DEF SessionInv, Apart
  <1> QED
    BY <1>1, <1>4, <1>5, <1>6, <1>7, <1>9, <1>10, EndingKeeps

\* A logout everywhere begins: every other request learns of it.
LEMMA ListAllKeeps ==
  ASSUME SessionInv, NEW r \in Actors, Session!ListAll(r)
  PROVE  SessionInv'
  <1>0. request \in [Actors -> SessionRequest] /\ token \in [RefreshTokens -> SessionToken] /\ epoch \in Nat
    BY DEF SessionInv, SessionTypes
  <1>1. request[r].pc = "idle" /\ backend' = backend
    BY DEF Session!ListAll
  <1>2. ASSUME NEW q \in Actors
        PROVE  LET d == [request[q] EXCEPT !.over = TRUE]
               IN  /\ d \in SessionRequest /\ d.over /\ d.pc = request[q].pc /\ d.new = request[q].new
                   /\ d.old = request[q].old /\ d.list = request[q].list
    BY <1>0 DEF SessionRequest
  <1>3. \A q \in Actors : q # r => Session!Overlapping(r)[q] = [request[q] EXCEPT !.over = TRUE]
    BY DEF Session!Overlapping
  <1>4. Session!Overlapping(r)[r] = request[r] /\ DOMAIN Session!Overlapping(r) = Actors
    BY DEF Session!Overlapping
  <1>5. CASE backend = "memory"
    <2>1. /\ token' = [t \in RefreshTokens |->
               IF token[t].listed THEN [token[t] EXCEPT !.live = FALSE, !.listed = FALSE] ELSE token[t]]
          /\ epoch' = epoch + 1 /\ request' = Session!Overlapping(r)
      BY <1>5 DEF Session!ListAll
    <2>2. /\ request' \in [Actors -> SessionRequest] /\ request'[r] = request[r]
          /\ \A q \in Actors : q # r =>
               /\ request'[q].over /\ request'[q].pc = request[q].pc /\ request'[q].new = request[q].new
               /\ request'[q].old = request[q].old
      <3>1. request' = [q \in Actors |-> IF q = r THEN request[q] ELSE [request[q] EXCEPT !.over = TRUE]]
        BY <2>1 DEF Session!Overlapping
      <3>2. \A q \in Actors : request'[q] \in SessionRequest
        BY <1>0, <1>2, <3>1
      <3>3. request' \in [Actors -> SessionRequest]
        BY <3>1, <3>2
      <3> QED
        BY <1>2, <1>3, <1>4, <2>1, <3>3
    <2>3. ASSUME NEW s \in RefreshTokens
          PROVE  /\ token'[s] \in SessionToken
                 /\ token'[s].used = token[s].used /\ token'[s].over = token[s].over
                 /\ token'[s].exchanged = token[s].exchanged /\ token'[s].excused = token[s].excused
                 /\ token'[s].live => token[s].live /\ ~token[s].listed
      <3>1. CASE token[s].listed
        <4> DEFINE d == [token[s] EXCEPT !.live = FALSE, !.listed = FALSE]
        <4>1. /\ d \in SessionToken /\ d.used = token[s].used /\ d.over = token[s].over
              /\ d.exchanged = token[s].exchanged /\ d.excused = token[s].excused /\ ~d.live
          BY <1>0 DEF SessionToken
        <4>2. token'[s] = d
          BY <2>1, <3>1
        <4> HIDE DEF d
        <4> QED
          BY <4>1, <4>2
      <3>2. CASE ~token[s].listed
        BY <1>0, <2>1, <3>2
      <3> QED
        BY <3>1, <3>2
    <2>4. SessionTypes'
      <3>1. token' \in [RefreshTokens -> SessionToken]
        BY <2>1, <2>3
      <3>2. epoch' \in Nat
        <4>1. epoch \in Nat
          BY <1>0
        <4>2. epoch' = epoch + 1
          BY <2>1
        <4> QED
          BY <4>1, <4>2
      <3> QED
        BY <2>2, <3>1, <3>2 DEF SessionTypes
    <2>5. \A q \in Actors : request[q].pc \notin {"indexing", "listed", "deleted"}
      BY <1>5 DEF SessionInv, Pending
    <2>6. ASSUME NEW s \in RefreshTokens PROVE Reached(s)' /\ Spent(s)'
      <3>1. ~(token'[s].live /\ ~token'[s].over)
        BY <2>3, <2>5 DEF SessionInv, Reached, Indexing
      <3>2. Spent(s)'
        BY <1>1, <2>2, <2>3 DEF SessionInv, Spent
      <3> QED
        BY <3>1, <3>2 DEF Reached
    <2>7. ASSUME NEW q \in Actors PROVE Pending(q)'
      <3>1. Pending(q)
        BY DEF SessionInv
      <3>2. request[q].pc \in {"storing", "indexing"} => request[q].new \in RefreshTokens
        BY <3>1 DEF Pending
      <3> QED
        BY <1>1, <2>2, <2>3, <2>5, <3>1, <3>2 DEF Pending
    <2>8. ASSUME NEW q \in Actors, NEW s \in Actors PROVE Apart(q, s)'
      BY <2>2 DEF SessionInv, Apart
    <2> QED
      BY <2>4, <2>6, <2>7, <2>8 DEF SessionInv
  <1>6. CASE backend = "redis"
    <2> DEFINE e == [Session!Idle EXCEPT !.pc = "listed", !.list = {t \in RefreshTokens : token[t].listed}]
    <2>1. /\ request' = [Session!Overlapping(r) EXCEPT ![r] = e] /\ token' = token /\ epoch' = epoch
      BY <1>6 DEF Session!ListAll
    <2>2. /\ e \in SessionRequest /\ e.pc = "listed" /\ e.new = None
          /\ e.list = {t \in RefreshTokens : token[t].listed}
      BY DEF Session!Idle, SessionRequest
    <2> HIDE DEF e
    <2>3. /\ request' \in [Actors -> SessionRequest] /\ request'[r] = e
          /\ \A q \in Actors : q # r =>
               /\ request'[q].over /\ request'[q].pc = request[q].pc /\ request'[q].new = request[q].new
               /\ request'[q].old = request[q].old /\ request'[q].list = request[q].list
      <3>1. request' = [q \in Actors |-> IF q = r THEN e ELSE [request[q] EXCEPT !.over = TRUE]]
        BY <2>1 DEF Session!Overlapping
      <3>2. \A q \in Actors : request'[q] \in SessionRequest
        BY <1>2, <2>2, <3>1
      <3> QED
        BY <1>2, <3>1, <3>2
    <2>4. SessionTypes'
      BY <1>0, <2>1, <2>3 DEF SessionTypes
    <2>5. ASSUME NEW s \in RefreshTokens PROVE Reached(s)'
      <3>1. Indexing(s) => Late(s)' /\ Indexing(s)'
        BY <1>1, <2>3 DEF Indexing, Late
      <3>2. Late(s) => Indexing(s)
        BY DEF Indexing, Late
      <3>3. Reached(s)
        BY DEF SessionInv
      <3>4. ASSUME token[s].live, ~token[s].over, NEW q \in Actors
            PROVE  /\ request'[q].pc = "listed" => s \in request'[q].list \/ Late(s)'
                   /\ request'[q].pc = "deleted" => Late(s)'
        <4>1. CASE q = r
          BY <2>2, <2>3, <3>1, <3>3, <3>4, <4>1 DEF Reached
        <4>2. CASE q # r
          BY <2>3, <3>1, <3>2, <3>3, <3>4, <4>2 DEF Reached
        <4> QED
          BY <4>1, <4>2
      <3> QED
        BY <2>1, <3>1, <3>2, <3>3, <3>4 DEF Reached
    <2>6. ASSUME NEW s \in RefreshTokens PROVE Spent(s)'
      BY <2>1, <2>2, <2>3 DEF SessionInv, Spent
    <2>7. ASSUME NEW q \in Actors PROVE Pending(q)'
      <3>1. CASE q = r
        BY <1>1, <1>6, <2>2, <2>3, <3>1 DEF Pending
      <3>2. CASE q # r
        BY <1>1, <2>1, <2>3, <3>2 DEF SessionInv, Pending
      <3> QED
        BY <3>1, <3>2
    <2>8. ASSUME NEW q \in Actors, NEW s \in Actors PROVE Apart(q, s)'
      BY <2>2, <2>3 DEF SessionInv, Apart
    <2> QED
      BY <2>4, <2>5, <2>6, <2>7, <2>8 DEF SessionInv
  <1> QED
    BY <1>5, <1>6 DEF Session!ListAll

\* A logout everywhere ends: what it left is what overlapped it.
LEMMA DeleteSetKeeps ==
  ASSUME SessionInv, NEW r \in Actors, Session!DeleteSet(r)
  PROVE  SessionInv'
  <1>0. request \in [Actors -> SessionRequest] /\ token \in [RefreshTokens -> SessionToken] /\ epoch \in Nat
    BY DEF SessionInv, SessionTypes
  <1>1. /\ request[r].pc = "deleted" /\ epoch' = epoch + 1 /\ backend' = backend
        /\ token' = [t \in RefreshTokens |-> [token[t] EXCEPT !.listed = FALSE]]
        /\ request' = [request EXCEPT ![r] = Session!Idle]
    BY DEF Session!DeleteSet, Session!Done
  <1>2. /\ request' \in [Actors -> SessionRequest] /\ request'[r] = Session!Idle
        /\ \A q \in Actors : q # r => request'[q] = request[q]
    BY <1>1, IdleSession, OneRequest DEF SessionInv
  <1>3. ASSUME NEW s \in RefreshTokens
        PROVE  /\ token'[s] \in SessionToken
               /\ token'[s].used = token[s].used /\ token'[s].over = token[s].over
               /\ token'[s].live = token[s].live
               /\ token'[s].exchanged = token[s].exchanged /\ token'[s].excused = token[s].excused
    <2> DEFINE d == [token[s] EXCEPT !.listed = FALSE]
    <2>1. /\ d \in SessionToken /\ d.used = token[s].used /\ d.over = token[s].over
          /\ d.live = token[s].live /\ d.exchanged = token[s].exchanged /\ d.excused = token[s].excused
      BY <1>0 DEF SessionToken
    <2>2. token'[s] = d
      BY <1>1
    <2> HIDE DEF d
    <2> QED
      BY <2>1, <2>2
  <1>4. SessionTypes'
    BY <1>0, <1>1, <1>2, <1>3 DEF SessionTypes
  <1>5. Session!LoggingOut
    BY <1>1 DEF Session!LoggingOut
  <1>6. ASSUME NEW s \in RefreshTokens PROVE Reached(s)' /\ Spent(s)'
    <2>1. token[s].live /\ ~token[s].over => Late(s)
      BY <1>1 DEF SessionInv, Reached
    <2>2. Late(s) => Late(s)' /\ Indexing(s)'
      BY <1>1, <1>2 DEF Late, Indexing
    <2>3. Reached(s)'
      BY <1>3, <2>1, <2>2 DEF Reached
    <2>4. Spent(s)'
      BY <1>2, <1>3, IdleSession DEF SessionInv, Spent
    <2> QED
      BY <2>3, <2>4
  <1>7. ASSUME NEW q \in Actors PROVE Pending(q)'
    <2>1. CASE q = r
      BY <1>2, <2>1, IdleSession DEF Pending
    <2>2. CASE q # r
      <3>1. Pending(q) /\ request'[q] = request[q]
        BY <1>2, <2>2 DEF SessionInv
      <3>2. request[q].pc \in {"storing", "indexing"} => request[q].new \in RefreshTokens
        BY <3>1 DEF Pending
      <3>3. request[q].pc \in {"refreshing", "kicking"} => request[q].old \in RefreshTokens
        BY <3>1 DEF Pending
      <3> QED
        BY <1>1, <1>3, <1>5, <3>1, <3>2, <3>3 DEF Pending
    <2> QED
      BY <2>1, <2>2
  <1>8. ASSUME NEW q \in Actors, NEW s \in Actors PROVE Apart(q, s)'
    BY <1>2, IdleSession DEF SessionInv, Apart
  <1> QED
    BY <1>4, <1>6, <1>7, <1>8 DEF SessionInv

LEMMA SessionNextInv ==
  ASSUME SessionInv, [Session!Next]_(Session!vars)
  PROVE  SessionInv'
  <1>1. CASE Session!Next
    BY <1>1, BeginKeeps, StoreTokenKeeps, RefreshKeeps, KickKeeps, ExpireKeeps, DeleteTokensKeeps,
       ListAllKeeps, DeleteSetKeeps DEF Session!Next
  <1>2. CASE UNCHANGED Session!vars
    <2>1. backend' = backend /\ token' = token /\ request' = request /\ epoch' = epoch
      BY <1>2 DEF Session!vars
    <2> QED
      BY <2>1 DEF SessionInv, SessionTypes, Reached, Late, Indexing, Spent, Pending, Apart,
         Session!LoggingOut
  <1> QED
    BY <1>1, <1>2

\* The invariant of refresh tokens and the requests that handle them, for any
\* number of either and of logouts, in memory and in Redis.
THEOREM SessionInvariance == Session!Spec => []SessionInv
  <1>1. Session!Init => SessionInv
    BY SessionInitInv
  <1>2. SessionInv /\ [Session!Next]_(Session!vars) => SessionInv'
    BY SessionNextInv
  <1> QED
    BY <1>1, <1>2, PTL DEF Session!Spec

\* In memory a valid token is always in its user's set.
MemoryLists == backend = "memory" => \A t \in RefreshTokens : token[t].live => token[t].listed

LEMMA MemoryKeeps ==
  ASSUME SessionInv, MemoryLists, [Session!Next]_(Session!vars)
  PROVE  MemoryLists'
  <1> SUFFICES ASSUME backend' = "memory", NEW t \in RefreshTokens, token'[t].live
               PROVE  token'[t].listed
    BY DEF MemoryLists
  <1>1. CASE UNCHANGED Session!vars
    BY <1>1 DEF MemoryLists, Session!vars
  <1>2. CASE Session!Next
    <2>1. backend = "memory" /\ (token[t].live => token[t].listed)
      BY <1>2 DEF MemoryLists, Session!Next, Session!Login, Session!StoreToken, Session!IndexToken,
         Session!StoreFails, Session!Retrieve, Session!RefreshRevokes, Session!Kick, Session!ListAll,
         Session!DeleteTokens, Session!DeleteSet, Session!LogoutFails, Session!Expire
    <2>2. \A r \in Actors : request[r].pc \notin {"indexing", "listed", "deleted"}
      BY <2>1 DEF SessionInv, Pending
    <2>3. token \in [RefreshTokens -> SessionToken] /\ token[t] \in SessionToken
      BY DEF SessionInv, SessionTypes
    <2>4. CASE token' = token
      BY <2>1, <2>4
    <2>5. CASE \E r \in Actors : Session!ListAll(r)
      BY <2>1, <2>3, <2>5 DEF Session!ListAll, SessionToken
    <2>6. ASSUME NEW r \in Actors, Session!StoreToken(r)
          PROVE  token'[t].listed
      <3> DEFINE stamped == [Session!Issued(r) EXCEPT !.over = request[r].over]
                 d == [stamped EXCEPT !.listed = TRUE]
      <3>1. token' = [token EXCEPT ![request[r].new] = d]
        BY <2>1, <2>6 DEF Session!StoreToken
      <3>2. d.listed
        BY DEF Session!Issued, Session!Unused
      <3> HIDE DEF d
      <3>3. CASE request[r].new = t
        BY <2>3, <3>1, <3>2, <3>3
      <3>4. CASE request[r].new # t
        BY <2>1, <2>3, <3>1, <3>4
      <3> QED
        BY <3>3, <3>4
    <2>7. ASSUME NEW r \in Actors, Session!RefreshRevokes(r) \/ Session!Kick(r)
          PROVE  token'[t].listed
      <3>1. PICK x \in RefreshTokens : x = request[r].old
        BY <2>7 DEF Session!RefreshRevokes, Session!Kick, SessionInv, Pending
      <3>2. token[x] \in SessionToken /\ Spent(x)
        BY DEF SessionInv, SessionTypes
      <3> DEFINE e == Session!Exchanged(x, FALSE)
      <3>3. e \in SessionToken
        BY <3>2, ExchangedToken
      <3>4. PICK d : token' = [token EXCEPT ![x] = d] /\ ~d.live
        <4>1. CASE Session!RefreshRevokes(r)
          <5> DEFINE d == [e EXCEPT !.live = FALSE, !.listed = FALSE]
          <5>1. token' = [token EXCEPT ![x] = d]
            BY <2>1, <3>1, <4>1 DEF Session!RefreshRevokes, Session!Unstored
          <5> HIDE DEF e
          <5>2. ~d.live
            BY <3>3 DEF SessionToken
          <5> HIDE DEF d
          <5> QED
            BY <5>1, <5>2
        <4>2. CASE Session!Kick(r)
          <5> DEFINE d == [token[x] EXCEPT !.live = FALSE, !.listed = FALSE]
          <5>1. token' = [token EXCEPT ![x] = d]
            BY <2>1, <3>1, <4>2 DEF Session!Kick
          <5>2. ~d.live
            BY <3>2 DEF SessionToken
          <5> HIDE DEF d
          <5> QED
            BY <5>1, <5>2
        <4> QED
          BY <2>7, <4>1, <4>2
      <3> QED
        BY <2>1, <2>3, <3>4
    <2>8. ASSUME NEW x \in RefreshTokens, Session!Expire(x)
          PROVE  token'[t].listed
      <3>1. token[x] \in SessionToken
        BY DEF SessionInv, SessionTypes
      <3> DEFINE d == [token[x] EXCEPT !.live = FALSE, !.listed = token[x].listed /\ backend = "redis"]
      <3>2. token' = [token EXCEPT ![x] = d] /\ ~d.live
        BY <2>8, <3>1 DEF Session!Expire, SessionToken
      <3> HIDE DEF d
      <3> QED
        BY <2>1, <2>3, <3>2
    <2>9. ASSUME NEW r \in Actors,
                  \/ Session!Login(r) \/ Session!Retrieve(r) \/ Session!LogoutFails(r)
           PROVE  token' = token
      BY <2>9 DEF Session!Login, Session!Retrieve, Session!LogoutFails
    <2>10. ASSUME NEW r \in Actors,
                  \/ Session!IndexToken(r) \/ Session!StoreFails(r)
                  \/ Session!DeleteTokens(r) \/ Session!DeleteSet(r)
           PROVE  FALSE
      BY <2>1, <2>2, <2>10 DEF Session!IndexToken, Session!StoreFails, Session!DeleteTokens,
         Session!DeleteSet
    <2> QED
      BY <1>2, <2>4, <2>5, <2>6, <2>7, <2>8, <2>9, <2>10 DEF Session!Next
  <1> QED
    BY <1>1, <1>2

\* The next logout everywhere finds every valid token (refresh_token.go).
THEOREM NextLogoutFindsCorrect == Session!Spec => []Session!NextLogoutFinds
  <1>1. Session!Init => MemoryLists
    BY UnusedToken DEF Session!Init, MemoryLists
  <1>2. SessionInv /\ MemoryLists /\ [Session!Next]_(Session!vars) => MemoryLists'
    BY MemoryKeeps
  <1>3. Session!Init => backend \in {"memory", "redis"}
    BY DEF Session!Init
  <1>4. backend \in {"memory", "redis"} /\ [Session!Next]_(Session!vars)
          => (backend \in {"memory", "redis"})'
    BY DEF Session!vars, Session!Next, Session!Login, Session!StoreToken, Session!IndexToken,
       Session!StoreFails, Session!Retrieve, Session!RefreshRevokes, Session!Kick, Session!ListAll,
       Session!DeleteTokens, Session!DeleteSet, Session!LogoutFails, Session!Expire
  <1>5. SessionInv /\ MemoryLists /\ backend \in {"memory", "redis"} => Session!NextLogoutFinds
    <2> SUFFICES ASSUME SessionInv, MemoryLists, backend \in {"memory", "redis"},
                        NEW t \in RefreshTokens, token[t].live, ~token[t].listed
                 PROVE  backend = "redis" /\ (token[t].over \/ \E r \in Actors : request[r].new = t)
      BY DEF Session!NextLogoutFinds
    <2>1. backend = "redis"
      BY DEF MemoryLists
    <2>2. Reached(t)
      BY DEF SessionInv
    <2>3. token[t].over \/ \E r \in Actors : request[r].new = t
      BY <2>2 DEF Reached, Indexing
    <2> QED
      BY <2>1, <2>3
  <1> QED
    BY <1>1, <1>2, <1>3, <1>4, <1>5, SessionInvariance, PTL DEF Session!Spec

LEMMA SessionInvHolds ==
  ASSUME SessionInv
  PROVE  Session!LogoutReachesAll /\ Session!ExchangedOnce
  <1>1. Session!LogoutReachesAll
    BY DEF SessionInv, Reached, Late, Session!LogoutReachesAll
  <1>2. Session!ExchangedOnce
    <2>1. ASSUME NEW t \in RefreshTokens PROVE token[t].exchanged <= 1 \/ token[t].excused
      <3>1. token[t].exchanged \in 0..2 /\ Spent(t)
        BY DEF SessionInv, SessionTypes, SessionToken
      <3> QED
        BY <3>1 DEF Spent
    <2> QED
      BY <2>1 DEF Session!ExchangedOnce
  <1> QED
    BY <1>1, <1>2
-----------------------------------------------------------------------------
(***************************************************************************)
(* The web client.                                                         *)
(***************************************************************************)
WebTab ==
  [user : Users \union {None}, role : {"", "admin", "dev"},
   page : {"login", "plain", "roles", "forbidden"}, target : {"none", "roles"}]

WebTypes ==
  /\ tab \in [Actors -> WebTab]
  /\ valid \subseteq DOMAIN owner /\ \A n \in DOMAIN owner : owner[n] \in Users
  /\ \A c \in calls : c.tab \in Actors /\ (c.kind = "login" => c.account \in Users)

\* A tab asks who it is once at a time.
AsksOnce == \A c, d \in calls : c.kind = "me" /\ d.kind = "me" /\ c.tab = d.tab => c = d

\* The role of the store belongs to its user, and no answer that could change
\* that user without the page is on its way.
Roles(t) ==
  /\ tab[t].page = "roles" => tab[t].role = "admin"
  /\ tab[t].role = "admin" =>
       /\ tab[t].user = Admin /\ tab[t].user \in Users
       /\ \A c \in calls : c.tab = t => c.kind # "me"

Shows(t) ==
  t \in crossed \/ stored = 0 \/ tab[t].user = None \/ tab[t].user = owner[stored]

WebInv ==
  /\ WebTypes /\ AsksOnce
  /\ \A t \in Actors : Roles(t) /\ Shows(t)

LEMMA NewTabs ==
  /\ Web!NewTab \in WebTab /\ Web!NewTab.user = None /\ Web!NewTab.role = ""
  /\ Web!NewTab.page # "roles"
  BY DEF Web!NewTab, WebTab

LEMMA WebInitInv ==
  ASSUME Web!Init
  PROVE  WebInv
  <1>1. /\ tab = [t \in Actors |-> Web!NewTab] /\ calls = {} /\ valid = {} /\ stored = 0
        /\ owner = [n \in {} |-> None]
    BY DEF Web!Init
  <1>2. WebTypes
    BY <1>1, NewTabs DEF WebTypes
  <1> QED
    BY <1>1, <1>2, NewTabs DEF WebInv, AsksOnce, Roles, Shows

\* One tab changes, and the calls are some of those there were; tokens and the one
\* that is stored stay, or nothing is stored any more.
LEMMA TabKeeps ==
  ASSUME WebInv, NEW t \in Actors, NEW d \in WebTab,
         tab' = [tab EXCEPT ![t] = d], owner' = owner, valid' \subseteq valid,
         stored' \in {stored, 0}, calls' \subseteq calls,
         d.page = "roles" => d.role = "admin",
         d.role = "admin" => /\ d.user = Admin /\ d.user \in Users
                             /\ \A c \in calls' : c.tab = t => c.kind # "me",
         \A s \in Actors \ {t} : s \in crossed => s \in crossed',
         t \in crossed' \/ stored' = 0 \/ d.user = None \/ d.user = owner[stored]
  PROVE  WebInv'
  <1>1. tab \in [Actors -> WebTab]
    BY DEF WebInv, WebTypes
  <1>2. tab' \in [Actors -> WebTab] /\ tab'[t] = d /\ \A s \in Actors : s # t => tab'[s] = tab[s]
    BY <1>1
  <1>3. WebTypes'
    BY <1>2 DEF WebInv, WebTypes
  <1>4. AsksOnce'
    BY DEF WebInv, AsksOnce
  <1>5. ASSUME NEW s \in Actors PROVE Roles(s)' /\ Shows(s)'
    <2>1. CASE s = t
      BY <1>2, <2>1 DEF Roles, Shows
    <2>2. CASE s # t
      BY <1>2, <2>2 DEF WebInv, Roles, Shows
    <2> QED
      BY <2>1, <2>2
  <1> QED
    BY <1>3, <1>4, <1>5 DEF WebInv

LEMMA SendKeeps ==
  ASSUME WebInv, NEW t \in Actors, Web!SendLogin(t) \/ Web!SendRequest(t)
  PROVE  WebInv'
  <1>1. /\ tab' = tab /\ owner' = owner /\ valid' = valid /\ stored' = stored /\ crossed' = crossed
    BY DEF Web!SendLogin, Web!SendRequest
  <1>2. PICK c : /\ calls' = calls \union {c} /\ c.tab = t /\ c.kind # "me"
                 /\ (c.kind = "login" => c.account \in Users)
    <2>1. PICK kind, a : kind \in {"login", "request"} /\ Web!Send(t, kind, a) /\ (kind = "login" => a \in Users)
      BY DEF Web!SendLogin, Web!SendRequest
    <2> DEFINE new == [tab |-> t, kind |-> kind, account |-> a, token |-> stored]
    <2>2. calls' = calls \union {new}
      BY <2>1 DEF Web!Send
    <2>3. new.tab = t /\ new.kind = kind /\ new.account = a
      OBVIOUS
    <2> HIDE DEF new
    <2> QED
      BY <2>1, <2>2, <2>3
  <1>3. WebTypes'
    BY <1>1, <1>2 DEF WebInv, WebTypes
  <1>4. AsksOnce'
    BY <1>2 DEF WebInv, AsksOnce
  <1>5. \A s \in Actors : Roles(s)' /\ Shows(s)'
    BY <1>1, <1>2 DEF WebInv, Roles, Shows
  <1> QED
    BY <1>3, <1>4, <1>5 DEF WebInv

LEMMA NavigateKeeps ==
  ASSUME WebInv, NEW t \in Actors, NEW page \in {"login", "plain", "roles"}, Web!Navigate(t, page)
  PROVE  WebInv'
  <1>0. tab[t] \in WebTab /\ Roles(t) /\ Shows(t)
    BY DEF WebInv, WebTypes
  <1>1. owner' = owner /\ valid' = valid /\ stored' = stored /\ crossed' = crossed
    BY DEF Web!Navigate
  <1>2. \/ \E new \in {"login", "plain", Web!Decided(tab[t].role)} : Web!Goes(t, new) /\ calls' = calls
        \/ /\ tab[t].user = None /\ Web!New(t, "me") /\ Web!Send(t, "me", None)
           /\ tab' = [tab EXCEPT ![t].target = "roles"]
    BY DEF Web!Navigate
  <1>3. CASE \E new \in {"login", "plain", Web!Decided(tab[t].role)} : Web!Goes(t, new) /\ calls' = calls
    <2>1. PICK new \in {"login", "plain", Web!Decided(tab[t].role)} : Web!Goes(t, new) /\ calls' = calls
      BY <1>3
    <2>2. new \in {"login", "plain", "roles", "forbidden"} /\ (new = "roles" => tab[t].role = "admin")
      BY <2>1 DEF Web!Decided
    <2> DEFINE d == [tab[t] EXCEPT !.page = new, !.target = "none"]
    <2>3. d \in WebTab /\ d.user = tab[t].user /\ d.role = tab[t].role /\ d.page = new
      BY <1>0, <2>2 DEF WebTab
    <2>4. tab' = [tab EXCEPT ![t] = d]
      BY <2>1 DEF Web!Goes
    <2> HIDE DEF d
    <2> QED
      BY <1>0, <1>1, <2>1, <2>2, <2>3, <2>4, TabKeeps DEF Roles, Shows
  <1>4. CASE /\ tab[t].user = None /\ Web!New(t, "me") /\ Web!Send(t, "me", None)
             /\ tab' = [tab EXCEPT ![t].target = "roles"]
    <2> DEFINE d == [tab[t] EXCEPT !.target = "roles"]
    <2>1. d \in WebTab /\ d.user = tab[t].user /\ d.role = tab[t].role /\ d.page = tab[t].page
      BY <1>0 DEF WebTab
    <2>2. tab' = [tab EXCEPT ![t] = d]
      BY <1>4
    <2> HIDE DEF d
    <2>3. tab' \in [Actors -> WebTab] /\ tab'[t] = d /\ \A s \in Actors : s # t => tab'[s] = tab[s]
      BY <2>1, <2>2 DEF WebInv, WebTypes
    <2>4. PICK c : calls' = calls \union {c} /\ c.tab = t /\ c.kind = "me"
      <3> DEFINE new == [tab |-> t, kind |-> "me", account |-> None, token |-> stored]
      <3>1. calls' = calls \union {new}
        BY <1>4 DEF Web!Send
      <3>2. new.tab = t /\ new.kind = "me"
        OBVIOUS
      <3> HIDE DEF new
      <3> QED
        BY <3>1, <3>2
    <2>5. tab[t].role # "admin"
      BY <1>0, <1>4, PlatformAssumption DEF Roles, Web!WebAssumption
    <2>6. \A e \in calls : ~(e.tab = t /\ e.kind = "me")
      BY <1>4 DEF Web!New
    <2>7. WebTypes'
      BY <1>1, <2>3, <2>4 DEF WebInv, WebTypes
    <2>8. AsksOnce'
      BY <2>4, <2>6 DEF WebInv, AsksOnce
    <2>9. ASSUME NEW s \in Actors PROVE Roles(s)' /\ Shows(s)'
      <3>1. CASE s = t
        BY <1>0, <1>1, <1>4, <2>1, <2>3, <2>5, <3>1 DEF Roles, Shows
      <3>2. CASE s # t
        BY <1>1, <2>3, <2>4, <3>2 DEF WebInv, Roles, Shows
      <3> QED
        BY <3>1, <3>2
    <2> QED
      BY <2>7, <2>8, <2>9 DEF WebInv
  <1> QED
    BY <1>2, <1>3, <1>4

LEMMA LeaveKeeps ==
  ASSUME WebInv, NEW t \in Actors, Web!Reload(t) \/ Web!Logout(t)
  PROVE  WebInv'
  <1>1. /\ owner' = owner /\ valid' = valid /\ stored' \in {stored, 0} /\ crossed' = crossed \ {t}
        /\ calls' \subseteq calls
    BY DEF Web!Reload, Web!Logout
  <1>2. CASE Web!Reload(t)
    <2> DEFINE d == [Web!NewTab EXCEPT !.page = IF stored = 0 THEN "login" ELSE "plain"]
    <2>1. d \in WebTab /\ d.user = None /\ d.role = "" /\ d.page # "roles"
      BY DEF Web!NewTab, WebTab
    <2>2. tab' = [tab EXCEPT ![t] = d]
      BY <1>2 DEF Web!Reload
    <2> HIDE DEF d
    <2> QED
      BY <1>1, <2>1, <2>2, TabKeeps
  <1>3. CASE Web!Logout(t)
    <2>1. tab' = [tab EXCEPT ![t] = Web!NewTab]
      BY <1>3 DEF Web!Logout
    <2> QED
      BY <1>1, <2>1, NewTabs, TabKeeps
  <1> QED
    BY <1>2, <1>3

LEMMA LoggedInKeeps ==
  ASSUME WebInv, NEW c \in calls, c.kind = "login", Web!LoggedIn(c.tab, c), calls' = calls \ {c}
  PROVE  WebInv'
  <1> DEFINE t == c.tab
             new == Web!Cardinality(DOMAIN owner) + 1
             d == [user |-> c.account, role |-> "", page |-> "plain", target |-> "none"]
  <1>1. t \in Actors /\ c.account \in Users
    BY DEF WebInv, WebTypes
  <1>2. /\ owner' = [n \in DOMAIN owner \union {new} |-> IF n = new THEN c.account ELSE owner[n]]
        /\ valid' = valid \union {new} /\ stored' = new
        /\ tab' = [tab EXCEPT ![t] = d]
        /\ crossed' = (crossed \ {t}) \union {u \in Actors \ {t} : tab[u].user \notin {None, c.account}}
    BY DEF Web!LoggedIn, Web!LoginUser
  <1>3. d \in WebTab /\ d.user = c.account /\ d.role = "" /\ d.page = "plain"
    BY <1>1 DEF WebTab
  <1> HIDE DEF d, new
  <1>4. tab' \in [Actors -> WebTab] /\ tab'[t] = d /\ \A s \in Actors : s # t => tab'[s] = tab[s]
    BY <1>1, <1>2, <1>3 DEF WebInv, WebTypes
  <1>5. /\ DOMAIN owner' = DOMAIN owner \union {new} /\ owner'[new] = c.account
        /\ \A n \in DOMAIN owner' : owner'[n] \in Users
    BY <1>1, <1>2 DEF WebInv, WebTypes
  <1>6. WebTypes'
    BY <1>2, <1>4, <1>5 DEF WebInv, WebTypes
  <1>7. AsksOnce'
    BY DEF WebInv, AsksOnce
  <1>8. ASSUME NEW s \in Actors PROVE Roles(s)' /\ Shows(s)'
    <2>1. CASE s = t
      BY <1>2, <1>3, <1>4, <1>5, <2>1 DEF Roles, Shows
    <2>2. CASE s # t
      <3>1. Roles(s)'
        BY <1>4, <2>2 DEF WebInv, Roles
      <3>2. Shows(s)'
        BY <1>2, <1>4, <1>5, <2>2 DEF Shows
      <3> QED
        BY <3>1, <3>2
    <2> QED
      BY <2>1, <2>2
  <1> QED
    BY <1>6, <1>7, <1>8 DEF WebInv

\* The answer to a call that is not a login, or to a login that is refused.
LEMMA AnswerTabKeeps ==
  ASSUME WebInv, NEW c \in calls, calls' = calls \ {c},
         \/ Web!Unauthorized(c.tab, c)
         \/ c.kind = "me" /\ c.token \in valid /\ \E known \in BOOLEAN : Web!Fetched(c.tab, c, known)
  PROVE  WebInv'
  <1> DEFINE t == c.tab
  <1>0. t \in Actors /\ tab[t] \in WebTab /\ Roles(t) /\ Shows(t)
    BY DEF WebInv, WebTypes
  <1>1. CASE Web!Unauthorized(t, c)
    <2> DEFINE d == [user |-> IF c.kind = "me" THEN None ELSE tab[t].user,
                     role |-> IF c.kind = "me" THEN "" ELSE tab[t].role,
                     page |-> "login", target |-> "none"]
    <2>1. /\ d \in WebTab /\ d.page = "login"
          /\ d.role = "admin" => d.role = tab[t].role /\ d.user = tab[t].user
      BY <1>0 DEF WebTab
    <2>2. /\ tab' = [tab EXCEPT ![t] = d] /\ stored' = 0 /\ owner' = owner /\ valid' = valid
          /\ crossed' = crossed
      BY <1>1 DEF Web!Unauthorized
    <2> HIDE DEF d
    <2>3. d.role = "admin" => /\ d.user = Admin /\ d.user \in Users
                              /\ \A e \in calls' : e.tab = t => e.kind # "me"
      BY <1>0, <2>1 DEF Roles
    <2> QED
      BY <1>0, <2>1, <2>2, <2>3, TabKeeps
  <1>2. ASSUME NEW known \in BOOLEAN, c.kind = "me", c.token \in valid, Web!Fetched(t, c, known)
        PROVE  WebInv'
    <2> DEFINE u == IF known THEN owner[c.token] ELSE tab[t].user
               role == IF known THEN Web!RoleOf(u) ELSE tab[t].role
               d == [user |-> u, role |-> role, target |-> "none",
                     page |-> IF tab[t].target = "roles" THEN Web!Decided(role) ELSE tab[t].page]
    <2>0. owner[c.token] \in Users /\ tab[t].role # "admin" /\ tab[t].page # "roles"
      BY <1>0, <1>2 DEF WebInv, WebTypes, Roles
    <2>1. /\ tab' = [tab EXCEPT ![t] = d]
          /\ crossed' = IF known /\ stored # 0 /\ owner[stored] # u THEN crossed \union {t} ELSE crossed
          /\ owner' = owner /\ valid' = valid /\ stored' = stored
      BY <1>2 DEF Web!Fetched
    <2>2. u \in Users \union {None} /\ role \in {"", "admin", "dev"} /\ (role = "admin" => u = Admin /\ u \in Users)
      BY <1>0, <2>0 DEF WebTab, Web!RoleOf
    <2> HIDE DEF u, role
    <2>3. d \in WebTab /\ d.user = u /\ d.role = role /\ (d.page = "roles" => role = "admin")
      BY <1>0, <2>0, <2>2 DEF WebTab, Web!Decided
    <2> HIDE DEF d
    <2>4. \A e \in calls' : e.tab = t => e.kind # "me"
      BY <1>2 DEF WebInv, AsksOnce
    <2>5. t \in crossed' \/ stored' = 0 \/ d.user = None \/ d.user = owner[stored]
      <3>1. CASE known
        BY <2>1, <2>3, <3>1
      <3>2. CASE ~known
        BY <1>0, <2>1, <2>3, <3>2 DEF Shows, u
      <3> QED
        BY <3>1, <3>2
    <2>6. \A s \in Actors \ {t} : s \in crossed => s \in crossed'
      BY <2>1
    <2> QED
      BY <1>0, <2>1, <2>2, <2>3, <2>4, <2>5, <2>6, TabKeeps
  <1> QED
    BY <1>1, <1>2

LEMMA WebNextInv ==
  ASSUME WebInv, [Web!Next]_(Web!vars)
  PROVE  WebInv'
  <1>1. ASSUME NEW t \in Actors,
               \/ Web!SendLogin(t) \/ Web!SendRequest(t) \/ Web!Reload(t) \/ Web!Logout(t)
               \/ \E page \in {"login", "plain", "roles"} : Web!Navigate(t, page)
        PROVE  WebInv'
    BY <1>1, SendKeeps, LeaveKeeps, NavigateKeeps
  <1>2. ASSUME NEW c \in calls, Web!Answer(c)
        PROVE  WebInv'
    <2>1. CASE c.kind = "request" /\ UNCHANGED <<owner, valid, stored, tab, crossed>>
      <3>1. /\ calls' \subseteq calls /\ tab' = tab /\ owner' = owner /\ valid' = valid
            /\ stored' = stored /\ crossed' = crossed
        BY <1>2, <2>1 DEF Web!Answer
      <3> QED
        BY <3>1 DEF WebInv, WebTypes, AsksOnce, Roles, Shows
    <2> QED
      BY <1>2, <2>1, LoggedInKeeps, AnswerTabKeeps DEF Web!Answer
  <1>3. CASE Web!Expire
    <2>1. /\ valid' \subseteq valid /\ tab' = tab /\ owner' = owner /\ calls' = calls
          /\ stored' = stored /\ crossed' = crossed
      BY <1>3 DEF Web!Expire
    <2> QED
      BY <2>1 DEF WebInv, WebTypes, AsksOnce, Roles, Shows
  <1>4. CASE UNCHANGED Web!vars
    <2>1. /\ valid' = valid /\ tab' = tab /\ owner' = owner /\ calls' = calls
          /\ stored' = stored /\ crossed' = crossed
      BY <1>4 DEF Web!vars
    <2> QED
      BY <2>1 DEF WebInv, WebTypes, AsksOnce, Roles, Shows
  <1> QED
    BY <1>1, <1>2, <1>3, <1>4 DEF Web!Next

\* The invariant of the tabs of a browser, for any number of tabs, accounts and
\* requests.
THEOREM WebInvariance == Web!Spec => []WebInv
  <1>1. Web!Init => WebInv
    BY WebInitInv
  <1>2. WebInv /\ [Web!Next]_(Web!vars) => WebInv'
    BY WebNextInv
  <1> QED
    BY <1>1, <1>2, PTL DEF Web!Spec

\* The user a tab shows is the one whose token it sends, unless an older answer or
\* another tab's login crossed it, and pages with a role are shown to their holder.
THEOREM UserIsTokensCorrect == Web!Spec => []Web!UserIsTokens
  <1>1. WebInv => Web!UserIsTokens
    BY DEF WebInv, Roles, Shows, Web!UserIsTokens
  <1> QED
    BY <1>1, WebInvariance, PTL

\* A logout of all devices whose commands succeed leaves no older refresh token valid but
\* those of requests that overlapped it, the next one finds all others, and a refresh
\* token is exchanged once unless two requests held it or its deletion was refused; a tab
\* of the web client shows the user whose token it sends unless something crossed it.
THEOREM SessionsHoldCorrect == Session!Spec /\ Web!Spec => []SessionsHold
  <1>1. SessionInv => Session!LogoutReachesAll /\ Session!ExchangedOnce
    BY SessionInvHolds
  <1> QED
    BY <1>1, SessionInvariance, NextLogoutFindsCorrect, UserIsTokensCorrect, PTL DEF SessionsHold
=============================================================================
