--------------------------- MODULE Access_proofs ----------------------------
(***************************************************************************)
(* Proofs about what a request is admitted by, TwoFactor, AccessControl and *)
(* RequestPipeline, and about what answers it, RowHandlers.  Each has an   *)
(* inductive invariant, named for it.                                      *)
(***************************************************************************)
EXTENDS Platform, Integers, Sequences, FiniteSets, SequenceTheorems, FiniteSetTheorems, TLAPS
-----------------------------------------------------------------------------
(***************************************************************************)
(* The second factor.                                                      *)
(***************************************************************************)
UserRow == [secret : Nat, enabled : BOOLEAN, codes : SUBSET Codes!BackupCode]

Handling == [op : Codes!Ops, row : UserRow, code : Codes!BackupCode \union {None}]

CodesTypes ==
  /\ row \in UserRow /\ handler \in [Actors -> Handling \union {None}]
  /\ generated \in Nat /\ accepted \in [Codes!BackupCode -> Nat]

\* A row that may be saved at any time: its codes were generated and have let nobody
\* in that is not excused.
Sound(r) ==
  /\ r.enabled => r.secret # 0
  /\ \A c \in r.codes : c[1] <= generated /\ (accepted[c] = 0 \/ c \in excused)

Handles(h) ==
  handler[h] # None =>
    /\ Sound(handler[h].row)
    /\ handler[h].op = "confirm" => handler[h].row.secret # 0
    /\ handler[h].op = "verify" => handler[h].code \in handler[h].row.codes

CodesInv ==
  /\ CodesTypes
  /\ Sound(row) /\ \A h \in Actors : Handles(h)
  /\ \A c \in Codes!BackupCode : generated < c[1] => accepted[c] = 0
  /\ Codes!CodeAdmitsOnce

LEMMA FreshCodes ==
  ASSUME Codes!CodesAssumption, NEW n \in Nat, n < MaxGenerated
  PROVE  Codes!Fresh(n + 1) \subseteq Codes!BackupCode /\ \A c \in Codes!Fresh(n + 1) : c[1] = n + 1
  <1>1. n + 1 \in 1..MaxGenerated
    BY DEF Codes!CodesAssumption
  <1> QED
    BY <1>1 DEF Codes!Fresh, Codes!BackupCode

LEMMA CodesInitInv ==
  ASSUME Codes!Init
  PROVE  CodesInv
  <1> DEFINE r == [secret |-> 0, enabled |-> FALSE, codes |-> {}]
  <1>1. r \in UserRow /\ ~r.enabled /\ r.codes = {}
    BY DEF UserRow
  <1>2. row = r
    BY DEF Codes!Init
  <1> HIDE DEF r
  <1>3. generated = 0 /\ handler = [h \in Actors |-> None] /\ accepted = [c \in Codes!BackupCode |-> 0]
    BY DEF Codes!Init
  <1>4. CodesTypes
    BY <1>1, <1>2, <1>3 DEF CodesTypes
  <1>5. Sound(row)
    BY <1>1, <1>2 DEF Sound
  <1> QED
    BY <1>3, <1>4, <1>5 DEF CodesInv, Handles, Codes!CodeAdmitsOnce

LEMMA ReadKeeps ==
  ASSUME CodesInv, NEW h \in Actors, Codes!Read(h)
  PROVE  CodesInv'
  <1>a. PICK op \in Codes!Ops :
          /\ Codes!Admits(op, row)
          /\ \E c \in IF op = "verify" THEN row.codes ELSE {None} :
               handler' = [handler EXCEPT ![h] = [op |-> op, row |-> row, code |-> c]]
    BY DEF Codes!Read
  <1>1. PICK c \in IF op = "verify" THEN row.codes ELSE {None} :
          handler' = [handler EXCEPT ![h] = [op |-> op, row |-> row, code |-> c]]
    BY <1>a
  <1>2. row' = row /\ generated' = generated /\ accepted' = accepted /\ excused' = excused
    BY DEF Codes!Read
  <1> DEFINE d == [op |-> op, row |-> row, code |-> c]
  <1>3. row \in UserRow /\ c \in Codes!BackupCode \union {None}
    BY <1>1 DEF CodesInv, CodesTypes, UserRow
  <1>4. d \in Handling /\ d.row = row /\ d.op = op /\ d.code = c
    BY <1>3 DEF Handling
  <1>5. handler' = [handler EXCEPT ![h] = d]
    BY <1>1
  <1>6. op = "confirm" => row.secret # 0
    BY <1>a DEF Codes!Admits
  <1>7. op = "verify" => c \in row.codes
    BY <1>1
  <1> HIDE DEF d
  <1>8. handler'[h] = d /\ \A g \in Actors : g # h => handler'[g] = handler[g]
    BY <1>5 DEF CodesInv, CodesTypes
  <1>9. CodesTypes'
    BY <1>2, <1>4, <1>5 DEF CodesInv, CodesTypes
  <1>10. ASSUME NEW r, Sound(r) PROVE Sound(r)'
    BY <1>2, <1>10 DEF Sound
  <1>11. Sound(row)'
    BY <1>2 DEF CodesInv, Sound
  <1>12. Handles(h)'
    BY <1>2, <1>4, <1>6, <1>7, <1>8, <1>11 DEF Handles, Sound
  <1>13. ASSUME NEW g \in Actors, g # h PROVE Handles(g)'
    BY <1>2, <1>8, <1>13 DEF CodesInv, Handles, Sound
  <1> QED
    BY <1>2, <1>9, <1>11, <1>12, <1>13 DEF CodesInv, Codes!CodeAdmitsOnce

\* A handler that saves a sound row, and has let nobody in.
LEMMA SaveKeeps ==
  ASSUME CodesInv, NEW h \in Actors, row' \in UserRow, Codes!Returns(h),
         generated' \in Nat, generated <= generated', accepted' = accepted, excused' = excused,
         Sound(row)'
  PROVE  CodesInv'
  <1>1. /\ handler' \in [Actors -> Handling \union {None}] /\ handler'[h] = None
        /\ \A g \in Actors : g # h => handler'[g] = handler[g]
    BY DEF CodesInv, CodesTypes, Codes!Returns
  <1>2. CodesTypes'
    BY <1>1 DEF CodesInv, CodesTypes
  <1>3. generated \in Nat /\ \A c \in Codes!BackupCode : c[1] \in Int
    BY DEF CodesInv, CodesTypes, Codes!BackupCode
  <1>4. \A c \in Codes!BackupCode : /\ c[1] <= generated => c[1] <= generated'
                                    /\ generated' < c[1] => generated < c[1]
    BY <1>3
  <1>5. ASSUME NEW g \in Actors PROVE Handles(g)'
    <2>1. SUFFICES ASSUME g # h, handler[g] # None PROVE Handles(g)'
      BY <1>1 DEF Handles
    <2>2. handler'[g] = handler[g] /\ handler[g] \in Handling
      BY <1>1, <2>1 DEF CodesInv, CodesTypes
    <2>3. handler[g].row.codes \subseteq Codes!BackupCode
      BY <2>2 DEF Handling, UserRow
    <2> QED
      BY <1>4, <2>1, <2>2, <2>3 DEF CodesInv, Handles, Sound
  <1> QED
    BY <1>2, <1>4, <1>5 DEF CodesInv, Codes!CodeAdmitsOnce

LEMMA ChangesKeep ==
  ASSUME Codes!CodesAssumption, CodesInv, NEW h \in Actors,
         Codes!Setup2FA(h) \/ Codes!Confirm2FA(h) \/ Codes!Clear2FA(h)
           \/ Codes!RegenerateBackupCodes(h) \/ Codes!SaveFails(h)
  PROVE  CodesInv'
  <1> DEFINE s == handler[h].row
             n == generated + 1
  <1>0. generated \in Nat /\ n \in Nat /\ generated <= n
    BY DEF CodesInv, CodesTypes
  <1>1. /\ s \in UserRow /\ Sound(s) /\ (handler[h].op = "confirm" => s.secret # 0)
        /\ accepted' = accepted /\ excused' = excused /\ Codes!Returns(h)
    <2>1. handler[h] # None /\ handler[h] \in Handling
      BY DEF CodesInv, CodesTypes, Codes!Setup2FA, Codes!Confirm2FA, Codes!Clear2FA,
             Codes!RegenerateBackupCodes, Codes!SaveFails
    <2> QED
      BY <2>1 DEF CodesInv, Handles, Handling, Codes!Setup2FA, Codes!Confirm2FA, Codes!Clear2FA,
                  Codes!RegenerateBackupCodes, Codes!SaveFails
  <1> HIDE DEF s
  <1>2. generated < MaxGenerated =>
          /\ Codes!Fresh(n) \subseteq Codes!BackupCode
          /\ \A c \in Codes!Fresh(n) : c[1] = n /\ accepted[c] = 0
    <2>1. SUFFICES ASSUME generated < MaxGenerated, NEW c \in Codes!Fresh(n)
                   PROVE  c \in Codes!BackupCode /\ c[1] = n /\ accepted[c] = 0
      OBVIOUS
    <2>2. c \in Codes!BackupCode /\ c[1] = n
      BY <1>0, <2>1, FreshCodes
    <2> QED
      BY <1>0, <2>2 DEF CodesInv
  <1>3. CASE Codes!Setup2FA(h)
    <2> DEFINE r == [s EXCEPT !.secret = n, !.codes = Codes!Fresh(n)]
    <2>1. row' = r /\ generated' = n /\ generated < MaxGenerated
      BY <1>3 DEF Codes!Setup2FA, s
    <2>2. r \in UserRow /\ r.secret = n /\ r.codes = Codes!Fresh(n)
      BY <1>0, <1>1, <1>2, <2>1 DEF UserRow
    <2> HIDE DEF r
    <2>3. Sound(row)'
      BY <1>0, <1>1, <1>2, <2>1, <2>2 DEF Sound
    <2> QED
      BY <1>0, <1>1, <2>1, <2>2, <2>3, SaveKeeps
  <1>4. CASE Codes!Confirm2FA(h)
    <2> DEFINE r == [s EXCEPT !.enabled = TRUE]
    <2>1. row' = r /\ generated' = generated /\ s.secret # 0
      BY <1>1, <1>4 DEF Codes!Confirm2FA, s
    <2>2. r \in UserRow /\ r.secret = s.secret /\ r.codes = s.codes
      BY <1>1 DEF UserRow
    <2> HIDE DEF r
    <2>3. Sound(row)'
      BY <1>1, <2>1, <2>2 DEF Sound
    <2> QED
      BY <1>0, <1>1, <2>1, <2>2, <2>3, SaveKeeps
  <1>5. CASE Codes!Clear2FA(h)
    <2> DEFINE r == [secret |-> 0, enabled |-> FALSE, codes |-> {}]
    <2>1. row' = r /\ generated' = generated
      BY <1>5 DEF Codes!Clear2FA
    <2>2. r \in UserRow /\ ~r.enabled /\ r.codes = {}
      BY DEF UserRow
    <2> HIDE DEF r
    <2>3. Sound(row)'
      BY <2>1, <2>2 DEF Sound
    <2> QED
      BY <1>0, <1>1, <2>1, <2>2, <2>3, SaveKeeps
  <1>6. CASE Codes!RegenerateBackupCodes(h)
    <2> DEFINE r == [s EXCEPT !.codes = Codes!Fresh(n)]
    <2>1. row' = r /\ generated' = n /\ generated < MaxGenerated
      BY <1>6 DEF Codes!RegenerateBackupCodes, s
    <2>2. r \in UserRow /\ r.secret = s.secret /\ r.enabled = s.enabled /\ r.codes = Codes!Fresh(n)
      BY <1>0, <1>1, <1>2, <2>1 DEF UserRow
    <2> HIDE DEF r
    <2>3. Sound(row)'
      BY <1>0, <1>1, <1>2, <2>1, <2>2 DEF Sound
    <2> QED
      BY <1>0, <1>1, <2>1, <2>2, <2>3, SaveKeeps
  <1>7. CASE Codes!SaveFails(h)
    <2>1. row' = row /\ generated' = generated
      BY <1>7 DEF Codes!SaveFails
    <2>2. Sound(row)'
      BY <1>1, <2>1 DEF CodesInv, Sound
    <2> QED
      BY <1>0, <1>1, <2>1, <2>2, SaveKeeps DEF CodesInv, CodesTypes
  <1> QED
    BY <1>3, <1>4, <1>5, <1>6, <1>7

LEMMA VerifyKeeps ==
  ASSUME CodesInv, NEW h \in Actors, Codes!Verify2FA(h)
  PROVE  CodesInv'
  <1>1. PICK c : c = handler[h].code
    OBVIOUS
  <1>2. PICK s : s = handler[h].row
    OBVIOUS
  <1>3. /\ handler[h] # None /\ handler[h].op = "verify" /\ generated' = generated /\ Codes!Returns(h)
        /\ accepted' = [accepted EXCEPT ![c] = IF @ < 2 THEN @ + 1 ELSE @]
        /\ \/ /\ row' = [s EXCEPT !.codes = @ \ {c}]
              /\ c \in excused' \/ ~Codes!HeldElsewhere(h, c)
           \/ c \in excused' /\ row' = row
        /\ excused \subseteq excused' /\ excused' \subseteq excused \union {c}
    BY <1>1, <1>2 DEF Codes!Verify2FA, Codes!RemoveBackupCode
  <1>4. /\ s \in UserRow /\ Sound(s) /\ c \in s.codes /\ c \in Codes!BackupCode
        /\ accepted \in [Codes!BackupCode -> Nat]
    <2>1. handler[h] \in Handling
      BY <1>3 DEF CodesInv, CodesTypes
    <2> QED
      BY <1>1, <1>2, <1>3, <2>1 DEF CodesInv, CodesTypes, Handles, Handling, UserRow
  <1>5. /\ accepted' \in [Codes!BackupCode -> Nat]
        /\ \A d \in Codes!BackupCode : d # c => accepted'[d] = accepted[d]
        /\ accepted[c] = 0 => accepted'[c] = 1
    BY <1>3, <1>4
  <1>6. /\ handler' \in [Actors -> Handling \union {None}] /\ handler'[h] = None
        /\ \A g \in Actors : g # h => handler'[g] = handler[g]
    BY <1>3 DEF CodesInv, CodesTypes, Codes!Returns
  <1>7. row' \in UserRow
    BY <1>3, <1>4 DEF CodesInv, CodesTypes, UserRow
  <1>8. CodesTypes'
    BY <1>3, <1>5, <1>6, <1>7 DEF CodesInv, CodesTypes
  <1>9. ASSUME NEW r \in UserRow, Sound(r), c \notin r.codes \/ c \in excused'
        PROVE  /\ r.enabled => r.secret # 0
               /\ \A d \in r.codes : d[1] <= generated' /\ (accepted'[d] = 0 \/ d \in excused')
    <2>1. r.codes \subseteq Codes!BackupCode
      BY DEF UserRow
    <2> QED
      BY <1>3, <1>5, <1>9, <2>1 DEF Sound
  <1>10. Sound(row)'
    <2>1. CASE c \in excused' /\ row' = row
      <3>1. row \in UserRow /\ Sound(row)
        BY DEF CodesInv, CodesTypes
      <3> QED
        BY <1>9, <2>1, <3>1 DEF Sound
    <2>2. CASE row' = [s EXCEPT !.codes = @ \ {c}]
      <3>1. /\ row'.enabled = s.enabled /\ row'.secret = s.secret /\ row'.codes = s.codes \ {c}
        BY <1>4, <2>2 DEF UserRow
      <3>2. Sound([s EXCEPT !.codes = @ \ {c}])
        BY <1>4, <2>2, <3>1 DEF Sound
      <3>3. /\ row'.enabled => row'.secret # 0
            /\ \A d \in row'.codes : d[1] <= generated' /\ (accepted'[d] = 0 \/ d \in excused')
        BY <1>7, <1>9, <2>2, <3>1, <3>2
      <3> QED
        BY <3>3 DEF Sound
    <2> QED
      BY <1>3, <2>1, <2>2
  <1>11. ASSUME NEW g \in Actors PROVE Handles(g)'
    <2>1. SUFFICES ASSUME g # h, handler[g] # None PROVE Handles(g)'
      BY <1>6 DEF Handles
    <2>2. PICK r : r = handler[g].row
      OBVIOUS
    <2>3. handler'[g] = handler[g] /\ r \in UserRow /\ Sound(r)
      BY <1>6, <2>1, <2>2 DEF CodesInv, CodesTypes, Handles, Handling
    <2>4. c \notin r.codes \/ c \in excused'
      <3>1. CASE c \in excused'
        BY <3>1
      <3>2. CASE ~Codes!HeldElsewhere(h, c)
        BY <2>1, <2>2, <3>2 DEF Codes!HeldElsewhere
      <3> QED
        BY <1>3, <3>1, <3>2
    <2>5. /\ r.enabled => r.secret # 0
          /\ \A d \in r.codes : d[1] <= generated' /\ (accepted'[d] = 0 \/ d \in excused')
      BY <1>9, <2>3, <2>4
    <2>6. Sound(handler[g].row)'
      BY <2>2, <2>3, <2>5 DEF Sound
    <2> QED
      BY <2>1, <2>3, <2>6 DEF CodesInv, Handles
  <1>12. \A d \in Codes!BackupCode : generated' < d[1] => accepted'[d] = 0
    <2>1. c[1] <= generated /\ c[1] \in Int /\ generated \in Nat
      BY <1>4 DEF Sound, CodesInv, CodesTypes, Codes!BackupCode
    <2>2. ~(generated < c[1])
      BY <2>1
    <2> QED
      BY <1>3, <1>5, <2>2 DEF CodesInv
  <1>13. Codes!CodeAdmitsOnce'
    <2>1. ASSUME NEW d \in Codes!BackupCode PROVE accepted'[d] <= 1 \/ d \in excused'
      <3>1. CASE d # c
        BY <1>3, <1>5, <3>1 DEF CodesInv, Codes!CodeAdmitsOnce
      <3>2. CASE d = c
        BY <1>3, <1>4, <1>5, <3>2 DEF Sound
      <3> QED
        BY <3>1, <3>2
    <2> QED
      BY <2>1 DEF Codes!CodeAdmitsOnce
  <1> QED
    BY <1>8, <1>10, <1>11, <1>12, <1>13 DEF CodesInv

LEMMA CodesStepKeeps ==
  ASSUME Codes!CodesAssumption, CodesInv, [Codes!Next]_(Codes!vars)
  PROVE  CodesInv'
  <1>1. CASE UNCHANGED Codes!vars
    BY <1>1 DEF Codes!vars, CodesInv, CodesTypes, Handles, Sound, Codes!CodeAdmitsOnce
  <1> QED
    BY <1>1, ReadKeeps, ChangesKeep, VerifyKeeps DEF Codes!Next

\* The inductive invariant of the second factor: whatever row a handler holds, it may be
\* saved, whoever saves it when.
THEOREM CodesInvariance == Codes!Spec => []CodesInv
  <1>1. Codes!Init => CodesInv
    BY CodesInitInv
  <1>2. CodesInv /\ [Codes!Next]_(Codes!vars) => CodesInv'
    BY CodesStepKeeps, PlatformAssumption
  <1> QED
    BY <1>1, <1>2, PTL DEF Codes!Spec

\* For any number of requests, codes and secrets: two-factor login is never enabled
\* without a secret, and a backup code lets somebody in once, unless requests overlap or
\* its row could not be saved.
THEOREM SecondFactorHoldsCorrect == Codes!Spec => []SecondFactorHolds
  <1>1. CodesInv => SecondFactorHolds
    BY DEF CodesInv, Sound, SecondFactorHolds, Codes!EnabledHasSecret
  <1> QED
    BY <1>1, CodesInvariance, PTL
-----------------------------------------------------------------------------
(***************************************************************************)
(* Access.                                                                 *)
(***************************************************************************)
Granted == [user : AccessUsers, role : {"dev", "admin"}, until : Int]

AccessRequest ==
  [pc : {"idle", "authenticated", "asked", "answered"}, token : AccessTokens \union {None},
   resource : Resources \union {None}, answer : BOOLEAN, blind : BOOLEAN]

CachedAnswer == [answer : BOOLEAN, until : Int]

Pairs == AccessUsers \X Resources

AccessTypes ==
  /\ accessTime \in Int /\ accessTime >= 1
  /\ user \in [AccessUsers -> {"dev", "admin", "none"}]
  /\ resource = [x \in Resources |-> resource[x]]
  /\ issued \in [AccessTokens -> Granted \union {Access!Unissued}]
  /\ revoked \in [AccessTokens -> Int]
  /\ answers \in [Pairs -> CachedAnswer]
  /\ lostAt \in [Pairs -> Int]
  /\ access \in [AccessRequests -> AccessRequest]

\* A token whose revocation was confirmed is refused until it expires.
Refused == \A t \in loggedOut : t \in AccessTokens /\ issued[t] \in Granted /\ revoked[t] = issued[t].until

\* Access that is there, or was lost no longer ago than d.
Within(p, d) ==
  Access!Accessible(p[1], p[2]) \/ (lostAt[p] > 0 /\ accessTime - lostAt[p] <= d)

Entry(p) ==
  /\ answers[p].until <= accessTime + CacheLife
  /\ answers[p].answer =>
       Access!Accessible(p[1], p[2]) \/ (lostAt[p] > 0 /\ answers[p].until <= lostAt[p] + CacheLife)

Asks(r) ==
  LET q == access[r]
      p == <<issued[q.token].user, q.resource>>
  IN  q.pc # "idle" =>
        /\ q.token \in AccessTokens /\ issued[q.token] \in Granted /\ q.resource \in Resources
        /\ q.pc = "asked" /\ q.answer => Within(p, 0)
        /\ q.pc = "answered" /\ q.answer /\ issued[q.token].role = "dev" => Within(p, CacheLife)

AccessInv ==
  /\ AccessTypes /\ Refused
  /\ \A p \in Pairs : Entry(p)
  /\ \A r \in AccessRequests : Asks(r)

LEMMA GrantedIsIssued == Access!Unissued \notin Granted /\ Access!Unissued.until = 0
  BY DEF Granted, Access!Unissued

LEMMA IdleRequest == Access!Idle \in AccessRequest /\ Access!Idle.pc = "idle"
  BY DEF AccessRequest, Access!Idle

LEMMA AccessInitInv ==
  ASSUME Access!AccessAssumption, Access!Init
  PROVE  AccessInv
  <1>1. accessTime = 1 /\ user \in [AccessUsers -> {"dev", "admin"}]
        /\ issued = [t \in AccessTokens |-> Access!Unissued]
        /\ revoked = [t \in AccessTokens |-> 0] /\ loggedOut = {}
        /\ access = [r \in AccessRequests |-> Access!Idle]
        /\ resource = [x \in Resources |-> resource[x]]
    BY DEF Access!Init
  <1>2. answers = [p \in Pairs |-> [answer |-> FALSE, until |-> 0]]
    BY DEF Access!Init, Pairs
  <1>3. lostAt = [p \in Pairs |-> 0]
    BY DEF Access!Init, Pairs
  <1>4. [answer |-> FALSE, until |-> 0] \in CachedAnswer
    BY DEF CachedAnswer
  <1>5. answers \in [Pairs -> CachedAnswer] /\ lostAt \in [Pairs -> Int]
    BY <1>2, <1>3, <1>4
  <1>6. user \in [AccessUsers -> {"dev", "admin", "none"}]
    BY <1>1
  <1>7. AccessTypes
    BY <1>1, <1>5, <1>6, IdleRequest DEF AccessTypes
  <1>8. Refused
    BY <1>1 DEF Refused
  <1>9. \A p \in Pairs : Entry(p)
    <2>1. ASSUME NEW p \in Pairs PROVE answers[p].until = 0 /\ ~answers[p].answer
      BY <1>2
    <2> QED
      BY <1>1, <2>1 DEF Entry, Access!AccessAssumption
  <1>10. \A r \in AccessRequests : Asks(r)
    BY <1>1, IdleRequest DEF Asks
  <1> QED
    BY <1>7, <1>8, <1>9, <1>10 DEF AccessInv

\* A token is issued in a place that was free; nobody asks with such a place.
LEMMA IssueKeeps ==
  ASSUME Access!AccessAssumption, AccessInv, NEW t \in AccessTokens,
         Access!IssueToken(t) \/ Access!RefreshToken(t)
  PROVE  AccessInv'
  <1>1. \E u \in AccessUsers, role \in {"dev", "admin"} : Access!GenerateToken(t, u, role)
    <2>1. CASE Access!IssueToken(t)
      <3>1. PICK u \in AccessUsers : user[u] # "none" /\ Access!GenerateToken(t, u, user[u])
        BY <2>1 DEF Access!IssueToken
      <3>2. user[u] \in {"dev", "admin"}
        BY <3>1 DEF AccessInv, AccessTypes
      <3> QED
        BY <3>1, <3>2
    <2>2. CASE Access!RefreshToken(t)
      <3>1. PICK old \in AccessTokens : /\ issued[old] # Access!Unissued
                                        /\ Access!GenerateToken(t, issued[old].user, issued[old].role)
        BY <2>2 DEF Access!RefreshToken
      <3>2. issued[old] \in Granted
        BY <3>1 DEF AccessInv, AccessTypes
      <3>3. issued[old].user \in AccessUsers /\ issued[old].role \in {"dev", "admin"}
        BY <3>2 DEF Granted
      <3> QED
        BY <3>1, <3>3
    <2> QED
      BY <2>1, <2>2
  <1>2. PICK u \in AccessUsers, role \in {"dev", "admin"} : Access!GenerateToken(t, u, role)
    BY <1>1
  <1> DEFINE g == [user |-> u, role |-> role, until |-> accessTime + TokenLife]
  <1>3. /\ issued[t] = Access!Unissued /\ issued' = [issued EXCEPT ![t] = g]
        /\ accessTime' = accessTime /\ user' = user /\ resource' = resource /\ lostAt' = lostAt
        /\ revoked' = revoked /\ answers' = answers /\ access' = access /\ loggedOut' = loggedOut
    BY <1>2 DEF Access!GenerateToken, Access!rows
  <1>4. g \in Granted
    BY DEF Granted, Access!AccessAssumption, AccessInv, AccessTypes
  <1> HIDE DEF g
  <1>5. /\ issued' \in [AccessTokens -> Granted \union {Access!Unissued}]
        /\ \A s \in AccessTokens : issued[s] \in Granted => issued'[s] = issued[s]
    BY <1>3, <1>4, GrantedIsIssued DEF AccessInv, AccessTypes
  <1>6. AccessTypes'
    BY <1>3, <1>5 DEF AccessInv, AccessTypes
  <1>7. Refused'
    BY <1>3, <1>5 DEF AccessInv, Refused
  <1>8. \A p \in Pairs : Entry(p)'
    BY <1>3 DEF AccessInv, Entry, Access!Accessible
  <1>9. ASSUME NEW r \in AccessRequests PROVE Asks(r)'
    <2>0. access'[r] = access[r] /\ Asks(r)
      BY <1>3 DEF AccessInv
    <2>1. CASE access[r].pc = "idle"
      BY <2>0, <2>1 DEF Asks
    <2>2. CASE access[r].pc # "idle"
      <3> DEFINE e == access[r].token
      <3>1. e \in AccessTokens /\ issued[e] \in Granted
        BY <2>0, <2>2 DEF Asks
      <3>2. issued'[e] = issued[e]
        BY <1>5, <3>1
      <3>3. \A q, d : Within(q, d)' = Within(q, d)
        BY <1>3 DEF Within, Access!Accessible
      <3> QED
        BY <2>0, <3>1, <3>2, <3>3 DEF Asks
    <2> QED
      BY <2>1, <2>2
  <1> QED
    BY <1>6, <1>7, <1>8, <1>9 DEF AccessInv

LEMMA RevokeKeeps ==
  ASSUME AccessInv, NEW t \in AccessTokens, Access!RevokeToken(t)
  PROVE  AccessInv'
  <1>1. /\ accessTime < issued[t].until /\ revoked' = [revoked EXCEPT ![t] = issued[t].until]
        /\ loggedOut' = loggedOut \union {t}
        /\ accessTime' = accessTime /\ user' = user /\ resource' = resource /\ lostAt' = lostAt
        /\ issued' = issued /\ answers' = answers /\ access' = access
    BY DEF Access!RevokeToken, Access!Valid, Access!rows
  <1>2. issued[t] \in Granted
    <2>1. issued[t] # Access!Unissued
      BY <1>1, GrantedIsIssued DEF AccessInv, AccessTypes
    <2> QED
      BY <2>1 DEF AccessInv, AccessTypes
  <1>3. issued[t].until \in Int
    BY <1>2 DEF Granted
  <1>4. AccessTypes'
    BY <1>1, <1>3 DEF AccessInv, AccessTypes
  <1>5. Refused'
    BY <1>1, <1>2 DEF AccessInv, AccessTypes, Refused
  <1>6. \A p \in Pairs : Entry(p)'
    BY <1>1 DEF AccessInv, Entry, Access!Accessible
  <1>7. \A r \in AccessRequests : Asks(r)'
    BY <1>1 DEF AccessInv, Asks, Within, Access!Accessible
  <1> QED
    BY <1>4, <1>5, <1>6, <1>7 DEF AccessInv

\* Rows may change in any way that notes when access is lost.
LEMMA RowsKeep ==
  ASSUME Access!AccessAssumption, AccessInv,
         accessTime' = accessTime, issued' = issued, revoked' = revoked, answers' = answers,
         access' = access, loggedOut' = loggedOut,
         user' \in [AccessUsers -> {"dev", "admin", "none"}], resource' = [x \in Resources |-> resource'[x]],
         lostAt' \in [Pairs -> Int],
         \A p \in Pairs : lostAt'[p] \in {lostAt[p], accessTime},
         \A p \in Pairs : Access!Accessible(p[1], p[2]) =>
                            Access!Accessible(p[1], p[2])' \/ lostAt'[p] = accessTime
  PROVE  AccessInv'
  <1>0. accessTime \in Int /\ accessTime >= 1 /\ CacheLife \in Nat
    BY DEF AccessInv, AccessTypes, Access!AccessAssumption
  <1>1. AccessTypes'
    BY DEF AccessInv, AccessTypes
  <1>2. Refused'
    BY DEF AccessInv, Refused
  <1>3. ASSUME NEW p \in Pairs PROVE Entry(p)'
    <2>1. answers[p].until \in Int /\ lostAt[p] \in Int /\ Entry(p)
      BY DEF AccessInv, AccessTypes, CachedAnswer
    <2>2. Access!Accessible(p[1], p[2]) => Access!Accessible(p[1], p[2])' \/ lostAt'[p] = accessTime
      OBVIOUS
    <2>3. lostAt'[p] = lostAt[p] \/ lostAt'[p] = accessTime
      OBVIOUS
    <2> QED
      BY <1>0, <2>1, <2>2, <2>3 DEF Entry
  <1>4. ASSUME NEW p \in Pairs, NEW d \in Nat, Within(p, d) PROVE Within(p, d)'
    <2>1. lostAt[p] \in Int
      BY DEF AccessInv, AccessTypes
    <2>2. Access!Accessible(p[1], p[2]) => Access!Accessible(p[1], p[2])' \/ lostAt'[p] = accessTime
      OBVIOUS
    <2>3. lostAt'[p] = lostAt[p] \/ lostAt'[p] = accessTime
      OBVIOUS
    <2> QED
      BY <1>0, <1>4, <2>1, <2>2, <2>3 DEF Within
  <1>5. ASSUME NEW r \in AccessRequests PROVE Asks(r)'
    <2> DEFINE q == access[r]
               p == <<issued[q.token].user, q.resource>>
    <2>1. SUFFICES ASSUME q.pc # "idle" PROVE Asks(r)'
      BY DEF Asks
    <2>2. p \in Pairs
      BY <2>1 DEF AccessInv, Asks, Granted, Pairs
    <2>3. (Within(p, 0) => Within(p, 0)') /\ (Within(p, CacheLife) => Within(p, CacheLife)')
      BY <1>0, <1>4, <2>2
    <2> QED
      BY <2>1, <2>3 DEF AccessInv, Asks
  <1> QED
    BY <1>1, <1>2, <1>3, <1>5 DEF AccessInv

LEMMA UserActionsKeep ==
  ASSUME Access!AccessAssumption, AccessInv, NEW u \in AccessUsers,
         Access!UpdateUserRole(u) \/ Access!DeleteUser(u)
  PROVE  AccessInv'
  <1>0. /\ user \in [AccessUsers -> {"dev", "admin", "none"}] /\ lostAt \in [Pairs -> Int]
        /\ accessTime \in Int /\ resource = [x \in Resources |-> resource[x]]
    BY DEF AccessInv, AccessTypes
  <1>1. CASE Access!UpdateUserRole(u)
    <2>1. /\ user[u] # "none"
          /\ user' = [user EXCEPT ![u] = IF user[u] = "dev" THEN "admin" ELSE "dev"]
          /\ accessTime' = accessTime /\ issued' = issued /\ revoked' = revoked /\ answers' = answers
          /\ access' = access /\ loggedOut' = loggedOut /\ resource' = resource /\ lostAt' = lostAt
      BY <1>1 DEF Access!UpdateUserRole
    <2>2. user' \in [AccessUsers -> {"dev", "admin", "none"}]
      BY <1>0, <2>1
    <2>3. \A v : user[v] # "none" /\ v \in AccessUsers => user'[v] # "none"
      BY <1>0, <2>1
    <2>4. \A p \in Pairs : Access!Accessible(p[1], p[2]) => Access!Accessible(p[1], p[2])'
      BY <2>1, <2>3 DEF Pairs, Access!Accessible
    <2> QED
      BY <1>0, <2>1, <2>2, <2>4, RowsKeep
  <1>2. CASE Access!DeleteUser(u)
    <2>1. /\ user' = [user EXCEPT ![u] = "none"] /\ Access!LosesAccess({u}, {})
          /\ accessTime' = accessTime /\ issued' = issued /\ revoked' = revoked /\ answers' = answers
          /\ access' = access /\ loggedOut' = loggedOut /\ resource' = resource
      BY <1>2 DEF Access!DeleteUser
    <2>2. lostAt' = [p \in Pairs |-> IF (p[1] \in {u} \/ p[2] \in {}) /\ Access!Accessible(p[1], p[2])
                                       THEN accessTime ELSE lostAt[p]]
      BY <2>1 DEF Access!LosesAccess, Pairs
    <2>3. /\ lostAt' \in [Pairs -> Int]
          /\ \A p \in Pairs : lostAt'[p] \in {lostAt[p], accessTime}
      BY <1>0, <2>2
    <2>4. user' \in [AccessUsers -> {"dev", "admin", "none"}]
      BY <1>0, <2>1
    <2>5. ASSUME NEW p \in Pairs, Access!Accessible(p[1], p[2])
          PROVE  Access!Accessible(p[1], p[2])' \/ lostAt'[p] = accessTime
      <3>1. p[1] \in AccessUsers
        BY DEF Pairs
      <3>2. CASE p[1] = u
        BY <2>2, <2>5, <3>2
      <3>3. CASE p[1] # u
        BY <1>0, <2>1, <2>5, <3>1, <3>3 DEF Access!Accessible
      <3> QED
        BY <3>2, <3>3
    <2> QED
      BY <1>0, <2>1, <2>3, <2>4, <2>5, RowsKeep
  <1> QED
    BY <1>1, <1>2

\* A resource is made where none was, so nobody reached it before.
LEMMA ResourceActionsKeep ==
  ASSUME Access!AccessAssumption, AccessInv, NEW x \in Resources,
         Access!CreateResource(x) \/ Access!DeleteResource(x)
  PROVE  AccessInv'
  <1>0. /\ user \in [AccessUsers -> {"dev", "admin", "none"}] /\ lostAt \in [Pairs -> Int]
        /\ accessTime \in Int /\ resource = [y \in Resources |-> resource[y]]
    BY DEF AccessInv, AccessTypes
  <1>1. CASE Access!CreateResource(x)
    <2>1. PICK tenant : resource' = [resource EXCEPT ![x] = tenant]
      BY <1>1 DEF Access!CreateResource
    <2>2. /\ resource[x] = "unmade" /\ user' = user /\ lostAt' = lostAt
          /\ accessTime' = accessTime /\ issued' = issued /\ revoked' = revoked /\ answers' = answers
          /\ access' = access /\ loggedOut' = loggedOut
      BY <1>1 DEF Access!CreateResource
    <2>3. resource' = [y \in Resources |-> resource'[y]]
      BY <1>0, <2>1
    <2>4. ASSUME NEW p \in Pairs, Access!Accessible(p[1], p[2])
          PROVE  Access!Accessible(p[1], p[2])'
      <3>1. p[2] \in Resources /\ p[2] # x
        BY <2>2, <2>4 DEF Pairs, Access!Accessible
      <3>2. resource'[p[2]] = resource[p[2]]
        BY <1>0, <2>1, <3>1
      <3> QED
        BY <2>2, <2>4, <3>2 DEF Access!Accessible
    <2>5. user' \in [AccessUsers -> {"dev", "admin", "none"}] /\ lostAt' \in [Pairs -> Int]
      BY <1>0, <2>2
    <2>6. \A p \in Pairs : lostAt'[p] \in {lostAt[p], accessTime}
      BY <2>2
    <2> QED
      BY <2>2, <2>3, <2>4, <2>5, <2>6, RowsKeep
  <1>2. CASE Access!DeleteResource(x)
    <2>1. /\ resource' = [resource EXCEPT ![x] = "gone"] /\ Access!LosesAccess({}, {x})
          /\ accessTime' = accessTime /\ issued' = issued /\ revoked' = revoked /\ answers' = answers
          /\ access' = access /\ loggedOut' = loggedOut /\ user' = user
      BY <1>2 DEF Access!DeleteResource
    <2>2. lostAt' = [p \in Pairs |-> IF (p[1] \in {} \/ p[2] \in {x}) /\ Access!Accessible(p[1], p[2])
                                       THEN accessTime ELSE lostAt[p]]
      BY <2>1 DEF Access!LosesAccess, Pairs
    <2>3. /\ lostAt' \in [Pairs -> Int]
          /\ \A p \in Pairs : lostAt'[p] \in {lostAt[p], accessTime}
      BY <1>0, <2>2
    <2>4. resource' = [y \in Resources |-> resource'[y]]
      BY <1>0, <2>1
    <2>5. ASSUME NEW p \in Pairs, Access!Accessible(p[1], p[2])
          PROVE  Access!Accessible(p[1], p[2])' \/ lostAt'[p] = accessTime
      <3>1. p[2] \in Resources
        BY DEF Pairs
      <3>2. CASE p[2] = x
        BY <2>2, <2>5, <3>2
      <3>3. CASE p[2] # x
        <4>1. resource'[p[2]] = resource[p[2]]
          BY <1>0, <2>1, <3>1, <3>3
        <4> QED
          BY <2>1, <2>5, <4>1 DEF Access!Accessible
      <3> QED
        BY <3>2, <3>3
    <2>6. user' \in [AccessUsers -> {"dev", "admin", "none"}]
      BY <1>0, <2>1
    <2> QED
      BY <2>1, <2>3, <2>4, <2>5, <2>6, RowsKeep
  <1> QED
    BY <1>1, <1>2

\* A request that goes on, while rows, tokens and blacklist stay.
LEMMA RequestKeeps ==
  ASSUME AccessInv, NEW r \in AccessRequests, NEW q \in AccessRequest,
         access' = [access EXCEPT ![r] = q],
         accessTime' = accessTime, user' = user, resource' = resource, lostAt' = lostAt,
         issued' = issued, revoked' = revoked, loggedOut' = loggedOut,
         answers' \in [Pairs -> CachedAnswer], \A p \in Pairs : Entry(p)',
         q.pc # "idle" =>
           /\ q.token \in AccessTokens /\ issued[q.token] \in Granted /\ q.resource \in Resources
           /\ q.pc = "asked" /\ q.answer => Within(<<issued[q.token].user, q.resource>>, 0)
           /\ q.pc = "answered" /\ q.answer /\ issued[q.token].role = "dev"
                => Within(<<issued[q.token].user, q.resource>>, CacheLife)
  PROVE  AccessInv'
  <1>1. access \in [AccessRequests -> AccessRequest]
    BY DEF AccessInv, AccessTypes
  <1>2. access' \in [AccessRequests -> AccessRequest]
    BY <1>1
  <1>3. AccessTypes'
    BY <1>2 DEF AccessInv, AccessTypes
  <1>4. Refused'
    BY DEF AccessInv, Refused
  <1>5. \A p, d : Within(p, d)' = Within(p, d)
    BY DEF Within, Access!Accessible
  <1>6. ASSUME NEW s \in AccessRequests PROVE Asks(s)'
    <2>1. CASE s = r
      <3>1. access'[s] = q
        BY <1>1, <2>1
      <3> QED
        BY <1>5, <3>1 DEF Asks
    <2>2. CASE s # r
      <3>1. access'[s] = access[s]
        BY <1>1, <2>2
      <3> QED
        BY <1>5, <3>1 DEF AccessInv, Asks
    <2> QED
      BY <2>1, <2>2
  <1> QED
    BY <1>3, <1>4, <1>6 DEF AccessInv

\* A token that has not expired was issued, and stays so.
LEMMA ValidIsGranted ==
  ASSUME AccessInv, NEW t \in AccessTokens, Access!Valid(t)
  PROVE  issued[t] \in Granted
  <1>1. issued[t] # Access!Unissued
    BY GrantedIsIssued DEF Access!Valid, AccessInv, AccessTypes
  <1> QED
    BY <1>1 DEF AccessInv, AccessTypes

LEMMA AuthenticateKeeps ==
  ASSUME AccessInv, NEW r \in AccessRequests, Access!Authenticate(r)
  PROVE  AccessInv'
  <1>1. PICK t \in AccessTokens, x \in Resources, readable \in BOOLEAN :
             /\ Access!Valid(t)
             /\ access' = [access EXCEPT ![r] =
                  [pc |-> "authenticated", token |-> t, resource |-> x, answer |-> FALSE, blind |-> ~readable]]
    BY DEF Access!Authenticate
  <1>2. /\ accessTime' = accessTime /\ user' = user /\ resource' = resource /\ lostAt' = lostAt
        /\ issued' = issued /\ revoked' = revoked /\ loggedOut' = loggedOut /\ answers' = answers
    BY DEF Access!Authenticate, Access!rows
  <1> DEFINE q == [pc |-> "authenticated", token |-> t, resource |-> x, answer |-> FALSE, blind |-> ~readable]
  <1>3. q \in AccessRequest /\ q.pc = "authenticated" /\ q.token = t /\ q.resource = x
    BY DEF AccessRequest
  <1>4. access' = [access EXCEPT ![r] = q]
    BY <1>1
  <1> HIDE DEF q
  <1>5. issued[t] \in Granted
    BY <1>1, ValidIsGranted
  <1>6. answers' \in [Pairs -> CachedAnswer] /\ \A p \in Pairs : Entry(p)'
    BY <1>2 DEF AccessInv, AccessTypes, Entry, Access!Accessible
  <1> QED
    BY <1>2, <1>3, <1>4, <1>5, <1>6, RequestKeeps

\* An answer comes from the role, from the cache, from the database, or is the
\* one that was stored.
LEMMA AnswerKeeps ==
  ASSUME Access!AccessAssumption, AccessInv, NEW r \in AccessRequests,
         Access!Privileged(r) \/ Access!AnswerFromCache(r) \/ Access!AskDatabase(r)
  PROVE  AccessInv'
  <1> DEFINE old == access[r]
             p == <<issued[old.token].user, old.resource>>
  <1>1. /\ accessTime' = accessTime /\ user' = user /\ resource' = resource /\ lostAt' = lostAt
        /\ issued' = issued /\ revoked' = revoked /\ loggedOut' = loggedOut /\ answers' = answers
        /\ old.pc = "authenticated"
    BY DEF Access!Privileged, Access!AnswerFromCache, Access!AskDatabase, Access!rows
  <1>2. /\ old \in AccessRequest /\ old.token \in AccessTokens /\ issued[old.token] \in Granted
        /\ old.resource \in Resources
    BY <1>1 DEF AccessInv, AccessTypes, Asks
  <1>3. p \in Pairs
    BY <1>2 DEF Granted, Pairs
  <1>4. /\ accessTime \in Int /\ answers[p] \in CachedAnswer /\ lostAt[p] \in Int /\ Entry(p)
        /\ CacheLife \in Nat
    BY <1>3 DEF AccessInv, AccessTypes, Access!AccessAssumption
  <1>5. answers' \in [Pairs -> CachedAnswer] /\ \A e \in Pairs : Entry(e)'
    BY <1>1 DEF AccessInv, AccessTypes, Entry, Access!Accessible
  <1>6. Access!Who(r) = issued[old.token].user /\ Access!What(r) = old.resource
        /\ Access!Role(r) = issued[old.token].role
    BY DEF Access!Who, Access!What, Access!Role
  <1>7. \E next \in {"asked", "answered"}, yes \in BOOLEAN :
          /\ access' = [access EXCEPT ![r] = [old EXCEPT !.pc = next, !.answer = yes]]
          /\ next = "asked" /\ yes => Within(p, 0)
          /\ next = "answered" /\ yes /\ issued[old.token].role = "dev" => Within(p, CacheLife)
    <2>1. CASE Access!Privileged(r)
      <3>1. access' = [access EXCEPT ![r] = [old EXCEPT !.pc = "answered", !.answer = TRUE]]
        BY <2>1 DEF Access!Privileged, Access!Answer
      <3>2. issued[old.token].role # "dev"
        BY <1>6, <2>1 DEF Access!Privileged
      <3> QED
        BY <3>1, <3>2
    <2>2. CASE Access!AnswerFromCache(r)
      <3>1. /\ access' = [access EXCEPT ![r] = [old EXCEPT !.pc = "answered", !.answer = answers[p].answer]]
            /\ accessTime <= answers[p].until
        BY <1>6, <2>2 DEF Access!AnswerFromCache, Access!Answer, Access!Cached
      <3>2. answers[p].answer \in BOOLEAN /\ answers[p].until \in Int
        BY <1>4 DEF CachedAnswer
      <3>3. answers[p].answer => Within(p, CacheLife)
        BY <1>4, <3>1, <3>2 DEF Entry, Within
      <3> QED
        BY <3>1, <3>2, <3>3
    <2>3. CASE Access!AskDatabase(r)
      <3>1. PICK yes \in {Access!Accessible(p[1], p[2]), FALSE} :
                 access' = [access EXCEPT ![r] = [old EXCEPT !.pc = "asked", !.answer = yes]]
        BY <1>6, <2>3 DEF Access!AskDatabase, Access!Answer
      <3>2. yes \in BOOLEAN /\ (yes => Access!Accessible(p[1], p[2]))
        BY <3>1 DEF Access!Accessible
      <3>3. yes => Within(p, 0)
        BY <3>2 DEF Within
      <3> QED
        BY <3>1, <3>2, <3>3
    <2> QED
      BY <2>1, <2>2, <2>3
  <1>8. PICK next \in {"asked", "answered"}, yes \in BOOLEAN :
          /\ access' = [access EXCEPT ![r] = [old EXCEPT !.pc = next, !.answer = yes]]
          /\ next = "asked" /\ yes => Within(p, 0)
          /\ next = "answered" /\ yes /\ issued[old.token].role = "dev" => Within(p, CacheLife)
    BY <1>7
  <1> DEFINE q == [old EXCEPT !.pc = next, !.answer = yes]
  <1>9. /\ q \in AccessRequest /\ q.pc = next /\ q.answer = yes /\ q.token = old.token
        /\ q.resource = old.resource
    BY <1>2 DEF AccessRequest
  <1>10. access' = [access EXCEPT ![r] = q]
    BY <1>8
  <1> HIDE DEF q
  <1>11. /\ q.pc = "asked" /\ q.answer => Within(<<issued[q.token].user, q.resource>>, 0)
         /\ q.pc = "answered" /\ q.answer /\ issued[q.token].role = "dev"
              => Within(<<issued[q.token].user, q.resource>>, CacheLife)
    BY <1>8, <1>9
  <1>12. q.token \in AccessTokens /\ issued[q.token] \in Granted /\ q.resource \in Resources
    BY <1>2, <1>9
  <1> QED
    BY <1>1, <1>5, <1>9, <1>10, <1>11, <1>12, RequestKeeps

\* What is stored is an answer of this moment, so it is stale for one CacheLife
\* at most.
LEMMA StoreKeeps ==
  ASSUME Access!AccessAssumption, AccessInv, NEW r \in AccessRequests, Access!StoreAnswer(r)
  PROVE  AccessInv'
  <1> DEFINE old == access[r]
             p == <<issued[old.token].user, old.resource>>
             entry == [answer |-> old.answer, until |-> accessTime + CacheLife]
             q == [old EXCEPT !.pc = "answered", !.answer = old.answer]
  <1>1. /\ accessTime' = accessTime /\ user' = user /\ resource' = resource /\ lostAt' = lostAt
        /\ issued' = issued /\ revoked' = revoked /\ loggedOut' = loggedOut
        /\ old.pc = "asked" /\ access' = [access EXCEPT ![r] = q]
        /\ answers' = [answers EXCEPT ![p] = entry] \/ answers' = answers
    BY DEF Access!StoreAnswer, Access!rows, Access!Answer, Access!Who, Access!What
  <1>2. /\ old \in AccessRequest /\ old.token \in AccessTokens /\ issued[old.token] \in Granted
        /\ old.resource \in Resources /\ (old.answer => Within(p, 0))
    BY <1>1 DEF AccessInv, AccessTypes, Asks
  <1>3. p \in Pairs
    BY <1>2 DEF Granted, Pairs
  <1>4. /\ accessTime \in Int /\ answers \in [Pairs -> CachedAnswer] /\ lostAt[p] \in Int
        /\ CacheLife \in Nat /\ old.answer \in BOOLEAN
    BY <1>2, <1>3 DEF AccessInv, AccessTypes, Access!AccessAssumption, AccessRequest
  <1>5. entry \in CachedAnswer /\ entry.answer = old.answer /\ entry.until = accessTime + CacheLife
    BY <1>4 DEF CachedAnswer
  <1>6. /\ q \in AccessRequest /\ q.pc = "answered" /\ q.answer = old.answer /\ q.token = old.token
        /\ q.resource = old.resource
    BY <1>2 DEF AccessRequest
  <1>7. old.answer => Within(p, CacheLife)
    BY <1>2, <1>4 DEF Within
  <1> HIDE DEF q, entry
  <1>8. answers' \in [Pairs -> CachedAnswer]
    BY <1>1, <1>4, <1>5
  <1>9. ASSUME NEW e \in Pairs PROVE Entry(e)'
    <2>1. Access!Accessible(e[1], e[2])' = Access!Accessible(e[1], e[2])
      BY <1>1 DEF Access!Accessible
    <2>2. CASE answers'[e] = answers[e]
      BY <1>1, <2>1, <2>2 DEF AccessInv, Entry
    <2>3. CASE answers'[e] # answers[e]
      <3>1. e = p /\ answers'[e] = entry
        BY <1>1, <1>4, <2>3
      <3> QED
        BY <1>1, <1>2, <1>4, <1>5, <2>1, <3>1 DEF Entry, Within
    <2> QED
      BY <2>2, <2>3
  <1> QED
    BY <1>1, <1>2, <1>6, <1>7, <1>8, <1>9, RequestKeeps

LEMMA FinishKeeps ==
  ASSUME AccessInv, NEW r \in AccessRequests, Access!Finish(r)
  PROVE  AccessInv'
  <1>1. /\ accessTime' = accessTime /\ user' = user /\ resource' = resource /\ lostAt' = lostAt
        /\ issued' = issued /\ revoked' = revoked /\ loggedOut' = loggedOut /\ answers' = answers
        /\ access' = [access EXCEPT ![r] = Access!Idle]
    BY DEF Access!Finish, Access!rows
  <1>2. answers' \in [Pairs -> CachedAnswer] /\ \A p \in Pairs : Entry(p)'
    BY <1>1 DEF AccessInv, AccessTypes, Entry, Access!Accessible
  <1> QED
    BY <1>1, <1>2, IdleRequest, RequestKeeps

\* Time goes on while no request is under way; a restart forgets blacklist,
\* cache and the revocations it confirmed together, or none of them.
LEMMA TickKeeps ==
  ASSUME Access!AccessAssumption, AccessInv, Access!Tick
  PROVE  AccessInv'
  <1>1. /\ accessTime' = accessTime + 1 /\ user' = user /\ resource' = resource /\ lostAt' = lostAt
        /\ issued' = issued /\ revoked' = revoked /\ loggedOut' = loggedOut /\ answers' = answers
        /\ access' = access /\ \A r \in AccessRequests : access[r] = Access!Idle
    BY DEF Access!Tick, Access!rows
  <1>2. accessTime \in Int /\ accessTime >= 1 /\ CacheLife \in Nat
    BY DEF AccessInv, AccessTypes, Access!AccessAssumption
  <1>3. AccessTypes'
    BY <1>1, <1>2 DEF AccessInv, AccessTypes
  <1>4. Refused'
    BY <1>1 DEF AccessInv, Refused
  <1>5. ASSUME NEW p \in Pairs PROVE Entry(p)'
    <2>1. answers[p].until \in Int /\ Entry(p)
      BY DEF AccessInv, AccessTypes, CachedAnswer
    <2>2. answers'[p] = answers[p] /\ lostAt'[p] = lostAt[p]
          /\ Access!Accessible(p[1], p[2])' = Access!Accessible(p[1], p[2])
      BY <1>1 DEF Access!Accessible
    <2> QED
      BY <1>1, <1>2, <2>1, <2>2 DEF Entry
  <1>6. \A r \in AccessRequests : Asks(r)'
    BY <1>1, IdleRequest DEF Asks
  <1> QED
    BY <1>3, <1>4, <1>5, <1>6 DEF AccessInv

LEMMA RestartKeeps ==
  ASSUME Access!AccessAssumption, AccessInv, Access!Restart
  PROVE  AccessInv'
  <1>1. /\ accessTime' = accessTime /\ user' = user /\ resource' = resource /\ lostAt' = lostAt
        /\ issued' = issued /\ access' = [r \in AccessRequests |-> Access!Idle]
    BY DEF Access!Restart, Access!rows
  <1>2. \/ revoked' = revoked /\ answers' = answers /\ loggedOut' = loggedOut
        \/ /\ revoked' = [t \in AccessTokens |-> 0] /\ loggedOut' = {}
           /\ answers' = [p \in Pairs |-> [answer |-> FALSE, until |-> 0]]
    BY DEF Access!Restart, Pairs
  <1>3. [answer |-> FALSE, until |-> 0] \in CachedAnswer
    BY DEF CachedAnswer
  <1>4. /\ answers' \in [Pairs -> CachedAnswer] /\ revoked' \in [AccessTokens -> Int]
        /\ access' \in [AccessRequests -> AccessRequest]
    <2>1. answers \in [Pairs -> CachedAnswer] /\ revoked \in [AccessTokens -> Int]
      BY DEF AccessInv, AccessTypes
    <2>2. answers' \in [Pairs -> CachedAnswer]
      BY <1>2, <1>3, <2>1
    <2>3. revoked' \in [AccessTokens -> Int]
      BY <1>2, <2>1
    <2>4. access' \in [AccessRequests -> AccessRequest]
      BY <1>1, IdleRequest
    <2> QED
      BY <2>2, <2>3, <2>4
  <1>5. AccessTypes'
    BY <1>1, <1>4 DEF AccessInv, AccessTypes
  <1>6. Refused'
    BY <1>1, <1>2 DEF AccessInv, Refused
  <1>7. ASSUME NEW p \in Pairs PROVE Entry(p)'
    <2>0. accessTime \in Int /\ accessTime >= 1 /\ CacheLife \in Nat
      BY DEF AccessInv, AccessTypes, Access!AccessAssumption
    <2>1. CASE answers' = answers
      BY <1>1, <2>1 DEF AccessInv, Entry, Access!Accessible
    <2>2. CASE answers' = [e \in Pairs |-> [answer |-> FALSE, until |-> 0]]
      <3>1. answers'[p].until = 0 /\ ~answers'[p].answer
        BY <2>2
      <3> QED
        BY <1>1, <2>0, <3>1 DEF Entry
    <2> QED
      BY <1>2, <2>1, <2>2
  <1>8. \A r \in AccessRequests : Asks(r)'
    BY <1>1, IdleRequest DEF Asks
  <1> QED
    BY <1>5, <1>6, <1>7, <1>8 DEF AccessInv

LEMMA AccessNextInv ==
  ASSUME Access!AccessAssumption, AccessInv, [Access!Next]_accessVars
  PROVE  AccessInv'
  <1>1. CASE Access!Next
    <2>1. ASSUME NEW t \in AccessTokens,
                 Access!IssueToken(t) \/ Access!RefreshToken(t) \/ Access!RevokeToken(t)
          PROVE  AccessInv'
      BY <2>1, IssueKeeps, RevokeKeeps
    <2>2. ASSUME NEW r \in AccessRequests, Access!Handle(r)
          PROVE  AccessInv'
      BY <2>2, AuthenticateKeeps, AnswerKeeps, StoreKeeps, FinishKeeps DEF Access!Handle
    <2> QED
      BY <1>1, <2>1, <2>2, UserActionsKeep, ResourceActionsKeep, TickKeeps, RestartKeeps
         DEF Access!Next
  <1>2. CASE UNCHANGED accessVars
    <2>1. /\ accessTime' = accessTime /\ user' = user /\ resource' = resource /\ lostAt' = lostAt
          /\ issued' = issued /\ revoked' = revoked /\ loggedOut' = loggedOut /\ answers' = answers
          /\ access' = access
      BY <1>2 DEF accessVars
    <2> QED
      BY <2>1 DEF AccessInv, AccessTypes, Refused, Entry, Asks, Within, Access!Accessible
  <1> QED
    BY <1>1, <1>2

\* The invariant of requests, tokens and cache, for any number of each and for
\* any lives of a token and of a cached answer.
THEOREM AccessInvariance == Access!Spec => []AccessInv
  <1>0. Access!AccessAssumption
    BY PlatformAssumption
  <1>1. Access!Init => AccessInv
    BY <1>0, AccessInitInv
  <1>2. AccessInv /\ [Access!Next]_(Access!vars) => AccessInv'
    BY <1>0, AccessNextInv DEF Access!vars, accessVars
  <1> QED
    BY <1>1, <1>2, PTL DEF Access!Spec

\* While the server can read the blacklist no request begins with a token whose
\* revocation was confirmed, until the memory the blacklist is kept in is gone.
THEOREM RevokedStaysOutCorrect == Access!Spec => RevokedStaysOut
  <1>1. AccessInv /\ [Access!Next]_(Access!vars) => [Access!RevokedStaysOut]_accessVars
    <2>1. SUFFICES ASSUME AccessInv, [Access!Next]_(Access!vars), NEW r \in AccessRequests,
                          access[r].pc = "idle", access'[r].pc = "authenticated", ~access'[r].blind
                   PROVE  access'[r].token \notin loggedOut
      BY DEF Access!RevokedStaysOut
    <2>2. access \in [AccessRequests -> AccessRequest]
      BY <2>1 DEF AccessInv, AccessTypes
    <2>3. access'[r] # access[r] /\ access' # access
      BY <2>1
    <2>4. PICK s \in AccessRequests : Access!Handle(s)
      <3>1. ~Access!Tick /\ ~UNCHANGED Access!vars
        BY <2>3 DEF Access!Tick, Access!vars
      <3>2. ~Access!Restart
        BY <2>1, IdleRequest DEF Access!Restart
      <3>3. \A t \in AccessTokens :
              ~Access!IssueToken(t) /\ ~Access!RefreshToken(t) /\ ~Access!RevokeToken(t)
        BY <2>3 DEF Access!IssueToken, Access!RefreshToken, Access!GenerateToken, Access!RevokeToken
      <3>4. \A u \in AccessUsers : ~Access!UpdateUserRole(u) /\ ~Access!DeleteUser(u)
        BY <2>3 DEF Access!UpdateUserRole, Access!DeleteUser
      <3>5. \A x \in Resources : ~Access!CreateResource(x) /\ ~Access!DeleteResource(x)
        BY <2>3 DEF Access!CreateResource, Access!DeleteResource
      <3> QED
        BY <2>1, <3>1, <3>2, <3>3, <3>4, <3>5 DEF Access!Next
    <2>5. \E q : access' = [access EXCEPT ![s] = q]
      BY <2>4 DEF Access!Handle, Access!Authenticate, Access!Privileged, Access!AnswerFromCache,
           Access!AskDatabase, Access!StoreAnswer, Access!Finish, Access!Answer
    <2>6. s = r
      BY <2>2, <2>3, <2>5
    <2>7. Access!Authenticate(r)
      BY <2>1, <2>4, <2>6 DEF Access!Handle, Access!Privileged, Access!AnswerFromCache,
           Access!AskDatabase, Access!StoreAnswer, Access!Finish
    <2>8. PICK t \in AccessTokens, x \in Resources, readable \in BOOLEAN :
             /\ Access!Valid(t) /\ ~(readable /\ Access!Listed(t))
             /\ access' = [access EXCEPT ![r] =
                  [pc |-> "authenticated", token |-> t, resource |-> x, answer |-> FALSE, blind |-> ~readable]]
      BY <2>7 DEF Access!Authenticate
    <2>9. access'[r].token = t /\ access'[r].blind = ~readable
      BY <2>2, <2>8
    <2>10. accessTime < issued[t].until /\ ~(accessTime <= revoked[t])
      BY <2>1, <2>8, <2>9 DEF Access!Valid, Access!Listed
    <2>11. ASSUME t \in loggedOut PROVE FALSE
      <3>1. revoked[t] = issued[t].until /\ issued[t] \in Granted /\ accessTime \in Int
        BY <2>1, <2>11 DEF AccessInv, Refused, AccessTypes
      <3>2. issued[t].until \in Int
        BY <3>1 DEF Granted
      <3> QED
        BY <2>10, <3>1, <3>2
    <2> QED
      BY <2>9, <2>11
  <1>2. [][Access!RevokedStaysOut]_accessVars <=> RevokedStaysOut
    BY PTL DEF RevokedStaysOut
  <1> QED
    BY <1>1, <1>2, AccessInvariance, PTL DEF Access!Spec

\* Whoever is below admin and reaches a resource had access to it at some moment
\* of the last CacheLife, whatever became of users, resources and cache since.
THEOREM AnswersAreFreshCorrect == Access!Spec => []Access!AnswersAreFresh
  <1>1. ASSUME AccessInv, NEW r \in AccessRequests, access[r].pc = "answered", access[r].answer,
               Access!Role(r) = "dev"
        PROVE  \/ Access!Accessible(Access!Who(r), Access!What(r))
               \/ /\ lostAt[<<Access!Who(r), Access!What(r)>>] > 0
                  /\ accessTime - lostAt[<<Access!Who(r), Access!What(r)>>] <= CacheLife
    <2>1. Within(<<issued[access[r].token].user, access[r].resource>>, CacheLife)
      BY <1>1 DEF AccessInv, Asks, Access!Role
    <2> QED
      BY <2>1 DEF Within, Access!Who, Access!What
  <1>2. AccessInv => Access!AnswersAreFresh
    BY <1>1 DEF Access!AnswersAreFresh
  <1> QED
    BY <1>2, AccessInvariance, PTL
-----------------------------------------------------------------------------
(***************************************************************************)
(* The request pipeline.                                                   *)
(***************************************************************************)
Gates == {"AddressGates", "RateLimiter", "AuditMiddleware", "UserIPWhitelist", "SetDB",
          "APIKeyMiddleware", "AuthMiddleware", "CSRF", "RequireResourceAccess",
          "RoleRequired", "RequireScope"}

In(m, s) == \E i \in DOMAIN s : s[i] = m

\* No gate that sets the user of a request comes after one that asks who he is, or
\* after the one that looks at his token.
Early == {"APIKeyMiddleware", "AuthMiddleware"}
Late == {"AuthMiddleware", "RoleRequired", "RequireScope"}
Ordered(s) == \A i, j \in DOMAIN s : i < j => ~(s[i] \in Late /\ s[j] \in Early)

GoodRoute(x) ==
  /\ x.chain \in Seq(Gates) /\ Ordered(x.chain)
  /\ In("AuditMiddleware", x.chain)
  /\ In("APIKeyMiddleware", x.chain) => In("AuthMiddleware", x.chain)
  /\ x.role # "" => In("RoleRequired", x.chain)
  /\ x.scope # "" => In("RequireScope", x.chain) /\ In("APIKeyMiddleware", x.chain)

\* What two sequences of gates put together contain, and in which order.
LEMMA Joined ==
  ASSUME NEW s \in Seq(Gates), NEW t \in Seq(Gates)
  PROVE  /\ s \o t \in Seq(Gates)
         /\ \A m : In(m, s \o t) <=> In(m, s) \/ In(m, t)
         /\ Ordered(s) /\ Ordered(t) /\ (\A m \in Late, n \in Early : ~(In(m, s) /\ In(n, t)))
              => Ordered(s \o t)
  <1>1. PICK a \in Nat, b \in Nat : a = Len(s) /\ b = Len(t)
    OBVIOUS
  <1>2. DOMAIN s = 1..a /\ DOMAIN t = 1..b
    BY <1>1
  <1>3. PICK u : u = s \o t
    OBVIOUS
  <1>4. /\ u \in Seq(Gates) /\ Len(u) = a + b
        /\ \A i \in 1..(a + b) : u[i] = IF i <= a THEN s[i] ELSE t[i - a]
    BY <1>1, <1>3, ConcatProperties
  <1>5. DOMAIN u = 1..(a + b)
    BY <1>4
  <1>6. \A i \in 1..(a + b) : \/ i \in 1..a /\ i <= a /\ u[i] = s[i]
                              \/ i - a \in 1..b /\ i > a /\ u[i] = t[i - a]
    BY <1>4
  <1>7. \A i \in 1..a : i \in 1..(a + b) /\ u[i] = s[i]
    BY <1>4
  <1>8. \A i \in 1..b : a + i \in 1..(a + b) /\ u[a + i] = t[i]
    <2> SUFFICES ASSUME NEW i \in 1..b PROVE a + i \in 1..(a + b) /\ u[a + i] = t[i]
      OBVIOUS
    <2>1. a + i \in 1..(a + b) /\ ~(a + i <= a) /\ (a + i) - a = i
      OBVIOUS
    <2> QED
      BY <1>4, <2>1
  <1>9. ASSUME NEW m PROVE In(m, u) <=> In(m, s) \/ In(m, t)
    BY <1>2, <1>5, <1>6, <1>7, <1>8 DEF In
  <1>10. ASSUME Ordered(s), Ordered(t), \A m \in Late, n \in Early : ~(In(m, s) /\ In(n, t)),
                NEW i \in DOMAIN u, NEW j \in DOMAIN u, i < j, u[i] \in Late, u[j] \in Early
         PROVE  FALSE
    <2>1. CASE i <= a /\ j <= a
      <3>1. i \in DOMAIN s /\ j \in DOMAIN s /\ u[i] = s[i] /\ u[j] = s[j]
        BY <1>2, <1>4, <1>5, <1>10, <2>1
      <3> QED
        BY <1>10, <3>1 DEF Ordered
    <2>2. CASE i <= a /\ j > a
      <3>1. i \in DOMAIN s /\ j - a \in DOMAIN t /\ u[i] = s[i] /\ u[j] = t[j - a]
        BY <1>2, <1>4, <1>5, <1>10, <2>2
      <3>2. In(u[i], s) /\ In(u[j], t)
        BY <3>1 DEF In
      <3> QED
        BY <1>10, <3>2
    <2>3. CASE i > a
      <3>1. i - a \in DOMAIN t /\ j - a \in DOMAIN t /\ u[i] = t[i - a] /\ u[j] = t[j - a] /\ i - a < j - a
        BY <1>2, <1>4, <1>5, <1>10, <2>3
      <3> QED
        BY <1>10, <3>1 DEF Ordered
    <2> QED
      BY <1>2, <1>5, <1>10, <2>1, <2>2, <2>3
  <1> QED
    BY <1>3, <1>4, <1>9, <1>10 DEF Ordered

LEMMA Groups ==
  LET s == Pipeline!EngineUses
  IN  /\ s \in Seq(Gates) /\ Ordered(s)
      /\ \A m : In(m, s) <=> m \in {"AddressGates", "RateLimiter", "AuditMiddleware", "UserIPWhitelist"}
  <1>1. PICK s : s = <<"AddressGates", "RateLimiter", "AuditMiddleware", "UserIPWhitelist">>
    OBVIOUS
  <1>2. /\ s \in Seq(Gates) /\ DOMAIN s = 1..4
        /\ s[1] = "AddressGates" /\ s[2] = "RateLimiter" /\ s[3] = "AuditMiddleware" /\ s[4] = "UserIPWhitelist"
    BY <1>1 DEF Gates
  <1>3. \A i \in 1..4 : i = 1 \/ i = 2 \/ i = 3 \/ i = 4
    OBVIOUS
  <1>4. 1 \in 1..4 /\ 2 \in 1..4 /\ 3 \in 1..4 /\ 4 \in 1..4
    OBVIOUS
  <1>5. ASSUME NEW m PROVE In(m, s) <=> m \in {"AddressGates", "RateLimiter", "AuditMiddleware", "UserIPWhitelist"}
    BY <1>2, <1>3, <1>4 DEF In
  <1>6. \A i \in 1..4 : s[i] \notin Late
    BY <1>2, <1>3 DEF Late
  <1>7. Ordered(s)
    BY <1>2, <1>6 DEF Ordered
  <1> QED
    BY <1>1, <1>2, <1>5, <1>7 DEF Pipeline!EngineUses

\* Each sequence of at most two gates that a route has of its own.
LEMMA Guards ==
  /\ <<>> \in Seq(Gates) /\ Ordered(<<>>) /\ \A m : ~In(m, <<>>)
  /\ \A g \in Gates : <<g>> \in Seq(Gates) /\ Ordered(<<g>>) /\ \A m : In(m, <<g>>) <=> m = g
  /\ \A g, h \in Gates :
       /\ <<g, h>> \in Seq(Gates) /\ \A m : In(m, <<g, h>>) <=> m = g \/ m = h
       /\ ~(g \in Late /\ h \in Early) => Ordered(<<g, h>>)
  <1>1. <<>> \in Seq(Gates) /\ Ordered(<<>>) /\ \A m : ~In(m, <<>>)
    BY DEF Ordered, In
  <1>2. ASSUME NEW g \in Gates
        PROVE  <<g>> \in Seq(Gates) /\ Ordered(<<g>>) /\ \A m : In(m, <<g>>) <=> m = g
    <2>1. PICK s : s = <<g>>
      OBVIOUS
    <2>2. s \in Seq(Gates) /\ DOMAIN s = 1..1 /\ s[1] = g
      BY <2>1
    <2>3. 1 \in 1..1 /\ \A i \in 1..1 : i = 1
      OBVIOUS
    <2>4. \A i, j \in DOMAIN s : ~(i < j)
      BY <2>2
    <2> QED
      BY <2>1, <2>2, <2>3, <2>4 DEF Ordered, In
  <1>3. ASSUME NEW g \in Gates, NEW h \in Gates
        PROVE  /\ <<g, h>> \in Seq(Gates) /\ \A m : In(m, <<g, h>>) <=> m = g \/ m = h
               /\ ~(g \in Late /\ h \in Early) => Ordered(<<g, h>>)
    <2>1. PICK s : s = <<g, h>>
      OBVIOUS
    <2>2. s \in Seq(Gates) /\ DOMAIN s = 1..2 /\ s[1] = g /\ s[2] = h
      BY <2>1
    <2>3. 1 \in 1..2 /\ 2 \in 1..2 /\ \A i \in 1..2 : i = 1 \/ i = 2
      OBVIOUS
    <2>4. \A i, j \in DOMAIN s : i < j => i = 1 /\ j = 2
      BY <2>2
    <2> QED
      BY <2>1, <2>2, <2>3, <2>4 DEF Ordered, In
  <1> QED
    BY <1>1, <1>2, <1>3

Uses == {"AddressGates", "RateLimiter", "AuditMiddleware", "UserIPWhitelist"}

LEMMA Bases ==
  /\ Pipeline!ApiGroup \in Seq(Gates) /\ Ordered(Pipeline!ApiGroup)
  /\ \A m : In(m, Pipeline!ApiGroup) <=> m \in Uses
  /\ Pipeline!EngineWithDB \in Seq(Gates) /\ Ordered(Pipeline!EngineWithDB)
  /\ \A m : In(m, Pipeline!EngineWithDB) <=> m \in Uses \/ m = "SetDB"
  /\ Pipeline!Protected \in Seq(Gates) /\ Ordered(Pipeline!Protected)
  /\ \A m : In(m, Pipeline!Protected) <=> m \in Uses \/ m = "APIKeyMiddleware" \/ m = "AuthMiddleware"
  <1>1. PICK s : s = Pipeline!EngineUses
    OBVIOUS
  <1>2. s \in Seq(Gates) /\ Ordered(s) /\ \A m : In(m, s) <=> m \in Uses
    BY <1>1, Groups DEF Uses
  <1>3. "SetDB" \in Gates /\ "APIKeyMiddleware" \in Gates /\ "AuthMiddleware" \in Gates
    BY DEF Gates
  <1>4. PICK d, a : d = <<"SetDB">> /\ a = <<"APIKeyMiddleware", "AuthMiddleware">>
    OBVIOUS
  <1>5. "APIKeyMiddleware" \notin Late
    BY DEF Late
  <1>6. /\ d \in Seq(Gates) /\ Ordered(d) /\ \A m : In(m, d) <=> m = "SetDB"
    BY <1>3, <1>4, Guards
  <1>7. /\ a \in Seq(Gates) /\ Ordered(a)
        /\ \A m : In(m, a) <=> m = "APIKeyMiddleware" \/ m = "AuthMiddleware"
    BY <1>3, <1>4, <1>5, Guards
  <1>8. \A m \in Late : ~In(m, s)
    BY <1>2 DEF Late, Uses
  <1>9. s \o d \in Seq(Gates) /\ Ordered(s \o d) /\ \A m : In(m, s \o d) <=> In(m, s) \/ In(m, d)
    BY <1>2, <1>6, <1>8, Joined
  <1>10. s \o a \in Seq(Gates) /\ Ordered(s \o a) /\ \A m : In(m, s \o a) <=> In(m, s) \/ In(m, a)
    BY <1>2, <1>7, <1>8, Joined
  <1>11. Pipeline!ApiGroup = s /\ Pipeline!EngineWithDB = s \o d /\ Pipeline!Protected = s \o a
    BY <1>1, <1>4 DEF Pipeline!ApiGroup, Pipeline!EngineWithDB, Pipeline!Protected
  <1> QED
    BY <1>2, <1>6, <1>7, <1>9, <1>10, <1>11

\* A route whose group is open and whose guards are not late.
LEMMA OpenRoute ==
  ASSUME NEW base \in {Pipeline!ApiGroup, Pipeline!EngineWithDB},
         NEW guards \in Seq(Gates), Ordered(guards), ~In("APIKeyMiddleware", guards),
         NEW reads, NEW mutates
  PROVE  GoodRoute(Pipeline!Route(base, guards, "", "", reads, mutates))
  <1>1. /\ base \in Seq(Gates) /\ Ordered(base) /\ In("AuditMiddleware", base)
        /\ ~In("APIKeyMiddleware", base) /\ \A m \in Late : ~In(m, base)
    <2>1. /\ base \in Seq(Gates) /\ Ordered(base)
          /\ \A m \in Uses : In(m, base)
          /\ \A m : In(m, base) => m \in Uses \/ m = "SetDB"
      BY Bases
    <2>2. /\ "AuditMiddleware" \in Uses /\ "APIKeyMiddleware" \notin Uses \union {"SetDB"}
          /\ \A m \in Late : m \notin Uses \union {"SetDB"}
      BY DEF Uses, Late
    <2> QED
      BY <2>1, <2>2
  <1>2. PICK u : u = base \o guards
    OBVIOUS
  <1>3. u \in Seq(Gates) /\ Ordered(u) /\ \A m : In(m, u) <=> In(m, base) \/ In(m, guards)
    BY <1>1, <1>2, Joined
  <1>4. PICK x : x = Pipeline!Route(base, guards, "", "", reads, mutates)
    OBVIOUS
  <1>5. x.chain = u /\ x.role = "" /\ x.scope = ""
    BY <1>2, <1>4 DEF Pipeline!Route
  <1> QED
    BY <1>1, <1>3, <1>4, <1>5 DEF GoodRoute

\* A protected route whose guards set no user.
LEMMA ProtectedRoute ==
  ASSUME NEW guards \in Seq(Gates), Ordered(guards), \A m \in Early : ~In(m, guards),
         NEW role1, role1 # "" => In("RoleRequired", guards),
         NEW scope, scope # "" => In("RequireScope", guards),
         NEW reads, NEW mutates
  PROVE  GoodRoute(Pipeline!Route(Pipeline!Protected, guards, role1, scope, reads, mutates))
  <1>1. PICK base : base = Pipeline!Protected
    OBVIOUS
  <1>2. /\ base \in Seq(Gates) /\ Ordered(base) /\ In("AuditMiddleware", base)
        /\ In("APIKeyMiddleware", base) /\ In("AuthMiddleware", base)
    BY <1>1, Bases DEF Uses
  <1>3. PICK u : u = base \o guards
    OBVIOUS
  <1>4. u \in Seq(Gates) /\ Ordered(u) /\ \A m : In(m, u) <=> In(m, base) \/ In(m, guards)
    BY <1>2, <1>3, Joined
  <1>5. PICK x : x = Pipeline!Route(Pipeline!Protected, guards, role1, scope, reads, mutates)
    OBVIOUS
  <1>6. x.chain = u /\ x.role = role1 /\ x.scope = scope
    BY <1>1, <1>3, <1>5 DEF Pipeline!Route
  <1> QED
    BY <1>2, <1>4, <1>5, <1>6 DEF GoodRoute

LEMMA RoutesAreGood == \A x \in Pipeline!Routes : GoodRoute(x)
  <1>1. /\ "AuthMiddleware" \in Gates /\ "CSRF" \in Gates /\ "RequireResourceAccess" \in Gates
        /\ "RoleRequired" \in Gates /\ "RequireScope" \in Gates
        /\ ~("RequireScope" \in Late /\ "RoleRequired" \in Early)
        /\ "RequireResourceAccess" \notin Early /\ "RoleRequired" \notin Early /\ "RequireScope" \notin Early
    BY DEF Gates, Late, Early
  <1>2. PICK none, auth, csrf, access1, roles, scopes, both :
          /\ none = <<>> /\ auth = <<"AuthMiddleware">> /\ csrf = <<"CSRF">>
          /\ access1 = <<"RequireResourceAccess">> /\ roles = <<"RoleRequired">>
          /\ scopes = <<"RequireScope">> /\ both = <<"RequireScope", "RoleRequired">>
    OBVIOUS
  <1>3. /\ none \in Seq(Gates) /\ Ordered(none) /\ \A m : ~In(m, none)
        /\ auth \in Seq(Gates) /\ Ordered(auth) /\ \A m : In(m, auth) <=> m = "AuthMiddleware"
        /\ csrf \in Seq(Gates) /\ Ordered(csrf) /\ \A m : In(m, csrf) <=> m = "CSRF"
    BY <1>1, <1>2, Guards
  <1>4. /\ access1 \in Seq(Gates) /\ Ordered(access1) /\ \A m : In(m, access1) <=> m = "RequireResourceAccess"
        /\ roles \in Seq(Gates) /\ Ordered(roles) /\ \A m : In(m, roles) <=> m = "RoleRequired"
        /\ scopes \in Seq(Gates) /\ Ordered(scopes) /\ \A m : In(m, scopes) <=> m = "RequireScope"
    BY <1>1, <1>2, Guards
  <1>5. /\ both \in Seq(Gates) /\ Ordered(both)
        /\ \A m : In(m, both) <=> m = "RequireScope" \/ m = "RoleRequired"
    BY <1>1, <1>2, Guards
  <1>6. ASSUME NEW x \in Pipeline!OpenRoutes PROVE GoodRoute(x)
    <2>1. ~In("APIKeyMiddleware", none) /\ ~In("APIKeyMiddleware", csrf)
      BY <1>3
    <2>2. PICK base \in {Pipeline!ApiGroup, Pipeline!EngineWithDB}, guards \in {none, csrf}, m \in BOOLEAN :
            \/ x = Pipeline!Route(base, guards, "", "", {}, m)
            \/ x = Pipeline!ByGet(Pipeline!Route(base, guards, "", "", {}, m))
      BY <1>2 DEF Pipeline!OpenRoutes
    <2>3. PICK r : r = Pipeline!Route(base, guards, "", "", {}, m)
      OBVIOUS
    <2>4. GoodRoute(r)
      BY <1>3, <2>1, <2>2, <2>3, OpenRoute
    <2>5. CASE x = r
      BY <2>4, <2>5
    <2>6. CASE x = Pipeline!ByGet(r)
      <3>1. x = [r EXCEPT !.mutates = TRUE]
        BY <2>6 DEF Pipeline!ByGet
      <3>2. DOMAIN r = {"chain", "role", "scope", "reads", "mutates", "method"}
        BY <2>3 DEF Pipeline!Route
      <3>3. x.chain = r.chain /\ x.role = r.role /\ x.scope = r.scope
        BY <3>1, <3>2
      <3> QED
        BY <2>4, <3>3 DEF GoodRoute
    <2> QED
      BY <2>2, <2>3, <2>5, <2>6
  <1>7. ASSUME NEW x \in Pipeline!StreamRoutes PROVE GoodRoute(x)
    <2>1. PICK base \in {Pipeline!ApiGroup, Pipeline!EngineWithDB} :
            x = Pipeline!Route(base, auth, "", "", {}, FALSE)
      BY <1>2 DEF Pipeline!StreamRoutes
    <2>2. ~In("APIKeyMiddleware", auth)
      BY <1>3
    <2> QED
      BY <1>3, <2>1, <2>2, OpenRoute
  <1>8. ASSUME NEW x \in Pipeline!MCPRoutes \union Pipeline!PlainRoutes PROVE GoodRoute(x)
    <2>1. \E reads, mutates : x = Pipeline!Route(Pipeline!Protected, none, "", "", reads, mutates)
      BY <1>2 DEF Pipeline!MCPRoutes, Pipeline!PlainRoutes
    <2>2. \A m \in Early : ~In(m, none)
      BY <1>3
    <2> QED
      BY <1>3, <2>1, <2>2, ProtectedRoute
  <1>9. ASSUME NEW x \in Pipeline!ResourceRoutes PROVE GoodRoute(x)
    <2>1. \E mutates : x = Pipeline!Route(Pipeline!Protected, access1, "", "", {"userID"}, mutates)
      BY <1>2 DEF Pipeline!ResourceRoutes
    <2>2. \A m \in Early : ~In(m, access1)
      BY <1>1, <1>4
    <2> QED
      BY <1>4, <2>1, <2>2, ProtectedRoute
  <1>10. ASSUME NEW x \in Pipeline!RoleRoutes PROVE GoodRoute(x)
    <2>1. PICK r : x = Pipeline!Route(Pipeline!Protected, roles, r, "", {}, TRUE)
      BY <1>2 DEF Pipeline!RoleRoutes
    <2>2. (\A m \in Early : ~In(m, roles)) /\ In("RoleRequired", roles)
      BY <1>1, <1>4
    <2> QED
      BY <1>4, <2>1, <2>2, ProtectedRoute
  <1>11. ASSUME NEW x \in Pipeline!ScopeRoutes PROVE GoodRoute(x)
    <2>1. \/ \E s : x = Pipeline!Route(Pipeline!Protected, scopes, "", s, {}, TRUE)
          \/ \E r : x = Pipeline!Route(Pipeline!Protected, both, r, "delete", {}, TRUE)
      BY <1>2 DEF Pipeline!ScopeRoutes
    <2>2. /\ \A m \in Early : ~In(m, scopes) /\ ~In(m, both)
          /\ In("RequireScope", scopes) /\ In("RequireScope", both) /\ In("RoleRequired", both)
      BY <1>1, <1>4, <1>5
    <2>3. CASE \E s : x = Pipeline!Route(Pipeline!Protected, scopes, "", s, {}, TRUE)
      BY <1>4, <2>2, <2>3, ProtectedRoute
    <2>4. CASE \E r : x = Pipeline!Route(Pipeline!Protected, both, r, "delete", {}, TRUE)
      BY <1>5, <2>2, <2>4, ProtectedRoute
    <2> QED
      BY <2>1, <2>3, <2>4
  <1> QED
    BY <1>6, <1>7, <1>8, <1>9, <1>10, <1>11 DEF Pipeline!Routes

\* Whether a token gives a role that the route wants, and a key its scope.
RoleSuffices == Pipeline!Levels[arrival.token.role] >= Pipeline!Levels[arrival.route.role]
KeyAsked == arrival.route.scope # "" /\ arrival.key.kind = "valid" /\ arrival.key.scopes # {}
ScopeSuffices == {"admin", arrival.route.scope} \intersect arrival.key.scopes # {}

Guarded == In("AuthMiddleware", arrival.route.chain)

ChainOk ==
  /\ GoodRoute(arrival.route)
  /\ chain \in Seq(Gates) /\ Ordered(chain)
  /\ \A m : In(m, chain) => In(m, arrival.route.chain)
  /\ In("APIKeyMiddleware", chain) => In("AuthMiddleware", chain)

\* The user of the context is that of the token once the token was looked at, and there
\* is none where no token is.
UserOk ==
  IF Guarded
  THEN ~In("AuthMiddleware", chain) =>
         /\ arrival.token.kind = "good"
         /\ "userID" \in DOMAIN context /\ context["userID"] = arrival.token.user
         /\ "role" \in DOMAIN context /\ context["role"] = arrival.token.role
  ELSE "userID" \notin DOMAIN context

ScopesOk ==
  In("APIKeyMiddleware", arrival.route.chain) /\ ~In("APIKeyMiddleware", chain) /\ arrival.key.kind = "valid" =>
    "scopes" \in DOMAIN context /\ context["scopes"] = arrival.key.scopes

\* What was asked of a request that has passed a gate.
AskedOk ==
  /\ arrival.route.role # "" /\ Guarded /\ ~In("RoleRequired", chain) => RoleSuffices
  /\ KeyAsked /\ ~In("RequireScope", chain) => ScopeSuffices

RecordOk ==
  result = "handled" =>
    /\ chain = <<>>
    /\ IF arrival.route.method = "GET" THEN audit = Pipeline!NoRow
       ELSE audit \in {Pipeline!Lost, [user |-> IF Guarded THEN arrival.token.user ELSE ""]}

PipeInv == ChainOk /\ UserOk /\ ScopesOk /\ AskedOk /\ RecordOk

LEMMA NextGate ==
  ASSUME NEW s \in Seq(Gates), s # <<>>
  PROVE  /\ Tail(s) \in Seq(Gates) /\ Head(s) \in Gates
         /\ \A m : In(m, s) <=> m = Head(s) \/ In(m, Tail(s))
         /\ Ordered(s) => Ordered(Tail(s))
         /\ Ordered(s) /\ Head(s) \in Late => \A m \in Early : ~In(m, Tail(s))
  <1>1. PICK a \in Nat : a = Len(s) /\ a >= 1
    BY EmptySeq
  <1>2. PICK t : t = Tail(s)
    OBVIOUS
  <1>3. /\ Head(s) = s[1] /\ t \in Seq(Gates) /\ Len(t) = a - 1 /\ s[1] \in Gates
        /\ \A i \in 1..(a - 1) : t[i] = s[i + 1]
    BY <1>1, <1>2, HeadTailProperties
  <1>4. DOMAIN s = 1..a /\ DOMAIN t = 1..(a - 1)
    BY <1>1, <1>3
  <1>5. /\ \A i \in 1..(a - 1) : i + 1 \in 1..a
        /\ \A i \in 1..a : i # 1 => i - 1 \in 1..(a - 1) /\ (i - 1) + 1 = i
        /\ 1 \in 1..a
    BY <1>1
  <1>6. ASSUME NEW m PROVE In(m, s) <=> m = s[1] \/ In(m, t)
    <2>1. ASSUME In(m, s) PROVE m = s[1] \/ In(m, t)
      <3>1. PICK i \in 1..a : s[i] = m
        BY <1>4, <2>1 DEF In
      <3>2. CASE i = 1
        BY <3>1, <3>2
      <3>3. CASE i # 1
        <4>1. i - 1 \in 1..(a - 1) /\ t[i - 1] = s[i]
          BY <1>3, <1>5, <3>3
        <4> QED
          BY <1>4, <3>1, <4>1 DEF In
      <3> QED
        BY <3>2, <3>3
    <2>2. ASSUME In(m, t) PROVE In(m, s)
      BY <1>3, <1>4, <1>5, <2>2 DEF In
    <2>3. s[1] = m => In(m, s)
      BY <1>4, <1>5 DEF In
    <2> QED
      BY <2>1, <2>2, <2>3
  <1>7. ASSUME Ordered(s) PROVE Ordered(t)
    <2> SUFFICES ASSUME NEW i \in 1..(a - 1), NEW j \in 1..(a - 1), i < j, t[i] \in Late, t[j] \in Early
                 PROVE  FALSE
      BY <1>4 DEF Ordered
    <2>1. i + 1 \in 1..a /\ j + 1 \in 1..a /\ i + 1 < j + 1
      BY <1>5
    <2>2. s[i + 1] \in Late /\ s[j + 1] \in Early
      BY <1>3
    <2> QED
      BY <1>4, <1>7, <2>1, <2>2 DEF Ordered
  <1>8. ASSUME Ordered(s), s[1] \in Late, NEW m \in Early, In(m, t) PROVE FALSE
    <2>1. PICK j \in 1..(a - 1) : t[j] = m
      BY <1>4, <1>8 DEF In
    <2>2. j + 1 \in 1..a /\ 1 < j + 1 /\ s[j + 1] \in Early
      BY <1>3, <1>5, <1>8, <2>1
    <2> QED
      BY <1>4, <1>5, <1>8, <2>2 DEF Ordered
  <1> QED
    BY <1>2, <1>3, <1>6, <1>7, <1>8

Keeps(ctx, k) == (k \in DOMAIN ctx <=> k \in DOMAIN context) /\ (k \in DOMAIN context => ctx[k] = context[k])

\* A gate lets a request pass.
LEMMA PassKeeps ==
  ASSUME PipeInv, result = "none", chain # <<>>, NEW h, h = Head(chain), NEW ctx, Pipeline!Passes(ctx),
         h \notin Early => Keeps(ctx, "userID") /\ Keeps(ctx, "role") /\ Keeps(ctx, "scopes"),
         h = "AuthMiddleware" =>
           /\ arrival.token.kind = "good" /\ Keeps(ctx, "scopes")
           /\ "userID" \in DOMAIN ctx /\ ctx["userID"] = arrival.token.user
           /\ "role" \in DOMAIN ctx /\ ctx["role"] = arrival.token.role,
         h = "APIKeyMiddleware" /\ arrival.key.kind = "valid" =>
           "scopes" \in DOMAIN ctx /\ ctx["scopes"] = arrival.key.scopes,
         h = "RoleRequired" /\ arrival.route.role # "" /\ Guarded => RoleSuffices,
         h = "RequireScope" /\ KeyAsked => ScopeSuffices
  PROVE  PipeInv'
  <1>1. /\ arrival' = arrival /\ chain' = Tail(chain) /\ context' = ctx /\ result' = result
    BY DEF Pipeline!Passes
  <1>2. PICK t : t = Tail(chain)
    OBVIOUS
  <1>3. /\ GoodRoute(arrival.route) /\ chain \in Seq(Gates) /\ Ordered(chain)
        /\ \A m : In(m, chain) => In(m, arrival.route.chain)
        /\ In("APIKeyMiddleware", chain) => In("AuthMiddleware", chain)
    BY DEF PipeInv, ChainOk
  <1>4. /\ t \in Seq(Gates) /\ Ordered(t) /\ h \in Gates
        /\ \A m : In(m, chain) <=> m = h \/ In(m, t)
        /\ h \in Late => \A m \in Early : ~In(m, t)
    BY <1>2, <1>3, NextGate
  <1>5. /\ "APIKeyMiddleware" \in Early /\ "AuthMiddleware" \in Early /\ "AuthMiddleware" \in Late
        /\ "RoleRequired" \notin Early /\ "RequireScope" \notin Early
        /\ (h \in Early => h = "APIKeyMiddleware" \/ h = "AuthMiddleware")
    BY DEF Early, Late
  <1>6. In("APIKeyMiddleware", t) => In("AuthMiddleware", t)
    BY <1>3, <1>4, <1>5
  <1>7. ChainOk'
    BY <1>1, <1>2, <1>3, <1>4, <1>6 DEF ChainOk
  <1>8. UserOk'
    <2>1. CASE h = "AuthMiddleware"
      <3>1. Guarded
        BY <1>3, <1>4, <2>1 DEF Guarded
      <3> QED
        BY <1>1, <2>1, <3>1 DEF UserOk, Guarded
    <2>2. CASE h = "APIKeyMiddleware"
      <3>1. In("AuthMiddleware", chain)
        BY <1>3, <1>4, <2>2
      <3>2. In("AuthMiddleware", t) /\ Guarded
        BY <1>3, <1>4, <2>2, <3>1 DEF Guarded
      <3> QED
        BY <1>1, <1>2, <3>2 DEF UserOk, Guarded
    <2>3. CASE h \notin Early
      <3>1. In("AuthMiddleware", t) <=> In("AuthMiddleware", chain)
        BY <1>4, <1>5, <2>3
      <3>2. Keeps(ctx, "userID") /\ Keeps(ctx, "role") /\ UserOk
        BY <2>3 DEF PipeInv
      <3> QED
        BY <1>1, <1>2, <3>1, <3>2 DEF UserOk, Guarded, Keeps
    <2> QED
      BY <1>5, <2>1, <2>2, <2>3
  <1>9. ScopesOk'
    <2>1. CASE h = "APIKeyMiddleware"
      BY <1>1, <2>1 DEF ScopesOk
    <2>2. CASE h # "APIKeyMiddleware"
      <3>1. In("APIKeyMiddleware", t) <=> In("APIKeyMiddleware", chain)
        BY <1>4, <2>2
      <3>2. Keeps(ctx, "scopes") /\ ScopesOk
        BY <1>5, <2>2 DEF PipeInv
      <3> QED
        BY <1>1, <1>2, <3>1, <3>2 DEF ScopesOk, Keeps
    <2> QED
      BY <2>1, <2>2
  <1>10. AskedOk'
    <2>1. arrival.route.role # "" /\ Guarded /\ ~In("RoleRequired", t) => RoleSuffices
      BY <1>4 DEF PipeInv, AskedOk
    <2>2. KeyAsked /\ ~In("RequireScope", t) => ScopeSuffices
      BY <1>4 DEF PipeInv, AskedOk
    <2> QED
      BY <1>1, <1>2, <2>1, <2>2 DEF AskedOk, Guarded, RoleSuffices, KeyAsked, ScopeSuffices
  <1>11. RecordOk'
    BY <1>1 DEF RecordOk
  <1> QED
    BY <1>7, <1>8, <1>9, <1>10, <1>11 DEF PipeInv

LEMMA RefusalKeeps ==
  ASSUME PipeInv, NEW how \in {"refused", "panicked"}, Pipeline!Ends(how)
  PROVE  PipeInv'
  <1>1. arrival' = arrival /\ chain' = chain /\ context' = context /\ result' \in {"refused", "panicked"}
    BY DEF Pipeline!Ends
  <1>2. ChainOk' /\ UserOk' /\ ScopesOk'
    BY <1>1 DEF PipeInv, ChainOk, UserOk, ScopesOk, Guarded
  <1>3. AskedOk' /\ RecordOk'
    BY <1>1 DEF PipeInv, AskedOk, RecordOk, Guarded, RoleSuffices, KeyAsked, ScopeSuffices
  <1> QED
    BY <1>2, <1>3 DEF PipeInv

LEMMA PlainGates ==
  ASSUME PipeInv, NEW h, h \notin Early, h # "RoleRequired", h # "RequireScope", Pipeline!At(h),
         Pipeline!Passes(context) \/ Pipeline!Ends("refused")
  PROVE  PipeInv'
  <1>1. result = "none" /\ chain # <<>> /\ h = Head(chain)
    BY DEF Pipeline!At
  <1>2. Keeps(context, "userID") /\ Keeps(context, "role") /\ Keeps(context, "scopes")
    BY DEF Keeps
  <1>3. h # "AuthMiddleware" /\ h # "APIKeyMiddleware"
    BY DEF Early
  <1>4. CASE Pipeline!Passes(context)
    BY <1>1, <1>2, <1>3, <1>4, PassKeeps
  <1>5. CASE Pipeline!Ends("refused")
    BY <1>5, RefusalKeeps
  <1> QED
    BY <1>4, <1>5

LEMMA SetDBKeeps ==
  ASSUME PipeInv, Pipeline!SetDB
  PROVE  PipeInv'
  <1>1. PICK ctx : ctx = Pipeline!Extend([db |-> TRUE])
    OBVIOUS
  <1>2. /\ result = "none" /\ chain # <<>> /\ "SetDB" = Head(chain) /\ Pipeline!Passes(ctx)
    BY <1>1 DEF Pipeline!SetDB, Pipeline!At
  <1>3. /\ DOMAIN ctx = {"db"} \union DOMAIN context
        /\ \A k \in DOMAIN context : k # "db" => ctx[k] = context[k]
    BY <1>1 DEF Pipeline!Extend
  <1>4. Keeps(ctx, "userID") /\ Keeps(ctx, "role") /\ Keeps(ctx, "scopes")
    BY <1>3 DEF Keeps
  <1> QED
    BY <1>2, <1>4, PassKeeps DEF Early

LEMMA APIKeyKeeps ==
  ASSUME PipeInv, Pipeline!APIKeyMiddleware
  PROVE  PipeInv'
  <1>1. result = "none" /\ chain # <<>> /\ "APIKeyMiddleware" = Head(chain)
    BY DEF Pipeline!APIKeyMiddleware, Pipeline!At
  <1>2. CASE arrival.key.kind = "wrong address"
    <2>1. Pipeline!Ends("refused")
      BY <1>2 DEF Pipeline!APIKeyMiddleware
    <2> QED
      BY <2>1, RefusalKeeps
  <1>3. CASE arrival.key.kind = "valid"
    <2>1. PICK ctx : ctx = Pipeline!Extend([userID |-> "bob", role |-> "dev", scopes |-> arrival.key.scopes])
      OBVIOUS
    <2>2. Pipeline!Passes(ctx)
      BY <1>3, <2>1 DEF Pipeline!APIKeyMiddleware
    <2>3. "scopes" \in DOMAIN ctx /\ ctx["scopes"] = arrival.key.scopes
      BY <2>1 DEF Pipeline!Extend
    <2> QED
      BY <1>1, <2>2, <2>3, PassKeeps DEF Early
  <1>4. CASE arrival.key.kind # "wrong address" /\ arrival.key.kind # "valid"
    <2>1. Pipeline!Passes(context)
      BY <1>4 DEF Pipeline!APIKeyMiddleware
    <2> QED
      BY <1>1, <1>4, <2>1, PassKeeps DEF Early
  <1> QED
    BY <1>2, <1>3, <1>4

LEMMA AuthKeeps ==
  ASSUME PipeInv, Pipeline!AuthMiddleware
  PROVE  PipeInv'
  <1>1. result = "none" /\ chain # <<>> /\ "AuthMiddleware" = Head(chain)
    BY DEF Pipeline!AuthMiddleware, Pipeline!At
  <1>2. CASE arrival.token.kind = "good"
    <2>1. PICK ctx : ctx = Pipeline!Extend([userID |-> arrival.token.user, role |-> arrival.token.role])
      OBVIOUS
    <2>2. Pipeline!Passes(ctx)
      BY <1>2, <2>1 DEF Pipeline!AuthMiddleware
    <2>3. /\ "userID" \in DOMAIN ctx /\ ctx["userID"] = arrival.token.user
          /\ "role" \in DOMAIN ctx /\ ctx["role"] = arrival.token.role
      BY <2>1 DEF Pipeline!Extend
    <2>4. Keeps(ctx, "scopes")
      BY <2>1 DEF Pipeline!Extend, Keeps
    <2> QED
      BY <1>1, <1>2, <2>2, <2>3, <2>4, PassKeeps DEF Early
  <1>3. CASE arrival.token.kind # "good"
    <2>1. Pipeline!Ends("refused")
      BY <1>3 DEF Pipeline!AuthMiddleware
    <2> QED
      BY <2>1, RefusalKeeps
  <1> QED
    BY <1>2, <1>3

LEMMA RoleKeeps ==
  ASSUME PipeInv, Pipeline!RoleRequired
  PROVE  PipeInv'
  <1>1. result = "none" /\ chain # <<>> /\ "RoleRequired" = Head(chain)
    BY DEF Pipeline!RoleRequired, Pipeline!At
  <1>2. CASE Pipeline!Levels[context["role"]] >= Pipeline!Levels[arrival.route.role]
    <2>1. Pipeline!Passes(context)
      BY <1>2 DEF Pipeline!RoleRequired
    <2>2. ASSUME Guarded PROVE RoleSuffices
      <3>1. chain \in Seq(Gates) /\ Ordered(chain)
        BY DEF PipeInv, ChainOk
      <3>2. "AuthMiddleware" \in Early /\ "RoleRequired" \in Late /\ "AuthMiddleware" # "RoleRequired"
        BY DEF Early, Late
      <3>3. ~In("AuthMiddleware", chain)
        BY <1>1, <3>1, <3>2, NextGate
      <3>4. context["role"] = arrival.token.role
        BY <2>2, <3>3 DEF PipeInv, UserOk
      <3> QED
        BY <1>2, <3>4 DEF RoleSuffices
    <2>3. Keeps(context, "userID") /\ Keeps(context, "role") /\ Keeps(context, "scopes")
      BY DEF Keeps
    <2> QED
      BY <1>1, <2>1, <2>2, <2>3, PassKeeps DEF Early
  <1>3. CASE ~(Pipeline!Levels[context["role"]] >= Pipeline!Levels[arrival.route.role])
    <2>1. Pipeline!Ends("refused")
      BY <1>3 DEF Pipeline!RoleRequired
    <2> QED
      BY <2>1, RefusalKeeps
  <1> QED
    BY <1>2, <1>3

LEMMA ScopeKeeps ==
  ASSUME PipeInv, Pipeline!RequireScope
  PROVE  PipeInv'
  <1>1. result = "none" /\ chain # <<>> /\ "RequireScope" = Head(chain)
    BY DEF Pipeline!RequireScope, Pipeline!At
  <1>2. CASE Pipeline!HasScope
    <2>1. Pipeline!Passes(context)
      BY <1>2 DEF Pipeline!RequireScope
    <2>2. ASSUME KeyAsked PROVE ScopeSuffices
      <3>1. chain \in Seq(Gates) /\ Ordered(chain)
        BY DEF PipeInv, ChainOk
      <3>2. "APIKeyMiddleware" \in Early /\ "RequireScope" \in Late /\ "APIKeyMiddleware" # "RequireScope"
        BY DEF Early, Late
      <3>3. ~In("APIKeyMiddleware", chain)
        BY <1>1, <3>1, <3>2, NextGate
      <3>4. In("APIKeyMiddleware", arrival.route.chain)
        BY <2>2 DEF KeyAsked, PipeInv, ChainOk, GoodRoute
      <3>5. "scopes" \in DOMAIN context /\ context["scopes"] = arrival.key.scopes
        BY <2>2, <3>3, <3>4 DEF PipeInv, ScopesOk, KeyAsked
      <3> QED
        BY <1>2, <2>2, <3>5 DEF ScopeSuffices, KeyAsked, Pipeline!HasScope
    <2>3. Keeps(context, "userID") /\ Keeps(context, "role") /\ Keeps(context, "scopes")
      BY DEF Keeps
    <2> QED
      BY <1>1, <2>1, <2>2, <2>3, PassKeeps DEF Early
  <1>3. CASE ~Pipeline!HasScope
    <2>1. Pipeline!Ends("refused")
      BY <1>3 DEF Pipeline!RequireScope
    <2> QED
      BY <2>1, RefusalKeeps
  <1> QED
    BY <1>2, <1>3

LEMMA ContainsIsIn ==
  ASSUME NEW s \in Seq(Gates), NEW m
  PROVE  Pipeline!Contains(s, m) <=> In(m, s)
  <1>1. DOMAIN s = 1..Len(s)
    OBVIOUS
  <1> QED
    BY <1>1 DEF Pipeline!Contains, In

LEMMA HandlerKeeps ==
  ASSUME PipeInv, Pipeline!Handler
  PROVE  PipeInv'
  <1>1. PICK how \in {"handled", "refused", "panicked"} : Pipeline!Ends(how)
    BY DEF Pipeline!Handler
  <1>2. CASE how = "handled"
    <2>1. /\ chain = <<>> /\ arrival' = arrival /\ chain' = chain /\ context' = context
          /\ result' = "handled" /\ audit' \in Pipeline!Rows
      BY <1>1, <1>2 DEF Pipeline!Ends, Pipeline!Handler
    <2>2. \A m : ~In(m, chain)
      BY <2>1 DEF In
    <2>3. /\ arrival.route.chain \in Seq(Gates) /\ chain \in Seq(Gates)
          /\ In("AuditMiddleware", arrival.route.chain)
      BY DEF PipeInv, ChainOk, GoodRoute
    <2>4. Pipeline!Passed("AuditMiddleware")
      BY <2>2, <2>3, ContainsIsIn DEF Pipeline!Passed
    <2>5. arrival.route.method # "GET" =>
            audit' \in {Pipeline!Lost, [user |-> IF Guarded THEN arrival.token.user ELSE ""]}
      <3>1. CASE Guarded
        <4>1. "userID" \in DOMAIN context /\ context["userID"] = arrival.token.user
          BY <2>2, <3>1 DEF PipeInv, UserOk
        <4> QED
          BY <2>1, <2>4, <3>1, <4>1 DEF Pipeline!Rows
      <3>2. CASE ~Guarded
        <4>1. "userID" \notin DOMAIN context
          BY <3>2 DEF PipeInv, UserOk
        <4> QED
          BY <2>1, <2>4, <3>2, <4>1 DEF Pipeline!Rows
      <3> QED
        BY <3>1, <3>2
    <2>9. arrival.route.method = "GET" => audit' = Pipeline!NoRow
      BY <2>1 DEF Pipeline!Rows
    <2>6. RecordOk'
      BY <2>1, <2>5, <2>9 DEF RecordOk, Guarded, Pipeline!Lost, Pipeline!NoRow
    <2>7. ChainOk' /\ UserOk' /\ ScopesOk'
      BY <2>1 DEF PipeInv, ChainOk, UserOk, ScopesOk, Guarded
    <2>8. AskedOk'
      BY <2>1 DEF PipeInv, AskedOk, Guarded, RoleSuffices, KeyAsked, ScopeSuffices
    <2> QED
      BY <2>6, <2>7, <2>8 DEF PipeInv
  <1>3. CASE how # "handled"
    BY <1>1, <1>3, RefusalKeeps
  <1> QED
    BY <1>2, <1>3

LEMMA PipeNextKeeps == PipeInv /\ [Pipeline!Next]_(Pipeline!vars) => PipeInv'
  <1> SUFFICES ASSUME PipeInv, [Pipeline!Next]_(Pipeline!vars) PROVE PipeInv'
    OBVIOUS
  <1>1. CASE UNCHANGED Pipeline!vars
    <2>1. /\ arrival' = arrival /\ chain' = chain /\ context' = context /\ result' = result /\ audit' = audit
      BY <1>1 DEF Pipeline!vars
    <2> QED
      BY <2>1 DEF PipeInv, ChainOk, UserOk, ScopesOk, AskedOk, RecordOk, Guarded, RoleSuffices, KeyAsked,
         ScopeSuffices
  <1>2. /\ \A h \in {"AddressGates", "RateLimiter", "AuditMiddleware", "UserIPWhitelist", "CSRF",
                     "RequireResourceAccess"} :
             h \notin Early /\ h # "RoleRequired" /\ h # "RequireScope"
    BY DEF Early
  <1>3. CASE Pipeline!AddressGates \/ Pipeline!RateLimiter \/ Pipeline!AuditMiddleware
    BY <1>2, <1>3, PlainGates DEF Pipeline!AddressGates, Pipeline!RateLimiter, Pipeline!AuditMiddleware
  <1>4. CASE Pipeline!UserIPWhitelist \/ Pipeline!CSRF \/ Pipeline!RequireResourceAccess
    BY <1>2, <1>4, PlainGates DEF Pipeline!UserIPWhitelist, Pipeline!CSRF, Pipeline!RequireResourceAccess
  <1> QED
    BY <1>1, <1>3, <1>4, SetDBKeeps, APIKeyKeeps, AuthKeeps, RoleKeeps, ScopeKeeps, HandlerKeeps DEF Pipeline!Next

\* The inductive invariant of a request on its way (router.go): a gate is not passed
\* before the one it relies on, and what the context holds is of the token and the key.
THEOREM PipelineInvariance == Pipeline!Spec => []PipeInv
  <1>1. Pipeline!Init => PipeInv
    <2> SUFFICES ASSUME Pipeline!Init PROVE PipeInv
      OBVIOUS
    <2>1. /\ arrival \in Pipeline!AllRequests /\ chain = arrival.route.chain /\ context = <<>> /\ result = "none"
      BY DEF Pipeline!Init
    <2>2. arrival.route \in Pipeline!Routes
      BY <2>1 DEF Pipeline!AllRequests
    <2>3. GoodRoute(arrival.route)
      BY <2>2, RoutesAreGood
    <2>4. DOMAIN context = {}
      BY <2>1
    <2>5. ChainOk
      BY <2>1, <2>3 DEF ChainOk, GoodRoute
    <2>6. UserOk
      BY <2>1, <2>4 DEF UserOk, Guarded
    <2>7. ScopesOk /\ AskedOk
      BY <2>1, <2>3 DEF ScopesOk, AskedOk, GoodRoute, KeyAsked
    <2>8. RecordOk
      BY <2>1 DEF RecordOk
    <2> QED
      BY <2>5, <2>6, <2>7, <2>8 DEF PipeInv
  <1> QED
    BY <1>1, PipeNextKeeps, PTL DEF Pipeline!Spec

\* On every kind of route a protected handler acts for the user of a valid token who may do
\* it, and what was handled and may change something is in the audit log with that user.
THEOREM RequestsHoldCorrect == Pipeline!Spec => []RequestsHold
  <1>1. ASSUME PipeInv PROVE RequestsHold
    <2>1. arrival.route.chain \in Seq(Gates)
      BY <1>1 DEF PipeInv, ChainOk, GoodRoute
    <2>2. Pipeline!IsProtected <=> Guarded
      BY <2>1, ContainsIsIn DEF Pipeline!IsProtected, Guarded
    <2>3. Pipeline!ActsForItsUser
      <3> SUFFICES ASSUME result = "handled", Guarded
                   PROVE  /\ arrival.token.kind = "good" /\ context["userID"] = arrival.token.user
                          /\ arrival.route.role # "" => RoleSuffices
                          /\ KeyAsked => ScopeSuffices
        BY <2>2 DEF Pipeline!ActsForItsUser, RoleSuffices, KeyAsked, ScopeSuffices
      <3>1. chain = <<>>
        BY <1>1 DEF PipeInv, RecordOk
      <3>2. \A m : ~In(m, chain)
        BY <3>1 DEF In
      <3>3. UserOk /\ AskedOk
        BY <1>1 DEF PipeInv
      <3>4. arrival.token.kind = "good" /\ context["userID"] = arrival.token.user
        BY <3>2, <3>3 DEF UserOk
      <3>5. (arrival.route.role # "" => RoleSuffices) /\ (KeyAsked => ScopeSuffices)
        BY <3>2, <3>3 DEF AskedOk
      <3> QED
        BY <3>4, <3>5
    <2>4. Pipeline!ChangesAreRecorded
      BY <1>1, <2>2 DEF PipeInv, RecordOk, Pipeline!ChangesAreRecorded
    <2> QED
      BY <2>3, <2>4 DEF RequestsHold
  <1> QED
    BY <1>1, PipelineInvariance, PTL
-----------------------------------------------------------------------------
(***************************************************************************)
(* Handlers of rows, any number of them on one table.                      *)
(***************************************************************************)
Program(r) == handling[r].steps
Named(r) == handling[r].name

Text == Seq(STRING)
Contents == [Actors -> {"old", "new", "request"}]

HandlerNames == UNION {{h.name : h \in Row!Handlers(T)} : T \in Row!Tables}

HandlerCall ==
  [name : HandlerNames, steps : Text, at : Nat, copy : Contents, seen : Nat, did : SUBSET Nat,
   answer : {"none", "ok", "refused"}]

HandlerTypes ==
  /\ there \in BOOLEAN /\ columns \in Contents
  /\ inserted \subseteq Actors /\ IsFiniteSet(inserted)
  /\ handling \in [Actors -> HandlerCall]

OfOneTable ==
  \E T \in Row!Tables : \A r \in Actors : \E h \in Row!Handlers(T) : h.name = Named(r) /\ h.steps = Program(r)

\* A handler of the table deletes.
Deleting == \E q \in Actors : Row!Deletes(Program(q))

\* Where a handler stands in its program, and what it has done so far.
CallHolds(c) ==
  /\ c.at \in 1..(Len(c.steps) + 1)
  /\ c.answer = "none" => c.at <= Len(c.steps)
  /\ c.answer = "ok" => c.at = Len(c.steps) + 1
  /\ \A i \in c.did : i \in Row!Changes(c.steps) /\ i < c.at
  /\ c.answer = "refused" /\ c.name \notin Row!HalfDone => c.did = {}

\* The changes its program has passed were made, but those nobody asks about.
ChangesMade(c) ==
  \A i \in Row!Changes(c.steps) :
    i < c.at => i \in c.did \/ Row!Tried(c.steps[i]) \/ (c.steps[i] = "update" /\ Deleting)

\* Statements after which the request's column is its own, or the row is gone.
Writes == {"update", "updateRow", "save", "put"}
Removals == {"delete", "deleteRow"}

\* What a handler did stands, unless others save the whole row.
ChangeStands(r) ==
  (\A q \in Actors \ {r} : Named(q) \notin Row!Overwriting) =>
    /\ Row!Did(r, Writes) => columns[r] = "new"
    /\ Row!Did(r, Removals) => ~there

HandlerInv ==
  /\ HandlerTypes /\ OfOneTable
  /\ there \/ Deleting
  /\ \A r \in Actors : CallHolds(handling[r]) /\ ChangesMade(handling[r]) /\ ChangeStands(r)
  /\ Row!OncePerName

\* FiniteSets has a name here for each instance.
LEMMA HandlerCardinality ==
  ASSUME NEW S
  PROVE  Row!Cardinality(S) = Cardinality(S)
  BY DEF Row!Cardinality, Cardinality

\* What TLC evaluates of each program, for the programs that run.
LEMMA ProgramFacts ==
  ASSUME OfOneTable
  PROVE  /\ \A r \in Actors : Row!ProgramHolds(Named(r), Program(r))
         /\ ~Deleting \/ \A r \in Actors : Row!Updates(Program(r)) => Named(r) \in Row!Unasked
  <1>1. PICK T \in Row!Tables :
          \A r \in Actors : \E h \in Row!Handlers(T) : h.name = Named(r) /\ h.steps = Program(r)
    BY DEF OfOneTable
  <1>2. /\ \A h \in Row!Handlers(T) : Row!ProgramHolds(h.name, h.steps)
        /\ \/ \A h \in Row!Handlers(T) : ~Row!Deletes(h.steps)
           \/ \A h \in Row!Handlers(T) : Row!Updates(h.steps) => h.name \in Row!Unasked
    BY PlatformAssumption DEF Row!ProgramAssumption
  <1> QED
    BY <1>1, <1>2 DEF Deleting

\* A statement whose failure is ignored is of the kind of the same statement asked.
LEMMA StepKinds ==
  /\ \A s : s \notin DOMAIN Row!Ignored => Row!Kind(s) = s
  /\ \A s \in DOMAIN Row!Ignored :
       Row!Kind(s) \in {"vacant", "number", "insert", "update", "save", "act", "look"}
  /\ DOMAIN Row!Ignored =
       {"tryVacant", "tryNumber", "tryInsert", "tryUpdate", "trySave", "tryAct", "peek"}
  BY DEF Row!Kind, Row!Ignored

\* Initially nothing is done.
LEMMA HandlerInitInv ==
  ASSUME Row!Init
  PROVE  HandlerInv
  <1>1. PICK T \in Row!Tables :
          handling \in [Actors -> {Row!Called(h) : h \in Row!Handlers(T)}]
    BY DEF Row!Init
  <1>2. /\ there = TRUE /\ inserted = {} /\ columns = Row!Original
    BY DEF Row!Init
  <1>3. ASSUME NEW r \in Actors
        PROVE  \E h \in Row!Handlers(T) : handling[r] = Row!Called(h)
    BY <1>1
  <1>4. \A h \in Row!Handlers(T) : h.name \in HandlerNames /\ h.steps \in Seq(STRING)
    BY PlatformAssumption DEF Row!ProgramAssumption, Row!ProgramHolds, HandlerNames
  <1>5. Row!Original \in Contents
    BY DEF Row!Original, Contents
  <1>6. ASSUME NEW h \in Row!Handlers(T)
        PROVE  /\ Row!Called(h) \in HandlerCall /\ Row!Called(h).name = h.name
               /\ Row!Called(h).steps = h.steps /\ Row!Called(h).at = 1 /\ Row!Called(h).did = {}
               /\ Row!Called(h).answer = IF h.steps = <<>> THEN "ok" ELSE "none"
    BY <1>4, <1>5 DEF Row!Called, HandlerCall, Text
  <1>7. \A r \in Actors : /\ \E h \in Row!Handlers(T) : h.name = Named(r) /\ h.steps = Program(r)
                          /\ handling[r] \in HandlerCall
    <2>1. SUFFICES ASSUME NEW r \in Actors
                   PROVE  /\ \E h \in Row!Handlers(T) : h.name = Named(r) /\ h.steps = Program(r)
                          /\ handling[r] \in HandlerCall
      OBVIOUS
    <2>2. PICK h \in Row!Handlers(T) : handling[r] = Row!Called(h)
      BY <1>3
    <2> QED
      BY <1>6, <2>2 DEF Program, Named
  <1>8. HandlerTypes
    BY <1>1, <1>2, <1>5, <1>7, FS_EmptySet DEF HandlerTypes
  <1>9. ASSUME NEW r \in Actors
        PROVE  CallHolds(handling[r]) /\ ChangesMade(handling[r]) /\ ChangeStands(r)
    <2>1. PICK h \in Row!Handlers(T) : handling[r] = Row!Called(h)
      BY <1>3
    <2>2. Len(h.steps) \in Nat /\ (h.steps = <<>> => Len(h.steps) = 0) /\ (h.steps # <<>> => Len(h.steps) >= 1)
          /\ DOMAIN h.steps = 1..Len(h.steps)
      BY <1>4, LenProperties, EmptySeq
    <2>3. CallHolds(handling[r])
      BY <1>6, <2>1, <2>2 DEF CallHolds
    <2>4. ChangesMade(handling[r])
      BY <1>6, <2>1, <2>2 DEF ChangesMade, Row!Changes
    <2> QED
      BY <1>6, <2>1, <2>3, <2>4 DEF ChangeStands, Row!Did
  <1> QED
    BY <1>2, <1>7, <1>8, <1>9 DEF HandlerInv, OfOneTable, Row!OncePerName

\* What a step of a handler's program leaves as it is.
LEMMA GoesOnHolds ==
  ASSUME HandlerInv, NEW r \in Actors, NEW c \in HandlerCall, handling[r].answer = "none",
         c.name = Named(r), c.steps = Program(r), c.at = handling[r].at,
         Row!GoesOn(r, c),
         \/ /\ c.did = handling[r].did
            /\ \/ Row!Kind(c.steps[c.at]) \notin Row!Changing
               \/ Row!Tried(c.steps[c.at])
               \/ c.steps[c.at] = "update" /\ Deleting
         \/ c.did = handling[r].did \union {c.at} /\ Row!Kind(c.steps[c.at]) \in Row!Changing
  PROVE  /\ handling' \in [Actors -> HandlerCall]
         /\ \A q \in Actors : q # r => handling'[q] = handling[q]
         /\ handling'[r].did = c.did
         /\ \A q \in Actors : Program(q)' = Program(q) /\ Named(q)' = Named(q)
         /\ OfOneTable' /\ Deleting' = Deleting
         /\ \A q \in Actors : CallHolds(handling[q])' /\ ChangesMade(handling[q])'
  <1> DEFINE d == [c EXCEPT !.at = @ + 1, !.answer = IF c.at = Len(c.steps) THEN "ok" ELSE "none"]
  <1>1. /\ d \in HandlerCall /\ d.name = c.name /\ d.steps = c.steps /\ d.at = c.at + 1 /\ d.did = c.did
        /\ d.answer = IF c.at = Len(c.steps) THEN "ok" ELSE "none"
    <2> DEFINE n == c.at + 1
               a == IF c.at = Len(c.steps) THEN "ok" ELSE "none"
               e == [c EXCEPT !.at = n, !.answer = a]
    <2>1. n \in Nat /\ a \in {"none", "ok", "refused"}
      BY DEF HandlerCall
    <2>2. d = e
      BY DEF HandlerCall
    <2> HIDE DEF n, a, d
    <2>3. e \in HandlerCall /\ e.name = c.name /\ e.steps = c.steps /\ e.at = n /\ e.did = c.did /\ e.answer = a
      BY <2>1 DEF HandlerCall
    <2> QED
      BY <2>2, <2>3 DEF n, a
  <1>2. handling' = [handling EXCEPT ![r] = d]
    BY DEF Row!GoesOn
  <1> HIDE DEF d
  <1>3. /\ handling' \in [Actors -> HandlerCall] /\ handling'[r] = d
        /\ \A q \in Actors : q # r => handling'[q] = handling[q]
    BY <1>1, <1>2 DEF HandlerInv, HandlerTypes
  <1>4. \A q \in Actors : Program(q)' = Program(q) /\ Named(q)' = Named(q)
    BY <1>1, <1>3 DEF Program, Named
  <1>5. OfOneTable' /\ Deleting' = Deleting
    BY <1>4 DEF HandlerInv, OfOneTable, Deleting
  <1>6. /\ CallHolds(handling[r]) /\ ChangesMade(handling[r]) /\ handling[r] \in HandlerCall
        /\ c.at \in Nat /\ Len(c.steps) \in Nat /\ DOMAIN c.steps = 1..Len(c.steps) /\ c.at \in 1..Len(c.steps)
    <2>1. CallHolds(handling[r]) /\ ChangesMade(handling[r]) /\ handling[r] \in HandlerCall
      BY DEF HandlerInv, HandlerTypes
    <2>2. c.steps \in Seq(STRING)
      BY DEF HandlerCall, Text
    <2>3. Len(c.steps) \in Nat /\ DOMAIN c.steps = 1..Len(c.steps)
      BY <2>2, LenProperties
    <2> QED
      BY <2>1, <2>3 DEF CallHolds, Program, Named
  <1>7. CallHolds(d)
    <2>1. \A i \in d.did : i \in Row!Changes(d.steps) /\ i < d.at
      <3>1. \A i \in handling[r].did : i \in Row!Changes(c.steps) /\ i < c.at
        BY <1>6 DEF CallHolds, Program, Named
      <3>2. Row!Kind(c.steps[c.at]) \in Row!Changing => c.at \in Row!Changes(c.steps)
        BY <1>6 DEF Row!Changes
      <3> QED
        BY <1>1, <1>6, <3>1, <3>2 DEF Row!Changes
    <2> QED
      BY <1>1, <1>6, <2>1 DEF CallHolds
  <1>8. ChangesMade(d)
    <2>1. SUFFICES ASSUME NEW i \in Row!Changes(d.steps), i < d.at
                   PROVE  i \in d.did \/ Row!Tried(d.steps[i]) \/ (d.steps[i] = "update" /\ Deleting)
      BY DEF ChangesMade
    <2>2. i \in DOMAIN c.steps /\ Row!Kind(c.steps[i]) \in Row!Changing
      BY <1>1 DEF Row!Changes
    <2>3. CASE i = c.at
      BY <1>1, <2>2, <2>3
    <2>4. CASE i < c.at
      BY <1>1, <1>6, <2>4 DEF ChangesMade, Program, Named
    <2> QED
      BY <1>1, <1>6, <2>1, <2>2, <2>3, <2>4
  <1>9. \A q \in Actors : CallHolds(handling[q])' /\ ChangesMade(handling[q])'
    <2>1. ASSUME NEW q \in Actors PROVE CallHolds(handling'[q]) /\ ChangesMade(handling'[q])
      BY <1>3, <1>7, <1>8, <2>1 DEF HandlerInv
    <2> QED
      BY <1>5, <2>1 DEF CallHolds, ChangesMade
  <1> QED
    BY <1>1, <1>3, <1>4, <1>5, <1>9

\* A handler that has not answered is at a statement of its program.
LEMMA RunningCall ==
  ASSUME HandlerInv, NEW r \in Actors, NEW kinds, Row!Runs(r, kinds)
  PROVE  /\ handling[r] \in HandlerCall /\ handling[r].answer = "none"
         /\ Program(r) \in Seq(STRING) /\ DOMAIN Program(r) = 1..Len(Program(r))
         /\ handling[r].at \in DOMAIN Program(r)
         /\ Row!Kind(Program(r)[handling[r].at]) \in kinds
         /\ Row!ProgramHolds(Named(r), Program(r))
  <1>1. handling[r] \in HandlerCall /\ handling[r].answer = "none"
        /\ Row!Kind(Program(r)[handling[r].at]) \in kinds
    BY DEF HandlerInv, HandlerTypes, Row!Runs, Program, Named
  <1>2. Program(r) \in Seq(STRING)
    BY <1>1 DEF HandlerCall, Text, Program, Named
  <1>3. DOMAIN Program(r) = 1..Len(Program(r)) /\ Len(Program(r)) \in Nat
    BY <1>2, LenProperties
  <1>4. handling[r].at \in DOMAIN Program(r)
    BY <1>1, <1>3 DEF HandlerInv, CallHolds, Program, Named
  <1> QED
    BY <1>1, <1>2, <1>3, <1>4, ProgramFacts DEF HandlerInv

\* Nothing was done, to the row or otherwise.
LEMMA UndoneStands ==
  ASSUME HandlerInv, UNCHANGED <<there, columns, inserted>>,
         \A q \in Actors : Program(q)' = Program(q) /\ Named(q)' = Named(q) /\ handling'[q].did = handling[q].did
  PROVE  (\A q \in Actors : ChangeStands(q)') /\ Row!OncePerName'
  <1>1. ASSUME NEW q \in Actors PROVE ChangeStands(q)'
    <2>1. \A kinds : Row!Did(q, kinds)' <=> Row!Did(q, kinds)
      BY DEF Row!Did, Program, Named
    <2>2. ChangeStands(q)
      BY DEF HandlerInv
    <2> QED
      BY <2>1, <2>2 DEF ChangeStands
  <1>2. Row!OncePerName'
    BY DEF HandlerInv, HandlerTypes, Row!OncePerName, Program, Named
  <1> QED
    BY <1>1, <1>2

\* A step that does nothing, whatever it reads.
LEMMA SkipKeeps ==
  ASSUME HandlerInv, NEW r \in Actors, NEW kinds, Row!Runs(r, kinds),
         NEW c \in HandlerCall, c.name = Named(r), c.steps = Program(r), c.at = handling[r].at, c.did = handling[r].did,
         Row!GoesOn(r, c),
         \/ kinds \intersect Row!Changing = {}
         \/ Row!Tried(Program(r)[handling[r].at])
         \/ Program(r)[handling[r].at] = "update" /\ Deleting,
         UNCHANGED <<there, columns, inserted>>
  PROVE  HandlerInv'
  <1>1. /\ Row!Kind(c.steps[c.at]) \notin Row!Changing \/ Row!Tried(c.steps[c.at])
           \/ (c.steps[c.at] = "update" /\ Deleting)
        /\ handling[r].answer = "none"
    BY RunningCall
  <1>2. /\ handling' \in [Actors -> HandlerCall]
        /\ \A q \in Actors : q # r => handling'[q] = handling[q]
        /\ handling'[r].did = c.did
        /\ \A q \in Actors : Program(q)' = Program(q) /\ Named(q)' = Named(q)
        /\ OfOneTable' /\ Deleting' = Deleting
        /\ \A q \in Actors : CallHolds(handling[q])' /\ ChangesMade(handling[q])'
    BY <1>1, GoesOnHolds
  <1>3. \A q \in Actors : handling'[q].did = handling[q].did
    BY <1>2
  <1> QED
    BY <1>2, <1>3, UndoneStands DEF HandlerInv, HandlerTypes

\* A handler that may refuse has changed nothing, but the half done ones.
LEMMA RefuseKeeps ==
  ASSUME HandlerInv, NEW r \in Actors, NEW kinds, Row!Runs(r, kinds), Row!Refuses(r),
         Program(r)[handling[r].at] \notin Row!CannotRefuse,
         UNCHANGED <<there, columns, inserted>>
  PROVE  HandlerInv'
  <1> DEFINE c == handling[r]
             d == [c EXCEPT !.answer = "refused"]
  <1>1. /\ c \in HandlerCall /\ c.answer = "none" /\ c.at \in DOMAIN Program(r)
        /\ Row!ProgramHolds(Named(r), Program(r)) /\ Program(r) = c.steps /\ DOMAIN Program(r) = 1..Len(c.steps)
    BY RunningCall DEF Program, Named
  <1>2. d \in HandlerCall /\ d.name = c.name /\ d.steps = c.steps /\ d.at = c.at /\ d.did = c.did /\ d.answer = "refused"
    BY <1>1 DEF HandlerCall
  <1>3. handling' = [handling EXCEPT ![r] = d]
    BY <1>1 DEF Row!Refuses, HandlerInv, HandlerTypes
  <1> HIDE DEF d
  <1>4. /\ handling' \in [Actors -> HandlerCall] /\ handling'[r] = d
        /\ \A q \in Actors : q # r => handling'[q] = handling[q]
    BY <1>2, <1>3 DEF HandlerInv, HandlerTypes
  <1>5. \A q \in Actors : Program(q)' = Program(q) /\ Named(q)' = Named(q)
    BY <1>2, <1>4 DEF Program, Named
  <1>6. OfOneTable' /\ Deleting' = Deleting
    BY <1>5 DEF HandlerInv, OfOneTable, Deleting
  <1>7. CallHolds(c) /\ ChangesMade(c)
    BY DEF HandlerInv
  <1>8. c.name \notin Row!HalfDone => c.did = {}
    <2>1. ASSUME c.name \notin Row!HalfDone, NEW i \in c.did
          PROVE  FALSE
      <3>1. i \in Row!Changes(c.steps) /\ i < c.at
        BY <1>7, <2>1 DEF CallHolds
      <3>2. Named(r) = c.name /\ c.at \in DOMAIN c.steps
        BY <1>1 DEF Named
      <3>3. c.steps[c.at] \in Row!CannotRefuse
        BY <1>1, <2>1, <3>1, <3>2 DEF Row!ProgramHolds, Row!Changes
      <3> QED
        BY <3>3 DEF Program
    <2> QED
      BY <2>1
  <1>9. CallHolds(d) /\ ChangesMade(d)
    BY <1>2, <1>7, <1>8 DEF CallHolds, ChangesMade
  <1>10. \A q \in Actors : CallHolds(handling[q])' /\ ChangesMade(handling[q])'
    <2>1. ASSUME NEW q \in Actors PROVE CallHolds(handling'[q]) /\ ChangesMade(handling'[q])
      BY <1>4, <1>9, <2>1 DEF HandlerInv
    <2> QED
      BY <1>6, <2>1 DEF CallHolds, ChangesMade
  <1>11. \A q \in Actors : handling'[q].did = handling[q].did
    BY <1>2, <1>4
  <1> QED
    BY <1>4, <1>5, <1>6, <1>10, <1>11, UndoneStands DEF HandlerInv, HandlerTypes

\* A step that does what its statement says.
LEMMA DoesHolds ==
  ASSUME HandlerInv, NEW r \in Actors, NEW kinds, Row!Runs(r, kinds), kinds \subseteq Row!Changing,
         Row!Does(r)
  PROVE  /\ handling' \in [Actors -> HandlerCall]
         /\ \A q \in Actors : Program(q)' = Program(q) /\ Named(q)' = Named(q)
         /\ OfOneTable' /\ Deleting' = Deleting
         /\ \A q \in Actors : CallHolds(handling[q])' /\ ChangesMade(handling[q])'
         /\ \A q \in Actors : \A K : q # r => (Row!Did(q, K)' <=> Row!Did(q, K))
         /\ \A K : Row!Did(r, K)' <=>
              Row!Did(r, K) \/ Row!Kind(Program(r)[handling[r].at]) \in K
  <1> DEFINE e == handling[r].did \union {handling[r].at}
             c == [handling[r] EXCEPT !.did = @ \union {handling[r].at}]
             d == [handling[r] EXCEPT !.did = e]
  <1>1. /\ handling[r] \in HandlerCall /\ handling[r].answer = "none"
        /\ handling[r].at \in Nat /\ Row!Kind(Program(r)[handling[r].at]) \in Row!Changing
    <2>1. handling[r] \in HandlerCall /\ handling[r].answer = "none"
          /\ Row!Kind(Program(r)[handling[r].at]) \in kinds
      BY RunningCall
    <2> QED
      BY <2>1 DEF HandlerCall
  <1>2. e \in SUBSET Nat
    BY <1>1 DEF HandlerCall
  <1>3. c = d
    BY <1>1 DEF HandlerCall
  <1>4. Row!GoesOn(r, c)
    BY DEF Row!Does
  <1> HIDE DEF c
  <1>5. d \in HandlerCall /\ d.name = handling[r].name /\ d.steps = handling[r].steps /\ d.at = handling[r].at /\ d.did = e
    <2> HIDE DEF e
    <2> QED
      BY <1>1, <1>2 DEF HandlerCall
  <1> HIDE DEF d
  <1>6. /\ handling' \in [Actors -> HandlerCall]
        /\ \A q \in Actors : q # r => handling'[q] = handling[q]
        /\ handling'[r].did = c.did
        /\ \A q \in Actors : Program(q)' = Program(q) /\ Named(q)' = Named(q)
        /\ OfOneTable' /\ Deleting' = Deleting
        /\ \A q \in Actors : CallHolds(handling[q])' /\ ChangesMade(handling[q])'
    <2>1. c \in HandlerCall /\ c.name = Named(r) /\ c.steps = Program(r) /\ c.at = handling[r].at
          /\ c.did = handling[r].did \union {c.at} /\ Row!Kind(c.steps[c.at]) \in Row!Changing
      BY <1>1, <1>3, <1>5 DEF Program, Named
    <2> QED
      BY <1>1, <1>4, <2>1, GoesOnHolds
  <1>7. \A q \in Actors : \A K : q # r => (Row!Did(q, K)' <=> Row!Did(q, K))
    <2>1. SUFFICES ASSUME NEW q \in Actors, NEW K, q # r PROVE Row!Did(q, K)' <=> Row!Did(q, K)
      OBVIOUS
    <2>2. handling'[q].did = handling[q].did /\ handling'[q].steps = handling[q].steps
      BY <1>6, <2>1
    <2> QED
      BY <2>2 DEF Row!Did
  <1>8. \A K : Row!Did(r, K)' <=> Row!Did(r, K) \/ Row!Kind(Program(r)[handling[r].at]) \in K
    <2>1. SUFFICES ASSUME NEW K
                   PROVE  Row!Did(r, K)' <=>
                            Row!Did(r, K) \/ Row!Kind(Program(r)[handling[r].at]) \in K
      OBVIOUS
    <2>2. handling'[r].did = handling[r].did \union {handling[r].at}
          /\ handling'[r].steps = handling[r].steps
      BY <1>3, <1>5, <1>6 DEF Program, Named
    <2> QED
      BY <2>2 DEF Row!Did, Program, Named
  <1> QED
    BY <1>6, <1>7, <1>8

\* Checks refuse before anything is changed.
LEMMA RowCheckKeeps ==
  ASSUME HandlerInv, NEW r \in Actors, Row!Check(r)
  PROVE  HandlerInv'
  <1> DEFINE kinds == {"bind", "who", "check"}
  <1>1. Row!Runs(r, kinds) /\ UNCHANGED <<there, columns, inserted>> /\ (Row!Skips(r) \/ Row!Refuses(r))
    BY DEF Row!Check
  <1>2. kinds \intersect Row!Changing = {}
    BY DEF Row!Changing
  <1>3. handling[r] \in HandlerCall /\ Row!Kind(Program(r)[handling[r].at]) \in kinds
    BY <1>1, RunningCall
  <1>4. CASE Row!Skips(r)
    BY <1>1, <1>2, <1>3, <1>4, SkipKeeps DEF Row!Skips, Program, Named
  <1>5. CASE Row!Refuses(r)
    <2>1. Program(r)[handling[r].at] \notin Row!CannotRefuse
      BY <1>3, StepKinds DEF Row!CannotRefuse
    <2> QED
      BY <1>1, <1>5, <2>1, RefuseKeeps
  <1> QED
    BY <1>1, <1>4, <1>5

\* So do the statements that may fail.
LEMMA RowFailKeeps ==
  ASSUME HandlerInv, NEW r \in Actors, Row!Fail(r)
  PROVE  HandlerInv'
  <1> DEFINE kinds == {"find", "look", "number", "vacant", "ask", "refuse"} \union (Row!Changing \ {"set"})
             s == Program(r)[handling[r].at]
  <1>1. /\ Row!Runs(r, kinds) /\ UNCHANGED <<there, columns, inserted>>
        /\ IF s \in DOMAIN Row!Ignored THEN Row!Skips(r) ELSE Row!Refuses(r)
    BY DEF Row!Fail, Program, Named
  <1>2. handling[r] \in HandlerCall /\ Row!Kind(s) \in kinds
    BY <1>1, RunningCall
  <1> HIDE DEF kinds
  <1>3. CASE s \in DOMAIN Row!Ignored
    BY <1>1, <1>2, <1>3, SkipKeeps DEF Row!Skips, Row!Tried, Program, Named
  <1>4. CASE s \notin DOMAIN Row!Ignored
    <2>1. s \notin Row!CannotRefuse
      BY <1>2, <1>4, StepKinds DEF Row!CannotRefuse, Row!Changing, kinds
    <2> QED
      BY <1>1, <1>4, <2>1, RefuseKeeps
  <1> QED
    BY <1>3, <1>4

\* Reads, of this table and of others.
LEMMA RowReadKeeps ==
  ASSUME HandlerInv, NEW r \in Actors,
         Row!Look(r) \/ Row!Find(r) \/ Row!Number(r) \/ Row!Vacant(r)
  PROVE  HandlerInv'
  <1> DEFINE kinds == {"look", "ask", "record", "find", "number", "vacant"}
             seen == Row!Cardinality(inserted)
  <1>1. kinds \intersect Row!Changing = {}
    BY DEF Row!Changing
  <1>2. Row!Runs(r, kinds) /\ UNCHANGED <<there, columns, inserted>>
    BY DEF Row!Look, Row!Find, Row!Number, Row!Vacant, Row!Runs
  <1>3. handling[r] \in HandlerCall
    BY <1>2, RunningCall
  <1>4. \E c \in HandlerCall : /\ c.name = Named(r) /\ c.steps = Program(r) /\ c.at = handling[r].at /\ c.did = handling[r].did
                            /\ Row!GoesOn(r, c)
    <2>1. CASE Row!Look(r) \/ Row!Vacant(r)
      BY <1>3, <2>1 DEF Row!Look, Row!Vacant, Row!Skips, Program, Named
    <2>2. CASE Row!Find(r)
      <3> DEFINE c == [handling[r] EXCEPT !.copy = columns]
      <3>1. columns \in Contents
        BY DEF HandlerInv, HandlerTypes
      <3>2. c \in HandlerCall /\ c.name = Named(r) /\ c.steps = Program(r) /\ c.at = handling[r].at /\ c.did = handling[r].did
        BY <1>3, <3>1 DEF HandlerCall, Program, Named
      <3>3. Row!GoesOn(r, c)
        BY <2>2 DEF Row!Find
      <3> QED
        BY <3>2, <3>3
    <2>3. CASE Row!Number(r)
      <3> DEFINE c == [handling[r] EXCEPT !.seen = seen]
      <3>1. seen \in Nat
        BY HandlerCardinality, FS_CardinalityType DEF HandlerInv, HandlerTypes
      <3>2. Row!GoesOn(r, c)
        BY <2>3 DEF Row!Number
      <3> HIDE DEF seen
      <3>3. c \in HandlerCall /\ c.name = Named(r) /\ c.steps = Program(r) /\ c.at = handling[r].at /\ c.did = handling[r].did
        BY <1>3, <3>1 DEF HandlerCall, Program, Named
      <3> QED
        BY <3>2, <3>3
    <2> QED
      BY <2>1, <2>2, <2>3
  <1> HIDE DEF kinds
  <1> QED
    BY <1>1, <1>2, <1>4, SkipKeeps

\* A handler that makes sure of the name inserts into a unique index.
LEMMA RowInsertKeeps ==
  ASSUME HandlerInv, NEW r \in Actors, Row!Insert(r)
  PROVE  HandlerInv'
  <1> DEFINE kinds == {"insert", "insertOnce", "insertNext"}
             s == Program(r)[handling[r].at]
  <1>1. /\ Row!Runs(r, kinds) /\ Row!Does(r) /\ UNCHANGED <<there, columns>>
        /\ inserted' = inserted \union {r}
        /\ Row!Runs(r, {"insertOnce"}) => inserted = {}
    BY DEF Row!Insert
  <1>2. kinds \subseteq Row!Changing
    BY DEF Row!Changing
  <1>3. /\ handling[r].answer = "none" /\ Row!Kind(s) \in kinds /\ handling[r].at \in DOMAIN Program(r)
        /\ Row!ProgramHolds(Named(r), Program(r))
    BY <1>1, RunningCall
  <1>4. /\ handling' \in [Actors -> HandlerCall]
        /\ \A q \in Actors : Program(q)' = Program(q) /\ Named(q)' = Named(q)
        /\ OfOneTable' /\ Deleting' = Deleting
        /\ \A q \in Actors : CallHolds(handling[q])' /\ ChangesMade(handling[q])'
        /\ \A q \in Actors : \A K : q # r => (Row!Did(q, K)' <=> Row!Did(q, K))
        /\ \A K : Row!Did(r, K)' <=> Row!Did(r, K) \/ Row!Kind(s) \in K
    BY <1>1, <1>2, DoesHolds
  <1>5. HandlerTypes'
    BY <1>1, <1>4, FS_AddElement DEF HandlerInv, HandlerTypes
  <1>6. ASSUME NEW q \in Actors PROVE ChangeStands(q)'
    <2>1. Row!Kind(s) \notin Writes /\ Row!Kind(s) \notin Removals
      BY <1>3 DEF Writes, Removals
    <2>2. /\ Row!Did(q, Writes)' <=> Row!Did(q, Writes)
          /\ Row!Did(q, Removals)' <=> Row!Did(q, Removals)
      BY <1>4, <2>1
    <2>3. ChangeStands(q)
      BY DEF HandlerInv
    <2> QED
      BY <1>1, <1>4, <2>2, <2>3 DEF ChangeStands
  <1>7. Row!OncePerName'
    <2>1. Row!Naming(Program(r)) /\ Named(r) \notin Row!Duplicating => inserted = {}
      <3>1. SUFFICES ASSUME Row!Naming(Program(r)), Named(r) \notin Row!Duplicating
                     PROVE  inserted = {}
        OBVIOUS
      <3>2. s = "insertOnce"
        BY <1>3, <3>1 DEF Row!ProgramHolds
      <3>3. Row!Kind(s) = "insertOnce"
        BY <3>2, StepKinds
      <3> QED
        BY <1>1, <1>3, <3>3 DEF Row!Runs, Program, Named
    <2>2. SUFFICES ASSUME NEW q \in inserted \union {r}, NEW t \in inserted \union {r},
                          \A u \in {q, t} : Row!Naming(Program(u)) /\ Named(u) \notin Row!Duplicating
                   PROVE  q = t
      BY <1>1, <1>4 DEF Row!OncePerName, Program, Named, HandlerInv, HandlerTypes
    <2>3. Row!OncePerName
      BY DEF HandlerInv
    <2>4. CASE q = r \/ t = r
      BY <2>1, <2>2, <2>4
    <2>5. CASE q # r /\ t # r
      BY <2>2, <2>3, <2>5 DEF Row!OncePerName, Program, Named
    <2> QED
      BY <2>4, <2>5
  <1> QED
    BY <1>1, <1>4, <1>5, <1>6, <1>7 DEF HandlerInv

\* What the row may become when a handler's statement is done.
RowChange(r) ==
  LET kind == Row!Kind(Program(r)[handling[r].at])
  IN  /\ inserted' = inserted /\ there' \in BOOLEAN /\ columns' \in Contents
      /\ there' \/ Deleting
      /\ Named(r) \notin Row!Overwriting =>
           (there' => there) /\ \A q \in Actors \ {r} : columns'[q] = columns[q]
      /\ columns'[r] = columns[r] \/ columns'[r] = "new"
      /\ kind \in Writes => columns'[r] = "new"
      /\ kind \in Removals => ~there'
      /\ Row!Did(r, Removals) /\ there' => there

\* A change to the row, or elsewhere.
LEMMA RowChangeKeeps ==
  ASSUME HandlerInv, NEW r \in Actors, NEW kinds, Row!Runs(r, kinds), kinds \subseteq Row!Changing,
         Row!Does(r), RowChange(r)
  PROVE  HandlerInv'
  <1> DEFINE s == Program(r)[handling[r].at]
  <1>1. /\ handling' \in [Actors -> HandlerCall]
        /\ \A q \in Actors : Program(q)' = Program(q) /\ Named(q)' = Named(q)
        /\ OfOneTable' /\ Deleting' = Deleting
        /\ \A q \in Actors : CallHolds(handling[q])' /\ ChangesMade(handling[q])'
        /\ \A q \in Actors : \A K : q # r => (Row!Did(q, K)' <=> Row!Did(q, K))
        /\ \A K : Row!Did(r, K)' <=> Row!Did(r, K) \/ Row!Kind(s) \in K
    BY DoesHolds
  <1>2. HandlerTypes'
    BY <1>1 DEF HandlerInv, HandlerTypes, RowChange
  <1>3. ASSUME NEW q \in Actors, \A t \in Actors \ {q} : Named(t) \notin Row!Overwriting
        PROVE  (Row!Did(q, Writes)' => columns'[q] = "new") /\ (Row!Did(q, Removals)' => ~there')
    <2>1. (Row!Did(q, Writes) => columns[q] = "new") /\ (Row!Did(q, Removals) => ~there)
      BY <1>3 DEF HandlerInv, ChangeStands
    <2>2. CASE q = r
      <3>1. /\ Row!Did(r, Writes)' <=> Row!Did(r, Writes) \/ Row!Kind(s) \in Writes
            /\ Row!Did(r, Removals)' <=> Row!Did(r, Removals) \/ Row!Kind(s) \in Removals
        BY <1>1
      <3> QED
        BY <2>1, <2>2, <3>1 DEF RowChange
    <2>3. CASE q # r
      <3>1. (Row!Did(q, Writes)' <=> Row!Did(q, Writes)) /\ (Row!Did(q, Removals)' <=> Row!Did(q, Removals))
        BY <1>1, <2>3
      <3>2. Named(r) \notin Row!Overwriting
        BY <1>3, <2>3
      <3> QED
        BY <2>1, <2>3, <3>1, <3>2 DEF RowChange
    <2> QED
      BY <2>2, <2>3
  <1>4. \A q \in Actors : ChangeStands(q)'
    BY <1>1, <1>3 DEF ChangeStands
  <1>5. Row!OncePerName'
    BY <1>1 DEF HandlerInv, HandlerTypes, Row!OncePerName, Program, Named, RowChange
  <1> QED
    BY <1>1, <1>2, <1>4, <1>5 DEF HandlerInv, RowChange

\* A row that is gone was deleted by a handler of the table.
LEMMA RowUpdateKeeps ==
  ASSUME HandlerInv, NEW r \in Actors, Row!Update(r)
  PROVE  HandlerInv'
  <1> DEFINE kinds == {"update", "updateRow"}
             s == Program(r)[handling[r].at]
  <1>1. /\ Row!Runs(r, kinds) /\ UNCHANGED <<there, inserted>>
        /\ Row!Runs(r, {"updateRow"}) => there
        /\ columns' = IF there THEN [columns EXCEPT ![r] = "new"] ELSE columns
        /\ IF there THEN Row!Does(r) ELSE Row!Skips(r)
    BY DEF Row!Update
  <1>2. /\ handling[r] \in HandlerCall /\ handling[r].answer = "none" /\ Row!Kind(s) \in kinds
        /\ columns \in Contents /\ there \in BOOLEAN /\ (there \/ Deleting)
    BY <1>1, RunningCall DEF HandlerInv, HandlerTypes
  <1>3. kinds \subseteq Row!Changing
    BY DEF Row!Changing
  <1>4. CASE there
    <2>1. /\ columns' \in Contents /\ columns'[r] = "new"
          /\ \A q \in Actors : q # r => columns'[q] = columns[q]
      <3> DEFINE V == {"old", "new", "request"}
      <3>1. columns' = [columns EXCEPT ![r] = "new"] /\ "new" \in V
        BY <1>1, <1>4
      <3> HIDE DEF V
      <3>2. columns \in [Actors -> V]
        <4>1. columns \in Contents
          BY DEF HandlerInv, HandlerTypes
        <4> QED
          BY <4>1 DEF Contents, V
      <3>3. columns' \in [Actors -> V]
        BY <3>1, <3>2
      <3>4. columns'[r] = "new" /\ \A q \in Actors : q # r => columns'[q] = columns[q]
        BY <3>1, <3>2
      <3> QED
        BY <3>3, <3>4 DEF Contents, V
    <2>2. Row!Kind(s) \notin Removals
      BY <1>2 DEF Removals
    <2>3. RowChange(r)
      BY <1>1, <1>2, <1>4, <2>1, <2>2 DEF RowChange
    <2> QED
      BY <1>1, <1>3, <1>4, <2>3, RowChangeKeeps
  <1>5. CASE ~there
    <2>1. Row!Kind(s) = "update"
      BY <1>1, <1>2, <1>5 DEF Row!Runs, Program, Named
    <2>2. s = "update" \/ Row!Tried(s)
      BY <2>1, StepKinds DEF Row!Tried
    <2> QED
      BY <1>1, <1>2, <1>5, <2>2, SkipKeeps DEF Row!Skips, Program, Named
  <1> QED
    BY <1>4, <1>5

\* Save writes the other requests' columns also, and brings a deleted row back.
LEMMA RowSaveKeeps ==
  ASSUME HandlerInv, NEW r \in Actors, Row!Save(r) \/ Row!Put(r)
  PROVE  HandlerInv'
  <1> DEFINE kinds == {"save", "put"}
             s == Program(r)[handling[r].at]
  <1>1. /\ Row!Runs(r, kinds) /\ Row!Does(r) /\ there' = TRUE /\ UNCHANGED inserted
        /\ \/ columns' = [handling[r].copy EXCEPT ![r] = "new"]
           \/ columns' = [q \in Actors |-> IF q = r THEN "new" ELSE "request"]
    BY DEF Row!Save, Row!Put, Row!Runs
  <1>2. /\ handling[r] \in HandlerCall /\ Row!Kind(s) \in kinds /\ handling[r].at \in DOMAIN Program(r)
        /\ Row!ProgramHolds(Named(r), Program(r))
    BY <1>1, RunningCall
  <1>3. kinds \subseteq Row!Changing
    BY DEF Row!Changing
  <1>4. columns' \in Contents /\ columns'[r] = "new"
    <2>1. handling[r].copy \in Contents
      BY <1>2 DEF HandlerCall
    <2> QED
      BY <1>1, <2>1 DEF Contents
  <1>5. Named(r) \in Row!Overwriting
    BY <1>2 DEF Row!ProgramHolds
  <1>6. ~Row!Did(r, Removals) /\ Row!Kind(s) \notin Removals
    <2>1. ASSUME NEW i \in handling[r].did, Row!Kind(Program(r)[i]) \in Removals
          PROVE  FALSE
      <3>1. i \in DOMAIN Program(r) /\ i < handling[r].at
        BY DEF HandlerInv, CallHolds, Row!Changes, Program, Named
      <3> QED
        BY <1>2, <2>1, <3>1 DEF Row!ProgramHolds, Removals
    <2> QED
      BY <1>2, <2>1 DEF Row!Did, Program, Named, Removals
  <1>7. RowChange(r)
    BY <1>1, <1>4, <1>5, <1>6 DEF RowChange
  <1> QED
    BY <1>1, <1>3, <1>7, RowChangeKeeps

\* A handler that deletes is at a program that deletes.
LEMMA RowDeleteKeeps ==
  ASSUME HandlerInv, NEW r \in Actors, Row!Delete(r)
  PROVE  HandlerInv'
  <1> DEFINE kinds == {"delete", "deleteRow"}
             s == Program(r)[handling[r].at]
  <1>1. Row!Runs(r, kinds) /\ Row!Does(r) /\ there' = FALSE /\ UNCHANGED <<columns, inserted>>
    BY DEF Row!Delete
  <1>2. Row!Kind(s) \in kinds /\ handling[r].at \in DOMAIN Program(r) /\ columns \in Contents
    BY <1>1, RunningCall DEF HandlerInv, HandlerTypes
  <1>3. kinds \subseteq Row!Changing
    BY DEF Row!Changing
  <1>4. Deleting
    BY <1>2 DEF Deleting, Row!Deletes
  <1>5. Row!Kind(s) \notin Writes
    BY <1>2 DEF Writes
  <1>6. RowChange(r)
    BY <1>1, <1>2, <1>4, <1>5 DEF RowChange
  <1> QED
    BY <1>1, <1>3, <1>6, RowChangeKeeps

\* What is done elsewhere leaves the row alone.
LEMMA RowActKeeps ==
  ASSUME HandlerInv, NEW r \in Actors, Row!Act(r)
  PROVE  HandlerInv'
  <1> DEFINE kinds == {"act", "set"}
             s == Program(r)[handling[r].at]
  <1>1. Row!Runs(r, kinds) /\ Row!Does(r) /\ UNCHANGED <<there, columns, inserted>>
    BY DEF Row!Act
  <1>2. Row!Kind(s) \in kinds
    BY <1>1, RunningCall
  <1>3. kinds \subseteq Row!Changing
    BY DEF Row!Changing
  <1>4. /\ columns' \in Contents /\ there' \in BOOLEAN /\ (there' \/ Deleting)
        /\ (there' => there) /\ columns' = columns /\ inserted' = inserted
    BY <1>1 DEF HandlerInv, HandlerTypes
  <1>5. Row!Kind(s) \notin Writes /\ Row!Kind(s) \notin Removals
    BY <1>2 DEF Writes, Removals
  <1>6. RowChange(r)
    BY <1>4, <1>5 DEF RowChange
  <1> QED
    BY <1>1, <1>3, <1>6, RowChangeKeeps

\* One case for each statement.
LEMMA HandlerStepKeeps ==
  ASSUME HandlerInv, [Row!Next]_rowVars
  PROVE  HandlerInv'
  <1>1. CASE UNCHANGED rowVars
    <2>1. \A q \in Actors : Program(q)' = Program(q) /\ Named(q)' = Named(q) /\ handling'[q].did = handling[q].did
      BY <1>1 DEF rowVars, Program, Named
    <2>2. OfOneTable' /\ Deleting' = Deleting
      BY <2>1 DEF HandlerInv, OfOneTable, Deleting
    <2>3. \A q \in Actors : CallHolds(handling[q])' /\ ChangesMade(handling[q])'
      BY <1>1, <2>2 DEF HandlerInv, CallHolds, ChangesMade, rowVars
    <2>4. (\A q \in Actors : ChangeStands(q)') /\ Row!OncePerName'
      BY <1>1, <2>1, UndoneStands DEF rowVars
    <2> QED
      BY <1>1, <2>2, <2>3, <2>4 DEF HandlerInv, HandlerTypes, rowVars
  <1>2. CASE Row!Next
    <2>1. PICK r \in Actors :
            \/ Row!Check(r) \/ Row!Fail(r) \/ Row!Look(r) \/ Row!Find(r) \/ Row!Number(r)
            \/ Row!Vacant(r) \/ Row!Insert(r) \/ Row!Update(r) \/ Row!Save(r) \/ Row!Put(r)
            \/ Row!Delete(r) \/ Row!Act(r)
      BY <1>2 DEF Row!Next
    <2> QED
      BY <2>1, RowCheckKeeps, RowFailKeeps, RowReadKeeps, RowInsertKeeps, RowUpdateKeeps, RowSaveKeeps, RowDeleteKeeps,
         RowActKeeps
  <1> QED
    BY <1>1, <1>2

\* Any number of handlers of one table: what each has done up to its statement, what stands of it
\* in the row, and that a table whose rows are updated unasked has no handler that deletes.
THEOREM HandlerInvariance == Row!Spec => []HandlerInv
  <1>1. Row!Init => HandlerInv
    BY HandlerInitInv
  <1>2. HandlerInv /\ [Row!Next]_(Row!vars) => HandlerInv'
    BY HandlerStepKeeps DEF Row!vars, rowVars
  <1> QED
    BY <1>1, <1>2, PTL DEF Row!Spec

\* The answers of the handlers are true, whatever the others do at once.
THEOREM HandlersHoldCorrect == Row!Spec => []HandlersHold
  <1>1. ASSUME HandlerInv PROVE HandlersHold
    <2>1. /\ \A r \in Actors : /\ Row!ProgramHolds(Named(r), Program(r)) /\ CallHolds(handling[r])
                               /\ ChangesMade(handling[r]) /\ ChangeStands(r)
                               /\ handling[r] \in HandlerCall
          /\ ~Deleting \/ \A r \in Actors : Row!Updates(Program(r)) => Named(r) \in Row!Unasked
      BY <1>1, ProgramFacts DEF HandlerInv, HandlerTypes
    <2>2. Row!AnswersAreTrue
      <3>1. SUFFICES ASSUME NEW r \in Actors, handling[r].answer = "ok",
                            Named(r) \notin Row!Unasked, NEW i \in Row!Changes(Program(r))
                     PROVE  i \in handling[r].did \/ Row!Tried(Program(r)[i])
        BY DEF Row!AnswersAreTrue, Row!Answered, Program, Named
      <3>2. i \in DOMAIN Program(r) /\ DOMAIN Program(r) = 1..Len(Program(r))
            /\ Len(Program(r)) \in Nat
        <4>1. Program(r) \in Seq(STRING)
          BY <2>1 DEF Row!ProgramHolds
        <4> QED
          BY <4>1, LenProperties DEF Row!Changes
      <3>3. i < handling[r].at
        BY <2>1, <3>1, <3>2 DEF CallHolds, Program, Named
      <3>4. \/ i \in handling[r].did \/ Row!Tried(Program(r)[i])
            \/ Program(r)[i] = "update" /\ Deleting
        BY <2>1, <3>3 DEF ChangesMade, Program, Named
      <3>5. Program(r)[i] = "update" => ~Deleting
        BY <2>1, <3>1, <3>2 DEF Row!Updates
      <3> QED
        BY <3>4, <3>5
    <2>3. Row!RefusedChangesNothing
      BY <2>1 DEF Row!RefusedChangesNothing, Row!Answered, CallHolds
    <2>4. Row!ChangesStand
      <3>1. SUFFICES ASSUME NEW r \in Actors,
                            \A q \in Actors \ {r} : handling[q].name \notin Row!Overwriting
                     PROVE  /\ Row!Did(r, Writes) => columns[r] = "new"
                            /\ Row!Did(r, Removals) => ~there
        BY DEF Row!ChangesStand, Writes, Removals
      <3> QED
        BY <2>1, <3>1 DEF ChangeStands, Program, Named
    <2>5. Row!OncePerName
      BY <1>1 DEF HandlerInv
    <2>6. Row!ViewersChangeNothing
      <3>1. SUFFICES ASSUME NEW r \in Actors, Row!OpenToViewers(Named(r))
                     PROVE  handling[r].did = {}
        BY DEF Row!ViewersChangeNothing, Named
      <3>2. Row!Changes(Program(r)) = {}
        BY <2>1, <3>1 DEF Row!ProgramHolds
      <3> QED
        BY <2>1, <3>2 DEF CallHolds, Program
    <2> QED
      BY <2>2, <2>3, <2>4, <2>5, <2>6 DEF HandlersHold
  <1> QED
    BY <1>1, HandlerInvariance, PTL
=============================================================================
