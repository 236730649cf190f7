----------------------------- MODULE RateLimits -----------------------------
(***************************************************************************)
(* The limits on requests: the token bucket of every request               *)
(* (internal/middleware/ratelimit.go) and the window of attempts for       *)
(* registration and second factors (registerRateLimiter of                 *)
(* internal/api/auth.go, twoFARateLimiter of internal/api/twofa.go).  Each *)
(* call is one critical section, but for the question how many are left,   *)
(* which is asked in a second one.  The limiter runs before the            *)
(* authentication: no request has a user or a role yet, and the key of all *)
(* of them is an address with the default rate.  One address.              *)
(***************************************************************************)
EXTENDS Integers

CONSTANTS Rate,      \* RateLimitDefault, requests per minute
          Minute,    \* units of time in a minute
          Stale,     \* twice the interval of the cleanup
          MaxAttempts, Window,
          MaxTime    \* bound on the clock

\* A bucket is removed after two cleanups of five minutes.
LimitAssumption ==
  /\ Rate \in Nat /\ Minute \in Nat \ {0} /\ Stale \in Nat /\ 2 * Minute <= Stale
  /\ MaxAttempts \in Nat \ {0} /\ Window \in Nat /\ MaxTime \in Nat \ {0}

VARIABLES now,
          bucket,    \* tokens and time of the last refill, or Absent
          allowed,   \* history, per time: requests allowed in the minute that begins then
          attempts,  \* count and expiry, or NoAttempts
          admitted   \* history, per time: attempts allowed in as long as a window from then

vars == <<now, bucket, allowed, attempts, admitted>>

Absent == [tokens |-> -1, lastRefill |-> 0]
NoAttempts == [count |-> 0, expireAt |-> 0]

Init ==
  /\ now = 1
  /\ bucket = Absent /\ allowed = [t \in 1..MaxTime |-> 0]
  /\ attempts = NoAttempts /\ admitted = [t \in 1..MaxTime |-> 0]

\* One more, in each stretch of that length that has begun and is not over.
OneMore(count, length) ==
  [t \in 1..MaxTime |-> IF t <= now /\ now < t + length THEN count[t] + 1 ELSE count[t]]

Least(a, b) == IF a < b THEN a ELSE b

\* A plausible bug: the time of the refill is not moved.
RefillAgain(b) ==
  [b EXCEPT !.tokens = Least(Rate, @ + ((now - b.lastRefill) \div Minute) * Rate)]

\* Whole minutes only, and one minute's tokens at most.
Refill(b) ==
  LET minutes == (now - b.lastRefill) \div Minute
  IN  [tokens |-> Least(Rate, b.tokens + minutes * Rate), lastRefill |-> b.lastRefill + minutes * Minute]

Bucket == IF bucket = Absent THEN [tokens |-> Rate, lastRefill |-> now] ELSE bucket

Allow ==
  LET b == Refill(Bucket)
  IN  /\ bucket' = IF b.tokens > 0 THEN [b EXCEPT !.tokens = @ - 1] ELSE b
      /\ allowed' = IF b.tokens > 0 THEN OneMore(allowed, Minute) ELSE allowed
      /\ UNCHANGED <<now, attempts, admitted>>

\* X-RateLimit-Remaining: the answer may be that after other requests.
Remaining ==
  /\ bucket' = Refill(Bucket)
  /\ UNCHANGED <<now, allowed, attempts, admitted>>

Cleanup ==
  /\ bucket # Absent /\ bucket.lastRefill < now - Stale
  /\ bucket' = Absent
  /\ UNCHANGED <<now, allowed, attempts, admitted>>

Over == attempts = NoAttempts \/ now > attempts.expireAt

\* A plausible bug: every attempt moves the end of the window and starts over.
CountAnew == [count |-> 1, expireAt |-> now + Window]

Count ==
  IF Over THEN [count |-> 1, expireAt |-> now + Window] ELSE [attempts EXCEPT !.count = @ + 1]

\* The count goes on beyond the limit, and the model's does so once.
Attempt ==
  /\ Over \/ attempts.count <= MaxAttempts
  /\ attempts' = Count
  /\ admitted' = IF Count.count <= MaxAttempts THEN OneMore(admitted, Window + 1) ELSE admitted
  /\ UNCHANGED <<now, bucket, allowed>>

CleanupAttempts ==
  /\ attempts # NoAttempts /\ Over
  /\ attempts' = NoAttempts
  /\ UNCHANGED <<now, bucket, allowed, admitted>>

Tick ==
  /\ now < MaxTime
  /\ now' = now + 1
  /\ UNCHANGED <<bucket, allowed, attempts, admitted>>

Next == Allow \/ Remaining \/ Cleanup \/ Attempt \/ CleanupAttempts \/ Tick

Spec == Init /\ [][Next]_vars
-----------------------------------------------------------------------------
TypeOK ==
  /\ now \in 1..MaxTime
  /\ bucket # Absent => bucket.tokens \in 0..Rate /\ bucket.lastRefill \in 1..now
  /\ attempts.count \in 0..MaxAttempts + 1

\* In no stretch of one minute, wherever it begins, are there more than twice
\* Rate requests: a bucket is refilled once in it, and a bucket that is removed
\* was full for that long.
RequestsBounded == \A t \in 1..MaxTime : allowed[t] <= 2 * Rate

\* In no stretch as long as the window are there more than two windows' attempts
\* less the one that opened the first.
AttemptsBounded == \A t \in 1..MaxTime : admitted[t] <= 2 * MaxAttempts - 1
=============================================================================
