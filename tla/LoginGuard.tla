----------------------------- MODULE LoginGuard -----------------------------
(***************************************************************************)
(* Brute-force protection of the login (internal/bruteforce/protector.go)  *)
(* and the handler that uses it (Login, internal/api/auth.go).  A login is *)
(* checked before the password is compared and recorded after it, so that  *)
(* several logins may pass the check before the first of them is counted.  *)
(*                                                                         *)
(* Times are ticks that remain: an attempt is counted until its ticks are  *)
(* used up, a lock holds while it has some.  An entry that is missing from *)
(* the maps is one without attempts and without a lock, and an attempt     *)
(* outside the window, which every count skips, is dropped by the clock.   *)
(***************************************************************************)
EXTENDS Naturals, Sequences, FiniteSets

CONSTANTS Users, IPs, Requests, None,
          MaxAttempts, IPMaxAttempts,      \* failures that lock
          Window, Lockout, IPLockout,      \* durations, in ticks
          MaxPerIP                         \* bound on the attempts kept for an address

\* A lock outlasts the attempts that made it, as with the defaults of the code.
LoginAssumption ==
  /\ IsFiniteSet(Requests)
  /\ MaxAttempts \in Nat \ {0} /\ Window \in Nat \ {0} /\ Lockout \in Nat /\ Window <= Lockout

VARIABLES accounts, ips,  \* per user and per address: attempts and lock
          login           \* per request: the account and address it tries

vars == <<accounts, ips, login>>

Clear == [attempts |-> <<>>, lock |-> 0]

Init ==
  /\ accounts = [u \in Users |-> Clear]
  /\ ips = [p \in IPs |-> Clear]
  /\ login = [r \in Requests |-> None]

\* An account that is not locked but has recent failures is delayed, which
\* answers before the address is looked at.
Allowed(u, p) ==
  /\ accounts[u].lock = 0
  /\ accounts[u].attempts # <<>> \/ ips[p].lock = 0

Check(r) ==
  \E u \in Users, p \in IPs :
    /\ login[r] = None
    /\ Allowed(u, p) /\ Len(ips[p].attempts) < MaxPerIP
    /\ login' = [login EXCEPT ![r] = [user |-> u, ip |-> p]]
    /\ UNCHANGED <<accounts, ips>>

\* A plausible bug: the limit itself does not lock.
FailureOver(state, max, duration) ==
  LET a == Append(state.attempts, Window)
  IN  [attempts |-> a, lock |-> IF Len(a) > max THEN duration ELSE state.lock]

Failure(state, max, duration) ==
  LET a == Append(state.attempts, Window)
  IN  [attempts |-> a, lock |-> IF Len(a) >= max THEN duration ELSE state.lock]

\* Unknown user or wrong password.
RecordFailure(r) ==
  /\ login[r] # None
  /\ accounts' = [accounts EXCEPT ![login[r].user] = Failure(@, MaxAttempts, Lockout)]
  /\ ips' = [ips EXCEPT ![login[r].ip] = Failure(@, IPMaxAttempts, IPLockout)]
  /\ login' = [login EXCEPT ![r] = None]

RecordSuccess(r) ==
  /\ login[r] # None
  /\ accounts' = [accounts EXCEPT ![login[r].user] = Clear]
  /\ ips' = [ips EXCEPT ![login[r].ip] = Clear]
  /\ login' = [login EXCEPT ![r] = None]

\* An administrator unlocks what is locked.
UnlockAccount(u) ==
  /\ accounts[u].lock > 0
  /\ accounts' = [accounts EXCEPT ![u] = Clear]
  /\ UNCHANGED <<ips, login>>

UnlockIP(p) ==
  /\ ips[p].lock > 0
  /\ ips' = [ips EXCEPT ![p] = Clear]
  /\ UNCHANGED <<accounts, login>>

\* The attempts are in the order of time, so those that leave the window come first.
Older(state) ==
  LET a == state.attempts
      gone == CHOOSE n \in 0..Len(a) : \A i \in DOMAIN a : a[i] > 1 <=> i > n
  IN  [attempts |-> [i \in 1..Len(a) - gone |-> a[gone + i] - 1],
       lock |-> IF state.lock = 0 THEN 0 ELSE state.lock - 1]

Tick ==
  /\ accounts' = [u \in Users |-> Older(accounts[u])]
  /\ ips' = [p \in IPs |-> Older(ips[p])]
  /\ UNCHANGED login

Next ==
  \/ \E r \in Requests : Check(r) \/ RecordFailure(r) \/ RecordSuccess(r)
  \/ \E u \in Users : UnlockAccount(u)
  \/ \E p \in IPs : UnlockIP(p)
  \/ Tick

Spec == Init /\ [][Next]_vars
-----------------------------------------------------------------------------
InFlight(u) == {r \in Requests : login[r] # None /\ login[r].user = u}

MaxCounted == MaxAttempts - 1 + Cardinality(Requests)

TypeOK ==
  /\ accounts \in [Users -> [attempts : Seq(1..Window), lock : 0..Lockout]]
  /\ ips \in [IPs -> [attempts : Seq(1..Window), lock : 0..IPLockout]]
  /\ login \in [Requests -> [user : Users, ip : IPs] \union {None}]

\* Within a window an account is tried at most one time less than the limit,
\* and once more by every login the server handles at the same time: what
\* passed the check before the lock was set is counted after it (Check and
\* RecordFailure are two critical sections; the lock outlasts the window).
GuessesBounded ==
  \A u \in Users : Len(accounts[u].attempts) + Cardinality(InFlight(u)) <= MaxCounted
=============================================================================
