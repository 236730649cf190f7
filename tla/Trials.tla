------------------------------- MODULE Trials -------------------------------
(***************************************************************************)
(* The trial period of an installation                                     *)
(* (internal/service/trial_service.go) and the state of degradation shown  *)
(* from it and from the licence (degradation_service.go), which Licensing  *)
(* describes by rows and signers, and this module by its end.  Only the    *)
(* start of the server looks whether a trial has run out, and only an      *)
(* active one; an extension reads the row and writes it in a second        *)
(* statement.                                                              *)
(***************************************************************************)
EXTENDS Integers

CONSTANTS Handlers, OriginalDays, MaxDays, Grace,
          MaxExtended, MaxTime   \* bounds on the days granted and on the clock

TrialAssumption == OriginalDays \in Nat /\ MaxDays \in Nat

VARIABLES now,
          trial,      \* row of this machine, or NoTrial
          licence,    \* ends of the licence in the engine and of that in the active row
          handler,    \* requests to extend the trial
          overlapped  \* history: an extension wrote over a change it had not read

vars == <<now, trial, licence, handler, overlapped>>

NoTrial == [status |-> "none", started |-> 0, expires |-> 0, extended |-> 0]
Idle == [pc |-> "idle", read |-> NoTrial, days |-> 0]
NoLicence == -1
Perpetual == 0

Init ==
  /\ now = 1 /\ trial = NoTrial /\ licence = [loaded |-> NoLicence, row |-> NoLicence]
  /\ handler = [h \in Handlers |-> Idle]
  /\ overlapped = FALSE

\* InitTrialPeriod, when the server starts; its errors are logged.  The licence
\* of the active row is loaded, if its key is trusted (Licensing).
Start ==
  /\ handler' = [h \in Handlers |-> Idle]
  /\ \E end \in {NoLicence, licence.row} : licence' = [licence EXCEPT !.loaded = end]
  /\ \/ /\ trial = NoTrial
        /\ trial' = [status |-> "active", started |-> now, expires |-> now + OriginalDays, extended |-> 0]
     \/ trial.status = "active" /\ now > trial.expires /\ trial' = [trial EXCEPT !.status = "expired"]
     \/ UNCHANGED trial
  /\ UNCHANGED <<now, overlapped>>

\* A plausible bug: the status is not looked at.
FindAny(h) ==
  /\ handler[h].pc = "idle" /\ trial # NoTrial
  /\ \E days \in 1..MaxDays :
       handler' = [handler EXCEPT ![h] = [pc |-> "found", read |-> trial, days |-> days]]
  /\ UNCHANGED <<now, trial, licence, overlapped>>

Find(h) ==
  /\ handler[h].pc = "idle" /\ trial.status \notin {"none", "converted"}
  /\ \E days \in 1..MaxDays :
       handler' = [handler EXCEPT ![h] = [pc |-> "found", read |-> trial, days |-> days]]
  /\ UNCHANGED <<now, trial, licence, overlapped>>

\* A plausible bug: the days count from today.
FromToday(h) == now + handler[h].days

NewExpiry(h) == handler[h].read.expires + handler[h].days

\* The expiry is that of the row that was read, extended_days that of the row.
ExtendTrial(h) ==
  /\ handler[h].pc = "found" /\ trial.extended + handler[h].days <= MaxExtended
  /\ trial' = [trial EXCEPT !.status = "extended", !.expires = NewExpiry(h),
                            !.extended = @ + handler[h].days]
  /\ overlapped' = (overlapped \/ trial # handler[h].read)
  /\ handler' = [handler EXCEPT ![h] = Idle]
  /\ UNCHANGED <<now, licence>>

ExtendFails(h) ==
  /\ handler[h].pc = "found"
  /\ handler' = [handler EXCEPT ![h] = Idle]
  /\ UNCHANGED <<now, trial, licence, overlapped>>

\* An end that Validate accepts, the days of grace included.  Issuer and server
\* agree on the time: a licence that exists has begun.
Accepts(end) == end = Perpetual \/ (end > 0 /\ now <= end + Grace)

Converted == [trial EXCEPT !.status = "converted"]

\* activateWithKey.  LoadLicense puts the key in the engine; an expired one is
\* refused after that, and stays there.  Else the active row expires and a new one
\* is made, and then ConvertTrial; the errors of the first and the last of these
\* are ignored, and with two active rows the older one is read.
ActivateWithKey ==
  \E end \in {Perpetual} \union (1..MaxTime) :
    /\ \/ /\ ~Accepts(end)
          /\ licence' = [licence EXCEPT !.loaded = end] /\ UNCHANGED trial
       \/ /\ Accepts(end)
          /\ \E row \in {licence.row, NoLicence, end} : licence' = [loaded |-> end, row |-> row]
          /\ trial' \in {trial} \union
               IF licence'.row = NoLicence \/ trial.status = "none" THEN {} ELSE {Converted}
    /\ UNCHANGED <<now, handler, overlapped>>

\* activateCommunity does not convert the trial.  It signs a key without an end, if
\* this server can; without that key the new row has nothing to load.
ActivateCommunity ==
  /\ \/ \E row \in {licence.row, NoLicence} : licence' = [licence EXCEPT !.row = row]
     \/ \E row \in {licence.row, NoLicence, Perpetual} : licence' = [loaded |-> Perpetual, row |-> row]
  /\ UNCHANGED <<now, trial, handler, overlapped>>

\* DeactivateLicense and RevokeLicense: the engine keeps what it holds.
Deactivate ==
  /\ licence' = [licence EXCEPT !.row = NoLicence]
  /\ UNCHANGED <<now, trial, handler, overlapped>>

Tick ==
  /\ now < MaxTime
  /\ now' = now + 1
  /\ UNCHANGED <<trial, licence, handler, overlapped>>

Next ==
  \/ Start \/ ActivateWithKey \/ ActivateCommunity \/ Deactivate \/ Tick
  \/ \E h \in Handlers : Find(h) \/ ExtendTrial(h) \/ ExtendFails(h)

Spec == Init /\ [][Next]_vars
-----------------------------------------------------------------------------
(* What GetDegradationStatus answers *)

\* The engine still accepts a licence in its days of grace.
Licensed == Accepts(licence.loaded)
RunOut == licence.loaded > 0 /\ now > licence.loaded

\* A plausible bug: a trial that is no longer the first one is over.
NotActive == ~Licensed /\ trial.status \in {"expired", "extended"}

IsTrialExpired == ~Licensed /\ trial.status = "expired"

\* The level may be "readonly": an active trial with gated features makes it
\* "partial" again.
ReadOnly == IsTrialExpired \/ RunOut
-----------------------------------------------------------------------------
TypeOK ==
  /\ now \in 1..MaxTime
  /\ trial.status \in {"none", "active", "extended", "expired", "converted"}
  /\ trial.extended \in 0..MaxExtended
  /\ licence \in [loaded : NoLicence..MaxTime, row : NoLicence..MaxTime]
  /\ \A h \in Handlers : handler[h].pc \in {"idle", "found"} /\ handler[h].days \in 0..MaxDays

\* An installation is shown as read-only only when the licence in its engine has
\* run out (one that an activation refused included), or when it has none that is
\* accepted and all days of its trial and its extensions are over.  The converse
\* does not hold: an active trial is over only at the next start of the server,
\* an extended one is never shown as over, although CheckTrialOrLicense, which
\* nothing calls, refuses it (trial_service.go:249-253).
ReadOnlyIsDue ==
  ReadOnly => \/ RunOut
              \/ trial.status # "none" /\ now > trial.expires

\* The trial never ends later than as many days after its start as were granted,
\* and no earlier unless an extension wrote over a change it had not read: the
\* days of one of two overlapping extensions are lost, and counted.
DaysAddUp ==
  trial.status # "none" =>
    LET granted == OriginalDays + trial.extended
    IN  /\ trial.expires - trial.started <= granted
        /\ ~overlapped => trial.expires - trial.started = granted

\* A trial that was converted stays so, unless an extension had read it before.
\* An action property.
ConvertedStays ==
  trial.status = "converted" /\ trial'.status # "converted" => overlapped'
=============================================================================
