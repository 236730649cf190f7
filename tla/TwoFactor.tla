----------------------------- MODULE TwoFactor ------------------------------
(***************************************************************************)
(* Two-factor authentication of one user (internal/api/twofa.go).  Every   *)
(* handler reads the whole row of the user, decides on what it read, and   *)
(* saves the whole row; nothing orders two handlers that run at once.      *)
(* Secrets and sets of backup codes are numbered as they are generated, 0  *)
(* stands for none.                                                        *)
(***************************************************************************)
EXTENDS Naturals

CONSTANTS Handlers, Codes, None,
          MaxGenerated   \* bound on the secrets and sets of codes generated

CodesAssumption == MaxGenerated \in Nat

VARIABLES row,        \* the user's row
          handler,    \* per request: what it does and the row it read
          generated,  \* the number of the latest secret or set of codes
          accepted,   \* per backup code: how often it let somebody in
          excused     \* codes accepted while another handler held them, or not saved

vars == <<row, handler, generated, accepted, excused>>

BackupCode == (1..MaxGenerated) \X Codes
Fresh(n) == {n} \X Codes

Init ==
  /\ row = [secret |-> 0, enabled |-> FALSE, codes |-> {}]
  /\ handler = [h \in Handlers |-> None]
  /\ generated = 0
  /\ accepted = [c \in BackupCode |-> 0]
  /\ excused = {}

\* What each handler asks of the row it reads.  Confirm, Disable and
\* Regenerate are given a code that is valid for the secret they read.
Admits(op, r) ==
  CASE op = "setup"      -> generated < MaxGenerated
    [] op = "confirm"    -> r.secret # 0
    [] op = "disable"    -> r.enabled /\ r.secret # 0
    [] op = "regenerate" -> r.enabled /\ r.secret # 0 /\ generated < MaxGenerated
    [] op = "reset"      -> r.enabled \/ r.secret # 0
    [] op = "verify"     -> r.codes # {}

Ops == {"setup", "confirm", "disable", "regenerate", "reset", "verify"}

Read(h) ==
  \E op \in Ops :
    /\ handler[h] = None
    /\ Admits(op, row)
    /\ \E c \in IF op = "verify" THEN row.codes ELSE {None} :
         handler' = [handler EXCEPT ![h] = [op |-> op, row |-> row, code |-> c]]
    /\ UNCHANGED <<row, generated, accepted, excused>>

Returns(h) == handler' = [handler EXCEPT ![h] = None]

Setup2FA(h) ==
  /\ handler[h] # None /\ handler[h].op = "setup" /\ generated < MaxGenerated
  /\ generated' = generated + 1
  /\ row' = [handler[h].row EXCEPT !.secret = generated + 1, !.codes = Fresh(generated + 1)]
  /\ Returns(h)
  /\ UNCHANGED <<accepted, excused>>

\* A plausible bug: only the column that changes is written.
ConfirmColumn(h) ==
  /\ handler[h] # None /\ handler[h].op = "confirm"
  /\ row' = [row EXCEPT !.enabled = TRUE]
  /\ Returns(h)
  /\ UNCHANGED <<generated, accepted, excused>>

Confirm2FA(h) ==
  /\ handler[h] # None /\ handler[h].op = "confirm"
  /\ row' = [handler[h].row EXCEPT !.enabled = TRUE]
  /\ Returns(h)
  /\ UNCHANGED <<generated, accepted, excused>>

\* Disable2FA and the administrator's ResetUser2FA.
Clear2FA(h) ==
  /\ handler[h] # None /\ handler[h].op \in {"disable", "reset"}
  /\ row' = [secret |-> 0, enabled |-> FALSE, codes |-> {}]
  /\ Returns(h)
  /\ UNCHANGED <<generated, accepted, excused>>

RegenerateBackupCodes(h) ==
  /\ handler[h] # None /\ handler[h].op = "regenerate" /\ generated < MaxGenerated
  /\ generated' = generated + 1
  /\ row' = [handler[h].row EXCEPT !.codes = Fresh(generated + 1)]
  /\ Returns(h)
  /\ UNCHANGED <<accepted, excused>>

HeldElsewhere(h, c) == \E g \in Handlers \ {h} : handler[g] # None /\ c \in handler[g].row.codes

\* A plausible bug: the code is compared but not removed.
KeepCode(r, c) == r

RemoveBackupCode(r, c) == [r EXCEPT !.codes = @ \ {c}]

\* The error of the save is not looked at: the code has let its owner in.
Verify2FA(h) ==
  /\ handler[h] # None /\ handler[h].op = "verify"
  /\ LET c == handler[h].code
     IN  /\ accepted' = [accepted EXCEPT ![c] = IF @ < 2 THEN @ + 1 ELSE @]
         /\ \/ /\ row' = RemoveBackupCode(handler[h].row, c)
               /\ excused' = IF HeldElsewhere(h, c) THEN excused \union {c} ELSE excused
            \/ /\ excused' = excused \union {c}
               /\ UNCHANGED row
  /\ Returns(h)
  /\ UNCHANGED generated

\* The save of any other handler fails, and it answers so.
SaveFails(h) ==
  /\ handler[h] # None /\ handler[h].op # "verify"
  /\ Returns(h)
  /\ UNCHANGED <<row, generated, accepted, excused>>

Next ==
  \E h \in Handlers :
    \/ Read(h)
    \/ Setup2FA(h) \/ Confirm2FA(h) \/ Clear2FA(h) \/ RegenerateBackupCodes(h)
    \/ Verify2FA(h) \/ SaveFails(h)

Spec == Init /\ [][Next]_vars
-----------------------------------------------------------------------------
Row == [secret : 0..MaxGenerated, enabled : BOOLEAN, codes : SUBSET BackupCode]

TypeOK ==
  /\ row \in Row
  /\ \A h \in Handlers :
       handler[h] # None =>
         /\ handler[h].op \in Ops
         /\ handler[h].row \in Row
         /\ handler[h].code \in BackupCode \union {None}
  /\ generated \in 0..MaxGenerated
  /\ accepted \in [BackupCode -> 0..2]
  /\ excused \subseteq BackupCode

\* Whatever handlers overlap, a user who needs a second factor has one: an
\* enabled row without a secret would lock its owner out.  It is because each
\* of them writes the whole row it judged.
EnabledHasSecret == row.enabled => row.secret # 0

\* A backup code admits once, unless another handler held the row with the
\* code in it, or the row could not be saved.
CodeAdmitsOnce == \A c \in BackupCode : accepted[c] <= 1 \/ c \in excused
=============================================================================
