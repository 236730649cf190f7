------------------------------ MODULE AuditLog ------------------------------
(***************************************************************************)
(* The audit log (internal/service/audit.go, audit_writer.go) and what the *)
(* administrators do with it (internal/api/audit_enhanced.go, audit_api.go,*)
(* internal/audit/compliance.go).  A row carries an HMAC of its fields     *)
(* under a key that is made anew at every start: nothing calls SetHMACKey. *)
(* Anonymising a user rewrites fields that the hash covers.  List returns  *)
(* at most a page of rows whatever page size its callers ask for, so the   *)
(* verification and the export see the newest page.                        *)
(***************************************************************************)
EXTENDS Integers, Sequences, SequencesExt, FiniteSets

CONSTANTS Users,
          PageLimit,   \* the greatest page size of List
          MaxRows, MaxKeys   \* bounds on the rows and on the starts

VARIABLES rows,     \* audit_logs, oldest first
          key,      \* hmacKey of this process
          writers,  \* rows whose goroutine has not written them yet
          lines     \* the external file: numbers of rows, in its order

vars == <<rows, key, writers, lines>>

Nobody == "[GDPR-DELETED]"

Init == rows = <<>> /\ key = 1 /\ writers = {} /\ lines = <<>>

computeRecordHash(user) == [user |-> user, key |-> key]

Created(user) == Append(rows, [user |-> user, hash |-> computeRecordHash(user), archived |-> FALSE])

\* Record: when the row cannot be created nothing else happens.
Record(user) ==
  /\ Len(rows) < MaxRows
  /\ rows' = Created(user)
  /\ writers' = writers \union {Len(rows) + 1}
  /\ UNCHANGED <<key, lines>>

\* A plausible bug: a writer that does not end tries again after it has written.
WriteAgain ==
  \E n \in writers :
    /\ lines' = Append(lines, n) /\ Len(lines) < MaxRows
    /\ UNCHANGED <<rows, key, writers>>

\* A goroutine for each record; an error is logged.
Write ==
  \E n \in writers :
    /\ writers' = writers \ {n}
    /\ lines' \in {lines, Append(lines, n)}
    /\ UNCHANGED <<rows, key>>

\* Archive: the rows before some time.
Archive ==
  \E n \in 1..Len(rows) :
    /\ rows' = [i \in DOMAIN rows |-> IF i <= n THEN [rows[i] EXCEPT !.archived = TRUE] ELSE rows[i]]
    /\ UNCHANGED <<key, writers, lines>>

\* GDPRDeleteUserData, of one user.
DeleteUserData(user) ==
  /\ rows' = [i \in DOMAIN rows |-> IF rows[i].user = user THEN [rows[i] EXCEPT !.user = Nobody] ELSE rows[i]]
  /\ UNCHANGED <<key, writers, lines>>

\* A stop and a start.  Nothing waits for the writers.
Restart ==
  /\ key < MaxKeys /\ key' = key + 1
  /\ writers' = {}
  /\ UNCHANGED <<rows, lines>>

Next ==
  \/ \E u \in Users : Record(u) \/ DeleteUserData(u)
  \/ Write \/ Archive \/ Restart

Spec == Init /\ [][Next]_vars
-----------------------------------------------------------------------------
(* Questions *)

\* The numbers of the newest rows of those in which, at most a page.
List(which) == {i \in which : Cardinality({j \in which : j > i}) < PageLimit}

ActiveRows == {i \in DOMAIN rows : ~rows[i].archived}

\* A plausible bug: the key is not in the hash that is expected.
VerifyFields(row) == row.hash.user = row.user

VerifyRecord(row) == row.hash = computeRecordHash(row.user)

\* VerifyAuditLogs, which asks for a page of 1000.
failed_ids == {i \in List(ActiveRows) : ~VerifyRecord(rows[i])}

\* Export, which asks for a page of 10000.
Exported == List(DOMAIN rows)
-----------------------------------------------------------------------------
TypeOK ==
  /\ Len(rows) <= MaxRows
  /\ \A i \in DOMAIN rows : rows[i] \in
       [user : Users \union {Nobody}, hash : [user : Users, key : 1..MaxKeys], archived : BOOLEAN]
  /\ key \in 1..MaxKeys /\ writers \subseteq DOMAIN rows
  /\ \A n \in Range(lines) : n \in DOMAIN rows

\* Every row in which a field was changed after it was recorded, and every row of
\* an earlier run, is reported, if it is one of the newest page; no other is.
VerificationIsTrue ==
  failed_ids = {i \in List(ActiveRows) : rows[i].user # rows[i].hash.user \/ rows[i].hash.key < key}

\* A line of the file is that of a row, and there is one for a row at most: what
\* the file lacks is not yet written, was lost at a stop or could not be written.
FileFollowsTable ==
  /\ IsInjective(lines)
  /\ Range(lines) \subseteq DOMAIN rows /\ Range(lines) \intersect writers = {}

\* "Override pagination to get all results for export" (audit.go).  Not so: more
\* than a page of rows is cut off.
ExportIsComplete == Exported = DOMAIN rows
=============================================================================
