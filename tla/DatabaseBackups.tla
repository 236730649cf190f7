-------------------------- MODULE DatabaseBackups --------------------------
(***************************************************************************)
(* Backups of the server's own database (internal/backup/service.go,       *)
(* backup_ops.go, retention.go, cloud_storage.go).  The scheduler and      *)
(* requests make them, several at once perhaps: each writes a file named   *)
(* by the second it began in, saves a record, prunes the directory from a  *)
(* listing, and uploads the file.                                          *)
(***************************************************************************)
EXTENDS Integers, FiniteSets

CONSTANTS Backups, None,
          Kept,      \* RetentionCount
          Lifetime,  \* RetentionDays, in ticks
          Suffix,    \* of the files: ".bak" (SQLite), ".backup" (PostgreSQL), ".meta.json"
          MaxTime    \* bound on the clock

VARIABLES now,     \* the clock
          file,    \* per second: the file of that name
          cloud,   \* per second: the object of that name
          record,  \* the rows, per backup
          backup,  \* per backup: how far it has come
          stale    \* per backup: another removed or wrote a file of its listing

\* A count or a number of days of 0 or less keeps everything.
BackupAssumption == None \notin Backups /\ {Kept, Lifetime} \subseteq Int /\ MaxTime \in Nat

vars == <<now, file, cloud, record, backup, stale>>

Times == 0..MaxTime
Off == [pc |-> "off", name |-> 0, ok |-> FALSE, list |-> {}, left |-> {}, since |-> 0]

Init ==
  /\ now = 0
  /\ file = [t \in Times |-> None]
  /\ cloud = [t \in Times |-> None]
  /\ record = [b \in Backups |-> None]
  /\ backup = [b \in Backups |-> Off]
  /\ stale = [b \in Backups |-> FALSE]

Becomes(b, r) == backup' = [backup EXCEPT ![b] = r]
Goto(b, pc) == Becomes(b, [backup[b] EXCEPT !.pc = pc])

Tick == now < MaxTime /\ now' = now + 1 /\ UNCHANGED <<file, cloud, record, backup, stale>>

CreateBackup(b) ==
  /\ backup[b].pc = "off"
  /\ Becomes(b, [Off EXCEPT !.pc = "named", !.name = now])
  /\ UNCHANGED <<now, file, cloud, record, stale>>

\* The passes that have this file in their listings do not know.
Touches(b, t) == stale' = [c \in Backups |-> stale[c] \/ (c # b /\ t \in backup[c].left)]

\* VACUUM INTO refuses a file that is there; then the database file is copied
\* over it as it is.
WriteBackup(b) ==
  /\ backup[b].pc = "named"
  /\ \/ /\ file' = [file EXCEPT ![backup[b].name] =
             [by |-> b, made |-> now, raw |-> file[backup[b].name] # None]]
        /\ Becomes(b, [backup[b] EXCEPT !.pc = "written", !.ok = TRUE])
        /\ Touches(b, backup[b].name)
     \/ /\ Goto(b, "written")
        /\ UNCHANGED <<file, stale>>
  /\ UNCHANGED <<now, cloud, record>>

\* That the record cannot be saved is only logged.
saveRecord(b) ==
  /\ backup[b].pc = "written"
  /\ Goto(b, IF backup[b].ok THEN "saved" ELSE "done")
  /\ \/ record' = [record EXCEPT ![b] =
          [completed |-> backup[b].ok, name |-> backup[b].name, uploaded |-> FALSE]]
     \/ UNCHANGED record
  /\ UNCHANGED <<now, file, cloud, stale>>

Files == {t \in Times : file[t] # None}

\* The files with the suffixes retention knows.
Listed == IF Suffix \in {".bak", ".meta.json"} THEN Files ELSE {}

\* A listing has the times of its files, and the time from which their age counts.
ListBackups(b) ==
  /\ backup[b].pc = "saved"
  /\ Becomes(b, [backup[b] EXCEPT !.pc = "listed", !.left = Listed, !.since = now,
                   !.list = {[name |-> t, made |-> file[t].made] : t \in Listed}])
  /\ stale' = [stale EXCEPT ![b] = FALSE]
  /\ UNCHANGED <<now, file, cloud, record>>

\* The order of files of the same time is any.
Oldest(r) == {f \in r.list : \A g \in r.list : f.made <= g.made}

\* Mutant: one less than RetentionCount is left.
KeepsOneLess(r, f) ==
  \/ Kept > 0 /\ Cardinality(r.left) >= Kept
  \/ Lifetime > 0 /\ f.made + Lifetime < r.since

Exceeds(r, f) ==
  \/ Kept > 0 /\ Cardinality(r.left) > Kept
  \/ Lifetime > 0 /\ f.made + Lifetime < r.since

Removed(b, t) == file' = [file EXCEPT ![t] = None] /\ Touches(b, t)

\* What is gone already, or cannot be removed, still counts as left.
ApplyRetention(b) ==
  LET r == backup[b]
  IN  /\ r.pc = "listed"
      /\ \E f \in Oldest(r) :
           \/ /\ Exceeds(r, f) /\ file[f.name] # None
              /\ Removed(b, f.name)
              /\ Becomes(b, [r EXCEPT !.list = @ \ {f}, !.left = @ \ {f.name}])
           \/ /\ Becomes(b, [r EXCEPT !.list = @ \ {f}])
              /\ UNCHANGED <<file, stale>>
      /\ UNCHANGED <<now, cloud, record>>

\* A file that is gone, or an error, leaves the record as it is.
uploadToCloud(b) ==
  LET t == backup[b].name
  IN  /\ backup[b].pc = "listed" /\ backup[b].list = {}
      /\ Becomes(b, [backup[b] EXCEPT !.pc = "done", !.left = {}])
      /\ \/ /\ file[t] # None
            /\ cloud' = [cloud EXCEPT ![t] = [by |-> file[t].by, put |-> now]]
            /\ record' = [record EXCEPT ![b] = IF @ = None THEN None ELSE [@ EXCEPT !.uploaded = TRUE]]
         \/ UNCHANGED <<cloud, record>>
      /\ UNCHANGED <<now, file, stale>>

\* The file goes with the record, though a backup made in the same second
\* may have the same one.
DeleteRecord(b) ==
  /\ record[b] # None
  /\ record[b].completed
  /\ \/ Removed(None, record[b].name)
     \/ UNCHANGED <<file, stale>>
  /\ \/ record' = [record EXCEPT ![b] = None]
     \/ UNCHANGED record
  /\ UNCHANGED <<now, cloud, backup>>

DownloadFromCloud(b) ==
  /\ record[b] # None
  /\ record[b].uploaded
  /\ cloud[record[b].name] # None
  /\ file' = [file EXCEPT ![record[b].name] =
       [by |-> cloud[record[b].name].by, made |-> now, raw |-> FALSE]]
  /\ Touches(None, record[b].name)
  /\ UNCHANGED <<now, cloud, record, backup>>

\* The objects come in the order of their names; those that cannot be removed
\* still count.
ApplyCloudRetention ==
  LET objects == {t \in Times : cloud[t] # None}
  IN  /\ Cardinality(objects) > Kept
      /\ \E gone \in SUBSET objects :
           /\ gone # {}
           /\ \A t \in gone :
                \/ Kept > 0 /\ Cardinality(objects \ {u \in gone : u < t}) > Kept
                \/ Lifetime > 0 /\ cloud[t].put + Lifetime < now
           /\ cloud' = [t \in Times |-> IF t \in gone THEN None ELSE cloud[t]]
      /\ UNCHANGED <<now, file, record, backup, stale>>

Next ==
  \/ Tick \/ ApplyCloudRetention
  \/ \E b \in Backups :
       \/ CreateBackup(b) \/ WriteBackup(b) \/ saveRecord(b) \/ ListBackups(b)
       \/ ApplyRetention(b) \/ uploadToCloud(b) \/ DeleteRecord(b) \/ DownloadFromCloud(b)

Spec == Init /\ [][Next]_vars
-----------------------------------------------------------------------------
TypeOK ==
  /\ now \in Times
  /\ file \in [Times -> [by : Backups, made : Times, raw : BOOLEAN] \union {None}]
  /\ cloud \in [Times -> [by : Backups, put : Times] \union {None}]
  /\ record \in [Backups -> [completed : BOOLEAN, name : Times, uploaded : BOOLEAN] \union {None}]
  /\ backup \in [Backups ->
       [pc : {"off", "named", "written", "saved", "listed", "done"}, name : Times, ok : BOOLEAN,
        list : SUBSET [name : Times, made : Times], left : SUBSET Times, since : Times]]
  /\ stale \in [Backups -> BOOLEAN]

\* Retention removes a backup only while more than RetentionCount are left or
\* when it is over age, however backups, deletions and downloads interleave;
\* a pass whose listing has a file that another removed or wrote may take one
\* too many.
RetentionStep ==
  \A b \in Backups :
    backup[b].pc = "listed" /\ ~stale[b] =>
      \A t \in Files :
        file'[t] = None /\ backup'[b] # backup[b] =>
          \/ Kept > 0 /\ Cardinality(Files) > Kept
          \/ Lifetime > 0 /\ file[t].made + Lifetime < now

\* Every step is such a one (see RetentionStep).
RetentionKeeps == [][RetentionStep]_vars
=============================================================================
