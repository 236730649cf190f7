----------------------------- MODULE Migrations -----------------------------
(***************************************************************************)
(* The migrations of the database (internal/database/migrate.go) as the    *)
(* API server, its command line flags and the MCP server run them, on one  *)
(* SQLite database: which of two migration systems a start picks, what     *)
(* each records of its progress, and what is there when it was cut short.  *)
(*                                                                         *)
(* golang-migrate keeps one version and marks it dirty while it runs a     *)
(* file; gormigrate keeps the set of the entries it has run and records    *)
(* one after it ran.  Neither excludes another process.                    *)
(***************************************************************************)
EXTENDS Naturals, FiniteSets, SequencesExt, MigrationSteps

CONSTANTS Processes,
          Watched,   \* the tables looked at; what does not touch them is left out
          Updates    \* bound: how much an older release may have left to do

VARIABLES tables,     \* the watched tables that exist
          versioned,  \* the table schema_migrations exists
          version,    \* its row: the version and whether it is dirty
          recorded,   \* the table migrations exists
          applied,    \* its rows
          process,    \* per process
          forgotten,  \* history: dropped under a record that says they exist
          disturbed,  \* history: the processes under which a table was dropped
          mixed       \* history: a roll-back ran while another process changed the version

vars == <<tables, versioned, version, recorded, applied, process, forgotten, disturbed, mixed>>

Narrowed(step) == [creates |-> step.creates \intersect Watched, alters |-> step.alters \intersect Watched]
Touches(step) == (step.creates \union step.alters) \intersect Watched # {}

Project(steps) ==
  LET kept == SelectSeq(steps, Touches)
  IN  [i \in DOMAIN kept |-> Narrowed(kept[i])]

Sql == Project(SqlSteps)
Legacy == Project(LegacySteps)

\* SelectSeq makes sequences of steps; no two files of migrations/ create one table.
MigrationAssumption ==
  /\ {Sql, Legacy} \subseteq Seq([creates : SUBSET Watched, alters : SUBSET Watched])
  /\ \A i, j \in DOMAIN Sql : i # j => Sql[i].creates \intersect Sql[j].creates = {}
  /\ Updates \in 0..Len(Sql)

Of(steps, places) == UNION {steps[i].creates : i \in places}

Ops == {"serve", "only", "down", "status", "mcp"}

\* The API server and its flags give driver and DSN to Migrate; the MCP server does not.
HasDriver(p) == process[p].op # "mcp"

Off == [op |-> "serve", pc |-> "off", at |-> 0]

\* An empty database, or one left by an earlier release of either kind.
Init ==
  /\ \/ /\ versioned = FALSE /\ recorded = FALSE
        /\ version = [n |-> 0, dirty |-> FALSE] /\ applied = {} /\ tables = {}
     \/ \E n \in Len(Sql) - Updates .. Len(Sql) :
          /\ versioned = TRUE /\ recorded = FALSE
          /\ version = [n |-> n, dirty |-> FALSE] /\ applied = {} /\ tables = Of(Sql, 1..n)
     \/ \E n \in Len(Legacy) - Updates .. Len(Legacy) :
          /\ versioned = FALSE /\ recorded = TRUE
          /\ version = [n |-> 0, dirty |-> FALSE] /\ applied = 1..n /\ tables = Of(Legacy, 1..n)
  /\ process = [p \in Processes |-> Off]
  /\ forgotten = {}
  /\ disturbed = {}
  /\ mixed = FALSE

Goto(p, pc) ==
  process' = [process EXCEPT ![p] = CASE pc = "off" -> Off
                                    [] pc = "up"  -> [process[p] EXCEPT !.pc = pc, !.at = 0]
                                    [] OTHER      -> [process[p] EXCEPT !.pc = pc]]
GotoAt(p, pc, at) == process' = [process EXCEPT ![p] = [@ EXCEPT !.pc = pc, !.at = at]]
Database == <<tables, versioned, version, recorded, applied, forgotten>>
History == <<forgotten, disturbed, mixed>>

Launch(p) ==
  /\ process[p].pc = "off"
  /\ \E op \in Ops : process' = [process EXCEPT ![p] = [op |-> op, pc |-> "choose", at |-> 0]]
  /\ disturbed' = disturbed \ {p}
  /\ UNCHANGED <<Database, mixed>>

\* The process is killed, or a statement fails and it exits; a server is stopped.
Exit(p) ==
  /\ process[p].pc # "off"
  /\ Goto(p, "off")
  /\ UNCHANGED <<Database, disturbed, mixed>>
-----------------------------------------------------------------------------
(* Migrate *)

\* A plausible bug: a schema that is versioned already is taken to be complete.
ChooseOnce(p) == IF versioned /\ HasDriver(p) THEN "up" ELSE "fallback"

\* The table schema_migrations is asked for.
Route(p) == IF versioned /\ HasDriver(p) THEN "open" ELSE "fallback"

Migrate(p) ==
  /\ process[p].pc = "choose"
  /\ Goto(p, Route(p))
  /\ UNCHANGED <<Database, disturbed, mixed>>

\* Then the table migrations, which another process may have made meanwhile.
Fallback(p) ==
  /\ process[p].pc = "fallback"
  /\ Goto(p, IF ~recorded /\ HasDriver(p) THEN "open" ELSE "record")
  /\ UNCHANGED <<Database, disturbed, mixed>>

\* What comes after Migrate.
Migrated(p) ==
  CASE process[p].op \in {"serve", "mcp"} -> "up"
    [] process[p].op = "only"   -> "off"
    [] process[p].op = "status" -> "peek"
    [] process[p].op = "down"   -> "undo"
-----------------------------------------------------------------------------
(* RunMigrations, RunMigrationsDown, MigrationStatus *)

\* migrate.New creates the version table in all three.
Open(p) ==
  /\ process[p].pc \in {"open", "undo", "peek"}
  /\ versioned' = TRUE
  /\ Goto(p, CASE process[p].pc = "open" -> "read" [] process[p].pc = "undo" -> "reread" [] OTHER -> "off")
  /\ UNCHANGED <<tables, version, recorded, applied, History>>

\* Those that read the version and may set it: up, or down.
Undoing == {p \in Processes : process[p].pc \in {"unmark", "drop", "undropped"}}
Versioning == Undoing \union {p \in Processes : process[p].pc \in {"mark", "run", "clean"}}

\* A dirty version ends the process with an error.
ReadVersion(p) ==
  /\ process[p].pc \in {"read", "reread"}
  /\ IF version.dirty
     THEN Goto(p, "off") /\ UNCHANGED mixed
     ELSE /\ GotoAt(p, IF process[p].pc = "read" THEN "mark" ELSE "unmark", version.n)
          /\ mixed' = (mixed \/ Undoing # {} \/ (process[p].pc = "reread" /\ Versioning # {}))
  /\ UNCHANGED <<Database, disturbed>>

Mark(p) ==
  /\ process[p].pc = "mark"
  /\ IF process[p].at = Len(Sql)
     THEN Goto(p, Migrated(p)) /\ UNCHANGED version
     ELSE GotoAt(p, "run", process[p].at + 1) /\ version' = [n |-> process[p].at + 1, dirty |-> TRUE]
  /\ UNCHANGED <<tables, versioned, recorded, applied, History>>

Run(p) ==
  /\ process[p].pc = "run"
  /\ tables' = tables \union Sql[process[p].at].creates
  /\ Goto(p, "clean")
  /\ UNCHANGED <<versioned, version, recorded, applied, History>>

Unmark(p) ==
  /\ process[p].pc = "unmark"
  /\ IF process[p].at = 0
     THEN Goto(p, "off") /\ UNCHANGED version
     ELSE Goto(p, "drop") /\ version' = [n |-> process[p].at - 1, dirty |-> TRUE]
  /\ UNCHANGED <<tables, versioned, recorded, applied, History>>

\* The tables of the entries that gormigrate has recorded or is about to.
CountedOn ==
  Of(Legacy, applied \union {process[q].at : q \in {q \in Processes : process[q].pc = "insert"}})

\* Tables that a foreign key does not hold are dropped in any case.
Drop(p) ==
  LET dropped == Sql[process[p].at].creates
  IN  /\ process[p].pc = "drop"
      /\ tables' = tables \ dropped
      /\ forgotten' = forgotten \union (dropped \intersect CountedOn)
      /\ disturbed' = disturbed \union {q \in Processes \ {p} : process[q].pc # "off"}
      /\ GotoAt(p, "undropped", process[p].at - 1)
      /\ UNCHANGED <<versioned, version, recorded, applied, mixed>>

Clean(p) ==
  /\ process[p].pc \in {"clean", "undropped"}
  /\ version' = [n |-> process[p].at, dirty |-> FALSE]
  /\ Goto(p, IF process[p].pc = "clean" THEN "mark" ELSE "unmark")
  /\ UNCHANGED <<tables, versioned, recorded, applied, History>>
-----------------------------------------------------------------------------
(* MigrateLegacy *)

CreateRecord(p) ==
  /\ process[p].pc = "record"
  /\ recorded' = TRUE
  /\ GotoAt(p, "entry", 1)
  /\ UNCHANGED <<tables, versioned, version, applied, History>>

\* An entry whose ID is recorded is skipped; one that alters a table it does
\* not find fails.
Entry(p) ==
  LET i == process[p].at
  IN  /\ process[p].pc = "entry"
      /\ \/ /\ i > Len(Legacy)
            /\ Goto(p, Migrated(p))
            /\ UNCHANGED tables
         \/ /\ i \in applied
            /\ GotoAt(p, "entry", i + 1)
            /\ UNCHANGED tables
         \/ /\ i \in DOMAIN Legacy \ applied
            /\ Legacy[i].alters \subseteq tables
            /\ tables' = tables \union Legacy[i].creates
            /\ Goto(p, "insert")
      /\ UNCHANGED <<versioned, version, recorded, applied, History>>

\* The ID is the primary key: what another process has recorded ends this one.
Insert(p) ==
  /\ process[p].pc = "insert"
  /\ process[p].at \notin applied
  /\ applied' = applied \union {process[p].at}
  /\ GotoAt(p, "entry", process[p].at + 1)
  /\ UNCHANGED <<tables, versioned, version, recorded, History>>
-----------------------------------------------------------------------------
\* Of a database on which versions were mixed nothing is claimed.
Next ==
  \E p \in Processes :
    /\ ~mixed
    /\ \/ Launch(p) \/ Exit(p) \/ Migrate(p) \/ Fallback(p)
       \/ Open(p) \/ ReadVersion(p) \/ Mark(p) \/ Run(p) \/ Unmark(p) \/ Drop(p) \/ Clean(p)
       \/ CreateRecord(p) \/ Entry(p) \/ Insert(p)

Spec == Init /\ [][Next]_vars
-----------------------------------------------------------------------------
TypeOK ==
  /\ tables \subseteq Watched /\ forgotten \subseteq Watched
  /\ versioned \in BOOLEAN /\ recorded \in BOOLEAN
  /\ version \in [n : 0..Len(Sql), dirty : BOOLEAN]
  /\ applied \subseteq DOMAIN Legacy
  /\ process \in [Processes -> [op : Ops, pc : {"off", "choose", "fallback", "open", "undo", "peek", "read",
                                               "reread", "mark", "run", "clean", "unmark", "drop", "undropped",
                                               "record", "entry", "insert", "up"},
                               at : 0 .. Len(Legacy) + 1]]
  /\ disturbed \subseteq Processes /\ mixed \in BOOLEAN

\* A server that has come up finds every table that both systems create,
\* whichever of them made the database, whatever was killed on the way, and
\* however the systems and the flags were used before - unless a --migrate-down
\* dropped a table under it or under a record that still says it is there, or
\* ran while another process changed the version.
StartedHasTables ==
  \A p \in Processes \ disturbed :
    process[p].pc = "up" =>
      Of(Sql, DOMAIN Sql) \intersect Of(Legacy, DOMAIN Legacy) \subseteq tables \union forgotten \/ mixed
=============================================================================
