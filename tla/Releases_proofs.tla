-------------------------- MODULE Releases_proofs ---------------------------
(***************************************************************************)
(* Proofs about what a server goes through from one run to the next:       *)
(* Upgrade, Migrations and Licensing.  Each has an inductive invariant,    *)
(* named for it.                                                           *)
(***************************************************************************)
EXTENDS Platform, Integers, Sequences, FiniteSets, FiniteSetTheorems, SequenceTheorems,
        WellFoundedInduction, TLAPS
-----------------------------------------------------------------------------
(***************************************************************************)
(* Upgrades.                                                               *)
(***************************************************************************)
Place(i) == Updater!binaries[i]

UpgradeTypes ==
  /\ bin \in [Updater!Binaries -> Updater!File] /\ copies \in [Updater!Binaries -> Updater!File]
  /\ before \in [Updater!Binaries -> Updater!File] /\ at \in 1..3 /\ rolling \in BOOLEAN
  /\ pc \in {"idle", "backup", "download", "move", "verify", "mcp", "api", "restore", "end"}

Replaced(b) == bin[b] = "new"
Restored(b) == before[b] # "absent" => bin[b] = before[b]

\* A backup goes ahead of everything that changes a file, and copies what is there.
CopiesAreOld ==
  /\ pc = "backup" => bin = before /\ \A i \in 1..3 : i < at => copies[Place(i)] = before[Place(i)]
  /\ pc \notin {"idle", "backup"} => \A b \in Updater!Binaries : copies[b] = before[b]

\* How far the renames and the copies back have come.
Progress ==
  /\ pc \in {"backup", "download", "move", "verify"} => ~rolling
  /\ pc = "restore" => rolling
  /\ pc = "move" => \A i \in 1..3 : i < at => Replaced(Place(i))
  /\ pc \in {"verify", "mcp", "api", "end"} /\ ~rolling => \A b \in Updater!Binaries : Replaced(b)
  /\ pc = "restore" /\ ~damaged => \A i \in 1..3 : i < at => Restored(Place(i))
  /\ pc \in {"mcp", "api", "end"} /\ rolling /\ ~damaged => \A b \in Updater!Binaries : Restored(b)

UpgradeInv == UpgradeTypes /\ CopiesAreOld /\ Progress /\ Updater!AllOrNothing

LEMMA ThreePlaces ==
  /\ Len(Updater!binaries) = 3
  /\ \A i \in 1..3 : Place(i) \in Updater!Binaries
  /\ \A b \in Updater!Binaries : \E i \in 1..3 : b = Place(i)
  /\ \A i, j \in 1..3 : Place(i) = Place(j) => i = j
  <1>1. Len(Updater!binaries) = 3
    BY DEF Updater!binaries
  <1>2. Updater!Binaries = {"api-server", "mcp-server", "deploypilot"}
    BY <1>1 DEF Updater!Binaries, Updater!binaries
  <1>3. Place(1) = "api-server" /\ Place(2) = "mcp-server" /\ Place(3) = "deploypilot"
    BY DEF Place, Updater!binaries
  <1> QED
    BY <1>1, <1>2, <1>3

LEMMA NextPlace ==
  ASSUME NEW step, at \in 1..3, Updater!Advance(step)
  PROVE  /\ at' \in 1..3
         /\ \/ at' = at + 1 /\ at + 1 \in 2..3 /\ pc' = pc
            \/ at = 3 /\ at' = 1 /\ pc' = step
  BY ThreePlaces DEF Updater!Advance

LEMMA UpgradeInitInv ==
  ASSUME Updater!Init
  PROVE  UpgradeInv
  <1>1. /\ bin \in [Updater!Binaries -> Updater!File] /\ before = bin
        /\ pc = "idle" /\ at = 1
    BY DEF Updater!Init, Updater!File
  <1>2. copies \in [Updater!Binaries -> Updater!File]
    BY DEF Updater!Init, Updater!Nowhere, Updater!File
  <1>3. rolling \in BOOLEAN /\ outcome = "none"
    BY DEF Updater!Init
  <1> QED
    BY <1>1, <1>2, <1>3 DEF UpgradeInv, UpgradeTypes, CopiesAreOld, Progress, Updater!AllOrNothing

LEMMA PerformUpgradeKeeps ==
  ASSUME UpgradeInv, Updater!PerformUpgrade
  PROVE  UpgradeInv'
  <1>1. /\ pc' = "backup" /\ at' = 1 /\ before' = bin /\ bin' = bin /\ copies' = Updater!Nowhere
    BY DEF Updater!PerformUpgrade
  <1>2. rolling' \in BOOLEAN /\ ~rolling'
    BY DEF Updater!PerformUpgrade
  <1>3. Updater!Nowhere \in [Updater!Binaries -> Updater!File]
    BY DEF Updater!Nowhere, Updater!File
  <1>4. UpgradeTypes'
    BY <1>1, <1>2, <1>3 DEF UpgradeInv, UpgradeTypes
  <1>5. CopiesAreOld'
    BY <1>1 DEF CopiesAreOld
  <1> QED
    BY <1>1, <1>2, <1>4, <1>5 DEF UpgradeInv, Progress, Updater!AllOrNothing

LEMMA BackupBinariesKeeps ==
  ASSUME UpgradeInv, Updater!backupBinaries
  PROVE  UpgradeInv'
  <1> DEFINE b == Place(at)
  <1>1. /\ pc = "backup" /\ bin' = bin /\ rolling' = rolling /\ before' = before
        /\ \/ copies' = [copies EXCEPT ![b] = bin[b]] /\ Updater!Advance("download")
           \/ Updater!End("rolledback") /\ copies' = copies
    BY DEF Updater!backupBinaries, Place
  <1>2. at \in 1..3 /\ b \in Updater!Binaries /\ bin = before
    BY <1>1, ThreePlaces DEF UpgradeInv, UpgradeTypes, CopiesAreOld
  <1>3. CASE copies' = [copies EXCEPT ![b] = bin[b]] /\ Updater!Advance("download")
    <2>1. /\ at' \in 1..3
          /\ \/ at' = at + 1 /\ at + 1 \in 2..3 /\ pc' = "backup"
             \/ at = 3 /\ at' = 1 /\ pc' = "download"
      BY <1>1, <1>2, <1>3, NextPlace
    <2>2. UpgradeTypes'
      BY <1>1, <1>2, <1>3, <2>1 DEF UpgradeInv, UpgradeTypes
    <2>3. \A i \in 1..3 : i <= at => copies'[Place(i)] = before[Place(i)]
      BY <1>1, <1>2, <1>3, ThreePlaces DEF UpgradeInv, UpgradeTypes, CopiesAreOld
    <2>4. pc' = "backup" => \A i \in 1..3 : i < at' => i <= at
      BY <1>2, <2>1
    <2>5. pc' = "download" => \A c \in Updater!Binaries : copies'[c] = before[c]
      BY <2>1, <2>3, ThreePlaces
    <2>6. CopiesAreOld'
      BY <1>1, <1>2, <2>1, <2>3, <2>4, <2>5 DEF CopiesAreOld, Place
    <2>7. Progress'
      BY <1>1, <2>1 DEF UpgradeInv, Progress
    <2> QED
      BY <2>1, <2>2, <2>6, <2>7 DEF UpgradeInv, Updater!AllOrNothing
  <1>4. CASE Updater!End("rolledback") /\ copies' = copies
    <2>1. pc' = "idle" /\ at' = 1 /\ outcome' = "rolledback"
      BY <1>4 DEF Updater!End
    <2>2. UpgradeTypes'
      BY <1>1, <1>4, <2>1 DEF UpgradeInv, UpgradeTypes
    <2> QED
      BY <1>1, <1>2, <2>1, <2>2 DEF UpgradeInv, CopiesAreOld, Progress, Updater!AllOrNothing
  <1> QED
    BY <1>1, <1>3, <1>4

\* A step that fails before the rollback began.
LEMMA RollbackKeeps ==
  ASSUME UpgradeInv, pc \in {"download", "move", "verify", "mcp", "api"}, Updater!Rollback,
         bin' = bin, copies' = copies, before' = before
  PROVE  UpgradeInv'
  <1>1. pc' = "restore" /\ at' = 1 /\ rolling'
    BY DEF Updater!Rollback
  <1>2. rolling' \in BOOLEAN
    BY DEF Updater!Rollback
  <1>3. UpgradeTypes'
    BY <1>1, <1>2 DEF UpgradeInv, UpgradeTypes
  <1>4. CopiesAreOld' /\ Progress'
    BY <1>1 DEF UpgradeInv, CopiesAreOld, Progress
  <1> QED
    BY <1>1, <1>3, <1>4 DEF UpgradeInv, Updater!AllOrNothing

LEMMA DownloadBinariesKeeps ==
  ASSUME UpgradeInv, Updater!downloadBinaries
  PROVE  UpgradeInv'
  <1>1. /\ copies' = copies /\ before' = before /\ damaged' = damaged
        /\ \/ pc = "download" /\ Updater!Advance("move") /\ bin' = bin /\ rolling' = rolling
           \/ /\ pc = "move" /\ bin' = [bin EXCEPT ![Place(at)] = "new"] /\ rolling' = rolling
              /\ Updater!Advance("verify")
           \/ pc \in {"download", "move"} /\ Updater!Rollback /\ bin' = bin
    BY DEF Updater!downloadBinaries, Place
  <1>2. at \in 1..3 /\ Place(at) \in Updater!Binaries
    BY ThreePlaces DEF UpgradeInv, UpgradeTypes
  <1>3. CASE pc = "download" /\ Updater!Advance("move") /\ bin' = bin /\ rolling' = rolling
    <2>1. at' \in 1..3 /\ (pc' = "download" \/ (pc' = "move" /\ at' = 1))
      BY <1>2, <1>3, NextPlace
    <2>2. UpgradeTypes'
      BY <1>1, <1>3, <2>1 DEF UpgradeInv, UpgradeTypes
    <2> QED
      BY <1>1, <1>3, <2>1, <2>2 DEF UpgradeInv, CopiesAreOld, Progress, Updater!AllOrNothing
  <1>4. CASE /\ pc = "move" /\ bin' = [bin EXCEPT ![Place(at)] = "new"] /\ rolling' = rolling
             /\ Updater!Advance("verify")
    <2>1. /\ at' \in 1..3
          /\ \/ at' = at + 1 /\ at + 1 \in 2..3 /\ pc' = "move"
             \/ at = 3 /\ at' = 1 /\ pc' = "verify"
      BY <1>2, <1>4, NextPlace
    <2>2. "new" \in Updater!File
      BY DEF Updater!File
    <2>3. UpgradeTypes'
      BY <1>1, <1>2, <1>4, <2>1, <2>2 DEF UpgradeInv, UpgradeTypes
    <2>4. \A i \in 1..3 : i <= at => Replaced(Place(i))'
      BY <1>2, <1>4, ThreePlaces DEF UpgradeInv, UpgradeTypes, Progress, Replaced, Place
    <2>5. pc' = "move" => \A i \in 1..3 : i < at' => i <= at
      BY <1>2, <2>1
    <2>6. pc' = "verify" => \A c \in Updater!Binaries : Replaced(c)'
      BY <2>1, <2>4, ThreePlaces DEF Place
    <2>7. Progress'
      BY <1>4, <2>1, <2>4, <2>5, <2>6 DEF UpgradeInv, Progress
    <2> QED
      BY <1>1, <1>4, <2>1, <2>3, <2>7 DEF UpgradeInv, CopiesAreOld, Updater!AllOrNothing
  <1>5. CASE pc \in {"download", "move"} /\ Updater!Rollback /\ bin' = bin
    BY <1>1, <1>5, RollbackKeeps
  <1> QED
    BY <1>1, <1>3, <1>4, <1>5

\* What only goes on, leaves the files alone and does not end the upgrade.
LEMMA GoesOnKeeps ==
  ASSUME UpgradeInv, bin' = bin, copies' = copies, before' = before, rolling' = rolling,
         damaged' = damaged, at' = at,
         \/ pc = "verify" /\ pc' = "mcp"
         \/ pc \in {"mcp", "api"} /\ pc' \in {"api", "end"}
         \/ pc' = pc /\ outcome' = outcome
  PROVE  UpgradeInv'
  <1>1. UpgradeTypes'
    BY DEF UpgradeInv, UpgradeTypes
  <1>2. CopiesAreOld' /\ Progress'
    BY DEF UpgradeInv, CopiesAreOld, Progress, Replaced, Restored
  <1> QED
    BY <1>1, <1>2 DEF UpgradeInv, Updater!AllOrNothing

LEMMA RestartsKeep ==
  ASSUME UpgradeInv,
         Updater!verifyBinaries \/ Updater!RestartFails \/ Updater!SkipRestart \/ Updater!restartMcp
  PROVE  UpgradeInv'
  <1>1. bin' = bin /\ copies' = copies /\ before' = before /\ damaged' = damaged
    BY DEF Updater!verifyBinaries, Updater!RestartFails, Updater!SkipRestart, Updater!restartMcp,
           Updater!Files
  <1>2. \/ pc \in {"verify", "mcp", "api"} /\ Updater!Rollback
        \/ /\ rolling' = rolling /\ at' = at
           /\ \/ pc = "verify" /\ pc' = "mcp"
              \/ pc \in {"mcp", "api"} /\ pc' \in {"api", "end"}
    BY DEF Updater!verifyBinaries, Updater!RestartFails, Updater!SkipRestart, Updater!restartMcp
  <1> QED
    BY <1>1, <1>2, RollbackKeeps, GoesOnKeeps

LEMMA EndKeeps ==
  ASSUME UpgradeInv, Updater!restartApi \/ Updater!Answer
  PROVE  UpgradeInv'
  <1>1. /\ bin' = bin /\ copies' = copies /\ before' = before /\ damaged' = damaged /\ rolling' = rolling
        /\ pc \in {"api", "end"} /\ Updater!End(Updater!Verdict)
    BY DEF Updater!restartApi, Updater!Answer, Updater!Files
  <1>2. pc' = "idle" /\ at' = 1 /\ outcome' = IF rolling THEN "rolledback" ELSE "upgraded"
    BY <1>1 DEF Updater!End, Updater!Verdict
  <1>3. UpgradeTypes'
    BY <1>1, <1>2 DEF UpgradeInv, UpgradeTypes
  <1>4. CopiesAreOld' /\ Progress'
    BY <1>2 DEF CopiesAreOld, Progress
  <1>5. CASE rolling
    BY <1>1, <1>2, <1>3, <1>4, <1>5 DEF UpgradeInv, Progress, Restored, Updater!AllOrNothing
  <1>6. CASE ~rolling
    BY <1>1, <1>2, <1>3, <1>4, <1>6 DEF UpgradeInv, Progress, Replaced, Updater!AllOrNothing
  <1> QED
    BY <1>5, <1>6

LEMMA RestoreBinariesKeeps ==
  ASSUME UpgradeInv, Updater!restoreBinaries
  PROVE  UpgradeInv'
  <1>0. PICK k \in 1..3 : k = at
    BY DEF UpgradeInv, UpgradeTypes
  <1> DEFINE b == Place(k)
  <1>1. /\ pc = "restore" /\ Updater!Advance("mcp") /\ copies' = copies /\ before' = before
        /\ rolling' = rolling
        /\ \/ copies[b] = "absent" /\ bin' = bin /\ damaged' = damaged
           \/ copies[b] # "absent" /\ bin' = [bin EXCEPT ![b] = copies[b]] /\ damaged' = damaged
           \/ copies[b] # "absent" /\ bin' = bin /\ damaged' = (damaged \/ bin[b] # copies[b])
           \/ bin' = [bin EXCEPT ![b] = "broken"] /\ damaged' = TRUE
    BY <1>0 DEF Updater!restoreBinaries, Place
  <1>2. /\ at \in 1..3 /\ b \in Updater!Binaries /\ copies[b] = before[b] /\ copies[b] \in Updater!File
        /\ \A c \in Updater!Binaries : copies[c] = before[c]
    BY <1>0, <1>1, ThreePlaces DEF UpgradeInv, UpgradeTypes, CopiesAreOld
  <1>3. /\ at' \in 1..3
        /\ \/ at' = at + 1 /\ at + 1 \in 2..3 /\ pc' = "restore"
           \/ at = 3 /\ at' = 1 /\ pc' = "mcp"
    BY <1>1, <1>2, NextPlace
  <1>4. /\ bin' \in [Updater!Binaries -> Updater!File]
        /\ \A c \in Updater!Binaries : c # b => bin'[c] = bin[c]
    <2>1. bin \in [Updater!Binaries -> Updater!File] /\ "broken" \in Updater!File
      BY DEF UpgradeInv, UpgradeTypes, Updater!File
    <2> QED
      BY <1>1, <1>2, <2>1
  <1>5. ~damaged' => ~damaged /\ Restored(b)'
    <2>1. bin[b] = copies[b] => Restored(b)
      BY <1>2 DEF Restored
    <2>2. CASE bin' = [bin EXCEPT ![b] = copies[b]] /\ damaged' = damaged
      BY <1>1, <1>2, <2>2 DEF UpgradeInv, UpgradeTypes, Restored
    <2>3. CASE copies[b] = "absent" /\ bin' = bin /\ damaged' = damaged
      BY <1>1, <1>2, <2>3 DEF Restored
    <2>4. CASE bin' = bin /\ damaged' = (damaged \/ bin[b] # copies[b])
      <3>1. before' = before /\ (damaged' <=> damaged \/ bin[b] # copies[b])
        BY <1>1, <2>4
      <3> QED
        BY <2>1, <2>4, <3>1 DEF Restored
    <2> QED
      BY <1>1, <2>2, <2>3, <2>4
  <1>6. UpgradeTypes'
    BY <1>1, <1>3, <1>4 DEF UpgradeInv, UpgradeTypes
  <1>7. CopiesAreOld'
    BY <1>1, <1>2, <1>3 DEF CopiesAreOld
  <1>8. ~damaged' => \A i \in 1..3 : i <= at => Restored(Place(i))'
    <2>1. SUFFICES ASSUME ~damaged', NEW i \in 1..3, i <= at PROVE Restored(Place(i))'
      OBVIOUS
    <2>2. CASE i = at
      BY <1>0, <1>5, <2>1, <2>2
    <2>3. CASE i < at
      <3>1. Place(i) # b /\ Place(i) \in Updater!Binaries
        BY <1>0, <1>2, <2>3, ThreePlaces
      <3>2. Restored(Place(i))
        BY <1>1, <1>5, <2>1, <2>3 DEF UpgradeInv, Progress
      <3> QED
        BY <1>1, <1>4, <3>1, <3>2 DEF Restored, Place
    <2> QED
      BY <1>2, <2>1, <2>2, <2>3
  <1>9. ~damaged' /\ pc' = "mcp" => \A c \in Updater!Binaries : Restored(c)'
    BY <1>3, <1>8, ThreePlaces DEF Place
  <1>10. pc' = "restore" => \A i \in 1..3 : i < at' => i <= at
    BY <1>2, <1>3
  <1>11. rolling /\ rolling'
    BY <1>1 DEF UpgradeInv, Progress
  <1>12. Progress'
    BY <1>3, <1>8, <1>9, <1>10, <1>11 DEF Progress
  <1> QED
    BY <1>3, <1>6, <1>7, <1>12 DEF UpgradeInv, Updater!AllOrNothing

LEMMA CrashKeeps ==
  ASSUME UpgradeInv, Updater!Crash
  PROVE  UpgradeInv'
  <1>1. /\ pc' = "idle" /\ at' = 1 /\ outcome' = "cut" /\ copies' = copies /\ before' = before
        /\ rolling' = rolling
        /\ bin' = bin \/ bin' = [bin EXCEPT ![Place(at)] = "broken"]
    BY DEF Updater!Crash, Updater!End, Place
  <1>2. "broken" \in Updater!File
    BY DEF Updater!File
  <1>3. UpgradeTypes'
    BY <1>1, <1>2 DEF UpgradeInv, UpgradeTypes
  <1> QED
    BY <1>1, <1>3 DEF UpgradeInv, CopiesAreOld, Progress, Updater!AllOrNothing

LEMMA UpgradeStepKeeps ==
  ASSUME UpgradeInv, [Updater!Next]_(Updater!vars)
  PROVE  UpgradeInv'
  <1>1. ASSUME NEW b \in Updater!Binaries, Updater!Use(b) PROVE UpgradeInv'
    <2>1. /\ bin' = bin /\ copies' = copies /\ before' = before /\ rolling' = rolling
          /\ damaged' = damaged /\ at' = at /\ pc' = pc /\ outcome' = outcome
      BY <1>1 DEF Updater!Use
    <2> QED
      BY <2>1, GoesOnKeeps
  <1>2. CASE UNCHANGED Updater!vars
    <2>1. /\ bin' = bin /\ copies' = copies /\ before' = before /\ rolling' = rolling
          /\ damaged' = damaged /\ at' = at /\ pc' = pc /\ outcome' = outcome
      BY <1>2 DEF Updater!vars
    <2> QED
      BY <2>1, GoesOnKeeps
  <1> QED
    BY <1>1, <1>2, PerformUpgradeKeeps, BackupBinariesKeeps, DownloadBinariesKeeps, RestartsKeep,
       EndKeeps, RestoreBinariesKeeps, CrashKeeps DEF Updater!Next

\* The inductive invariant of the upgrade: from the first rename on the copies are the
\* files as the upgrade found them, and each loop has done its work as far as it has come.
THEOREM UpgradeInvariance == Updater!Spec => []UpgradeInv
  <1>1. Updater!Init => UpgradeInv
    BY UpgradeInitInv
  <1>2. UpgradeInv /\ [Updater!Next]_(Updater!vars) => UpgradeInv'
    BY UpgradeStepKeeps
  <1> QED
    BY <1>1, <1>2, PTL DEF Updater!Spec

\* Whatever answers --version in a release: an upgrade that ends has replaced every
\* binary or none of those that were there.
THEOREM AllOrNothingCorrect == Updater!Spec => []Updater!AllOrNothing
  BY UpgradeInvariance, PTL DEF UpgradeInv
-----------------------------------------------------------------------------
(***************************************************************************)
(* Migrations.                                                             *)
(***************************************************************************)
Files == Len(Migration!Sql)

ProcessPlaces ==
  {"off", "choose", "fallback", "open", "undo", "peek", "read", "reread", "mark", "run", "clean",
   "unmark", "drop", "undropped", "record", "entry", "insert", "up"}

Process == [op : Migration!Ops, pc : ProcessPlaces, at : Int]

MigrationTypes ==
  /\ process \in [Actors -> Process]
  /\ version \in [n : Int, dirty : BOOLEAN] /\ version.n \in 0..Files

\* A table that is there, or was dropped under a record that says that it is.
There == tables \union forgotten

Made(n) == Migration!Of(Migration!Sql, 1..n) \subseteq There

Needed ==
  Migration!Of(Migration!Sql, DOMAIN Migration!Sql) \intersect
    Migration!Of(Migration!Legacy, DOMAIN Migration!Legacy)

\* What is known of a process at each of its steps.
Knows(p) ==
  LET c == process[p]
  IN  /\ c.pc \in {"mark", "clean", "unmark", "drop", "undropped"} => c.at \in 0..Files /\ Made(c.at)
      /\ c.pc = "run" => c.at \in 1..Files /\ Made(c.at - 1)
      /\ c.pc = "drop" => c.at \in 1..Files
      /\ c.pc \in {"drop", "undropped"} => version.dirty
      /\ c.pc \in {"entry", "insert"} => 1..c.at - 1 \subseteq applied
      /\ c.pc = "insert" => Migration!Legacy[c.at].creates \subseteq There
      /\ c.pc = "up" /\ p \notin dropped => Needed \subseteq There

\* A process that rolls back is the only one that changes the version.
UndoesAlone == \A p \in Migration!Undoing : \A q \in Migration!Versioning : p = q

MigrationInv ==
  /\ MigrationTypes
  /\ \/ mixed
     \/ /\ ~version.dirty => Made(version.n)
        /\ Migration!Of(Migration!Legacy, applied) \subseteq There
        /\ UndoesAlone
        /\ \A p \in Actors : Knows(p)

LEMMA OfIs ==
  /\ \A s, places, x : x \in Migration!Of(s, places) <=> \E i \in places : x \in s[i].creates
  BY DEF Migration!Of

LEMMA FilesAre ==
  ASSUME Migration!MigrationAssumption
  PROVE  /\ Files \in Nat /\ DOMAIN Migration!Sql = 1..Files
         /\ Len(Migration!Legacy) \in Nat /\ DOMAIN Migration!Legacy = 1..Len(Migration!Legacy)
         /\ \A i, j \in 1..Files : i # j => Migration!Sql[i].creates \intersect Migration!Sql[j].creates = {}
         /\ MaxUpdates \in 0..Files
  <1> DEFINE S == [creates : SUBSET Watched, alters : SUBSET Watched]
  <1>1. Migration!Sql \in Seq(S) /\ Migration!Legacy \in Seq(S)
    BY DEF Migration!MigrationAssumption
  <1> HIDE DEF S
  <1>2. Files \in Nat /\ DOMAIN Migration!Sql = 1..Files
    BY <1>1 DEF Files
  <1>3. Len(Migration!Legacy) \in Nat /\ DOMAIN Migration!Legacy = 1..Len(Migration!Legacy)
    BY <1>1
  <1> QED
    BY <1>2, <1>3 DEF Migration!MigrationAssumption, Files

\* What Goto makes of the process.
LEMMA GotoIs ==
  ASSUME NEW p \in Actors, process \in [Actors -> Process], NEW x \in ProcessPlaces, Migration!Goto(p, x)
  PROVE  /\ process' \in [Actors -> Process]
         /\ \A q \in Actors : q # p => process'[q] = process[q]
         /\ process'[p].pc = x
         /\ x \notin {"off", "up"} => process'[p].at = process[p].at
  <1> DEFINE d == CASE x = "off" -> Migration!Off
                  [] x = "up"  -> [process[p] EXCEPT !.pc = x, !.at = 0]
                  [] OTHER     -> [process[p] EXCEPT !.pc = x]
  <1>1. process' = [process EXCEPT ![p] = d]
    BY DEF Migration!Goto
  <1>2. d \in Process /\ d.pc = x /\ (x \notin {"off", "up"} => d.at = process[p].at)
    <2>1. CASE x = "off"
      <3>1. Migration!Off \in Process /\ Migration!Off.pc = "off"
        BY DEF Migration!Off, Process, Migration!Ops, ProcessPlaces
      <3> QED
        BY <2>1, <3>1
    <2>2. CASE x = "up"
      <3>1. d = [process[p] EXCEPT !.pc = x, !.at = 0]
        BY <2>2
      <3> HIDE DEF d
      <3>2. process[p] \in Process /\ 0 \in Int
        OBVIOUS
      <3> QED
        BY <2>2, <3>1, <3>2 DEF Process
    <2>3. CASE x \notin {"off", "up"}
      BY <2>3 DEF Process
    <2> QED
      BY <2>1, <2>2, <2>3
  <1> HIDE DEF d
  <1> QED
    BY <1>1, <1>2

LEMMA GotoAtIs ==
  ASSUME NEW p \in Actors, process \in [Actors -> Process], NEW x \in ProcessPlaces, NEW n \in Int,
         Migration!GotoAt(p, x, n)
  PROVE  /\ process' \in [Actors -> Process]
         /\ \A q \in Actors : q # p => process'[q] = process[q]
         /\ process'[p].pc = x /\ process'[p].at = n
  <1> DEFINE d == [process[p] EXCEPT !.pc = x, !.at = n]
  <1>1. d \in Process /\ d.pc = x /\ d.at = n
    BY DEF Process
  <1>2. process' = [process EXCEPT ![p] = d]
    BY DEF Migration!GotoAt
  <1> HIDE DEF d
  <1> QED
    BY <1>1, <1>2

LEMMA MigratedIs ==
  ASSUME NEW p \in Actors, process \in [Actors -> Process]
  PROVE  Migration!Migrated(p) \in {"up", "off", "peek", "undo"}
  <1>1. process[p].op \in {"serve", "only", "down", "status", "mcp"}
    BY DEF Process, Migration!Ops
  <1> QED
    BY <1>1 DEF Migration!Migrated


LEMMA MigrationInitInv ==
  ASSUME Migration!MigrationAssumption, Migration!Init
  PROVE  MigrationInv
  <1>1. Migration!Off \in Process /\ Migration!Off.pc = "off"
    BY DEF Migration!Off, Process, Migration!Ops, ProcessPlaces
  <1>2. process \in [Actors -> Process] /\ \A p \in Actors : process[p].pc = "off"
    BY <1>1 DEF Migration!Init
  <1>3. /\ version \in [n : Int, dirty : BOOLEAN] /\ version.n \in 0..Files /\ ~version.dirty
        /\ Made(version.n) /\ Migration!Of(Migration!Legacy, applied) \subseteq There
    <2>1. CASE /\ version = [n |-> 0, dirty |-> FALSE] /\ applied = {}
      BY <2>1, FilesAre, OfIs DEF Made
    <2>2. CASE \E n \in Files - MaxUpdates .. Files :
                 version = [n |-> n, dirty |-> FALSE] /\ applied = {} /\ tables = Migration!Of(Migration!Sql, 1..n)
      <3>1. PICK n \in Files - MaxUpdates .. Files :
                 version = [n |-> n, dirty |-> FALSE] /\ applied = {} /\ tables = Migration!Of(Migration!Sql, 1..n)
        BY <2>2
      <3>2. n \in Int /\ n \in 0..Files
        BY FilesAre
      <3>3. version \in [n : Int, dirty : BOOLEAN] /\ version.n = n /\ ~version.dirty
        BY <3>1, <3>2
      <3> QED
        BY <3>1, <3>2, <3>3, OfIs DEF Made, There
    <2>3. CASE \E n \in Len(Migration!Legacy) - MaxUpdates .. Len(Migration!Legacy) :
                 /\ version = [n |-> 0, dirty |-> FALSE] /\ applied = 1..n
                 /\ tables = Migration!Of(Migration!Legacy, 1..n)
      <3>1. version = [n |-> 0, dirty |-> FALSE] /\ tables = Migration!Of(Migration!Legacy, applied)
        BY <2>3
      <3> QED
        BY <3>1, FilesAre, OfIs DEF Made, There
    <2> QED
      BY <2>1, <2>2, <2>3 DEF Migration!Init, Files
  <1>4. MigrationTypes
    BY <1>2, <1>3 DEF MigrationTypes
  <1>5. UndoesAlone
    BY <1>2 DEF UndoesAlone, Migration!Undoing
  <1>6. \A p \in Actors : Knows(p)
    BY <1>2 DEF Knows
  <1> QED
    BY <1>3, <1>4, <1>5, <1>6 DEF MigrationInv

\* What a process knows, another that adds tables does not make false.
LEMMA OthersKnow ==
  ASSUME NEW p, NEW q \in Actors, q # p, process'[q] = process[q], Knows(q),
         There \subseteq There', applied \subseteq applied', dropped \subseteq dropped' \union {p},
         version.dirty => version'.dirty \/ process[q].pc \notin {"drop", "undropped"}
  PROVE  Knows(q)'
  <1>1. \A n : Made(n) => Made(n)'
    BY DEF Made
  <1> QED
    BY <1>1 DEF Knows

LEMMA OneProcess ==
  ASSUME MigrationInv, ~mixed, NEW p \in Actors, MigrationTypes',
         \A q \in Actors : q # p => process'[q] = process[q],
         There \subseteq There', applied \subseteq applied', dropped \subseteq dropped' \union {p},
         version' = version \/ version'.dirty \/ p \in Migration!Versioning,
         ~version'.dirty => Made(version.n)',
         (Migration!Of(Migration!Legacy, applied) \subseteq There)',
         UndoesAlone' \/ mixed', Knows(p)'
  PROVE  MigrationInv'
  <1>1. ASSUME NEW q \in Actors, q # p PROVE Knows(q)'
    <2>1. process[q].pc \in {"drop", "undropped"} => q \in Migration!Undoing
      BY DEF Migration!Undoing
    <2>2. q \in Migration!Undoing => p \notin Migration!Versioning
      BY <1>1 DEF MigrationInv, UndoesAlone
    <2>3. Knows(q)
      BY DEF MigrationInv
    <2>4. version.dirty => version'.dirty \/ process[q].pc \notin {"drop", "undropped"}
      BY <2>1, <2>2
    <2> QED
      BY <1>1, <2>3, <2>4, OthersKnow
  <1> QED
    BY <1>1 DEF MigrationInv

LEMMA StaysAlone ==
  ASSUME UndoesAlone, NEW p \in Actors, \A q \in Actors : q # p => process'[q] = process[q],
         process'[p].pc \in {"unmark", "drop", "undropped"} => process[p].pc \in {"unmark", "drop", "undropped"},
         process'[p].pc \in {"mark", "run", "clean"} => process[p].pc \in {"mark", "run", "clean"}
  PROVE  UndoesAlone'
  <1>1. Migration!Undoing' \subseteq Migration!Undoing /\ Migration!Versioning' \subseteq Migration!Versioning
    BY DEF Migration!Undoing, Migration!Versioning
  <1> QED
    BY <1>1 DEF UndoesAlone

\* Processes that come, go and choose.
LEMMA ComeAndGoKeep ==
  ASSUME MigrationInv, ~mixed, NEW p \in Actors,
         Migration!Launch(p) \/ Migration!Exit(p) \/ Migration!Migrate(p) \/ Migration!Fallback(p)
           \/ Migration!Open(p) \/ Migration!CreateRecord(p)
  PROVE  MigrationInv'
  <1>0. process \in [Actors -> Process]
    BY DEF MigrationInv, MigrationTypes
  <1>1. /\ tables' = tables /\ forgotten' = forgotten /\ version' = version /\ applied' = applied
        /\ mixed' = mixed /\ dropped \subseteq dropped' \union {p}
    BY DEF Migration!Launch, Migration!Exit, Migration!Migrate, Migration!Fallback, Migration!Open,
           Migration!CreateRecord, Migration!Database, Migration!History
  <1>2. /\ process' \in [Actors -> Process]
        /\ \A q \in Actors : q # p => process'[q] = process[q]
        /\ process'[p].pc \in {"choose", "fallback", "off", "open", "record", "read", "reread", "entry"}
        /\ process'[p].pc = "entry" => process'[p].at = 1
    <2>1. CASE Migration!Launch(p)
      <3>1. PICK o \in Migration!Ops : process' = [process EXCEPT ![p] = [op |-> o, pc |-> "choose", at |-> 0]]
        BY <2>1 DEF Migration!Launch
      <3>2. [op |-> o, pc |-> "choose", at |-> 0] \in Process
        BY DEF Process, ProcessPlaces
      <3> QED
        BY <1>0, <3>1, <3>2
    <2>2. CASE Migration!Exit(p)
      <3>1. Migration!Goto(p, "off") /\ "off" \in ProcessPlaces
        BY <2>2 DEF Migration!Exit, ProcessPlaces
      <3> QED
        BY <1>0, <3>1, GotoIs
    <2>3. CASE Migration!Migrate(p)
      <3>1. Migration!Goto(p, Migration!Route(p)) /\ Migration!Route(p) \in {"open", "fallback"}
        BY <2>3 DEF Migration!Migrate, Migration!Route
      <3>2. Migration!Route(p) \in ProcessPlaces
        BY <3>1 DEF ProcessPlaces
      <3> QED
        BY <1>0, <3>1, <3>2, GotoIs
    <2>4. CASE Migration!Open(p)
      <3>1. \E x \in {"read", "reread", "off"} : Migration!Goto(p, x)
        BY <2>4 DEF Migration!Open
      <3>2. {"read", "reread", "off"} \subseteq ProcessPlaces
        BY DEF ProcessPlaces
      <3> QED
        BY <1>0, <3>1, <3>2, GotoIs
    <2>5. CASE Migration!CreateRecord(p)
      <3>1. Migration!GotoAt(p, "entry", 1) /\ "entry" \in ProcessPlaces /\ 1 \in Int
        BY <2>5 DEF Migration!CreateRecord, ProcessPlaces
      <3> QED
        BY <1>0, <3>1, GotoAtIs
    <2>6. CASE Migration!Fallback(p)
      <3>1. \E x \in {"open", "record"} : Migration!Goto(p, x)
        BY <2>6 DEF Migration!Fallback
      <3>2. {"open", "record"} \subseteq ProcessPlaces
        BY DEF ProcessPlaces
      <3> QED
        BY <1>0, <3>1, <3>2, GotoIs
    <2> QED
      BY <2>1, <2>2, <2>3, <2>4, <2>5, <2>6
  <1>3. MigrationTypes'
    BY <1>1, <1>2 DEF MigrationInv, MigrationTypes
  <1>4. UndoesAlone'
    BY <1>2, StaysAlone DEF MigrationInv
  <1>5. Knows(p)'
    BY <1>2 DEF Knows
  <1>6. There' = There
    BY <1>1 DEF There
  <1>7. /\ ~version'.dirty => Made(version.n)'
        /\ (Migration!Of(Migration!Legacy, applied) \subseteq There)'
    BY <1>1, <1>6 DEF MigrationInv, Made
  <1> QED
    BY <1>1, <1>2, <1>3, <1>4, <1>5, <1>6, <1>7, OneProcess

LEMMA ReadVersionKeeps ==
  ASSUME MigrationInv, ~mixed, NEW p \in Actors, Migration!ReadVersion(p)
  PROVE  MigrationInv'
  <1>0. process \in [Actors -> Process] /\ version.n \in 0..Files /\ version.n \in Int
    BY DEF MigrationInv, MigrationTypes
  <1>1. /\ tables' = tables /\ forgotten' = forgotten /\ version' = version /\ applied' = applied
        /\ dropped' = dropped /\ process[p].pc \in {"read", "reread"}
    BY DEF Migration!ReadVersion, Migration!Database
  <1>2. There' = There
    BY <1>1 DEF There
  <1>3. /\ ~version'.dirty => Made(version.n)'
        /\ (Migration!Of(Migration!Legacy, applied) \subseteq There)'
    BY <1>1, <1>2 DEF MigrationInv, Made
  <1>4. CASE version.dirty
    <2>1. Migration!Goto(p, "off") /\ "off" \in ProcessPlaces
      BY <1>4 DEF Migration!ReadVersion, ProcessPlaces
    <2>2. /\ process' \in [Actors -> Process] /\ process'[p].pc = "off"
          /\ \A q \in Actors : q # p => process'[q] = process[q]
      BY <1>0, <2>1, GotoIs
    <2>3. MigrationTypes' /\ Knows(p)'
      BY <1>1, <2>2 DEF MigrationInv, MigrationTypes, Knows
    <2>4. UndoesAlone'
      BY <2>2, StaysAlone DEF MigrationInv
    <2> QED
      BY <1>1, <1>2, <1>3, <2>2, <2>3, <2>4, OneProcess
  <1>5. CASE ~version.dirty
    <2> DEFINE x == IF process[p].pc = "read" THEN "mark" ELSE "unmark"
    <2>1. /\ Migration!GotoAt(p, x, version.n) /\ x \in ProcessPlaces
          /\ ~mixed' => /\ Migration!Undoing = {}
                        /\ process[p].pc = "reread" => Migration!Versioning = {}
      BY <1>1, <1>5 DEF Migration!ReadVersion, ProcessPlaces
    <2>2. /\ process' \in [Actors -> Process] /\ process'[p].pc = x /\ process'[p].at = version.n
          /\ \A q \in Actors : q # p => process'[q] = process[q]
      BY <1>0, <2>1, GotoAtIs
    <2>3. MigrationTypes'
      BY <1>1, <2>2 DEF MigrationInv, MigrationTypes
    <2>4. Knows(p)'
      BY <1>0, <1>1, <1>2, <1>3, <1>5, <2>2 DEF Knows, Made
    <2>5. UndoesAlone' \/ mixed'
      <3>1. SUFFICES ASSUME ~mixed' PROVE UndoesAlone'
        OBVIOUS
      <3>2. CASE process[p].pc = "read"
        <4>1. Migration!Undoing' = {}
          BY <2>1, <2>2, <3>1, <3>2 DEF Migration!Undoing
        <4> QED
          BY <4>1 DEF UndoesAlone
      <3>3. CASE process[p].pc = "reread"
        <4>1. Migration!Versioning = {}
          BY <2>1, <3>1, <3>3
        <4>2. Migration!Versioning' \subseteq {p} /\ Migration!Undoing' \subseteq {p}
          BY <2>2, <4>1 DEF Migration!Versioning, Migration!Undoing
        <4> QED
          BY <4>2 DEF UndoesAlone
      <3> QED
        BY <1>1, <3>2, <3>3
    <2> QED
      BY <1>1, <1>2, <1>3, <2>2, <2>3, <2>4, <2>5, OneProcess
  <1> QED
    BY <1>4, <1>5

LEMMA MarkKeeps ==
  ASSUME Migration!MigrationAssumption, MigrationInv, ~mixed, NEW p \in Actors, Migration!Mark(p)
  PROVE  MigrationInv'
  <1> DEFINE n == process[p].at
  <1>0. process \in [Actors -> Process] /\ version \in [n : Int, dirty : BOOLEAN]
    BY DEF MigrationInv, MigrationTypes
  <1>1. /\ tables' = tables /\ forgotten' = forgotten /\ applied' = applied /\ mixed' = mixed
        /\ dropped' = dropped /\ process[p].pc = "mark" /\ n \in 0..Files /\ Made(n) /\ n \in Int
    BY FilesAre DEF Migration!Mark, Migration!History, MigrationInv, Knows
  <1>2. There' = There
    BY <1>1 DEF There
  <1>3. (Migration!Of(Migration!Legacy, applied) \subseteq There)'
    BY <1>1, <1>2 DEF MigrationInv
  <1>4. CASE n = Files
    <2>1. /\ Migration!Goto(p, Migration!Migrated(p)) /\ version' = version
      BY <1>4 DEF Migration!Mark, Files
    <2>2. Migration!Migrated(p) \in {"up", "off", "peek", "undo"} /\ Migration!Migrated(p) \in ProcessPlaces
      BY <1>0, MigratedIs DEF ProcessPlaces
    <2>3. /\ process' \in [Actors -> Process] /\ process'[p].pc \in {"up", "off", "peek", "undo"}
          /\ \A q \in Actors : q # p => process'[q] = process[q]
      BY <1>0, <2>1, <2>2, GotoIs
    <2>4. MigrationTypes'
      BY <2>1, <2>3 DEF MigrationInv, MigrationTypes
    <2>5. UndoesAlone'
      BY <2>3, StaysAlone DEF MigrationInv
    <2>6. Needed \subseteq There
      BY <1>1, <1>4, FilesAre DEF Made, Needed
    <2>7. Knows(p)'
      BY <1>2, <2>3, <2>6 DEF Knows
    <2>8. ~version'.dirty => Made(version.n)'
      BY <1>2, <2>1 DEF MigrationInv, Made
    <2> QED
      BY <1>1, <1>2, <1>3, <2>1, <2>3, <2>4, <2>5, <2>7, <2>8, OneProcess
  <1>5. CASE n # Files
    <2>1. Migration!GotoAt(p, "run", n + 1) /\ version' = [n |-> n + 1, dirty |-> TRUE]
      BY <1>5 DEF Migration!Mark, Files
    <2>2. n + 1 \in Int /\ n + 1 \in 0..Files /\ n + 1 \in 1..Files /\ n + 1 - 1 = n /\ "run" \in ProcessPlaces
      BY <1>1, <1>5, FilesAre DEF ProcessPlaces
    <2>3. /\ process' \in [Actors -> Process] /\ process'[p].pc = "run" /\ process'[p].at = n + 1
          /\ \A q \in Actors : q # p => process'[q] = process[q]
      BY <1>0, <2>1, <2>2, GotoAtIs
    <2>4. version' \in [n : Int, dirty : BOOLEAN] /\ version'.n = n + 1 /\ version'.dirty
      BY <2>1, <2>2
    <2>5. MigrationTypes'
      BY <2>2, <2>3, <2>4 DEF MigrationTypes
    <2>6. UndoesAlone'
      BY <1>1, <2>3, StaysAlone DEF MigrationInv
    <2>7. Knows(p)'
      BY <1>1, <1>2, <2>2, <2>3 DEF Knows, Made
    <2> QED
      BY <1>1, <1>2, <1>3, <2>3, <2>4, <2>5, <2>6, <2>7, OneProcess
  <1> QED
    BY <1>4, <1>5

\* One step of creation more.
LEMMA MadeGrows ==
  ASSUME NEW n \in Int, Made(n - 1), tables' = tables \union Migration!Sql[n].creates, forgotten' = forgotten
  PROVE  Made(n)'
  <1>1. ASSUME NEW x \in Migration!Of(Migration!Sql, 1..n) PROVE x \in There'
    <2>1. PICK i \in 1..n : x \in Migration!Sql[i].creates
      BY OfIs
    <2>2. CASE i = n
      BY <2>1, <2>2 DEF There
    <2>3. CASE i # n
      <3>1. i \in 1..n - 1
        BY <2>3
      <3>2. x \in There
        BY <2>1, <3>1, OfIs DEF Made
      <3> QED
        BY <3>2 DEF There
    <2> QED
      BY <2>2, <2>3
  <1> QED
    BY <1>1 DEF Made

LEMMA RunKeeps ==
  ASSUME Migration!MigrationAssumption, MigrationInv, ~mixed, NEW p \in Actors, Migration!Run(p)
  PROVE  MigrationInv'
  <1>0. PICK n : n = process[p].at
    OBVIOUS
  <1>1. /\ tables' = tables \union Migration!Sql[n].creates
        /\ forgotten' = forgotten /\ applied' = applied /\ mixed' = mixed /\ version' = version
        /\ dropped' = dropped /\ process[p].pc = "run" /\ n \in 1..Files /\ Made(n - 1)
        /\ Migration!Goto(p, "clean") /\ process \in [Actors -> Process] /\ "clean" \in ProcessPlaces
    BY <1>0 DEF Migration!Run, Migration!History, MigrationInv, MigrationTypes, Knows, ProcessPlaces
  <1>2. There \subseteq There'
    BY <1>1 DEF There
  <1>3. Made(n)' /\ n \in 0..Files
    BY <1>1, MadeGrows, FilesAre
  <1>4. /\ process' \in [Actors -> Process] /\ process'[p].pc = "clean" /\ process'[p].at = n
        /\ \A q \in Actors : q # p => process'[q] = process[q]
    BY <1>0, <1>1, GotoIs
  <1>5. MigrationTypes'
    BY <1>1, <1>4 DEF MigrationInv, MigrationTypes
  <1>6. UndoesAlone'
    BY <1>1, <1>4, StaysAlone DEF MigrationInv
  <1>7. Knows(p)'
    BY <1>3, <1>4 DEF Knows, Made
  <1>8. /\ ~version'.dirty => Made(version.n)'
        /\ (Migration!Of(Migration!Legacy, applied) \subseteq There)'
    BY <1>1, <1>2 DEF MigrationInv, Made
  <1> QED
    BY <1>1, <1>2, <1>4, <1>5, <1>6, <1>7, <1>8, OneProcess

LEMMA UnmarkKeeps ==
  ASSUME Migration!MigrationAssumption, MigrationInv, ~mixed, NEW p \in Actors, Migration!Unmark(p)
  PROVE  MigrationInv'
  <1>0. PICK n : n = process[p].at
    OBVIOUS
  <1>1. /\ tables' = tables /\ forgotten' = forgotten /\ applied' = applied /\ mixed' = mixed
        /\ dropped' = dropped /\ process[p].pc = "unmark" /\ n \in 0..Files /\ Made(n) /\ n \in Int
        /\ process \in [Actors -> Process]
    BY <1>0, FilesAre DEF Migration!Unmark, Migration!History, MigrationInv, MigrationTypes, Knows
  <1>2. There' = There
    BY <1>1 DEF There
  <1>3. (Migration!Of(Migration!Legacy, applied) \subseteq There)'
    BY <1>1, <1>2 DEF MigrationInv
  <1>4. CASE n = 0
    <2>1. Migration!Goto(p, "off") /\ version' = version /\ "off" \in ProcessPlaces
      BY <1>0, <1>4 DEF Migration!Unmark, ProcessPlaces
    <2>2. /\ process' \in [Actors -> Process] /\ process'[p].pc = "off"
          /\ \A q \in Actors : q # p => process'[q] = process[q]
      BY <1>1, <2>1, GotoIs
    <2>3. MigrationTypes' /\ Knows(p)'
      BY <2>1, <2>2 DEF MigrationInv, MigrationTypes, Knows
    <2>4. UndoesAlone'
      BY <2>2, StaysAlone DEF MigrationInv
    <2>5. ~version'.dirty => Made(version.n)'
      BY <1>2, <2>1 DEF MigrationInv, Made
    <2> QED
      BY <1>1, <1>2, <1>3, <2>1, <2>2, <2>3, <2>4, <2>5, OneProcess
  <1>5. CASE n # 0
    <2>1. /\ Migration!Goto(p, "drop") /\ version' = [n |-> n - 1, dirty |-> TRUE]
          /\ "drop" \in ProcessPlaces
      BY <1>0, <1>5 DEF Migration!Unmark, ProcessPlaces
    <2>2. n - 1 \in Int /\ n - 1 \in 0..Files /\ n \in 1..Files
      BY <1>1, <1>5, FilesAre
    <2>3. /\ process' \in [Actors -> Process] /\ process'[p].pc = "drop" /\ process'[p].at = n
          /\ \A q \in Actors : q # p => process'[q] = process[q]
      BY <1>0, <1>1, <2>1, GotoIs
    <2>4. version' \in [n : Int, dirty : BOOLEAN] /\ version'.n = n - 1 /\ version'.dirty
      BY <2>1, <2>2
    <2>5. MigrationTypes'
      BY <2>2, <2>3, <2>4 DEF MigrationTypes
    <2>6. UndoesAlone'
      BY <1>1, <2>3, StaysAlone DEF MigrationInv
    <2>7. Knows(p)'
      BY <1>1, <1>2, <2>2, <2>3, <2>4 DEF Knows, Made
    <2> QED
      BY <1>1, <1>2, <1>3, <2>3, <2>4, <2>5, <2>6, <2>7, OneProcess
  <1> QED
    BY <1>4, <1>5

LEMMA CleanKeeps ==
  ASSUME Migration!MigrationAssumption, MigrationInv, ~mixed, NEW p \in Actors, Migration!Clean(p)
  PROVE  MigrationInv'
  <1>0. PICK n : n = process[p].at
    OBVIOUS
  <1>1. /\ tables' = tables /\ forgotten' = forgotten /\ applied' = applied /\ mixed' = mixed
        /\ dropped' = dropped /\ process[p].pc \in {"clean", "undropped"} /\ n \in 0..Files /\ Made(n)
        /\ n \in Int /\ process \in [Actors -> Process] /\ version' = [n |-> n, dirty |-> FALSE]
    BY <1>0, FilesAre DEF Migration!Clean, Migration!History, MigrationInv, MigrationTypes, Knows
  <1>2. There' = There
    BY <1>1 DEF There
  <1>3. PICK x \in {"mark", "unmark"} :
          /\ Migration!Goto(p, x) /\ (x = "mark" <=> process[p].pc = "clean") /\ x \in ProcessPlaces
    BY <1>1 DEF Migration!Clean, ProcessPlaces
  <1>4. /\ process' \in [Actors -> Process] /\ process'[p].pc = x /\ process'[p].at = n
        /\ \A q \in Actors : q # p => process'[q] = process[q]
    BY <1>0, <1>1, <1>3, GotoIs
  <1>5. version' \in [n : Int, dirty : BOOLEAN] /\ version'.n = n
    BY <1>1
  <1>6. MigrationTypes'
    BY <1>1, <1>4, <1>5 DEF MigrationTypes
  <1>7. UndoesAlone'
    BY <1>1, <1>3, <1>4, StaysAlone DEF MigrationInv
  <1>8. Knows(p)'
    BY <1>1, <1>2, <1>4 DEF Knows, Made
  <1>9. /\ ~version'.dirty => Made(version.n)'
        /\ (Migration!Of(Migration!Legacy, applied) \subseteq There)'
    BY <1>1, <1>2, <1>5 DEF MigrationInv, Made
  <1>10. p \in Migration!Versioning
    BY <1>1 DEF Migration!Versioning, Migration!Undoing
  <1> QED
    BY <1>1, <1>2, <1>4, <1>6, <1>7, <1>8, <1>9, <1>10, OneProcess

\* Tables that are dropped under a record that says that they exist stay in There.
LEMMA DropKeeps ==
  ASSUME Migration!MigrationAssumption, MigrationInv, ~mixed, NEW p \in Actors, Migration!Drop(p)
  PROVE  MigrationInv'
  <1>0. PICK n : n = process[p].at
    OBVIOUS
  <1> DEFINE gone == Migration!Sql[n].creates
  <1>1. /\ tables' = tables \ gone /\ forgotten' = forgotten \union (gone \intersect Migration!CountedOn)
        /\ dropped' = dropped \union {q \in Actors \ {p} : process[q].pc # "off"}
        /\ process[p].pc = "drop" /\ Migration!GotoAt(p, "undropped", n - 1)
        /\ applied' = applied /\ mixed' = mixed /\ version' = version
    BY <1>0 DEF Migration!Drop
  <1>2. /\ n \in 1..Files /\ Made(n) /\ version.dirty /\ process \in [Actors -> Process]
        /\ "undropped" \in ProcessPlaces /\ n \in Int
    BY <1>0, <1>1, FilesAre DEF MigrationInv, MigrationTypes, Knows, ProcessPlaces
  <1>3. n - 1 \in 0..Files /\ n - 1 \in Int
    BY <1>2, FilesAre
  <1>4. /\ process' \in [Actors -> Process] /\ process'[p].pc = "undropped" /\ process'[p].at = n - 1
        /\ \A q \in Actors : q # p => process'[q] = process[q]
    BY <1>1, <1>2, <1>3, GotoAtIs
  <1>5. MigrationTypes'
    BY <1>1, <1>4 DEF MigrationInv, MigrationTypes
  <1>6. UndoesAlone'
    BY <1>1, <1>4, StaysAlone DEF MigrationInv
  <1>7. \A x \in There : x \notin gone \/ x \in Migration!CountedOn => x \in There'
    BY <1>1 DEF There
  <1>8. Made(n - 1)'
    <2>1. ASSUME NEW x \in Migration!Of(Migration!Sql, 1..n - 1) PROVE x \in There'
      <3>1. PICK i \in 1..n - 1 : x \in Migration!Sql[i].creates
        BY OfIs
      <3>2. i \in 1..Files /\ i # n /\ i \in 1..n
        BY <1>2, FilesAre
      <3>3. x \notin gone
        BY <1>2, <3>1, <3>2, FilesAre
      <3>4. x \in There
        BY <1>2, <3>1, <3>2, OfIs DEF Made
      <3> QED
        BY <1>7, <3>3, <3>4
    <2> QED
      BY <2>1 DEF Made
  <1>9. Knows(p)'
    BY <1>1, <1>2, <1>3, <1>4, <1>8 DEF Knows, Made
  <1>10. (Migration!Of(Migration!Legacy, applied) \subseteq There)'
    <2>1. Migration!Of(Migration!Legacy, applied) \subseteq Migration!CountedOn
      BY OfIs DEF Migration!CountedOn
    <2> QED
      BY <1>1, <1>7, <2>1 DEF MigrationInv
  <1>11. ASSUME NEW q \in Actors, q # p PROVE Knows(q)'
    <2>1. process'[q] = process[q] /\ Knows(q)
      BY <1>4, <1>11 DEF MigrationInv
    <2>2. process[q].pc \notin {"mark", "run", "clean", "unmark", "drop", "undropped"}
      <3>1. p \in Migration!Undoing /\ ~(q \in Migration!Versioning)
        BY <1>1, <1>11 DEF MigrationInv, UndoesAlone, Migration!Undoing
      <3> QED
        BY <3>1 DEF Migration!Versioning, Migration!Undoing
    <2>3. process[q].pc = "insert" => Migration!Legacy[process[q].at].creates \subseteq There'
      <3>1. process[q].pc = "insert" => Migration!Legacy[process[q].at].creates \subseteq Migration!CountedOn
        BY OfIs DEF Migration!CountedOn
      <3> QED
        BY <1>7, <2>1, <3>1 DEF Knows
    <2>4. process[q].pc = "up" => q \in dropped'
      BY <1>1, <1>11
    <2>5. process[q].pc \in {"entry", "insert"} => 1..process[q].at - 1 \subseteq applied'
      BY <1>1, <2>1 DEF Knows
    <2> QED
      BY <2>1, <2>2, <2>3, <2>4, <2>5 DEF Knows
  <1> QED
    BY <1>1, <1>2, <1>5, <1>6, <1>9, <1>10, <1>11 DEF MigrationInv

LEMMA EntryKeeps ==
  ASSUME Migration!MigrationAssumption, MigrationInv, ~mixed, NEW p \in Actors, Migration!Entry(p)
  PROVE  MigrationInv'
  <1>0. PICK n : n = process[p].at
    OBVIOUS
  <1>1. /\ process[p].pc = "entry" /\ version' = version /\ applied' = applied /\ mixed' = mixed
        /\ dropped' = dropped /\ forgotten' = forgotten
        /\ \/ n > Len(Migration!Legacy) /\ Migration!Goto(p, Migration!Migrated(p)) /\ tables' = tables
           \/ n \in applied /\ Migration!GotoAt(p, "entry", n + 1) /\ tables' = tables
           \/ tables' = tables \union Migration!Legacy[n].creates /\ Migration!Goto(p, "insert")
    BY <1>0 DEF Migration!Entry, Migration!History
  <1>2. /\ process \in [Actors -> Process] /\ n \in Int /\ n + 1 \in Int /\ 1..n - 1 \subseteq applied
        /\ {"entry", "insert"} \subseteq ProcessPlaces
    BY <1>0, <1>1 DEF MigrationInv, MigrationTypes, Knows, Process, ProcessPlaces
  <1>3. There \subseteq There'
    BY <1>1 DEF There
  <1>4. /\ ~version'.dirty => Made(version.n)'
        /\ (Migration!Of(Migration!Legacy, applied) \subseteq There)'
    BY <1>1, <1>3 DEF MigrationInv, Made
  <1>5. /\ process' \in [Actors -> Process] /\ \A q \in Actors : q # p => process'[q] = process[q]
        /\ process'[p].pc \in {"up", "off", "peek", "undo", "entry", "insert"}
        /\ Knows(p)'
    <2>1. CASE n > Len(Migration!Legacy) /\ Migration!Goto(p, Migration!Migrated(p)) /\ tables' = tables
      <3>1. Migration!Migrated(p) \in {"up", "off", "peek", "undo"} /\ Migration!Migrated(p) \in ProcessPlaces
        BY <1>2, MigratedIs DEF ProcessPlaces
      <3>2. /\ process' \in [Actors -> Process] /\ \A q \in Actors : q # p => process'[q] = process[q]
            /\ process'[p].pc \in {"up", "off", "peek", "undo"}
        BY <1>2, <2>1, <3>1, GotoIs
      <3>3. DOMAIN Migration!Legacy \subseteq applied
        BY <1>2, <2>1, FilesAre
      <3>4. Needed \subseteq There'
        BY <1>3, <3>3, OfIs DEF Needed, MigrationInv
      <3>5. Knows(p)'
        BY <3>2, <3>4 DEF Knows
      <3> QED
        BY <3>2, <3>5
    <2>2. CASE n \in applied /\ Migration!GotoAt(p, "entry", n + 1) /\ tables' = tables
      <3>1. /\ process' \in [Actors -> Process] /\ \A q \in Actors : q # p => process'[q] = process[q]
            /\ process'[p].pc = "entry" /\ process'[p].at = n + 1
        BY <1>2, <2>2, GotoAtIs
      <3>2. 1..process'[p].at - 1 \subseteq applied'
        <4>1. 1..n \subseteq applied'
          BY <1>1, <1>2, <2>2
        <4>2. process'[p].at - 1 = n
          BY <1>2, <3>1
        <4> QED
          BY <4>1, <4>2
      <3>3. Knows(p)'
        BY <3>1, <3>2 DEF Knows
      <3> QED
        BY <3>1, <3>3
    <2>3. CASE tables' = tables \union Migration!Legacy[n].creates /\ Migration!Goto(p, "insert")
      <3>1. /\ process' \in [Actors -> Process] /\ \A q \in Actors : q # p => process'[q] = process[q]
            /\ process'[p].pc = "insert" /\ process'[p].at = n
        BY <1>0, <1>2, <2>3, GotoIs
      <3>2. Migration!Legacy[n].creates \subseteq There'
        BY <2>3 DEF There
      <3>3. 1..n - 1 \subseteq applied'
        BY <1>1, <1>2
      <3>4. Knows(p)'
        BY <3>1, <3>2, <3>3 DEF Knows
      <3> QED
        BY <3>1, <3>4
    <2> QED
      BY <1>1, <2>1, <2>2, <2>3
  <1>6. MigrationTypes'
    BY <1>1, <1>5 DEF MigrationInv, MigrationTypes
  <1>7. UndoesAlone'
    BY <1>5, StaysAlone DEF MigrationInv
  <1> QED
    BY <1>1, <1>3, <1>4, <1>5, <1>6, <1>7, OneProcess

LEMMA InsertKeeps ==
  ASSUME MigrationInv, ~mixed, NEW p \in Actors, Migration!Insert(p)
  PROVE  MigrationInv'
  <1>0. PICK n : n = process[p].at
    OBVIOUS
  <1>1. /\ process[p].pc = "insert" /\ applied' = applied \union {n} /\ Migration!GotoAt(p, "entry", n + 1)
        /\ tables' = tables /\ version' = version /\ forgotten' = forgotten /\ dropped' = dropped
        /\ mixed' = mixed
    BY <1>0 DEF Migration!Insert, Migration!History
  <1>2. /\ process \in [Actors -> Process] /\ n \in Int /\ n + 1 \in Int
        /\ "entry" \in ProcessPlaces /\ Migration!Legacy[n].creates \subseteq There
        /\ 1..n - 1 \subseteq applied
    BY <1>0, <1>1 DEF MigrationInv, MigrationTypes, Knows, Process, ProcessPlaces
  <1>3. There' = There
    BY <1>1 DEF There
  <1>4. (Migration!Of(Migration!Legacy, applied) \subseteq There)'
    BY <1>1, <1>2, <1>3, OfIs DEF MigrationInv
  <1>5. ~version'.dirty => Made(version.n)'
    BY <1>1, <1>3 DEF MigrationInv, Made
  <1>6. /\ process' \in [Actors -> Process] /\ \A q \in Actors : q # p => process'[q] = process[q]
        /\ process'[p].pc = "entry" /\ process'[p].at = n + 1
    BY <1>1, <1>2, GotoAtIs
  <1>7. MigrationTypes'
    BY <1>1, <1>6 DEF MigrationInv, MigrationTypes
  <1>8. UndoesAlone'
    BY <1>6, StaysAlone DEF MigrationInv
  <1>9. 1..process'[p].at - 1 \subseteq applied'
    <2>1. 1..n \subseteq applied'
      BY <1>1, <1>2
    <2>2. process'[p].at - 1 = n
      BY <1>2, <1>6
    <2> QED
      BY <2>1, <2>2
  <1>10. Knows(p)'
    BY <1>6, <1>9 DEF Knows
  <1> QED
    BY <1>1, <1>3, <1>4, <1>5, <1>6, <1>7, <1>8, <1>10, OneProcess

LEMMA MigrationStepKeeps ==
  ASSUME Migration!MigrationAssumption, MigrationInv, [Migration!Next]_(Migration!vars)
  PROVE  MigrationInv'
  <1>1. CASE Migration!Next
    <2>1. PICK p \in Actors :
            /\ ~mixed
            /\ \/ Migration!Launch(p) \/ Migration!Exit(p) \/ Migration!Migrate(p) \/ Migration!Fallback(p)
                    \/ Migration!Open(p) \/ Migration!CreateRecord(p)
               \/ Migration!ReadVersion(p) \/ Migration!Mark(p) \/ Migration!Run(p) \/ Migration!Unmark(p)
               \/ Migration!Drop(p) \/ Migration!Clean(p) \/ Migration!Entry(p) \/ Migration!Insert(p)
      BY <1>1 DEF Migration!Next
    <2> QED
      BY <2>1, ComeAndGoKeep, ReadVersionKeeps, MarkKeeps, RunKeeps, UnmarkKeeps, DropKeeps, CleanKeeps,
         EntryKeeps, InsertKeeps
  <1>2. CASE UNCHANGED Migration!vars
    <2>1. /\ process' = process /\ version' = version /\ mixed' = mixed /\ tables' = tables
          /\ forgotten' = forgotten /\ applied' = applied /\ dropped' = dropped
      BY <1>2 DEF Migration!vars
    <2>2. MigrationTypes' <=> MigrationTypes
      BY <2>1 DEF MigrationTypes
    <2>3. There' = There
      BY <2>1 DEF There
    <2>4. \A p \in Actors : Knows(p)' <=> Knows(p)
      BY <2>1, <2>3 DEF Knows, Made
    <2>5. UndoesAlone' <=> UndoesAlone
      BY <2>1 DEF UndoesAlone, Migration!Undoing, Migration!Versioning
    <2> QED
      BY <2>1, <2>2, <2>3, <2>4, <2>5 DEF MigrationInv, Made
  <1> QED
    BY <1>1, <1>2

\* The inductive invariant of the migrations, while versions are not mixed: what a clean
\* version and the recorded entries stand for is there, what a process has gone through is
\* there while it goes on, and a process that rolls back is the only one that changes the
\* version.
THEOREM MigrationInvariance == Migration!Spec => []MigrationInv
  <1>1. Migration!Init => MigrationInv
    BY MigrationInitInv, PlatformAssumption
  <1>2. MigrationInv /\ [Migration!Next]_(Migration!vars) => MigrationInv'
    BY MigrationStepKeeps, PlatformAssumption
  <1> QED
    BY <1>1, <1>2, PTL DEF Migration!Spec

\* For any number of processes and whatever tables are looked at: a server that has come
\* up finds every table that both systems create.
THEOREM StartedHasTablesCorrect == Migration!Spec => []Migration!StartedHasTables
  <1>1. MigrationInv => Migration!StartedHasTables
    BY DEF MigrationInv, Knows, Needed, There, Migration!StartedHasTables
  <1> QED
    BY <1>1, MigrationInvariance, PTL

\* Whatever a release contains: a server that has started has the tables its release
\* needs, and an upgrade replaces every binary or none.
THEOREM ReleasesHoldCorrect == Migration!Spec /\ Updater!Spec => []ReleasesHold
  BY StartedHasTablesCorrect, AllOrNothingCorrect, PTL DEF ReleasesHold
-----------------------------------------------------------------------------
(***************************************************************************)
(* Signing keys and licences.                                              *)
(***************************************************************************)
Known == Licence!Stored \union {ConfigKey, None}

LicenceTypes ==
  /\ keys \in [SigningKeys -> [version : Nat, active : BOOLEAN]]
  /\ \E top \in Nat : \A k \in SigningKeys : keys[k].version <= top
  /\ rotation \in [Actors -> [pc : {"idle", "numbered", "deactivated", "stored", "trusted"},
                              key : SigningKeys \union {None}, version : Nat]]
  /\ licences \in Seq([id : Nat \union {None}, signer : Known,
                       status : {"active", "expired", "revoked"}])
  /\ engine \in [trusts : SUBSET (SigningKeys \union {ConfigKey}),
                 holds : [id : Nat \union {None}, signer : Known] \union {None},
                 missed : SUBSET SigningKeys]
  /\ privKey \in Licence!Stored \union {None} /\ up \in BOOLEAN

Choosing(r) == rotation[r].pc \in {"numbered", "deactivated"}

\* No two rotations have the same key, and the key of one is in the table or not
\* according to how far it has come.
RotationsApart ==
  /\ \A r \in Actors :
       /\ rotation[r].pc = "idle" => rotation[r].key = None
       /\ Choosing(r) => rotation[r].key \in SigningKeys \ Licence!Stored
       /\ rotation[r].pc \in {"stored", "trusted"} => rotation[r].key \in Licence!Stored
  /\ \A q, r \in Actors : rotation[q].key = rotation[r].key /\ rotation[q].pc # "idle" => q = r

\* The versions in the table have no gap, and a rotation that has read them takes the
\* next one at most.
Taken(v) == \E k \in Licence!Stored : keys[k].version = v

VersionsHold ==
  /\ \A k \in Licence!Stored : \A v \in 1..keys[k].version : Taken(v)
  /\ \A r \in Actors : Choosing(r) =>
       rotation[r].version >= 1 /\ \A v \in 1..(rotation[r].version - 1) : Taken(v)

\* A rotation that has deactivated the keys, and whose version is still free, finds none active.
OneActive ==
  skipped \/ /\ \A j, k \in Licence!Active : j = k
             /\ \A r \in Actors :
                  rotation[r].pc = "deactivated" /\ ~Taken(rotation[r].version)
                    => Licence!Active = {}

RotationKeys == {rotation[r].key : r \in Actors}

TrustHolds ==
  /\ up => {ConfigKey} \union (Licence!Stored \ (RotationKeys \union engine.missed)) \subseteq engine.trusts
  /\ up => privKey = None \/ privKey \in engine.trusts
  /\ \A r \in Actors : rotation[r].pc = "trusted" => rotation[r].key \in engine.trusts
  /\ ~up => privKey = None /\ \A r \in Actors : rotation[r].pc = "idle"

LicenceInv == LicenceTypes /\ RotationsApart /\ VersionsHold /\ OneActive /\ TrustHolds

LEMMA NoneIsNoKey == None \notin SigningKeys
  BY PlatformAssumption DEF Licence!LicenceAssumption

LEMMA StoredAreKeys ==
  ASSUME LicenceTypes
  PROVE  /\ Licence!Stored \subseteq SigningKeys /\ Licence!Active \subseteq Licence!Stored
         /\ \A k \in Licence!Stored : keys[k].version \in Nat /\ keys[k].version > 0
         /\ \A k \in SigningKeys : k \notin Licence!Stored => keys[k].version = 0
  BY DEF LicenceTypes, Licence!Stored, Licence!Active

LEMMA GreatestOf ==
  ASSUME NEW S \in SUBSET Nat, NEW first \in S, NEW top \in Nat, \A s \in S : s <= top
  PROVE  \E m \in S : \A s \in S : m >= s
  <1> DEFINE Less == {p \in Nat \X Nat : p[1] < p[2]}
             Below == {top - s : s \in S}
  <1>1. Less = OpToRel(<, Nat)
    BY DEF OpToRel
  <1>2. IsWellFoundedOn(Less, Nat)
    BY <1>1, NatLessThanWellFounded
  <1>3. Below \subseteq Nat /\ top - first \in Below
    OBVIOUS
  <1>4. \A x, y \in Nat : ~(<<y, x>> \in Less) => x <= y
    OBVIOUS
  <1> HIDE DEF Less, Below
  <1>5. PICK x \in Below : \A y \in Below : ~(<<y, x>> \in Less)
    BY <1>2, <1>3, WFMin
  <1>6. \A y \in Below : x <= y
    BY <1>3, <1>4, <1>5
  <1>7. PICK m \in S : x = top - m
    BY <1>5 DEF Below
  <1>8. \A s \in S : x <= top - s
    BY <1>6 DEF Below
  <1> QED
    BY <1>7, <1>8

LEMMA MaxVersionIsGreatest ==
  ASSUME LicenceTypes
  PROVE  /\ Licence!MaxVersion \in Nat
         /\ \A k \in SigningKeys : keys[k].version <= Licence!MaxVersion
         /\ Licence!MaxVersion = 0 \/ \E k \in Licence!Stored : keys[k].version = Licence!MaxVersion
  <1> DEFINE S == {keys[k].version : k \in SigningKeys} \union {0}
  <1>1. PICK top \in Nat : \A k \in SigningKeys : keys[k].version <= top
    BY DEF LicenceTypes
  <1>2. S \in SUBSET Nat /\ 0 \in S /\ \A s \in S : s <= top
    BY <1>1 DEF LicenceTypes
  <1> HIDE DEF S
  <1>3. \E m \in S : \A s \in S : m >= s
    BY <1>2, GreatestOf
  <1>4. Licence!MaxVersion = CHOOSE m \in S : \A s \in S : m >= s
    BY DEF Licence!MaxVersion, Licence!Max, S
  <1>5. Licence!MaxVersion \in S /\ \A s \in S : Licence!MaxVersion >= s
    BY <1>3, <1>4
  <1> QED
    BY <1>2, <1>5 DEF S, Licence!Stored

LEMMA LicenceInitInv ==
  ASSUME Licence!Init
  PROVE  LicenceInv
  <1>1. Licence!Stored = {} /\ Licence!Active = {}
    BY DEF Licence!Init, Licence!Stored, Licence!Active
  <1>2. LicenceTypes
    BY <1>1 DEF Licence!Init, LicenceTypes, Licence!Idle
  <1> QED
    BY <1>1, <1>2, NoneIsNoKey DEF Licence!Init, LicenceInv, RotationsApart, VersionsHold, OneActive,
       TrustHolds, Choosing, Licence!Idle

\* A step that leaves the keys, the rotations and what the engine trusts.
LEMMA LicencesAlone ==
  ASSUME LicenceInv, UNCHANGED <<keys, rotation, privKey, up, skipped>>,
         engine'.trusts = engine.trusts, engine'.missed = engine.missed,
         (licences \in Seq([id : Nat \union {None}, signer : Known,
                            status : {"active", "expired", "revoked"}]))',
         (engine \in [trusts : SUBSET (SigningKeys \union {ConfigKey}),
                      holds : [id : Nat \union {None}, signer : Known] \union {None},
                      missed : SUBSET SigningKeys])'
  PROVE  LicenceInv'
  <1>1. Licence!Stored' = Licence!Stored /\ Licence!Active' = Licence!Active
        /\ RotationKeys' = RotationKeys
    BY DEF Licence!Stored, Licence!Active, RotationKeys
  <1>2. LicenceTypes'
    BY <1>1 DEF LicenceInv, LicenceTypes
  <1>3. RotationsApart' /\ VersionsHold'
    BY <1>1 DEF LicenceInv, RotationsApart, VersionsHold, Choosing, Taken
  <1>4. OneActive'
    BY <1>1 DEF LicenceInv, OneActive, Taken
  <1>5. TrustHolds'
    BY <1>1 DEF LicenceInv, TrustHolds
  <1> QED
    BY <1>2, <1>3, <1>4, <1>5 DEF LicenceInv

LEMMA GenerateKeyKeeps ==
  ASSUME LicenceInv, NEW r \in Actors, up, Licence!GenerateKey(r)
  PROVE  LicenceInv'
  <1>1. PICK k \in SigningKeys \ Licence!Stored :
          /\ \A q \in Actors : rotation[q].key # k
          /\ rotation' = [rotation EXCEPT ![r] =
               [pc |-> "numbered", key |-> k, version |-> Licence!MaxVersion + 1]]
    BY DEF Licence!GenerateKey
  <1>2. rotation[r].pc = "idle" /\ UNCHANGED <<keys, licences, engine, privKey, up, skipped>>
    BY DEF Licence!GenerateKey
  <1>3. Licence!Stored' = Licence!Stored /\ Licence!Active' = Licence!Active
        /\ \A v : Taken(v)' <=> Taken(v)
    BY <1>2 DEF Licence!Stored, Licence!Active, Taken
  <1> DEFINE new == [pc |-> "numbered", key |-> k, version |-> Licence!MaxVersion + 1]
  <1>4. /\ rotation'[r] = new /\ \A q \in Actors : q # r => rotation'[q] = rotation[q]
        /\ DOMAIN rotation' = Actors
    BY <1>1 DEF LicenceInv, LicenceTypes
  <1>5. Licence!MaxVersion \in Nat /\ LicenceTypes
    BY MaxVersionIsGreatest DEF LicenceInv
  <1>6. LicenceTypes'
    BY <1>1, <1>2, <1>3, <1>5 DEF LicenceTypes, Known
  <1>7. RotationsApart'
    BY <1>1, <1>3, <1>4, NoneIsNoKey DEF LicenceInv, RotationsApart, Choosing
  <1>8. \A v \in 1..Licence!MaxVersion : Taken(v)
    BY <1>5, MaxVersionIsGreatest DEF LicenceInv, VersionsHold
  <1>9. VersionsHold'
    <2>1. \A q \in Actors : q # r => (Choosing(q)' <=> Choosing(q))
      BY <1>4 DEF Choosing
    <2>2. \A j \in Licence!Stored' : \A v \in 1..keys'[j].version : Taken(v)'
      BY <1>2, <1>3 DEF LicenceInv, VersionsHold
    <2>3. \A q \in Actors : q # r /\ Choosing(q)' =>
             rotation'[q].version >= 1 /\ \A v \in 1..(rotation'[q].version - 1) : Taken(v)'
      BY <1>3, <1>4, <2>1 DEF LicenceInv, VersionsHold
    <2>4. rotation'[r].version >= 1 /\ \A v \in 1..(rotation'[r].version - 1) : Taken(v)'
      BY <1>3, <1>4, <1>5, <1>8
    <2> QED
      BY <2>2, <2>3, <2>4 DEF VersionsHold
  <1>10. OneActive'
    BY <1>2, <1>3, <1>4 DEF LicenceInv, OneActive
  <1>11. TrustHolds'
    <2>1. Licence!Stored' \ RotationKeys' \subseteq Licence!Stored \ RotationKeys
      <3>1. ASSUME NEW x \in Licence!Stored, x \notin RotationKeys', NEW q \in Actors
            PROVE  rotation[q].key # x
        <4>1. x \in SigningKeys
          BY <1>5, StoredAreKeys
        <4>2. CASE q = r
          BY <1>2, <4>1, <4>2, NoneIsNoKey DEF LicenceInv, RotationsApart
        <4>3. CASE q # r
          BY <1>4, <3>1, <4>3 DEF RotationKeys
        <4> QED
          BY <4>2, <4>3
      <3> QED
        BY <1>3, <3>1 DEF RotationKeys
    <2> QED
      BY <1>2, <1>4, <2>1 DEF LicenceInv, TrustHolds
  <1> QED
    BY <1>6, <1>7, <1>9, <1>10, <1>11 DEF LicenceInv

LEMMA DeactivateKeysKeeps ==
  ASSUME LicenceInv, NEW r \in Actors, up, Licence!DeactivateKeys(r)
  PROVE  LicenceInv'
  <1>1. /\ rotation[r].pc = "numbered" /\ UNCHANGED <<licences, engine, privKey, up>>
        /\ rotation' = [rotation EXCEPT ![r] = [@ EXCEPT !.pc = "deactivated"]]
        /\ \/ keys' = [k \in SigningKeys |-> [keys[k] EXCEPT !.active = FALSE]] /\ UNCHANGED skipped
           \/ skipped' = TRUE /\ UNCHANGED keys
    BY DEF Licence!DeactivateKeys, Licence!Goto
  <1>2. /\ keys' \in [SigningKeys -> [version : Nat, active : BOOLEAN]]
        /\ \A k \in SigningKeys : keys'[k].version = keys[k].version
    <2> DEFINE off(k) == [keys[k] EXCEPT !.active = FALSE]
    <2>1. \A k \in SigningKeys : off(k) \in [version : Nat, active : BOOLEAN]
                                 /\ off(k).version = keys[k].version
      BY DEF LicenceInv, LicenceTypes
    <2>2. CASE keys' = [k \in SigningKeys |-> off(k)]
      <3> HIDE DEF off
      <3> QED
        BY <2>1, <2>2
    <2>3. CASE UNCHANGED keys
      BY <2>3 DEF LicenceInv, LicenceTypes
    <2> QED
      BY <1>1, <2>2, <2>3
  <1>3. Licence!Stored' = Licence!Stored /\ \A v : Taken(v)' <=> Taken(v)
    BY <1>2 DEF Licence!Stored, Taken
  <1>4. /\ \A q \in Actors : rotation'[q].key = rotation[q].key
                             /\ rotation'[q].version = rotation[q].version
        /\ \A q \in Actors : q # r => rotation'[q] = rotation[q]
        /\ rotation'[r].pc = "deactivated"
    BY <1>1 DEF LicenceInv, LicenceTypes
  <1>5. LicenceTypes'
    <2>1. rotation' \in [Actors -> [pc : {"idle", "numbered", "deactivated", "stored", "trusted"},
                                    key : SigningKeys \union {None}, version : Nat]]
      BY <1>1 DEF LicenceInv, LicenceTypes
    <2>2. \E top \in Nat : \A k \in SigningKeys : keys'[k].version <= top
      BY <1>2 DEF LicenceInv, LicenceTypes
    <2> QED
      BY <1>1, <1>2, <1>3, <2>1, <2>2 DEF LicenceInv, LicenceTypes, Known
  <1>6. \A q \in Actors : Choosing(q)' <=> Choosing(q)
    BY <1>1, <1>4 DEF Choosing
  <1>7. RotationsApart'
    BY <1>1, <1>3, <1>4, <1>6 DEF LicenceInv, RotationsApart
  <1>8. VersionsHold'
    BY <1>2, <1>3, <1>4, <1>6, StoredAreKeys DEF LicenceInv, VersionsHold
  <1>9. OneActive'
    <2>1. CASE skipped'
      BY <2>1 DEF OneActive
    <2>2. CASE keys' = [k \in SigningKeys |-> [keys[k] EXCEPT !.active = FALSE]]
      <3>1. \A k \in SigningKeys : ~keys'[k].active
        BY <2>2 DEF LicenceInv, LicenceTypes
      <3>2. Licence!Active' = {}
        BY <3>1 DEF Licence!Active, Licence!Stored
      <3> QED
        BY <3>2 DEF OneActive
    <2> QED
      BY <1>1, <2>1, <2>2
  <1>10. RotationKeys' = RotationKeys
    BY <1>4 DEF RotationKeys
  <1>11. TrustHolds'
    BY <1>1, <1>3, <1>4, <1>10 DEF LicenceInv, TrustHolds
  <1> QED
    BY <1>5, <1>7, <1>8, <1>9, <1>11 DEF LicenceInv

LEMMA BusyHasKey ==
  ASSUME LicenceInv, NEW q \in Actors, rotation[q].pc # "idle"
  PROVE  rotation[q].key \in SigningKeys
  BY StoredAreKeys DEF LicenceInv, LicenceTypes, RotationsApart, Choosing

LEMMA SeqOfMore ==
  ASSUME NEW S, NEW T, S \subseteq T, NEW s \in Seq(S)
  PROVE  s \in Seq(T)
  <1>1. s \in [1..Len(s) -> S] /\ Len(s) \in Nat
    BY LenProperties
  <1>2. s \in [1..Len(s) -> T]
    BY <1>1
  <1> QED
    BY <1>1, <1>2, SeqDef

\* The rotation whose version another has taken ends.
LEMMA RefusedKeyKeeps ==
  ASSUME LicenceInv, NEW r \in Actors, up, rotation[r].pc # "idle",
         rotation[r].key \in Licence!Stored => rotation[r].key \in engine.trusts,
         rotation' = [rotation EXCEPT ![r] = Licence!Idle],
         UNCHANGED <<keys, licences, engine, up, skipped>>,
         privKey' = privKey \/ privKey' \in Licence!Stored \intersect engine.trusts
  PROVE  LicenceInv'
  <1>1. Licence!Stored' = Licence!Stored /\ Licence!Active' = Licence!Active
        /\ \A v : Taken(v)' <=> Taken(v)
    BY DEF Licence!Stored, Licence!Active, Taken
  <1>2. /\ rotation'[r].pc = "idle" /\ rotation'[r].key = None
        /\ \A q \in Actors : q # r => rotation'[q] = rotation[q]
    BY DEF LicenceInv, LicenceTypes, Licence!Idle
  <1>3. LicenceTypes'
    <2>1. rotation' \in [Actors -> [pc : {"idle", "numbered", "deactivated", "stored", "trusted"},
                                    key : SigningKeys \union {None}, version : Nat]]
      BY DEF LicenceInv, LicenceTypes, Licence!Idle
    <2> QED
      BY <1>1, <2>1 DEF LicenceInv, LicenceTypes, Known
  <1>4. RotationsApart'
    <2>1. \A q \in Actors : q # r /\ rotation'[q].pc # "idle" => rotation'[q].key # None
      BY <1>2, BusyHasKey, NoneIsNoKey
    <2> QED
      BY <1>1, <1>2, <2>1 DEF LicenceInv, RotationsApart, Choosing
  <1>5. VersionsHold'
    <2>1. \A q \in Actors : Choosing(q)' => Choosing(q) /\ rotation'[q] = rotation[q]
      BY <1>2 DEF Choosing
    <2> QED
      BY <1>1, <2>1 DEF LicenceInv, VersionsHold
  <1>6. OneActive'
    BY <1>1, <1>2 DEF LicenceInv, OneActive
  <1>7. TrustHolds'
    <2>1. RotationKeys \subseteq RotationKeys' \union {rotation[r].key}
      BY <1>2 DEF RotationKeys
    <2> QED
      BY <1>1, <1>2, <2>1 DEF LicenceInv, TrustHolds
  <1> QED
    BY <1>3, <1>4, <1>5, <1>6, <1>7 DEF LicenceInv

\* Of two rotations that have deactivated the keys, the first to store its key takes the
\* version of the other.
LEMMA StoredKeyKeeps ==
  ASSUME LicenceInv, NEW r \in Actors, up, rotation[r].pc = "deactivated",
         Licence!NewVersion(rotation[r].version),
         keys' = [keys EXCEPT ![rotation[r].key] = [version |-> rotation[r].version, active |-> TRUE]],
         rotation' = [rotation EXCEPT ![r] = [@ EXCEPT !.pc = "stored"]],
         UNCHANGED <<licences, engine, privKey, up, skipped>>
  PROVE  LicenceInv'
  <1> DEFINE new == rotation[r].key
             number == rotation[r].version
  <1>1. /\ new \in SigningKeys /\ new \notin Licence!Stored /\ number \in Nat /\ number >= 1
        /\ \A v \in 1..(number - 1) : Taken(v)
    BY DEF LicenceInv, LicenceTypes, RotationsApart, VersionsHold, Choosing
  <1>2. ~Taken(number)
    BY DEF Licence!NewVersion, Taken
  <1>3. /\ keys'[new] = [version |-> number, active |-> TRUE]
        /\ \A k \in SigningKeys : k # new => keys'[k] = keys[k]
        /\ keys' \in [SigningKeys -> [version : Nat, active : BOOLEAN]]
    BY <1>1 DEF LicenceInv, LicenceTypes
  <1>4. Licence!Stored' = Licence!Stored \union {new}
    BY <1>1, <1>3 DEF Licence!Stored
  <1>5. \A v : Taken(v)' <=> Taken(v) \/ v = number
    BY <1>1, <1>3, <1>4, StoredAreKeys DEF Taken, LicenceInv
  <1>6. /\ \A q \in Actors : rotation'[q].key = rotation[q].key
                             /\ rotation'[q].version = rotation[q].version
        /\ \A q \in Actors : q # r => rotation'[q] = rotation[q]
        /\ rotation'[r].pc = "stored"
    BY DEF LicenceInv, LicenceTypes
  <1>7. LicenceTypes'
    <2>1. PICK top \in Nat : \A k \in SigningKeys : keys[k].version <= top
      BY DEF LicenceInv, LicenceTypes
    <2>2. \A k \in SigningKeys : keys'[k].version <= top + number
      BY <1>1, <1>3, <2>1 DEF LicenceInv, LicenceTypes
    <2>3. \E all \in Nat : \A k \in SigningKeys : keys'[k].version <= all
      BY <1>1, <2>1, <2>2
    <2>4. Known \subseteq Known'
      BY <1>4 DEF Known
    <2>5. licences' \in Seq([id : Nat \union {None}, signer : Known',
                            status : {"active", "expired", "revoked"}])
      <3> DEFINE S == [id : Nat \union {None}, signer : Known, status : {"active", "expired", "revoked"}]
                 T == [id : Nat \union {None}, signer : Known', status : {"active", "expired", "revoked"}]
      <3>1. S \subseteq T
        BY <2>4
      <3>2. licences' \in Seq(S)
        BY DEF LicenceInv, LicenceTypes
      <3> HIDE DEF S, T
      <3>3. licences' \in Seq(T)
        BY <3>1, <3>2, SeqOfMore
      <3> QED
        BY <3>3 DEF T
    <2>6. engine' \in [trusts : SUBSET (SigningKeys \union {ConfigKey}),
                       holds : [id : Nat \union {None}, signer : Known'] \union {None},
                       missed : SUBSET SigningKeys]
      BY <2>4 DEF LicenceInv, LicenceTypes
    <2>7. rotation' \in [Actors -> [pc : {"idle", "numbered", "deactivated", "stored", "trusted"},
                                    key : SigningKeys \union {None}, version : Nat]]
      BY DEF LicenceInv, LicenceTypes
    <2> QED
      BY <1>3, <1>4, <2>3, <2>5, <2>6, <2>7 DEF LicenceInv, LicenceTypes
  <1>8. RotationsApart'
    <2>1. \A q \in Actors : q # r /\ rotation[q].pc # "idle" => rotation[q].key # new
      BY DEF LicenceInv, RotationsApart
    <2> QED
      BY <1>4, <1>6, <2>1 DEF LicenceInv, RotationsApart, Choosing
  <1>9. \A q \in Actors : Choosing(q)' => q # r /\ Choosing(q)
    BY <1>6 DEF Choosing
  <1>10. VersionsHold'
    <2>1. \A k \in Licence!Stored' : \A v \in 1..keys'[k].version : Taken(v)'
      <3>1. ASSUME NEW k \in Licence!Stored, NEW v \in 1..keys'[k].version
            PROVE  Taken(v)'
        <4>1. keys'[k] = keys[k]
          BY <1>1, <1>3, StoredAreKeys DEF LicenceInv
        <4> QED
          BY <1>5, <3>1, <4>1 DEF LicenceInv, VersionsHold
      <3>2. \A v \in 1..number : Taken(v)'
        <4>1. \A v \in 1..number : v = number \/ v \in 1..(number - 1)
          BY <1>1
        <4> QED
          BY <1>1, <1>5, <4>1
      <3> QED
        BY <1>3, <1>4, <3>1, <3>2
    <2>2. \A q \in Actors : Choosing(q)' =>
             rotation'[q].version >= 1 /\ \A v \in 1..(rotation'[q].version - 1) : Taken(v)'
      BY <1>5, <1>6, <1>9 DEF LicenceInv, VersionsHold
    <2> QED
      BY <2>1, <2>2 DEF VersionsHold
  <1>11. OneActive'
    <2>1. SUFFICES ASSUME ~skipped PROVE OneActive'
      BY DEF OneActive
    <2>2. Licence!Active = {}
      BY <1>2, <2>1 DEF LicenceInv, OneActive
    <2>3. Licence!Active' = {new}
      <3>1. \A k \in SigningKeys : k # new => (keys'[k].active /\ k \in Licence!Stored' <=> k \in Licence!Active)
        BY <1>3, <1>4 DEF Licence!Active
      <3>2. Licence!Active' \subseteq SigningKeys
        BY <1>7, StoredAreKeys DEF Licence!Active, Licence!Stored
      <3> QED
        BY <1>1, <1>3, <1>4, <2>2, <3>1, <3>2 DEF Licence!Active
    <2>4. ASSUME NEW q \in Actors, rotation'[q].pc = "deactivated", ~(Taken(rotation[q].version)')
          PROVE  FALSE
      <3>1. q # r /\ Choosing(q) /\ rotation[q].version \in Nat /\ rotation[q].version >= 1
        BY <1>6, <2>4 DEF Choosing, LicenceInv, LicenceTypes, VersionsHold
      <3>2. ~Taken(rotation[q].version) /\ rotation[q].version # number
        BY <1>5, <1>6, <2>4
      <3>3. \A v \in 1..(rotation[q].version - 1) : Taken(v)
        BY <3>1 DEF LicenceInv, VersionsHold
      <3>4. CASE rotation[q].version < number
        BY <1>1, <3>1, <3>2, <3>4
      <3>5. CASE rotation[q].version > number
        BY <1>1, <1>2, <3>1, <3>3, <3>5
      <3> QED
        BY <1>1, <3>1, <3>2, <3>4, <3>5
    <2> QED
      BY <2>3, <2>4 DEF OneActive
  <1>12. RotationKeys' = RotationKeys /\ new \in RotationKeys
    BY <1>6 DEF RotationKeys
  <1>13. TrustHolds'
    BY <1>4, <1>6, <1>12 DEF LicenceInv, TrustHolds
  <1> QED
    BY <1>7, <1>8, <1>10, <1>11, <1>13 DEF LicenceInv

LEMMA StoreKeyKeeps ==
  ASSUME LicenceInv, NEW r \in Actors, up, Licence!StoreKey(r)
  PROVE  LicenceInv'
  <1>1. rotation[r].pc = "deactivated" /\ UNCHANGED <<licences, engine, privKey, up, skipped>>
    BY DEF Licence!StoreKey
  <1>2. rotation[r].key \notin Licence!Stored
    BY <1>1 DEF LicenceInv, RotationsApart, Choosing
  <1>3. CASE rotation' = [rotation EXCEPT ![r] = Licence!Idle] /\ UNCHANGED keys
    BY <1>1, <1>2, <1>3, RefusedKeyKeeps
  <1>4. CASE /\ Licence!NewVersion(rotation[r].version)
             /\ keys' = [keys EXCEPT ![rotation[r].key] =
                  [version |-> rotation[r].version, active |-> TRUE]]
             /\ Licence!Goto(r, "stored")
    BY <1>1, <1>4, StoredKeyKeeps DEF Licence!Goto
  <1> QED
    BY <1>3, <1>4 DEF Licence!StoreKey

LEMMA TrustKeyKeeps ==
  ASSUME LicenceInv, NEW r \in Actors, up, Licence!TrustKey(r)
  PROVE  LicenceInv'
  <1> DEFINE new == rotation[r].key
  <1>1. /\ rotation[r].pc = "stored" /\ UNCHANGED <<keys, licences, privKey, up, skipped>>
        /\ rotation' = [rotation EXCEPT ![r] = [@ EXCEPT !.pc = "trusted"]]
        /\ engine' = [engine EXCEPT !.trusts = @ \union {new}]
    BY DEF Licence!TrustKey, Licence!Goto, Licence!RotatePublicKey
  <1>2. new \in Licence!Stored /\ new \in SigningKeys
    BY <1>1, BusyHasKey DEF LicenceInv, RotationsApart
  <1>3. Licence!Stored' = Licence!Stored /\ Licence!Active' = Licence!Active
        /\ \A v : Taken(v)' <=> Taken(v)
    BY <1>1 DEF Licence!Stored, Licence!Active, Taken
  <1>4. /\ \A q \in Actors : rotation'[q].key = rotation[q].key
                             /\ rotation'[q].version = rotation[q].version
        /\ \A q \in Actors : q # r => rotation'[q] = rotation[q]
        /\ rotation'[r].pc = "trusted"
    BY <1>1 DEF LicenceInv, LicenceTypes
  <1>5. /\ engine'.trusts = engine.trusts \union {new}
        /\ engine' \in [trusts : SUBSET (SigningKeys \union {ConfigKey}),
                        holds : [id : Nat \union {None}, signer : Known] \union {None},
                        missed : SUBSET SigningKeys]
    BY <1>1, <1>2 DEF LicenceInv, LicenceTypes
  <1>6. rotation' \in [Actors -> [pc : {"idle", "numbered", "deactivated", "stored", "trusted"},
                                  key : SigningKeys \union {None}, version : Nat]]
    BY <1>1 DEF LicenceInv, LicenceTypes
  <1>7. LicenceTypes'
    BY <1>1, <1>3, <1>5, <1>6 DEF LicenceInv, LicenceTypes, Known
  <1>8. \A q \in Actors : Choosing(q)' <=> Choosing(q)
    BY <1>1, <1>4 DEF Choosing
  <1>9. RotationsApart'
    BY <1>1, <1>2, <1>3, <1>4, <1>8 DEF LicenceInv, RotationsApart
  <1>10. VersionsHold'
    BY <1>1, <1>3, <1>4, <1>8 DEF LicenceInv, VersionsHold
  <1>11. OneActive'
    BY <1>1, <1>3, <1>4 DEF LicenceInv, OneActive
  <1>12. RotationKeys' = RotationKeys
    BY <1>4 DEF RotationKeys
  <1>13. TrustHolds'
    BY <1>1, <1>3, <1>4, <1>5, <1>12 DEF LicenceInv, TrustHolds
  <1> QED
    BY <1>7, <1>9, <1>10, <1>11, <1>13 DEF LicenceInv

LEMMA SetPrivKeyKeeps ==
  ASSUME LicenceInv, NEW r \in Actors, up, Licence!SetPrivKey(r)
  PROVE  LicenceInv'
  <1>1. /\ rotation[r].pc = "trusted" /\ privKey' = rotation[r].key
        /\ rotation' = [rotation EXCEPT ![r] = Licence!Idle]
        /\ UNCHANGED <<keys, licences, engine, up, skipped>>
    BY DEF Licence!SetPrivKey
  <1>2. rotation[r].key \in Licence!Stored \intersect engine.trusts
    BY <1>1 DEF LicenceInv, RotationsApart, TrustHolds
  <1> QED
    BY <1>1, <1>2, RefusedKeyKeeps

LicenceRow == [id : Nat \union {None}, signer : Known, status : {"active", "expired", "revoked"}]

LEMMA RowsOfTable ==
  ASSUME LicenceInv
  PROVE  /\ licences \in Seq(LicenceRow) /\ Len(licences) \in Nat
         /\ \A i \in DOMAIN licences : licences[i] \in LicenceRow
         /\ Licence!Expired \in Seq(LicenceRow)
  <1>1. licences \in Seq(LicenceRow)
    BY DEF LicenceInv, LicenceTypes, LicenceRow
  <1>2. DOMAIN licences = 1..Len(licences) /\ Len(licences) \in Nat
    BY <1>1, LenProperties
  <1>3. \A i \in DOMAIN licences : licences[i] \in LicenceRow
    BY <1>1, <1>2, ElementOfSeq
  <1>4. \A i \in DOMAIN licences : [licences[i] EXCEPT !.status = "expired"] \in LicenceRow
    BY <1>3 DEF LicenceRow
  <1>5. Licence!Expired \in [1..Len(licences) -> LicenceRow]
    BY <1>2, <1>3, <1>4 DEF Licence!Expired
  <1> QED
    BY <1>1, <1>2, <1>3, <1>5, SeqDef

LEMMA SameTable ==
  ASSUME UNCHANGED keys
  PROVE  Known' = Known /\ LicenceRow' = LicenceRow /\ Licence!Stored' = Licence!Stored
  BY DEF Known, LicenceRow, Licence!Stored

\* A step of the licence table, and of the licence that the engine holds.
LEMMA TableStep ==
  ASSUME LicenceInv, UNCHANGED <<keys, rotation, privKey, up, skipped>>,
         licences' \in Seq(LicenceRow),
         NEW key \in [id : Nat \union {None}, signer : Known],
         engine' = engine \/ engine' = [engine EXCEPT !.holds = key]
  PROVE  LicenceInv'
  <1>1. Known' = Known /\ LicenceRow' = LicenceRow
    BY SameTable
  <1>2. engine' \in [trusts : SUBSET (SigningKeys \union {ConfigKey}),
                     holds : [id : Nat \union {None}, signer : Known] \union {None},
                     missed : SUBSET SigningKeys]
        /\ engine'.trusts = engine.trusts /\ engine'.missed = engine.missed
    <2> DEFINE Held == [id : Nat \union {None}, signer : Known]
               Trusted == SUBSET (SigningKeys \union {ConfigKey})
    <2>1. engine \in [trusts : Trusted, holds : Held \union {None}, missed : SUBSET SigningKeys]
          /\ key \in Held
      BY DEF LicenceInv, LicenceTypes
    <2> HIDE DEF Held, Trusted
    <2>2. engine' \in [trusts : Trusted, holds : Held \union {None}, missed : SUBSET SigningKeys]
          /\ engine'.trusts = engine.trusts /\ engine'.missed = engine.missed
      BY <2>1
    <2> QED
      BY <2>2 DEF Held, Trusted
  <1> QED
    BY <1>1, <1>2, LicencesAlone DEF LicenceRow

LEMMA RowIsOfTable ==
  ASSUME NEW id \in Nat \union {None}, NEW signer \in Known
  PROVE  Licence!Row(id, signer, "active") \in LicenceRow
  BY DEF Licence!Row, LicenceRow

LEMMA SignersAreKnown == ASSUME LicenceInv PROVE privKey \in Known /\ None \in Known /\ ConfigKey \in Known
  BY DEF LicenceInv, LicenceTypes, Known

LEMMA IssueKeeps ==
  ASSUME LicenceInv, Licence!IssueLicense
  PROVE  LicenceInv'
  <1>1. Licence!Row(Len(licences) + 1, privKey, "active") \in LicenceRow
    BY RowsOfTable, RowIsOfTable, SignersAreKnown
  <1>2. licences' \in Seq(LicenceRow)
    BY <1>1, RowsOfTable, AppendProperties DEF Licence!IssueLicense
  <1>3. [id |-> None, signer |-> None] \in [id : Nat \union {None}, signer : Known]
    BY SignersAreKnown
  <1> QED
    BY <1>2, <1>3, TableStep DEF Licence!IssueLicense

LEMMA ActivateKeeps ==
  ASSUME LicenceInv, Licence!ActivateWithKey
  PROVE  LicenceInv'
  <1>1. PICK key \in {[id |-> 0, signer |-> ConfigKey]}
                       \union {Licence!KeyOf(licences[i]) : i \in DOMAIN licences} :
          /\ engine' = [engine EXCEPT !.holds = key]
          /\ licences' = IF \E i \in DOMAIN licences : Licence!KeyOf(licences[i]) = key
                         THEN Licence!Expired
                         ELSE Append(Licence!Expired, Licence!Row(key.id, key.signer, "active"))
    BY DEF Licence!ActivateWithKey
  <1>2. key \in [id : Nat \union {None}, signer : Known]
    <2>1. CASE key = [id |-> 0, signer |-> ConfigKey]
      BY <2>1, SignersAreKnown
    <2>2. CASE key \in {Licence!KeyOf(licences[i]) : i \in DOMAIN licences}
      BY <2>2, RowsOfTable DEF Licence!KeyOf, LicenceRow
    <2> QED
      BY <1>1, <2>1, <2>2
  <1>3. Licence!Row(key.id, key.signer, "active") \in LicenceRow
    BY <1>2, RowIsOfTable
  <1>4. licences' \in Seq(LicenceRow)
    BY <1>1, <1>3, RowsOfTable, AppendProperties
  <1> QED
    BY <1>1, <1>2, <1>4, TableStep DEF Licence!ActivateWithKey

LEMMA CommunityKeeps ==
  ASSUME LicenceInv, Licence!ActivateCommunity
  PROVE  LicenceInv'
  <1> DEFINE own == [id |-> Len(licences) + 1, signer |-> privKey]
  <1>1. own \in [id : Nat \union {None}, signer : Known]
    BY RowsOfTable, SignersAreKnown
  <1>2. Licence!Row(own.id, own.signer, "active") \in LicenceRow
        /\ Licence!Row(None, None, "active") \in LicenceRow
    BY <1>1, RowIsOfTable, SignersAreKnown
  <1>3. licences' \in Seq(LicenceRow)
    <2>1. Licence!Expired \in Seq(LicenceRow)
      BY RowsOfTable
    <2>2. \A e \in LicenceRow : Append(Licence!Expired, e) \in Seq(LicenceRow)
      BY <2>1, AppendProperties
    <2>3. \/ licences' = Licence!Expired
          \/ licences' = Append(Licence!Expired, Licence!Row(own.id, own.signer, "active"))
          \/ licences' = Append(Licence!Expired, Licence!Row(None, None, "active"))
      BY DEF Licence!ActivateCommunity
    <2> HIDE DEF own
    <2> QED
      BY <1>2, <2>1, <2>2, <2>3
  <1>4. engine' = engine \/ engine' = [engine EXCEPT !.holds = own]
    BY DEF Licence!ActivateCommunity
  <1> HIDE DEF own
  <1> QED
    BY <1>1, <1>3, <1>4, TableStep DEF Licence!ActivateCommunity

LEMMA DeactivateKeeps ==
  ASSUME LicenceInv, Licence!DeactivateLicense
  PROVE  LicenceInv'
  <1>1. [id |-> None, signer |-> None] \in [id : Nat \union {None}, signer : Known]
    BY SignersAreKnown
  <1> QED
    BY <1>1, RowsOfTable, TableStep DEF Licence!DeactivateLicense

LEMMA RevokeKeeps ==
  ASSUME LicenceInv, Licence!RevokeLicense
  PROVE  LicenceInv'
  <1>1. [id |-> None, signer |-> None] \in [id : Nat \union {None}, signer : Known]
    BY SignersAreKnown
  <1>2. PICK i \in DOMAIN licences : licences' = [licences EXCEPT ![i] = [@ EXCEPT !.status = "revoked"]]
    BY DEF Licence!RevokeLicense
  <1>3. [licences[i] EXCEPT !.status = "revoked"] \in LicenceRow
    BY RowsOfTable DEF LicenceRow
  <1>4. licences' \in Seq(LicenceRow)
    BY <1>2, <1>3, RowsOfTable, LenProperties, ExceptSeq
  <1> QED
    BY <1>1, <1>4, TableStep DEF Licence!RevokeLicense

LEMMA FirstActiveIsRow ==
  ASSUME LicenceInv, Licence!ActiveRows # {}
  PROVE  Licence!Min(Licence!ActiveRows) \in DOMAIN licences
  <1> DEFINE Less == {p \in Nat \X Nat : p[1] < p[2]}
  <1>1. Less = OpToRel(<, Nat)
    BY DEF OpToRel
  <1>2. IsWellFoundedOn(Less, Nat)
    BY <1>1, NatLessThanWellFounded
  <1>3. \A x, y \in Nat : ~(<<y, x>> \in Less) => x <= y
    OBVIOUS
  <1>4. Licence!ActiveRows \subseteq DOMAIN licences /\ Licence!ActiveRows \subseteq Nat
    BY RowsOfTable, LenProperties DEF Licence!ActiveRows
  <1> HIDE DEF Less
  <1>5. PICK x \in Licence!ActiveRows : \A y \in Licence!ActiveRows : ~(<<y, x>> \in Less)
    BY <1>2, <1>4, WFMin
  <1>6. \A y \in Licence!ActiveRows : x <= y
    BY <1>3, <1>4, <1>5
  <1>7. Licence!Min(Licence!ActiveRows) \in Licence!ActiveRows
    BY <1>6 DEF Licence!Min
  <1> QED
    BY <1>4, <1>7

\* A crash and a start: the rotations are gone, and the keys of the table that could be
\* read are trusted again.
LEMMA RestartKeeps ==
  ASSUME LicenceInv, Licence!Crash \/ Licence!Start
  PROVE  LicenceInv'
  <1>1. UNCHANGED <<keys, licences, skipped>>
    BY DEF Licence!Crash, Licence!Start
  <1>2. /\ Licence!Stored' = Licence!Stored /\ Licence!Active' = Licence!Active /\ Known' = Known
        /\ \A v : Taken(v)' <=> Taken(v)
    BY <1>1 DEF Licence!Stored, Licence!Active, Known, Taken
  <1>3. /\ privKey' = None /\ up' \in BOOLEAN
        /\ rotation' \in [Actors -> [pc : {"idle", "numbered", "deactivated", "stored", "trusted"},
                                     key : SigningKeys \union {None}, version : Nat]]
        /\ \A r \in Actors : rotation'[r].pc = "idle" /\ rotation'[r].key = None
    <2>1. CASE Licence!Crash
      BY <2>1 DEF Licence!Crash, Licence!Idle
    <2>2. CASE Licence!Start
      <3>1. privKey = None /\ \A r \in Actors : rotation[r].pc = "idle" /\ rotation[r].key = None
        BY <2>2 DEF Licence!Start, LicenceInv, TrustHolds, RotationsApart
      <3> QED
        BY <2>2, <3>1 DEF Licence!Start, LicenceInv, LicenceTypes
    <2> QED
      BY <2>1, <2>2
  <1>4. /\ up' => engine'.trusts = {ConfigKey} \union (Licence!Stored \ engine'.missed)
        /\ engine' \in [trusts : SUBSET (SigningKeys \union {ConfigKey}),
                        holds : [id : Nat \union {None}, signer : Known] \union {None},
                        missed : SUBSET SigningKeys]
    <2>1. CASE Licence!Crash
      BY <2>1 DEF Licence!Crash
    <2>2. CASE Licence!Start
      <3>0. PICK read \in BOOLEAN, missed \in {{}, Licence!Stored} :
               engine' = [trusts |-> {ConfigKey} \union (Licence!Stored \ missed),
                          holds |-> IF read /\ Licence!ActiveRows # {}
                                       /\ licences[Licence!Min(Licence!ActiveRows)].signer = ConfigKey
                                    THEN Licence!KeyOf(licences[Licence!Min(Licence!ActiveRows)])
                                    ELSE None,
                          missed |-> missed]
        BY <2>2 DEF Licence!Start
      <3> DEFINE first == licences[Licence!Min(Licence!ActiveRows)]
                 held == IF read /\ Licence!ActiveRows # {} /\ first.signer = ConfigKey
                         THEN Licence!KeyOf(first) ELSE None
      <3>1. engine' = [trusts |-> {ConfigKey} \union (Licence!Stored \ missed), holds |-> held,
                       missed |-> missed]
        BY <3>0
      <3>2. held \in [id : Nat \union {None}, signer : Known] \union {None}
        <4>1. Licence!ActiveRows # {} => Licence!Min(Licence!ActiveRows) \in DOMAIN licences
          BY FirstActiveIsRow
        <4>2. Licence!ActiveRows # {} => first \in LicenceRow
          BY <4>1, RowsOfTable
        <4> QED
          BY <4>2 DEF LicenceRow, Licence!KeyOf
      <3>3. {ConfigKey} \union (Licence!Stored \ missed) \in SUBSET (SigningKeys \union {ConfigKey})
            /\ missed \in SUBSET SigningKeys
        BY <3>0, StoredAreKeys DEF LicenceInv
      <3> HIDE DEF held
      <3> QED
        BY <3>1, <3>2, <3>3
    <2> QED
      BY <2>1, <2>2
  <1>5. LicenceTypes'
    BY <1>1, <1>2, <1>3, <1>4 DEF LicenceInv, LicenceTypes
  <1>6. RotationsApart' /\ VersionsHold' /\ OneActive'
    BY <1>1, <1>2, <1>3, NoneIsNoKey DEF LicenceInv, RotationsApart, VersionsHold, OneActive, Choosing
  <1>7. TrustHolds'
    BY <1>2, <1>3, <1>4 DEF TrustHolds
  <1> QED
    BY <1>5, <1>6, <1>7 DEF LicenceInv

LEMMA LicenceStepKeeps ==
  ASSUME LicenceInv, [Licence!Next]_licenceVars
  PROVE  LicenceInv'
  <1>1. CASE UNCHANGED licenceVars
    <2>1. Known' = Known
      BY <1>1 DEF licenceVars, Known, Licence!Stored
    <2> QED
      BY <1>1, <2>1, LicencesAlone DEF licenceVars, LicenceInv, LicenceTypes
  <1>2. CASE Licence!Next
    BY <1>2, GenerateKeyKeeps, DeactivateKeysKeeps, StoreKeyKeeps, TrustKeyKeeps, SetPrivKeyKeeps,
       IssueKeeps, ActivateKeeps, CommunityKeeps, DeactivateKeeps, RevokeKeeps, RestartKeeps
       DEF Licence!Next
  <1> QED
    BY <1>1, <1>2

\* The versions of the table have no gap, and a rotation that has deactivated the keys
\* and whose version is still free finds none active; what the engine trusts.
THEOREM LicenceInvariance == Licence!Spec => []LicenceInv
  <1>1. Licence!Init => LicenceInv
    BY LicenceInitInv
  <1>2. LicenceInv /\ [Licence!Next]_(Licence!vars) => LicenceInv'
    BY LicenceStepKeeps DEF Licence!vars, licenceVars
  <1> QED
    BY <1>1, <1>2, PTL DEF Licence!Spec

LEMMA LicenceCardinality ==
  ASSUME NEW S
  PROVE  Licence!Cardinality(S) = Cardinality(S)
  BY DEF Licence!Cardinality, Cardinality

\* For any number of keys and of rotations that overlap, fail and crash: at most one
\* signing key is active, unless a deactivation failed, and a running server trusts the
\* key it signs with and every key of the table, but one whose rotation is about to tell
\* it and those that it could not read as it started.
THEOREM SigningKeysHoldCorrect == Licence!Spec => []SigningKeysHold
  <1>1. LicenceInv => SigningKeysHold
    <2> SUFFICES ASSUME LicenceInv PROVE Licence!OneKeyActive /\ Licence!KeysTrusted
      BY DEF SigningKeysHold
    <2>1. Licence!OneKeyActive
      <3>1. SUFFICES ASSUME ~skipped PROVE Cardinality(Licence!Active) <= 1
        BY LicenceCardinality DEF Licence!OneKeyActive
      <3>2. CASE Licence!Active = {}
        BY <3>2, FS_EmptySet
      <3>3. CASE Licence!Active # {}
        <4>1. PICK k \in Licence!Active : TRUE
          BY <3>3
        <4>2. Licence!Active = {k}
          BY <3>1, <4>1 DEF LicenceInv, OneActive
        <4> QED
          BY <4>2, FS_Singleton
      <3> QED
        BY <3>2, <3>3
    <2>2. Licence!KeysTrusted
      <3>1. \A i \in DOMAIN licences : licences[i].signer \in Licence!Stored \union {ConfigKey, None}
        BY RowsOfTable DEF LicenceRow, Known
      <3> QED
        BY <3>1 DEF Licence!KeysTrusted, LicenceInv, TrustHolds, RotationKeys
    <2> QED
      BY <2>1, <2>2
  <1> QED
    BY <1>1, LicenceInvariance, PTL
=============================================================================
