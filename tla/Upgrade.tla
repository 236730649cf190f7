------------------------------ MODULE Upgrade ------------------------------
(***************************************************************************)
(* The upgrade of an installation by its own API server                    *)
(* (internal/service/upgrade.go): the binaries are copied aside, the new   *)
(* ones downloaded, renamed into place one by one, asked for --version,    *)
(* and the services restarted, the API server itself last.  A step that    *)
(* fails copies the old binaries back.  A file that a process executes can *)
(* be replaced by a rename but not be written to.                          *)
(***************************************************************************)
EXTENDS Sequences, Naturals

CONSTANT Releases   \* which binaries of the new release answer --version: a set of such sets

VARIABLES bin,        \* what the file of each binary in bin/ is
          inUse,      \* per binary: a process executes that file
          backup,     \* the copy of each binary in the backup directory
          api,        \* what the API server's process was started from
          pc, at,     \* the step of the upgrade, and the binary it has come to
          rolling,    \* the upgrade is being rolled back
          outcome,    \* of the latest upgrade
          before,     \* bin when the latest upgrade began
          damaged,    \* a copy of its rollback was refused or failed
          answering   \* the binaries of the new release that answer --version

vars == <<bin, inUse, backup, api, pc, at, rolling, outcome, before, damaged, answering>>

binaries == <<"api-server", "mcp-server", "deploypilot">>
Binaries == {binaries[i] : i \in 1..Len(binaries)}
Nowhere == [b \in Binaries |-> "absent"]

Init ==
  /\ bin \in {[b \in Binaries |-> "old"],
              [b \in Binaries |-> IF b = "deploypilot" THEN "absent" ELSE "old"]}
  /\ inUse = [b \in Binaries |-> b = "api-server"]
  /\ backup = Nowhere
  /\ api = "old"
  /\ pc = "idle" /\ at = 1
  /\ rolling = FALSE
  /\ outcome = "none"
  /\ before = bin
  /\ damaged = FALSE
  /\ answering \in Releases

Files == <<bin, inUse, backup>>

\* The next binary of the loop, or the step after it.
Advance(step) ==
  IF at < Len(binaries) THEN at' = at + 1 /\ pc' = pc
                        ELSE at' = 1 /\ pc' = step

\* A plausible bug: a step that fails only ends the upgrade.
NoRollback == rolling' = TRUE /\ at' = 1 /\ pc' = "end"

Rollback == rolling' = TRUE /\ at' = 1 /\ pc' = "restore"

\* One upgrade at a time, and only to a newer version than the one running.
PerformUpgrade ==
  /\ pc = "idle"
  /\ api = "old"
  /\ pc' = "backup" /\ at' = 1 /\ rolling' = FALSE
  /\ outcome' = "none" /\ before' = bin /\ damaged' = FALSE
  /\ backup' = Nowhere
  /\ UNCHANGED <<bin, inUse, api, answering>>

End(result) == pc' = "idle" /\ at' = 1 /\ outcome' = result

\* A binary that is missing is skipped; a copy that fails ends the upgrade.
backupBinaries ==
  LET b == binaries[at]
  IN  /\ pc = "backup"
      /\ \/ /\ backup' = [backup EXCEPT ![b] = bin[b]]
            /\ Advance("download")
            /\ UNCHANGED outcome
         \/ /\ bin[b] # "absent"
            /\ End("rolledback")
            /\ UNCHANGED backup
      /\ UNCHANGED <<bin, inUse, api, rolling, before, damaged, answering>>

downloadBinaries ==
  /\ \/ /\ pc = "download"
        /\ Advance("move")
        /\ UNCHANGED <<bin, inUse, rolling>>
     \/ /\ pc = "move"
        /\ bin' = [bin EXCEPT ![binaries[at]] = "new"]
        /\ inUse' = [inUse EXCEPT ![binaries[at]] = FALSE]
        /\ Advance("verify")
        /\ UNCHANGED rolling
     \/ /\ pc \in {"download", "move"}
        /\ Rollback
        /\ UNCHANGED <<bin, inUse>>
  /\ UNCHANGED <<backup, api, outcome, before, damaged, answering>>

verifyBinaries ==
  /\ pc = "verify"
  /\ \/ /\ answering = Binaries
        /\ pc' = "mcp" /\ UNCHANGED <<at, rolling>>
     \/ /\ answering # Binaries
        /\ Rollback
  /\ UNCHANGED <<Files, api, outcome, before, damaged, answering>>

\* A restart that fails rolls the upgrade back, or ends the rollback.
RestartFails ==
  /\ pc \in {"mcp", "api"}
  /\ \/ /\ ~rolling
        /\ Rollback
        /\ UNCHANGED outcome
     \/ /\ rolling
        /\ pc' = "end" /\ UNCHANGED <<at, rolling, outcome>>
  /\ UNCHANGED <<Files, api, before, damaged, answering>>

\* Services that are not installed are skipped.
SkipRestart ==
  /\ pc \in {"mcp", "api"}
  /\ pc' = IF pc = "mcp" THEN "api" ELSE "end"
  /\ UNCHANGED <<Files, api, at, rolling, outcome, before, damaged, answering>>

restartMcp ==
  /\ pc = "mcp"
  /\ pc' = "api"
  /\ inUse' = [inUse EXCEPT !["mcp-server"] = bin["mcp-server"] \in {"old", "new"}]
  /\ UNCHANGED <<bin, backup, api, at, rolling, outcome, before, damaged, answering>>

Verdict == IF rolling THEN "rolledback" ELSE "upgraded"

\* The API server's process starts again from the file in bin/.
Started ==
  /\ api' = IF bin["api-server"] \in {"old", "new"} THEN bin["api-server"] ELSE "none"
  /\ inUse' = [inUse EXCEPT !["api-server"] = bin["api-server"] \in {"old", "new"}]

\* The API server restarts its own service: the request never gets an answer.
restartApi ==
  /\ pc = "api"
  /\ Started
  /\ End(Verdict)
  /\ UNCHANGED <<bin, backup, rolling, before, damaged, answering>>

Answer ==
  /\ pc = "end"
  /\ End(Verdict)
  /\ UNCHANGED <<Files, api, rolling, before, damaged, answering>>

\* The copy is written over the file in place; an error is logged and the
\* next binary is tried.
restoreBinaries ==
  LET b == binaries[at]
  IN  /\ pc = "restore"
      /\ Advance("mcp")
      /\ \/ /\ backup[b] = "absent"
            /\ UNCHANGED <<bin, damaged>>
         \/ /\ backup[b] # "absent" /\ ~inUse[b]
            /\ bin' = [bin EXCEPT ![b] = backup[b]]
            /\ UNCHANGED damaged
         \/ /\ backup[b] # "absent" /\ inUse[b]
            /\ damaged' = (damaged \/ bin[b] # backup[b])
            /\ UNCHANGED bin
         \/ /\ backup[b] # "absent" /\ ~inUse[b]
            /\ bin' = [bin EXCEPT ![b] = "broken"]
            /\ damaged' = TRUE
      /\ UNCHANGED <<inUse, backup, api, rolling, outcome, before, answering>>

\* The process dies, in the middle of a copy perhaps, and is started again.
Crash ==
  /\ pc # "idle"
  /\ End("cut")
  /\ LET b == binaries[at]
     IN  \/ UNCHANGED bin
         \/ /\ pc = "restore" /\ backup[b] # "absent" /\ ~inUse[b]
            /\ bin' = [bin EXCEPT ![b] = "broken"]
  /\ api' = IF bin'["api-server"] \in {"old", "new"} THEN bin'["api-server"] ELSE "none"
  /\ inUse' = [inUse EXCEPT !["api-server"] = bin'["api-server"] \in {"old", "new"}]
  /\ UNCHANGED <<backup, rolling, before, damaged, answering>>

\* The MCP server and the command line come and go; a file that was replaced
\* while it ran is no longer the one in use.
Use(b) ==
  /\ b # "api-server" /\ bin[b] \in {"old", "new"}
  /\ inUse' = [inUse EXCEPT ![b] = ~@]
  /\ UNCHANGED <<bin, backup, api, pc, at, rolling, outcome, before, damaged, answering>>

Next ==
  \/ PerformUpgrade \/ backupBinaries \/ downloadBinaries \/ verifyBinaries \/ restartMcp
  \/ restartApi \/ RestartFails \/ SkipRestart \/ restoreBinaries \/ Answer \/ Crash
  \/ \E b \in Binaries : Use(b)

Spec == Init /\ [][Next]_vars
-----------------------------------------------------------------------------
File == {"old", "new", "broken", "absent"}

TypeOK ==
  /\ bin \in [Binaries -> File] /\ backup \in [Binaries -> File] /\ before \in [Binaries -> File]
  /\ inUse \in [Binaries -> BOOLEAN] /\ answering \subseteq Binaries
  /\ api \in {"old", "new", "none"} /\ at \in 1..Len(binaries)
  /\ pc \in {"idle", "backup", "download", "move", "verify", "mcp", "api", "restore", "end"}
  /\ outcome \in {"none", "upgraded", "rolledback", "cut"}
  /\ rolling \in BOOLEAN /\ damaged \in BOOLEAN

\* An upgrade that ends has replaced every binary or none of those that were
\* there, whichever step failed, unless a copy of the rollback went wrong or
\* the process was killed.
AllOrNothing ==
  pc = "idle" /\ ~damaged =>
    /\ outcome = "upgraded" => \A b \in Binaries : bin[b] = "new"
    /\ outcome = "rolledback" => \A b \in Binaries : before[b] # "absent" => bin[b] = before[b]

\* "Check if binary is executable": verification rolls an upgrade back only
\* for a binary that is not there or not executable.
ExecutablesPass ==
  [][verifyBinaries /\ (\A b \in Binaries : bin[b] = "new") => ~rolling']_vars
=============================================================================
