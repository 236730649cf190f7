------------------------------- MODULE Uptime -------------------------------
(***************************************************************************)
(* Uptime monitors and heartbeats (internal/service/monitor_service.go,    *)
(* monitor_scheduler.go, internal/api/monitor_api.go).  A check reads the  *)
(* row of its monitor, probes the target, stores the result and saves the  *)
(* whole row it read with the new counts.  A sweep reads all heartbeats    *)
(* and then marks the overdue ones one by one.  Checks run from the loop   *)
(* of the scheduler and from requests, next to edits of the same rows.     *)
(***************************************************************************)
EXTENDS Naturals

CONSTANTS Monitors, Checkers,   \* the loop of the scheduler and the requests
          Heartbeats, None,
          Timeout,              \* of a heartbeat, in ticks
          MaxChecks             \* bound on the checks of a monitor

VARIABLES monitor,     \* the rows of the monitors
          checker,     \* per checker: the monitors still to check and the row it read
          results,     \* per monitor: results stored, and those that were not
          counted,     \* per monitor: checks since the row was last written by a request
          overlapped,  \* per monitor: a row read before another write was saved after it
          heartbeat,   \* the rows of the heartbeats, the last beat as an age
          sweep,       \* heartbeats the sweep found overdue and has not marked yet
          raced        \* per heartbeat: it was pinged or made anew after it was found overdue

vars == <<monitor, checker, results, counted, overlapped, heartbeat, sweep, raced>>

Idle == [todo |-> {}, at |-> None, row |-> None, answer |-> None]
Created == [enabled |-> TRUE, total |-> 0, up |-> 0, status |-> "unknown"]

Init ==
  /\ monitor = [m \in Monitors |-> None]
  /\ checker = [c \in Checkers |-> Idle]
  /\ results = [m \in Monitors |-> [stored |-> 0, lost |-> 0]]
  /\ counted = [m \in Monitors |-> [total |-> 0, up |-> 0]]
  /\ overlapped = [m \in Monitors |-> FALSE]
  /\ heartbeat = [h \in Heartbeats |-> None]
  /\ sweep = {}
  /\ raced = [h \in Heartbeats |-> FALSE]

Beats == <<heartbeat, sweep, raced>>
Checks == <<monitor, checker, results, counted, overlapped>>

Held(m) == {c \in Checkers : checker[c].at = m}

\* What a request writes; the checks that have read the row save over it.
Rewritten(m, row) ==
  /\ monitor' = [monitor EXCEPT ![m] = row]
  /\ counted' = [counted EXCEPT ![m] = [total |-> 0, up |-> 0]]
  /\ overlapped' = [overlapped EXCEPT ![m] = Held(m) # {}]
  /\ UNCHANGED <<checker, results, Beats>>

CreateMonitor(m) == monitor[m] = None /\ Rewritten(m, Created)

\* Save writes every column of the request's body, the statistics it does not
\* give included, and inserts the row (enabled by default) when there is none.
UpdateMonitor(m) ==
  \E e \in BOOLEAN :
    Rewritten(m, [Created EXCEPT !.enabled = e \/ monitor[m] = None, !.status = "none"])

DeleteMonitor(m) == monitor[m] # None /\ Rewritten(m, None)

CheckMonitor(c, m) ==
  /\ checker[c].todo = {}
  /\ checker' = [checker EXCEPT ![c].todo = {m}]
  /\ UNCHANGED <<monitor, results, counted, overlapped, Beats>>

CheckAllMonitors(c) ==
  /\ checker[c].todo = {}
  /\ checker' = [checker EXCEPT ![c].todo =
       {m \in Monitors : monitor[m] # None /\ monitor[m].enabled}]
  /\ checker' # checker
  /\ UNCHANGED <<monitor, results, counted, overlapped, Beats>>

\* A monitor that is gone is skipped.
GetMonitor(c, m) ==
  /\ m \in checker[c].todo
  /\ checker[c].at = None
  /\ checker' = [checker EXCEPT ![c] =
       IF monitor[m] = None THEN [@ EXCEPT !.todo = checker[c].todo \ {m}]
       ELSE [@ EXCEPT !.at = m, !.row = monitor[m]]]
  /\ UNCHANGED <<monitor, results, counted, overlapped, Beats>>

\* The target was probed; that the result cannot be stored is only logged.
SaveResult(c) ==
  LET m == checker[c].at
  IN  /\ m # None
      /\ checker[c].answer = None
      /\ results[m].stored + results[m].lost < MaxChecks
      /\ \E answer \in {"up", "down"}, stored \in BOOLEAN :
           /\ results' = [results EXCEPT ![m] = IF stored THEN [@ EXCEPT !.stored = @ + 1]
                                                          ELSE [@ EXCEPT !.lost = @ + 1]]
           /\ checker' = [checker EXCEPT ![c].answer = answer]
      /\ UNCHANGED <<monitor, counted, overlapped, Beats>>

One(answer) == IF answer = "up" THEN 1 ELSE 0

\* A plausible bug: a check that finds the target down is not counted.
CountUpOnly(row, answer) ==
  [row EXCEPT !.total = @ + One(answer), !.up = @ + One(answer), !.status = answer]

Counted(row, answer) ==
  [row EXCEPT !.total = @ + 1, !.up = @ + One(answer), !.status = answer]

\* The row read before the probe is saved whole; a row deleted meanwhile is
\* inserted again, enabled.
updateMonitorStats(c) ==
  LET m   == checker[c].at
      row == Counted(checker[c].row, checker[c].answer)
  IN  /\ checker[c].answer # None
      /\ checker' = [checker EXCEPT ![c] = [Idle EXCEPT !.todo = checker[c].todo \ {m}]]
      /\ \/ /\ monitor' = [monitor EXCEPT ![m] =
                 IF @ = None THEN [row EXCEPT !.enabled = TRUE] ELSE row]
            /\ counted' = [counted EXCEPT ![m] =
                 [total |-> @.total + 1, up |-> @.up + One(checker[c].answer)]]
            /\ overlapped' = [overlapped EXCEPT ![m] = @ \/ Held(m) # {c}]
         \/ UNCHANGED <<monitor, counted, overlapped>>
      /\ UNCHANGED <<results, Beats>>
-----------------------------------------------------------------------------
CreateHeartbeat(h) ==
  /\ heartbeat[h] = None
  /\ heartbeat' = [heartbeat EXCEPT ![h] = [age |-> None, status |-> "unknown"]]
  /\ raced' = [raced EXCEPT ![h] = h \in sweep]
  /\ UNCHANGED <<sweep, Checks>>

DeleteHeartbeat(h) ==
  /\ heartbeat[h] # None
  /\ heartbeat' = [heartbeat EXCEPT ![h] = None]
  /\ UNCHANGED <<sweep, raced, Checks>>

\* A plausible bug: a ping moves the last beat and leaves the status.
BeatOnly(row) == [row EXCEPT !.age = 0]

Beat(row) == [age |-> 0, status |-> "up"]

PingHeartbeat(h) ==
  /\ heartbeat[h] # None
  /\ heartbeat' = [heartbeat EXCEPT ![h] = Beat(heartbeat[h])]
  /\ raced' = [raced EXCEPT ![h] = h \in sweep]
  /\ UNCHANGED <<sweep, Checks>>

Overdue(h) ==
  /\ heartbeat[h] # None
  /\ heartbeat[h].age # None
  /\ heartbeat[h].age > Timeout

\* The rows are read and compared with one reading of the clock...
CheckHeartbeats ==
  /\ sweep = {}
  /\ sweep' = {h \in Heartbeats : Overdue(h)}
  /\ sweep' # {}
  /\ UNCHANGED <<heartbeat, raced, Checks>>

\* ...and marked one after another, whatever they say by then.
MarkDown(h) ==
  /\ h \in sweep
  /\ sweep' = sweep \ {h}
  /\ \/ /\ heartbeat[h] # None
        /\ heartbeat' = [heartbeat EXCEPT ![h].status = "down"]
     \/ UNCHANGED heartbeat
  /\ UNCHANGED <<raced, Checks>>

Tick ==
  /\ heartbeat' = [h \in Heartbeats |->
       IF heartbeat[h] = None \/ heartbeat[h].age = None \/ Overdue(h) THEN heartbeat[h]
       ELSE [heartbeat[h] EXCEPT !.age = @ + 1]]
  /\ heartbeat' # heartbeat
  /\ UNCHANGED <<sweep, raced, Checks>>

Next ==
  \/ \E m \in Monitors : CreateMonitor(m) \/ UpdateMonitor(m) \/ DeleteMonitor(m)
  \/ \E c \in Checkers :
       \/ CheckAllMonitors(c) \/ SaveResult(c) \/ updateMonitorStats(c)
       \/ \E m \in Monitors : CheckMonitor(c, m) \/ GetMonitor(c, m)
  \/ \E h \in Heartbeats :
       CreateHeartbeat(h) \/ DeleteHeartbeat(h) \/ PingHeartbeat(h) \/ MarkDown(h)
  \/ CheckHeartbeats \/ Tick

Spec == Init /\ [][Next]_vars
-----------------------------------------------------------------------------
Stats == [enabled : BOOLEAN, total : 0..MaxChecks, up : 0..MaxChecks,
          status : {"unknown", "none", "up", "down"}]

TypeOK ==
  /\ monitor \in [Monitors -> Stats \union {None}]
  /\ checker \in [Checkers -> [todo : SUBSET Monitors, at : Monitors \union {None},
                               row : Stats \union {None},
                               answer : {None, "up", "down"}]]
  /\ results \in [Monitors -> [stored : 0..MaxChecks, lost : 0..MaxChecks]]
  /\ counted \in [Monitors -> [total : 0..MaxChecks, up : 0..MaxChecks]]
  /\ overlapped \in [Monitors -> BOOLEAN]
  /\ heartbeat \in [Heartbeats -> [age : (0..(Timeout + 1)) \union {None},
                                   status : {"unknown", "up", "down"}] \union {None}]
  /\ sweep \subseteq Heartbeats /\ raced \in [Heartbeats -> BOOLEAN]

\* The uptime a monitor shows is the share of its checks that found it up:
\* its counts are those of every check saved since a request last wrote the
\* row, unless a check saved a row it had read before another save.
StatsAddUp ==
  \A m \in Monitors :
    monitor[m] # None /\ ~overlapped[m] =>
      <<monitor[m].total, monitor[m].up>> = <<counted[m].total, counted[m].up>>

\* A heartbeat shown as down is overdue, unless a ping arrived (or the
\* row was made anew) between the sweep's reading of it and its marking; then
\* it stays down till the next ping although its job is alive.
DownIsOverdue ==
  \A h \in Heartbeats :
    heartbeat[h] # None /\ heartbeat[h].status = "down" => Overdue(h) \/ raced[h]
=============================================================================
