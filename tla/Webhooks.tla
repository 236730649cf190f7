------------------------------ MODULE Webhooks ------------------------------
(***************************************************************************)
(* One outbound webhook (internal/service/outbound_webhook_service.go) and *)
(* the handlers that change it (internal/api/outbound_webhook_api.go).  A  *)
(* delivery copies the row of the webhook when its event arrives, posts,   *)
(* writes a record of the delivery and saves its copy of the row with the  *)
(* outcome; failed deliveries are posted again, from the same copy.  A     *)
(* save updates the row, or inserts it when it is gone.                    *)
(*                                                                         *)
(* As the server is put together its handlers end in a panic before they   *)
(* reach the service (HandlersFindDB of RequestPipeline): the module is    *)
(* the service as the source calls it.                                     *)
(***************************************************************************)
EXTENDS Naturals, FiniteSets

CONSTANTS Events, None,
          MaxRetries,   \* a field of the row
          Slots,        \* webhookSem
          MaxEdits      \* bound on the changes made by administrators

WebhookAssumption == MaxRetries \in Nat

VARIABLES hook,       \* the row: present, its configuration, the last status
          delivery,   \* per event: its goroutine
          record,     \* per event: its row in webhook_deliveries
          serving,    \* the context of the service
          edits,      \* number of changes made by administrators
          intended,   \* history: presence and configuration as last asked for
          disturbed   \* history: a change was made while a delivery was in flight

vars == <<hook, delivery, record, serving, edits, intended, disturbed>>

Row == [present : BOOLEAN, config : 0..MaxEdits, enabled : BOOLEAN, last : {"", "success", "failed"}]

Off == [pc |-> "off", copy |-> None, posts |-> 0, ok |-> FALSE, lost |-> FALSE]

Init ==
  /\ hook = [present |-> TRUE, config |-> 0, enabled |-> TRUE, last |-> ""]
  /\ delivery = [e \in Events |-> Off]
  /\ record = [e \in Events |-> None]
  /\ serving = TRUE
  /\ edits = 0
  /\ intended = [present |-> TRUE, config |-> 0, enabled |-> TRUE]
  /\ disturbed = FALSE

InFlight == {e \in Events : delivery[e].pc \notin {"off", "done"}}

Becomes(e, d) == delivery' = [delivery EXCEPT ![e] = d]
-----------------------------------------------------------------------------
(* Administrators *)

Changed(row) ==
  /\ edits < MaxEdits
  /\ hook' = row
  /\ edits' = edits + 1
  /\ intended' = [present |-> row.present, config |-> row.config, enabled |-> row.enabled]
  /\ disturbed' = (InFlight # {})
  /\ UNCHANGED <<delivery, record, serving>>

\* The row of the request is saved: what the request cannot name is cleared,
\* and a webhook that was deleted is there again.
UpdateWebhook ==
  \E b \in BOOLEAN : Changed([present |-> TRUE, config |-> edits + 1, enabled |-> b, last |-> ""])

DeleteWebhook == Changed([hook EXCEPT !.present = FALSE])
-----------------------------------------------------------------------------
(* Deliveries *)

\* A plausible bug: the webhooks are read once, when the service starts.
ReadAtStart(e) == [present |-> TRUE, config |-> 0, enabled |-> TRUE, last |-> ""]

Loaded(e) == hook

\* handleEvent: only enabled webhooks are delivered to.
HandleEvent(e) ==
  /\ serving
  /\ delivery[e].pc = "off" /\ Loaded(e).present /\ Loaded(e).enabled
  /\ Becomes(e, [Off EXCEPT !.pc = "queued", !.copy = Loaded(e)])
  /\ UNCHANGED <<hook, record, serving, edits, intended, disturbed>>

\* A plausible bug: the slot is returned before the outcome is saved.
HoldsUntilPosted(e) == delivery[e].pc = "posted" /\ delivery[e].posts = 1

HoldsSlot(e) == delivery[e].pc \in {"posted", "recorded"} /\ delivery[e].posts = 1

HasSlot == Cardinality({f \in Events : HoldsSlot(f)}) < Slots

\* The URL is not one a request can be made for, or its host may not be asked:
\* nothing is posted, recorded or saved.
Refuse(e) ==
  /\ delivery[e].pc = "queued" /\ HasSlot
  /\ serving
  /\ Becomes(e, [delivery[e] EXCEPT !.pc = "done"])
  /\ UNCHANGED <<hook, record, serving, edits, intended, disturbed>>

\* Without a slot, or after Stop, the first post waits or is given up; a
\* request whose context ends has failed.
Post(e) ==
  /\ (delivery[e].pc = "queued" /\ HasSlot) \/ delivery[e].pc = "waiting"
  /\ serving
  /\ \E ok \in BOOLEAN :
       Becomes(e, [delivery[e] EXCEPT !.pc = "posted", !.posts = @ + 1, !.ok = ok])
  /\ UNCHANGED <<hook, record, serving, edits, intended, disturbed>>

GiveUp(e) ==
  /\ delivery[e].pc \in {"queued", "waiting"}
  /\ ~serving
  /\ Becomes(e, [delivery[e] EXCEPT !.pc = "done"])
  /\ UNCHANGED <<hook, record, serving, edits, intended, disturbed>>

\* An error of either write is only logged.
SaveRecord(e) ==
  /\ delivery[e].pc = "posted"
  /\ \/ /\ record' = [record EXCEPT ![e] = [attempt |-> delivery[e].posts, success |-> delivery[e].ok]]
        /\ Becomes(e, [delivery[e] EXCEPT !.pc = "recorded", !.lost = FALSE])
     \/ /\ Becomes(e, [delivery[e] EXCEPT !.pc = "recorded", !.lost = TRUE])
        /\ UNCHANGED record
  /\ UNCHANGED <<hook, serving, edits, intended, disturbed>>

\* A plausible bug: a delivery that succeeded late is posted once more.
TriesAnyway(e) == delivery[e].posts < MaxRetries

TriesAgain(e) == ~delivery[e].ok /\ delivery[e].posts < MaxRetries

SaveWebhook(e) ==
  LET row == [delivery[e].copy EXCEPT !.last = IF delivery[e].ok THEN "success" ELSE "failed"]
  IN  /\ delivery[e].pc = "recorded"
      /\ hook' = row \/ UNCHANGED hook
      /\ Becomes(e, [delivery[e] EXCEPT !.copy = row,
                                        !.pc = IF TriesAgain(e) THEN "waiting" ELSE "done"])
      /\ UNCHANGED <<record, serving, edits, intended, disturbed>>

Stop ==
  /\ serving
  /\ serving' = FALSE
  /\ UNCHANGED <<hook, delivery, record, edits, intended, disturbed>>

Next ==
  \/ UpdateWebhook \/ DeleteWebhook \/ Stop
  \/ \E e \in Events : HandleEvent(e) \/ Refuse(e) \/ Post(e) \/ GiveUp(e) \/ SaveRecord(e)
                     \/ SaveWebhook(e)

Spec == Init /\ [][Next]_vars
-----------------------------------------------------------------------------
TypeOK ==
  /\ hook \in Row
  /\ delivery \in [Events -> [pc : {"off", "queued", "posted", "recorded", "waiting", "done"},
                              copy : Row \union {None}, posts : 0..(MaxRetries + 1),
                              ok : BOOLEAN, lost : BOOLEAN]]
  /\ record \in [Events -> [attempt : 1..(MaxRetries + 1), success : BOOLEAN] \union {None}]
  /\ serving \in BOOLEAN /\ edits \in 0..MaxEdits /\ disturbed \in BOOLEAN
  /\ intended \in [present : BOOLEAN, config : 0..MaxEdits, enabled : BOOLEAN]
  /\ Cardinality({e \in Events : delivery[e].pc \in {"posted", "recorded"}
                                /\ delivery[e].posts = 1}) <= Slots

\* A change an administrator makes while no delivery is in flight stands, as
\* long as nothing else is asked for, however many deliveries follow; what is
\* changed during a delivery may be undone by the save of its copy.
ChangesStand ==
  disturbed \/ intended = [present |-> hook.present, config |-> hook.config, enabled |-> hook.enabled]

\* When a delivery ends, its record (unless the last save of it failed) has
\* the number of posts that were made and says whether the last one succeeded;
\* a delivery that is not cut short by Stop ends with the first success or
\* with the last post it is allowed.
RecordIsTrue ==
  \A e \in Events :
    delivery[e].pc = "done" /\ delivery[e].posts > 0 =>
      /\ ~delivery[e].lost => record[e] = [attempt |-> delivery[e].posts, success |-> delivery[e].ok]
      /\ serving => delivery[e].ok \/ delivery[e].posts = IF MaxRetries = 0 THEN 1 ELSE MaxRetries
      /\ record[e] # None /\ record[e].success => record[e].attempt = delivery[e].posts
=============================================================================
