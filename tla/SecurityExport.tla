--------------------------- MODULE SecurityExport ---------------------------
(***************************************************************************)
(* export_security_events (security_export.py), run repeatedly next to the *)
(* logins that record the events.                                          *)
(*                                                                         *)
(* Exporters are processes that share a checkpoint file, which is replaced *)
(* atomically, and that nothing keeps from overlapping.  The identifiers   *)
(* of security_events are assigned in the order of its transactions, and   *)
(* no row is ever deleted.                                                 *)
(***************************************************************************)
EXTENDS StateService, FiniteSetsExt

CONSTANTS Exporters,
          BatchSize,
          MaxAttempts,  \* posts of one batch: 3 in the code
          MaxFaults     \* bound on failing posts and on crashes

ASSUME ExportAssumption ==
  BatchSize \in Nat \ {0} /\ MaxAttempts \in Nat \ {0} /\ MaxFaults \in Nat

VARIABLES checkpoint,  \* last_event_id, 0 without a file
          collector,   \* the event IDs that the collector has stored
          exporter,    \* the state of every exporter
          faults

exportVars == <<checkpoint, collector, exporter, faults>>
vars == <<serviceVars, exportVars>>

Idle == [pc |-> "idle", after |-> 0, last |-> 0, attempt |-> 0]

Init ==
  /\ ServiceInit
  /\ checkpoint = 0 /\ collector = {}
  /\ exporter = [x \in Exporters |-> Idle]
  /\ faults = 0

-----------------------------------------------------------------------------
At(x, pc) == exporter[x].pc = pc
End(x) == exporter' = [exporter EXCEPT ![x] = Idle]

LoadCheckpoint(x) ==
  /\ At(x, "idle")
  /\ exporter' = [exporter EXCEPT ![x].pc = "loaded", ![x].after = checkpoint]
  /\ UNCHANGED <<serviceVars, checkpoint, collector, faults>>

\* Defect: only full batches are exported.
ReadFullBatch(x) ==
  LET last == exporter[x].after + BatchSize IN
  /\ At(x, "loaded")
  /\ IF last <= Len(events)
       THEN exporter' = [exporter EXCEPT ![x].pc = "posting", ![x].last = last, ![x].attempt = 1]
       ELSE End(x)
  /\ UNCHANGED <<serviceVars, checkpoint, collector, faults>>

\* _read_events: ORDER BY event_id LIMIT batch_size.  NO_EVENTS ends the run.
ReadEvents(x) ==
  LET last == Min({exporter[x].after + BatchSize, Len(events)}) IN
  /\ At(x, "loaded")
  /\ IF last > exporter[x].after
       THEN exporter' = [exporter EXCEPT ![x].pc = "posting", ![x].last = last, ![x].attempt = 1]
       ELSE End(x)
  /\ UNCHANGED <<serviceVars, checkpoint, collector, faults>>

Batch(x) == (exporter[x].after + 1)..exporter[x].last

\* The collector answers 200 or 202.
Post(x) ==
  /\ At(x, "posting")
  /\ collector' = collector \cup Batch(x)
  /\ exporter' = [exporter EXCEPT ![x].pc = "accepted", ![x].attempt = 0]
  /\ UNCHANGED <<serviceVars, checkpoint, faults>>

\* httpx.HTTPError, 429 or 5xx, with or without the batch being stored; another
\* status, or a third failure, ends the run.
FailPost(x) ==
  /\ At(x, "posting")
  /\ faults < MaxFaults /\ faults' = faults + 1
  /\ \/ UNCHANGED collector
     \/ collector' = collector \cup Batch(x)
  /\ \/ End(x)
     \/ /\ exporter[x].attempt < MaxAttempts
        /\ exporter' = [exporter EXCEPT ![x].attempt = @ + 1]
  /\ UNCHANGED <<serviceVars, checkpoint>>

\* Defect: the checkpoint is that of the events there are, not of the batch.
WriteNewest(x) ==
  /\ At(x, "accepted")
  /\ checkpoint' = Len(events)
  /\ End(x)
  /\ UNCHANGED <<serviceVars, collector, faults>>

\* _write_checkpoint: the last event of the batch.
WriteCheckpoint(x) ==
  /\ At(x, "accepted")
  /\ checkpoint' = exporter[x].last
  /\ End(x)
  /\ UNCHANGED <<serviceVars, collector, faults>>

Crash(x) ==
  /\ ~ At(x, "idle")
  /\ faults < MaxFaults /\ faults' = faults + 1
  /\ End(x)
  /\ UNCHANGED <<serviceVars, checkpoint, collector>>

Export(x) == LoadCheckpoint(x) \/ ReadEvents(x) \/ Post(x) \/ WriteCheckpoint(x)

Next ==
  \/ ServiceNext /\ UNCHANGED exportVars
  \/ \E x \in Exporters : Export(x) \/ FailPost(x) \/ Crash(x)

\* The operator keeps running the export (scripts/export-portal-security.ps1).
Spec == Init /\ [][Next]_vars /\ \A x \in Exporters : WF_vars(Export(x))

-----------------------------------------------------------------------------
ExporterType ==
  [pc : {"idle", "loaded", "posting", "accepted"}, after : Nat, last : Nat,
   attempt : 0..MaxAttempts]

TypeOK ==
  /\ ServiceTypeOK
  /\ checkpoint \in Nat /\ collector \subseteq DOMAIN events
  /\ exporter \in [Exporters -> ExporterType]
  /\ faults \in 0..MaxFaults

\* "A confined checkpoint advances only after 200 or 202" (docs/modules/36):
\* although exporters overlap, overwrite each other's checkpoint and die, the
\* collector has every event up to the checkpoint and has no gap.
NothingSkipped ==
  /\ 1..checkpoint \subseteq collector
  /\ \A n \in collector : 1..n \subseteq collector

\* What an exporter knows of the collector; the inductive invariant.
ExporterInv(x) ==
  /\ ~ At(x, "idle") => 1..exporter[x].after \subseteq collector
  /\ At(x, "posting") => exporter[x].after < exporter[x].last /\ exporter[x].last <= Len(events)
  /\ At(x, "accepted") => 1..exporter[x].last \subseteq collector

ExportInv ==
  /\ TypeOK /\ ServiceInv
  /\ \E n \in Nat : collector = 1..n
  /\ 1..checkpoint \subseteq collector
  /\ \A x \in Exporters : ExporterInv(x)

\* The export delivers every event in order, at least once and in the end.
Delivery == INSTANCE AtLeastOnceDelivery WITH recorded <- Len(events), delivered <- collector
ImplementsDelivery == Delivery!DeliverySpec
=============================================================================
