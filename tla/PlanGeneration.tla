--------------------------- MODULE PlanGeneration ---------------------------
(***************************************************************************)
(* Generation of promoted test plans: generate_review_plan (portal.py) and *)
(* generate_promoted (promoted_generation.py), for one reviewed promotion  *)
(* and one plan ID, which fixes the binding file and the output directory. *)
(*                                                                         *)
(* A generator is one POST /api/reviews/{id}/generation request.  Two may  *)
(* carry the same plan ID (the page suggests the number of plans plus one  *)
(* to everybody), and they share nothing but the files.                    *)
(***************************************************************************)
EXTENDS Naturals

CONSTANTS
  Generators,  \* the requests
  Bindings,    \* the contents the binding file may have
  Invalid,     \* bindings that generate_promoted rejects (duplicate, unknown)
  Complete,    \* bindings for which no scenario has a finding
  MaxFaults,   \* bound on failures
  None         \* no file, no directory

VARIABLES
  binding,    \* bindings/<plan_id>.json
  plan,       \* promoted-generated/<plan_id>, see PlanType
  generator,  \* the state of every request
  faults

vars == <<binding, plan, generator, faults>>

\* Each file of the plan is described by the bindings it was computed from.
GateType ==
  [status : {"BLOCKED", "READY_FOR_HUMAN_APPROVAL"}, bindings : Bindings \cup {None}]
PlanType ==
  [gate : GateType \cup {None}, sources : Bindings \cup {None},
   trace : Bindings \cup {None}, cases : Bindings \cup {None}, test : Bindings \cup {None}]

ASSUME GenerationAssumption ==
  /\ Invalid \subseteq Bindings /\ Complete \subseteq Bindings
  /\ Invalid \cap Complete = {}
  /\ None \notin Bindings \cup GateType \cup PlanType
  /\ MaxFaults \in Nat

\* Defect: the test file is forgotten.
EmptyPlanNoTest == [gate |-> None, sources |-> None, trace |-> None, cases |-> None]

EmptyPlan == [gate |-> None, sources |-> None, trace |-> None, cases |-> None, test |-> None]

Init ==
  /\ binding = None
  /\ plan = None
  /\ generator = [g \in Generators |-> [pc |-> "idle", request |-> None, raw |-> None]]
  /\ faults = 0

Goto(g, pc) == generator' = [generator EXCEPT ![g].pc = pc]

-----------------------------------------------------------------------------
\* A request arrives; it is rejected when the plan ID is taken: output.exists()
\* first, binding_file.exists() next.
Request(g) ==
  /\ generator[g].pc = "idle"
  /\ \E b \in Bindings :
       generator' = [generator EXCEPT ![g].request = b,
         ![g].pc = IF plan = None THEN "asked" ELSE "failed"]
  /\ UNCHANGED <<binding, plan, faults>>

TestBinding(g) ==
  /\ generator[g].pc = "asked"
  /\ Goto(g, IF binding = None THEN "checked" ELSE "failed")
  /\ UNCHANGED <<binding, plan, faults>>

\* binding_file.open("x"), inside the try block.
CreateBinding(g) ==
  /\ generator[g].pc = "checked"
  /\ IF binding = None
       THEN binding' = generator[g].request /\ Goto(g, "bound")
       ELSE UNCHANGED binding /\ Goto(g, "raised")
  /\ UNCHANGED <<plan, faults>>

\* generate_promoted reads its inputs, the binding file among them, and checks
\* them.
ReadInputs(g) ==
  /\ generator[g].pc = "bound"
  /\ IF binding = None \/ binding \in Invalid
       THEN Goto(g, "raised")
       ELSE generator' = [generator EXCEPT ![g].pc = "planned", ![g].raw = binding]
  /\ UNCHANGED <<binding, plan, faults>>

\* Defect: exist_ok=True.
MakeDirectoryExistOk(g) ==
  /\ generator[g].pc = "planned"
  /\ plan' = IF plan = None THEN EmptyPlan ELSE plan
  /\ Goto(g, "created")
  /\ UNCHANGED <<binding, faults>>

\* output.mkdir(exist_ok=False).
MakeDirectory(g) ==
  /\ generator[g].pc = "planned"
  /\ IF plan = None
       THEN plan' = EmptyPlan /\ Goto(g, "created")
       ELSE UNCHANGED plan /\ Goto(g, "raised")
  /\ UNCHANGED <<binding, faults>>

Write(g, from, file, value, to) ==
  /\ generator[g].pc = from
  /\ plan' = [plan EXCEPT ![file] = value]
  /\ Goto(g, to)
  /\ UNCHANGED <<binding, faults>>

\* The files in the order generate_promoted writes them: the gate is BLOCKED
\* before anything else and gets its verdict last.
WriteFile(g) ==
  LET raw == generator[g].raw
      ready == raw \in Complete
  IN
  \/ Write(g, "created", "gate", [status |-> "BLOCKED", bindings |-> None], "gated")
  \/ Write(g, "gated", "sources", raw, "sourced")
  \/ Write(g, "sourced", "trace", raw, "traced")
  \/ Write(g, "traced", "cases", raw, IF ready THEN "rendering" ELSE "written")
  \/ Write(g, "rendering", "test", raw, "written")
  \/ Write(g, "written", "gate",
           [status |-> IF ready THEN "READY_FOR_HUMAN_APPROVAL" ELSE "BLOCKED",
            bindings |-> raw], "done")

\* Defect: the handler re-raises without cleaning up.
TestOutputOnly(g) ==
  /\ generator[g].pc = "raised"
  /\ Goto(g, "failed")
  /\ UNCHANGED <<binding, plan, faults>>

\* except: the binding file is removed if there is no output directory.  The
\* test and the removal are two calls.
TestOutput(g) ==
  /\ generator[g].pc = "raised"
  /\ Goto(g, IF plan = None THEN "removing" ELSE "failed")
  /\ UNCHANGED <<binding, plan, faults>>

RemoveBinding(g) ==
  /\ generator[g].pc = "removing"
  /\ binding' = None
  /\ Goto(g, "failed")
  /\ UNCHANGED <<plan, faults>>

\* A write fails or an input has become unreadable ("raised"), or the process
\* dies ("failed").  A file written in part counts as not written: the policy
\* refuses a gate it cannot parse as it refuses BLOCKED.
Fail(g) ==
  /\ faults < MaxFaults
  /\ faults' = faults + 1
  /\ generator[g].pc \notin {"idle", "raised", "removing", "failed", "done"}
  /\ \E pc \in {"raised", "failed"} : Goto(g, pc)
  /\ UNCHANGED <<binding, plan>>

Proceed(g) ==
  \/ TestBinding(g) \/ CreateBinding(g) \/ ReadInputs(g) \/ MakeDirectory(g)
  \/ WriteFile(g) \/ TestOutput(g) \/ RemoveBinding(g)

Next == \E g \in Generators : Request(g) \/ Proceed(g) \/ Fail(g)

Spec == Init /\ [][Next]_vars /\ \A g \in Generators : WF_vars(Proceed(g))

-----------------------------------------------------------------------------
TypeOK ==
  /\ binding \in Bindings \cup {None}
  /\ plan \in PlanType \cup {None}
  /\ generator \in [Generators ->
       [pc : {"idle", "asked", "checked", "bound", "planned", "created", "gated", "sourced",
              "traced", "rendering", "written", "raised", "removing", "done", "failed"},
        request : Bindings \cup {None}, raw : Bindings \cup {None}]]
  /\ faults \in 0..MaxFaults

Finished == plan # None /\ plan.gate # None /\ plan.gate.bindings # None
Ready == plan # None /\ plan.gate # None /\ plan.gate.status = "READY_FOR_HUMAN_APPROVAL"

\* "READY is written last" (docs/modules/19): whatever fails and whoever else
\* uses the plan ID, the gate that the runner reads (policy.py) opens only for a
\* directory whose files are all there and all come from one set of bindings,
\* one that leaves no scenario blocked.
ReadyIsWhole ==
  Ready =>
    /\ plan.gate.bindings \in Complete
    /\ {plan.sources, plan.trace, plan.cases, plan.test} = {plan.gate.bindings}

\* "Existing identifiers are rejected and never overwritten": a finished plan
\* never changes again.
PlanIsImmutable == [][Finished => plan' = plan]_vars

\* No plan ID is stranded: a binding file is removed again or leads to a plan with
\* a verdict, however the requests for the ID collide, unless one of them dies or
\* a write fails.
PlanIsSettled == binding # None ~> (binding = None \/ Finished \/ faults > 0)
=============================================================================
