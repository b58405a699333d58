------------------------ MODULE PlanGeneration_proof ------------------------
(* For any number of requests, bindings and failures: the gate opens only    *)
(* for whole plans, and a plan with a verdict never changes again.           *)
EXTENDS PlanGeneration, TLAPS

\* A request writes a plan after it has created the directory.
Writing == {"created", "gated", "sourced", "traced", "rendering", "written"}

Blocked == [status |-> "BLOCKED", bindings |-> None]

GeneratorType ==
  [pc : Writing \cup {"idle", "asked", "checked", "bound", "planned", "raised", "removing",
         "done", "failed"},
   request : Bindings \cup {None}, raw : Bindings \cup {None}]

\* What a request knows of the directory that it has created: the files that it
\* has written are there, and the gate is closed.
Progress(pc, raw) ==
  /\ raw \in Bindings /\ plan # None
  /\ IF pc = "created" THEN plan = EmptyPlan ELSE plan.gate = Blocked
  /\ pc \in {"sourced", "traced", "rendering", "written"} => plan.sources = raw
  /\ pc \in {"traced", "rendering", "written"} => plan.trace = raw
  /\ pc \in {"rendering", "written"} => plan.cases = raw
  /\ pc = "rendering" => raw \in Complete
  /\ pc = "written" /\ raw \in Complete => plan.test = raw

GeneratorInv(g) ==
  /\ generator[g].pc = "planned" => generator[g].raw \in Bindings
  /\ generator[g].pc \in Writing => Progress(generator[g].pc, generator[g].raw)
  /\ generator[g].pc = "checked" => generator[g].request \in Bindings
  /\ generator[g].pc = "asked" => generator[g].request \in Bindings

\* The inductive invariant: the directory has one writer at most.
PlanInv ==
  /\ TypeOK
  /\ \A g, h \in Generators :
       generator[g].pc \in Writing /\ generator[h].pc \in Writing => g = h
  /\ \A g \in Generators : GeneratorInv(g)
  /\ ReadyIsWhole

\* There is neither a binding nor a plan at the start.
LEMMA InitInv == Init => PlanInv
BY GenerationAssumption
   DEF Init, PlanInv, TypeOK, GeneratorInv, ReadyIsWhole, Ready, Writing

\* The types, with the type of a request named.
LEMMA TypeOfGenerators ==
  TypeOK <=> /\ binding \in Bindings \cup {None} /\ plan \in PlanType \cup {None}
             /\ generator \in [Generators -> GeneratorType] /\ faults \in 0..MaxFaults
<1>1. GeneratorType =
       [pc : {"idle", "asked", "checked", "bound", "planned", "created", "gated", "sourced",
              "traced", "rendering", "written", "raised", "removing", "done", "failed"},
        request : Bindings \cup {None}, raw : Bindings \cup {None}]
  BY DEF GeneratorType, Writing
<1> QED
  BY <1>1 DEF TypeOK

\* A step that writes no file of the plan and begins no plan.
LEMMA QuietStep ==
  ASSUME PlanInv, NEW g \in Generators, NEW new \in GeneratorType,
         generator' = [generator EXCEPT ![g] = new], plan' = plan,
         new.pc \notin Writing, new.pc = "planned" => new.raw \in Bindings,
         new.pc \in {"asked", "checked"} => new.request \in Bindings,
         binding' \in Bindings \cup {None}, faults' \in 0..MaxFaults
  PROVE  PlanInv'
<1>0. generator \in [Generators -> GeneratorType]
  BY TypeOfGenerators DEF PlanInv
<1>1. generator' \in [Generators -> GeneratorType]
  BY <1>0
<1>2. TypeOK'
  <2>1. plan' \in PlanType \cup {None}
    BY DEF PlanInv, TypeOK
  <2> QED
    BY <1>1, <2>1 DEF TypeOK, GeneratorType, Writing
<1>3. /\ generator'[g] = new
      /\ \A h \in Generators \ {g} : generator'[h] = generator[h]
  BY <1>0
<1>4. \A h \in Generators : GeneratorInv(h)'
  <2> SUFFICES ASSUME NEW h \in Generators PROVE GeneratorInv(h)'
    OBVIOUS
  <2>1. CASE h = g
    BY <1>3, <2>1 DEF GeneratorInv, Writing
  <2>2. CASE h # g
    BY <1>3, <2>2 DEF PlanInv, GeneratorInv, Progress
  <2> QED
    BY <2>1, <2>2
<1>5. \A h, k \in Generators :
        generator'[h].pc \in Writing /\ generator'[k].pc \in Writing => h = k
  BY <1>3 DEF PlanInv
<1>6. ReadyIsWhole'
  BY DEF PlanInv, ReadyIsWhole, Ready
<1> QED
  BY <1>2, <1>4, <1>5, <1>6 DEF PlanInv

\* A step of the one writer, or of who becomes it.
LEMMA WriterStep ==
  ASSUME PlanInv, NEW g \in Generators, NEW new \in GeneratorType,
         generator' = [generator EXCEPT ![g] = new],
         plan = None \/ generator[g].pc \in Writing,
         plan' \in PlanType, UNCHANGED <<binding, faults>>,
         new.pc \in Writing \cup {"done"},
         new.pc \in Writing => Progress(new.pc, new.raw)',
         ReadyIsWhole'
  PROVE  PlanInv'
<1>0. generator \in [Generators -> GeneratorType]
  BY TypeOfGenerators DEF PlanInv
<1>1. generator' \in [Generators -> GeneratorType]
  BY <1>0
<1>2. TypeOK'
  BY <1>1 DEF PlanInv, TypeOK, GeneratorType, Writing
<1>3. /\ generator'[g] = new
      /\ \A h \in Generators \ {g} : generator'[h] = generator[h]
  BY <1>0
<1>4. \A h \in Generators \ {g} : generator[h].pc \notin Writing
  BY DEF PlanInv, GeneratorInv, Progress
<1>5. \A h \in Generators : GeneratorInv(h)'
  <2> SUFFICES ASSUME NEW h \in Generators PROVE GeneratorInv(h)'
    OBVIOUS
  <2>1. CASE h = g
    BY <1>3, <2>1 DEF GeneratorInv, Writing
  <2>2. CASE h # g
    BY <1>3, <1>4, <2>2 DEF PlanInv, GeneratorInv
  <2> QED
    BY <2>1, <2>2
<1> QED
  BY <1>2, <1>3, <1>4, <1>5 DEF PlanInv

\* Goto moves one request and keeps what it knows.
LEMMA GotoMoves ==
  ASSUME TypeOK, NEW g \in Generators, NEW pc, Goto(g, pc),
         pc \in {"checked", "bound", "raised", "removing", "failed"}
  PROVE  \E new \in GeneratorType :
           /\ generator' = [generator EXCEPT ![g] = new]
           /\ new.pc = pc /\ new.request = generator[g].request /\ new.raw = generator[g].raw
<1> DEFINE new == [generator[g] EXCEPT !.pc = pc]
<1>1. generator' = [generator EXCEPT ![g] = new]
  BY DEF Goto
<1>2. generator[g] \in GeneratorType
  BY TypeOfGenerators
<1>3. new \in GeneratorType /\ new.pc = pc /\ new.request = generator[g].request /\ new.raw = generator[g].raw
  BY <1>2 DEF GeneratorType
<1> QED
  BY <1>1, <1>3

\* A step to a phase in which nothing is written.
LEMMA QuietGoto ==
  ASSUME PlanInv, NEW g \in Generators, NEW pc, Goto(g, pc),
         pc \in {"checked", "bound", "raised", "removing", "failed"},
         pc = "checked" => generator[g].request \in Bindings, plan' = plan,
         binding' \in Bindings \cup {None}, faults' \in 0..MaxFaults
  PROVE  PlanInv'
<1>1. PICK new \in GeneratorType :
        /\ generator' = [generator EXCEPT ![g] = new]
        /\ new.pc = pc /\ new.request = generator[g].request /\ new.raw = generator[g].raw
  BY GotoMoves DEF PlanInv
<1>2. new.pc \notin Writing /\ new.pc # "planned"
  BY <1>1 DEF Writing
<1> QED
  BY <1>1, <1>2, QuietStep

\* The request at g writes one file of the plan.
LEMMA WriteKeepsInv ==
  ASSUME PlanInv, NEW g \in Generators, WriteFile(g)
  PROVE  PlanInv'
<1> USE GenerationAssumption
<1>1. generator[g] \in GeneratorType /\ generator \in [Generators -> GeneratorType]
  BY TypeOfGenerators DEF PlanInv
<1>2. generator[g].pc \in Writing
  BY DEF WriteFile, Write, Writing
<1>3. PICK raw : raw = generator[g].raw
  OBVIOUS
<1>4. Progress(generator[g].pc, raw)
  BY <1>2, <1>3 DEF PlanInv, GeneratorInv
<1>5. raw \in Bindings /\ plan \in PlanType
  BY <1>4 DEF Progress, PlanInv, TypeOK
<1>6. ASSUME NEW from, NEW to \in Writing \cup {"done"}, NEW file, NEW value,
             Write(g, from, file, value, to), plan' \in PlanType,
             to \in Writing => Progress(to, raw)', ReadyIsWhole'
      PROVE  PlanInv'
  <2>1. \E new \in GeneratorType :
          /\ generator' = [generator EXCEPT ![g] = new]
          /\ new.pc = to /\ new.raw = raw
    <3> DEFINE new == [generator[g] EXCEPT !.pc = to]
    <3>1. generator' = [generator EXCEPT ![g] = new]
      BY <1>6 DEF Write, Goto
    <3>2. new \in GeneratorType /\ new.pc = to /\ new.raw = raw
      BY <1>1, <1>3 DEF GeneratorType
    <3> HIDE DEF new
    <3> QED
      BY <3>1, <3>2
  <2>2. PICK new \in GeneratorType :
          /\ generator' = [generator EXCEPT ![g] = new]
          /\ new.pc = to /\ new.raw = raw
    BY <2>1
  <2>3. new.pc \in Writing => Progress(new.pc, new.raw)'
    BY <1>6, <2>2
  <2>4. UNCHANGED <<binding, faults>>
    BY <1>6 DEF Write
  <2> QED
    BY <1>2, <1>6, <2>2, <2>3, <2>4, WriterStep
<1> USE DEF Progress, PlanType, GateType, EmptyPlan, Blocked, ReadyIsWhole, Ready
<1>7. CASE Write(g, "created", "gate", Blocked, "gated")
  <2>1. plan' = [plan EXCEPT !.gate = Blocked]
    BY <1>7 DEF Write
  <2>2. plan' \in PlanType /\ plan'.gate = Blocked
    BY <1>5, <2>1
  <2>3. Progress("gated", raw)' /\ ReadyIsWhole'
    BY <1>5, <2>2
  <2> QED
    BY <1>6, <1>7, <2>2, <2>3 DEF Writing
<1>8. CASE Write(g, "gated", "sources", raw, "sourced")
  <2>1. plan' = [plan EXCEPT !.sources = raw] /\ generator[g].pc = "gated"
    BY <1>8 DEF Write
  <2> QED
    BY <1>4, <1>5, <1>6, <1>8, <2>1 DEF Writing
<1>9. CASE Write(g, "sourced", "trace", raw, "traced")
  <2>1. plan' = [plan EXCEPT !.trace = raw] /\ generator[g].pc = "sourced"
    BY <1>9 DEF Write
  <2> QED
    BY <1>4, <1>5, <1>6, <1>9, <2>1 DEF Writing
<1>10. CASE Write(g, "traced", "cases", raw, IF raw \in Complete THEN "rendering" ELSE "written")
  <2>1. plan' = [plan EXCEPT !.cases = raw] /\ generator[g].pc = "traced"
    BY <1>10 DEF Write
  <2> QED
    BY <1>4, <1>5, <1>6, <1>10, <2>1 DEF Writing
<1>11. CASE Write(g, "rendering", "test", raw, "written")
  <2>1. plan' = [plan EXCEPT !.test = raw] /\ generator[g].pc = "rendering"
    BY <1>11 DEF Write
  <2> QED
    BY <1>4, <1>5, <1>6, <1>11, <2>1 DEF Writing
<1>12. CASE Write(g, "written", "gate",
              [status |-> IF raw \in Complete THEN "READY_FOR_HUMAN_APPROVAL" ELSE "BLOCKED",
               bindings |-> raw], "done")
  <2> DEFINE gate == [status |-> IF raw \in Complete THEN "READY_FOR_HUMAN_APPROVAL" ELSE "BLOCKED",
                      bindings |-> raw]
  <2>1. plan' = [plan EXCEPT !.gate = gate] /\ generator[g].pc = "written"
    BY <1>12 DEF Write
  <2>2. gate \in GateType /\ gate.bindings = raw
        /\ (gate.status = "READY_FOR_HUMAN_APPROVAL" => raw \in Complete)
    BY <1>5
  <2>3. plan'.gate = gate /\ plan' \in PlanType
        /\ plan'.sources = plan.sources /\ plan'.trace = plan.trace
        /\ plan'.cases = plan.cases /\ plan'.test = plan.test
    BY <1>5, <2>1, <2>2
  <2>4. ReadyIsWhole'
    BY <1>4, <2>1, <2>2, <2>3
  <2> QED
    BY <1>6, <1>12, <2>3, <2>4 DEF Writing
<1> QED
  BY <1>3, <1>7, <1>8, <1>9, <1>10, <1>11, <1>12 DEF WriteFile, Blocked

\* mkdir lets one request write, and only where no plan is.
LEMMA CreateKeepsInv ==
  ASSUME PlanInv, NEW g \in Generators, MakeDirectory(g)
  PROVE  PlanInv'
<1>1. CASE plan = None
  <2>1. PICK raw : raw = generator[g].raw
    OBVIOUS
  <2>2. raw \in Bindings /\ generator[g] \in GeneratorType
    BY <2>1, TypeOfGenerators DEF PlanInv, GeneratorInv, MakeDirectory
  <2>3. \E new \in GeneratorType :
          /\ generator' = [generator EXCEPT ![g] = new]
          /\ new.pc = "created" /\ new.raw = raw
    <3> DEFINE new == [generator[g] EXCEPT !.pc = "created"]
    <3>1. generator' = [generator EXCEPT ![g] = new]
      BY <1>1 DEF MakeDirectory, Goto
    <3>2. new \in GeneratorType /\ new.pc = "created" /\ new.raw = raw
      BY <2>1, <2>2 DEF GeneratorType, Writing
    <3> HIDE DEF new
    <3> QED
      BY <3>1, <3>2
  <2>4. PICK new \in GeneratorType :
          /\ generator' = [generator EXCEPT ![g] = new]
          /\ new.pc = "created" /\ new.raw = raw
    BY <2>3
  <2>5. plan' = EmptyPlan /\ EmptyPlan \in PlanType /\ EmptyPlan # None
    BY <1>1, GenerationAssumption DEF MakeDirectory, EmptyPlan, PlanType
  <2>6. Progress(new.pc, new.raw)' /\ ReadyIsWhole'
    BY <2>2, <2>4, <2>5 DEF Progress, ReadyIsWhole, Ready, EmptyPlan
  <2>7. UNCHANGED <<binding, faults>> /\ new.pc \in Writing
    BY <2>4 DEF MakeDirectory, Writing
  <2> QED
    BY <1>1, <2>4, <2>5, <2>6, <2>7, WriterStep
<1>2. CASE plan # None
  <2>1. Goto(g, "raised") /\ UNCHANGED <<plan, binding, faults>>
    BY <1>2 DEF MakeDirectory
  <2> QED
    BY <2>1, QuietGoto DEF PlanInv, TypeOK
<1> QED
  BY <1>1, <1>2

\* A new request has read nothing and writes nothing.
LEMMA RequestKeepsInv ==
  ASSUME PlanInv, NEW g \in Generators, Request(g)
  PROVE  PlanInv'
<1>1. PICK b \in Bindings :
        generator' = [generator EXCEPT ![g].request = b,
                        ![g].pc = IF plan = None THEN "asked" ELSE "failed"]
  BY DEF Request
<1> DEFINE new == [generator[g] EXCEPT !.request = b,
                     !.pc = IF plan = None THEN "asked" ELSE "failed"]
<1>2. generator' = [generator EXCEPT ![g] = new]
  BY <1>1, TypeOfGenerators DEF PlanInv
<1>3. new \in GeneratorType /\ new.pc \in {"asked", "failed"} /\ new.request = b
  BY TypeOfGenerators DEF PlanInv, GeneratorType
<1>4. new.pc \notin Writing /\ new.pc # "planned"
  BY <1>3 DEF Writing
<1>5. UNCHANGED <<binding, plan, faults>>
  BY DEF Request
<1> HIDE DEF new
<1> QED
  BY <1>2, <1>3, <1>4, <1>5, QuietStep DEF PlanInv, TypeOK

\* The inputs are read before anything is written.
LEMMA ReadKeepsInv ==
  ASSUME PlanInv, NEW g \in Generators, ReadInputs(g)
  PROVE  PlanInv'
<1>1. UNCHANGED <<binding, plan, faults>>
  BY DEF ReadInputs
<1>2. CASE binding = None \/ binding \in Invalid
  BY <1>1, <1>2, QuietGoto DEF ReadInputs, PlanInv, TypeOK
<1>3. CASE ~ (binding = None \/ binding \in Invalid)
  <2> DEFINE new == [generator[g] EXCEPT !.pc = "planned", !.raw = binding]
  <2>1. generator' = [generator EXCEPT ![g] = new]
    BY <1>3, TypeOfGenerators DEF PlanInv, ReadInputs
  <2>2. binding \in Bindings
    BY <1>3 DEF PlanInv, TypeOK
  <2>3. new \in GeneratorType /\ new.pc = "planned" /\ new.raw \in Bindings
    BY <2>2, TypeOfGenerators DEF PlanInv, GeneratorType
  <2>4. new.pc \notin Writing
    BY <2>3 DEF Writing
  <2> HIDE DEF new
  <2> QED
    BY <1>1, <2>1, <2>3, <2>4, QuietStep DEF PlanInv, TypeOK
<1> QED
  BY <1>2, <1>3

\* Every step preserves the invariant.
LEMMA InvStep == PlanInv /\ [Next]_vars => PlanInv'
<1> SUFFICES ASSUME PlanInv, [Next]_vars PROVE PlanInv'
  OBVIOUS
<1>0. binding \in Bindings \cup {None} /\ faults \in 0..MaxFaults
  BY DEF PlanInv, TypeOK
<1>1. ASSUME NEW g \in Generators, Request(g) \/ Proceed(g) \/ Fail(g)
      PROVE  PlanInv'
  <2>0. generator[g] \in GeneratorType
    BY TypeOfGenerators DEF PlanInv
  <2>1. CASE TestBinding(g)
    <3>1. generator[g].request \in Bindings
      BY <2>1 DEF TestBinding, PlanInv, GeneratorInv
    <3> QED
      BY <1>0, <2>1, <3>1, QuietGoto DEF TestBinding
  <2>2. CASE CreateBinding(g)
    <3>1. generator[g].request \in Bindings
      BY <2>2 DEF CreateBinding, PlanInv, GeneratorInv
    <3> QED
      BY <1>0, <2>2, <3>1, QuietGoto DEF CreateBinding
  <2>3. CASE TestOutput(g)
    BY <1>0, <2>3, QuietGoto DEF TestOutput
  <2>4. CASE RemoveBinding(g)
    BY <1>0, <2>4, QuietGoto DEF RemoveBinding
  <2>5. CASE Fail(g)
    <3>1. faults' \in 0..MaxFaults
      BY <1>0, <2>5, GenerationAssumption DEF Fail
    <3> QED
      BY <1>0, <2>5, <3>1, QuietGoto DEF Fail
  <2> QED
    BY <1>1, <2>1, <2>2, <2>3, <2>4, <2>5, RequestKeepsInv, ReadKeepsInv, CreateKeepsInv,
       WriteKeepsInv DEF Proceed
<1>2. CASE UNCHANGED vars
  BY <1>2 DEF vars, PlanInv, TypeOK, GeneratorInv, Progress, ReadyIsWhole, Ready
<1> QED
  BY <1>1, <1>2 DEF Next

\* The invariant holds in every reachable state.
LEMMA PlanInvariant == Spec => []PlanInv
BY InitInv, InvStep, PTL DEF Spec

\* The binding file, the plan and every request have their types: a file of a
\* plan was computed from bindings, and there are no other files in it.
THEOREM TypeCorrect == Spec => []TypeOK
<1>1. PlanInv => TypeOK
  BY DEF PlanInv
<1> QED
  BY <1>1, PlanInvariant, PTL

\* However many requests use the plan ID and wherever they fail, the gate that
\* the runner reads opens only for a whole plan of one complete set of bindings.
THEOREM ReadyWhole == Spec => []ReadyIsWhole
<1>1. PlanInv => ReadyIsWhole
  BY DEF PlanInv
<1> QED
  BY <1>1, PlanInvariant, PTL

\* A plan whose gate has its verdict never changes again.
THEOREM FinishedForever == Spec => PlanIsImmutable
<1>1. PlanInv /\ [Next]_vars => [Finished => plan' = plan]_vars
  <2> SUFFICES ASSUME PlanInv, [Next]_vars, Finished PROVE plan' = plan
    OBVIOUS
  <2>1. ASSUME NEW g \in Generators, WriteFile(g) PROVE FALSE
    <3>1. generator[g].pc \in Writing
      BY <2>1 DEF WriteFile, Write, Writing
    <3>2. plan = EmptyPlan \/ plan.gate = Blocked
      BY <3>1 DEF PlanInv, GeneratorInv, Progress
    <3> QED
      BY <3>2 DEF Finished, EmptyPlan, Blocked
  <2>2. ASSUME NEW g \in Generators, MakeDirectory(g) PROVE plan' = plan
    BY <2>2 DEF MakeDirectory, Finished
  <2> QED
    BY <2>1, <2>2 DEF Next, Proceed, Request, TestBinding, CreateBinding, ReadInputs, TestOutput,
                      RemoveBinding, Fail, vars
<1> QED
  BY <1>1, PlanInvariant, PTL DEF Spec, PlanIsImmutable
=============================================================================
