------------------------- MODULE ReviewPortal_proof -------------------------
(* For any number of requests, reviews and approvals, and any number of     *)
(* edits and failures: one writer per review, a decision is authorized, a   *)
(* decided review is backed by its artifacts, and it never changes again.   *)
EXTENDS ReviewPortal, TLAPS

\* Goto moves one handler and keeps everything else it knows.
LEMMA GotoKeeps ==
  ASSUME TypeOK, NEW h \in Handlers, NEW pc, Goto(h, pc),
         pc \in {"authorized", "opened", "recorded", "cataloged", "done", "failed"}
  PROVE  /\ handler' \in [Handlers -> HandlerType]
         /\ handler'[h] = [handler[h] EXCEPT !.pc = pc]
         /\ \A k \in Handlers \ {h} : handler'[k] = handler[k]
BY DEF Goto, TypeOK, HandlerType

\* The portal starts without reviews, files and requests.
LEMMA InitInv == Init => PortalInv
<1> SUFFICES ASSUME Init PROVE PortalInv
  OBVIOUS
<1> USE DEF Init, NewHandler
<1>1. TypeOK
  BY PortalAssumption
     DEF TypeOK, HandlerType, inputs, Ledger!ApprovalInit, Ledger!ApprovalTypeOK
<1>2. HandlerInv
  BY DEF HandlerInv, Shaped, OwnsFile, OutcomeStands, Writing
<1>3. OneWriter
  BY DEF OneWriter, Writing
<1>4. ReviewedIsBacked
  BY DEF ReviewedIsBacked, Reviewed
<1> QED
  BY <1>1, <1>2, <1>3, <1>4 DEF PortalInv

\* Every step of a request, a reviewer or the environment keeps the types; what
\* a handler writes into the files comes from the handler's own invariant.
LEMMA TypeStep == PortalInv /\ [Next]_vars => TypeOK'
<1> SUFFICES ASSUME PortalInv, [Next]_vars PROVE TypeOK'
  OBVIOUS
<1>0. TypeOK /\ HandlerInv
  BY DEF PortalInv
<1> USE <1>0, PortalAssumption DEF TypeOK, inputs, outputs, ledger, Others, Ledger!ApprovalTypeOK
<1>1. ASSUME NEW g \in Registrars, Validate(g) PROVE TypeOK'
  BY <1>1 DEF Validate
<1>2. ASSUME NEW g \in Registrars, Enqueue(g) PROVE TypeOK'
  BY <1>2 DEF Enqueue, RowType
<1>3. ASSUME NEW a \in Approvals, Sign(a) PROVE TypeOK'
  <2>1. PICK v \in Reviews, d \in Decisions :
          row[v] # None /\ signed' = [signed EXCEPT ![a] = ReviewAction(v, d)]
    BY <1>3 DEF Sign, Reconstructible
  <2>2. ReviewAction(v, d) \in ActionType
    BY <2>1 DEF ReviewAction, ActionType, RowType
  <2> QED
    BY <1>3, <2>1, <2>2 DEF Sign
<1>4. ASSUME NEW h \in Handlers, Lookup(h) PROVE TypeOK'
  <2>1. PICK v \in Reviews, d \in Decisions, a \in Approvals \cup {None},
             pc \in {"found", "failed"} :
          /\ a # None => signed[a] # None
          /\ row[v] # None
          /\ pc = "found" <=> row[v].status = "PENDING"
          /\ handler' = [handler EXCEPT ![h].pc = pc, ![h].review = v,
                           ![h].decision = d, ![h].approval = a]
    BY <1>4, Zenon DEF Lookup
  <2>2. [handler[h] EXCEPT !.pc = pc, !.review = v, !.decision = d, !.approval = a]
          \in HandlerType
    <3> DEFINE x == [handler[h] EXCEPT !.pc = pc]
               y == [x EXCEPT !.review = v]
               z == [y EXCEPT !.decision = d]
    <3>1. x \in HandlerType
      BY DEF HandlerType
    <3> HIDE DEF x
    <3>2. y \in HandlerType
      BY <3>1 DEF HandlerType
    <3> HIDE DEF y
    <3>3. z \in HandlerType
      BY <3>2 DEF HandlerType
    <3> HIDE DEF z
    <3>4. [z EXCEPT !.approval = a] \in HandlerType
      BY <3>3 DEF HandlerType
    <3> QED
      BY <3>4 DEF x, y, z
  <2>3. handler' \in [Handlers -> HandlerType]
    BY <2>1, <2>2
  <2> QED
    BY <1>4, <2>3 DEF Lookup
<1>5. ASSUME NEW h \in Handlers, Build(h) PROVE TypeOK'
  <2> DEFINE v == handler[h].review
             act == ReviewAction(v, handler[h].decision)
  <2>1. CASE Reconstructible(v) /\ decisionFile[v] = None
    <3>1. act \in ActionType
      BY <1>5, <2>1
         DEF Build, HandlerInv, Shaped, Reconstructible, ReviewAction, ActionType, RowType
    <3>2. [handler[h] EXCEPT !.pc = "built", !.action = act] \in HandlerType
      <4> HIDE DEF act, TypeOK
      <4>1. handler[h] \in HandlerType
        BY DEF TypeOK
      <4> QED
        BY <3>1, <4>1 DEF HandlerType
    <3>3. handler' = [handler EXCEPT ![h].pc = "built", ![h].action = act]
      BY <1>5, <2>1 DEF Build
    <3> HIDE DEF act
    <3>4. handler' \in [Handlers -> HandlerType]
      BY <3>2, <3>3
    <3> QED
      BY <1>5, <3>4 DEF Build
  <2>2. CASE ~ (Reconstructible(v) /\ decisionFile[v] = None)
    BY <1>5, <2>2, GotoKeeps DEF Build
  <2> QED
    BY <2>1, <2>2
<1>6. ASSUME NEW h \in Handlers, Authorize(h) PROVE TypeOK'
  <2>1. handler' \in [Handlers -> HandlerType]
    BY <1>6, GotoKeeps DEF Authorize
  <2>2. Ledger!ApprovalTypeOK'
    BY <1>6, NoneAssumption DEF Authorize, Ledger!Grant, HandlerType
  <2> QED
    BY <1>6, <2>1, <2>2 DEF Authorize
<1>7. ASSUME NEW h \in Handlers, Refuse(h) PROVE TypeOK'
  BY <1>7, GotoKeeps DEF Refuse
<1>8. ASSUME NEW h \in Handlers, CreateDecision(h) PROVE TypeOK'
  <2>1. handler' \in [Handlers -> HandlerType]
    BY <1>8, GotoKeeps DEF CreateDecision
  <2>2. [decision |-> handler[h].decision, approval |-> handler[h].approval] \in DecisionFileType
    BY <1>8 DEF CreateDecision, HandlerInv, Shaped, DecisionFileType, HandlerType
  <2> QED
    BY <1>8, <2>1, <2>2 DEF CreateDecision
<1>9. ASSUME NEW h \in Handlers, Promote(h) PROVE TypeOK'
  <2> DEFINE v == handler[h].review
             o == [proposal |-> proposalFile, decision |-> decisionFile[v]]
  <2>1. CASE Promotable(v)
    <3>1. o \in OutcomeType
      BY <1>9, <2>1 DEF Promote, Promotable, HandlerInv, Shaped, OutcomeType
    <3>2. [handler[h] EXCEPT !.pc = "promoted", !.outcome = o] \in HandlerType
      BY <3>1 DEF HandlerType
    <3>3. handler' = [handler EXCEPT ![h].pc = "promoted", ![h].outcome = o]
      BY <1>9, <2>1 DEF Promote
    <3> HIDE DEF o
    <3>4. handler' \in [Handlers -> HandlerType]
      BY <3>2, <3>3
    <3> QED
      BY <1>9, <2>1, <3>4 DEF Promote
  <2>2. CASE ~ Promotable(v)
    <3>1. handler' \in [Handlers -> HandlerType]
      BY <1>9, <2>2, GotoKeeps DEF Promote
    <3> QED
      BY <1>9, <2>2, <3>1 DEF Promote
  <2> QED
    BY <2>1, <2>2
<1>10. ASSUME NEW h \in Handlers, WriteRecord(h) PROVE TypeOK'
  <2>1. handler[h].outcome \in OutcomeType
    BY <1>10 DEF WriteRecord, HandlerInv, OutcomeStands
  <2> QED
    BY <1>10, <2>1, GotoKeeps DEF WriteRecord
<1>11. ASSUME NEW h \in Handlers, WriteCatalog(h) PROVE TypeOK'
  <2>1. handler[h].outcome \in OutcomeType
    BY <1>11 DEF WriteCatalog, HandlerInv, OutcomeStands
  <2> QED
    BY <1>11, <2>1, GotoKeeps DEF WriteCatalog
<1>12. ASSUME NEW h \in Handlers, CompleteReview(h) PROVE TypeOK'
  <2>1. handler' \in [Handlers -> HandlerType]
    BY <1>12, GotoKeeps DEF CompleteReview
  <2>2. row' \in [Reviews -> RowType \cup {None}]
    BY <1>12 DEF CompleteReview, HandlerInv, Shaped, RowType
  <2> QED
    BY <1>12, <2>1, <2>2 DEF CompleteReview
<1>13. ASSUME NEW h \in Handlers, LoseClaim(h) PROVE TypeOK'
  <2>1. handler' \in [Handlers -> HandlerType]
    BY <1>13, GotoKeeps DEF LoseClaim
  <2>2. Ledger!ApprovalTypeOK'
    BY <1>13 DEF LoseClaim, Ledger!Burn, HandlerType
  <2> QED
    BY <1>13, <2>1, <2>2 DEF LoseClaim, Fault
<1>14. ASSUME NEW h \in Handlers, TearDecision(h) PROVE TypeOK'
  <2>1. handler' \in [Handlers -> HandlerType]
    BY <1>14, GotoKeeps DEF TearDecision
  <2>2. decisionFile' \in [Reviews -> DecisionFileType \cup {None, Torn}]
    BY <1>14 DEF TearDecision
  <2>3. faults' \in 0..MaxFaults
    BY <1>14 DEF TearDecision, Fault
  <2> QED
    BY <1>14, <2>1, <2>2, <2>3 DEF TearDecision
<1>15. ASSUME NEW h \in Handlers, FailWrite(h) PROVE TypeOK'
  <2>1. handler' \in [Handlers -> HandlerType]
    BY <1>15, GotoKeeps DEF FailWrite
  <2>2. decisionFile' \in [Reviews -> DecisionFileType \cup {None, Torn}]
    BY <1>15 DEF FailWrite
  <2>3. /\ recordFile' \in [Reviews -> OutcomeType \cup {None, Torn}]
        /\ catalogFile' \in [Reviews -> OutcomeType \cup {None, Torn}]
    BY <1>15 DEF FailWrite
  <2>4. faults' \in 0..MaxFaults
    BY <1>15 DEF FailWrite, Fault
  <2> QED
    BY <1>15, <2>1, <2>2, <2>3, <2>4 DEF FailWrite
<1>16. ASSUME NEW h \in Handlers, Crash(h) PROVE TypeOK'
  <2>1. handler' \in [Handlers -> HandlerType]
    BY <1>16, GotoKeeps DEF Crash
  <2> QED
    BY <1>16, <2>1 DEF Crash, Fault
<1>17. CASE Edit
  BY <1>17 DEF Edit
<1>18. CASE UNCHANGED vars
  BY <1>18 DEF vars
<1> QED
  BY <1>1, <1>2, <1>3, <1>4, <1>5, <1>6, <1>7, <1>8, <1>9, <1>10, <1>11, <1>12, <1>13,
     <1>14, <1>15, <1>16, <1>17, <1>18 DEF Next, Register, Proceed, Fail

\* A step that changes neither a file nor a row and makes nobody a writer.
LEMMA QuietStep ==
  ASSUME PortalInv, TypeOK', UNCHANGED <<row, decisionFile, recordFile, catalogFile>>,
         NEW h \in Handlers, ~ Writing(h)',
         \A k \in Handlers \ {h} : handler'[k] = handler[k],
         Shaped(h)'
  PROVE  PortalInv'
<1>1. \A k \in Handlers : Writing(k)' => Writing(k) /\ handler'[k] = handler[k]
  BY DEF Writing
<1>2. ASSUME NEW k \in Handlers PROVE (Shaped(k) /\ OwnsFile(k) /\ OutcomeStands(k))'
  <2>1. CASE k = h
    BY <2>1 DEF OwnsFile, OutcomeStands, Writing
  <2>2. CASE k # h
    BY <2>2 DEF PortalInv, HandlerInv, Shaped, OwnsFile, OutcomeStands, Writing, Reviewed, Covers
  <2> QED
    BY <2>1, <2>2
<1>3. OneWriter'
  BY <1>1 DEF PortalInv, OneWriter
<1>4. ReviewedIsBacked'
  BY DEF PortalInv, ReviewedIsBacked, Reviewed, Backed, Covers
<1> QED
  BY <1>2, <1>3, <1>4 DEF PortalInv, HandlerInv

\* While h works on the files of its own undecided review v, alone, nothing
\* changes for the other handlers and for the other reviews.
LEMMA AloneStep ==
  ASSUME PortalInv, NEW h \in Handlers, NEW v \in Reviews, handler[h].review = v,
         Writing(h) \/ decisionFile[v] = None,
         \A k \in Handlers \ {h} : handler'[k] = handler[k],
         \A w \in Reviews \ {v} :
           /\ row'[w] = row[w] /\ decisionFile'[w] = decisionFile[w]
           /\ recordFile'[w] = recordFile[w] /\ catalogFile'[w] = catalogFile[w],
         row'[v] # None,
         TypeOK', handler'[h].review = v,
         (Shaped(h) /\ OwnsFile(h) /\ OutcomeStands(h))',
         Reviewed(v)' => Backed(v)'
  PROVE  PortalInv'
<1>1. \A k \in Handlers \ {h} : Writing(k) => handler[k].review # v
  <2> SUFFICES ASSUME NEW k \in Handlers \ {h}, Writing(k) PROVE handler[k].review # v
    OBVIOUS
  <2>1. CASE Writing(h)
    BY <2>1 DEF PortalInv, OneWriter
  <2>2. CASE decisionFile[v] = None
    <3>1. decisionFile[handler[k].review] \in DecisionFileType
      <4>1. handler[k].decision \in Decisions
        BY DEF PortalInv, HandlerInv, Shaped, Writing
      <4>2. handler[k].approval \in Approvals \cup {None}
        BY DEF PortalInv, TypeOK, HandlerType
      <4>3. decisionFile[handler[k].review] =
              [decision |-> handler[k].decision, approval |-> handler[k].approval]
        BY DEF PortalInv, HandlerInv, OwnsFile
      <4> QED
        BY <4>1, <4>2, <4>3 DEF DecisionFileType
    <3> QED
      BY <2>2, <3>1, NoneAssumption
  <2> QED
    BY <2>1, <2>2
<1>2. ASSUME NEW k \in Handlers PROVE (Shaped(k) /\ OwnsFile(k) /\ OutcomeStands(k))'
  <2>1. CASE k = h
    BY <2>1
  <2>2. CASE k # h
    <3>1. Shaped(k)'
      BY <2>2 DEF PortalInv, HandlerInv, Shaped
    <3>2. CASE ~ Writing(k)
      BY <2>2, <3>1, <3>2 DEF OwnsFile, OutcomeStands, Writing
    <3>3. CASE Writing(k)
      <4>1. handler[k].review \in Reviews \ {v}
        BY <1>1, <2>2, <3>3 DEF PortalInv, HandlerInv, Shaped, Writing
      <4>2. OwnsFile(k)'
        BY <2>2, <3>3, <4>1 DEF PortalInv, HandlerInv, OwnsFile, Reviewed, Writing
      <4>3. OutcomeStands(k)'
        BY <2>2, <3>3, <4>1 DEF PortalInv, HandlerInv, OutcomeStands, Covers
      <4> QED
        BY <3>1, <4>2, <4>3
    <3> QED
      BY <3>2, <3>3
  <2> QED
    BY <2>1, <2>2
<1>3. OneWriter'
  <2> SUFFICES ASSUME NEW j \in Handlers, NEW k \in Handlers, Writing(j)', Writing(k)',
                      handler'[j].review = handler'[k].review
               PROVE  j = k
    BY DEF OneWriter
  <2>1. CASE j = h \/ k = h
    BY <1>1, <2>1 DEF Writing
  <2>2. CASE j # h /\ k # h
    BY <2>2 DEF PortalInv, OneWriter, Writing
  <2> QED
    BY <2>1, <2>2
<1>4. ReviewedIsBacked'
  BY DEF PortalInv, ReviewedIsBacked, Reviewed, Backed, Covers
<1> QED
  BY <1>2, <1>3, <1>4 DEF PortalInv, HandlerInv

\* An undecided review has a row, and so has one whose decision file is free.
LEMMA UndecidedReview ==
  ASSUME PortalInv, NEW h \in Handlers, handler[h].pc # "idle"
  PROVE  /\ handler[h].review \in Reviews /\ handler[h].decision \in Decisions
         /\ row[handler[h].review] # None
         /\ Writing(h) => ~ Reviewed(handler[h].review)
         /\ decisionFile[handler[h].review] = None => ~ Reviewed(handler[h].review)
BY DEF PortalInv, HandlerInv, Shaped, OwnsFile, ReviewedIsBacked, Backed

\* A handler that fails may leave the files of its own review in any state.
LEMMA FailStep ==
  ASSUME PortalInv, TypeOK', NEW h \in Handlers, handler[h].pc # "idle",
         Goto(h, "failed"), UNCHANGED row,
         Writing(h) \/ decisionFile[handler[h].review] = None,
         \A w \in Reviews \ {handler[h].review} :
           /\ decisionFile'[w] = decisionFile[w]
           /\ recordFile'[w] = recordFile[w] /\ catalogFile'[w] = catalogFile[w]
  PROVE  PortalInv'
<1>0. TypeOK
  BY DEF PortalInv
<1>1. PICK v \in Reviews : v = handler[h].review
  BY UndecidedReview
<1>2. /\ handler'[h] = [handler[h] EXCEPT !.pc = "failed"]
      /\ \A k \in Handlers \ {h} : handler'[k] = handler[k]
  BY <1>0, GotoKeeps
<1>3. /\ handler'[h].pc = "failed" /\ handler'[h].review = v
      /\ handler'[h].decision = handler[h].decision
  BY <1>0, <1>1, <1>2 DEF TypeOK, HandlerType
<1>4. handler[h].decision \in Decisions /\ row[v] # None /\ ~ Reviewed(v)
  BY <1>1, UndecidedReview
<1>5. ~ Reviewed(v)'
  BY <1>4 DEF Reviewed
<1>6. (Shaped(h) /\ OwnsFile(h) /\ OutcomeStands(h))'
  BY <1>3, <1>4 DEF Shaped, OwnsFile, OutcomeStands, Writing
<1> QED
  BY <1>1, <1>2, <1>3, <1>4, <1>5, <1>6, AloneStep

\* PortalInv is inductive.
LEMMA InvStep == PortalInv /\ [Next]_vars => PortalInv'
<1> SUFFICES ASSUME PortalInv, [Next]_vars PROVE PortalInv'
  OBVIOUS
<1>0. TypeOK' /\ TypeOK
  BY TypeStep DEF PortalInv
<1>1. ASSUME UNCHANGED <<row, outputs, handler>> PROVE PortalInv'
  BY <1>0, <1>1 DEF PortalInv, outputs, HandlerInv, Shaped, OwnsFile, OutcomeStands, OneWriter,
     Writing, ReviewedIsBacked, Reviewed, Backed, Covers
<1>2. ASSUME NEW g \in Registrars, Enqueue(g) PROVE PortalInv'
  <2>1. UNCHANGED <<outputs, handler>>
    BY <1>2 DEF Enqueue
  <2>2. \A v \in Reviews : row[v] # None => row'[v] = row[v]
    BY <1>0, <1>2 DEF Enqueue, TypeOK
  <2>3. \A v \in Reviews : Reviewed(v)' => Reviewed(v)
    BY <1>0, <1>2 DEF Enqueue, TypeOK, Reviewed
  <2>4. \A v \in Reviews : row[v] # None => row'[v] # None
    BY <2>2
  <2>5. HandlerInv'
    <3> SUFFICES ASSUME NEW k \in Handlers
                 PROVE  (Shaped(k) /\ OwnsFile(k) /\ OutcomeStands(k))'
      BY DEF HandlerInv
    <3>1. Shaped(k)'
      BY <2>1, <2>4 DEF PortalInv, HandlerInv, Shaped
    <3>2. OwnsFile(k)'
      BY <2>1, <2>3 DEF PortalInv, HandlerInv, Shaped, OwnsFile, Writing, outputs
    <3>3. OutcomeStands(k)'
      BY <2>1 DEF PortalInv, HandlerInv, OutcomeStands, Covers, outputs
    <3> QED
      BY <3>1, <3>2, <3>3
  <2>6. OneWriter'
    BY <2>1 DEF PortalInv, OneWriter, Writing
  <2>7. ReviewedIsBacked'
    BY <2>1, <2>3 DEF PortalInv, ReviewedIsBacked, Backed, Covers, outputs
  <2> QED
    BY <1>0, <2>5, <2>6, <2>7 DEF PortalInv
<1>3. ASSUME NEW h \in Handlers, Lookup(h) PROVE PortalInv'
  <2>1. PICK v \in Reviews, d \in Decisions, a \in Approvals \cup {None},
             pc \in {"found", "failed"} :
          /\ a # None => signed[a] # None
          /\ row[v] # None
          /\ pc = "found" <=> row[v].status = "PENDING"
          /\ handler' = [handler EXCEPT ![h].pc = pc, ![h].review = v,
                           ![h].decision = d, ![h].approval = a]
    BY <1>3, Zenon DEF Lookup
  <2>2. /\ handler'[h].pc = pc /\ handler'[h].review = v /\ handler'[h].decision = d
        /\ \A k \in Handlers \ {h} : handler'[k] = handler[k]
    BY <1>0, <2>1 DEF TypeOK, HandlerType
  <2>3. UNCHANGED <<row, decisionFile, recordFile, catalogFile>>
    BY <1>3 DEF Lookup, Others, outputs
  <2>4. ~ Writing(h)' /\ Shaped(h)'
    BY <2>1, <2>2, <2>3 DEF Writing, Shaped
  <2> QED
    BY <1>0, <2>2, <2>3, <2>4, QuietStep
<1>4. ASSUME NEW h \in Handlers,
             Build(h) \/ Refuse(h) \/ Authorize(h) \/ LoseClaim(h) \/ Crash(h)
      PROVE  PortalInv'
  <2>1. UNCHANGED <<row, decisionFile, recordFile, catalogFile>>
    BY <1>4 DEF Build, Refuse, Authorize, LoseClaim, Crash, Others, outputs
  <2>2. /\ handler'[h].pc \in {"built", "authorized", "failed"}
        /\ handler'[h].review = handler[h].review /\ handler'[h].decision = handler[h].decision
        /\ handler[h].pc # "idle"
        /\ \A k \in Handlers \ {h} : handler'[k] = handler[k]
    <3>1. CASE Build(h)
      BY <1>0, <3>1 DEF Build, Goto, TypeOK, HandlerType
    <3>2. CASE Refuse(h) \/ Authorize(h) \/ LoseClaim(h) \/ Crash(h)
      BY <1>0, <3>2 DEF Refuse, Authorize, LoseClaim, Crash, Goto, TypeOK, HandlerType
    <3> QED
      BY <1>4, <3>1, <3>2
  <2>3. ~ Writing(h)' /\ Shaped(h)'
    BY <2>1, <2>2 DEF PortalInv, HandlerInv, Writing, Shaped
  <2> QED
    BY <1>0, <2>1, <2>2, <2>3, QuietStep
<1>5. ASSUME NEW h \in Handlers, CreateDecision(h) PROVE PortalInv'
  <2>1. handler[h].pc = "authorized" /\ UNCHANGED <<row, recordFile, catalogFile>>
    BY <1>5 DEF CreateDecision
  <2>2. PICK v \in Reviews : v = handler[h].review
    BY <2>1, UndecidedReview
  <2>3. CASE decisionFile[v] = None
    <3>1. /\ Goto(h, "opened")
          /\ decisionFile' = [decisionFile EXCEPT ![v] =
               [decision |-> handler[h].decision, approval |-> handler[h].approval]]
      BY <1>5, <2>2, <2>3 DEF CreateDecision
    <3>2. /\ handler'[h] = [handler[h] EXCEPT !.pc = "opened"]
          /\ \A k \in Handlers \ {h} : handler'[k] = handler[k]
      BY <1>0, <3>1, GotoKeeps
    <3>3. /\ handler'[h].pc = "opened" /\ handler'[h].review = v
          /\ handler'[h].decision = handler[h].decision
          /\ handler'[h].approval = handler[h].approval
      BY <1>0, <2>2, <3>2 DEF TypeOK, HandlerType
    <3>4. handler[h].decision \in Decisions /\ row[v] # None /\ ~ Reviewed(v)
      BY <2>1, <2>2, <2>3, UndecidedReview
    <3>5. ~ Reviewed(v)'
      BY <2>1, <3>4 DEF Reviewed
    <3>6. \A w \in Reviews \ {v} : decisionFile'[w] = decisionFile[w]
      BY <1>0, <3>1 DEF TypeOK
    <3>7. (Shaped(h) /\ OwnsFile(h) /\ OutcomeStands(h))'
      BY <1>0, <2>1, <3>1, <3>3, <3>4, <3>5 DEF Shaped, OwnsFile, OutcomeStands, TypeOK
    <3> QED
      BY <1>0, <2>1, <2>2, <2>3, <3>2, <3>3, <3>4, <3>5, <3>6, <3>7, AloneStep
  <2>4. CASE decisionFile[v] # None
    <3>1. Goto(h, "failed") /\ UNCHANGED decisionFile
      BY <1>5, <2>2, <2>4 DEF CreateDecision
    <3>2. /\ handler'[h] = [handler[h] EXCEPT !.pc = "failed"]
          /\ \A k \in Handlers \ {h} : handler'[k] = handler[k]
      BY <1>0, <3>1, GotoKeeps
    <3>3. ~ Writing(h)' /\ Shaped(h)'
      BY <1>0, <2>1, <3>2, UndecidedReview DEF Writing, Shaped, TypeOK, HandlerType
    <3> QED
      BY <1>0, <2>1, <3>1, <3>2, <3>3, QuietStep
  <2> QED
    BY <2>3, <2>4
<1>6. ASSUME NEW h \in Handlers, Promote(h) PROVE PortalInv'
  <2>1. handler[h].pc = "opened" /\ UNCHANGED <<row, recordFile, catalogFile>>
    BY <1>6 DEF Promote
  <2>2. PICK v \in Reviews : v = handler[h].review
    BY <2>1, UndecidedReview
  <2>3. CASE Promotable(v)
    <3> DEFINE o == [proposal |-> proposalFile, decision |-> decisionFile[v]]
    <3>1. /\ handler' = [handler EXCEPT ![h].pc = "promoted", ![h].outcome = o]
          /\ UNCHANGED decisionFile
      BY <1>6, <2>2, <2>3 DEF Promote
    <3>2. o \in OutcomeType /\ o.decision = decisionFile[v] /\ Covers(o)
      BY <1>0, <2>3 DEF Promotable, PolicyReady, Covers, OutcomeType, TypeOK
    <3> HIDE DEF o
    <3>3. /\ handler'[h].pc = "promoted" /\ handler'[h].review = v
          /\ handler'[h].decision = handler[h].decision
          /\ handler'[h].approval = handler[h].approval
          /\ handler'[h].outcome = o
          /\ \A k \in Handlers \ {h} : handler'[k] = handler[k]
      BY <1>0, <2>2, <3>1 DEF TypeOK, HandlerType
    <3>4. handler[h].decision \in Decisions /\ row[v] # None /\ ~ Reviewed(v) /\ Writing(h)
      BY <2>1, <2>2, UndecidedReview DEF Writing
    <3>5. ~ Reviewed(v)'
      BY <2>1, <3>4 DEF Reviewed
    <3>6. decisionFile'[v] =
            [decision |-> handler[h].decision, approval |-> handler[h].approval]
      BY <2>2, <3>1, <3>4 DEF PortalInv, HandlerInv, OwnsFile
    <3>7. (Shaped(h) /\ OwnsFile(h) /\ OutcomeStands(h))'
      BY <2>1, <3>1, <3>2, <3>3, <3>4, <3>5, <3>6 DEF Shaped, OwnsFile, OutcomeStands, Covers
    <3> QED
      BY <1>0, <2>1, <2>2, <3>1, <3>3, <3>4, <3>5, <3>7, AloneStep
  <2>4. CASE ~ Promotable(v)
    <3>1. Goto(h, "failed") /\ decisionFile' = [decisionFile EXCEPT ![v] = None]
      BY <1>6, <2>2, <2>4 DEF Promote
    <3>2. \A w \in Reviews \ {v} : decisionFile'[w] = decisionFile[w]
      BY <1>0, <3>1 DEF TypeOK
    <3> QED
      BY <1>0, <2>1, <2>2, <3>1, <3>2, FailStep DEF Writing
  <2> QED
    BY <2>3, <2>4
<1>7. ASSUME NEW h \in Handlers, WriteRecord(h) \/ WriteCatalog(h) PROVE PortalInv'
  <2>1. /\ handler[h].pc \in {"promoted", "recorded"} /\ UNCHANGED <<row, decisionFile>>
        /\ Writing(h) /\ handler[h].pc # "idle"
    BY <1>7 DEF WriteRecord, WriteCatalog, Writing
  <2>2. PICK v \in Reviews : v = handler[h].review
    BY <2>1, UndecidedReview
  <2>3. PICK o \in OutcomeType : o = handler[h].outcome
    BY <2>1 DEF PortalInv, HandlerInv, OutcomeStands
  <2>4. o.decision = decisionFile[v] /\ Covers(o)
    BY <2>1, <2>2, <2>3 DEF PortalInv, HandlerInv, OutcomeStands
  <2>5. \/ /\ Goto(h, "recorded")
           /\ recordFile' = [recordFile EXCEPT ![v] = o] /\ UNCHANGED catalogFile
        \/ /\ Goto(h, "cataloged") /\ recordFile[v] = o
           /\ catalogFile' = [catalogFile EXCEPT ![v] = o] /\ UNCHANGED recordFile
    BY <1>7, <2>2, <2>3 DEF WriteRecord, WriteCatalog, PortalInv, HandlerInv, OutcomeStands
  <2>6. /\ handler'[h].pc \in {"recorded", "cataloged"}
        /\ recordFile'[v] = o
        /\ handler'[h].pc = "cataloged" => catalogFile'[v] = o
        /\ handler'[h].review = v /\ handler'[h].decision = handler[h].decision
        /\ handler'[h].approval = handler[h].approval /\ handler'[h].outcome = o
        /\ \A k \in Handlers \ {h} : handler'[k] = handler[k]
    BY <1>0, <2>2, <2>3, <2>5 DEF Goto, TypeOK, HandlerType
  <2>7. /\ handler[h].decision \in Decisions /\ row[v] # None /\ ~ Reviewed(v)
        /\ decisionFile[v] =
             [decision |-> handler[h].decision, approval |-> handler[h].approval]
    BY <2>1, <2>2, UndecidedReview DEF PortalInv, HandlerInv, OwnsFile
  <2>8. ~ Reviewed(v)'
    BY <2>1, <2>7 DEF Reviewed
  <2>9. (Shaped(h) /\ OwnsFile(h) /\ OutcomeStands(h))'
    BY <2>1, <2>4, <2>6, <2>7, <2>8 DEF Shaped, OwnsFile, OutcomeStands, Covers
  <2>10. \A w \in Reviews \ {v} :
           recordFile'[w] = recordFile[w] /\ catalogFile'[w] = catalogFile[w]
    BY <1>0, <2>5 DEF TypeOK
  <2> QED
    BY <1>0, <2>1, <2>2, <2>6, <2>7, <2>8, <2>9, <2>10, AloneStep
<1>8. ASSUME NEW h \in Handlers, CompleteReview(h) PROVE PortalInv'
  <2>1. /\ handler[h].pc = "cataloged" /\ UNCHANGED <<decisionFile, recordFile, catalogFile>>
        /\ Writing(h)
    BY <1>8 DEF CompleteReview, Writing, outputs
  <2>2. PICK v \in Reviews : v = handler[h].review
    BY <2>1, UndecidedReview
  <2>3. CASE row[v].status = "PENDING"
    <3>1. Goto(h, "done") /\ row' = [row EXCEPT ![v].status = "REVIEWED"]
      BY <1>8, <2>2, <2>3 DEF CompleteReview
    <3>2. /\ handler'[h].pc = "done" /\ handler'[h].review = v
          /\ handler'[h].decision = handler[h].decision
          /\ \A k \in Handlers \ {h} : handler'[k] = handler[k]
      BY <1>0, <2>2, <3>1 DEF Goto, TypeOK, HandlerType
    <3>3. /\ handler[h].decision \in Decisions
          /\ decisionFile[v] =
               [decision |-> handler[h].decision, approval |-> handler[h].approval]
      BY <2>1, <2>2, UndecidedReview DEF PortalInv, HandlerInv, OwnsFile
    <3>4. PICK o \in OutcomeType :
            /\ o.decision = decisionFile[v] /\ Covers(o)
            /\ recordFile[v] = o /\ catalogFile[v] = o
      BY <2>1, <2>2 DEF PortalInv, HandlerInv, OutcomeStands
    <3>5. decisionFile[v] \in DecisionFileType
      BY <1>0, <3>3 DEF DecisionFileType, TypeOK, HandlerType
    <3>6. Backed(v)'
      BY <2>1, <3>4, <3>5, NoneAssumption DEF Backed, Covers
    <3>7. row'[v] # None /\ \A w \in Reviews \ {v} : row'[w] = row[w]
      BY <1>0, <3>1, NoneAssumption, <2>1, <2>2, UndecidedReview DEF TypeOK, RowType
    <3>8. (Shaped(h) /\ OwnsFile(h) /\ OutcomeStands(h))'
      BY <3>2, <3>3, <3>7 DEF Shaped, OwnsFile, OutcomeStands, Writing
    <3> QED
      BY <1>0, <2>1, <2>2, <3>2, <3>6, <3>7, <3>8, AloneStep
  <2>4. CASE row[v].status # "PENDING"
    <3>1. Goto(h, "failed") /\ UNCHANGED row
      BY <1>8, <2>2, <2>4 DEF CompleteReview
    <3> QED
      BY <1>0, <2>1, <3>1, FailStep
  <2> QED
    BY <2>3, <2>4
<1>9. ASSUME NEW h \in Handlers, TearDecision(h) PROVE PortalInv'
  <2>1. /\ handler[h].pc = "authorized" /\ UNCHANGED <<row, recordFile, catalogFile>>
        /\ Goto(h, "failed") /\ decisionFile[handler[h].review] = None
        /\ decisionFile' = [decisionFile EXCEPT ![handler[h].review] = Torn]
    BY <1>9 DEF TearDecision
  <2> QED
    BY <1>0, <2>1, FailStep DEF TypeOK
<1>10. ASSUME NEW h \in Handlers, FailWrite(h) PROVE PortalInv'
  <2>1. /\ handler[h].pc \in {"promoted", "recorded"} /\ UNCHANGED row
        /\ Goto(h, "failed")
        /\ decisionFile' = [decisionFile EXCEPT ![handler[h].review] = None]
        /\ recordFile' \in {recordFile, [recordFile EXCEPT ![handler[h].review] = Torn]}
        /\ catalogFile' \in {catalogFile, [catalogFile EXCEPT ![handler[h].review] = Torn]}
    BY <1>10 DEF FailWrite
  <2> QED
    BY <1>0, <2>1, FailStep DEF TypeOK, Writing
<1> QED
  BY <1>1, <1>2, <1>3, <1>4, <1>5, <1>6, <1>7, <1>8, <1>9, <1>10
     DEF Next, Register, Proceed, Fail, Validate, Sign, Edit, vars, inputs

\* A step that leaves v's row and files alone keeps a decided v as it is; a
\* handler that changes them has an undecided review.
LEMMA FinalStep ==
  ASSUME PortalInv, [Next]_vars, NEW v \in Reviews, Reviewed(v)
  PROVE  /\ row'[v] = row[v] /\ decisionFile'[v] = decisionFile[v]
         /\ recordFile'[v] = recordFile[v] /\ catalogFile'[v] = catalogFile[v]
<1> USE DEF Reviewed
<1>0. TypeOK
  BY DEF PortalInv
<1>1. CASE UNCHANGED <<row, outputs>>
  BY <1>1 DEF outputs
<1>2. ASSUME NEW g \in Registrars, Enqueue(g) PROVE UNCHANGED outputs /\ row'[v] = row[v]
  BY <1>0, <1>2 DEF Enqueue, TypeOK
<1>3. \A h \in Handlers :
        /\ Writing(h) => handler[h].review # v
        /\ handler[h].pc # "idle" /\ decisionFile[handler[h].review] = None
             => handler[h].review # v
  BY UndecidedReview DEF Writing
<1>4. ASSUME NEW h \in Handlers,
             CreateDecision(h) \/ Promote(h) \/ WriteRecord(h) \/ WriteCatalog(h)
      PROVE  /\ row'[v] = row[v] /\ decisionFile'[v] = decisionFile[v]
             /\ recordFile'[v] = recordFile[v] /\ catalogFile'[v] = catalogFile[v]
  BY <1>0, <1>3, <1>4 DEF CreateDecision, Promote, WriteRecord, WriteCatalog, Writing, TypeOK
<1>5. ASSUME NEW h \in Handlers, CompleteReview(h) \/ TearDecision(h) \/ FailWrite(h)
      PROVE  /\ row'[v] = row[v] /\ decisionFile'[v] = decisionFile[v]
             /\ recordFile'[v] = recordFile[v] /\ catalogFile'[v] = catalogFile[v]
  BY <1>0, <1>3, <1>5 DEF CompleteReview, TearDecision, FailWrite, Writing, TypeOK, outputs
<1>6. CASE UNCHANGED vars
  BY <1>6 DEF vars, outputs
<1>7. ASSUME NEW h \in Handlers,
             \/ Lookup(h) \/ Build(h) \/ Authorize(h) \/ Refuse(h)
             \/ LoseClaim(h) \/ Crash(h)
      PROVE  UNCHANGED <<row, outputs>>
  BY <1>7 DEF Lookup, Build, Authorize, Refuse, LoseClaim, Crash, Others
<1>8. ASSUME \/ Edit
             \/ \E g \in Registrars : Validate(g)
             \/ \E a \in Approvals : Sign(a)
      PROVE  UNCHANGED <<row, outputs>>
  BY <1>8 DEF Edit, Validate, Sign
<1> QED
  BY <1>1, <1>2, <1>4, <1>5, <1>6, <1>7, <1>8 DEF Next, Register, Proceed, Fail, outputs

-----------------------------------------------------------------------------
\* Every reachable state satisfies the inductive invariant.
THEOREM PortalInvariant == Spec => []PortalInv
BY InitInv, InvStep, PTL DEF Spec

\* Every variable of the portal keeps its type.
THEOREM TypeCorrect == Spec => []TypeOK
<1>1. PortalInv => TypeOK
  BY DEF PortalInv
<1> QED
  BY <1>1, PortalInvariant, PTL

\* The exclusive creation of the decision file and its removal by the creator
\* alone admit one writer per review (decide_review), without any lock.
THEOREM OneWriterPerReview == Spec => []OneWriter
<1>1. PortalInv => OneWriter
  BY DEF PortalInv
<1> QED
  BY <1>1, PortalInvariant, PTL

\* A REVIEWED row is backed by a complete and consistent set of artifacts,
\* whatever fails and whatever is edited meanwhile.
THEOREM ReviewedBacked == Spec => []ReviewedIsBacked
<1>1. PortalInv => ReviewedIsBacked
  BY DEF PortalInv
<1> QED
  BY <1>1, PortalInvariant, PTL

\* The row and the files of a decided review never change again.
THEOREM ReviewedForever == Spec => ReviewedIsFinal
<1>1. PortalInv /\ [Next]_vars =>
        [\A v \in Reviews : Reviewed(v) =>
           /\ row'[v] = row[v] /\ decisionFile'[v] = decisionFile[v]
           /\ recordFile'[v] = recordFile[v] /\ catalogFile'[v] = catalogFile[v]]_vars
  BY FinalStep
<1> QED
  BY <1>1, PortalInvariant, PTL DEF Spec, ReviewedIsFinal

-----------------------------------------------------------------------------
\* Approval a is spent, gave authority to one request, and was signed for
\* decision d of review v: by this ledger and these signatures.
Authority(S, H, G, a, v, d) ==
  /\ a \in S /\ \E h \in Handlers : H[a] = {h}
  /\ G[a] # None /\ G[a].review = v /\ G[a].decision = d

\* An approval that nobody spent gave authority to nobody.
UnspentUnheld == \A a \in Approvals : a \notin spent => holders[a] = {}

\* A request that is built knows the action that it asks authority for; in
\* signed mode one that is authorized has authority, and so has its file.
BuiltOf(e) ==
  e.pc = "built" =>
    e.action \in ActionType /\ e.action.review = e.review /\ e.action.decision = e.decision

AuthorizedOf(e, S, H, G) ==
  AuthMode = "signed" /\ e.pc = "authorized" => Authority(S, H, G, e.approval, e.review, e.decision)

FileOf(file, v, S, H, G) ==
  AuthMode = "signed" /\ file \notin {None, Torn} =>
    Authority(S, H, G, file.approval, v, file.decision)

\* The inductive invariant of DecisionsAuthorized.
AuthorityInv ==
  /\ PortalInv /\ UnspentUnheld
  /\ \A h \in Handlers : BuiltOf(handler[h]) /\ AuthorizedOf(handler[h], spent, holders, signed)
  /\ \A v \in Reviews : FileOf(decisionFile[v], v, spent, holders, signed)

\* How a step may change the ledger and the signatures.
LedgerMoves ==
  UNCHANGED ledger \/ \E a \in Approvals : Ledger!Burn(a) \/ \E h \in Handlers : Ledger!Grant(a, h)

SignaturesStay == \A a \in Approvals : signed[a] # None => signed'[a] = signed[a]

\* Authority is not lost.
LEMMA AuthorityStays ==
  ASSUME AuthorityInv, LedgerMoves, SignaturesStay
  PROVE  /\ UnspentUnheld'
         /\ \A a, v, d : Authority(spent, holders, signed, a, v, d)
                           => Authority(spent', holders', signed', a, v, d)
<1>1. /\ holders \in [Approvals -> SUBSET Handlers] /\ spent \subseteq Approvals
      /\ UnspentUnheld
  BY DEF AuthorityInv, PortalInv, TypeOK, Ledger!ApprovalTypeOK
<1>2. /\ \A a \in spent : a \in spent' /\ holders'[a] = holders[a]
      /\ UnspentUnheld'
  BY <1>1 DEF LedgerMoves, Ledger!Burn, Ledger!Grant, ledger, UnspentUnheld
<1> QED
  BY <1>1, <1>2 DEF Authority, SignaturesStay

\* A step of request h; the files are removed, torn, or h's own.
LEMMA AuthorityStep ==
  ASSUME AuthorityInv, PortalInv', LedgerMoves, SignaturesStay, NEW h \in Handlers,
         \A k \in Handlers \ {h} : handler'[k] = handler[k],
         BuiltOf(handler'[h]), AuthorizedOf(handler'[h], spent', holders', signed'),
         \A v \in Reviews :
           \/ decisionFile'[v] \in {decisionFile[v], None, Torn}
           \/ /\ handler[h].pc = "authorized" /\ handler[h].review = v
              /\ decisionFile'[v].decision = handler[h].decision
              /\ decisionFile'[v].approval = handler[h].approval
  PROVE  AuthorityInv'
<1>1. /\ UnspentUnheld'
      /\ \A a, v, d : Authority(spent, holders, signed, a, v, d)
                        => Authority(spent', holders', signed', a, v, d)
  BY AuthorityStays
<1>2. ASSUME NEW k \in Handlers
      PROVE  BuiltOf(handler'[k]) /\ AuthorizedOf(handler'[k], spent', holders', signed')
  <2>1. BuiltOf(handler[k]) /\ AuthorizedOf(handler[k], spent, holders, signed)
    BY DEF AuthorityInv
  <2>2. AuthorizedOf(handler[k], spent', holders', signed')
    BY <1>1, <2>1 DEF AuthorizedOf
  <2> QED
    BY <2>1, <2>2
<1>3. ASSUME NEW v \in Reviews PROVE FileOf(decisionFile'[v], v, spent', holders', signed')
  <2>1. /\ FileOf(decisionFile[v], v, spent, holders, signed)
        /\ AuthorizedOf(handler[h], spent, holders, signed)
    BY DEF AuthorityInv
  <2>2. CASE decisionFile'[v] \in {decisionFile[v], None, Torn}
    BY <1>1, <2>1, <2>2 DEF FileOf
  <2>3. CASE /\ handler[h].pc = "authorized" /\ handler[h].review = v
             /\ decisionFile'[v].decision = handler[h].decision
             /\ decisionFile'[v].approval = handler[h].approval
    BY <1>1, <2>1, <2>3 DEF FileOf, AuthorizedOf
  <2> QED
    BY <2>2, <2>3
<1> QED
  BY <1>1, <1>2, <1>3 DEF AuthorityInv

\* A step of request h that neither builds nor authorizes.
LEMMA AuthorityGoto ==
  ASSUME AuthorityInv, PortalInv', LedgerMoves, UNCHANGED signed, NEW h \in Handlers,
         \A k \in Handlers \ {h} : handler'[k] = handler[k],
         handler'[h].pc \notin {"built", "authorized"},
         \A v \in Reviews : decisionFile'[v] \in {decisionFile[v], None, Torn}
  PROVE  AuthorityInv'
<1>1. BuiltOf(handler'[h]) /\ AuthorizedOf(handler'[h], spent', holders', signed')
  BY DEF BuiltOf, AuthorizedOf
<1> QED
  BY <1>1, AuthorityStep DEF SignaturesStay

\* The steps of a decision.
LEMMA DecideAuthority ==
  ASSUME AuthorityInv, PortalInv', NEW h \in Handlers, Lookup(h) \/ Proceed(h) \/ Fail(h)
  PROVE  AuthorityInv'
<1>0. /\ PortalInv /\ TypeOK /\ handler \in [Handlers -> HandlerType]
      /\ handler[h] \in HandlerType /\ BuiltOf(handler[h])
      /\ decisionFile \in [Reviews -> DecisionFileType \cup {None, Torn}]
  BY DEF AuthorityInv, PortalInv, TypeOK
<1>1. CASE Lookup(h)
  <2>1. PICK v \in Reviews, d \in Decisions, a \in Approvals \cup {None},
             pc \in {"found", "failed"} :
          /\ a # None => signed[a] # None
          /\ row[v] # None
          /\ pc = "found" <=> row[v].status = "PENDING"
          /\ handler' = [handler EXCEPT ![h].pc = pc, ![h].review = v,
                           ![h].decision = d, ![h].approval = a]
    BY <1>1, Zenon DEF Lookup
  <2>2. handler'[h].pc = pc /\ \A k \in Handlers \ {h} : handler'[k] = handler[k]
    BY <1>0, <2>1 DEF HandlerType
  <2>3. UNCHANGED <<signed, ledger, decisionFile>>
    BY <1>1 DEF Lookup, Others, outputs
  <2> QED
    BY <2>2, <2>3, AuthorityGoto DEF LedgerMoves
<1>2. CASE Build(h)
  <2>1. UNCHANGED <<signed, ledger, decisionFile>>
    BY <1>2 DEF Build, Others, outputs
  <2>2. CASE Goto(h, "failed")
    <3>1. handler'[h].pc = "failed" /\ \A k \in Handlers \ {h} : handler'[k] = handler[k]
      BY <1>0, <2>2 DEF Goto, HandlerType
    <3> QED
      BY <2>1, <3>1, AuthorityGoto DEF LedgerMoves
  <2>3. CASE ~ Goto(h, "failed")
    <3> DEFINE act == ReviewAction(handler[h].review, handler[h].decision)
    <3>1. handler' = [handler EXCEPT ![h].pc = "built", ![h].action = act]
      BY <1>2, <2>3 DEF Build
    <3>2. act \in ActionType /\ act.review = handler[h].review /\ act.decision = handler[h].decision
      <4>1. /\ handler[h].review \in Reviews /\ handler[h].decision \in Decisions
            /\ row[handler[h].review] \in RowType /\ project \in Projects
        BY <1>0, <1>2, UndecidedReview DEF Build, TypeOK
      <4> QED
        BY <4>1 DEF ReviewAction, ActionType, RowType
    <3> HIDE DEF act
    <3>3. /\ handler'[h].pc = "built" /\ handler'[h].action = act
          /\ handler'[h].review = handler[h].review /\ handler'[h].decision = handler[h].decision
          /\ \A k \in Handlers \ {h} : handler'[k] = handler[k]
      BY <1>0, <3>1 DEF HandlerType
    <3>4. BuiltOf(handler'[h]) /\ AuthorizedOf(handler'[h], spent', holders', signed')
      BY <3>2, <3>3 DEF BuiltOf, AuthorizedOf
    <3> QED
      BY <2>1, <3>3, <3>4, AuthorityStep DEF LedgerMoves, SignaturesStay
  <2> QED
    BY <2>2, <2>3
<1>3. CASE Authorize(h)
  <2> DEFINE a == handler[h].approval
  <2>1. /\ handler[h].pc = "built" /\ UNCHANGED <<signed, decisionFile>>
        /\ handler'[h].pc = "authorized" /\ handler'[h].approval = a
        /\ handler'[h].review = handler[h].review /\ handler'[h].decision = handler[h].decision
        /\ \A k \in Handlers \ {h} : handler'[k] = handler[k]
    BY <1>0, <1>3 DEF Authorize, Goto, HandlerType, outputs
  <2>2. CASE AuthMode = "signed"
    <3>1. a \in Approvals /\ signed[a] = handler[h].action /\ Ledger!Grant(a, h)
      BY <1>0, <1>3, <2>2 DEF Authorize, HandlerType
    <3>2. holders \in [Approvals -> SUBSET Handlers] /\ UnspentUnheld
      BY <1>0 DEF AuthorityInv, TypeOK, Ledger!ApprovalTypeOK
    <3>3. a \in spent' /\ holders'[a] = {h}
      BY <3>1, <3>2 DEF Ledger!Grant, UnspentUnheld
    <3>4. Authority(spent', holders', signed', a, handler[h].review, handler[h].decision)
      BY <1>0, <2>1, <3>1, <3>3, NoneAssumption DEF Authority, BuiltOf
    <3>5. LedgerMoves
      BY <3>1 DEF LedgerMoves
    <3>6. BuiltOf(handler'[h]) /\ AuthorizedOf(handler'[h], spent', holders', signed')
      BY <2>1, <3>4 DEF BuiltOf, AuthorizedOf
    <3> QED
      BY <2>1, <3>5, <3>6, AuthorityStep DEF SignaturesStay
  <2>3. CASE AuthMode # "signed"
    <3>1. LedgerMoves
      BY <1>3, <2>3 DEF Authorize, LedgerMoves
    <3>2. BuiltOf(handler'[h]) /\ AuthorizedOf(handler'[h], spent', holders', signed')
      BY <2>1, <2>3 DEF BuiltOf, AuthorizedOf
    <3> QED
      BY <2>1, <3>1, <3>2, AuthorityStep DEF SignaturesStay
  <2> QED
    BY <2>2, <2>3
<1>4. CASE CreateDecision(h) /\ decisionFile' # decisionFile
  <2> DEFINE file == [decision |-> handler[h].decision, approval |-> handler[h].approval]
  <2>1. /\ handler[h].pc = "authorized" /\ UNCHANGED <<signed, ledger>>
        /\ Goto(h, "opened")
        /\ decisionFile' = [decisionFile EXCEPT ![handler[h].review] = file]
    BY <1>4 DEF CreateDecision
  <2>2. handler'[h].pc = "opened" /\ \A k \in Handlers \ {h} : handler'[k] = handler[k]
    BY <1>0, <2>1 DEF Goto, HandlerType
  <2>3. file.decision = handler[h].decision /\ file.approval = handler[h].approval
    OBVIOUS
  <2> HIDE DEF file
  <2>4. \A v \in Reviews :
          \/ decisionFile'[v] \in {decisionFile[v], None, Torn}
          \/ /\ handler[h].pc = "authorized" /\ handler[h].review = v
             /\ decisionFile'[v].decision = handler[h].decision
             /\ decisionFile'[v].approval = handler[h].approval
    BY <1>0, <2>1, <2>3
  <2>5. BuiltOf(handler'[h]) /\ AuthorizedOf(handler'[h], spent', holders', signed')
    BY <2>2 DEF BuiltOf, AuthorizedOf
  <2> QED
    BY <2>1, <2>2, <2>4, <2>5, AuthorityStep DEF LedgerMoves, SignaturesStay
<1>5. CASE \/ Refuse(h) \/ (CreateDecision(h) /\ decisionFile' = decisionFile) \/ Promote(h)
           \/ WriteRecord(h) \/ WriteCatalog(h) \/ CompleteReview(h) \/ Fail(h)
  <2>1. /\ handler'[h].pc \notin {"built", "authorized"}
        /\ \A k \in Handlers \ {h} : handler'[k] = handler[k]
    <3>1. CASE Promotable(handler[h].review) /\ Promote(h)
      BY <1>0, <3>1 DEF Promote, HandlerType
    <3>2. CASE \E pc \in {"opened", "recorded", "cataloged", "done", "failed"} : Goto(h, pc)
      BY <1>0, <3>2 DEF Goto, HandlerType
    <3> QED
      BY <1>5, <3>1, <3>2 DEF Refuse, CreateDecision, Promote, WriteRecord, WriteCatalog,
           CompleteReview, Fail, LoseClaim, TearDecision, FailWrite, Crash
  <2>2. UNCHANGED signed
    BY <1>5 DEF Refuse, CreateDecision, Promote, WriteRecord, WriteCatalog,
         CompleteReview, Fail, LoseClaim, TearDecision, FailWrite, Crash, Others
  <2>3. LedgerMoves
    <3>1. CASE LoseClaim(h)
      BY <1>0, <3>1 DEF LoseClaim, LedgerMoves, HandlerType
    <3>2. CASE ~ LoseClaim(h)
      BY <1>5, <3>2 DEF Refuse, CreateDecision, Promote, WriteRecord, WriteCatalog,
           CompleteReview, Fail, TearDecision, FailWrite, Crash, Others, LedgerMoves
    <3> QED
      BY <3>1, <3>2
  <2>4. \A v \in Reviews : decisionFile'[v] \in {decisionFile[v], None, Torn}
    <3>1. \/ decisionFile' = decisionFile
          \/ decisionFile' = [decisionFile EXCEPT ![handler[h].review] = None]
          \/ decisionFile' = [decisionFile EXCEPT ![handler[h].review] = Torn]
      BY <1>5 DEF Refuse, Promote, WriteRecord, WriteCatalog,
           CompleteReview, Fail, LoseClaim, TearDecision, FailWrite, Crash, Others, outputs
    <3> QED
      BY <1>0, <3>1
  <2> QED
    BY <2>1, <2>2, <2>3, <2>4, AuthorityGoto
<1> QED
  BY <1>1, <1>2, <1>3, <1>4, <1>5 DEF Proceed

\* Nothing else than the requests gives authority; signatures are never replaced.
LEMMA OutsideAuthority ==
  ASSUME AuthorityInv, PortalInv', UNCHANGED <<ledger, handler, decisionFile>>, SignaturesStay
  PROVE  AuthorityInv'
<1>1. /\ UnspentUnheld'
      /\ \A a, v, d : Authority(spent, holders, signed, a, v, d)
                        => Authority(spent', holders', signed', a, v, d)
  BY AuthorityStays DEF LedgerMoves
<1> QED
  BY <1>1 DEF AuthorityInv, AuthorizedOf, FileOf

\* Every step preserves the authority of requests and files.
LEMMA AuthorityInvStep == AuthorityInv /\ [Next]_vars => AuthorityInv'
<1> SUFFICES ASSUME AuthorityInv, [Next]_vars PROVE AuthorityInv'
  OBVIOUS
<1>1. PortalInv'
  BY InvStep DEF AuthorityInv
<1>2. ASSUME NEW a \in Approvals, Sign(a) PROVE AuthorityInv'
  <2>1. signed[a] = None /\ UNCHANGED <<ledger, handler, decisionFile>>
    BY <1>2 DEF Sign, outputs
  <2>2. \A b \in Approvals \ {a} : signed'[b] = signed[b]
    BY <1>2 DEF Sign, AuthorityInv, PortalInv, TypeOK
  <2> QED
    BY <1>1, <2>1, <2>2, OutsideAuthority DEF SignaturesStay
<1>3. CASE Edit \/ (\E g \in Registrars : Register(g)) \/ UNCHANGED vars
  <2>1. UNCHANGED <<ledger, handler, decisionFile, signed>>
    BY <1>3 DEF Edit, Register, Validate, Enqueue, vars, outputs
  <2> QED
    BY <1>1, <2>1, OutsideAuthority DEF SignaturesStay
<1> QED
  BY <1>1, <1>2, <1>3, DecideAuthority DEF Next

\* In signed mode a decision file is the work of one request, whose approval is
\* spent and was signed for this review and this very decision.
THEOREM DecisionsAuthorized == Spec => []DecisionIsAuthorized
<1>1. Init => AuthorityInv
  <2> SUFFICES ASSUME Init PROVE AuthorityInv
    OBVIOUS
  <2>1. PortalInv
    BY InitInv
  <2> QED
    BY <2>1 DEF Init, NewHandler, Ledger!ApprovalInit, AuthorityInv, UnspentUnheld, BuiltOf,
                AuthorizedOf, FileOf
<1>2. AuthorityInv => DecisionIsAuthorized
  BY DEF AuthorityInv, FileOf, Authority, DecisionIsAuthorized
<1> QED
  BY <1>1, <1>2, AuthorityInvStep, PTL DEF Spec
=============================================================================
