------------------------ MODULE SecurityExport_proof ------------------------
(* For any number of logins, items, lost and late calls, exporters and       *)
(* crashes: claims over the state service are one-use, and the collector     *)
(* has every exported event without a gap.                                   *)
EXTENDS SecurityExport, TLAPS

USE DEF Calls, EventKinds

\* ---------------------------------------------------------------- the service

\* A call is one transaction: it keeps the types of the tables.
LEMMA ExecuteKeepsTypes ==
  ASSUME ServiceTypeOK, NEW call \in CallType, Complete(call), Execute(call)
  PROVE  /\ attempts' \in 0..Limit /\ claimed' \subseteq Items
         /\ events' \in Seq([kind : EventKinds, login : Logins])
         /\ sessions' \subseteq Logins
         /\ Len(events') \in {Len(events), Len(events) + 1}
<1> USE ServiceAssumption DEF ServiceTypeOK, CallType, Complete, Execute
<1>1. attempts' \in 0..Limit
  BY DEF Granted
<1>2. claimed' \subseteq Items
  OBVIOUS
<1>3. /\ events' \in Seq([kind : EventKinds, login : Logins])
      /\ Len(events') \in {Len(events), Len(events) + 1}
  <2>1. CASE call.name = "record"
    <3>1. [kind |-> call.event, login |-> call.login] \in [kind : EventKinds, login : Logins]
      BY <2>1
    <3> QED
      BY <2>1, <3>1
  <2>2. CASE call.name # "record"
    BY <2>2
  <2> QED
    BY <2>1, <2>2
<1>4. sessions' \subseteq Logins
  OBVIOUS
<1> QED
  BY <1>1, <1>2, <1>3, <1>4

\* What the client calls is a complete call.
LEMMA CallOfIsCall ==
  ASSUME ServiceInv, NEW l \in Logins, Calling(l)
  PROVE  CallOf(l) \in CallType /\ Complete(CallOf(l))
BY DEF ServiceInv, ServiceTypeOK, LoginType, Calling, CallOf, CallType

\* A step of a login is one of the client's moves: its phase and event change,
\* or its item before it held any, or it takes hold of its item.
LoginMoves(l) ==
  \E new \in LoginType :
    /\ login' = [login EXCEPT ![l] = new]
    /\ new.pc = "claim" => new.item \in Items
    /\ new.pc = "record" => new.event \in EventKinds
    /\ new.pc # "idle"
    /\ \/ new.held = login[l].held /\ new.item = login[l].item
       \/ ~ login[l].held /\ ~ new.held

\* A step of a login to another call is a move.
LEMMA GotoMoves ==
  ASSUME ServiceInv, NEW l \in Logins, NEW pc, Goto(l, pc),
         pc \in (Calls \ {"record"}) \cup {"verify", "granted", "failed", "error"},
         pc = "claim" => login[l].item \in Items
  PROVE  LoginMoves(l)
<1> DEFINE new == [login[l] EXCEPT !.pc = pc]
<1> USE DEF ServiceInv, ServiceTypeOK, LoginType
<1>1. login' = [login EXCEPT ![l] = new]
  BY DEF Goto
<1>2. new \in LoginType /\ new.pc = pc /\ new.item = login[l].item /\ new.held = login[l].held
  OBVIOUS
<1> QED
  BY <1>1, <1>2 DEF LoginMoves

\* A step to the record of an event is a move.
LEMMA RecordMoves ==
  ASSUME ServiceInv, NEW l \in Logins, NEW event \in EventKinds, Record(l, event)
  PROVE  LoginMoves(l)
<1> DEFINE new == [login[l] EXCEPT !.pc = "record", !.event = event]
<1> USE DEF ServiceInv, ServiceTypeOK, LoginType
<1>1. login' = [login EXCEPT ![l] = new]
  BY DEF Record
<1>2. /\ new \in LoginType /\ new.pc = "record" /\ new.event = event
      /\ new.item = login[l].item /\ new.held = login[l].held
  OBVIOUS
<1> QED
  BY <1>1, <1>2 DEF LoginMoves

\* A login takes hold of its item.
LoginTakes(l) ==
  \E new \in LoginType :
    /\ login' = [login EXCEPT ![l] = new]
    /\ new.pc \in {"verify", "clear"}
    /\ new.held /\ new.item = login[l].item

\* Success is an event.
LEMMA SuccessIsEvent == \A l : Success(l) \in EventKinds
BY DEF Success

\* The arrival is a move.
LEMMA ArriveMoves ==
  ASSUME ServiceInv, NEW l \in Logins, Arrive(l)
  PROVE  LoginMoves(l)
<1> USE ServiceAssumption DEF ServiceInv, ServiceTypeOK, LoginType
<1>1. PICK item \in Offers[l] :
        login' = [login EXCEPT ![l].pc = IF item \in States THEN "claim" ELSE "attempt",
                               ![l].item = item]
  BY DEF Arrive
<1> DEFINE pc == IF item \in States THEN "claim" ELSE "attempt"
           new == [login[l] EXCEPT !.pc = pc, !.item = item]
<1>2. /\ new \in LoginType /\ new.pc = pc /\ new.item = item /\ new.held = login[l].held
  BY <1>1
<1>3. login' = [login EXCEPT ![l] = new]
  BY <1>1
<1>4. ~ login[l].held
  BY DEF Arrive
<1> QED
  BY <1>2, <1>3, <1>4 DEF LoginMoves

\* The check of the identity is a move.
LEMMA VerifyMoves ==
  ASSUME ServiceInv, NEW l \in Logins, Verify(l)
  PROVE  LoginMoves(l)
<1>1. CASE Record(l, "login_failed")
  BY <1>1, RecordMoves
<1>2. CASE Goto(l, IF login[l].item = None THEN "clear" ELSE "claim")
  <2>1. login[l].item # None => login[l].item \in Items
    BY DEF ServiceInv, ServiceTypeOK, LoginType
  <2>2. CASE login[l].item = None
    BY <1>2, <2>2, GotoMoves
  <2>3. CASE login[l].item # None
    BY <1>2, <2>1, <2>3, GotoMoves
  <2> QED
    BY <2>2, <2>3
<1>3. CASE Goto(l, "failed")
  BY <1>3, GotoMoves
<1>4. CASE Record(l, Success(l))
  BY <1>4, RecordMoves, SuccessIsEvent
<1> QED
  BY <1>1, <1>2, <1>3, <1>4 DEF Verify

\* A call that succeeds moves the login on; a claim gives it its item.
LEMMA ContinueMoves ==
  ASSUME ServiceInv, NEW l \in Logins, Calling(l), Continue(l)
  PROVE  IF login[l].pc = "claim" THEN LoginTakes(l) ELSE LoginMoves(l)
<1>1. CASE login[l].pc = "claim"
  <2> DEFINE pc == IF Federated(l) THEN "verify" ELSE "clear"
             new == [login[l] EXCEPT !.pc = pc, !.held = TRUE]
  <2>1. login' = [login EXCEPT ![l].pc = pc, ![l].held = TRUE]
    BY <1>1 DEF Continue
  <2>2. login' = [login EXCEPT ![l] = new]
    BY <2>1 DEF ServiceInv, ServiceTypeOK, LoginType
  <2>3. new \in LoginType /\ new.pc = pc /\ new.item = login[l].item /\ new.held
    BY DEF ServiceInv, ServiceTypeOK, LoginType
  <2> QED
    BY <1>1, <2>2, <2>3 DEF LoginTakes
<1>2. CASE login[l].pc = "attempt"
  BY <1>2, GotoMoves DEF Continue
<1>3. CASE login[l].pc = "clear"
  BY <1>3, RecordMoves, SuccessIsEvent DEF Continue
<1>4. CASE login[l].pc = "record"
  BY <1>4, GotoMoves DEF Continue
<1>5. CASE login[l].pc = "register"
  BY <1>5, GotoMoves DEF Continue
<1> QED
  BY <1>1, <1>2, <1>3, <1>4, <1>5 DEF Calling

\* A refusal is a move.
LEMMA DenyMoves ==
  ASSUME ServiceInv, NEW l \in Logins, Deny(l)
  PROVE  LoginMoves(l)
BY GotoMoves, RecordMoves DEF Deny

\* A move or a claim of a login preserves the invariant of the service.
LEMMA LoginKeepsInv ==
  ASSUME ServiceInv, NEW l \in Logins, LoginMoves(l) \/ LoginTakes(l)
  PROVE  /\ login' \in [Logins -> LoginType]
         /\ \A k \in Logins : Complete(CallOf(k))' /\ (login'[k].pc = "idle" => ~ login'[k].held)
<1>1. PICK new \in LoginType :
        /\ login' = [login EXCEPT ![l] = new]
        /\ new.pc = "claim" => new.item \in Items
        /\ new.pc = "record" => new.event \in EventKinds
        /\ new.pc # "idle"
  BY DEF LoginMoves, LoginTakes
<1>2. login' \in [Logins -> LoginType]
  BY <1>1 DEF ServiceInv, ServiceTypeOK
<1> SUFFICES ASSUME NEW k \in Logins
             PROVE  Complete(CallOf(k))' /\ (login'[k].pc = "idle" => ~ login'[k].held)
  BY <1>2
<1>3. CASE k = l
  <2>1. login'[k] = new
    BY <1>1, <1>3 DEF ServiceInv, ServiceTypeOK
  <2> QED
    BY <1>1, <2>1 DEF Complete, CallOf
<1>4. CASE k # l
  <2>1. login'[k] = login[k]
    BY <1>1, <1>4 DEF ServiceInv, ServiceTypeOK
  <2> QED
    BY <2>1 DEF ServiceInv, Complete, CallOf
<1> QED
  BY <1>3, <1>4

\* The parts of the service's invariant that no step of a login changes.
ServiceRest == trusted \in Rotations /\ rotations \in 0..MaxRotations /\ losses \in 0..MaxLosses

TablesTyped ==
  /\ attempts \in 0..Limit /\ claimed \subseteq Items
  /\ events \in Seq([kind : EventKinds, login : Logins])
  /\ sessions \subseteq Logins

\* The tables stay, or one call is executed on them.
TablesMove == UNCHANGED tables \/ \E call \in CallType : Complete(call) /\ Execute(call)

\* The tables of the store keep their types and gain one event at most.
LEMMA TablesKeepTypes ==
  ASSUME ServiceInv, TablesMove
  PROVE  TablesTyped' /\ Len(events') \in {Len(events), Len(events) + 1}
<1>1. CASE UNCHANGED tables
  BY <1>1 DEF ServiceInv, ServiceTypeOK, TablesTyped, tables
<1>2. ASSUME NEW call \in CallType, Complete(call), Execute(call)
      PROVE  TablesTyped' /\ Len(events') \in {Len(events), Len(events) + 1}
  BY <1>2, ExecuteKeepsTypes DEF ServiceInv, TablesTyped
<1> QED
  BY <1>1, <1>2 DEF TablesMove

\* Every step of the service is one of these moves.
LEMMA ServiceMoves ==
  ASSUME ServiceInv, [ServiceNext]_serviceVars
  PROVE  /\ TablesMove
         /\ UNCHANGED login \/ \E l \in Logins : LoginMoves(l) \/ LoginTakes(l)
         /\ late' \subseteq CallType /\ \A call \in late' : Complete(call)
         /\ ServiceRest'
<1> USE ServiceAssumption DEF ServiceRest
<1>0. /\ late \subseteq CallType /\ \A call \in late : Complete(call)
      /\ ServiceRest
  BY DEF ServiceInv, ServiceTypeOK
<1>1. ASSUME NEW l \in Logins, Arrive(l) \/ Verify(l)
      PROVE  LoginMoves(l) /\ UNCHANGED <<tables, network>>
  BY <1>1, ArriveMoves, VerifyMoves DEF Arrive, Verify
<1>2. ASSUME NEW l \in Logins, Answer(l)
      PROVE  /\ LoginMoves(l) \/ LoginTakes(l)
             /\ UNCHANGED network /\ TablesMove
  <2>1. LoginMoves(l) \/ LoginTakes(l)
    <3>1. CASE Granted(CallOf(l)) /\ Continue(l)
      BY <1>2, <3>1, ContinueMoves DEF Answer
    <3>2. CASE Deny(l)
      BY <3>2, DenyMoves
    <3> QED
      BY <1>2, <3>1, <3>2 DEF Answer
  <2>2. TablesMove
    BY <1>2, CallOfIsCall DEF Answer, TablesMove
  <2> QED
    BY <1>2, <2>1, <2>2 DEF Answer
<1>3. ASSUME NEW l \in Logins, Unauthorized(l)
      PROVE  LoginMoves(l) /\ UNCHANGED <<tables, network>>
  BY <1>3, GotoMoves DEF Unauthorized
<1>4. ASSUME NEW l \in Logins, Lose(l)
      PROVE  /\ LoginMoves(l) /\ TablesMove /\ late' \in {late, late \cup {CallOf(l)}}
             /\ UNCHANGED <<trusted, rotations>> /\ losses' \in 0..MaxLosses
  <2>1. LoginMoves(l)
    BY <1>4, GotoMoves DEF Lose
  <2>2. TablesMove
    BY <1>4, CallOfIsCall DEF Lose, TablesMove
  <2>3. losses' \in 0..MaxLosses
    BY <1>4 DEF Lose, ServiceInv, ServiceTypeOK
  <2> QED
    BY <1>4, <2>1, <2>2, <2>3 DEF Lose
<1>5. ASSUME HandleLate
      PROVE  TablesMove /\ late' \subseteq late /\ UNCHANGED <<login, trusted, rotations, losses>>
  BY <1>0, <1>5 DEF HandleLate, TablesMove
<1>6. ASSUME Rotate
      PROVE  UNCHANGED <<tables, login, late, losses>> /\ ServiceRest'
  BY <1>0, <1>6 DEF Rotate
<1>7. CASE UNCHANGED serviceVars
  BY <1>0, <1>7 DEF serviceVars, network, TablesMove
<1>8. ASSUME NEW l \in Logins, Lose(l) PROVE CallOf(l) \in CallType /\ Complete(CallOf(l))
  BY <1>8, CallOfIsCall DEF Lose
<1>9. ASSUME NEW l \in Logins, Serve(l) \/ Lose(l)
      PROVE  /\ TablesMove
             /\ LoginMoves(l) \/ LoginTakes(l)
             /\ late' \subseteq CallType /\ \A call \in late' : Complete(call)
             /\ ServiceRest'
  <2>1. CASE Arrive(l) \/ Verify(l) \/ Unauthorized(l)
    BY <1>0, <1>1, <1>3, <2>1 DEF network, TablesMove
  <2>2. CASE Answer(l)
    BY <1>0, <1>2, <2>2 DEF network
  <2>3. CASE Lose(l)
    BY <1>0, <1>4, <1>8, <2>3
  <2> QED
    BY <1>9, <2>1, <2>2, <2>3 DEF Serve
<1>10. CASE HandleLate
  BY <1>0, <1>5, <1>10
<1>11. CASE Rotate
  BY <1>0, <1>6, <1>11 DEF TablesMove
<1>12. CASE \E l \in Logins : Serve(l) \/ Lose(l)
  <2>1. PICK l \in Logins : Serve(l) \/ Lose(l)
    BY <1>12
  <2>2. /\ TablesMove
        /\ \E k \in Logins : LoginMoves(k) \/ LoginTakes(k)
        /\ late' \subseteq CallType /\ \A call \in late' : Complete(call)
        /\ ServiceRest'
    BY <1>9, <2>1
  <2> QED
    BY ONLY <2>2
<1>13. UNCHANGED serviceVars \/ HandleLate \/ Rotate \/ \E l \in Logins : Serve(l) \/ Lose(l)
  BY DEF ServiceNext
<1> QED
  BY ONLY <1>7, <1>10, <1>11, <1>12, <1>13

\* The service keeps its invariant, and its events only grow.
LEMMA ServiceStep ==
  ASSUME ServiceInv, [ServiceNext]_serviceVars
  PROVE  ServiceInv' /\ Len(events') \in {Len(events), Len(events) + 1}
<1>1. TablesTyped' /\ Len(events') \in {Len(events), Len(events) + 1}
  BY ServiceMoves, TablesKeepTypes
<1>2. /\ login' \in [Logins -> LoginType]
      /\ \A k \in Logins : Complete(CallOf(k))' /\ (login'[k].pc = "idle" => ~ login'[k].held)
  <2>1. CASE UNCHANGED login
    BY <2>1 DEF ServiceInv, ServiceTypeOK, Complete, CallOf
  <2>2. ASSUME NEW l \in Logins, LoginMoves(l) \/ LoginTakes(l)
        PROVE  <1>2!1 /\ <1>2!2
    BY <2>2, LoginKeepsInv
  <2> QED
    BY <2>1, <2>2, ServiceMoves
<1>3. /\ late' \subseteq CallType /\ \A call \in late' : Complete(call)
      /\ ServiceRest'
  BY ServiceMoves
<1>4. \A call \in late' : Complete(call)'
  BY <1>3 DEF Complete
<1> QED
  BY <1>1, <1>2, <1>3, <1>4 DEF ServiceInv, ServiceTypeOK, TablesTyped, ServiceRest

\* ---------------------------------------------------------------- the export

\* The minimum of two numbers.
LEMMA LesserOfTwo ==
  ASSUME NEW a \in Nat, NEW b \in Nat
  PROVE  Min({a, b}) \in {a, b} /\ Min({a, b}) <= a /\ Min({a, b}) <= b
<1>1. \E x \in {a, b} : \A y \in {a, b} : x <= y
  <2>1. CASE a <= b
    BY <2>1
  <2>2. CASE b <= a
    BY <2>2
  <2> QED
    BY <2>1, <2>2
<1> QED
  BY <1>1 DEF Min

\* Nothing is recorded or exported at the start.
LEMMA ExportInitially == Init => ExportInv
<1> SUFFICES ASSUME Init PROVE ExportInv
  OBVIOUS
<1> USE ServiceAssumption, ExportAssumption DEF Init, ServiceInit
<1>1. ServiceTypeOK
  BY DEF ServiceTypeOK, LoginType
<1>2. ServiceInv
  BY <1>1 DEF ServiceInv, Complete, CallOf
<1>3. exporter \in [Exporters -> ExporterType]
  BY DEF Idle, ExporterType
<1>4. TypeOK
  BY <1>1, <1>3 DEF TypeOK
<1>5. collector = 1..0 /\ 1..checkpoint = {}
  OBVIOUS
<1>6. \A x \in Exporters : ExporterInv(x)
  BY DEF ExporterInv, At, Idle
<1> QED
  BY <1>2, <1>4, <1>5, <1>6 DEF ExportInv

\* What the collector holds is a prefix and stays one when a batch that begins
\* at or before its end is added.
LEMMA BatchExtends ==
  ASSUME NEW n \in Nat, NEW after \in Nat, NEW last \in Nat,
         1..after \subseteq 1..n, after < last
  PROVE  /\ \E m \in Nat : (1..n) \cup ((after + 1)..last) = 1..m
         /\ 1..last \subseteq (1..n) \cup ((after + 1)..last)
<1>1. after <= n
  <2>1. CASE after = 0
    BY <2>1
  <2>2. CASE after # 0
    <3>1. after \in 1..after
      BY <2>2
    <3> QED
      BY <3>1
  <2> QED
    BY <2>1, <2>2
<1>2. 1..last \subseteq (1..n) \cup ((after + 1)..last)
  BY <1>1
<1>3. CASE last <= n
  <2>1. (1..n) \cup ((after + 1)..last) = 1..n
    BY <1>3
  <2> QED
    BY <1>2, <2>1
<1>4. CASE n < last
  <2>1. (1..n) \cup ((after + 1)..last) = 1..last
    BY <1>1, <1>4
  <2> QED
    BY <1>2, <2>1
<1> QED
  BY <1>2, <1>3, <1>4

\* The step of one exporter, given what it leaves of the collector and of the
\* exporter: the others still know what they knew.
LEMMA ExporterStep ==
  ASSUME ExportInv, NEW x \in Exporters, UNCHANGED serviceVars,
         NEW new \in ExporterType, exporter' = [exporter EXCEPT ![x] = new],
         collector \subseteq collector', collector' \subseteq DOMAIN events,
         \E n \in Nat : collector' = 1..n,
         checkpoint' \in Nat, 1..checkpoint' \subseteq collector',
         faults' \in 0..MaxFaults,
         new.pc # "idle" => 1..new.after \subseteq collector',
         new.pc = "posting" => new.after < new.last /\ new.last <= Len(events),
         new.pc = "accepted" => 1..new.last \subseteq collector'
  PROVE  ExportInv'
<1>1. ServiceInv' /\ events' = events
  BY ServiceStep DEF ExportInv, serviceVars, tables
<1>2. TypeOK'
  <2>1. exporter' \in [Exporters -> ExporterType]
    BY DEF ExportInv, TypeOK
  <2> QED
    BY <1>1, <2>1 DEF TypeOK, ServiceInv
<1>3. ASSUME NEW y \in Exporters PROVE ExporterInv(y)'
  <2>1. CASE y = x
    <3>1. exporter'[y] = new
      BY <2>1 DEF ExportInv, TypeOK
    <3> QED
      BY <1>1, <3>1 DEF ExporterInv, At
  <2>2. CASE y # x
    <3>1. exporter'[y] = exporter[y]
      BY <2>2 DEF ExportInv, TypeOK
    <3>2. ExporterInv(y)
      BY DEF ExportInv
    <3> QED
      BY <1>1, <3>1, <3>2 DEF ExporterInv, At
  <2> QED
    BY <2>1, <2>2
<1> QED
  BY <1>1, <1>2, <1>3 DEF ExportInv

\* One step for each of the exporter's actions.
LEMMA EachExporterStep ==
  ASSUME ExportInv, NEW x \in Exporters, Export(x) \/ FailPost(x) \/ Crash(x)
  PROVE  ExportInv'
<1> USE ExportAssumption
<1>0. /\ exporter[x] \in ExporterType /\ exporter \in [Exporters -> ExporterType]
      /\ collector \subseteq DOMAIN events /\ checkpoint \in Nat /\ faults \in 0..MaxFaults
      /\ 1..checkpoint \subseteq collector /\ ExporterInv(x)
      /\ Len(events) \in Nat /\ DOMAIN events = 1..Len(events)
  BY DEF ExportInv, TypeOK, ServiceTypeOK
<1>1. PICK n \in Nat : collector = 1..n
  BY DEF ExportInv
<1>10. 0 \in 0..MaxAttempts /\ 1 \in 0..MaxAttempts
  OBVIOUS
<1>2. Idle \in ExporterType
  BY DEF Idle, ExporterType
<1>3. CASE LoadCheckpoint(x)
  <2> DEFINE new == [exporter[x] EXCEPT !.pc = "loaded", !.after = checkpoint]
  <2>1. exporter' = [exporter EXCEPT ![x] = new]
    BY <1>0, <1>3 DEF LoadCheckpoint, ExporterType
  <2>2. new \in ExporterType /\ new.pc = "loaded" /\ new.after = checkpoint
    BY <1>0 DEF ExporterType
  <2> HIDE DEF new
  <2> QED
    BY <1>0, <1>1, <1>3, <2>1, <2>2, ExporterStep DEF LoadCheckpoint
<1>4. CASE ReadEvents(x)
  <2> DEFINE last == Min({exporter[x].after + BatchSize, Len(events)})
             new == [exporter[x] EXCEPT !.pc = "posting", !.last = last, !.attempt = 1]
  <2>0. exporter[x].after + BatchSize \in Nat
    BY <1>0 DEF ExporterType
  <2>1. last \in Nat /\ last <= Len(events)
    BY <1>0, <2>0, LesserOfTwo
  <2>2. CASE last > exporter[x].after
    <3> HIDE DEF last
    <3>1. exporter' = [exporter EXCEPT ![x] = new]
      BY <1>0, <1>4, <2>2 DEF ReadEvents, ExporterType, last
    <3>2. /\ new \in ExporterType /\ new.pc = "posting" /\ new.last = last
          /\ new.after = exporter[x].after
      BY ONLY <1>0, <1>10, <2>1 DEF ExporterType
    <3>3. 1..new.after \subseteq collector /\ new.after < new.last
      BY <1>0, <1>4, <2>1, <2>2, <3>2 DEF ReadEvents, ExporterInv, At, ExporterType
    <3> HIDE DEF new
    <3> QED
      BY <1>0, <1>1, <1>4, <2>1, <3>1, <3>2, <3>3, ExporterStep DEF ReadEvents
  <2>3. CASE ~ (last > exporter[x].after)
    <3>1. exporter' = [exporter EXCEPT ![x] = Idle]
      BY <1>4, <2>3 DEF ReadEvents, End
    <3>2. Idle.pc = "idle"
      BY DEF Idle
    <3> HIDE DEF last
    <3> QED
      BY <1>0, <1>1, <1>2, <1>4, <3>1, <3>2, ExporterStep DEF ReadEvents
  <2> QED
    BY <2>2, <2>3
<1>5. ASSUME At(x, "posting"), collector' = collector \/ collector' = collector \cup Batch(x)
      PROVE  /\ collector \subseteq collector' /\ collector' \subseteq DOMAIN events
             /\ \E m \in Nat : collector' = 1..m
             /\ 1..checkpoint \subseteq collector'
             /\ 1..exporter[x].after \subseteq collector'
  <2>1. /\ exporter[x].after \in Nat /\ exporter[x].last \in Nat
        /\ exporter[x].after < exporter[x].last /\ exporter[x].last <= Len(events)
        /\ 1..exporter[x].after \subseteq 1..n
    BY <1>0, <1>1, <1>5 DEF ExporterInv, At, ExporterType
  <2>2. CASE collector' = collector
    BY <1>0, <1>1, <2>1, <2>2
  <2>3. CASE collector' = collector \cup Batch(x)
    <3>1. \E m \in Nat : collector' = 1..m
      <4>1. collector' = (1..n) \cup ((exporter[x].after + 1)..exporter[x].last)
        BY <1>1, <2>3 DEF Batch
      <4>2. PICK m \in Nat :
              (1..n) \cup ((exporter[x].after + 1)..exporter[x].last) = 1..m
        BY <2>1, BatchExtends
      <4> QED
        BY ONLY <4>1, <4>2
    <3>2. Batch(x) \subseteq DOMAIN events
      BY <1>0, <2>1 DEF Batch
    <3> QED
      BY <1>0, <1>1, <2>1, <2>3, <3>1, <3>2
  <2> QED
    BY <1>5, <2>2, <2>3
<1>6. CASE Post(x)
  <2> DEFINE new == [exporter[x] EXCEPT !.pc = "accepted", !.attempt = 0]
  <2>1. exporter' = [exporter EXCEPT ![x] = new]
    BY <1>0, <1>6 DEF Post, ExporterType
  <2>2. /\ new \in ExporterType /\ new.pc = "accepted"
        /\ new.after = exporter[x].after /\ new.last = exporter[x].last
    BY ONLY <1>0, <1>10 DEF ExporterType
  <2>3. At(x, "posting") /\ collector' = collector \cup Batch(x)
    BY <1>6 DEF Post
  <2>4. 1..new.last \subseteq collector'
    BY <1>0, <1>1, <2>2, <2>3, BatchExtends DEF ExporterInv, At, ExporterType, Batch
  <2>5. /\ collector \subseteq collector' /\ collector' \subseteq DOMAIN events
        /\ \E m \in Nat : collector' = 1..m
        /\ 1..checkpoint \subseteq collector' /\ 1..new.after \subseteq collector'
    BY <1>5, <2>2, <2>3
  <2> HIDE DEF new
  <2> QED
    BY <1>0, <1>6, <2>1, <2>2, <2>4, <2>5, ExporterStep DEF Post
<1>7. CASE FailPost(x)
  <2>1. At(x, "posting") /\ (collector' = collector \/ collector' = collector \cup Batch(x))
    BY <1>7 DEF FailPost
  <2>2. /\ UNCHANGED <<serviceVars, checkpoint>> /\ faults' \in 0..MaxFaults
    BY <1>0, <1>7 DEF FailPost
  <2>3. CASE End(x)
    <3>1. exporter' = [exporter EXCEPT ![x] = Idle] /\ Idle.pc = "idle"
      BY <2>3 DEF End, Idle
    <3> QED
      BY <1>0, <1>2, <1>5, <2>1, <2>2, <3>1, ExporterStep
  <2>4. CASE /\ exporter[x].attempt < MaxAttempts
             /\ exporter' = [exporter EXCEPT ![x].attempt = @ + 1]
    <3> DEFINE new == [exporter[x] EXCEPT !.attempt = @ + 1]
    <3>1. exporter' = [exporter EXCEPT ![x] = new]
      BY <1>0, <2>4 DEF ExporterType
    <3>2. /\ new \in ExporterType /\ new.pc = "posting"
          /\ new.after = exporter[x].after /\ new.last = exporter[x].last
      BY <1>0, <2>1, <2>4 DEF ExporterType, At
    <3>3. new.after < new.last /\ new.last <= Len(events)
      BY <1>0, <2>1, <3>2 DEF ExporterInv
    <3>4. 1..new.after \subseteq collector'
      BY <1>5, <2>1, <3>2
    <3> HIDE DEF new
    <3> QED
      BY <1>0, <1>5, <2>1, <2>2, <3>1, <3>2, <3>3, <3>4, ExporterStep
  <2> QED
    BY <1>7, <2>3, <2>4 DEF FailPost
<1>8. CASE WriteCheckpoint(x)
  <2>1. exporter' = [exporter EXCEPT ![x] = Idle] /\ Idle.pc = "idle"
    BY <1>8 DEF WriteCheckpoint, End, Idle
  <2>2. checkpoint' \in Nat /\ 1..checkpoint' \subseteq collector
    BY <1>0, <1>8 DEF WriteCheckpoint, ExporterInv, ExporterType
  <2> QED
    BY <1>0, <1>1, <1>2, <1>8, <2>1, <2>2, ExporterStep DEF WriteCheckpoint
<1>9. CASE Crash(x)
  <2>1. exporter' = [exporter EXCEPT ![x] = Idle] /\ Idle.pc = "idle"
    BY <1>9 DEF Crash, End, Idle
  <2>2. UNCHANGED <<serviceVars, checkpoint, collector>> /\ faults' \in 0..MaxFaults
    BY <1>0, <1>9 DEF Crash
  <2> QED
    BY <1>0, <1>1, <1>2, <2>1, <2>2, ExporterStep
<1> QED
  BY <1>3, <1>4, <1>6, <1>7, <1>8, <1>9 DEF Export

\* Every step preserves the invariant.
LEMMA ExportSteps == ExportInv /\ [Next]_vars => ExportInv'
<1> SUFFICES ASSUME ExportInv, [Next]_vars PROVE ExportInv'
  OBVIOUS
<1>1. CASE [ServiceNext]_serviceVars /\ UNCHANGED exportVars
  <2>1. ServiceInv' /\ Len(events') \in {Len(events), Len(events) + 1}
    BY <1>1, ServiceStep DEF ExportInv
  <2>2. DOMAIN events \subseteq DOMAIN events' /\ Len(events) <= Len(events')
    BY <2>1 DEF ExportInv, ServiceInv, ServiceTypeOK
  <2>3. TypeOK'
    BY <1>1, <2>1, <2>2 DEF ExportInv, TypeOK, ServiceInv, exportVars
  <2>4. ASSUME NEW x \in Exporters PROVE ExporterInv(x)'
    <3>1. ExporterInv(x)
      BY DEF ExportInv
    <3>2. exporter[x].last \in Nat /\ Len(events) \in Nat /\ Len(events') \in Nat
      BY <2>1 DEF ExportInv, TypeOK, ExporterType, ServiceInv, ServiceTypeOK
    <3> QED
      BY <1>1, <2>2, <3>1, <3>2 DEF ExporterInv, At, exportVars
  <2> QED
    BY <1>1, <2>1, <2>3, <2>4 DEF ExportInv, exportVars
<1>2. CASE \E x \in Exporters : Export(x) \/ FailPost(x) \/ Crash(x)
  BY <1>2, EachExporterStep
<1>3. CASE UNCHANGED vars
  BY <1>1, <1>3 DEF vars
<1> QED
  BY <1>1, <1>2, <1>3 DEF Next

\* The invariant holds in every reachable state.
LEMMA ExportInvariant == Spec => []ExportInv
BY ExportInitially, ExportSteps, PTL DEF Spec

\* The state of the service, of its clients and of the exporters keeps its
\* types, and the collector never holds an event that was not recorded.
THEOREM ExportTypeCorrect == Spec => []TypeOK
<1>1. ExportInv => TypeOK
  BY DEF ExportInv
<1> QED
  BY <1>1, ExportInvariant, PTL

\* However many exporters overlap and die, the collector has every event up to
\* the checkpoint and no event whose predecessors it lacks.
THEOREM NoGap == Spec => []NothingSkipped
<1>1. ExportInv => NothingSkipped
  BY DEF ExportInv, NothingSkipped
<1> QED
  BY <1>1, ExportInvariant, PTL

\* -------------------------------------------------------- the refinements

\* A move gives nobody an item.
LEMMA MovesKeepHolders ==
  ASSUME ServiceInv, NEW l \in Logins, LoginMoves(l)
  PROVE  Holders' = Holders
<1>1. PICK new \in LoginType :
        /\ login' = [login EXCEPT ![l] = new]
        /\ \/ new.held = login[l].held /\ new.item = login[l].item
           \/ ~ login[l].held /\ ~ new.held
  BY DEF LoginMoves
<1>2. ASSUME NEW i \in Items, NEW k \in Logins
      PROVE  login'[k].item = i /\ login'[k].held <=> login[k].item = i /\ login[k].held
  <2>1. CASE k = l
    <3>1. login'[k] = new
      BY <1>1, <2>1 DEF ServiceInv, ServiceTypeOK
    <3> QED
      BY <1>1, <2>1, <3>1
  <2>2. CASE k # l
    <3>1. login'[k] = login[k]
      BY <1>1, <2>2 DEF ServiceInv, ServiceTypeOK
    <3> QED
      BY <3>1
  <2> QED
    BY <2>1, <2>2
<1>3. ASSUME NEW i \in Items
      PROVE  {k \in Logins : login'[k].item = i /\ login'[k].held}
               = {k \in Logins : login[k].item = i /\ login[k].held}
  BY <1>2
<1> QED
  BY <1>3 DEF Holders

\* An answered claim gives the item to the login that made it.
LEMMA TakingAddsHolder ==
  ASSUME ServiceInv, NEW l \in Logins, LoginTakes(l)
  PROVE  Holders' = [Holders EXCEPT ![login[l].item] = @ \cup {l}]
<1>1. PICK new \in LoginType :
        /\ login' = [login EXCEPT ![l] = new]
        /\ new.held /\ new.item = login[l].item
  BY DEF LoginTakes
<1>2. login'[l] = new /\ \A k \in Logins \ {l} : login'[k] = login[k]
  BY <1>1 DEF ServiceInv, ServiceTypeOK
<1>3. ASSUME NEW i \in Items
      PROVE  {k \in Logins : login'[k].item = i /\ login'[k].held}
               = {k \in Logins : login[k].item = i /\ login[k].held}
                   \cup (IF i = login[l].item THEN {l} ELSE {})
  <2>1. CASE i = login[l].item
    BY <1>1, <1>2, <2>1
  <2>2. CASE i # login[l].item
    BY <1>1, <1>2, <2>2
  <2> QED
    BY <2>1, <2>2
<1>4. ASSUME NEW i \in Items
      PROVE  Holders'[i] = Holders[i] \cup (IF i = login[l].item THEN {l} ELSE {})
  BY <1>3 DEF Holders
<1>5. /\ Holders = [i \in Items |-> Holders[i]]
      /\ Holders' = [i \in Items |-> Holders'[i]]
  BY DEF Holders
<1> HIDE DEF Holders
<1>6. ASSUME NEW i \in Items
      PROVE  Holders'[i] = [Holders EXCEPT ![login[l].item] = @ \cup {l}][i]
  BY <1>4, <1>5
<1> QED
  BY <1>5, <1>6

\* A call that is handled without an answer spends its item or nothing.
LEMMA UnansweredBurns ==
  ASSUME ServiceInv, NEW call \in CallType, Complete(call), Execute(call), Holders' = Holders
  PROVE  [Claims!ApprovalNext]_(Claims!approvalVars)
<1>1. CASE call.name = "claim" /\ call.item \notin claimed
  <2>1. call.item \in Items /\ claimed' = claimed \cup {call.item}
    BY <1>1 DEF Complete, Execute
  <2>2. Claims!Burn(call.item)
    BY <1>1, <2>1 DEF Claims!Burn
  <2> QED
    BY <2>1, <2>2 DEF Claims!ApprovalNext
<1>2. CASE ~ (call.name = "claim" /\ call.item \notin claimed)
  <2>1. claimed' = claimed
    BY <1>2 DEF Execute
  <2> QED
    BY <2>1 DEF Claims!approvalVars
<1> QED
  BY <1>1, <1>2

\* An answer is a grant or a stutter of the abstract approval.
LEMMA AnswerGrants ==
  ASSUME ServiceInv, NEW l \in Logins, Answer(l)
  PROVE  [Claims!ApprovalNext]_(Claims!approvalVars)
<1>1. CallOf(l) \in CallType /\ Complete(CallOf(l)) /\ Execute(CallOf(l)) /\ Calling(l)
  BY CallOfIsCall DEF Answer
<1>2. CallOf(l).name = login[l].pc /\ CallOf(l).item = login[l].item
  BY DEF CallOf
<1>3. CASE login[l].pc = "claim" /\ Granted(CallOf(l))
  <2>1. login[l].item \notin claimed
    BY <1>2, <1>3 DEF Granted
  <2>2. login[l].item \in Items /\ claimed' = claimed \cup {login[l].item}
    BY <1>1, <1>2, <1>3 DEF Complete, Execute
  <2>3. LoginTakes(l)
    BY <1>1, <1>3, ContinueMoves DEF Answer
  <2>4. Claims!Grant(login[l].item, l)
    BY <2>1, <2>2, <2>3, TakingAddsHolder DEF Claims!Grant
  <2> QED
    BY <2>2, <2>4 DEF Claims!ApprovalNext
<1>4. CASE ~ (login[l].pc = "claim" /\ Granted(CallOf(l)))
  <2>1. LoginMoves(l)
    BY <1>1, <1>4, ContinueMoves, DenyMoves DEF Answer
  <2> QED
    BY <1>1, <2>1, MovesKeepHolders, UnansweredBurns
<1> QED
  BY <1>3, <1>4

\* A step of the service is a step or a stutter of the abstract approval.
LEMMA ServiceClaims ==
  ASSUME ServiceInv, [ServiceNext]_serviceVars
  PROVE  [Claims!ApprovalNext]_(Claims!approvalVars)
<1>1. ASSUME UNCHANGED <<login, claimed>> PROVE UNCHANGED Claims!approvalVars
  BY <1>1 DEF Claims!approvalVars, Holders
<1>2. ASSUME NEW l \in Logins, LoginMoves(l), UNCHANGED tables
      PROVE  UNCHANGED Claims!approvalVars
  BY <1>2, MovesKeepHolders DEF Claims!approvalVars, tables
<1>3. CASE UNCHANGED serviceVars
  BY <1>1, <1>3 DEF serviceVars, tables
<1>4. ASSUME NEW l \in Logins, Serve(l)
      PROVE  [Claims!ApprovalNext]_(Claims!approvalVars)
  <2>1. CASE Arrive(l)
    BY <1>2, <2>1, ArriveMoves DEF Arrive
  <2>2. CASE Verify(l)
    BY <1>2, <2>2, VerifyMoves DEF Verify
  <2>3. CASE Answer(l)
    BY <2>3, AnswerGrants
  <2>4. CASE Unauthorized(l)
    <3>1. LoginMoves(l)
      BY <2>4, GotoMoves DEF Unauthorized
    <3> QED
      BY <1>2, <2>4, <3>1 DEF Unauthorized
  <2> QED
    BY <1>4, <2>1, <2>2, <2>3, <2>4 DEF Serve
<1>5. ASSUME NEW l \in Logins, Lose(l)
      PROVE  [Claims!ApprovalNext]_(Claims!approvalVars)
  <2>1. LoginMoves(l)
    BY <1>5, GotoMoves DEF Lose
  <2>2. CASE UNCHANGED tables
    BY <1>2, <2>1, <2>2
  <2>3. CASE Execute(CallOf(l))
    BY <1>5, <2>1, <2>3, CallOfIsCall, MovesKeepHolders, UnansweredBurns DEF Lose
  <2> QED
    BY <1>5, <2>2, <2>3 DEF Lose
<1>6. CASE HandleLate
  <2>1. Holders' = Holders
    BY <1>6 DEF HandleLate, Holders
  <2>2. PICK call \in late : Execute(call) \/ UNCHANGED tables
    BY <1>6 DEF HandleLate
  <2>3. call \in CallType /\ Complete(call)
    BY DEF ServiceInv, ServiceTypeOK
  <2>4. CASE Execute(call)
    BY <2>1, <2>3, <2>4, UnansweredBurns
  <2>5. CASE UNCHANGED tables
    BY <2>1, <2>5 DEF tables, Claims!approvalVars
  <2> QED
    BY <2>2, <2>4, <2>5
<1>7. CASE Rotate
  BY <1>1, <1>7 DEF Rotate, tables
<1>8. CASE \E l \in Logins : Serve(l) \/ Lose(l)
  <2>1. PICK l \in Logins : Serve(l) \/ Lose(l)
    BY <1>8
  <2> QED
    BY <1>4, <1>5, <2>1
<1>9. UNCHANGED serviceVars \/ HandleLate \/ Rotate \/ \E l \in Logins : Serve(l) \/ Lose(l)
  BY DEF ServiceNext
<1> QED
  BY ONLY <1>3, <1>6, <1>7, <1>8, <1>9

\* Over a network that loses answers and delays requests, an item of a second
\* factor or of an OIDC login is one-use authority.
THEOREM ClaimsAreOneUse == Spec => ImplementsOneUse
<1>1. Init => Claims!ApprovalInit
  BY DEF Init, ServiceInit, Claims!ApprovalInit, Holders
<1>2. ExportInv /\ [Next]_vars => [Claims!ApprovalNext]_(Claims!approvalVars)
  <2> SUFFICES ASSUME ExportInv, [Next]_vars
               PROVE  [Claims!ApprovalNext]_(Claims!approvalVars)
    OBVIOUS
  <2>1. [ServiceNext]_serviceVars
    <3>1. ASSUME NEW x \in Exporters, Export(x) \/ FailPost(x) \/ Crash(x)
          PROVE  UNCHANGED serviceVars
      BY <3>1 DEF Export, LoadCheckpoint, ReadEvents, Post, WriteCheckpoint, FailPost, Crash
    <3>2. CASE UNCHANGED vars
      BY <3>2 DEF vars
    <3> QED
      BY <3>1, <3>2 DEF Next
  <2> QED
    BY <2>1, ServiceClaims DEF ExportInv
<1> QED
  BY <1>1, <1>2, ExportInvariant, PTL DEF Spec, ImplementsOneUse, Claims!ApprovalSpec

\* The safety part of ImplementsDelivery: every step of the exporters delivers
\* recorded events up to some event, or nothing.
THEOREM DeliversInOrder ==
  Spec => Delivery!DeliveryInit /\ [][Delivery!DeliveryNext]_(Delivery!deliveryVars)
<1>1. Init => Delivery!DeliveryInit
  BY DEF Init, ServiceInit, Delivery!DeliveryInit
<1>2. ExportInv /\ ExportInv' /\ [Next]_vars => [Delivery!DeliveryNext]_(Delivery!deliveryVars)
  <2> SUFFICES ASSUME ExportInv, ExportInv', [Next]_vars
               PROVE  [Delivery!DeliveryNext]_(Delivery!deliveryVars)
    OBVIOUS
  <2>1. CASE [ServiceNext]_serviceVars /\ UNCHANGED exportVars
    <3>1. Len(events') \in {Len(events), Len(events) + 1}
      BY <2>1, ServiceStep DEF ExportInv
    <3>2. collector' = collector
      BY <2>1 DEF exportVars
    <3> QED
      BY <3>1, <3>2 DEF Delivery!DeliveryNext, Delivery!RecordOne, Delivery!deliveryVars
  <2>2. ASSUME NEW x \in Exporters, Export(x) \/ FailPost(x) \/ Crash(x)
        PROVE  [Delivery!DeliveryNext]_(Delivery!deliveryVars)
    <3>1. events' = events /\ collector \subseteq collector'
      BY <2>2 DEF Export, LoadCheckpoint, ReadEvents, Post, WriteCheckpoint, FailPost, Crash,
                  serviceVars, tables
    <3>2. PICK n \in Nat : collector = 1..n
      BY DEF ExportInv
    <3>3. PICK m \in Nat : collector' = 1..m
      BY DEF ExportInv
    <3>4. collector' \subseteq 1..Len(events) /\ Len(events) \in Nat
      BY <3>1 DEF ExportInv, TypeOK, ServiceTypeOK
    <3>5. CASE collector' = collector
      BY <3>1, <3>5 DEF Delivery!deliveryVars
    <3>6. CASE collector' # collector
      <4>1. m \in 1..Len(events) /\ m \notin collector
        BY <3>1, <3>2, <3>3, <3>4, <3>6
      <4> QED
        BY <3>1, <3>3, <4>1 DEF Delivery!DeliveryNext, Delivery!Deliver
    <3> QED
      BY <3>5, <3>6
  <2>3. CASE UNCHANGED vars
    BY <2>1, <2>3 DEF vars
  <2> QED
    BY <2>1, <2>2, <2>3 DEF Next
<1> QED
  BY <1>1, <1>2, ExportInvariant, PTL DEF Spec

\* ------------------------------------------- what a session has left behind

SuccessOf(item) == IF item \in Items \ (Totp \cup States) THEN "recovery_used" ELSE "login_succeeded"
Refusals == {"login_throttled", "login_failed"}

\* The events hold one of login l of these kinds.
Noted(l, kinds, E) == \E i \in DOMAIN E : E[i].login = l /\ E[i].kind \in kinds

Owned(e) == e.item # None => e.held

\* Login l, whose state is e, may have a session.
Entitled(l, e, E) == e.pc # "idle" /\ Owned(e) /\ Noted(l, {SuccessOf(e.item)}, E)

\* What the tables hold of a login in each of its phases.
Standing(l, e, C, E, S) ==
  /\ e.held => e.item \in C
  /\ e.pc = "attempt" => e.item \notin States
  /\ e.pc = "clear" => Owned(e)
  /\ e.pc = "verify" /\ e.item \in States => e.held
  /\ e.pc = "record" => /\ e.event \in {SuccessOf(e.item)} \cup Refusals
                        /\ e.event = SuccessOf(e.item) => Owned(e)
  /\ e.pc = "register" \/ l \in S => Entitled(l, e, E)
  /\ e.pc = "granted" => l \in S
  /\ e.pc = "failed" => e.item \in (Totp \cup States) \cap C \/ Noted(l, Refusals, E)

\* No two logins hold the same item.
Alone(logins) ==
  \A k, l \in Logins :
    logins[k].held /\ logins[l].held /\ logins[k].item = logins[l].item => k = l

\* A session that the service has yet to register is of a login that may have it.
LateEntitled(calls, logins, E) ==
  \A call \in calls : call.name = "register" => Entitled(call.login, logins[call.login], E)

RecordInv ==
  /\ ServiceInv
  /\ \A l \in Logins : Standing(l, login[l], claimed, events, sessions)
  /\ Alone(login)
  /\ LateEntitled(late, login, events)

\* The tables of the claims, the events and the sessions only grow.
Grown ==
  /\ claimed \subseteq claimed' /\ sessions \subseteq sessions'
  /\ \A l, kinds : Noted(l, kinds, events) => Noted(l, kinds, events')

\* Tables that stay have grown.
LEMMA StaysGrown == UNCHANGED tables => Grown
BY DEF Grown, tables

\* What the execution of a call adds to the tables.
LEMMA ExecuteGrows ==
  ASSUME ServiceInv, NEW call \in CallType, Complete(call), Execute(call)
  PROVE  /\ Grown
         /\ sessions' = sessions \cup (IF call.name = "register" THEN {call.login} ELSE {})
         /\ call.name = "record" => Noted(call.login, {call.event}, events')
         /\ call.name = "claim" => claimed' = claimed \cup {call.item}
<1>1. events \in Seq([kind : EventKinds, login : Logins])
  BY DEF ServiceInv, ServiceTypeOK
<1>2. /\ sessions' = sessions \cup (IF call.name = "register" THEN {call.login} ELSE {})
      /\ claimed' = claimed \cup (IF call.name = "claim" THEN {call.item} ELSE {})
      /\ events' = IF call.name = "record"
                     THEN Append(events, [kind |-> call.event, login |-> call.login]) ELSE events
  BY DEF Execute
<1>3. CASE call.name # "record"
  BY <1>2, <1>3 DEF Grown
<1>4. CASE call.name = "record"
  <2> DEFINE event == [kind |-> call.event, login |-> call.login]
  <2>1. events' = Append(events, event) /\ event.kind = call.event /\ event.login = call.login
        /\ event \in [kind : EventKinds, login : Logins]
    BY <1>2, <1>4 DEF Complete, CallType
  <2> HIDE DEF event
  <2>2. /\ Len(events) + 1 \in DOMAIN events' /\ events'[Len(events) + 1] = event
        /\ \A i \in DOMAIN events : i \in DOMAIN events' /\ events'[i] = events[i]
    BY <1>1, <2>1
  <2>3. Noted(call.login, {call.event}, events')
    BY <2>1, <2>2 DEF Noted
  <2>4. \A l, kinds : Noted(l, kinds, events) => Noted(l, kinds, events')
    BY <2>2 DEF Noted
  <2> QED
    BY <1>2, <1>4, <2>3, <2>4 DEF Grown
<1> QED
  BY <1>3, <1>4

\* What a login is entitled to is not lost.
LEMMA EntitledStays ==
  ASSUME Grown, NEW l, NEW e, Entitled(l, e, events)
  PROVE  Entitled(l, e, events')
BY DEF Grown, Entitled

\* What the tables hold of a login stays when they grow.
LEMMA StandingStays ==
  ASSUME Grown, NEW l, NEW e, Standing(l, e, claimed, events, sessions),
         l \in sessions' => l \in sessions \/ Entitled(l, e, events)
  PROVE  Standing(l, e, claimed', events', sessions')
<1>1. e.pc = "register" \/ l \in sessions' => Entitled(l, e, events')
  BY EntitledStays DEF Standing
<1>2. /\ claimed \subseteq claimed' /\ sessions \subseteq sessions'
      /\ Noted(l, Refusals, events) => Noted(l, Refusals, events')
  BY DEF Grown
<1> QED
  BY <1>1, <1>2 DEF Standing

\* A step of login l to a standing that the tables agree with.
LEMMA RecordStep ==
  ASSUME RecordInv, ServiceInv', Grown,
         NEW l \in Logins, NEW new, login' = [login EXCEPT ![l] = new],
         new.item = login[l].item \/ login[l].pc = "idle",
         login[l].held => new.held, new.pc # "idle",
         \A k \in Logins \ {l} :
           new.held /\ login[k].held /\ login[k].item = new.item => login[l].held,
         sessions' \subseteq sessions \cup {l},
         Standing(l, new, claimed', events', sessions'),
         \A call \in late' \ late : call.login = l /\ (call.name = "register" => Entitled(l, new, events'))
  PROVE  RecordInv'
<1>1. /\ login'[l] = new /\ \A k \in Logins \ {l} : login'[k] = login[k]
  BY DEF RecordInv, ServiceInv, ServiceTypeOK
<1>2. ASSUME NEW k \in Logins PROVE Standing(k, login'[k], claimed', events', sessions')
  <2>1. CASE k = l
    BY <1>1, <2>1
  <2>2. CASE k # l
    <3>1. Standing(k, login[k], claimed, events, sessions) /\ (k \in sessions' => k \in sessions)
      BY <2>2 DEF RecordInv
    <3>2. Standing(k, login[k], claimed', events', sessions')
      BY <3>1, StandingStays
    <3> QED
      BY <1>1, <2>2, <3>2
  <2> QED
    BY <2>1, <2>2
<1>3. Alone(login')
  <2>1. login[l].held => new.item = login[l].item
    BY DEF RecordInv, ServiceInv
  <2> QED
    BY <1>1, <2>1 DEF RecordInv, Alone
<1>4. ASSUME NEW call \in late', call.name = "register"
      PROVE  Entitled(call.login, login'[call.login], events')
  <2>1. CASE call \notin late
    BY <1>1, <1>4, <2>1
  <2>2. CASE call \in late
    <3>1. Entitled(call.login, login[call.login], events) /\ call.login \in Logins
      BY <1>4, <2>2 DEF RecordInv, LateEntitled, ServiceInv, ServiceTypeOK, CallType
    <3>2. CASE call.login # l
      BY <1>1, <3>1, <3>2, EntitledStays
    <3>3. CASE call.login = l
      <4>1. Entitled(l, new, events)
        BY <3>1, <3>3 DEF Entitled, Owned
      <4> QED
        BY <1>1, <3>3, <4>1, EntitledStays
    <3> QED
      BY <3>2, <3>3
  <2> QED
    BY <2>1, <2>2
<1>5. LateEntitled(late', login', events')
  BY <1>4 DEF LateEntitled
<1> QED
  BY <1>2, <1>3, <1>5 DEF RecordInv

\* The event of a success, of the item alone.
LEMMA SuccessIs == \A l : Success(l) = SuccessOf(login[l].item)
BY DEF Success, SuccessOf

\* Goto keeps what the login knows.
LEMMA GotoIs ==
  ASSUME ServiceInv, NEW l \in Logins, NEW pc, Goto(l, pc)
  PROVE  \E new : /\ login' = [login EXCEPT ![l] = new]
                  /\ new.pc = pc /\ new.item = login[l].item
                  /\ new.event = login[l].event /\ new.held = login[l].held
<1> DEFINE new == [login[l] EXCEPT !.pc = pc]
<1>1. login' = [login EXCEPT ![l] = new]
  BY DEF Goto
<1>2. /\ new.pc = pc /\ new.item = login[l].item
      /\ new.event = login[l].event /\ new.held = login[l].held
  BY DEF ServiceInv, ServiceTypeOK, LoginType
<1> HIDE DEF new
<1> QED
  BY <1>1, <1>2

\* The step to the record of an event.
LEMMA RecordIs ==
  ASSUME ServiceInv, NEW l \in Logins, NEW event, Record(l, event)
  PROVE  \E new : /\ login' = [login EXCEPT ![l] = new]
                  /\ new.pc = "record" /\ new.item = login[l].item
                  /\ new.event = event /\ new.held = login[l].held
<1> DEFINE new == [login[l] EXCEPT !.pc = "record", !.event = event]
<1>1. login' = [login EXCEPT ![l] = new]
  BY DEF Record
<1>2. /\ new.pc = "record" /\ new.item = login[l].item
      /\ new.event = event /\ new.held = login[l].held
  BY DEF ServiceInv, ServiceTypeOK, LoginType
<1> HIDE DEF new
<1> QED
  BY <1>1, <1>2

\* A login goes to another phase.
LEMMA GotoRecorded ==
  ASSUME RecordInv, ServiceInv', Grown,
         NEW l \in Logins, NEW pc, Goto(l, pc), pc \notin {"idle", "attempt", "record"},
         pc = "clear" => Owned(login[l]),
         pc = "verify" /\ login[l].item \in States => login[l].held,
         pc = "register" \/ l \in sessions' \ sessions =>
           Owned(login[l]) /\ Noted(l, {Success(l)}, events'),
         pc = "granted" => l \in sessions',
         pc = "failed" => \/ login[l].item \in (Totp \cup States) \cap claimed'
                          \/ Noted(l, Refusals, events'),
         sessions' \subseteq sessions \cup {l},
         \A call \in late' \ late :
           /\ call.login = l
           /\ call.name = "register" => Owned(login[l]) /\ Noted(l, {Success(l)}, events')
  PROVE  RecordInv'
<1>0. ServiceInv /\ Standing(l, login[l], claimed, events, sessions)
  BY DEF RecordInv
<1>1. PICK new : /\ login' = [login EXCEPT ![l] = new]
                 /\ new.pc = pc /\ new.item = login[l].item
                 /\ new.event = login[l].event /\ new.held = login[l].held
  BY <1>0, GotoIs
<1>2. Success(l) = SuccessOf(new.item) /\ (Owned(new) <=> Owned(login[l]))
  BY <1>1, SuccessIs DEF Owned
<1>3. Owned(login[l]) /\ Noted(l, {Success(l)}, events') => Entitled(l, new, events')
  BY <1>1, <1>2 DEF Entitled
<1>4. l \in sessions => Entitled(l, new, events')
  <2>1. l \in sessions => Entitled(l, login[l], events')
    BY <1>0, EntitledStays DEF Standing
  <2> QED
    BY <1>1, <1>2, <2>1 DEF Entitled
<1>5. new.held => new.item \in claimed'
  BY <1>0, <1>1 DEF Standing, Grown
<1>6. Standing(l, new, claimed', events', sessions')
  BY <1>1, <1>2, <1>3, <1>4, <1>5 DEF Standing
<1> QED
  BY <1>1, <1>3, <1>6, RecordStep

\* A login turns to record an event.
LEMMA RecordRecorded ==
  ASSUME RecordInv, ServiceInv', Grown,
         NEW l \in Logins, NEW event \in {Success(l)} \cup Refusals, Record(l, event),
         event = Success(l) => Owned(login[l]),
         UNCHANGED <<sessions, late>>
  PROVE  RecordInv'
<1>0. ServiceInv /\ Standing(l, login[l], claimed, events, sessions)
  BY DEF RecordInv
<1>1. PICK new : /\ login' = [login EXCEPT ![l] = new]
                 /\ new.pc = "record" /\ new.item = login[l].item
                 /\ new.event = event /\ new.held = login[l].held
  BY <1>0, RecordIs
<1>2. Success(l) = SuccessOf(new.item) /\ (Owned(new) <=> Owned(login[l]))
  BY <1>1, SuccessIs DEF Owned
<1>3. l \in sessions => Entitled(l, new, events')
  <2>1. l \in sessions => Entitled(l, login[l], events')
    BY <1>0, EntitledStays DEF Standing
  <2> QED
    BY <1>1, <1>2, <2>1 DEF Entitled
<1>4. new.held => new.item \in claimed'
  BY <1>0, <1>1 DEF Standing, Grown
<1>5. Standing(l, new, claimed', events', sessions')
  BY <1>1, <1>2, <1>3, <1>4 DEF Standing
<1> QED
  BY <1>1, <1>5, RecordStep

\* The arrival of a login.
LEMMA ArriveRecorded ==
  ASSUME RecordInv, ServiceInv', NEW l \in Logins, Arrive(l)
  PROVE  RecordInv'
<1>0. /\ ServiceInv /\ Standing(l, login[l], claimed, events, sessions)
      /\ login[l].pc = "idle" /\ ~ login[l].held
      /\ UNCHANGED <<tables, network>>
  BY DEF RecordInv, ServiceInv, Arrive
<1>1. PICK item \in Offers[l] :
        login' = [login EXCEPT ![l].pc = IF item \in States THEN "claim" ELSE "attempt",
                               ![l].item = item]
  BY DEF Arrive
<1> DEFINE pc == IF item \in States THEN "claim" ELSE "attempt"
           new == [login[l] EXCEPT !.pc = pc, !.item = item]
<1>2. login' = [login EXCEPT ![l] = new]
  BY <1>1
<1>3. /\ new.pc = pc /\ new.item = item /\ ~ new.held
  BY <1>0 DEF ServiceInv, ServiceTypeOK, LoginType
<1>4. l \notin sessions'
  BY <1>0 DEF Standing, Entitled, tables
<1> HIDE DEF new
<1>5. Standing(l, new, claimed', events', sessions')
  BY <1>3, <1>4 DEF Standing
<1>6. Grown /\ sessions' = sessions /\ late' = late
  BY <1>0, StaysGrown DEF tables, network
<1> QED
  BY <1>0, <1>2, <1>3, <1>5, <1>6, RecordStep

\* The check of the identity, or its refusal.
LEMMA VerifyRecorded ==
  ASSUME RecordInv, ServiceInv', NEW l \in Logins, Verify(l)
  PROVE  RecordInv'
<1>0. /\ Standing(l, login[l], claimed, events, sessions) /\ login[l].pc = "verify"
      /\ Grown /\ UNCHANGED <<claimed, sessions, late>>
  BY StaysGrown DEF RecordInv, Verify, tables, network
<1>1. CASE Record(l, "login_failed")
  <2>1. "login_failed" # Success(l)
    BY DEF Success
  <2> QED
    BY <1>0, <1>1, <2>1, RecordRecorded DEF Refusals
<1>2. CASE ~ Federated(l) /\ Goto(l, IF login[l].item = None THEN "clear" ELSE "claim")
  <2>1. CASE login[l].item = None
    BY <1>0, <1>2, <2>1, GotoRecorded DEF Owned
  <2>2. CASE login[l].item # None
    BY <1>0, <1>2, <2>2, GotoRecorded
  <2> QED
    BY <2>1, <2>2
<1>3. CASE Federated(l) /\ Goto(l, "failed")
  <2>1. login[l].item \in (Totp \cup States) \cap claimed'
    BY <1>0, <1>3 DEF Standing, Federated
  <2> QED
    BY <1>0, <1>3, <2>1, GotoRecorded
<1>4. CASE Federated(l) /\ Record(l, Success(l))
  <2>1. Owned(login[l])
    BY <1>0, <1>4 DEF Standing, Federated, Owned
  <2> QED
    BY <1>0, <1>4, <2>1, RecordRecorded
<1> QED
  BY <1>1, <1>2, <1>3, <1>4 DEF Verify

\* An answered call and the step of the login that it lets go on.
LEMMA AnswerRecorded ==
  ASSUME RecordInv, ServiceInv', NEW l \in Logins, Answer(l)
  PROVE  RecordInv'
<1> DEFINE call == CallOf(l)
<1>0. /\ ServiceInv /\ Standing(l, login[l], claimed, events, sessions)
      /\ Calling(l) /\ UNCHANGED late
  BY DEF RecordInv, Answer, network
<1>1. /\ call \in CallType /\ Complete(call) /\ Execute(call)
      /\ call.name = login[l].pc /\ call.login = l /\ call.item = login[l].item
      /\ call.event = login[l].event
  BY <1>0, CallOfIsCall DEF Answer, CallOf
<1>2. \/ Granted(call) /\ Continue(l)
      \/ ~ Granted(call) /\ Deny(l)
  BY DEF Answer
<1> HIDE DEF call
<1>3. /\ Grown
      /\ sessions' = sessions \cup (IF call.name = "register" THEN {l} ELSE {})
      /\ call.name = "record" => Noted(l, {login[l].event}, events')
      /\ call.name = "claim" => claimed' = claimed \cup {login[l].item}
  BY <1>0, <1>1, ExecuteGrows
<1>4. CASE ~ Granted(call) /\ Deny(l)
  <2>1. login[l].pc \in {"attempt", "claim"} /\ sessions' = sessions
    BY <1>0, <1>1, <1>3, <1>4 DEF Granted, Calling
  <2>2. "login_failed" # Success(l) /\ "login_throttled" # Success(l)
    BY DEF Success
  <2>3. CASE Record(l, "login_throttled") \/ Record(l, "login_failed")
    BY <1>0, <1>3, <2>1, <2>2, <2>3, RecordRecorded DEF Refusals
  <2>4. CASE /\ login[l].pc = "claim" /\ login[l].item \in Totp \cup States
             /\ Goto(l, "failed")
    <3>1. login[l].item \in (Totp \cup States) \cap claimed'
      BY <1>3, <1>1, <2>4
    <3> QED
      BY <1>0, <1>3, <2>1, <2>4, <3>1, GotoRecorded
  <2> QED
    BY <1>4, <2>1, <2>3, <2>4 DEF Deny
<1>5. CASE Granted(call) /\ Continue(l)
  <2>1. CASE login[l].pc = "attempt"
    BY <1>0, <1>1, <1>3, <1>5, <2>1, GotoRecorded DEF Continue, Standing
  <2>2. CASE login[l].pc = "claim"
    <3> DEFINE pc == IF Federated(l) THEN "verify" ELSE "clear"
               new == [login[l] EXCEPT !.pc = pc, !.held = TRUE]
    <3>1. login' = [login EXCEPT ![l] = new]
      BY <1>0, <1>5, <2>2 DEF Continue, ServiceInv, ServiceTypeOK, LoginType
    <3>2. new.pc = pc /\ new.item = login[l].item /\ new.held
      BY <1>0 DEF ServiceInv, ServiceTypeOK, LoginType
    <3> HIDE DEF new
    <3>3. login[l].item \notin claimed /\ sessions' = sessions /\ new.item \in claimed'
      BY <1>1, <1>3, <1>5, <2>2, <3>2 DEF Granted
    <3>4. l \in sessions => Entitled(l, new, events')
      <4>1. l \in sessions => Entitled(l, login[l], events')
        BY <1>0, <1>3, EntitledStays DEF Standing
      <4> QED
        BY <3>2, <4>1 DEF Entitled, Owned
    <3>5. Standing(l, new, claimed', events', sessions')
      BY <3>2, <3>3, <3>4 DEF Standing, Owned
    <3>6. \A k \in Logins \ {l} : ~ (login[k].held /\ login[k].item = new.item)
      BY <3>2, <3>3 DEF RecordInv, Standing
    <3> QED
      BY <1>0, <1>3, <3>1, <3>2, <3>3, <3>5, <3>6, RecordStep
  <2>3. CASE login[l].pc = "clear"
    <3>1. Record(l, Success(l)) /\ Owned(login[l]) /\ sessions' = sessions
      BY <1>0, <1>1, <1>3, <1>5, <2>3 DEF Continue, Standing
    <3> QED
      BY <1>0, <1>3, <3>1, RecordRecorded
  <2>4. CASE login[l].pc = "record"
    <3>1. /\ login[l].event \in {Success(l)} \cup Refusals
          /\ login[l].event = Success(l) => Owned(login[l])
          /\ Noted(l, {login[l].event}, events') /\ sessions' = sessions
      BY <1>0, <1>1, <1>3, <2>4, SuccessIs DEF Standing
    <3>2. CASE login[l].event = Success(l)
      <4>1. Goto(l, "register")
        BY <1>5, <2>4, <3>2 DEF Continue
      <4> QED
        BY <1>0, <1>3, <3>1, <3>2, <4>1, GotoRecorded
    <3>3. CASE login[l].event # Success(l)
      <4>1. Goto(l, "failed")
        BY <1>5, <2>4, <3>3 DEF Continue
      <4>2. Noted(l, Refusals, events')
        BY <3>1, <3>3 DEF Noted
      <4> QED
        BY <1>0, <1>3, <3>1, <4>1, <4>2, GotoRecorded
    <3> QED
      BY <3>2, <3>3
  <2>5. CASE login[l].pc = "register"
    <3>1. Goto(l, "granted") /\ l \in sessions'
      BY <1>1, <1>3, <1>5, <2>5 DEF Continue
    <3>2. Entitled(l, login[l], events')
      BY <1>0, <1>3, <2>5, EntitledStays DEF Standing
    <3>3. Owned(login[l]) /\ Noted(l, {Success(l)}, events')
      BY <3>2, SuccessIs DEF Entitled
    <3> QED
      BY <1>0, <1>3, <3>1, <3>3, GotoRecorded
  <2> QED
    BY <1>0, <2>1, <2>2, <2>3, <2>4, <2>5 DEF Calling
<1> QED
  BY <1>2, <1>4, <1>5

\* A lost call: the login fails, and its call may still be handled.
LEMMA LoseRecorded ==
  ASSUME RecordInv, ServiceInv', NEW l \in Logins, Lose(l) \/ Unauthorized(l)
  PROVE  RecordInv'
<1> DEFINE call == CallOf(l)
<1>0. /\ ServiceInv /\ Standing(l, login[l], claimed, events, sessions)
      /\ Calling(l) /\ Goto(l, "error")
  BY DEF RecordInv, Lose, Unauthorized
<1>1. /\ call \in CallType /\ Complete(call) /\ call.name = login[l].pc /\ call.login = l
  BY <1>0, CallOfIsCall DEF CallOf
<1>2. \/ UNCHANGED <<tables, late>>
      \/ Execute(call) /\ UNCHANGED late
      \/ late' = late \cup {call} /\ UNCHANGED tables
  BY DEF Lose, Unauthorized, network
<1> HIDE DEF call
<1>3. Grown /\ sessions' \in {sessions, sessions \cup (IF call.name = "register" THEN {l} ELSE {})}
  BY <1>0, <1>1, <1>2, ExecuteGrows, StaysGrown DEF tables
<1>4. call.name = "register" => Owned(login[l]) /\ Noted(l, {Success(l)}, events')
  <2>1. call.name = "register" => Entitled(l, login[l], events')
    BY <1>0, <1>1, <1>3, EntitledStays DEF Standing
  <2> QED
    BY <2>1, SuccessIs DEF Entitled
<1>5. late' \subseteq late \cup {call}
  BY <1>2
<1> QED
  BY <1>0, <1>1, <1>3, <1>4, <1>5, GotoRecorded

\* The service itself: a call that arrives late, or other trusted tokens.
LEMMA ServiceRecorded ==
  ASSUME RecordInv, ServiceInv', UNCHANGED login, Grown, late' \subseteq late,
         \A l \in sessions' \ sessions : Entitled(l, login[l], events)
  PROVE  RecordInv'
<1>1. ASSUME NEW l \in Logins PROVE Standing(l, login[l], claimed', events', sessions')
  BY StandingStays DEF RecordInv
<1>2. LateEntitled(late', login, events')
  BY EntitledStays DEF RecordInv, LateEntitled
<1> QED
  BY <1>1, <1>2 DEF RecordInv, Alone

\* Every step keeps sessions and refusals recorded.
LEMMA RecordSteps == RecordInv /\ [Next]_vars => RecordInv'
<1> SUFFICES ASSUME RecordInv, [Next]_vars PROVE RecordInv'
  OBVIOUS
<1>1. [ServiceNext]_serviceVars
  <2>1. ASSUME NEW x \in Exporters, Export(x) \/ FailPost(x) \/ Crash(x)
        PROVE  UNCHANGED serviceVars
    BY <2>1 DEF Export, LoadCheckpoint, ReadEvents, Post, WriteCheckpoint, FailPost, Crash
  <2>2. CASE UNCHANGED vars
    BY <2>2 DEF vars
  <2> QED
    BY <2>1, <2>2 DEF Next
<1>2. ServiceInv /\ ServiceInv'
  BY <1>1, ServiceStep DEF RecordInv
<1>3. CASE HandleLate
  <2>1. PICK call \in late :
          /\ late' = late \ {call} /\ UNCHANGED login
          /\ Execute(call) \/ UNCHANGED tables
    BY <1>3 DEF HandleLate
  <2>2. call \in CallType /\ Complete(call)
    BY <1>2 DEF ServiceInv, ServiceTypeOK
  <2>3. Grown /\ sessions' \in {sessions, sessions \cup (IF call.name = "register" THEN {call.login} ELSE {})}
    BY <1>2, <2>1, <2>2, ExecuteGrows, StaysGrown DEF tables
  <2>4. call.name = "register" => Entitled(call.login, login[call.login], events)
    BY DEF RecordInv, LateEntitled
  <2> QED
    BY <1>2, <2>1, <2>3, <2>4, ServiceRecorded
<1>4. CASE Rotate \/ UNCHANGED serviceVars
  <2>1. UNCHANGED <<tables, login, late>>
    BY <1>4 DEF Rotate, serviceVars, network
  <2> QED
    BY <1>2, <2>1, StaysGrown, ServiceRecorded DEF tables
<1>5. ASSUME NEW l \in Logins, Serve(l) \/ Lose(l) PROVE RecordInv'
  BY <1>2, <1>5, ArriveRecorded, VerifyRecorded, AnswerRecorded, LoseRecorded DEF Serve
<1> QED
  BY <1>1, <1>3, <1>4, <1>5 DEF ServiceNext

\* Every session was registered after the claim of its own item and the event of
\* its success, and every refusal has its event, though calls are lost, arrive
\* after their client has given up, and tokens are rotated.
THEOREM RecordedLogins == Spec => []LoginsAreRecorded
<1>1. Init => RecordInv
  <2> SUFFICES ASSUME Init PROVE RecordInv
    OBVIOUS
  <2>1. ServiceInv
    BY ExportInitially DEF ExportInv
  <2>2. /\ \A l \in Logins : login[l].pc = "idle" /\ ~ login[l].held
        /\ sessions = {} /\ late = {}
    BY DEF Init, ServiceInit
  <2> QED
    BY <2>1, <2>2 DEF RecordInv, Standing, Alone, LateEntitled
<1>2. RecordInv => LoginsAreRecorded
  <2> SUFFICES ASSUME RecordInv, NEW l \in Logins
               PROVE  /\ login[l].pc = "granted" => l \in sessions
                      /\ l \in sessions =>
                           /\ login[l].item # None => Holders[login[l].item] = {l}
                           /\ RecordedAs(l, {Success(l)})
                      /\ login[l].pc = "failed" =>
                           \/ login[l].item \in Totp \cup States /\ login[l].item \in claimed
                           \/ RecordedAs(l, {"login_throttled", "login_failed"})
    BY DEF LoginsAreRecorded
  <2>1. Standing(l, login[l], claimed, events, sessions)
    BY DEF RecordInv
  <2>2. \A kinds : Noted(l, kinds, events) <=> RecordedAs(l, kinds)
    BY DEF Noted, RecordedAs
  <2>3. ASSUME login[l].item # None, login[l].held
        PROVE  Holders[login[l].item] = {l}
    <3>1. login[l].item \in Items
      BY <2>3 DEF RecordInv, ServiceInv, ServiceTypeOK, LoginType
    <3>2. {k \in Logins : login[k].item = login[l].item /\ login[k].held} = {l}
      BY <2>3 DEF RecordInv, Alone
    <3> QED
      BY <3>1, <3>2 DEF Holders
  <2> QED
    BY <2>1, <2>2, <2>3, SuccessIs DEF Standing, Entitled, Owned, Refusals
<1> QED
  BY <1>1, <1>2, RecordSteps, PTL DEF Spec
=============================================================================
