--------------------- MODULE ResourcePublication_proofs ---------------------
(* Proofs about ResourcePublication for any bills, versions and bounds. *)
EXTENDS ResourcePublication, TLAPS

USE ContractBound, FaultBound, NothingIsFresh

\* Whatever ends a run leaves nothing in its hands.
LEMMA IdleFacts ==
  ASSUME TypeOK, Idle
  PROVE  /\ pc' = "idle" /\ current' = Nothing /\ fetched' \in [Bill -> Record \cup {Nothing}]
         /\ todo' = {} /\ unchanged' = {} /\ changed' = {} /\ seen' = {}
         /\ \A b \in Bill : fetched'[b] = Nothing
BY DEF Idle

LEMMA NoRowType == NoRow \in Row
BY DEF NoRow, Row

LEMMA TypeInit == Init => TypeOK
<1> SUFFICES ASSUME Init PROVE TypeOK
  OBVIOUS
<1> USE DEF Init
<1>1. row \in [Bill -> Row]
  BY NoRowType
<1> QED
  BY <1>1 DEF TypeOK, Contract

\* A payload made now, and what an observation makes of a row, are well typed.
LEMMA PayloadType ==
  ASSUME TypeOK, NEW b \in Bill, fetched[b] # Nothing
  PROVE  /\ [version |-> fetched[b].version, contract |-> contract] \in Payload
         /\ fetched[b] \in Record
BY DEF TypeOK, Payload, Record

LEMMA ObservedType ==
  ASSUME TypeOK, NEW b \in Bill, fetched[b] # Nothing
  PROVE  Observed(b) \in Row
<1>1. row[b] \in Row /\ fetched[b].version \in Version \cup {Nothing}
  BY PayloadType DEF TypeOK, Record
<1>2. (IF row[b].state = "none" THEN "clean" ELSE row[b].state) \in {"none", "clean", "dirty"}
  BY <1>1 DEF Row
<1> QED
  BY <1>1, <1>2 DEF Observed, Row

\* What each action that writes a row does to the rows.
LEMMA ExamineRow ==
  ASSUME TypeOK, NEW b \in Bill, Examine(b)
  PROVE  /\ row' \in [Bill -> Row]
         /\ row'[b].published = row[b].published /\ row'[b].pending = row[b].pending
         /\ row'[b].contract = row[b].contract
         /\ row[b].state # "none" => row'[b].state = row[b].state
         /\ row[b].state = "none" => row'[b].state \in {"none", "clean"}
         /\ \A c \in Bill : c # b => row'[c] = row[c]
<1>1. fetched[b] # Nothing /\ row[b] \in Row
  BY DEF Examine, TypeOK
<1>2. row' = row \/ row' = [row EXCEPT ![b] = Observed(b)]
  BY DEF Examine
<1>3. /\ Observed(b).published = row[b].published /\ Observed(b).pending = row[b].pending
      /\ Observed(b).contract = row[b].contract
      /\ Observed(b).state = IF row[b].state = "none" THEN "clean" ELSE row[b].state
  BY <1>1 DEF Observed, Row
<1>4. row \in [Bill -> Row] /\ Observed(b) \in Row
  BY <1>1, ObservedType DEF TypeOK
<1>5. CASE row' = row
  BY <1>4, <1>5
<1>6. CASE row' = [row EXCEPT ![b] = Observed(b)]
  BY <1>3, <1>4, <1>6
<1> QED
  BY <1>2, <1>5, <1>6

LEMMA MarkDirtyRow ==
  ASSUME TypeOK, NEW b \in Bill, MarkDirty(b)
  PROVE  /\ row' \in [Bill -> Row]
         /\ row'[b].state = "dirty" /\ row'[b].contract = contract
         /\ row'[b].pending = [version |-> fetched[b].version, contract |-> contract]
         /\ row'[b].pending \in Payload /\ row'[b].pending.contract = contract
         /\ \A c \in Bill : c # b => row'[c] = row[c]
<1> DEFINE p == [version |-> fetched[b].version, contract |-> contract]
           new == [row[b] EXCEPT !.state = "dirty", !.pending = p, !.contract = contract]
<1>1. p \in Payload /\ contract \in Contract /\ row[b] \in Row
  <2>1. fetched[b] # Nothing
    BY DEF MarkDirty, TypeOK
  <2> QED
    BY <2>1, PayloadType DEF TypeOK
<1>2. row' = [row EXCEPT ![b] = new]
  BY <1>1 DEF MarkDirty, TypeOK
<1> HIDE DEF p
<1>3. new \in Row /\ new.state = "dirty" /\ new.contract = contract /\ new.pending = p
  BY <1>1 DEF Row
<1>4. row \in [Bill -> Row]
  BY DEF TypeOK
<1>5. row' \in [Bill -> Row] /\ row'[b] = new /\ \A c \in Bill : c # b => row'[c] = row[c]
  BY <1>2, <1>3, <1>4
<1> QED
  BY <1>1, <1>3, <1>5 DEF p

LEMMA CompleteRow ==
  ASSUME TypeOK, LogInv, StepInv, Complete
  PROVE  /\ row' \in [Bill -> Row] /\ current \in Bill
         /\ row'[current].state = "clean"
         /\ row'[current].contract = row[current].contract
         /\ row'[current].published = row[current].pending
         /\ row[current].pending \in Payload
         /\ \A c \in Bill : c # current => row'[c] = row[c]
<1> DEFINE p == row[current].pending
           new == [row[current] EXCEPT !.state = "clean", !.observed = p.version,
                                       !.published = p, !.pending = Nothing]
<1>1. current \in Bill /\ row[current] \in Row
  BY DEF Complete, TypeOK
<1>2. p \in Payload
  BY <1>1 DEF Complete, StepInv, LogInv, Row
<1>3. row' = [row EXCEPT ![current] = new]
  BY <1>1 DEF Complete, TypeOK
<1> HIDE DEF p
<1>4. /\ new \in Row /\ new.state = "clean" /\ new.contract = row[current].contract
      /\ new.published = p
  BY <1>1, <1>2 DEF Row, Payload
<1> QED
  BY <1>1, <1>2, <1>3, <1>4 DEF TypeOK, p

LEMMA TypeStep == TypeOK /\ LogInv /\ StepInv /\ WorkInv /\ [Next]_vars => TypeOK'
<1> SUFFICES ASSUME TypeOK, LogInv, StepInv, WorkInv, [Next]_vars PROVE TypeOK'
  OBVIOUS
<1> USE DEF externalVars, runVars
<1>1. ASSUME NEW b \in Bill, NEW r \in Record \cup {Nothing}, ChangeSource(b, r) PROVE TypeOK'
  BY <1>1 DEF TypeOK, ChangeSource
<1>2. CASE Upgrade
  BY <1>2 DEF TypeOK, Upgrade, Contract
<1>3. ASSUME NEW b \in Bill, LoseGraph(b) PROVE TypeOK'
  BY <1>3 DEF TypeOK, LoseGraph, Fault
<1>4. ASSUME NEW bills \in SUBSET Present, StartRun(bills) PROVE TypeOK'
  <2>1. bills \subseteq Bill /\ \A b \in bills : source[b] # Nothing
    BY DEF Present
  <2>2. unchanged = {} /\ changed = {}
    BY <1>4 DEF StartRun, WorkInv
  <2> QED
    BY <1>4, <2>1, <2>2 DEF TypeOK, StartRun
<1>5. ASSUME NEW b \in Bill, Examine(b) PROVE TypeOK'
  <2>1. row' \in [Bill -> Row]
    BY <1>5, ExamineRow
  <2>2. /\ UNCHANGED <<externalVars, graph, pc, fetched, current>>
        /\ todo' \subseteq todo /\ seen' \subseteq seen \cup {b} /\ b \in todo
        /\ unchanged' \subseteq unchanged \cup {b} /\ changed' \subseteq changed \cup {b}
    BY <1>5 DEF Examine
  <2> QED
    BY <2>1, <2>2 DEF TypeOK
<1>6. CASE BeginPublication
  BY <1>6 DEF TypeOK, BeginPublication
<1>7. ASSUME NEW b \in Bill, VerifySkipped(b) PROVE TypeOK'
  BY <1>7 DEF TypeOK, VerifySkipped
<1>8. ASSUME NEW b \in Bill, MarkDirty(b) PROVE TypeOK'
  <2>1. row' \in [Bill -> Row]
    BY <1>8, MarkDirtyRow
  <2>2. /\ UNCHANGED <<externalVars, graph, fetched, todo, unchanged, seen>>
        /\ changed' = changed \ {b} /\ current' = b /\ pc' = "put"
    BY <1>8 DEF MarkDirty
  <2> QED
    BY <2>1, <2>2 DEF TypeOK
<1>9. ASSUME NEW b \in Bill, ReplayMissing(b) PROVE TypeOK'
  BY <1>9 DEF TypeOK, ReplayMissing
<1>10. CASE Put
  BY <1>10 DEF TypeOK, Put, Row
<1>11. CASE Complete
  <2>1. row' \in [Bill -> Row]
    BY <1>11, CompleteRow
  <2>2. /\ UNCHANGED <<source, contract, faults, graph, fetched, todo, unchanged, changed, seen>>
        /\ lost' = lost \ {current} /\ current' = Nothing /\ pc' = "publish"
    BY <1>11 DEF Complete
  <2> QED
    BY <2>1, <2>2 DEF TypeOK
<1>12. CASE FinishScan
  BY <1>12 DEF TypeOK, FinishScan
<1>13. CASE EndRun
  BY <1>13, IdleFacts DEF TypeOK, EndRun
<1>14. CASE Abort
  BY <1>14, IdleFacts DEF TypeOK, Abort, Fault
<1>15. CASE AbortPut
  BY <1>15, IdleFacts DEF TypeOK, AbortPut, Fault, Row
<1>16. CASE AbortVerify
  BY <1>16, IdleFacts DEF TypeOK, AbortVerify
<1>17. CASE UNCHANGED vars
  BY <1>17 DEF TypeOK, vars
<1> QED
  BY <1>1, <1>2, <1>3, <1>4, <1>5, <1>6, <1>7, <1>8, <1>9, <1>10, <1>11, <1>12, <1>13,
     <1>14, <1>15, <1>16, <1>17 DEF Next, Run, Environment

----------------------------------------------------------------------------
LEMMA InitInv == Init => IInv
<1> SUFFICES ASSUME Init PROVE IInv
  OBVIOUS
<1>1. CleanMatchesGraph /\ LogInv /\ StepInv /\ WorkInv /\ ScanInv
  BY DEF Init, CleanMatchesGraph, LogInv, StepInv, WorkInv, ScanInv, NoRow
<1> QED
  BY <1>1, TypeInit DEF IInv

\* Clean rows and their graphs only part when the triple store loses a graph.
LEMMA CleanStep == IInv /\ [Next]_vars => CleanMatchesGraph'
<1> SUFFICES ASSUME IInv, [Next]_vars, NEW c \in Bill, row'[c].state = "clean", c \notin lost'
             PROVE  graph'[c] = row'[c].published
  BY DEF CleanMatchesGraph
<1> USE DEF IInv, externalVars, runVars
<1>0. row[c].state = "clean" /\ c \notin lost => graph[c] = row[c].published
  BY DEF CleanMatchesGraph
<1>1. CASE UNCHANGED <<row, graph>> /\ lost \subseteq lost'
  BY <1>0, <1>1
<1>2. ASSUME NEW b \in Bill, LoseGraph(b) PROVE graph'[c] = row'[c].published
  BY <1>0, <1>2 DEF LoseGraph, TypeOK
<1>3. ASSUME NEW b \in Bill, Examine(b) PROVE graph'[c] = row'[c].published
  <2>1. graph' = graph /\ lost' = lost
    BY <1>3 DEF Examine
  <2>2. CASE row[c].state = "none"
    BY <1>3, <2>1, <2>2, ExamineRow DEF LogInv
  <2> QED
    BY <1>0, <1>3, <2>1, <2>2, ExamineRow
<1>4. ASSUME NEW b \in Bill, MarkDirty(b) PROVE graph'[c] = row'[c].published
  <2>1. graph' = graph /\ lost' = lost
    BY <1>4 DEF MarkDirty
  <2> QED
    BY <1>0, <1>4, <2>1, MarkDirtyRow
<1>5. CASE Put \/ AbortPut
  <2>1. row' = row /\ row[current].state = "dirty" /\ lost' = lost
    BY <1>5 DEF Put, AbortPut, StepInv
  <2>2. \A b \in Bill : b # current => graph'[b] = graph[b]
    BY <1>5 DEF Put, AbortPut, TypeOK
  <2> QED
    BY <1>0, <2>1, <2>2
<1>6. CASE Complete
  <2>1. graph' = graph /\ lost' = lost \ {current} /\ graph[current] = row[current].pending
    BY <1>6 DEF Complete
  <2> QED
    BY <1>0, <1>6, <2>1, CompleteRow
<1>7. ASSUME \/ \E b \in Bill, r \in Record \cup {Nothing} : ChangeSource(b, r)
             \/ \E b \in Bill : VerifySkipped(b) \/ ReplayMissing(b)
             \/ \E bills \in SUBSET Present : StartRun(bills)
             \/ Upgrade \/ BeginPublication \/ FinishScan \/ EndRun \/ Abort \/ AbortVerify
             \/ UNCHANGED vars
      PROVE  UNCHANGED <<row, graph, lost>>
  BY <1>7 DEF ChangeSource, VerifySkipped, ReplayMissing, StartRun, Upgrade, BeginPublication,
     FinishScan, EndRun, Abort, AbortVerify, vars
<1> QED
  BY <1>1, <1>2, <1>3, <1>4, <1>5, <1>6, <1>7 DEF Next, Run, Environment

\* The log of dirty payloads keeps agreeing with the rows.
LEMMA LogStep == IInv /\ [Next]_vars => LogInv'
<1> SUFFICES ASSUME IInv, [Next]_vars, NEW c \in Bill
             PROVE  /\ row'[c].state = "none" =>
                         row'[c].published = Nothing /\ graph'[c] = Nothing
                    /\ row'[c].state = "clean" /\ row'[c].published # Nothing =>
                         row'[c].published.contract = row'[c].contract
                    /\ row'[c].state = "dirty" =>
                         row'[c].pending # Nothing /\ row'[c].pending.contract = row'[c].contract
  BY DEF LogInv
<1> DEFINE G == /\ row'[c].state = "none" =>
                     row'[c].published = Nothing /\ graph'[c] = Nothing
                /\ row'[c].state = "clean" /\ row'[c].published # Nothing =>
                     row'[c].published.contract = row'[c].contract
                /\ row'[c].state = "dirty" =>
                     row'[c].pending # Nothing /\ row'[c].pending.contract = row'[c].contract
<1> USE DEF IInv, externalVars, runVars
<1>0. /\ row[c].state = "none" => row[c].published = Nothing /\ graph[c] = Nothing
      /\ row[c].state = "clean" /\ row[c].published # Nothing =>
           row[c].published.contract = row[c].contract
      /\ row[c].state = "dirty" =>
           row[c].pending # Nothing /\ row[c].pending.contract = row[c].contract
      /\ Nothing \notin Payload
  BY DEF LogInv
<1>1. CASE row' = row /\ graph' = graph
  BY <1>0, <1>1
<1>2. ASSUME NEW b \in Bill, LoseGraph(b) PROVE G
  BY <1>0, <1>2 DEF LoseGraph, TypeOK
<1>3. ASSUME NEW b \in Bill, Examine(b) PROVE G
  <2>1. graph' = graph
    BY <1>3 DEF Examine
  <2> QED
    BY <1>0, <1>3, <2>1, ExamineRow
<1>4. ASSUME NEW b \in Bill, MarkDirty(b) PROVE G
  <2>1. graph' = graph
    BY <1>4 DEF MarkDirty
  <2> QED
    BY <1>0, <1>4, <2>1, MarkDirtyRow
<1>5. CASE Put \/ AbortPut
  <2>1. row' = row /\ row[current].state = "dirty"
    BY <1>5 DEF Put, AbortPut, StepInv
  <2>2. \A b \in Bill : b # current => graph'[b] = graph[b]
    BY <1>5 DEF Put, AbortPut, TypeOK
  <2> QED
    BY <1>0, <2>1, <2>2
<1>6. CASE Complete
  <2>1. graph' = graph /\ row[current].state = "dirty"
    BY <1>6 DEF Complete, StepInv
  <2>2. row[current].pending.contract = row[current].contract
    BY <1>6, <2>1, CompleteRow DEF LogInv
  <2> QED
    BY <1>0, <1>6, <2>1, <2>2, CompleteRow
<1>7. ASSUME \/ \E b \in Bill, r \in Record \cup {Nothing} : ChangeSource(b, r)
             \/ \E b \in Bill : VerifySkipped(b) \/ ReplayMissing(b)
             \/ \E bills \in SUBSET Present : StartRun(bills)
             \/ Upgrade \/ BeginPublication \/ FinishScan \/ EndRun \/ Abort \/ AbortVerify
             \/ UNCHANGED vars
      PROVE  row' = row /\ graph' = graph
  BY <1>7 DEF ChangeSource, VerifySkipped, ReplayMissing, StartRun, Upgrade, BeginPublication,
     FinishScan, EndRun, Abort, AbortVerify, vars
<1> QED
  BY <1>1, <1>2, <1>3, <1>4, <1>5, <1>6, <1>7 DEF Next, Run, Environment

\* Only a dirty row of the deployed contract is put, and it stays so meanwhile.
LEMMA StepStep == IInv /\ [Next]_vars => StepInv'
<1> SUFFICES ASSUME IInv, [Next]_vars, pc' \in {"put", "verify"}
             PROVE  row'[current'].state = "dirty" /\ row'[current'].contract = contract'
  BY DEF StepInv
<1> USE DEF IInv, externalVars, runVars
<1>1. ASSUME NEW b \in Bill, MarkDirty(b)
      PROVE  row'[current'].state = "dirty" /\ row'[current'].contract = contract'
  <2>1. current' = b /\ contract' = contract
    BY <1>1 DEF MarkDirty
  <2> QED
    BY <1>1, <2>1, MarkDirtyRow
<1>2. ASSUME NEW b \in Bill, ReplayMissing(b)
      PROVE  row'[current'].state = "dirty" /\ row'[current'].contract = contract'
  BY <1>2 DEF ReplayMissing, Replayable
<1>3. ASSUME NEW b \in Bill, Examine(b) PROVE FALSE
  BY <1>3 DEF Examine
<1>4. CASE \/ \E b \in Bill, r \in Record \cup {Nothing} : ChangeSource(b, r)
           \/ \E b \in Bill : LoseGraph(b)
           \/ Put \/ UNCHANGED vars
  BY <1>4 DEF ChangeSource, LoseGraph, Put, vars, StepInv
<1>5. ASSUME \/ Upgrade \/ BeginPublication \/ FinishScan \/ EndRun \/ Abort \/ AbortPut
             \/ AbortVerify \/ Complete
             \/ \E b \in Bill : VerifySkipped(b)
             \/ \E bills \in SUBSET Present : StartRun(bills)
      PROVE  FALSE
  BY <1>5 DEF Upgrade, BeginPublication, FinishScan, EndRun, Abort, AbortPut, AbortVerify,
     Complete, VerifySkipped, StartRun, Idle
<1> QED
  BY <1>1, <1>2, <1>3, <1>4, <1>5 DEF Next, Run, Environment

\* A bill that is done stays so unless it is marked dirty or its row examined
\* anew under another fetch or contract.
LEMMA DoneStays ==
  ASSUME IInv, [Next]_vars, NEW c \in Bill, Done(c),
         fetched'[c] = fetched[c], contract' = contract,
         \A b \in Bill : MarkDirty(b) => b # c
  PROVE  Done(c)'
<1> USE DEF IInv, Done, externalVars, runVars
<1>1. ASSUME NEW b \in Bill, Examine(b) PROVE Done(c)'
  BY <1>1, ExamineRow
<1>2. ASSUME NEW b \in Bill, MarkDirty(b) PROVE Done(c)'
  BY <1>2, MarkDirtyRow
<1>3. CASE Complete
  <2>1. row[current].state = "dirty"
    BY <1>3 DEF Complete, StepInv
  <2> QED
    BY <1>3, <2>1, CompleteRow
<1>4. CASE row' = row
  BY <1>4
<1> QED
  BY <1>1, <1>2, <1>3, <1>4 DEF Next, Run, Environment, ChangeSource, Upgrade, LoseGraph, Abort,
     AbortPut, AbortVerify, StartRun, BeginPublication, VerifySkipped, ReplayMissing, Put,
     FinishScan, EndRun, vars

\* The bills in the hands of a run are counted once, and a finished run has
\* none left.
LEMMA WorkStep == IInv /\ [Next]_vars => WorkInv'
<1> SUFFICES ASSUME IInv, [Next]_vars PROVE WorkInv'
  OBVIOUS
<1> USE DEF IInv, externalVars, runVars
<1>0. TypeOK'
  BY TypeStep
<1>1. ASSUME NEW b \in Bill, Examine(b) PROVE WorkInv'
  <2>1. /\ pc = "examine" /\ b \in todo /\ todo' = todo \ {b} /\ fetched[b] # Nothing
        /\ UNCHANGED <<externalVars, graph, pc, fetched, current>>
    BY <1>1 DEF Examine, TypeOK
  <2>2. /\ changed' \subseteq changed \cup {b}
        /\ b \notin changed' \/ b \notin unchanged'
        /\ unchanged' = unchanged \/ (unchanged' = unchanged \cup {b} /\ IsUnchanged(b))
    <3>1. b \notin unchanged /\ b \notin changed
      BY <2>1 DEF WorkInv
    <3>2. CASE IsUnchanged(b)
      BY <1>1, <3>1, <3>2 DEF Examine
    <3>3. CASE ~IsUnchanged(b)
      BY <1>1, <3>1, <3>3 DEF Examine
    <3> QED
      BY <3>2, <3>3
  <2>3. b \notin unchanged /\ \A c \in unchanged : c \notin todo \cup changed /\ Done(c)
    BY <2>1 DEF WorkInv
  <2>4. \A c \in unchanged : Done(c)'
    <3> TAKE c \in unchanged
    <3>1. c \in Bill /\ c # b
      BY <2>3 DEF TypeOK
    <3>2. row'[c] = row[c] /\ fetched'[c] = fetched[c] /\ contract' = contract
      BY <1>1, <2>1, <3>1, ExamineRow
    <3> QED
      BY <2>3, <3>2 DEF Done
  <2>5. ASSUME IsUnchanged(b) PROVE Done(b)'
    <3>1. /\ row[b] \in Row /\ row[b].published \in Payload
          /\ row[b].published.contract = row[b].contract
      BY <2>5 DEF IsUnchanged, TypeOK, LogInv, Row
    <3>2. row[b].published = [version |-> fetched[b].version, contract |-> contract]
      BY <2>5, <3>1 DEF IsUnchanged, Payload
    <3>3. row'[b].state = "clean" /\ row'[b].published = row[b].published
      BY <1>1, <2>5, ExamineRow DEF IsUnchanged
    <3> QED
      BY <2>1, <3>2, <3>3 DEF Done
  <2>6. \A c \in unchanged' : c \notin todo' \cup changed' /\ Done(c)'
    BY <2>1, <2>2, <2>3, <2>4, <2>5
  <2>7. \A c \in seen' : Withheld(fetched'[c]) \/ (fetched'[c] # Nothing /\ fetched'[c].quality = "good")
    <3>1. fetched[b].quality \in Quality
      BY <2>1 DEF TypeOK, Record
    <3>2. seen' = seen \/ (seen' = seen \cup {b} /\ fetched[b].quality # "broken")
      BY <1>1 DEF Examine
    <3>3. fetched[b].quality # "broken" => Withheld(fetched[b]) \/ fetched[b].quality = "good"
      BY <2>1, <3>1 DEF Quality, Withheld
    <3> QED
      BY <2>1, <3>2, <3>3 DEF WorkInv
  <2> QED
    BY <2>1, <2>2, <2>6, <2>7 DEF WorkInv
<1>2. ASSUME NEW b \in Bill, MarkDirty(b) PROVE WorkInv'
  <2>1. /\ pc = "publish" /\ pc' = "put" /\ b \in changed /\ changed' = changed \ {b}
        /\ UNCHANGED <<externalVars, graph, fetched, todo, unchanged, seen>>
    BY <1>2 DEF MarkDirty
  <2>2. \A c \in unchanged : c \in Bill /\ c # b /\ c \notin todo \cup changed /\ Done(c)
    BY <2>1 DEF WorkInv, TypeOK
  <2>3. \A c \in unchanged : Done(c)'
    BY <1>2, <2>1, <2>2, MarkDirtyRow DEF Done
  <2> QED
    BY <2>1, <2>2, <2>3 DEF WorkInv
<1>3. CASE Complete
  <2>1. /\ pc = "verify" /\ pc' = "publish" /\ contract' = contract
        /\ UNCHANGED <<source, contract, faults, graph, fetched, todo, unchanged, changed, seen>>
    BY <1>3 DEF Complete
  <2>2. row[current].state = "dirty"
    BY <2>1 DEF StepInv
  <2>3. \A c \in unchanged : c \in Bill /\ c \notin todo \cup changed /\ Done(c) /\ c # current
    BY <2>2 DEF WorkInv, TypeOK, Done
  <2>4. \A c \in unchanged : Done(c)'
    BY <1>3, <2>1, <2>3, CompleteRow DEF Done
  <2> QED
    BY <2>1, <2>3, <2>4 DEF WorkInv
<1>4. ASSUME NEW b \in Bill, VerifySkipped(b) PROVE WorkInv'
  BY <1>4 DEF VerifySkipped, WorkInv, Done, TypeOK
<1>5. CASE EndRun \/ Abort \/ AbortPut \/ AbortVerify
  <2>1. Idle
    BY <1>5 DEF EndRun, Abort, AbortPut, AbortVerify
  <2> QED
    BY <2>1, IdleFacts DEF WorkInv
<1>6. ASSUME NEW bills \in SUBSET Present, StartRun(bills) PROVE WorkInv'
  BY <1>6 DEF StartRun, WorkInv
<1>7. CASE Upgrade
  BY <1>7 DEF Upgrade, WorkInv
<1>8. CASE \/ \E b \in Bill, r \in Record \cup {Nothing} : ChangeSource(b, r)
           \/ \E b \in Bill : LoseGraph(b)
           \/ UNCHANGED vars
  BY <1>8 DEF ChangeSource, LoseGraph, vars, WorkInv, Done, Replayable
<1>9. CASE BeginPublication \/ FinishScan \/ Put \/ \E b \in Bill : ReplayMissing(b)
  BY <1>9 DEF BeginPublication, FinishScan, Put, ReplayMissing, WorkInv, Done, Replayable
<1> QED
  BY <1>1, <1>2, <1>3, <1>4, <1>5, <1>6, <1>7, <1>8, <1>9 DEF Next, Run, Environment

\* No publishable bill of the scan gets lost between examination and verification.
LEMMA ScanStep == IInv /\ [Next]_vars => ScanInv'
<1> SUFFICES ASSUME IInv, [Next]_vars, NEW c \in Bill,
                    fetched'[c] # Nothing, fetched'[c].quality = "good"
             PROVE  \/ c \in todo' \cup unchanged' \cup changed'
                    \/ /\ pc' \in {"put", "verify"} /\ current' = c
                       /\ row'[c].pending = [version |-> fetched'[c].version, contract |-> contract']
                    \/ Done(c)'
  BY DEF ScanInv, Done
<1> DEFINE G == \/ c \in todo' \cup unchanged' \cup changed'
                \/ /\ pc' \in {"put", "verify"} /\ current' = c
                   /\ row'[c].pending = [version |-> fetched'[c].version, contract |-> contract']
                \/ Done(c)'
<1> USE DEF IInv, externalVars, runVars
<1>1. ASSUME NEW bills \in SUBSET Present, StartRun(bills) PROVE G
  BY <1>1 DEF StartRun
<1>2. CASE Upgrade
  BY <1>2 DEF Upgrade, WorkInv
<1>3. CASE EndRun \/ Abort \/ AbortPut \/ AbortVerify
  <2>1. Idle
    BY <1>3 DEF EndRun, Abort, AbortPut, AbortVerify
  <2> QED
    BY <2>1, IdleFacts
<1>4. ASSUME ~Upgrade, ~(EndRun \/ Abort \/ AbortPut \/ AbortVerify),
             \A bills \in SUBSET Present : ~StartRun(bills)
      PROVE  G
  <2>1. fetched' = fetched /\ contract' = contract
    BY <1>4 DEF Next, Run, Environment, ChangeSource, LoseGraph, Examine, BeginPublication,
       VerifySkipped, MarkDirty, ReplayMissing, Put, Complete, FinishScan, vars
  <2>2. \/ c \in todo \cup unchanged \cup changed
        \/ /\ pc \in {"put", "verify"} /\ current = c
           /\ row[c].pending = [version |-> fetched[c].version, contract |-> contract]
        \/ Done(c)
    BY <2>1 DEF ScanInv
  <2>3. ASSUME NEW b \in Bill, Examine(b) PROVE G
    <3>1. c \in todo \cup unchanged \cup changed => c \in todo' \cup unchanged' \cup changed'
      BY <2>1, <2>3 DEF Examine
    <3>2. pc = "examine"
      BY <2>3 DEF Examine
    <3>3. Done(c) => Done(c)'
      BY <2>1, <2>3, <3>2, DoneStays DEF MarkDirty
    <3> QED
      BY <2>2, <3>1, <3>2, <3>3
  <2>4. ASSUME NEW b \in Bill, MarkDirty(b) PROVE G
    <3>1. /\ pc = "publish" /\ pc' = "put" /\ current' = b /\ changed' = changed \ {b}
          /\ UNCHANGED <<todo, unchanged>>
      BY <2>4 DEF MarkDirty
    <3>2. CASE c = b
      BY <2>1, <2>4, <3>1, <3>2, MarkDirtyRow
    <3>3. CASE c # b
      <4>1. row'[c] = row[c]
        BY <2>4, <3>3, MarkDirtyRow
      <4> QED
        BY <2>1, <2>2, <3>1, <3>3, <4>1 DEF Done
    <3> QED
      BY <3>2, <3>3
  <2>5. CASE Complete
    <3>1. /\ pc = "verify" /\ UNCHANGED <<todo, unchanged, changed>>
      BY <2>5 DEF Complete
    <3>2. CASE c = current
      <4>1. row[c].state = "dirty"
        BY <3>1, <3>2 DEF StepInv
      <4>2. \/ c \in todo \cup unchanged \cup changed
            \/ row[c].pending = [version |-> fetched[c].version, contract |-> contract]
        BY <2>2, <4>1 DEF Done
      <4> QED
        BY <2>1, <2>5, <3>1, <3>2, <4>2, CompleteRow DEF Done
    <3>3. CASE c # current
      <4>1. row'[c] = row[c]
        BY <2>5, <3>3, CompleteRow
      <4> QED
        BY <2>1, <2>2, <3>1, <3>3, <4>1 DEF Done
    <3> QED
      BY <3>2, <3>3
  <2>6. CASE \E b \in Bill : VerifySkipped(b)
    <3>1. row' = row /\ pc = "publish" /\ pc' = "publish" /\ todo' = todo
      BY <2>6 DEF VerifySkipped
    <3>2. /\ c \in changed => c \in changed'
          /\ c \in unchanged => Done(c)
      BY <2>6 DEF VerifySkipped, WorkInv
    <3> QED
      BY <2>1, <2>2, <3>1, <3>2 DEF Done
  <2>7. ASSUME \/ \E b \in Bill, r \in Record \cup {Nothing} : ChangeSource(b, r)
               \/ \E b \in Bill : LoseGraph(b) \/ ReplayMissing(b)
               \/ BeginPublication \/ FinishScan \/ Put \/ UNCHANGED vars
        PROVE  G
    <3>1. UNCHANGED <<row, todo, unchanged, changed>>
      BY <2>7 DEF ChangeSource, LoseGraph, ReplayMissing, BeginPublication, FinishScan, Put, vars
    <3>2. \/ pc' = pc /\ current' = current
          \/ pc \notin {"put", "verify"}
          \/ pc = "put" /\ pc' = "verify" /\ current' = current
      BY <2>7 DEF ChangeSource, LoseGraph, ReplayMissing, BeginPublication, FinishScan, Put, vars
    <3> QED
      BY <2>1, <2>2, <3>1, <3>2 DEF Done
  <2> QED
    BY <1>4, <2>3, <2>4, <2>5, <2>6, <2>7 DEF Next, Run, Environment
<1> QED
  BY <1>1, <1>2, <1>3, <1>4

LEMMA InvStep == IInv /\ [Next]_vars => IInv'
BY TypeStep, CleanStep, LogStep, StepStep, WorkStep, ScanStep DEF IInv

----------------------------------------------------------------------------
\* Every column and every variable of the run keeps its type.
THEOREM TypeCorrect == Spec => []TypeOK
BY InitInv, InvStep, PTL DEF Spec, IInv

\* Whatever failed before, a clean row's graph is the payload it records.
THEOREM CleanIsPublished == Spec => []CleanMatchesGraph
BY InitInv, InvStep, PTL DEF Spec, IInv

\* A run that gets to its end has published every good version it fetched.
THEOREM ScanIsPublished == Spec => []CompletedScanIsPublished
<1>1. IInv => CompletedScanIsPublished
  BY DEF IInv, CompletedScanIsPublished, ScanInv, WorkInv, Done, CleanMatchesGraph
<1> QED
  BY <1>1, InitInv, InvStep, PTL DEF Spec

\* And it has replayed every payload it could.
THEOREM ScanReplays == Spec => []CompletedScanReplays
<1>1. IInv => CompletedScanReplays
  <2> SUFFICES ASSUME IInv, pc = "done", NEW b \in Bill, row[b].state = "dirty",
                      row[b].contract = contract
               PROVE  Withheld(fetched[b])
    BY DEF CompletedScanReplays
  <2>1. b \in seen
    BY DEF IInv, WorkInv, Replayable
  <2>2. ~(fetched[b] # Nothing /\ fetched[b].quality = "good")
    BY DEF IInv, ScanInv, WorkInv, Done
  <2> QED
    BY <2>1, <2>2 DEF IInv, WorkInv
<1> QED
  BY <1>1, InitInv, InvStep, PTL DEF Spec

\* The ETL never changes a graph but to a payload a dirty row already holds.
THEOREM WriteAhead == Spec => GraphChangesAreLogged
<1>1. IInv /\ [Next]_vars =>
        [\A b \in Bill : graph'[b] \notin {graph[b], Nothing} =>
           /\ row[b].state = "dirty" /\ row[b].pending = graph'[b]
           /\ graph'[b].contract = contract]_vars
  <2> SUFFICES ASSUME IInv, [Next]_vars, NEW b \in Bill, graph'[b] \notin {graph[b], Nothing}
               PROVE  /\ row[b].state = "dirty" /\ row[b].pending = graph'[b]
                      /\ graph'[b].contract = contract
    OBVIOUS
  <2>1. CASE Put \/ AbortPut
    <3>1. b = current /\ graph'[b] = row[b].pending /\ pc = "put"
      BY <2>1 DEF Put, AbortPut, IInv, TypeOK
    <3> QED
      BY <3>1 DEF IInv, StepInv, LogInv
  <2>2. ASSUME NEW c \in Bill, LoseGraph(c) PROVE FALSE
    BY <2>2 DEF LoseGraph, IInv, TypeOK
  <2>3. CASE graph' = graph
    BY <2>3
  <2> QED
    BY <2>1, <2>2, <2>3 DEF Next, Run, Environment, ChangeSource, Upgrade, Abort, AbortVerify,
       StartRun, Examine, BeginPublication, VerifySkipped, MarkDirty, ReplayMissing, Complete,
       FinishScan, EndRun, vars
<1> QED
  BY <1>1, InitInv, InvStep, PTL DEF Spec, GraphChangesAreLogged
=============================================================================
