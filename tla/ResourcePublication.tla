------------------------ MODULE ResourcePublication ------------------------
(***************************************************************************)
(* Publication of the Bill graphs by one Legislation run after another:    *)
(* observe, skip or transform, record a dirty payload, PUT the whole graph,*)
(* read it back, record it clean; replay dirty payloads of bills the scan  *)
(* did not return.  The source, the deployed publication contract and the  *)
(* triple store change on their own; the process may die or lose a PUT's   *)
(* acknowledgement at any step.  state_lock admits one run at a time.      *)
(*                                                                         *)
(* A payload is abstracted to the source version it was made from and the  *)
(* contract that made it; the transformation is deterministic.             *)
(***************************************************************************)
EXTENDS Integers

CONSTANTS
  Bill,
  Version,      \* contents a bill may have at the source (source hashes)
  MaxContract,  \* bound on deployed publication contracts
  MaxFaults,    \* bound on crashes, failed requests and lost graphs
  Nothing       \* NULL columns, an empty graph, a bill absent from the source

ASSUME ContractBound == MaxContract \in Nat \ {0}
ASSUME FaultBound == MaxFaults \in Nat

VARIABLES
  source,     \* what the API returns for each bill: a version and its quality
  contract,   \* BILLS_PUBLICATION_CONTRACT of the deployed ETL
  row,        \* resource_state of each bill
  graph,      \* named graph of each bill in the triple store
  lost,       \* bills whose graph the triple store lost after its verification
  faults,     \* faults so far
  pc,         \* next step of the run, "idle" without one
  fetched,    \* the API's answer this run works on
  todo,       \* fetched bills not yet examined
  unchanged,  \* work items to skip unless their graph fails verification
  changed,    \* work items to publish
  seen,       \* bills the replay of dirty rows leaves alone
  current     \* bill being published or replayed

externalVars == <<source, contract, lost, faults>>
runVars == <<pc, fetched, todo, unchanged, changed, seen, current>>
vars == <<externalVars, row, graph, runVars>>

Contract == 1..MaxContract
Payload == [version : Version, contract : Contract]

ASSUME NothingIsFresh == Nothing \notin Version \cup Bill \cup Payload

\* "invalid" versions violate the source contract, "malformed" ones are the
\* reviewed known_bill_source_quarantines, "broken" ones fail transformation.
Quality == {"good", "broken", "malformed", "invalid"}
Withheld(r) == r # Nothing /\ r.quality \in {"malformed", "invalid"}
Record == [version : Version, quality : Quality]

Row == [state : {"none", "clean", "dirty"},
        observed : Version \cup {Nothing},
        published : Payload \cup {Nothing},
        pending : Payload \cup {Nothing},
        contract : Contract \cup {0}]

NoRow == [state |-> "none", observed |-> Nothing, published |-> Nothing,
          pending |-> Nothing, contract |-> 0]

Idle == /\ pc' = "idle" /\ fetched' = [b \in Bill |-> Nothing]
        /\ todo' = {} /\ unchanged' = {} /\ changed' = {} /\ seen' = {}
        /\ current' = Nothing

Init ==
  /\ source = [b \in Bill |-> Nothing]
  /\ contract = 1
  /\ row = [b \in Bill |-> NoRow]
  /\ graph = [b \in Bill |-> Nothing]
  /\ lost = {}
  /\ faults = 0
  /\ pc = "idle"
  /\ fetched = [b \in Bill |-> Nothing]
  /\ todo = {} /\ unchanged = {} /\ changed = {} /\ seen = {}
  /\ current = Nothing

Fault == faults < MaxFaults /\ faults' = faults + 1

----------------------------------------------------------------------------
\* The world around the ETL

ChangeSource(b, r) ==
  /\ r # source[b]
  /\ source' = [source EXCEPT ![b] = r]
  /\ UNCHANGED <<contract, row, graph, lost, faults, runVars>>

Upgrade ==
  /\ pc = "idle"
  /\ contract < MaxContract
  /\ contract' = contract + 1
  /\ UNCHANGED <<source, row, graph, lost, faults, runVars>>

LoseGraph(b) ==
  /\ Fault
  /\ graph[b] # Nothing
  /\ graph' = [graph EXCEPT ![b] = Nothing]
  /\ lost' = lost \cup {b}
  /\ UNCHANGED <<source, contract, row, runVars>>

----------------------------------------------------------------------------
\* Scanning

Present == {b \in Bill : source[b] # Nothing}

\* A complete scan returns every bill, an incremental one any selection.
StartRun(bills) ==
  /\ pc = "idle"
  /\ fetched' = [b \in Bill |-> IF b \in bills THEN source[b] ELSE Nothing]
  /\ todo' = bills
  /\ pc' = "examine"
  /\ UNCHANGED <<externalVars, row, graph, unchanged, changed, seen, current>>

Observed(b) ==
  [row[b] EXCEPT !.observed = fetched[b].version,
                 !.state = IF row[b].state = "none" THEN "clean" ELSE row[b].state]

\* Mutant: a row of an older contract may be skipped.
IsUnchangedInAnyContract(b) ==
  /\ row[b].state = "clean"
  /\ row[b].published # Nothing /\ row[b].published.version = fetched[b].version

IsUnchanged(b) ==
  /\ row[b].state = "clean" /\ row[b].contract = contract
  /\ row[b].published # Nothing /\ row[b].published.version = fetched[b].version

Examine(b) ==
  /\ pc = "examine" /\ b \in todo
  /\ todo' = todo \ {b}
  /\ UNCHANGED <<externalVars, graph, pc, fetched, current>>
  /\ row' = IF \/ fetched[b].quality = "invalid"
               \/ fetched[b].quality = "malformed" /\ row[b].state = "none"
              THEN row ELSE [row EXCEPT ![b] = Observed(b)]
  /\ seen' = IF fetched[b].quality = "broken" THEN seen ELSE seen \cup {b}
  /\ unchanged' = IF fetched[b].quality = "good" /\ IsUnchanged(b)
                    THEN unchanged \cup {b} ELSE unchanged
  /\ changed' = IF fetched[b].quality = "good" /\ ~IsUnchanged(b)
                  THEN changed \cup {b} ELSE changed

BeginPublication ==
  /\ pc = "examine" /\ todo = {}
  /\ pc' = "publish"
  /\ UNCHANGED <<externalVars, row, graph, fetched, todo, unchanged, changed, seen, current>>

----------------------------------------------------------------------------
\* Publishing

\* An unchanged bill's graph is compared with its published payload.
VerifySkipped(b) ==
  /\ pc = "publish" /\ b \in unchanged
  /\ unchanged' = unchanged \ {b}
  /\ changed' = IF graph[b] = row[b].published THEN changed ELSE changed \cup {b}
  /\ UNCHANGED <<externalVars, row, graph, pc, fetched, todo, seen, current>>

\* Mutant: the payload is remembered but the row is not marked dirty.
MarkPendingOnly(b) ==
  /\ pc = "publish" /\ b \in changed
  /\ row' = [row EXCEPT ![b].pending = [version |-> fetched[b].version, contract |-> contract],
                        ![b].contract = contract]
  /\ changed' = changed \ {b}
  /\ current' = b /\ pc' = "put"
  /\ UNCHANGED <<externalVars, graph, fetched, todo, unchanged, seen>>

MarkDirty(b) ==
  /\ pc = "publish" /\ b \in changed
  /\ row' = [row EXCEPT ![b].state = "dirty",
                        ![b].pending = [version |-> fetched[b].version, contract |-> contract],
                        ![b].contract = contract]
  /\ changed' = changed \ {b}
  /\ current' = b /\ pc' = "put"
  /\ UNCHANGED <<externalVars, graph, fetched, todo, unchanged, seen>>

\* Mutant: dirty rows are never replayed.
NothingReplayable == {}

\* Dirty rows the scan did not account for, unless of an older contract.
Replayable == {b \in Bill \ seen : row[b].state = "dirty" /\ row[b].contract = contract}

ReplayMissing(b) ==
  /\ pc = "publish" /\ unchanged = {} /\ changed = {}
  /\ b \in Replayable
  /\ current' = b /\ pc' = "put"
  /\ UNCHANGED <<externalVars, row, graph, fetched, todo, unchanged, changed, seen>>

Put ==
  /\ pc = "put"
  /\ graph' = [graph EXCEPT ![current] = row[current].pending]
  /\ pc' = "verify"
  /\ UNCHANGED <<externalVars, row, fetched, todo, unchanged, changed, seen, current>>

\* verify_core_graph, then complete_publication.
Complete ==
  /\ pc = "verify"
  /\ graph[current] = row[current].pending
  /\ row' = [row EXCEPT ![current].state = "clean",
                        ![current].observed = row[current].pending.version,
                        ![current].published = row[current].pending,
                        ![current].pending = Nothing]
  /\ lost' = lost \ {current}
  /\ current' = Nothing /\ pc' = "publish"
  /\ UNCHANGED <<source, contract, faults, graph, fetched, todo, unchanged, changed, seen>>

\* Every work item is published and every replayable row replayed.
FinishScan ==
  /\ pc = "publish" /\ unchanged = {} /\ changed = {} /\ Replayable = {}
  /\ pc' = "done"
  /\ UNCHANGED <<externalVars, row, graph, fetched, todo, unchanged, changed, seen, current>>

EndRun ==
  /\ pc = "done"
  /\ Idle
  /\ UNCHANGED <<externalVars, row, graph>>

\* The process dies, or a request fails and the run with it.
Abort ==
  /\ pc \notin {"idle", "done"}
  /\ Fault
  /\ Idle
  /\ UNCHANGED <<source, contract, lost, row, graph>>

\* A PUT that raises, or whose process dies, may still have been applied.
AbortPut ==
  /\ pc = "put"
  /\ Fault
  /\ graph' = [graph EXCEPT ![current] = row[current].pending]
  /\ Idle
  /\ UNCHANGED <<source, contract, lost, row>>

\* The read-back differs.
AbortVerify ==
  /\ pc = "verify"
  /\ graph[current] # row[current].pending
  /\ Idle
  /\ UNCHANGED <<externalVars, row, graph>>

----------------------------------------------------------------------------
Run ==
  \/ \E bills \in SUBSET Present : StartRun(bills)
  \/ \E b \in Bill : Examine(b)
  \/ BeginPublication
  \/ \E b \in Bill : VerifySkipped(b)
  \/ \E b \in Bill : MarkDirty(b)
  \/ \E b \in Bill : ReplayMissing(b)
  \/ Put
  \/ Complete
  \/ FinishScan
  \/ EndRun
  \/ AbortVerify

Environment ==
  \/ \E b \in Bill, r \in Record \cup {Nothing} : ChangeSource(b, r)
  \/ Upgrade
  \/ \E b \in Bill : LoseGraph(b)
  \/ Abort
  \/ AbortPut

Next == Run \/ Environment

Spec == Init /\ [][Next]_vars

\* Runs keep being started, and a run that no fault stops goes on.
FairSpec == Spec /\ WF_vars(Run)

----------------------------------------------------------------------------
\* Every column and variable stays in its domain.
TypeOK ==
  /\ source \in [Bill -> Record \cup {Nothing}]
  /\ contract \in Contract
  /\ row \in [Bill -> Row]
  /\ graph \in [Bill -> Payload \cup {Nothing}]
  /\ lost \subseteq Bill
  /\ faults \in 0..MaxFaults
  /\ pc \in {"idle", "examine", "publish", "put", "verify", "done"}
  /\ fetched \in [Bill -> Record \cup {Nothing}]
  /\ \A S \in {todo, unchanged, changed} : S \subseteq Bill /\ \A b \in S : fetched[b] # Nothing
  /\ seen \subseteq Bill
  /\ IF pc \in {"put", "verify"} THEN current \in Bill ELSE current = Nothing

\* The graph of a clean row is the payload recorded as published, whatever
\* PUTs and processes failed before, unless the triple store lost it since.
CleanMatchesGraph ==
  \A b \in Bill : row[b].state = "clean" /\ b \notin lost => graph[b] = row[b].published

\* A run that completes its scan has published every publishable version it
\* fetched, under the deployed contract, and the store still has it.
CompletedScanIsPublished ==
  pc = "done" =>
    \A b \in Bill : fetched[b] # Nothing /\ fetched[b].quality = "good" =>
      /\ row[b].state = "clean"
      /\ row[b].published = [version |-> fetched[b].version, contract |-> contract]
      /\ b \notin lost => graph[b] = row[b].published

\* Such a run leaves no dirty row behind, except those of an older contract
\* and those of bills the source now returns in a form that is withheld.
CompletedScanReplays ==
  pc = "done" =>
    \A b \in Bill : row[b].state = "dirty" =>
      row[b].contract # contract \/ Withheld(fetched[b])

\* Write-ahead: the ETL changes a graph only to the payload that a dirty row
\* already holds for it, and never to one of an older contract.
GraphChangesAreLogged ==
  [][\A b \in Bill : graph'[b] \notin {graph[b], Nothing} =>
       /\ row[b].state = "dirty" /\ row[b].pending = graph'[b]
       /\ graph'[b].contract = contract]_vars

\* A dirty row does not stay dirty: once faults are over it is published,
\* whether the bill is returned or not, unless its contract is outdated or the
\* source returns it in a form that is withheld.
DirtyIsResolved ==
  \A b \in Bill :
    row[b].state = "dirty" ~>
      \/ row[b].state = "clean"
      \/ row[b].contract # contract
      \/ Withheld(source[b])

----------------------------------------------------------------------------
\* The parts of the inductive invariant behind the properties above.

Done(b) ==
  /\ row[b].state = "clean"
  /\ row[b].published = [version |-> fetched[b].version, contract |-> contract]

\* Dirty rows hold the payload their graph may have, and rows agree with
\* their payloads about the contract.
LogInv ==
  \A b \in Bill :
    /\ row[b].state = "none" => row[b].published = Nothing /\ graph[b] = Nothing
    /\ row[b].state = "clean" /\ row[b].published # Nothing =>
         row[b].published.contract = row[b].contract
    /\ row[b].state = "dirty" =>
         row[b].pending # Nothing /\ row[b].pending.contract = row[b].contract

\* The bill being published is dirty, under the deployed contract.
StepInv ==
  pc \in {"put", "verify"} =>
    row[current].state = "dirty" /\ row[current].contract = contract

\* Each bill awaits one thing at a time, and those to skip may be skipped.
WorkInv ==
  /\ pc # "examine" => todo = {}
  /\ pc \in {"idle", "done"} => unchanged = {} /\ changed = {}
  /\ pc = "idle" => seen = {} /\ \A b \in Bill : fetched[b] = Nothing
  /\ pc = "done" => Replayable = {}
  /\ \A b \in changed : b \notin todo
  /\ \A b \in unchanged : b \notin todo \cup changed /\ Done(b)
  /\ \A b \in seen : Withheld(fetched[b]) \/ (fetched[b] # Nothing /\ fetched[b].quality = "good")

\* A publishable bill is still awaiting its turn, being published, or done.
ScanInv ==
  \A b \in Bill : fetched[b] # Nothing /\ fetched[b].quality = "good" =>
    \/ b \in todo \cup unchanged \cup changed
    \/ /\ pc \in {"put", "verify"} /\ current = b
       /\ row[b].pending = [version |-> fetched[b].version, contract |-> contract]
    \/ Done(b)

IInv == TypeOK /\ CleanMatchesGraph /\ LogInv /\ StepInv /\ WorkInv /\ ScanInv

=============================================================================
