------------------------ MODULE SharedGraphs_proofs ------------------------
(***************************************************************************)
(* Proofs about SharedGraphs: what a run may do to a graph depends on what *)
(* it decided before its last PUT, so the invariant ties the plan of the   *)
(* run (op) to the durable metadata it was made from.                      *)
(***************************************************************************)
EXTENDS SharedGraphs, TLAPS

Together(graphs) == \A g, h \in graphs : g = h \/ {g, h} \subseteq Shared

\* The run handles the owner graphs, or one other graph; what it replays is
\* dirty, and so is the graph it has staged, which it was allowed to replace.
StagedInv ==
  /\ Together(op.graphs)
  /\ Together(op.todo)
  /\ op.kind = "fixture" => op.authority = "no"
  /\ op.at \in {"replay", "replayed"} => \A g \in op.todo : meta[g].state = "dirty"
  /\ op.at \in {"put", "verify"} =>
       \A g \in Graph : Current(g) =>
         /\ meta[g].state = "dirty"
         /\ op.authority = "no" => ~meta[g].authoritative

\* The candidates still fit the graphs they were built from.
CandidateInv ==
  op.at \in {"decide", "put", "verify"} =>
    \A g \in op.todo :
      /\ op.source # NoRun => meta[g].source <= op.source
      /\ op.retained[g] \subseteq Described(meta[g].published)
      /\ g \in Shared => Described(meta[g].published) \subseteq Described(op.candidate[g])

\* A staged candidate fits the graph it replaces.
PendingInv ==
  \A g \in Graph : meta[g].state = "dirty" =>
    /\ meta[g].source <= meta[g].pendingSource
    /\ meta[g].authoritative => meta[g].pendingAuthoritative
    /\ meta[g].retained \subseteq Described(meta[g].published)

\* The inductive invariant.
IInv ==
  /\ TypeOK
  /\ StagedInv
  /\ CandidateInv
  /\ PendingInv
  /\ StoreIsAccountedFor
  /\ DescriptionsHaveSources

----------------------------------------------------------------------------
\* Joined payloads are payloads, and keep the owners of both (Join).
LEMMA JoinedPayload ==
  ASSUME NEW p \in Payload, NEW q \in Payload
  PROVE  /\ Join(p, q) \in Payload
         /\ Described(p) \subseteq Described(Join(p, q))
         /\ Described(q) \subseteq Described(Join(p, q))
BY DEF Join, Payload, Described

\* The empty payload, the idle operation and an unpublished graph have their types.
LEMMA Constants ==
  /\ Empty \in Payload
  /\ NoCapture \in Capture
  /\ Unpublished \in Meta
  /\ Idle \in Operation
<1>1. Empty \in Payload
  BY DEF Empty, Payload
<1>2. NoCapture \in Capture
  BY <1>1 DEF NoCapture, Capture
<1>3. NoRun \in Run
  BY RunBound DEF NoRun, Run
<1>4. Unpublished \in Meta
  BY <1>1, <1>3 DEF Unpublished, Meta
<1>5. Idle \in Operation
  BY <1>1, <1>2, <1>3 DEF Idle, Operation, Step, Kind
<1>6. QED
  BY <1>1, <1>2, <1>4, <1>5

\* The graph a run works on is one (Current).
LEMMA OneCurrent ==
  ASSUME Together(op.todo), NEW g \in Graph, NEW h \in Graph, Current(g), Current(h)
  PROVE  g = h
<1>1. CASE {g, h} \subseteq Shared
  <2>1. Rank[g] <= Rank[h] /\ Rank[h] <= Rank[g] /\ Rank[g] \in Nat /\ Rank[h] \in Nat
    BY <1>1, OrderIsTotal DEF Current
  <2>2. QED
    BY <2>1, <1>1, OrderIsTotal
<1>2. CASE ~({g, h} \subseteq Shared)
  BY <1>2 DEF Together, Current
<1>3. QED
  BY <1>1, <1>2

----------------------------------------------------------------------------
\* A run that begins has its type and plans to replay dirty graphs (Begin).
LEMMA BeginStep ==
  ASSUME TypeOK, NEW kind \in Kind, NEW source \in Run,
         NEW authority \in {"yes", "no", "unchanged"},
         NEW graphs \in SUBSET Graph, NEW replays \in SUBSET Graph,
         NEW captured \in Capture, NEW seen \in [Graph -> Payload],
         Begin(kind, source, authority, graphs, replays, captured, seen)
  PROVE  /\ op' \in Operation /\ runs' \in Run
         /\ op'.at = "replay" /\ op'.kind = kind /\ op'.authority = authority
         /\ op'.graphs = graphs
         /\ op'.todo \subseteq replays /\ \A g \in op'.todo : meta[g].state = "dirty"
         /\ UNCHANGED <<meta, versions, members, latest, store, damaged, faults>>
<1>1. runs' \in Run /\ runs + 1 \in Run
  BY RunBound DEF Begin, TypeOK, Run
<1>2. Dirty(replays) \subseteq replays /\ \A g \in Dirty(replays) : meta[g].state = "dirty"
  BY DEF Dirty
<1>3. op' = [at |-> "replay", kind |-> kind, run |-> runs + 1, source |-> source,
             authority |-> authority, graphs |-> graphs, todo |-> Dirty(replays),
             replayed |-> Dirty(replays), captured |-> captured, seen |-> seen,
             candidate |-> Idle.candidate, retained |-> Idle.retained]
  BY DEF Begin, Idle
<1>4. Idle.candidate \in [Graph -> Payload] /\ Idle.retained \in [Graph -> SUBSET Owner]
  BY Constants DEF Idle
<1>5. op' \in Operation
  <2>1. Dirty(replays) \in SUBSET Graph
    BY <1>2
  <2>2. QED
    BY <1>1, <1>3, <1>4, <2>1 DEF Operation, Step
<1>6. QED
  BY <1>1, <1>2, <1>3, <1>5 DEF Begin, durable

\* Whatever the endpoint of the run that starts (Start).
LEMMA StartStep ==
  ASSUME TypeOK, Start
  PROVE  /\ op' \in Operation /\ runs' \in Run
         /\ op'.at = "replay"
         /\ op'.kind = "fixture" => op'.authority = "no"
         /\ Together(op'.graphs) /\ Together(op'.todo)
         /\ \A g \in op'.todo : meta[g].state = "dirty"
         /\ UNCHANGED <<meta, versions, members, latest, store, damaged, faults>>
<1> DEFINE Result ==
  /\ op' \in Operation /\ runs' \in Run
  /\ op'.at = "replay"
  /\ op'.kind = "fixture" => op'.authority = "no"
  /\ Together(op'.graphs) /\ Together(op'.todo)
  /\ \A g \in op'.todo : meta[g].state = "dirty"
  /\ UNCHANGED <<meta, versions, members, latest, store, damaged, faults>>
<1>1. ASSUME NEW kind \in Kind, NEW source \in Run,
             NEW authority \in {"yes", "no", "unchanged"},
             NEW graphs \in SUBSET Graph, NEW replays \in SUBSET Graph,
             NEW captured \in Capture, NEW seen \in [Graph -> Payload],
             Begin(kind, source, authority, graphs, replays, captured, seen),
             Together(graphs), Together(replays),
             kind = "fixture" => authority = "no"
      PROVE  Result
  <2>1. /\ op' \in Operation /\ runs' \in Run
        /\ op'.at = "replay" /\ op'.kind = kind /\ op'.authority = authority
        /\ op'.graphs = graphs
        /\ op'.todo \subseteq replays /\ \A g \in op'.todo : meta[g].state = "dirty"
        /\ UNCHANGED <<meta, versions, members, latest, store, damaged, faults>>
    BY <1>1, BeginStep
  <2>2. Together(op'.todo)
    BY <1>1, <2>1 DEF Together
  <2>3. QED
    BY <1>1, <2>1, <2>2
<1>2. Together(Shared) /\ \A g \in Graph : Together({g})
  BY DEF Together
<1>3. Shared \in SUBSET Graph /\ {} \in SUBSET Graph /\ {Houses} \in SUBSET Graph
  BY DEF Graph
<1>4. members.run \in Run /\ members.capture \in Capture /\ latest \in Capture
  BY DEF TypeOK
<1>5. ASSUME NEW kind \in Kind, NEW source \in Run,
             NEW authority \in {"yes", "no", "unchanged"},
             NEW graphs \in SUBSET Shared, NEW captured \in Capture,
             NEW p \in Capture, NEW q \in Capture,
             BeginOwners(kind, source, authority, graphs, captured, p, q),
             kind = "fixture" => authority = "no"
      PROVE  Result
  <2> DEFINE seen == [g \in Graph |-> IF g \in Shared THEN Join(p[g], q[g]) ELSE Empty]
  <2>1. seen \in [Graph -> Payload]
    BY JoinedPayload, Constants DEF Capture
  <2>2. Begin(kind, source, authority, graphs, Shared, captured, seen)
    BY <1>5 DEF BeginOwners
  <2>3. Together(graphs) /\ graphs \in SUBSET Graph
    BY <1>3 DEF Together
  <2> HIDE DEF seen, Result
  <2>4. QED
    BY <1>1, <1>2, <1>3, <1>5, <2>1, <2>2, <2>3
<1>6. ASSUME NEW capture \in [Shared -> Observation], StartMembers(capture)
      PROVE  Result
  <2>1. capture \in Capture
    BY ObservationsArePayloads DEF Capture
  <2>2. runs + 1 \in Run
    BY <1>6, RunBound DEF StartMembers, BeginOwners, Begin, TypeOK, Run
  <2> HIDE DEF Result
  <2>3. QED
    BY <1>4, <1>5, <1>6, <2>1, <2>2 DEF StartMembers, Kind
<1>7. ASSUME NEW e \in Shared, NEW p \in Observation
      PROVE  [latest EXCEPT ![e] = p] \in Capture
  BY <1>4, <1>7, ObservationsArePayloads DEF Capture
<1>8. ASSUME NEW e \in Shared, NEW p \in Observation, StartReference(e, p)
      PROVE  Result
  <2> DEFINE captured == [latest EXCEPT ![e] = p]
             complete == members.run # NoRun
             authority == IF complete THEN "yes" ELSE "unchanged"
             graphs == IF complete THEN Shared ELSE {e}
  <2>1. captured \in Capture
    BY <1>7
  <2>2. BeginOwners("reference", members.run, authority, graphs, captured,
                    members.capture, captured)
    BY <1>8 DEF StartReference
  <2>3. graphs \in SUBSET Shared /\ authority \in {"yes", "no", "unchanged"}
    OBVIOUS
  <2> HIDE DEF captured, authority, graphs, Result
  <2>4. QED
    BY <1>4, <1>5, <2>1, <2>2, <2>3 DEF Kind
<1>9. ASSUME NEW e \in Shared, NEW p \in Observation, StartFixture(e, p)
      PROVE  Result
  <2> DEFINE captured == [latest EXCEPT ![e] = p]
  <2>1. captured \in Capture
    BY <1>7
  <2>2. BeginOwners("fixture", members.run, "no", {e}, latest, members.capture, captured)
    BY <1>9 DEF StartFixture
  <2> HIDE DEF captured, Result
  <2>3. QED
    BY <1>4, <1>5, <2>1, <2>2 DEF Kind
<1>10. ASSUME StartCommittees
       PROVE  Result
  <2>1. BeginOwners("committees", members.run, "yes", Shared, latest, members.capture, latest)
    BY <1>10 DEF StartCommittees
  <2> HIDE DEF Result
  <2>2. QED
    BY <1>4, <1>5, <2>1 DEF Kind
<1>11. NoRun \in Run /\ Idle.seen \in [Graph -> Payload]
  BY Constants, RunBound DEF NoRun, Run, Idle
<1>12. ASSUME NEW p \in Observation, StartHouses(p)
       PROVE  Result
  <2> DEFINE seen == [Idle.seen EXCEPT ![Houses] = p]
  <2>1. seen \in [Graph -> Payload]
    BY <1>11, ObservationsArePayloads
  <2>2. Begin("houses", NoRun, "unchanged", {Houses}, {Houses}, latest, seen)
    BY <1>12 DEF StartHouses
  <2> HIDE DEF seen, Result
  <2>3. QED
    BY <1>1, <1>2, <1>3, <1>4, <1>11, <2>1, <2>2 DEF Kind, Graph
<1>13. ASSUME NEW g \in {Units, Offices}, NEW p \in Observation, StartRegistry(g, p)
       PROVE  Result
  <2> DEFINE seen == [Idle.seen EXCEPT ![g] = p]
  <2>1. seen \in [Graph -> Payload]
    BY <1>11, ObservationsArePayloads
  <2>2. Begin("registry", NoRun, "unchanged", {g}, {}, latest, seen)
    BY <1>13 DEF StartRegistry
  <2>3. {g} \in SUBSET Graph /\ Together({g}) /\ Together({})
    BY <1>2 DEF Graph, Together
  <2> HIDE DEF seen, Result
  <2>4. QED
    BY <1>1, <1>3, <1>4, <1>11, <2>1, <2>2, <2>3 DEF Kind
<1>14. Result
  BY <1>6, <1>8, <1>9, <1>10, <1>12, <1>13 DEF Start
<1>15. QED
  BY <1>14

----------------------------------------------------------------------------
\* What an idle run, and unchanged metadata, leave true.
LEMMA IdleRun ==
  ASSUME op' = Idle
  PROVE  op' \in Operation /\ StagedInv' /\ CandidateInv'
BY Constants DEF Idle, StagedInv, CandidateInv, Together

LEMMA SameMetadata ==
  ASSUME IInv, UNCHANGED <<meta, versions>>
  PROVE  PendingInv' /\ DescriptionsHaveSources'
BY DEF IInv, PendingInv, DescriptionsHaveSources, Known

LEMMA SameStore ==
  ASSUME IInv, UNCHANGED <<meta, store, damaged>>
  PROVE  StoreIsAccountedFor'
BY DEF IInv, StoreIsAccountedFor

\* A run that goes on, with the graph g handled or still to be handled.
LEMMA GoesOn ==
  ASSUME op \in Operation, NEW at \in Step, NEW todo \in SUBSET Graph,
         op' = [op EXCEPT !.at = at, !.todo = todo]
  PROVE  /\ op' \in Operation
         /\ op'.at = at /\ op'.todo = todo /\ op'.kind = op.kind
         /\ op'.source = op.source /\ op'.authority = op.authority
         /\ op'.graphs = op.graphs /\ op'.candidate = op.candidate
         /\ op'.retained = op.retained
BY DEF Operation

LEMMA MovesOn ==
  ASSUME op \in Operation, NEW at \in Step, op' = [op EXCEPT !.at = at]
  PROVE  op' = [op EXCEPT !.at = at, !.todo = op.todo] /\ op.todo \in SUBSET Graph
BY DEF Operation

LEMMA HandledGraph ==
  ASSUME op \in Operation, NEW g, op' = [op EXCEPT !.todo = op.todo \ {g}]
  PROVE  op' = [op EXCEPT !.at = op.at, !.todo = op.todo \ {g}] /\ op.at \in Step
BY DEF Operation

----------------------------------------------------------------------------
\* A PUT sends what a dirty graph has pending (Put).
LEMMA PutStep ==
  ASSUME IInv, NEW g \in Graph, NEW next \in Step, Put(g, next), Current(g),
         \/ op.at = "replay" /\ next = "replayed"
         \/ op.at = "put" /\ next = "verify"
  PROVE  IInv'
<1>1. /\ UNCHANGED <<meta, versions, members, latest, runs>>
      /\ op' = Idle \/ op' = [op EXCEPT !.at = next]
      /\ \/ UNCHANGED <<store, damaged>>
         \/ store' = [store EXCEPT ![g] = meta[g].pending] /\ damaged' = damaged \ {g}
      /\ faults' \in Nat
  BY DEF Put, Fail, Fault, durable, IInv, TypeOK
<1>2. meta[g].state = "dirty" /\ meta[g].pending \in Payload
  BY DEF IInv, StagedInv, Current, TypeOK, Meta
<1>3. op' \in Operation /\ StagedInv' /\ CandidateInv'
  <2>1. CASE op' = Idle
    BY <2>1, IdleRun
  <2>2. CASE op' = [op EXCEPT !.at = next]
    <3>1. /\ op' \in Operation
          /\ op'.at = next /\ op'.todo = op.todo /\ op'.kind = op.kind
          /\ op'.source = op.source /\ op'.authority = op.authority
          /\ op'.graphs = op.graphs /\ op'.candidate = op.candidate
          /\ op'.retained = op.retained
      BY <2>2, GoesOn, MovesOn DEF IInv, TypeOK
    <3>2. \A h \in Graph : Current(h)' <=> Current(h)
      BY <3>1 DEF Current
    <3>3. StagedInv'
      BY <1>1, <3>1, <3>2 DEF IInv, StagedInv, Together
    <3>4. CandidateInv'
      BY <1>1, <3>1 DEF IInv, CandidateInv
    <3>5. QED
      BY <3>1, <3>3, <3>4
  <2>3. QED
    BY <1>1, <2>1, <2>2
<1>4. store' \in [Graph -> Payload] /\ damaged' \subseteq Graph
  BY <1>1, <1>2 DEF IInv, TypeOK
<1>5. TypeOK'
  BY <1>1, <1>3, <1>4 DEF IInv, TypeOK
<1>6. StoreIsAccountedFor'
  BY <1>1, <1>2 DEF IInv, StoreIsAccountedFor, TypeOK
<1>7. QED
  BY <1>1, <1>3, <1>5, <1>6, SameMetadata DEF IInv

\* What completing a dirty graph makes of its metadata (Completed).
LEMMA CompletedMeta ==
  ASSUME NEW m \in Meta, NEW authority \in {"yes", "no", "unchanged"}
  PROVE  /\ Completed(m, authority) \in Meta
         /\ Completed(m, authority).state = "clean"
         /\ Completed(m, authority).published = m.pending
         /\ Completed(m, authority).source = m.pendingSource
         /\ Completed(m, authority).authoritative =
              IF authority = "unchanged" THEN m.pendingAuthoritative ELSE authority = "yes"
BY Constants DEF Completed, Unpublished, Meta

\* The versions it adds lead to versions that were there (VersionsStored).
LEMMA AddedVersions ==
  ASSUME IInv, NEW g \in Graph, meta[g].state = "dirty"
  PROVE  /\ versions \subseteq VersionsStored(g)
         /\ VersionsStored(g) \subseteq Version
         /\ \A v \in VersionsStored(g) \ versions : v.sourced \/ \E u \in versions :
              u.graph = v.graph /\ u.owner = v.owner /\ u.payload = v.prior /\ u.depth < v.depth
         /\ g \in Shared \cup {Houses} => \A o \in Described(meta[g].pending) :
              \E v \in VersionsStored(g) :
                v.graph = g /\ v.payload = meta[g].pending /\ v.owner = o
<1> DEFINE m == meta[g]
           Prior(o) == {v \in versions : v.graph = g /\ v.payload = m.published /\ v.owner = o}
           Fresh(o) == [graph |-> g, payload |-> m.pending, owner |-> o, sourced |-> TRUE,
                        prior |-> m.pending, depth |-> 0]
           Kept(o, v) == [graph |-> g, payload |-> m.pending, owner |-> o, sourced |-> FALSE,
                          prior |-> m.published, depth |-> v.depth + 1]
           owners == {o \in Described(m.pending) : /\ g \in Shared \cup {Houses}
                                                   /\ ~Known(g, m.pending, o)}
<1>1. versions \subseteq VersionsStored(g)
  BY DEF VersionsStored
<1>2. m \in Meta /\ m.pending \in Payload /\ m.published \in Payload
  BY DEF IInv, TypeOK, Meta
<1>3. owners \subseteq Owner
  BY DEF Described
<1>4. ASSUME NEW v \in VersionsStored(g), v \notin versions
      PROVE  \/ \E o \in owners : v = Fresh(o)
             \/ \E o \in owners : \E u \in Prior(o) : v = Kept(o, u)
  <2>1. v \in NewVersions(g, owners)
    BY <1>4 DEF VersionsStored
  <2>2. QED
    BY <2>1 DEF NewVersions
<1>5. ASSUME NEW o \in owners
      PROVE  Fresh(o) \in Version
  BY <1>2, <1>3, <1>5 DEF Version
<1>6. ASSUME NEW o \in owners, NEW u \in Prior(o)
      PROVE  Kept(o, u) \in Version /\ u.depth < Kept(o, u).depth
  <2>1. u.depth \in Nat
    BY <1>6 DEF IInv, TypeOK, Version
  <2>2. QED
    BY <1>2, <1>3, <1>6, <2>1 DEF Version
<1>7. VersionsStored(g) \subseteq Version
  BY <1>4, <1>5, <1>6 DEF IInv, TypeOK
<1>8. ASSUME NEW v \in VersionsStored(g) \ versions
      PROVE  v.sourced \/ \E u \in versions :
               u.graph = v.graph /\ u.owner = v.owner /\ u.payload = v.prior /\ u.depth < v.depth
  BY <1>4, <1>6, <1>8
<1>9. /\ \A o \in owners \ m.retained : Fresh(o) \in NewVersions(g, owners)
      /\ \A o \in owners \cap m.retained : \A u \in Prior(o) :
           Kept(o, u) \in NewVersions(g, owners)
  <2>1. NewVersions(g, owners) =
          {Fresh(o) : o \in owners \ m.retained}
            \cup UNION {{Kept(o, v) : v \in Prior(o)} : o \in owners \cap m.retained}
    BY DEF NewVersions
  <2> HIDE DEF Fresh, Kept, Prior, owners, m
  <2>2. QED
    BY <2>1
<1>10. NewVersions(g, owners) \subseteq VersionsStored(g)
  BY DEF VersionsStored
<1>11. ASSUME g \in Shared \cup {Houses}, NEW o \in Described(m.pending),
              ~Known(g, m.pending, o)
       PROVE  \E v \in VersionsStored(g) : v.graph = g /\ v.payload = m.pending /\ v.owner = o
  <2>1. o \in owners
    BY <1>11
  <2>2. CASE o \notin m.retained
    <3>1. Fresh(o) \in VersionsStored(g)
      BY <1>9, <1>10, <2>1, <2>2
    <3>2. Fresh(o).graph = g /\ Fresh(o).payload = m.pending /\ Fresh(o).owner = o
      OBVIOUS
    <3> HIDE DEF Fresh, m
    <3>3. QED
      BY <3>1, <3>2
  <2>3. CASE o \in m.retained
    <3>1. o \in Described(m.published)
      BY <2>3 DEF IInv, PendingInv
    <3>2. Known(g, m.published, o)
      BY <1>11, <3>1 DEF IInv, DescriptionsHaveSources
    <3>3. PICK u \in Prior(o) : TRUE
      BY <3>2 DEF Known
    <3>4. Kept(o, u) \in VersionsStored(g)
      BY <1>9, <1>10, <2>1, <2>3, <3>3
    <3>5. Kept(o, u).graph = g /\ Kept(o, u).payload = m.pending /\ Kept(o, u).owner = o
      OBVIOUS
    <3> HIDE DEF Kept, m
    <3>6. QED
      BY <3>4, <3>5
  <2>4. QED
    BY <2>2, <2>3
<1>12. ASSUME g \in Shared \cup {Houses}, NEW o \in Described(m.pending)
       PROVE  \E v \in VersionsStored(g) : v.graph = g /\ v.payload = m.pending /\ v.owner = o
  <2>1. CASE Known(g, m.pending, o)
    BY <1>1, <2>1 DEF Known
  <2>2. QED
    BY <1>11, <1>12, <2>1
<1>13. QED
  BY <1>1, <1>7, <1>8, <1>12

----------------------------------------------------------------------------
\* What no step does to the metadata: go back to an older Members run, or take
\* the standing of a graph away, or replace it by a fixture.
Advances ==
  \A g \in Graph :
    /\ meta[g].source <= meta'[g].source
    /\ meta[g].authoritative =>
         /\ meta'[g].authoritative
         /\ op.kind = "fixture" /\ op.at = "verify" => meta'[g].published = meta[g].published

LEMMA SameMetaAdvances ==
  ASSUME TypeOK, UNCHANGED meta
  PROVE  Advances
<1>1. \A g \in Graph : meta[g].source \in Nat
  BY DEF TypeOK, Meta, Run
<1>2. QED
  BY <1>1 DEF Advances

\* A verified graph becomes clean (VerifyAndComplete); otherwise the run ends.
LEMMA CompleteStep ==
  ASSUME IInv, NEW g \in Graph, NEW authority \in {"yes", "no", "unchanged"},
         NEW next \in Step, VerifyAndComplete(g, authority, next), Current(g),
         \/ op.at = "replayed" /\ next = "replay" /\ authority = "unchanged"
         \/ op.at = "verify" /\ next = "decide" /\ authority = op.authority
  PROVE  IInv' /\ Advances
<1>1. meta[g].state = "dirty" /\ meta[g] \in Meta
  BY DEF IInv, StagedInv, Current, TypeOK
<1>2. UNCHANGED <<members, latest, store, damaged, runs, faults>>
  BY DEF VerifyAndComplete
<1>3. CASE store[g] # meta[g].pending
  <2>1. op' = Idle /\ UNCHANGED <<meta, versions>>
    BY <1>3 DEF VerifyAndComplete, Fail
  <2>2. op' \in Operation /\ StagedInv' /\ CandidateInv'
    BY <2>1, IdleRun
  <2>3. TypeOK'
    BY <1>2, <2>1, <2>2 DEF IInv, TypeOK
  <2>4. QED
    BY <1>2, <2>1, <2>2, <2>3, SameMetadata, SameStore, SameMetaAdvances DEF IInv
<1>4. CASE store[g] = meta[g].pending
  <2> DEFINE done == Completed(meta[g], authority)
  <2>1. /\ meta' = [meta EXCEPT ![g] = done]
        /\ versions' = VersionsStored(g)
        /\ op' = [op EXCEPT !.at = next, !.todo = op.todo \ {g}]
    BY <1>4 DEF VerifyAndComplete
  <2>2. /\ done \in Meta /\ done.state = "clean"
        /\ done.published = meta[g].pending /\ done.source = meta[g].pendingSource
        /\ done.authoritative = IF authority = "unchanged" THEN meta[g].pendingAuthoritative
                                ELSE authority = "yes"
    BY <1>1, CompletedMeta
  <2>3. /\ op' \in Operation
        /\ op'.at = next /\ op'.todo = op.todo \ {g} /\ op'.kind = op.kind
        /\ op'.source = op.source /\ op'.authority = op.authority
        /\ op'.graphs = op.graphs /\ op'.candidate = op.candidate
        /\ op'.retained = op.retained
    <3>1. op.todo \ {g} \in SUBSET Graph
      BY DEF IInv, TypeOK, Operation
    <3>2. QED
      BY <2>1, <3>1, GoesOn DEF IInv, TypeOK
  <2> HIDE DEF done
  <2>4. /\ meta'[g] = done
        /\ \A h \in Graph : h # g => meta'[h] = meta[h]
        /\ meta' \in [Graph -> Meta]
    BY <2>1, <2>2 DEF IInv, TypeOK
  <2>5. TypeOK'
    BY <1>1, <1>2, <2>1, <2>3, <2>4, AddedVersions DEF IInv, TypeOK
  <2>6. StagedInv'
    <3>1. \A h \in op'.todo : h \in op.todo /\ meta'[h] = meta[h]
      BY <2>3, <2>4 DEF IInv, TypeOK, Operation
    <3>2. Together(op'.todo) /\ Together(op'.graphs)
      BY <2>3 DEF IInv, StagedInv, Together
    <3>3. CASE op.at = "replayed" /\ next = "replay"
      BY <2>3, <3>1, <3>2, <3>3 DEF IInv, StagedInv
    <3>4. CASE op.at = "verify" /\ next = "decide"
      BY <2>3, <3>2, <3>4 DEF IInv, StagedInv
    <3>5. QED
      BY <3>3, <3>4
  <2>7. CandidateInv'
    <3>1. \A h \in op'.todo : h \in op.todo /\ h \in Graph /\ meta'[h] = meta[h]
      BY <2>3, <2>4 DEF IInv, TypeOK, Operation
    <3>2. QED
      BY <2>3, <3>1 DEF IInv, CandidateInv
  <2>8. PendingInv'
    BY <2>2, <2>4 DEF IInv, PendingInv
  <2>9. StoreIsAccountedFor'
    BY <1>2, <1>4, <2>2, <2>4 DEF IInv, StoreIsAccountedFor
  <2>10. DescriptionsHaveSources'
    <3>1. /\ versions \subseteq versions'
          /\ \A v \in versions' \ versions : v.sourced \/ \E u \in versions :
               u.graph = v.graph /\ u.owner = v.owner /\ u.payload = v.prior /\ u.depth < v.depth
          /\ g \in Shared \cup {Houses} => \A o \in Described(done.published) :
               \E v \in versions' : v.graph = g /\ v.payload = done.published /\ v.owner = o
      BY <1>1, <2>1, <2>2, AddedVersions
    <3>2. ASSUME NEW h \in Shared \cup {Houses}, NEW o \in Described(meta'[h].published)
          PROVE  \E v \in versions' :
                   v.graph = h /\ v.payload = meta'[h].published /\ v.owner = o
      <4>1. CASE h = g
        BY <2>4, <3>1, <3>2, <4>1
      <4>2. CASE h # g
        <5>1. meta'[h] = meta[h]
          BY <2>4, <4>2 DEF Graph
        <5>2. Known(h, meta[h].published, o)
          BY <3>2, <5>1 DEF IInv, DescriptionsHaveSources
        <5>3. QED
          BY <3>1, <5>1, <5>2 DEF Known
      <4>3. QED
        BY <4>1, <4>2
    <3>3. ASSUME NEW v \in versions'
          PROVE  v.sourced \/ \E u \in versions' :
                   u.graph = v.graph /\ u.owner = v.owner /\ u.payload = v.prior /\ u.depth < v.depth
      BY <3>1, <3>3 DEF IInv, DescriptionsHaveSources
    <3>4. QED
      BY <3>2, <3>3 DEF DescriptionsHaveSources, Known
  <2>11. Advances
    <3>1. /\ meta[g].source <= meta[g].pendingSource
          /\ meta[g].authoritative => meta[g].pendingAuthoritative
      BY <1>1 DEF IInv, PendingInv
    <3>2. op.at = "verify" /\ meta[g].authoritative => op.authority # "no"
      BY DEF IInv, StagedInv
    <3>3. op.at = "verify" /\ meta[g].authoritative => op.kind # "fixture"
      BY <3>2 DEF IInv, StagedInv
    <3>4. meta[g].authoritative => done.authoritative
      BY <2>2, <3>1, <3>2
    <3>5. \A h \in Graph : meta[h].source \in Nat
      BY DEF IInv, TypeOK, Meta, Run
    <3>6. QED
      BY <2>2, <2>4, <3>1, <3>3, <3>4, <3>5 DEF Advances
  <2>12. QED
    BY <2>5, <2>6, <2>7, <2>8, <2>9, <2>10, <2>11 DEF IInv
<1>5. QED
  BY <1>3, <1>4

----------------------------------------------------------------------------
\* The candidates are built from clean graphs, in one step (Build).
LEMMA BuildStep ==
  ASSUME IInv, Build
  PROVE  IInv'
<1>1. UNCHANGED <<meta, versions, members, latest, store, damaged, runs, faults>>
  BY DEF Build, durable
<1>2. op' \in Operation /\ StagedInv' /\ CandidateInv'
  <2>1. CASE \E g \in op.graphs : Older(g)
    BY <2>1, IdleRun DEF Build, Fail
  <2>2. CASE ~\E g \in op.graphs : Older(g)
    <3> DEFINE candidate == [g \in Graph |-> NewPayload(g)]
               retained == [g \in Graph |-> Retained(g)]
    <3>1. op' = [op EXCEPT !.at = "decide", !.todo = op.graphs,
                           !.candidate = candidate, !.retained = retained]
      BY <2>2 DEF Build
    <3>2. ASSUME NEW g \in Graph
          PROVE  /\ NewPayload(g) \in Payload /\ Retained(g) \in SUBSET Owner
                 /\ Retained(g) \subseteq Described(meta[g].published)
                 /\ g \in Shared => Described(meta[g].published) \subseteq Described(NewPayload(g))
      <4>1. op.seen[g] \in Payload /\ meta[g].published \in Payload
        BY DEF IInv, TypeOK, Operation, Meta
      <4>2. QED
        BY <4>1, JoinedPayload DEF NewPayload, Retained, Described
    <3>3. candidate \in [Graph -> Payload] /\ retained \in [Graph -> SUBSET Owner]
      BY <3>2
    <3>4. /\ \A g \in Graph : candidate[g] = NewPayload(g)
          /\ \A g \in Graph : retained[g] = Retained(g)
      OBVIOUS
    <3> HIDE DEF candidate, retained
    <3>5. /\ op' \in Operation
          /\ op'.at = "decide" /\ op'.todo = op.graphs /\ op'.kind = op.kind
          /\ op'.source = op.source /\ op'.authority = op.authority
          /\ op'.graphs = op.graphs /\ op'.candidate = candidate
          /\ op'.retained = retained
      BY <3>1, <3>3 DEF IInv, TypeOK, Operation, Step
    <3>6. StagedInv'
      BY <3>5 DEF IInv, StagedInv, Together
    <3>7. op.graphs \subseteq Graph /\ op.source \in Nat /\ NoRun \in Nat
      BY DEF IInv, TypeOK, Operation, Run, NoRun
    <3>8. \A g \in op.graphs : op.source # NoRun => meta[g].source <= op.source
      <4>1. \A g \in op.graphs : meta[g].source \in Nat
        BY <3>7 DEF IInv, TypeOK, Meta, Run
      <4>2. QED
        BY <2>2, <3>7, <4>1 DEF Older
    <3>9. CandidateInv'
      BY <1>1, <3>2, <3>4, <3>5, <3>7, <3>8 DEF CandidateInv
    <3>10. QED
      BY <3>5, <3>6, <3>9
  <2>3. QED
    BY <2>1, <2>2
<1>3. TypeOK'
  BY <1>1, <1>2 DEF IInv, TypeOK
<1>4. QED
  BY <1>1, <1>2, <1>3, SameMetadata, SameStore DEF IInv

\* A graph that is skipped or confirmed leaves the plan (Skip, ConfirmIdentical).
LEMMA SkipStep ==
  ASSUME IInv, NEW g \in Graph, Skip(g)
  PROVE  IInv'
<1>1. UNCHANGED <<meta, versions, members, latest, store, damaged, runs, faults>>
  BY DEF Skip, durable
<1>2. /\ op' \in Operation /\ op.at = "decide"
      /\ op'.at = op.at /\ op'.todo = op.todo \ {g} /\ op'.kind = op.kind
      /\ op'.source = op.source /\ op'.authority = op.authority
      /\ op'.graphs = op.graphs /\ op'.candidate = op.candidate
      /\ op'.retained = op.retained
  <2>1. op.todo \ {g} \in SUBSET Graph
    BY DEF IInv, TypeOK, Operation
  <2>2. op \in Operation /\ op' = [op EXCEPT !.todo = op.todo \ {g}]
    BY DEF IInv, TypeOK, Skip
  <2>3. op' = [op EXCEPT !.at = op.at, !.todo = op.todo \ {g}] /\ op.at \in Step
    BY <2>2, HandledGraph
  <2>4. PICK at \in Step : at = op.at
    BY <2>3
  <2>5. op.at = "decide" /\ g \in op.todo
    BY DEF Skip, Deciding, Current
  <2>6. op' = [op EXCEPT !.at = at, !.todo = op.todo \ {g}]
    BY <2>3, <2>4
  <2>7. /\ op' \in Operation
        /\ op'.at = at /\ op'.todo = op.todo \ {g} /\ op'.kind = op.kind
        /\ op'.source = op.source /\ op'.authority = op.authority
        /\ op'.graphs = op.graphs /\ op'.candidate = op.candidate
        /\ op'.retained = op.retained
    BY <2>1, <2>2, <2>6, GoesOn
  <2>8. QED
    BY <2>4, <2>5, <2>7
<1>3. StagedInv'
  BY <1>1, <1>2 DEF IInv, StagedInv, Together
<1>4. CandidateInv'
  BY <1>1, <1>2 DEF IInv, CandidateInv
<1>5. TypeOK'
  BY <1>1, <1>2 DEF IInv, TypeOK
<1>6. QED
  BY <1>1, <1>3, <1>4, <1>5, SameMetadata, SameStore DEF IInv

LEMMA ConfirmStep ==
  ASSUME IInv, NEW g \in Graph, ConfirmIdentical(g)
  PROVE  /\ IInv' /\ Advances
         /\ \A h \in Graph : meta'[h].published = meta[h].published
                             /\ meta'[h].pending = meta[h].pending
                             /\ meta'[h].state = meta[h].state
<1>1. UNCHANGED <<versions, members, latest, store, damaged, runs, faults>>
  BY DEF ConfirmIdentical
<1>2. /\ op' \in Operation /\ op.at = "decide" /\ g \in op.todo
      /\ op'.at = op.at /\ op'.todo = op.todo \ {g} /\ op'.kind = op.kind
      /\ op'.source = op.source /\ op'.authority = op.authority
      /\ op'.graphs = op.graphs /\ op'.candidate = op.candidate
      /\ op'.retained = op.retained
  <2>1. op.todo \ {g} \in SUBSET Graph
    BY DEF IInv, TypeOK, Operation
  <2>2. op \in Operation /\ op' = [op EXCEPT !.todo = op.todo \ {g}]
    BY DEF IInv, TypeOK, ConfirmIdentical
  <2>3. op' = [op EXCEPT !.at = op.at, !.todo = op.todo \ {g}] /\ op.at \in Step
    BY <2>2, HandledGraph
  <2>4. PICK at \in Step : at = op.at
    BY <2>3
  <2>5. op.at = "decide" /\ g \in op.todo
    BY DEF ConfirmIdentical, Deciding, Current
  <2>6. op' = [op EXCEPT !.at = at, !.todo = op.todo \ {g}]
    BY <2>3, <2>4
  <2>7. /\ op' \in Operation
        /\ op'.at = at /\ op'.todo = op.todo \ {g} /\ op'.kind = op.kind
        /\ op'.source = op.source /\ op'.authority = op.authority
        /\ op'.graphs = op.graphs /\ op'.candidate = op.candidate
        /\ op'.retained = op.retained
    BY <2>1, <2>2, <2>6, GoesOn
  <2>8. QED
    BY <2>4, <2>5, <2>7
<1>3. meta[g].state = "clean" /\ meta[g] \in Meta /\ op.source \in Run
  BY DEF ConfirmIdentical, Identical, IInv, TypeOK, Operation
<1>4. /\ meta' \in [Graph -> Meta]
      /\ \A h \in Graph : h # g => meta'[h] = meta[h]
      /\ meta'[g].published = meta[g].published /\ meta'[g].pending = meta[g].pending
      /\ meta'[g].state = "clean" /\ meta'[g].authoritative = meta[g].authoritative
      /\ meta[g].source <= meta'[g].source
  <2>1. CASE op.source = NoRun
    <3>1. meta' = meta
      BY <2>1 DEF ConfirmIdentical
    <3>2. meta[g].source \in Nat
      BY <1>3 DEF Meta, Run
    <3>3. QED
      BY <1>3, <3>1, <3>2 DEF IInv, TypeOK
  <2>2. CASE op.source # NoRun
    <3>1. meta' = [meta EXCEPT ![g].source = op.source]
      BY <2>2 DEF ConfirmIdentical
    <3>2. meta[g].source <= op.source
      BY <1>2, <2>2 DEF IInv, CandidateInv
    <3> DEFINE m == [meta[g] EXCEPT !.source = op.source]
    <3>3. m \in Meta /\ m.source = op.source /\ m.published = meta[g].published
          /\ m.pending = meta[g].pending /\ m.state = meta[g].state
          /\ m.authoritative = meta[g].authoritative
      BY <1>3 DEF Meta
    <3>4. meta' = [meta EXCEPT ![g] = m]
      BY <3>1
    <3> HIDE DEF m
    <3>5. QED
      BY <1>3, <3>2, <3>3, <3>4 DEF IInv, TypeOK
  <2>3. QED
    BY <2>1, <2>2
<1>5. StagedInv'
  BY <1>2 DEF IInv, StagedInv, Together
<1>6. CandidateInv'
  <2>1. \A h \in op'.todo : h \in op.todo /\ h \in Graph /\ meta'[h] = meta[h]
    BY <1>2, <1>4 DEF IInv, TypeOK, Operation
  <2>2. QED
    BY <1>2, <2>1 DEF IInv, CandidateInv
<1>7. TypeOK'
  BY <1>1, <1>2, <1>4 DEF IInv, TypeOK
<1>8. PendingInv'
  BY <1>4 DEF IInv, PendingInv
<1>9. StoreIsAccountedFor'
  BY <1>1, <1>3, <1>4 DEF IInv, StoreIsAccountedFor
<1>10. \A h \in Graph : /\ meta'[h].published = meta[h].published
                        /\ meta'[h].pending = meta[h].pending
                        /\ meta'[h].state = meta[h].state
  BY <1>3, <1>4
<1>11. DescriptionsHaveSources'
  <2>1. \A h \in Shared \cup {Houses} : meta'[h].published = meta[h].published
    BY <1>10 DEF Graph
  <2>2. QED
    BY <1>1, <2>1 DEF IInv, DescriptionsHaveSources, Known
<1>12. Advances
  <2>1. \A h \in Graph : meta[h].source \in Nat
    BY DEF IInv, TypeOK, Meta, Run
  <2>2. QED
    BY <1>4, <2>1 DEF Advances
<1>13. QED
  BY <1>5, <1>6, <1>7, <1>8, <1>9, <1>10, <1>11, <1>12 DEF IInv

----------------------------------------------------------------------------
\* A candidate is staged for the graph the run works on (Stage).
LEMMA StageStep ==
  ASSUME IInv, NEW g \in Graph, Stage(g)
  PROVE  /\ IInv' /\ Advances
         /\ meta[g].state # "dirty" /\ g \in op.todo /\ op.at = "decide"
         /\ \A h \in Graph : h # g => meta'[h] = meta[h]
         /\ meta'[g].state = "dirty" /\ meta'[g].pending = op.candidate[g]
         /\ meta'[g].published = meta[g].published
<1> DEFINE staged == [meta[g] EXCEPT !.state = "dirty", !.pending = op.candidate[g],
              !.pendingAuthoritative = IF op.authority = "unchanged"
                                       THEN meta[g].authoritative
                                       ELSE op.authority = "yes",
              !.pendingSource = IF op.source = NoRun THEN meta[g].source ELSE op.source,
              !.retained = op.retained[g]]
<1>1. UNCHANGED <<versions, members, latest, store, damaged, runs, faults>>
  BY DEF Stage
<1>2. /\ op.at = "decide" /\ Current(g) /\ g \in op.todo
      /\ meta[g].state # "dirty" /\ ~Protected(g)
  BY DEF Stage, NeedsPublication, Deciding, Accepted, Current
<1>3. /\ meta[g] \in Meta /\ op.source \in Run /\ op.authority \in {"yes", "no", "unchanged"}
      /\ op.candidate[g] \in Payload /\ op.retained[g] \in SUBSET Owner
  BY DEF IInv, TypeOK, Operation
<1>4. /\ staged \in Meta /\ staged.state = "dirty"
      /\ staged.pending = op.candidate[g] /\ staged.published = meta[g].published
      /\ staged.source = meta[g].source /\ staged.authoritative = meta[g].authoritative
      /\ staged.pendingSource = IF op.source = NoRun THEN meta[g].source ELSE op.source
      /\ staged.pendingAuthoritative = IF op.authority = "unchanged"
                                       THEN meta[g].authoritative
                                       ELSE op.authority = "yes"
      /\ staged.retained = op.retained[g]
  BY <1>3 DEF Meta
<1>5. meta' = [meta EXCEPT ![g] = staged]
  BY DEF Stage
<1> HIDE DEF staged
<1>6. /\ meta' \in [Graph -> Meta] /\ meta'[g] = staged
      /\ \A h \in Graph : h # g => meta'[h] = meta[h]
  BY <1>4, <1>5 DEF IInv, TypeOK
<1>7. /\ op' \in Operation
      /\ op'.at = "put" /\ op'.todo = op.todo /\ op'.kind = op.kind
      /\ op'.source = op.source /\ op'.authority = op.authority
      /\ op'.graphs = op.graphs /\ op'.candidate = op.candidate
      /\ op'.retained = op.retained
  <2>1. op \in Operation /\ "put" \in Step /\ op' = [op EXCEPT !.at = "put"]
    BY DEF IInv, TypeOK, Stage, Step
  <2>2. op' = [op EXCEPT !.at = "put", !.todo = op.todo] /\ op.todo \in SUBSET Graph
    BY <2>1, MovesOn
  <2>3. QED
    BY <2>1, <2>2, GoesOn
<1>8. StagedInv'
  <2>1. Together(op.todo) /\ Together(op.graphs)
    BY DEF IInv, StagedInv
  <2>2. \A h \in Graph : Current(h)' => h = g
    BY <1>2, <1>7, <2>1, OneCurrent DEF Current
  <2>3. op.authority = "no" => ~meta[g].authoritative
    BY <1>2 DEF Protected
  <2>4. QED
    BY <1>4, <1>6, <1>7, <2>1, <2>2, <2>3 DEF IInv, StagedInv, Together
<1>9. \A h \in Graph : meta'[h].published = meta[h].published
                       /\ meta'[h].source = meta[h].source
                       /\ meta'[h].authoritative = meta[h].authoritative
  BY <1>4, <1>6
<1>10. CandidateInv'
  BY <1>2, <1>7, <1>9 DEF IInv, TypeOK, Operation, CandidateInv
<1>11. PendingInv'
  <2>1. op.source # NoRun => meta[g].source <= op.source
    BY <1>2 DEF IInv, CandidateInv
  <2>2. op.retained[g] \subseteq Described(meta[g].published)
    BY <1>2 DEF IInv, CandidateInv
  <2>3. meta[g].source \in Nat
    BY <1>3 DEF Meta, Run
  <2>4. meta[g].authoritative => staged.pendingAuthoritative
    BY <1>2, <1>3, <1>4 DEF Protected
  <2>5. QED
    BY <1>4, <1>6, <2>1, <2>2, <2>3, <2>4 DEF IInv, PendingInv
<1>12. StoreIsAccountedFor'
  <2>1. store[g] = meta[g].published \/ g \in damaged
    BY <1>2 DEF IInv, StoreIsAccountedFor
  <2>2. QED
    BY <1>1, <1>4, <1>6, <2>1 DEF IInv, StoreIsAccountedFor
<1>13. DescriptionsHaveSources'
  <2>1. \A h \in Shared \cup {Houses} : meta'[h].published = meta[h].published
    BY <1>9 DEF Graph
  <2>2. QED
    BY <1>1, <2>1 DEF IInv, DescriptionsHaveSources, Known
<1>14. TypeOK'
  BY <1>1, <1>6, <1>7 DEF IInv, TypeOK
<1>15. Advances
  <2>1. \A h \in Graph : meta[h].source \in Nat
    BY DEF IInv, TypeOK, Meta, Run
  <2>2. QED
    BY <1>9, <2>1 DEF Advances
<1>16. QED
  BY <1>2, <1>4, <1>6, <1>8, <1>10, <1>11, <1>12, <1>13, <1>14, <1>15 DEF IInv

\* The run ends: refused, done, or dead (RefuseStaging, Succeed, Crash).
LEMMA EndStep ==
  ASSUME IInv, (\E g \in Graph : RefuseStaging(g)) \/ Succeed \/ Crash
  PROVE  IInv' /\ UNCHANGED meta
<1>1. /\ UNCHANGED <<meta, versions, store, damaged, runs>>
      /\ op' = Idle /\ faults' \in Nat
      /\ members' \in [run : Run, capture : Capture] /\ latest' \in Capture
  BY DEF RefuseStaging, Succeed, Crash, Fail, Fault, durable, IInv, TypeOK, Operation
<1>2. op' \in Operation /\ StagedInv' /\ CandidateInv'
  BY <1>1, IdleRun
<1>3. TypeOK'
  BY <1>1, <1>2 DEF IInv, TypeOK
<1>4. QED
  BY <1>1, <1>2, <1>3, SameMetadata, SameStore DEF IInv

\* A graph the triple store loses is damaged until its next PUT (LoseGraph).
LEMMA LoseStep ==
  ASSUME IInv, NEW g \in Graph, LoseGraph(g)
  PROVE  IInv' /\ UNCHANGED meta
<1>1. /\ UNCHANGED <<meta, versions, members, latest, runs, op>>
      /\ store' = [store EXCEPT ![g] = Empty] /\ damaged' = damaged \cup {g}
      /\ faults' \in Nat
  BY DEF LoseGraph, Fault, durable, IInv, TypeOK
<1>2. StagedInv' /\ CandidateInv'
  BY <1>1 DEF IInv, StagedInv, CandidateInv, Current, Together
<1>3. TypeOK'
  BY <1>1, Constants DEF IInv, TypeOK
<1>4. StoreIsAccountedFor'
  BY <1>1 DEF IInv, StoreIsAccountedFor, TypeOK
<1>5. QED
  BY <1>1, <1>2, <1>3, <1>4, SameMetadata DEF IInv

\* A run starts (Start).
LEMMA StartsStep ==
  ASSUME IInv, Start
  PROVE  IInv' /\ UNCHANGED meta
<1>1. /\ op' \in Operation /\ runs' \in Run
      /\ op'.at = "replay"
      /\ op'.kind = "fixture" => op'.authority = "no"
      /\ Together(op'.graphs) /\ Together(op'.todo)
      /\ \A g \in op'.todo : meta[g].state = "dirty"
      /\ UNCHANGED <<meta, versions, members, latest, store, damaged, faults>>
  BY StartStep DEF IInv
<1>2. StagedInv' /\ CandidateInv'
  BY <1>1 DEF StagedInv, CandidateInv, Together
<1>3. TypeOK'
  BY <1>1 DEF IInv, TypeOK
<1>4. QED
  BY <1>1, <1>2, <1>3, SameMetadata, SameStore DEF IInv

----------------------------------------------------------------------------
\* One step of a run on a graph keeps the invariant (Handle).
LEMMA HandleStep ==
  ASSUME IInv, NEW g \in Graph, Handle(g)
  PROVE  IInv' /\ Advances
<1>1. CASE ReplayPut(g)
  <2>1. "replayed" \in Step
    BY DEF Step
  <2>2. UNCHANGED meta
    BY <1>1 DEF ReplayPut, Put, durable
  <2>3. QED
    BY <1>1, <2>1, <2>2, PutStep, SameMetaAdvances DEF ReplayPut, IInv
<1>2. CASE NewPut(g)
  <2>1. "verify" \in Step
    BY DEF Step
  <2>2. UNCHANGED meta
    BY <1>2 DEF NewPut, Put, durable
  <2>3. QED
    BY <1>2, <2>1, <2>2, PutStep, SameMetaAdvances DEF NewPut, IInv
<1>3. CASE ReplayComplete(g)
  <2>1. "replay" \in Step
    BY DEF Step
  <2>2. QED
    BY <1>3, <2>1, CompleteStep DEF ReplayComplete
<1>4. CASE NewComplete(g)
  <2>1. "decide" \in Step /\ op.authority \in {"yes", "no", "unchanged"}
    BY DEF Step, IInv, TypeOK, Operation
  <2>2. QED
    BY <1>4, <2>1, CompleteStep DEF NewComplete
<1>5. CASE Skip(g)
  <2>1. UNCHANGED meta
    BY <1>5 DEF Skip, durable
  <2>2. QED
    BY <1>5, <2>1, SkipStep, SameMetaAdvances DEF IInv
<1>6. CASE ConfirmIdentical(g)
  BY <1>6, ConfirmStep
<1>7. CASE Stage(g)
  BY <1>7, StageStep
<1>8. CASE RefuseStaging(g)
  BY <1>8, EndStep, SameMetaAdvances DEF IInv
<1>9. QED
  BY <1>1, <1>2, <1>3, <1>4, <1>5, <1>6, <1>7, <1>8 DEF Handle

\* Every step keeps the invariant, and takes nothing back.
LEMMA Step_IInv ==
  ASSUME IInv, [Next]_vars
  PROVE  IInv' /\ Advances
<1>1. CASE Start
  BY <1>1, StartsStep, SameMetaAdvances DEF IInv
<1>2. CASE Build
  <2>1. UNCHANGED meta
    BY <1>2 DEF Build, durable
  <2>2. QED
    BY <1>2, <2>1, BuildStep, SameMetaAdvances DEF IInv
<1>3. CASE \E g \in Graph : Handle(g)
  BY <1>3, HandleStep
<1>4. CASE \E g \in Graph : LoseGraph(g)
  BY <1>4, LoseStep, SameMetaAdvances DEF IInv
<1>5. CASE Succeed \/ Crash
  BY <1>5, EndStep, SameMetaAdvances DEF IInv
<1>6. CASE UNCHANGED vars
  <2>1. UNCHANGED <<meta, versions, members, latest, store, damaged, runs, faults, op>>
    BY <1>6 DEF vars, durable
  <2>2. StagedInv' /\ CandidateInv'
    BY <2>1 DEF IInv, StagedInv, CandidateInv, Current, Together
  <2>3. TypeOK'
    BY <2>1 DEF IInv, TypeOK
  <2>4. QED
    BY <2>1, <2>2, <2>3, SameMetadata, SameStore, SameMetaAdvances DEF IInv
<1>7. QED
  BY <1>1, <1>2, <1>3, <1>4, <1>5, <1>6 DEF Next

LEMMA Init_IInv ==
  ASSUME Init
  PROVE  IInv
<1>1. TypeOK
  BY Constants, RunBound DEF Init, TypeOK, Run, NoRun
<1>2. StagedInv /\ CandidateInv
  BY DEF Init, Idle, StagedInv, CandidateInv, Together
<1>3. PendingInv /\ StoreIsAccountedFor
  BY DEF Init, PendingInv, StoreIsAccountedFor, Unpublished
<1>4. DescriptionsHaveSources
  BY DEF Init, DescriptionsHaveSources, Unpublished, Empty, Described, Graph
<1>5. QED
  BY <1>1, <1>2, <1>3, <1>4 DEF IInv

LEMMA Invariant == Spec => []IInv
<1>1. Init => IInv
  BY Init_IInv
<1>2. IInv /\ [Next]_vars => IInv'
  BY Step_IInv
<1>3. QED
  BY <1>1, <1>2, PTL DEF Spec

----------------------------------------------------------------------------
\* The columns, the triple store and the run keep their types.
THEOREM TypeCorrect == Spec => []TypeOK
<1>1. IInv => TypeOK
  BY DEF IInv
<1>2. QED
  BY <1>1, Invariant, PTL

\* A graph in the triple store is its clean payload, or stands between two.
THEOREM StoreAccountedFor == Spec => []StoreIsAccountedFor
<1>1. IInv => StoreIsAccountedFor
  BY DEF IInv
<1>2. QED
  BY <1>1, Invariant, PTL

\* Every published description leads back to source records.
THEOREM Sourced == Spec => []DescriptionsHaveSources
<1>1. IInv => DescriptionsHaveSources
  BY DEF IInv
<1>2. QED
  BY <1>1, Invariant, PTL

\* No graph is remade from an older Members run.
THEOREM NeverOlder == Spec => SourceNeverOlder
<1>1. IInv /\ [Next]_vars => [\A g \in Graph : meta[g].source <= meta'[g].source]_vars
  BY Step_IInv DEF Advances
<1>2. QED
  BY <1>1, Invariant, PTL DEF Spec, SourceNeverOlder

\* What a complete scan established stands.
THEOREM StandingKept == Spec => AuthorityStands
<1>1. IInv /\ [Next]_vars =>
        [\A g \in Shared : meta[g].authoritative =>
           /\ meta'[g].authoritative
           /\ op.kind = "fixture" /\ op.at = "verify" =>
                meta'[g].published = meta[g].published]_vars
  BY Step_IInv DEF Advances, Graph
<1>2. QED
  BY <1>1, Invariant, PTL DEF Spec, AuthorityStands

----------------------------------------------------------------------------
\* A step on a graph stages or publishes one candidate of the ledger, or none.
LEMMA LedgerStep ==
  ASSUME IInv, [Next]_vars
  PROVE  [Ledger!Next]_<<[g \in Graph |-> meta[g].published],
                         [g \in Graph |-> IF meta[g].state = "dirty"
                                          THEN {meta[g].pending} ELSE {}]>>
<1> DEFINE published == [g \in Graph |-> meta[g].published]
           pending == [g \in Graph |-> IF meta[g].state = "dirty"
                                       THEN {meta[g].pending} ELSE {}]
<1> SUFFICES Ledger!Next \/ UNCHANGED <<published, pending>>
  OBVIOUS
<1>1. ASSUME NEW g \in Graph, Stage(g)
      PROVE  Ledger!Next
  <2>1. /\ meta[g].state # "dirty" /\ g \in op.todo /\ op.at = "decide"
        /\ \A h \in Graph : h # g => meta'[h] = meta[h]
        /\ meta'[g].state = "dirty" /\ meta'[g].pending = op.candidate[g]
        /\ meta'[g].published = meta[g].published
    BY <1>1, StageStep
  <2>2. op.candidate[g] \in Payload
    BY DEF IInv, TypeOK, Operation
  <2>3. g \in Shared => Described(meta[g].published) \subseteq Described(op.candidate[g])
    BY <2>1 DEF IInv, CandidateInv
  <2>4. published' = published
    BY <2>1
  <2>5. PICK p \in Payload : p = op.candidate[g]
    BY <2>2
  <2>6. pending' = [pending EXCEPT ![g] = {p}]
    BY <2>1, <2>5
  <2>7. Ledger!Stage(g, p)
    BY <2>1, <2>3, <2>4, <2>5, <2>6 DEF Ledger!Stage, Ledger!Described, Described
  <2>8. QED
    BY <1>1, <2>7 DEF Ledger!Next, Ledger!Payload, Payload
<1>2. ASSUME NEW g \in Graph, NEW authority \in {"yes", "no", "unchanged"}, NEW next,
             VerifyAndComplete(g, authority, next), meta[g].state = "dirty"
      PROVE  Ledger!Next \/ UNCHANGED meta
  <2>1. CASE store[g] # meta[g].pending
    BY <1>2, <2>1 DEF VerifyAndComplete
  <2>2. CASE store[g] = meta[g].pending
    <3>1. meta' = [meta EXCEPT ![g] = Completed(meta[g], authority)]
      BY <1>2, <2>2 DEF VerifyAndComplete
    <3>2. meta[g] \in Meta /\ meta[g].pending \in Payload /\ meta \in [Graph -> Meta]
      BY DEF IInv, TypeOK, Meta
    <3>3. /\ meta'[g].state = "clean" /\ meta'[g].published = meta[g].pending
          /\ \A h \in Graph : h # g => meta'[h] = meta[h]
      BY <1>2, <3>1, <3>2, CompletedMeta
    <3>4. PICK p \in Payload : p = meta[g].pending
      BY <3>2
    <3>5. published' = [published EXCEPT ![g] = p] /\ pending' = [pending EXCEPT ![g] = {}]
      BY <3>3, <3>4
    <3>6. p \in pending[g]
      BY <1>2, <3>4
    <3>7. Ledger!Publish(g, p)
      BY <3>5, <3>6 DEF Ledger!Publish
    <3>8. QED
      BY <1>2, <3>7 DEF Ledger!Next, Ledger!Payload, Payload
  <2>3. QED
    BY <2>1, <2>2
<1>3. ASSUME NEW g \in Graph, Handle(g)
      PROVE  Ledger!Next \/ UNCHANGED meta \/ ConfirmIdentical(g)
  <2>1. CASE ReplayComplete(g)
    <3>1. meta[g].state = "dirty"
      BY <2>1 DEF ReplayComplete, Current, IInv, StagedInv
    <3>2. QED
      BY <1>2, <2>1, <3>1 DEF ReplayComplete
  <2>2. CASE NewComplete(g)
    <3>1. meta[g].state = "dirty" /\ op.authority \in {"yes", "no", "unchanged"}
      BY <2>2 DEF NewComplete, IInv, StagedInv, TypeOK, Operation
    <3>2. QED
      BY <1>2, <2>2, <3>1 DEF NewComplete
  <2>3. CASE Stage(g)
    BY <1>1, <2>3
  <2>4. CASE ReplayPut(g) \/ NewPut(g) \/ Skip(g) \/ RefuseStaging(g)
    BY <2>4 DEF ReplayPut, NewPut, Put, Skip, RefuseStaging, durable
  <2>5. QED
    BY <1>3, <2>1, <2>2, <2>3, <2>4 DEF Handle
<1>4. ASSUME UNCHANGED meta
      PROVE  UNCHANGED <<published, pending>>
  BY <1>4
<1>5. ASSUME NEW g \in Graph, ConfirmIdentical(g)
      PROVE  UNCHANGED <<published, pending>>
  <2>1. \A h \in Graph : /\ meta'[h].published = meta[h].published
                         /\ meta'[h].pending = meta[h].pending
                         /\ meta'[h].state = meta[h].state
    BY <1>5, ConfirmStep
  <2>2. QED
    BY <2>1
<1>6. CASE \E g \in Graph : Handle(g)
  BY <1>3, <1>4, <1>5, <1>6
<1>7. CASE Start \/ Build \/ (\E g \in Graph : LoseGraph(g)) \/ Succeed \/ Crash
           \/ UNCHANGED vars
  <2>1. UNCHANGED meta
    BY <1>7, StartsStep, EndStep DEF Build, LoseGraph, durable, vars
  <2>2. QED
    BY <2>1, <1>4
<1>8. QED
  BY <1>6, <1>7 DEF Next

\* The graphs implement the ledger of OwnerLedger.
THEOREM GraphsImplementLedger == Spec => ImplementsOwnerLedger
<1>1. Init => Ledger!Init
  BY DEF Init, Ledger!Init, Unpublished, Empty
<1>2. QED
  BY <1>1, LedgerStep, Invariant, PTL DEF Spec, ImplementsOwnerLedger, Ledger!Spec
=============================================================================
