---------------------------- MODULE SharedGraphs ----------------------------
(***************************************************************************)
(* Publication of the graphs that several endpoints share.  The owner      *)
(* graphs (parties, constituencies, committees) are written by runs of the *)
(* members, parties, constituencies and committees endpoints; each run     *)
(* replays what a dead one left dirty, carries forward the owners its      *)
(* sources do not mention, and records where every description comes from. *)
(* The Houses graph is replaced whole, and so are the two graphs of the    *)
(* office registry.  state_lock admits one run at a time; the process may  *)
(* die, and a PUT or its acknowledgement may be lost, at any step.         *)
(*                                                                         *)
(* A payload is what it says of each owner; equal payloads have equal      *)
(* hashes.  Runs are numbered in the order of their started_at.            *)
(***************************************************************************)
EXTENDS Integers

CONSTANTS
  Shared,        \* the owner graphs
  Rank,          \* their place in the order they are handled in
  Committees,    \* the owner graph that has no source endpoint of its own
  Houses,        \* the Houses graph
  Units, Offices,\* the graphs of the office registry
  Owner,         \* identities a graph may describe
  Content,       \* descriptions an owner may have
  Observation,   \* what a scan may return: some of the payloads
  MaxRuns,       \* bound on runs
  MaxFaults,     \* bound on crashes, lost requests and damaged graphs
  Absent         \* no description of an owner

Graph == Shared \cup {Houses, Units, Offices}
Payload == [Owner -> Content \cup {Absent}]
Empty == [o \in Owner |-> Absent]
Described(p) == {o \in Owner : p[o] # Absent}

ASSUME GraphsAreDistinct == /\ Committees \in Shared
                            /\ {Houses, Units, Offices} \cap Shared = {}
                            /\ Houses \notin {Units, Offices} /\ Units # Offices
ASSUME OrderIsTotal == /\ Rank \in [Shared -> Nat]
                       /\ \A g, h \in Shared : Rank[g] = Rank[h] => g = h
ASSUME AbsentIsFresh == Absent \notin Content
ASSUME ObservationsArePayloads == Observation \subseteq Payload
ASSUME RunBound == MaxRuns \in Nat

VARIABLES
  meta,      \* publication_metadata_json of each graph
  store,     \* the graphs in the triple store
  damaged,   \* graphs the triple store lost since their last PUT
  versions,  \* entity_version with entity_version_source
  members,   \* last successful complete Members run and its capture
  latest,    \* last successful complete capture of the other endpoints
  runs,      \* runs started so far
  faults,    \* faults so far
  op         \* the run in progress

durable == <<meta, versions, members, latest>>
vars == <<durable, store, damaged, runs, faults, op>>

NoRun == 0
Run == 0..MaxRuns
Capture == [Shared -> Payload]
NoCapture == [g \in Shared |-> Empty]

Meta == [state : {"none", "clean", "dirty"},
         published : Payload, authoritative : BOOLEAN, source : Run,
         pending : Payload, pendingAuthoritative : BOOLEAN, pendingSource : Run,
         retained : SUBSET Owner]   \* pending lineage: the owners carried forward

Unpublished ==
  [state |-> "none", published |-> Empty, authoritative |-> FALSE, source |-> NoRun,
   pending |-> Empty, pendingAuthoritative |-> FALSE, pendingSource |-> NoRun,
   retained |-> {}]

\* The version of an owner's description in one payload of a graph: made from
\* source records, or carried forward from the version in payload prior.
\* depth is not stored; it counts the versions before a source record.
Version == [graph : Graph, payload : Payload, owner : Owner,
            sourced : BOOLEAN, prior : Payload, depth : Nat]

Kind == {"none", "members", "reference", "fixture", "committees", "houses", "registry"}
Step == {"idle", "replay", "replayed", "decide", "put", "verify"}

\* authority is coverage_authoritative: "unchanged" leaves a graph's as it is.
Operation == [at : Step, kind : Kind, run : Run, source : Run,
              authority : {"yes", "no", "unchanged"},
              graphs : SUBSET Graph, todo : SUBSET Graph, replayed : SUBSET Graph,
              captured : Capture, seen : [Graph -> Payload],
              candidate : [Graph -> Payload], retained : [Graph -> SUBSET Owner]]

Idle == [at |-> "idle", kind |-> "none", run |-> NoRun, source |-> NoRun,
         authority |-> "unchanged", graphs |-> {}, todo |-> {}, replayed |-> {},
         captured |-> NoCapture, seen |-> [g \in Graph |-> Empty],
         candidate |-> [g \in Graph |-> Empty], retained |-> [g \in Graph |-> {}]]

Init ==
  /\ meta = [g \in Graph |-> Unpublished]
  /\ store = [g \in Graph |-> Empty]
  /\ damaged = {}
  /\ versions = {}
  /\ members = [run |-> NoRun, capture |-> NoCapture]
  /\ latest = NoCapture
  /\ runs = 0
  /\ faults = 0
  /\ op = Idle

Fault == faults < MaxFaults /\ faults' = faults + 1

\* The graph the run works on: the first of those it still has to handle.
Current(g) ==
  /\ g \in op.todo
  /\ \A h \in op.todo : {g, h} \subseteq Shared => Rank[g] <= Rank[h]

----------------------------------------------------------------------------
\* Starting a run

\* build_reference_census joins the observations of an owner; contradictory
\* ones block every owner graph before anything is replayed or written.
Agree(p, q) == \A o \in Described(p) \cap Described(q) : p[o] = q[o]
Join(p, q) == [o \in Owner |-> IF p[o] # Absent THEN p[o] ELSE q[o]]

Dirty(graphs) == {g \in graphs : meta[g].state = "dirty"}

Begin(kind, source, authority, graphs, replays, captured, seen) ==
  /\ op.at = "idle"
  /\ runs < MaxRuns
  /\ runs' = runs + 1
  /\ op' = [Idle EXCEPT !.at = "replay", !.kind = kind, !.run = runs + 1,
                        !.source = source, !.authority = authority,
                        !.graphs = graphs, !.todo = Dirty(replays),
                        !.replayed = Dirty(replays),
                        !.captured = captured, !.seen = seen]
  /\ UNCHANGED <<durable, store, damaged, faults>>

\* A run that publishes an owner graph replays all that are dirty.
BeginOwners(kind, source, authority, graphs, captured, p, q) ==
  /\ \A g \in Shared : Agree(p[g], q[g])
  /\ Begin(kind, source, authority, graphs, Shared, captured,
           [g \in Graph |-> IF g \in Shared THEN Join(p[g], q[g]) ELSE Empty])

\* A complete Members scan publishes the owner graphs while it is running.
StartMembers(capture) ==
  BeginOwners("members", runs + 1, "yes", Shared, capture, capture, latest)

\* A Parties or Constituencies scan publishes them all if there is a complete
\* Members capture to go with it, and only its own otherwise.
StartReference(endpoint, observed) ==
  LET captured == [latest EXCEPT ![endpoint] = observed]
      complete == members.run # NoRun
  IN  /\ endpoint # Committees
      /\ BeginOwners("reference", members.run, IF complete THEN "yes" ELSE "unchanged",
                     IF complete THEN Shared ELSE {endpoint},
                     captured, members.capture, captured)

StartFixture(endpoint, observed) ==
  /\ endpoint # Committees
  /\ BeginOwners("fixture", members.run, "no", {endpoint}, latest,
                 members.capture, [latest EXCEPT ![endpoint] = observed])

StartCommittees ==
  /\ members.run # NoRun
  /\ BeginOwners("committees", members.run, "yes", Shared, latest,
                 members.capture, latest)

StartHouses(observed) ==
  Begin("houses", NoRun, "unchanged", {Houses}, {Houses}, latest,
        [Idle.seen EXCEPT ![Houses] = observed])

\* Both registry graphs are made from one file; offices need its units published.
StartRegistry(g, file) ==
  /\ g \in {Units, Offices}
  /\ g = Offices => meta[Units].state = "clean" /\ meta[Units].published = file
  /\ Begin("registry", NoRun, "unchanged", {g}, {}, latest,
           [Idle.seen EXCEPT ![g] = file])

----------------------------------------------------------------------------
\* PUT, verification and completion, of replayed and of new candidates

Fail == op' = Idle

\* loader.replace: applied, or not; an error may hide that it was applied.
Put(g, next) ==
  /\ \/ /\ store' = [store EXCEPT ![g] = meta[g].pending]
        /\ damaged' = damaged \ {g}
        /\ \/ op' = [op EXCEPT !.at = next] /\ UNCHANGED faults
           \/ Fail /\ Fault
     \/ Fail /\ Fault /\ UNCHANGED <<store, damaged>>
  /\ UNCHANGED <<durable, runs>>

Known(g, p, o) == \E v \in versions : v.graph = g /\ v.payload = p /\ v.owner = o

NewVersions(g, owners) ==
  LET m == meta[g]
      Prior(o) == {v \in versions : v.graph = g /\ v.payload = m.published /\ v.owner = o}
  IN  {[graph |-> g, payload |-> m.pending, owner |-> o, sourced |-> TRUE,
        prior |-> m.pending, depth |-> 0] : o \in owners \ m.retained}
      \cup UNION {{[graph |-> g, payload |-> m.pending, owner |-> o, sourced |-> FALSE,
                    prior |-> m.published, depth |-> v.depth + 1] : v \in Prior(o)} :
                  o \in owners \cap m.retained}

\* Mutant: what is recorded of a version is replaced by the latest lineage.
VersionsReplaced(g) ==
  {v \in versions : v.graph # g \/ v.payload # meta[g].pending}
  \cup NewVersions(g, Described(meta[g].pending))

\* The first record of an owner in a payload stands; the registry has none.
VersionsStored(g) ==
  versions \cup NewVersions(g, {o \in Described(meta[g].pending) :
                                  /\ g \in Shared \cup {Houses}
                                  /\ ~Known(g, meta[g].pending, o)})

\* Mutant: a run that says nothing of its authority has none.
CompletedBy(m, authority) ==
  [Unpublished EXCEPT !.state = "clean", !.published = m.pending,
                      !.source = m.pendingSource, !.authoritative = (authority = "yes")]

Completed(m, authority) ==
  [Unpublished EXCEPT
     !.state = "clean", !.published = m.pending, !.source = m.pendingSource,
     !.authoritative = IF authority = "unchanged" THEN m.pendingAuthoritative
                       ELSE authority = "yes"]

\* verify_core_graph, then complete_endpoint_publication in one transaction.
VerifyAndComplete(g, authority, next) ==
  /\ IF store[g] = meta[g].pending
     THEN /\ meta' = [meta EXCEPT ![g] = Completed(meta[g], authority)]
          /\ versions' = VersionsStored(g)
          /\ op' = [op EXCEPT !.at = next, !.todo = op.todo \ {g}]
     ELSE Fail /\ UNCHANGED <<meta, versions>>
  /\ UNCHANGED <<members, latest, store, damaged, runs, faults>>

ReplayPut(g) == op.at = "replay" /\ Current(g) /\ Put(g, "replayed")

ReplayComplete(g) ==
  op.at = "replayed" /\ Current(g) /\ VerifyAndComplete(g, "unchanged", "replay")

NewPut(g) == op.at = "put" /\ Current(g) /\ Put(g, "verify")

NewComplete(g) ==
  op.at = "verify" /\ Current(g) /\ VerifyAndComplete(g, op.authority, "decide")

----------------------------------------------------------------------------
\* Building and staging the candidates

\* Mutant: only runs that publish their own capture are compared.
OlderMembers(g) == op.kind = "members" /\ op.source < meta[g].source

\* _assert_reference_source_not_older; every owner graph is clean by now.
Older(g) == op.source # NoRun /\ op.source < meta[g].source

\* Mutant: an owner the sources do not mention is dropped.
CurrentOnly(g) == op.seen[g]

\* _retained_graph: current owners are replaced whole, absent ones kept.
NewPayload(g) == IF g \in Shared THEN Join(op.seen[g], meta[g].published) ELSE op.seen[g]

Retained(g) ==
  IF g \in Shared THEN Described(meta[g].published) \ Described(op.seen[g]) ELSE {}

Build ==
  /\ op.at = "replay" /\ op.todo = {}
  /\ IF \E g \in op.graphs : Older(g)
     THEN Fail
     ELSE op' = [op EXCEPT !.at = "decide", !.todo = op.graphs,
                           !.candidate = [g \in Graph |-> NewPayload(g)],
                           !.retained = [g \in Graph |-> Retained(g)]]
  /\ UNCHANGED <<durable, store, damaged, runs, faults>>

Deciding(g) == op.at = "decide" /\ Current(g)

\* A fixture does not replace what a complete scan established.
Protected(g) == op.authority = "no" /\ meta[g].authoritative

\* The candidate is the clean owner graph, its authority already recorded.
Identical(g) == /\ g \in Shared
                /\ meta[g].state = "clean"
                /\ meta[g].published = op.candidate[g]
                /\ op.authority = "yes" => meta[g].authoritative

\* A Houses run has just replayed the payload it wants to publish.
JustReplayed(g) == /\ g = Houses
                   /\ g \in op.replayed
                   /\ meta[g].published = op.candidate[g]

Skip(g) ==
  /\ Deciding(g)
  /\ Protected(g) \/ JustReplayed(g)
  /\ op' = [op EXCEPT !.todo = op.todo \ {g}]
  /\ UNCHANGED <<durable, store, damaged, runs, faults>>

\* The store has the graph: only the Members run behind it is brought up to date.
ConfirmIdentical(g) ==
  /\ Deciding(g) /\ ~Protected(g)
  /\ Identical(g) /\ store[g] = op.candidate[g]
  /\ meta' = IF op.source = NoRun THEN meta ELSE [meta EXCEPT ![g].source = op.source]
  /\ op' = [op EXCEPT !.todo = op.todo \ {g}]
  /\ UNCHANGED <<versions, members, latest, store, damaged, runs, faults>>

NeedsPublication(g) ==
  /\ Deciding(g)
  /\ ~Protected(g) /\ ~JustReplayed(g)
  /\ ~(Identical(g) /\ store[g] = op.candidate[g])

\* mark_endpoint_dirty refuses a graph that is dirty, and lineage that carries
\* an owner forward from the very payload that is staged.
Accepted(g) == /\ meta[g].state # "dirty"
               /\ op.retained[g] # {} => meta[g].published # op.candidate[g]

Stage(g) ==
  /\ NeedsPublication(g) /\ Accepted(g)
  /\ meta' = [meta EXCEPT ![g] =
       [@ EXCEPT !.state = "dirty", !.pending = op.candidate[g],
                 !.pendingAuthoritative = IF op.authority = "unchanged"
                                          THEN meta[g].authoritative
                                          ELSE op.authority = "yes",
                 !.pendingSource = IF op.source = NoRun THEN meta[g].source ELSE op.source,
                 !.retained = op.retained[g]]]
  /\ op' = [op EXCEPT !.at = "put"]
  /\ UNCHANGED <<versions, members, latest, store, damaged, runs, faults>>

RefuseStaging(g) ==
  /\ NeedsPublication(g) /\ ~Accepted(g)
  /\ Fail
  /\ UNCHANGED <<durable, store, damaged, runs, faults>>

----------------------------------------------------------------------------
\* The end of a run, and what happens to it

\* Only a successful run's capture is used by later runs.
Succeed ==
  /\ op.at = "decide" /\ op.todo = {}
  /\ members' = IF op.kind = "members" THEN [run |-> op.run, capture |-> op.captured]
                ELSE members
  /\ latest' = IF op.kind = "reference" THEN op.captured ELSE latest
  /\ op' = Idle
  /\ UNCHANGED <<meta, versions, store, damaged, runs, faults>>

\* The process dies, or the run fails for a reason of its own.
Crash ==
  /\ op.at # "idle"
  /\ Fault
  /\ op' = Idle
  /\ UNCHANGED <<durable, store, damaged, runs>>

LoseGraph(g) ==
  /\ store[g] # Empty
  /\ Fault
  /\ store' = [store EXCEPT ![g] = Empty]
  /\ damaged' = damaged \cup {g}
  /\ UNCHANGED <<durable, runs, op>>

Start ==
  \/ \E capture \in [Shared -> Observation] : StartMembers(capture)
  \/ \E e \in Shared, p \in Observation : StartReference(e, p) \/ StartFixture(e, p)
  \/ StartCommittees
  \/ \E p \in Observation : StartHouses(p)
  \/ \E g \in {Units, Offices}, p \in Observation : StartRegistry(g, p)

Handle(g) ==
  \/ ReplayPut(g) \/ ReplayComplete(g)
  \/ Skip(g) \/ ConfirmIdentical(g) \/ Stage(g) \/ RefuseStaging(g)
  \/ NewPut(g) \/ NewComplete(g)

Next ==
  \/ Start
  \/ Build
  \/ \E g \in Graph : Handle(g) \/ LoseGraph(g)
  \/ Succeed
  \/ Crash

Spec == Init /\ [][Next]_vars

----------------------------------------------------------------------------
\* Properties

\* The columns, the triple store and the run keep their types.
TypeOK ==
  /\ meta \in [Graph -> Meta]
  /\ store \in [Graph -> Payload]
  /\ damaged \subseteq Graph
  /\ versions \subseteq Version
  /\ members \in [run : Run, capture : Capture]
  /\ latest \in Capture
  /\ runs \in Run
  /\ faults \in Nat
  /\ op \in Operation

\* Whatever died in between, a graph in the triple store is the clean payload,
\* or one of the two a dirty graph stands between.
StoreIsAccountedFor ==
  \A g \in Graph \ damaged :
    \/ store[g] = meta[g].published
    \/ meta[g].state = "dirty" /\ store[g] = meta[g].pending

\* Every description in a published graph leads, through versions that carried
\* it forward, to source records; no chain of payloads comes back to itself.
DescriptionsHaveSources ==
  /\ \A g \in Shared \cup {Houses} : \A o \in Described(meta[g].published) :
       Known(g, meta[g].published, o)
  /\ \A v \in versions : v.sourced \/ \E u \in versions :
       /\ u.graph = v.graph /\ u.owner = v.owner /\ u.payload = v.prior
       /\ u.depth < v.depth

\* Through crashes, replays by other endpoints and runs without a Members
\* capture, a graph made from one Members run is not remade from an older one.
SourceNeverOlder == [][\A g \in Graph : meta[g].source <= meta'[g].source]_vars

\* A graph a complete scan established never loses that standing, and no
\* fixture replaces it.
AuthorityStands ==
  [][\A g \in Shared : meta[g].authoritative =>
       /\ meta'[g].authoritative
       /\ op.kind = "fixture" /\ op.at = "verify" => meta'[g].published = meta[g].published]_vars

\* The graphs implement OwnerLedger: what is staged is published before anything
\* else is staged, and an owner, once described, stays described.
Ledger == INSTANCE OwnerLedger WITH
  published <- [g \in Graph |-> meta[g].published],
  pending <- [g \in Graph |-> IF meta[g].state = "dirty" THEN {meta[g].pending} ELSE {}]

ImplementsOwnerLedger == Ledger!Spec

=============================================================================
