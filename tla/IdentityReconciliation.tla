----------------------- MODULE IdentityReconciliation -----------------------
(***************************************************************************)
(* `reconcile members | parties | institutions | office-external`: one     *)
(* engine finds the external identity of every local entity, records it in *)
(* reconciliation.sqlite and publishes it as the entity's external-links   *)
(* graph.  Core ETL hands observed entities over by marking them due.      *)
(* Lookups and targets may be unavailable, a PUT may fail with or without  *)
(* taking effect, and the process may die between any two steps; the       *)
(* operation lock admits one command at a time.                            *)
(*                                                                         *)
(* A command is of one kind and reads the rows, the review file and the    *)
(* graphs of that kind alone; a behaviour is that of one kind.  The review *)
(* file and the source are read when a command starts, so what changes in  *)
(* them while it runs is a change after it.                                *)
(***************************************************************************)
EXTENDS IdentityEvidence, Integers

CONSTANTS
  Entity,       \* the local entities of the kind
  MaxIdentity,  \* bound on the identities an entity shows at the source
  MaxEdits,     \* bound on edits of the review file
  MaxRuns,      \* bound on reconciliation commands
  MaxFaults     \* bound on crashes and failed requests

ASSUME BoundsAreNatural ==
  MaxIdentity \in Nat \ {0} /\ {MaxEdits, MaxRuns, MaxFaults} \subseteq Nat

VARIABLES
  kind,      \* which of the four commands this is about
  source,    \* what identifies each entity at the source (its fingerprint)
  review,    \* the review file
  rows,      \* reconciliation_record
  attempts,  \* review snapshots in reconciliation_attempt
  proofs,    \* payload hashes of successful rows of publication_attempt
  graph,     \* external-links graph of each entity in the triple store
  run,       \* the command that is running
  edits, runs, faults

tables == <<rows, attempts, proofs>>
counters == <<edits, runs, faults>>
vars == <<kind, source, review, tables, graph, run, counters>>

Identity == 1..MaxIdentity

Review == [Entity -> Decision]
Unresolved == {"pending", "ambiguous"}

\* sha256 over the JSON form of a payload.
JsonHash(links) == [of |-> links, form |-> "json"]
Hash == [of : Links, form : {"json"}]

\* due: next_recheck_at has passed.  remembered: previous_review_decision of the
\* evidence.  pending: the payload, its saved hash and its graph IRI; the row is
\* dirty as long as it has them.
Row == [identity : Identity \cup {Nothing}, review : Review \cup {Nothing},
        state : {"accepted", "rejected"} \cup Unresolved, links : Links,
        remembered : Decision,
        due : BOOLEAN, dirty : BOOLEAN, pending : Links, published : Hash \cup {Nothing}]

\* NULL is none of the values a column may have.
ASSUME NothingIsNoValue ==
  Nothing \notin Identity \cup Review \cup Hash \cup Row

Step == {"idle", "replay", "lookup", "put", "verify", "mark", "done"}
Run == [at : Step, input : SUBSET Entity, publish : BOOLEAN, all : BOOLEAN,
        todo : SUBSET Entity, recovered : SUBSET Entity,
        entity : Entity \cup {Nothing}, next : Step]
Idle == [at |-> "idle", input |-> {}, publish |-> FALSE, all |-> FALSE,
         todo |-> {}, recovered |-> {}, entity |-> Nothing, next |-> "idle"]

Init ==
  /\ source = [e \in Entity |-> 1]
  /\ kind \in Kinds
  /\ review \in [Entity -> DecisionsOn(kind)]
  /\ rows = [e \in Entity |-> Nothing]
  /\ attempts = [e \in Entity |-> {}]
  /\ proofs = [e \in Entity |-> {}]
  /\ graph = [e \in Entity |-> Nothing]
  /\ run = Idle
  /\ edits = 0 /\ runs = 0 /\ faults = 0

----------------------------------------------------------------------------
\* Between commands

\* A Member is identified by its code, an institution by its IRI: they do not
\* change.  A party or an office is identified by its labels and dates too.
SourceChanges(e) ==
  /\ run.at = "idle"
  /\ kind \in {"party", "office"}
  /\ source[e] < MaxIdentity
  /\ source' = [source EXCEPT ![e] = @ + 1]
  /\ UNCHANGED <<kind, review, tables, graph, run, counters>>

EditReview(e, d) ==
  /\ run.at = "idle"
  /\ edits < MaxEdits /\ edits' = edits + 1
  /\ d \in DecisionsOn(kind) /\ d # review[e]
  /\ review' = [review EXCEPT ![e] = d]
  /\ UNCHANGED <<kind, source, tables, graph, run, runs, faults>>

\* Seven or ninety days go by.
RecheckReached(e) ==
  /\ run.at = "idle"
  /\ rows[e] # Nothing /\ ~rows[e].due
  /\ rows' = [rows EXCEPT ![e] = [@ EXCEPT !.due = TRUE]]
  /\ UNCHANGED <<kind, source, review, attempts, proofs, graph, run, counters>>

\* Core ETL has published an entity: mark_due.
NewRow == [identity |-> Nothing, review |-> Nothing, state |-> "pending",
           links |-> Nothing, remembered |-> Nothing, due |-> TRUE, dirty |-> FALSE,
           pending |-> Nothing, published |-> Nothing]

HandOver(e, force) ==
  /\ run.at = "idle"
  /\ \/ rows[e] = Nothing /\ rows' = [rows EXCEPT ![e] = NewRow]
     \/ /\ rows[e] # Nothing
        /\ force \/ rows[e].identity # source[e]
        /\ rows' = [rows EXCEPT ![e] = [@ EXCEPT !.due = TRUE]]
  /\ UNCHANGED <<kind, source, review, attempts, proofs, graph, run, counters>>

----------------------------------------------------------------------------
\* A command: dirty rows first, then the lookups

\* A decision on an entity outside the input refuses the whole command, except
\* that of offices, which leaves it aside.
Admits(input) == kind = "office" \/ \A e \in Entity : review[e] # Nothing => e \in input

StartRun(input, publish, all) ==
  /\ run.at = "idle"
  /\ runs < MaxRuns /\ runs' = runs + 1
  /\ Admits(input)
  /\ LET dirty == {e \in input : rows[e] # Nothing /\ rows[e].dirty}
     IN  run' = [at |-> IF publish THEN "replay" ELSE "lookup",
                 input |-> input, publish |-> publish, all |-> all,
                 todo |-> IF publish THEN dirty ELSE input,
                 recovered |-> dirty, entity |-> Nothing, next |-> "idle"]
  /\ UNCHANGED <<kind, source, review, tables, graph, edits, faults>>

\* The saved payload must be the graph of the saved outcome.
Replayable(row) == row.pending = row.links

BeginReplay(e) ==
  /\ run.at = "replay" /\ e \in run.todo
  /\ Replayable(rows[e])
  /\ run' = [run EXCEPT !.at = "put", !.entity = e, !.next = "replay"]
  /\ UNCHANGED <<kind, source, review, tables, graph, counters>>

BeginLookups ==
  /\ run.at = "replay" /\ run.todo = {}
  /\ run' = [run EXCEPT !.at = "lookup", !.todo = run.input]
  /\ UNCHANGED <<kind, source, review, tables, graph, counters>>

\* Mutant: a new edition of the review file makes no row due.
DueWithoutReview(e) ==
  LET row == rows[e]
  IN  row = Nothing \/ row.identity # source[e] \/ row.dirty \/ row.due

NaturallyDue(e) ==
  LET row == rows[e]
  IN  \/ row = Nothing
      \/ row.identity # source[e]
      \/ row.dirty \/ row.due \/ row.review # review

\* Mutant: an interrupted row is looked up again without being replayed.
SelectedUnreplayed(e) == run.all \/ NaturallyDue(e)

\* A recovered row waits for the next command, unless what it was decided on
\* has changed; without --publish the saved outcome is only reported again.
Selected(e) ==
  IF e \in run.recovered
  THEN run.publish /\ (run.all \/ rows[e].identity # source[e] \/ rows[e].review # review)
  ELSE run.all \/ NaturallyDue(e)

Work == {e \in run.todo : Selected(e)}

PassOver(e) ==
  /\ run.at = "lookup" /\ e \in run.todo \ Work
  /\ run' = [run EXCEPT !.todo = @ \ {e}]
  /\ UNCHANGED <<kind, source, review, tables, graph, counters>>

\* The decision the row of e was made under.
Decided(e) == IF rows[e] = Nothing \/ rows[e].review = Nothing THEN Nothing ELSE rows[e].review[e]

\* Mutant: a graph is published once, and again only when that is forced.
PublishesOnce(e, outcome) ==
  \/ outcome.state = "rejected"
  \/ outcome.state = "accepted" /\ (run.all \/ rows[e] = Nothing \/ rows[e].published = Nothing)

NeedsPublication(e, outcome) ==
  \/ outcome.state = "rejected"
  \/ /\ outcome.state = "accepted"
     /\ \/ run.all \/ rows[e] = Nothing
        \/ rows[e].dirty \/ rows[e].published # JsonHash(outcome.links)

Saved(e, outcome, dirty) ==
  [identity |-> source[e], review |-> review,
   state |-> outcome.state, links |-> outcome.links,
   remembered |-> Remembered(kind, rows[e], Decided(e)),
   due |-> FALSE, dirty |-> dirty, pending |-> IF dirty THEN outcome.links ELSE Nothing,
   published |-> IF rows[e] = Nothing THEN Nothing ELSE rows[e].published]

\* The outcome is saved and, if it needs to be, published next.
Settle(e, outcome) ==
  LET dirty == NeedsPublication(e, outcome)
  IN  /\ rows' = [rows EXCEPT ![e] = Saved(e, outcome, dirty)]
      /\ run' = IF run.publish /\ dirty
                THEN [run EXCEPT !.at = "put", !.entity = e, !.next = "lookup"]
                ELSE [run EXCEPT !.todo = @ \ {e}]

Reconcile(e, verified) ==
  /\ run.at = "lookup" /\ e \in Work
  /\ \E outcome \in Outcomes(kind, review[e], rows[e], Decided(e), verified) : Settle(e, outcome)
  /\ attempts' = [attempts EXCEPT ![e] = @ \cup {review[e]}]
  /\ UNCHANGED <<kind, source, review, proofs, graph, counters>>

FinishLookups ==
  /\ run.at = "lookup" /\ run.todo = {}
  /\ run' = [run EXCEPT !.at = "done"]
  /\ UNCHANGED <<kind, source, review, tables, graph, counters>>

----------------------------------------------------------------------------
\* Publication of the row of run.entity: PUT, verify, two transactions

Put ==
  /\ run.at = "put"
  /\ graph' = [graph EXCEPT ![run.entity] = rows[run.entity].pending]
  /\ run' = [run EXCEPT !.at = "verify"]
  /\ UNCHANGED <<kind, source, review, tables, counters>>

Verify ==
  /\ run.at = "verify"
  /\ graph[run.entity] = rows[run.entity].pending
  /\ proofs' = [proofs EXCEPT ![run.entity] = @ \cup {JsonHash(rows[run.entity].pending)}]
  /\ run' = [run EXCEPT !.at = "mark"]
  /\ UNCHANGED <<kind, source, review, rows, attempts, graph, counters>>

MarkPublished ==
  /\ run.at = "mark"
  /\ LET row == rows[run.entity]
     IN  rows' = [rows EXCEPT ![run.entity] =
                    [row EXCEPT !.dirty = FALSE, !.pending = Nothing,
                                !.published = JsonHash(row.pending)]]
  /\ run' = [run EXCEPT !.at = run.next, !.todo = @ \ {run.entity}, !.entity = Nothing]
  /\ UNCHANGED <<kind, source, review, attempts, proofs, graph, counters>>

\* A request fails, before or after it took effect, or the process dies.
Abort ==
  /\ run.at \notin {"idle", "done"}
  /\ faults < MaxFaults /\ faults' = faults + 1
  /\ run' = Idle
  /\ UNCHANGED <<kind, source, review, tables, graph, edits, runs>>

Exit ==
  /\ run.at = "done"
  /\ run' = Idle
  /\ UNCHANGED <<kind, source, review, tables, graph, counters>>

Environment == \E e \in Entity :
  \/ SourceChanges(e) \/ RecheckReached(e)
  \/ (\E d \in Decision : EditReview(e, d))
  \/ (\E force \in BOOLEAN : HandOver(e, force))

Command ==
  \/ (\E input \in SUBSET Entity, publish, all \in BOOLEAN : StartRun(input, publish, all))
  \/ (\E e \in Entity : BeginReplay(e) \/ PassOver(e))
  \/ (\E e \in Entity, verified \in BOOLEAN : Reconcile(e, verified))
  \/ BeginLookups \/ FinishLookups
  \/ Put \/ Verify \/ MarkPublished \/ Abort \/ Exit

Next == Environment \/ Command

Spec == Init /\ [][Next]_vars

----------------------------------------------------------------------------
\* The types of the tables, the graphs and the running command.
TypeOK ==
  /\ kind \in Kinds
  /\ source \in [Entity -> Identity]
  /\ review \in [Entity -> DecisionsOn(kind)]
  /\ rows \in [Entity -> Row \cup {Nothing}]
  /\ attempts \in [Entity -> SUBSET Decision]
  /\ proofs \in [Entity -> SUBSET Hash]
  /\ graph \in [Entity -> Links]
  /\ run \in Run
  /\ edits \in 0..MaxEdits /\ runs \in 0..MaxRuns /\ faults \in 0..MaxFaults

Unpublished(e) == rows[e] = Nothing \/ rows[e].published = Nothing

\* Whatever fails, the store holds no links the record does not account for:
\* the published graph, or the one a dirty row still has to publish.
GraphIsAccountedFor ==
  \A e \in Entity :
    \/ Unpublished(e) /\ graph[e] = Nothing
    \/ ~Unpublished(e) /\ rows[e].published = JsonHash(graph[e])
    \/ rows[e] # Nothing /\ rows[e].dirty /\ graph[e] = rows[e].pending

\* A settled outcome is what is served: an acceptance or a rejection that is
\* not dirty agrees with the graph, however it was reached.
SettledIsServed ==
  \A e \in Entity :
    rows[e] # Nothing /\ ~rows[e].dirty /\ rows[e].state \notin Unresolved
      => graph[e] = rows[e].links

\* When a publishing command ends, the review file it read is in force: every
\* entity of its input was decided on under that edition and its current
\* identity, an accepted QID is the one served, and nothing is served for a
\* rejected entity, whatever earlier commands left half done.
FinishedRunApplied ==
  run.at = "done" /\ run.publish =>
    \A e \in run.input :
      /\ rows[e] # Nothing /\ ~rows[e].dirty
      /\ rows[e].identity = source[e] /\ rows[e].review = review
      /\ review[e] = Rejected => graph[e] = Nothing
      /\ review[e] \in Acceptance => graph[e] # Nothing /\ graph[e].qid = review[e].qid

\* Links change only as decided: an entity that a human must review gets the
\* QID its review accepted, no article but the one it asked for, and no person;
\* links are withdrawn only by a rejection, so an outage or an ambiguous lookup
\* withdraws nothing.
LinksFollowDecisions ==
  [][\A e \in Entity : graph'[e] # graph[e] =>
       LET decision == rows[e].review[e]
       IN  IF graph'[e] = Nothing THEN decision = Rejected
           ELSE /\ decision \in Acceptance => graph'[e].qid = decision.qid
                /\ kind # "member" =>
                     /\ decision \in Acceptance /\ graph'[e].dbpedia = Nothing
                     /\ graph'[e].wikipedia \in {decision.page, Nothing}]_vars

=============================================================================
