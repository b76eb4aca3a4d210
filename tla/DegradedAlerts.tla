--------------------------- MODULE DegradedAlerts ---------------------------
(***************************************************************************)
(* Notifications about streaks of degraded runs (alerts.py) and failed     *)
(* units (production-compose.sh).  alerts-check prepares a pending event   *)
(* from the run history, hands it to the site's hook and acknowledges it;  *)
(* events of failed units lie in files of their own, handed over by the    *)
(* process that queued them and, while they remain, by alerts-check too.   *)
(* One alerts-check runs at a time (alerts-check.lock); any process may    *)
(* die between two steps, and the hook may fail after having delivered.    *)
(***************************************************************************)
EXTENDS Integers, Sequences

CONSTANTS
  Source,      \* endpoints and reconciled entities, each with a history
  Threshold,   \* degraded outcomes in a row that make an episode
  FailedEvent, \* failures of units, each with an event_id of its own
  MaxRuns,     \* bound on the outcomes of a source
  MaxFaults    \* bound on crashes and failures of the hook or of a command

ASSUME ThresholdIsPositive == Threshold \in Nat \ {0}
ASSUME AlertBounds == MaxRuns \in Nat /\ MaxFaults \in Nat

VARIABLES
  history,    \* terminal outcomes of each source, in the order of their completion
  alerted,    \* state.json: first run of the last alerted streak, 0 for none
  pending,    \* pending.json: its episodes, {} without a file
  queued,     \* pending-failed-*.json
  reporter,   \* queue_failed_alert for each failed event
  delivered,  \* how often the hook delivered each episode or failed event
  pc, todo, event, \* alerts_check: its step, the files still to hand over, the one in hand
  faults

stateVars == <<alerted, pending>>
checkVars == <<pc, todo, event>>
vars == <<history, stateVars, queued, reporter, delivered, checkVars, faults>>

Outcome == {"degraded", "other"}
Run == 1..MaxRuns
Episode == Source \X Run
NoEvent == "none"

ASSUME NoEventIsFresh == NoEvent \notin FailedEvent

ASSUME EventsAreNotEpisodes == FailedEvent \cap Episode = {}

\* The history ends in a streak of degraded outcomes that began with run n.
StreakFrom(h, n) ==
  /\ n \in 1..Len(h)
  /\ \A i \in n..Len(h) : h[i] = "degraded"
  /\ n > 1 => h[n - 1] # "degraded"

\* ... and has reached the threshold.
EpisodeFrom(h, n) == StreakFrom(h, n) /\ Len(h) - n + 1 >= Threshold

Init ==
  /\ history = [s \in Source |-> <<>>]
  /\ alerted = [s \in Source |-> 0]
  /\ pending = {}
  /\ queued = {}
  /\ reporter = [e \in FailedEvent |-> "none"]
  /\ delivered = [x \in Episode \cup FailedEvent |-> 0]
  /\ pc = "idle" /\ todo = {} /\ event = NoEvent
  /\ faults = 0

Fault == faults < MaxFaults /\ faults' = faults + 1
Exit == pc' = "idle" /\ todo' = {} /\ event' = NoEvent
Deliver(X) == delivered' = [x \in DOMAIN delivered |-> IF x \in X THEN delivered[x] + 1
                                                       ELSE delivered[x]]

\* A run or a reconciliation attempt ends.
EndRun(s, o) ==
  /\ Len(history[s]) < MaxRuns
  /\ history' = [history EXCEPT ![s] = Append(@, o)]
  /\ UNCHANGED <<stateVars, queued, reporter, delivered, checkVars, faults>>

----------------------------------------------------------------------------
\* alerts_check

\* Streaks that reach the threshold, unless already alerted.
Candidates == {x \in Episode : EpisodeFrom(history[x[1]], x[2]) /\ alerted[x[1]] # x[2]}

\* Mutant: the files of failed units are not looked at.
CheckPendingOnly ==
  /\ pc = "idle"
  /\ pending' = IF pending # {} THEN pending ELSE Candidates
  /\ pc' = "queue" /\ todo' = {}
  /\ UNCHANGED <<history, alerted, queued, reporter, delivered, event, faults>>

\* ops alerts check: an event that is still pending is kept as it is.
Check ==
  /\ pc = "idle"
  /\ pending' = IF pending # {} THEN pending ELSE Candidates
  /\ pc' = "queue" /\ todo' = queued
  /\ UNCHANGED <<history, alerted, queued, reporter, delivered, event, faults>>

CheckFails ==
  /\ pc = "idle"
  /\ Fault
  /\ UNCHANGED <<history, stateVars, queued, reporter, delivered, checkVars>>

\* The next file, if its reporter has not removed it.
TakeEvent(e) ==
  /\ pc = "queue" /\ e \in todo
  /\ todo' = todo \ {e}
  /\ IF e \in queued THEN pc' = "dispatch" /\ event' = e ELSE UNCHANGED <<pc, event>>
  /\ UNCHANGED <<history, stateVars, queued, reporter, delivered, faults>>

DispatchEvent ==
  /\ pc = "dispatch" /\ event \in queued
  /\ Deliver({event})
  /\ pc' = "remove"
  /\ UNCHANGED <<history, stateVars, queued, reporter, todo, event, faults>>

\* Its reporter removed the file meanwhile: the hook has nothing to read.
DispatchRemoved ==
  /\ pc = "dispatch" /\ event \notin queued
  /\ Exit
  /\ UNCHANGED <<history, stateVars, queued, reporter, delivered, faults>>

RemoveEvent ==
  /\ pc = "remove"
  /\ queued' = queued \ {event}
  /\ pc' = "queue" /\ event' = NoEvent
  /\ UNCHANGED <<history, stateVars, reporter, delivered, todo, faults>>

DispatchPending ==
  /\ pc = "queue" /\ todo = {} /\ pending # {}
  /\ Deliver(pending)
  /\ pc' = "record"
  /\ UNCHANGED <<history, stateVars, queued, reporter, todo, event, faults>>

NothingPending ==
  /\ pc = "queue" /\ todo = {} /\ pending = {}
  /\ Exit
  /\ UNCHANGED <<history, stateVars, queued, reporter, delivered, faults>>

\* Mutant: the script goes on and removes the file.
HookFailsUnnoticed ==
  /\ \/ pc = "dispatch" /\ event \in queued
     \/ pc = "queue" /\ todo = {} /\ pending # {}
  /\ Fault
  /\ pc' = IF pc = "dispatch" THEN "remove" ELSE "record"
  /\ UNCHANGED <<history, stateVars, queued, reporter, delivered, todo, event>>

\* The hook fails, delivered or not; set -e ends the script.
HookFails ==
  /\ \/ pc = "dispatch" /\ event \in queued /\ (Deliver({event}) \/ UNCHANGED delivered)
     \/ pc = "queue" /\ todo = {} /\ pending # {} /\ (Deliver(pending) \/ UNCHANGED delivered)
  /\ Fault
  /\ Exit
  /\ UNCHANGED <<history, stateVars, queued, reporter>>

\* Mutant: the streaks of the moment are recorded, not those delivered.
RecordCurrentStreaks ==
  /\ pc = "record"
  /\ alerted' = [s \in Source |-> IF \E n \in Run : EpisodeFrom(history[s], n)
                                    THEN CHOOSE n \in Run : EpisodeFrom(history[s], n)
                                    ELSE alerted[s]]
  /\ pc' = "unlink"
  /\ UNCHANGED <<history, pending, queued, reporter, delivered, todo, event, faults>>

\* ops alerts delivered: the episodes are recorded, then the file is removed.
RecordDelivery ==
  /\ pc = "record"
  /\ alerted' = [s \in Source |-> IF \E n \in Run : <<s, n>> \in pending
                                    THEN CHOOSE n \in Run : <<s, n>> \in pending
                                    ELSE alerted[s]]
  /\ pc' = "unlink"
  /\ UNCHANGED <<history, pending, queued, reporter, delivered, todo, event, faults>>

RemovePending ==
  /\ pc = "unlink"
  /\ pending' = {}
  /\ Exit
  /\ UNCHANGED <<history, alerted, queued, reporter, delivered, faults>>

CheckerDies ==
  /\ pc # "idle"
  /\ Fault
  /\ Exit
  /\ UNCHANGED <<history, stateVars, queued, reporter, delivered>>

----------------------------------------------------------------------------
\* queue_failed_alert, beside alerts_check and without its lock

QueueEvent(e) ==
  /\ reporter[e] = "none"
  /\ queued' = queued \cup {e}
  /\ reporter' = [reporter EXCEPT ![e] = "dispatch"]
  /\ UNCHANGED <<history, stateVars, delivered, checkVars, faults>>

ReportEvent(e) ==
  /\ reporter[e] = "dispatch" /\ e \in queued
  /\ Deliver({e})
  /\ reporter' = [reporter EXCEPT ![e] = "remove"]
  /\ UNCHANGED <<history, stateVars, queued, checkVars, faults>>

RemoveReported(e) ==
  /\ reporter[e] = "remove"
  /\ queued' = queued \ {e}
  /\ reporter' = [reporter EXCEPT ![e] = "done"]
  /\ UNCHANGED <<history, stateVars, delivered, checkVars, faults>>

\* The file is left to alerts_check, or alerts_check has taken it already.
ReportFails(e) ==
  /\ reporter[e] = "dispatch"
  /\ IF e \in queued THEN /\ Fault
                          /\ Deliver({e}) \/ UNCHANGED delivered
                     ELSE UNCHANGED <<faults, delivered>>
  /\ reporter' = [reporter EXCEPT ![e] = "done"]
  /\ UNCHANGED <<history, stateVars, queued, checkVars>>

ReporterDies(e) ==
  /\ reporter[e] \in {"dispatch", "remove"}
  /\ Fault
  /\ reporter' = [reporter EXCEPT ![e] = "done"]
  /\ UNCHANGED <<history, stateVars, queued, delivered, checkVars>>

----------------------------------------------------------------------------
Checker ==
  \/ Check
  \/ \E e \in FailedEvent : TakeEvent(e)
  \/ DispatchEvent
  \/ DispatchRemoved
  \/ RemoveEvent
  \/ DispatchPending
  \/ NothingPending
  \/ RecordDelivery
  \/ RemovePending

Next ==
  \/ Checker
  \/ \E s \in Source, o \in Outcome : EndRun(s, o)
  \/ CheckFails
  \/ HookFails
  \/ CheckerDies
  \/ \E e \in FailedEvent : QueueEvent(e)
  \/ \E e \in FailedEvent : ReportEvent(e)
  \/ \E e \in FailedEvent : RemoveReported(e)
  \/ \E e \in FailedEvent : ReportFails(e)
  \/ \E e \in FailedEvent : ReporterDies(e)

Spec == Init /\ [][Next]_vars

\* The daily timer keeps starting alerts_check, which goes on when it can.
FairSpec == Spec /\ WF_vars(Checker)

----------------------------------------------------------------------------
\* Every variable stays in its domain.
TypeOK ==
  /\ history \in [Source -> Seq(Outcome)]
  /\ \A s \in Source : Len(history[s]) <= MaxRuns
  /\ alerted \in [Source -> Run \cup {0}]
  /\ pending \subseteq Episode
  /\ queued \subseteq FailedEvent
  /\ reporter \in [FailedEvent -> {"none", "dispatch", "remove", "done"}]
  /\ delivered \in [Episode \cup FailedEvent -> Nat]
  /\ pc \in {"idle", "queue", "dispatch", "remove", "record", "unlink"}
  /\ todo \subseteq FailedEvent
  /\ IF pc \in {"dispatch", "remove"} THEN event \in FailedEvent ELSE event = NoEvent
  /\ faults \in 0..MaxFaults

\* An episode recorded as alerted was delivered, whatever failed on the way:
\* no streak is silenced without anyone having been told.
AlertedWasDelivered ==
  \A s \in Source : alerted[s] # 0 => delivered[<<s, alerted[s]>>] > 0

\* A failed unit's event leaves its file only after a delivery, although two
\* processes hand it over and either may remove it.
FailureIsKeptUntilDelivered ==
  \A e \in FailedEvent : reporter[e] # "none" => e \in queued \/ delivered[e] > 0

\* An episode is delivered once, and once more for each crash or failure.
RepeatsNeedFaults ==
  \A x \in Episode : delivered[x] <= 1 + faults

\* A streak that reaches the threshold is delivered unless it ends first.
EpisodeIsDelivered ==
  \A s \in Source, n \in Run :
    EpisodeFrom(history[s], n) ~> delivered[<<s, n>>] > 0 \/ ~StreakFrom(history[s], n)

\* Every failed unit's event is delivered.
FailureIsDelivered ==
  \A e \in FailedEvent : reporter[e] # "none" ~> delivered[e] > 0
=============================================================================
