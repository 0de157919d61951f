----------------------------- MODULE CrmTrials ------------------------------
(***************************************************************************)
(* The trials of the CRM: operators who convert, cancel or expire them by  *)
(* hand, the scheduler that expires those past their end under a claim,    *)
(* and the processors that notify an expired trial under a claim with a    *)
(* lease and a heartbeat.  Each statement of the database is one step.     *)
(*                                                                         *)
(* Time is two flags: a trial is due when its end_date has passed, and a   *)
(* notification claim is stale when its claimed_at lies a lease back.  A   *)
(* claim draws a fresh uid; as a process has one claim of a trial at a     *)
(* time, the process stands for the uid.                                   *)
(***************************************************************************)
EXTENDS Naturals, FiniteSets

CONSTANTS
  Trials,
  Operators,       \* requests of operators being served
  Schedulers,      \* processes that run CrmTrialScheduler
  Notifiers,       \* processes that run CrmTrialNotificationProcessor
  MaxTrialMishaps  \* bound: failing statements, deaths, overrun leases

ASSUME TrialsAssumption == IsFiniteSet(Trials) /\ MaxTrialMishaps \in Nat

VARIABLES
  trials,      \* crm_trials
  history,     \* the interactions appended about each trial, counted
  deliveries,  \* how often the delivery port confirmed, per trial
  operator, scheduler, notifier,  \* what each process is doing
  trialMishaps,  \* mishaps so far
  abandoned      \* trials an expiry claim was left on by a process that died
                 \* or could not release it

trialVars == <<trials, history, deliveries, operator, scheduler, notifier,
               trialMishaps, abandoned>>

Endings == {"converted", "cancelled", "expired"}
Entries == Endings \cup {"notified"}
Free == "free"

\* A uid is drawn, and never the null of a row that nobody claimed.
ASSUME FreeAssumption == Free \notin Schedulers \cup Notifiers

NewTrial ==
  [status |-> "absent", due |-> FALSE, task |-> Free, notified |-> FALSE,
   owner |-> Free, stale |-> FALSE]

\* A process at rest; lost is claimLost, which only a notifier uses.
Resting == [at |-> "idle", trial |-> "none", list |-> {}, lost |-> FALSE]

NoRequest == [at |-> "idle", trial |-> "none", ending |-> "none"]

TrialsInit ==
  /\ trials = [t \in Trials |-> NewTrial]
  /\ history = [t \in Trials |-> [e \in Entries |-> 0]]
  /\ deliveries = [t \in Trials |-> 0]
  /\ operator = [o \in Operators |-> NoRequest]
  /\ scheduler = [s \in Schedulers |-> Resting]
  /\ notifier = [p \in Notifiers |-> Resting]
  /\ trialMishaps = 0
  /\ abandoned = {}

TrialMishap ==
  trialMishaps < MaxTrialMishaps /\ trialMishaps' = trialMishaps + 1

Logged(t, e) == history' = [history EXCEPT ![t][e] = @ + 1]

-----------------------------------------------------------------------------
(* Operators *)

Create(t) ==
  /\ trials[t].status = "absent"
  /\ trials' = [trials EXCEPT ![t].status = "active"]
  /\ UNCHANGED <<history, deliveries, operator, scheduler, notifier,
                 trialMishaps, abandoned>>

EndPasses(t) ==
  /\ trials[t].status # "absent" /\ ~trials[t].due
  /\ trials' = [trials EXCEPT ![t].due = TRUE]
  /\ UNCHANGED <<history, deliveries, operator, scheduler, notifier,
                 trialMishaps, abandoned>>

\* A request to convert, cancel or expire finds the trial active ...
ResolveActive(o, t, ending) ==
  /\ operator[o].at = "idle" /\ trials[t].status = "active"
  /\ operator' =
       [operator EXCEPT ![o] = [at |-> "mark", trial |-> t, ending |-> ending]]
  /\ UNCHANGED <<trials, history, deliveries, scheduler, notifier,
                 trialMishaps, abandoned>>

\* A slip: the row is updated whatever its status has become.
MarkAnyway(o) ==
  /\ operator[o].at = "mark"
  /\ trials' = [trials EXCEPT ![operator[o].trial].status = operator[o].ending]
  /\ operator' = [operator EXCEPT ![o].at = "note"]
  /\ UNCHANGED <<history, deliveries, scheduler, notifier, trialMishaps,
                 abandoned>>

\* ... and ends it by a compare-and-set, which throws if another was first.
MarkEnded(o) ==
  LET t == operator[o].trial IN
  /\ operator[o].at = "mark"
  /\ IF trials[t].status = "active"
     THEN /\ trials' = [trials EXCEPT ![t].status = operator[o].ending]
          /\ operator' = [operator EXCEPT ![o].at = "note"]
     ELSE operator' = [operator EXCEPT ![o] = NoRequest] /\ UNCHANGED trials
  /\ UNCHANGED <<history, deliveries, scheduler, notifier, trialMishaps,
                 abandoned>>

NoteEnded(o) ==
  /\ operator[o].at = "note"
  /\ Logged(operator[o].trial, operator[o].ending)
  /\ operator' = [operator EXCEPT ![o] = NoRequest]
  /\ UNCHANGED <<trials, deliveries, scheduler, notifier, trialMishaps,
                 abandoned>>

-----------------------------------------------------------------------------
(* The expiry scheduler *)

Expirable ==
  {t \in Trials : trials[t].status = "active" /\ trials[t].due
                  /\ trials[t].task = Free}

\* What a process does after it is done with a trial of its list.
Onward(state) ==
  IF state.list = {} THEN Resting
  ELSE [Resting EXCEPT !.at = "claim", !.list = state.list]

ListDue(s) ==
  /\ scheduler[s].at = "idle" /\ Expirable # {}
  /\ scheduler' =
       [scheduler EXCEPT ![s] = [@ EXCEPT !.at = "claim", !.list = Expirable]]
  /\ UNCHANGED <<trials, history, deliveries, operator, notifier,
                 trialMishaps, abandoned>>

ClaimExpiry(s) ==
  /\ scheduler[s].at = "claim"
  /\ \E t \in scheduler[s].list :
       LET rest == [scheduler[s] EXCEPT !.list = @ \ {t}] IN
       IF t \in Expirable
       THEN /\ trials' = [trials EXCEPT ![t].task = s]
            /\ scheduler' = [scheduler EXCEPT ![s] =
                 [rest EXCEPT !.at = "mark", !.trial = t]]
       ELSE /\ scheduler' = [scheduler EXCEPT ![s] = Onward(rest)]
            /\ UNCHANGED trials
  /\ UNCHANGED <<history, deliveries, operator, notifier, trialMishaps,
                 abandoned>>

Claimed(s) ==
  LET t == scheduler[s].trial IN
  trials[t].status = "active" /\ trials[t].task = s

MarkExpired(s) ==
  /\ scheduler[s].at = "mark"
  /\ IF Claimed(s)
     THEN /\ trials' = [trials EXCEPT ![scheduler[s].trial].status = "expired"]
          /\ scheduler' = [scheduler EXCEPT ![s].at = "note"]
     ELSE /\ scheduler' = [scheduler EXCEPT ![s].at = "release"]
          /\ UNCHANGED trials
  /\ UNCHANGED <<history, deliveries, operator, notifier, trialMishaps,
                 abandoned>>

NoteExpired(s) ==
  /\ scheduler[s].at = "note"
  /\ Logged(scheduler[s].trial, "expired")
  /\ scheduler' = [scheduler EXCEPT ![s] = Onward(@)]
  /\ UNCHANGED <<trials, deliveries, operator, notifier, trialMishaps,
                 abandoned>>

\* A slip: a failed expiry keeps its claim.
KeepExpiry(s) ==
  /\ scheduler[s].at = "release"
  /\ scheduler' = [scheduler EXCEPT ![s] = Onward(@)]
  /\ UNCHANGED <<trials, history, deliveries, operator, notifier,
                 trialMishaps, abandoned>>

ReleaseExpiry(s) ==
  /\ scheduler[s].at = "release"
  /\ trials' = IF Claimed(s)
               THEN [trials EXCEPT ![scheduler[s].trial].task = Free]
               ELSE trials
  /\ scheduler' = [scheduler EXCEPT ![s] = Onward(@)]
  /\ UNCHANGED <<history, deliveries, operator, notifier, trialMishaps,
                 abandoned>>

\* The claim a scheduler leaves behind has no lease: nobody takes it over.
Abandons(s) ==
  /\ scheduler' = [scheduler EXCEPT ![s] = Resting]
  /\ abandoned' = abandoned \cup
       {t \in Trials : trials[t].status = "active" /\ trials[t].task = s}

\* The expiry's statement fails, or the interaction's: caught, and released.
\* The release fails: the run ends.
SchedulerFault(s) ==
  /\ TrialMishap
  /\ \/ /\ scheduler[s].at \in {"mark", "note"}
        /\ scheduler' = [scheduler EXCEPT ![s].at = "release"]
        /\ UNCHANGED abandoned
     \/ scheduler[s].at = "release" /\ Abandons(s)
  /\ UNCHANGED <<trials, history, deliveries, operator, notifier>>

SchedulerDies(s) ==
  /\ scheduler[s].at # "idle" /\ TrialMishap /\ Abandons(s)
  /\ UNCHANGED <<trials, history, deliveries, operator, notifier>>

-----------------------------------------------------------------------------
(* The notification processor *)

notifierFrame == <<operator, scheduler, abandoned>>

\* A slip: claims are for ever, as they were before they had leases.
Unclaimed ==
  {t \in Trials : trials[t].status = "expired" /\ ~trials[t].notified
                  /\ trials[t].owner = Free}

\* listExpiredUnnotified and claimExpiredUnnotified have one condition.
Notifiable ==
  {t \in Trials : trials[t].status = "expired" /\ ~trials[t].notified
                  /\ (trials[t].owner = Free \/ trials[t].stale)}

ListExpired(p) ==
  /\ notifier[p].at = "idle" /\ Notifiable # {}
  /\ notifier' =
       [notifier EXCEPT ![p] = [@ EXCEPT !.at = "claim", !.list = Notifiable]]
  /\ UNCHANGED <<trials, history, deliveries, trialMishaps, notifierFrame>>

ClaimedBy(p, t) ==
  trials' = [trials EXCEPT ![t].owner = p, ![t].stale = FALSE]

\* A slip: the claim is an update by id, and the condition is left to the list.
ClaimListed(p) ==
  /\ notifier[p].at = "claim"
  /\ \E t \in notifier[p].list :
       /\ ClaimedBy(p, t)
       /\ notifier' = [notifier EXCEPT ![p] =
            [at |-> "send", trial |-> t, list |-> @.list \ {t}, lost |-> FALSE]]
  /\ UNCHANGED <<history, deliveries, trialMishaps, notifierFrame>>

ClaimNotification(p) ==
  /\ notifier[p].at = "claim"
  /\ \E t \in notifier[p].list :
       IF t \in Notifiable
       THEN /\ ClaimedBy(p, t)
            /\ notifier' = [notifier EXCEPT ![p] =
                 [at |-> "send", trial |-> t, list |-> @.list \ {t},
                  lost |-> FALSE]]
       ELSE /\ notifier' = [notifier EXCEPT ![p] =
                 Onward([@ EXCEPT !.list = notifier[p].list \ {t}])]
            /\ UNCHANGED trials
  /\ UNCHANGED <<history, deliveries, trialMishaps, notifierFrame>>

Owns(p) ==
  LET row == trials[notifier[p].trial] IN
  row.status = "expired" /\ ~row.notified /\ row.owner = p

\* The heartbeat while the delivery is under way.
Renew(p) ==
  /\ notifier[p].at = "send" /\ ~notifier[p].lost
  /\ IF Owns(p)
     THEN /\ trials' = [trials EXCEPT ![notifier[p].trial].stale = FALSE]
          /\ UNCHANGED notifier
     ELSE /\ notifier' = [notifier EXCEPT ![p].lost = TRUE]
          /\ UNCHANGED trials
  /\ UNCHANGED <<history, deliveries, trialMishaps, notifierFrame>>

Delivered(p) ==
  /\ notifier[p].at = "send"
  /\ deliveries' = [deliveries EXCEPT ![notifier[p].trial] = @ + 1]
  /\ notifier' =
       [notifier EXCEPT ![p].at =
          IF notifier[p].lost THEN "release" ELSE "mark"]
  /\ UNCHANGED <<trials, history, trialMishaps, notifierFrame>>

\* The port answers that it did not deliver, or throws.
NotDelivered(p) ==
  /\ notifier[p].at = "send"
  /\ notifier' = [notifier EXCEPT ![p].at = "release"]
  /\ UNCHANGED <<trials, history, deliveries, trialMishaps, notifierFrame>>

MarkNotified(p) ==
  /\ notifier[p].at = "mark"
  /\ IF Owns(p)
     THEN /\ trials' = [trials EXCEPT ![notifier[p].trial].notified = TRUE,
                                     ![notifier[p].trial].owner = Free,
                                     ![notifier[p].trial].stale = FALSE]
          /\ notifier' = [notifier EXCEPT ![p].at = "note"]
     ELSE /\ notifier' = [notifier EXCEPT ![p].at = "release"]
          /\ UNCHANGED trials
  /\ UNCHANGED <<history, deliveries, trialMishaps, notifierFrame>>

NoteNotified(p) ==
  /\ notifier[p].at = "note"
  /\ Logged(notifier[p].trial, "notified")
  /\ notifier' = [notifier EXCEPT ![p] = Onward(@)]
  /\ UNCHANGED <<trials, deliveries, trialMishaps, notifierFrame>>

ReleaseNotification(p) ==
  /\ notifier[p].at = "release"
  /\ trials' = IF Owns(p)
               THEN [trials EXCEPT ![notifier[p].trial].owner = Free,
                                   ![notifier[p].trial].stale = FALSE]
               ELSE trials
  /\ notifier' = [notifier EXCEPT ![p] = Onward(@)]
  /\ UNCHANGED <<history, deliveries, trialMishaps, notifierFrame>>

\* Marking or noting fails: caught, and released.  A renewal fails: the claim
\* counts as lost.  The release fails, or the process dies: the run ends.
NotifierFault(p) ==
  /\ TrialMishap
  /\ \/ /\ notifier[p].at \in {"mark", "note"}
        /\ notifier' = [notifier EXCEPT ![p].at = "release"]
     \/ /\ notifier[p].at = "send" /\ ~notifier[p].lost
        /\ notifier' = [notifier EXCEPT ![p].lost = TRUE]
     \/ /\ notifier[p].at # "idle"
        /\ notifier' = [notifier EXCEPT ![p] = Resting]
  /\ UNCHANGED <<trials, history, deliveries, notifierFrame>>

WorksOn(p, t) == notifier[p].at # "idle" /\ notifier[p].trial = t

\* The lease of a claim runs out: its owner is gone or gave up its heartbeat ...
GoesStale(t) ==
  LET p == trials[t].owner IN
  /\ p # Free /\ ~trials[t].stale
  /\ ~WorksOn(p, t) \/ notifier[p].lost
  /\ trials' = [trials EXCEPT ![t].stale = TRUE]
  /\ UNCHANGED <<history, deliveries, notifier, trialMishaps, notifierFrame>>

\* ... or is so slow that its renewals come too late.
Overruns(t) ==
  LET p == trials[t].owner IN
  /\ p # Free /\ ~trials[t].stale
  /\ WorksOn(p, t) /\ ~notifier[p].lost /\ TrialMishap
  /\ trials' = [trials EXCEPT ![t].stale = TRUE]
  /\ UNCHANGED <<history, deliveries, notifier, notifierFrame>>

-----------------------------------------------------------------------------

SchedulerStep(s) ==
  \/ ListDue(s) \/ ClaimExpiry(s) \/ MarkExpired(s) \/ NoteExpired(s)
  \/ ReleaseExpiry(s)

\* A notifier's own steps; the answer of the delivery port is not its choice.
NotifierStep(p) ==
  \/ ListExpired(p) \/ ClaimNotification(p) \/ MarkNotified(p)
  \/ NoteNotified(p) \/ ReleaseNotification(p)

TrialsNext ==
  \/ \E t \in Trials :
       Create(t) \/ EndPasses(t) \/ GoesStale(t) \/ Overruns(t)
  \/ \E o \in Operators :
       \/ \E t \in Trials, e \in Endings : ResolveActive(o, t, e)
       \/ MarkEnded(o) \/ NoteEnded(o)
  \/ \E s \in Schedulers :
       SchedulerStep(s) \/ SchedulerFault(s) \/ SchedulerDies(s)
  \/ \E p \in Notifiers :
       \/ NotifierStep(p) \/ Renew(p) \/ Delivered(p) \/ NotDelivered(p)
       \/ NotifierFault(p)

\* The hosts' timers keep starting runs and a run goes on, leases of claims
\* nobody renews run out, the delivery port answers, and of the deliveries it
\* is asked for again and again some succeed.
TrialsFairness ==
  /\ \A t \in Trials : WF_trialVars(EndPasses(t)) /\ WF_trialVars(GoesStale(t))
  /\ \A s \in Schedulers : WF_trialVars(SchedulerStep(s))
  /\ \A p \in Notifiers :
       /\ WF_trialVars(NotifierStep(p))
       /\ WF_trialVars(Delivered(p) \/ NotDelivered(p))
       /\ SF_trialVars(Delivered(p))

TrialsSpec == TrialsInit /\ [][TrialsNext]_trialVars
FairTrialsSpec == TrialsSpec /\ TrialsFairness

-----------------------------------------------------------------------------
(* Properties *)

\* Rows and processes keep their types.
TrialsTypeOK ==
  /\ trials \in
       [Trials -> [status : Endings \cup {"absent", "active"}, due : BOOLEAN,
                   task : Schedulers \cup {Free}, notified : BOOLEAN,
                   owner : Notifiers \cup {Free}, stale : BOOLEAN]]
  /\ history \in [Trials -> [Entries -> Nat]]
  /\ deliveries \in [Trials -> Nat]
  /\ operator \in [Operators -> [at : {"idle", "mark", "note"},
                                trial : Trials \cup {"none"},
                                ending : Endings \cup {"none"}]]
  /\ scheduler \in
       [Schedulers -> [at : {"idle", "claim", "mark", "note", "release"},
                       trial : Trials \cup {"none"}, list : SUBSET Trials,
                       lost : {FALSE}]]
  /\ notifier \in
       [Notifiers -> [at : {"idle", "claim", "send", "mark", "note",
                            "release"},
                      trial : Trials \cup {"none"}, list : SUBSET Trials,
                      lost : BOOLEAN]]
  /\ trialMishaps \in Nat /\ abandoned \subseteq Trials

\* The operators' requests and the scheduler race to end a trial: one of them
\* ends it, and the lead's timeline tells that ending, once, and no other.
TimelineAgrees ==
  \A t \in Trials, e \in Entries :
    /\ history[t][e] <= 1
    /\ history[t][e] = 1 =>
         IF e = "notified" THEN trials[t].notified ELSE trials[t].status = e

\* Processors that race for one trial deliver once: each further delivery was
\* paid for by a failed statement, a death or a lease that ran out under its
\* owner.  And a notified trial was delivered.
RedeliveryNeedsMishap ==
  \A t \in Trials :
    /\ deliveries[t] <= 1 + trialMishaps
    /\ trials[t].notified => deliveries[t] >= 1

\* A trial past its end does not stay active, but for the claims that a dead
\* scheduler left, which have no lease.
DueTrialsEnd ==
  \A t \in Trials :
    trials[t].status = "active" ~> trials[t].status # "active"
                                   \/ t \in abandoned

\* The notification claims do have one: an expired trial is notified whatever
\* happens to the processors that claim it.
ExpiredTrialsNotified ==
  \A t \in Trials : trials[t].status = "expired" ~> trials[t].notified
=============================================================================
