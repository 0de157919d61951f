------------------------- MODULE NotificationOutbox -------------------------
(***************************************************************************)
(* The notification outbox: rows that wait to be delivered, the processes  *)
(* that lease and dispatch them, and the table of dispatch claims that is  *)
(* to keep a notification from being sent twice.  Each statement of the    *)
(* database and each call of a provider is a step of its own.              *)
(*                                                                         *)
(* Two clocks are abstracted to a flag: a row is due when the time has     *)
(* passed its available_at (pending) or its lease_until (leased).  A claim *)
(* writes a fresh lease token and adds one to attempts, so the number of   *)
(* the attempt stands for the token.                                       *)
(***************************************************************************)
EXTENDS Naturals, FiniteSets

CONSTANTS
  Notes,         \* notifications, by idempotency key
  Runners,       \* processes that run the scheduler
  MaxAttempts,   \* options.maxAttempts
  BatchSize,     \* options.batchSize
  Providers,     \* how many providers support the channel
  MaxMishaps     \* bound: statements of the database that fail, deaths of
                 \* runners and leases that end under a runner still at work

ASSUME NotesAssumption == IsFiniteSet(Notes)
ASSUME AttemptsAssumption ==
  /\ MaxAttempts \in Nat \ {0} /\ BatchSize \in Nat \ {0}
  /\ Providers \in Nat /\ MaxMishaps \in Nat

VARIABLES
  outbox,     \* notification_outbox
  keys,       \* notification_dispatch_claims
  receipts,   \* how many receipts providers returned, per notification
  runner,     \* what each process is doing
  mishaps     \* faults, deaths and overruns of leases so far

outboxVars == <<outbox, keys, receipts, runner, mishaps>>

Terminal == {"delivered", "suppressed", "duplicate", "dead_letter"}
Results == {"none", "sent", "suppressed", "duplicate", "failed"}

NoLease == [note |-> "none", attempt |-> 0]
Idle ==
  [at |-> "idle", batch |-> {}, lease |-> NoLease, result |-> "none",
   left |-> 0]

OutboxInit ==
  /\ outbox =
       [n \in Notes |-> [status |-> "absent", attempts |-> 0, due |-> FALSE]]
  /\ keys = {}
  /\ receipts = [n \in Notes |-> 0]
  /\ runner = [r \in Runners |-> Idle]
  /\ mishaps = 0

-----------------------------------------------------------------------------
(* The rows and the clock *)

Mishap == mishaps < MaxMishaps /\ mishaps' = mishaps + 1

\* An event reaches the outbox.  A second one under the key inserts nothing.
Enqueue(n) ==
  /\ outbox[n].status = "absent"
  /\ outbox' = [outbox EXCEPT ![n].status = "pending"]
  /\ UNCHANGED <<keys, receipts, runner, mishaps>>

BecomesDue(n) ==
  /\ outbox[n].status = "pending" /\ ~outbox[n].due
  /\ outbox' = [outbox EXCEPT ![n].due = TRUE]
  /\ UNCHANGED <<keys, receipts, runner, mishaps>>

LeaseOf(n) == [note |-> n, attempt |-> outbox[n].attempts]

\* The runner has the lease in hand, or still before it in its batch.
Works(r, lease) == lease \in runner[r].batch \cup {runner[r].lease}

LeaseEnds(n) ==
  /\ outbox[n].status = "leased" /\ ~outbox[n].due
  /\ ~\E r \in Runners : Works(r, LeaseOf(n))
  /\ outbox' = [outbox EXCEPT ![n].due = TRUE]
  /\ UNCHANGED <<keys, receipts, runner, mishaps>>

LeaseOverruns(n) ==
  /\ outbox[n].status = "leased" /\ ~outbox[n].due
  /\ \E r \in Runners : Works(r, LeaseOf(n))
  /\ Mishap
  /\ outbox' = [outbox EXCEPT ![n].due = TRUE]
  /\ UNCHANGED <<keys, receipts, runner>>

\* A slip: a lease that ended is not taken up again.
PendingDue == {n \in Notes : outbox[n].status = "pending" /\ outbox[n].due}

Due ==
  {n \in Notes : outbox[n].status \in {"pending", "leased"} /\ outbox[n].due}

\* One UPDATE leases as many due rows as the batch holds; which of them come
\* first, and the order they are then worked in, is left open.
ClaimDue(r) ==
  /\ runner[r].at = "idle" /\ Due # {}
  /\ \E S \in SUBSET Due :
       /\ S = Due \/ Cardinality(S) = BatchSize
       /\ Cardinality(S) <= BatchSize
       /\ outbox' = [n \in Notes |->
            IF n \in S
            THEN [status |-> "leased", attempts |-> outbox[n].attempts + 1,
                  due |-> FALSE]
            ELSE outbox[n]]
       /\ runner' = [runner EXCEPT ![r] = [Idle EXCEPT
            !.at = "next",
            !.batch = {[note |-> n, attempt |-> outbox[n].attempts + 1] :
                         n \in S}]]
  /\ UNCHANGED <<keys, receipts, mishaps>>

-----------------------------------------------------------------------------
(* The dispatch of one lease *)

Note(r) == runner[r].lease.note

Goto(r, label, result) ==
  runner' = [runner EXCEPT ![r].at = label, ![r].result = result]

\* The runner turns to a lease of its batch and reads the preference, which is
\* its owner's to change at any time: the channel is allowed, or it is not.
ReadPreference(r) ==
  /\ runner[r].at = "next"
  /\ \E lease \in runner[r].batch, allowed \in BOOLEAN :
       runner' = [runner EXCEPT ![r] =
         [at |-> IF allowed THEN "claim" ELSE "complete",
          batch |-> @.batch \ {lease}, lease |-> lease,
          result |-> IF allowed THEN "none" ELSE "suppressed",
          left |-> Providers]]
  /\ UNCHANGED <<outbox, keys, receipts, mishaps>>

\* A slip: the claim is looked up and the answer not used.
ClaimAnyway(r) ==
  /\ runner[r].at = "claim"
  /\ keys' = keys \cup {Note(r)}
  /\ Goto(r, IF Providers = 0 THEN "release" ELSE "send", "none")
  /\ UNCHANGED <<outbox, receipts, mishaps>>

ClaimKey(r) ==
  /\ runner[r].at = "claim"
  /\ keys' = keys \cup {Note(r)}
  /\ IF Note(r) \in keys THEN Goto(r, "complete", "duplicate")
     ELSE Goto(r, IF Providers = 0 THEN "release" ELSE "send", "none")
  /\ UNCHANGED <<outbox, receipts, mishaps>>

\* A provider returns a receipt, or fails and the next one is tried.
SendReceipt(r) ==
  /\ runner[r].at = "send"
  /\ receipts' = [receipts EXCEPT ![Note(r)] = @ + 1]
  /\ Goto(r, "complete", "sent")
  /\ UNCHANGED <<outbox, keys, mishaps>>

SendFails(r) ==
  /\ runner[r].at = "send"
  /\ runner' = [runner EXCEPT ![r].left = @ - 1,
                ![r].at = IF runner[r].left = 1 THEN "release" ELSE "send"]
  /\ UNCHANGED <<outbox, keys, receipts, mishaps>>

\* A slip: the failed dispatch keeps its claim.
KeepKey(r) ==
  /\ runner[r].at = "release"
  /\ Goto(r, "retry", "failed")
  /\ UNCHANGED <<outbox, keys, receipts, mishaps>>

ReleaseKey(r) ==
  /\ runner[r].at = "release"
  /\ keys' = keys \ {Note(r)}
  /\ Goto(r, "retry", "failed")
  /\ UNCHANGED <<outbox, receipts, mishaps>>

-----------------------------------------------------------------------------
(* Recording what came of it *)

\* A slip: the update is keyed by the row alone.
Leased(r) == outbox[Note(r)].status = "leased"

Holds(r) ==
  /\ outbox[Note(r)].status = "leased"
  /\ outbox[Note(r)].attempts = runner[r].lease.attempt

\* The batch is done, or goes on with its next lease.
Proceed(r) ==
  runner' = [runner EXCEPT ![r] =
    IF @.batch = {} THEN Idle
    ELSE [Idle EXCEPT !.at = "next", !.batch = runner[r].batch]]

Recorded(n, status) ==
  outbox' = [outbox EXCEPT ![n].status = status, ![n].due = FALSE]

\* A slip: the result is recorded as it is called.
ResultAsIs(result) == result

TerminalStatus(result) == IF result = "sent" THEN "delivered" ELSE result

\* A lost lease throws inside the try: the runner turns to the retry.
Complete(r) ==
  /\ runner[r].at = "complete"
  /\ IF Holds(r)
     THEN Recorded(Note(r), TerminalStatus(runner[r].result)) /\ Proceed(r)
     ELSE Goto(r, "retry", "none") /\ UNCHANGED outbox
  /\ UNCHANGED <<keys, receipts, mishaps>>

\* The failure is recorded by deadLetter or by retry; here a lost lease ends
\* the whole run, and the rest of the batch waits for its leases to end.
RetryOrDeadLetter(r) ==
  /\ runner[r].at = "retry"
  /\ IF Holds(r)
     THEN /\ Recorded(Note(r), IF runner[r].lease.attempt >= MaxAttempts
                               THEN "dead_letter" ELSE "pending")
          /\ Proceed(r)
     ELSE runner' = [runner EXCEPT ![r] = Idle] /\ UNCHANGED outbox
  /\ UNCHANGED <<keys, receipts, mishaps>>

-----------------------------------------------------------------------------
(* Failures *)

\* A statement throws, the claim's or the release's perhaps after it was
\* executed.  Outside the try that ends the run.
Fault(r) ==
  /\ runner[r].at \in {"claim", "release", "complete", "retry"}
  /\ Mishap
  /\ \/ UNCHANGED keys
     \/ runner[r].at = "claim" /\ keys' = keys \cup {Note(r)}
     \/ runner[r].at = "release" /\ keys' = keys \ {Note(r)}
  /\ IF runner[r].at = "retry" THEN runner' = [runner EXCEPT ![r] = Idle]
     ELSE Goto(r, "retry", "none")
  /\ UNCHANGED <<outbox, receipts>>

Die(r) ==
  /\ runner[r].at # "idle"
  /\ Mishap
  /\ runner' = [runner EXCEPT ![r] = Idle]
  /\ UNCHANGED <<outbox, keys, receipts>>

RunnerStep(r) ==
  \/ ReadPreference(r) \/ ClaimKey(r) \/ SendReceipt(r) \/ SendFails(r)
  \/ ReleaseKey(r) \/ Complete(r) \/ RetryOrDeadLetter(r)

OutboxNext ==
  \/ \E n \in Notes : Enqueue(n) \/ BecomesDue(n)
                      \/ LeaseEnds(n) \/ LeaseOverruns(n)
  \/ \E r \in Runners : ClaimDue(r) \/ RunnerStep(r) \/ Fault(r) \/ Die(r)

\* The host's timer keeps starting runs, a run goes on, and time passes.
OutboxFairness ==
  /\ \A n \in Notes :
       WF_outboxVars(BecomesDue(n)) /\ WF_outboxVars(LeaseEnds(n))
  /\ \A r \in Runners :
       WF_outboxVars(ClaimDue(r)) /\ WF_outboxVars(RunnerStep(r))

OutboxSpec == OutboxInit /\ [][OutboxNext]_outboxVars
FairOutboxSpec == OutboxSpec /\ OutboxFairness

-----------------------------------------------------------------------------
(* Properties *)

\* Every statement of the outbox leaves rows of the table's types.
OutboxTypeOK ==
  /\ outbox \in
       [Notes -> [status : Terminal \cup {"absent", "pending", "leased"},
                  attempts : Nat, due : BOOLEAN]]
  /\ keys \subseteq Notes
  /\ receipts \in [Notes -> Nat]
  /\ \A r \in Runners :
       /\ runner[r].at \in {"idle", "next", "claim", "send", "release",
                            "complete", "retry"}
       /\ runner[r].batch \subseteq [note : Notes, attempt : Nat]
       /\ runner[r].lease \in [note : Notes, attempt : Nat] \cup {NoLease}
       /\ runner[r].result \in Results
       /\ runner[r].left \in 0 .. Providers
  /\ mishaps \in Nat

\* The dispatch claims hold across leases that end early, retries and deaths:
\* no notification gets two receipts, and one called delivered got its own.
SentAtMostOnce ==
  \A n \in Notes :
    /\ receipts[n] <= 1
    /\ outbox[n].status = "delivered" => receipts[n] = 1

\* Without faults, deaths and overruns the outcome of a row is exact: no row
\* ends as a duplicate, and a receipt and a delivered row go together.
UndisturbedIsExact ==
  mishaps = 0 =>
    \A n \in Notes :
      /\ outbox[n].status # "duplicate"
      /\ outbox[n].status \in Terminal =>
           (receipts[n] = 1 <=> outbox[n].status = "delivered")

\* A row that ended never changes, and a leased one is given back or ended
\* only by the runner that holds its present lease, however many others still
\* believe they do.
OnlyHolderRecords ==
  [][\A n \in Notes :
       /\ outbox[n].status \in Terminal => outbox'[n] = outbox[n]
       /\ outbox[n].status = "leased" /\ outbox'[n].status # "leased" =>
            \E r \in Runners : runner[r].lease = LeaseOf(n)]_outboxVars

\* Whatever fails, every row that was enqueued reaches an end.
OutboxDrains ==
  \A n \in Notes :
    outbox[n].status = "pending" ~> outbox[n].status \in Terminal
=============================================================================
