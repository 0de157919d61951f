---------------------------- MODULE LeaseProofs ----------------------------
(***************************************************************************)
(* What is leased to one process is not done twice: the dispatch of a      *)
(* notification, and the end and the notice of a trial, for any rows, any  *)
(* processes and any mishaps.  Neither proof trusts a lease to last.       *)
(***************************************************************************)
EXTENDS NotificationOutbox, CrmTrials, FiniteSetTheorems, TLAPS

-----------------------------------------------------------------------------
-----------------------------------------------------------------------------
(* THE NOTIFICATION OUTBOX.

   That no notification gets two receipts rests on the dispatch claims: a
   runner that sends has put the key there itself, is alone in that, and takes
   it back only when nothing was sent.  That leases end early, and that several
   runners believe they hold the same row, does not enter.  The leases do enter
   where nothing has gone wrong: then each stands, so no key is found taken. *)

Leases == [note : Notes, attempt : Nat]
RunnerLabels ==
  {"idle", "next", "claim", "send", "release", "complete", "retry"}
RunnerRows ==
  [at : RunnerLabels, batch : SUBSET Leases, lease : Leases \cup {NoLease},
   result : Results, left : 0 .. Providers]
OutboxStatuses == Terminal \cup {"absent", "pending", "leased"}
OutboxRows == [status : OutboxStatuses, attempts : Nat, due : BOOLEAN]

TablesTyped ==
  /\ outbox \in [Notes -> OutboxRows]
  /\ keys \subseteq Notes
  /\ receipts \in [Notes -> Nat]
  /\ mishaps \in Nat

\* A receipt's dispatch claim stays, and a delivered row has its receipt.
SentIsKept ==
  \A n \in Notes :
    /\ receipts[n] \in {0, 1}
    /\ receipts[n] = 1 => n \in keys
    /\ outbox[n].status = "delivered" => receipts[n] = 1

\* The runner put the dispatch claim there, and has not been answered yet.
OwnsKey(r) == runner[r].at \in {"send", "release"}

OwnersDiffer ==
  \A r, s \in Runners : OwnsKey(r) /\ OwnsKey(s) /\ Note(r) = Note(s) => r = s

\* What a runner knows at its label.
RunnerKnows(r) ==
  /\ runner[r].at \notin {"idle", "next"} => runner[r].lease \in Leases
  /\ runner[r].at = "claim" => runner[r].left = Providers
  /\ runner[r].at = "send" => runner[r].left # 0
  /\ OwnsKey(r) => Note(r) \in keys /\ receipts[Note(r)] = 0
  /\ runner[r].at = "complete" =>
       runner[r].result \in {"sent", "suppressed", "duplicate"}
  /\ runner[r].at = "complete" /\ runner[r].result = "sent" =>
       receipts[Note(r)] = 1

\* The leases a runner is to work, or works.
AtWork(r) == runner[r].at \notin {"idle", "next"}
Has(r, lease) ==
  lease \in runner[r].batch \/ (AtWork(r) /\ lease = runner[r].lease)

\* The present lease of a row whose time has not run out.
Stands(lease) ==
  /\ outbox[lease.note].status = "leased" /\ ~outbox[lease.note].due
  /\ outbox[lease.note].attempts = lease.attempt

LeasesStand ==
  \A r \in Runners, lease \in Leases : Has(r, lease) => Stands(lease)
LeasesApart ==
  \A r \in Runners :
    /\ AtWork(r) => runner[r].lease \notin runner[r].batch
    /\ \A s \in Runners, lease \in Leases :
         Has(r, lease) /\ Has(s, lease) => r = s

\* A receipt that the row does not tell yet is its runner's to record, and a
\* dispatch claim is held for the length of the dispatch.
HasSent(r, n) ==
  runner[r].at = "complete" /\ runner[r].result = "sent" /\ Note(r) = n
ReceiptsTold ==
  \A n \in Notes : receipts[n] = 1 =>
    outbox[n].status = "delivered" \/ \E r \in Runners : HasSent(r, n)
Dispatches(r, n) == (OwnsKey(r) /\ Note(r) = n) \/ HasSent(r, n)
KeysInUse ==
  \A n \in keys :
    outbox[n].status = "delivered" \/ \E r \in Runners : Dispatches(r, n)

NoDuplicate ==
  /\ \A r \in Runners :
       runner[r].at = "complete" => runner[r].result \in {"sent", "suppressed"}
  /\ \A n \in Notes : outbox[n].status # "duplicate"

Calm == LeasesStand /\ LeasesApart /\ ReceiptsTold /\ KeysInUse /\ NoDuplicate
Undisturbed == mishaps = 0 => Calm

OutboxTables == TablesTyped /\ SentIsKept
OutboxInv ==
  /\ OutboxTables
  /\ runner \in [Runners -> RunnerRows]
  /\ OwnersDiffer
  /\ \A r \in Runners : RunnerKnows(r)

-----------------------------------------------------------------------------
(* Lemmas *)

LEMMA IdleRunnerTyped == Idle \in RunnerRows
BY AttemptsAssumption DEF Idle, RunnerRows, RunnerLabels, Results

LEMMA OutboxInitHolds == OutboxInit => OutboxInv
<1> SUFFICES ASSUME OutboxInit
             PROVE  OutboxInv
  OBVIOUS
<1>1. OutboxTables
  BY DEF OutboxInit, OutboxTables, TablesTyped, OutboxRows, OutboxStatuses,
         Terminal, SentIsKept
<1>2. runner \in [Runners -> RunnerRows]
  BY IdleRunnerTyped DEF OutboxInit
<1>3. OwnersDiffer /\ \A r \in Runners : RunnerKnows(r)
  BY DEF OutboxInit, Idle, OwnersDiffer, OwnsKey, RunnerKnows
<1> QED
  BY <1>1, <1>2, <1>3 DEF OutboxInv

\* A step that leaves the runners, the claims and the receipts alone.
LEMMA RowsKeep ==
  ASSUME OutboxInv, UNCHANGED <<keys, receipts, runner>>,
         outbox' \in [Notes -> OutboxRows], mishaps' \in Nat,
         \A n \in Notes : outbox'[n].status = "delivered" =>
                            outbox[n].status = "delivered"
  PROVE  OutboxInv'
<1>1. OutboxTables'
  BY DEF OutboxInv, OutboxTables, TablesTyped, SentIsKept
<1> QED
  BY <1>1 DEF OutboxInv, OwnersDiffer, OwnsKey, RunnerKnows, Note

\* A step of one runner: the others keep their claims and what they know.
LEMMA RunnerStepKeeps ==
  ASSUME OutboxInv, NEW r \in Runners, NEW next \in RunnerRows,
         runner' = [runner EXCEPT ![r] = next],
         OutboxTables', RunnerKnows(r)',
         \A s \in Runners \ {r} :
           OwnsKey(s) => Note(s) \in keys' /\ receipts'[Note(s)] = 0,
         \A n \in Notes : receipts[n] = 1 => receipts'[n] = 1,
         next.at \in {"send", "release"} =>
           \/ OwnsKey(r) /\ next.lease = runner[r].lease
           \/ next.lease.note \notin keys
  PROVE  OutboxInv'
<1>1. runner' \in [Runners -> RunnerRows] /\ runner'[r] = next
  BY DEF OutboxInv
<1>2. \A s \in Runners \ {r} : runner'[s] = runner[s]
  BY DEF OutboxInv
<1>3. \A s \in Runners : RunnerKnows(s)'
  <2> SUFFICES ASSUME NEW s \in Runners \ {r}
               PROVE  RunnerKnows(s)'
    OBVIOUS
  <2>1. runner[s].at = "complete" => Note(s) \in Notes
    BY DEF OutboxInv, RunnerKnows, Note, Leases
  <2> QED
    BY <1>2, <2>1 DEF OutboxInv, RunnerKnows, OwnsKey, Note
<1>4. OwnersDiffer'
  <2>1. \A s \in Runners \ {r} :
          ~(OwnsKey(r)' /\ OwnsKey(s)' /\ (Note(r) = Note(s))')
    BY <1>1, <1>2 DEF OutboxInv, OwnersDiffer, OwnsKey, RunnerKnows, Note
  <2> QED
    BY <1>2, <2>1 DEF OutboxInv, OwnersDiffer, OwnsKey, Note
<1> QED
  BY <1>1, <1>3, <1>4 DEF OutboxInv

\* A runner that goes on to a label and claims nothing new.
LEMMA GotoKeeps ==
  ASSUME OutboxInv, NEW r \in Runners, NEW label \in RunnerLabels,
         NEW result \in Results, Goto(r, label, result),
         UNCHANGED <<outbox, receipts>>, mishaps' \in Nat,
         \/ UNCHANGED keys
         \/ runner[r].at = "claim" /\ keys' = keys \cup {Note(r)}
         \/ runner[r].at = "release" /\ keys' = keys \ {Note(r)},
         runner[r].at \notin {"idle", "next"},
         label \in {"complete", "retry"},
         label = "complete" => result \in {"suppressed", "duplicate"}
  PROVE  OutboxInv'
<1> DEFINE next == [runner[r] EXCEPT !.at = label, !.result = result]
<1>1. runner[r] \in RunnerRows /\ runner[r].lease \in Leases
  BY DEF OutboxInv, RunnerKnows
<1>2. /\ next \in RunnerRows
      /\ next.at = label /\ next.result = result
      /\ next.lease = runner[r].lease
  BY <1>1 DEF RunnerRows
<1>3. runner' = [runner EXCEPT ![r] = next]
  BY DEF Goto, OutboxInv
<1>4. Note(r) \in Notes
  BY <1>1 DEF Note, Leases
<1>5. OutboxTables'
  <2>1. TablesTyped'
    BY <1>4 DEF OutboxInv, OutboxTables, TablesTyped
  <2>2. SentIsKept'
    BY DEF OutboxInv, OutboxTables, SentIsKept, RunnerKnows, OwnsKey
  <2> QED
    BY <2>1, <2>2 DEF OutboxTables
<1> HIDE DEF next
<1>6. runner'[r] = next
  BY <1>3 DEF OutboxInv
<1>7. RunnerKnows(r)'
  BY <1>1, <1>2, <1>6 DEF RunnerKnows, OwnsKey
<1>8. \A s \in Runners \ {r} :
        OwnsKey(s) => Note(s) \in keys' /\ receipts'[Note(s)] = 0
  BY DEF OutboxInv, RunnerKnows, OwnersDiffer, OwnsKey
<1> QED
  BY <1>2, <1>3, <1>5, <1>7, <1>8, RunnerStepKeeps

\* A runner that goes on to its next lease, or to rest.
LEMMA ProceedKeeps ==
  ASSUME OutboxInv, NEW r \in Runners, NEW next \in RunnerRows,
         runner' = [runner EXCEPT ![r] = next],
         next.at \in {"idle", "next"},
         UNCHANGED <<keys, receipts>>, OutboxTables'
  PROVE  OutboxInv'
<1>1. runner'[r] = next
  BY DEF OutboxInv
<1>2. RunnerKnows(r)'
  BY <1>1 DEF RunnerKnows, OwnsKey
<1>3. \A s \in Runners : OwnsKey(s) =>
        Note(s) \in keys' /\ receipts'[Note(s)] = 0
  BY DEF OutboxInv, RunnerKnows
<1> QED
  BY <1>2, <1>3, RunnerStepKeeps

-----------------------------------------------------------------------------
(* The actions *)

LEMMA ClockKeeps ==
  ASSUME OutboxInv, NEW n \in Notes,
         Enqueue(n) \/ BecomesDue(n) \/ LeaseEnds(n) \/ LeaseOverruns(n)
  PROVE  OutboxInv'
<1>1. outbox[n] \in OutboxRows /\ outbox \in [Notes -> OutboxRows]
  BY DEF OutboxInv, OutboxTables, TablesTyped
<1>2. \/ outbox' = [outbox EXCEPT ![n].status = "pending"]
      \/ outbox' = [outbox EXCEPT ![n].due = TRUE]
  BY DEF Enqueue, BecomesDue, LeaseEnds, LeaseOverruns
<1>3. outbox' \in [Notes -> OutboxRows]
  <2>1. /\ [outbox[n] EXCEPT !.status = "pending"] \in OutboxRows
        /\ [outbox[n] EXCEPT !.due = TRUE] \in OutboxRows
    BY <1>1 DEF OutboxRows, OutboxStatuses
  <2>2. \/ outbox' =
             [outbox EXCEPT ![n] = [outbox[n] EXCEPT !.status = "pending"]]
        \/ outbox' = [outbox EXCEPT ![n] = [outbox[n] EXCEPT !.due = TRUE]]
    BY <1>1, <1>2
  <2> QED
    BY <1>1, <2>1, <2>2
<1>4. \A m \in Notes : outbox'[m].status = "delivered" =>
                         outbox[m].status = "delivered"
  BY <1>1, <1>2 DEF OutboxRows, OutboxStatuses
<1>5. mishaps' \in Nat /\ UNCHANGED <<keys, receipts, runner>>
  BY DEF Enqueue, BecomesDue, LeaseEnds, LeaseOverruns, Mishap, OutboxInv,
         OutboxTables, TablesTyped
<1> QED
  BY <1>3, <1>4, <1>5, RowsKeep

LEMMA ClaimDueKeeps ==
  ASSUME OutboxInv, NEW r \in Runners, ClaimDue(r)
  PROVE  OutboxInv'
<1>1. PICK S \in SUBSET Due :
        /\ outbox' = [n \in Notes |->
             IF n \in S
             THEN [status |-> "leased", attempts |-> outbox[n].attempts + 1,
                   due |-> FALSE]
             ELSE outbox[n]]
        /\ runner' = [runner EXCEPT ![r] = [Idle EXCEPT
             !.at = "next",
             !.batch = {[note |-> n, attempt |-> outbox[n].attempts + 1] :
                          n \in S}]]
  BY DEF ClaimDue
<1> DEFINE batch == {[note |-> n, attempt |-> outbox[n].attempts + 1] :
                       n \in S}
           next == [Idle EXCEPT !.at = "next", !.batch = batch]
<1>2. outbox \in [Notes -> OutboxRows] /\ S \subseteq Notes
  BY DEF OutboxInv, OutboxTables, TablesTyped, Due
<1>3. \A n \in Notes : outbox[n].attempts + 1 \in Nat
  BY <1>2 DEF OutboxRows
<1>4. batch \in SUBSET Leases
  BY <1>2, <1>3 DEF Leases
<1>5. next \in RunnerRows /\ next.at = "next"
  <2> HIDE DEF batch
  <2> QED
    BY <1>4, IdleRunnerTyped DEF RunnerRows, RunnerLabels
<1>6. UNCHANGED <<keys, receipts, mishaps>>
  BY DEF ClaimDue
<1>7. OutboxTables'
  <2>1. outbox' \in [Notes -> OutboxRows]
    BY <1>1, <1>2, <1>3 DEF OutboxRows, OutboxStatuses
  <2>2. \A n \in Notes : outbox'[n].status = "delivered" =>
                           outbox[n].status = "delivered"
    BY <1>1
  <2> QED
    BY <1>6, <2>1, <2>2
       DEF OutboxInv, OutboxTables, TablesTyped, SentIsKept
<1>8. runner' = [runner EXCEPT ![r] = next]
  BY <1>1
<1> QED
  BY <1>5, <1>6, <1>7, <1>8, ProceedKeeps

LEMMA ReadPreferenceKeeps ==
  ASSUME OutboxInv, NEW r \in Runners, ReadPreference(r)
  PROVE  OutboxInv'
<1>1. PICK lease \in runner[r].batch, allowed \in BOOLEAN :
        runner' = [runner EXCEPT ![r] =
          [at |-> IF allowed THEN "claim" ELSE "complete",
           batch |-> @.batch \ {lease}, lease |-> lease,
           result |-> IF allowed THEN "none" ELSE "suppressed",
           left |-> Providers]]
  BY DEF ReadPreference
<1> DEFINE next == [at |-> IF allowed THEN "claim" ELSE "complete",
                    batch |-> runner[r].batch \ {lease}, lease |-> lease,
                    result |-> IF allowed THEN "none" ELSE "suppressed",
                    left |-> Providers]
<1>2. runner[r].batch \in SUBSET Leases
  BY DEF OutboxInv, RunnerRows
<1>3. Providers \in 0 .. Providers
  BY AttemptsAssumption
<1>4. next \in RunnerRows
  BY <1>2, <1>3 DEF RunnerRows, RunnerLabels, Results
<1>5. /\ next.at \in {"claim", "complete"} /\ next.lease \in Leases
      /\ next.left = Providers
      /\ next.at = "complete" => next.result = "suppressed"
  BY <1>2
<1>6. runner' = [runner EXCEPT ![r] = next]
  BY <1>1 DEF OutboxInv
<1> HIDE DEF next
<1>7. UNCHANGED <<outbox, keys, receipts, mishaps>>
  BY DEF ReadPreference
<1>8. OutboxTables'
  BY <1>7 DEF OutboxInv, OutboxTables, TablesTyped, SentIsKept
<1>9. RunnerKnows(r)'
  BY <1>5, <1>6 DEF OutboxInv, RunnerKnows, OwnsKey
<1>10. \A s \in Runners : OwnsKey(s) =>
         Note(s) \in keys' /\ receipts'[Note(s)] = 0
  BY <1>7 DEF OutboxInv, RunnerKnows
<1> QED
  BY <1>4, <1>5, <1>6, <1>7, <1>8, <1>9, <1>10, RunnerStepKeeps

LEMMA ClaimKeyKeeps ==
  ASSUME OutboxInv, NEW r \in Runners, ClaimKey(r)
  PROVE  OutboxInv'
<1>1. CASE Note(r) \in keys
  <2>1. Goto(r, "complete", "duplicate") /\ UNCHANGED keys
    BY <1>1 DEF ClaimKey
  <2> QED
    BY <2>1, GotoKeeps
       DEF ClaimKey, RunnerLabels, Results, OutboxInv, OutboxTables, TablesTyped
<1>2. CASE Note(r) \notin keys
  <2> DEFINE label == IF Providers = 0 THEN "release" ELSE "send"
             next == [runner[r] EXCEPT !.at = label, !.result = "none"]
  <2>1. /\ Goto(r, label, "none") /\ keys' = keys \cup {Note(r)}
        /\ UNCHANGED <<outbox, receipts, mishaps>>
    BY <1>2 DEF ClaimKey
  <2>2. runner[r] \in RunnerRows /\ runner[r].lease \in Leases
    BY DEF ClaimKey, OutboxInv, RunnerKnows
  <2>3. /\ next \in RunnerRows
        /\ next.at = label /\ next.lease = runner[r].lease
        /\ next.left = runner[r].left
    BY <2>2 DEF RunnerRows, RunnerLabels, Results
  <2>4. runner' = [runner EXCEPT ![r] = next] /\ runner'[r] = next
    BY <2>1 DEF Goto, OutboxInv
  <2>5. Note(r) \in Notes /\ receipts[Note(r)] = 0
    BY <1>2, <2>2 DEF Note, Leases, OutboxInv, OutboxTables, SentIsKept
  <2>6. OutboxTables'
    BY <2>1, <2>5 DEF OutboxInv, OutboxTables, TablesTyped, SentIsKept
  <2> HIDE DEF next
  <2>7. runner'[r].at = label /\ runner'[r].lease = runner[r].lease
        /\ (label = "send" => runner'[r].left # 0)
    BY <2>3, <2>4 DEF ClaimKey, OutboxInv, RunnerKnows
  <2>8. Note(r)' \in keys' /\ receipts'[Note(r)'] = 0
    BY <2>1, <2>5, <2>7 DEF Note
  <2>9. label \in {"send", "release"}
    OBVIOUS
  <2> HIDE DEF label
  <2>10. RunnerKnows(r)'
    BY <2>2, <2>7, <2>8, <2>9 DEF RunnerKnows
  <2>11. \A s \in Runners :
           OwnsKey(s) => Note(s) \in keys' /\ receipts'[Note(s)] = 0
    BY <2>1 DEF OutboxInv, RunnerKnows
  <2>12. next.lease.note \notin keys
    BY <1>2, <2>3 DEF Note
  <2> QED
    BY <2>1, <2>3, <2>4, <2>6, <2>10, <2>11, <2>12, RunnerStepKeeps
<1> QED
  BY <1>1, <1>2

LEMMA SendReceiptKeeps ==
  ASSUME OutboxInv, NEW r \in Runners, SendReceipt(r)
  PROVE  OutboxInv'
<1> DEFINE n == Note(r)
           next == [runner[r] EXCEPT !.at = "complete", !.result = "sent"]
<1>1. /\ runner[r] \in RunnerRows /\ runner[r].lease \in Leases
      /\ OwnsKey(r) /\ n \in keys /\ receipts[n] = 0
  BY DEF SendReceipt, OutboxInv, RunnerKnows, OwnsKey
<1>2. n \in Notes
  BY <1>1 DEF Note, Leases
<1>3. /\ next \in RunnerRows
      /\ next.at = "complete" /\ next.result = "sent"
      /\ next.lease = runner[r].lease
  BY <1>1 DEF RunnerRows, RunnerLabels, Results
<1>4. runner' = [runner EXCEPT ![r] = next] /\ runner'[r] = next
  BY DEF SendReceipt, Goto, OutboxInv
<1>5. /\ receipts' = [receipts EXCEPT ![n] = 1]
      /\ UNCHANGED <<outbox, keys, mishaps>>
  BY <1>1, <1>2 DEF SendReceipt, OutboxInv, OutboxTables, TablesTyped
<1>6. receipts'[n] = 1 /\ \A m \in Notes \ {n} : receipts'[m] = receipts[m]
  BY <1>2, <1>5 DEF OutboxInv, OutboxTables, TablesTyped
<1>7. OutboxTables'
  <2>1. TablesTyped'
    BY <1>5 DEF OutboxInv, OutboxTables, TablesTyped
  <2>2. SentIsKept'
    BY <1>1, <1>5, <1>6 DEF OutboxInv, OutboxTables, SentIsKept
  <2> QED
    BY <2>1, <2>2 DEF OutboxTables
<1> HIDE DEF next
<1>8. RunnerKnows(r)'
  <2>1. Note(r)' = n
    BY <1>3, <1>4 DEF Note
  <2> QED
    BY <1>1, <1>3, <1>4, <1>6, <2>1 DEF RunnerKnows, OwnsKey
<1>9. \A s \in Runners \ {r} :
        OwnsKey(s) => Note(s) \in keys' /\ receipts'[Note(s)] = 0
  <2> SUFFICES ASSUME NEW s \in Runners \ {r}, OwnsKey(s)
               PROVE  Note(s) \in keys' /\ receipts'[Note(s)] = 0
    OBVIOUS
  <2>1. Note(s) # n
    BY <1>1 DEF OutboxInv, OwnersDiffer
  <2>2. Note(s) \in keys /\ receipts[Note(s)] = 0 /\ Note(s) \in Notes
    BY DEF OutboxInv, RunnerKnows, OutboxTables, TablesTyped
  <2> QED
    BY <1>5, <1>6, <2>1, <2>2
<1>10. \A m \in Notes : receipts[m] = 1 => receipts'[m] = 1
  BY <1>6
<1> QED
  BY <1>3, <1>4, <1>7, <1>8, <1>9, <1>10, RunnerStepKeeps

LEMMA SendFailsKeeps ==
  ASSUME OutboxInv, NEW r \in Runners, SendFails(r)
  PROVE  OutboxInv'
<1> DEFINE label == IF runner[r].left = 1 THEN "release" ELSE "send"
           next == [runner[r] EXCEPT !.left = runner[r].left - 1,
                                     !.at = label]
<1>1. /\ runner[r] \in RunnerRows /\ runner[r].lease \in Leases
      /\ OwnsKey(r) /\ Note(r) \in keys /\ receipts[Note(r)] = 0
      /\ runner[r].left \in 0 .. Providers /\ runner[r].left # 0
  BY DEF SendFails, OutboxInv, RunnerKnows, OwnsKey, RunnerRows
<1>2. runner[r].left - 1 \in 0 .. Providers
  BY <1>1, AttemptsAssumption
<1>3. /\ next \in RunnerRows
      /\ next.at = label /\ next.left = runner[r].left - 1
      /\ next.lease = runner[r].lease
  BY <1>1, <1>2 DEF RunnerRows, RunnerLabels
<1>4. runner' = [runner EXCEPT ![r] = next] /\ runner'[r] = next
  BY DEF SendFails, OutboxInv
<1>5. UNCHANGED <<outbox, keys, receipts, mishaps>>
  BY DEF SendFails
<1>6. label \in {"send", "release"} /\ (label = "send" => next.left # 0)
  BY <1>1, <1>3, AttemptsAssumption
<1> HIDE DEF next, label
<1>7. OutboxTables'
  BY <1>5 DEF OutboxInv, OutboxTables, TablesTyped, SentIsKept
<1>8. RunnerKnows(r)'
  BY <1>1, <1>3, <1>4, <1>5, <1>6 DEF RunnerKnows, OwnsKey, Note
<1>9. \A s \in Runners :
        OwnsKey(s) => Note(s) \in keys' /\ receipts'[Note(s)] = 0
  BY <1>5 DEF OutboxInv, RunnerKnows
<1> QED
  BY <1>1, <1>3, <1>4, <1>5, <1>7, <1>8, <1>9, RunnerStepKeeps

LEMMA ReleaseKeyKeeps ==
  ASSUME OutboxInv, NEW r \in Runners, ReleaseKey(r)
  PROVE  OutboxInv'
BY GotoKeeps
   DEF ReleaseKey, RunnerLabels, Results, OutboxInv, OutboxTables, TablesTyped

LEMMA ProceedTyped ==
  ASSUME OutboxInv, NEW r \in Runners, Proceed(r)
  PROVE  \E next \in RunnerRows : /\ next.at \in {"idle", "next"}
                                  /\ runner' = [runner EXCEPT ![r] = next]
<1> DEFINE onward == [Idle EXCEPT !.at = "next", !.batch = runner[r].batch]
           next == IF runner[r].batch = {} THEN Idle ELSE onward
<1>1. runner[r].batch \in SUBSET Leases
  BY DEF OutboxInv, RunnerRows
<1>2. onward \in RunnerRows /\ onward.at = "next"
  BY <1>1, IdleRunnerTyped DEF RunnerRows, RunnerLabels
<1>3. next \in RunnerRows /\ next.at \in {"idle", "next"}
  BY <1>2, IdleRunnerTyped DEF Idle
<1>4. runner' = [runner EXCEPT ![r] = next]
  BY DEF Proceed, OutboxInv
<1> QED
  BY <1>3, <1>4

\* The end that a runner records.
LEMMA RecordedKeeps ==
  ASSUME OutboxInv, NEW n \in Notes, NEW status \in OutboxStatuses,
         Recorded(n, status), UNCHANGED <<keys, receipts, mishaps>>,
         status = "delivered" => receipts[n] = 1
  PROVE  OutboxTables'
<1>1. outbox \in [Notes -> OutboxRows]
  BY DEF OutboxInv, OutboxTables, TablesTyped
<1>2. /\ outbox' \in [Notes -> OutboxRows]
      /\ outbox'[n].status = status
      /\ \A m \in Notes \ {n} : outbox'[m] = outbox[m]
  BY <1>1 DEF Recorded, OutboxRows
<1> QED
  BY <1>2 DEF OutboxInv, OutboxTables, TablesTyped, SentIsKept

LEMMA CompleteKeeps ==
  ASSUME OutboxInv, NEW r \in Runners, Complete(r)
  PROVE  OutboxInv'
<1>1. /\ runner[r].lease \in Leases
      /\ runner[r].result \in {"sent", "suppressed", "duplicate"}
      /\ runner[r].result = "sent" => receipts[Note(r)] = 1
      /\ UNCHANGED <<keys, receipts, mishaps>>
  BY DEF Complete, OutboxInv, RunnerKnows
<1>2. Note(r) \in Notes
  BY <1>1 DEF Note, Leases
<1>3. CASE Holds(r)
  <2> DEFINE status == TerminalStatus(runner[r].result)
  <2>1. Recorded(Note(r), status) /\ Proceed(r)
    BY <1>3 DEF Complete
  <2>2. /\ status \in OutboxStatuses
        /\ status = "delivered" => receipts[Note(r)] = 1
    BY <1>1 DEF TerminalStatus, OutboxStatuses, Terminal
  <2>3. OutboxTables'
    BY <1>1, <1>2, <2>1, <2>2, RecordedKeeps
  <2> QED
    BY <1>1, <2>1, <2>3, ProceedTyped, ProceedKeeps
<1>4. CASE ~Holds(r)
  BY <1>1, <1>4, GotoKeeps
     DEF Complete, RunnerLabels, Results, OutboxInv, OutboxTables, TablesTyped
<1> QED
  BY <1>3, <1>4

\* A run that ends leaves the tables to the others.
LEMMA RestKeeps ==
  ASSUME OutboxInv, NEW r \in Runners,
         runner' = [runner EXCEPT ![r] = Idle],
         UNCHANGED <<outbox, keys, receipts>>, mishaps' \in Nat
  PROVE  OutboxInv'
<1>1. OutboxTables'
  BY DEF OutboxInv, OutboxTables, TablesTyped, SentIsKept
<1>2. Idle.at = "idle"
  BY DEF Idle
<1> QED
  BY <1>1, <1>2, IdleRunnerTyped, ProceedKeeps

LEMMA RetryOrDeadLetterKeeps ==
  ASSUME OutboxInv, NEW r \in Runners, RetryOrDeadLetter(r)
  PROVE  OutboxInv'
<1>1. runner[r].lease \in Leases /\ UNCHANGED <<keys, receipts, mishaps>>
  BY DEF RetryOrDeadLetter, OutboxInv, RunnerKnows
<1>2. Note(r) \in Notes
  BY <1>1 DEF Note, Leases
<1>3. CASE Holds(r)
  <2>1. PICK status \in {"dead_letter", "pending"} :
          Recorded(Note(r), status) /\ Proceed(r)
    BY <1>3 DEF RetryOrDeadLetter
  <2>2. status \in OutboxStatuses /\ status # "delivered"
    BY DEF OutboxStatuses, Terminal
  <2>3. OutboxTables'
    BY <1>1, <1>2, <2>1, <2>2, RecordedKeeps
  <2> QED
    BY <1>1, <2>1, <2>3, ProceedTyped, ProceedKeeps
<1>4. CASE ~Holds(r)
  BY <1>1, <1>4, RestKeeps
     DEF RetryOrDeadLetter, OutboxInv, OutboxTables, TablesTyped
<1> QED
  BY <1>3, <1>4

LEMMA MishapTyped ==
  ASSUME OutboxInv, Mishap
  PROVE  mishaps' \in Nat
BY DEF Mishap, OutboxInv, OutboxTables, TablesTyped

LEMMA FaultKeeps ==
  ASSUME OutboxInv, NEW r \in Runners, Fault(r)
  PROVE  OutboxInv'
<1>1. mishaps' \in Nat
  BY MishapTyped DEF Fault
<1>2. CASE runner[r].at = "retry"
  BY <1>1, <1>2, RestKeeps DEF Fault
<1>3. CASE runner[r].at # "retry"
  BY <1>1, <1>3, GotoKeeps DEF Fault, RunnerLabels, Results
<1> QED
  BY <1>2, <1>3

LEMMA DieKeeps ==
  ASSUME OutboxInv, NEW r \in Runners, Die(r)
  PROVE  OutboxInv'
BY MishapTyped, RestKeeps DEF Die

LEMMA OutboxNextKeeps == OutboxInv /\ [OutboxNext]_outboxVars => OutboxInv'
<1> SUFFICES ASSUME OutboxInv, [OutboxNext]_outboxVars
             PROVE  OutboxInv'
  OBVIOUS
<1>1. ASSUME NEW n \in Notes,
             Enqueue(n) \/ BecomesDue(n) \/ LeaseEnds(n) \/ LeaseOverruns(n)
      PROVE  OutboxInv'
  BY <1>1, ClockKeeps
<1>2. ASSUME NEW r \in Runners, ClaimDue(r) \/ Fault(r) \/ Die(r)
      PROVE  OutboxInv'
  BY <1>2, ClaimDueKeeps, FaultKeeps, DieKeeps
<1>3. ASSUME NEW r \in Runners, RunnerStep(r)
      PROVE  OutboxInv'
  BY <1>3, ReadPreferenceKeeps, ClaimKeyKeeps, SendReceiptKeeps,
     SendFailsKeeps, ReleaseKeyKeeps, CompleteKeeps, RetryOrDeadLetterKeeps
     DEF RunnerStep
<1>4. CASE UNCHANGED outboxVars
  BY <1>4, RowsKeep DEF outboxVars, OutboxInv, OutboxTables, TablesTyped
<1> QED
  BY <1>1, <1>2, <1>3, <1>4 DEF OutboxNext

-----------------------------------------------------------------------------
(* Without a mishap every lease stands, and its runner is alone with its row *)

\* Two leases that stand for one row are one, of one runner.
LEMMA OneLeasePerRow ==
  ASSUME Calm, NEW r \in Runners, NEW s \in Runners,
         NEW l \in Leases, NEW m \in Leases,
         Has(r, l), Has(s, m), l.note = m.note
  PROVE  l = m /\ r = s
<1>1. l.attempt = m.attempt
  BY DEF Calm, LeasesStand, Stands
<1>2. l = m
  BY <1>1 DEF Leases
<1> QED
  BY <1>2 DEF Calm, LeasesApart

\* A step of one runner that writes no row: it has no new lease, and what its
\* dispatch was the reason for is gone or still its own.
LEMMA RunnerStaysCalm ==
  ASSUME OutboxInv, Calm, NEW r \in Runners, NEW next,
         runner' = [runner EXCEPT ![r] = next], UNCHANGED outbox,
         \A lease \in Leases : Has(r, lease)' => Has(r, lease),
         AtWork(r)' => next.lease \notin next.batch,
         next.at = "complete" => next.result \in {"sent", "suppressed"},
         \A n \in Notes : receipts'[n] = 1 =>
           (receipts[n] = 1 /\ ~HasSent(r, n)) \/ HasSent(r, n)',
         \A n \in keys' :
           (n \in keys /\ ~Dispatches(r, n)) \/ Dispatches(r, n)'
  PROVE  Calm'
<1>1. runner'[r] = next /\ \A s \in Runners \ {r} : runner'[s] = runner[s]
  BY DEF OutboxInv
<1>2. \A s \in Runners, lease \in Leases : Has(s, lease)' => Has(s, lease)
  BY <1>1 DEF Has, AtWork
<1>3. \A s \in Runners \ {r} : \A n :
        /\ HasSent(s, n)' <=> HasSent(s, n)
        /\ Dispatches(s, n)' <=> Dispatches(s, n)
  BY <1>1 DEF HasSent, Dispatches, OwnsKey, Note
<1>4. LeasesStand'
  BY <1>2 DEF Calm, LeasesStand, Stands
<1>5. LeasesApart'
  <2>1. \A s \in Runners :
          AtWork(s)' => runner'[s].lease \notin runner'[s].batch
    BY <1>1 DEF Calm, LeasesApart, AtWork
  <2> QED
    BY <1>2, <2>1 DEF Calm, LeasesApart
<1>6. ReceiptsTold'
  <2> SUFFICES ASSUME NEW n \in Notes, receipts'[n] = 1
               PROVE  outbox[n].status = "delivered"
                      \/ \E s \in Runners : HasSent(s, n)'
    BY DEF ReceiptsTold
  <2>1. CASE HasSent(r, n)'
    BY <2>1
  <2>2. CASE receipts[n] = 1 /\ ~HasSent(r, n)
    BY <1>3, <2>2 DEF Calm, ReceiptsTold
  <2> QED
    BY <2>1, <2>2
<1>7. KeysInUse'
  <2> SUFFICES ASSUME NEW n \in keys'
               PROVE  outbox[n].status = "delivered"
                      \/ \E s \in Runners : Dispatches(s, n)'
    BY DEF KeysInUse
  <2>1. CASE Dispatches(r, n)'
    BY <2>1
  <2>2. CASE n \in keys /\ ~Dispatches(r, n)
    BY <1>3, <2>2 DEF Calm, KeysInUse
  <2> QED
    BY <2>1, <2>2
<1>8. NoDuplicate'
  BY <1>1 DEF Calm, NoDuplicate
<1> QED
  BY <1>4, <1>5, <1>6, <1>7, <1>8 DEF Calm

\* The leases a runner has left when it is done with one.
LEMMA ProceedLeaves ==
  ASSUME OutboxInv, NEW r \in Runners, Proceed(r)
  PROVE  \E next :
           /\ runner' = [runner EXCEPT ![r] = next]
           /\ next.at \in {"idle", "next"} /\ next.batch = runner[r].batch
<1> DEFINE onward == [Idle EXCEPT !.at = "next", !.batch = runner[r].batch]
           next == IF runner[r].batch = {} THEN Idle ELSE onward
<1>1. next.at \in {"idle", "next"} /\ next.batch = runner[r].batch
  BY DEF Idle
<1>2. runner' = [runner EXCEPT ![r] = next]
  BY DEF Proceed, OutboxInv
<1> HIDE DEF next
<1> QED
  BY <1>1, <1>2

\* The row a runner records an end of, or gives back, is its own.
LEMMA RecordStaysCalm ==
  ASSUME OutboxInv, Calm, NEW r \in Runners, AtWork(r), ~OwnsKey(r),
         NEW status \in OutboxStatuses, Recorded(Note(r), status), Proceed(r),
         UNCHANGED <<keys, receipts>>, status # "duplicate",
         HasSent(r, Note(r)) => status = "delivered"
  PROVE  Calm'
<1> DEFINE n == Note(r)
           l == runner[r].lease
<1>1. l \in Leases /\ n \in Notes /\ Has(r, l) /\ l.note = n
  BY DEF OutboxInv, RunnerKnows, AtWork, Has, Note, Leases
<1>2. PICK next :
        /\ runner' = [runner EXCEPT ![r] = next]
        /\ next.at \in {"idle", "next"} /\ next.batch = runner[r].batch
  BY ProceedLeaves
<1>3. runner'[r] = next /\ \A s \in Runners \ {r} : runner'[s] = runner[s]
  BY <1>2 DEF OutboxInv
<1>4. outbox \in [Notes -> OutboxRows]
  BY DEF OutboxInv, OutboxTables, TablesTyped
<1>5. /\ outbox'[n].status = status
      /\ \A m \in Notes \ {n} : outbox'[m] = outbox[m]
  BY <1>1, <1>4 DEF Recorded, OutboxRows
<1>6. ASSUME NEW s \in Runners, NEW k \in Leases, Has(s, k)'
      PROVE  Has(s, k) /\ k.note # n
  <2>1. Has(s, k)
    BY <1>2, <1>3, <1>6 DEF Has, AtWork
  <2>2. CASE k.note = n
    <3>1. k = l /\ s = r
      BY <1>1, <1>6, <2>1, <2>2, OneLeasePerRow
    <3>2. k \in runner[r].batch
      BY <1>2, <1>3, <1>6, <3>1 DEF Has, AtWork
    <3> QED
      BY <3>1, <3>2 DEF Calm, LeasesApart
  <2> QED
    BY <2>1, <2>2
<1>7. LeasesStand'
  <2> SUFFICES ASSUME NEW s \in Runners, NEW k \in Leases, Has(s, k)'
               PROVE  Stands(k)'
    BY DEF LeasesStand
  <2>1. Has(s, k) /\ k.note \in Notes \ {n}
    BY <1>6 DEF Leases
  <2> QED
    BY <1>5, <2>1 DEF Calm, LeasesStand, Stands
<1>8. LeasesApart'
  <2>1. \A s \in Runners :
          AtWork(s)' => runner'[s].lease \notin runner'[s].batch
    BY <1>2, <1>3 DEF Calm, LeasesApart, AtWork
  <2> QED
    BY <1>6, <2>1 DEF Calm, LeasesApart
<1>9. \A s \in Runners \ {r} : \A m :
        (HasSent(s, m)' <=> HasSent(s, m))
        /\ (Dispatches(s, m)' <=> Dispatches(s, m))
  BY <1>3 DEF HasSent, Dispatches, OwnsKey, Note
<1>10. \A m \in Notes :
         \/ outbox[m].status = "delivered" \/ HasSent(r, m)
              => outbox'[m].status = "delivered"
  <2>1. outbox[n].status = "leased"
    BY <1>1 DEF Calm, LeasesStand, Stands
  <2> QED
    BY <1>5, <2>1 DEF HasSent
<1>11. ReceiptsTold'
  BY <1>9, <1>10 DEF Calm, ReceiptsTold
<1>12. KeysInUse'
  <2>1. \A m : Dispatches(r, m) => HasSent(r, m)
    BY DEF Dispatches
  <2>2. keys \subseteq Notes
    BY DEF OutboxInv, OutboxTables, TablesTyped
  <2> QED
    BY <1>9, <1>10, <2>1, <2>2 DEF Calm, KeysInUse
<1>13. NoDuplicate'
  BY <1>2, <1>3, <1>5 DEF Calm, NoDuplicate
<1> QED
  BY <1>7, <1>8, <1>11, <1>12, <1>13 DEF Calm

\* Time and events: no lease in hand runs out by itself.
LEMMA ClockStaysCalm ==
  ASSUME OutboxInv, Calm, NEW n \in Notes,
         Enqueue(n) \/ BecomesDue(n) \/ LeaseEnds(n)
  PROVE  Calm'
<1>1. outbox[n] \in OutboxRows /\ outbox \in [Notes -> OutboxRows]
  BY DEF OutboxInv, OutboxTables, TablesTyped
<1>2. UNCHANGED <<keys, receipts, runner>>
  BY DEF Enqueue, BecomesDue, LeaseEnds
<1>3. \/ outbox[n].status = "absent"
      \/ outbox[n].status = "pending"
      \/ /\ outbox[n].status = "leased"
         /\ ~\E r \in Runners : Works(r, LeaseOf(n))
  BY DEF Enqueue, BecomesDue, LeaseEnds
<1>4. /\ outbox'[n].status \in {"pending", "leased"}
      /\ \A m \in Notes \ {n} : outbox'[m] = outbox[m]
  BY <1>1 DEF Enqueue, BecomesDue, LeaseEnds, OutboxRows
<1>5. ASSUME NEW r \in Runners, NEW l \in Leases, Has(r, l)
      PROVE  l.note # n
  <2> SUFFICES ASSUME l.note = n
               PROVE  FALSE
    OBVIOUS
  <2>1. Stands(l)
    BY <1>5 DEF Calm, LeasesStand
  <2>2. outbox[n].status = "leased" /\ outbox[n].attempts = l.attempt
    BY <2>1 DEF Stands
  <2>3. l = LeaseOf(n)
    BY <2>2 DEF LeaseOf, Leases
  <2>4. Works(r, l)
    BY <1>5 DEF Has, Works
  <2> QED
    BY <1>3, <2>2, <2>3, <2>4
<1>6. LeasesStand'
  <2> SUFFICES ASSUME NEW s \in Runners, NEW k \in Leases, Has(s, k)'
               PROVE  Stands(k)'
    BY DEF LeasesStand
  <2>1. Has(s, k)
    BY <1>2 DEF Has, AtWork
  <2>2. k.note \in Notes \ {n}
    BY <1>5, <2>1 DEF Leases
  <2> QED
    BY <1>4, <2>1, <2>2 DEF Calm, LeasesStand, Stands
<1>7. LeasesApart'
  BY <1>2 DEF Calm, LeasesApart, Has, AtWork
<1>8. \A m \in Notes :
        outbox[m].status = "delivered" => outbox'[m].status = "delivered"
  BY <1>3, <1>4
<1>9. ReceiptsTold'
  BY <1>2, <1>8 DEF Calm, ReceiptsTold, HasSent, Note
<1>10. KeysInUse'
  <2>1. keys \subseteq Notes
    BY DEF OutboxInv, OutboxTables, TablesTyped
  <2> QED
    BY <1>2, <1>8, <2>1 DEF Calm, KeysInUse, Dispatches, OwnsKey, HasSent, Note
<1>11. NoDuplicate'
  BY <1>2, <1>4 DEF Calm, NoDuplicate
<1> QED
  BY <1>6, <1>7, <1>9, <1>10, <1>11 DEF Calm

\* A batch takes rows that are due, of which nobody has a lease that stands.
LEMMA ClaimDueStaysCalm ==
  ASSUME OutboxInv, Calm, NEW r \in Runners, ClaimDue(r)
  PROVE  Calm'
<1>1. PICK S \in SUBSET Due :
        /\ outbox' = [n \in Notes |->
             IF n \in S
             THEN [status |-> "leased", attempts |-> outbox[n].attempts + 1,
                   due |-> FALSE]
             ELSE outbox[n]]
        /\ runner' = [runner EXCEPT ![r] = [Idle EXCEPT
             !.at = "next",
             !.batch = {[note |-> n, attempt |-> outbox[n].attempts + 1] :
                          n \in S}]]
  BY DEF ClaimDue
<1> DEFINE batch == {[note |-> n, attempt |-> outbox[n].attempts + 1] :
                       n \in S}
           next == [Idle EXCEPT !.at = "next", !.batch = batch]
<1>2. S \subseteq Notes /\ runner[r].at = "idle"
      /\ UNCHANGED <<keys, receipts>>
  BY DEF ClaimDue, Due
<1>3. next.at = "next" /\ next.batch = batch
  BY DEF Idle
<1>4. runner' = [runner EXCEPT ![r] = next]
  BY <1>1
<1>5. runner'[r] = next /\ \A s \in Runners \ {r} : runner'[s] = runner[s]
  BY <1>4 DEF OutboxInv
<1>6. \A n \in S : outbox[n].due
  BY DEF Due
<1> HIDE DEF next
<1>7. \A l : Has(r, l)' => l \in batch
  BY <1>3, <1>5 DEF Has, AtWork
<1>8. \A s \in Runners \ {r} : \A l : Has(s, l)' => Has(s, l)
  BY <1>5 DEF Has, AtWork
<1>9. \A l \in batch : l.note \in S /\ Stands(l)'
  BY <1>1, <1>2 DEF Stands
<1>10. \A s \in Runners \ {r}, l \in Leases :
         Has(s, l)' => l.note \in Notes \ S /\ Stands(l)'
  <2> SUFFICES ASSUME NEW s \in Runners \ {r}, NEW l \in Leases, Has(s, l)'
               PROVE  l.note \in Notes \ S /\ Stands(l)'
    OBVIOUS
  <2>1. Stands(l) /\ l.note \in Notes
    BY <1>8 DEF Calm, LeasesStand, Leases
  <2>2. l.note \notin S
    BY <1>6, <2>1 DEF Stands
  <2>3. outbox'[l.note] = outbox[l.note]
    BY <1>1, <2>1, <2>2
  <2> QED
    BY <2>1, <2>2, <2>3 DEF Stands
<1> HIDE DEF batch
<1>11. LeasesStand'
  BY <1>7, <1>9, <1>10 DEF LeasesStand
<1>12. LeasesApart'
  <2>1. \A s \in Runners :
          AtWork(s)' => runner'[s].lease \notin runner'[s].batch
    BY <1>3, <1>5 DEF Calm, LeasesApart, AtWork
  <2>2. \A s, q \in Runners, l \in Leases : Has(s, l)' /\ Has(q, l)' => s = q
    BY <1>7, <1>8, <1>9, <1>10 DEF Calm, LeasesApart
  <2> QED
    BY <2>1, <2>2 DEF LeasesApart
<1>13. \A m \in Notes :
         /\ outbox[m].status = "delivered" => outbox'[m].status = "delivered"
         /\ outbox[m].status # "duplicate" => outbox'[m].status # "duplicate"
  BY <1>1 DEF Due
<1>14. \A s \in Runners : \A m :
         (HasSent(s, m) => HasSent(s, m)')
         /\ (Dispatches(s, m) => Dispatches(s, m)')
  BY <1>2, <1>5 DEF HasSent, Dispatches, OwnsKey, Note
<1>15. ReceiptsTold'
  BY <1>2, <1>13, <1>14 DEF Calm, ReceiptsTold
<1>16. KeysInUse'
  <2>1. keys \subseteq Notes
    BY DEF OutboxInv, OutboxTables, TablesTyped
  <2> QED
    BY <1>2, <1>13, <1>14, <2>1 DEF Calm, KeysInUse
<1>17. NoDuplicate'
  BY <1>3, <1>5, <1>13 DEF Calm, NoDuplicate
<1> QED
  BY <1>11, <1>12, <1>15, <1>16, <1>17 DEF Calm

\* A runner that goes on with its lease has what it had.
LEMMA SameLeases ==
  ASSUME OutboxInv, NEW r \in Runners, AtWork(r), NEW next,
         runner' = [runner EXCEPT ![r] = next],
         next.batch = runner[r].batch, next.lease = runner[r].lease
  PROVE  /\ runner'[r] = next
         /\ \A lease : Has(r, lease)' => Has(r, lease)
BY DEF OutboxInv, Has, AtWork

LEMMA ReadPreferenceStaysCalm ==
  ASSUME OutboxInv, Calm, NEW r \in Runners, ReadPreference(r)
  PROVE  Calm'
<1>1. PICK lease \in runner[r].batch, allowed \in BOOLEAN :
        runner' = [runner EXCEPT ![r] =
          [at |-> IF allowed THEN "claim" ELSE "complete",
           batch |-> @.batch \ {lease}, lease |-> lease,
           result |-> IF allowed THEN "none" ELSE "suppressed",
           left |-> Providers]]
  BY DEF ReadPreference
<1> DEFINE next == [at |-> IF allowed THEN "claim" ELSE "complete",
                    batch |-> runner[r].batch \ {lease}, lease |-> lease,
                    result |-> IF allowed THEN "none" ELSE "suppressed",
                    left |-> Providers]
<1>2. runner' = [runner EXCEPT ![r] = next] /\ runner'[r] = next
  BY <1>1 DEF OutboxInv
<1>3. /\ next.at \in {"claim", "complete"} /\ next.result # "sent"
      /\ next.at = "complete" => next.result = "suppressed"
      /\ next.batch = runner[r].batch \ {lease} /\ next.lease = lease
  OBVIOUS
<1> HIDE DEF next
<1>4. runner[r].at = "next" /\ UNCHANGED <<outbox, keys, receipts>>
  BY DEF ReadPreference
<1>5. \A l : Has(r, l)' => Has(r, l)
  BY <1>2, <1>3 DEF Has
<1>6. \A n : ~HasSent(r, n) /\ ~Dispatches(r, n)
  BY <1>4 DEF HasSent, Dispatches, OwnsKey
<1> QED
  BY <1>2, <1>3, <1>4, <1>5, <1>6, RunnerStaysCalm

\* A claim is found only of a notification in dispatch, whose lease another
\* runner would have.
LEMMA KeyIsFree ==
  ASSUME OutboxInv, Calm, NEW r \in Runners, runner[r].at = "claim"
  PROVE  Note(r) \notin keys
<1> DEFINE l == runner[r].lease
<1>1. l \in Leases /\ Has(r, l) /\ l.note = Note(r)
  BY DEF OutboxInv, RunnerKnows, AtWork, Has, Note
<1>2. outbox[Note(r)].status = "leased"
  BY <1>1 DEF Calm, LeasesStand, Stands
<1> SUFFICES ASSUME NEW s \in Runners, Dispatches(s, Note(r))
             PROVE  FALSE
  BY <1>2 DEF Calm, KeysInUse
<1>3. AtWork(s) /\ Note(s) = Note(r) /\ s # r
  BY DEF Dispatches, HasSent, OwnsKey, AtWork
<1>4. runner[s].lease \in Leases /\ Has(s, runner[s].lease)
  BY <1>3 DEF OutboxInv, RunnerKnows, AtWork, Has
<1> QED
  BY <1>1, <1>3, <1>4, OneLeasePerRow DEF Note

LEMMA ClaimKeyStaysCalm ==
  ASSUME OutboxInv, Calm, NEW r \in Runners, ClaimKey(r)
  PROVE  Calm'
<1> DEFINE label == IF Providers = 0 THEN "release" ELSE "send"
           next == [runner[r] EXCEPT !.at = label, !.result = "none"]
<1>1. runner[r].at = "claim" /\ runner[r] \in RunnerRows /\ AtWork(r)
  BY DEF ClaimKey, OutboxInv, AtWork
<1>2. Note(r) \notin keys
  BY <1>1, KeyIsFree
<1>3. /\ Goto(r, label, "none") /\ keys' = keys \cup {Note(r)}
      /\ UNCHANGED <<outbox, receipts>>
  BY <1>2 DEF ClaimKey
<1>4. runner' = [runner EXCEPT ![r] = next]
  BY <1>3 DEF Goto, OutboxInv
<1>5. /\ next.at \in {"send", "release"} /\ next.lease = runner[r].lease
      /\ next.batch = runner[r].batch
  BY <1>1 DEF RunnerRows
<1> HIDE DEF next
<1>6. runner'[r] = next /\ \A l : Has(r, l)' => Has(r, l)
  BY <1>1, <1>4, <1>5, SameLeases
<1>7. \A n : ~HasSent(r, n) /\ ~Dispatches(r, n)
  BY <1>1 DEF HasSent, Dispatches, OwnsKey
<1>8. Dispatches(r, Note(r))'
  BY <1>5, <1>6 DEF Dispatches, OwnsKey, Note
<1>9. Note(r)' = Note(r)
  BY <1>5, <1>6 DEF Note
<1>10. \A n \in keys' : (n \in keys /\ ~Dispatches(r, n)) \/ Dispatches(r, n)'
  BY <1>3, <1>7, <1>8, <1>9
<1>11. next.lease \notin next.batch
  BY <1>1, <1>5 DEF Calm, LeasesApart
<1> QED
  BY <1>3, <1>4, <1>5, <1>6, <1>7, <1>10, <1>11, RunnerStaysCalm

LEMMA SendReceiptStaysCalm ==
  ASSUME OutboxInv, Calm, NEW r \in Runners, SendReceipt(r)
  PROVE  Calm'
<1> DEFINE next == [runner[r] EXCEPT !.at = "complete", !.result = "sent"]
<1>1. runner[r].at = "send" /\ runner[r] \in RunnerRows /\ AtWork(r)
  BY DEF SendReceipt, OutboxInv, AtWork
<1>2. runner' = [runner EXCEPT ![r] = next]
  BY DEF SendReceipt, Goto, OutboxInv
<1>3. /\ next.at = "complete" /\ next.result = "sent"
      /\ next.lease = runner[r].lease /\ next.batch = runner[r].batch
  BY <1>1 DEF RunnerRows
<1> HIDE DEF next
<1>4. runner'[r] = next /\ \A l : Has(r, l)' => Has(r, l)
  BY <1>1, <1>2, <1>3, SameLeases
<1>5. HasSent(r, Note(r))' /\ Note(r)' = Note(r)
  BY <1>3, <1>4 DEF HasSent, Note
<1>6. /\ \A n : ~HasSent(r, n) /\ (Dispatches(r, n) => n = Note(r))
      /\ Dispatches(r, Note(r))'
  BY <1>1, <1>5 DEF HasSent, Dispatches
<1>7. UNCHANGED <<outbox, keys>>
      /\ \A n \in Notes \ {Note(r)} : receipts'[n] = receipts[n]
  BY DEF SendReceipt, OutboxInv, OutboxTables, TablesTyped
<1>8. \A n \in Notes : receipts'[n] = 1 =>
        (receipts[n] = 1 /\ ~HasSent(r, n)) \/ HasSent(r, n)'
  BY <1>5, <1>6, <1>7
<1>9. \A n \in keys' : (n \in keys /\ ~Dispatches(r, n)) \/ Dispatches(r, n)'
  <2>1. \A n : Dispatches(r, n) => Dispatches(r, n)'
    BY <1>3, <1>4, <1>6 DEF Dispatches, HasSent, Note
  <2> QED
    BY <1>7, <2>1
<1>10. next.lease \notin next.batch
  BY <1>1, <1>3 DEF Calm, LeasesApart
<1> QED
  BY <1>2, <1>3, <1>4, <1>7, <1>8, <1>9, <1>10, RunnerStaysCalm

LEMMA SendFailsStaysCalm ==
  ASSUME OutboxInv, Calm, NEW r \in Runners, SendFails(r)
  PROVE  Calm'
<1> DEFINE next == [runner[r] EXCEPT !.left = runner[r].left - 1,
                !.at = IF runner[r].left = 1 THEN "release" ELSE "send"]
<1>1. runner[r].at = "send" /\ runner[r] \in RunnerRows /\ AtWork(r)
      /\ UNCHANGED <<outbox, keys, receipts>>
  BY DEF SendFails, OutboxInv, AtWork
<1>2. runner' = [runner EXCEPT ![r] = next]
  BY DEF SendFails, OutboxInv
<1>3. /\ next.at \in {"send", "release"}
      /\ next.lease = runner[r].lease /\ next.batch = runner[r].batch
  BY <1>1 DEF RunnerRows
<1> HIDE DEF next
<1>4. runner'[r] = next /\ \A l : Has(r, l)' => Has(r, l)
  BY <1>1, <1>2, <1>3, SameLeases
<1>5. \A n : ~HasSent(r, n) /\ (Dispatches(r, n) => Dispatches(r, n)')
  BY <1>1, <1>3, <1>4 DEF HasSent, Dispatches, OwnsKey, Note
<1>6. next.lease \notin next.batch
  BY <1>1, <1>3 DEF Calm, LeasesApart
<1> QED
  BY <1>1, <1>2, <1>3, <1>4, <1>5, <1>6, RunnerStaysCalm

LEMMA ReleaseKeyStaysCalm ==
  ASSUME OutboxInv, Calm, NEW r \in Runners, ReleaseKey(r)
  PROVE  Calm'
<1> DEFINE next == [runner[r] EXCEPT !.at = "retry", !.result = "failed"]
<1>1. runner[r].at = "release" /\ runner[r] \in RunnerRows /\ AtWork(r)
      /\ keys' = keys \ {Note(r)} /\ UNCHANGED <<outbox, receipts>>
  BY DEF ReleaseKey, OutboxInv, AtWork
<1>2. runner' = [runner EXCEPT ![r] = next]
  BY DEF ReleaseKey, Goto, OutboxInv
<1>3. /\ next.at = "retry"
      /\ next.lease = runner[r].lease /\ next.batch = runner[r].batch
  BY <1>1 DEF RunnerRows
<1> HIDE DEF next
<1>4. runner'[r] = next /\ \A l : Has(r, l)' => Has(r, l)
  BY <1>1, <1>2, <1>3, SameLeases
<1>5. \A n : ~HasSent(r, n) /\ (Dispatches(r, n) => n = Note(r))
  BY <1>1 DEF HasSent, Dispatches
<1>6. next.lease \notin next.batch
  BY <1>1, <1>3 DEF Calm, LeasesApart
<1> QED
  BY <1>1, <1>2, <1>3, <1>4, <1>5, <1>6, RunnerStaysCalm

\* Whoever records has a lease that stands.
LEMMA HoldsWhatItWorks ==
  ASSUME OutboxInv, Calm, NEW r \in Runners, AtWork(r)
  PROVE  Holds(r)
<1>1. runner[r].lease \in Leases /\ Has(r, runner[r].lease)
  BY DEF OutboxInv, RunnerKnows, AtWork, Has
<1> QED
  BY <1>1 DEF Calm, LeasesStand, Stands, Holds, Note

LEMMA RecordingStaysCalm ==
  ASSUME OutboxInv, Calm, NEW r \in Runners,
         Complete(r) \/ RetryOrDeadLetter(r)
  PROVE  Calm'
<1>1. /\ AtWork(r) /\ ~OwnsKey(r) /\ UNCHANGED <<keys, receipts>>
      /\ runner[r].at \in {"complete", "retry"}
  BY DEF Complete, RetryOrDeadLetter, AtWork, OwnsKey
<1>2. Holds(r)
  BY <1>1, HoldsWhatItWorks
<1>3. CASE Complete(r)
  <2> DEFINE status == TerminalStatus(runner[r].result)
  <2>1. Recorded(Note(r), status) /\ Proceed(r)
    BY <1>2, <1>3 DEF Complete
  <2>2. runner[r].result \in {"sent", "suppressed"}
    BY <1>3 DEF Complete, Calm, NoDuplicate
  <2>3. /\ status \in OutboxStatuses /\ status # "duplicate"
        /\ HasSent(r, Note(r)) => status = "delivered"
    BY <2>2 DEF TerminalStatus, OutboxStatuses, Terminal, HasSent
  <2> HIDE DEF status
  <2> QED
    BY <1>1, <2>1, <2>3, RecordStaysCalm
<1>4. CASE RetryOrDeadLetter(r)
  <2>1. PICK status \in {"dead_letter", "pending"} :
          Recorded(Note(r), status) /\ Proceed(r)
    BY <1>2, <1>4 DEF RetryOrDeadLetter
  <2>2. /\ status \in OutboxStatuses /\ status # "duplicate"
        /\ ~HasSent(r, Note(r))
    BY <1>4 DEF RetryOrDeadLetter, OutboxStatuses, Terminal, HasSent
  <2> QED
    BY <1>1, <2>1, <2>2, RecordStaysCalm
<1> QED
  BY <1>3, <1>4

LEMMA UndisturbedNextKeeps ==
  OutboxInv /\ Undisturbed /\ [OutboxNext]_outboxVars => Undisturbed'
<1> SUFFICES ASSUME OutboxInv, Undisturbed, [OutboxNext]_outboxVars,
                    mishaps' = 0
             PROVE  Calm'
  BY DEF Undisturbed
<1>1. ~Mishap
  BY DEF Mishap, OutboxInv, OutboxTables, TablesTyped
<1>2. Calm
  <2>1. Mishap \/ UNCHANGED mishaps
    BY DEF OutboxNext, outboxVars, Enqueue, BecomesDue, LeaseEnds,
           LeaseOverruns, ClaimDue, RunnerStep, ReadPreference, ClaimKey,
           SendReceipt, SendFails, ReleaseKey, Complete, RetryOrDeadLetter,
           Fault, Die
  <2> QED
    BY <1>1, <2>1 DEF Undisturbed
<1>3. CASE UNCHANGED outboxVars
  BY <1>2, <1>3
     DEF outboxVars, Calm, LeasesStand, Stands, LeasesApart, Has, AtWork,
         ReceiptsTold, KeysInUse, Dispatches, OwnsKey, HasSent, NoDuplicate,
         Note
<1>4. CASE OutboxNext
  BY <1>1, <1>2, <1>4, ClockStaysCalm, ClaimDueStaysCalm,
     ReadPreferenceStaysCalm, ClaimKeyStaysCalm, SendReceiptStaysCalm,
     SendFailsStaysCalm, ReleaseKeyStaysCalm, RecordingStaysCalm
     DEF OutboxNext, RunnerStep, LeaseOverruns, Fault, Die
<1> QED
  BY <1>3, <1>4

LEMMA UndisturbedInit == OutboxInit => Undisturbed
BY DEF OutboxInit, Idle, Undisturbed, Calm, LeasesStand, LeasesApart, Has,
       AtWork, ReceiptsTold, KeysInUse, NoDuplicate

-----------------------------------------------------------------------------
(* Theorems *)

\* In every state a runner between its claim and its answer is alone with its
\* key, and every receipt has its claim.
THEOREM OutboxInvariant == OutboxSpec => []OutboxInv
BY OutboxInitHolds, OutboxNextKeeps, PTL DEF OutboxSpec

\* Rows, claims and runners keep their types, for any number of each.
THEOREM OutboxTypes == OutboxSpec => []OutboxTypeOK
<1>1. OutboxInv => OutboxTypeOK
  BY DEF OutboxInv, OutboxTables, TablesTyped, OutboxRows, OutboxStatuses,
         RunnerRows, RunnerLabels, Leases, OutboxTypeOK
<1> QED
  BY <1>1, OutboxInvariant, PTL

\* Whatever leases end early and whoever dies, no notification gets two
\* receipts, and one called delivered got its own.
THEOREM NotificationsSentOnce == OutboxSpec => []SentAtMostOnce
<1>1. OutboxInv => SentAtMostOnce
  BY DEF OutboxInv, OutboxTables, SentIsKept, SentAtMostOnce
<1> QED
  BY <1>1, OutboxInvariant, PTL

\* As long as no statement fails, no runner dies and no lease overruns, every
\* row ends as what happened: delivered with its receipt, or without one, and
\* never as a duplicate.
THEOREM UndisturbedRowsExact == OutboxSpec => []UndisturbedIsExact
<1>1. OutboxInv /\ Undisturbed => UndisturbedIsExact
  <2> SUFFICES ASSUME OutboxInv, Calm, NEW n \in Notes,
                      outbox[n].status \in Terminal
               PROVE  receipts[n] = 1 <=> outbox[n].status = "delivered"
    BY DEF Undisturbed, UndisturbedIsExact, Calm, NoDuplicate
  <2>1. ASSUME NEW r \in Runners, HasSent(r, n)
        PROVE  FALSE
    <3>1. AtWork(r) /\ Note(r) = n
      BY <2>1 DEF HasSent, AtWork
    <3>2. outbox[n].status = "leased"
      BY <3>1, HoldsWhatItWorks DEF Holds
    <3> QED
      BY <3>2 DEF Terminal
  <2> QED
    BY <2>1 DEF OutboxInv, OutboxTables, SentIsKept, Calm, ReceiptsTold
<1> QED
  BY <1>1, UndisturbedInit, UndisturbedNextKeeps, OutboxInvariant, PTL
     DEF OutboxSpec

\* Who records an end or gives a row back holds its present lease.
LEMMA HoldsItsLease ==
  ASSUME OutboxInv, NEW r \in Runners, Holds(r),
         runner[r].at \notin {"idle", "next"}
  PROVE  /\ outbox[Note(r)].status = "leased"
         /\ runner[r].lease = LeaseOf(Note(r))
<1>1. runner[r].lease \in Leases
  BY DEF OutboxInv, RunnerKnows
<1> QED
  BY <1>1 DEF Holds, LeaseOf, Note, Leases

\* A row that ended never changes, and a leased row is given back or ended
\* only by a runner that holds its present lease.
THEOREM HolderRecords == OutboxSpec => OnlyHolderRecords
<1> DEFINE Allowed(n) ==
      /\ outbox[n].status \in Terminal => outbox'[n] = outbox[n]
      /\ outbox[n].status = "leased" /\ outbox'[n].status # "leased" =>
           \E r \in Runners : runner[r].lease = LeaseOf(n)
<1>1. ASSUME OutboxInv, OutboxNext
      PROVE  \A n \in Notes : Allowed(n)
  <2>1. outbox \in [Notes -> OutboxRows]
    BY <1>1 DEF OutboxInv, OutboxTables, TablesTyped
  <2>2. ASSUME NEW m \in Notes,
               \/ Enqueue(m) \/ BecomesDue(m)
               \/ LeaseEnds(m) \/ LeaseOverruns(m)
        PROVE  \A n \in Notes : Allowed(n)
    BY <2>1, <2>2
       DEF Enqueue, BecomesDue, LeaseEnds, LeaseOverruns, OutboxRows, Terminal
  <2>3. ASSUME NEW r \in Runners, ClaimDue(r)
        PROVE  \A n \in Notes : Allowed(n)
    BY <2>3 DEF ClaimDue, Due, Terminal
  <2>4. ASSUME NEW r \in Runners, NEW status, Recorded(Note(r), status),
               Holds(r), runner[r].at \notin {"idle", "next"}
        PROVE  \A n \in Notes : Allowed(n)
    <3>1. /\ outbox[Note(r)].status = "leased"
          /\ runner[r].lease = LeaseOf(Note(r))
      BY <1>1, <2>4, HoldsItsLease
    <3>2. \A n \in Notes : n # Note(r) => outbox'[n] = outbox[n]
      BY <2>1, <2>4 DEF Recorded
    <3> QED
      BY <3>1, <3>2 DEF Terminal
  <2>5. ASSUME NEW r \in Runners, Complete(r) \/ RetryOrDeadLetter(r)
        PROVE  \A n \in Notes : Allowed(n)
    <3>1. CASE Holds(r)
      BY <2>4, <2>5, <3>1 DEF Complete, RetryOrDeadLetter
    <3>2. CASE ~Holds(r)
      BY <2>5, <3>2 DEF Complete, RetryOrDeadLetter
    <3> QED
      BY <3>1, <3>2
  <2>6. CASE UNCHANGED outbox
    BY <2>6
  <2> QED
    BY <1>1, <2>2, <2>3, <2>5, <2>6
       DEF OutboxNext, RunnerStep, ReadPreference, ClaimKey, SendReceipt,
           SendFails, ReleaseKey, Fault, Die
<1>2. OutboxInv /\ [OutboxNext]_outboxVars =>
        [\A n \in Notes : Allowed(n)]_outboxVars
  BY <1>1
<1> QED
  BY <1>2, OutboxInvariant, PTL DEF OutboxSpec, OnlyHolderRecords

-----------------------------------------------------------------------------
-----------------------------------------------------------------------------
(* THE TRIALS.

   An ending is written by who made the row say so, and he is alone in that;
   so is the notice.  Deliveries have no such row: those made and those under
   way are counted, and each but one of a trial whose claim is held was paid
   for by a mishap. *)

TrialRows ==
  [status : Endings \cup {"absent", "active"}, due : BOOLEAN,
   task : Schedulers \cup {Free}, notified : BOOLEAN,
   owner : Notifiers \cup {Free}, stale : BOOLEAN]
OperatorRows ==
  [at : {"idle", "mark", "note"}, trial : Trials \cup {"none"},
   ending : Endings \cup {"none"}]
SchedulerRows ==
  [at : {"idle", "claim", "mark", "note", "release"},
   trial : Trials \cup {"none"}, list : SUBSET Trials, lost : {FALSE}]
NotifierRows ==
  [at : {"idle", "claim", "send", "mark", "note", "release"},
   trial : Trials \cup {"none"}, list : SUBSET Trials, lost : BOOLEAN]

\* Whoever works on a trial, or is about to write of it, has one.
TrialInHand ==
  /\ \A o \in Operators :
       operator[o].at # "idle" =>
         operator[o].trial \in Trials /\ operator[o].ending \in Endings
  /\ \A s \in Schedulers :
       scheduler[s].at \notin {"idle", "claim"} => scheduler[s].trial \in Trials
  /\ \A p \in Notifiers :
       notifier[p].at \notin {"idle", "claim"} => notifier[p].trial \in Trials

TrialsTyped ==
  /\ trials \in [Trials -> TrialRows]
  /\ history \in [Trials -> [Entries -> Nat]]
  /\ deliveries \in [Trials -> Nat]
  /\ operator \in [Operators -> OperatorRows]
  /\ scheduler \in [Schedulers -> SchedulerRows]
  /\ notifier \in [Notifiers -> NotifierRows]
  /\ trialMishaps \in Nat /\ abandoned \subseteq Trials
  /\ TrialInHand

\* The writers of the interaction that tells a trial's ending or its notice.
OperatorNotes(o, t) == operator[o].at = "note" /\ operator[o].trial = t
SchedulerNotes(s, t) == scheduler[s].at = "note" /\ scheduler[s].trial = t
NotifierNotes(p, t) == notifier[p].at = "note" /\ notifier[p].trial = t

\* Who is about to write an ending made the row say so, and is alone in that.
EndingsToldOnce(t) ==
  /\ \A e \in Endings :
       history[t][e] \in {0, 1} /\ (history[t][e] = 1 => trials[t].status = e)
  /\ \A o \in Operators : OperatorNotes(o, t) =>
       /\ trials[t].status = operator[o].ending
       /\ history[t][operator[o].ending] = 0
       /\ \A other \in Operators : OperatorNotes(other, t) => other = o
       /\ \A s \in Schedulers : ~SchedulerNotes(s, t)
  /\ \A s \in Schedulers : SchedulerNotes(s, t) =>
       /\ trials[t].status = "expired" /\ history[t]["expired"] = 0
       /\ \A other \in Schedulers : SchedulerNotes(other, t) => other = s

NoticeToldOnce(t) ==
  /\ history[t]["notified"] \in {0, 1}
  /\ history[t]["notified"] = 1 => trials[t].notified
  /\ \A p \in Notifiers : NotifierNotes(p, t) =>
       /\ trials[t].notified /\ history[t]["notified"] = 0
       /\ \A other \in Notifiers : NotifierNotes(other, t) => other = p

TimelineInv == \A t \in Trials : EndingsToldOnce(t) /\ NoticeToldOnce(t)

\* The notifiers that have the delivery port at work for a trial.
Sends(p, t) == notifier[p].at = "send" /\ notifier[p].trial = t
Sending(t) == {p \in Notifiers : Sends(p, t)}

\* Nobody else can claim the trial: it is notified, or its owner is at work and
\* renews its claim.
Held(t) ==
  \/ trials[t].notified
  \/ /\ trials[t].owner \in Notifiers /\ ~trials[t].stale
     /\ LET p == trials[t].owner IN
        /\ notifier[p].trial = t /\ notifier[p].at \in {"send", "mark"}
        /\ ~notifier[p].lost

One(condition) == IF condition THEN 1 ELSE 0

\* Deliveries made and under way, but for one of a trial that is held, were
\* paid for.
PaidFor(t) ==
  /\ IsFiniteSet(Sending(t))
  /\ deliveries[t] + Cardinality(Sending(t)) <= trialMishaps + One(Held(t))

DeliveryInv ==
  /\ \A t \in Trials :
       /\ PaidFor(t)
       /\ trials[t].owner # Free =>
            trials[t].status = "expired" /\ ~trials[t].notified
       /\ trials[t].notified => deliveries[t] >= 1
  /\ \A p \in Notifiers : notifier[p].at = "mark" =>
       ~notifier[p].lost /\ deliveries[notifier[p].trial] >= 1

TrialsInv == TrialsTyped /\ TimelineInv /\ DeliveryInv

-----------------------------------------------------------------------------
(* Types *)

\* Each statement about a trial leaves a row of its type.
LEMMA RowUpdates ==
  ASSUME trials \in [Trials -> TrialRows], NEW t \in Trials,
         \/ UNCHANGED trials
         \/ \E status \in Endings \cup {"active"} :
              trials' = [trials EXCEPT ![t].status = status]
         \/ trials' = [trials EXCEPT ![t].due = TRUE]
         \/ \E task \in Schedulers \cup {Free} :
              trials' = [trials EXCEPT ![t].task = task]
         \/ \E owner \in Notifiers \cup {Free} :
              trials' = [trials EXCEPT ![t].owner = owner, ![t].stale = FALSE]
         \/ \E stale \in BOOLEAN : trials' = [trials EXCEPT ![t].stale = stale]
         \/ trials' = [trials EXCEPT ![t].notified = TRUE, ![t].owner = Free,
                                     ![t].stale = FALSE]
  PROVE  trials' \in [Trials -> TrialRows]
<1>1. trials[t] \in TrialRows
  OBVIOUS
<1>3. ASSUME NEW status \in Endings \cup {"active"},
             trials' = [trials EXCEPT ![t].status = status]
      PROVE  trials' \in [Trials -> TrialRows]
  <2>1. [trials[t] EXCEPT !.status = status] \in TrialRows
    BY <1>1 DEF TrialRows
  <2> QED
    BY <1>3, <2>1
<1>4. ASSUME trials' = [trials EXCEPT ![t].due = TRUE]
      PROVE  trials' \in [Trials -> TrialRows]
  <2>1. [trials[t] EXCEPT !.due = TRUE] \in TrialRows
    BY <1>1 DEF TrialRows
  <2> QED
    BY <1>4, <2>1
<1>5. ASSUME NEW task \in Schedulers \cup {Free},
             trials' = [trials EXCEPT ![t].task = task]
      PROVE  trials' \in [Trials -> TrialRows]
  <2>1. [trials[t] EXCEPT !.task = task] \in TrialRows
    BY <1>1 DEF TrialRows
  <2> QED
    BY <1>5, <2>1
<1>6. ASSUME NEW owner \in Notifiers \cup {Free},
             trials' = [trials EXCEPT ![t].owner = owner, ![t].stale = FALSE]
      PROVE  trials' \in [Trials -> TrialRows]
  <2>1. [trials[t] EXCEPT !.owner = owner, !.stale = FALSE] \in TrialRows
    BY <1>1 DEF TrialRows
  <2> QED
    BY <1>6, <2>1
<1>7. ASSUME NEW stale \in BOOLEAN,
             trials' = [trials EXCEPT ![t].stale = stale]
      PROVE  trials' \in [Trials -> TrialRows]
  <2>1. [trials[t] EXCEPT !.stale = stale] \in TrialRows
    BY <1>1 DEF TrialRows
  <2> QED
    BY <1>7, <2>1
<1>8. ASSUME trials' = [trials EXCEPT ![t].notified = TRUE, ![t].owner = Free,
                                      ![t].stale = FALSE]
      PROVE  trials' \in [Trials -> TrialRows]
  <2>1. [trials[t] EXCEPT !.notified = TRUE, !.owner = Free, !.stale = FALSE]
          \in TrialRows
    BY <1>1 DEF TrialRows
  <2> QED
    BY <1>8, <2>1
<1> QED
  BY <1>3, <1>4, <1>5, <1>6, <1>7, <1>8

\* What the statements leave of a row: the claim of its notification, and that
\* together with its status.
SameClaim(t) ==
  /\ trials'[t].notified = trials[t].notified
  /\ trials'[t].owner = trials[t].owner
  /\ trials'[t].stale = trials[t].stale
SameStatus(t) == trials'[t].status = trials[t].status

LEMMA StatusSet ==
  ASSUME trials \in [Trials -> TrialRows], NEW t \in Trials, NEW status,
         trials' = [trials EXCEPT ![t].status = status]
  PROVE  /\ trials'[t].status = status /\ SameClaim(t)
         /\ \A u \in Trials \ {t} : trials'[u] = trials[u]
<1> DEFINE row == [trials[t] EXCEPT !.status = status]
<1>1. trials[t] \in TrialRows
  OBVIOUS
<1>2. /\ row.status = status /\ row.notified = trials[t].notified
      /\ row.owner = trials[t].owner /\ row.stale = trials[t].stale
  BY <1>1 DEF TrialRows
<1>3. trials' = [trials EXCEPT ![t] = row]
  OBVIOUS
<1> HIDE DEF row
<1>4. trials'[t] = row /\ \A u \in Trials \ {t} : trials'[u] = trials[u]
  BY <1>3
<1> QED
  BY <1>2, <1>4 DEF SameClaim

LEMMA DueOrTaskSet ==
  ASSUME trials \in [Trials -> TrialRows], NEW t \in Trials,
         \/ trials' = [trials EXCEPT ![t].due = TRUE]
         \/ \E task \in Schedulers \cup {Free} :
              trials' = [trials EXCEPT ![t].task = task]
         \/ UNCHANGED trials
  PROVE  \A u \in Trials : SameClaim(u) /\ SameStatus(u)
<1>1. trials[t] \in TrialRows
  OBVIOUS
<1>2. ASSUME NEW row, trials' = [trials EXCEPT ![t] = row],
             row.status = trials[t].status, row.notified = trials[t].notified,
             row.owner = trials[t].owner, row.stale = trials[t].stale
      PROVE  \A u \in Trials : SameClaim(u) /\ SameStatus(u)
  <2>1. trials'[t] = row /\ \A u \in Trials \ {t} : trials'[u] = trials[u]
    BY <1>2
  <2> QED
    BY <1>2, <2>1 DEF SameClaim, SameStatus
<1>3. CASE trials' = [trials EXCEPT ![t].due = TRUE]
  <2> DEFINE row == [trials[t] EXCEPT !.due = TRUE]
  <2>1. /\ row.status = trials[t].status /\ row.notified = trials[t].notified
        /\ row.owner = trials[t].owner /\ row.stale = trials[t].stale
    BY <1>1 DEF TrialRows
  <2>2. trials' = [trials EXCEPT ![t] = row]
    BY <1>3
  <2> HIDE DEF row
  <2> QED
    BY <1>2, <2>1, <2>2
<1>4. ASSUME NEW task \in Schedulers \cup {Free},
             trials' = [trials EXCEPT ![t].task = task]
      PROVE  \A u \in Trials : SameClaim(u) /\ SameStatus(u)
  <2> DEFINE row == [trials[t] EXCEPT !.task = task]
  <2>1. /\ row.status = trials[t].status /\ row.notified = trials[t].notified
        /\ row.owner = trials[t].owner /\ row.stale = trials[t].stale
    BY <1>1 DEF TrialRows
  <2>2. trials' = [trials EXCEPT ![t] = row]
    BY <1>4
  <2> HIDE DEF row
  <2> QED
    BY <1>2, <2>1, <2>2
<1>5. CASE UNCHANGED trials
  BY <1>5 DEF SameClaim, SameStatus
<1> QED
  BY <1>3, <1>4, <1>5

LEMMA ClaimSet ==
  ASSUME trials \in [Trials -> TrialRows], NEW t \in Trials,
         NEW owner \in Notifiers \cup {Free}, NEW stale \in BOOLEAN,
         \/ trials' = [trials EXCEPT ![t].owner = owner, ![t].stale = stale]
         \/ /\ trials' = [trials EXCEPT ![t].stale = stale]
            /\ owner = trials[t].owner
  PROVE  /\ trials'[t].owner = owner /\ trials'[t].stale = stale
         /\ trials'[t].notified = trials[t].notified /\ SameStatus(t)
         /\ \A u \in Trials \ {t} : trials'[u] = trials[u]
<1>1. trials[t] \in TrialRows
  OBVIOUS
<1>2. ASSUME NEW row, trials' = [trials EXCEPT ![t] = row],
             row.status = trials[t].status, row.notified = trials[t].notified,
             row.owner = owner, row.stale = stale
      PROVE  /\ trials'[t].owner = owner /\ trials'[t].stale = stale
             /\ trials'[t].notified = trials[t].notified /\ SameStatus(t)
             /\ \A u \in Trials \ {t} : trials'[u] = trials[u]
  BY <1>2 DEF SameStatus
<1>3. CASE trials' = [trials EXCEPT ![t].owner = owner, ![t].stale = stale]
  <2> DEFINE row == [trials[t] EXCEPT !.owner = owner, !.stale = stale]
  <2>1. /\ row.status = trials[t].status /\ row.notified = trials[t].notified
        /\ row.owner = owner /\ row.stale = stale
    BY <1>1 DEF TrialRows
  <2>2. trials' = [trials EXCEPT ![t] = row]
    BY <1>3
  <2> HIDE DEF row
  <2> QED
    BY <1>2, <2>1, <2>2
<1>4. CASE /\ trials' = [trials EXCEPT ![t].stale = stale]
           /\ owner = trials[t].owner
  <2> DEFINE row == [trials[t] EXCEPT !.stale = stale]
  <2>1. /\ row.status = trials[t].status /\ row.notified = trials[t].notified
        /\ row.owner = owner /\ row.stale = stale
    BY <1>1, <1>4 DEF TrialRows
  <2>2. trials' = [trials EXCEPT ![t] = row]
    BY <1>4
  <2> HIDE DEF row
  <2> QED
    BY <1>2, <2>1, <2>2
<1> QED
  BY <1>3, <1>4

LEMMA NotifiedSet ==
  ASSUME trials \in [Trials -> TrialRows], NEW t \in Trials,
         trials' = [trials EXCEPT ![t].notified = TRUE, ![t].owner = Free,
                                  ![t].stale = FALSE]
  PROVE  /\ trials'[t].notified = TRUE /\ trials'[t].owner = Free
         /\ SameStatus(t)
         /\ \A u \in Trials \ {t} : trials'[u] = trials[u]
<1> DEFINE row == [trials[t] EXCEPT !.notified = TRUE, !.owner = Free,
                                    !.stale = FALSE]
<1>1. trials[t] \in TrialRows
  OBVIOUS
<1>2. /\ row.status = trials[t].status /\ row.notified = TRUE
      /\ row.owner = Free
  BY <1>1 DEF TrialRows
<1>3. trials' = [trials EXCEPT ![t] = row]
  OBVIOUS
<1> HIDE DEF row
<1>4. trials'[t] = row /\ \A u \in Trials \ {t} : trials'[u] = trials[u]
  BY <1>3
<1> QED
  BY <1>2, <1>4 DEF SameStatus

LEMMA OnwardTyped ==
  ASSUME NEW state, state.list \in SUBSET Trials
  PROVE  /\ Onward(state) \in SchedulerRows /\ Onward(state) \in NotifierRows
         /\ Onward(state).at \in {"idle", "claim"}
<1> DEFINE next == [Resting EXCEPT !.at = "claim", !.list = state.list]
<1>1. Resting \in SchedulerRows /\ Resting \in NotifierRows
      /\ Resting.at = "idle"
  BY DEF Resting, SchedulerRows, NotifierRows
<1>2. next \in SchedulerRows /\ next \in NotifierRows /\ next.at = "claim"
  BY DEF Resting, SchedulerRows, NotifierRows
<1> QED
  BY <1>1, <1>2 DEF Onward

LEMMA OperatorsTyped ==
  ASSUME TrialsTyped,
         \/ \E t \in Trials : Create(t) \/ EndPasses(t)
         \/ \E o \in Operators :
              \/ \E t \in Trials, e \in Endings : ResolveActive(o, t, e)
              \/ MarkEnded(o) \/ NoteEnded(o)
  PROVE  TrialsTyped'
<1> USE DEF TrialsTyped
<1>1. ASSUME NEW t \in Trials, Create(t) \/ EndPasses(t)
      PROVE  TrialsTyped'
  <2>1. trials' \in [Trials -> TrialRows]
    BY <1>1, RowUpdates DEF Create, EndPasses
  <2> QED
    BY <1>1, <2>1 DEF Create, EndPasses, TrialInHand
<1>2. ASSUME NEW o \in Operators, NEW t \in Trials, NEW e \in Endings,
             ResolveActive(o, t, e)
      PROVE  TrialsTyped'
  <2>1. operator' \in [Operators -> OperatorRows]
    BY <1>2 DEF ResolveActive, OperatorRows
  <2>2. TrialInHand'
    BY <1>2 DEF ResolveActive, TrialInHand
  <2> QED
    BY <1>2, <2>1, <2>2 DEF ResolveActive
<1>3. ASSUME NEW o \in Operators, MarkEnded(o)
      PROVE  TrialsTyped'
  <2>1. operator[o].trial \in Trials /\ operator[o].ending \in Endings
    BY <1>3 DEF MarkEnded, TrialInHand
  <2>2. trials' \in [Trials -> TrialRows]
    BY <1>3, <2>1, RowUpdates DEF MarkEnded
  <2>3. PICK next \in {NoRequest, [operator[o] EXCEPT !.at = "note"]} :
          operator' = [operator EXCEPT ![o] = next]
    BY <1>3 DEF MarkEnded
  <2>4. /\ next \in OperatorRows
        /\ next.at # "idle" => next.trial \in Trials /\ next.ending \in Endings
    <3>1. NoRequest \in OperatorRows /\ NoRequest.at = "idle"
      BY DEF NoRequest, OperatorRows
    <3> QED
      BY <2>1, <3>1 DEF OperatorRows
  <2>5. TrialInHand'
    BY <1>3, <2>3, <2>4 DEF MarkEnded, TrialInHand
  <2> QED
    BY <1>3, <2>2, <2>3, <2>4, <2>5 DEF MarkEnded
<1>4. ASSUME NEW o \in Operators, NoteEnded(o)
      PROVE  TrialsTyped'
  <2>1. operator[o].trial \in Trials /\ operator[o].ending \in Entries
    BY <1>4 DEF NoteEnded, TrialInHand, Entries
  <2>2. history' \in [Trials -> [Entries -> Nat]]
    BY <1>4, <2>1 DEF NoteEnded, Logged
  <2>3. operator' \in [Operators -> OperatorRows] /\ TrialInHand'
    BY <1>4 DEF NoteEnded, OperatorRows, NoRequest, TrialInHand
  <2> QED
    BY <1>4, <2>2, <2>3 DEF NoteEnded
<1> QED
  BY <1>1, <1>2, <1>3, <1>4

\* A scheduler's step to a row of its type, with the trial it has.
LEMMA SchedulerTyped ==
  ASSUME TrialsTyped, NEW s \in Schedulers, NEW next \in SchedulerRows,
         scheduler' = [scheduler EXCEPT ![s] = next],
         next.at \notin {"idle", "claim"} => next.trial \in Trials,
         UNCHANGED <<deliveries, operator, notifier>>,
         trials' \in [Trials -> TrialRows],
         history' \in [Trials -> [Entries -> Nat]],
         trialMishaps' \in Nat, abandoned' \subseteq Trials
  PROVE  TrialsTyped'
BY DEF TrialsTyped, TrialInHand

LEMMA TrialMishapTyped ==
  ASSUME TrialsTyped, TrialMishap
  PROVE  trialMishaps' \in Nat /\ trialMishaps' = trialMishaps + 1
BY DEF TrialsTyped, TrialMishap

LEMMA SchedulersTyped ==
  ASSUME TrialsTyped, NEW s \in Schedulers,
         SchedulerStep(s) \/ SchedulerFault(s) \/ SchedulerDies(s)
  PROVE  TrialsTyped'
<1> USE DEF TrialsTyped
<1>1. scheduler[s] \in SchedulerRows /\ scheduler[s].list \in SUBSET Trials
  BY DEF SchedulerRows
<1>2. CASE ListDue(s)
  <2> DEFINE next == [scheduler[s] EXCEPT !.at = "claim", !.list = Expirable]
  <2>1. next \in SchedulerRows /\ next.at = "claim"
    BY <1>1 DEF SchedulerRows, Expirable
  <2>2. scheduler' = [scheduler EXCEPT ![s] = next]
    BY <1>2 DEF ListDue
  <2> QED
    BY <1>2, <2>1, <2>2, SchedulerTyped DEF ListDue
<1>3. CASE ClaimExpiry(s)
  <2>1. PICK t \in scheduler[s].list :
          LET rest == [scheduler[s] EXCEPT !.list = scheduler[s].list \ {t}] IN
          IF t \in Expirable
          THEN /\ trials' = [trials EXCEPT ![t].task = s]
               /\ scheduler' = [scheduler EXCEPT ![s] =
                    [rest EXCEPT !.at = "mark", !.trial = t]]
          ELSE /\ scheduler' = [scheduler EXCEPT ![s] = Onward(rest)]
               /\ UNCHANGED trials
    BY <1>3 DEF ClaimExpiry
  <2> DEFINE rest == [scheduler[s] EXCEPT !.list = scheduler[s].list \ {t}]
             next == [rest EXCEPT !.at = "mark", !.trial = t]
  <2>2. t \in Trials
    BY <1>1
  <2>3. rest.list \in SUBSET Trials
    BY <1>1 DEF SchedulerRows
  <2>4. next \in SchedulerRows /\ next.at = "mark" /\ next.trial = t
    BY <1>1, <2>2 DEF SchedulerRows
  <2>5. CASE t \in Expirable
    <3>1. trials' \in [Trials -> TrialRows]
      BY <2>1, <2>2, <2>5, RowUpdates
    <3>2. scheduler' = [scheduler EXCEPT ![s] = next]
      BY <2>1, <2>5
    <3> HIDE DEF next
    <3> QED
      BY <1>3, <2>2, <2>4, <3>1, <3>2, SchedulerTyped DEF ClaimExpiry
  <2>6. CASE t \notin Expirable
    <3>1. scheduler' = [scheduler EXCEPT ![s] = Onward(rest)]
          /\ UNCHANGED trials
      BY <2>1, <2>6
    <3> HIDE DEF rest
    <3> QED
      BY <1>3, <2>3, <3>1, OnwardTyped, SchedulerTyped DEF ClaimExpiry
  <2> QED
    BY <2>5, <2>6
<1>4. CASE MarkExpired(s)
  <2>1. scheduler[s].trial \in Trials
    BY <1>4 DEF MarkExpired, TrialInHand
  <2>2. PICK label \in {"note", "release"} :
          scheduler' = [scheduler EXCEPT ![s].at = label]
    BY <1>4 DEF MarkExpired
  <2> DEFINE next == [scheduler[s] EXCEPT !.at = label]
  <2>3. /\ next \in SchedulerRows /\ next.trial \in Trials
        /\ scheduler' = [scheduler EXCEPT ![s] = next]
    BY <1>1, <2>1, <2>2 DEF SchedulerRows
  <2>4. trials' \in [Trials -> TrialRows]
    BY <1>4, <2>1, RowUpdates DEF MarkExpired, Endings
  <2> HIDE DEF next
  <2> QED
    BY <1>4, <2>3, <2>4, SchedulerTyped DEF MarkExpired
<1>5. CASE NoteExpired(s)
  <2>1. scheduler[s].trial \in Trials /\ "expired" \in Entries
    BY <1>5 DEF NoteExpired, TrialInHand, Entries, Endings
  <2>2. history' \in [Trials -> [Entries -> Nat]]
    BY <1>5, <2>1 DEF NoteExpired, Logged
  <2>3. scheduler' = [scheduler EXCEPT ![s] = Onward(scheduler[s])]
    BY <1>5 DEF NoteExpired
  <2> QED
    BY <1>1, <1>5, <2>2, <2>3, OnwardTyped, SchedulerTyped DEF NoteExpired
<1>6. CASE ReleaseExpiry(s)
  <2>1. scheduler[s].trial \in Trials
    BY <1>6 DEF ReleaseExpiry, TrialInHand
  <2>2. trials' \in [Trials -> TrialRows]
    BY <1>6, <2>1, RowUpdates DEF ReleaseExpiry
  <2>3. scheduler' = [scheduler EXCEPT ![s] = Onward(scheduler[s])]
    BY <1>6 DEF ReleaseExpiry
  <2> QED
    BY <1>1, <1>6, <2>2, <2>3, OnwardTyped, SchedulerTyped DEF ReleaseExpiry
<1>7. ASSUME Abandons(s), TrialMishap,
             UNCHANGED <<trials, history, deliveries, operator, notifier>>
      PROVE  TrialsTyped'
  <2>1. Resting \in SchedulerRows /\ Resting.at = "idle"
    BY DEF Resting, SchedulerRows
  <2> QED
    <3>1. abandoned' \subseteq Trials /\ trialMishaps' \in Nat
      BY <1>7, TrialMishapTyped DEF Abandons
    <3>2. scheduler' = [scheduler EXCEPT ![s] = Resting]
      BY <1>7 DEF Abandons
    <3> QED
      BY <1>7, <2>1, <3>1, <3>2, SchedulerTyped
<1>8. CASE SchedulerFault(s)
  <2>1. CASE scheduler[s].at = "release" /\ Abandons(s)
    BY <1>7, <1>8, <2>1 DEF SchedulerFault
  <2>2. CASE /\ scheduler[s].at \in {"mark", "note"}
             /\ scheduler' = [scheduler EXCEPT ![s].at = "release"]
             /\ UNCHANGED abandoned
    <3> DEFINE next == [scheduler[s] EXCEPT !.at = "release"]
    <3>1. /\ next \in SchedulerRows /\ next.trial \in Trials
          /\ scheduler' = [scheduler EXCEPT ![s] = next]
      BY <1>1, <2>2 DEF SchedulerRows, TrialInHand
    <3> HIDE DEF next
    <3> QED
      BY <1>8, <2>2, <3>1, SchedulerTyped, TrialMishapTyped
         DEF SchedulerFault
  <2> QED
    BY <1>8, <2>1, <2>2 DEF SchedulerFault
<1> QED
  BY <1>2, <1>3, <1>4, <1>5, <1>6, <1>7, <1>8 DEF SchedulerStep, SchedulerDies
LEMMA NotifierTyped ==
  ASSUME TrialsTyped, NEW p \in Notifiers, NEW next \in NotifierRows,
         notifier' = [notifier EXCEPT ![p] = next],
         next.at \notin {"idle", "claim"} => next.trial \in Trials,
         UNCHANGED <<operator, scheduler, abandoned>>,
         trials' \in [Trials -> TrialRows],
         history' \in [Trials -> [Entries -> Nat]],
         deliveries' \in [Trials -> Nat], trialMishaps' \in Nat
  PROVE  TrialsTyped'
BY DEF TrialsTyped, TrialInHand

\* A notifier's step to another label, with the trial it has.
LEMMA NotifierLabelled ==
  ASSUME TrialsTyped, NEW p \in Notifiers,
         notifier[p].at \notin {"idle", "claim"},
         NEW label \in {"send", "mark", "note", "release"}, NEW lost \in BOOLEAN
  PROVE  LET next == [notifier[p] EXCEPT !.at = label, !.lost = lost] IN
         /\ next \in NotifierRows
         /\ next.at = label /\ next.lost = lost
         /\ next.trial = notifier[p].trial /\ next.trial \in Trials
BY DEF TrialsTyped, TrialInHand, NotifierRows

LEMMA NotifiersTyped ==
  ASSUME TrialsTyped, NEW p \in Notifiers,
         \/ NotifierStep(p) \/ Renew(p) \/ Delivered(p) \/ NotDelivered(p)
         \/ NotifierFault(p)
  PROVE  TrialsTyped'
<1> USE DEF TrialsTyped, notifierFrame
<1>1. notifier[p] \in NotifierRows /\ notifier[p].list \in SUBSET Trials
  BY DEF NotifierRows
<1>2. notifier[p].at \notin {"idle", "claim"} => notifier[p].trial \in Trials
  BY DEF TrialInHand
<1>3. CASE ListExpired(p)
  <2> DEFINE next == [notifier[p] EXCEPT !.at = "claim", !.list = Notifiable]
  <2>1. next \in NotifierRows /\ next.at = "claim"
    BY <1>1 DEF NotifierRows, Notifiable
  <2>2. notifier' = [notifier EXCEPT ![p] = next]
    BY <1>3 DEF ListExpired
  <2> HIDE DEF next
  <2> QED
    BY <1>3, <2>1, <2>2, NotifierTyped DEF ListExpired
<1>4. CASE ClaimNotification(p)
  <2>1. PICK t \in notifier[p].list :
          IF t \in Notifiable
          THEN /\ ClaimedBy(p, t)
               /\ notifier' = [notifier EXCEPT ![p] =
                    [at |-> "send", trial |-> t,
                     list |-> notifier[p].list \ {t}, lost |-> FALSE]]
          ELSE /\ notifier' = [notifier EXCEPT ![p] =
                    Onward([notifier[p] EXCEPT !.list = @ \ {t}])]
               /\ UNCHANGED trials
    BY <1>4 DEF ClaimNotification
  <2>2. t \in Trials
    BY <1>1
  <2>3. CASE t \in Notifiable
    <3> DEFINE next == [at |-> "send", trial |-> t,
                        list |-> notifier[p].list \ {t}, lost |-> FALSE]
    <3>1. next \in NotifierRows /\ next.trial \in Trials
      BY <1>1, <2>2 DEF NotifierRows
    <3>2. trials' \in [Trials -> TrialRows]
      BY <2>1, <2>2, <2>3, RowUpdates DEF ClaimedBy
    <3>3. notifier' = [notifier EXCEPT ![p] = next]
      BY <2>1, <2>3
    <3> HIDE DEF next
    <3> QED
      BY <1>4, <3>1, <3>2, <3>3, NotifierTyped DEF ClaimNotification
  <2>4. CASE t \notin Notifiable
    <3> DEFINE rest == [notifier[p] EXCEPT !.list = notifier[p].list \ {t}]
    <3>1. rest.list \in SUBSET Trials
      BY <1>1 DEF NotifierRows
    <3>2. notifier' = [notifier EXCEPT ![p] = Onward(rest)]
          /\ UNCHANGED trials
      BY <2>1, <2>4
    <3> HIDE DEF rest
    <3> QED
      BY <1>4, <3>1, <3>2, OnwardTyped, NotifierTyped DEF ClaimNotification
  <2> QED
    BY <2>3, <2>4
<1>5. CASE Renew(p)
  <2> DEFINE next == [notifier[p] EXCEPT !.lost = TRUE]
  <2>1. trials' \in [Trials -> TrialRows]
    BY <1>2, <1>5, RowUpdates DEF Renew
  <2>2. /\ next \in NotifierRows /\ next.at = notifier[p].at
        /\ next.trial = notifier[p].trial
    BY <1>1 DEF NotifierRows
  <2>3. \/ notifier' = [notifier EXCEPT ![p] = next]
        \/ notifier' = [notifier EXCEPT ![p] = notifier[p]]
    BY <1>5 DEF Renew
  <2> HIDE DEF next
  <2> QED
    BY <1>1, <1>2, <1>5, <2>1, <2>2, <2>3, NotifierTyped DEF Renew
<1>6. ASSUME NEW label \in {"send", "mark", "note", "release"},
             notifier' = [notifier EXCEPT ![p].at = label],
             notifier[p].at \notin {"idle", "claim"},
             UNCHANGED <<history, notifierFrame>>,
             trials' \in [Trials -> TrialRows],
             deliveries' \in [Trials -> Nat], trialMishaps' \in Nat
      PROVE  TrialsTyped'
  <2> DEFINE next == [notifier[p] EXCEPT !.at = label]
  <2>1. /\ next \in NotifierRows /\ next.trial \in Trials
        /\ notifier' = [notifier EXCEPT ![p] = next]
    BY <1>1, <1>2, <1>6 DEF NotifierRows
  <2> HIDE DEF next
  <2> QED
    BY <1>6, <2>1, NotifierTyped
<1>7. CASE Delivered(p) \/ NotDelivered(p)
  <2>1. deliveries' \in [Trials -> Nat]
    BY <1>2, <1>7 DEF Delivered, NotDelivered
  <2> QED
    BY <1>6, <1>7, <2>1 DEF Delivered, NotDelivered
<1>8. CASE MarkNotified(p)
  <2>1. trials' \in [Trials -> TrialRows]
    BY <1>2, <1>8, RowUpdates DEF MarkNotified
  <2> QED
    BY <1>6, <1>8, <2>1 DEF MarkNotified
<1>9. CASE NoteNotified(p)
  <2>1. notifier[p].trial \in Trials /\ "notified" \in Entries
    BY <1>2, <1>9 DEF NoteNotified, Entries
  <2>2. history' \in [Trials -> [Entries -> Nat]]
    BY <1>9, <2>1 DEF NoteNotified, Logged
  <2>3. notifier' = [notifier EXCEPT ![p] = Onward(notifier[p])]
    BY <1>9 DEF NoteNotified
  <2> QED
    BY <1>1, <1>9, <2>2, <2>3, OnwardTyped, NotifierTyped DEF NoteNotified
<1>10. CASE ReleaseNotification(p)
  <2>1. trials' \in [Trials -> TrialRows]
    BY <1>2, <1>10, RowUpdates DEF ReleaseNotification
  <2>2. notifier' = [notifier EXCEPT ![p] = Onward(notifier[p])]
    BY <1>10 DEF ReleaseNotification
  <2> QED
    BY <1>1, <1>10, <2>1, <2>2, OnwardTyped, NotifierTyped
       DEF ReleaseNotification
<1>11. CASE NotifierFault(p)
  <2>1. trialMishaps' \in Nat
        /\ UNCHANGED <<trials, history, deliveries, notifierFrame>>
    BY <1>11, TrialMishapTyped DEF NotifierFault
  <2>2. CASE /\ notifier[p].at \in {"mark", "note"}
             /\ notifier' = [notifier EXCEPT ![p].at = "release"]
    BY <1>6, <2>1, <2>2
  <2>3. CASE /\ notifier[p].at = "send" /\ ~notifier[p].lost
             /\ notifier' = [notifier EXCEPT ![p].lost = TRUE]
    <3> DEFINE next == [notifier[p] EXCEPT !.lost = TRUE]
    <3>1. /\ next \in NotifierRows /\ next.trial \in Trials
          /\ notifier' = [notifier EXCEPT ![p] = next]
      BY <1>1, <1>2, <2>3 DEF NotifierRows
    <3> HIDE DEF next
    <3> QED
      BY <2>1, <3>1, NotifierTyped
  <2>4. CASE notifier' = [notifier EXCEPT ![p] = Resting]
    <3>1. Resting \in NotifierRows /\ Resting.at = "idle"
      BY DEF Resting, NotifierRows
    <3> QED
      BY <2>1, <2>4, <3>1, NotifierTyped
  <2> QED
    BY <1>11, <2>2, <2>3, <2>4 DEF NotifierFault
<1> QED
  BY <1>3, <1>4, <1>5, <1>7, <1>8, <1>9, <1>10, <1>11 DEF NotifierStep

LEMMA TrialsNextTyped == TrialsTyped /\ [TrialsNext]_trialVars => TrialsTyped'
<1> SUFFICES ASSUME TrialsTyped, [TrialsNext]_trialVars
             PROVE  TrialsTyped'
  OBVIOUS
<1>1. ASSUME NEW t \in Trials, GoesStale(t) \/ Overruns(t)
      PROVE  TrialsTyped'
  <2>1. trials' \in [Trials -> TrialRows]
    BY <1>1, RowUpdates DEF GoesStale, Overruns, TrialsTyped
  <2>2. trialMishaps' \in Nat
    BY <1>1, TrialMishapTyped DEF GoesStale, Overruns, TrialsTyped
  <2> QED
    BY <1>1, <2>1, <2>2 DEF GoesStale, Overruns, notifierFrame, TrialsTyped,
                            TrialInHand
<1>2. CASE UNCHANGED trialVars
  BY <1>2 DEF trialVars, TrialsTyped, TrialInHand
<1> QED
  BY <1>1, <1>2, OperatorsTyped, SchedulersTyped, NotifiersTyped
     DEF TrialsNext
-----------------------------------------------------------------------------
(* The timeline *)

\* Endings that are neither decided nor written stay as they are.
LEMMA EndingsStay ==
  ASSUME TrialsTyped, NEW t \in Trials, EndingsToldOnce(t),
         \A e \in Endings : history'[t][e] = history[t][e],
         trials[t].status \in Endings => trials'[t].status = trials[t].status,
         \A o \in Operators : OperatorNotes(o, t)' =>
           OperatorNotes(o, t) /\ operator'[o].ending = operator[o].ending,
         \A s \in Schedulers : SchedulerNotes(s, t)' => SchedulerNotes(s, t)
  PROVE  EndingsToldOnce(t)'
<1>1. \A o \in Operators : OperatorNotes(o, t) => operator[o].ending \in Endings
  BY DEF TrialsTyped, TrialInHand, OperatorNotes
<1>2. \A e \in Endings :
        /\ history'[t][e] \in {0, 1}
        /\ history'[t][e] = 1 => trials'[t].status = e
  BY DEF EndingsToldOnce
<1>3. ASSUME NEW o \in Operators, OperatorNotes(o, t)'
      PROVE  /\ trials'[t].status = operator'[o].ending
             /\ history'[t][operator'[o].ending] = 0
             /\ \A other \in Operators : OperatorNotes(other, t)' => other = o
             /\ \A s \in Schedulers : ~SchedulerNotes(s, t)'
  BY <1>1, <1>3 DEF EndingsToldOnce
<1>4. ASSUME NEW s \in Schedulers, SchedulerNotes(s, t)'
      PROVE  /\ trials'[t].status = "expired" /\ history'[t]["expired"] = 0
             /\ \A other \in Schedulers : SchedulerNotes(other, t)' => other = s
  BY <1>4 DEF EndingsToldOnce, Endings
<1> QED
  BY <1>2, <1>3, <1>4 DEF EndingsToldOnce

LEMMA NoticesStay ==
  ASSUME NEW t \in Trials, NoticeToldOnce(t),
         history'[t]["notified"] = history[t]["notified"],
         trials[t].notified => trials'[t].notified,
         \A p \in Notifiers : NotifierNotes(p, t)' => NotifierNotes(p, t)
  PROVE  NoticeToldOnce(t)'
BY DEF NoticeToldOnce

\* An interaction appended about one trial.
LEMMA LoggedOnce ==
  ASSUME TrialsTyped, NEW t \in Trials, NEW e \in Entries, Logged(t, e)
  PROVE  /\ history'[t][e] = history[t][e] + 1
         /\ \A u \in Trials, f \in Entries :
              u # t \/ f # e => history'[u][f] = history[u][f]
BY DEF TrialsTyped, Logged

\* An active trial has no ending yet, and nobody who writes one.
LEMMA NoEndingYet ==
  ASSUME TrialsTyped, NEW t \in Trials, EndingsToldOnce(t),
         trials[t].status = "active"
  PROVE  /\ \A e \in Endings : history[t][e] = 0
         /\ \A o \in Operators : ~OperatorNotes(o, t)
         /\ \A s \in Schedulers : ~SchedulerNotes(s, t)
<1>1. \A o \in Operators : OperatorNotes(o, t) => operator[o].ending \in Endings
  BY DEF TrialsTyped, TrialInHand, OperatorNotes
<1>2. "active" \notin Endings
  BY DEF Endings
<1> QED
  BY <1>1, <1>2 DEF EndingsToldOnce, Endings

LEMMA OperatorsTellOnce ==
  ASSUME TrialsTyped, TimelineInv,
         \/ \E t \in Trials : Create(t) \/ EndPasses(t)
         \/ \E o \in Operators :
              \/ \E t \in Trials, e \in Endings : ResolveActive(o, t, e)
              \/ MarkEnded(o) \/ NoteEnded(o)
  PROVE  TimelineInv'
<1> USE DEF TrialsTyped
<1>1. ASSUME NEW u \in Trials, UNCHANGED notifier, SameClaim(u),
             history'[u]["notified"] = history[u]["notified"]
      PROVE  NoticeToldOnce(u)'
  BY <1>1, NoticesStay DEF TimelineInv, NotifierNotes, SameClaim
<1>2. ASSUME NEW t \in Trials, Create(t) \/ EndPasses(t), NEW u \in Trials
      PROVE  EndingsToldOnce(u)' /\ NoticeToldOnce(u)'
  <2>1. UNCHANGED <<operator, scheduler, notifier, history>>
    BY <1>2 DEF Create, EndPasses
  <2>2. SameClaim(u) /\ (trials[u].status \in Endings => SameStatus(u))
    <3>1. CASE Create(t)
      BY <3>1, StatusSet DEF Create, Endings, SameStatus, SameClaim
    <3>2. CASE EndPasses(t)
      BY <3>2, DueOrTaskSet DEF EndPasses
    <3> QED
      BY <1>2, <3>1, <3>2
  <2> QED
    BY <1>1, <2>1, <2>2, EndingsStay
       DEF TimelineInv, OperatorNotes, SchedulerNotes, SameStatus
<1>3. ASSUME NEW o \in Operators, NEW t \in Trials, NEW e \in Endings,
             ResolveActive(o, t, e), NEW u \in Trials
      PROVE  EndingsToldOnce(u)' /\ NoticeToldOnce(u)'
  <2>1. UNCHANGED <<trials, scheduler, notifier, history>> /\ SameClaim(u)
    BY <1>3 DEF ResolveActive, SameClaim
  <2>2. \A other \in Operators : OperatorNotes(other, u)' =>
          /\ OperatorNotes(other, u)
          /\ operator'[other].ending = operator[other].ending
    BY <1>3 DEF ResolveActive, OperatorNotes
  <2> QED
    BY <1>1, <2>1, <2>2, EndingsStay DEF TimelineInv, SchedulerNotes
<1>4. ASSUME NEW o \in Operators, MarkEnded(o), NEW u \in Trials
      PROVE  EndingsToldOnce(u)' /\ NoticeToldOnce(u)'
  <2> DEFINE t == operator[o].trial
  <2>1. UNCHANGED <<scheduler, notifier, history>>
    BY <1>4 DEF MarkEnded
  <2>2. t \in Trials /\ operator[o].ending \in Endings
    BY <1>4 DEF MarkEnded, TrialInHand
  <2>3. \A other \in Operators \ {o} : operator'[other] = operator[other]
    BY <1>4 DEF MarkEnded
  <2>4. CASE trials[t].status # "active" \/ u # t
    <3>1. trials'[u] = trials[u] /\ SameClaim(u)
      BY <1>4, <2>2, <2>4, StatusSet DEF MarkEnded, SameClaim
    <3>2. ~OperatorNotes(o, u)'
      <4>1. CASE trials[t].status = "active"
        <5>1. operator'[o].trial = t
          BY <1>4, <4>1 DEF MarkEnded, OperatorRows
        <5> QED
          BY <2>4, <4>1, <5>1 DEF OperatorNotes
      <4>2. CASE trials[t].status # "active"
        BY <1>4, <4>2 DEF MarkEnded, OperatorNotes, NoRequest
      <4> QED
        BY <4>1, <4>2
    <3> QED
      BY <1>1, <2>1, <2>3, <3>1, <3>2, EndingsStay
         DEF TimelineInv, OperatorNotes, SchedulerNotes
  <2>5. CASE trials[t].status = "active" /\ u = t
    <3>1. /\ trials'[u].status = operator[o].ending
          /\ operator'[o].at = "note" /\ operator'[o].trial = u
          /\ operator'[o].ending = operator[o].ending
          /\ SameClaim(u)
      <4>1. /\ trials' = [trials EXCEPT ![t].status = operator[o].ending]
            /\ operator' = [operator EXCEPT ![o].at = "note"]
        BY <1>4, <2>5 DEF MarkEnded
      <4>2. /\ operator'[o].at = "note" /\ operator'[o].trial = u
            /\ operator'[o].ending = operator[o].ending
        BY <2>5, <4>1 DEF OperatorRows
      <4> QED
        BY <2>2, <2>5, <4>1, <4>2, StatusSet
    <3>2. /\ \A e \in Endings : history[u][e] = 0
          /\ \A other \in Operators : ~OperatorNotes(other, u)
          /\ \A s \in Schedulers : ~SchedulerNotes(s, u)
      BY <2>5, NoEndingYet DEF TimelineInv
    <3>3. \A other \in Operators : OperatorNotes(other, u)' => other = o
      BY <2>3, <3>2 DEF OperatorNotes
    <3>4. \A s \in Schedulers : ~SchedulerNotes(s, u)'
      BY <2>1, <3>2 DEF SchedulerNotes
    <3>5. EndingsToldOnce(u)'
      BY <2>1, <2>2, <3>1, <3>2, <3>3, <3>4 DEF EndingsToldOnce
    <3> QED
      BY <1>1, <2>1, <3>1, <3>5
  <2> QED
    BY <2>4, <2>5
<1>5. ASSUME NEW o \in Operators, NoteEnded(o), NEW u \in Trials
      PROVE  EndingsToldOnce(u)' /\ NoticeToldOnce(u)'
  <2>1. UNCHANGED <<trials, scheduler, notifier>> /\ SameClaim(u)
    BY <1>5 DEF NoteEnded, SameClaim
  <2>2. PICK t \in Trials, e \in Endings :
          t = operator[o].trial /\ e = operator[o].ending
    BY <1>5 DEF NoteEnded, TrialInHand
  <2>3. e \in Entries /\ e # "notified"
    BY DEF Entries, Endings
  <2>4. Logged(t, e)
    BY <1>5, <2>2 DEF NoteEnded
  <2>5. /\ history'[t][e] = history[t][e] + 1
        /\ \A v \in Trials, f \in Entries :
             v # t \/ f # e => history'[v][f] = history[v][f]
    BY <2>3, <2>4, LoggedOnce
  <2>6. "notified" \in Entries /\ Endings \subseteq Entries
    BY DEF Entries
  <2>7. NoticeToldOnce(u)'
    BY <1>1, <2>1, <2>3, <2>5, <2>6
  <2>8. /\ \A other \in Operators \ {o} : operator'[other] = operator[other]
        /\ operator'[o].at = "idle"
    BY <1>5 DEF NoteEnded, NoRequest
  <2>9. CASE u # t
    <3>1. \A f \in Endings : history'[u][f] = history[u][f]
      BY <2>5, <2>6, <2>9
    <3>2. \A other \in Operators : OperatorNotes(other, u)' =>
            /\ OperatorNotes(other, u)
            /\ operator'[other].ending = operator[other].ending
      BY <2>8 DEF OperatorNotes
    <3> QED
      BY <2>1, <2>7, <3>1, <3>2, EndingsStay DEF TimelineInv, SchedulerNotes
  <2>10. CASE u = t
    <3>1. OperatorNotes(o, u)
      BY <1>5, <2>2, <2>10 DEF NoteEnded, OperatorNotes
    <3>2. /\ trials[u].status = e /\ history[u][e] = 0
          /\ \A other \in Operators : OperatorNotes(other, u) => other = o
          /\ \A s \in Schedulers : ~SchedulerNotes(s, u)
      BY <2>2, <3>1 DEF TimelineInv, EndingsToldOnce
    <3>3. \A other \in Operators : ~OperatorNotes(other, u)'
      BY <2>8, <3>2 DEF OperatorNotes
    <3>4. \A s \in Schedulers : ~SchedulerNotes(s, u)'
      BY <2>1, <3>2 DEF SchedulerNotes
    <3>5. \A f \in Endings : /\ history'[u][f] \in {0, 1}
                             /\ history'[u][f] = 1 => trials'[u].status = f
      BY <2>1, <2>5, <2>6, <2>10, <3>2 DEF TimelineInv, EndingsToldOnce
    <3> QED
      BY <2>7, <3>3, <3>4, <3>5 DEF EndingsToldOnce
  <2> QED
    BY <2>9, <2>10
<1> QED
  BY <1>2, <1>3, <1>4, <1>5 DEF TimelineInv
\* A scheduler's step that decides no ending and writes none.
LEMMA SchedulerQuiet ==
  ASSUME TrialsTyped, TimelineInv, NEW s \in Schedulers, NEW next,
         scheduler' = [scheduler EXCEPT ![s] = next], next.at # "note",
         UNCHANGED <<operator, notifier, history>>,
         \A u \in Trials : SameClaim(u) /\ SameStatus(u)
  PROVE  TimelineInv'
<1>1. ASSUME NEW u \in Trials, NEW r \in Schedulers, SchedulerNotes(r, u)'
      PROVE  SchedulerNotes(r, u)
  BY <1>1 DEF TrialsTyped, SchedulerNotes
<1> QED
  BY <1>1, EndingsStay, NoticesStay
     DEF TimelineInv, OperatorNotes, NotifierNotes, SameClaim, SameStatus

LEMMA SchedulersTellOnce ==
  ASSUME TrialsTyped, TimelineInv, NEW s \in Schedulers,
         SchedulerStep(s) \/ SchedulerFault(s) \/ SchedulerDies(s)
  PROVE  TimelineInv'
<1> USE DEF TrialsTyped
<1>1. scheduler[s] \in SchedulerRows /\ scheduler[s].list \in SUBSET Trials
  BY DEF SchedulerRows
<1>2. ASSUME UNCHANGED trials
      PROVE  \A u \in Trials : SameClaim(u) /\ SameStatus(u)
  BY <1>2 DEF SameClaim, SameStatus
<1>3. CASE ListDue(s)
  <2> DEFINE next == [scheduler[s] EXCEPT !.at = "claim", !.list = Expirable]
  <2>1. next.at # "note"
    BY <1>1 DEF SchedulerRows
  <2>2. scheduler' = [scheduler EXCEPT ![s] = next]
    BY <1>3 DEF ListDue
  <2> HIDE DEF next
  <2> QED
    BY <1>2, <1>3, <2>1, <2>2, SchedulerQuiet DEF ListDue
<1>4. CASE ClaimExpiry(s)
  <2>1. PICK t \in scheduler[s].list :
          LET rest == [scheduler[s] EXCEPT !.list = scheduler[s].list \ {t}] IN
          IF t \in Expirable
          THEN /\ trials' = [trials EXCEPT ![t].task = s]
               /\ scheduler' = [scheduler EXCEPT ![s] =
                    [rest EXCEPT !.at = "mark", !.trial = t]]
          ELSE /\ scheduler' = [scheduler EXCEPT ![s] = Onward(rest)]
               /\ UNCHANGED trials
    BY <1>4 DEF ClaimExpiry
  <2> DEFINE rest == [scheduler[s] EXCEPT !.list = scheduler[s].list \ {t}]
             next == [rest EXCEPT !.at = "mark", !.trial = t]
  <2>2. rest.list \in SUBSET Trials /\ next.at # "note" /\ t \in Trials
    BY <1>1 DEF SchedulerRows
  <2>3. Onward(rest).at # "note"
    <3> HIDE DEF rest
    <3> QED
      BY <2>2, OnwardTyped
  <2>4. \A u \in Trials : SameClaim(u) /\ SameStatus(u)
    BY <2>1, <2>2, DueOrTaskSet
  <2>5. \E row : row.at # "note" /\ scheduler' = [scheduler EXCEPT ![s] = row]
    BY <2>1, <2>2, <2>3
  <2> QED
    BY <1>4, <2>4, <2>5, SchedulerQuiet DEF ClaimExpiry
<1>5. CASE MarkExpired(s) /\ ~Claimed(s)
  <2> DEFINE next == [scheduler[s] EXCEPT !.at = "release"]
  <2>1. next.at # "note"
    BY <1>1 DEF SchedulerRows
  <2>2. scheduler' = [scheduler EXCEPT ![s] = next] /\ UNCHANGED trials
    BY <1>5 DEF MarkExpired
  <2> HIDE DEF next
  <2> QED
    BY <1>2, <1>5, <2>1, <2>2, SchedulerQuiet DEF MarkExpired
<1>6. ASSUME MarkExpired(s), Claimed(s), NEW u \in Trials
      PROVE  EndingsToldOnce(u)' /\ NoticeToldOnce(u)'
  <2>1. PICK t \in Trials : t = scheduler[s].trial
    BY <1>6 DEF MarkExpired, TrialInHand
  <2>2. /\ trials' = [trials EXCEPT ![t].status = "expired"]
        /\ scheduler' = [scheduler EXCEPT ![s].at = "note"]
        /\ trials[t].status = "active"
        /\ UNCHANGED <<operator, notifier, history>>
    BY <1>6, <2>1 DEF MarkExpired, Claimed
  <2>3. /\ scheduler'[s].at = "note" /\ scheduler'[s].trial = t
        /\ \A r \in Schedulers \ {s} : scheduler'[r] = scheduler[r]
    BY <1>1, <2>1, <2>2 DEF SchedulerRows
  <2>4. /\ trials'[t].status = "expired" /\ SameClaim(t)
        /\ \A v \in Trials \ {t} : trials'[v] = trials[v]
    BY <2>2, StatusSet
  <2>5. SameClaim(u)
    BY <2>4 DEF SameClaim
  <2>6. NoticeToldOnce(u)'
    BY <2>2, <2>5, NoticesStay DEF TimelineInv, NotifierNotes, SameClaim
  <2>7. CASE u # t
    <3>1. \A r \in Schedulers : SchedulerNotes(r, u)' => SchedulerNotes(r, u)
      BY <2>3, <2>7 DEF SchedulerNotes
    <3>2. trials'[u].status = trials[u].status
      BY <2>4, <2>7
    <3> QED
      BY <2>2, <2>6, <3>1, <3>2, EndingsStay DEF TimelineInv, OperatorNotes
  <2>8. CASE u = t
    <3>1. /\ \A e \in Endings : history[u][e] = 0
          /\ \A o \in Operators : ~OperatorNotes(o, u)
          /\ \A r \in Schedulers : ~SchedulerNotes(r, u)
      BY <2>2, <2>8, NoEndingYet DEF TimelineInv
    <3>2. \A o \in Operators : ~OperatorNotes(o, u)'
      BY <2>2, <3>1 DEF OperatorNotes
    <3>3. \A r \in Schedulers : SchedulerNotes(r, u)' => r = s
      BY <2>3, <3>1 DEF SchedulerNotes
    <3>4. EndingsToldOnce(u)'
      BY <2>2, <2>4, <2>8, <3>1, <3>2, <3>3 DEF EndingsToldOnce, Endings
    <3> QED
      BY <2>6, <3>4
  <2> QED
    BY <2>7, <2>8
<1>7. ASSUME NoteExpired(s), NEW u \in Trials
      PROVE  EndingsToldOnce(u)' /\ NoticeToldOnce(u)'
  <2>1. PICK t \in Trials : t = scheduler[s].trial
    BY <1>7 DEF NoteExpired, TrialInHand
  <2>2. /\ Logged(t, "expired") /\ UNCHANGED <<trials, operator, notifier>>
        /\ scheduler' = [scheduler EXCEPT ![s] = Onward(scheduler[s])]
    BY <1>7, <2>1 DEF NoteExpired
  <2>3. /\ "expired" \in Entries /\ "notified" \in Entries
        /\ Endings \subseteq Entries /\ "expired" \in Endings
    BY DEF Entries, Endings
  <2>4. /\ history'[t]["expired"] = history[t]["expired"] + 1
        /\ \A v \in Trials, f \in Entries :
             v # t \/ f # "expired" => history'[v][f] = history[v][f]
    BY <2>2, <2>3, LoggedOnce
  <2>5. /\ scheduler'[s].at # "note"
        /\ \A r \in Schedulers \ {s} : scheduler'[r] = scheduler[r]
    BY <1>1, <2>2, OnwardTyped
  <2>6. NoticeToldOnce(u)'
    BY <2>2, <2>3, <2>4, NoticesStay DEF TimelineInv, NotifierNotes
  <2>7. CASE u # t
    <3>1. \A f \in Endings : history'[u][f] = history[u][f]
      BY <2>3, <2>4, <2>7
    <3>2. \A r \in Schedulers : SchedulerNotes(r, u)' => SchedulerNotes(r, u)
      BY <2>5 DEF SchedulerNotes
    <3> QED
      BY <2>2, <2>6, <3>1, <3>2, EndingsStay DEF TimelineInv, OperatorNotes
  <2>8. CASE u = t
    <3>1. SchedulerNotes(s, u)
      BY <1>7, <2>1, <2>8 DEF NoteExpired, SchedulerNotes
    <3>2. /\ trials[u].status = "expired" /\ history[u]["expired"] = 0
          /\ \A r \in Schedulers : SchedulerNotes(r, u) => r = s
          /\ \A o \in Operators : ~OperatorNotes(o, u)
      BY <3>1 DEF TimelineInv, EndingsToldOnce
    <3>3. \A r \in Schedulers : ~SchedulerNotes(r, u)'
      BY <2>5, <3>2 DEF SchedulerNotes
    <3>4. \A o \in Operators : ~OperatorNotes(o, u)'
      BY <2>2, <3>2 DEF OperatorNotes
    <3>5. \A f \in Endings : /\ history'[u][f] \in {0, 1}
                             /\ history'[u][f] = 1 => trials'[u].status = f
      BY <2>2, <2>3, <2>4, <2>8, <3>2 DEF TimelineInv, EndingsToldOnce
    <3> QED
      BY <2>6, <3>3, <3>4, <3>5 DEF EndingsToldOnce
  <2> QED
    BY <2>7, <2>8
<1>8. CASE ReleaseExpiry(s)
  <2>1. scheduler' = [scheduler EXCEPT ![s] = Onward(scheduler[s])]
    BY <1>8 DEF ReleaseExpiry
  <2>2. Onward(scheduler[s]).at # "note"
    BY <1>1, OnwardTyped
  <2>3. scheduler[s].trial \in Trials
    BY <1>8 DEF ReleaseExpiry, TrialInHand
  <2>4. \A u \in Trials : SameClaim(u) /\ SameStatus(u)
    BY <1>8, <2>3, DueOrTaskSet DEF ReleaseExpiry
  <2> QED
    BY <1>8, <2>1, <2>2, <2>4, SchedulerQuiet DEF ReleaseExpiry
<1>9. CASE SchedulerFault(s) \/ SchedulerDies(s)
  <2> DEFINE next == [scheduler[s] EXCEPT !.at = "release"]
  <2>1. next.at # "note" /\ Resting.at # "note"
    BY <1>1 DEF SchedulerRows, Resting
  <2>2. \/ scheduler' = [scheduler EXCEPT ![s] = next]
        \/ scheduler' = [scheduler EXCEPT ![s] = Resting]
    BY <1>9 DEF SchedulerFault, SchedulerDies, Abandons
  <2>3. UNCHANGED <<trials, history, operator, notifier>>
    BY <1>9 DEF SchedulerFault, SchedulerDies
  <2> HIDE DEF next
  <2> QED
    BY <1>2, <2>1, <2>2, <2>3, SchedulerQuiet
<1> QED
  BY <1>3, <1>4, <1>5, <1>6, <1>7, <1>8, <1>9 DEF SchedulerStep, TimelineInv

\* A notifier's step that notifies nobody.
LEMMA NotifierQuiet ==
  ASSUME TrialsTyped, TimelineInv, NEW p \in Notifiers, NEW next,
         notifier' = [notifier EXCEPT ![p] = next], next.at # "note",
         UNCHANGED <<operator, scheduler, history>>,
         \A u \in Trials :
           SameStatus(u) /\ trials'[u].notified = trials[u].notified
  PROVE  TimelineInv'
<1>1. ASSUME NEW u \in Trials, NEW r \in Notifiers, NotifierNotes(r, u)'
      PROVE  NotifierNotes(r, u)
  BY <1>1 DEF TrialsTyped, NotifierNotes
<1> QED
  BY <1>1, EndingsStay, NoticesStay
     DEF TimelineInv, OperatorNotes, SchedulerNotes, SameStatus

LEMMA NotifiersTellOnce ==
  ASSUME TrialsTyped, TimelineInv, NEW p \in Notifiers,
         \/ NotifierStep(p) \/ Renew(p) \/ Delivered(p) \/ NotDelivered(p)
         \/ NotifierFault(p)
  PROVE  TimelineInv'
<1> USE DEF TrialsTyped, notifierFrame
<1> DEFINE RowsStand == \A u \in Trials :
             SameStatus(u) /\ trials'[u].notified = trials[u].notified
<1>1. notifier[p] \in NotifierRows /\ notifier[p].list \in SUBSET Trials
  BY DEF NotifierRows
<1>2. notifier[p].at \notin {"idle", "claim"} => notifier[p].trial \in Trials
  BY DEF TrialInHand
<1>3. UNCHANGED trials => RowsStand
  BY DEF SameStatus
<1>4. ASSUME NEW t \in Trials,
             \/ trials' = [trials EXCEPT ![t].stale = FALSE]
             \/ \E owner \in Notifiers \cup {Free} : trials' =
                  [trials EXCEPT ![t].owner = owner, ![t].stale = FALSE]
             \/ UNCHANGED trials
      PROVE  RowsStand
  <2>1. trials[t].owner \in Notifiers \cup {Free}
    BY DEF TrialRows
  <2> QED
    BY <1>3, <1>4, <2>1, ClaimSet DEF SameStatus
<1> HIDE DEF RowsStand
<1>5. ASSUME NEW next, notifier' = [notifier EXCEPT ![p] = next],
             next.at # "note", UNCHANGED <<operator, scheduler, history>>,
             RowsStand
      PROVE  TimelineInv'
  BY <1>5, NotifierQuiet DEF RowsStand
<1>6. CASE ListExpired(p)
  <2> DEFINE next == [notifier[p] EXCEPT !.at = "claim", !.list = Notifiable]
  <2>1. next.at # "note"
    BY <1>1 DEF NotifierRows
  <2>2. notifier' = [notifier EXCEPT ![p] = next]
    BY <1>6 DEF ListExpired
  <2> HIDE DEF next
  <2> QED
    BY <1>3, <1>5, <1>6, <2>1, <2>2 DEF ListExpired
<1>7. CASE ClaimNotification(p)
  <2>1. PICK t \in notifier[p].list :
          IF t \in Notifiable
          THEN /\ ClaimedBy(p, t)
               /\ notifier' = [notifier EXCEPT ![p] =
                    [at |-> "send", trial |-> t,
                     list |-> notifier[p].list \ {t}, lost |-> FALSE]]
          ELSE /\ notifier' = [notifier EXCEPT ![p] =
                    Onward([notifier[p] EXCEPT !.list = @ \ {t}])]
               /\ UNCHANGED trials
    BY <1>7 DEF ClaimNotification
  <2> DEFINE rest == [notifier[p] EXCEPT !.list = notifier[p].list \ {t}]
             next == [at |-> "send", trial |-> t,
                      list |-> notifier[p].list \ {t}, lost |-> FALSE]
  <2>2. rest.list \in SUBSET Trials /\ next.at # "note" /\ t \in Trials
    BY <1>1 DEF NotifierRows
  <2>3. Onward(rest).at # "note"
    <3> HIDE DEF rest
    <3> QED
      BY <2>2, OnwardTyped
  <2>4. RowsStand
    BY <1>4, <2>1, <2>2 DEF ClaimedBy
  <2>5. \E row : row.at # "note" /\ notifier' = [notifier EXCEPT ![p] = row]
    BY <2>1, <2>2, <2>3
  <2> QED
    BY <1>5, <1>7, <2>4, <2>5 DEF ClaimNotification
<1>8. CASE Renew(p)
  <2> DEFINE next == [notifier[p] EXCEPT !.lost = TRUE]
  <2>1. next.at # "note" /\ notifier[p].at # "note"
    BY <1>1, <1>8 DEF Renew, NotifierRows
  <2>2. \/ notifier' = [notifier EXCEPT ![p] = next]
        \/ notifier' = [notifier EXCEPT ![p] = notifier[p]]
    BY <1>8 DEF Renew
  <2>3. RowsStand
    BY <1>2, <1>4, <1>8 DEF Renew
  <2> HIDE DEF next
  <2> QED
    BY <1>5, <1>8, <2>1, <2>2, <2>3 DEF Renew
<1>9. ASSUME NEW label \in {"mark", "release"},
             notifier' = [notifier EXCEPT ![p].at = label],
             UNCHANGED <<operator, scheduler, history>>, RowsStand
      PROVE  TimelineInv'
  <2> DEFINE next == [notifier[p] EXCEPT !.at = label]
  <2>1. next.at # "note" /\ notifier' = [notifier EXCEPT ![p] = next]
    BY <1>1, <1>9 DEF NotifierRows
  <2> HIDE DEF next
  <2> QED
    BY <1>5, <1>9, <2>1
<1>10. CASE Delivered(p) \/ NotDelivered(p)
  BY <1>3, <1>9, <1>10 DEF Delivered, NotDelivered
<1>11. CASE MarkNotified(p) /\ ~Owns(p)
  BY <1>3, <1>9, <1>11 DEF MarkNotified
<1>12. ASSUME MarkNotified(p), Owns(p), NEW u \in Trials
       PROVE  EndingsToldOnce(u)' /\ NoticeToldOnce(u)'
  <2>1. PICK t \in Trials : t = notifier[p].trial
    BY <1>2, <1>12 DEF MarkNotified
  <2>2. /\ trials' = [trials EXCEPT ![t].notified = TRUE, ![t].owner = Free,
                                    ![t].stale = FALSE]
        /\ notifier' = [notifier EXCEPT ![p].at = "note"]
        /\ ~trials[t].notified
        /\ UNCHANGED <<operator, scheduler, history>>
    BY <1>12, <2>1 DEF MarkNotified, Owns
  <2>3. /\ notifier'[p].trial = t
        /\ \A r \in Notifiers \ {p} : notifier'[r] = notifier[r]
    BY <1>1, <2>1, <2>2 DEF NotifierRows
  <2>4. /\ trials'[t].notified = TRUE /\ SameStatus(t)
        /\ \A v \in Trials \ {t} : trials'[v] = trials[v]
    BY <2>2, NotifiedSet
  <2>5. EndingsToldOnce(u)'
    BY <2>2, <2>4, EndingsStay
       DEF TimelineInv, SameStatus, OperatorNotes, SchedulerNotes
  <2>6. CASE u # t
    <3>1. \A r \in Notifiers : NotifierNotes(r, u)' => NotifierNotes(r, u)
      BY <2>3, <2>6 DEF NotifierNotes
    <3> QED
      BY <2>2, <2>4, <2>5, <2>6, <3>1, NoticesStay DEF TimelineInv
  <2>7. CASE u = t
    <3>1. /\ history[u]["notified"] = 0
          /\ \A r \in Notifiers : ~NotifierNotes(r, u)
      BY <2>2, <2>7 DEF TimelineInv, NoticeToldOnce
    <3>2. \A r \in Notifiers : NotifierNotes(r, u)' => r = p
      BY <2>3, <3>1 DEF NotifierNotes
    <3> QED
      BY <2>2, <2>4, <2>5, <2>7, <3>1, <3>2 DEF NoticeToldOnce
  <2> QED
    BY <2>6, <2>7
<1>13. ASSUME NoteNotified(p), NEW u \in Trials
       PROVE  EndingsToldOnce(u)' /\ NoticeToldOnce(u)'
  <2>1. PICK t \in Trials : t = notifier[p].trial
    BY <1>2, <1>13 DEF NoteNotified
  <2>2. /\ Logged(t, "notified") /\ UNCHANGED <<trials, operator, scheduler>>
        /\ notifier' = [notifier EXCEPT ![p] = Onward(notifier[p])]
    BY <1>13, <2>1 DEF NoteNotified
  <2>3. /\ "notified" \in Entries /\ Endings \subseteq Entries
        /\ "notified" \notin Endings
    BY DEF Entries, Endings
  <2>4. /\ history'[t]["notified"] = history[t]["notified"] + 1
        /\ \A v \in Trials, f \in Entries :
             v # t \/ f # "notified" => history'[v][f] = history[v][f]
    BY <2>2, <2>3, LoggedOnce
  <2>5. /\ notifier'[p].at # "note"
        /\ \A r \in Notifiers \ {p} : notifier'[r] = notifier[r]
    BY <1>1, <2>2, OnwardTyped
  <2>6. EndingsToldOnce(u)'
    BY <2>2, <2>3, <2>4, EndingsStay
       DEF TimelineInv, OperatorNotes, SchedulerNotes
  <2>7. CASE u # t
    <3>1. \A r \in Notifiers : NotifierNotes(r, u)' => NotifierNotes(r, u)
      BY <2>5 DEF NotifierNotes
    <3> QED
      BY <2>2, <2>3, <2>4, <2>6, <2>7, <3>1, NoticesStay DEF TimelineInv
  <2>8. CASE u = t
    <3>1. NotifierNotes(p, u)
      BY <1>13, <2>1, <2>8 DEF NoteNotified, NotifierNotes
    <3>2. /\ trials[u].notified /\ history[u]["notified"] = 0
          /\ \A r \in Notifiers : NotifierNotes(r, u) => r = p
      BY <3>1 DEF TimelineInv, NoticeToldOnce
    <3>3. \A r \in Notifiers : ~NotifierNotes(r, u)'
      BY <2>5, <3>2 DEF NotifierNotes
    <3> QED
      BY <2>2, <2>4, <2>6, <2>8, <3>2, <3>3 DEF NoticeToldOnce
  <2> QED
    BY <2>7, <2>8
<1>14. CASE ReleaseNotification(p)
  <2>1. notifier' = [notifier EXCEPT ![p] = Onward(notifier[p])]
    BY <1>14 DEF ReleaseNotification
  <2>2. Onward(notifier[p]).at # "note"
    BY <1>1, OnwardTyped
  <2>3. RowsStand
    BY <1>2, <1>4, <1>14 DEF ReleaseNotification
  <2> QED
    BY <1>5, <1>14, <2>1, <2>2, <2>3 DEF ReleaseNotification
<1>15. CASE NotifierFault(p)
  <2>1. RowsStand /\ UNCHANGED <<operator, scheduler, history>>
    BY <1>3, <1>15 DEF NotifierFault
  <2>2. CASE notifier' = [notifier EXCEPT ![p].at = "release"]
    BY <1>9, <2>1, <2>2
  <2>3. CASE notifier[p].at = "send"
             /\ notifier' = [notifier EXCEPT ![p].lost = TRUE]
    <3> DEFINE next == [notifier[p] EXCEPT !.lost = TRUE]
    <3>1. next.at # "note" /\ notifier' = [notifier EXCEPT ![p] = next]
      BY <1>1, <2>3 DEF NotifierRows
    <3> HIDE DEF next
    <3> QED
      BY <1>5, <2>1, <3>1
  <2>4. CASE notifier' = [notifier EXCEPT ![p] = Resting]
    <3>1. Resting.at # "note"
      BY DEF Resting
    <3> QED
      BY <1>5, <2>1, <2>4, <3>1
  <2> QED
    BY <1>15, <2>2, <2>3, <2>4 DEF NotifierFault
<1> QED
  BY <1>6, <1>7, <1>8, <1>10, <1>11, <1>12, <1>13, <1>14, <1>15
     DEF NotifierStep, TimelineInv

LEMMA TimelineNextKeeps ==
  TrialsTyped /\ TimelineInv /\ [TrialsNext]_trialVars => TimelineInv'
<1> SUFFICES ASSUME TrialsTyped, TimelineInv, [TrialsNext]_trialVars
             PROVE  TimelineInv'
  OBVIOUS
<1>1. ASSUME NEW t \in Trials, GoesStale(t) \/ Overruns(t)
      PROVE  TimelineInv'
  <2>1. trials[t].owner \in Notifiers \cup {Free}
        /\ trials \in [Trials -> TrialRows]
    BY DEF TrialsTyped, TrialRows
  <2>2. \A u \in Trials :
          SameStatus(u) /\ trials'[u].notified = trials[u].notified
    BY <1>1, <2>1, ClaimSet DEF GoesStale, Overruns, SameStatus
  <2>3. UNCHANGED <<operator, scheduler, notifier, history>>
    BY <1>1 DEF GoesStale, Overruns, notifierFrame
  <2> QED
    BY <2>2, <2>3, EndingsStay, NoticesStay
       DEF TimelineInv, SameStatus, OperatorNotes, SchedulerNotes,
           NotifierNotes
<1>2. CASE UNCHANGED trialVars
  BY <1>2, EndingsStay, NoticesStay
     DEF trialVars, TimelineInv, OperatorNotes, SchedulerNotes, NotifierNotes
<1> QED
  BY <1>1, <1>2, OperatorsTellOnce, SchedulersTellOnce, NotifiersTellOnce
     DEF TrialsNext
-----------------------------------------------------------------------------
(* The deliveries *)

\* A notifier that starts or stops to send counts for one.
LEMMA SendingCounted ==
  ASSUME notifier \in [Notifiers -> NotifierRows], NEW p \in Notifiers,
         NEW next, notifier' = [notifier EXCEPT ![p] = next],
         NEW t \in Trials, IsFiniteSet(Sending(t))
  PROVE  /\ IsFiniteSet(Sending(t)')
         /\ Cardinality(Sending(t)) \in Nat /\ Cardinality(Sending(t)') \in Nat
         /\ Cardinality(Sending(t)') + One(Sends(p, t))
              = Cardinality(Sending(t)) + One(Sends(p, t)')
<1>1. \A r \in Notifiers \ {p} : Sends(r, t)' <=> Sends(r, t)
  BY DEF Sends
<1>2. p \in Sending(t) <=> Sends(p, t)
  BY DEF Sending
<1>3. CASE Sends(p, t) <=> Sends(p, t)'
  <2>1. Sending(t)' = Sending(t)
    BY <1>1, <1>3 DEF Sending
  <2> QED
    BY <1>3, <2>1, FS_CardinalityType DEF One
<1>4. CASE ~Sends(p, t) /\ Sends(p, t)'
  <2>1. Sending(t)' = Sending(t) \cup {p}
    BY <1>1, <1>4 DEF Sending
  <2>2. /\ IsFiniteSet(Sending(t) \cup {p})
        /\ Cardinality(Sending(t) \cup {p}) = Cardinality(Sending(t)) + 1
    BY <1>2, <1>4, FS_AddElement
  <2> QED
    BY <1>4, <2>1, <2>2, FS_CardinalityType DEF One
<1>5. CASE Sends(p, t) /\ ~Sends(p, t)'
  <2>1. Sending(t)' = Sending(t) \ {p}
    BY <1>1, <1>5 DEF Sending
  <2>2. /\ IsFiniteSet(Sending(t) \ {p})
        /\ Cardinality(Sending(t) \ {p}) = Cardinality(Sending(t)) - 1
    BY <1>2, <1>5, FS_RemoveElement
  <2> QED
    BY <1>5, <2>1, <2>2, FS_CardinalityType DEF One
<1> QED
  BY <1>3, <1>4, <1>5

\* A step of one notifier in which what is delivered and under way grows only
\* with a claim that was free or with a mishap.
LEMMA DeliveryStep ==
  ASSUME TrialsTyped, TrialsTyped', DeliveryInv, NEW p \in Notifiers, NEW next,
         notifier' = [notifier EXCEPT ![p] = next],
         next.at = "mark" =>
           /\ ~next.lost /\ next.trial \in Trials
           /\ deliveries'[next.trial] >= 1,
         \A t \in Trials :
           /\ deliveries'[t] + One(Sends(p, t)') + One(Held(t)) + trialMishaps
                <= deliveries[t] + One(Sends(p, t)) + One(Held(t)')
                   + trialMishaps'
           /\ deliveries'[t] >= deliveries[t]
           /\ trials'[t].owner # Free =>
                trials'[t].status = "expired" /\ ~trials'[t].notified
           /\ trials'[t].notified => trials[t].notified \/ deliveries[t] >= 1
  PROVE  DeliveryInv'
<1>1. ASSUME NEW t \in Trials
      PROVE  PaidFor(t)' /\ (trials'[t].notified => deliveries'[t] >= 1)
  <2> DEFINE a == Sends(p, t)
             b == Sends(p, t)'
             h == Held(t)
             k == Held(t)'
             c == Cardinality(Sending(t))
             d == Cardinality(Sending(t)')
  <2>1. /\ IsFiniteSet(Sending(t)') /\ c \in Nat /\ d \in Nat
        /\ d + One(a) = c + One(b)
    BY SendingCounted DEF TrialsTyped, DeliveryInv, PaidFor
  <2>2. deliveries[t] + c <= trialMishaps + One(h)
    BY DEF DeliveryInv, PaidFor
  <2>3. deliveries'[t] + One(b) + One(h) + trialMishaps
          <= deliveries[t] + One(a) + One(k) + trialMishaps'
    OBVIOUS
  <2>4. /\ deliveries[t] \in Nat /\ deliveries'[t] \in Nat
        /\ trialMishaps \in Nat /\ trialMishaps' \in Nat
    BY DEF TrialsTyped
  <2>5. /\ One(a) \in {0, 1} /\ One(b) \in {0, 1}
        /\ One(h) \in {0, 1} /\ One(k) \in {0, 1}
    BY DEF One
  <2> HIDE DEF a, b, h, k, c, d
  <2>6. deliveries'[t] + d <= trialMishaps' + One(k)
    BY <2>1, <2>2, <2>3, <2>4, <2>5
  <2>7. trials'[t].notified => deliveries'[t] >= 1
    BY <2>4 DEF DeliveryInv
  <2> QED
    BY <2>1, <2>6, <2>7 DEF PaidFor, d, k
<1>2. ASSUME NEW r \in Notifiers, notifier'[r].at = "mark"
      PROVE  ~notifier'[r].lost /\ deliveries'[notifier'[r].trial] >= 1
  <2>1. CASE r = p
    BY <1>2, <2>1 DEF TrialsTyped
  <2>2. CASE r # p
    <3>1. notifier'[r] = notifier[r]
      BY <2>2 DEF TrialsTyped
    <3>2. notifier[r].trial \in Trials
      BY <1>2, <3>1 DEF TrialsTyped, TrialInHand
    <3>3. /\ deliveries[notifier[r].trial] \in Nat
          /\ deliveries'[notifier[r].trial] \in Nat
      BY <3>2 DEF TrialsTyped
    <3> QED
      BY <1>2, <3>1, <3>2, <3>3 DEF DeliveryInv
  <2> QED
    BY <2>1, <2>2
<1> QED
  BY <1>1, <1>2 DEF DeliveryInv

\* The claims of other trials do not depend on the notifier's step.
LEMMA HeldElsewhere ==
  ASSUME notifier \in [Notifiers -> NotifierRows], NEW p \in Notifiers,
         NEW next, notifier' = [notifier EXCEPT ![p] = next],
         NEW u \in Trials, trials'[u] = trials[u],
         next.at \in {"send", "mark"} => next.trial # u,
         notifier[p].at \in {"send", "mark"} => notifier[p].trial # u
  PROVE  (Held(u)' <=> Held(u)) /\ ~Sends(p, u) /\ ~Sends(p, u)'
BY DEF Held, Sends

\* Steps in which no notifier moves and no claim is taken or given up.
LEMMA DeliveriesRest ==
  ASSUME TrialsTyped, DeliveryInv, UNCHANGED <<notifier, deliveries>>,
         trialMishaps' \in Nat, trialMishaps' >= trialMishaps,
         \A t \in Trials :
           SameClaim(t) /\ (trials[t].status = "expired" => SameStatus(t))
  PROVE  DeliveryInv'
<1>1. ASSUME NEW t \in Trials
      PROVE  PaidFor(t)'
  <2>1. Sending(t)' = Sending(t)
    BY DEF Sending, Sends
  <2>2. Held(t)' <=> Held(t)
    BY DEF Held, SameClaim
  <2>3. /\ IsFiniteSet(Sending(t))
        /\ deliveries[t] + Cardinality(Sending(t))
             <= trialMishaps + One(Held(t))
    BY DEF DeliveryInv, PaidFor
  <2>4. Cardinality(Sending(t)) \in Nat /\ One(Held(t)) \in {0, 1}
    BY <2>3, FS_CardinalityType DEF One
  <2>5. One(Held(t)') = One(Held(t))
    BY <2>2 DEF One
  <2>6. deliveries[t] \in Nat /\ trialMishaps \in Nat
    BY DEF TrialsTyped
  <2>7. deliveries'[t] + Cardinality(Sending(t))
          <= trialMishaps' + One(Held(t)')
    BY <2>3, <2>4, <2>5, <2>6
  <2> QED
    BY <2>1, <2>3, <2>7 DEF PaidFor
<1> QED
  BY <1>1 DEF DeliveryInv, SameClaim, SameStatus
LEMMA OperatorsDeliverNothing ==
  ASSUME TrialsTyped, DeliveryInv,
         \/ \E t \in Trials : Create(t) \/ EndPasses(t)
         \/ \E o \in Operators :
              \/ \E t \in Trials, e \in Endings : ResolveActive(o, t, e)
              \/ MarkEnded(o) \/ NoteEnded(o)
  PROVE  DeliveryInv'
<1> USE DEF TrialsTyped
<1> DEFINE ClaimsStand == \A u \in Trials :
             SameClaim(u) /\ (trials[u].status = "expired" => SameStatus(u))
<1>1. UNCHANGED <<notifier, deliveries, trialMishaps>>
  BY DEF Create, EndPasses, ResolveActive, MarkEnded, NoteEnded
<1>2. ASSUME NEW t \in Trials, NEW status,
             trials' = [trials EXCEPT ![t].status = status],
             trials[t].status # "expired"
      PROVE  ClaimsStand
  BY <1>2, StatusSet DEF SameClaim, SameStatus
<1>3. UNCHANGED trials => ClaimsStand
  BY DEF SameClaim, SameStatus
<1>4. ASSUME NEW t \in Trials, Create(t) \/ EndPasses(t)
      PROVE  ClaimsStand
  BY <1>2, <1>4, DueOrTaskSet DEF Create, EndPasses
<1>5. ASSUME NEW o \in Operators, MarkEnded(o)
      PROVE  ClaimsStand
  <2>1. operator[o].trial \in Trials
    BY <1>5 DEF MarkEnded, TrialInHand
  <2> QED
    BY <1>2, <1>3, <1>5, <2>1 DEF MarkEnded
<1>6. ClaimsStand
  BY <1>3, <1>4, <1>5 DEF ResolveActive, NoteEnded
<1> QED
  BY <1>1, <1>6, DeliveriesRest

LEMMA SchedulersDeliverNothing ==
  ASSUME TrialsTyped, DeliveryInv, NEW s \in Schedulers,
         SchedulerStep(s) \/ SchedulerFault(s) \/ SchedulerDies(s)
  PROVE  DeliveryInv'
<1> USE DEF TrialsTyped
<1> DEFINE ClaimsStand == \A u \in Trials :
             SameClaim(u) /\ (trials[u].status = "expired" => SameStatus(u))
<1>1. /\ UNCHANGED <<notifier, deliveries>>
      /\ UNCHANGED trialMishaps \/ TrialMishap
  BY DEF SchedulerStep, ListDue, ClaimExpiry, MarkExpired, NoteExpired,
         ReleaseExpiry, SchedulerFault, SchedulerDies
<1>2. trialMishaps' \in Nat /\ trialMishaps' >= trialMishaps
  BY <1>1, TrialMishapTyped
<1>3. UNCHANGED trials => ClaimsStand
  BY DEF SameClaim, SameStatus
<1>4. ASSUME ClaimExpiry(s)
      PROVE  ClaimsStand
  <2>1. scheduler[s].list \in SUBSET Trials
    BY DEF SchedulerRows
  <2>2. \E t \in Trials :
          trials' = [trials EXCEPT ![t].task = s] \/ UNCHANGED trials
    BY <1>4, <2>1 DEF ClaimExpiry
  <2> QED
    BY <2>2, DueOrTaskSet
<1>5. ASSUME MarkExpired(s)
      PROVE  ClaimsStand
  <2>1. scheduler[s].trial \in Trials
    BY <1>5 DEF MarkExpired, TrialInHand
  <2>2. CASE Claimed(s)
    BY <1>5, <2>1, <2>2, StatusSet
       DEF MarkExpired, Claimed, SameClaim, SameStatus
  <2>3. CASE ~Claimed(s)
    BY <1>3, <1>5, <2>3 DEF MarkExpired
  <2> QED
    BY <2>2, <2>3
<1>6. ASSUME ReleaseExpiry(s)
      PROVE  ClaimsStand
  <2>1. scheduler[s].trial \in Trials
    BY <1>6 DEF ReleaseExpiry, TrialInHand
  <2> QED
    BY <1>6, <2>1, DueOrTaskSet DEF ReleaseExpiry
<1>7. ClaimsStand
  BY <1>3, <1>4, <1>5, <1>6
     DEF SchedulerStep, ListDue, NoteExpired, SchedulerFault, SchedulerDies
<1> QED
  BY <1>1, <1>2, <1>7, DeliveriesRest

\* A lease that runs out: by itself only if its owner is not at work, or else
\* by a mishap.
LEMMA LeasesRunOut ==
  ASSUME TrialsTyped, DeliveryInv, NEW t \in Trials, GoesStale(t) \/ Overruns(t)
  PROVE  DeliveryInv'
<1> USE DEF TrialsTyped
<1>1. UNCHANGED <<deliveries, notifier>>
  BY DEF GoesStale, Overruns
<1>2. trials[t].owner \in Notifiers /\ trials[t].owner # Free
  BY DEF GoesStale, Overruns, TrialRows
<1>3. /\ trials'[t].owner = trials[t].owner
      /\ trials'[t].notified = trials[t].notified /\ SameStatus(t)
      /\ \A u \in Trials \ {t} : trials'[u] = trials[u]
  BY <1>2, ClaimSet DEF GoesStale, Overruns
<1>4. ~trials[t].notified
  BY <1>2 DEF DeliveryInv
<1>5. /\ trialMishaps' \in Nat /\ trialMishaps' >= trialMishaps
      /\ Overruns(t) => trialMishaps' = trialMishaps + 1
  BY TrialMishapTyped DEF GoesStale, Overruns
<1>6. ASSUME NEW u \in Trials
      PROVE  PaidFor(u)'
  <2> DEFINE h == Held(u)
             k == Held(u)'
             c == Cardinality(Sending(u))
  <2>1. Sending(u)' = Sending(u)
    BY <1>1 DEF Sending, Sends
  <2>2. IsFiniteSet(Sending(u)) /\ deliveries[u] + c <= trialMishaps + One(h)
    BY DEF DeliveryInv, PaidFor
  <2>3. c \in Nat /\ One(h) \in {0, 1} /\ One(k) \in {0, 1}
    BY <2>2, FS_CardinalityType DEF One
  <2>4. trialMishaps + One(h) <= trialMishaps' + One(k)
    <3>1. CASE u # t
      <4>1. h <=> k
        BY <1>1, <1>3, <3>1 DEF Held
      <4>2. One(h) = One(k)
        BY <4>1 DEF One
      <4> HIDE DEF h, k
      <4> QED
        BY <1>5, <2>3, <4>2
    <3>2. CASE u = t /\ GoesStale(t)
      <4>1. ~h
        BY <1>4, <3>2 DEF GoesStale, Held, WorksOn
      <4>2. One(h) = 0
        BY <4>1 DEF One
      <4> HIDE DEF h, k
      <4> QED
        BY <1>5, <2>3, <4>2
    <3>3. CASE u = t /\ Overruns(t)
      <4> HIDE DEF h, k
      <4> QED
        BY <1>5, <2>3, <3>3
    <3> QED
      BY <3>1, <3>2, <3>3
  <2>5. deliveries'[u] + c <= trialMishaps' + One(k)
    <3> HIDE DEF h, k, c
    <3> QED
      BY <1>1, <1>5, <2>2, <2>3, <2>4
  <2> QED
    BY <2>1, <2>2, <2>5 DEF PaidFor
<1> QED
  BY <1>1, <1>3, <1>6 DEF DeliveryInv, SameStatus

\* Only a claim that was free, or ran out, is taken.
LEMMA ClaimNotificationPaid ==
  ASSUME TrialsTyped, TrialsTyped', DeliveryInv, NEW p \in Notifiers,
         ClaimNotification(p)
  PROVE  DeliveryInv'
<1> USE DEF TrialsTyped
<1>1. notifier[p] \in NotifierRows /\ notifier[p].list \in SUBSET Trials
  BY DEF NotifierRows
<1>2. PICK t \in notifier[p].list :
        IF t \in Notifiable
        THEN /\ ClaimedBy(p, t)
             /\ notifier' = [notifier EXCEPT ![p] =
                  [at |-> "send", trial |-> t,
                   list |-> notifier[p].list \ {t}, lost |-> FALSE]]
        ELSE /\ notifier' = [notifier EXCEPT ![p] =
                  Onward([notifier[p] EXCEPT !.list = @ \ {t}])]
             /\ UNCHANGED trials
  BY DEF ClaimNotification
<1>3. /\ notifier[p].at = "claim" /\ t \in Trials
      /\ UNCHANGED <<deliveries, trialMishaps>>
  BY <1>1 DEF ClaimNotification
<1>4. \A u \in Trials : deliveries[u] \in Nat
  OBVIOUS
<1>5. CASE t \notin Notifiable
  <2> DEFINE rest == [notifier[p] EXCEPT !.list = notifier[p].list \ {t}]
             next == Onward(rest)
  <2>1. rest.list \in SUBSET Trials
    BY <1>1 DEF NotifierRows
  <2>2. next.at \in {"idle", "claim"}
    <3> HIDE DEF rest
    <3> QED
      BY <2>1, OnwardTyped
  <2>3. notifier' = [notifier EXCEPT ![p] = next] /\ UNCHANGED trials
    BY <1>2, <1>5
  <2> HIDE DEF next
  <2>4. \A u \in Trials :
          (Held(u)' <=> Held(u)) /\ ~Sends(p, u) /\ ~Sends(p, u)'
    BY <1>3, <2>2, <2>3, HeldElsewhere
  <2>5. \A u \in Trials :
          deliveries'[u] + One(Sends(p, u)') + One(Held(u)) + trialMishaps
            <= deliveries[u] + One(Sends(p, u)) + One(Held(u)') + trialMishaps'
    BY <1>3, <1>4, <2>4 DEF One
  <2>6. \A u \in Trials :
          /\ deliveries'[u] >= deliveries[u]
          /\ trials'[u].owner # Free =>
               trials'[u].status = "expired" /\ ~trials'[u].notified
          /\ trials'[u].notified => trials[u].notified
    BY <1>3, <1>4, <2>3 DEF DeliveryInv
  <2>7. next.at # "mark"
    BY <2>2
  <2> QED
    BY <2>3, <2>5, <2>6, <2>7, DeliveryStep
<1>6. CASE t \in Notifiable
  <2> DEFINE next == [at |-> "send", trial |-> t,
                      list |-> notifier[p].list \ {t}, lost |-> FALSE]
  <2>1. notifier' = [notifier EXCEPT ![p] = next]
    BY <1>2, <1>6
  <2>2. next.at = "send" /\ next.trial = t /\ ~next.lost
    OBVIOUS
  <2>3. /\ trials'[t].owner = p /\ ~trials'[t].stale
        /\ trials'[t].notified = trials[t].notified /\ SameStatus(t)
        /\ \A u \in Trials \ {t} : trials'[u] = trials[u]
    BY <1>2, <1>3, <1>6, ClaimSet DEF ClaimedBy
  <2>4. /\ trials[t].status = "expired" /\ ~trials[t].notified
        /\ trials[t].owner = Free \/ trials[t].stale
    BY <1>6 DEF Notifiable
  <2> HIDE DEF next
  <2>5. ~Held(t) /\ Held(t)'
    BY <2>1, <2>2, <2>3, <2>4, FreeAssumption DEF Held
  <2>6. ~Sends(p, t) /\ Sends(p, t)'
    BY <1>3, <2>1, <2>2 DEF Sends
  <2>7. \A u \in Trials \ {t} :
          (Held(u)' <=> Held(u)) /\ ~Sends(p, u) /\ ~Sends(p, u)'
    BY <1>3, <2>1, <2>2, <2>3, HeldElsewhere
  <2>8. \A u \in Trials :
          deliveries'[u] + One(Sends(p, u)') + One(Held(u)) + trialMishaps
            <= deliveries[u] + One(Sends(p, u)) + One(Held(u)') + trialMishaps'
    BY <1>3, <1>4, <2>5, <2>6, <2>7 DEF One
  <2>9. \A u \in Trials :
          /\ trials'[u].owner # Free =>
               trials'[u].status = "expired" /\ ~trials'[u].notified
          /\ trials'[u].notified => trials[u].notified
    BY <2>3, <2>4 DEF DeliveryInv, SameStatus
  <2>10. next.at # "mark" /\ \A u \in Trials : deliveries'[u] >= deliveries[u]
    BY <1>3, <1>4, <2>2
  <2> QED
    BY <2>1, <2>8, <2>9, <2>10, DeliveryStep
<1> QED
  BY <1>5, <1>6
\* A step of a notifier at its trial.
LEMMA DeliveryStepAt ==
  ASSUME TrialsTyped, TrialsTyped', DeliveryInv, NEW p \in Notifiers,
         NEW t \in Trials, NEW next,
         notifier' = [notifier EXCEPT ![p] = next],
         notifier[p].at \in {"send", "mark"} => notifier[p].trial = t,
         next.at \in {"send", "mark"} => next.trial = t,
         next.at = "mark" => ~next.lost /\ deliveries'[t] >= 1,
         trialMishaps' >= trialMishaps,
         \A u \in Trials \ {t} :
           trials'[u] = trials[u] /\ deliveries'[u] = deliveries[u],
         deliveries'[t] + One(Sends(p, t)') + One(Held(t)) + trialMishaps
           <= deliveries[t] + One(Sends(p, t)) + One(Held(t)') + trialMishaps',
         deliveries'[t] >= deliveries[t],
         trials'[t].owner # Free =>
           trials'[t].status = "expired" /\ ~trials'[t].notified,
         trials'[t].notified => trials[t].notified \/ deliveries[t] >= 1
  PROVE  DeliveryInv'
<1>1. ASSUME NEW u \in Trials \ {t}
      PROVE  /\ deliveries'[u] + One(Sends(p, u)') + One(Held(u)) + trialMishaps
                  <= deliveries[u] + One(Sends(p, u)) + One(Held(u)')
                     + trialMishaps'
             /\ deliveries'[u] >= deliveries[u]
  <2>1. (Held(u)' <=> Held(u)) /\ ~Sends(p, u) /\ ~Sends(p, u)'
    <3>1. /\ notifier \in [Notifiers -> NotifierRows] /\ u \in Trials
          /\ trials'[u] = trials[u]
      BY DEF TrialsTyped
    <3>2. /\ next.at \in {"send", "mark"} => next.trial # u
          /\ notifier[p].at \in {"send", "mark"} => notifier[p].trial # u
      OBVIOUS
    <3> QED
      BY <3>1, <3>2, HeldElsewhere
  <2>2. One(Held(u)') = One(Held(u)) /\ One(Held(u)) \in {0, 1}
    BY <2>1 DEF One
  <2>3. One(Sends(p, u)) = 0 /\ One(Sends(p, u)') = 0
    BY <2>1 DEF One
  <2>4. /\ deliveries[u] \in Nat /\ deliveries'[u] = deliveries[u]
        /\ trialMishaps \in Nat /\ trialMishaps' \in Nat
    BY DEF TrialsTyped
  <2> QED
    BY <2>2, <2>3, <2>4
<1>2. \A u \in Trials :
        /\ deliveries'[u] + One(Sends(p, u)') + One(Held(u)) + trialMishaps
             <= deliveries[u] + One(Sends(p, u)) + One(Held(u)') + trialMishaps'
        /\ deliveries'[u] >= deliveries[u]
  BY <1>1
<1>3. \A u \in Trials :
        /\ trials'[u].owner # Free =>
             trials'[u].status = "expired" /\ ~trials'[u].notified
        /\ trials'[u].notified => trials[u].notified \/ deliveries[u] >= 1
  BY DEF DeliveryInv
<1> QED
  BY <1>2, <1>3, DeliveryStep

\* A notifier without a claim it renews holds nothing up.
LEMMA HeldByOthers ==
  ASSUME notifier \in [Notifiers -> NotifierRows], NEW p \in Notifiers,
         NEW next, notifier' = [notifier EXCEPT ![p] = next],
         NEW t \in Trials, trials'[t] = trials[t],
         \/ trials[t].owner # p \/ notifier[p].lost
         \/ notifier[p].at \notin {"send", "mark"}
  PROVE  One(Held(t)) <= One(Held(t)')
<1>1. Held(t) => Held(t)'
  BY DEF Held
<1> QED
  BY <1>1 DEF One

LEMMA OwnsIfOwner ==
  ASSUME DeliveryInv, NEW p \in Notifiers, notifier[p].trial \in Trials,
         trials[notifier[p].trial].owner = p
  PROVE  Owns(p)
BY FreeAssumption DEF DeliveryInv, Owns

\* A step that writes no row, by a notifier that holds nothing up.
LEMMA IdleHandsRest ==
  ASSUME TrialsTyped, TrialsTyped', DeliveryInv, NEW p \in Notifiers,
         NEW t \in Trials, NEW next,
         notifier' = [notifier EXCEPT ![p] = next],
         notifier[p].at \in {"send", "mark"} => notifier[p].trial = t,
         next.at # "mark",
         next.at = "send" => next.trial = t /\ Sends(p, t),
         UNCHANGED <<trials, deliveries>>, trialMishaps' >= trialMishaps,
         \/ trials[t].owner # p \/ notifier[p].lost
         \/ notifier[p].at \notin {"send", "mark"}
         \/ trialMishaps' = trialMishaps + 1
         \/ Sends(p, t) /\ next.at # "send"
  PROVE  DeliveryInv'
<1> DEFINE a == Sends(p, t)
           b == Sends(p, t)'
           h == Held(t)
           k == Held(t)'
<1>1. /\ deliveries[t] \in Nat /\ trialMishaps \in Nat /\ trialMishaps' \in Nat
      /\ notifier \in [Notifiers -> NotifierRows]
  BY DEF TrialsTyped
<1>2. /\ One(a) \in {0, 1} /\ One(b) \in {0, 1}
      /\ One(h) \in {0, 1} /\ One(k) \in {0, 1}
  BY DEF One
<1>3. b => a
  BY <1>1 DEF Sends
<1>4. One(b) <= One(a)
  BY <1>3 DEF One
<1>5. \/ One(h) <= One(k) \/ trialMishaps' = trialMishaps + 1
      \/ One(a) = 1 /\ One(b) = 0
  <2>1. CASE \/ trials[t].owner # p \/ notifier[p].lost
             \/ notifier[p].at \notin {"send", "mark"}
    BY <1>1, <2>1, HeldByOthers
  <2>2. CASE Sends(p, t) /\ next.at # "send"
    <3>1. a /\ ~b
      BY <1>1, <2>2 DEF Sends
    <3> QED
      BY <3>1 DEF One
  <2> QED
    BY <2>1, <2>2
<1>6. /\ trials'[t].owner # Free =>
           trials'[t].status = "expired" /\ ~trials'[t].notified
      /\ trials'[t].notified => trials[t].notified
  BY DEF DeliveryInv
<1>7. deliveries'[t] + One(b) + One(h) + trialMishaps
        <= deliveries[t] + One(a) + One(k) + trialMishaps'
  <2>1. deliveries'[t] = deliveries[t]
    OBVIOUS
  <2> HIDE DEF a, b, h, k
  <2> QED
    BY <1>1, <1>2, <1>4, <1>5, <2>1
<1>8. deliveries'[t] >= deliveries[t]
  BY <1>1
<1> QED
  BY <1>6, <1>7, <1>8, DeliveryStepAt

LEMMA RenewPays ==
  ASSUME TrialsTyped, TrialsTyped', DeliveryInv, NEW p \in Notifiers, Renew(p)
  PROVE  DeliveryInv'
<1> USE DEF TrialsTyped
<1>1. PICK t \in Trials : t = notifier[p].trial
  BY DEF Renew, TrialInHand
<1>2. notifier[p] \in NotifierRows /\ notifier[p].at = "send"
      /\ ~notifier[p].lost /\ UNCHANGED <<deliveries, trialMishaps>>
      /\ deliveries[t] \in Nat /\ trialMishaps \in Nat
  BY DEF Renew
<1>3. CASE Owns(p)
  <2> DEFINE next == notifier[p]
  <2>1. /\ notifier' = [notifier EXCEPT ![p] = next]
        /\ trials' = [trials EXCEPT ![t].stale = FALSE]
    BY <1>1, <1>3 DEF Renew
  <2>2. /\ trials[t].status = "expired" /\ ~trials[t].notified
        /\ trials[t].owner = p
    BY <1>1, <1>3 DEF Owns
  <2>3. /\ trials'[t].owner = p /\ trials'[t].stale = FALSE
        /\ trials'[t].notified = trials[t].notified /\ SameStatus(t)
        /\ \A u \in Trials \ {t} : trials'[u] = trials[u]
    BY <2>1, <2>2, ClaimSet
  <2>4. Held(t)' /\ (Sends(p, t)' <=> Sends(p, t))
    BY <1>1, <1>2, <2>1, <2>3 DEF Held, Sends
  <2>5. One(Held(t)') = 1 /\ One(Held(t)) \in {0, 1}
        /\ One(Sends(p, t)') = One(Sends(p, t)) /\ One(Sends(p, t)) \in {0, 1}
    BY <2>4 DEF One
  <2>6. deliveries'[t] + One(Sends(p, t)') + One(Held(t)) + trialMishaps
          <= deliveries[t] + One(Sends(p, t)) + One(Held(t)') + trialMishaps'
    BY <1>2, <2>5
  <2>7. /\ deliveries'[t] >= deliveries[t] /\ trialMishaps' >= trialMishaps
        /\ next.at # "mark"
    BY <1>2
  <2>8. /\ trials'[t].status = "expired" /\ ~trials'[t].notified
    BY <2>2, <2>3 DEF SameStatus
  <2>9. \A u \in Trials \ {t} :
          trials'[u] = trials[u] /\ deliveries'[u] = deliveries[u]
    BY <1>2, <2>3
  <2> HIDE DEF next
  <2> QED
    BY <1>1, <1>2, <2>1, <2>6, <2>7, <2>8, <2>9, DeliveryStepAt DEF next
<1>4. CASE ~Owns(p)
  <2> DEFINE next == [notifier[p] EXCEPT !.lost = TRUE]
  <2>1. notifier' = [notifier EXCEPT ![p] = next] /\ UNCHANGED trials
    BY <1>4 DEF Renew
  <2>2. next.at = "send" /\ next.trial = t
    BY <1>1, <1>2 DEF NotifierRows
  <2>3. trials[t].owner # p
    BY <1>1, <1>4, OwnsIfOwner
  <2>4. trialMishaps' >= trialMishaps /\ Sends(p, t)
    BY <1>1, <1>2 DEF Sends
  <2> HIDE DEF next
  <2> QED
    BY <1>1, <1>2, <2>1, <2>2, <2>3, <2>4, IdleHandsRest
<1> QED
  BY <1>3, <1>4

\* The port confirms: what was under way is made.
LEMMA DeliveredPays ==
  ASSUME TrialsTyped, TrialsTyped', DeliveryInv, NEW p \in Notifiers,
         Delivered(p)
  PROVE  DeliveryInv'
<1> USE DEF TrialsTyped
<1>1. PICK t \in Trials : t = notifier[p].trial
  BY DEF Delivered, TrialInHand
<1>2. /\ notifier[p] \in NotifierRows /\ notifier[p].at = "send"
      /\ UNCHANGED <<trials, trialMishaps>>
      /\ deliveries' = [deliveries EXCEPT ![t] = @ + 1]
      /\ deliveries[t] \in Nat /\ trialMishaps \in Nat
  BY <1>1 DEF Delivered
<1>3. PICK next :
        /\ notifier' = [notifier EXCEPT ![p] = next]
        /\ next.trial = t /\ next.lost = notifier[p].lost
        /\ next.at = IF notifier[p].lost THEN "release" ELSE "mark"
  <2> DEFINE next == [notifier[p] EXCEPT !.at =
                        IF notifier[p].lost THEN "release" ELSE "mark"]
  <2>1. /\ notifier' = [notifier EXCEPT ![p] = next]
        /\ next.trial = t /\ next.lost = notifier[p].lost
        /\ next.at = IF notifier[p].lost THEN "release" ELSE "mark"
    BY <1>1, <1>2 DEF Delivered, NotifierRows
  <2> HIDE DEF next
  <2> QED
    BY <2>1
<1>4. Sends(p, t) /\ ~Sends(p, t)'
  BY <1>1, <1>2, <1>3 DEF Sends
<1>5. One(Sends(p, t)) = 1 /\ One(Sends(p, t)') = 0
  BY <1>4 DEF One
<1>6. One(Held(t)) <= One(Held(t)')
  <2>1. CASE notifier[p].lost
    BY <1>2, <1>3, <2>1, HeldByOthers
  <2>2. CASE ~notifier[p].lost
    <3>1. Held(t) => Held(t)'
      BY <1>1, <1>2, <1>3, <2>2 DEF Held
    <3> QED
      BY <3>1 DEF One
  <2> QED
    BY <2>1, <2>2
<1>7. One(Held(t)) \in {0, 1} /\ One(Held(t)') \in {0, 1}
  BY DEF One
<1>8. deliveries'[t] = deliveries[t] + 1
      /\ \A u \in Trials \ {t} :
           trials'[u] = trials[u] /\ deliveries'[u] = deliveries[u]
  BY <1>2
<1>9. deliveries'[t] + One(Sends(p, t)') + One(Held(t)) + trialMishaps
        <= deliveries[t] + One(Sends(p, t)) + One(Held(t)') + trialMishaps'
  BY <1>2, <1>5, <1>6, <1>7, <1>8
<1>10. /\ deliveries'[t] >= deliveries[t] /\ deliveries'[t] >= 1
       /\ trialMishaps' >= trialMishaps
  BY <1>2, <1>8
<1>11. next.at = "mark" => ~next.lost
  BY <1>3
<1>12. /\ trials'[t].owner # Free =>
            trials'[t].status = "expired" /\ ~trials'[t].notified
       /\ trials'[t].notified => trials[t].notified
  BY <1>2 DEF DeliveryInv
<1> QED
  BY <1>1, <1>3, <1>8, <1>9, <1>10, <1>11, <1>12, DeliveryStepAt

LEMMA MarkNotifiedPays ==
  ASSUME TrialsTyped, TrialsTyped', DeliveryInv, NEW p \in Notifiers,
         MarkNotified(p)
  PROVE  DeliveryInv'
<1> USE DEF TrialsTyped
<1>1. PICK t \in Trials : t = notifier[p].trial
  BY DEF MarkNotified, TrialInHand
<1>2. /\ notifier[p] \in NotifierRows /\ notifier[p].at = "mark"
      /\ UNCHANGED <<deliveries, trialMishaps>>
      /\ deliveries[t] \in Nat /\ trialMishaps \in Nat
  BY DEF MarkNotified
<1>3. trialMishaps' >= trialMishaps /\ deliveries'[t] >= deliveries[t]
  BY <1>2
<1>4. CASE Owns(p)
  <2> DEFINE next == [notifier[p] EXCEPT !.at = "note"]
  <2>1. /\ notifier' = [notifier EXCEPT ![p] = next] /\ next.at = "note"
        /\ trials' = [trials EXCEPT ![t].notified = TRUE, ![t].owner = Free,
                                    ![t].stale = FALSE]
    BY <1>1, <1>2, <1>4 DEF MarkNotified, NotifierRows
  <2> HIDE DEF next
  <2>2. /\ trials'[t].notified = TRUE /\ trials'[t].owner = Free
        /\ \A u \in Trials \ {t} : trials'[u] = trials[u]
    BY <2>1, NotifiedSet
  <2>3. Held(t)' /\ ~Sends(p, t) /\ ~Sends(p, t)'
    BY <1>2, <2>1, <2>2 DEF Held, Sends
  <2>4. One(Held(t)') = 1 /\ One(Held(t)) \in {0, 1}
        /\ One(Sends(p, t)') = 0 /\ One(Sends(p, t)) = 0
    BY <2>3 DEF One
  <2>5. deliveries'[t] + One(Sends(p, t)') + One(Held(t)) + trialMishaps
          <= deliveries[t] + One(Sends(p, t)) + One(Held(t)') + trialMishaps'
    BY <1>2, <2>4
  <2>6. deliveries[t] >= 1
    BY <1>1, <1>2 DEF DeliveryInv
  <2>7. \A u \in Trials \ {t} :
          trials'[u] = trials[u] /\ deliveries'[u] = deliveries[u]
    BY <1>2, <2>2
  <2> QED
    BY <1>1, <1>3, <2>1, <2>2, <2>5, <2>6, <2>7, DeliveryStepAt
<1>5. CASE ~Owns(p)
  <2> DEFINE next == [notifier[p] EXCEPT !.at = "release"]
  <2>1. /\ notifier' = [notifier EXCEPT ![p] = next] /\ next.at = "release"
        /\ UNCHANGED trials
    BY <1>2, <1>5 DEF MarkNotified, NotifierRows
  <2>2. trials[t].owner # p
    BY <1>1, <1>5, OwnsIfOwner
  <2> HIDE DEF next
  <2> QED
    BY <1>1, <1>2, <1>3, <2>1, <2>2, IdleHandsRest
<1> QED
  BY <1>4, <1>5

\* The steps after which the notifier is done with its trial, or about to
\* release it.
LEMMA NotifierEndsPaid ==
  ASSUME TrialsTyped, TrialsTyped', DeliveryInv, NEW p \in Notifiers,
         NotDelivered(p) \/ NoteNotified(p) \/ ReleaseNotification(p)
  PROVE  DeliveryInv'
<1> USE DEF TrialsTyped
<1>1. PICK t \in Trials : t = notifier[p].trial
  BY DEF NotDelivered, NoteNotified, ReleaseNotification, TrialInHand
<1>2. /\ notifier[p] \in NotifierRows
      /\ UNCHANGED <<deliveries, trialMishaps>>
      /\ deliveries[t] \in Nat /\ trialMishaps \in Nat
  BY DEF NotDelivered, NoteNotified, ReleaseNotification
<1>3. trialMishaps' >= trialMishaps /\ deliveries'[t] >= deliveries[t]
  BY <1>2
<1>4. CASE NotDelivered(p)
  <2> DEFINE next == [notifier[p] EXCEPT !.at = "release"]
  <2>1. /\ notifier' = [notifier EXCEPT ![p] = next] /\ next.at = "release"
        /\ UNCHANGED trials /\ Sends(p, t)
    BY <1>1, <1>2, <1>4 DEF NotDelivered, NotifierRows, Sends
  <2> HIDE DEF next
  <2> QED
    BY <1>1, <1>2, <1>3, <2>1, IdleHandsRest
<1> DEFINE next == Onward(notifier[p])
<1>5. notifier[p].list \in SUBSET Trials
  BY <1>2 DEF NotifierRows
<1>6. next.at \in {"idle", "claim"}
  BY <1>5, OnwardTyped
<1> HIDE DEF next
<1>7. CASE NoteNotified(p)
  <2>1. /\ notifier' = [notifier EXCEPT ![p] = next]
        /\ UNCHANGED trials /\ notifier[p].at = "note"
    BY <1>7 DEF NoteNotified, next
  <2> QED
    BY <1>1, <1>2, <1>3, <1>6, <2>1, IdleHandsRest
<1>8. CASE ReleaseNotification(p)
  <2>1. /\ notifier' = [notifier EXCEPT ![p] = next]
        /\ notifier[p].at = "release"
    BY <1>8 DEF ReleaseNotification, next
  <2>2. CASE ~Owns(p)
    <3>1. UNCHANGED trials
      BY <1>8, <2>2 DEF ReleaseNotification
    <3> QED
      BY <1>1, <1>2, <1>3, <1>6, <2>1, <3>1, IdleHandsRest
  <2>3. CASE Owns(p)
    <3>1. trials' = [trials EXCEPT ![t].owner = Free, ![t].stale = FALSE]
      BY <1>1, <1>8, <2>3 DEF ReleaseNotification
    <3>2. /\ trials'[t].owner = Free
          /\ trials'[t].notified = trials[t].notified
          /\ \A u \in Trials \ {t} : trials'[u] = trials[u]
      BY <3>1, ClaimSet
    <3>3. ~trials[t].notified /\ trials[t].owner = p
      BY <1>1, <2>3 DEF Owns
    <3>4. ~Held(t) /\ ~Sends(p, t) /\ ~Sends(p, t)'
      BY <1>6, <2>1, <3>3 DEF Held, Sends
    <3>5. One(Held(t)) = 0 /\ One(Held(t)') \in {0, 1}
          /\ One(Sends(p, t)') = 0 /\ One(Sends(p, t)) = 0
      BY <3>4 DEF One
    <3>6. deliveries'[t] + One(Sends(p, t)') + One(Held(t)) + trialMishaps
            <= deliveries[t] + One(Sends(p, t)) + One(Held(t)') + trialMishaps'
      BY <1>2, <3>5
    <3>7. \A u \in Trials \ {t} :
            trials'[u] = trials[u] /\ deliveries'[u] = deliveries[u]
      BY <1>2, <3>2
    <3> QED
      BY <1>1, <1>3, <1>6, <2>1, <3>2, <3>3, <3>6, <3>7, DeliveryStepAt
  <2> QED
    BY <2>2, <2>3
<1> QED
  BY <1>4, <1>7, <1>8

\* A fault may lose a claim that was held: it pays for the next delivery.
LEMMA NotifierFaultPays ==
  ASSUME TrialsTyped, TrialsTyped', DeliveryInv, NEW p \in Notifiers,
         NotifierFault(p)
  PROVE  DeliveryInv'
<1> USE DEF TrialsTyped
<1>1. /\ notifier[p] \in NotifierRows
      /\ UNCHANGED <<trials, deliveries>>
      /\ trialMishaps \in Nat /\ trialMishaps' \in Nat
      /\ trialMishaps' = trialMishaps + 1
  BY TrialMishapTyped DEF NotifierFault
<1>2. trialMishaps' >= trialMishaps
  BY <1>1
<1>3. PICK next :
        /\ notifier' = [notifier EXCEPT ![p] = next]
        /\ next.at # "mark"
        /\ next.at = "send" =>
             notifier[p].at = "send" /\ next.trial = notifier[p].trial
  <2>1. CASE /\ notifier[p].at \in {"mark", "note"}
             /\ notifier' = [notifier EXCEPT ![p].at = "release"]
    <3> DEFINE next == [notifier[p] EXCEPT !.at = "release"]
    <3>1. notifier' = [notifier EXCEPT ![p] = next] /\ next.at = "release"
      BY <1>1, <2>1 DEF NotifierRows
    <3> HIDE DEF next
    <3> QED
      BY <3>1
  <2>2. CASE /\ notifier[p].at = "send"
             /\ notifier' = [notifier EXCEPT ![p].lost = TRUE]
    <3> DEFINE next == [notifier[p] EXCEPT !.lost = TRUE]
    <3>1. /\ notifier' = [notifier EXCEPT ![p] = next]
          /\ next.at = "send" /\ next.trial = notifier[p].trial
      BY <1>1, <2>2 DEF NotifierRows
    <3> HIDE DEF next
    <3> QED
      BY <2>2, <3>1
  <2>3. CASE notifier' = [notifier EXCEPT ![p] = Resting]
    <3>1. Resting.at = "idle"
      BY DEF Resting
    <3> QED
      BY <2>3, <3>1
  <2> QED
    BY <2>1, <2>2, <2>3 DEF NotifierFault
<1>4. CASE notifier[p].at \in {"send", "mark"}
  <2>1. PICK t \in Trials : t = notifier[p].trial
    BY <1>4 DEF TrialInHand
  <2>2. next.at = "send" => next.trial = t /\ Sends(p, t)
    BY <1>3, <2>1 DEF Sends
  <2> QED
    BY <1>1, <1>2, <1>3, <2>1, <2>2, IdleHandsRest
<1>5. CASE notifier[p].at \notin {"send", "mark"}
  <2>1. next.at # "send"
    BY <1>3, <1>5
  <2>2. CASE Trials = {}
    <3>1. \A r \in Notifiers : notifier'[r].at # "mark"
      BY <1>3, <1>5, <2>2 DEF TrialInHand
    <3> QED
      BY <2>2, <3>1 DEF DeliveryInv
  <2>3. CASE Trials # {}
    <3>1. PICK t : t \in Trials
      BY <2>3
    <3> QED
      BY <1>1, <1>2, <1>3, <1>5, <2>1, <3>1, IdleHandsRest
  <2> QED
    BY <2>2, <2>3
<1> QED
  BY <1>4, <1>5

LEMMA ListExpiredPays ==
  ASSUME TrialsTyped, TrialsTyped', DeliveryInv, NEW p \in Notifiers,
         ListExpired(p)
  PROVE  DeliveryInv'
<1>1. PICK t \in Trials : t \in Notifiable
  BY DEF ListExpired, Notifiable
<1> DEFINE next == [notifier[p] EXCEPT !.at = "claim", !.list = Notifiable]
<1>2. notifier[p] \in NotifierRows /\ trialMishaps \in Nat
  BY DEF TrialsTyped
<1>3. next.at = "claim" /\ notifier' = [notifier EXCEPT ![p] = next]
  BY <1>2 DEF ListExpired, NotifierRows
<1>4. /\ notifier[p].at = "idle"
      /\ UNCHANGED <<trials, deliveries, trialMishaps>>
  BY DEF ListExpired
<1>5. trialMishaps' >= trialMishaps
  BY <1>2, <1>4
<1> HIDE DEF next
<1> QED
  BY <1>1, <1>3, <1>4, <1>5, IdleHandsRest

LEMMA DeliveryNextKeeps ==
  TrialsTyped /\ DeliveryInv /\ [TrialsNext]_trialVars => DeliveryInv'
<1> SUFFICES ASSUME TrialsTyped, DeliveryInv, [TrialsNext]_trialVars
             PROVE  DeliveryInv'
  OBVIOUS
<1>1. TrialsTyped'
  BY TrialsNextTyped
<1>2. CASE UNCHANGED trialVars
  <2>1. /\ UNCHANGED <<notifier, deliveries>>
        /\ trialMishaps' \in Nat /\ trialMishaps' >= trialMishaps
        /\ \A t \in Trials : SameClaim(t) /\ SameStatus(t)
    BY <1>2 DEF trialVars, TrialsTyped, SameClaim, SameStatus
  <2> QED
    BY <2>1, DeliveriesRest
<1>3. ASSUME NEW p \in Notifiers,
             \/ NotifierStep(p) \/ Renew(p) \/ Delivered(p) \/ NotDelivered(p)
             \/ NotifierFault(p)
      PROVE  DeliveryInv'
  BY <1>1, <1>3, ListExpiredPays, ClaimNotificationPaid, MarkNotifiedPays,
     NotifierEndsPaid, RenewPays, DeliveredPays, NotifierFaultPays
     DEF NotifierStep
<1> QED
  BY <1>2, <1>3, LeasesRunOut, OperatorsDeliverNothing,
     SchedulersDeliverNothing DEF TrialsNext

-----------------------------------------------------------------------------
(* The theorems *)

LEMMA TrialsInitHolds == TrialsInit => TrialsInv
<1> SUFFICES ASSUME TrialsInit
             PROVE  TrialsInv
  OBVIOUS
<1> USE DEF TrialsInit
<1>1. NewTrial \in TrialRows
  BY DEF NewTrial, TrialRows
<1>2. /\ NoRequest \in OperatorRows /\ NoRequest.at = "idle"
      /\ Resting \in SchedulerRows /\ Resting \in NotifierRows
      /\ Resting.at = "idle"
  BY DEF NoRequest, Resting, OperatorRows, SchedulerRows, NotifierRows
<1>3. \A t \in Trials :
        ~trials[t].notified /\ trials[t].owner = Free /\ deliveries[t] = 0
  BY DEF NewTrial
<1>4. TrialsTyped
  BY <1>1, <1>2 DEF TrialsTyped, TrialInHand
<1>5. TimelineInv
  BY <1>2 DEF TimelineInv, EndingsToldOnce, NoticeToldOnce, OperatorNotes,
              SchedulerNotes, NotifierNotes, Entries
<1>6. ASSUME NEW t \in Trials
      PROVE  PaidFor(t)
  <2>1. Sending(t) = {}
    BY <1>2 DEF Sending, Sends
  <2>2. IsFiniteSet(Sending(t)) /\ Cardinality(Sending(t)) = 0
    BY <2>1, FS_EmptySet
  <2>3. One(Held(t)) \in {0, 1} /\ trialMishaps = 0 /\ deliveries[t] = 0
    BY DEF One
  <2> QED
    BY <2>2, <2>3 DEF PaidFor
<1>7. DeliveryInv
  BY <1>2, <1>3, <1>6 DEF DeliveryInv
<1> QED
  BY <1>4, <1>5, <1>7 DEF TrialsInv

LEMMA TrialsNextKeeps == TrialsInv /\ [TrialsNext]_trialVars => TrialsInv'
BY TrialsNextTyped, TimelineNextKeeps, DeliveryNextKeeps DEF TrialsInv

\* The strengthening that the theorems of the trials rest on.
THEOREM TrialsInvariant == TrialsSpec => []TrialsInv
BY TrialsInitHolds, TrialsNextKeeps, PTL DEF TrialsSpec

LEMMA TrialsInvTypes == TrialsInv => TrialsTypeOK
BY DEF TrialsInv, TrialsTyped, TrialsTypeOK, TrialRows, OperatorRows,
       SchedulerRows, NotifierRows

\* The rows of crm_trials and the state of every request and process keep their
\* types.
THEOREM TrialTypes == TrialsSpec => []TrialsTypeOK
BY TrialsInvariant, TrialsInvTypes, PTL

\* However many operators and schedulers race to end a trial, the lead's
\* timeline tells the one ending the row has, once, and its notice only after
\* the row says notified.
THEOREM TimelineToldOnce == TrialsSpec => []TimelineAgrees
<1>1. TrialsInv => TimelineAgrees
  BY DEF TrialsInv, TimelineInv, EndingsToldOnce, NoticeToldOnce,
         TimelineAgrees, Entries, Endings
<1> QED
  BY <1>1, TrialsInvariant, PTL

\* A second delivery of a trial's notice, by whichever processor, was paid for
\* by a failed statement, a death or a lease that ran out under its owner.
THEOREM RedeliveriesPaidFor == TrialsSpec => []RedeliveryNeedsMishap
<1>1. ASSUME TrialsInv, NEW t \in Trials
      PROVE  /\ deliveries[t] <= 1 + trialMishaps
             /\ trials[t].notified => deliveries[t] >= 1
  <2>1. IsFiniteSet(Sending(t)) /\ Cardinality(Sending(t)) \in Nat
    BY <1>1, FS_CardinalityType DEF TrialsInv, DeliveryInv, PaidFor
  <2>2. deliveries[t] + Cardinality(Sending(t)) <= trialMishaps + One(Held(t))
    BY <1>1 DEF TrialsInv, DeliveryInv, PaidFor
  <2>3. One(Held(t)) \in {0, 1} /\ deliveries[t] \in Nat /\ trialMishaps \in Nat
    BY <1>1 DEF One, TrialsInv, TrialsTyped
  <2>4. deliveries[t] <= 1 + trialMishaps
    BY <2>1, <2>2, <2>3
  <2> QED
    BY <1>1, <2>4 DEF TrialsInv, DeliveryInv
<1>2. TrialsInv => RedeliveryNeedsMishap
  BY <1>1 DEF RedeliveryNeedsMishap
<1> QED
  BY <1>2, TrialsInvariant, PTL
============================================================================
