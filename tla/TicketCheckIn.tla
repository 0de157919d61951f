---------------------------- MODULE TicketCheckIn ----------------------------
(***************************************************************************)
(* The admission of one issued ticket: scans of its QR code and entries of *)
(* its code by operators, the envelopes that offline devices queue and     *)
(* synchronise later, and the cancellation after a refund.  A request      *)
(* reads the ticket, then looks for its own earlier attempt and decides,   *)
(* and then commits the ticket, the check-in and the envelope in one       *)
(* transaction; any number of requests, repeated ones too, interleave.     *)
(*                                                                         *)
(* The time of an attempt is free: it is the server's clock for a scan     *)
(* over HTTP, the caller's for a code and the device's for an envelope.    *)
(***************************************************************************)
EXTENDS Naturals, FiniteSets

CONSTANTS
  Gates,       \* operators online
  Devices,     \* offline devices
  Lanes,       \* requests being served
  ScanTimes,   \* when attempts occur
  ValidUntil   \* the first time the ticket is expired

ASSUME ScanTimesAssumption == ScanTimes \subseteq Nat /\ ValidUntil \in Nat

VARIABLES
  ticket,      \* the row's status and updated_at
  checkIns,    \* ticketing_checkins
  envelopes,   \* ticketing_offline_envelopes, all of them synchronised
  lane         \* what each request is doing

checkInVars == <<ticket, checkIns, envelopes, lane>>

\* What an attempt asks for: "next" is the QR code's, which names no result.
Outcome == {"validated", "used", "cancelled"}
Wishes == Outcome \cup {"next"}

Attempts ==
  [channel : {"online"}, by : Gates, wants : Wishes, time : ScanTimes]
    \cup [channel : {"offline"}, by : Devices, wants : Outcome,
          time : ScanTimes]

NoLane == [at |-> "idle"]

CheckInInit ==
  /\ ticket = [status |-> "issued", updated |-> 0]
  /\ checkIns = {} /\ envelopes = {}
  /\ lane = [l \in Lanes |-> NoLane]

\* A slip: the identity holds the result, which the present status decides.
ResultId(attempt, result) == <<attempt.channel, result, attempt.time>>

\* The identity of a check-in; the operator is no part of it.
CheckInId(attempt, result) ==
  <<attempt.channel, attempt.wants, attempt.time>>

Prior(attempt, result) ==
  {c \in checkIns : c.id = CheckInId(attempt, result)}

Serves(l, label) == lane[l].at = label

EndsRequest(l) == lane' = [lane EXCEPT ![l] = NoLane]

-----------------------------------------------------------------------------

\* A request comes in, perhaps a repeated one, and reads the ticket.
Present(l, attempt) ==
  /\ Serves(l, "idle")
  /\ lane' = [lane EXCEPT ![l] =
       [at |-> "look", attempt |-> attempt, before |-> ticket]]
  /\ UNCHANGED <<ticket, checkIns, envelopes>>

ResultOf(attempt, status) ==
  IF attempt.wants # "next" THEN attempt.wants
  ELSE IF status = "issued" THEN "validated" ELSE "used"

Accepts(status, result, time) ==
  /\ <<status, result>> \in
       {<<"issued", "validated">>, <<"issued", "cancelled">>,
        <<"validated", "used">>, <<"validated", "cancelled">>}
  /\ result # "cancelled" => time < ValidUntil

\* The attempt is a replay, which is answered or refused and changes nothing,
\* or the ticket that was read decides.
LookUp(l) ==
  LET attempt == lane[l].attempt
      result == ResultOf(attempt, lane[l].before.status)
      replay == IF attempt.channel = "online" THEN Prior(attempt, result) # {}
                ELSE attempt \in envelopes
  IN
  /\ Serves(l, "look")
  /\ IF ~replay /\ Accepts(lane[l].before.status, result, attempt.time)
     THEN lane' = [lane EXCEPT ![l] =
            [at |-> "commit", attempt |-> attempt, before |-> @.before,
             result |-> result]]
     ELSE EndsRequest(l)
  /\ UNCHANGED <<ticket, checkIns, envelopes>>

Written(l) ==
  LET attempt == lane[l].attempt IN
  /\ ticket' = [status |-> lane[l].result, updated |-> attempt.time]
  /\ checkIns' = checkIns \cup
       {[id |-> CheckInId(attempt, lane[l].result), attempt |-> attempt,
         result |-> lane[l].result]}
  /\ envelopes' = IF attempt.channel = "offline"
                  THEN envelopes \cup {attempt} ELSE envelopes

\* A slip: the ticket is locked, and written without comparing it.
CommitStale(l) ==
  /\ Serves(l, "commit")
  /\ IF Prior(lane[l].attempt, lane[l].result) = {}
     THEN Written(l)
     ELSE UNCHANGED <<ticket, checkIns, envelopes>>
  /\ EndsRequest(l)

\* With the ticket locked, a replay is looked for once more, and a ticket that
\* changed since it was read refuses the request.
Commit(l) ==
  /\ Serves(l, "commit")
  /\ IF /\ Prior(lane[l].attempt, lane[l].result) = {}
        /\ ticket = lane[l].before
     THEN Written(l)
     ELSE UNCHANGED <<ticket, checkIns, envelopes>>
  /\ EndsRequest(l)

\* The operator is not authorized, the destination is suspended, the device's
\* registration is revoked, or the process dies.
Refuse(l) ==
  /\ ~Serves(l, "idle")
  /\ EndsRequest(l)
  /\ UNCHANGED <<ticket, checkIns, envelopes>>

\* The refund's cancellation, under the same lock and with no check-in.
CancelAfterRefund(time) ==
  /\ ticket.status \in {"issued", "validated"}
  /\ ticket' = [status |-> "cancelled", updated |-> time]
  /\ UNCHANGED <<checkIns, envelopes, lane>>

CheckInNext ==
  \/ \E l \in Lanes :
       \/ \E attempt \in Attempts : Present(l, attempt)
       \/ LookUp(l) \/ Commit(l) \/ Refuse(l)
  \/ \E time \in ScanTimes : CancelAfterRefund(time)

CheckInSpec == CheckInInit /\ [][CheckInNext]_checkInVars

-----------------------------------------------------------------------------
(* Properties *)

Statuses == Outcome \cup {"issued"}
Rows == [status : Statuses, updated : ScanTimes \cup {0}]

\* The ticket, the history and the requests keep their types.
CheckInTypeOK ==
  /\ ticket \in Rows
  /\ \A c \in checkIns : c.attempt \in Attempts /\ c.result \in Outcome
  /\ envelopes \subseteq Attempts
  /\ \A l \in Lanes :
       /\ lane[l].at \in {"idle", "look", "commit"}
       /\ lane[l].at # "idle" =>
            lane[l].attempt \in Attempts /\ lane[l].before \in Rows
       /\ lane[l].at = "commit" => lane[l].result \in Outcome

Made(result) == {c \in checkIns : c.result = result}

\* Gates, devices and refunds race, and yet the history tells one course: each
\* result at most once, a use after a validation, nothing after a use or a
\* cancellation, and the ticket in the state the history ends in.
OneCourse ==
  /\ \A result \in Outcome : Cardinality(Made(result)) <= 1
  /\ Made("used") # {} => Made("validated") # {}
  /\ ticket.status = "used" <=> Made("used") # {}
  /\ ticket.status = "issued" => checkIns = {}
  /\ ticket.status = "validated" => Made("validated") # {}
  /\ Made("cancelled") # {} => ticket.status = "cancelled"

\* An attempt with the time it had before replays what it did: however often a
\* scan is repeated, and whoever repeats it, it makes one check-in, and never
\* turns the validation it made into a use.
RetryNeverAdvances ==
  \A c, d \in checkIns :
    /\ c.attempt.wants = d.attempt.wants
    /\ c.attempt.channel = d.attempt.channel
    /\ c.attempt.time = d.attempt.time
    => c = d
=============================================================================
