SPECIFICATION ServicesSpec
CONSTANTS
  Parts = {"reconciliation"}
  Notes = {n1, n2}
  Runners = {a, b}
  MaxAttempts = 2
  BatchSize = 2
  Providers = 1
  MaxMishaps = 1
  Trials = {t1}
  Operators = {o1}
  Schedulers = {s1, s2}
  Notifiers = {p1, p2}
  MaxTrialMishaps = 1
  Beneficiaries = {b1}
  Requests = {q1, q2}
  Times = {i1, i2}
  MaxRuns = 1
  Gates = {g1}
  Devices = {d1}
  Lanes = {l1, l2}
  ScanTimes = {1, 2}
  ValidUntil = 3
  Calls = {c1, c2}
  Confirmers = {f1, f2}
  CallClocks = {1, 3}
  RefundCalls = {r1, r2}
  RefundTimes = {1, 2}
  RunCalls = {v1, v2}
  ReconcileTimes = {1, 2}
  TerminalSeen = {"confirmed", "refunded"}
  Disagreements = {{}, {"amount"}, {"currency"}, {"amount", "currency"}}
  MaxStarts = 3
  MaxMoves = 1
INVARIANTS FindingsReadable FreshRunListsDisagreements
PROPERTIES AcknowledgementKept
CHECK_DEADLOCK FALSE
