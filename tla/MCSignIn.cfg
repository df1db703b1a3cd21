SPECIFICATION SignInSpec
CONSTANTS
  Second = 2
  Threshold = 3
  Window = 4
  Duration = 4
  Attempts = {r1, r2}
  NoAttempt = NoAttempt
  NoStreak = NoStreak
  NoLock = NoLock
  MaxClock = 7
  MaxCrashes = 1
  Accounts = {u1}
  Clients = {c1, c2}
  Codes = {k1, k2}
  NoCode = NoCode
  Requests = {r1, r2}
  NoReq = NoReq
  CodeTTL = 1
  MaxTime = 2
SYMMETRY Symmetry
INVARIANTS GuessesBounded FreshStart LocksAreEarned LateCodesAreWorthless
PROPERTIES LockedIsUntouched RedeemedAtMostOnce
