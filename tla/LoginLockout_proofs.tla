------------------------ MODULE LoginLockout_proofs ------------------------
(***************************************************************************)
(* Theorems about LoginLockout, for every threshold, window, duration and  *)
(* fraction of a second, and any number of attempts in flight: a lock is   *)
(* over when it ends, is out of reach of the attempts it turns away, and   *)
(* was earned; and no window, less a second, holds more guesses than the   *)
(* threshold.                                                              *)
(*                                                                         *)
(* The last two are about tried, the history of guesses, which the program *)
(* does not keep.  Without crashes CountInv says how the last of them      *)
(* match the streak in the table (Matches) and that earlier ones are a     *)
(* window away; with crashes failures go uncounted, and EarnInv says what  *)
(* is left: a streak that is not stale counts no more failures than there  *)
(* were (Earned).  InHand and Holding say what the attempt at work knows.  *)
(***************************************************************************)
EXTENDS LoginLockout, SequenceTheorems, FiniteSetTheorems, TLAPS

-----------------------------------------------------------------------------
(* Types.                                                                  *)

LEMMA Bounds ==
  /\ Threshold \in Nat /\ Window \in Nat /\ Duration \in Nat /\ Second \in Nat
  /\ Threshold > 0 /\ Second > 0
BY BoundsAreNumbers

\* What formatting a time loses is less than a second.
LEMMA TruncateType ==
  ASSUME NEW t \in Nat
  PROVE  Truncate(t) \in Nat /\ Truncate(t) <= t /\ t < Truncate(t) + Second
<1>1. t % Second \in 0 .. Second - 1 /\ t \div Second \in Nat
  BY Bounds
<1>2. t = Second * (t \div Second) + (t % Second)
  BY Bounds
<1>3. Second * (t \div Second) \in Nat
  BY <1>1, Bounds
<1> QED
  BY <1>1, <1>2, <1>3, Bounds DEF Truncate

\* A lock is whole seconds long, and no shorter for its end being formatted.
LEMMA TruncateLock ==
  ASSUME NEW t \in Nat
  PROVE  Truncate(t + Duration) = Truncate(t) + Duration
<1> DEFINE q == t \div Second
           d == Duration \div Second
           p == (t + Duration) \div Second
           r == t % Second
           z == (t + Duration) % Second
<1>1. q \in Int /\ d \in Int /\ p \in Int /\ r \in 0 .. Second - 1 /\ z \in 0 .. Second - 1
  BY Bounds
<1>2. t = Second * q + r /\ Duration = Second * d /\ t + Duration = Second * p + z
  BY Bounds, DurationIsSeconds
<1> HIDE DEF q, d, p, r, z
<1>3. Second * (p - q - d) = r - z
  BY <1>1, <1>2, Bounds
<1>4. r - z < Second /\ r - z > -Second
  BY <1>1, Bounds
<1>5. /\ \A k \in Int : k >= 1 => Second * k >= Second
      /\ \A k \in Int : k <= -1 => Second * k <= -Second
  BY Bounds
<1>6. p - q - d = 0
  BY <1>1, <1>3, <1>4, <1>5, Bounds
<1>7. r = z
  BY <1>1, <1>3, <1>6, Bounds
<1> QED
  BY <1>7, Bounds DEF Truncate, r, z

LEMMA AttemptFields ==
  ASSUME LockoutTypeOK, NEW a \in Attempts, att[a] # NoAttempt
  PROVE  /\ att[a] \in AttemptInFlight
         /\ att[a].at \in Nat
         /\ att[a].read \in Streak \cup {NoStreak}
BY DEF LockoutTypeOK, AttemptInFlight

\* nextLoginLockoutState counts up to the threshold and keeps the type.
LEMMA NextStreakType ==
  ASSUME NEW s \in Streak \cup {NoStreak}, NEW t \in Nat
  PROVE  /\ NextFails(s, t) \in Nat
         /\ NextStreak(s, t) \in Streak
         /\ NextStreak(s, t).last = Truncate(t)
         /\ NextStreak(s, t).until \in {NoLock, Truncate(t) + Duration}
<1>1. NextFails(s, t) \in Nat
  BY Bounds DEF NextFails, Streak
<1>2. Truncate(t) \in Nat /\ Truncate(t + Duration) = Truncate(t) + Duration
  BY TruncateType, TruncateLock
<1>3. Truncate(t) + Duration \in Nat
  BY <1>2, Bounds
<1> QED
  BY <1>1, <1>2, <1>3 DEF NextStreak, Streak

\* Moving on changes the pc, and what the step writes besides, of one attempt.
LEMMA GoType ==
  ASSUME LockoutTypeOK, NEW a \in Attempts, att[a] # NoAttempt,
         NEW pc \in {"check", "verify", "select", "delete", "insert", "clear"}, GoOn(a, pc)
  PROVE  /\ att' \in [Attempts -> AttemptInFlight \cup {NoAttempt}]
         /\ att'[a] # NoAttempt /\ att'[a].pc = pc
         /\ att'[a].at = att[a].at /\ att'[a].read = att[a].read
         /\ \A b \in Attempts \ {a} : att'[b] = att[b]
<1>1. att[a] \in AttemptInFlight
  BY AttemptFields
<1>2. [att[a] EXCEPT !.pc = pc] \in AttemptInFlight
  BY <1>1 DEF AttemptInFlight
<1> QED
  BY <1>1, <1>2, LockoutNothingsDiffer DEF LockoutTypeOK, GoOn, AttemptInFlight

LEMMA DoneType ==
  ASSUME LockoutTypeOK, NEW a \in Attempts, EndAttempt(a)
  PROVE  /\ att' \in [Attempts -> AttemptInFlight \cup {NoAttempt}]
         /\ att'[a] = NoAttempt
         /\ \A b \in Attempts \ {a} : att'[b] = att[b]
BY DEF LockoutTypeOK, EndAttempt

\* A wrong password is judged: the history grows at its end, and forgets its
\* beginning when it is full.
LEMMA TriedType ==
  ASSUME LockoutTypeOK
  PROVE  Append(IF Len(tried) > Threshold THEN Tail(tried) ELSE tried, clock) \in Seq(Nat)
<1>1. tried \in Seq(Nat) /\ clock \in Nat
  BY DEF LockoutTypeOK
<1>2. CASE Len(tried) > Threshold
  <2>1. tried # <<>>
    BY <1>2, Bounds
  <2>2. Tail(tried) \in Seq(Nat)
    BY <1>1, <2>1, HeadTailProperties
  <2> QED
    BY <1>1, <1>2, <2>2, AppendProperties
<1>3. CASE ~(Len(tried) > Threshold)
  BY <1>1, <1>3, AppendProperties
<1> QED
  BY <1>2, <1>3

LEMMA TypeInit == LockoutInit => LockoutTypeOK
<1> SUFFICES ASSUME LockoutInit PROVE LockoutTypeOK
  OBVIOUS
<1>1. tried \in Seq(Nat)
  BY DEF LockoutInit
<1>2. att \in [Attempts -> AttemptInFlight \cup {NoAttempt}] /\ streak \in Streak \cup {NoStreak}
  BY DEF LockoutInit
<1>3. clock \in Nat /\ crashes \in Nat /\ overlapped \in BOOLEAN
  BY DEF LockoutInit
<1> QED
  BY <1>1, <1>2, <1>3 DEF LockoutTypeOK

LEMMA TypeNext == LockoutTypeOK /\ [LockoutNext]_lockoutVars => LockoutTypeOK'
<1> SUFFICES ASSUME LockoutTypeOK, [LockoutNext]_lockoutVars PROVE LockoutTypeOK'
  OBVIOUS
<1>1. CASE ClockTicks
  BY <1>1 DEF ClockTicks, LockoutTypeOK
<1>2. CASE Crash
  BY <1>2 DEF Crash, LockoutTypeOK
<1>3. ASSUME NEW a \in Attempts, Attempt(a) PROVE LockoutTypeOK'
  <2>1. [pc |-> "check", at |-> 0, read |-> NoStreak] \in AttemptInFlight
    BY DEF LockoutTypeOK, AttemptInFlight
  <2> QED
    BY <1>3, <2>1 DEF Attempt, LockoutTypeOK
<1>4. ASSUME NEW a \in Attempts, HandleAttempt(a) PROVE LockoutTypeOK'
  <2>1. att[a] # NoAttempt
    BY <1>4 DEF HandleAttempt, CheckLock, Verify, SelectStreak, DeleteStreak, InsertStreak,
                ClearStreak, Attempting
  <2>2. att[a] \in AttemptInFlight /\ att[a].at \in Nat /\ att[a].read \in Streak \cup {NoStreak}
    BY <2>1, AttemptFields
  <2>3. CASE CheckLock(a)
    BY <2>1, <2>3, GoType, DoneType DEF CheckLock, LockoutTypeOK
  <2>4. CASE Verify(a)
    <3>1. [att[a] EXCEPT !.pc = "select", !.at = clock] \in AttemptInFlight
      BY <2>2 DEF AttemptInFlight, LockoutTypeOK
    <3>2. att' \in [Attempts -> AttemptInFlight \cup {NoAttempt}]
      BY <2>1, <2>4, <3>1, GoType, DoneType DEF Verify, LockoutTypeOK
    <3>3. tried' \in Seq(Nat)
      BY <2>4, TriedType DEF Verify, LockoutTypeOK
    <3> QED
      BY <2>4, <3>2, <3>3 DEF Verify, LockoutTypeOK
  <2>5. CASE SelectStreak(a)
    <3>1. [att[a] EXCEPT !.pc = "delete", !.read = streak] \in AttemptInFlight
      BY <2>2 DEF AttemptInFlight, LockoutTypeOK
    <3> QED
      BY <2>5, <3>1 DEF SelectStreak, LockoutTypeOK
  <2>6. CASE DeleteStreak(a)
    BY <2>1, <2>6, GoType DEF DeleteStreak, LockoutTypeOK
  <2>7. CASE InsertStreak(a)
    <3>1. streak' \in Streak \cup {NoStreak}
      BY <2>2, <2>7, NextStreakType DEF InsertStreak, LockoutTypeOK
    <3> QED
      BY <2>7, <3>1, DoneType DEF InsertStreak, LockoutTypeOK
  <2>8. CASE ClearStreak(a)
    <3>1. <<>> \in Seq(Nat)
      OBVIOUS
    <3> QED
      BY <2>8, <3>1, DoneType DEF ClearStreak, LockoutTypeOK
  <2> QED
    BY <1>4, <2>3, <2>4, <2>5, <2>6, <2>7, <2>8 DEF HandleAttempt
<1>5. CASE UNCHANGED lockoutVars
  BY <1>5 DEF lockoutVars, LockoutTypeOK
<1> QED
  BY <1>1, <1>2, <1>3, <1>4, <1>5 DEF LockoutNext

\* Type correctness.
THEOREM TypeCorrect == LockoutSpec => []LockoutTypeOK
BY TypeInit, TypeNext, PTL DEF LockoutSpec

-----------------------------------------------------------------------------
(* Locks are over when they end.                                           *)

\* A row, be it in the table or in the hands of an attempt.
EndsOnTime(s) == s # NoStreak /\ s.until # NoLock => s.until = s.last + Duration

LockInv ==
  /\ LockoutTypeOK
  /\ EndsOnTime(streak)
  /\ \A a \in Attempts : att[a] # NoAttempt => EndsOnTime(att[a].read)

LEMMA LockInit == LockoutInit => LockInv
BY TypeInit DEF LockoutInit, LockInv, EndsOnTime

LEMMA LockNext == LockInv /\ [LockoutNext]_lockoutVars => LockInv'
<1> SUFFICES ASSUME LockInv, [LockoutNext]_lockoutVars PROVE LockInv'
  OBVIOUS
<1> USE DEF LockInv
<1>1. LockoutTypeOK'
  BY TypeNext
<1>2. EndsOnTime(streak')
  <2>1. CASE streak' \in {streak, NoStreak}
    BY <2>1 DEF EndsOnTime
  <2>2. ASSUME NEW a \in Attempts, InsertStreak(a), streak = NoStreak PROVE EndsOnTime(streak')
    <3>1. att[a].read \in Streak \cup {NoStreak} /\ att[a].at \in Nat
      BY <2>2, AttemptFields DEF InsertStreak, Attempting
    <3>2. streak' = NextStreak(att[a].read, att[a].at)
      BY <2>2 DEF InsertStreak
    <3>3. streak'.last = Truncate(att[a].at) /\ streak'.until \in {NoLock,
    streak'.last + Duration}
      BY <3>1, <3>2, NextStreakType
    <3> QED
      BY <3>3 DEF EndsOnTime
  <2>3. ASSUME NEW a \in Attempts, Attempt(a) \/ HandleAttempt(a)
        PROVE  streak' \in {streak, NoStreak} \/ (InsertStreak(a) /\ streak = NoStreak)
    BY <2>3
    DEF Attempt, HandleAttempt, CheckLock, Verify, SelectStreak, DeleteStreak, InsertStreak,
        ClearStreak
  <2>4. CASE ClockTicks \/ Crash \/ UNCHANGED lockoutVars
    BY <2>1, <2>4 DEF ClockTicks, Crash, lockoutVars
  <2>5. ASSUME NEW a \in Attempts, Attempt(a) \/ HandleAttempt(a) PROVE EndsOnTime(streak')
    BY <2>1, <2>2, <2>3, <2>5
  <2> QED
    BY <2>4, <2>5 DEF LockoutNext
<1>3. ASSUME NEW b \in Attempts, att'[b] # NoAttempt PROVE EndsOnTime(att'[b].read)
  <2>1. CASE att' = att
    BY <1>3, <2>1
  <2>2. CASE Crash
    BY <1>3, <2>2 DEF Crash
  <2>3. ASSUME NEW a \in Attempts, Attempt(a) PROVE EndsOnTime(att'[b].read)
    BY <1>3, <2>3 DEF Attempt, LockoutTypeOK, EndsOnTime
  <2>4. ASSUME NEW a \in Attempts, HandleAttempt(a), att[a] # NoAttempt
        PROVE  EndsOnTime(att'[b].read)
    <3>1. CASE EndAttempt(a)
      BY <1>3, <3>1, DoneType
    <3>2. CASE \E pc \in {"verify", "insert", "clear"} : GoOn(a, pc)
      BY <1>3, <2>4, <3>2, GoType
    <3>3. CASE att' = [att EXCEPT ![a] = [@ EXCEPT !.pc = "select", !.at = clock]]
      <4>1. att'[b].read = att[b].read /\ att[b] # NoAttempt
        BY <1>3, <2>4, <3>3, AttemptFields DEF LockoutTypeOK, AttemptInFlight
      <4> QED
        BY <4>1
    <3>4. CASE att' = [att EXCEPT ![a] = [@ EXCEPT !.pc = "delete", !.read = streak]]
      <4>1. att'[b].read \in {att[b].read, streak} /\ att[b] # NoAttempt
        BY <1>3, <2>4, <3>4, AttemptFields DEF LockoutTypeOK, AttemptInFlight
      <4> QED
        BY <4>1
    <3> QED
      BY <2>4, <3>1, <3>2, <3>3, <3>4
      DEF HandleAttempt, CheckLock, Verify, SelectStreak, DeleteStreak, InsertStreak,
          ClearStreak
  <2>5. ASSUME NEW a \in Attempts, HandleAttempt(a) PROVE att[a] # NoAttempt
    BY <2>5 DEF HandleAttempt, CheckLock, Verify, SelectStreak, DeleteStreak, InsertStreak,
                ClearStreak, Attempting
  <2> QED
    BY <2>1, <2>2, <2>3, <2>4, <2>5 DEF LockoutNext, ClockTicks, lockoutVars
<1> QED
  BY <1>1, <1>2, <1>3 DEF EndsOnTime

\* A lock that ran out is over: the window is not longer than the lock, so the
\* streak that set it is stale.
THEOREM OverIsOver == LockoutSpec => []FreshStart
<1>1. LockInv => FreshStart
  <2> SUFFICES ASSUME LockInv, NEW a \in Attempts, Attempting(a, "insert"), att[a].read # NoStreak,
                      att[a].read.until # NoLock, ~LockedOut(att[a].read, att[a].at)
               PROVE  NextStreak(att[a].read, att[a].at).fails = 1
    BY DEF FreshStart
  <2> DEFINE s == att[a].read
             t == att[a].at
  <2>1. s \in Streak /\ t \in Nat /\ s.until = s.last + Duration
    BY AttemptFields DEF LockInv, Attempting, EndsOnTime
  <2>2. s.last \in Nat /\ s.until \in Nat
    BY <2>1 DEF Streak
  <2>3. t > s.until
    BY <2>1, <2>2 DEF LockedOut
  <2>4. t - s.last > Window
    BY <2>1, <2>2, <2>3, Bounds, DurationCoversWindow
  <2> QED
    BY <2>4 DEF NextStreak, NextFails, StaleStreak
<1> QED
  BY <1>1, LockInit, LockNext, PTL DEF LockoutSpec

-----------------------------------------------------------------------------
(* One after another.                                                      *)

\* Until attempts overlap there is at most one, and a locked account has let
\* none of them past the check.
TurnInv ==
  /\ LockoutTypeOK
  /\ ~overlapped =>
       /\ \A a, b \in Attempts : att[a] # NoAttempt /\ att[b] # NoAttempt => a = b
       /\ LockedOut(streak, clock) => \A a \in Attempts : att[a] # NoAttempt => att[a].pc = "check"

LEMMA TurnInit == LockoutInit => TurnInv
BY TypeInit DEF LockoutInit, TurnInv

LEMMA TurnNext == TurnInv /\ [LockoutNext]_lockoutVars => TurnInv'
<1> SUFFICES ASSUME TurnInv, [LockoutNext]_lockoutVars, ~overlapped'
             PROVE  /\ \A a, b \in Attempts : att'[a] # NoAttempt /\ att'[b] # NoAttempt => a = b
                    /\ LockedOut(streak, clock)' =>
                         \A a \in Attempts : att'[a] # NoAttempt => att'[a].pc = "check"
  BY TypeNext DEF TurnInv
<1> USE DEF TurnInv
<1>1. ~overlapped
  BY DEF LockoutNext, ClockTicks, Crash, Attempt, HandleAttempt, CheckLock, Verify,
         SelectStreak, DeleteStreak,
         InsertStreak, ClearStreak, lockoutVars, LockoutTypeOK
<1>2. CASE ClockTicks
  <2>1. LockedOut(streak, clock)' => LockedOut(streak, clock)
    <3>1. streak # NoStreak /\ streak.until # NoLock => streak.until \in Nat
      BY DEF LockoutTypeOK, Streak
    <3> QED
      BY <1>2, <3>1 DEF ClockTicks, LockedOut, LockoutTypeOK
  <2> QED
    BY <1>1, <1>2, <2>1 DEF ClockTicks
<1>3. CASE Crash
  BY <1>3 DEF Crash
<1>4. ASSUME NEW a \in Attempts, Attempt(a)
      PROVE  /\ \A b, c \in Attempts : att'[b] # NoAttempt /\ att'[c] # NoAttempt => b = c
             /\ \A b \in Attempts : att'[b] # NoAttempt => att'[b].pc = "check"
  BY <1>1, <1>4 DEF Attempt, LockoutTypeOK
<1>5. ASSUME NEW a \in Attempts, HandleAttempt(a)
      PROVE  /\ \A b, c \in Attempts : att'[b] # NoAttempt /\ att'[c] # NoAttempt => b = c
             /\ LockedOut(streak, clock)' =>
                  \A b \in Attempts : att'[b] # NoAttempt => att'[b].pc = "check"
  <2>1. att[a] # NoAttempt
    BY <1>5 DEF HandleAttempt, CheckLock, Verify, SelectStreak, DeleteStreak, InsertStreak,
                ClearStreak, Attempting
  <2>2. \A b \in Attempts \ {a} : att[b] = NoAttempt
    BY <1>1, <2>1
  <2>3. \A b \in Attempts \ {a} : att'[b] = att[b]
    BY <1>5, <2>1
    DEF HandleAttempt, CheckLock, Verify, SelectStreak, DeleteStreak, InsertStreak,
        ClearStreak, GoOn, EndAttempt,
        LockoutTypeOK
  <2>4. LockedOut(streak, clock)' => att'[a] = NoAttempt
    <3>1. CASE CheckLock(a)
      BY <2>1, <3>1, DoneType DEF CheckLock, LockedOut
    <3>2. CASE Verify(a) \/ SelectStreak(a)
      BY <1>1, <2>1, <3>2 DEF Verify, SelectStreak, LockedOut, Attempting
    <3>3. CASE DeleteStreak(a) \/ ClearStreak(a)
      BY <3>3 DEF DeleteStreak, ClearStreak, LockedOut
    <3>4. CASE InsertStreak(a)
      BY <3>4, DoneType DEF InsertStreak
    <3> QED
      BY <1>5, <3>1, <3>2, <3>3, <3>4 DEF HandleAttempt
  <2> QED
    BY <2>2, <2>3, <2>4
<1>6. CASE UNCHANGED lockoutVars
  BY <1>1, <1>6 DEF lockoutVars, LockedOut
<1> QED
  BY <1>2, <1>3, <1>4, <1>5, <1>6 DEF LockoutNext

\* Attempts made one after another neither prolong a lock nor lift it.
THEOREM LockedStays == LockoutSpec => LockedIsUntouched
<1>1. TurnInv /\ [LockoutNext]_lockoutVars
        => [~overlapped /\ LockedOut(streak, clock) => streak' = streak]_lockoutVars
  <2> SUFFICES ASSUME TurnInv, LockoutNext, ~overlapped, LockedOut(streak, clock)
      PROVE streak' = streak
    BY DEF lockoutVars
  <2>1. \A a \in Attempts : att[a] # NoAttempt => att[a].pc = "check"
    BY DEF TurnInv
  <2> QED
    BY <2>1
    DEF LockoutNext, ClockTicks, Crash, Attempt, HandleAttempt, CheckLock, Verify,
        SelectStreak, DeleteStreak,
        InsertStreak, ClearStreak, Attempting
<1> QED
  BY <1>1, TurnInit, TurnNext, PTL DEF LockoutSpec, LockedIsUntouched

-----------------------------------------------------------------------------
(* How many passwords can be tried.                                        *)
(*                                                                         *)
(* The bound is about the times in tried, which the code does not keep:    *)
(* Matches relates the row to them.  A row that counts k failures stands   *)
(* for the last k of tried, and what came before is a window or more away. *)
(* Between its SELECT and its INSERT an attempt holds the row's next       *)
(* version in hand, so there it is that version which matches.             *)

Matches(s, tr, n) ==
  LET k == s.fails IN
    IF s = NoStreak THEN n = 0
    ELSE /\ k \in 1 .. Threshold /\ k <= n
         /\ s.last = Truncate(tr[n])
         /\ s.until = IF k = Threshold THEN s.last + Duration ELSE NoLock
         /\ k < n => tr[n - k + 1] - tr[n - k] > Window - Second

\* Times in their order, none later than t.
InOrder(tr, n, t) ==
  /\ n \in Nat /\ n <= Threshold + 1
  /\ \A i \in 1 .. n : tr[i] \in Nat /\ tr[i] <= t
  /\ \A i, j \in 1 .. n : i <= j => tr[i] <= tr[j]

\* The oldest is too old when there are too many.
History(tr, n, t) ==
  /\ InOrder(tr, n, t)
  /\ n = Threshold + 1 => t - tr[1] > Window - Second

Resting == \A a \in Attempts : att[a] = NoAttempt \/ att[a].pc \in {"check", "verify", "clear"}

InHand(a) ==
  LET MatchesNext(s) == Matches(NextStreak(s, att[a].at), tried, Len(tried)) IN
    /\ Attempting(a, "select") => MatchesNext(streak)
    /\ Attempting(a, "delete") => att[a].read = streak
    /\ Attempting(a, "delete") \/ Attempting(a, "insert") => MatchesNext(att[a].read)
    /\ Attempting(a, "insert") => streak = NoStreak

CountInv ==
  ~overlapped /\ crashes = 0 =>
    /\ History(tried, Len(tried), clock)
    /\ Resting => Matches(streak, tried, Len(tried))
    /\ \A a \in Attempts : InHand(a)

\* new, of length m, is tr, of length n, with t at its end and at most Threshold
\* times before it.
Grows(tr, n, t, new, m) ==
  \E cut \in {0, 1} :
    /\ cut = IF n > Threshold THEN 1 ELSE 0
    /\ m = n + 1 - cut
    /\ new[m] = t
    /\ \A i \in 1 .. m - 1 : new[i] = tr[i + cut]

LEMMA OneLonger ==
  ASSUME NEW q \in Seq(Nat), NEW t \in Nat, NEW p, p = Append(q, t)
  PROVE  /\ Len(q) \in Nat /\ Len(p) = Len(q) + 1
         /\ p[Len(p)] = t
         /\ \A i \in 1 .. Len(q) : p[i] = q[i]
BY AppendProperties

LEMMA GrowsFromRest ==
  ASSUME NEW tr, NEW n \in Nat, NEW t \in Nat, NEW cut \in {0, 1}, NEW rest \in Seq(Nat),
         cut = IF n > Threshold THEN 1 ELSE 0,
         Len(rest) = n - cut, \A i \in 1 .. n - cut : rest[i] = tr[i + cut]
  PROVE  Grows(tr, n, t, Append(rest, t), Len(Append(rest, t)))
<1>1. PICK new : new = Append(rest, t)
  OBVIOUS
<1>2. /\ Len(new) = Len(rest) + 1 /\ new[Len(new)] = t
      /\ \A i \in 1 .. Len(rest) : new[i] = rest[i]
  BY <1>1, OneLonger
<1>3. Len(new) = n + 1 - cut /\ Len(new) - 1 = n - cut
  BY <1>2
<1>4. \A i \in 1 .. Len(new) - 1 : new[i] = tr[i + cut]
  BY <1>2, <1>3
<1>5. Grows(tr, n, t, new, Len(new))
  BY <1>2, <1>3, <1>4 DEF Grows
<1> QED BY <1>1, <1>5

\* What a judged password does to the history.
LEMMA Grown ==
  ASSUME NEW tr \in Seq(Nat), NEW t \in Nat
  PROVE  LET new == Append(IF Len(tr) > Threshold THEN Tail(tr) ELSE tr, t)
         IN  Grows(tr, Len(tr), t, new, Len(new))
<1>1. CASE Len(tr) > Threshold
  <2>1. tr # <<>>
    BY <1>1, Bounds
  <2>2. /\ Tail(tr) \in Seq(Nat) /\ Len(Tail(tr)) = Len(tr) - 1
        /\ \A i \in 1 .. Len(Tail(tr)) : Tail(tr)[i] = tr[i + 1]
    BY <2>1, HeadTailProperties
  <2>3. \A i \in 1 .. Len(tr) - 1 : Tail(tr)[i] = tr[i + 1]
    BY <2>2
  <2>4. Grows(tr, Len(tr), t, Append(Tail(tr), t), Len(Append(Tail(tr), t)))
    <3>1. Len(tr) \in Nat /\ 1 \in {0, 1} /\ 1 = IF Len(tr) > Threshold THEN 1 ELSE 0
      BY <1>1
    <3>2. PICK rest \in Seq(Nat) : rest = Tail(tr)
      BY <2>2
    <3>3. Len(rest) = Len(tr) - 1 /\ \A i \in 1 .. Len(tr) - 1 : rest[i] = tr[i + 1]
      BY <2>2, <2>3, <3>2
    <3>4. Grows(tr, Len(tr), t, Append(rest, t), Len(Append(rest, t)))
      BY <3>1, <3>3, GrowsFromRest
    <3> QED BY <3>2, <3>4
  <2> QED BY <1>1, <2>4
<1>2. CASE ~(Len(tr) > Threshold)
  <2>1. Len(tr) = Len(tr) - 0 /\ \A i \in 1 .. Len(tr) - 0 : tr[i] = tr[i + 0]
    OBVIOUS
  <2>2. Grows(tr, Len(tr), t, Append(tr, t), Len(Append(tr, t)))
    BY <1>2, <2>1, GrowsFromRest
  <2> QED BY <1>2, <2>2
<1> QED BY <1>1, <1>2

\* Grows, with what the length is and where the order stays.
LEMMA StaysInOrder ==
  ASSUME NEW tr, NEW n, NEW t \in Nat, NEW new, NEW m, Grows(tr, n, t, new, m), InOrder(tr, n, t)
  PROVE  InOrder(new, m, t)
<1>1. PICK cut \in {0, 1} : /\ cut = IF n > Threshold THEN 1 ELSE 0
                            /\ m = n + 1 - cut
                            /\ new[m] = t
                            /\ \A i \in 1 .. m - 1 : new[i] = tr[i + cut]
  BY DEF Grows
<1>2. /\ \A i \in 1 .. n : tr[i] \in Nat /\ tr[i] <= t
      /\ \A i, j \in 1 .. n : i <= j => tr[i] <= tr[j]
  BY DEF InOrder
<1>3. n \in Nat /\ m \in Nat /\ 1 <= m /\ m <= Threshold + 1 /\ m = n + 1 - cut
  BY <1>1, Bounds DEF InOrder
<1>4. \A i \in 1 .. m : new[i] \in Nat /\ new[i] <= t
  <2> SUFFICES ASSUME NEW i \in 1 .. m, i # m PROVE new[i] \in Nat /\ new[i] <= t
    BY <1>1
  <2>1. i \in 1 .. m - 1 /\ i + cut \in 1 .. n
    BY <1>3
  <2> QED BY <1>1, <1>2, <2>1
<1>5. \A i, j \in 1 .. m : i <= j => new[i] <= new[j]
  <2> SUFFICES ASSUME NEW i \in 1 .. m, NEW j \in 1 .. m, i <= j, i # m, j # m
               PROVE  new[i] <= new[j]
    BY <1>1, <1>3, <1>4
  <2>1. /\ i \in 1 .. m - 1 /\ j \in 1 .. m - 1
        /\ i + cut \in 1 .. n /\ j + cut \in 1 .. n /\ i + cut <= j + cut
    BY <1>3
  <2> QED BY <1>1, <1>2, <2>1
<1> QED BY <1>3, <1>4, <1>5 DEF InOrder

\* A password judged while the account is not locked: the row that goes with the
\* history from then on, and the bound.
LEMMA NextMatches ==
  ASSUME NEW tr, NEW n, NEW t \in Nat, NEW s \in Streak \cup {NoStreak}, NEW new, NEW m,
         Grows(tr, n, t, new, m), History(tr, n, t), Matches(s, tr, n), ~LockedOut(s, t)
  PROVE  History(new, m, t) /\ Matches(NextStreak(s, t), new, m)
<1>1. PICK cut \in {0, 1} : /\ cut = IF n > Threshold THEN 1 ELSE 0
                            /\ m = n + 1 - cut
                            /\ new[m] = t
                            /\ \A i \in 1 .. m - 1 : new[i] = tr[i + cut]
  BY DEF Grows
<1>2. /\ \A i \in 1 .. n : tr[i] \in Nat /\ tr[i] <= t
      /\ \A i, j \in 1 .. n : i <= j => tr[i] <= tr[j]
  BY DEF History, InOrder
<1>3. /\ n \in Nat /\ n <= Threshold + 1 /\ Threshold \in Nat /\ Threshold >= 1 /\ Window \in Nat
      /\ m \in Nat /\ m = n + 1 - cut /\ 1 <= m /\ m <= Threshold + 1
      /\ cut = IF n > Threshold THEN 1 ELSE 0
  BY <1>1, Bounds DEF History, InOrder
<1>4. InOrder(new, m, t)
  BY StaysInOrder DEF History
<1>5. Truncate(t + Duration) = Truncate(t) + Duration /\ Truncate(t) \in Nat
  BY TruncateType, TruncateLock
<1>6. CASE s = NoStreak
  <2>1. n = 0
    BY <1>6 DEF Matches
  <2>2. m = 1 /\ new[1] = t
    BY <1>1, <1>3, <2>1
  <2>3. /\ NextStreak(s, t).fails = 1 /\ NextStreak(s, t).last = Truncate(t)
        /\ NextStreak(s, t).until = IF 1 = Threshold THEN Truncate(t) + Duration ELSE NoLock
    BY <1>3, <1>5, <1>6 DEF NextStreak, NextFails
  <2>4. NextStreak(s, t) # NoStreak
    BY NextStreakType, LockoutNothingsDiffer
  <2>5. 1 \in 1 .. Threshold /\ 1 # Threshold + 1
    BY <1>3
  <2>6. History(new, m, t)
    BY <1>4, <2>2, <2>5 DEF History
  <2> QED BY <2>2, <2>3, <2>4, <2>5, <2>6 DEF Matches
<1>7. CASE s # NoStreak
  <2> DEFINE k == s.fails
             l == NextStreak(s, t).fails
  <2>1. /\ k \in 1 .. Threshold /\ k <= n /\ s.last = Truncate(tr[n]) /\ n \in 1 .. n /\ tr[n] \in Nat
        /\ s.until = IF k = Threshold THEN s.last + Duration ELSE NoLock
        /\ k < n => tr[n - k + 1] - tr[n - k] > Window - Second
    BY <1>2, <1>3, <1>7 DEF Matches
  <2>2. s.last \in Nat /\ s.last <= tr[n] /\ tr[n] < s.last + Second
    BY <2>1, TruncateType
  <2>3. k = Threshold => t - s.last > Window
    <3> SUFFICES ASSUME k = Threshold PROVE t - s.last > Window
      OBVIOUS
    <3>1. s.until = s.last + Duration /\ s.last + Duration \in Nat
      BY <2>1, <2>2, Bounds
    <3>2. ~(t <= s.last + Duration)
      BY <1>7, <3>1, NoLockIsNoTime DEF LockedOut
    <3> QED BY <2>2, <3>2, Bounds, DurationCoversWindow
  <2>4. l = IF t - s.last > Window THEN 1 ELSE k + 1
    BY <1>3, <1>7, <2>1, <2>3 DEF NextStreak, NextFails, StaleStreak
  <2>5. /\ l \in 1 .. Threshold /\ NextStreak(s, t).last = Truncate(t)
        /\ NextStreak(s, t).until = IF l = Threshold THEN Truncate(t) + Duration ELSE NoLock
    <3>1. l \in 1 .. Threshold
      <4>1. k \in 1 .. Threshold /\ l = IF t - s.last > Window THEN 1 ELSE k + 1
        BY <2>1, <2>4
      <4>2. k = Threshold => l = 1
        BY <2>3, <2>4
      <4> HIDE DEF k, l
      <4> QED BY <4>1, <4>2, Bounds
    <3> QED BY <1>5, <3>1, Bounds DEF NextStreak
  <2>6. NextStreak(s, t) # NoStreak
    BY NextStreakType, LockoutNothingsDiffer
  <2>7. t - s.last > Window => t - tr[n] > Window - Second
    BY <2>1, <2>2, Bounds
  <2> HIDE DEF k, l
  <2>8. l <= m
    BY <1>3, <2>1, <2>4, <2>5
  <2>9. l < m => new[m - l + 1] - new[m - l] > Window - Second
    <3> SUFFICES ASSUME l < m PROVE new[m - l + 1] - new[m - l] > Window - Second
      OBVIOUS
    <3>1. CASE l = 1
      <4>1. new[m - l] = tr[n] /\ new[m - l + 1] = t
        <5>1. m - l \in 1 .. m - 1 /\ m - l + cut = n
          BY <1>3, <3>1
        <5>2. m - l + 1 = m
          BY <1>3, <3>1
        <5> QED BY <1>1, <5>1, <5>2
      <4>2. t - tr[n] > Window - Second
        BY <2>1, <2>4, <2>7, <3>1
      <4> QED BY <4>1, <4>2
    <3>2. CASE l # 1
      <4>1. l = k + 1
        BY <2>4, <3>2
      <4>2. /\ m - l \in 1 .. m - 1 /\ m - l + cut = n - k
            /\ m - l + 1 \in 1 .. m - 1 /\ m - l + 1 + cut = n - k + 1
            /\ k < n
        BY <1>3, <2>1, <3>2, <4>1
      <4>3. new[m - l] = tr[n - k] /\ new[m - l + 1] = tr[n - k + 1]
        BY <1>1, <4>2
      <4> QED BY <2>1, <4>2, <4>3
    <3> QED BY <3>1, <3>2
  <2>10. m = Threshold + 1 => t - new[1] > Window - Second
    <3> SUFFICES ASSUME m = Threshold + 1 PROVE t - new[1] > Window - Second
      OBVIOUS
    <3>1. /\ n >= Threshold /\ 1 \in 1 .. m - 1 /\ 1 + cut = n - Threshold + 1
          /\ n - Threshold + 1 \in 1 .. n
      BY <1>3
    <3>2. new[1] = tr[n - Threshold + 1]
      BY <1>1, <3>1
    <3>3. CASE k = Threshold
      <4>1. tr[n - Threshold + 1] <= tr[n] /\ tr[n - Threshold + 1] \in Nat /\ tr[n] \in Nat
        BY <1>2, <2>1, <3>1
      <4> QED BY <2>3, <2>7, <3>2, <3>3, <4>1, Bounds
    <3>4. CASE k # Threshold
      <4>1. k < n /\ n - k \in 1 .. n /\ n - k + 1 \in 1 .. n /\ n - Threshold + 1 <= n - k
        BY <1>3, <2>1, <3>1, <3>4
      <4>2. /\ tr[n - Threshold + 1] <= tr[n - k] /\ tr[n - k + 1] <= t
            /\ tr[n - Threshold + 1] \in Nat /\ tr[n - k] \in Nat /\ tr[n - k + 1] \in Nat
        BY <1>2, <3>1, <4>1
      <4> QED BY <2>1, <3>2, <4>1, <4>2, Bounds
    <3> QED BY <3>3, <3>4
  <2>11. History(new, m, t)
    BY <1>4, <2>10 DEF History
  <2>12. Matches(NextStreak(s, t), new, m)
    BY <1>1, <2>5, <2>6, <2>8, <2>9 DEF Matches, l
  <2> QED BY <2>11, <2>12
<1> QED BY <1>6, <1>7

\* Old passwords stay old.
LEMMA OrderAges ==
  ASSUME NEW tr, NEW n, NEW t \in Nat, InOrder(tr, n, t)
  PROVE  InOrder(tr, n, t + 1)
<1>1. \A i \in 1 .. n : tr[i] \in Nat /\ tr[i] <= t + 1
  BY DEF InOrder
<1> QED BY <1>1 DEF InOrder

LEMMA HistoryAges ==
  ASSUME NEW tr, NEW n, NEW t \in Nat, History(tr, n, t)
  PROVE  History(tr, n, t + 1)
<1>1. n = Threshold + 1 => tr[1] \in Nat /\ t - tr[1] > Window - Second
  BY Bounds DEF History, InOrder
<1>2. n = Threshold + 1 => (t + 1) - tr[1] > Window - Second
  BY <1>1, Bounds
<1> QED BY <1>2, OrderAges DEF History

LEMMA CountInit == LockoutInit => CountInv
<1> SUFFICES ASSUME LockoutInit PROVE CountInv
  OBVIOUS
<1>1. Len(tried) = 0 /\ 0 # Threshold + 1
  BY Bounds DEF LockoutInit
<1>2. History(tried, Len(tried), clock)
  BY <1>1, Bounds DEF History, InOrder
<1>3. Matches(streak, tried, Len(tried))
  BY <1>1 DEF LockoutInit, Matches
<1>4. \A a \in Attempts : InHand(a)
  BY DEF LockoutInit, InHand, Attempting
<1> QED BY <1>2, <1>3, <1>4 DEF CountInv

\* Of attempts that come one after another, all that are at rest besides a.
LEMMA OneAtATime ==
  ASSUME TurnInv, ~overlapped, NEW a \in Attempts, att[a] # NoAttempt
  PROVE  \A b \in Attempts \ {a} : att[b] = NoAttempt
BY DEF TurnInv

LEMMA CountNext == TurnInv /\ CountInv /\ [LockoutNext]_lockoutVars => CountInv'
<1> SUFFICES ASSUME TurnInv, CountInv, [LockoutNext]_lockoutVars, ~overlapped', crashes' = 0
             PROVE  /\ History(tried, Len(tried), clock)'
                    /\ Resting' => Matches(streak, tried, Len(tried))'
                    /\ \A a \in Attempts : InHand(a)'
  BY DEF CountInv
<1>1. LockoutTypeOK /\ LockoutTypeOK'
  BY TypeNext DEF TurnInv
<1>2. ~overlapped /\ crashes = 0 /\ ~Crash
  <2>1. crashes \in Nat
    BY <1>1 DEF LockoutTypeOK
  <2>2. ~Crash
    BY <2>1 DEF Crash
  <2>3. ASSUME NEW a \in Attempts, Attempt(a) \/ HandleAttempt(a)
        PROVE  crashes' = crashes /\ (overlapped => overlapped')
    BY <1>1, <2>3 DEF Attempt, HandleAttempt, CheckLock, Verify, SelectStreak, DeleteStreak,
                      InsertStreak, ClearStreak, LockoutTypeOK
  <2> QED BY <1>1, <2>2, <2>3 DEF LockoutNext, ClockTicks, lockoutVars
<1>3. /\ History(tried, Len(tried), clock)
      /\ Resting => Matches(streak, tried, Len(tried))
      /\ \A a \in Attempts : InHand(a)
  BY <1>2 DEF CountInv
<1>4. CASE ClockTicks
  <2>1. History(tried, Len(tried), clock)'
    BY <1>1, <1>3, <1>4, HistoryAges DEF ClockTicks, LockoutTypeOK
  <2>2. UNCHANGED <<streak, att, tried>>
    BY <1>4 DEF ClockTicks
  <2> QED BY <1>3, <2>1, <2>2 DEF Resting, InHand, Attempting
<1>5. CASE UNCHANGED lockoutVars
  BY <1>3, <1>5 DEF lockoutVars, Resting, InHand, Attempting
<1>6. ASSUME NEW a \in Attempts, Attempt(a)
      PROVE  /\ History(tried, Len(tried), clock)'
             /\ Resting' => Matches(streak, tried, Len(tried))'
             /\ \A b \in Attempts : InHand(b)'
  <2>1. /\ UNCHANGED <<clock, streak, tried>>
        /\ att' = [att EXCEPT ![a] = [pc |-> "check", at |-> 0, read |-> NoStreak]]
        /\ att[a] = NoAttempt
    BY <1>6 DEF Attempt
  <2>2. Resting' => Resting
    BY <1>1, <2>1 DEF Resting, LockoutTypeOK
  <2>3. \A b \in Attempts : InHand(b)'
    <3> SUFFICES ASSUME NEW b \in Attempts PROVE InHand(b)'
      OBVIOUS
    <3>1. InHand(b)
      BY <1>3
    <3>2. CASE b = a
      BY <1>1, <2>1, <3>2 DEF InHand, Attempting, LockoutTypeOK
    <3>3. CASE b # a
      BY <1>1, <2>1, <3>1, <3>3 DEF InHand, Attempting, LockoutTypeOK
    <3> QED BY <3>2, <3>3
  <2> QED BY <1>3, <2>1, <2>2, <2>3
<1>7. ASSUME NEW a \in Attempts, HandleAttempt(a)
      PROVE  /\ History(tried, Len(tried), clock)'
             /\ Resting' => Matches(streak, tried, Len(tried))'
             /\ \A b \in Attempts : InHand(b)'
  <2>1. att[a] # NoAttempt /\ clock' = clock
    BY <1>7 DEF HandleAttempt, CheckLock, Verify, SelectStreak, DeleteStreak, InsertStreak,
                ClearStreak, Attempting
  <2>2. \A b \in Attempts \ {a} : att[b] = NoAttempt
    BY <1>2, <2>1, OneAtATime
  <2>3. \A b \in Attempts \ {a} : att'[b] = NoAttempt
    BY <1>1, <1>7, <2>2
    DEF HandleAttempt, CheckLock, Verify, SelectStreak, DeleteStreak, InsertStreak,
        ClearStreak, GoOn, EndAttempt,
        LockoutTypeOK
  <2>4. att[a].at \in Nat /\ att[a].read \in Streak \cup {NoStreak} /\ InHand(a)
    BY <1>1, <1>3, <2>1, AttemptFields
  <2>5. \A b \in Attempts \ {a} : InHand(b)'
    BY <2>3 DEF InHand, Attempting
  <2>6. Resting <=> att[a].pc \in {"check", "verify", "clear"}
    BY <2>1, <2>2 DEF Resting
  <2>7. Resting' => att'[a] = NoAttempt \/ att'[a].pc \in {"check", "verify", "clear"}
    BY DEF Resting
  <2>8. CASE \/ CheckLock(a)
             \/ Verify(a) /\ tried' = tried /\ (EndAttempt(a) \/ GoOn(a, "clear"))
    <3>1. UNCHANGED <<streak, tried, clock>> /\ Resting
      BY <2>6, <2>8 DEF CheckLock, Verify, Attempting
    <3>2. att'[a] = NoAttempt \/ (att'[a] # NoAttempt /\ att'[a].pc \in {"verify", "clear"})
      BY <1>1, <2>1, <2>8, DoneType, GoType DEF CheckLock
    <3>3. InHand(a)'
      BY <3>2 DEF InHand, Attempting
    <3> QED BY <1>3, <2>5, <3>1, <3>3
  <2>9. CASE Verify(a) /\ att' = [att EXCEPT ![a] = [@ EXCEPT !.pc = "select", !.at = clock]]
    <3>1. /\ UNCHANGED <<streak, clock>> /\ Resting
          /\ tried' = Append(IF Len(tried) > Threshold THEN Tail(tried) ELSE tried, clock)
             \/ EndAttempt(a) \/ GoOn(a, "clear")
      BY <2>6, <2>9 DEF Verify, Attempting
    <3>2. att'[a] # NoAttempt /\ att'[a].pc = "select" /\ att'[a].at = clock
      BY <1>1, <2>1, <2>9, LockoutNothingsDiffer, AttemptFields DEF LockoutTypeOK,
                              AttemptInFlight
    <3>3. CASE tried' = Append(IF Len(tried) > Threshold THEN Tail(tried) ELSE tried, clock)
      <4>1. ~LockedOut(streak, clock)
        BY <1>2, <2>1, <2>9 DEF TurnInv, Verify, Attempting
      <4>2. tried \in Seq(Nat) /\ clock \in Nat /\ streak \in Streak \cup {NoStreak}
        BY <1>1 DEF LockoutTypeOK
      <4>3. Grows(tried, Len(tried), clock, tried', Len(tried'))
        BY <3>3, <4>2, Grown
      <4>4. /\ History(tried', Len(tried'), clock)
            /\ Matches(NextStreak(streak, clock), tried', Len(tried'))
        BY <1>3, <3>1, <4>1, <4>2, <4>3, NextMatches
      <4>5. InHand(a)'
        BY <3>1, <3>2, <4>4 DEF InHand, Attempting
      <4> QED BY <2>5, <2>7, <3>1, <3>2, <4>4, <4>5
    <3>4. CASE EndAttempt(a) \/ GoOn(a, "clear")
      BY <1>1, <2>1, <3>2, <3>4, DoneType, GoType
    <3> QED BY <3>1, <3>3, <3>4
  <2>10. CASE SelectStreak(a)
    <3>1. /\ UNCHANGED <<streak, tried, clock>> /\ Attempting(a, "select")
          /\ att' = [att EXCEPT ![a] = [@ EXCEPT !.pc = "delete", !.read = streak]]
      BY <2>10 DEF SelectStreak
    <3>2. /\ att'[a] # NoAttempt /\ att'[a].pc = "delete" /\ att'[a].read = streak
          /\ att'[a].at = att[a].at
      BY <1>1, <2>1, <3>1, LockoutNothingsDiffer, AttemptFields DEF LockoutTypeOK,
                              AttemptInFlight
    <3>3. InHand(a)'
      BY <2>4, <3>1, <3>2 DEF InHand, Attempting
    <3> QED BY <1>3, <2>5, <2>7, <3>1, <3>2, <3>3
  <2>11. CASE DeleteStreak(a)
    <3>1. UNCHANGED <<tried, clock>> /\ Attempting(a, "delete") /\ streak' = NoStreak /\ GoOn(a, "insert")
      BY <2>11 DEF DeleteStreak
    <3>2. /\ att'[a] # NoAttempt /\ att'[a].pc = "insert" /\ att'[a].read = att[a].read
          /\ att'[a].at = att[a].at
      BY <1>1, <2>1, <3>1, GoType
    <3>3. InHand(a)'
      BY <2>4, <3>1, <3>2 DEF InHand, Attempting
    <3> QED BY <1>3, <2>5, <2>7, <3>1, <3>2, <3>3
  <2>12. CASE InsertStreak(a)
    <3>1. UNCHANGED <<tried, clock>> /\ Attempting(a, "insert") /\ streak = NoStreak
      BY <2>4, <2>12 DEF InsertStreak, InHand
    <3>2. streak' = NextStreak(att[a].read, att[a].at) /\ att'[a] = NoAttempt
      BY <1>1, <2>12, <3>1, DoneType DEF InsertStreak
    <3>3. Matches(streak', tried, Len(tried)) /\ InHand(a)'
      BY <2>4, <3>1, <3>2 DEF InHand, Attempting
    <3> QED BY <1>3, <2>5, <3>1, <3>3
  <2>13. CASE ClearStreak(a)
    <3>1. streak' = NoStreak /\ tried' = <<>> /\ att'[a] = NoAttempt
      BY <1>1, <2>13, DoneType DEF ClearStreak
    <3>2. Len(tried') = 0 /\ 0 # Threshold + 1
      BY <3>1, Bounds
    <3>3. History(tried', Len(tried'), clock')
      BY <3>2, Bounds DEF History, InOrder
    <3>4. Matches(streak', tried', Len(tried'))
      BY <3>1, <3>2 DEF Matches
    <3>5. InHand(a)'
      BY <3>1 DEF InHand, Attempting
    <3> QED BY <2>5, <3>3, <3>4, <3>5
  <2>14. \/ CheckLock(a) \/ SelectStreak(a) \/ DeleteStreak(a) \/ InsertStreak(a) \/ ClearStreak(a)
         \/ Verify(a) /\ tried' = tried /\ (EndAttempt(a) \/ GoOn(a, "clear"))
         \/ Verify(a) /\ att' = [att EXCEPT ![a] = [@ EXCEPT !.pc = "select", !.at = clock]]
    BY <1>7 DEF HandleAttempt, Verify
  <2> QED BY <2>8, <2>9, <2>10, <2>11, <2>12, <2>13, <2>14
<1> QED BY <1>2, <1>4, <1>5, <1>6, <1>7 DEF LockoutNext

\* No more than Threshold wrong passwords are judged in any window less a second, by
\* attempts that come one after another: of Threshold + 1 the first is too old.
THEOREM GuessesAlwaysBounded == LockoutSpec => []GuessesBounded
<1>1. LockoutTypeOK /\ CountInv => GuessesBounded
  <2> SUFFICES ASSUME LockoutTypeOK, CountInv, ~overlapped, crashes = 0
               PROVE  Cardinality({i \in DOMAIN tried : clock - tried[i] <= Window - Second}) <= Threshold
    BY DEF GuessesBounded
  <2> DEFINE n == Len(tried)
             recent == {i \in DOMAIN tried : clock - tried[i] <= Window - Second}
             least == IF n > Threshold THEN 2 ELSE 1
  <2> HIDE DEF least
  <2>1. n \in Nat /\ DOMAIN tried = 1 .. n /\ History(tried, n, clock)
    BY DEF LockoutTypeOK, CountInv
  <2>2. n <= Threshold + 1 /\ (n = Threshold + 1 => clock - tried[1] > Window - Second)
    BY <2>1 DEF History, InOrder
  <2>3. recent \subseteq least .. n
    <3> SUFFICES ASSUME NEW i \in 1 .. n, clock - tried[i] <= Window - Second
        PROVE i \in least .. n
      BY <2>1
    <3>1. n > Threshold => n = Threshold + 1
      <4> HIDE DEF n
      <4> QED BY <2>1, <2>2, Bounds
    <3>2. n > Threshold => i # 1
      BY <2>1, <2>2, <3>1, Bounds DEF LockoutTypeOK
    <3> QED BY <2>1, <3>2 DEF least
  <2>4. /\ IsFiniteSet(least .. n)
        /\ Cardinality(least .. n) = IF least > n THEN 0 ELSE n - least + 1
    <3>1. least \in Int /\ n \in Int
      BY <2>1 DEF least
    <3> HIDE DEF n
    <3> QED BY <3>1, FS_Interval
  <2>5. Cardinality(recent) <= Cardinality(least .. n)
    BY <2>3, <2>4, FS_Subset
  <2>6. IsFiniteSet(recent)
    BY <2>3, <2>4, FS_Subset
  <2>7. Cardinality(recent) \in Nat
    BY <2>6, FS_CardinalityType
  <2>8. Cardinality(recent) <= Threshold
    <3> DEFINE some == Cardinality(recent)
               all  == Cardinality(least .. n)
    <3>1. some \in Nat /\ some <= all /\ all = IF least > n THEN 0 ELSE n - least + 1
      BY <2>4, <2>5, <2>7
    <3> HIDE DEF some, all, n
    <3>2. all \in Nat /\ all <= Threshold
      BY <2>1, <2>2, <3>1, Bounds DEF least
    <3>3. some <= Threshold
      BY <3>1, <3>2, Bounds
    <3> QED BY <3>3 DEF some
  <2> QED BY <2>8 DEF recent
<1>2. TurnInv => LockoutTypeOK
  BY DEF TurnInv
<1> QED BY <1>1, <1>2, TurnInit, TurnNext, CountInit, CountNext, PTL DEF LockoutSpec

-----------------------------------------------------------------------------
(* Locks are earned.                                                       *)
(*                                                                         *)
(* A crash between the judgement and the INSERT leaves a failure in tried  *)
(* that the row does not count, so Matches is lost.  What stays is that a  *)
(* row which is not stale by the last of tried, or locks the account past  *)
(* it, counts no more than the failures that follow on one another.        *)

\* The last k of tr, each no more than Window after the one before.
Chained(tr, n, k) ==
  k <= n /\ \A i \in n - k + 1 .. n - 1 : tr[i + 1] - tr[i] <= Window

Earned(s, tr, n) ==
  s # NoStreak =>
    /\ s.fails \in 1 .. Threshold /\ n >= 1
    /\ s.until = IF s.fails = Threshold THEN s.last + Duration ELSE NoLock
    /\ s.last <= tr[n]
    /\ (tr[n] - s.last <= Window \/ (s.until # NoLock /\ tr[n] <= s.until))
         => Chained(tr, n, s.fails)

Holding(a) ==
  LET EarnedNext(s) == Earned(NextStreak(s, att[a].at), tried, Len(tried)) IN
    /\ Attempting(a, "select") => EarnedNext(streak)
    /\ Attempting(a, "delete") => att[a].read = streak
    /\ Attempting(a, "delete") \/ Attempting(a, "insert") => EarnedNext(att[a].read)

EarnInv ==
  ~overlapped =>
    /\ InOrder(tried, Len(tried), clock)
    /\ Earned(streak, tried, Len(tried))
    /\ \A a \in Attempts : Holding(a)

LEMMA LongerChain ==
  ASSUME NEW tr, NEW n, NEW t \in Nat, NEW new, NEW m, Grows(tr, n, t, new, m), InOrder(tr, n, t),
         NEW k \in Nat, k >= 1, k < Threshold, n >= 1, Chained(tr, n, k), t - tr[n] <= Window
  PROVE  Chained(new, m, k + 1)
<1>1. PICK cut \in {0, 1} : /\ cut = IF n > Threshold THEN 1 ELSE 0
                            /\ m = n + 1 - cut
                            /\ new[m] = t
                            /\ \A i \in 1 .. m - 1 : new[i] = tr[i + cut]
  BY DEF Grows
<1>2. n \in Nat /\ k <= n /\ \A i \in n - k + 1 .. n - 1 : tr[i + 1] - tr[i] <= Window
  BY DEF InOrder, Chained
<1>3. m \in Nat /\ k + 1 <= m /\ m - (k + 1) + 1 = m - k /\ m - k >= 1
  BY <1>1, <1>2, Bounds
<1>4. ASSUME NEW i \in m - k .. m - 1 PROVE new[i + 1] - new[i] <= Window
  <2>1. i \in 1 .. m - 1 /\ new[i] = tr[i + cut]
    BY <1>1, <1>3
  <2>2. CASE i = m - 1
    <3>1. i + 1 = m /\ i + cut = n
      BY <1>1, <1>2, <1>3, <2>2
    <3> QED BY <1>1, <2>1, <3>1
  <2>3. CASE i # m - 1
    <3>1. /\ i + 1 \in 1 .. m - 1 /\ i + cut \in n - k + 1 .. n - 1
          /\ i + 1 + cut = (i + cut) + 1
      BY <1>1, <1>2, <1>3, <2>3
    <3>2. new[i + 1] = tr[(i + cut) + 1]
      BY <1>1, <3>1
    <3> QED BY <1>2, <2>1, <3>1, <3>2
  <2> QED BY <2>2, <2>3
<1> QED BY <1>3, <1>4 DEF Chained

LEMMA ShorterChain ==
  ASSUME NEW tr, NEW n \in Nat, NEW k \in Nat, Chained(tr, n, k + 1)
  PROVE  Chained(tr, n, k)
<1>1. k + 1 <= n /\ \A i \in n - (k + 1) + 1 .. n - 1 : tr[i + 1] - tr[i] <= Window
  BY DEF Chained
<1>2. \A i \in n - k + 1 .. n - 1 : i \in n - (k + 1) + 1 .. n - 1
  OBVIOUS
<1> QED BY <1>1, <1>2 DEF Chained

\* A password judged while the account is not locked: what the row in the table counts
\* is still earned, and so is what its next version will.
LEMMA NextEarned ==
  ASSUME NEW tr, NEW n, NEW t \in Nat, NEW s \in Streak \cup {NoStreak}, NEW new, NEW m,
         Grows(tr, n, t, new, m), InOrder(tr, n, t), Earned(s, tr, n), ~LockedOut(s, t)
  PROVE  Earned(s, new, m) /\ Earned(NextStreak(s, t), new, m)
<1> DEFINE l == NextStreak(s, t).fails
<1>1. /\ n \in Nat /\ m \in Nat /\ m >= 1 /\ new[m] = t
      /\ n >= 1 => tr[n] \in Nat /\ tr[n] <= t
  BY Bounds DEF Grows, InOrder
<1>2. /\ Truncate(t + Duration) = Truncate(t) + Duration
      /\ Truncate(t) \in Nat /\ Truncate(t) <= t
  BY TruncateType, TruncateLock
<1>3. Chained(new, m, 1)
  <2>1. \A i \in m - 1 + 1 .. m - 1 : new[i + 1] - new[i] <= Window
    BY <1>1
  <2> QED BY <1>1, <2>1 DEF Chained
<1>4. ASSUME s # NoStreak
      PROVE  /\ s.fails \in 1 .. Threshold /\ s.last \in Nat /\ n >= 1 /\ s.last <= tr[n]
             /\ s.until = IF s.fails = Threshold THEN s.last + Duration ELSE NoLock
             /\ tr[n] - s.last <= Window => Chained(tr, n, s.fails)
             /\ s.until # NoLock => t > s.until /\ s.until = s.last + Duration
  <2>1. s.last \in Nat /\ (s.until # NoLock => s.until \in Nat)
    BY <1>4 DEF Streak
  <2>2. s.until # NoLock => t > s.until
    BY <1>4, <2>1 DEF LockedOut
  <2> QED BY <1>4, <2>1, <2>2 DEF Earned
<1>5. ASSUME s # NoStreak, ~(t - s.last > Window)
      PROVE  s.fails < Threshold /\ Chained(new, m, s.fails + 1)
  <2>1. s.until = NoLock
    <3> SUFFICES ASSUME s.until # NoLock PROVE FALSE
      OBVIOUS
    <3> QED BY <1>4, <1>5, Bounds, DurationCoversWindow
  <2>2. s.fails # Threshold
    <3> SUFFICES ASSUME s.fails = Threshold PROVE FALSE
      OBVIOUS
    <3>1. s.last + Duration \in Nat
      BY <1>4, <1>5, Bounds
    <3> QED BY <1>4, <1>5, <2>1, <3>1, NoLockIsNoTime
  <2>3. tr[n] - s.last <= Window /\ t - tr[n] <= Window
    BY <1>1, <1>4, <1>5, Bounds
  <2>4. s.fails \in Nat /\ s.fails >= 1 /\ s.fails < Threshold
    BY <1>4, <1>5, <2>2, Bounds
  <2> QED BY <1>4, <1>5, <2>3, <2>4, LongerChain
<1>6. Earned(s, new, m)
  <2> SUFFICES ASSUME s # NoStreak PROVE Earned(s, new, m)
    BY DEF Earned
  <2>1. s.last <= new[m]
    BY <1>1, <1>4
  <2>2. t - s.last <= Window => Chained(new, m, s.fails)
    <3> SUFFICES ASSUME t - s.last <= Window PROVE Chained(new, m, s.fails)
      OBVIOUS
    <3>1. ~(t - s.last > Window) /\ s.fails \in Nat
      BY <1>4, Bounds
    <3> QED BY <1>1, <1>5, <3>1, ShorterChain
  <2>3. ~(s.until # NoLock /\ t <= s.until)
    BY <1>4, Bounds
  <2> QED BY <1>1, <1>4, <2>1, <2>2, <2>3 DEF Earned
<1>7. l \in 1 .. Threshold /\ Chained(new, m, l)
  <2>1. CASE s = NoStreak \/ t - s.last > Window
    <3>1. l = 1
      BY <2>1 DEF NextStreak, NextFails, StaleStreak
    <3> QED BY <1>3, <3>1, Bounds
  <2>2. CASE s # NoStreak /\ ~(t - s.last > Window)
    <3>1. s.fails \in 1 .. Threshold /\ s.fails < Threshold /\ Chained(new, m, s.fails + 1)
      BY <1>4, <1>5, <2>2
    <3>2. l = s.fails + 1
      BY <2>2, <3>1, Bounds DEF NextStreak, NextFails, StaleStreak
    <3> HIDE DEF l
    <3> QED BY <3>1, <3>2, Bounds
  <2> QED BY <2>1, <2>2
<1>8. /\ NextStreak(s, t).last = Truncate(t)
      /\ NextStreak(s, t).until = IF l = Threshold THEN Truncate(t) + Duration ELSE NoLock
  <2>1. l >= Threshold <=> l = Threshold
    <3> HIDE DEF l
    <3> QED BY <1>7, Bounds
  <2> QED BY <1>2, <2>1 DEF NextStreak
<1> HIDE DEF l
<1> QED BY <1>1, <1>2, <1>6, <1>7, <1>8 DEF Earned, l

LEMMA EarnInit == LockoutInit => EarnInv
<1> SUFFICES ASSUME LockoutInit PROVE EarnInv
  OBVIOUS
<1>1. Len(tried) = 0
  BY DEF LockoutInit
<1>2. InOrder(tried, Len(tried), clock)
  BY <1>1, Bounds DEF InOrder
<1>3. Earned(streak, tried, Len(tried)) /\ \A a \in Attempts : Holding(a)
  BY DEF LockoutInit, Earned, Holding, Attempting
<1> QED BY <1>2, <1>3 DEF EarnInv

LEMMA EarnNext == TurnInv /\ EarnInv /\ [LockoutNext]_lockoutVars => EarnInv'
<1> SUFFICES ASSUME TurnInv, EarnInv, [LockoutNext]_lockoutVars, ~overlapped'
             PROVE  /\ InOrder(tried, Len(tried), clock)'
                    /\ Earned(streak, tried, Len(tried))'
                    /\ \A a \in Attempts : Holding(a)'
  BY DEF EarnInv
<1>1. LockoutTypeOK /\ LockoutTypeOK'
  BY TypeNext DEF TurnInv
<1>2. ~overlapped
  BY <1>1 DEF LockoutNext, ClockTicks, Crash, Attempt, HandleAttempt, CheckLock, Verify,
              SelectStreak, DeleteStreak,
         InsertStreak, ClearStreak, lockoutVars, LockoutTypeOK
<1>3. /\ InOrder(tried, Len(tried), clock)
      /\ Earned(streak, tried, Len(tried))
      /\ \A a \in Attempts : Holding(a)
  BY <1>2 DEF EarnInv
<1>4. CASE ClockTicks
  <2>1. InOrder(tried, Len(tried), clock)'
    BY <1>1, <1>3, <1>4, OrderAges DEF ClockTicks, LockoutTypeOK
  <2>2. UNCHANGED <<streak, att, tried>>
    BY <1>4 DEF ClockTicks
  <2> QED BY <1>3, <2>1, <2>2 DEF Holding, Attempting
<1>5. CASE UNCHANGED lockoutVars
  BY <1>3, <1>5 DEF lockoutVars, Holding, Attempting
<1>6. CASE Crash
  BY <1>3, <1>6 DEF Crash, Holding, Attempting
<1>7. ASSUME NEW a \in Attempts, Attempt(a)
      PROVE  /\ InOrder(tried, Len(tried), clock)'
             /\ Earned(streak, tried, Len(tried))'
             /\ \A b \in Attempts : Holding(b)'
  <2>1. /\ UNCHANGED <<clock, streak, tried>>
        /\ att' = [att EXCEPT ![a] = [pc |-> "check", at |-> 0, read |-> NoStreak]]
    BY <1>7 DEF Attempt
  <2>2. ASSUME NEW b \in Attempts PROVE Holding(b)'
    <3>1. Holding(b)
      BY <1>3
    <3>2. CASE b = a
      BY <1>1, <2>1, <3>2 DEF Holding, Attempting, LockoutTypeOK
    <3>3. CASE b # a
      BY <1>1, <2>1, <3>1, <3>3 DEF Holding, Attempting, LockoutTypeOK
    <3> QED BY <3>2, <3>3
  <2> QED BY <1>3, <2>1, <2>2
<1>8. ASSUME NEW a \in Attempts, HandleAttempt(a)
      PROVE  /\ InOrder(tried, Len(tried), clock)'
             /\ Earned(streak, tried, Len(tried))'
             /\ \A b \in Attempts : Holding(b)'
  <2>1. att[a] # NoAttempt /\ clock' = clock
    BY <1>8 DEF HandleAttempt, CheckLock, Verify, SelectStreak, DeleteStreak, InsertStreak,
                ClearStreak, Attempting
  <2>2. \A b \in Attempts \ {a} : att[b] = NoAttempt
    BY <1>2, <2>1, OneAtATime
  <2>3. \A b \in Attempts \ {a} : Holding(b)'
    <3>1. \A b \in Attempts \ {a} : att'[b] = NoAttempt
      BY <1>1, <1>8, <2>2
      DEF HandleAttempt, CheckLock, Verify, SelectStreak, DeleteStreak, InsertStreak,
          ClearStreak, GoOn, EndAttempt,
          LockoutTypeOK
    <3> QED BY <3>1 DEF Holding, Attempting
  <2>4. att[a].at \in Nat /\ att[a].read \in Streak \cup {NoStreak} /\ Holding(a)
    BY <1>1, <1>3, <2>1, AttemptFields
  <2>5. CASE \/ CheckLock(a)
             \/ Verify(a) /\ tried' = tried /\ (EndAttempt(a) \/ GoOn(a, "clear"))
    <3>1. UNCHANGED <<streak, tried, clock>>
      BY <2>5 DEF CheckLock, Verify
    <3>2. att'[a] = NoAttempt \/ (att'[a] # NoAttempt /\ att'[a].pc \in {"verify", "clear"})
      BY <1>1, <2>1, <2>5, DoneType, GoType DEF CheckLock
    <3>3. Holding(a)'
      BY <3>2 DEF Holding, Attempting
    <3> QED BY <1>3, <2>3, <3>1, <3>3
  <2>6. CASE Verify(a) /\ att' = [att EXCEPT ![a] = [@ EXCEPT !.pc = "select", !.at = clock]]
    <3>1. /\ UNCHANGED <<streak, clock>>
          /\ tried' = Append(IF Len(tried) > Threshold THEN Tail(tried) ELSE tried, clock)
             \/ EndAttempt(a) \/ GoOn(a, "clear")
      BY <2>6 DEF Verify
    <3>2. att'[a] # NoAttempt /\ att'[a].pc = "select" /\ att'[a].at = clock
      BY <1>1, <2>1, <2>6, LockoutNothingsDiffer, AttemptFields DEF LockoutTypeOK,
                              AttemptInFlight
    <3>3. CASE tried' = Append(IF Len(tried) > Threshold THEN Tail(tried) ELSE tried, clock)
      <4>1. ~LockedOut(streak, clock)
        BY <1>2, <2>1, <2>6 DEF TurnInv, Verify, Attempting
      <4>2. tried \in Seq(Nat) /\ clock \in Nat /\ streak \in Streak \cup {NoStreak}
        BY <1>1 DEF LockoutTypeOK
      <4>3. Grows(tried, Len(tried), clock, tried', Len(tried'))
        BY <3>3, <4>2, Grown
      <4>4. /\ InOrder(tried', Len(tried'), clock)
            /\ Earned(streak, tried', Len(tried'))
            /\ Earned(NextStreak(streak, clock), tried', Len(tried'))
        BY <1>3, <4>1, <4>2, <4>3, StaysInOrder, NextEarned
      <4>5. Holding(a)'
        BY <3>1, <3>2, <4>4 DEF Holding, Attempting
      <4> QED BY <2>3, <3>1, <4>4, <4>5
    <3>4. CASE EndAttempt(a) \/ GoOn(a, "clear")
      BY <1>1, <2>1, <3>2, <3>4, DoneType, GoType
    <3> QED BY <3>1, <3>3, <3>4
  <2>7. CASE SelectStreak(a)
    <3>1. /\ UNCHANGED <<streak, tried, clock>> /\ Attempting(a, "select")
          /\ att' = [att EXCEPT ![a] = [@ EXCEPT !.pc = "delete", !.read = streak]]
      BY <2>7 DEF SelectStreak
    <3>2. /\ att'[a] # NoAttempt /\ att'[a].pc = "delete" /\ att'[a].read = streak
          /\ att'[a].at = att[a].at
      BY <1>1, <2>1, <3>1, LockoutNothingsDiffer, AttemptFields DEF LockoutTypeOK,
                              AttemptInFlight
    <3>3. Holding(a)'
      BY <2>4, <3>1, <3>2 DEF Holding, Attempting
    <3> QED BY <1>3, <2>3, <3>1, <3>3
  <2>8. CASE DeleteStreak(a)
    <3>1. UNCHANGED <<tried, clock>> /\ Attempting(a, "delete") /\ streak' = NoStreak /\ GoOn(a, "insert")
      BY <2>8 DEF DeleteStreak
    <3>2. /\ att'[a] # NoAttempt /\ att'[a].pc = "insert" /\ att'[a].read = att[a].read
          /\ att'[a].at = att[a].at
      BY <1>1, <2>1, <3>1, GoType
    <3>3. Holding(a)' /\ Earned(streak, tried, Len(tried))'
      BY <2>4, <3>1, <3>2 DEF Holding, Attempting, Earned
    <3> QED BY <1>3, <2>3, <3>1, <3>3
  <2>9. CASE InsertStreak(a)
    <3>1. UNCHANGED <<tried, clock>> /\ Attempting(a, "insert") /\ att'[a] = NoAttempt
      BY <1>1, <2>9, DoneType DEF InsertStreak
    <3>2. streak' \in {streak, NextStreak(att[a].read, att[a].at)}
      BY <2>9 DEF InsertStreak
    <3>3. Earned(streak', tried, Len(tried)) /\ Holding(a)'
      BY <1>3, <2>4, <3>1, <3>2 DEF Holding, Attempting
    <3> QED BY <1>3, <2>3, <3>1, <3>3
  <2>10. CASE ClearStreak(a)
    <3>1. streak' = NoStreak /\ tried' = <<>> /\ att'[a] = NoAttempt
      BY <1>1, <2>10, DoneType DEF ClearStreak
    <3>2. InOrder(tried', Len(tried'), clock')
      BY <3>1, Bounds DEF InOrder
    <3>3. Earned(streak, tried, Len(tried))' /\ Holding(a)'
      BY <3>1 DEF Earned, Holding, Attempting
    <3> QED BY <2>3, <3>2, <3>3
  <2>11. \/ CheckLock(a) \/ SelectStreak(a) \/ DeleteStreak(a) \/ InsertStreak(a) \/ ClearStreak(a)
         \/ Verify(a) /\ tried' = tried /\ (EndAttempt(a) \/ GoOn(a, "clear"))
         \/ Verify(a) /\ att' = [att EXCEPT ![a] = [@ EXCEPT !.pc = "select", !.at = clock]]
    BY <1>8 DEF HandleAttempt, Verify
  <2> QED BY <2>5, <2>6, <2>7, <2>8, <2>9, <2>10, <2>11
<1> QED BY <1>4, <1>5, <1>6, <1>7, <1>8 DEF LockoutNext

\* Nobody is locked out but for Threshold wrong passwords that follow on one another, and
\* for no longer than Duration after the last, by attempts one after another; whatever
\* crashes.
THEOREM LocksAlwaysEarned == LockoutSpec => []LocksAreEarned
<1>1. LockoutTypeOK /\ EarnInv => LocksAreEarned
  <2> SUFFICES ASSUME LockoutTypeOK, EarnInv, ~overlapped, LockedOut(streak, clock)
               PROVE  LET n == Len(tried)
                      IN  /\ n >= Threshold
                          /\ \A i \in n - Threshold + 1 .. n - 1 : tried[i + 1] - tried[i] <= Window
                          /\ streak.until <= tried[n] + Duration
    BY DEF LocksAreEarned
  <2> DEFINE n == Len(tried)
  <2>1. streak \in Streak /\ streak # NoStreak /\ streak.until # NoLock
        /\ streak.last \in Nat /\ streak.until \in Nat /\ clock \in Nat /\ clock <= streak.until
    BY DEF LockoutTypeOK, LockedOut, Streak
  <2>2. InOrder(tried, n, clock) /\ Earned(streak, tried, n)
    BY DEF EarnInv
  <2> HIDE DEF n
  <2>3. /\ n >= 1 /\ streak.fails = Threshold /\ streak.until = streak.last + Duration
        /\ streak.last <= tried[n]
        /\ tried[n] <= streak.until => Chained(tried, n, Threshold)
    BY <2>1, <2>2 DEF Earned
  <2>4. n \in Nat /\ tried[n] \in Nat /\ tried[n] <= clock
    BY <2>2, <2>3 DEF InOrder
  <2>5. tried[n] <= streak.until /\ streak.until <= tried[n] + Duration
    BY <2>1, <2>3, <2>4, Bounds
  <2>6. Threshold <= n /\ \A i \in n - Threshold + 1 .. n - 1 : tried[i + 1] - tried[i] <= Window
    BY <2>3, <2>5 DEF Chained
  <2>7. n >= Threshold
    BY <2>4, <2>6, Bounds
  <2> QED BY <2>5, <2>6, <2>7 DEF n
<1>2. TurnInv => LockoutTypeOK
  BY DEF TurnInv
<1> QED BY <1>1, <1>2, TurnInit, TurnNext, EarnInit, EarnNext, PTL DEF LockoutSpec
=============================================================================
