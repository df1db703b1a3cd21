---------------------------- MODULE LoginLockout ----------------------------
(***************************************************************************)
(* Login brute-force protection (store/loginlockout.go) as the login       *)
(* handlers use it (server/handlers.go, server/portal.go): the row of one  *)
(* username in login_lockouts, and the attempts to sign in under it.       *)
(*                                                                         *)
(* The clock counts fractions of a second.  The table keeps whole seconds  *)
(* (time.RFC3339 drops the fraction), and both decisions compare what the  *)
(* table says with the clock as it is.  RecordFailedLogin is three         *)
(* statements, SELECT, DELETE and INSERT, outside any transaction.         *)
(***************************************************************************)
EXTENDS Integers, FiniteSets, Sequences

CONSTANTS Second,     \* ticks of the clock in a second
          Threshold,  \* loginLockoutThreshold
          Window,     \* loginLockoutWindow
          Duration,   \* loginLockoutDuration
          Attempts,   \* slots for login requests in flight
          NoAttempt, NoStreak, NoLock,
          MaxClock,   \* bound on the clock
          MaxCrashes  \* bound on crashes of the daemon

ASSUME BoundsAreNumbers ==
  /\ {Second, Threshold, Window, Duration, MaxClock, MaxCrashes} \subseteq Nat
  /\ Second > 0 /\ Threshold > 0
\* Fifteen minutes each: a streak does not outlive the lock it earned.
ASSUME DurationCoversWindow == Duration >= Window
ASSUME DurationIsSeconds == Duration % Second = 0
ASSUME NoLockIsNoTime == NoLock \notin Nat

VARIABLES clock,   \* the clock
          streak,  \* the row of the username, or NoStreak
          att,     \* attempts in flight
          tried,   \* history: when the last Threshold + 1 wrong passwords were judged,
                   \* counting from the last success
          crashes,
          overlapped \* history: two attempts have been in flight at once

lockoutVars == <<clock, streak, att, tried, crashes, overlapped>>

Time   == 0 .. MaxClock
Streak == [fails: Nat, last: Nat, until: Nat \cup {NoLock}]
\* read is the row an attempt SELECTed, at the clock it read before doing so.
AttemptInFlight ==
  [pc: {"check", "verify", "select", "delete", "insert", "clear"},
   at: Nat, read: Streak \cup {NoStreak}]
ASSUME LockoutNothingsDiffer == NoStreak \notin Streak /\ NoAttempt \notin AttemptInFlight

LockoutTypeOK ==
  /\ clock \in Nat
  /\ streak \in Streak \cup {NoStreak}
  /\ att \in [Attempts -> AttemptInFlight \cup {NoAttempt}]
  /\ tried \in Seq(Nat)
  /\ crashes \in Nat
  /\ overlapped \in BOOLEAN

LockoutInit ==
  /\ clock = 0
  /\ streak = NoStreak
  /\ att = [a \in Attempts |-> NoAttempt]
  /\ tried = <<>>
  /\ crashes = 0
  /\ overlapped = FALSE

ClockTicks ==
  /\ clock < MaxClock
  /\ clock' = clock + 1
  /\ UNCHANGED <<streak, att, tried, crashes, overlapped>>

-----------------------------------------------------------------------------
(* loginlockout.go, the decisions.                                         *)

\* A time, written with Format(time.RFC3339) and parsed again.
Truncate(t) == t - (t % Second)

\* Mutants: a streak goes stale some seconds late, or never does.
StaleStreak_Late(s, t)  == t - s.last > Window + Second
StaleStreak_Never(s, t) == FALSE

\* now.Sub(lastFailAt) > loginLockoutWindow, of the clock and a time of the table.
StaleStreak(s, t) == t - s.last > Window

\* The failure count goes stale with the streak.  It is capped at Threshold:
\* beyond that no decision tells counts apart.
NextFails(s, t) ==
  IF s = NoStreak THEN 1
  ELSE IF StaleStreak(s, t) THEN 1
  ELSE IF s.fails >= Threshold THEN Threshold ELSE s.fails + 1

\* Mutant: the streak only locks when it passes the threshold.
NextStreak_OffByOne(s, t) ==
  [fails |-> NextFails(s, t), last |-> Truncate(t),
   until |-> IF s # NoStreak /\ NextFails(s, t) = Threshold /\ s.fails = Threshold
             THEN Truncate(t + Duration) ELSE NoLock]

\* nextLoginLockoutState, as RecordFailedLogin writes it down.
NextStreak(s, t) ==
  LET fails == NextFails(s, t)
  IN  [fails |-> fails, last |-> Truncate(t),
       until |-> IF fails >= Threshold THEN Truncate(t + Duration) ELSE NoLock]

\* IsLoginLockedOut: locked until the clock is After(until).
LockedOut(s, t) ==
  /\ s # NoStreak
  /\ s.until # NoLock
  /\ t <= s.until

-----------------------------------------------------------------------------
(* handleLoginSubmit, one statement at a time.                             *)

Attempting(a, pc) == att[a] # NoAttempt /\ att[a].pc = pc
GoOn(a, pc)       == att' = [att EXCEPT ![a] = [@ EXCEPT !.pc = pc]]
EndAttempt(a)     == att' = [att EXCEPT ![a] = NoAttempt]

Attempt(a) ==
  /\ att[a] = NoAttempt
  /\ att' = [att EXCEPT ![a] = [pc |-> "check", at |-> 0, read |-> NoStreak]]
  /\ overlapped' = (overlapped \/ \E b \in Attempts \ {a} : att[b] # NoAttempt)
  /\ UNCHANGED <<clock, streak, tried, crashes>>

\* Mutant: a locked account is still asked for its password.
CheckLock_Late(a) ==
  /\ Attempting(a, "check")
  /\ GoOn(a, "verify")
  /\ UNCHANGED <<clock, streak, tried, crashes, overlapped>>

\* The lock is looked at before the password is.
CheckLock(a) ==
  /\ Attempting(a, "check")
  /\ IF LockedOut(streak, clock) THEN EndAttempt(a) ELSE GoOn(a, "verify")
  /\ UNCHANGED <<clock, streak, tried, crashes, overlapped>>

\* CheckPassword.  A right password of a disabled account changes nothing.
Verify(a) ==
  /\ Attempting(a, "verify")
  /\ \/ GoOn(a, "clear") /\ UNCHANGED tried
     \/ EndAttempt(a) /\ UNCHANGED tried
     \/ /\ att' = [att EXCEPT ![a] = [@ EXCEPT !.pc = "select", !.at = clock]]
        /\ tried' = Append(IF Len(tried) > Threshold THEN Tail(tried) ELSE tried, clock)
  /\ UNCHANGED <<clock, streak, crashes, overlapped>>

SelectStreak(a) ==
  /\ Attempting(a, "select")
  /\ att' = [att EXCEPT ![a] = [@ EXCEPT !.pc = "delete", !.read = streak]]
  /\ UNCHANGED <<clock, streak, tried, crashes, overlapped>>

DeleteStreak(a) ==
  /\ Attempting(a, "delete")
  /\ streak' = NoStreak
  /\ GoOn(a, "insert")
  /\ UNCHANGED <<clock, tried, crashes, overlapped>>

\* username is the primary key: of two inserts the second fails, and the
\* handlers drop the error.
InsertStreak(a) ==
  /\ Attempting(a, "insert")
  /\ streak' = IF streak = NoStreak THEN NextStreak(att[a].read, att[a].at) ELSE streak
  /\ EndAttempt(a)
  /\ UNCHANGED <<clock, tried, crashes, overlapped>>

\* ClearLoginLockout, on every successful login.
ClearStreak(a) ==
  /\ Attempting(a, "clear")
  /\ streak' = NoStreak
  /\ tried' = <<>>
  /\ EndAttempt(a)
  /\ UNCHANGED <<clock, crashes, overlapped>>

Crash ==
  /\ crashes < MaxCrashes
  /\ crashes' = crashes + 1
  /\ att' = [a \in Attempts |-> NoAttempt]
  /\ UNCHANGED <<clock, streak, tried, overlapped>>

HandleAttempt(a) ==
  \/ CheckLock(a) \/ Verify(a) \/ SelectStreak(a) \/ DeleteStreak(a)
  \/ InsertStreak(a) \/ ClearStreak(a)

LockoutNext == ClockTicks \/ Crash \/ \E a \in Attempts : Attempt(a) \/ HandleAttempt(a)

LockoutSpec == LockoutInit /\ [][LockoutNext]_lockoutVars

-----------------------------------------------------------------------------
(* Properties.                                                             *)

\* How many passwords a lock leaves to try: in any window, less the second that
\* truncation takes from it, no more than Threshold wrong ones are judged between
\* two successes, as long as attempts come one after another and no crash falls
\* between the DELETE and the INSERT.  (A crash there forgets the streak, and
\* attempts made at once pass CheckLock together.  The constants' comment, "5 wrong
\* passwords in a 15-minute window", asks for the whole window.)
GuessesBounded ==
  ~overlapped /\ crashes = 0 =>
    Cardinality({i \in DOMAIN tried : clock - tried[i] <= Window - Second}) <= Threshold

\* The other side of the same sentence: a user is only locked out by Threshold wrong
\* passwords without a success in between, each no more than Window after the one
\* before, and never longer than Duration after the last.  Crashes that leave
\* failures uncounted, or lose the row, do not lock anybody out.
LocksAreEarned ==
  ~overlapped /\ LockedOut(streak, clock) =>
    LET n == Len(tried)
    IN  /\ n >= Threshold
        /\ \A i \in n - Threshold + 1 .. n - 1 : tried[i + 1] - tried[i] <= Window
        /\ streak.until <= tried[n] + Duration

\* A lock that ran out is over: the next wrong password starts a streak of its
\* own and, while the threshold is above one, does not lock the account again
\* (IsLoginLockedOut's comment: "(RecordFailedLogin, which re-evaluates the stale
\* window) is what actually clears the row").  Both times lose their fraction, so
\* the end of the lock and that of its streak stay Duration and Window apart.
FreshStart ==
  \A a \in Attempts :
    Attempting(a, "insert") /\ att[a].read # NoStreak /\ att[a].read.until # NoLock
      => \/ LockedOut(att[a].read, att[a].at)
         \/ NextStreak(att[a].read, att[a].at).fails = 1

\* Attempts made one after another while the account is locked neither prolong
\* the lock nor lift it.
LockedIsUntouched ==
  [][~overlapped /\ LockedOut(streak, clock) => streak' = streak]_lockoutVars
=============================================================================
