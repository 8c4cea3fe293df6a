----------------------------- MODULE TimerInterval -----------------------------
(***************************************************************************)
(* InitTime of timer_manager.cpp: what becomes of an interval on its way   *)
(* from a uint32_t of milliseconds to the seconds and the rest that        *)
(* timerfd_settime is given, of which it refuses negative seconds.         *)
(***************************************************************************)
EXTENDS Integers

CONSTANTS
  PerSecond,  \* milliseconds in a second
  IntRange    \* 2^w, where w is the width of int and of interval_ms

ASSUME IntervalAssumption ==
  /\ PerSecond \in Nat \ {0}
  /\ IntRange \in Nat /\ IntRange % 2 = 0

(* What uint32_t holds, and what int can: non-negative without a wrap.     *)
Unsigned == 0..IntRange - 1
FitsInt(ms) == 2 * ms < IntRange

(* (int) interval_ms                                                       *)
ToInt(ms) == IF FitsInt(ms) THEN ms ELSE ms - IntRange

(* The division of C, which truncates towards zero.                        *)
Quotient(n, d) == IF n >= 0 THEN n \div d ELSE -((-n) \div d)

\* Mutant of InitTime: the part of a second is left out.
InitSeconds(interval_ms) == [tv_sec |-> Quotient(ToInt(interval_ms), PerSecond), rest |-> 0]

(* Both the first expiration and the interval; rest is tv_nsec, in         *)
(* milliseconds.                                                           *)
InitTime(interval_ms) == [tv_sec |-> Quotient(ToInt(interval_ms), PerSecond),
                          rest   |-> interval_ms % PerSecond]

(* timerfd_settime (EINVAL), and the interval it sets.                     *)
Accepted(itime) == itime.tv_sec >= 0
Milliseconds(itime) == itime.tv_sec * PerSecond + itime.rest
=============================================================================
