------------------------------ MODULE Schedule ------------------------------
(***************************************************************************)
(* The arithmetic of the check schedule: how the repeat period and the     *)
(* timeout a server sends are brought into range, when a check is next due *)
(* and where the schedule cursor (Job.UpdateTime) goes after a failure.    *)
(* Times are integers in one unit; the program counts unix seconds.        *)
(***************************************************************************)
EXTENDS Integers

CONSTANTS
  MinRepeat,            \* 60 in the program
  MaxRepeat,            \* 600
  DefaultTimeout,       \* 15: the timeout of a job that names none
  MaxTimeout,           \* 60
  MinTimeout,           \* 1
  ImmediateErrorRetry   \* the IMMEDIATE_ERROR_RETRY option

ASSUME ScheduleAssumption ==
  /\ MinRepeat \in Nat \ {0} /\ MaxRepeat \in Nat
  /\ MinTimeout \in Nat /\ DefaultTimeout \in Nat /\ MaxTimeout \in Nat
  /\ MinRepeat <= MaxRepeat
  /\ MinTimeout <= DefaultTimeout /\ DefaultTimeout <= MaxTimeout
  /\ MaxTimeout <= MinRepeat
  /\ ImmediateErrorRetry \in BOOLEAN

AtMost(n, bound)  == IF n < bound THEN n ELSE bound
AtLeast(n, bound) == IF n > bound THEN n ELSE bound

\* The period tickMap stores back into the job before it looks at it.
ClampRepeat_NoUpperBound(repeat) ==
  AtLeast(IF repeat <= 0 THEN MinRepeat ELSE repeat, MinRepeat)
ClampRepeat(repeat) ==
  AtMost(AtLeast(IF repeat <= 0 THEN MinRepeat ELSE repeat, MinRepeat), MaxRepeat)

\* The period jobNextDueUnix computes for the order of the checks, from the
\* job as the server sent it: a second copy of the same rule.
OrderingRepeat(repeat) ==
  LET positive == IF repeat <= 0 THEN MinRepeat ELSE repeat
      floored  == IF positive < MinRepeat THEN MinRepeat ELSE positive
  IN  IF floored > MaxRepeat THEN MaxRepeat ELSE floored

ClampTimeout(timeout) ==
  IF timeout <= 0 THEN DefaultTimeout
                  ELSE AtMost(AtLeast(timeout, MinTimeout), MaxTimeout)

\* When a check whose cursor is `update` becomes eligible.
NextDue(update, repeat) == update + OrderingRepeat(repeat)

\* The guard of tickMap that lets a check start.
IsDue(update, repeat, now) == update + ClampRepeat(repeat) <= now

\* bumpScheduleAfterFailureOrTimeout: the cursor after a failed check.
Bump(now, repeat) ==
  IF ImmediateErrorRetry THEN now - ClampRepeat(repeat) ELSE now

\* Is a check that began at `started` past its timeout at `now`?
IsOverdue(started, timeout, now) == now > started + ClampTimeout(timeout)
=============================================================================
