------------------------------- MODULE Outbox -------------------------------
(***************************************************************************)
(* What the worker promises of the results of one kind of check (monitor   *)
(* jobs, or docker hosts): each waits once, in the order in which the jobs *)
(* first asked to be reported; results are handed to the server a prefix   *)
(* at a time; a prefix leaves only when the server acknowledges it; and    *)
(* nothing else makes a result leave, except that the server stopped       *)
(* listing its job or that the process restarted.                          *)
(***************************************************************************)
EXTENDS Integers, Sequences

CONSTANT Ids      \* the jobs of this kind

VARIABLES
  waiting,    \* the jobs whose result waits, oldest first
  offered,    \* how many of them, from the front, are being posted
  answer,     \* what the server has said of those: "none", "taken", "refused"
  listed      \* the jobs the server lists

outboxVars == <<waiting, offered, answer, listed>>

Positions(s) == DOMAIN s
Members(s)   == {s[i] : i \in Positions(s)}

\* t is s without some entries of jobs in gone, the others in their order:
\* `from` is where in s each entry of t was.
IsThinning(t, s, gone) ==
  \E from \in [Positions(t) -> Positions(s)] :
     /\ \A m, n \in Positions(t) : m < n => from[m] < from[n]
     /\ \A n \in Positions(t) : t[n] = s[from[n]]
     /\ \A i \in Positions(s) : (\A n \in Positions(t) : from[n] # i) => s[i] \in gone

Suffix(s, n) == SubSeq(s, n + 1, Len(s))

OutboxInit ==
  /\ waiting = <<>> /\ offered = 0 /\ answer = "none" /\ listed = {}

\* A check of job id ended: its result waits, at the job's old place if it has one.
Put(id) ==
  /\ id \in listed /\ offered = 0
  /\ waiting' = IF id \in Members(waiting) THEN waiting ELSE Append(waiting, id)
  /\ UNCHANGED <<offered, answer, listed>>

\* A POST of the n oldest results begins.
Offer(n) ==
  /\ offered = 0 /\ n \in 1 .. Len(waiting)
  /\ offered' = n
  /\ UNCHANGED <<waiting, answer, listed>>

\* The POST returns: the server has taken what was offered, or has not.
Return ==
  /\ offered > 0 /\ answer = "none"
  /\ answer' \in {"taken", "refused"}
  /\ UNCHANGED <<waiting, offered, listed>>

\* What the server has taken leaves, and nothing else does.
Accept ==
  /\ answer = "taken" /\ answer' = "none"
  /\ waiting' = Suffix(waiting, offered) /\ offered' = 0
  /\ UNCHANGED listed

\* What it has not taken waits as before, if its job is still listed.
Refuse ==
  /\ answer = "refused" /\ answer' = "none" /\ offered' = 0
  /\ IsThinning(waiting', waiting, Ids \ listed)
  /\ UNCHANGED listed

\* Results of jobs that are not listed are dropped.
Withdraw ==
  /\ offered = 0
  /\ IsThinning(waiting', waiting, Ids \ listed)
  /\ UNCHANGED <<offered, answer, listed>>

\* The server sends its list.
List(S) ==
  /\ offered = 0
  /\ listed' = S
  /\ UNCHANGED <<waiting, offered, answer>>

Restart ==
  /\ waiting' = <<>> /\ offered' = 0 /\ answer' = "none" /\ listed' = {}

OutboxNext ==
  \/ \E id \in Ids : Put(id)
  \/ \E n \in 1 .. Len(waiting) : Offer(n)
  \/ Return \/ Accept \/ Refuse \/ Withdraw
  \/ \E S \in SUBSET Ids : List(S)
  \/ Restart

OutboxSpec == OutboxInit /\ [][OutboxNext]_outboxVars
=============================================================================
