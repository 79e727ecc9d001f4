---------------------------- MODULE RulesProofs ----------------------------
(***************************************************************************)
(* The rules that keep no state, for every value of their inputs: all      *)
(* periods, timeouts, status codes, queues, batches, amounts and numbers.  *)
(* What the model defines by a recursive function (a walk along a path,    *)
(* the passes over queues, the lines of a file, a sum) is a loop in the    *)
(* sense of Iteration, instantiated with the step of each; what a loop has *)
(* done after m turns is shown by the Induction of that module.            *)
(***************************************************************************)
EXTENDS MCRules, SendQueueProofs, FiniteSetTheorems, TLAPS

-----------------------------------------------------------------------------
(* Schedule.                                                                  *)

LEMMA OrderLemma ==
  ASSUME NEW update \in Int, NEW repeat \in Int
  PROVE  LET at == NextDue(update, repeat)
         IN  IsDue(update, repeat, at) /\ ~IsDue(update, repeat, at - 1)
BY ScheduleAssumption
   DEF NextDue, IsDue, OrderingRepeat, ClampRepeat, AtMost, AtLeast

LEMMA ClampedTwice ==
  ASSUME NEW repeat \in Int
  PROVE  NextDue(0, ClampRepeat(repeat)) = NextDue(0, repeat)
BY ScheduleAssumption DEF NextDue, OrderingRepeat, ClampRepeat, AtMost, AtLeast

-----------------------------------------------------------------------------
(* Outcomes.                                                                  *)

LEMMA RefusedFails ==
  ASSUME NEW code, NEW type
  PROVE  responseIndicatesFailure(Refused(code), type)
BY DEF Refused, Response, responseIndicatesFailure

LEMMA ReachedPasses ==
  ASSUME NEW code \in Int, NEW type \in Int
  PROVE  responseIndicatesFailure(Reached(code), type) <=> code >= 400
BY OutcomesAssumption DEF Reached, Response, responseIndicatesFailure

LEMMA HTTPVerdict ==
  ASSUME NEW type \in {JobTypeHTTPS, JobTypeHTTPJSON}, NEW met, met.code \in Int
  PROVE  responseIndicatesFailure(RunHTTP(type, met), type)
           <=> ~(/\ met.answered /\ met.code \in 200 .. 399
                 /\ type = JobTypeHTTPJSON => met.json_check)
<1>1. CASE ~met.answered
  <2>1. RunHTTP(type, met) = Refused(0)
    BY <1>1 DEF RunHTTP
  <2>. QED  BY <1>1, <2>1, RefusedFails
<1>2. CASE met.answered
  <2>. DEFINE resp == RunHTTP(type, met)
  <2>1. /\ resp.status = IF met.code < 200 \/ met.code >= 500 THEN 0 ELSE 1
        /\ resp.status_code = met.code
        /\ type = JobTypeHTTPJSON => resp.json_valid = IF met.json_check THEN 1 ELSE 0
    BY <1>2 DEF RunHTTP, Response
  <2>2. responseIndicatesFailure(resp, type)
          <=> \/ met.code < 200 \/ met.code >= 500
              \/ type = JobTypeHTTPJSON /\ ~met.json_check
              \/ met.code >= 400
    <3>. HIDE DEF resp
    <3>. QED  BY <2>1 DEF responseIndicatesFailure
  <2>. QED  BY <1>2, <2>2
<1>. QED  BY <1>1, <1>2

LEMMA DockerMap ==
  ASSUME NEW met,
         met.answered /\ met.code \in 200 .. 299 /\ met.list /\ met.named > 0
  PROVE  RunDocker(met) = [status |-> 1, status_code |-> met.code, json_valid |-> Absent,
                           container_states |-> met.named]
BY DEF RunDocker, Reached, Response

LEMMA DockerRefused ==
  ASSUME NEW met,
         ~(met.answered /\ met.code \in 200 .. 299 /\ met.list /\ met.named > 0)
  PROVE  \E code : RunDocker(met) = Refused(code)
BY DEF RunDocker

LEMMA DockerVerdict ==
  ASSUME NEW met
  PROVE  responseIndicatesFailure(RunDocker(met), JobTypeDocker)
           <=> ~(met.answered /\ met.code \in 200 .. 299 /\ met.list /\ met.named > 0)
<1>1. CASE met.answered /\ met.code \in 200 .. 299 /\ met.list /\ met.named > 0
  BY <1>1, DockerMap DEF responseIndicatesFailure, JobTypeDocker, JobTypeHTTPJSON
<1>2. CASE ~(met.answered /\ met.code \in 200 .. 299 /\ met.list /\ met.named > 0)
  BY <1>2, DockerRefused, RefusedFails
<1>. QED  BY <1>1, <1>2

LEMMA ExporterVerdict ==
  ASSUME NEW type \in ExporterTypes, NEW met
  PROVE  responseIndicatesFailure(RunExporter(met), type)
           <=> ~(met.answered /\ met.code \in 200 .. 299)
<1>1. CASE met.answered /\ met.code \in 200 .. 299
  BY <1>1, ReachedPasses DEF RunExporter, ExporterTypes
<1>2. CASE ~(met.answered /\ met.code \in 200 .. 299)
  BY <1>2, RefusedFails DEF RunExporter
<1>. QED  BY <1>1, <1>2

\* The verdict on a finished check is whether it met what its type asks for.
LEMMA VerdictLemma ==
  ASSUME NEW type \in Types, NEW met \in Meetings(type)
  PROVE  ~responseIndicatesFailure(Handle(type, met), type) <=> Healthy(type, met)
<1>. USE DEF JobTypeHTTPS, JobTypeTCP, JobTypePing, JobTypeDocker, ExporterTypes,
             JobTypeHTTPJSON, JobTypeUDP
<1>1. CASE type \in {JobTypeHTTPS, JobTypeHTTPJSON}
  <2>1. met.code \in Int
    BY <1>1, RulesAssumption DEF Meetings
  <2>2. Handle(type, met) = RunHTTP(type, met)
    BY <1>1 DEF Handle
  <2>3. Healthy(type, met) <=> /\ met.answered /\ met.code \in 200 .. 399
                               /\ type = JobTypeHTTPJSON => met.json_check
    <3>1. CASE type = JobTypeHTTPS
      BY <3>1 DEF Healthy
    <3>2. CASE type = JobTypeHTTPJSON
      BY <3>2 DEF Healthy
    <3>. QED  BY <1>1, <3>1, <3>2
  <2>. QED  BY <1>1, <2>1, <2>2, <2>3, HTTPVerdict
<1>2. CASE type \in ExporterTypes
  <2>1. Handle(type, met) = RunExporter(met)
    BY <1>2 DEF Handle
  <2>2. Healthy(type, met) <=> met.answered /\ met.code \in 200 .. 299
    <3>1. CASE type = 5
      BY <3>1 DEF Healthy
    <3>2. CASE type = 6
      BY <3>2 DEF Healthy
    <3>3. CASE type = 7
      BY <3>3 DEF Healthy
    <3>. QED  BY <1>2, <3>1, <3>2, <3>3
  <2>. QED  BY <1>2, <2>1, <2>2, ExporterVerdict
<1>3. CASE type = JobTypeDocker
  <2>1. Handle(type, met) = RunDocker(met)
    BY <1>3 DEF Handle
  <2>2. Healthy(type, met)
          <=> met.answered /\ met.code \in 200 .. 299 /\ met.list /\ met.named > 0
    BY <1>3 DEF Healthy
  <2>. QED  BY <1>3, <2>1, <2>2, DockerVerdict
<1>4. CASE type = JobTypePing
  <2>1. Handle(type, met) = IF met.exit = "ok" THEN Reached(200) ELSE Refused(502)
    BY <1>4 DEF Handle, RunPing
  <2>2. Healthy(type, met) <=> met.exit = "ok"
    BY <1>4 DEF Healthy
  <2>. QED  BY <1>4, <2>1, <2>2, RefusedFails, ReachedPasses
<1>5. CASE type = JobTypeTCP
  <2>1. Handle(type, met) = IF met.dial = "ok" THEN Reached(200) ELSE Refused(504)
    BY <1>5 DEF Handle, RunTCP
  <2>2. Healthy(type, met) <=> met.dial = "ok"
    BY <1>5 DEF Healthy
  <2>. QED  BY <1>5, <2>1, <2>2, RefusedFails, ReachedPasses
<1>6. CASE type = JobTypeUDP
  <2>1. met.dial \in Calls /\ met.write \in Calls /\ met.read \in Calls
    BY <1>6 DEF Meetings
  <2>2. Handle(type, met) = RunUDP(met)
    BY <1>6 DEF Handle
  <2>3. Healthy(type, met)
          <=> met.dial = "ok" /\ (met.write = "timeout" \/ (met.write = "ok" /\ met.read # "error"))
    BY <1>6 DEF Healthy
  <2>4. RunUDP(met) = IF Healthy(type, met) THEN Reached(200) ELSE Refused(504)
    BY <2>1, <2>3 DEF RunUDP, Calls
  <2>. QED  BY <1>6, <2>2, <2>4, RefusedFails, ReachedPasses
<1>. QED
  BY <1>1, <1>2, <1>3, <1>4, <1>5, <1>6 DEF Types

LEMMA DockerLemma ==
  ASSUME NEW met, met.named \in Int, NEW resp \in {RunDocker(met), TimeoutResponse}
  PROVE  DockerResponseAcceptedByServer(resp)
           <=> ~responseIndicatesFailure(resp, JobTypeDocker)
<1>1. ASSUME NEW code, resp = Refused(code)
      PROVE  ~DockerResponseAcceptedByServer(resp) /\ responseIndicatesFailure(resp, JobTypeDocker)
  BY <1>1, RefusedFails DEF DockerResponseAcceptedByServer, Refused, Response
<1>2. CASE resp = TimeoutResponse
  BY <1>1, <1>2 DEF TimeoutResponse
<1>3. CASE /\ resp = RunDocker(met)
           /\ ~(met.answered /\ met.code \in 200 .. 299 /\ met.list /\ met.named > 0)
  BY <1>1, <1>3, DockerRefused
<1>4. CASE /\ resp = RunDocker(met)
           /\ met.answered /\ met.code \in 200 .. 299 /\ met.list /\ met.named > 0
  <2>1. resp = [status |-> 1, status_code |-> met.code, json_valid |-> Absent,
                container_states |-> met.named]
    BY <1>4, DockerMap
  <2>2. ~responseIndicatesFailure(resp, JobTypeDocker)
    BY <1>4, DockerVerdict
  <2>3. DockerContainerStatesCount(resp) = met.named
    BY <2>1, OutcomesAssumption DEF DockerContainerStatesCount
  <2>4. DockerResponseAcceptedByServer(resp)
    BY <1>4, <2>1, <2>3 DEF DockerResponseAcceptedByServer
  <2>. QED  BY <2>2, <2>4
<1>. QED  BY <1>2, <1>3, <1>4

-----------------------------------------------------------------------------
(* SendQueue.                                                                *)

LEMMA PickNone == ASSUME NEW S, NEW s \in Seq(S) PROVE Pick(s, {}) = <<>>
<1>1. Pick(s, {}) \in Seq(S) /\ Len(Pick(s, {})) = 0
  BY PickFacts, FS_EmptySet
<1>. QED  BY <1>1, EmptySeq

\* A selection grows at the end with each position taken in.
LEMMA PickOneMore ==
  ASSUME NEW S, NEW s \in Seq(S), NEW I \in SUBSET (DOMAIN s), NEW n \in DOMAIN s,
         \A i \in I : i < n
  PROVE  Pick(s, I \cup {n}) = Append(Pick(s, I), s[n])
<1>. DEFINE J == I \cup {n}
            t == Append(Pick(s, I), s[n])
<1>1. /\ Len(s) \in Nat /\ DOMAIN s = 1 .. Len(s) /\ s[n] \in S /\ n \notin I
      /\ J \in SUBSET (DOMAIN s)
  BY LenProperties
<1>2. IsFiniteSet(I) /\ Cardinality(I) \in Nat
  BY <1>1, RankGrows
<1>3. Cardinality(J) = Cardinality(I) + 1
  BY <1>1, <1>2, FS_AddElement
<1>4. /\ Pick(s, I) \in Seq(S) /\ Len(Pick(s, I)) = Cardinality(I)
      /\ \A i \in I : Rank(I, i) + 1 \in 1 .. Cardinality(I) /\ Pick(s, I)[Rank(I, i) + 1] = s[i]
  BY PickFacts, PickAt
<1>5. /\ t \in Seq(S) /\ Len(t) = Cardinality(I) + 1 /\ t[Cardinality(I) + 1] = s[n]
      /\ \A m \in 1 .. Cardinality(I) : t[m] = Pick(s, I)[m]
  BY <1>1, <1>4, AppendProperties
<1>6. ASSUME NEW i \in J PROVE t[Rank(J, i) + 1] = s[i]
  <2>1. CASE i = n
    <3>1. {h \in J : h < n} = I
      BY <1>1
    <3>. QED  BY <1>5, <2>1, <3>1 DEF Rank
  <2>2. CASE i \in I
    <3>1. {h \in J : h < i} = {h \in I : h < i}
      BY <1>1, <2>2
    <3>. QED  BY <1>4, <1>5, <2>2, <3>1 DEF Rank
  <2>. QED  BY <2>1, <2>2
<1>. HIDE DEF J, t
<1>7. Pick(s, J) = t
  BY <1>1, <1>3, <1>5, <1>6, PickUnique
<1>. QED  BY <1>7 DEF J, t

\* One turn of Pass: of the entries so far and the jobs seen, with entry n.
PassStep(p, so, n) ==
  IF p.in[n] \notin p.live \/ p.in[n] \in so[2] THEN so
  ELSE <<Append(so[1], p.in[n]), IF p.remember THEN so[2] \cup {p.in[n]} ELSE so[2]>>
Passes == INSTANCE Iteration WITH Step <- PassStep

\* A pass is the last state of a loop over `in`.
PassIsLoop(in, out, seen, remember) ==
  \E f : /\ f[0] = <<out, seen>>
         /\ \A n \in 1 .. Len(in) :
              f[n] = IF in[n] \notin live \/ in[n] \in f[n - 1][2] THEN f[n - 1]
                     ELSE <<Append(f[n - 1][1], in[n]),
                            IF remember THEN f[n - 1][2] \cup {in[n]} ELSE f[n - 1][2]>>
         /\ Pass(in, out, seen, remember) = f[Len(in)]

LEMMA PassUnrolls ==
  ASSUME NEW in, Len(in) \in Nat, NEW out, NEW seen, NEW remember
  PROVE  PassIsLoop(in, out, seen, remember)
<1>. DEFINE p == [in |-> in, live |-> live, remember |-> remember]
            Turn(so, n) == IF in[n] \notin live \/ in[n] \in so[2] THEN so
                           ELSE <<Append(so[1], in[n]),
                                  IF remember THEN so[2] \cup {in[n]} ELSE so[2]>>
            UpTo(f) == f = [n \in 0 .. Len(in) |-> IF n = 0 THEN <<out, seen>> ELSE Turn(f[n - 1], n)]
            f0 == CHOOSE f : UpTo(f)
<1>1. Pass(in, out, seen, remember) = f0[Len(in)]
  BY DEF Pass
<1>2. \A so, n : PassStep(p, so, n) = Turn(so, n)
  BY DEF PassStep
<1>. HIDE DEF p, Turn
<1>3. \A f : Passes!IsLoop(f, p, <<out, seen>>, Len(in)) <=> UpTo(f)
  BY <1>2 DEF Passes!IsLoop
<1>4. PICK f : UpTo(f)
  BY <1>3, Passes!LoopExists
<1>5. UpTo(f0)
  BY <1>4
<1>. HIDE DEF f0
<1>6. Passes!IsLoop(f0, p, <<out, seen>>, Len(in))
  BY <1>3, <1>5
<1>7. f0[0] = <<out, seen>> /\ \A n \in 1 .. Len(in) : f0[n] = PassStep(p, f0[n - 1], n)
  <2>1. Passes!Unrolls(f0, p, <<out, seen>>, Len(in))
    BY <1>6, Passes!LoopUnrolls
  <2>. QED  BY <2>1 DEF Passes!Unrolls
<1>. QED  BY <1>1, <1>2, <1>7 DEF Turn, PassIsLoop

\* The pass over a batch keeps the first entry of each live job, and remembers
\* the jobs it has seen.
LEMMA BatchPass ==
  ASSUME NEW S, NEW in \in Seq(S)
  PROVE  Pass(in, <<>>, {}, TRUE) = <<CompactUnique(in, live), Elements(in) \cap live>>
<1>. DEFINE N == Len(in)
            Firsts(m) == {i \in 1 .. m : in[i] \in live /\ \A h \in 1 .. i - 1 : in[h] # in[i]}
            Seen(m) == {in[i] : i \in 1 .. m} \cap live
<1>1. N \in Nat /\ DOMAIN in = 1 .. N
  BY LenProperties
<1>2. PICK f : /\ f[0] = <<<<>>, {}>>
               /\ \A n \in 1 .. N :
                    f[n] = IF in[n] \notin live \/ in[n] \in f[n - 1][2] THEN f[n - 1]
                           ELSE <<Append(f[n - 1][1], in[n]), f[n - 1][2] \cup {in[n]}>>
               /\ Pass(in, <<>>, {}, TRUE) = f[N]
  <2>1. PassIsLoop(in, <<>>, {}, TRUE)
    BY <1>1, PassUnrolls
  <2>. QED  BY <2>1 DEF PassIsLoop
<1>. DEFINE T == {m \in Nat : f[m] = <<Pick(in, Firsts(m)), Seen(m)>>}
<1>3. 0 \in T
  <2>1. Firsts(0) = {} /\ Seen(0) = {} /\ Pick(in, {}) = <<>>
    BY PickNone
  <2>. QED  BY <1>2, <2>1
<1>4. ASSUME NEW m \in 0 .. N - 1, m \in T PROVE m + 1 \in T
  <2>1. /\ m \in Nat /\ m + 1 \in 1 .. N /\ m + 1 \in Nat /\ m + 1 - 1 = m
        /\ 1 .. m + 1 = (1 .. m) \cup {m + 1} /\ \A i \in 1 .. m : i < m + 1
    BY <1>1
  <2>. DEFINE x == in[m + 1]
              New == x \in live /\ x \notin Seen(m)
  <2>2. f[m] = <<Pick(in, Firsts(m)), Seen(m)>>
    BY <1>4
  <2>7. f[m + 1] = IF New THEN <<Append(Pick(in, Firsts(m)), x), Seen(m) \cup {x}>> ELSE f[m]
    <3>. HIDE DEF Firsts, Seen, T
    <3>1. f[m + 1] = IF x \notin live \/ x \in f[m][2] THEN f[m]
                     ELSE <<Append(f[m][1], x), f[m][2] \cup {x}>>
      BY <1>2, <2>1
    <3>. QED  BY <2>2, <3>1
  <2>3. New <=> x \in live /\ \A h \in 1 .. m : in[h] # x
    OBVIOUS
  <2>4. /\ Firsts(m + 1) = IF New THEN Firsts(m) \cup {m + 1} ELSE Firsts(m)
        /\ Seen(m + 1) = IF New THEN Seen(m) \cup {x} ELSE Seen(m)
    <3>1. \A i : i \in Firsts(m + 1) <=> i \in Firsts(m) \/ (New /\ i = m + 1)
      BY <2>1, <2>3
    <3>2. \A y : y \in Seen(m + 1) <=> y \in Seen(m) \/ (x \in live /\ y = x)
      BY <2>1
    <3>. HIDE DEF Firsts, Seen
    <3>. QED  BY <3>1, <3>2
  <2>5. Pick(in, Firsts(m) \cup {m + 1}) = Append(Pick(in, Firsts(m)), x)
    <3>1. Firsts(m) \in SUBSET (DOMAIN in) /\ m + 1 \in DOMAIN in /\ \A i \in Firsts(m) : i < m + 1
      BY <1>1, <2>1
    <3>. HIDE DEF Firsts
    <3>. QED  BY <3>1, PickOneMore
  <2>. HIDE DEF New, x, Firsts, Seen
  <2>6. f[m + 1] = <<Pick(in, Firsts(m + 1)), Seen(m + 1)>>
    <3>1. CASE New
      BY <2>4, <2>5, <2>7, <3>1
    <3>2. CASE ~New
      BY <2>2, <2>4, <2>7, <3>2
    <3>. QED  BY <3>1, <3>2
  <2>. QED  BY <2>1, <2>6
<1>. HIDE DEF T
<1>5. N \in T
  <2>1. \A n \in 0 .. N : n \in T
    BY <1>1, <1>3, <1>4, Passes!Induction
  <2>. QED  BY <1>1, <2>1
<1>6. Pick(in, Firsts(N)) = CompactUnique(in, live) /\ Seen(N) = Elements(in) \cap live
  BY <1>1 DEF CompactUnique, Elements
<1>. QED  BY <1>2, <1>5, <1>6 DEF T

\* The pass over a queue keeps the live jobs that the batch did not have.
LEMMA QueuePass ==
  ASSUME NEW S, NEW in \in Seq(S), NEW out \in Seq(S), NEW seen
  PROVE  Pass(in, out, seen, FALSE)[1] = out \o Compact(in, live \ seen)
<1>. DEFINE N == Len(in)
            Kept(m) == {i \in 1 .. m : in[i] \in live \ seen}
<1>1. N \in Nat /\ DOMAIN in = 1 .. N
  BY LenProperties
<1>2. PICK f : /\ f[0] = <<out, seen>>
               /\ \A n \in 1 .. N :
                    f[n] = IF in[n] \notin live \/ in[n] \in f[n - 1][2] THEN f[n - 1]
                           ELSE <<Append(f[n - 1][1], in[n]), f[n - 1][2]>>
               /\ Pass(in, out, seen, FALSE) = f[N]
  <2>1. PassIsLoop(in, out, seen, FALSE)
    BY <1>1, PassUnrolls
  <2>. QED  BY <2>1 DEF PassIsLoop
<1>. DEFINE T == {m \in Nat : f[m] = <<out \o Pick(in, Kept(m)), seen>>}
<1>3. 0 \in T
  <2>1. Kept(0) = {} /\ Pick(in, {}) = <<>> /\ out \o <<>> = out
    BY PickNone, ConcatEmptySeq
  <2>. QED  BY <1>2, <2>1
<1>4. ASSUME NEW m \in 0 .. N - 1, m \in T PROVE m + 1 \in T
  <2>1. /\ m \in Nat /\ m + 1 \in 1 .. N /\ m + 1 \in Nat /\ m + 1 - 1 = m
        /\ 1 .. m + 1 = (1 .. m) \cup {m + 1} /\ \A i \in 1 .. m : i < m + 1
    BY <1>1
  <2>. DEFINE x == in[m + 1]
              New == x \in live \ seen
  <2>2. f[m] = <<out \o Pick(in, Kept(m)), seen>>
    BY <1>4
  <2>7. f[m + 1] = IF New THEN <<Append(out \o Pick(in, Kept(m)), x), seen>> ELSE f[m]
    <3>. HIDE DEF Kept, T
    <3>1. f[m + 1] = IF x \notin live \/ x \in f[m][2] THEN f[m]
                     ELSE <<Append(f[m][1], x), f[m][2]>>
      BY <1>2, <2>1
    <3>. QED  BY <2>2, <3>1
  <2>3. Kept(m + 1) = IF New THEN Kept(m) \cup {m + 1} ELSE Kept(m)
    <3>1. \A i : i \in Kept(m + 1) <=> i \in Kept(m) \/ (New /\ i = m + 1)
      BY <2>1
    <3>. HIDE DEF Kept
    <3>. QED  BY <3>1
  <2>4. /\ Pick(in, Kept(m) \cup {m + 1}) = Append(Pick(in, Kept(m)), x)
        /\ Pick(in, Kept(m)) \in Seq(S) /\ x \in S
    <3>1. Kept(m) \in SUBSET (DOMAIN in) /\ m + 1 \in DOMAIN in /\ \A i \in Kept(m) : i < m + 1
      BY <1>1, <2>1
    <3>. HIDE DEF Kept
    <3>. QED  BY <3>1, PickOneMore, PickFacts, LenProperties
  <2>. HIDE DEF New, x, Kept
  <2>5. Append(out \o Pick(in, Kept(m)), x) = out \o Append(Pick(in, Kept(m)), x)
    <3>. DEFINE u == Pick(in, Kept(m))
    <3>1. u \in Seq(S) /\ out \o u \in Seq(S) /\ <<x>> \in Seq(S)
      BY <2>4, ConcatProperties
    <3>. HIDE DEF u
    <3>2. Append(out \o u, x) = (out \o u) \o <<x>> /\ Append(u, x) = u \o <<x>>
      BY <2>4, <3>1, AppendIsConcat
    <3>3. (out \o u) \o <<x>> = out \o (u \o <<x>>)
      BY <3>1, ConcatAssociative
    <3>. QED  BY <3>2, <3>3 DEF u
  <2>6. f[m + 1] = <<out \o Pick(in, Kept(m + 1)), seen>>
    <3>1. CASE New
      BY <2>3, <2>4, <2>5, <2>7, <3>1
    <3>2. CASE ~New
      BY <2>2, <2>3, <2>7, <3>2
    <3>. QED  BY <3>1, <3>2
  <2>. QED  BY <2>1, <2>6
<1>. HIDE DEF T
<1>5. N \in T
  <2>1. \A n \in 0 .. N : n \in T
    BY <1>1, <1>3, <1>4, Passes!Induction
  <2>. QED  BY <1>1, <2>1
<1>6. Pick(in, Kept(N)) = Compact(in, live \ seen)
  BY <1>1 DEF Compact
<1>7. f[N] = <<out \o Compact(in, live \ seen), seen>>
  BY <1>5, <1>6 DEF T
<1>. DEFINE last == Pass(in, out, seen, FALSE)
<1>8. last = f[N]
  BY <1>2
<1>. HIDE DEF last, N
<1>9. last[1] = out \o Compact(in, live \ seen)
  BY <1>7, <1>8
<1>. QED  BY <1>9 DEF last

\* The two passes are Prepend.
LEMMA PrependLemma ==
  ASSUME NEW S, q \in Seq(S), batch \in Seq(S)
  PROVE  PrependIsTheLoop
<1>1. CASE batch = <<>>
  BY <1>1 DEF PrependIsTheLoop, PrependLoop, Prepend
<1>2. CASE batch # <<>>
  <2>. DEFINE kept == CompactUnique(batch, live)
              seen == Elements(batch) \cap live
              first == Pass(batch, <<>>, {}, TRUE)
  <2>1. first = <<kept, seen>> /\ kept \in Seq(S)
    BY BatchPass, CompactUniqueFacts
  <2>2. live \ seen = live \ Elements(batch)
    OBVIOUS
  <2>. HIDE DEF kept, seen
  <2>3. Pass(q, kept, seen, FALSE)[1] = kept \o Compact(q, live \ seen)
    BY <2>1, QueuePass
  <2>4. PrependLoop = kept \o Compact(q, live \ seen)
    <3>1. PrependLoop = Pass(q, first[1], first[2], FALSE)[1]
      BY <1>2 DEF PrependLoop
    <3>. HIDE DEF first
    <3>2. first[1] = kept /\ first[2] = seen
      BY <2>1
    <3>. QED  BY <2>3, <3>1, <3>2
  <2>5. Prepend(q, batch, live) = kept \o Compact(q, live \ Elements(batch))
    BY <1>2 DEF Prepend, kept
  <2>. QED  BY <2>2, <2>4, <2>5 DEF PrependIsTheLoop
<1>. QED  BY <1>1, <1>2

-----------------------------------------------------------------------------
(* JSONReading.                                                               *)

IsScalar(v) == \/ \E n \in DOMAIN Shown : v = Number(n)
               \/ \E text : v = Str(text)
               \/ \E b \in BOOLEAN : v = Bool(b)

LEMMA TriedValue ==
  ASSUME TryValue
  PROVE  \E v, expected, type :
           /\ IsScalar(v) /\ type \in {"bool", "number", "string"}
           /\ subject' = [v |-> v, expected |-> expected, type |-> type]
BY DEF TryValue, Try, IsScalar

LEMMA ShownTexts ==
  /\ Shown[2] \notin {"true", "TRUE", "false", "yes", "on", ""}
  /\ Shown[0] \notin {"true", "TRUE", "false", "yes", "on", "", Shown[2]}
  /\ {"true", "false"} \cap NotFinite = {}
  /\ \A n \in DOMAIN Shown : Shown[n] \notin NotFinite
<1>1. 0 \in DOMAIN Shown /\ 2 \in DOMAIN Shown
  BY JSONReadingAssumption
<1>2. /\ Shown[0] \in DOMAIN Numeral /\ Numeral[Shown[0]] = 0
      /\ Shown[2] \in DOMAIN Numeral /\ Numeral[Shown[2]] = 2
  BY <1>1, JSONReadingAssumption
<1>3. {"true", "TRUE", "false", "yes", "on", ""} \cap (DOMAIN Numeral \cup NotFinite) = {}
  BY JSONReadingAssumption
<1>4. \A text \in DOMAIN Numeral \cup NotFinite : text \notin {"true", "TRUE", "false", "yes", "on", ""}
  BY <1>3, Zenon
<1>5. Shown[0] # Shown[2]
  BY <1>2
<1>6. {"true", "false"} \cap NotFinite = {}
  BY <1>4
<1>7. \A n \in DOMAIN Shown : Shown[n] \notin NotFinite
  BY JSONReadingAssumption
<1>. QED  BY <1>2, <1>4, <1>5, <1>6, <1>7, Zenon

\* A scalar and the text it shows have the same truth value, under "bool".
LEMMA ShownLemma ==
  ASSUME NEW v, IsScalar(v), NEW expected, NEW type \in {"bool", "number", "string"},
         v.kind = "number" /\ type = "bool" => v.is \in {0, 2}
  PROVE  /\ compareJSON(v, expected, type) <=> compareJSON(Str(toString(v)), expected, type)
         /\ (type = "number" => toString(v) \notin NotFinite)
            => compareJSON(v, toString(v), type)
<1>. DEFINE text == toString(v)
<1>1. toString(Str(text)) = text
  BY DEF toString, Str
<1>2. CASE type \in {"number", "string"}
  BY <1>1, <1>2 DEF compareJSON, SameNumber
<1>3. CASE type = "bool"
  <2>. DEFINE Holds(w) == CASE w.kind = "bool"   -> w.is
                            [] w.kind = "string" -> IsTrue(w.is)
                            [] w.kind = "number" -> w.is # 0
                            [] OTHER             -> FALSE
  <2>1. \A w, e : compareJSON(w, e, "bool") = (Holds(w) = IsTrue(e))
    BY Zenon DEF compareJSON
  <2>2. Holds(Str(text)) = IsTrue(text)
    BY DEF Str
  <2>3. Holds(v) = IsTrue(text)
    <3>1. CASE v = Number(0)
      <4>1. Holds(v) = FALSE /\ text = Shown[0]
        BY <3>1 DEF Number, toString
      <4>2. Shown[0] \notin {"true", "TRUE", Shown[2]}
        BY ShownTexts, Zenon
      <4>3. IsTrue(Shown[0]) = FALSE
        BY <4>2 DEF IsTrue
      <4>. QED  BY <4>1, <4>3
    <3>2. CASE v = Number(2)
      <4>1. Holds(v) = TRUE /\ text = Shown[2]
        BY <3>2 DEF Number, toString
      <4>2. IsTrue(Shown[2]) = TRUE
        BY DEF IsTrue
      <4>. QED  BY <4>1, <4>2
    <3>3. CASE \E t : v = Str(t)
      BY <3>3 DEF Str, toString
    <3>4. CASE v = Bool(TRUE)
      <4>1. Holds(v) = TRUE /\ text = "true"
        BY <3>4 DEF Bool, toString
      <4>2. IsTrue("true") = TRUE
        BY DEF IsTrue
      <4>. QED  BY <4>1, <4>2
    <3>5. CASE v = Bool(FALSE)
      <4>1. Holds(v) = FALSE /\ text = "false"
        BY <3>5 DEF Bool, toString
      <4>2. "false" \notin {"true", "TRUE", Shown[2]}
        BY ShownTexts, Zenon
      <4>3. IsTrue("false") = FALSE
        BY <4>2 DEF IsTrue
      <4>. QED  BY <4>1, <4>3
    <3>. QED
      <4>1. CASE \E n \in DOMAIN Shown : v = Number(n)
        BY <1>3, <3>1, <3>2, <4>1 DEF Number
      <4>2. CASE \E b \in BOOLEAN : v = Bool(b)
        BY <3>4, <3>5, <4>2
      <4>. QED  BY <3>3, <4>1, <4>2 DEF IsScalar
  <2>. HIDE DEF Holds, text
  <2>4. compareJSON(v, expected, "bool") = compareJSON(Str(text), expected, "bool")
    BY <2>1, <2>2, <2>3
  <2>5. compareJSON(v, text, "bool")
    BY <2>1, <2>3
  <2>. USE DEF text
  <2>. QED  BY <1>3, <2>4, <2>5
<1>. QED  BY <1>2, <1>3

LEMMA NumbersLemma ==
  ASSUME NEW n \in DOMAIN Shown, n >= 0, Whole(n),
         NEW v \in {Number(n)} \cup {Str(Shown[n])}
  PROVE  rawInt(v) = n \div 2 /\ toInt(v) = n \div 2
<1>1. n \in Int /\ Numeral[Shown[n]] = n /\ Shown[n] \in WholeTexts
      /\ Shown[n] \in DOMAIN Numeral
  BY JSONReadingAssumption
<1>a. Shown[n] \in DOMAIN Prefix /\ Prefix[Shown[n]] = n \div 2
  BY <1>1, JSONReadingAssumption
<1>b. n \div 2 \in Int /\ n \div 2 >= 0
  BY <1>1
<1>. DEFINE h == n \div 2
<1>c. (IF h > 0 THEN h ELSE 0) = h
  BY <1>b
<1>. HIDE DEF h
<1>2. CASE v = Number(n)
  <2>1. v.kind = "number" /\ v.is = n
    BY <1>2 DEF Number
  <2>2. rawInt(v) = Numeral[Shown[n]] \div 2
    BY <2>1, <1>1 DEF rawInt, Atoi
  <2>3. toInt(v) = h
    BY <2>1, <1>c DEF toInt, h
  <2>. QED  BY <2>2, <2>3, <1>1 DEF h
<1>3. CASE v = Str(Shown[n])
  <2>1. v.kind = "string" /\ v.is = Shown[n]
    BY <1>3 DEF Str
  <2>2. rawInt(v) = Numeral[Shown[n]] \div 2
    BY <2>1, <1>1 DEF rawInt, Atoi
  <2>3. toInt(v) = h
    BY <2>1, <1>a, <1>c DEF toInt, h
  <2>. QED  BY <2>2, <2>3, <1>1 DEF h
<1>. QED  BY <1>2, <1>3

LEMMA BooleansLemma ==
  ASSUME NEW v, IsScalar(v), SpellsBool(v)
  PROVE  (rawBool(v) <=> truthy(v)) /\ \A def : rawBool(v) <=> getBool(toString(v), def)
<1>1. CASE v = Number(0)
  <2>1. v.kind = "number" /\ v.is = 0 /\ toString(v) = Shown[0]
    BY <1>1 DEF Number, toString
  <2>2. Shown[0] \notin Yes \cup {"on"} /\ Shown[0] # ""
    BY ShownTexts, Zenon DEF Yes
  <2>. QED  BY <2>1, <2>2 DEF rawBool, truthy, getBool
<1>2. CASE v = Number(2)
  BY <1>2, ShownTexts DEF Number, rawBool, truthy, getBool, toString, Yes
<1>3. ASSUME NEW text, v = Str(text) PROVE (rawBool(v) <=> truthy(v))
                                           /\ \A def : rawBool(v) <=> getBool(toString(v), def)
  BY <1>3 DEF Str, rawBool, truthy, getBool, toString, Yes, SpellsBool
<1>4. CASE v = Bool(TRUE)
  BY <1>4 DEF Bool, rawBool, truthy, getBool, toString, Yes
<1>5. CASE v = Bool(FALSE)
  <2>1. v.kind = "bool" /\ v.is = FALSE /\ toString(v) = "false"
    BY <1>5 DEF Bool, toString
  <2>2. "false" \notin Yes \cup {"on"}
    BY ShownTexts, Zenon DEF Yes
  <2>3. ~rawBool(v) /\ ~truthy(v)
    BY <2>1 DEF rawBool, truthy
  <2>4. \A def : ~getBool(toString(v), def)
    BY <2>1, <2>2 DEF getBool
  <2>. QED  BY <2>3, <2>4
<1>6. CASE \E n \in DOMAIN Shown : v = Number(n)
  <2>1. PICK n \in DOMAIN Shown : v = Number(n)
    BY <1>6
  <2>2. n \in {0, 2}
    BY <2>1 DEF Number, SpellsBool
  <2>. QED  BY <1>1, <1>2, <2>1, <2>2
<1>7. CASE \E b \in BOOLEAN : v = Bool(b)
  BY <1>4, <1>5, <1>7
<1>. QED  BY <1>3, <1>6, <1>7, Zenon DEF IsScalar

\* One step of a walk to a value: from a node to its child.
WalkStep(path, node, i) == Child(node, path[i])
Walks == INSTANCE Iteration WITH Step <- WalkStep

\* getByDot is the last state of a loop over the path.
WalkIsLoop(root, path) ==
  \E f : /\ f[0] = root
         /\ \A i \in 1 .. Len(path) : f[i] = Child(f[i - 1], path[i])
         /\ getByDot(root, path) = f[Len(path)]

LEMMA WalkUnrolls ==
  ASSUME NEW root, NEW path, Len(path) \in Nat
  PROVE  WalkIsLoop(root, path)
<1>. DEFINE N == Len(path)
            UpTo(f) == f = [i \in 0 .. N |-> IF i = 0 THEN root ELSE Child(f[i - 1], path[i])]
            f0 == CHOOSE f : UpTo(f)
<1>1. getByDot(root, path) = f0[N]
  BY DEF getByDot
<1>2. \A f : Walks!IsLoop(f, path, root, N) <=> UpTo(f)
  BY DEF Walks!IsLoop, WalkStep
<1>3. PICK f : UpTo(f)
  BY <1>2, Walks!LoopExists
<1>4. Walks!IsLoop(f0, path, root, N)
  BY <1>2, <1>3
<1>. HIDE DEF f0, UpTo
<1>5. f0[0] = root /\ \A i \in 1 .. N : f0[i] = WalkStep(path, f0[i - 1], i)
  <2>1. Walks!Unrolls(f0, path, root, N)
    BY <1>4, Walks!LoopUnrolls
  <2>. QED  BY <2>1 DEF Walks!Unrolls
<1>. QED  BY <1>1, <1>5 DEF WalkStep, WalkIsLoop

\* Of an array strconv.Itoa must know all indices.
Indexed(doc) ==
  doc.kind = "array" => Len(doc.at) \in Nat /\ \A i \in 0 .. Len(doc.at) - 1 : 2 * i \in DOMAIN Shown

\* The first step from a root made into a map is that from the root itself.
LEMMA RootReadAlike ==
  ASSUME NEW doc, Indexed(doc), NEW key, Canonical(key)
  PROVE  Child(jsonRootToMap(doc), key) = Child(doc, key)
<1>1. CASE doc.kind = "object"
  BY <1>1 DEF jsonRootToMap
<1>2. CASE doc.kind = "array"
  <2>. DEFINE N == Len(doc.at)
              Texts0 == {Shown[2 * i] : i \in 0 .. N - 1}
              at == [k \in Texts0 |-> doc.at[Numeral[k] \div 2 + 1]]
              map == jsonRootToMap(doc)
  <2>1. map.kind = "object" /\ map.at = at /\ N \in Nat
    BY <1>2 DEF jsonRootToMap, Indexed
  <2>2. ASSUME NEW i \in 0 .. N - 1
        PROVE  Shown[2 * i] \in WholeTexts /\ Atoi(Shown[2 * i]) = i
    <3>1. 2 * i \in DOMAIN Shown /\ Whole(2 * i) /\ (2 * i) \div 2 = i
      BY <1>2, <2>1 DEF Indexed, Whole
    <3>. QED  BY <3>1, JSONReadingAssumption DEF Atoi
  <2>3. ASSUME key \in WholeTexts, Atoi(key) \in 0 .. N - 1
        PROVE  key = Shown[2 * Atoi(key)]
    <3>1. PICK n \in DOMAIN Shown : key = Shown[n]
      BY <2>3 DEF Canonical
    <3>2. n \in Int /\ Numeral[key] = n /\ Whole(n)
      BY <2>3, <3>1, JSONReadingAssumption
    <3>3. 2 * Atoi(key) = n
      BY <2>3, <3>2 DEF Atoi, Whole
    <3>. QED  BY <3>1, <3>3
  <2>4. key \in Texts0 <=> key \in WholeTexts /\ Atoi(key) \in 0 .. N - 1
    BY <2>2, <2>3
  <2>5. key \in Texts0 => at[key] = doc.at[Atoi(key) + 1]
    BY <2>2 DEF Atoi
  <2>6. Child(map, key) = IF key \in Texts0 THEN at[key] ELSE Missing
    BY <2>1 DEF Child
  <2>7. Child(doc, key) = IF key \in WholeTexts /\ Atoi(key) \in 0 .. N - 1
                          THEN doc.at[Atoi(key) + 1] ELSE Missing
    BY <1>2 DEF Child
  <2>. HIDE DEF Texts0, at, map, N
  <2>8. Child(map, key) = Child(doc, key)
    BY <2>4, <2>5, <2>6, <2>7
  <2>. QED  BY <2>8 DEF map
<1>3. CASE doc.kind \notin {"object", "array"}
  <2>1. jsonRootToMap(doc).kind = "object" /\ jsonRootToMap(doc).at = <<>>
    BY <1>3 DEF jsonRootToMap
  <2>2. key \notin DOMAIN <<>>
    BY EmptySeq, LenProperties
  <2>. QED  BY <1>3, <2>1, <2>2 DEF Child
<1>. QED  BY <1>1, <1>2, <1>3

\* Two roots that agree on the first step agree on the path; and a path walked
\* from the member "in" is the path walked from the object that has it.
LEMMA WalksAgree ==
  ASSUME NEW doc, NEW root, NEW S, "in" \in S, NEW path \in Seq(S), path # <<>>,
         Child(root, path[1]) = Child(doc, path[1])
  PROVE  getByDot(Object([in |-> doc]), <<"in">> \o path) = getByDot(root, path)
<1>. DEFINE top == Object([in |-> doc])
            long == <<"in">> \o path
            N == Len(path)
<1>1. N \in Nat \ {0} /\ Len(long) = N + 1 /\ long[1] = "in"
      /\ \A i \in 1 .. N : long[i + 1] = path[i]
  <2>1. <<"in">> \in Seq(S) /\ Len(<<"in">>) = 1 /\ <<"in">>[1] = "in"
    OBVIOUS
  <2>2. N \in Nat /\ N # 0
    BY LenProperties, EmptySeq
  <2>3. Len(long) = 1 + N /\ \A i \in 1 .. 1 + N : long[i] = IF i <= 1 THEN <<"in">>[i] ELSE path[i - 1]
    BY <2>1, ConcatProperties
  <2>4. 1 \in 1 .. 1 + N /\ \A i \in 1 .. N : i + 1 \in 1 .. 1 + N /\ ~(i + 1 <= 1) /\ i + 1 - 1 = i
    BY <2>2
  <2>. HIDE DEF long, N
  <2>. QED  BY <2>1, <2>2, <2>3, <2>4
<1>2. Child(top, "in") = doc
  BY DEF Child, Object
<1>. HIDE DEF top, long, N
<1>3. PICK f : /\ f[0] = top
               /\ \A i \in 1 .. N + 1 : f[i] = Child(f[i - 1], long[i])
               /\ getByDot(top, long) = f[N + 1]
  <2>1. WalkIsLoop(top, long)
    BY <1>1, WalkUnrolls
  <2>. QED  BY <1>1, <2>1 DEF WalkIsLoop
<1>4. PICK g : /\ g[0] = root
               /\ \A i \in 1 .. N : g[i] = Child(g[i - 1], path[i])
               /\ getByDot(root, path) = g[N]
  <2>1. WalkIsLoop(root, path)
    BY <1>1, WalkUnrolls DEF N
  <2>. QED  BY <1>1, <2>1 DEF WalkIsLoop, N
<1>5. \A i \in 1 .. N : f[i + 1] = Child(f[i], path[i])
  <2>1. \A i \in 1 .. N : i + 1 \in 1 .. N + 1 /\ i + 1 - 1 = i
    BY <1>1
  <2>. QED  BY <1>1, <1>3, <2>1
<1>. DEFINE T == {m \in Nat : f[m + 2] = g[m + 1]}
<1>6. 0 \in T
  <2>1. 1 \in 1 .. N /\ 1 \in 1 .. N + 1 /\ 1 - 1 = 0 /\ 1 + 1 = 2 /\ 0 + 2 = 2 /\ 0 + 1 = 1
    BY <1>1
  <2>2. f[1] = doc
    BY <1>1, <1>2, <1>3, <2>1
  <2>3. f[2] = Child(doc, path[1]) /\ g[1] = Child(root, path[1])
    BY <1>4, <1>5, <2>1, <2>2
  <2>. QED  BY <2>1, <2>3
<1>7. ASSUME NEW m \in 0 .. (N - 1) - 1, m \in T PROVE m + 1 \in T
  <2>1. /\ m \in Nat /\ m + 1 \in Nat /\ m + 2 \in 1 .. N /\ m + 2 - 1 = m + 1
        /\ (m + 2) + 1 = (m + 1) + 2 /\ (m + 1) + 1 = m + 2
    BY <1>1
  <2>2. f[m + 2] = g[m + 1]
    BY <1>7
  <2>. HIDE DEF T
  <2>3. f[(m + 1) + 2] = Child(f[m + 2], path[m + 2]) /\ g[(m + 1) + 1] = Child(g[m + 1], path[m + 2])
    BY <1>4, <1>5, <2>1
  <2>4. f[(m + 1) + 2] = g[(m + 1) + 1]
    BY <2>2, <2>3
  <2>. QED  BY <2>1, <2>4 DEF T
<1>. HIDE DEF T
<1>8. N - 1 \in T
  <2>1. N - 1 \in Nat /\ N - 1 \in 0 .. N - 1
    BY <1>1
  <2>2. \A n \in 0 .. N - 1 : n \in T
    BY <1>6, <1>7, <2>1, Walks!Induction
  <2>. QED  BY <2>1, <2>2
<1>9. f[N + 1] = g[N]
  <2>1. (N - 1) + 2 = N + 1 /\ (N - 1) + 1 = N
    BY <1>1
  <2>2. f[(N - 1) + 2] = g[(N - 1) + 1]
    BY <1>8 DEF T
  <2>. QED  BY <2>1, <2>2
<1>. QED  BY <1>3, <1>4, <1>9 DEF top, long

\* A check of a page is one of the page as a member "in", for every page whose
\* indices strconv can write, and paths of any length.
THEOREM PathsInAnyPage ==
  ASSUME NEW doc, Indexed(doc), NEW S, "in" \in S, NEW path \in Seq(S), path # <<>>,
         ~IsBlank(path), Canonical(path[1]), NEW expected, NEW type
  PROVE  applyJSONCheck(doc, path, expected, type)
           <=> /\ doc # Missing
               /\ applyJSONCheck(Object([in |-> doc]), <<"in">> \o path, expected, type)
<1>. DEFINE top == Object([in |-> doc])
            long == <<"in">> \o path
            map == jsonRootToMap(doc)
<1>1. getByDot(top, long) = getByDot(map, path)
  BY RootReadAlike, WalksAgree
<1>2. jsonRootToMap(top) = top /\ top # Missing
  <2>1. top.kind = "object" /\ Missing.kind = "missing"
    BY DEF Object, Missing
  <2>. HIDE DEF top
  <2>2. top # Missing
    BY <2>1
  <2>. QED  BY <2>1, <2>2 DEF jsonRootToMap
<1>3. ~IsBlank(long)
  <2>1. Len(long) = 1 + Len(path) /\ Len(path) > 0
    BY EmptySeq, LenProperties
  <2>2. Len(long) # 1
    BY <2>1, LenProperties
  <2>. HIDE DEF long
  <2>3. \A key : Len(<<key>>) = 1
    OBVIOUS
  <2>4. long # <<"">> /\ long # <<Blank>>
    BY <2>2, <2>3, Zenon
  <2>. QED  BY <2>4, Zenon DEF IsBlank
<1>. HIDE DEF top, long, map
<1>4. applyJSONCheck(doc, path, expected, type)
        <=> /\ doc # Missing
            /\ getByDot(map, path) # Missing /\ compareJSON(getByDot(map, path), expected, type)
  BY DEF applyJSONCheck, map
<1>5. applyJSONCheck(top, long, expected, type)
        <=> /\ getByDot(top, long) # Missing
            /\ compareJSON(getByDot(top, long), expected, type)
  BY <1>2, <1>3 DEF applyJSONCheck
<1>. QED  BY <1>1, <1>4, <1>5 DEF top, long

LEMMA PagesIndexed == \A i \in DOMAIN Pages : Indexed(Pages[i])
<1>0. 0 \in DOMAIN Shown /\ 2 \in DOMAIN Shown
  BY JSONReadingAssumption
<1>1. Indexed(Missing) /\ Indexed(Null) /\ \A x : Indexed(Number(x)) /\ Indexed(Str(x)) /\ Indexed(Object(x))
  BY DEF Indexed, Missing, Null, Number, Str, Object
<1>2. Indexed(List(<<>>))
  <2>1. List(<<>>).at = <<>> /\ Len(<<>>) = 0
    BY DEF List
  <2>. QED  BY <2>1 DEF Indexed
<1>3. ASSUME NEW x, NEW y PROVE Indexed(List(<<x, y>>))
  <2>. DEFINE doc == List(<<x, y>>)
  <2>1. Len(doc.at) = 2
    BY DEF List
  <2>2. \A i \in 0 .. 2 - 1 : 2 * i = 0 \/ 2 * i = 2
    OBVIOUS
  <2>. HIDE DEF doc
  <2>3. Indexed(doc)
    BY <1>0, <2>1, <2>2 DEF Indexed
  <2>. QED  BY <2>3 DEF doc
<1>4. \A x, y, a, b, c, d, e, f :
        LET all == <<a, b, c, d, List(x), List(y), e, f>>
        IN  /\ Indexed(a) /\ Indexed(b) /\ Indexed(c) /\ Indexed(d)
            /\ Indexed(List(x)) /\ Indexed(List(y)) /\ Indexed(e) /\ Indexed(f)
            => \A i \in DOMAIN all : Indexed(all[i])
  OBVIOUS
<1>. QED  BY <1>1, <1>2, <1>3, <1>4 DEF Pages

-----------------------------------------------------------------------------
(* Metrics.                                                                  *)

\* A sum over a set of lines is taken line by line, in the order of some choice.
SumsOf(lines, f) ==
  f = [s \in SUBSET lines |->
         IF s = {} THEN 0
         ELSE LET x == CHOOSE x \in s : TRUE IN x.value + f[s \ {x}]]
Total(lines) == (CHOOSE f : SumsOf(lines, f))[lines]

\* The sums of the model are such sums.
LEMMA CPUSums ==
  ASSUME NEW lines
  PROVE  CPUUsage(lines) = Used(Total({l \in lines : l.idle}), Total({l \in lines : l.cpu}))
BY DEF CPUUsage, SumOf, MapThenSumSet, MapThenFoldSet, Total, SumsOf

LEMMA DiskSums ==
  ASSUME NEW lines
  PROVE  DiskUsage(lines) = Used(Total({l \in lines : Counted(l) /\ l.metric = "avail"}),
                                 Total({l \in lines : Counted(l) /\ l.metric = "size"}))
BY DEF DiskUsage, SumOf, MapThenSumSet, MapThenFoldSet, Total, SumsOf

\* What is rounded is a percentage, at most half a hundredth off.
LEMMA UsedIsUsage ==
  ASSUME NEW left \in Nat, NEW total \in Nat, left <= total
  PROVE  IsUsage(Used(left, total), left, total)
<1>1. CASE total = 0
  BY <1>1 DEF IsUsage, Used
<1>2. CASE total > 0
  <2>. DEFINE twice == 20000 * (total - left) + total
              d == 2 * total
              u == twice \div d
  <2>1. twice \in Nat /\ d \in Nat /\ d > 0
    BY <1>2
  <2>. HIDE DEF twice, d
  <2>2. u \in Int /\ d * u <= twice /\ twice < d * u + d
    BY <2>1
  <2>. HIDE DEF u
  <2>. DEFINE p == u * total
  <2>3. p \in Int /\ d * u = 2 * p
    BY <2>2 DEF d
  <2>4. u >= 0
    <3>. SUFFICES ASSUME u <= -1 PROVE FALSE
      BY <2>2
    <3>1. d * u + d = d * (u + 1) /\ d * (u + 1) <= 0
      BY <2>1, <2>2
    <3>. QED  BY <2>1, <2>2, <3>1
  <2>5. u <= 10000
    <3>. SUFFICES ASSUME u >= 10001 PROVE FALSE
      BY <2>2
    <3>1. total * u >= total * 10001
      BY <2>2
    <3>. HIDE DEF p
    <3>2. p = total * u
      BY <2>2 DEF p
    <3>. QED  BY <2>2, <2>3, <3>1, <3>2, <1>2 DEF twice
  <2>6. 2 * (p - 10000 * (total - left)) \in -total .. total
    <3>. HIDE DEF p
    <3>. QED  BY <2>2, <2>3, <1>2 DEF twice, d
  <2>7. Used(left, total) = u
    BY <1>2, <2>1 DEF Used, u, twice, d
  <2>. DEFINE usage == Used(left, total)
  <2>8. /\ usage \in 0 .. 10000
        /\ 2 * (usage * total - 10000 * (total - left)) \in -total .. total
    BY <2>2, <2>4, <2>5, <2>6, <2>7
  <2>. HIDE DEF usage
  <2>9. IsUsage(usage, left, total)
    BY <1>2, <2>8 DEF IsUsage
  <2>. QED  BY <2>9 DEF usage
<1>. QED  BY <1>1, <1>2

\* Turn n makes, of the sums over n - 1 lines, those over n.
SumStep(lines, g, n) ==
  [s \in SUBSET lines |->
     IF s = {} THEN 0 ELSE LET x == CHOOSE x \in s : TRUE IN x.value + g[s \ {x}]]
Sums == INSTANCE Iteration WITH Step <- SumStep

Zero(lines) == [s \in SUBSET lines |-> 0]

\* There is such a sum: that of a set of n lines is known after n turns.
LEMMA SumsExist == ASSUME NEW lines, IsFiniteSet(lines) PROVE \E f : SumsOf(lines, f)
<1>. DEFINE N == Cardinality(lines)
            First(s) == CHOOSE x \in s : TRUE
<1>1. N \in Nat
  BY FS_CardinalityType
<1>2. ASSUME NEW s \in SUBSET lines
      PROVE  /\ Cardinality(s) \in 0 .. N
             /\ s # {} => /\ First(s) \in s /\ s \ {First(s)} \in SUBSET lines
                          /\ Cardinality(s) \in 1 .. N
                          /\ Cardinality(s \ {First(s)}) = Cardinality(s) - 1
  <2>1. IsFiniteSet(s) /\ Cardinality(s) \in Nat /\ Cardinality(s) <= N
    BY FS_Subset, FS_CardinalityType
  <2>2. ASSUME s # {}
        PROVE  /\ First(s) \in s /\ Cardinality(s) # 0
               /\ Cardinality(s \ {First(s)}) = Cardinality(s) - 1
    BY <2>1, <2>2, FS_EmptySet, FS_RemoveElement
  <2>. QED  BY <1>1, <2>1, <2>2
<1>3. PICK g : Sums!Unrolls(g, lines, Zero(lines), N)
  BY <1>1, Sums!LoopExists, Sums!LoopUnrolls
<1>. HIDE DEF N
<1>4. /\ g[0] = Zero(lines)
      /\ \A n \in 1 .. N : g[n] = SumStep(lines, g[n - 1], n)
  BY <1>3 DEF Sums!Unrolls
<1>. DEFINE f == [s \in SUBSET lines |-> g[Cardinality(s)][s]]
<1>5. ASSUME NEW s \in SUBSET lines, s # {}
      PROVE  f[s] = First(s).value + f[s \ {First(s)}]
  <2>. DEFINE n == Cardinality(s)
              x == First(s)
  <2>1. n \in 1 .. N /\ s \ {x} \in SUBSET lines /\ Cardinality(s \ {x}) = n - 1
    BY <1>2, <1>5
  <2>. HIDE DEF n
  <2>2. g[n] = SumStep(lines, g[n - 1], n)
    BY <1>4, <2>1
  <2>3. g[n][s] = x.value + g[n - 1][s \ {x}]
    BY <1>5, <2>2 DEF SumStep
  <2>. QED  BY <2>1, <2>3 DEF n
<1>6. f[{}] = 0
  BY <1>4, FS_EmptySet DEF Zero
<1>7. f = [s \in SUBSET lines |-> f[s]]
  OBVIOUS
<1>. HIDE DEF f, First
<1>8. f = [s \in SUBSET lines |-> IF s = {} THEN 0 ELSE First(s).value + f[s \ {First(s)}]]
  BY <1>5, <1>6, <1>7
<1>. QED  BY <1>8 DEF SumsOf, First

\* The order in which lines are taken does not matter: any one may be the first.
AnyFirst(lines, f) ==
  \A s \in SUBSET lines : f[s] \in Int /\ \A y \in s : f[s] = y.value + f[s \ {y}]

LEMMA SumSplits ==
  ASSUME NEW lines, IsFiniteSet(lines), \A line \in lines : line.value \in Int,
         NEW f, SumsOf(lines, f)
  PROVE  AnyFirst(lines, f)
<1>. DEFINE N == Cardinality(lines)
            First(s) == CHOOSE x \in s : TRUE
            Splits(s) == f[s] \in Int /\ \A y \in s : f[s] = y.value + f[s \ {y}]
            T == {n \in Nat : \A s \in SUBSET lines : Cardinality(s) <= n => Splits(s)}
<1>1. N \in Nat
  BY FS_CardinalityType
<1>2. ASSUME NEW s \in SUBSET lines
      PROVE  /\ IsFiniteSet(s) /\ Cardinality(s) \in 0 .. N /\ (Cardinality(s) = 0 <=> s = {})
             /\ \A y \in s : s \ {y} \in SUBSET lines /\ Cardinality(s \ {y}) = Cardinality(s) - 1
  <2>1. IsFiniteSet(s) /\ Cardinality(s) \in Nat /\ Cardinality(s) <= N
    BY FS_Subset, FS_CardinalityType
  <2>. QED  BY <1>1, <2>1, FS_EmptySet, FS_RemoveElement
<1>. HIDE DEF N
<1>3. f[{}] = 0 /\ \A s \in SUBSET lines :
        s # {} => First(s) \in s /\ f[s] = First(s).value + f[s \ {First(s)}]
  BY DEF SumsOf
<1>. HIDE DEF First
<1>4. 0 \in T
  <2>1. \A s \in SUBSET lines : Cardinality(s) <= 0 => s = {}
    BY <1>2
  <2>2. Splits({})
    BY <1>3
  <2>. HIDE DEF Splits
  <2>. QED  BY <2>1, <2>2
<1>5. ASSUME NEW n \in 0 .. N - 1, n \in T PROVE n + 1 \in T
  <2>. SUFFICES ASSUME NEW s \in SUBSET lines, Cardinality(s) <= n + 1, s # {} PROVE Splits(s)
    <3>1. Splits({})
      BY <1>3
    <3>. HIDE DEF Splits
    <3>. QED  BY <1>1, <3>1
  <2>. DEFINE x == First(s)
  <2>1. n \in Nat /\ \A t \in SUBSET lines : Cardinality(t) <= n => Splits(t)
    BY <1>1, <1>5
  <2>2. /\ x \in s /\ x.value \in Int /\ f[s] = x.value + f[s \ {x}]
        /\ \A y \in s : s \ {y} \in SUBSET lines /\ Cardinality(s \ {y}) <= n /\ y.value \in Int
    <3>1. x \in s /\ f[s] = x.value + f[s \ {x}]
      BY <1>3
    <3>2. ASSUME NEW y \in s
          PROVE  s \ {y} \in SUBSET lines /\ Cardinality(s \ {y}) <= n /\ y.value \in Int
      <4>1. Cardinality(s \ {y}) = Cardinality(s) - 1 /\ Cardinality(s) \in Int
        BY <1>1, <1>2
      <4>. QED  BY <2>1, <4>1
    <3>. QED  BY <3>1, <3>2
  <2>. HIDE DEF x
  <2>3. \A y \in s : Splits(s \ {y})
    BY <2>1, <2>2
  <2>4. ASSUME NEW y \in s, y # x PROVE f[s] = y.value + f[s \ {y}]
    <3>. DEFINE both == (s \ {x}) \ {y}
    <3>1. (s \ {y}) \ {x} = both /\ y \in s \ {x} /\ x \in s \ {y}
      BY <2>2, <2>4
    <3>2. f[s \ {x}] = y.value + f[both] /\ f[s \ {x}] \in Int
      BY <2>2, <2>3, <3>1
    <3>3. f[s \ {y}] = x.value + f[both] /\ f[s \ {y}] \in Int
      BY <2>2, <2>3, <3>1
    <3>4. f[both] \in Int
      <4>1. both \in SUBSET lines /\ Cardinality(both) <= n
        <5>1. s \ {x} \in SUBSET lines /\ y \in s \ {x} /\ Cardinality(s \ {x}) <= n
          BY <2>2, <3>1
        <5>2. \A t \in SUBSET lines :
                y \in t => Cardinality(t \ {y}) = Cardinality(t) - 1 /\ Cardinality(t) \in Int
          BY <1>1, <1>2
        <5>3. Cardinality(both) = Cardinality(s \ {x}) - 1 /\ Cardinality(s \ {x}) \in Int
          BY <5>1, <5>2
        <5>. QED  BY <2>1, <5>1, <5>3
      <4>. QED  BY <2>1, <4>1
    <3>. HIDE DEF both
    <3>. QED  BY <2>2, <3>2, <3>3, <3>4
  <2>5. f[s] \in Int
    <3>. DEFINE rest == f[s \ {x}]
    <3>1. rest \in Int
      BY <2>2, <2>3
    <3>. HIDE DEF rest
    <3>2. f[s] = x.value + rest /\ x.value \in Int
      BY <2>2 DEF rest
    <3>. QED  BY <3>1, <3>2
  <2>. QED  BY <2>2, <2>4, <2>5
<1>. HIDE DEF T
<1>6. N \in T
  BY <1>1, <1>4, <1>5, Sums!Induction
<1>7. \A s \in SUBSET lines : Cardinality(s) <= N
  BY <1>1, <1>2
<1>8. \A s \in SUBSET lines : Splits(s)
  <2>. HIDE DEF Splits
  <2>. QED  BY <1>6, <1>7 DEF T
<1>. QED  BY <1>8 DEF AnyFirst

\* The sum over no line, one, two and four.
LEMMA Totals ==
  ASSUME NEW lines, IsFiniteSet(lines), \A line \in lines : line.value \in Int
  PROVE  /\ lines = {} => Total(lines) = 0
         /\ \A a : lines = {a} => Total(lines) = a.value
         /\ \A a, b : a # b /\ lines = {a, b} => Total(lines) = a.value + b.value
         /\ \A a, b, c, d :
              a # b /\ a # c /\ a # d /\ b # c /\ b # d /\ c # d /\ lines = {a, b, c, d} =>
                Total(lines) = a.value + b.value + c.value + d.value
<1>. DEFINE f == CHOOSE f : SumsOf(lines, f)
<1>1. SumsOf(lines, f)
  BY SumsExist
<1>. HIDE DEF f
<1>2. \A s \in SUBSET lines : f[s] \in Int /\ \A y \in s : f[s] = y.value + f[s \ {y}]
  <2>1. AnyFirst(lines, f)
    BY <1>1, SumSplits
  <2>. QED  BY <2>1 DEF AnyFirst
<1>3. f[{}] = 0
  BY <1>1 DEF SumsOf
<1>4. Total(lines) = f[lines]
  BY DEF Total, f
<1>5. ASSUME NEW a \in lines PROVE f[{a}] = a.value
  <2>1. {a} \ {a} = {} /\ {a} \in SUBSET lines /\ a \in {a} /\ a.value \in Int
    OBVIOUS
  <2>2. f[{a}] = a.value + f[{a} \ {a}]
    BY <1>2, <2>1
  <2>. QED  BY <1>3, <2>1, <2>2
<1>6. ASSUME NEW a \in lines, NEW b \in lines, a # b PROVE f[{a, b}] = a.value + b.value
  <2>1. {a, b} \ {a} = {b} /\ {a, b} \in SUBSET lines
    BY <1>6
  <2>. QED  BY <1>2, <1>5, <2>1
<1>7. ASSUME NEW a \in lines, NEW b \in lines, NEW c \in lines, NEW d \in lines,
             a # b, a # c, a # d, b # c, b # d, c # d
      PROVE  f[{a, b, c, d}] = a.value + b.value + c.value + d.value
  <2>1. /\ {a, b, c, d} \ {a} = {b, c, d} /\ {a, b, c, d} \in SUBSET lines
        /\ {b, c, d} \ {b} = {c, d} /\ {b, c, d} \in SUBSET lines
    BY <1>7
  <2>2. /\ a.value \in Int /\ b.value \in Int /\ c.value \in Int /\ d.value \in Int
        /\ f[{c, d}] = c.value + d.value
    BY <1>6, <1>7
  <2>3. f[{b, c, d}] = b.value + f[{c, d}] /\ f[{a, b, c, d}] = a.value + f[{b, c, d}]
    BY <1>2, <2>1
  <2>. QED  BY <2>2, <2>3
<1>8. lines = {} => Total(lines) = 0
  BY <1>3, <1>4
<1>9. \A a : lines = {a} => Total(lines) = a.value
  BY <1>4, <1>5
<1>10. \A a, b : a # b /\ lines = {a, b} => Total(lines) = a.value + b.value
  BY <1>4, <1>6
<1>11. ASSUME NEW a, NEW b, NEW c, NEW d, a # b, a # c, a # d, b # c, b # d, c # d,
              lines = {a, b, c, d}
       PROVE  Total(lines) = a.value + b.value + c.value + d.value
  <2>1. a \in lines /\ b \in lines /\ c \in lines /\ d \in lines
    BY <1>11
  <2>2. f[{a, b, c, d}] = a.value + b.value + c.value + d.value
    BY <1>7, <1>11, <2>1
  <2>. QED  BY <1>4, <1>11, <2>2
<1>. QED  BY <1>8, <1>9, <1>10, <1>11

LEMMA FewFinite ==
  ASSUME NEW a, NEW b, NEW c, NEW d
  PROVE  IsFiniteSet({a, b}) /\ IsFiniteSet({a, b, c, d})
<1>1. IsFiniteSet({}) /\ {a} = {} \cup {a} /\ {a, b} = {a} \cup {b}
      /\ {a, b, c} = {a, b} \cup {c} /\ {a, b, c, d} = {a, b, c} \cup {d}
  BY FS_EmptySet
<1>2. IsFiniteSet({a})
  BY <1>1, FS_AddElement
<1>3. IsFiniteSet({a, b})
  BY <1>1, <1>2, FS_AddElement
<1>4. IsFiniteSet({a, b, c})
  BY <1>1, <1>3, FS_AddElement
<1>. QED  BY <1>1, <1>3, <1>4, FS_AddElement

\* The lines of both processors, idle and busy, make up the whole.
LEMMA CPULemma ==
  ASSUME \A i \in 1 .. 2 : subject.idle[i] \in Nat /\ subject.busy[i] \in Nat
  PROVE  LET idle == subject.idle[1] + subject.idle[2]
         IN  IsUsage(CPUUsage(CPULines), idle, idle + subject.busy[1] + subject.busy[2])
<1>. DEFINE Idle(i) == [at |-> <<i, "idle">>, cpu |-> TRUE, idle |-> TRUE, value |-> subject.idle[i]]
            Busy(i) == [at |-> <<i, "user">>, cpu |-> TRUE, idle |-> FALSE, value |-> subject.busy[i]]
            all == {Idle(1), Idle(2), Busy(1), Busy(2)}
<1>1. CPULines = all
  <2>1. \A i : i \in 1 .. 2 <=> i = 1 \/ i = 2
    OBVIOUS
  <2>2. CPULines = {Idle(i) : i \in 1 .. 2} \cup {Busy(i) : i \in 1 .. 2}
    BY DEF CPULines
  <2>. HIDE DEF Idle, Busy
  <2>. QED  BY <2>1, <2>2
<1>2. \A i \in 1 .. 2 : /\ Idle(i).at = <<i, "idle">> /\ Idle(i).value = subject.idle[i]
                        /\ Busy(i).at = <<i, "user">> /\ Busy(i).value = subject.busy[i]
  OBVIOUS
<1>3. \A i : Idle(i).idle /\ Idle(i).cpu /\ ~Busy(i).idle /\ Busy(i).cpu
  OBVIOUS
<1>4. /\ Idle(1) # Idle(2) /\ Busy(1) # Busy(2)
      /\ \A i, j \in 1 .. 2 : Idle(i) # Busy(j)
  <2>. HIDE DEF Idle, Busy
  <2>. QED  BY <1>2
<1>5. /\ {l \in CPULines : l.idle} = {Idle(1), Idle(2)}
      /\ {l \in CPULines : l.cpu} = all
  <2>. HIDE DEF Idle, Busy
  <2>. QED  BY <1>1, <1>3
<1>6. \A l \in all : l.value \in Int
  <2>. HIDE DEF Idle, Busy
  <2>. QED  BY <1>2
<1>7. /\ IsFiniteSet({Idle(1), Idle(2)}) /\ IsFiniteSet(all)
      /\ {Idle(1), Idle(2)} \subseteq all
  <2>. HIDE DEF Idle, Busy
  <2>. QED  BY FewFinite
<1>. HIDE DEF Idle, Busy
<1>8. Total({Idle(1), Idle(2)}) = Idle(1).value + Idle(2).value
  <2>1. \A l \in {Idle(1), Idle(2)} : l.value \in Int
    BY <1>6
  <2>. QED  BY <1>4, <1>7, <2>1, Totals
<1>9. Total(all) = Idle(1).value + Idle(2).value + Busy(1).value + Busy(2).value
  BY <1>4, <1>6, <1>7, Totals
<1>. DEFINE idle == subject.idle[1] + subject.idle[2]
            total == idle + subject.busy[1] + subject.busy[2]
<1>10. CPUUsage(CPULines) = Used(idle, total)
  BY <1>2, <1>5, <1>8, <1>9, CPUSums
<1>11. idle \in Nat /\ total \in Nat /\ idle <= total
  OBVIOUS
<1>. QED  BY <1>10, <1>11, UsedIsUsage

\* The filesystems that count, and no others, are added up.
LEMMA DiskLemma ==
  ASSUME subject \in [1 .. 2 -> Filesystems]
  PROVE  LET Counts(f) == IF f.passed_over \/ f.excluded_type \/ f.excluded_mount THEN 0 ELSE 1
             one == subject[1]  two == subject[2]
         IN  IsUsage(DiskUsage(DiskLines), Counts(one) * one.left + Counts(two) * two.left,
                     Counts(one) * one.size + Counts(two) * two.size)
<1>. DEFINE Line(i, metric) ==
              [at |-> i, metric |-> metric,
               value |-> IF metric = "size" THEN subject[i].size ELSE subject[i].left,
               passed_over |-> subject[i].passed_over,
               excluded_type |-> subject[i].excluded_type,
               excluded_mount |-> subject[i].excluded_mount]
            Counts(f) == IF f.passed_over \/ f.excluded_type \/ f.excluded_mount THEN 0 ELSE 1
            Of(metric) == {l \in DiskLines : Counted(l) /\ l.metric = metric}
<1>1. ASSUME NEW i \in 1 .. 2
      PROVE  subject[i].size \in Nat /\ subject[i].left \in Nat /\ subject[i].left <= subject[i].size
  <2>1. subject[i] \in Filesystems
    OBVIOUS
  <2>. QED  BY <2>1, RulesAssumption DEF Filesystems
<1>2. \A i, metric :
        /\ Line(i, metric).at = i /\ Line(i, metric).metric = metric
        /\ Line(i, metric).value = IF metric = "size" THEN subject[i].size ELSE subject[i].left
        /\ Counted(Line(i, metric)) <=> Counts(subject[i]) = 1
  BY DEF Counted
<1>3. DiskLines = {Line(i, metric) : i \in 1 .. 2, metric \in {"size", "avail"}}
  BY DEF DiskLines
<1>. HIDE DEF Line
<1>4. ASSUME NEW metric \in {"size", "avail"}, NEW v \in [1 .. 2 -> Nat],
             \A i \in 1 .. 2 : Line(i, metric).value = v[i]
      PROVE  Total(Of(metric)) = Counts(subject[1]) * v[1] + Counts(subject[2]) * v[2]
  <2>. DEFINE a == Line(1, metric)
              b == Line(2, metric)
  <2>1. a # b
    BY <1>2
  <2>2. \A i : i \in 1 .. 2 <=> i = 1 \/ i = 2
    OBVIOUS
  <2>3. Of(metric) = {l \in {a, b} : Counted(l)}
    BY <1>2, <1>3, <2>2
  <2>4. /\ Counted(a) <=> Counts(subject[1]) = 1
        /\ Counted(b) <=> Counts(subject[2]) = 1
        /\ a.value = v[1] /\ b.value = v[2] /\ v[1] \in Nat /\ v[2] \in Nat
    BY <1>2, <1>4
  <2>5. Counts(subject[1]) \in {0, 1} /\ Counts(subject[2]) \in {0, 1}
    OBVIOUS
  <2>6. IsFiniteSet(Of(metric)) /\ \A l \in Of(metric) : l.value \in Int
    <3>1. Of(metric) \subseteq {a, b} /\ IsFiniteSet({a, b})
      BY <2>3, FewFinite
    <3>. HIDE DEF Of, a, b
    <3>. QED  BY <2>4, <3>1, FS_Subset
  <2>. HIDE DEF a, b
  <2>7. /\ Of(metric) = {} => Total(Of(metric)) = 0
        /\ Of(metric) = {a} => Total(Of(metric)) = a.value
        /\ Of(metric) = {b} => Total(Of(metric)) = b.value
        /\ Of(metric) = {a, b} => Total(Of(metric)) = a.value + b.value
    <3>. HIDE DEF Of
    <3>. QED  BY <2>1, <2>6, Totals
  <2>. HIDE DEF Counts
  <2>8. Of(metric) = IF Counted(a) THEN IF Counted(b) THEN {a, b} ELSE {a}
                     ELSE IF Counted(b) THEN {b} ELSE {}
    <3>. HIDE DEF Of
    <3>. QED  BY <2>3
  <2>. HIDE DEF Of
  <2>. QED  BY <2>4, <2>5, <2>7, <2>8
<1>. DEFINE one == subject[1]
            two == subject[2]
            left == Counts(one) * one.left + Counts(two) * two.left
            size == Counts(one) * one.size + Counts(two) * two.size
<1>5. Total(Of("avail")) = left
  <2>. DEFINE v == [i \in 1 .. 2 |-> subject[i].left]
  <2>1. v \in [1 .. 2 -> Nat] /\ v[1] = one.left /\ v[2] = two.left
    BY <1>1
  <2>2. \A i \in 1 .. 2 : Line(i, "avail").value = v[i]
    BY <1>2
  <2>. HIDE DEF Counts, Of, v
  <2>3. Total(Of("avail")) = Counts(subject[1]) * v[1] + Counts(subject[2]) * v[2]
    BY <1>4, <2>1, <2>2
  <2>. QED  BY <2>1, <2>3
<1>6. Total(Of("size")) = size
  <2>. DEFINE v == [i \in 1 .. 2 |-> subject[i].size]
  <2>1. v \in [1 .. 2 -> Nat] /\ v[1] = one.size /\ v[2] = two.size
    BY <1>1
  <2>2. \A i \in 1 .. 2 : Line(i, "size").value = v[i]
    BY <1>2
  <2>. HIDE DEF Counts, Of, v
  <2>3. Total(Of("size")) = Counts(subject[1]) * v[1] + Counts(subject[2]) * v[2]
    BY <1>4, <2>1, <2>2
  <2>. QED  BY <2>1, <2>3
<1>7. DiskUsage(DiskLines) = Used(left, size)
  <2>1. DiskUsage(DiskLines) = Used(Total(Of("avail")), Total(Of("size")))
    BY DiskSums
  <2>. QED  BY <1>5, <1>6, <2>1
<1>8. left \in Nat /\ size \in Nat /\ left <= size
  <2>1. Counts(one) \in {0, 1} /\ Counts(two) \in {0, 1}
    OBVIOUS
  <2>2. one.left \in Nat /\ two.left \in Nat /\ one.size \in Nat /\ two.size \in Nat
        /\ one.left <= one.size /\ two.left <= two.size
    BY <1>1
  <2>3. ASSUME NEW c \in {0, 1}, NEW x \in Nat, NEW y \in Nat, x <= y
        PROVE  c * x \in Nat /\ c * y \in Nat /\ c * x <= c * y
    <3>1. CASE c = 0
      BY <2>3, <3>1
    <3>2. CASE c = 1
      BY <2>3, <3>2
    <3>. QED  BY <3>1, <3>2
  <2>. HIDE DEF Counts, one, two
  <2>4. /\ Counts(one) * one.left \in Nat /\ Counts(one) * one.size \in Nat
        /\ Counts(one) * one.left <= Counts(one) * one.size
        /\ Counts(two) * two.left \in Nat /\ Counts(two) * two.size \in Nat
        /\ Counts(two) * two.left <= Counts(two) * two.size
    BY <2>1, <2>2, <2>3
  <2>. QED  BY <2>4
<1>. HIDE DEF left, size
<1>9. IsUsage(DiskUsage(DiskLines), left, size)
  BY <1>7, <1>8, UsedIsUsage
<1>. QED  BY <1>9 DEF left, size

-----------------------------------------------------------------------------
(* Settings.                                                                 *)

\* One line of a file read into the environment.
LineStep(lines, env, n) == SetLine(env, lines[n])
Loads == INSTANCE Iteration WITH Step <- LineStep

\* The environment after m lines: what was set before stays, and the first line
\* of each other name sets it.
SetBy(env, lines, m, after) ==
  /\ DOMAIN after = DOMAIN env \cup {lines[i].name : i \in 1 .. m}
  /\ \A name \in DOMAIN env : after[name] = env[name]
  /\ \A i \in 1 .. m :
       lines[i].name \notin DOMAIN env /\ (\A j \in 1 .. i - 1 : lines[j].name # lines[i].name)
         => after[lines[i].name] = lines[i].text

\* The lines of a file one after the other.
Loaded(env, lines) ==
  LET after[n \in 0 .. Len(lines)] ==
        IF n = 0 THEN env ELSE SetLine(after[n - 1], lines[n])
  IN  after[Len(lines)]

LEMMA LinesSet ==
  ASSUME NEW env, NEW lines, Len(lines) \in Nat
  PROVE  SetBy(env, lines, Len(lines), Loaded(env, lines))
<1>. DEFINE N == Len(lines)
            UpTo(f) == f = [n \in 0 .. N |-> IF n = 0 THEN env ELSE SetLine(f[n - 1], lines[n])]
            after == CHOOSE f : UpTo(f)
<1>1. Loaded(env, lines) = after[N]
  BY DEF Loaded
<1>2. \A g : Loads!IsLoop(g, lines, env, N) <=> UpTo(g)
  BY DEF Loads!IsLoop, LineStep
<1>3. PICK g : UpTo(g)
  BY <1>2, Loads!LoopExists
<1>4. Loads!IsLoop(after, lines, env, N)
  BY <1>2, <1>3
<1>. HIDE DEF after, UpTo, N
<1>5. N \in Nat
  BY DEF N
<1>6. after[0] = env /\ \A n \in 1 .. N : after[n] = LineStep(lines, after[n - 1], n)
  <2>1. Loads!Unrolls(after, lines, env, N)
    BY <1>4, <1>5, Loads!LoopUnrolls
  <2>. QED  BY <2>1 DEF Loads!Unrolls
<1>. DEFINE T == {m \in Nat : SetBy(env, lines, m, after[m])}
<1>7. 0 \in T
  BY <1>6 DEF SetBy
<1>8. ASSUME NEW m \in 0 .. N - 1, m \in T PROVE m + 1 \in T
  <2>1. /\ m \in Nat /\ m + 1 \in 1 .. N /\ m + 1 \in Nat /\ m + 1 - 1 = m
        /\ 1 .. m + 1 = (1 .. m) \cup {m + 1}
    BY <1>5
  <2>. DEFINE line == lines[m + 1]
              old == after[m]
              new == after[m + 1]
  <2>2. SetBy(env, lines, m, old)
    BY <1>8
  <2>. HIDE DEF T
  <2>3. new = SetLine(old, line)
    BY <1>6, <2>1 DEF LineStep
  <2>. HIDE DEF old, new
  <2>4. /\ DOMAIN new = DOMAIN old \cup {line.name}
        /\ \A name \in DOMAIN old : new[name] = old[name]
        /\ line.name \notin DOMAIN old => new[line.name] = line.text
    BY <2>3 DEF SetLine
  <2>5. {lines[i].name : i \in 1 .. m + 1} = {lines[i].name : i \in 1 .. m} \cup {line.name}
    BY <2>1
  <2>6. DOMAIN new = DOMAIN env \cup {lines[i].name : i \in 1 .. m + 1}
    BY <2>2, <2>4, <2>5 DEF SetBy
  <2>7. \A name \in DOMAIN env : new[name] = env[name]
    BY <2>2, <2>4 DEF SetBy
  <2>8. ASSUME NEW i \in 1 .. m + 1, lines[i].name \notin DOMAIN env,
               \A j \in 1 .. i - 1 : lines[j].name # lines[i].name
        PROVE  new[lines[i].name] = lines[i].text
    <3>1. CASE i = m + 1
      <4>1. line.name \notin DOMAIN old
        BY <2>1, <2>2, <2>8, <3>1 DEF SetBy
      <4>. QED  BY <2>4, <3>1, <4>1
    <3>2. CASE i \in 1 .. m
      <4>1. lines[i].name \in DOMAIN old /\ old[lines[i].name] = lines[i].text
        BY <2>2, <2>8, <3>2 DEF SetBy
      <4>. QED  BY <2>4, <4>1
    <3>. QED  BY <2>1, <3>1, <3>2
  <2>9. SetBy(env, lines, m + 1, new)
    BY <2>6, <2>7, <2>8 DEF SetBy
  <2>. QED  BY <2>1, <2>9 DEF T, new
<1>. HIDE DEF T
<1>9. N \in T
  <2>1. \A n \in 0 .. N : n \in T
    BY <1>5, <1>7, <1>8, Loads!Induction
  <2>. QED  BY <1>5, <2>1
<1>. QED  BY <1>1, <1>9 DEF T, N

\* The first of the lines that are said to be somewhere.
LEMMA FirstLine ==
  ASSUME NEW N \in Nat, NEW I \in SUBSET (1 .. N), I # {}, NEW first,
         first = CHOOSE i \in I : \A j \in I : i <= j
  PROVE  first \in I /\ \A j \in 1 .. first - 1 : j \notin I
<1>1. I \in SUBSET Nat
  OBVIOUS
<1>2. PICK i \in I : \A j \in I : i <= j
  BY <1>1, Loads!Least
<1>3. first \in I /\ \A j \in I : first <= j
  BY <1>2
<1>4. first \in Nat
  BY <1>1, <1>3
<1>5. \A j \in 1 .. first - 1 : ~(first <= j)
  BY <1>4
<1>. QED  BY <1>3, <1>5

\* Of two files, the first that is there, or none.
LEMMA FileChosen ==
  ASSUME NEW env, NEW files, DOMAIN files = 1 .. 2, files[1].exists \in BOOLEAN, files[2].exists \in BOOLEAN
  PROVE  LET file == IF files[1].exists THEN files[1] ELSE files[2]
         IN  loadDotEnvIfExists(env, files) = Loaded(env, IF file.exists THEN file.lines ELSE <<>>)
<1>. DEFINE there == {i \in DOMAIN files : files[i].exists}
            first == CHOOSE i \in there : \A j \in there : i <= j
            file == IF files[1].exists THEN files[1] ELSE files[2]
            lines == IF there = {} THEN <<>> ELSE files[first].lines
<1>1. loadDotEnvIfExists(env, files) = Loaded(env, lines)
  BY DEF loadDotEnvIfExists, Loaded
<1>2. lines = IF file.exists THEN file.lines ELSE <<>>
  <2>1. \A i : i \in there <=> (i = 1 \/ i = 2) /\ files[i].exists
    OBVIOUS
  <2>2. CASE files[1].exists
    <3>1. 1 \in there /\ \A j \in there : 1 <= j
      BY <2>1, <2>2
    <3>2. first \in there /\ \A j \in there : first <= j
      BY <3>1
    <3>3. first = 1
      BY <2>1, <3>1, <3>2
    <3>. HIDE DEF first, there
    <3>. QED  BY <2>2, <3>1, <3>3
  <2>3. CASE ~files[1].exists /\ files[2].exists
    <3>1. there = {2}
      BY <2>1, <2>3
    <3>2. \A j \in {2} : 2 <= j
      OBVIOUS
    <3>3. first \in there
      BY <3>1, <3>2
    <3>4. first = 2
      BY <3>1, <3>3
    <3>. HIDE DEF first, there
    <3>. QED  BY <2>3, <3>1, <3>4
  <2>4. CASE ~files[1].exists /\ ~files[2].exists
    BY <2>1, <2>4
  <2>. QED  BY <2>2, <2>3, <2>4
<1>. QED  BY <1>1, <1>2

\* A name set in the environment keeps its text; any other gets that of its first
\* line in the first file there is, however long; and no more names are set.
THEOREM SourcesOfAnyFile ==
  ASSUME NEW env, NEW files, DOMAIN files = 1 .. 2,
         \A i \in 1 .. 2 : files[i].exists \in BOOLEAN /\ Len(files[i].lines) \in Nat
                           /\ DOMAIN files[i].lines = 1 .. Len(files[i].lines),
         NEW name
  PROVE  LET file == IF files[1].exists THEN files[1] ELSE files[2]
             At == {i \in DOMAIN file.lines : file.exists /\ file.lines[i].name = name}
             First == file.lines[CHOOSE i \in At : \A j \in At : i <= j].text
             after == loadDotEnvIfExists(env, files)
         IN  IF name \in DOMAIN env THEN name \in DOMAIN after /\ after[name] = env[name]
             ELSE IF At # {} THEN name \in DOMAIN after /\ after[name] = First
             ELSE name \notin DOMAIN after
<1>. DEFINE file == IF files[1].exists THEN files[1] ELSE files[2]
            At == {i \in DOMAIN file.lines : file.exists /\ file.lines[i].name = name}
            first == CHOOSE i \in At : \A j \in At : i <= j
            after == loadDotEnvIfExists(env, files)
            lines == IF file.exists THEN file.lines ELSE <<>>
            N == Len(lines)
<1>1. after = Loaded(env, lines)
  BY FileChosen
<1>2. N \in Nat /\ DOMAIN lines = 1 .. N
  BY EmptySeq, LenProperties
<1>3. SetBy(env, lines, N, after)
  <2>. HIDE DEF lines, after
  <2>. QED  BY <1>1, <1>2, LinesSet
<1>4. At = {i \in 1 .. N : lines[i].name = name}
  BY <1>2
<1>5. At # {} => lines = file.lines
  OBVIOUS
<1>6. At # {} => first \in At /\ \A j \in 1 .. first - 1 : j \notin At
  <2>1. At \in SUBSET (1 .. N)
    BY <1>4
  <2>. HIDE DEF At, N
  <2>. QED  BY <1>2, <2>1, FirstLine
<1>. HIDE DEF after, lines, N, At, first, file
<1>7. ASSUME name \in DOMAIN env PROVE name \in DOMAIN after /\ after[name] = env[name]
  BY <1>3, <1>7 DEF SetBy
<1>8. ASSUME name \notin DOMAIN env, At # {}
      PROVE  name \in DOMAIN after /\ after[name] = file.lines[first].text
  <2>1. first \in 1 .. N /\ lines[first].name = name
    BY <1>4, <1>6, <1>8
  <2>2. \A j \in 1 .. first - 1 : lines[j].name # name
    BY <1>2, <1>4, <1>6, <1>8, <2>1
  <2>3. name \in DOMAIN after /\ after[name] = lines[first].text
    BY <1>3, <1>8, <2>1, <2>2 DEF SetBy
  <2>. QED  BY <1>5, <1>8, <2>3
<1>9. ASSUME name \notin DOMAIN env, At = {} PROVE name \notin DOMAIN after
  BY <1>3, <1>4, <1>9 DEF SetBy
<1>10. IF name \in DOMAIN env THEN name \in DOMAIN after /\ after[name] = env[name]
       ELSE IF At # {} THEN name \in DOMAIN after /\ after[name] = file.lines[first].text
       ELSE name \notin DOMAIN after
  BY <1>7, <1>8, <1>9
<1>. QED  BY <1>10 DEF file, At, first, after

\* The job's proxy, or the worker's if it has none, whatever the handler.
LEMMA ProxyLemma ==
  ASSUME NEW job, NEW worker, job.host # Blank, NEW handler \in {"http", "exporter", "docker"}
  PROVE  ProxyOf(handler, job, worker) =
           configureTransportProxy(IF job.host = "" THEN worker ELSE job)
<1>1. HandlerProxy(handler, applyProxy(job, worker), worker) = IF job.host = "" THEN worker ELSE job
  BY DEF HandlerProxy, applyProxy, TrimSpace, Blank
<1>. QED  BY <1>1 DEF ProxyOf

LEMMA Halves == 0 \div 2 = 0 /\ 14 \div 2 = 7
OBVIOUS

LEMMA IntRead ==
  ASSUME NEW text \in {"", "0", "7", "up", "unset"}
  PROVE  (IF text \in WholeTexts THEN Atoi(text) ELSE 5) =
           CASE text = "0" -> 0 [] text = "7" -> 7 [] OTHER -> 5
<1>1. {"", "up", "unset"} \cap DOMAIN Numeral = {}
  BY JSONReadingAssumption, RulesAssumption
<1>2. \A t \in WholeTexts : t \in DOMAIN Numeral
  BY JSONReadingAssumption
<1>3. "" \notin WholeTexts /\ "up" \notin WholeTexts /\ "unset" \notin WholeTexts
  BY <1>1, <1>2
<1>4. "0" \in WholeTexts /\ "7" \in WholeTexts /\ Numeral["0"] = 0 /\ Numeral["7"] = 14
  BY RulesAssumption
<1>5. Atoi("0") = 0 /\ Atoi("7") = 7
  BY <1>4, Halves DEF Atoi
<1>. QED  BY <1>3, <1>4, <1>5

\* What is read of a setting in the environment and files that are tried.
LEMMA SettingLemma ==
  ASSUME NEW env \in Environments, NEW files \in [1 .. 2 -> Files]
  PROVE  LET file == IF files[1].exists THEN files[1] ELSE files[2]
             At(name) == {i \in DOMAIN file.lines : file.exists /\ file.lines[i].name = name}
             First(name) == file.lines[CHOOSE i \in At(name) : \A j \in At(name) : i <= j].text
             Text(name) == IF name \in DOMAIN env THEN env[name]
                           ELSE IF At(name) # {} THEN First(name) ELSE "unset"
             after == loadDotEnvIfExists(env, files)
         IN  \A name : /\ getString(after, name, "unset") = Text(name)
                       /\ getInt(after, name, 5) = CASE Text(name) = "0" -> 0
                                                     [] Text(name) = "7" -> 7
                                                     [] OTHER            -> 5
<1>1. /\ DOMAIN files = 1 .. 2
      /\ \A i \in 1 .. 2 : /\ files[i].exists \in BOOLEAN /\ Len(files[i].lines) \in Nat
                           /\ DOMAIN files[i].lines = 1 .. Len(files[i].lines)
                           /\ \A n \in DOMAIN files[i].lines : files[i].lines[n].text \in {"", "7", "up"}
  <2>1. ASSUME NEW i \in 1 .. 2
        PROVE  /\ files[i].exists \in BOOLEAN /\ files[i].lines \in Seq(Lines)
    <3>1. files[i] \in Files
      OBVIOUS
    <3>2. PICK n \in 0 .. 2 : files[i].lines \in [1 .. n -> Lines]
      BY <3>1 DEF Files
    <3>. QED  BY <3>1, <3>2, SeqDef DEF Files
  <2>2. \A line \in Lines : line.text \in {"", "7", "up"}
    BY DEF Lines
  <2>. QED  BY <2>1, <2>2, LenProperties
<1>. DEFINE file == IF files[1].exists THEN files[1] ELSE files[2]
            At(name) == {i \in DOMAIN file.lines : file.exists /\ file.lines[i].name = name}
            First(name) == file.lines[CHOOSE i \in At(name) : \A j \in At(name) : i <= j].text
            Text(name) == IF name \in DOMAIN env THEN env[name]
                          ELSE IF At(name) # {} THEN First(name) ELSE "unset"
            after == loadDotEnvIfExists(env, files)
<1>2. /\ Len(file.lines) \in Nat /\ DOMAIN file.lines = 1 .. Len(file.lines)
      /\ \A n \in DOMAIN file.lines : file.lines[n].text \in {"", "7", "up"}
  <2>1. \E i \in 1 .. 2 : file = files[i]
    OBVIOUS
  <2>. HIDE DEF file
  <2>. QED  BY <1>1, <2>1
<1>3. ASSUME NEW name
      PROVE  /\ getString(after, name, "unset") = Text(name)
             /\ getInt(after, name, 5) = CASE Text(name) = "0" -> 0
                                           [] Text(name) = "7" -> 7
                                           [] OTHER            -> 5
  <2>1. IF name \in DOMAIN env THEN name \in DOMAIN after /\ after[name] = env[name]
        ELSE IF At(name) # {} THEN name \in DOMAIN after /\ after[name] = First(name)
        ELSE name \notin DOMAIN after
    BY <1>1, SourcesOfAnyFile
  <2>2. name \in DOMAIN env => env[name] \in {"", "0"}
    BY DEF Environments
  <2>3. At(name) # {} => First(name) \in {"", "7", "up"}
    <3>. DEFINE first == CHOOSE i \in At(name) : \A j \in At(name) : i <= j
    <3>1. ASSUME At(name) # {} PROVE first \in At(name)
      <4>. DEFINE I == At(name)
                  N == Len(file.lines)
      <4>1. N \in Nat /\ I \in SUBSET (1 .. N) /\ I # {}
        BY <1>2, <3>1
      <4>. HIDE DEF I, N
      <4>2. (CHOOSE i \in I : \A j \in I : i <= j) \in I
        BY <4>1, FirstLine
      <4>. QED  BY <4>2 DEF I
    <3>2. \A i \in At(name) : file.lines[i].text \in {"", "7", "up"}
      <4>. HIDE DEF file
      <4>. QED  BY <1>2
    <3>. QED  BY <3>1, <3>2
  <2>. HIDE DEF At, First, after
  <2>4. getString(after, name, "unset") = Text(name)
    BY <2>1 DEF getString
  <2>5. Text(name) \in {"", "0", "7", "up", "unset"}
    BY <2>2, <2>3
  <2>6. getInt(after, name, 5) =
          IF Text(name) \in WholeTexts THEN Atoi(Text(name)) ELSE 5
    <3>1. "" \notin WholeTexts /\ "unset" \notin WholeTexts
      <4>1. {"", "unset"} \cap DOMAIN Numeral = {}
        BY JSONReadingAssumption, RulesAssumption
      <4>2. \A t \in WholeTexts : t \in DOMAIN Numeral
        BY JSONReadingAssumption
      <4>. QED  BY <4>1, <4>2
    <3>. QED  BY <2>1, <3>1 DEF getInt, getString
  <2>. HIDE DEF Text
  <2>. QED  BY <2>4, <2>5, <2>6, IntRead
<1>. QED  BY <1>3

-----------------------------------------------------------------------------
(* The invariants.  The inputs stay integers and sequences; a rule of a module *)
(* holds of each subject when it is chosen, and no subject changes.            *)

InputsOK == raw \in Int /\ q \in Seq(Ids) /\ batch \in Seq(Ids)

LEMMA InputsStayOK == Spec => []InputsOK
<1>1. Init => InputsOK
  BY RulesAssumption, EmptySeq DEF Init, InputsOK
<1>2. InputsOK /\ [Next]_vars => InputsOK'
  <2>. SUFFICES ASSUME InputsOK, [Next]_vars PROVE InputsOK'
    OBVIOUS
  <2>1. CASE GrowQueue
    <3>1. PICK id \in Ids : q' = Append(q, id)
      BY <2>1 DEF GrowQueue
    <3>. QED  BY <2>1, <3>1, AppendProperties DEF GrowQueue, InputsOK
  <2>2. CASE GrowBatch
    <3>1. PICK id \in Ids : batch' = Append(batch, id)
      BY <2>2 DEF GrowBatch
    <3>. QED  BY <2>2, <3>1, AppendProperties DEF GrowBatch, InputsOK
  <2>3. CASE ~GrowQueue /\ ~GrowBatch
    <3>1. q' = q /\ batch' = batch /\ (raw' = raw \/ raw' = raw + 1)
      BY <2>3 DEF Next, vars, RaiseRaw, TryCheck, TryAnswer, TryValue, TryPage,
                  TrySource, TryProxy, TryMemory, TryCPU, TryDisk, Try
    <3>. QED  BY <3>1 DEF InputsOK
  <2>. QED  BY <2>1, <2>2, <2>3
<1>. QED  BY <1>1, <1>2, PTL DEF Spec

\* The order of the checks and the test that starts one agree, whatever period
\* the server sends.
THEOREM OrderAgrees == Spec => []OrderAgreesWithStart
<1>1. InputsOK => OrderAgreesWithStart
  BY OrderLemma, ClampedTwice DEF InputsOK, OrderAgreesWithStart
<1>. QED  BY <1>1, InputsStayOK, PTL

\* Batch and rest make up the queue, for every queue and every size.
THEOREM TakesSplitQueues == Spec => []TakeSplitsTheQueue
<1>1. ASSUME InputsOK, NEW max \in 0 .. MaxLen + 1
      PROVE  /\ TakeFront(q, max) \o TakeRest(q, max) = q
             /\ max > 0 => Len(TakeFront(q, max)) <= max
  <2>1. max \in Int /\ q \in Seq(Ids)
    BY <1>1, RulesAssumption DEF InputsOK
  <2>2. TakeFront(q, max) \o TakeRest(q, max) = q
    BY <2>1, TakeFacts
  <2>3. ASSUME max > 0 PROVE Len(TakeFront(q, max)) <= max
    BY <2>1, <2>3, LenProperties DEF TakeFront, TakesAll
  <2>. QED  BY <2>2, <2>3
<1>2. InputsOK => TakeSplitsTheQueue
  BY <1>1 DEF TakeSplitsTheQueue
<1>. QED  BY <1>2, InputsStayOK, PTL

\* Giving a batch back by the two passes of the code is Prepend, for every queue,
\* batch and set of live jobs.
THEOREM PrependsAreLoops == Spec => []PrependIsTheLoop
<1>1. InputsOK => PrependIsTheLoop
  BY PrependLemma DEF InputsOK
<1>. QED  BY <1>1, InputsStayOK, PTL

\* A check passes exactly if it met what its type asks for, for every status code.
THEOREM VerdictsAreOutcomes == Spec => []VerdictIsTheOutcome
<1>1. Init => VerdictIsTheOutcome
  BY DEF Init, VerdictIsTheOutcome
<1>2. VerdictIsTheOutcome /\ [Next]_vars => VerdictIsTheOutcome'
  <2>. SUFFICES ASSUME VerdictIsTheOutcome, [Next]_vars PROVE VerdictIsTheOutcome'
    OBVIOUS
  <2>1. CASE TryCheck
    <3>1. PICK type \in Types : \E met \in Meetings(type) :
                 of' = "check" /\ subject' = [type |-> type, met |-> met]
      BY <2>1 DEF TryCheck, Try
    <3>2. PICK met \in Meetings(type) : subject' = [type |-> type, met |-> met]
      BY <3>1
    <3>3. subject'.type = type /\ subject'.met = met
      BY <3>2
    <3>. QED  BY <3>3, VerdictLemma DEF VerdictIsTheOutcome
  <2>2. CASE ~TryCheck
    <3>1. of' # "check" \/ (of' = of /\ subject' = subject)
      BY <2>2 DEF Next, vars, RaiseRaw, GrowQueue, GrowBatch, TryAnswer, TryValue, TryPage,
                  TrySource, TryProxy, TryMemory, TryCPU, TryDisk, Try
    <3>. QED  BY <3>1 DEF VerdictIsTheOutcome
  <2>. QED  BY <2>1, <2>2
<1>. QED  BY <1>1, <1>2, PTL DEF Spec

\* Both judges of a docker host agree, for every status code.
THEOREM DockerJudgesAgree == Spec => []DockerVerdictsAgree
<1>1. Init => DockerVerdictsAgree
  BY DEF Init, DockerVerdictsAgree
<1>2. DockerVerdictsAgree /\ [Next]_vars => DockerVerdictsAgree'
  <2>. SUFFICES ASSUME DockerVerdictsAgree, [Next]_vars PROVE DockerVerdictsAgree'
    OBVIOUS
  <2>1. CASE TryCheck
    <3>1. PICK type \in Types : \E met \in Meetings(type) :
                 of' = "check" /\ subject' = [type |-> type, met |-> met]
      BY <2>1 DEF TryCheck, Try
    <3>2. PICK met \in Meetings(type) : subject' = [type |-> type, met |-> met]
      BY <3>1
    <3>3. subject'.type = type /\ subject'.met = met
      BY <3>2
    <3>4. ASSUME type = JobTypeDocker
          PROVE  met.named \in Int /\ Handle(JobTypeDocker, met) = RunDocker(met)
      BY <3>4 DEF Meetings, Handle, JobTypeHTTPS, JobTypeTCP, JobTypePing, JobTypeDocker,
                  ExporterTypes, JobTypeHTTPJSON, JobTypeUDP
    <3>. QED  BY <3>3, <3>4, DockerLemma DEF DockerVerdictsAgree
  <2>2. CASE ~TryCheck
    <3>1. of' # "check" \/ (of' = of /\ subject' = subject)
      BY <2>2 DEF Next, vars, RaiseRaw, GrowQueue, GrowBatch, TryAnswer, TryValue, TryPage,
                  TrySource, TryProxy, TryMemory, TryCPU, TryDisk, Try
    <3>. QED  BY <3>1 DEF DockerVerdictsAgree
  <2>. QED  BY <2>1, <2>2
<1>. QED  BY <1>1, <1>2, PTL DEF Spec

\* No answer that says success is refused, none that does not is taken, and the
\* get is never less strict than the senders, whatever code and status there is.
THEOREM RefusalsAreHeard == Spec => []RefusalIsHeard
<1>1. RefusalIsHeard
  BY DEF RefusalIsHeard, monitoringAPIOK, GetAccepts
<1>. QED  BY <1>1, PTL

\* The JSON check of a scalar depends only on the text it shows, and that text
\* passes, whatever numbers and texts there are.
THEOREM ChecksSeeShownText == Spec => []ValuesReadAsShown
<1>1. Init => ValuesReadAsShown
  BY DEF Init, ValuesReadAsShown
<1>2. ValuesReadAsShown /\ [Next]_vars => ValuesReadAsShown'
  <2>. SUFFICES ASSUME ValuesReadAsShown, [Next]_vars PROVE ValuesReadAsShown'
    OBVIOUS
  <2>1. CASE TryValue
    <3>1. PICK v, expected, type :
            /\ IsScalar(v) /\ type \in {"bool", "number", "string"}
            /\ subject' = [v |-> v, expected |-> expected, type |-> type]
      BY <2>1, TriedValue
    <3>2. subject'.v = v /\ subject'.type = type /\ subject'.expected = expected
      BY <3>1
    <3>. QED  BY <3>1, <3>2, ShownLemma DEF ValuesReadAsShown
  <2>2. CASE ~TryValue
    <3>1. of' # "value" \/ (of' = of /\ subject' = subject)
      BY <2>2 DEF Next, vars, RaiseRaw, GrowQueue, GrowBatch, TryCheck, TryAnswer, TryPage,
                  TrySource, TryProxy, TryMemory, TryCPU, TryDisk, Try
    <3>. QED  BY <3>1 DEF ValuesReadAsShown
  <2>. QED  BY <2>1, <2>2
<1>. QED  BY <1>1, <1>2, PTL DEF Spec

\* Quoted or not, whole numbers and booleans are read alike by all readers.
THEOREM AllReadersAgree == Spec => []ReadersAgree
<1>1. Init => ReadersAgree
  BY DEF Init, ReadersAgree
<1>2. ReadersAgree /\ [Next]_vars => ReadersAgree'
  <2>. SUFFICES ASSUME ReadersAgree, [Next]_vars PROVE ReadersAgree'
    OBVIOUS
  <2>1. CASE TryValue
    <3>1. PICK v, expected, type :
            IsScalar(v) /\ subject' = [v |-> v, expected |-> expected, type |-> type]
      BY <2>1, TriedValue
    <3>2. subject'.v = v
      BY <3>1
    <3>. QED  BY <3>1, <3>2, NumbersLemma, BooleansLemma DEF ReadersAgree
  <2>2. CASE ~TryValue
    <3>1. of' # "value" \/ (of' = of /\ subject' = subject)
      BY <2>2 DEF Next, vars, RaiseRaw, GrowQueue, GrowBatch, TryCheck, TryAnswer, TryPage,
                  TrySource, TryProxy, TryMemory, TryCPU, TryDisk, Try
    <3>. QED  BY <3>1 DEF ReadersAgree
  <2>. QED  BY <2>1, <2>2
<1>. QED  BY <1>1, <1>2, PTL DEF Spec

\* Wherever a page is, at the root or in a member, a path that begins with a
\* name, or an index in its usual form, finds the same in it.
THEOREM PathsAgree == Spec => []PathsReadAlike
<1>1. Init => PathsReadAlike
  BY DEF Init, PathsReadAlike
<1>2. PathsReadAlike /\ [Next]_vars => PathsReadAlike'
  <2>. SUFFICES ASSUME PathsReadAlike, [Next]_vars PROVE PathsReadAlike'
    OBVIOUS
  <2>1. CASE TryPage
    <3>1. PICK i \in DOMAIN Pages, path \in Paths, expected \in {"up", "1", "true", "null"} :
            subject' = [doc |-> Pages[i], path |-> path, expected |-> expected]
      BY <2>1 DEF TryPage, Try
    <3>2. subject'.doc = Pages[i] /\ subject'.path = path /\ subject'.expected = expected
      BY <3>1
    <3>3. path \in Seq(Keys \cup {"in"}) /\ path # <<>> /\ "in" \in Keys \cup {"in"} /\ Indexed(Pages[i])
      <4>1. Indexed(Pages[i])
        BY PagesIndexed
      <4>. DEFINE S == Keys \cup {"in"}
      <4>2. Keys \subseteq S /\ "in" \in S
        OBVIOUS
      <4>. HIDE DEF S
      <4>3. PICK n \in 1 .. 3 : path \in [1 .. n -> Keys]
        BY DEF Paths
      <4>4. path \in Seq(S)
        BY <4>2, <4>3, SeqDef
      <4>5. path # <<>>
        BY <4>3
      <4>. QED  BY <4>1, <4>2, <4>4, <4>5 DEF S
    <3>4. ASSUME NEW type, ~IsBlank(path), Canonical(path[1])
          PROVE  applyJSONCheck(Pages[i], path, expected, type)
                   <=> /\ Pages[i] # Missing
                       /\ applyJSONCheck(Object([in |-> Pages[i]]), <<"in">> \o path, expected, type)
      <4>. DEFINE doc == Pages[i]
      <4>1. Indexed(doc)
        BY <3>3
      <4>. HIDE DEF doc
      <4>2. applyJSONCheck(doc, path, expected, type)
              <=> /\ doc # Missing
                  /\ applyJSONCheck(Object([in |-> doc]), <<"in">> \o path, expected, type)
        BY <3>3, <3>4, <4>1, PathsInAnyPage
      <4>. QED  BY <4>2 DEF doc
    <3>. QED  BY <3>2, <3>4 DEF PathsReadAlike
  <2>2. CASE ~TryPage
    <3>1. of' # "page" \/ (of' = of /\ subject' = subject)
      BY <2>2 DEF Next, vars, RaiseRaw, GrowQueue, GrowBatch, TryCheck, TryAnswer, TryValue,
                  TrySource, TryProxy, TryMemory, TryCPU, TryDisk, Try
    <3>. QED  BY <3>1 DEF PathsReadAlike
  <2>. QED  BY <2>1, <2>2
<1>. QED  BY <1>1, <1>2, PTL DEF Spec

\* What an exporter's lines say: amounts that are numbers, and parts of a whole.
MeasuresOK ==
  /\ of = "memory" => /\ subject.total \in Nat /\ subject.available \in Nat
                      /\ subject.available <= subject.total
  /\ of = "cpu" => subject.idle \in [1 .. 2 -> Amounts] /\ subject.busy \in [1 .. 2 -> Amounts]
  /\ of = "disk" => subject \in [1 .. 2 -> Filesystems]

LEMMA MeasuresStayOK == Spec => []MeasuresOK
<1>1. Init => MeasuresOK
  BY DEF Init, MeasuresOK
<1>2. MeasuresOK /\ [Next]_vars => MeasuresOK'
  <2>. SUFFICES ASSUME MeasuresOK, [Next]_vars PROVE MeasuresOK'
    OBVIOUS
  <2>1. CASE TryMemory
    <3>1. PICK total, available \in Amounts :
            /\ available <= total /\ of' = "memory"
            /\ subject' = [total |-> total, available |-> available]
      BY <2>1 DEF TryMemory, Try
    <3>. QED  BY <3>1, RulesAssumption DEF MeasuresOK
  <2>2. CASE TryCPU
    BY <2>2 DEF TryCPU, Try, MeasuresOK
  <2>3. CASE TryDisk
    BY <2>3 DEF TryDisk, Try, MeasuresOK
  <2>4. CASE ~TryMemory /\ ~TryCPU /\ ~TryDisk
    <3>1. of' \notin {"memory", "cpu", "disk"} \/ (of' = of /\ subject' = subject)
      BY <2>4 DEF Next, vars, RaiseRaw, GrowQueue, GrowBatch, TryCheck, TryAnswer, TryValue,
                  TryPage, TrySource, TryProxy, Try
    <3>. QED  BY <3>1 DEF MeasuresOK
  <2>. QED  BY <2>1, <2>2, <2>3, <2>4
<1>. QED  BY <1>1, <1>2, PTL DEF Spec

\* The use an exporter check reports is a percentage of the whole, for every
\* amount there is: rounded to the nearest hundredth, over both processors and
\* exactly the filesystems that count.
THEOREM UsagesArePercentages == Spec => []UsageIsAPercentage
<1>1. MeasuresOK => UsageIsAPercentage
  <2>. SUFFICES ASSUME MeasuresOK PROVE UsageIsAPercentage
    OBVIOUS
  <2>1. of = "memory" => IsUsage(MemoryUsage(subject), subject.available, subject.total)
    BY UsedIsUsage DEF MeasuresOK, MemoryUsage
  <2>2. ASSUME of = "cpu" PROVE \A i \in 1 .. 2 : subject.idle[i] \in Nat /\ subject.busy[i] \in Nat
    BY <2>2, RulesAssumption DEF MeasuresOK
  <2>. QED  BY <2>1, <2>2, CPULemma, DiskLemma DEF UsageIsAPercentage, MeasuresOK
<1>. QED  BY <1>1, MeasuresStayOK, PTL

\* The sources tried are environments and pairs of files.
SourcesOK ==
  of = "source" => subject.env \in Environments /\ subject.files \in [1 .. 2 -> Files]

LEMMA SourcesStayOK == Spec => []SourcesOK
<1>1. Init => SourcesOK
  BY DEF Init, SourcesOK
<1>2. SourcesOK /\ [Next]_vars => SourcesOK'
  <2>. SUFFICES ASSUME SourcesOK, [Next]_vars PROVE SourcesOK'
    OBVIOUS
  <2>1. CASE TrySource
    BY <2>1 DEF TrySource, Try, SourcesOK
  <2>2. CASE ~TrySource
    <3>1. of' # "source" \/ (of' = of /\ subject' = subject)
      BY <2>2 DEF Next, vars, RaiseRaw, GrowQueue, GrowBatch, TryCheck, TryAnswer, TryValue,
                  TryPage, TryProxy, TryMemory, TryCPU, TryDisk, Try
    <3>. QED  BY <3>1 DEF SourcesOK
  <2>. QED  BY <2>1, <2>2
<1>. QED  BY <1>1, <1>2, PTL DEF Spec

\* A setting is read from the environment, else from the first line that has it
\* of the first file there is, else it is the default; every handler uses the
\* job's proxy or, if it has none, the worker's.
THEOREM SourcesDecide == Spec => []OneSourceEach
<1>1. SourcesOK => OneSourceEach
  BY SettingLemma, ProxyLemma DEF SourcesOK, OneSourceEach
<1>. QED  BY <1>1, SourcesStayOK, PTL
=============================================================================
