------------------------------ MODULE MCRules ------------------------------
(***************************************************************************)
(* The rules that keep no state, with the program's own constants: the     *)
(* clamps of Schedule on every period and timeout a little beyond the      *)
(* limits; the queue operations of SendQueue against renderings of the     *)
(* loops in worker_queue.go; and, one subject at a time, the verdicts of   *)
(* Outcomes, the readers of JSONReading, the sums of Metrics and the       *)
(* sources of Settings.                                                    *)
(***************************************************************************)
EXTENDS Schedule, SendQueue, Outcomes, Settings, Metrics

CONSTANTS
  BelowZero, Highest,   \* the periods and timeouts tried: -BelowZero .. Highest
  Ids, MaxLen,          \* the ids tried, dead ones included, and the lengths
  Codes,                \* the HTTP status codes
  Amounts,              \* the values of an exporter's lines
  None                  \* no subject

ASSUME RulesAssumption ==
  /\ BelowZero \in Int /\ MaxLen \in Nat /\ Codes \subseteq Int /\ Amounts \subseteq Nat
  /\ {"0", "7"} \subseteq WholeTexts /\ Numeral["0"] = 0 /\ Numeral["7"] = 14
  /\ {"up", "unset"} \cap DOMAIN Numeral = {}

VARIABLES
  raw,              \* what the server sent as repeat_seconds or as timeout
  q, batch, live,   \* a queue, a batch that failed, the jobs the server lists
  of, subject       \* what is tried of the other modules: its sort, and itself

vars == <<raw, q, batch, live, of, subject>>

-----------------------------------------------------------------------------
(* The subjects.                                                              *)

Calls == {"ok", "timeout", "error"}

\* What a check of each type can meet.
Meetings(type) ==
  CASE type \in {JobTypeHTTPS, JobTypeHTTPJSON} ->
         [answered : BOOLEAN, code : Codes, json_check : BOOLEAN]
    [] type \in ExporterTypes -> [answered : BOOLEAN, code : Codes]
    [] type = JobTypeDocker   ->
         [answered : BOOLEAN, code : Codes, list : BOOLEAN, named : 0 .. 2]
    [] type = JobTypePing     -> [exit : Calls]
    [] type = JobTypeTCP      -> [dial : Calls]
    [] type = JobTypeUDP      -> [dial : Calls, write : Calls, read : Calls]
Types == {JobTypeHTTPS, JobTypeHTTPJSON, JobTypeDocker, JobTypePing, JobTypeTCP,
          JobTypeUDP} \cup ExporterTypes

Answers == [failed : BOOLEAN, code : Codes, body : {"empty", "text", "object"},
            status : -1 .. 2, error : BOOLEAN]

Words == {"", "true", "TRUE", "false", "yes", "no", "on", "up"}
Texts == Words \cup DOMAIN Numeral \cup NotFinite \cup DOMAIN Prefix

List(at) == [kind |-> "array", is |-> "[ ]", at |-> at]
Object(at) == [kind |-> "object", is |-> "{ }", at |-> at]

Pages == << Missing, Null, Number(2), Str("up"), List(<<>>),
            List(<<Number(2), List(<<Bool(TRUE), Null>>)>>),
            Object([up |-> List(<<Str("yes"), Number(14)>>), no |-> Object([on |-> Number(0)])]),
            Object([key \in {"", "up"} |-> Number(2)]) >>
Keys  == {"up", "no", "on", "", "0", "1", "01", "7"}
Paths == UNION {[1 .. n -> Keys] : n \in 1 .. 3}

Lines == [name : {"a", "b"}, text : {"", "7", "up"}]
Files == [exists : BOOLEAN, lines : UNION {[1 .. n -> Lines] : n \in 0 .. 2}]
Environments == UNION {[names -> {"", "0"}] : names \in SUBSET {"a", "b"}}

Proxies == [host : {"", Blank, "p", "other", "bad"}, type : {"", "0", "7", "up"}]

Filesystems == {f \in [size : Amounts, left : Amounts, passed_over : BOOLEAN,
                       excluded_type : BOOLEAN, excluded_mount : BOOLEAN] : f.left <= f.size}

-----------------------------------------------------------------------------
Init == /\ raw = -BelowZero /\ q = <<>> /\ batch = <<>> /\ live \in SUBSET Ids
        /\ of = "none" /\ subject = None

Untouched == raw = -BelowZero /\ q = <<>> /\ batch = <<>> /\ live = {} /\ of = "none"

RaiseRaw  == /\ raw < Highest /\ q = <<>> /\ batch = <<>> /\ live = {} /\ of = "none"
             /\ raw' = raw + 1 /\ UNCHANGED <<q, batch, live, of, subject>>
GrowQueue == /\ raw = -BelowZero /\ Len(q) < MaxLen /\ of = "none"
             /\ \E id \in Ids : q' = Append(q, id)
             /\ UNCHANGED <<raw, batch, live, of, subject>>
GrowBatch == /\ raw = -BelowZero /\ Len(batch) < MaxLen /\ of = "none"
             /\ \E id \in Ids : batch' = Append(batch, id)
             /\ UNCHANGED <<raw, q, live, of, subject>>

Try(sort, s) == of' = sort /\ subject' = s /\ UNCHANGED <<raw, q, batch, live>>

TryCheck  == /\ Untouched
             /\ \E type \in Types : \E met \in Meetings(type) :
                  Try("check", [type |-> type, met |-> met])
TryAnswer == Untouched /\ \E answer \in Answers : Try("answer", answer)
TryValue  == /\ Untouched
             /\ \E type \in {"bool", "number", "string"}, expected \in Texts :
                  LET TryOne(v) == Try("value", [v |-> v, expected |-> expected, type |-> type])
                  IN  \/ \E n \in DOMAIN Shown : TryOne(Number(n))
                      \/ \E text \in Texts : TryOne(Str(text))
                      \/ \E b \in BOOLEAN : TryOne(Bool(b))
TryPage   == /\ Untouched
             /\ \E i \in DOMAIN Pages, path \in Paths, expected \in {"up", "1", "true", "null"} :
                  Try("page", [doc |-> Pages[i], path |-> path, expected |-> expected])
TrySource == /\ Untouched
             /\ \E env \in Environments, files \in [1 .. 2 -> Files] :
                  Try("source", [env |-> env, files |-> files])
TryProxy  == /\ Untouched
             /\ \E job, worker \in Proxies : Try("proxy", [job |-> job, worker |-> worker])
TryMemory == /\ Untouched
             /\ \E total, available \in Amounts :
                  available <= total /\ Try("memory", [total |-> total, available |-> available])
TryCPU    == /\ Untouched
             /\ \E idle, busy \in [1 .. 2 -> Amounts] : Try("cpu", [idle |-> idle, busy |-> busy])
TryDisk   == /\ Untouched
             /\ \E filesystems \in [1 .. 2 -> Filesystems] : Try("disk", filesystems)

Next == \/ RaiseRaw \/ GrowQueue \/ GrowBatch
        \/ TryCheck \/ TryAnswer \/ TryValue \/ TryPage
        \/ TrySource \/ TryProxy
        \/ TryMemory \/ TryCPU \/ TryDisk
Spec == Init /\ [][Next]_vars

-----------------------------------------------------------------------------
(* Schedule.                                                                  *)

\* The order of the checks (jobNextDueUnix) and the test that lets one start
\* (tickMap) agree on when a check is due, before and after tickMap has stored
\* the clamped period: otherwise "most overdue first" would order by one period
\* and start by another.
OrderAgreesWithStart ==
  /\ \A update \in {-1, 0, 7} :
       LET at == NextDue(update, raw)
       IN  IsDue(update, raw, at) /\ ~IsDue(update, raw, at - 1)
  /\ NextDue(0, ClampRepeat(raw)) = NextDue(0, raw)

-----------------------------------------------------------------------------
(* SendQueue.  One pass over `in`, appending to `out` what is live and not in  *)
(* `seen`; the batch's ids are added to `seen`, those of the queue are not.   *)

Pass(in, out, seen, remember) ==
  LET upTo[n \in 0 .. Len(in)] ==
        IF n = 0 THEN <<out, seen>>
        ELSE LET so == upTo[n - 1]
             IN  IF in[n] \notin live \/ in[n] \in so[2] THEN so
                 ELSE <<Append(so[1], in[n]),
                        IF remember THEN so[2] \cup {in[n]} ELSE so[2]>>
  IN  upTo[Len(in)]

PrependLoop ==
  LET first == Pass(batch, <<>>, {}, TRUE)
  IN  IF batch = <<>> THEN q ELSE Pass(q, first[1], first[2], FALSE)[1]

\* Putting a failed batch back gives what the two loops of
\* prependSendQueueFront build.
PrependIsTheLoop == Prepend(q, batch, live) = PrependLoop

\* A batch and what it leaves are the queue, whatever the size asked for.
TakeSplitsTheQueue ==
  \A max \in 0 .. MaxLen + 1 :
     /\ TakeFront(q, max) \o TakeRest(q, max) = q
     /\ max > 0 => Len(TakeFront(q, max)) <= max

-----------------------------------------------------------------------------
(* Outcomes.                                                                  *)

\* What a check of a type asks of the network, said without the response map.
Healthy(type, met) ==
  CASE type = JobTypeHTTPS    -> met.answered /\ met.code \in 200 .. 399
    [] type = JobTypeHTTPJSON -> met.answered /\ met.code \in 200 .. 399 /\ met.json_check
    [] type \in ExporterTypes -> met.answered /\ met.code \in 200 .. 299
    [] type = JobTypeDocker   -> /\ met.answered /\ met.code \in 200 .. 299
                                 /\ met.list /\ met.named > 0
    [] type = JobTypePing     -> met.exit = "ok"
    [] type = JobTypeTCP      -> met.dial = "ok"
    [] type = JobTypeUDP      -> /\ met.dial = "ok"
                                 /\ met.write = "timeout" \/ (met.write = "ok" /\ met.read # "error")

\* A finished check passes exactly if the network gave what its type asks for.
\* The handlers start from a map that says success, and take it back in one of
\* three keys; the judge in another package must know them all.
VerdictIsTheOutcome ==
  of = "check" =>
    LET resp == Handle(subject.type, subject.met)
    IN  ~responseIndicatesFailure(resp, subject.type) <=> Healthy(subject.type, subject.met)

\* The two judges of a docker host agree: the schedule takes a poll for a success
\* exactly if the log counts it among those that the server takes.
DockerVerdictsAgree ==
  of = "check" /\ subject.type = JobTypeDocker =>
    \A resp \in {Handle(JobTypeDocker, subject.met), TimeoutResponse} :
       DockerResponseAcceptedByServer(resp) <=> ~responseIndicatesFailure(resp, JobTypeDocker)

\* An answer in the API's convention is taken by the senders exactly if it says
\* success; no other code or broken transfer is; and a get never goes on with an
\* answer which the senders would take for a refusal.
RefusalIsHeard ==
  of = "answer" =>
    /\ ~subject.failed /\ subject.code = 200 /\ subject.body = "object" =>
         (monitoringAPIOK(subject) <=> subject.status = 0)
    /\ subject.failed \/ subject.code # 200 => ~monitoringAPIOK(subject)
    /\ GetAccepts(subject) => monitoringAPIOK(subject)

-----------------------------------------------------------------------------
(* JSONReading.                                                               *)

\* The JSON check sees the text it shows in its message: a value means the same
\* with quotes and without, and the text shown for it, given as the expected one,
\* passes.  There are two exceptions: numbers other than 0 and 1 under "bool", and
\* the strings that strconv reads as NaN or an infinity, which under "number" do
\* not pass even against themselves.
ValuesReadAsShown ==
  of = "value" =>
    LET v == subject.v  type == subject.type
    IN  (v.kind = "number" /\ type = "bool" => v.is \in {0, 2})
        => /\ compareJSON(v, subject.expected, type)
                <=> compareJSON(Str(toString(v)), subject.expected, type)
           /\ (type = "number" => toString(v) \notin NotFinite)
              => compareJSON(v, toString(v), type)

\* The text strconv.Itoa makes of its number, or no whole number: not "01".
Canonical(key) == key \in WholeTexts => \E n \in DOMAIN Shown : key = Shown[n]

\* A path finds at the root of a page what it finds one level down: the array
\* made into a map (jsonRootToMap) and the array inside (getByDot) count alike,
\* but for an index that is not written as strconv.Itoa writes it, and for a blank
\* path, which finds nothing at the root, though a page may have an empty key.
PathsReadAlike ==
  of = "page" /\ ~IsBlank(subject.path) /\ Canonical(subject.path[1]) =>
    \A type \in {"bool", "number", "string"} :
       applyJSONCheck(subject.doc, subject.path, subject.expected, type)
         <=> /\ subject.doc # Missing
             /\ applyJSONCheck(Object([in |-> subject.doc]), <<"in">> \o subject.path,
                               subject.expected, type)

SpellsBool(v) ==
  CASE v.kind = "bool"   -> TRUE
    [] v.kind = "number" -> v.is \in {0, 2}
    [] v.kind = "string" -> v.is \in {"true", "TRUE", "false", "yes", "no", "0", "1"}

\* The readers agree on what every server may send, as itself or quoted: whole
\* numbers that are not negative, and yes and no in the usual spellings.
ReadersAgree ==
  of = "value" =>
    LET v == subject.v
    IN  /\ \A n \in DOMAIN Shown :
             n >= 0 /\ Whole(n) /\ v \in {Number(n)} \cup {Str(Shown[n])} =>
               rawInt(v) = n \div 2 /\ toInt(v) = n \div 2
        /\ SpellsBool(v) => /\ rawBool(v) <=> truthy(v)
                            /\ \A def \in BOOLEAN :
                                 rawBool(v) <=> getBool(toString(v), def)

-----------------------------------------------------------------------------
(* Metrics.                                                                   *)

IsUsage(usage, left, total) ==
  IF total = 0 THEN usage = 0
  ELSE /\ usage \in 0 .. 10000
       /\ 2 * (usage * total - 10000 * (total - left)) \in -total .. total

CPULines == {[at |-> <<i, "idle">>, cpu |-> TRUE, idle |-> TRUE, value |-> subject.idle[i]]
               : i \in 1 .. 2} \cup
            {[at |-> <<i, "user">>, cpu |-> TRUE, idle |-> FALSE, value |-> subject.busy[i]]
               : i \in 1 .. 2}
DiskLines == {[at |-> i, metric |-> metric,
               value |-> IF metric = "size" THEN subject[i].size ELSE subject[i].left,
               passed_over |-> subject[i].passed_over,
               excluded_type |-> subject[i].excluded_type,
               excluded_mount |-> subject[i].excluded_mount]
                : i \in 1 .. 2, metric \in {"size", "avail"}}

\* The number an exporter check reports is a percentage, and that of the whole:
\* of both processors, of exactly the filesystems that count.
UsageIsAPercentage ==
  /\ of = "memory" => IsUsage(MemoryUsage(subject), subject.available, subject.total)
  /\ of = "cpu" => LET idle == subject.idle[1] + subject.idle[2]
                   IN  IsUsage(CPUUsage(CPULines), idle,
                               idle + subject.busy[1] + subject.busy[2])
  /\ of = "disk" =>
       LET Counts(f) == IF f.passed_over \/ f.excluded_type \/ f.excluded_mount THEN 0 ELSE 1
           one == subject[1]  two == subject[2]
       IN  IsUsage(DiskUsage(DiskLines), Counts(one) * one.left + Counts(two) * two.left,
                   Counts(one) * one.size + Counts(two) * two.size)

-----------------------------------------------------------------------------
(* Settings.                                                                  *)

\* The first source that has a setting decides: the environment, the first line
\* of the first file there is, the default.  A job's proxy is the job's own or
\* the worker's, name and type from the same one, and the same for every handler
\* (if the job's is not a name of spaces only, which only RunDocker passes by).
OneSourceEach ==
  /\ of = "source" =>
       LET env  == loadDotEnvIfExists(subject.env, subject.files)
           file == IF subject.files[1].exists THEN subject.files[1] ELSE subject.files[2]
           At(name) == {i \in DOMAIN file.lines : file.exists /\ file.lines[i].name = name}
           First(name) == file.lines[CHOOSE i \in At(name) : \A j \in At(name) : i <= j].text
           Text(name) == IF name \in DOMAIN subject.env THEN subject.env[name]
                         ELSE IF At(name) # {} THEN First(name) ELSE "unset"
       IN  \A name \in {"a", "b"} :
             /\ getString(env, name, "unset") = Text(name)
             /\ getInt(env, name, 5) = CASE Text(name) = "0" -> 0
                                         [] Text(name) = "7" -> 7
                                         [] OTHER            -> 5
  /\ of = "proxy" /\ subject.job.host # Blank =>
       \A handler \in {"http", "exporter", "docker"} :
         ProxyOf(handler, subject.job, subject.worker) =
           configureTransportProxy(IF subject.job.host = "" THEN subject.worker ELSE subject.job)

-----------------------------------------------------------------------------
(* What strconv knows, on a few texts.                                        *)
MCNumeral    == [text \in {"0", "1", "01", "1.0", "1.5", "7"} |->
                   CASE text = "0"   -> 0  [] text = "7"   -> 14
                     [] text = "1.5" -> 3  [] OTHER        -> 2]
MCNotFinite  == {"NaN", "1e999"}
MCWholeTexts == {"0", "1", "01", "7"}
MCPrefix     == [text \in DOMAIN MCNumeral \cup {"7px", "1e999"} |->
                   CASE text = "0"           -> 0
                     [] text \in {"7", "7px"} -> 7
                     [] OTHER                -> 1]
MCShown      == [n \in {0, 2, 3, 14} |->
                   CASE n = 0 -> "0" [] n = 2 -> "1" [] n = 3 -> "1.5" [] n = 14 -> "7"]
=============================================================================
