---------------------------- MODULE JSONReading ----------------------------
(***************************************************************************)
(* How JSON is read.  From the server: the numbers and booleans of a job,  *)
(* which may come as strings (model/job.go), and those of the              *)
(* configuration (toInt).  From a checked page: the value at a path and    *)
(* its comparison with the expected text (handlers/http.go).               *)
(*                                                                         *)
(* A number counts halves, so that some are not whole.  Numbers that       *)
(* differ by less than the tolerance of the comparison are one number.     *)
(* What strconv and encoding/json know of texts are constants.             *)
(***************************************************************************)
EXTENDS Integers, Sequences

CONSTANTS
  Numeral,     \* strconv.ParseFloat: from the texts of finite numbers to numbers
  NotFinite,   \* the texts it reads as NaN or an infinity ("Inf", "1e999")
  WholeTexts,  \* the texts among the first that strconv.Atoi reads, too
  Prefix,      \* fmt.Sscanf with "%d": from the texts that begin with digits to
               \* the integers that these make (7 for "7px")
  Shown        \* strconv.FormatFloat: from numbers to texts

Whole(n) == n % 2 = 0

ASSUME JSONReadingAssumption ==
  /\ \A text \in DOMAIN Numeral : Numeral[text] \in Int
  /\ \A n \in DOMAIN Shown : /\ n \in Int
                             /\ Shown[n] \in DOMAIN Numeral /\ Numeral[Shown[n]] = n
                             /\ Whole(n) <=> Shown[n] \in WholeTexts
  /\ \A text \in WholeTexts : /\ text \in DOMAIN Numeral /\ Whole(Numeral[text])
                              /\ text \in DOMAIN Prefix /\ Prefix[text] = Numeral[text] \div 2
  /\ {0, 2} \subseteq DOMAIN Shown
  /\ NotFinite \cap DOMAIN Numeral = {}
  /\ {"true", "TRUE", "false", "yes", "on", ""} \cap (DOMAIN Numeral \cup NotFinite) = {}

\* The values of a document: scalars in `is`; an object's or array's members in
\* `at`, its text, as json.Marshal writes it, in `is`.
Null       == [kind |-> "null", is |-> "null"]
Number(n)  == [kind |-> "number", is |-> n]
Str(text)  == [kind |-> "string", is |-> text]
Bool(b)    == [kind |-> "bool", is |-> b]
Missing    == [kind |-> "missing"]

-----------------------------------------------------------------------------
(* The readers of numbers and booleans.  A string comes trimmed.              *)

Atoi(text) == IF text \in WholeTexts THEN Numeral[text] \div 2 ELSE 0

\* A field of a job (rawInt, and rawInt64 likewise): 0 when it is no whole number.
rawInt(v) == CASE v.kind = "number" -> Atoi(Shown[v.is])
               [] v.kind = "string" -> Atoi(v.is)
               [] OTHER             -> 0

\* A field of the configuration: fractions are cut off, and of a text the digits
\* it begins with count; 0 stands for one not taken, as syncConfigLocked takes
\* positive numbers only.
toInt(v) == LET n == CASE v.kind = "number" -> v.is \div 2
                       [] v.kind = "string" /\ v.is \in DOMAIN Prefix -> Prefix[v.is]
                       [] OTHER -> 0
            IN  IF n > 0 THEN n ELSE 0

\* In capitals or not: "TRUE" stands for every other way to write "true".
Yes == {"true", "TRUE", "yes", Shown[2]}

\* A boolean field of a job, one of its ssl_verify options (null means yes), and
\* one of the environment, where there are only strings and an empty one is none.
rawBool_NumbersAreFalse(v) == CASE v.kind = "bool"   -> v.is
                                [] v.kind = "string" -> v.is \in Yes \cup {"on"}
                                [] OTHER             -> FALSE
rawBool(v) == CASE v.kind = "bool"   -> v.is
                [] v.kind = "string" -> v.is \in Yes \cup {"on"}
                [] v.kind = "number" -> Shown[v.is] \in Yes
                [] OTHER             -> FALSE
truthy(v)  == CASE v.kind = "bool"   -> v.is
                [] v.kind = "string" -> v.is = "" \/ v.is \in Yes
                [] v.kind = "number" -> v.is # 0
                [] OTHER             -> TRUE
getBool(text, def) == IF text = "" THEN def ELSE text \in Yes \cup {"on"}

-----------------------------------------------------------------------------
(* The JSON check.                                                            *)

\* The root becomes a map: an array one from indices, a scalar the empty one.
jsonRootToMap_ObjectsOnly(v) ==
  IF v.kind = "object" THEN v ELSE [kind |-> "object", is |-> "{}", at |-> <<>>]
jsonRootToMap(v) ==
  CASE v.kind = "object" -> v
    [] v.kind = "array"  -> [kind |-> "object", is |-> v.is, at |->
         [key \in {Shown[2 * i] : i \in 0 .. Len(v.at) - 1} |->
            v.at[Numeral[key] \div 2 + 1]]]
    [] OTHER -> [kind |-> "object", is |-> "{}", at |-> <<>>]

Child(node, key) ==
  CASE node.kind = "object" /\ key \in DOMAIN node.at -> node.at[key]
    [] node.kind = "array" /\ key \in WholeTexts /\ Atoi(key) \in 0 .. Len(node.at) - 1 ->
         node.at[Atoi(key) + 1]
    [] OTHER -> Missing

getByDot(root, path) ==
  LET walk[i \in 0 .. Len(path)] ==
        IF i = 0 THEN root ELSE Child(walk[i - 1], path[i])
  IN  walk[Len(path)]

toString(v) == CASE v.kind = "number" -> Shown[v.is]
                 [] v.kind = "bool"   -> IF v.is THEN "true" ELSE "false"
                 [] OTHER             -> v.is

ParseFloat(text) == IF text \in DOMAIN Numeral THEN Numeral[text] ELSE 0
IsTrue(text)     == text \in {"true", "TRUE", Shown[2]}

\* No difference with a NaN or an infinity is within the tolerance, not even its
\* difference with itself.
SameNumber(a, b) == {a, b} \cap NotFinite = {} /\ ParseFloat(a) = ParseFloat(b)

compareJSON_OneIsNotTrue(actual, expected, type) ==
  CASE type = "bool"   -> LET holds == CASE actual.kind = "bool"   -> actual.is
                                         [] actual.kind = "string" -> actual.is \in {"true", "TRUE"}
                                         [] actual.kind = "number" -> actual.is # 0
                                         [] OTHER                  -> FALSE
                          IN  holds = IsTrue(expected)
    [] type = "number" -> SameNumber(toString(actual), expected)
    [] OTHER           -> toString(actual) = expected
compareJSON(actual, expected, type) ==
  CASE type = "bool"   -> LET holds == CASE actual.kind = "bool"   -> actual.is
                                         [] actual.kind = "string" -> IsTrue(actual.is)
                                         [] actual.kind = "number" -> actual.is # 0
                                         [] OTHER                  -> FALSE
                          IN  holds = IsTrue(expected)
    [] type = "number" -> SameNumber(toString(actual), expected)
    [] OTHER           -> toString(actual) = expected

\* Does the check hold of a body?  A body that is not JSON is Missing.  A path
\* has one key at least, the text between two dots; the key may be empty.
Blank         == " "   \* stands for every text of spaces only
IsBlank(path) == path \in {<<"">>, <<Blank>>}

applyJSONCheck(body, path, expected, type) ==
  /\ ~IsBlank(path) /\ body # Missing
  /\ LET actual == getByDot(jsonRootToMap(body), path)
     IN  actual # Missing /\ compareJSON(actual, expected, type)
=============================================================================
