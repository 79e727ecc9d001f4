------------------------------ MODULE Metrics ------------------------------
(***************************************************************************)
(* What RunExporter reports of a node exporter's page (exporter.go): the   *)
(* use of memory, processor or disk, from the lines of the page.  Usage is *)
(* an integer number of hundredths of a percent; the program's rounding of *)
(* floating-point numbers other than the last one is left out.             *)
(***************************************************************************)
EXTENDS Integers, FiniteSets, FiniteSetsExt

\* formatFloatRound2 of the part of `total` that is not `left`: adds one half and
\* cuts off, towards zero.
Used(left, total) ==
  LET twice == 20000 * (total - left) + total
  IN  IF total = 0 THEN 0
      ELSE IF twice >= 0 THEN twice \div (2 * total) ELSE -((-twice) \div (2 * total))

\* The sum of the values of the lines P holds of.  A line has a name (`at`), and
\* no two lines have the same.
SumOf(P(_), lines) ==
  LET Value(line) == line.value IN MapThenSumSet(Value, {line \in lines : P(line)})

\* A metric that the page does not have, or has no number for, is 0.
MemoryUsage(page) == Used(page.available, page.total)

\* Lines of node_cpu_seconds_total and others, with or without mode="idle"; what
\* is idle is added up whether or not the line is of node_cpu_seconds_total.
CPUUsage(lines) ==
  LET IsCPU(line)  == line.cpu
      IsIdle(line) == line.idle
  IN  Used(SumOf(IsIdle, lines), SumOf(IsCPU, lines))

\* Lines of sizes and of available space.  A filesystem is not counted for its
\* type (the kernel's own), for where it is mounted, or because its lines are
\* passed over: a name with a space in it is cut there by strings.Fields, and one
\* without the four labels is not of the form of diskLineRe.
Counted_SizesOnly(line) ==
  line.metric = "size" => ~line.passed_over /\ ~line.excluded_type /\ ~line.excluded_mount
Counted(line) == ~line.passed_over /\ ~line.excluded_type /\ ~line.excluded_mount
DiskUsage(lines) ==
  LET IsSize(line)  == Counted(line) /\ line.metric = "size"
      IsAvail(line) == Counted(line) /\ line.metric = "avail"
  IN  Used(SumOf(IsAvail, lines), SumOf(IsSize, lines))
=============================================================================
