---------------------------- MODULE BinarySwap ----------------------------
(***************************************************************************)
(* What a self-update promises of the one name systemd starts a program    *)
(* from.  The name is not overwritten in one step: it is emptied first, and *)
(* filled again with the program of the process or with the one that was   *)
(* ordered, by nobody else and never over a program that stands there.  A  *)
(* process that has filled it with another program does nothing more but   *)
(* end, and while the name is empty nothing can be started.                *)
(***************************************************************************)
CONSTANTS Releases, Initial, Nothing

VARIABLES
  installed,   \* the program under the unit's name, Nothing while it is empty
  process,     \* the program of the present process, Nothing between two
  ordered      \* the version being installed, or Nothing

swapVars == <<installed, process, ordered>>

SwapInit == installed = Initial /\ process = Initial /\ ordered = Nothing

Order(v) ==
  /\ process # Nothing /\ installed \in {process, Nothing}
  /\ ordered' = v /\ UNCHANGED <<installed, process>>

Empty ==
  /\ ordered # Nothing /\ installed = process
  /\ installed' = Nothing /\ UNCHANGED <<process, ordered>>

Install ==
  /\ ordered # Nothing /\ installed = Nothing
  /\ installed' = ordered /\ UNCHANGED <<process, ordered>>

PutBack ==
  /\ ordered # Nothing /\ installed = Nothing
  /\ installed' = process /\ UNCHANGED <<process, ordered>>

Stop ==
  /\ process # Nothing
  /\ process' = Nothing /\ ordered' = Nothing /\ UNCHANGED installed

Start ==
  /\ process = Nothing /\ installed # Nothing
  /\ process' = installed /\ UNCHANGED <<installed, ordered>>

SwapNext == (\E v \in Releases \cup {Nothing} : Order(v))
            \/ Empty \/ Install \/ PutBack \/ Stop \/ Start

SwapSpec == SwapInit /\ [][SwapNext]_swapVars
=============================================================================
