------------------------------ MODULE MCWorker ------------------------------
(* Small instances of Worker for TLC.  One unit of the clock is half of the   *)
(* shortest repeat period: half a minute.                                     *)
EXTENDS Worker

MCNoUnsupported == {}
MCJob1Unsupported == {1}
MCAllLists == SUBSET Keys
MCOneDropped == {Keys, Keys \ {2}}
MCAlwaysAll == {Keys}
MCRepeat == [k \in Keys |-> CASE k = 1 -> 0 [] k = 2 -> MaxRepeat + 1 [] OTHER -> MinRepeat]
MCTimeout == [k \in Keys |-> CASE k = 1 -> 0 [] OTHER -> MaxTimeout + 1]
MCNoneRecent == {{}}
MCAnyRecent == SUBSET Keys
MCJob1Recent == {{}, {1}}
MCNever == {FALSE}
=============================================================================
