---------------------------- MODULE MCBusReaders ----------------------------
(***************************************************************************)
(* The bus, and beside it one of its readers: the memory listener, whose   *)
(* channel is the one the bus gives it.  The initial states choose which   *)
(* of the two is under way; the other stays as it begins, where none of    *)
(* the steps that fairness is about is enabled.                            *)
(***************************************************************************)
EXTENDS MCEventBus, MemoryListener

VARIABLE part

ReadersInit == part \in {"bus", "memory"} /\ Init /\ MemoryInit

ReadersNext ==
    \/ part = "bus" /\ Next /\ UNCHANGED <<part, memoryVars>>
    \/ part = "memory" /\ MemoryNext /\ UNCHANGED <<part, vars>>

ReadersSpec ==
    /\ ReadersInit /\ [][ReadersNext]_<<part, vars, memoryVars>>
    /\ Fairness /\ MemoryFairness

-----------------------------------------------------------------------------
\* Constraints on the bus

BusSubscribesFirst == part = "bus" => SubscribeFirst
BusUncancelled == part = "bus" => Uncancelled
BusLastStays == part = "bus" => LastStays

=============================================================================
