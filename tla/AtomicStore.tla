---------------------------- MODULE AtomicStore ----------------------------
(***************************************************************************)
(* What the policy store promises: the state in memory and the state on    *)
(* disk are whole states; saving replaces the one on disk by the one in    *)
(* memory at once, and loading the one in memory by the one on disk.       *)
(***************************************************************************)
CONSTANTS States, Empty

VARIABLES mem, disk

Init == mem = Empty /\ disk = Empty

Edit == mem' \in States /\ UNCHANGED disk

Save == disk' = mem /\ UNCHANGED mem

Load == mem' = disk /\ UNCHANGED disk

Die == mem' = Empty /\ UNCHANGED disk

Next == Edit \/ Save \/ Load \/ Die

Spec == Init /\ [][Next]_<<mem, disk>>
=============================================================================
