---------------------------- MODULE BlockRepair -----------------------------
(***************************************************************************)
(* What the repair of a stripe promises: the file of the repaired block is *)
(* written from its beginning to its end, sub-packet after sub-packet, and *)
(* each sub-packet is the one the lost block had there.                    *)
(***************************************************************************)
EXTENDS Integers, Sequences

CONSTANTS Size,        \* sub-packets of a block
          Lost(_)      \* the i-th sub-packet of the lost block, from 0

VARIABLES file         \* what the file holds

Init == file = <<>>

Write ==
  /\ Len(file) < Size
  /\ file' = Append(file, Lost(Len(file)))

Spec == Init /\ [][Write]_file
=============================================================================
