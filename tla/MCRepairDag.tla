----------------------------- MODULE MCRepairDag -----------------------------
(***************************************************************************)
(* The repair DAGs of the codes that are shipped, computed (CodeRepair),   *)
(* and any DAG that a few Joins can build, pruned and sorted (ECDag).      *)
(*                                                                         *)
(* RDP for p = 11, butterfly and Clay with six blocks, Clay with a virtual *)
(* block, Hitchhiker with five data and three parity blocks.  The "any"    *)
(* code has 3 blocks of one sub-packet of which 0 and 1 may fail; 2 is     *)
(* read, 3 and 4 are computed or virtual.  Shared vertices, vertices used  *)
(* twice by the same parent, vertices nobody asked for, chains of length   *)
(* four and sub-packets made of each other all occur.  Each behaviour is   *)
(* one of the two: the variables of the other keep their initial values.   *)
(***************************************************************************)
EXTENDS ECDag

R == INSTANCE Rdp WITH ecn <- 12, eck <- 10, ecw <- 10
B == INSTANCE Butterfly WITH ecn <- 6, eck <- 4, ecw <- 8
H == INSTANCE HHXORPlus WITH ecn <- 8, eck <- 5, ecw <- 2
K == INSTANCE Clay WITH ecn <- 6, eck <- 3, ecw <- 9
S == INSTANCE Clay WITH ecn <- 5, eck <- 3, ecw <- 8

ASSUME /\ R!ErasureCodeAssumption /\ B!ErasureCodeAssumption /\ H!ErasureCodeAssumption
       /\ K!ErasureCodeAssumption /\ S!ErasureCodeAssumption
       /\ K!ClayAssumption /\ S!ClayAssumption

MCShape(c) ==
  CASE c = "rdp"       -> [n |-> 12, k |-> 10, w |-> 10]
    [] c = "butterfly" -> [n |-> 6, k |-> 4, w |-> 8]
    [] c = "hhxorplus" -> [n |-> 8, k |-> 5, w |-> 2]
    [] c = "clay"      -> [n |-> 6, k |-> 3, w |-> 9]
    [] c = "shortened" -> [n |-> 5, k |-> 3, w |-> 8]
    [] c = "any"       -> [n |-> 3, k |-> 1, w |-> 1]

MCEncode(c) ==
  CASE c = "rdp"       -> R!RdpEncode
    [] c = "butterfly" -> B!ButterflyEncode
    [] c = "hhxorplus" -> H!HHEncode
    [] c = "clay"      -> K!ClayEncode
    [] c = "shortened" -> S!ClayEncode

MCDecode(c, lost) ==
  CASE c = "rdp"       -> R!RdpDecode(lost)
    [] c = "butterfly" -> B!ButterflyDecode(lost)
    [] c = "hhxorplus" -> H!HHDecode(lost)
    [] c = "clay"      -> K!ClayDecode(lost)
    [] c = "shortened" -> S!ClayDecode(lost)

\* How many blocks may be lost at once.
MostLost(c) == CASE c = "hhxorplus" -> 2 [] c = "clay" -> 3 [] OTHER -> 1

CodeFailSets(c) ==
  {l \in SUBSET (0 .. MCShape(c).n - 1) : Cardinality(l) \in 1 .. MostLost(c)}

MCJoins ==
  {<<4, <<2>>>>, <<4, <<2, 2>>>>, <<4, <<2, 5>>>>,
   <<3, <<2>>>>, <<3, <<4>>>>, <<3, <<4, 2>>>>, <<3, <<4, 4>>>>,
   <<1, <<2>>>>, <<1, <<3, 4>>>>, <<1, <<3, 3>>>>, <<1, <<4, 2>>>>, <<1, <<0, 2>>>>,
   <<0, <<3, 4>>>>, <<0, <<4>>>>, <<0, <<1, 4>>>>, <<0, <<2, 1, 3>>>>}

VARIABLES code, blocks, lost, joins, codeDag, value, level, codeStep

computed == <<code, blocks, lost, joins, codeDag, value, level, codeStep>>

C == INSTANCE CodeRepair WITH
       Codes <- {"rdp", "butterfly", "hhxorplus", "clay", "shortened"},
       Shape <- MCShape, EncodeJoins <- MCEncode, DecodeJoins <- MCDecode, FailSets <- CodeFailSets,
       dag <- codeDag, step <- codeStep

MCInit ==
  \/ C!Init /\ Init /\ failed = {0}
  \/ /\ Init
     /\ code = "any" /\ blocks = <<>> /\ lost = {} /\ joins = <<>> /\ codeDag = EmptyDag
     /\ value = <<>> /\ level = <<>> /\ codeStep = "done"

MCNext ==
  \/ code # "any" /\ C!Next /\ UNCHANGED vars
  \/ code = "any" /\ Next /\ UNCHANGED computed

MCWork == code = "any" /\ Work /\ UNCHANGED computed

MCSpec == MCInit /\ [][MCNext]_<<vars, computed>> /\ WF_<<vars, computed>>(MCWork)

\* Hitchhiker also says, apart from its DAG, what the repair of one block reads
\* (GetRequiredSymbolsSingle); it is what the DAG reads.
ReadsWhatItAsks ==
  code = "hhxorplus" /\ codeStep \in {"compute", "done"} /\ Cardinality(lost) = 1 =>
    ToSet(codeDag.leaves) = H!RequiredSymbols(CHOOSE b \in lost : TRUE)

\* The properties of the shipped codes.
RepairsTheData == code # "any" => C!RepairsTheData
ReadsSurvivors == code # "any" => C!ReadsSurvivors /\ ReadsWhatItAsks
FitForTasks    == code # "any" => C!FitForTasks
=============================================================================
