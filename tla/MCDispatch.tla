----------------------------- MODULE MCDispatch ------------------------------
(***************************************************************************)
(* Two jobs on three nodes.  The batch job repairs two stripes and then    *)
(* one; n2 works on both stripes of the first batch and is idle in the     *)
(* second, and packets go round in a circle.  The single-block job repairs *)
(* stripe 0 of batch 0 twice, with compute tasks of the same dagidx.       *)
(***************************************************************************)
EXTENDS Dispatch, TLC

CONSTANTS n1, n2, n3

On(s, tasks) == [stripe |-> s, tasks |-> tasks]

BatchJob ==
  [single |-> FALSE,
   rounds |->
     << [tasks |-> (n1 :> <<On(1, <<<<>>, <<7, 8>>>>)>>)
                @@ (n2 :> <<On(1, <<<<>>>>), On(2, <<<<7>>>>)>>)
                @@ (n3 :> <<On(2, <<<<>>, <<>>>>)>>),
         feeds |-> {<<n2, n1>>, <<n3, n2>>, <<n1, n3>>}],
        [tasks |-> (n1 :> <<On(1, <<<<7>>>>)>>) @@ (n3 :> <<On(1, <<<<>>>>)>>),
         feeds |-> {<<n3, n1>>}] >>]

SingleJob ==
  [single |-> TRUE,
   rounds |->
     << [tasks |-> (n1 :> <<On(0, <<<<7, 8>>, <<>>>>)>>) @@ (n2 :> <<On(0, <<<<>>>>)>>),
         feeds |-> {<<n2, n1>>}],
        [tasks |-> (n1 :> <<On(0, <<<<>>, <<8>>>>)>>) @@ (n2 :> <<On(0, <<<<7>>>>)>>)
                @@ (n3 :> <<On(0, <<<<>>>>)>>),
         feeds |-> {<<n2, n1>>, <<n3, n1>>}] >>]

MCJobs == {BatchJob, SingleJob}
=============================================================================
