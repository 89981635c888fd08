----------------------------- MODULE MCFilterChain -----------------------------
EXTENDS FilterChain

(* Ratios that divide the kernel and that do not, the ratio 1, a filter    *)
(* whose batch is taken one by one and one whose batch is not, and ratios  *)
(* of the audio for which the outputs come close to the inputs in place.   *)
MCOptions ==
    {[ratio |-> 1, kernel |-> 2, audio |-> 4],
     [ratio |-> 2, kernel |-> 1, audio |-> 3],
     [ratio |-> 3, kernel |-> 2, audio |-> 2]}

MCBatchSizes == {0, 1, 2, 5, 11}

MCSmallBatches == {1, 2}
===============================================================================
