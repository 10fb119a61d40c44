--------------------------- MODULE MCPendingQueue ---------------------------
(***************************************************************************)
(* Instances of PendingQueue for TLC: one consumer, the main loop, and two *)
(* interrupt handlers of different priority.                               *)
(***************************************************************************)
EXTENDS PendingQueue, TLC

CONSTANTS main, low, high, r1, r2

Levels ==
    [a \in Actor |-> CASE a = main -> 0 [] a = low -> 1 [] a = high -> 2]

(* As the examples use it: handlers queue, the main loop processes.        *)
Handlers ==
    main :> {"process", "clear"} @@ low :> {"request", "section"}
    @@ high :> {"request", "count"}
=============================================================================
