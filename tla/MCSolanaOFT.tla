----------------------------- MODULE MCSolanaOFT -----------------------------
(* A Native OFT whose flows are limited, as deployed with local decimals    *)
(* equal to the shared ones; and an Adapter OFT whose mint has a transfer   *)
(* fee, with two local units in a shared one, so that there is dust.  Basis *)
(* points are quarters.                                                     *)
EXTENDS SolanaOFT, TLC

CONSTANTS admin, guard

MCAdmin == {admin}
MCBoth == {admin, guard}

Singly(field, values) == {(field :> value) : value \in values}

MCPauseOnly == Singly("paused", BOOLEAN)
\* The guard may take over everything at once, and give it back.
MCHandovers ==
    Singly("paused", BOOLEAN) \union Singly("defaultFeeBps", {0, 2, OneInBps})
       \union {("admin" :> guard) @@ ("pauser" :> guard) @@
                  ("unpauser" :> admin) @@ ("defaultFeeBps" :> 2),
               ("pauser" :> None) @@ ("unpauser" :> None) @@
                  ("paused" :> FALSE) @@ ("admin" :> admin)}

MCNoFees == {[bps |-> 0, maximum |-> 0]}
MCTransferFees == {[bps |-> 0, maximum |-> 0], [bps |-> 1, maximum |-> 1],
                   [bps |-> 2, maximum |-> 5], [bps |-> 4, maximum |-> 1]}
MCNoOFTFee == {}
MCOFTFees == {0, 2}
MCLimits == {[capacity |-> 1, rate |-> 1], [capacity |-> 2, rate |-> 0],
              [capacity |-> None, rate |-> 2]}
MCNoLimits == {}
MCFewAmounts == {0, 1, 2}
MCManyAmounts == {0, 1, 3, 4, 5, 6}
MCOrders == {1, 3, 6}
=============================================================================
