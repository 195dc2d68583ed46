---------------------------- MODULE MCProviderLedger ----------------------------
(***************************************************************************)
(* Instances of ProviderLedger for TLC: the runs explored side by side.    *)
(***************************************************************************)
EXTENDS ProviderLedger, TLC

CONSTANTS cover, page

AssetSymmetry == Permutations(Assets)

\* One operation, three deliveries, transport retries and a failed transaction.
Takeovers ==
    [assets |-> {cover}, maxDispatches |-> 3, perOperation |-> 3,
     transportRetries |-> 1, limiterRetries |-> 0, claims |-> 3, dbFaults |-> 1]

\* Concurrent calls share a budget that does not cover both with their retries.
Concurrent ==
    [assets |-> {cover, page}, maxDispatches |-> 2, perOperation |-> 2,
     transportRetries |-> 1, limiterRetries |-> 0, claims |-> 2, dbFaults |-> 0]

\* Two takeovers after an earlier run.
Resumed ==
    [assets |-> {cover, page}, maxDispatches |-> 3, perOperation |-> 2,
     transportRetries |-> 0, limiterRetries |-> 0, claims |-> 2, dbFaults |-> 0]

\* The limiter sends again after a 429, within the attempts of one operation.
Limited ==
    [assets |-> {cover}, maxDispatches |-> 2, perOperation |-> 2,
     transportRetries |-> 1, limiterRetries |-> 1, claims |-> 2, dbFaults |-> 0]

\* The same scenarios with the other asset, so that assets are interchangeable.
AllSetups ==
    {Concurrent, Resumed}
        \cup {[s EXCEPT !.assets = {a}] : s \in {Takeovers, Limited}, a \in Assets}

=============================================================================
