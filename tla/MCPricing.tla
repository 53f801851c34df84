------------------------------ MODULE MCPricing ------------------------------
(* Metering, and the tables of Pricing under it, with a flat model, a tiered *)
(* one and one that is not shipped.                                          *)
EXTENDS Metering

MCModel == {"flat", "tiered", "new"}
MCRateKey == {"input", "output", "cache_read", "cache_write"}
MCRate == {-1, 3}
MCGiven == {{"input"}, {"input", "output"}, MCRateKey}
MCCount == {0, 2}
MCToolRate == [t \in {"search"} |-> 2]

Threads == Permutations(Thread)

Four(n) == [key \in MCRateKey |-> n]

MCShipped ==
    [m \in {"flat", "tiered"} |->
        IF m = "flat"
        THEN [flat |-> [input |-> 2, output |-> 5, cache_read |-> 1, cache_write |-> 4],
              tiers |-> <<>>]
        ELSE [flat |-> <<>>,
              tiers |-> <<[open |-> FALSE, upto |-> 1, rate |-> Four(1)],
                          [open |-> TRUE, upto |-> 0, rate |-> Four(2)]>>]]
=============================================================================
