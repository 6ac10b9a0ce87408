--------------------------- MODULE MC_Storefront ---------------------------
(* Two municipalities, two tiers, one to two leads left of either. *)
EXTENDS Storefront

CONSTANTS island, town, fresh, aged

MCPlaces == {island, town}
MCPrices == {fresh, aged}
MCInventories ==
  {[p \in MCPrices |-> 2], [p \in MCPrices |-> IF p = aged THEN 1 ELSE 0], [p \in MCPrices |-> 0]}
MCQuantities == 0..2
=============================================================================
