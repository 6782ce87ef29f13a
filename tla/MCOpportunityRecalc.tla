------------------------- MODULE MCOpportunityRecalc -------------------------
(* The worker's recalculations and the computation each of them makes.     *)
(* The computation has no state of its own: what it promises is checked    *)
(* once, in the initial state, over all the inputs the bounds allow.       *)
EXTENDS OpportunityRecalc, OptionSnapshot

\* The closed-form margin of every combination covers its loss at expiry; live or
\* placeholder, the margin of a row that is shown covers it too or is the broker's for that
\* row.  A row's liquidity can be filled, and a row no worse than another of its batch is
\* ranked no lower.  Every combination of the widest chain within the wing bounds is tried,
\* and no other; each is priced with the quotes of its own legs.
RowsAreHonest ==
  Init => /\ MarginCoversLoss /\ ShownMarginsAreBacked /\ LiquidityIsFillable /\ RankingIsMonotone
          /\ EnumerationIsComplete /\ ChainIsWhole /\ RowsAreOfTheirLegs /\ FieldsAreSound

\* The WhatIf orders keep to their budget, use it up, and go to the best rows of a side;
\* the rows are ranked by the margins they show.
OrdersAreWellSpent == Init => BudgetIsKept /\ OrdersGoToTheBest /\ RanksFitTheMargins
=============================================================================
