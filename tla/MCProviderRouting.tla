------------------------- MODULE MCProviderRouting -------------------------
(* Small instances of ProviderRouting for TLC.                             *)
EXTENDS ProviderRouting, TLC

CONSTANTS p1, p2, r1, r2

\* Two roles whose chains name the same two providers in opposite orders.
CrossedChains == r1 :> <<p1, p2>> @@ r2 :> <<p2, p1>>

\* One role falls back on the only provider of the other.
FallbackChains == r1 :> <<p1, p2>> @@ r2 :> <<p2>>

\* Two roles on one provider.
SharedChains == r1 :> <<p1>> @@ r2 :> <<p1>>
=============================================================================
