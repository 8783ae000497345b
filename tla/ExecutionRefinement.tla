------------------------- MODULE ExecutionRefinement -------------------------
(***************************************************************************)
(* ExecutionRoutes implements OneShotEffect: the two durable authorities,  *)
(* the claimed receipt and the admission barrier, are one authority.       *)
(***************************************************************************)
EXTENDS ExecutionRoutes

AuthorityHolder(d) ==
    IF guard[d].plan # NoPlan THEN guard[d].plan ELSE barrier[d].plan

EffectsOf(d) == {r \in sent : dec[r] = d}

OneShot == INSTANCE OneShotEffect WITH
    None   <- NoPlan,
    holder <- [d \in Decisions |-> AuthorityHolder(d)],
    acted  <- [d \in Decisions |-> EffectsOf(d)]

\* Every step of the two routes, of the owner and of the clock is a step of
\* the one-shot effect or leaves it unchanged.
ImplementsOneShotEffect == OneShot!Spec
=============================================================================
