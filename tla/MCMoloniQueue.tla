----------------------------- MODULE MCMoloniQueue -----------------------------
EXTENDS MoloniQueue, TLC

CONSTANTS o1, o2, c, p, r1, r2

\* Two orders of one client and with the same product.
TheClientOf == (o1 :> c) @@ (o2 :> c)
TheItemsOf == (o1 :> <<p>>) @@ (o2 :> <<p>>)
=============================================================================
