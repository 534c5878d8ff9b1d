---------------------------- MODULE MCCatalogScan ----------------------------
(* Instances for TLC: three pages of one book each.                        *)
EXTENDS CatalogScan

CONSTANTS h1, h2

\* Every upstream answer, a redeploy and an administrator's retry ...
Faults == [handlers |-> {h1}, totals |-> {2, 4}, hangs |-> 0, throws |-> 1,
           unbound |-> 1, deploys |-> 1, flags |-> BOOLEAN, scopes |-> {},
           misfits |-> {{}}]
\* ... or a hung handler and a competing preview at the staging ...
Rivals == [handlers |-> {h1, h2}, totals |-> {2}, hangs |-> 1, throws |-> 1,
           unbound |-> 0, deploys |-> 0, flags |-> {TRUE}, scopes |-> {{<<1, 1>>}},
           misfits |-> {{}}]
\* ... or sources that are eligible in one plan and not in the next.
Misfits == [handlers |-> {h1}, totals |-> {3}, hangs |-> 0, throws |-> 1,
            unbound |-> 0, deploys |-> 0, flags |-> {TRUE},
            scopes |-> {},
            misfits |-> {{}, {<<2, 1>>}, Source}]
AllScenes == {Faults, Rivals, Misfits}
=============================================================================
