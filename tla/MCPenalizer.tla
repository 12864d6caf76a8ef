----------------------------- MODULE MCPenalizer -----------------------------
(***************************************************************************)
(* Two audits of one worker's transactions, two interval handlers, pages   *)
(* of two transactions.                                                    *)
(***************************************************************************)
EXTENDS Penalizer

CONSTANTS a1, a2, h1, h2, incoming, notx

MCAudits   == {a1, a2}
MCHandlers == {h1, h2}

Tx(n, data, gasPrice, isLegal) ==
    [nonce |-> n, payload |-> data, price |-> gasPrice, staked |-> TRUE, legal |-> isLegal]

\* Mined or to be mined, the same at another price, a conflicting one, an
\* illegal one.
First == Tx(0, "a", 1, TRUE)
Dearer == Tx(0, "a", 2, TRUE)
Second == Tx(1, "b", 1, TRUE)
Conflicting == Tx(1, "c", 1, FALSE)
Third == Tx(2, "e", 1, TRUE)
Unknown == [First EXCEPT !.payload = "d", !.staked = FALSE]

MCTxs == {First, Dearer, Second, Conflicting, Third, Unknown}


\* Two requests search the explorer; one request and its penalization; two
\* penalizations and their handlers.
MCWorlds ==
    {[explorer |-> TRUE, startWorker |-> FALSE, listing |-> l,
      mempool |-> {Second, Conflicting, Third},
      requests |-> {a1, a2} \X {Second, Conflicting, Third, Dearer},
      blocks |-> 0, restarts |-> 1] :
        l \in {<<First>>, <<incoming, First, Second>>}}
      \cup
    {[explorer |-> TRUE, startWorker |-> TRUE, listing |-> <<First>>, mempool |-> {Second},
      requests |-> {a1} \X MCTxs, blocks |-> 2, restarts |-> 1]}
      \cup
    {[explorer |-> FALSE, startWorker |-> TRUE, listing |-> <<>>, mempool |-> {},
      requests |-> {a1, a2} \X {Conflicting}, blocks |-> 2, restarts |-> 0]}
=============================================================================
