------------------------------ MODULE MCPages ------------------------------
(***************************************************************************)
(* Pages that make one call at a time, of two connectors; wallets that     *)
(* announce themselves before and after the page is there; and watchers.   *)
(***************************************************************************)
EXTENDS Pages

CONSTANTS x, y, z, c1, c2, task1

\* A page without a server, which lives once.  z is a chain the Config does not have.
ClientPage(chains, calls) ==
    [connectors |-> {c1, c2}, chains |-> chains, configured |-> chains \ {z}, default |-> x,
     tasks |-> {task1}, calls |-> calls, async |-> FALSE, ssr |-> FALSE, cookie |-> FALSE,
     reconnects |-> TRUE, early |-> FALSE, rerender |-> FALSE, lives |-> 1, listens |-> FALSE]

Switches == {"connect", "disconnect", "switchConnection", "switchChain"}

SomePages ==
    [cookie |-> [ClientPage({x, y, z}, Switches) EXCEPT
                   !.ssr = TRUE, !.cookie = TRUE, !.rerender = TRUE, !.lives = 2],
     reload |-> [ClientPage({x, z}, Switches \cup {"events"}) EXCEPT !.lives = 2],
     forget |-> [ClientPage({x, y, z}, {"connect", "disconnect", "switchChain"}) EXCEPT
                   !.reconnects = FALSE, !.lives = 2],
     heard  |-> [ClientPage({x, y, z},
                            {"connect", "reconnect", "switchConnection", "events"}) EXCEPT
                   !.rerender = TRUE],
     told   |-> [ClientPage({x, z}, Switches \ {"disconnect"}) EXCEPT
                   !.reconnects = FALSE, !.listens = TRUE]]

\* Two wallets under one name, and one that a configured connector stands for.
SomeOffers ==
    [client |-> [wallets |-> 1..5, ids |-> 1..5, rdns |-> <<1, 2, 3, 4, 1>>, claimed |-> {3},
                 ssr |-> FALSE, async |-> FALSE, mounts |-> 0, setups |-> 6],
     server |-> [wallets |-> 1..5, ids |-> 1..5, rdns |-> <<1, 2, 3, 4, 1>>, claimed |-> {3},
                 ssr |-> TRUE, async |-> TRUE, mounts |-> 1, setups |-> 7]]
=============================================================================
