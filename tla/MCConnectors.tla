---------------------------- MODULE MCConnectors ----------------------------
(***************************************************************************)
(* Settings for Connectors: of each connector one in which a call overlaps *)
(* only with the events of a wallet, and one in which two calls overlap.   *)
(***************************************************************************)
EXTENDS Connectors, TLC

CONSTANTS x, y, z

One == {"s1"}
Two == {"s1", "s2"}

\* Wallets in the browser: they change only while nothing is in flight.
QuietBrowser ==
    [chains |-> {x, y}, slots |-> One, target |-> TRUE, shim |-> TRUE, patient |-> TRUE,
     rejects |-> TRUE, greets |-> TRUE]

MCBrowsers ==
    [served  |-> [QuietBrowser EXCEPT !.rejects = FALSE],
     shim    |-> [QuietBrowser EXCEPT !.patient = FALSE, !.greets = FALSE],
     switch  |-> [QuietBrowser EXCEPT !.target = FALSE],
     overlap |-> [QuietBrowser EXCEPT !.chains = {x}, !.slots = Two, !.patient = FALSE]]

\* Sessions over a relay, and the chains a page is published with.
QuietRelay ==
    [chains |-> {x, y}, pages |-> {{x}, {y}, {x, y}}, slots |-> One, asks |-> FALSE,
     fails |-> FALSE, patient |-> TRUE]

MCRelays ==
    [relay        |-> QuietRelay,
     versions     |-> [QuietRelay EXCEPT !.chains = {x, y, z},
                                         !.pages = {{x}, {y, z}, {x, y, z}}],
     relayOverlap |-> [QuietRelay EXCEPT !.pages = {{x, y}}, !.slots = Two, !.asks = TRUE,
                                         !.fails = TRUE, !.patient = FALSE]]

\* The SDKs of wallets: Porto, coinbaseWallet and gemini, baseAccount, metaMask.
Quiet == [chains |-> {x, y, z}, slots |-> One, patient |-> TRUE]
Busy == [chains |-> {x, y, z}, slots |-> Two, patient |-> FALSE]

MCPortos ==
    [porto        |-> Quiet @@ [default |-> x, breaks |-> FALSE],
     portoOverlap |-> Busy @@ [default |-> x, breaks |-> TRUE]]

MCSdks ==
    [coinbase    |-> Quiet @@ [base |-> FALSE, adds |-> FALSE],
     baseAccount |-> Quiet @@ [base |-> TRUE, adds |-> FALSE],
     sdkOverlap  |-> Busy @@ [base |-> FALSE, adds |-> TRUE]]

MCMetas ==
    [metaMask |-> Quiet @@ [extension |-> TRUE, breaks |-> FALSE],
     mobile   |-> Busy @@ [extension |-> FALSE, breaks |-> TRUE]]

\* Passkeys, and the access keys they authorise.
OneTab ==
    [tabs |-> {"tab"}, keys |-> {"k1", "k2"}, grants |-> TRUE, strict |-> FALSE,
     refusals |-> FALSE, failures |-> FALSE, time |-> 2]
TwoTabs == [OneTab EXCEPT !.tabs = {"tab", "other"}, !.failures = TRUE, !.time = 0]

MCPasskeys ==
    [lenient |-> OneTab,
     strict  |-> [OneTab EXCEPT !.strict = TRUE, !.refusals = TRUE],
     tabs    |-> [TwoTabs EXCEPT !.strict = TRUE, !.refusals = TRUE],
     noKeys  |-> [TwoTabs EXCEPT !.grants = FALSE, !.keys = {}]]
=============================================================================
