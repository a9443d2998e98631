-------------------------- MODULE ConnectionEffect --------------------------
(***************************************************************************)
(* What an application hears of a Config through useConnectionEffect: the  *)
(* callbacks onConnect and onDisconnect that the hook derives from two     *)
(* consecutive values of getConnection, as watchConnection reports them.   *)
(***************************************************************************)
EXTENDS Config

VARIABLE
    told    \* what the application believes: it is connected

\* The effects of a component under the provider run with its mount, before
\* the provider's own effect.
Subscribed == mounted \in {"waiting", "yes"}

\* getConnection finds an address for the current connection.
HasAddress == current \in Keys(Map)

\* The last turn of a reconnect sets the store twice: the address is there in
\* the value from which the status then changes.
EndsReconnect ==
    \E t \in Tasks : task[t].at = "reconnect.trying" /\ task'[t].at = "idle"

HadAddress == IF EndsReconnect THEN HasAddress' ELSE HasAddress

\* Mistake: a connection is only heard of when it was restored
OnConnectRestored == status = "reconnecting" /\ status' = "connected"

OnConnect ==
    /\ status = "reconnecting" \/ (status = "connecting" /\ ~HadAddress)
    /\ status' = "connected"

OnDisconnect == status = "connected" /\ status' = "disconnected"

\* A component reads the status when it subscribes and goes by the callbacks
\* from then on.
Tell ==
    told' = CASE ~Subscribed \/ Reload -> status' = "connected"
              [] Subscribed /\ ~Reload /\ OnConnect -> TRUE
              [] Subscribed /\ ~Reload /\ OnDisconnect -> FALSE
              [] OTHER -> told

EffectInit == Init /\ told = FALSE

EffectNext == Next /\ Tell

-----------------------------------------------------------------------------
\* Once everything settled the application believes what the Config says: it
\* heard of the connection that is there, and of the end of the one that was.
HeardRight == Loaded => (told <=> status = "connected")
=============================================================================
