------------------------------ MODULE MCConfig ------------------------------
(***************************************************************************)
(* A server rendered page that starts from its cookie, with two calls at   *)
(* the same time, over a storage that answers at once or later.            *)
(***************************************************************************)
EXTENDS Config

VARIABLE storage    \* "sync" or "async"

Storages == {"sync", "async"}

\* With a storage that answers later there are more orders, of fewer calls.
With(s) ==
    INSTANCE Config WITH
        AsyncStorage <- s = "async",
        Calls <- {"connect", IF s = "async" THEN "reconnect" ELSE "disconnect"}

pageVars == <<vars, storage>>

StorageInit == storage \in Storages /\ \A s \in Storages : storage = s => With(s)!Init

Step(s) == storage = s /\ With(s)!Next /\ UNCHANGED storage

StorageSpec ==
    /\ StorageInit /\ [][\E s \in Storages : Step(s)]_pageVars
    /\ \A s \in Storages :
         /\ \A t \in Tasks :
              /\ WF_pageVars(storage = s /\ With(s)!Continue(t) /\ UNCHANGED storage)
              /\ WF_pageVars(storage = s /\ With(s)!Answer(t) /\ UNCHANGED storage)
         /\ WF_pageVars(storage = s /\ With(s)!Hydrate /\ UNCHANGED storage)
         /\ WF_pageVars(storage = s /\ mounted # "yes" /\ With(s)!Page /\ UNCHANGED storage)
=============================================================================
