--------------------------- MODULE ConnectionStatus ---------------------------
(***************************************************************************)
(* What a Config promises whoever renders its `status`: it says that work  *)
(* is going on only while some is, and it is settled whenever a piece of   *)
(* work ends.  Workers are the calls that may connect, and the page that   *)
(* was rendered on the server and will reconnect.                          *)
(***************************************************************************)
CONSTANT Workers

VARIABLES status, work

Working == {"connecting", "reconnecting"}
Settled == {"connected", "disconnected"}

Init == status \in Settled /\ work = {}

Begin(w) ==
    /\ w \notin work
    /\ work' = work \cup {w}
    /\ status' \in Working

End(w) ==
    /\ w \in work
    /\ work' = work \ {w}
    /\ status' \in Settled

\* v passes its work on to w, which starts now.
HandOver(v, w) ==
    /\ v \in work /\ w \notin work
    /\ work' = (work \ {v}) \cup {w}
    /\ status' \in Working

\* v leaves its work to one that is already at it.
Join(v) ==
    /\ v \in work /\ work \ {v} # {}
    /\ work' = work \ {v}
    /\ UNCHANGED status

\* Connections come and go outside of any work: that may settle the status.
Settle == status' \in Settled /\ UNCHANGED work

Reset == status' \in Settled /\ work' = {}

Next ==
    \/ \E w \in Workers : Begin(w) \/ End(w) \/ Join(w)
    \/ \E v, w \in Workers : HandOver(v, w)
    \/ Settle
    \/ Reset

Spec == Init /\ [][Next]_<<status, work>>

\* Nobody reads "connecting" or "reconnecting" while nothing is.
StatusReflectsWork == status \in Working => work # {}
=============================================================================
