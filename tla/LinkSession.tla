---------------------------- MODULE LinkSession ----------------------------
(***************************************************************************)
(* What a TCP link promises the application that owns it, with no handle,  *)
(* timer or request in sight.  A client link keeps trying until the user   *)
(* closes it; a peer link that is lost is gone.  on_connected comes with a *)
(* connection, on_close with the loss of a peer link and with nothing else.*)
(***************************************************************************)
CONSTANT Reconnects       \* a client link

VARIABLES
    phase,   \* idle, trying, up, gone (a lost peer link), closed by the user
    told,    \* the last of on_connected / on_close: none, up, down
    app,     \* what the user asked for last: idle, open, closed
    dirty    \* writes were in flight when the user closed the link

vars == <<phase, told, app, dirty>>

Init ==
    /\ phase = IF Reconnects THEN "idle" ELSE "up"
    /\ told = IF Reconnects THEN "none" ELSE "up"
    /\ app = IF Reconnects THEN "idle" ELSE "open"
    /\ dirty = FALSE

Open ==
    /\ Reconnects /\ phase = "idle"
    /\ phase' = "trying" /\ app' = "open"
    /\ UNCHANGED <<told, dirty>>

Wanted == app = "open" \/ (app = "closed" /\ dirty)

Established ==
    /\ phase = "trying" /\ Wanted
    /\ phase' = "up" /\ told' = "up"
    /\ UNCHANGED <<app, dirty>>

\* A client link starts over without a word; a peer link says on_close.
Lost ==
    /\ phase = "up" /\ Wanted
    /\ phase' = IF Reconnects THEN "trying" ELSE "gone"
    /\ told' = IF Reconnects THEN told ELSE "down"
    /\ UNCHANGED <<app, dirty>>

\* By the user, perhaps from inside on_close.
Close ==
    /\ phase # "idle"
    /\ phase' = "closed" /\ app' = "closed"
    /\ dirty' \in BOOLEAN
    /\ told' \in IF phase = "up" /\ ~Reconnects THEN {told, "down"} ELSE {told}

\* What is owed to writes that were in flight: the link starts trying again.
Revive ==
    /\ Reconnects /\ phase = "closed" /\ Wanted
    /\ phase' = "trying"
    /\ UNCHANGED <<told, app, dirty>>

Next == Open \/ Established \/ Lost \/ Close \/ Revive

Spec == Init /\ [][Next]_vars
=============================================================================
