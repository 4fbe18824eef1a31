---------------------------- MODULE HttpExchange ----------------------------
(***************************************************************************)
(* What a connection of the HTTP server does for its client: "a simple     *)
(* http session, with no KEEP-ALIVE support" (src/src/httpserver.h:24).    *)
(* The end of the connection is the end of the response, which carries no  *)
(* Content-Length, and comes with the sending of it.                       *)
(***************************************************************************)
EXTENDS Naturals

VARIABLES
    handled,   \* how many requests the application was called with
    reply,     \* which of them is answered, 0 for none
    fate,      \* what became of the answer
    open       \* the connection is read

Init == handled = 0 /\ reply = 0 /\ fate = "none" /\ open

\* The first request is answered, and is the last: requests behind it in the same
\* read are handled without an answer, later ones are not read.  The socket takes
\* the answer, or a part of it waits; one that is too large is not sent.
Serve ==
    /\ open
    /\ handled' \in Nat \ {0}
    /\ \/ reply' = 1 /\ fate' \in {"taken", "waiting"}
       \/ reply' = 0 /\ fate' = "dropped"
    /\ ~open'

\* The connection was closed as soon as the answer was sent: what waited is lost.
Fate == [taken |-> "sent", waiting |-> "cut"]

Finish ==
    /\ ~open /\ fate \in DOMAIN Fate
    /\ fate' = Fate[fate]
    /\ UNCHANGED <<handled, reply, open>>

End == open /\ ~open' /\ UNCHANGED <<handled, reply, fate>>

Next == Serve \/ Finish \/ End

vars == <<handled, reply, fate, open>>

Spec == Init /\ [][Next]_vars
=============================================================================
