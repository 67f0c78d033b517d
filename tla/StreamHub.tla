----------------------------- MODULE StreamHub -----------------------------
(***************************************************************************)
(* What the realtime service promises the browsers of one user, without    *)
(* Redis: an event stream is closed, waiting for the subscription, or      *)
(* live.  The streams of a user go live together, an event reaches every   *)
(* live stream, and a stream can be closed at any time.                    *)
(***************************************************************************)
CONSTANTS
    Clients,     \* browser connections of the user
    Events,      \* what can be written to a stream
    None         \* nothing was written yet

VARIABLES
    conn,        \* the phase of each stream
    seen         \* the last event written to it

hubVars == <<conn, seen>>

Phase == {"closed", "waiting", "live"}

In(phase) == {c \in Clients : conn[c] = phase}

HubInit ==
    /\ conn = [c \in Clients |-> "closed"]
    /\ seen = [c \in Clients |-> None]

\* A new stream is live at once when the others are, and may be when it is
\* the first; it never waits beside a live one.
Connect(c) ==
    /\ conn[c] = "closed"
    /\ \E phase \in {"waiting", "live"} :
         /\ phase = "waiting" => In("live") = {}
         /\ phase = "live" => In("waiting") = {}
         /\ conn' = [conn EXCEPT ![c] = phase]
    /\ UNCHANGED seen

GoLive ==
    /\ In("waiting") # {}
    /\ conn' = [c \in Clients |-> IF conn[c] = "waiting" THEN "live" ELSE conn[c]]
    /\ UNCHANGED seen

\* Streams whose write fails are closed, all other live ones get the event.
Broadcast(event, broken) ==
    /\ broken \subseteq In("live")
    /\ conn' = [c \in Clients |-> IF c \in broken THEN "closed" ELSE conn[c]]
    /\ seen' = [c \in Clients |-> IF c \in broken THEN None
                                  ELSE IF conn[c] = "live" THEN event
                                  ELSE seen[c]]

Disconnect(gone) ==
    /\ conn' = [c \in Clients |-> IF c \in gone THEN "closed" ELSE conn[c]]
    /\ seen' = [c \in Clients |-> IF c \in gone THEN None ELSE seen[c]]

HubNext ==
    \/ \E c \in Clients : Connect(c)
    \/ GoLive
    \/ \E event \in Events, broken \in SUBSET Clients : Broadcast(event, broken)
    \/ \E gone \in SUBSET Clients : Disconnect(gone)

HubSpec == HubInit /\ [][HubNext]_hubVars

=============================================================================
