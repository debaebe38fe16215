--------------------------- MODULE EndpointMutex ---------------------------
(***************************************************************************)
(* What the JSON IPC ownership protocol promises: one broadcaster at a     *)
(* time owns the endpoint, only the owner ever serves it, and what is      *)
(* served stops being served only by its own retirement or by the crash of *)
(* its process.  IpcOwner implements this.                                 *)
(***************************************************************************)
CONSTANTS Broadcasters,  \* the SignalBroadcaster objects
          Processes,     \* the Julia processes they live in
          ProcessOf,     \* the process of each broadcaster
          Nobody         \* no broadcaster

VARIABLES owner,   \* who holds the right to serve the endpoint
          server   \* whose listening socket the endpoint's name leads to

vars == <<owner, server>>

Init == owner = Nobody /\ server = Nobody

Take(b) == /\ owner = Nobody
           /\ owner' = b
           /\ UNCHANGED server

Serve(b) == /\ owner = b
            /\ server = Nobody
            /\ server' = b
            /\ UNCHANGED owner

Retire(b) == /\ owner = b
             /\ server = b
             /\ server' = Nobody
             /\ UNCHANGED owner

Yield(b) == /\ owner = b
            /\ server = Nobody
            /\ owner' = Nobody
            /\ UNCHANGED server

\* A process dies with everything its broadcaster held.
Crash(p) == /\ owner # Nobody
            /\ ProcessOf[owner] = p
            /\ owner' = Nobody
            /\ server' = Nobody

Next == \/ \E b \in Broadcasters : Take(b) \/ Serve(b) \/ Retire(b) \/ Yield(b)
        \/ \E p \in Processes : Crash(p)

Spec == Init /\ [][Next]_vars
=============================================================================
