---------------------------- MODULE RegistryExport ----------------------------
(***************************************************************************)
(* A generated server with several clients: they subscribe to its          *)
(* broadcasts and unsubscribe, and now and then the registry is written    *)
(* to a map (RegistryMap), to be loaded when the server starts again.      *)
(***************************************************************************)
EXTENDS RegistryMap

CONSTANTS Client,        \* clients that may subscribe
          BroadcastNum   \* broadcasts of the interface

Broadcast == 1..BroadcastNum

VARIABLES
    registry,   \* Broadcast -> its clients, in the order of their entries
    map,        \* the map as it was last written
    exported    \* TRUE: nothing has changed since

vars == <<registry, map, exported>>

Init == registry = [b \in Broadcast |-> <<>>] /\ map = <<>> /\ exported = FALSE

\* The case of a subscription request: add_registration.
Subscribe(c, b) ==
    /\ c \notin ToSet(registry[b])
    /\ registry' = [registry EXCEPT ![b] = Append(@, c)]
    /\ exported' = FALSE /\ UNCHANGED map

\* The case of its cancellation: remove_registration.
Unsubscribe(c, b) ==
    /\ c \in ToSet(registry[b])
    /\ registry' = [registry EXCEPT ![b] = SelectSeq(@, LAMBDA d : d # c)]
    /\ exported' = FALSE /\ UNCHANGED map

\* export_registry_map into a buffer that is large enough.
ExportMap ==
    /\ ~exported
    /\ map' = Export(registry)
    /\ exported' = TRUE /\ UNCHANGED registry

Next == \/ \E c \in Client, b \in Broadcast : Subscribe(c, b) \/ Unsubscribe(c, b)
        \/ ExportMap

Spec == Init /\ [][Next]_vars

-----------------------------------------------------------------------------
\* The map that was just written holds every subscription there is, so that a server
\* that loads it goes on sending to everybody.
AllExported == exported => \A b \in Broadcast : \A c \in ToSet(registry[b]) :
    [client |-> c, cmd |-> b] \in ToSet(map)
=============================================================================
