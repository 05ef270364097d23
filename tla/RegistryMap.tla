----------------------------- MODULE RegistryMap -----------------------------
(***************************************************************************)
(* export_registry_map and load_registry_map of a generated server         *)
(* (MsgBoxInfGenerator::getStubRegistryMapTpl and the text generated for   *)
(* every broadcast): the server writes who has subscribed to what into a   *)
(* map of blocks, and after a restart registers everybody again from it.   *)
(*                                                                         *)
(* A registry gives every broadcast, in the order of declaration, the      *)
(* sequence of its clients; a block of the map is a client and a           *)
(* broadcast.  export_registry, des_registry and add_registration are in   *)
(* the runtime library, which is not in the repository: they write, read   *)
(* and append entries.                                                     *)
(***************************************************************************)
EXTENDS Naturals, Sequences, FiniteSetsExt, SequencesExt

\* What is in a block of the caller's buffer that nothing is written to.
Garbage == [client |-> "none", cmd |-> 0]

\* Blocks of the broadcasts before b.
Before(registry, b) ==
    LET size[c \in 0..Len(registry)] == IF c = 0 THEN 0 ELSE size[c - 1] + Len(registry[c])
    IN  size[b - 1]

\* The block at which broadcast b is written: exp_size, which by then is the number
\* of entries of the broadcast before it, not of all of them.
Offset(registry, b) == IF b = 1 THEN 0 ELSE Len(registry[b - 1])

\* export_registry_map into a buffer of just the size it requires.
Export(registry) ==
    [p \in 1..Before(registry, Len(registry) + 1) |->
        LET writers == {b \in DOMAIN registry : /\ Offset(registry, b) < p
                                                /\ p <= Offset(registry, b) + Len(registry[b])}
            b == Max(writers)
        IN  IF writers = {} THEN Garbage
            ELSE [client |-> registry[b][p - Offset(registry, b)], cmd |-> b]]

\* Is an entry registered to broadcast b?  The cases of the switch statement have no
\* break: it goes on to all later broadcasts.
Matches(switch, cmd, b) == cmd = b \/ (switch /\ cmd \in 1..b)

\* load_registry_map into empty registries of n broadcasts.
Load(map, n, switch) ==
    [b \in 1..n |->
        FoldLeft(LAMBDA clients, e : IF Matches(switch, e.cmd, b) /\ e.client \notin ToSet(clients)
                                        THEN Append(clients, e.client) ELSE clients, <<>>, map)]
=============================================================================
