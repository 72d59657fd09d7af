---------------------------- MODULE CommandLink ----------------------------
(***************************************************************************)
(* What the command link promises the base station and the robots, without *)
(* threads, locks or buffers: a datagram answers one "ready" that no other *)
(* datagram has answered, and carries the news of one command update that  *)
(* no other datagram has carried.  Several "ready"s may share one answer,  *)
(* and several updates may share one datagram, but never the reverse.      *)
(***************************************************************************)
EXTENDS Naturals

VARIABLES
    readies,   \* "ready" messages taken from the base station
    updates,   \* command sets taken from the main loop
    sent       \* datagrams sent

vars == <<readies, updates, sent>>

Init == readies = 0 /\ updates = 0 /\ sent = 0

Ready == readies' = readies + 1 /\ UNCHANGED <<updates, sent>>

Update == updates' = updates + 1 /\ UNCHANGED <<readies, sent>>

Send ==
    /\ sent < readies
    /\ sent < updates
    /\ sent' = sent + 1
    /\ UNCHANGED <<readies, updates>>

Next == Ready \/ Update \/ Send

Spec == Init /\ [][Next]_vars
=============================================================================
