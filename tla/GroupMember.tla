---------------------------- MODULE GroupMember ----------------------------
(***************************************************************************)
(* What a member of a consumer group promises the other members under the  *)
(* eager rebalance protocol, whatever its requests, callbacks and timers   *)
(* do: it fetches only what it holds, it lets go of everything before it   *)
(* asks to join again, and it takes up a new assignment with empty hands.  *)
(***************************************************************************)
EXTENDS Naturals, FiniteSets

CONSTANTS
    Partitions,
    None

VARIABLES
    phase,    \* free, joining, offered, holding, revoking or releasing
    held,     \* the assignment the member holds, None without one
    running   \* the partitions that are started and not known to be stopped

vars == <<phase, held, running>>

Init == phase = "free" /\ held = None /\ running = {}

\* The member asks for an assignment, and is offered one.
Join ==
    /\ running = {}
    /\ phase' = "joining" /\ held' = None /\ running' = {}

Offer ==
    /\ phase = "joining"
    /\ phase' = "offered" /\ UNCHANGED <<held, running>>

\* The application, or the member by itself, takes up an assignment.
Hold ==
    /\ phase \in {"offered", "revoking"} /\ running = {}
    /\ phase' = "holding" /\ running' = {}
    /\ held' = None \/ held' \subseteq Partitions

Start ==
    /\ phase = "holding" /\ held # None /\ running = {}
    /\ running' \subseteq held
    /\ UNCHANGED <<phase, held>>

\* The group rebalances: the application is asked first, if it wants to be.
Revoke ==
    /\ phase = "holding" /\ held # None
    /\ phase' = "revoking" /\ UNCHANGED <<held, running>>

Release ==
    /\ phase' = "releasing" /\ held' = None /\ UNCHANGED running

Stop ==
    /\ phase = "releasing"
    /\ \E p \in running : running' = running \ {p}
    /\ UNCHANGED <<phase, held>>

Free ==
    /\ Cardinality(running) <= 1
    /\ phase' = "free" /\ held' = None /\ running' = {}

Next == Join \/ Offer \/ Hold \/ Start \/ Revoke \/ Release \/ Stop \/ Free

Spec == Init /\ [][Next]_vars
=============================================================================
