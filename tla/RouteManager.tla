---------------------------- MODULE RouteManager ----------------------------
(***************************************************************************)
(* What a bypass program promises about the main routing table, which it   *)
(* shares with the kernel and with other programs.  While it applies its   *)
(* configuration it may delete a route only if its record lists exactly    *)
(* that route, and may install routes only to the targets that its         *)
(* configuration may name; when it is done, every route it installed is    *)
(* in the record, so that a later run can find it.  Bypass and             *)
(* LegacyBypass implement it.                                              *)
(***************************************************************************)
CONSTANTS
    Target,   \* destinations of routes
    Link,     \* gateways, each with its device
    NoRoute,  \* no route to this target
    Claim     \* targets the configuration may name

VARIABLES
    table,     \* the link of the route to each target
    owner,     \* who installed it
    recorded,  \* the routes the record of the program lists
    busy,      \* it is applying its configuration
    lost       \* its record may be incomplete: it was killed, or its files removed

vars == <<table, owner, recorded, busy, lost>>

Route == [target : Target, link : Link]

Entry(t) == [target |-> t, link |-> table[t]]

Init ==
    /\ table = [t \in Target |-> NoRoute]
    /\ owner = [t \in Target |-> "none"]
    /\ recorded = {}
    /\ busy = FALSE
    /\ lost = FALSE

Begin ==
    /\ ~busy
    /\ busy' = TRUE
    /\ UNCHANGED <<table, owner, recorded, lost>>

\* The route may be another program's by now, if it equals the recorded one.
Delete(t) ==
    /\ busy
    /\ Entry(t) \in recorded
    /\ table' = [table EXCEPT ![t] = NoRoute]
    /\ owner' = [owner EXCEPT ![t] = "none"]
    /\ recorded' \in {recorded, recorded \ {Entry(t)}}
    /\ UNCHANGED <<busy, lost>>

\* A route of another program to the same target is replaced.
Install(t, l) ==
    /\ busy
    /\ t \in Claim
    /\ table' = [table EXCEPT ![t] = l]
    /\ owner' = [owner EXCEPT ![t] = "bypass"]
    /\ UNCHANGED <<recorded, busy, lost>>

\* Routes that could not be installed may be recorded as well.
Record ==
    /\ busy
    /\ recorded' \in SUBSET {r \in Route : r.target \in Claim}
    /\ UNCHANGED <<table, owner, busy, lost>>

End ==
    /\ busy
    /\ lost \/ \A t \in Target : owner[t] = "bypass" => Entry(t) \in recorded
    /\ busy' = FALSE
    /\ UNCHANGED <<table, owner, recorded, lost>>

Lose ==
    /\ lost' = TRUE
    /\ recorded' \subseteq recorded
    /\ busy' \in {busy, FALSE}
    /\ UNCHANGED <<table, owner>>

\* The kernel drops every route through a link that goes down.
Drop(l) ==
    /\ table' = [t \in Target |-> IF table[t] = l THEN NoRoute ELSE table[t]]
    /\ owner' = [t \in Target |-> IF table[t] = l THEN "none" ELSE owner[t]]
    /\ UNCHANGED <<recorded, busy, lost>>

Foreign(t, l) ==
    /\ table[t] = NoRoute
    /\ table' = [table EXCEPT ![t] = l]
    /\ owner' = [owner EXCEPT ![t] = "foreign"]
    /\ UNCHANGED <<recorded, busy, lost>>

Reboot ==
    /\ table' = [t \in Target |-> NoRoute]
    /\ owner' = [t \in Target |-> "none"]
    /\ recorded' = {}
    /\ busy' = FALSE
    /\ lost' \in {lost, FALSE}

Next ==
    \/ Begin \/ Record \/ End \/ Lose \/ Reboot
    \/ \E t \in Target : Delete(t)
    \/ \E t \in Target, l \in Link : Install(t, l) \/ Foreign(t, l)
    \/ \E l \in Link : Drop(l)

Spec == Init /\ [][Next]_vars
=============================================================================
