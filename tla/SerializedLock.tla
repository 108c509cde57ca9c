--------------------------- MODULE SerializedLock ---------------------------
(***************************************************************************)
(* What the run lock promises to the rest of vpn-killswitch, with no       *)
(* mention of commands: the two resources that block killswitch domains,   *)
(* the nft table and the managed block of the hosts file, change only in   *)
(* the hands of the one process that holds the flock, one resource at a    *)
(* time.  The kernel frees the flock when its holder dies, and a reboot    *)
(* drops the nft table and keeps the hosts file.                           *)
(***************************************************************************)
CONSTANTS
    Proc,    \* processes that may hold the flock
    NoProc,  \* the flock is free
    Domain,  \* killswitch domains
    Address  \* their addresses

VARIABLES
    flock,   \* holder of <run_dir>/lock, or NoProc
    table,   \* the managed nft table exists
    blocked, \* the addresses its sets hold
    hosts    \* domains the managed hosts block points at 0.0.0.0

vars == <<flock, table, blocked, hosts>>

Init ==
    /\ flock = NoProc
    /\ table = FALSE
    /\ blocked = {}
    /\ hosts = {}

Take ==
    /\ flock = NoProc
    /\ flock' \in Proc
    /\ UNCHANGED <<table, blocked, hosts>>

ChangeNft ==
    /\ flock \in Proc
    /\ table' \in BOOLEAN
    /\ blocked' \in SUBSET Address
    /\ UNCHANGED <<flock, hosts>>

ChangeHosts ==
    /\ flock \in Proc
    /\ hosts' \in SUBSET Domain
    /\ UNCHANGED <<flock, table, blocked>>

\* The holder closes the lock file or dies, perhaps in the middle of a write
\* of the hosts file.
Give ==
    /\ flock \in Proc
    /\ flock' = NoProc
    /\ hosts' \in SUBSET Domain
    /\ UNCHANGED <<table, blocked>>

Reboot ==
    /\ flock' = NoProc
    /\ table' = FALSE
    /\ blocked' = {}
    /\ UNCHANGED hosts

Next == Take \/ ChangeNft \/ ChangeHosts \/ Give \/ Reboot

Spec == Init /\ [][Next]_vars
=============================================================================
