--------------------------------- MODULE Pin ---------------------------------
(***************************************************************************)
(* What ssrfguard promises of one connection: the addresses it may be made *)
(* to are fixed, once and all of them permitted, before the first is       *)
(* dialled; only they are dialled, a bounded number of times; a connection *)
(* is handed out only if it landed on the address that was dialled; and    *)
(* nothing is chosen again without starting over.                          *)
(*                                                                         *)
(* This is the claim of the resolve() and connect() docstrings and of the  *)
(* README ("the addresses returned are the addresses that were checked");  *)
(* PinnedConnect and AsyncBackend are shown to implement it.               *)
(***************************************************************************)
EXTENDS Naturals

CONSTANTS
    Ip,          \* addresses
    Permitted,   \* those the policy accepts
    Answer,      \* addresses as the resolver gives them: records with an ip
    MaxAttempts  \* policy.max_connection_attempts

VARIABLES
    phase,       \* "choosing", "pinned", "dialling", or how the request ended
    pinned,      \* the answers this connection may be made to
    attempts,    \* attempts begun since they were fixed
    target,      \* the answer being dialled or connected, as a set of at most one
    landed       \* where a connection that was handed out really goes, likewise

vars == <<phase, pinned, attempts, target, landed>>

Ended == {"connected", "refused", "failed"}

Init ==
    /\ phase = "choosing"
    /\ pinned = {} /\ attempts = 0 /\ target = {} /\ landed = {}

\* The one decision.
Choose ==
    /\ phase = "choosing"
    /\ pinned' \in SUBSET {a \in Answer : a.ip \in Permitted}
    /\ pinned' # {}
    /\ phase' = "pinned"
    /\ attempts' = 0
    /\ UNCHANGED <<target, landed>>

\* An attempt begins on one of the pinned answers.
Dial ==
    /\ phase = "pinned"
    /\ attempts < MaxAttempts
    /\ target' \in {{a} : a \in pinned}
    /\ phase' = "dialling"
    /\ attempts' = attempts + 1
    /\ UNCHANGED <<pinned, landed>>

\* An attempt that never got a socket.
Skip ==
    /\ phase = "pinned"
    /\ attempts < MaxAttempts
    /\ attempts' = attempts + 1
    /\ UNCHANGED <<phase, pinned, target, landed>>

Miss ==
    /\ phase = "dialling"
    /\ phase' = "pinned"
    /\ target' = {}
    /\ UNCHANGED <<pinned, attempts, landed>>

\* The connection went where it was sent.
Land ==
    /\ phase = "dialling"
    /\ landed' = {a.ip : a \in target}
    /\ phase' = "connected"
    /\ pinned' = {} /\ attempts' = 0
    /\ UNCHANGED target

\* The request ends without a connection.
Stop ==
    /\ phase \notin Ended
    /\ phase' \in {"refused", "failed"}
    /\ pinned' = {} /\ attempts' = 0 /\ target' = {}
    /\ UNCHANGED landed

\* Another connection, or another try at this one: everything is chosen anew.
StartOver ==
    /\ phase \in Ended
    /\ phase' = "choosing"
    /\ pinned' = {} /\ attempts' = 0 /\ target' = {} /\ landed' = {}

Next == Choose \/ Dial \/ Skip \/ Miss \/ Land \/ Stop \/ StartOver

Spec == Init /\ [][Next]_vars
=============================================================================
