---------------------------- MODULE LiveUpdates ----------------------------
(***************************************************************************)
(* The live updates of the dashboard (backend/app/routers/websocket.py):   *)
(* one task sends each health snapshot to the sockets of a list, one after *)
(* the other, and the list changes whenever a send awaits: connections     *)
(* append to it, connections that end are removed from it.                 *)
(*                                                                         *)
(* Tasks of one event loop interleave at their awaits only.  A connection  *)
(* is a value of Client and is never used again once it has ended.  What a *)
(* snapshot says is left out.                                              *)
(***************************************************************************)
EXTENDS Naturals, Sequences, FiniteSets, SequencesExt

CONSTANTS
    Client,     \* connections that will be made
    NULL        \* no connection

ASSUME ClientAssumption == IsFiniteSet(Client) /\ NULL \notin Client

VARIABLES
    conn,       \* "new", "open", "broken" (nobody has noticed) or "closed"
    active,     \* manager.active, the list of sockets
    started,    \* _broadcaster_started
    at,         \* index the iteration has reached; 0 between rounds
    target,     \* the socket whose send is awaited
    dead,       \* sockets whose send has raised in this round
    served,     \* history: sockets the current or last round was sent to
    left        \* history: removals while the round was under way

vars == <<conn, active, started, at, target, dead, served, left>>
round == <<at, target, dead, served>>

TypeOK ==
    /\ conn \in [Client -> {"new", "open", "broken", "closed"}]
    /\ active \in Seq(Client) /\ IsInjective(active)
    /\ started \in BOOLEAN
    /\ at \in Nat
    /\ target \in Client \cup {NULL}
    /\ dead \subseteq Client /\ served \subseteq Client
    /\ left \in Nat

Init ==
    /\ conn = [c \in Client |-> "new"]
    /\ active = <<>>
    /\ started = FALSE
    /\ at = 0
    /\ target = NULL
    /\ dead = {}
    /\ served = {}
    /\ left = 0

-----------------------------------------------------------------------------
(* Connections.                                                            *)

\* A mistaken variant: new sockets go to the front of the list.
ConnectFirst(c) ==
    /\ conn[c] = "new"
    /\ conn' = [conn EXCEPT ![c] = "open"]
    /\ active' = <<c>> \o active
    /\ started' = TRUE
    /\ UNCHANGED <<round, left>>

\* A mistaken variant: the endpoint adds the socket connect has added.
ConnectTwice(c) ==
    /\ conn[c] = "new"
    /\ conn' = [conn EXCEPT ![c] = "open"]
    /\ active' = active \o <<c, c>>
    /\ started' = TRUE
    /\ UNCHANGED <<round, left>>

\* connect and the rest of dashboard_ws up to receive_text; the first one starts
\* the broadcaster.
Connect(c) ==
    /\ conn[c] = "new"
    /\ conn' = [conn EXCEPT ![c] = "open"]
    /\ active' = Append(active, c)
    /\ started' = TRUE
    /\ UNCHANGED <<round, left>>

\* The client is gone, and its task has not been told yet.
Break(c) ==
    /\ conn[c] = "open"
    /\ conn' = [conn EXCEPT ![c] = "broken"]
    /\ UNCHANGED <<active, started, round, left>>

\* receive_text raises WebSocketDisconnect: the socket is removed if it is still
\* in the list.
Notice(c) ==
    /\ conn[c] = "broken"
    /\ conn' = [conn EXCEPT ![c] = "closed"]
    /\ active' = RemoveFirst(active, c)
    /\ left' = IF at > 0 /\ Contains(active, c) THEN left + 1 ELSE left
    /\ UNCHANGED <<started, round>>

\* receive_text raises anything else: nobody removes the socket.
HandlerDies(c) ==
    /\ conn[c] = "open"
    /\ conn' = [conn EXCEPT ![c] = "closed"]
    /\ UNCHANGED <<active, started, round, left>>

-----------------------------------------------------------------------------
(* _broadcast_loop.                                                        *)

\* A snapshot is computed and the send to the first socket begins.
StartRound ==
    /\ started /\ at = 0 /\ active # <<>>
    /\ at' = 1
    /\ target' = Head(active)
    /\ dead' = {} /\ served' = {} /\ left' = 0
    /\ UNCHANGED <<conn, active, started>>

\* The sockets of the list that are not in D, in their order: what the loop
\* after the sends, which removes each of D that is still there, leaves.
WithoutDead(D) ==
    LET kept[i \in 0..Len(active)] ==
            IF i = 0 THEN <<>>
            ELSE IF active[i] \in D THEN kept[i - 1]
            ELSE Append(kept[i - 1], active[i])
    IN  kept[Len(active)]

\* A mistaken variant: the sockets whose send raised stay in the list.
MoveOnKeepingDead(D) ==
    \/ /\ at < Len(active)
       /\ at' = at + 1
       /\ target' = active[at + 1]
       /\ UNCHANGED active
    \/ /\ at >= Len(active)
       /\ at' = 0 /\ target' = NULL
       /\ UNCHANGED active

\* A mistaken variant: they are removed while the list is iterated.
MoveOnRemoving(D) ==
    \/ /\ at < Len(WithoutDead(D))
       /\ at' = at + 1
       /\ target' = WithoutDead(D)[at + 1]
       /\ active' = WithoutDead(D)
    \/ /\ at >= Len(WithoutDead(D))
       /\ at' = 0 /\ target' = NULL
       /\ active' = WithoutDead(D)

\* A mistaken variant: the first send that raises ends the round.
MoveOnUntilDead(D) ==
    \/ /\ at < Len(active) /\ D = {}
       /\ at' = at + 1
       /\ target' = active[at + 1]
       /\ UNCHANGED active
    \/ /\ at >= Len(active) \/ D # {}
       /\ at' = 0 /\ target' = NULL
       /\ UNCHANGED active

\* The iteration goes to its next index in the list as it is now, or, past its
\* end, the sockets in D are removed and the task sleeps.
MoveOn(D) ==
    \/ /\ at < Len(active)
       /\ at' = at + 1
       /\ target' = active[at + 1]
       /\ UNCHANGED active
    \/ /\ at >= Len(active)
       /\ at' = 0 /\ target' = NULL
       /\ active' = WithoutDead(D)

\* A send to an open connection succeeds, one to a closed connection raises, and
\* one to a broken connection does either.
Sent ==
    /\ at > 0 /\ conn[target] # "closed"
    /\ served' = served \cup {target}
    /\ UNCHANGED dead
    /\ MoveOn(dead)
    /\ UNCHANGED <<conn, started, left>>

SendRaises ==
    /\ at > 0 /\ conn[target] # "open"
    /\ dead' = dead \cup {target}
    /\ UNCHANGED served
    /\ MoveOn(dead \cup {target})
    /\ UNCHANGED <<conn, started, left>>

-----------------------------------------------------------------------------
Next ==
    \/ \E c \in Client : Connect(c) \/ Break(c) \/ Notice(c) \/ HandlerDies(c)
    \/ StartRound \/ Sent \/ SendRaises

Spec == Init /\ [][Next]_vars

\* The task wakes up after its sleep, and every send ends some time.
FairSpec == Spec /\ WF_vars(StartRound) /\ WF_vars(Sent \/ SendRaises)

-----------------------------------------------------------------------------
(* Properties.                                                             *)

\* No socket is sent the same snapshot twice, nor again after its send raised,
\* although the list moves under the iteration.
NobodyTwice == at > 0 => target \notin served \cup dead

\* Sockets the iteration has gone by without a send.
PassedOver ==
    {active[i] : i \in {k \in DOMAIN active : k <= at}} \ ({target} \cup served \cup dead)

\* Each removal during a round costs at most one other connection its snapshot;
\* without one, "every connected client" (module docstring) is served.
OneSkipPerRemoval == at > 0 => Cardinality(PassedOver) <= left

\* A client that stays is sent a snapshot, whatever the others do.
EveryoneServed ==
    \A c \in Client : conn[c] = "open" ~> (c \in served \/ conn[c] # "open")

\* A socket that nobody removed when its connection ended leaves the list.
ClosedAreRemoved ==
    \A c \in Client : conn[c] = "closed" ~> ~Contains(active, c)
=============================================================================
