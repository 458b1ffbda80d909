----------------------------- MODULE WebSockets -----------------------------
(***************************************************************************)
(* The WebSocket manager (infrastructure/websocket/manager.py) as the      *)
(* clients of one project see it: sockets connect and are served by a      *)
(* receive loop, broadcasts, which nothing keeps apart, send to a snapshot *)
(* of the registry one socket after the other and prune those that failed. *)
(*                                                                         *)
(* A send or a receive raises once its client is gone.                     *)
(***************************************************************************)
CONSTANTS
  WsSockets,  \* sockets that may connect, each once
  WsSenders   \* bound: the broadcasts and pings of a behaviour

VARIABLES
  wsPc,          \* where the route handler of each socket is
  wsGone,        \* the sockets whose client is gone
  wsRegistered,  \* _connections[project]
  wsKind,        \* of each sender: "none", "broadcast", "ping" or "done"
  wsToSend,      \* the rest of its snapshot
  wsDead,        \* those of it that failed
  wsReached,     \* those of it that were sent to
  wsAudience     \* the live sockets that were served when it began

wsVars == <<wsPc, wsGone, wsRegistered, wsKind, wsToSend, wsDead, wsReached, wsAudience>>
wsSendVars == <<wsKind, wsToSend, wsDead, wsReached, wsAudience>>

WsInit ==
  /\ wsPc = [s \in WsSockets |-> "new"] /\ wsGone = {}
  /\ wsRegistered = {}
  /\ wsKind = [b \in WsSenders |-> "none"] /\ wsToSend = [b \in WsSenders |-> {}]
  /\ wsDead = wsToSend /\ wsReached = wsToSend /\ wsAudience = wsToSend

Served == {s \in WsSockets : wsPc[s] = "serving"}

\* connect: accepted, then registered under the lock.
Connect(s) ==
  /\ wsPc[s] = "new" /\ s \notin wsGone
  /\ wsPc' = [wsPc EXCEPT ![s] = "welcome"]
  /\ wsRegistered' = wsRegistered \cup {s}
  /\ UNCHANGED <<wsGone, wsSendVars>>

\* The welcome is sent before serve's try: when it raises, nothing disconnects.
Welcome(s) ==
  /\ wsPc[s] = "welcome"
  /\ wsPc' = [wsPc EXCEPT ![s] = IF s \in wsGone THEN "raised" ELSE "serving"]
  /\ UNCHANGED <<wsGone, wsRegistered, wsSendVars>>

Without(s) == wsRegistered \ {s}

\* disconnect: the project's entry is deleted when it is left empty.
Disconnect(s) == wsRegistered' = Without(s)

\* Mutant: the receive loop ends without disconnecting.
LeaveLoop(s) ==
  /\ wsPc[s] = "serving" /\ s \in wsGone
  /\ wsPc' = [wsPc EXCEPT ![s] = "closed"]
  /\ UNCHANGED <<wsGone, wsRegistered, wsSendVars>>

\* The receive loop of a client that is gone ends, and its socket is removed.
ServeEnds(s) ==
  /\ wsPc[s] = "serving" /\ s \in wsGone
  /\ wsPc' = [wsPc EXCEPT ![s] = "closed"]
  /\ Disconnect(s)
  /\ UNCHANGED <<wsGone, wsSendVars>>

\* The loop also ends on a message it cannot read as text; its return closes the socket.
ServeFails(s) ==
  /\ wsPc[s] = "serving" /\ s \notin wsGone
  /\ wsPc' = [wsPc EXCEPT ![s] = "closed"] /\ wsGone' = wsGone \cup {s}
  /\ Disconnect(s)
  /\ UNCHANGED wsSendVars

ClientGoes(s) ==
  /\ s \notin wsGone /\ wsGone' = wsGone \cup {s}
  /\ UNCHANGED <<wsPc, wsRegistered, wsSendVars>>

\* The snapshot is taken without the lock; nobody listening is nothing to send.
Begin(b, kind) ==
  /\ wsKind[b] = "none" /\ wsRegistered # {}
  /\ wsKind' = [wsKind EXCEPT ![b] = kind]
  /\ wsToSend' = [wsToSend EXCEPT ![b] = wsRegistered]
  /\ wsAudience' = [wsAudience EXCEPT ![b] = Served \ wsGone]
  /\ UNCHANGED <<wsPc, wsGone, wsRegistered, wsDead, wsReached>>

\* A send to one socket of the snapshot, which fails when its client is gone.
Send(b, s) ==
  /\ wsToSend' = [wsToSend EXCEPT ![b] = @ \ {s}]
  /\ IF s \in wsGone THEN wsDead' = [wsDead EXCEPT ![b] = @ \cup {s}] /\ UNCHANGED wsReached
                     ELSE wsReached' = [wsReached EXCEPT ![b] = @ \cup {s}] /\ UNCHANGED wsDead
  /\ UNCHANGED <<wsPc, wsGone, wsAudience>>

SendNext(b) ==
  /\ wsKind[b] = "broadcast"
  /\ \E s \in wsToSend[b] : Send(b, s)
  /\ UNCHANGED <<wsKind, wsRegistered>>

\* The dead are discarded under the lock.
Prune(b) ==
  /\ wsKind[b] = "broadcast" /\ wsToSend[b] = {}
  /\ wsKind' = [wsKind EXCEPT ![b] = "done"]
  /\ wsRegistered' = wsRegistered \ wsDead[b]
  /\ UNCHANGED <<wsPc, wsGone, wsToSend, wsDead, wsReached, wsAudience>>

\* ping_all disconnects a socket as soon as its ping fails.
PingNext(b) ==
  /\ wsKind[b] = "ping"
  /\ \E s \in wsToSend[b] :
       /\ Send(b, s)
       /\ IF s \in wsGone THEN Disconnect(s) ELSE UNCHANGED wsRegistered
  /\ UNCHANGED wsKind

SocketStep(s) == Welcome(s) \/ ServeEnds(s)

WsNext ==
  \/ \E s \in WsSockets : Connect(s) \/ SocketStep(s) \/ ServeFails(s) \/ ClientGoes(s)
  \/ \E b \in WsSenders : \/ \E kind \in {"broadcast", "ping"} : Begin(b, kind)
                          \/ SendNext(b) \/ Prune(b) \/ PingNext(b)

\* The handler of each socket is scheduled; a receive of a client that is gone raises.
WsFairness == \A s \in WsSockets : WF_wsVars(SocketStep(s))

WsSpec == WsInit /\ [][WsNext]_wsVars /\ WsFairness

-----------------------------------------------------------------------------
\* However connections come and go between a broadcast's snapshot and its pruning, and
\* however broadcasts overlap, a client that is served and still there is registered, and
\* one that was served when a broadcast began has been sent it, or has gone.
LiveSocketsAreReached ==
  /\ Served \ wsGone \subseteq wsRegistered
  /\ \A b \in WsSenders : wsToSend[b] = {} => wsAudience[b] \subseteq wsReached[b] \cup wsGone

\* A client that goes while it is served is unregistered, whether a broadcast or a ping
\* finds it dead or not.
GoneSocketsAreUnregistered ==
  \A s \in WsSockets : s \in Served /\ s \in wsGone ~> s \notin wsRegistered

\* The registry follows the sockets: the live ones are in it and reached, the gone leave it.
RegistryFollowsSockets == []LiveSocketsAreReached /\ GoneSocketsAreUnregistered
=============================================================================
