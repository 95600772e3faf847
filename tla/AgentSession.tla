---------------------------- MODULE AgentSession ----------------------------
(***************************************************************************)
(* The control session of one agent: the agent's WebSocket client with its *)
(* read and write loops (control/websocket_client.go), the backend's       *)
(* control stream and hub (agent_control_controller.go,                    *)
(* control_service.go), and the agent's command dispatcher                 *)
(* (dispatcher/dispatcher.go).                                             *)
(*                                                                         *)
(* Connections are drawn from a pool and reused when no goroutine knows    *)
(* them any more.  link[c] holds who has given the connection up: "a" the  *)
(* agent, "b" the backend, "net" the network; {} is an open connection.    *)
(* The backend registers a connection before the agent can dial another    *)
(* one: the reconnection delay is far longer than the handler's prologue.  *)
(***************************************************************************)
EXTENDS Naturals, Sequences, FiniteSets, SequencesExt

CONSTANTS Conns,           \* the pool of connections
          SendBufferSize,  \* capacity of the client's send channel
          Commands,        \* commands the backend sends
          Malformed,       \* the ones the dispatcher's validation refuses
          MaxEvents        \* bound on heartbeats, commands, broken connections and
                           \* failed dials, together

ASSUME SessionAssumption ==
    /\ SendBufferSize \in Nat \ {0} /\ Malformed \subseteq Commands
    /\ MaxEvents \in Nat

VARIABLES
    client,      \* run(): [pc, conn, before, closing], and whether a handshake is cached
    reader,      \* connection -> readLoop
    writer,      \* connection -> writeLoop
    sendQ,       \* the send channel
    dispatch,    \* command -> where its handler goroutine is
    link,        \* connection -> who gave it up
    stream,      \* connection -> whether the backend's control loop reads it
    registerQ, unregisterQ,  \* the hub's channels; Unregister names the agent only
    hub,         \* the connection registered for the agent, or None
    received,    \* messages the backend has read
    broken,      \* whether the network ever broke a connection
    beats, events

agentVars   == <<client, reader, writer, sendQ, dispatch, beats>>
backendVars == <<stream, registerQ, unregisterQ, hub, received>>
netVars     == <<link, broken, events>>
sessionVars == <<agentVars, backendVars, netVars>>

None        == "none"
Handshake   == [kind |-> "handshake", id |-> 0]
Msg(k, i)   == [kind |-> k, id |-> i]

SessionInit ==
    /\ client = [pc |-> "off", conn |-> None, before |-> FALSE, closing |-> FALSE, cached |-> FALSE]
    /\ reader = [c \in Conns |-> "off"] /\ writer = [c \in Conns |-> "off"]
    /\ sendQ = <<>> /\ beats = 0 /\ events = 0
    /\ dispatch = [k \in Commands |-> "none"]
    /\ link = [c \in Conns |-> {"a"}]
    /\ stream = [c \in Conns |-> FALSE]
    /\ registerQ = <<>> /\ unregisterQ = 0 /\ hub = None
    /\ received = <<>> /\ broken = FALSE

-----------------------------------------------------------------------------
(* Connections. *)

Unused(c) == reader[c] = "off" /\ writer[c] = "off" /\ ~stream[c] /\ hub # c /\ ~Contains(registerQ, c)
GiveUp(c, who) == link' = [link EXCEPT ![c] = @ \cup {who}]

\* The network breaks a connection; each goroutine notices in its own time.
Break(c) ==
    /\ events < MaxEvents /\ events' = events + 1
    /\ link[c] = {}
    /\ GiveUp(c, "net") /\ broken' = TRUE
    /\ UNCHANGED <<agentVars, backendVars>>

-----------------------------------------------------------------------------
(* The agent's client. *)

Connect ==
    /\ client.pc = "off"
    /\ client' = [client EXCEPT !.pc = "dial"]
    /\ UNCHANGED <<reader, writer, sendQ, dispatch, beats, backendVars, netVars>>

\* enqueue: waits for room in the channel.
CanEnqueue  == client.pc # "off" /\ ~client.closing /\ Len(sendQ) < SendBufferSize
enqueue(m)  == CanEnqueue /\ sendQ' = Append(sendQ, m)

\* After the first connection: cached for the reconnections, and sent.
SendHandshake ==
    /\ client.before /\ ~client.cached
    /\ enqueue(Handshake)
    /\ client' = [client EXCEPT !.cached = TRUE]
    /\ UNCHANGED <<reader, writer, dispatch, beats, backendVars, netVars>>

SendHeartbeat ==
    /\ client.cached /\ events < MaxEvents
    /\ enqueue(Msg("heartbeat", beats + 1))
    /\ beats' = beats + 1
    /\ events' = events + 1
    /\ UNCHANGED <<client, reader, writer, dispatch, backendVars, link, broken>>

Close ==
    /\ client.cached /\ ~client.closing
    /\ client' = [client EXCEPT !.closing = TRUE]
    /\ UNCHANGED <<reader, writer, sendQ, dispatch, beats, backendVars, netVars>>

Paused(c) == IF c.closing THEN [c EXCEPT !.pc = "done", !.conn = None]
                          ELSE [c EXCEPT !.pc = "sleep", !.conn = None]

\* One round of run's loop: the dial, and with it the backend's ControlStream up
\* to its loop (upgrade, Register, welcome).
dial(c) ==
    /\ client.pc = "dial" /\ ~client.closing /\ Unused(c)
    /\ client' = [client EXCEPT !.pc = "serve", !.conn = c, !.before = TRUE]
    /\ reader' = [reader EXCEPT ![c] = "on"]
    /\ writer' = [writer EXCEPT ![c] = IF client.before THEN "replay" ELSE "on"]
    /\ link' = [link EXCEPT ![c] = {}]
    /\ stream' = [stream EXCEPT ![c] = TRUE]
    /\ registerQ' = Append(registerQ, c)
    /\ UNCHANGED <<sendQ, dispatch, beats, unregisterQ, hub, received, broken, events>>

dialFails ==
    /\ client.pc = "dial"
    /\ ~client.closing => events < MaxEvents
    /\ events' = IF client.closing THEN events ELSE events + 1
    /\ client' = Paused(client)
    /\ UNCHANGED <<reader, writer, sendQ, dispatch, beats, backendVars, link, broken>>

\* serveConnection returns with the first error of its two loops; run closes the
\* connection.  The other loop is not waited for.
serveConnection ==
    /\ client.pc = "serve"
    /\ "err" \in {reader[client.conn], writer[client.conn]}
    /\ client' = Paused(client)
    /\ GiveUp(client.conn, "a")
    /\ UNCHANGED <<reader, writer, sendQ, dispatch, beats, backendVars, broken, events>>

\* Slip: a session that ends while nothing closes it is not dialled again.
sleepForever ==
    /\ client.pc = "sleep" /\ client.closing
    /\ client' = [client EXCEPT !.pc = "done"]
    /\ UNCHANGED <<reader, writer, sendQ, dispatch, beats, backendVars, netVars>>

sleepReconnect ==
    /\ client.pc = "sleep"
    /\ client' = [client EXCEPT !.pc = IF client.closing THEN "done" ELSE "dial"]
    /\ UNCHANGED <<reader, writer, sendQ, dispatch, beats, backendVars, netVars>>

\* readLoop ends with the first read that fails (a command it reads: SendToAgent).
readLoop(c) ==
    /\ reader[c] = "on" /\ link[c] # {}
    /\ reader' = [reader EXCEPT ![c] = "err"]
    /\ UNCHANGED <<client, writer, sendQ, dispatch, beats, backendVars, netVars>>

\* A write on an open connection reaches the backend; on one the agent closed it
\* fails; on one the other side gave up it fails or vanishes.
Written(c, m) == /\ "a" \notin link[c]
                 /\ received' = IF link[c] = {} /\ m # Handshake THEN Append(received, m) ELSE received
Failed(c, next) == /\ link[c] # {}
                   /\ writer' = [writer EXCEPT ![c] = next]
                   /\ UNCHANGED received

replayHandshake(c) ==
    /\ writer[c] = "replay"
    /\ \/ ~client.cached /\ writer' = [writer EXCEPT ![c] = "on"] /\ UNCHANGED received
       \/ /\ client.cached /\ Written(c, Handshake)
          /\ writer' = [writer EXCEPT ![c] = "on"]
       \/ client.cached /\ Failed(c, "err")
    /\ UNCHANGED <<client, reader, sendQ, dispatch, beats, stream, registerQ, unregisterQ, hub, netVars>>

\* writeLoop takes the next message; a loop whose connection is gone loses it.
writeLoop(c) ==
    /\ writer[c] = "on" /\ sendQ # <<>>
    /\ sendQ' = Tail(sendQ)
    /\ \/ Written(c, Head(sendQ)) /\ UNCHANGED writer
       \/ Failed(c, "err")
    /\ UNCHANGED <<client, reader, dispatch, beats, stream, registerQ, unregisterQ, hub, netVars>>

\* The close channel, or a ping that cannot be written.
writeLoopEnds(c) ==
    /\ writer[c] = "on" /\ (client.closing \/ link[c] # {})
    /\ writer' = [writer EXCEPT ![c] = "err"]
    /\ UNCHANGED <<client, reader, sendQ, dispatch, beats, backendVars, netVars>>

\* Both loops have ended and run has moved on: the connection is forgotten.
Forget(c) ==
    /\ reader[c] = "err" /\ writer[c] = "err" /\ client.conn # c
    /\ reader' = [reader EXCEPT ![c] = "off"] /\ writer' = [writer EXCEPT ![c] = "off"]
    /\ UNCHANGED <<client, sendQ, dispatch, beats, backendVars, netVars>>

-----------------------------------------------------------------------------
(* The dispatcher: one goroutine per command, which ends when a response      *)
(* cannot be enqueued.                                                        *)

Dispatch(k) ==
    /\ \/ /\ dispatch[k] = "received"
          /\ IF k \in Malformed
             THEN enqueue(Msg("nack", k)) /\ dispatch' = [dispatch EXCEPT ![k] = "over"]
             ELSE enqueue(Msg("accepted", k)) /\ dispatch' = [dispatch EXCEPT ![k] = "running"]
       \/ /\ dispatch[k] = "running"
          /\ dispatch' = [dispatch EXCEPT ![k] = "replying"]
          /\ UNCHANGED sendQ
       \/ /\ dispatch[k] = "replying"
          /\ \E kind \in {"done", "error"} : enqueue(Msg(kind, k))
          /\ dispatch' = [dispatch EXCEPT ![k] = "over"]
       \/ /\ dispatch[k] \in {"received", "replying"} /\ client.closing
          /\ dispatch' = [dispatch EXCEPT ![k] = "over"]
          /\ UNCHANGED sendQ
    /\ UNCHANGED <<client, reader, writer, beats, backendVars, netVars>>

-----------------------------------------------------------------------------
(* The backend. *)

\* The hub's loop picks either channel.
hubRegister ==
    /\ registerQ # <<>>
    /\ hub' = Head(registerQ) /\ registerQ' = Tail(registerQ)
    /\ UNCHANGED <<agentVars, stream, unregisterQ, received, netVars>>

\* Slip: the connection dropped from the hub stays open.
hubForgets ==
    /\ unregisterQ > 0
    /\ unregisterQ' = unregisterQ - 1 /\ hub' = None
    /\ UNCHANGED <<agentVars, stream, registerQ, received, netVars>>

\* Whichever connection is registered for the agent is dropped and closed, the
\* one that ended or a newer one.
hubUnregister ==
    /\ unregisterQ > 0
    /\ unregisterQ' = unregisterQ - 1 /\ hub' = None
    /\ IF hub = None THEN UNCHANGED link ELSE GiveUp(hub, "b")
    /\ UNCHANGED <<agentVars, stream, registerQ, received, broken, events>>

\* The loop reads until the connection is given up, and ends with Unregister and
\* Close.
runControlLoop(c) ==
    /\ stream[c] /\ link[c] # {}
    /\ stream' = [stream EXCEPT ![c] = FALSE]
    /\ unregisterQ' = unregisterQ + 1
    /\ GiveUp(c, "b")
    /\ UNCHANGED <<agentVars, registerQ, hub, received, broken, events>>

\* A command goes to the registered connection, where readLoop starts a goroutine
\* for it (handleInbound); elsewhere it is refused or lost.
SendToAgent(k) ==
    /\ dispatch[k] = "none" /\ hub # None
    /\ events < MaxEvents /\ events' = events + 1
    /\ dispatch' = [dispatch EXCEPT ![k] = IF link[hub] = {} THEN "received" ELSE "over"]
    /\ UNCHANGED <<client, reader, writer, sendQ, beats, backendVars, link, broken>>

-----------------------------------------------------------------------------
SessionStep ==
    \/ SendHandshake \/ dialFails \/ serveConnection \/ sleepReconnect
    \/ hubRegister \/ hubUnregister
    \/ \E c \in Conns :
          \/ dial(c) \/ readLoop(c) \/ replayHandshake(c) \/ writeLoop(c) \/ writeLoopEnds(c)
          \/ Forget(c) \/ runControlLoop(c)
    \/ \E k \in Commands : Dispatch(k)

SessionNext ==
    \/ Connect \/ SendHeartbeat \/ Close \/ SessionStep
    \/ \E c \in Conns : Break(c)
    \/ \E k \in Commands : SendToAgent(k)

\* Every goroutine goes on when it can; dials succeed again, and no heartbeat,
\* command, shutdown or fault is forced.  A dial needs a free member of the pool,
\* which the ends of older goroutines provide.
SessionFairness ==
    /\ WF_sessionVars(Connect)
    /\ WF_sessionVars(serveConnection) /\ WF_sessionVars(sleepReconnect)
    /\ WF_sessionVars(hubRegister) /\ WF_sessionVars(hubUnregister)
    /\ WF_sessionVars(\E c \in Conns : dial(c))
    /\ \A c \in Conns : /\ WF_sessionVars(readLoop(c)) /\ WF_sessionVars(runControlLoop(c))
                        /\ WF_sessionVars(writeLoopEnds(c)) /\ WF_sessionVars(replayHandshake(c))
                        /\ WF_sessionVars(Forget(c))

SessionSpec == SessionInit /\ [][SessionNext]_sessionVars /\ SessionFairness

-----------------------------------------------------------------------------
\* The connection the agent serves, if nobody gave it up, is the one the hub has
\* or will have: the agent is never on a connection that no command reaches,
\* although Unregister drops connections by agent and not by connection
\* (ControlHub.run closes what it drops).
NoDeafConnection ==
    client.pc = "serve" /\ link[client.conn] = {} =>
        hub = client.conn \/ Contains(registerQ, client.conn)

\* Whether a message has arrived or waits for a write loop.
Kept(m) == m \in Range(received \o sendQ)

\* What the client has accepted: each heartbeat, and of each command whose handler
\* has come that far the acceptance, then the last response.
Accepted ==
    /\ \A i \in 1..beats : Kept(Msg("heartbeat", i))
    /\ \A k \in Commands :
          /\ dispatch[k] \in {"running", "replying"} => Kept(Msg("accepted", k))
          /\ dispatch[k] = "over" => \E kind \in {"nack", "done", "error"} : Kept(Msg(kind, k))

\* No message arrives twice or is both queued and received, although an old write
\* loop still competes for messages after the client has reconnected; and none is
\* lost, and no connection given up, until the network has broken one or the agent
\* shuts down (writeLoop, ControlHub.run).  How many are lost afterwards is not
\* bounded: what is written to a link given up vanishes until the agent notices,
\* and its loop may take one more.
NoIdleLoss ==
    /\ LET all == received \o sendQ
       IN  \A i, j \in DOMAIN all : all[i] = all[j] /\ all[i] # Handshake => i = j
    /\ broken \/ client.closing \/ Accepted

\* What survives a reconnect (Unregister, writeLoop): commands still reach the
\* agent, nothing it had to say arrives twice, and none of it is lost without a
\* broken connection or a shutdown.
ReconnectSound == NoDeafConnection /\ NoIdleLoss

\* An agent that is not shutting down is registered with the hub again and again,
\* whatever connections break and however late their ends are noticed.
ReachableAgain == []<>(hub # None \/ client.closing)
=============================================================================
