---------------------------- MODULE OperatorHub -----------------------------
(***************************************************************************)
(* The event hub of the operators' WebSockets: hub/hub.go, hub/client.go   *)
(* and websocket_controller.go.  Every client has a send channel, which    *)
(* the hub alone closes, and two goroutines; the handler of incoming       *)
(* messages writes answers into the same channel.  The hub's register and  *)
(* unregister channels are not buffered: the caller waits for the hub.     *)
(***************************************************************************)
EXTENDS Naturals, FiniteSets

CONSTANTS Clients,      \* connections; each is used once
          SendCapacity, \* capacity of a client's send channel
          MaxMessages   \* bound on broadcasts and answers

ASSUME HubAssumption == SendCapacity \in Nat \ {0} /\ MaxMessages \in Nat

VARIABLES
    clients,     \* the hub's set
    queue,       \* client -> messages in its send channel
    closes,      \* client -> times its send channel was closed
    readers,     \* client -> its handler: "new", "welcome", "on", "answer", "leaving", "off"
    writers,     \* client -> WriteLoop: "off", "on"
    open,        \* client -> whether the connection is open
    panicked,    \* clients whose handler wrote to a closed channel
    messages

hubVars == <<clients, queue, closes, readers, writers, open, panicked, messages>>

HubInit ==
    /\ clients = {} /\ panicked = {} /\ messages = 0
    /\ queue = [c \in Clients |-> 0] /\ closes = [c \in Clients |-> 0]
    /\ readers = [c \in Clients |-> "new"] /\ writers = [c \in Clients |-> "off"]
    /\ open = [c \in Clients |-> FALSE]

\* AgentStream up to the welcome message.
AgentStream(c) ==
    /\ readers[c] = "new"
    /\ readers' = [readers EXCEPT ![c] = "welcome"]
    /\ open' = [open EXCEPT ![c] = TRUE]
    /\ clients' = clients \cup {c}
    /\ UNCHANGED <<queue, closes, writers, panicked, messages>>

Drop(S) == /\ clients' = clients \ S
           /\ closes' = [c \in Clients |-> IF c \in S THEN closes[c] + 1 ELSE closes[c]]

\* Slip: the channel of a client that was dropped already is closed again.
clientUnregisterAlways(c) ==
    /\ readers[c] = "leaving" /\ readers' = [readers EXCEPT ![c] = "off"]
    /\ open' = [open EXCEPT ![c] = FALSE]
    /\ Drop({c})
    /\ UNCHANGED <<queue, writers, panicked, messages>>

\* A client the hub dropped before is left alone; ReadLoop closes the connection.
clientUnregister(c) ==
    /\ readers[c] = "leaving" /\ readers' = [readers EXCEPT ![c] = "off"]
    /\ open' = [open EXCEPT ![c] = FALSE]
    /\ Drop({c} \cap clients)
    /\ UNCHANGED <<queue, writers, panicked, messages>>

\* A client whose channel is full is dropped instead of waited for.
hubBroadcast ==
    /\ messages < MaxMessages /\ messages' = messages + 1
    /\ LET full == {c \in clients : queue[c] = SendCapacity} IN
       /\ Drop(full)
       /\ queue' = [c \in Clients |-> IF c \in clients \ full THEN queue[c] + 1 ELSE queue[c]]
    /\ UNCHANGED <<readers, writers, open, panicked>>

\* WriteLoop: the next message, or the end when the channel is closed and drained
\* or the connection is gone; the end closes the connection.
WriteLoop(c) ==
    /\ writers[c] = "on"
    /\ \/ /\ queue[c] > 0 /\ open[c]
          /\ queue' = [queue EXCEPT ![c] = @ - 1]
          /\ UNCHANGED <<writers, open>>
       \/ /\ ~open[c] \/ (queue[c] = 0 /\ closes[c] > 0)
          /\ writers' = [writers EXCEPT ![c] = "off"]
          /\ open' = [open EXCEPT ![c] = FALSE]
          /\ UNCHANGED queue
    /\ UNCHANGED <<clients, closes, readers, panicked, messages>>

\* ReadLoop: a message that gets an answer (handleAgentMessage), or the end.
ReadLoop(c) ==
    /\ readers[c] = "on"
    /\ \/ /\ open[c] /\ messages < MaxMessages /\ messages' = messages + 1
          /\ readers' = [readers EXCEPT ![c] = "answer"]
       \/ /\ ~open[c] /\ UNCHANGED messages
          /\ readers' = [readers EXCEPT ![c] = "leaving"]
    /\ UNCHANGED <<clients, queue, closes, writers, open, panicked>>

\* SendJSON: waits for room; a channel the hub closes, before or meanwhile, is a
\* panic.  It ends the handler; ReadLoop's deferred calls run if it was reached.
SendJSON(c) ==
    /\ readers[c] \in {"welcome", "answer"}
    /\ IF closes[c] > 0
       THEN /\ panicked' = panicked \cup {c}
            /\ readers' = [readers EXCEPT ![c] = IF @ = "answer" THEN "leaving" ELSE "off"]
            /\ UNCHANGED <<queue, writers>>
       ELSE /\ queue[c] < SendCapacity
            /\ queue' = [queue EXCEPT ![c] = @ + 1]
            /\ writers' = [writers EXCEPT ![c] = IF readers[c] = "welcome" THEN "on" ELSE @]
            /\ readers' = [readers EXCEPT ![c] = "on"]
            /\ UNCHANGED panicked
    /\ UNCHANGED <<clients, closes, open, messages>>

Disconnect(c) ==
    /\ open[c] /\ open' = [open EXCEPT ![c] = FALSE]
    /\ UNCHANGED <<clients, queue, closes, readers, writers, panicked, messages>>

HubNext ==
    \/ hubBroadcast
    \/ \E c \in Clients : \/ AgentStream(c) \/ clientUnregister(c) \/ WriteLoop(c) \/ ReadLoop(c)
                          \/ SendJSON(c) \/ Disconnect(c)

HubSpec == HubInit /\ [][HubNext]_hubVars

\* The hub closes a send channel at most once, and never keeps a client whose
\* channel it closed or whose handler has ended: a second close, or a broadcast
\* into a closed channel, would end the one goroutine all operators depend on.
\* Dropping a slow client races its own unregistration (Hub.run, Client.ReadLoop).
ClosedOnce ==
    \A c \in Clients : /\ closes[c] <= 1
                       /\ c \in clients => closes[c] = 0 /\ readers[c] # "off"
=============================================================================
