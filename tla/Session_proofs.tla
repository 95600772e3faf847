---------------------------- MODULE Session_proofs ----------------------------
(***************************************************************************)
(* The control plane's connections, each part for every value of its       *)
(* constants: the tracker of dispatched commands, the sessions of an       *)
(* agent, its enrolment, and the event hub of the operators.               *)
(***************************************************************************)
EXTENDS CommandTracker, AgentSession, Enrollment, OperatorHub,
        FiniteSetTheorems, SequenceTheorems, TLAPS

-----------------------------------------------------------------------------
(* CommandTracker. VerdictBacked and PromptVerdict are not inductive by    *)
(* themselves: WaitForResult returns the entry it reads, so the entry must *)
(* be backed too (StateBacked), and must hold a verdict as long as the     *)
(* waiter has not given up (ReadyHoldsVerdict).                            *)

(* A final state in the table is one an answer has put there. *)
StateBacked ==
    \A r \in Requests : state[r] \in Verdict => state[r] \in verdicts[r]

(* A request that was not dispatched has no entry and no answer; one that  *)
(* was answered in order holds its verdict until its waiter gives up.      *)
ReadyHoldsVerdict ==
    \A r \in Requests :
        /\ pc[r] = "new" => r \notin tracked /\ ~closed[r]
        /\ pc[r] = "ready" => closed[r]
        /\ /\ pc[r] \in {"dispatched", "select", "ready"}
           /\ closed[r] /\ r \notin overtaken
           => state[r] \in Verdict

Prompt == PromptVerdict /\ ReadyHoldsVerdict

IInv == TypeOK /\ ReadyMeansAnswered /\ VerdictBacked /\ StateBacked /\ Prompt

(* No entry exists and nothing was answered when the backend starts. *)
LEMMA InitIInv == Init => IInv
BY DEF Init, IInv, TypeOK, ReadyMeansAnswered, VerdictBacked, StateBacked,
       Prompt, PromptVerdict, ReadyHoldsVerdict, CommandState, Verdict, PCs

(* Every answer handler comes down to an Answer with some command state. *)
LEMMA HandlerAnswers ==
    ASSUME NEW r \in Requests,
           \/ handleCommandAck(r) \/ handleCommandNack(r)
           \/ handleCommandError(r) \/ handleCommandResponse(r)
    PROVE  \E s \in CommandState : Answer(r, s)
BY DEF handleCommandAck, handleCommandNack, handleCommandError,
       handleCommandResponse, CommandState, Verdict

(* An answer keeps the invariant: it closes the channel and enters the     *)
(* verdict in one step.                                                    *)
LEMMA AnswerIInv ==
    ASSUME IInv, NEW r \in Requests, NEW s \in CommandState, Answer(r, s)
    PROVE  IInv'
<1>1. TypeOK'
  BY DEF IInv, TypeOK, Answer, UpdateState, CommandState, Verdict
<1>2. ReadyMeansAnswered'
  BY DEF IInv, TypeOK, ReadyMeansAnswered, Answer, UpdateState
<1>3. VerdictBacked'
  BY DEF IInv, TypeOK, VerdictBacked, Answer
<1>4. StateBacked'
  BY DEF IInv, TypeOK, StateBacked, Answer, UpdateState
<1>5. Prompt'
  BY DEF IInv, TypeOK, ReadyMeansAnswered, Prompt, PromptVerdict, ReadyHoldsVerdict,
         Answer, UpdateState
<1> QED BY <1>1, <1>2, <1>3, <1>4, <1>5 DEF IInv

(* The steps of the waiting goroutine keep the invariant. *)
LEMMA WaitIInv ==
    ASSUME IInv, NEW r \in Requests, Wait(r)
    PROVE  IInv'
<1>1. CASE WaitForResult(r)
  BY <1>1 DEF IInv, TypeOK, ReadyMeansAnswered, VerdictBacked, StateBacked,
              Prompt, PromptVerdict, ReadyHoldsVerdict,
              WaitForResult, Goto, Return, answers, PCs, Verdict
<1>2. CASE WaitReady(r) \/ WaitExpired(r)
  BY <1>2 DEF IInv, TypeOK, ReadyMeansAnswered, VerdictBacked, StateBacked,
              Prompt, PromptVerdict, ReadyHoldsVerdict,
              WaitReady, WaitExpired, Goto, answers, PCs
<1>3. CASE WaitCancel(r)
  <2>1. TypeOK'
    BY <1>3 DEF IInv, TypeOK, WaitCancel, UpdateState, answers, PCs, CommandState, Verdict
  <2>2. ReadyMeansAnswered' /\ StateBacked' /\ VerdictBacked'
    BY <1>3 DEF IInv, TypeOK, ReadyMeansAnswered, StateBacked, VerdictBacked,
                WaitCancel, UpdateState, answers, Verdict
  <2>3. Prompt'
    BY <1>3 DEF IInv, TypeOK, Prompt, PromptVerdict, ReadyHoldsVerdict, WaitCancel,
                UpdateState, answers, Verdict
  <2> QED BY <2>1, <2>2, <2>3 DEF IInv
<1>4. CASE Get(r)
  <2>1. TypeOK'
    BY <1>4 DEF IInv, TypeOK, Get, Return, answers, PCs
  <2>2. ReadyMeansAnswered' /\ StateBacked'
    BY <1>4 DEF IInv, ReadyMeansAnswered, StateBacked, Get, Return, answers
  <2>3. VerdictBacked'
    BY <1>4 DEF IInv, TypeOK, StateBacked, VerdictBacked, Get, Return, answers, Verdict
  <2>4. Prompt'
    BY <1>4 DEF IInv, TypeOK, Prompt, PromptVerdict, ReadyHoldsVerdict, Get, Return,
                answers, Verdict
  <2> QED BY <2>1, <2>2, <2>3, <2>4 DEF IInv
<1> QED BY <1>1, <1>2, <1>3, <1>4 DEF Wait

(* The invariant is inductive. *)
LEMMA NextIInv == IInv /\ [Next]_vars => IInv'
<1> SUFFICES ASSUME IInv, [Next]_vars PROVE IInv'
  OBVIOUS
<1>1. CASE UNCHANGED vars
  BY <1>1 DEF vars, IInv, TypeOK, ReadyMeansAnswered, VerdictBacked, StateBacked,
              Prompt, PromptVerdict, ReadyHoldsVerdict
<1>2. ASSUME NEW r \in Requests, Register(r) PROVE IInv'
  BY <1>2 DEF IInv, TypeOK, ReadyMeansAnswered, VerdictBacked, StateBacked,
              Prompt, PromptVerdict, ReadyHoldsVerdict,
              Register, answers, PCs, CommandState, Verdict
<1>3. ASSUME NEW r \in Requests, Cleanup(r) PROVE IInv'
  BY <1>3 DEF IInv, TypeOK, ReadyMeansAnswered, VerdictBacked, StateBacked,
              Prompt, PromptVerdict, ReadyHoldsVerdict, Cleanup, answers
<1>4. ASSUME NEW r \in Requests,
             \/ handleCommandAck(r) \/ handleCommandNack(r)
             \/ handleCommandError(r) \/ handleCommandResponse(r)
      PROVE  IInv'
  BY <1>4, HandlerAnswers, AnswerIInv
<1>5. ASSUME NEW r \in Requests, Wait(r) PROVE IInv'
  BY <1>5, WaitIInv
<1> QED BY <1>1, <1>2, <1>3, <1>4, <1>5 DEF Next

(* The whole invariant holds in every state of the tracker. *)
LEMMA AlwaysIInv == Spec => []IInv
BY InitIInv, NextIInv, PTL DEF Spec

(* Every variable of the tracker stays in its range. *)
THEOREM TypeCorrect == Spec => []TypeOK
<1>1. IInv => TypeOK BY DEF IInv
<1> QED BY <1>1, AlwaysIInv, PTL

(* The channel of a request is closed if and only if a final answer for it *)
(* was handled (UpdateState, WaitForResult).                               *)
THEOREM ReadySound == Spec => []ReadyMeansAnswered
<1>1. IInv => ReadyMeansAnswered BY DEF IInv
<1> QED BY <1>1, AlwaysIInv, PTL

(* A done or failed result of WaitForResult is an answer the agent gave,   *)
(* also when timeouts, late answers and clean-up interleave with the wait. *)
THEOREM VerdictSound == Spec => []VerdictBacked
<1>1. IInv => VerdictBacked BY DEF IInv
<1> QED BY <1>1, AlwaysIInv, PTL

(* A waiter woken by the channel gets a verdict, unless an answer that only *)
(* reports progress overtook it (WaitForResult reads the entry afresh).     *)
THEOREM PromptSound == Spec => []PromptVerdict
<1>1. IInv => PromptVerdict BY DEF IInv, Prompt
<1> QED BY <1>1, AlwaysIInv, PTL

(* Together: what every caller of WaitForResult relies on. *)
THEOREM Verdicts == Spec => []VerdictsSound
<1>1. IInv => VerdictsSound BY DEF IInv, Prompt, VerdictsSound
<1> QED BY <1>1, AlwaysIInv, PTL

-----------------------------------------------------------------------------
(* The session.  The last connection dialled is the hub's once the hub has *)
(* registered all; what is queued or received is behind the counter or the *)
(* goroutine that made it; and as long as nothing breaks and nobody shuts  *)
(* down, no goroutine ends and what was accepted is kept.                  *)

Kinds   == {"handshake", "heartbeat", "nack", "accepted", "done", "error"}
Message == [kind : Kinds, id : Nat \cup Commands]

SessionTyped ==
    /\ client \in [pc : {"off", "dial", "serve", "sleep", "done"}, conn : Conns \cup {None},
                   before : BOOLEAN, closing : BOOLEAN, cached : BOOLEAN]
    /\ client.pc = "serve" => client.conn \in Conns
    /\ writer \in [Conns -> {"off", "replay", "on", "err"}]
    /\ link \in [Conns -> SUBSET {"a", "b", "net"}]
    /\ registerQ \in Seq(Conns)

HeardInv ==
    client.pc = "serve" /\ link[client.conn] = {} =>
        \/ registerQ = <<>> /\ hub = client.conn
        \/ registerQ # <<>> /\ registerQ[Len(registerQ)] = client.conn

SessionInv == SessionTyped /\ HeardInv

LEMMA SessionInit_Inv == SessionInit => SessionInv
<1> SUFFICES ASSUME SessionInit PROVE SessionInv
  OBVIOUS
<1>1. SessionTyped BY DEF SessionInit, SessionTyped
<1> QED BY <1>1 DEF SessionInit, SessionInv, HeardInv

LEMMA GiveUpFacts ==
    ASSUME SessionTyped, NEW c \in Conns, NEW who \in {"a", "b", "net"}, GiveUp(c, who)
    PROVE  /\ link' \in [Conns -> SUBSET {"a", "b", "net"}] /\ link'[c] # {}
           /\ \A d \in Conns : d # c => link'[d] = link[d]
BY DEF SessionTyped, GiveUp

(* Steps that leave the hub's side of the connections as they are. *)
LEMMA HeardKept ==
    ASSUME SessionInv, UNCHANGED <<registerQ, hub>>,
           client'.pc = "serve" => client.pc = "serve" /\ client'.conn = client.conn,
           \A c \in Conns : link'[c] = {} => link[c] = {}
    PROVE  HeardInv'
BY DEF SessionInv, SessionTyped, HeardInv

LEMMA PausedFacts ==
    ASSUME SessionTyped, client' = Paused(client)
    PROVE  /\ client' \in [pc : {"off", "dial", "serve", "sleep", "done"}, conn : Conns \cup {None},
                           before : BOOLEAN, closing : BOOLEAN, cached : BOOLEAN]
           /\ client'.pc # "serve"
BY DEF SessionTyped, Paused

(* The steps of the agent's client. *)
ClientStep ==
    \/ Connect \/ SendHeartbeat \/ Close \/ SendHandshake \/ dialFails \/ serveConnection \/ sleepReconnect
    \/ \E k \in Commands : Dispatch(k) \/ SendToAgent(k)

LEMMA Client_Inv == SessionInv /\ ClientStep => SessionInv'
<1> SUFFICES ASSUME SessionInv, ClientStep PROVE SessionInv'
  OBVIOUS
<1> USE DEF SessionInv
<1> DEFINE ClientOK == /\ client' \in [pc : {"off", "dial", "serve", "sleep", "done"}, conn : Conns \cup {None},
                                       before : BOOLEAN, closing : BOOLEAN, cached : BOOLEAN]
                       /\ client'.pc = "serve" => client.pc = "serve" /\ client'.conn = client.conn
           LinkOK == /\ link' \in [Conns -> SUBSET {"a", "b", "net"}]
                     /\ \A c \in Conns : link'[c] = {} => link[c] = {}
<1>1. ASSUME ClientOK, LinkOK, UNCHANGED <<writer, registerQ, hub>> PROVE SessionInv'
  <2>1. SessionTyped' BY ONLY SessionInv, <1>1 DEF SessionInv, SessionTyped
  <2>2. HeardInv' BY ONLY SessionInv, <1>1, HeardKept
  <2> QED BY ONLY SessionInv, <1>1, <2>1, <2>2 DEF SessionInv
<1>2. UNCHANGED link => LinkOK BY DEF SessionTyped
<1>3. UNCHANGED client => ClientOK BY DEF SessionTyped
<1>4. CASE Connect
  <2>1. ClientOK BY <1>4 DEF Connect, SessionTyped
  <2> QED BY <1>1, <1>2, <1>4, <2>1 DEF Connect, backendVars, netVars
<1>5. CASE SendHeartbeat BY <1>1, <1>2, <1>3, <1>5 DEF SendHeartbeat, backendVars
<1>6. CASE Close
  <2>1. ClientOK BY <1>6 DEF Close, SessionTyped
  <2> QED BY <1>1, <1>2, <1>6, <2>1 DEF Close, backendVars, netVars
<1>7. CASE SendHandshake
  <2>1. ClientOK BY <1>7 DEF SendHandshake, SessionTyped
  <2> QED BY <1>1, <1>2, <1>7, <2>1 DEF SendHandshake, backendVars, netVars
<1>8. CASE dialFails
  <2>1. ClientOK BY <1>8, PausedFacts DEF dialFails
  <2> QED BY <1>1, <1>2, <1>8, <2>1 DEF dialFails, backendVars
<1>9. CASE serveConnection
  <2>1. ClientOK BY <1>9, PausedFacts DEF serveConnection
  <2>2. client.conn \in Conns BY <1>9 DEF serveConnection, SessionTyped
  <2>3. LinkOK BY <1>9, <2>2, GiveUpFacts DEF serveConnection
  <2> QED BY <1>1, <1>9, <2>1, <2>3 DEF serveConnection, backendVars
<1>10. CASE sleepReconnect
  <2>1. ClientOK BY <1>10 DEF sleepReconnect, SessionTyped
  <2> QED BY <1>1, <1>2, <1>10, <2>1 DEF sleepReconnect, backendVars, netVars
<1>11. ASSUME NEW k \in Commands, Dispatch(k) PROVE SessionInv'
  BY <1>1, <1>2, <1>3, <1>11 DEF Dispatch, backendVars, netVars
<1>12. ASSUME NEW k \in Commands, SendToAgent(k) PROVE SessionInv'
  BY <1>1, <1>2, <1>3, <1>12 DEF SendToAgent, backendVars
<1> QED BY <1>4, <1>5, <1>6, <1>7, <1>8, <1>9, <1>10, <1>11, <1>12 DEF ClientStep

LEMMA Dial_Inv == ASSUME SessionInv, NEW c \in Conns, dial(c) PROVE SessionInv'
<1> USE DEF SessionInv, dial
<1>1. client' \in [pc : {"off", "dial", "serve", "sleep", "done"}, conn : Conns \cup {None},
                   before : BOOLEAN, closing : BOOLEAN, cached : BOOLEAN]
      /\ client'.pc = "serve" /\ client'.conn = c
  BY DEF SessionTyped
<1>2. /\ writer' \in [Conns -> {"off", "replay", "on", "err"}]
      /\ link' \in [Conns -> SUBSET {"a", "b", "net"}]
  <2>1. PICK w \in {"replay", "on"} : writer' = [writer EXCEPT ![c] = w] OBVIOUS
  <2>2. link' = [link EXCEPT ![c] = {}] OBVIOUS
  <2> QED BY ONLY SessionTyped, c \in Conns, <2>1, <2>2 DEF SessionTyped
<1>3. registerQ' \in Seq(Conns) /\ registerQ' # <<>> /\ registerQ'[Len(registerQ')] = c
  <2>1. registerQ' = Append(registerQ, c) /\ registerQ \in Seq(Conns) BY DEF SessionTyped
  <2> QED BY ONLY <2>1, c \in Conns, AppendProperties
<1>4. SessionTyped' BY ONLY SessionTyped, c \in Conns, <1>1, <1>2, <1>3 DEF SessionTyped
<1> QED BY <1>1, <1>3, <1>4 DEF HeardInv

(* The steps of the read and the write loop of a connection. *)
LoopStep(c) ==
    \/ readLoop(c) \/ replayHandshake(c) \/ writeLoop(c) \/ writeLoopEnds(c) \/ Forget(c)

LEMMA Loop_Inv == ASSUME SessionInv, NEW c \in Conns, LoopStep(c) PROVE SessionInv'
<1>1. UNCHANGED <<client, link, registerQ, hub>>
  BY DEF LoopStep, readLoop, replayHandshake, writeLoop, writeLoopEnds, Forget, backendVars, netVars
<1>2. HeardInv' BY <1>1, HeardKept
<1>3. writer' \in [Conns -> {"off", "replay", "on", "err"}]
  <2> USE DEF SessionInv, SessionTyped
  <2>1. CASE readLoop(c) BY <2>1 DEF readLoop
  <2>2. CASE replayHandshake(c) BY <2>2 DEF replayHandshake, Written, Failed
  <2>3. CASE writeLoop(c) BY <2>3 DEF writeLoop, Written, Failed
  <2>4. CASE writeLoopEnds(c) BY <2>4 DEF writeLoopEnds
  <2>5. CASE Forget(c) BY <2>5 DEF Forget
  <2> QED BY <2>1, <2>2, <2>3, <2>4, <2>5 DEF LoopStep
<1>4. SessionTyped' BY ONLY SessionInv, <1>1, <1>3 DEF SessionInv, SessionTyped
<1> QED BY <1>2, <1>4 DEF SessionInv

(* The network and the hub. *)
LEMMA Hub_Inv ==
    ASSUME SessionInv, hubRegister \/ hubUnregister \/ \E c \in Conns : Break(c) \/ runControlLoop(c)
    PROVE  SessionInv'
<1> USE DEF SessionInv
<1>1. UNCHANGED <<client, writer>>
  BY DEF hubRegister, hubUnregister, Break, runControlLoop, agentVars, netVars
<1>2. CASE hubRegister
  <2>1. registerQ' \in Seq(Conns) /\ UNCHANGED link BY <1>2 DEF hubRegister, SessionTyped, netVars
  <2>2. SessionTyped' BY ONLY SessionTyped, <1>1, <2>1 DEF SessionTyped
  <2>3. ASSUME client.pc = "serve", link[client.conn] = {}, registerQ # <<>>, registerQ[Len(registerQ)] = client.conn
        PROVE  \/ registerQ' = <<>> /\ hub' = client.conn
               \/ registerQ' # <<>> /\ registerQ'[Len(registerQ')] = client.conn
    <3>1. registerQ \in Seq(Conns) /\ registerQ' = Tail(registerQ) /\ hub' = Head(registerQ)
      BY <1>2 DEF hubRegister, SessionTyped
    <3>2. CASE Len(registerQ) = 1 BY <2>3, <3>1, <3>2
    <3>3. CASE Len(registerQ) # 1
      <4>1. Len(registerQ') = Len(registerQ) - 1 /\ Len(registerQ) > 1
        <5>1. Len(registerQ) \in Nat /\ Len(registerQ) # 0 BY <2>3, <3>1, EmptySeq
        <5>2. Len(registerQ') = Len(registerQ) - 1 BY <2>3, <3>1, HeadTailProperties
        <5> QED BY <3>3, <5>1, <5>2
      <4>2. registerQ'[Len(registerQ')] = registerQ[Len(registerQ)]
        BY <2>3, <3>1, <4>1, HeadTailProperties
      <4>3. registerQ' # <<>> BY <4>1, EmptySeq
      <4> QED BY <2>3, <4>2, <4>3
    <3> QED BY <3>2, <3>3
  <2> QED BY <1>1, <1>2, <2>1, <2>2, <2>3 DEF HeardInv, hubRegister
<1>3. CASE hubUnregister
  <2>1. hub' = None /\ UNCHANGED registerQ BY <1>3 DEF hubUnregister
  <2>2. /\ link' \in [Conns -> SUBSET {"a", "b", "net"}]
        /\ \A c \in Conns : (link'[c] = {} => link[c] = {}) /\ (c = hub /\ hub # None => link'[c] # {})
    <3>1. CASE hub = None BY <1>3, <3>1 DEF hubUnregister, SessionTyped
    <3>2. CASE hub # None /\ hub \in Conns BY <1>3, <3>2, GiveUpFacts DEF hubUnregister
    <3>3. CASE hub # None /\ hub \notin Conns
      <4>1. link' = link BY <1>3, <3>3 DEF hubUnregister, GiveUp, SessionTyped
      <4> QED BY <3>3, <4>1 DEF SessionTyped
    <3> QED BY <3>1, <3>2, <3>3
  <2>3. SessionTyped' BY ONLY SessionTyped, <1>1, <2>1, <2>2 DEF SessionTyped
  <2> QED BY <1>1, <2>1, <2>2, <2>3 DEF HeardInv, SessionTyped
<1>4. ASSUME NEW c \in Conns, Break(c) \/ runControlLoop(c) PROVE SessionInv'
  <2>1. GiveUp(c, "net") \/ GiveUp(c, "b") BY <1>4 DEF Break, runControlLoop
  <2>2. UNCHANGED <<registerQ, hub>> BY <1>4 DEF Break, runControlLoop, backendVars
  <2>3. link' \in [Conns -> SUBSET {"a", "b", "net"}] /\ \A d \in Conns : link'[d] = {} => link[d] = {}
    BY <2>1, GiveUpFacts
  <2>4. HeardInv' BY <1>1, <2>2, <2>3, HeardKept
  <2>5. SessionTyped' BY ONLY SessionTyped, <1>1, <2>2, <2>3 DEF SessionTyped
  <2> QED BY <2>4, <2>5
<1> QED BY <1>2, <1>3, <1>4

LEMMA SessionNext_Inv == SessionInv /\ [SessionNext]_sessionVars => SessionInv'
<1> SUFFICES ASSUME SessionInv, [SessionNext]_sessionVars PROVE SessionInv'
  OBVIOUS
<1>1. CASE UNCHANGED sessionVars
  <2>1. UNCHANGED <<client, writer, link, registerQ, hub>>
    BY <1>1 DEF sessionVars, agentVars, backendVars, netVars
  <2> QED BY <2>1 DEF SessionInv, SessionTyped, HeardInv
<1> QED BY <1>1, Client_Inv, Dial_Inv, Loop_Inv, Hub_Inv DEF SessionNext, SessionStep, ClientStep, LoopStep

(* A message is queued or received once: each is behind the counter or the *)
(* goroutine that made it, and a write takes it from the queue.            *)
Made(m, b, d) ==
    /\ m.kind = "heartbeat" => m.id \in 1..b
    /\ m.kind \in {"nack", "accepted"} => m.id \in Commands /\ d[m.id] \notin {"none", "received"}
    /\ m.kind \in {"done", "error"} => m.id \in Commands /\ d[m.id] = "over"

AllMade(s, b, d) == \A i \in DOMAIN s : Made(s[i], b, d)
Goroutines     == [Commands -> {"none", "received", "running", "replying", "over"}]

OnceIn(s)      == \A i, j \in DOMAIN s : s[i] = s[j] /\ s[i] # Handshake => i = j
OnceEach(r, q) == /\ OnceIn(r) /\ OnceIn(q)
                  /\ \A i \in DOMAIN r, j \in DOMAIN q : r[i] = q[j] => q[j] = Handshake

QueueTyped ==
    /\ sendQ \in Seq(Message) /\ received \in Seq(Message) /\ beats \in Nat
    /\ dispatch \in Goroutines

QueueInv ==
    /\ QueueTyped
    /\ AllMade(sendQ, beats, dispatch) /\ AllMade(received, beats, dispatch)
    /\ OnceEach(received, sendQ)

LEMMA QueueInit_Inv == SessionInit => QueueInv
BY DEF SessionInit, QueueInv, QueueTyped, OnceEach, OnceIn, AllMade, Goroutines

LEMMA OnceAppend ==
    ASSUME NEW r \in Seq(Message), NEW q \in Seq(Message), NEW m \in Message, OnceEach(r, q),
           m = Handshake \/ /\ \A i \in DOMAIN r : r[i] # m
                            /\ \A i \in DOMAIN q : q[i] # m
    PROVE  OnceEach(r, Append(q, m))
<1> DEFINE n == Len(q)
           p == Append(q, m)
<1>1. n \in Nat /\ DOMAIN q = 1..n /\ DOMAIN p = 1..(n + 1) /\ p[n + 1] = m /\ \A i \in 1..n : p[i] = q[i]
  OBVIOUS
<1> HIDE DEF n, p
<1>2. \A i \in DOMAIN p : i = n + 1 \/ i \in DOMAIN q BY <1>1
<1>3. OnceIn(p) BY <1>1, <1>2 DEF OnceEach, OnceIn
<1>4. \A i \in DOMAIN r, j \in DOMAIN p : r[i] = p[j] => p[j] = Handshake BY <1>1, <1>2 DEF OnceEach
<1> QED BY <1>3, <1>4 DEF OnceEach, p

LEMMA OnceTail ==
    ASSUME NEW r \in Seq(Message), NEW q \in Seq(Message), q # <<>>, OnceEach(r, q)
    PROVE  /\ OnceEach(r, Tail(q))
           /\ Head(q) # Handshake => OnceEach(Append(r, Head(q)), Tail(q))
<1> DEFINE n == Len(q)
           t == Tail(q)
           h == Head(q)
<1>1. n \in Nat \ {0} /\ DOMAIN q = 1..n /\ h = q[1] BY EmptySeq
<1>2. t \in Seq(Message) /\ DOMAIN t = 1..(n - 1) /\ \A i \in 1..(n - 1) : t[i] = q[i + 1] BY <1>1, HeadTailProperties
<1> HIDE DEF n, t, h
<1>3. \A i \in DOMAIN t : i + 1 \in DOMAIN q /\ i + 1 # 1 /\ t[i] = q[i + 1] BY <1>1, <1>2
<1>4. OnceIn(t)
  <2> SUFFICES ASSUME NEW i \in DOMAIN t, NEW j \in DOMAIN t, t[i] = t[j], t[i] # Handshake PROVE i = j
    BY DEF OnceIn
  <2>1. i + 1 = j + 1 BY <1>3 DEF OnceEach, OnceIn
  <2> QED BY <1>1, <1>2, <2>1
<1>5. OnceEach(r, t) BY <1>3, <1>4 DEF OnceEach
<1>6. ASSUME h # Handshake PROVE OnceEach(Append(r, h), t)
  <2> DEFINE k == Len(r)
             p == Append(r, h)
  <2>1. h \in Message BY <1>1, ElementOfSeq DEF n
  <2>2. k \in Nat /\ DOMAIN r = 1..k /\ DOMAIN p = 1..(k + 1) /\ p[k + 1] = h /\ \A i \in 1..k : p[i] = r[i]
    BY <2>1
  <2> HIDE DEF k, p
  <2>3. \A i \in DOMAIN p : i = k + 1 \/ i \in DOMAIN r BY <2>2
  <2>4. \A i \in DOMAIN r : r[i] # h BY <1>1, <1>6 DEF OnceEach
  <2>5. OnceIn(p) BY <2>2, <2>3, <2>4 DEF OnceEach, OnceIn
  <2>6. \A j \in DOMAIN t : t[j] # h BY <1>1, <1>3, <1>6 DEF OnceEach, OnceIn
  <2>7. \A i \in DOMAIN p, j \in DOMAIN t : p[i] = t[j] => t[j] = Handshake
    BY <1>5, <2>2, <2>3, <2>6 DEF OnceEach
  <2> QED BY <1>4, <2>5, <2>7 DEF OnceEach, p
<1> QED BY <1>5, <1>6 DEF t, h

(* The queue as one sequence with what was received. *)
LEMMA OnceInAll ==
    ASSUME NEW r \in Seq(Message), NEW q \in Seq(Message), OnceEach(r, q)
    PROVE  OnceIn(r \o q)
<1> DEFINE k == Len(r)
           n == Len(q)
           s == r \o q
<1>1. /\ k \in Nat /\ n \in Nat /\ DOMAIN r = 1..k /\ DOMAIN q = 1..n /\ DOMAIN s = 1..(k + n)
      /\ \A i \in 1..(k + n) : s[i] = IF i <= k THEN r[i] ELSE q[i - k]
  BY ConcatProperties
<1> HIDE DEF k, n, s
<1> SUFFICES ASSUME NEW i \in 1..(k + n), NEW j \in 1..(k + n), s[i] = s[j], s[i] # Handshake PROVE i = j
  BY <1>1 DEF OnceIn, s
<1>2. \A x \in 1..(k + n) : x <= k => x \in DOMAIN r /\ s[x] = r[x] BY <1>1
<1>3. \A x \in 1..(k + n) : ~(x <= k) => x - k \in DOMAIN q /\ s[x] = q[x - k] BY <1>1
<1>4. CASE i <= k /\ j <= k BY <1>2, <1>4 DEF OnceEach, OnceIn
<1>5. CASE ~(i <= k) /\ ~(j <= k)
  <2>1. i - k = j - k BY <1>3, <1>5 DEF OnceEach, OnceIn
  <2> QED BY <1>1, <2>1
<1>6. CASE i <= k /\ ~(j <= k) BY <1>2, <1>3, <1>6 DEF OnceEach
<1>7. CASE ~(i <= k) /\ j <= k BY <1>2, <1>3, <1>7 DEF OnceEach
<1> QED BY <1>4, <1>5, <1>6, <1>7

(* Counters and goroutines only go on, and what was made stays made. *)
GoneOn(b, d) ==
    /\ b >= beats
    /\ \A k \in Commands : /\ dispatch[k] \notin {"none", "received"} => d[k] \notin {"none", "received"}
                           /\ dispatch[k] = "over" => d[k] = "over"

LEMMA MadeKept ==
    ASSUME QueueTyped, NEW b \in Nat, NEW d \in Goroutines, GoneOn(b, d),
           NEW s \in Seq(Message), AllMade(s, beats, dispatch)
    PROVE  AllMade(s, b, d)
<1> SUFFICES ASSUME NEW i \in DOMAIN s PROVE Made(s[i], b, d)
  BY DEF AllMade
<1>1. PICK m \in Message : m = s[i] OBVIOUS
<1>2. Made(m, beats, dispatch) BY <1>1 DEF AllMade
<1>3. Made(m, b, d) BY <1>2 DEF Made, GoneOn, QueueTyped, Message
<1> QED BY <1>1, <1>3

LEMMA MadeAppend ==
    ASSUME NEW b, NEW d, NEW s \in Seq(Message), AllMade(s, b, d), NEW m \in Message, Made(m, b, d)
    PROVE  AllMade(Append(s, m), b, d)
<1>1. \A i \in DOMAIN Append(s, m) : Append(s, m)[i] = m \/ \E j \in DOMAIN s : Append(s, m)[i] = s[j]
  OBVIOUS
<1> QED BY <1>1 DEF AllMade

LEMMA MadeTail ==
    ASSUME NEW b, NEW d, NEW s \in Seq(Message), s # <<>>, AllMade(s, b, d)
    PROVE  AllMade(Tail(s), b, d) /\ Head(s) \in Message /\ Made(Head(s), b, d)
<1>1. Len(s) \in Nat /\ Len(s) # 0 /\ Head(s) = s[1] /\ 1 \in DOMAIN s BY EmptySeq
<1>2. \A i \in DOMAIN Tail(s) : i + 1 \in DOMAIN s /\ Tail(s)[i] = s[i + 1] BY HeadTailProperties
<1>3. s[1] \in Message BY <1>1
<1> QED BY <1>1, <1>2, <1>3 DEF AllMade

LEMMA QueueSame ==
    ASSUME QueueInv, beats' \in Nat, dispatch' \in Goroutines, GoneOn(beats', dispatch'),
           UNCHANGED <<sendQ, received>>
    PROVE  QueueInv'
<1>1. AllMade(sendQ, beats', dispatch') /\ AllMade(received, beats', dispatch')
  BY MadeKept DEF QueueInv, QueueTyped
<1> QED BY <1>1 DEF QueueInv, QueueTyped

(* What a goroutine or a timer enqueues is new. *)
LEMMA QueueAppend ==
    ASSUME QueueInv, beats' \in Nat, dispatch' \in Goroutines, GoneOn(beats', dispatch'),
           NEW m \in Message, Made(m, beats', dispatch'), m = Handshake \/ ~Made(m, beats, dispatch),
           sendQ' = Append(sendQ, m), UNCHANGED received
    PROVE  QueueInv'
<1> USE DEF QueueInv, QueueTyped
<1>1. AllMade(sendQ, beats', dispatch') /\ AllMade(received, beats', dispatch')
  BY MadeKept
<1>2. AllMade(Append(sendQ, m), beats', dispatch') BY <1>1, MadeAppend
<1>3. OnceEach(received, Append(sendQ, m))
  <2>1. CASE m = Handshake BY <2>1, OnceAppend
  <2>2. CASE ~Made(m, beats, dispatch)
    <3>1. \A i \in DOMAIN received : received[i] # m BY <2>2 DEF AllMade
    <3>2. \A i \in DOMAIN sendQ : sendQ[i] # m BY <2>2 DEF AllMade
    <3> QED BY <3>1, <3>2, OnceAppend
  <2> QED BY <2>1, <2>2
<1>4. Append(sendQ, m) \in Seq(Message) OBVIOUS
<1> QED BY <1>1, <1>2, <1>3, <1>4

(* A write loop takes the next message; it arrives, or is lost. *)
LEMMA QueueTake ==
    ASSUME QueueInv, sendQ # <<>>, sendQ' = Tail(sendQ), UNCHANGED <<beats, dispatch>>,
           received' = received \/ (Head(sendQ) # Handshake /\ received' = Append(received, Head(sendQ)))
    PROVE  QueueInv'
<1> USE DEF QueueInv, QueueTyped
<1>1. /\ AllMade(Tail(sendQ), beats, dispatch) /\ Head(sendQ) \in Message /\ Made(Head(sendQ), beats, dispatch)
      /\ Tail(sendQ) \in Seq(Message)
  BY MadeTail
<1>2. AllMade(Append(received, Head(sendQ)), beats, dispatch) /\ Append(received, Head(sendQ)) \in Seq(Message)
  BY <1>1, MadeAppend
<1>3. /\ OnceEach(received, Tail(sendQ))
      /\ Head(sendQ) # Handshake => OnceEach(Append(received, Head(sendQ)), Tail(sendQ))
  BY OnceTail
<1> QED BY <1>1, <1>2, <1>3

LEMMA Dispatch_Inv == ASSUME QueueInv, NEW k \in Commands, Dispatch(k) \/ SendToAgent(k) PROVE QueueInv'
<1> USE DEF QueueInv, QueueTyped
<1>1. beats' = beats /\ received' = received BY DEF Dispatch, SendToAgent, backendVars
<1>2. ASSUME NEW to \in {"received", "running", "replying", "over"}, dispatch' = [dispatch EXCEPT ![k] = to],
             dispatch[k] \in {"running", "replying"} => to \in {"replying", "over"},
             dispatch[k] # "over"
      PROVE  dispatch' \in Goroutines /\ dispatch'[k] = to /\ GoneOn(beats', dispatch')
  BY <1>1, <1>2 DEF Goroutines, GoneOn
<1>3. ASSUME NEW m \in Message, NEW to \in {"running", "over"}, enqueue(m), dispatch' = [dispatch EXCEPT ![k] = to],
             dispatch[k] \in {"received", "replying"}, dispatch[k] = "replying" => to = "over",
             Made(m, beats', dispatch'), ~Made(m, beats, dispatch)
      PROVE  QueueInv'
  <2>1. dispatch' \in Goroutines /\ GoneOn(beats', dispatch') BY <1>2, <1>3
  <2>2. sendQ' = Append(sendQ, m) BY <1>3 DEF enqueue
  <2> QED BY <1>1, <1>3, <2>1, <2>2, QueueAppend
<1> USE DEF Message, Kinds, Msg, Made
<1>4. CASE dispatch[k] = "received" /\ k \in Malformed /\ enqueue(Msg("nack", k)) /\ dispatch' = [dispatch EXCEPT ![k] = "over"]
  <2>1. dispatch'[k] = "over" BY <1>4, <1>2
  <2> QED BY <1>3, <1>4, <2>1
<1>5. CASE dispatch[k] = "received" /\ enqueue(Msg("accepted", k)) /\ dispatch' = [dispatch EXCEPT ![k] = "running"]
  <2>1. dispatch'[k] = "running" BY <1>5, <1>2
  <2> QED BY <1>3, <1>5, <2>1
<1>6. CASE dispatch[k] = "running" /\ dispatch' = [dispatch EXCEPT ![k] = "replying"] /\ UNCHANGED sendQ
  <2>1. dispatch' \in Goroutines /\ GoneOn(beats', dispatch') BY <1>6, <1>2
  <2> QED BY <1>1, <1>6, <2>1, QueueSame
<1>7. ASSUME NEW kind \in {"done", "error"}, dispatch[k] = "replying", enqueue(Msg(kind, k)),
             dispatch' = [dispatch EXCEPT ![k] = "over"]
      PROVE  QueueInv'
  <2>1. dispatch'[k] = "over" BY <1>7, <1>2
  <2> QED BY <1>3, <1>7, <2>1
<1>8. ASSUME NEW to \in {"received", "over"}, dispatch' = [dispatch EXCEPT ![k] = to], UNCHANGED sendQ,
             dispatch[k] \in {"none", "received", "replying"}, dispatch[k] # "none" => to = "over"
      PROVE  QueueInv'
  <2>1. dispatch' \in Goroutines /\ GoneOn(beats', dispatch') BY <1>8, <1>2
  <2> QED BY <1>1, <1>8, <2>1, QueueSame
<1>9. CASE Dispatch(k)
  <2>1. \/ dispatch[k] = "received" \/ dispatch[k] = "running" \/ dispatch[k] = "replying"
    BY <1>9 DEF Dispatch
  <2>2. CASE dispatch[k] = "received"
    <3>1. \/ k \in Malformed /\ enqueue(Msg("nack", k)) /\ dispatch' = [dispatch EXCEPT ![k] = "over"]
          \/ enqueue(Msg("accepted", k)) /\ dispatch' = [dispatch EXCEPT ![k] = "running"]
          \/ UNCHANGED sendQ /\ dispatch' = [dispatch EXCEPT ![k] = "over"]
      BY <1>9, <2>2 DEF Dispatch
    <3>2. CASE UNCHANGED sendQ /\ dispatch' = [dispatch EXCEPT ![k] = "over"] BY <1>8, <2>2, <3>2
    <3> QED BY <1>4, <1>5, <2>2, <3>1, <3>2
  <2>3. CASE dispatch[k] = "running" BY <1>6, <1>9, <2>3 DEF Dispatch
  <2>4. CASE dispatch[k] = "replying"
    <3>1. CASE UNCHANGED sendQ /\ dispatch' = [dispatch EXCEPT ![k] = "over"] BY <1>8, <2>4, <3>1
    <3>2. ASSUME NEW kind \in {"done", "error"}, enqueue(Msg(kind, k)), dispatch' = [dispatch EXCEPT ![k] = "over"]
          PROVE  QueueInv'
      BY <1>7, <2>4, <3>2
    <3> HIDE DEF QueueInv, QueueTyped, Message, Kinds, Msg, Made
    <3> QED BY <1>9, <2>4, <3>1, <3>2 DEF Dispatch
  <2> QED BY <2>1, <2>2, <2>3, <2>4
<1>10. CASE SendToAgent(k) BY <1>8, <1>10 DEF SendToAgent
<1> QED BY <1>9, <1>10

LEMMA QueueNext_Inv == QueueInv /\ [SessionNext]_sessionVars => QueueInv'
<1> SUFFICES ASSUME QueueInv, [SessionNext]_sessionVars PROVE QueueInv'
  OBVIOUS
<1>1. ASSUME UNCHANGED <<sendQ, received, beats, dispatch>> PROVE QueueInv'
  BY <1>1 DEF QueueInv, QueueTyped
<1>2. CASE UNCHANGED sessionVars BY <1>1, <1>2 DEF sessionVars, agentVars, backendVars
<1>3. CASE Connect \/ Close \/ dialFails \/ serveConnection \/ sleepReconnect
  BY <1>1, <1>3 DEF Connect, Close, dialFails, serveConnection, sleepReconnect, backendVars
<1>4. CASE hubRegister \/ hubUnregister BY <1>1, <1>4 DEF hubRegister, hubUnregister, agentVars
<1>5. ASSUME NEW c \in Conns, dial(c) \/ readLoop(c) \/ writeLoopEnds(c) \/ Forget(c) \/ runControlLoop(c) \/ Break(c)
      PROVE  QueueInv'
  BY <1>1, <1>5 DEF dial, readLoop, writeLoopEnds, Forget, runControlLoop, Break, agentVars, backendVars
<1>6. CASE SendHandshake
  <2>1. Handshake \in Message /\ Made(Handshake, beats', dispatch') BY DEF Handshake, Message, Kinds, Made
  <2>2. GoneOn(beats', dispatch') /\ UNCHANGED <<beats, dispatch, received>> /\ sendQ' = Append(sendQ, Handshake)
    BY <1>6 DEF SendHandshake, enqueue, backendVars, QueueInv, QueueTyped, GoneOn
  <2> QED BY <2>1, <2>2, QueueAppend DEF QueueInv, QueueTyped
<1>7. CASE SendHeartbeat
  <2> DEFINE m == Msg("heartbeat", beats + 1)
  <2>1. beats \in Nat BY DEF QueueInv, QueueTyped
  <2>2. UNCHANGED <<dispatch, received>> /\ beats' = beats + 1 /\ sendQ' = Append(sendQ, m)
    BY <1>7 DEF SendHeartbeat, enqueue, backendVars
  <2>3. m \in Message /\ Made(m, beats', dispatch') /\ ~Made(m, beats, dispatch)
    BY <2>1, <2>2 DEF Msg, Message, Kinds, Made
  <2>4. GoneOn(beats', dispatch') BY <2>1, <2>2 DEF GoneOn
  <2> HIDE DEF m
  <2> QED BY <2>1, <2>2, <2>3, <2>4, QueueAppend DEF QueueInv, QueueTyped
<1>8. ASSUME NEW c \in Conns, replayHandshake(c) PROVE QueueInv'
  BY <1>1, <1>8 DEF replayHandshake, Written, Failed
<1>9. ASSUME NEW c \in Conns, writeLoop(c) PROVE QueueInv'
  <2>1. sendQ # <<>> /\ sendQ' = Tail(sendQ) /\ UNCHANGED <<beats, dispatch>> BY <1>9 DEF writeLoop
  <2>2. received' = received \/ (Head(sendQ) # Handshake /\ received' = Append(received, Head(sendQ)))
    BY <1>9 DEF writeLoop, Written, Failed
  <2> QED BY <2>1, <2>2, QueueTake
<1> QED BY <1>2, <1>3, <1>4, <1>5, <1>6, <1>7, <1>8, <1>9, Dispatch_Inv DEF SessionNext, SessionStep

(* Until a connection breaks or the agent shuts down: what was dialled is  *)
(* open, no goroutine has ended, and what was accepted is in the queue or  *)
(* received.                                                               *)
Here(m, r, q) == (\E i \in DOMAIN r : r[i] = m) \/ \E i \in DOMAIN q : q[i] = m

AllAccepted(b, d, r, q) ==
    /\ \A i \in 1..b : Here(Msg("heartbeat", i), r, q)
    /\ \A k \in Commands :
          /\ d[k] \in {"running", "replying"} => Here(Msg("accepted", k), r, q)
          /\ d[k] = "over" => \E kind \in {"nack", "done", "error"} : Here(Msg(kind, k), r, q)

Quiet ==
    /\ reader \in [Conns -> {"off", "on"}] /\ stream \in [Conns -> BOOLEAN] /\ unregisterQ = 0
    /\ \A c \in Conns : /\ writer[c] # "err"
                        /\ reader[c] = "on" \/ writer[c] # "off" \/ stream[c] => link[c] = {}
    /\ hub # None => hub \in Conns /\ stream[hub]
    /\ \A i \in DOMAIN registerQ : stream[registerQ[i]]

CalmInv == broken \/ client.closing \/ (Quiet /\ AllAccepted(beats, dispatch, received, sendQ))

LEMMA CalmInit_Inv == SessionInit => CalmInv
BY DEF SessionInit, CalmInv, Quiet, AllAccepted

LEMMA StaysBroken ==
    ASSUME [SessionNext]_sessionVars, SessionInv
    PROVE  (broken => broken') /\ (client.closing => client'.closing)
<1>1. broken => broken'
  BY DEF SessionNext, SessionStep, sessionVars, netVars, agentVars, backendVars, Connect, SendHeartbeat, Close, Break,
         SendToAgent, SendHandshake, dialFails, serveConnection, sleepReconnect, hubRegister, hubUnregister, dial,
         readLoop, replayHandshake, writeLoop, writeLoopEnds, Forget, runControlLoop, Dispatch
<1>2. client.closing => client'.closing
  <2> USE DEF SessionInv, SessionTyped
  <2>1. CASE UNCHANGED client BY <2>1
  <2>2. CASE Connect BY <2>2 DEF Connect
  <2>3. CASE Close BY <2>3 DEF Close
  <2>4. CASE SendHandshake BY <2>4 DEF SendHandshake
  <2>5. CASE client' = Paused(client) BY <2>5 DEF Paused
  <2>6. CASE sleepReconnect BY <2>6 DEF sleepReconnect
  <2>7. ASSUME NEW c \in Conns, dial(c) PROVE client.closing => client'.closing BY <2>7 DEF dial
  <2> QED
    BY <2>1, <2>2, <2>3, <2>4, <2>5, <2>6, <2>7
    DEF SessionNext, SessionStep, sessionVars, netVars, agentVars, backendVars, SendHeartbeat, Break,
        SendToAgent, dialFails, serveConnection, hubRegister, hubUnregister,
        readLoop, replayHandshake, writeLoop, writeLoopEnds, Forget, runControlLoop, Dispatch
<1> QED BY <1>1, <1>2

LEMMA QuietKept ==
    ASSUME SessionInv, Quiet, [SessionNext]_sessionVars, ~client.closing, ~client'.closing, ~broken'
    PROVE  Quiet'
<1> USE DEF Quiet
<1>1. ASSUME UNCHANGED <<reader, writer, stream, link, unregisterQ, registerQ, hub>> PROVE Quiet'
  BY <1>1
<1>2. CASE \/ UNCHANGED sessionVars \/ Connect \/ SendHeartbeat \/ SendHandshake \/ dialFails \/ sleepReconnect
           \/ \E k \in Commands : Dispatch(k) \/ SendToAgent(k)
  BY <1>1, <1>2 DEF sessionVars, Connect, SendHeartbeat, SendHandshake, dialFails, sleepReconnect, Dispatch,
                    SendToAgent, agentVars, backendVars, netVars
<1>3. ~Close /\ ~(\E c \in Conns : Break(c)) BY DEF Close, Break, SessionInv, SessionTyped
<1>4. ~serveConnection BY DEF serveConnection, SessionInv, SessionTyped
<1>5. ~hubUnregister BY DEF hubUnregister
<1>6. ASSUME NEW c \in Conns PROVE ~runControlLoop(c) /\ ~Forget(c) /\ ~readLoop(c) /\ ~writeLoopEnds(c)
  BY DEF runControlLoop, Forget, readLoop, writeLoopEnds
<1>7. CASE hubRegister
  <2>1. registerQ \in Seq(Conns) /\ registerQ # <<>> BY <1>7 DEF hubRegister, SessionInv, SessionTyped
  <2>2. Head(registerQ) = registerQ[1] /\ 1 \in DOMAIN registerQ /\ registerQ[1] \in Conns BY <2>1, EmptySeq
  <2>3. \A i \in DOMAIN Tail(registerQ) : i + 1 \in DOMAIN registerQ /\ Tail(registerQ)[i] = registerQ[i + 1]
    BY <2>1, EmptySeq, HeadTailProperties
  <2>4. hub' = registerQ[1] /\ registerQ' = Tail(registerQ)
        /\ UNCHANGED <<reader, writer, stream, link, unregisterQ>>
    BY <1>7, <2>2 DEF hubRegister, agentVars, netVars
  <2> QED BY <2>2, <2>3, <2>4
<1>8. ASSUME NEW c \in Conns, dial(c) PROVE Quiet'
  <2>1. /\ reader' = [reader EXCEPT ![c] = "on"] /\ link' = [link EXCEPT ![c] = {}]
        /\ stream' = [stream EXCEPT ![c] = TRUE] /\ UNCHANGED <<unregisterQ, hub>>
    BY <1>8 DEF dial
  <2>2. /\ \A d \in Conns \ {c} : writer'[d] = writer[d]
        /\ writer'[c] # "err"
    BY <1>8 DEF dial, SessionInv, SessionTyped
  <2>3. link \in [Conns -> SUBSET {"a", "b", "net"}] /\ registerQ \in Seq(Conns)
    BY DEF SessionInv, SessionTyped
  <2>4. \A i \in DOMAIN registerQ' : \/ registerQ'[i] = c
                                     \/ i \in DOMAIN registerQ /\ registerQ'[i] = registerQ[i]
    <3>1. registerQ' = Append(registerQ, c) BY <1>8 DEF dial
    <3> QED BY ONLY <2>3, <3>1, c \in Conns, AppendProperties
  <2>5. \A i \in DOMAIN registerQ' : registerQ'[i] \in Conns BY <2>3, <2>4
  <2>6. \A d \in Conns : stream[d] => stream'[d] BY <2>1
  <2>7. \A i \in DOMAIN registerQ' : stream'[registerQ'[i]] BY <2>1, <2>3, <2>4, <2>5, <2>6
  <2> QED BY <2>1, <2>2, <2>3, <2>6, <2>7
<1>9. ASSUME NEW c \in Conns, replayHandshake(c) \/ writeLoop(c) PROVE Quiet'
  <2>1. UNCHANGED <<reader, stream, link, unregisterQ, registerQ, hub>>
    BY <1>9 DEF replayHandshake, writeLoop, netVars
  <2>2. link[c] = {} BY <1>9 DEF replayHandshake, writeLoop
  <2>3. writer' = [writer EXCEPT ![c] = "on"] \/ writer' = writer
    BY <1>9, <2>2 DEF replayHandshake, writeLoop, Failed
  <2> QED BY <2>1, <2>2, <2>3 DEF SessionInv, SessionTyped
<1> QED BY <1>2, <1>3, <1>4, <1>5, <1>6, <1>7, <1>8, <1>9 DEF SessionNext, SessionStep

\* More in the queue, and a message taken from it that arrives.
LEMMA HereMore ==
    ASSUME NEW r \in Seq(Message), NEW q \in Seq(Message), NEW x \in Message
    PROVE  Here(x, r, Append(q, x)) /\ \A m : Here(m, r, q) => Here(m, r, Append(q, x))
<1>1. /\ \A i \in DOMAIN q : i \in DOMAIN Append(q, x) /\ Append(q, x)[i] = q[i]
      /\ Len(q) + 1 \in DOMAIN Append(q, x) /\ Append(q, x)[Len(q) + 1] = x
  OBVIOUS
<1> QED BY <1>1 DEF Here

LEMMA HereMoved ==
    ASSUME NEW r \in Seq(Message), NEW q \in Seq(Message), q # <<>>, NEW m, Here(m, r, q), m # Handshake,
           NEW s, s = IF Head(q) # Handshake THEN Append(r, Head(q)) ELSE r
    PROVE  Here(m, s, Tail(q))
<1>1. q[1] = Head(q) /\ Head(q) \in Message BY EmptySeq, ElementOfSeq
<1>2. \A i \in DOMAIN q : i = 1 \/ (i - 1 \in DOMAIN Tail(q) /\ Tail(q)[i - 1] = q[i])
  BY EmptySeq, HeadTailProperties
<1>3. \A i \in DOMAIN r : i \in DOMAIN s /\ s[i] = r[i] BY <1>1
<1>4. Head(q) # Handshake => Len(r) + 1 \in DOMAIN s /\ s[Len(r) + 1] = Head(q) BY <1>1
<1> QED BY <1>1, <1>2, <1>3, <1>4 DEF Here

LEMMA AcceptedKept ==
    ASSUME NEW r, NEW q, AllAccepted(beats, dispatch, received, sendQ),
           \A m : Here(m, received, sendQ) /\ m # Handshake => Here(m, r, q)
    PROVE  AllAccepted(beats, dispatch, r, q)
<1>1. \A kind, i : kind # "handshake" => Msg(kind, i) # Handshake BY DEF Msg, Handshake
<1> QED BY <1>1 DEF AllAccepted

LEMMA AcceptedStep ==
    ASSUME QueueInv, Quiet, AllAccepted(beats, dispatch, received, sendQ), [SessionNext]_sessionVars,
           ~client.closing
    PROVE  AllAccepted(beats, dispatch, received, sendQ)'
<1> DEFINE Goal == AllAccepted(beats', dispatch', received', sendQ')
<1> USE DEF QueueInv, QueueTyped
<1>1. ASSUME UNCHANGED <<beats, dispatch>>,
             \A m : Here(m, received, sendQ) /\ m # Handshake => Here(m, received', sendQ')
      PROVE  Goal
  BY <1>1, AcceptedKept
<1>2. ASSUME UNCHANGED <<beats, dispatch, received, sendQ>> PROVE Goal
  BY <1>2
<1>3. ASSUME NEW x \in Message, received' = received, sendQ' = Append(sendQ, x)
      PROVE  /\ Here(x, received', sendQ')
             /\ \A m : Here(m, received, sendQ) => Here(m, received', sendQ')
  BY <1>3, HereMore
<1>4. CASE \/ UNCHANGED sessionVars \/ Connect \/ Close \/ dialFails \/ serveConnection \/ sleepReconnect
           \/ hubRegister \/ hubUnregister
           \/ \E c \in Conns : \/ dial(c) \/ readLoop(c) \/ writeLoopEnds(c) \/ Forget(c) \/ runControlLoop(c)
                               \/ Break(c)
  BY <1>2, <1>4 DEF sessionVars, Connect, Close, dialFails, serveConnection, sleepReconnect, hubRegister,
                    hubUnregister, dial, readLoop, writeLoopEnds, Forget, runControlLoop, Break,
                    agentVars, backendVars, netVars
<1>5. CASE SendHandshake
  <2>1. UNCHANGED <<beats, dispatch, received>> /\ sendQ' = Append(sendQ, Handshake)
    BY <1>5 DEF SendHandshake, enqueue, backendVars
  <2>2. Handshake \in Message BY DEF Handshake, Message, Kinds
  <2> QED BY <1>1, <1>3, <2>1, <2>2
<1>6. CASE SendHeartbeat
  <2> DEFINE x == Msg("heartbeat", beats + 1)
  <2>1. UNCHANGED <<dispatch, received>> /\ beats' = beats + 1 /\ sendQ' = Append(sendQ, x)
    BY <1>6 DEF SendHeartbeat, enqueue, backendVars
  <2>2. x \in Message BY DEF Msg, Message, Kinds
  <2>3. Here(x, received', sendQ') BY <1>3, <2>1, <2>2
  <2>4. \A m : Here(m, received, sendQ) => Here(m, received', sendQ') BY <1>3, <2>1, <2>2
  <2>5. \A i \in 1..beats' : i \in 1..beats \/ i = beats + 1 BY <2>1
  <2> QED BY <2>1, <2>3, <2>4, <2>5 DEF AllAccepted
<1>7. ASSUME NEW c \in Conns, replayHandshake(c) PROVE Goal
  <2>1. link[c] = {} BY <1>7 DEF replayHandshake, Quiet
  <2> QED BY <1>2, <1>7, <2>1 DEF replayHandshake, Written, Failed
<1>8. ASSUME NEW c \in Conns, writeLoop(c) PROVE Goal
  <2>1. link[c] = {} BY <1>8 DEF writeLoop, Quiet
  <2>2. /\ sendQ # <<>> /\ sendQ' = Tail(sendQ) /\ UNCHANGED <<beats, dispatch>>
        /\ received' = IF Head(sendQ) # Handshake THEN Append(received, Head(sendQ)) ELSE received
    BY <1>8, <2>1 DEF writeLoop, Written, Failed
  <2>3. \A m : Here(m, received, sendQ) /\ m # Handshake => Here(m, received', sendQ')
    BY <2>2, HereMoved
  <2> QED BY <1>1, <2>2, <2>3
<1>9. ASSUME NEW k \in Commands, SendToAgent(k) PROVE Goal
  <2>1. dispatch' = [dispatch EXCEPT ![k] = "received"] /\ UNCHANGED <<beats, received, sendQ>>
    BY <1>9 DEF SendToAgent, Quiet, backendVars
  <2> QED BY <2>1 DEF AllAccepted, Goroutines
<1>10. ASSUME NEW k \in Commands, Dispatch(k) PROVE Goal
  <2>1. UNCHANGED <<beats, received>> BY <1>10 DEF Dispatch, backendVars
  <2>2. ASSUME NEW kind \in {"nack", "accepted", "done", "error"}, NEW to, sendQ' = Append(sendQ, Msg(kind, k)),
               dispatch' = [dispatch EXCEPT ![k] = to],
               kind = "accepted" => to = "running", kind # "accepted" => to = "over"
        PROVE  Goal
    <3>1. Msg(kind, k) \in Message BY DEF Msg, Message, Kinds
    <3>2. Here(Msg(kind, k), received', sendQ') BY <1>3, <2>1, <2>2, <3>1
    <3>3. \A m : Here(m, received, sendQ) => Here(m, received', sendQ') BY <1>3, <2>1, <2>2, <3>1
    <3>4. dispatch'[k] = to /\ \A j \in Commands \ {k} : dispatch'[j] = dispatch[j] BY <2>2 DEF Goroutines
    <3> QED BY <2>1, <2>2, <3>2, <3>3, <3>4 DEF AllAccepted
  <2>3. CASE dispatch[k] = "running" /\ dispatch' = [dispatch EXCEPT ![k] = "replying"] /\ UNCHANGED sendQ
    BY <2>1, <2>3 DEF AllAccepted, Goroutines
  <2> QED BY <1>10, <2>2, <2>3 DEF Dispatch, enqueue
<1> QED BY <1>4, <1>5, <1>6, <1>7, <1>8, <1>9, <1>10 DEF SessionNext, SessionStep

LEMMA CalmNext_Inv == SessionInv /\ QueueInv /\ CalmInv /\ [SessionNext]_sessionVars => CalmInv'
<1> SUFFICES ASSUME SessionInv, QueueInv, CalmInv, [SessionNext]_sessionVars, ~broken', ~client'.closing
             PROVE  Quiet' /\ AllAccepted(beats, dispatch, received, sendQ)'
  BY DEF CalmInv
<1>1. ~broken /\ ~client.closing BY StaysBroken
<1> QED BY <1>1, QuietKept, AcceptedStep DEF CalmInv

(* What survives a reconnect, for any number of connections and commands:  *)
(* an agent that serves is heard of by the hub, nothing it had to say      *)
(* arrives twice, and none of it is lost without a broken connection or a  *)
(* shutdown (Register, Unregister, writeLoop).                             *)
THEOREM ReconnectKeeps == SessionSpec => []ReconnectSound
<1>1. SessionInv => NoDeafConnection
  <2> SUFFICES ASSUME SessionInv, client.pc = "serve", link[client.conn] = {}
               PROVE  hub = client.conn \/ Contains(registerQ, client.conn)
    BY DEF NoDeafConnection
  <2>1. CASE registerQ # <<>> /\ registerQ[Len(registerQ)] = client.conn
    <3>1. Len(registerQ) \in 1..Len(registerQ) BY <2>1, EmptySeq DEF SessionInv, SessionTyped
    <3> QED BY <2>1, <3>1 DEF Contains
  <2> QED BY <2>1 DEF SessionInv, HeardInv
<1>2. QueueInv /\ CalmInv => NoIdleLoss
  <2> SUFFICES ASSUME QueueInv, CalmInv PROVE NoIdleLoss
    OBVIOUS
  <2>1. OnceIn(received \o sendQ) BY OnceInAll DEF QueueInv, QueueTyped
  <2>2. \A m : Here(m, received, sendQ) => Kept(m)
    <3>1. /\ \A i \in DOMAIN received : i \in DOMAIN (received \o sendQ) /\ (received \o sendQ)[i] = received[i]
          /\ \A i \in DOMAIN sendQ : /\ i + Len(received) \in DOMAIN (received \o sendQ)
                                     /\ (received \o sendQ)[i + Len(received)] = sendQ[i]
      BY ConcatProperties DEF QueueInv, QueueTyped
    <3> QED BY <3>1 DEF Here, Kept, Range
  <2>3. broken \/ client.closing \/ Accepted BY <2>2 DEF CalmInv, AllAccepted, Accepted
  <2> QED BY <2>1, <2>3 DEF NoIdleLoss, OnceIn
<1>3. SessionSpec => [](SessionInv /\ QueueInv /\ CalmInv)
  <2>1. SessionInit => SessionInv /\ QueueInv /\ CalmInv BY SessionInit_Inv, QueueInit_Inv, CalmInit_Inv
  <2>2. SessionInv /\ QueueInv /\ CalmInv /\ [SessionNext]_sessionVars => (SessionInv /\ QueueInv /\ CalmInv)'
    BY SessionNext_Inv, QueueNext_Inv, CalmNext_Inv
  <2> QED BY <2>1, <2>2, PTL DEF SessionSpec
<1> QED BY <1>1, <1>2, <1>3, PTL DEF ReconnectSound

-----------------------------------------------------------------------------
(* Enrolment.  Without overlap one call is in progress at most; what it    *)
(* has done to the tokens and to the instance follows from how far it is,  *)
(* and an agent that is enrolled makes no further call.                    *)

CallSteps == {"idle", "received", "checked", "resolved", "revoked", "minted", "bound", "answered"}
BootRow   == [used : BOOLEAN, expired : BOOLEAN, profile : {"any", "node_agent"}]
TokenRow  == [agent : Nat, revoked : BOOLEAN, boot : Nat]
CallRow   == [pc : CallSteps, boot : Nat, agent : Nat]

EnrollTyped ==
    /\ instance \in [exists : BOOLEAN, agent : Nat, status : {"absent", "pending_enrollment", "online"}]
    /\ boots \in Seq(BootRow) /\ tokens \in Seq(TokenRow) /\ agents \in Nat
    /\ calls \in [Calls -> CallRow]
    /\ install \in [pc : {"idle", "requested", "script", "rollout", "installed"}, boot : Nat]
    /\ secret \in [boot : Nat, key : Nat]
    /\ pod \in [pc : {"down", "starting", "asking", "running"}, boot : Nat, key : Nat, call : Calls \cup {NoCall}]
    /\ disk = [enrolled |-> disk.enrolled, agent |-> disk.agent, token |-> disk.token, key |-> disk.key]
    /\ made \in [calls : Nat, installs : Nat]

OneAtATime == \A g, h \in Calls : calls[g] # Idle /\ calls[h] # Idle => g = h

(* The tokens of agent a are revoked, but for the last one of the table. *)
OnlyLastValid(a) ==
    /\ tokens # <<>> /\ tokens[Len(tokens)].agent = a /\ ~tokens[Len(tokens)].revoked
    /\ \A t \in DOMAIN tokens : t # Len(tokens) /\ tokens[t].agent = a => tokens[t].revoked

CallSound(h) ==
    /\ calls[h].pc = "revoked" =>
          \A t \in DOMAIN tokens : tokens[t].agent = calls[h].agent => tokens[t].revoked
    /\ calls[h].pc \in {"minted", "bound", "answered"} => OnlyLastValid(calls[h].agent)
    /\ calls[h].pc \in {"bound", "answered"} => instance.agent = calls[h].agent

Served ==
    /\ instance.agent = disk.agent
    /\ {t \in DOMAIN tokens : tokens[t].agent = disk.agent /\ ~tokens[t].revoked} = {disk.token}

NothingYet ==
    /\ secret.boot = 0 /\ install.pc \in {"idle", "requested"} /\ pod.pc = "down"
    /\ \A h \in Calls : calls[h] = Idle
    /\ ~disk.enrolled

Apart ==
    ~overlapped =>
        /\ OneAtATime
        /\ \A h \in Calls : CallSound(h)
        /\ disk.enrolled => Served /\ \A h \in Calls : calls[h] = Idle

EnrollInv ==
    /\ EnrollTyped
    /\ ~instance.exists => NothingYet
    /\ pod.pc = "running" => disk.enrolled
    /\ Apart

LEMMA EnrollInit_Inv == EnrollInit => EnrollInv
<1> SUFFICES ASSUME EnrollInit PROVE EnrollInv
  OBVIOUS
<1> USE DEF EnrollInit, Idle, NoOne
<1>1. EnrollTyped BY DEF EnrollTyped, CallRow, CallSteps
<1>2. NothingYet BY DEF NothingYet
<1>3. \A h \in Calls : calls[h].pc = "idle" OBVIOUS
<1> QED BY <1>1, <1>2, <1>3 DEF EnrollInv, Apart, OneAtATime, CallSound

LEMMA CallAt ==
    ASSUME EnrollTyped, NEW h \in Calls, NEW new \in CallRow, calls' = [calls EXCEPT ![h] = new]
    PROVE  calls' \in [Calls -> CallRow] /\ \A g \in Calls : calls'[g] = IF g = h THEN new ELSE calls[g]
BY DEF EnrollTyped

(* What a step of the handler makes of its call. *)
LEMMA CallTo ==
    ASSUME EnrollTyped, NEW h \in Calls, NEW p \in CallSteps, calls' = [calls EXCEPT ![h].pc = p]
    PROVE  /\ calls' \in [Calls -> CallRow]
           /\ calls'[h] = [pc |-> p, boot |-> calls[h].boot, agent |-> calls[h].agent]
           /\ \A g \in Calls : g # h => calls'[g] = calls[g]
<1>1. calls' = [calls EXCEPT ![h] = [calls[h] EXCEPT !.pc = p]] OBVIOUS
<1>2. calls[h] \in CallRow BY DEF EnrollTyped
<1>3. [calls[h] EXCEPT !.pc = p] = [pc |-> p, boot |-> calls[h].boot, agent |-> calls[h].agent]
  BY <1>2 DEF CallRow
<1>4. [pc |-> p, boot |-> calls[h].boot, agent |-> calls[h].agent] \in CallRow BY <1>2 DEF CallRow
<1> QED BY <1>1, <1>3, <1>4, CallAt

LEMMA RevokedTyped == ASSUME boots \in Seq(BootRow) PROVE RevokeActiveForInstance(boots) \in Seq(BootRow)
<1>1. \A b \in DOMAIN boots : boots[b] \in BootRow OBVIOUS
<1>2. \A b \in DOMAIN boots : RevokeActiveForInstance(boots)[b] \in BootRow
  BY <1>1 DEF RevokeActiveForInstance, BootRow
<1>3. Len(boots) \in Nat /\ DOMAIN boots = 1..Len(boots) OBVIOUS
<1>4. RevokeActiveForInstance(boots) \in [1..Len(boots) -> BootRow]
  BY <1>2, <1>3 DEF RevokeActiveForInstance
<1> QED BY <1>3, <1>4, SeqDef

LEMMA MarkedTyped ==
    ASSUME boots \in Seq(BootRow), NEW b
    PROVE  /\ [boots EXCEPT ![b].used = TRUE] \in Seq(BootRow)
           /\ [boots EXCEPT ![b].expired = TRUE] \in Seq(BootRow)
<1> DEFINE n == Len(boots)
<1>1. n \in Nat /\ boots \in [1..n -> BootRow] OBVIOUS
<1>2. \A row \in BootRow : [row EXCEPT !.used = TRUE] \in BootRow /\ [row EXCEPT !.expired = TRUE] \in BootRow
  BY DEF BootRow
<1>3. /\ [boots EXCEPT ![b].used = TRUE] \in [1..n -> BootRow]
      /\ [boots EXCEPT ![b].expired = TRUE] \in [1..n -> BootRow]
  <2> HIDE DEF n
  <2> QED BY ONLY <1>1, <1>2
<1> QED BY <1>1, <1>3, SeqDef

(* Steps that leave the enrolment endpoint alone. *)
LEMMA ApartKept ==
    ASSUME Apart, UNCHANGED <<tokens, calls, disk, overlapped>>, instance'.agent = instance.agent
    PROVE  Apart'
BY DEF Apart, OneAtATime, CallSound, OnlyLastValid, Served

LEMMA InstallSteps_Inv ==
    ASSUME EnrollInv,
           \/ ConnectInfraSSH \/ IssueBootstrapTokenWithProfile \/ buildInstallAgentCommand
           \/ UpsertManagedFromBootstrap \/ Attach \/ InstallFails \/ ConnectNodeViaSSH \/ BootstrapExpires
    PROVE  EnrollInv'
<1> USE DEF EnrollInv, EnrollTyped, NothingYet
<1>1. UNCHANGED <<instance, tokens, agents, calls, disk, overlapped, pod>>
  BY DEF ConnectInfraSSH, IssueBootstrapTokenWithProfile, buildInstallAgentCommand,
         UpsertManagedFromBootstrap, Attach, InstallFails, ConnectNodeViaSSH, BootstrapExpires
<1>2. Apart' BY <1>1, ApartKept
<1>3. CASE ConnectInfraSSH BY <1>1, <1>2, <1>3 DEF ConnectInfraSSH
<1>4. CASE IssueBootstrapTokenWithProfile
  <2> DEFINE row == [used |-> FALSE, expired |-> FALSE, profile |-> "node_agent"]
  <2>1. row \in BootRow BY DEF BootRow
  <2>2. boots' = Append(RevokeActiveForInstance(boots), row)
    BY <1>4 DEF IssueBootstrapTokenWithProfile, issueBootstrapToken
  <2>3. boots' \in Seq(BootRow) BY <2>1, <2>2, RevokedTyped
  <2>4. instance.exists /\ install' = [pc |-> "script", boot |-> Len(boots) + 1] /\ UNCHANGED <<secret, made>>
    BY <1>4 DEF IssueBootstrapTokenWithProfile
  <2>5. Len(boots) \in Nat OBVIOUS
  <2> QED BY <1>1, <1>2, <2>3, <2>4, <2>5
<1>5. CASE buildInstallAgentCommand BY <1>1, <1>2, <1>5 DEF buildInstallAgentCommand
<1>6. CASE UpsertManagedFromBootstrap BY <1>1, <1>2, <1>6 DEF UpsertManagedFromBootstrap
<1>7. CASE Attach BY <1>1, <1>2, <1>7 DEF Attach
<1>8. CASE InstallFails BY <1>1, <1>2, <1>8 DEF InstallFails
<1>9. CASE ConnectNodeViaSSH BY <1>1, <1>2, <1>9 DEF ConnectNodeViaSSH
<1>10. CASE BootstrapExpires
  <2>1. PICK b \in DOMAIN boots : boots' = [boots EXCEPT ![b].expired = TRUE] BY <1>10 DEF BootstrapExpires
  <2>2. boots' \in Seq(BootRow) BY <2>1, MarkedTyped
  <2> QED BY <1>1, <1>2, <1>10, <2>2 DEF BootstrapExpires
<1> QED BY <1>3, <1>4, <1>5, <1>6, <1>7, <1>8, <1>9, <1>10

LEMMA Create_Inv == ASSUME EnrollInv, Create PROVE EnrollInv'
<1> USE DEF EnrollInv, EnrollTyped, NothingYet, Create
<1>1. NothingYet OBVIOUS
<1>2. \A h \in Calls : calls'[h] = Idle BY <1>1
<1>3. \A h \in Calls : calls'[h].pc = "idle" BY <1>2 DEF Idle
<1>4. Apart' BY <1>1, <1>2, <1>3 DEF Apart, OneAtATime, CallSound
<1>5. boots' \in Seq(BootRow)
  <2>1. [used |-> FALSE, expired |-> FALSE, profile |-> "any"] \in BootRow BY DEF BootRow
  <2> QED BY <2>1 DEF issueBootstrapToken
<1> QED BY <1>4, <1>5

LEMMA PodSteps_Inv ==
    ASSUME EnrollInv, StartPod \/ LoadAgentToken \/ PodCrash \/ EnrollTimeout
    PROVE  EnrollInv'
<1> USE DEF EnrollInv, EnrollTyped, NothingYet
<1>1. UNCHANGED <<instance, boots, tokens, agents, calls, install, secret, disk, made, overlapped>>
  BY DEF StartPod, LoadAgentToken, PodCrash, EnrollTimeout
<1>2. Apart' BY <1>1, ApartKept
<1>3. CASE StartPod BY <1>1, <1>2, <1>3 DEF StartPod
<1>4. CASE LoadAgentToken BY <1>1, <1>2, <1>4 DEF LoadAgentToken
<1>5. CASE PodCrash BY <1>1, <1>2, <1>5 DEF PodCrash, Down
<1>6. CASE EnrollTimeout BY <1>1, <1>2, <1>6 DEF EnrollTimeout, Down
<1> QED BY <1>3, <1>4, <1>5, <1>6

(* A step of the one call in progress concerns no other and finds the      *)
(* agent not enrolled.                                                     *)
LEMMA ApartStep ==
    ASSUME EnrollInv, NEW h \in Calls, calls[h] # Idle, \A g \in Calls : g # h => calls'[g] = calls[g],
           UNCHANGED <<disk, overlapped>>, ~overlapped => CallSound(h)'
    PROVE  Apart'
<1> SUFFICES ASSUME ~overlapped
             PROVE  OneAtATime' /\ (\A g \in Calls : CallSound(g)') /\ ~disk'.enrolled
  BY DEF Apart
<1>1. \A g \in Calls : g # h => calls[g] = Idle BY DEF EnrollInv, Apart, OneAtATime
<1>2. \A g \in Calls : g # h => calls'[g] = Idle BY <1>1
<1>3. ~disk.enrolled BY DEF EnrollInv, Apart
<1>4. ASSUME NEW g \in Calls, g # h PROVE CallSound(g)'
  <2>1. calls'[g].pc = "idle" BY <1>2, <1>4 DEF Idle
  <2> QED BY <2>1 DEF CallSound
<1> QED BY <1>2, <1>3, <1>4 DEF OneAtATime

LEMMA Request_Inv == ASSUME EnrollInv, NEW h \in Calls, requestEnrollment(h) PROVE EnrollInv'
<1> USE DEF requestEnrollment
<1> DEFINE new == [pc |-> "received", boot |-> pod.boot, agent |-> 0]
<1>1. new \in CallRow BY DEF EnrollInv, EnrollTyped, CallRow, CallSteps
<1>2. calls' \in [Calls -> CallRow] /\ \A g \in Calls : calls'[g] = IF g = h THEN new ELSE calls[g]
  <2>1. calls' = [calls EXCEPT ![h] = new] OBVIOUS
  <2> HIDE DEF new
  <2> QED BY <1>1, <2>1, CallAt DEF EnrollInv
<1>3. ~overlapped' => ~overlapped /\ \A g \in Calls : calls[g] = Idle BY DEF InProgress
<1>4. ~disk'.enrolled /\ calls'[h].pc = "received" BY <1>2
<1>5. \A g \in Calls : calls[g] = Idle => calls[g].pc = "idle" BY DEF Idle
<1>6. ~overlapped' => \A g \in Calls : CallSound(g)' BY <1>2, <1>3, <1>4, <1>5 DEF CallSound
<1>7. Apart' BY <1>2, <1>3, <1>4, <1>6 DEF Apart, OneAtATime
<1>8. EnrollTyped'
  <2>1. made' \in [calls : Nat, installs : Nat] BY DEF EnrollInv, EnrollTyped
  <2>2. pod' \in [pc : {"down", "starting", "asking", "running"}, boot : Nat, key : Nat, call : Calls \cup {NoCall}]
    BY DEF EnrollInv, EnrollTyped
  <2>3. UNCHANGED <<instance, boots, tokens, agents, install, secret, disk>> BY Zenon
  <2>4. EnrollTyped BY DEF EnrollInv
  <2> QED BY ONLY <1>2, <2>1, <2>2, <2>3, <2>4 DEF EnrollTyped
<1>9. pod'.pc = "asking" BY DEF EnrollInv, EnrollTyped
<1>10. instance'.exists BY DEF EnrollInv, NothingYet
<1> QED BY <1>7, <1>8, <1>9, <1>10 DEF EnrollInv

LEMMA Check_Inv == ASSUME EnrollInv, NEW h \in Calls, checkBootstrapToken(h) PROVE EnrollInv'
<1> USE DEF checkBootstrapToken
<1>1. EnrollTyped /\ calls[h].pc = "received" /\ calls[h] # Idle BY DEF EnrollInv, Idle
<1>2. instance.exists BY <1>1 DEF EnrollInv, NothingYet
<1>3. CASE Usable(calls[h].boot)
  <2> DEFINE new == [pc |-> "checked", boot |-> calls[h].boot, agent |-> instance.agent]
  <2>1. new \in CallRow BY <1>1 DEF CallSteps, CallRow, EnrollTyped
  <2>2. calls' = [calls EXCEPT ![h] = new] BY <1>3
  <2>3. calls' \in [Calls -> CallRow] /\ \A g \in Calls : calls'[g] = IF g = h THEN new ELSE calls[g]
    <3> HIDE DEF new
    <3> QED BY <1>1, <2>1, <2>2, CallAt
  <2>4. UNCHANGED <<instance, boots, tokens, agents, install, secret, pod, disk, made, overlapped>> BY <1>3, Zenon
  <2>5. Apart' BY <1>1, <2>3, <2>4, ApartStep DEF CallSound
  <2> QED BY <1>2, <2>3, <2>4, <2>5 DEF EnrollInv, EnrollTyped
<1>4. CASE ~Usable(calls[h].boot)
  <2>1. calls' = [calls EXCEPT ![h] = Idle] /\ pod' \in {Down, pod} BY <1>4 DEF Refused
  <2>2. Idle \in CallRow BY DEF Idle, CallRow, CallSteps
  <2>3. calls' \in [Calls -> CallRow] /\ \A g \in Calls : calls'[g] = IF g = h THEN Idle ELSE calls[g]
    BY <1>1, <2>1, <2>2, CallAt
  <2>4. UNCHANGED <<instance, boots, tokens, agents, install, secret, disk, made, overlapped>> BY <1>4
  <2>5. Apart' BY <1>1, <2>3, <2>4, ApartStep DEF CallSound, Idle
  <2> QED BY <1>2, <2>1, <2>3, <2>4, <2>5 DEF EnrollInv, EnrollTyped, Down
<1> QED BY <1>3, <1>4

LEMMA Resolve_Inv == ASSUME EnrollInv, NEW h \in Calls, resolveOrCreateAgent(h) PROVE EnrollInv'
<1> USE DEF resolveOrCreateAgent
<1>1. EnrollTyped /\ calls[h].pc = "checked" /\ calls[h] # Idle BY DEF EnrollInv, Idle
<1>2. instance.exists BY <1>1 DEF EnrollInv, NothingYet
<1> DEFINE a == IF calls[h].agent # 0 THEN calls[h].agent ELSE agents + 1
           new == [pc |-> "resolved", boot |-> calls[h].boot, agent |-> a]
<1>3. a \in Nat /\ new \in CallRow BY <1>1 DEF EnrollTyped, CallRow, CallSteps
<1>4. /\ calls' = [calls EXCEPT ![h] = new] /\ agents' \in {a, agents}
      /\ UNCHANGED <<instance, boots, tokens, install, secret, pod, disk, made, overlapped>>
  OBVIOUS
<1>5. calls' \in [Calls -> CallRow] /\ \A g \in Calls : calls'[g] = IF g = h THEN new ELSE calls[g]
  <2> HIDE DEF new
  <2> QED BY <1>1, <1>3, <1>4, CallAt
<1>6. Apart' BY <1>1, <1>4, <1>5, ApartStep DEF CallSound
<1>7. EnrollTyped' BY <1>3, <1>4, <1>5 DEF EnrollInv, EnrollTyped
<1> QED BY <1>2, <1>4, <1>6, <1>7 DEF EnrollInv

LEMMA RevokedTokens ==
    ASSUME tokens \in Seq(TokenRow), NEW a,
           tokens' = [t \in DOMAIN tokens |-> IF tokens[t].agent = a THEN [tokens[t] EXCEPT !.revoked = TRUE] ELSE tokens[t]]
    PROVE  tokens' \in Seq(TokenRow) /\ \A t \in DOMAIN tokens' : tokens'[t].agent = a => tokens'[t].revoked
<1>1. Len(tokens) \in Nat /\ DOMAIN tokens = 1..Len(tokens) OBVIOUS
<1>2. \A t \in DOMAIN tokens : tokens[t] \in TokenRow OBVIOUS
<1>3. \A t \in DOMAIN tokens : tokens'[t] \in TokenRow /\ (tokens'[t].agent = a => tokens'[t].revoked)
  BY <1>2 DEF TokenRow
<1>4. tokens' \in [1..Len(tokens) -> TokenRow] BY <1>1, <1>3
<1> QED BY <1>1, <1>3, <1>4, SeqDef

LEMMA Tokens_Inv == ASSUME EnrollInv, NEW h \in Calls, RevokeAndCreateToken(h) PROVE EnrollInv'
<1> DEFINE a == calls[h].agent
<1>1. EnrollTyped /\ calls[h].pc \in {"resolved", "revoked"} /\ calls[h] # Idle
  BY DEF EnrollInv, RevokeAndCreateToken, Idle
<1>2. instance.exists BY <1>1 DEF EnrollInv, NothingYet
<1>3. UNCHANGED <<instance, boots, agents, install, secret, pod, disk, made, overlapped>>
  BY DEF RevokeAndCreateToken
<1>4. ASSUME NEW p \in {"revoked", "minted"}, calls' = [calls EXCEPT ![h].pc = p],
             tokens' \in Seq(TokenRow), ~overlapped => CallSound(h)'
      PROVE  EnrollInv'
  <2>1. calls' \in [Calls -> CallRow] /\ \A g \in Calls : g # h => calls'[g] = calls[g]
    BY <1>1, <1>4, CallTo DEF CallSteps
  <2>2. Apart' BY <1>1, <1>3, <1>4, <2>1, ApartStep
  <2> QED BY <1>2, <1>3, <1>4, <2>1, <2>2 DEF EnrollInv, EnrollTyped
<1>5. CASE calls[h].pc = "resolved"
  <2>1. /\ calls' = [calls EXCEPT ![h].pc = "revoked"]
        /\ tokens' = [t \in DOMAIN tokens |-> IF tokens[t].agent = a THEN [tokens[t] EXCEPT !.revoked = TRUE] ELSE tokens[t]]
    BY <1>5 DEF RevokeAndCreateToken
  <2>2. tokens' \in Seq(TokenRow) /\ \A t \in DOMAIN tokens' : tokens'[t].agent = a => tokens'[t].revoked
    <3> HIDE DEF a
    <3> QED BY <1>1, <2>1, RevokedTokens DEF EnrollTyped
  <2>3. calls'[h] = [pc |-> "revoked", boot |-> calls[h].boot, agent |-> a]
    BY <1>1, <2>1, CallTo DEF CallSteps
  <2>4. CallSound(h)' BY <2>2, <2>3 DEF CallSound
  <2> QED BY <1>4, <2>1, <2>2, <2>4
<1>6. CASE calls[h].pc = "revoked"
  <2> DEFINE row == [agent |-> a, revoked |-> FALSE, boot |-> calls[h].boot]
  <2>1. calls' = [calls EXCEPT ![h].pc = "minted"] /\ tokens' = Append(tokens, row)
    BY <1>6 DEF RevokeAndCreateToken
  <2>2. row \in TokenRow BY <1>1 DEF EnrollTyped, CallRow, TokenRow
  <2>3. tokens \in Seq(TokenRow) BY <1>1 DEF EnrollTyped
  <2>4. /\ tokens' \in Seq(TokenRow) /\ Len(tokens') = Len(tokens) + 1 /\ tokens'[Len(tokens')] = row
        /\ tokens' # <<>> /\ \A t \in DOMAIN tokens' : t # Len(tokens') => t \in DOMAIN tokens /\ tokens'[t] = tokens[t]
    <3> HIDE DEF row
    <3> QED BY <2>1, <2>2, <2>3
  <2>5. calls'[h] = [pc |-> "minted", boot |-> calls[h].boot, agent |-> a]
    BY <1>1, <2>1, CallTo DEF CallSteps
  <2>6. ASSUME ~overlapped PROVE CallSound(h)'
    <3>1. \A t \in DOMAIN tokens : tokens[t].agent = a => tokens[t].revoked
      BY <1>6, <2>6 DEF EnrollInv, Apart, CallSound
    <3>2. OnlyLastValid(a)' BY <2>4, <2>5, <3>1 DEF OnlyLastValid
    <3> QED BY <2>5, <3>2 DEF CallSound
  <2> QED BY <1>4, <2>1, <2>4, <2>6
<1> QED BY <1>1, <1>5, <1>6

LEMMA Bind_Inv == ASSUME EnrollInv, NEW h \in Calls, UpdateAgentState(h) PROVE EnrollInv'
<1> USE DEF UpdateAgentState
<1>1. EnrollTyped /\ calls[h].pc = "minted" /\ calls[h] # Idle BY DEF EnrollInv, Idle
<1>2. instance.exists BY <1>1 DEF EnrollInv, NothingYet
<1>3. calls' = [calls EXCEPT ![h].pc = "bound"] OBVIOUS
<1>4. /\ calls' \in [Calls -> CallRow] /\ calls'[h] = [pc |-> "bound", boot |-> calls[h].boot, agent |-> calls[h].agent]
      /\ \A g \in Calls : g # h => calls'[g] = calls[g]
  BY <1>1, <1>3, CallTo DEF CallSteps
<1>5. calls[h].agent \in Nat BY <1>1 DEF EnrollTyped, CallRow
<1> DEFINE Row == [exists : BOOLEAN, agent : Nat, status : {"absent", "pending_enrollment", "online"}]
<1>6. instance' \in Row /\ instance'.exists /\ instance'.agent = calls[h].agent
  <2>1. PICK n \in Nat : n = calls[h].agent BY <1>5
  <2>2. instance' = [instance EXCEPT !.agent = n, !.status = "online"] BY <2>1, Zenon
  <2>3. instance \in Row BY <1>1 DEF EnrollTyped
  <2>4. instance' \in Row /\ instance'.exists /\ instance'.agent = n BY ONLY <1>2, <2>2, <2>3
  <2> QED BY <2>1, <2>4
<1>7. UNCHANGED <<boots, tokens, agents, install, secret, pod, disk, made, overlapped>> OBVIOUS
<1>8. ASSUME ~overlapped PROVE CallSound(h)'
  <2>1. OnlyLastValid(calls[h].agent) BY <1>1, <1>8 DEF EnrollInv, Apart, CallSound
  <2> QED BY <1>4, <1>6, <1>7, <2>1 DEF CallSound, OnlyLastValid
<1>9. Apart' BY <1>1, <1>4, <1>7, <1>8, ApartStep
<1>10. EnrollTyped' BY ONLY <1>1, <1>4, <1>5, <1>6, <1>7 DEF EnrollTyped
<1>11. pod.pc = "running" => disk.enrolled BY DEF EnrollInv
<1> QED BY ONLY <1>6, <1>7, <1>9, <1>10, <1>11 DEF EnrollInv

LEMMA MarkUsed_Inv == ASSUME EnrollInv, NEW h \in Calls, MarkUsed(h) PROVE EnrollInv'
<1> USE DEF MarkUsed
<1>1. EnrollTyped /\ calls[h].pc = "bound" /\ calls[h] # Idle BY DEF EnrollInv, Idle
<1>2. instance.exists BY <1>1 DEF EnrollInv, NothingYet
<1>3. calls' = [calls EXCEPT ![h].pc = "answered"] OBVIOUS
<1>4. /\ calls' \in [Calls -> CallRow] /\ calls'[h] = [pc |-> "answered", boot |-> calls[h].boot, agent |-> calls[h].agent]
      /\ \A g \in Calls : g # h => calls'[g] = calls[g]
  BY <1>1, <1>3, CallTo DEF CallSteps
<1>5. boots' \in Seq(BootRow)
  <2>1. PICK b : b = calls[h].boot OBVIOUS
  <2>2. boots' = [boots EXCEPT ![b].used = TRUE] BY <2>1
  <2>3. boots \in Seq(BootRow) BY <1>1 DEF EnrollTyped
  <2> QED BY ONLY <2>2, <2>3, MarkedTyped
<1>6. UNCHANGED <<instance, tokens, agents, install, secret, pod, disk, made, overlapped>> OBVIOUS
<1>7. ASSUME ~overlapped PROVE CallSound(h)'
  <2>1. OnlyLastValid(calls[h].agent) /\ instance.agent = calls[h].agent
    BY <1>1, <1>7 DEF EnrollInv, Apart, CallSound
  <2> QED BY <1>4, <1>6, <2>1 DEF CallSound, OnlyLastValid
<1>8. Apart' BY <1>1, <1>4, <1>6, <1>7, ApartStep
<1> QED BY <1>2, <1>4, <1>5, <1>6, <1>8 DEF EnrollInv, EnrollTyped

(* The token an answer carries is the valid one. *)
LEMMA NewestIsLast ==
    ASSUME tokens \in Seq(TokenRow), NEW a, OnlyLastValid(a)
    PROVE  /\ NewestOf(a) = Len(tokens)
           /\ {t \in DOMAIN tokens : tokens[t].agent = a /\ ~tokens[t].revoked} = {Len(tokens)}
<1> DEFINE n == Len(tokens)
           Newest(t) == tokens[t].agent = a /\ \A u \in DOMAIN tokens : tokens[u].agent = a => u <= t
<1>1. n \in Nat /\ DOMAIN tokens = 1..n /\ n \in DOMAIN tokens BY DEF OnlyLastValid
<1>2. Newest(n) BY <1>1 DEF OnlyLastValid
<1>3. \A t \in DOMAIN tokens : Newest(t) => t = n BY <1>1, <1>2
<1>4. NewestOf(a) = CHOOSE t \in DOMAIN tokens : Newest(t) BY DEF NewestOf
<1> HIDE DEF n, Newest
<1>5. NewestOf(a) = n BY <1>1, <1>2, <1>3, <1>4
<1> USE DEF n
<1> QED BY <1>1, <1>5 DEF OnlyLastValid

LEMMA Persist_Inv == ASSUME EnrollInv, NEW h \in Calls, persistEnrollment(h) PROVE EnrollInv'
<1> USE DEF persistEnrollment
<1>1. EnrollTyped /\ calls[h].pc = "answered" /\ calls[h] # Idle BY DEF EnrollInv, Idle
<1>2. instance.exists BY <1>1 DEF EnrollInv, NothingYet
<1>3. calls' \in [Calls -> CallRow] /\ \A g \in Calls : calls'[g] = IF g = h THEN Idle ELSE calls[g]
  <2>1. Idle \in CallRow BY DEF Idle, CallRow, CallSteps
  <2> QED BY <1>1, <2>1, CallAt
<1>4. UNCHANGED <<instance, boots, tokens, agents, install, secret, made, overlapped>> OBVIOUS
<1>5. CASE pod.call = h
  <2> DEFINE a == calls[h].agent
  <2>1. /\ disk' = [enrolled |-> TRUE, agent |-> a, token |-> NewestOf(a), key |-> pod.key]
        /\ pod' = [pod EXCEPT !.pc = "running", !.call = NoCall]
    BY <1>5
  <2>2. pod' \in [pc : {"down", "starting", "asking", "running"}, boot : Nat, key : Nat, call : Calls \cup {NoCall}]
    BY <1>1, <2>1 DEF EnrollTyped
  <2>3. EnrollTyped' BY ONLY <1>1, <1>3, <1>4, <2>1, <2>2 DEF EnrollTyped
  <2>4. ASSUME ~overlapped PROVE OneAtATime' /\ (\A g \in Calls : CallSound(g)') /\ Served' /\ \A g \in Calls : calls'[g] = Idle
    <3>1. \A g \in Calls : g # h => calls[g] = Idle BY <1>1, <2>4 DEF EnrollInv, Apart, OneAtATime
    <3>2. \A g \in Calls : calls'[g] = Idle BY <1>3, <3>1
    <3>3. \A g \in Calls : calls'[g].pc = "idle" BY <3>2 DEF Idle
    <3>4. OnlyLastValid(a) /\ instance.agent = a BY <1>1, <2>4 DEF EnrollInv, Apart, CallSound
    <3>5. /\ NewestOf(a) = Len(tokens)
          /\ {t \in DOMAIN tokens : tokens[t].agent = a /\ ~tokens[t].revoked} = {Len(tokens)}
      BY <1>1, <3>4, NewestIsLast DEF EnrollTyped
    <3>6. disk'.agent = a /\ disk'.token = Len(tokens) BY <2>1, <3>5
    <3>7. Served' BY <1>4, <3>4, <3>5, <3>6 DEF Served
    <3> QED BY <3>2, <3>3, <3>7 DEF OneAtATime, CallSound
  <2>5. Apart' BY <1>4, <2>4 DEF Apart
  <2> QED BY ONLY <1>2, <1>4, <2>1, <2>3, <2>5 DEF EnrollInv
<1>6. CASE pod.call # h
  <2>1. UNCHANGED <<disk, pod>> BY <1>6
  <2>2. CallSound(h)' BY <1>3 DEF CallSound, Idle
  <2>3. Apart' BY <1>1, <1>3, <1>4, <2>1, <2>2, ApartStep
  <2> QED BY <1>2, <1>3, <1>4, <2>1, <2>3 DEF EnrollInv, EnrollTyped
<1> QED BY <1>5, <1>6

LEMMA BackendCrash_Inv == ASSUME EnrollInv, BackendCrash PROVE EnrollInv'
<1> USE DEF BackendCrash
<1>1. calls' \in [Calls -> CallRow] /\ \A h \in Calls : calls'[h] = Idle
  BY DEF Idle, CallRow, CallSteps
<1>2. \A h \in Calls : calls'[h].pc = "idle" BY <1>1 DEF Idle
<1>3. UNCHANGED <<instance, boots, tokens, agents, secret, disk, made, overlapped>> OBVIOUS
<1>4. Apart' BY <1>1, <1>2, <1>3 DEF EnrollInv, Apart, OneAtATime, CallSound, Served
<1>5. pod' \in {Down, pod} /\ install' = [pc |-> "idle", boot |-> 0] OBVIOUS
<1>6. EnrollTyped'
  <2>1. pod' \in [pc : {"down", "starting", "asking", "running"}, boot : Nat, key : Nat, call : Calls \cup {NoCall}]
    BY <1>5 DEF EnrollInv, EnrollTyped, Down
  <2>2. EnrollTyped BY DEF EnrollInv
  <2> QED BY ONLY <1>1, <1>3, <1>5, <2>1, <2>2 DEF EnrollTyped
<1>7. /\ pod'.pc = "running" => disk'.enrolled
      /\ ~instance'.exists => NothingYet'
  BY <1>1, <1>3, <1>5 DEF EnrollInv, EnrollTyped, Down, NothingYet
<1> QED BY <1>4, <1>6, <1>7 DEF EnrollInv

LEMMA EnrollNext_Inv == EnrollInv /\ [EnrollNext]_enrollVars => EnrollInv'
<1> SUFFICES ASSUME EnrollInv, [EnrollNext]_enrollVars PROVE EnrollInv'
  OBVIOUS
<1>1. CASE UNCHANGED enrollVars
  BY <1>1 DEF enrollVars, EnrollInv, EnrollTyped, NothingYet, Apart, OneAtATime, CallSound, OnlyLastValid, Served
<1>2. ASSUME NEW h \in Calls,
             \/ requestEnrollment(h) \/ checkBootstrapToken(h) \/ resolveOrCreateAgent(h)
             \/ RevokeAndCreateToken(h) \/ UpdateAgentState(h) \/ MarkUsed(h) \/ persistEnrollment(h)
      PROVE  EnrollInv'
  BY <1>2, Request_Inv, Check_Inv, Resolve_Inv, Tokens_Inv, Bind_Inv, MarkUsed_Inv, Persist_Inv
<1> QED BY <1>1, <1>2, Create_Inv, InstallSteps_Inv, PodSteps_Inv, BackendCrash_Inv DEF EnrollNext

(* An enrolled agent that runs is the one its instance names and holds the *)
(* one valid token, for any number of calls, as long as no two of them     *)
(* overlapped (AgentEnrollmentService.Enroll).                             *)
THEOREM EnrolledIsServed == EnrollSpec => []EnrolledAgentIsServed
<1>1. EnrollInv => EnrolledAgentIsServed BY DEF EnrollInv, Apart, Served, EnrolledAgentIsServed
<1> QED BY <1>1, EnrollInit_Inv, EnrollNext_Inv, PTL DEF EnrollSpec

-----------------------------------------------------------------------------
(* OperatorHub.  A channel is closed only for a client that is or was      *)
(* registered, which a handler that has not begun is not.                  *)

HubTyped ==
    /\ clients \subseteq Clients
    /\ closes \in [Clients -> Nat]
    /\ readers \in [Clients -> {"new", "welcome", "on", "answer", "leaving", "off"}]

HubInv ==
    /\ HubTyped /\ ClosedOnce
    /\ \A c \in Clients : readers[c] = "new" => closes[c] = 0 /\ c \notin clients

LEMMA HubInit_Inv == HubInit => HubInv
BY DEF HubInit, HubInv, HubTyped, ClosedOnce

(* Dropping clients that are registered closes each channel once. *)
LEMMA DropKeeps ==
    ASSUME HubInv, NEW S \in SUBSET clients, Drop(S)
    PROVE  /\ clients' \subseteq clients /\ clients' \cap S = {}
           /\ closes' \in [Clients -> Nat]
           /\ \A c \in Clients : closes'[c] <= 1 /\ (c \notin S => closes'[c] = closes[c])
BY DEF HubInv, HubTyped, ClosedOnce, Drop

LEMMA HubNext_Inv == HubInv /\ [HubNext]_hubVars => HubInv'
<1> SUFFICES ASSUME HubInv, [HubNext]_hubVars PROVE HubInv'
  OBVIOUS
<1> USE DEF HubInv, HubTyped, ClosedOnce
<1>1. CASE hubBroadcast
  <2> DEFINE full == {c \in clients : queue[c] = SendCapacity}
  <2>1. Drop(full) /\ readers' = readers BY <1>1 DEF hubBroadcast
  <2>2. full \in SUBSET clients OBVIOUS
  <2>3. /\ clients' \subseteq clients /\ clients' \cap full = {}
        /\ closes' \in [Clients -> Nat]
        /\ \A c \in Clients : closes'[c] <= 1 /\ (c \notin full => closes'[c] = closes[c])
    BY <2>1, <2>2, DropKeeps
  <2> QED BY <2>1, <2>2, <2>3
<1>2. ASSUME NEW c \in Clients, AgentStream(c) PROVE HubInv'
  BY <1>2 DEF AgentStream
<1>3. ASSUME NEW c \in Clients, clientUnregister(c) PROVE HubInv'
  <2>1. Drop({c} \cap clients) /\ readers[c] = "leaving" /\ readers' = [readers EXCEPT ![c] = "off"]
    BY <1>3 DEF clientUnregister
  <2>2. c \notin clients' BY <2>1 DEF Drop
  <2> QED BY <2>1, <2>2, DropKeeps
<1>4. ASSUME NEW c \in Clients, WriteLoop(c) \/ Disconnect(c) PROVE HubInv'
  BY <1>4 DEF WriteLoop, Disconnect
<1>5. ASSUME NEW c \in Clients, ReadLoop(c) PROVE HubInv'
  BY <1>5 DEF ReadLoop
<1>6. ASSUME NEW c \in Clients, SendJSON(c) PROVE HubInv'
  BY <1>6 DEF SendJSON
<1>7. CASE UNCHANGED hubVars BY <1>7 DEF hubVars
<1> QED BY <1>1, <1>2, <1>3, <1>4, <1>5, <1>6, <1>7 DEF HubNext

(* The hub never closes a channel twice nor keeps a client whose channel   *)
(* is closed, for any number of operators and any capacity (Hub.run).      *)
THEOREM HubClosesOnce == HubSpec => []ClosedOnce
<1>1. HubInv => ClosedOnce BY DEF HubInv
<1> QED BY <1>1, HubInit_Inv, HubNext_Inv, PTL DEF HubSpec

=============================================================================
