--------------------------- MODULE Gateway_proofs ---------------------------
(***************************************************************************)
(* The gateway, for any number of connections, requests, routes and        *)
(* deaths: the Vault token it shares is safe, a message is encrypted with  *)
(* a key that is not older than its request, and each connection is the    *)
(* remote call that RemoteCall specifies.                                  *)
(***************************************************************************)
EXTENDS Gateway, VaultToken_proofs

-----------------------------------------------------------------------------
(* The token.                                                              *)

(* A step of the gateway is a step of VaultToken, or leaves it alone.      *)
LEMMA VaultSteps == [GatewayNext]_vars => [VaultNext]_vaultVars
<1> SUFFICES ASSUME [GatewayNext]_vars PROVE [VaultNext]_vaultVars
  OBVIOUS
<1>1. ASSUME NEW s \in Slot, TurnAway(s) \/ Echo(s) \/ SendAtOnce(s) PROVE UNCHANGED vaultVars
  BY <1>1 DEF TurnAway, Echo, SendAtOnce
<1>2. ASSUME NEW s \in Slot, AskVault(s) \/ UseSecret(s) \/ KeyFailed(s) \/ VaultStep(s)
      PROVE  VaultNext
  BY <1>2 DEF AskVault, UseSecret, KeyFailed, VaultStep, VaultHandles, Continues, VaultNext, Slot
<1>3. ASSUME NEW i \in RequestId, Serve(i) \/ ServeAndDie(i) \/ Consume(i)
      PROVE  UNCHANGED vaultVars
  BY <1>3 DEF Serve, ServeAndDie, Consume
<1>4. Die \/ Boot \/ Environment => VaultNext
  BY DEF Die, Boot, Environment, VaultNext
<1>5. UNCHANGED vars => UNCHANGED vaultVars
  BY DEF vars
<1> QED BY <1>1, <1>2, <1>3, <1>4, <1>5 DEF GatewayNext

(* The shared token outlives what the service believes of it, but for two  *)
(* calls, whatever requests do at once (maybeRenewToken,                   *)
(* loginWithAppRole).                                                      *)
THEOREM TokenBelief == GatewaySpec => []BeliefBounded
<1>1. GatewayInit => VaultInv
  BY VaultInitInv DEF GatewayInit
<1>2. VaultInv /\ [GatewayNext]_vars => VaultInv'
  BY VaultSteps, VaultInvStep
<1>3. VaultInv => BeliefBounded
  BY DEF VaultInv
<1> QED BY <1>1, <1>2, <1>3, PTL DEF GatewaySpec

(* A key is never read with a token that Vault has forgotten before its    *)
(* maximum life (getAesKey, getGatewayApiKey).                             *)
THEOREM KeyReadsServed == GatewaySpec => []ReadsUseLiveToken
<1>1. GatewayInit => VaultInv
  BY VaultInitInv DEF GatewayInit
<1>2. VaultInv /\ [GatewayNext]_vars => VaultInv'
  BY VaultSteps, VaultInvStep
<1>3. VaultInv => ReadsUseLiveToken
  BY InvReads
<1> QED BY <1>1, <1>2, <1>3, PTL DEF GatewaySpec

-----------------------------------------------------------------------------
(* The inductive invariant of the gateway.                                 *)

\* Where a request waits, what it is and what it asks of Vault.
SlotsOK ==
  /\ pc \in [Slot -> {"idle", "key", "wait"}]
  /\ msg \in [Slot -> Message \cup {NoMsg}]
  /\ answer \in [Slot -> Answers]
  /\ \A s \in Slot : /\ pc[s] = "idle" <=> msg[s] = NoMsg
                     /\ pc[s] = "key" <=> call[s].op # "none"

\* A request number is used once: no message, reply or performed request has
\* a number not yet given out, and no two requests under way share one.
IdsOK ==
  /\ asked \in 0 .. MaxRequests
  /\ performed \subseteq 1 .. asked
  /\ \A m \in inbox : m \in Message /\ m.id <= asked
  /\ \A s \in Slot : pc[s] # "idle" => msg[s].id <= asked
  /\ \A s, t \in Slot : s # t /\ pc[s] # "idle" /\ pc[t] # "idle" => msg[s].id # msg[t].id

\* A reply that says OK is the reply to a performed request.
RepliesOK ==
  /\ replies \in [RequestId -> Seq(Reply)]
  /\ \A i \in RequestId : \A k \in 1 .. Len(replies[i]) :
       replies[i][k].says = "OK" => i \in performed

\* The requests that wait for a key, and what they may have got: a key is
\* never older than the request it serves.
WaitersOK ==
  \A s \in Slot :
    pc[s] = "key" =>
      /\ msg[s].era <= secret
      /\ GotSecret(s) => call[s].value \in msg[s].era .. secret

InboxOK ==
  \A m \in inbox :
    m.era <= secret /\ (KeyOf(m.route) = "vault" => m.key \in m.era .. secret)

CountersOK ==
  /\ up \in BOOLEAN /\ mix \in Mixes
  /\ restarts \in 0 .. MaxRestarts /\ redeliveries \in 0 .. MaxRedeliveries

GatewayInv == VaultInv /\ SlotsOK /\ IdsOK /\ RepliesOK /\ WaitersOK /\ InboxOK /\ CountersOK

(* The invariant contains the types and the freshness of the keys.         *)
LEMMA InvTypes == GatewayInv => GatewayTypeOK
  BY DEF GatewayInv, VaultInv, SlotsOK, IdsOK, RepliesOK, CountersOK, GatewayTypeOK

(* The invariant says of every key in the inbox that it is current.        *)
LEMMA InvKeys == GatewayInv => KeyIsCurrent
<1> SUFFICES ASSUME GatewayInv, NEW m \in inbox, KeyOf(m.route) = "vault", m.era = secret
             PROVE  m.key = secret
  BY DEF KeyIsCurrent
<1>1. m.key \in m.era .. secret /\ secret \in Nat
  BY VaultAssumption DEF GatewayInv, InboxOK, VaultInv, VaultTypeOK
<1> QED BY <1>1

(* Initially nothing is under way.                                         *)
LEMMA GatewayInitInv == GatewayInit => GatewayInv
<1> SUFFICES ASSUME GatewayInit PROVE GatewayInv
  OBVIOUS
<1>1. VaultInv
  BY VaultInitInv DEF GatewayInit
<1>2. \A s \in Slot : call[s].op = "none"
  BY DEF GatewayInit, VaultInit, NoCall, Slot
<1>3. SlotsOK
  BY <1>2 DEF GatewayInit, SlotsOK, Answers
<1>4. IdsOK /\ RepliesOK /\ WaitersOK /\ InboxOK /\ CountersOK
  BY GatewayAssumption DEF GatewayInit, IdsOK, RepliesOK, WaitersOK, InboxOK, CountersOK,
                         RequestId
<1> QED BY <1>1, <1>3, <1>4 DEF GatewayInv
-----------------------------------------------------------------------------
(* What a step does to the requests under way.                             *)

\* Slot s moves to p with message m; the others stay where they are.
Moves(s, p, m) ==
  /\ pc' = [pc EXCEPT ![s] = p]
  /\ msg' = [msg EXCEPT ![s] = m]
  /\ answer' \in [Slot -> Answers]

(* A new message is a message.                                             *)
LEMMA NewMessageType ==
  ASSUME GatewayInv, asked < MaxRequests, NEW r \in Route, NEW key \in 0 .. MaxSecrets
  PROVE  NewMessage(r, key) \in Message /\ NewMessage(r, key).id = asked + 1
<1>1. asked \in 0 .. MaxRequests /\ secret \in 1 .. MaxSecrets
  BY DEF GatewayInv, IdsOK, VaultInv, VaultTypeOK
<1>2. asked + 1 \in RequestId
  BY <1>1, GatewayAssumption DEF RequestId
<1> QED BY <1>1, <1>2 DEF NewMessage, Message

(* The routes of the mix in use are routes.                                *)
LEMMA MixRoutes == GatewayInv => mix.routes \subseteq Route
  BY GatewayAssumption DEF GatewayInv, CountersOK

(* Whatever Vault or the service does with a call, it stays a call, and    *)
(* nobody else's call changes.                                             *)
LEMMA VaultStepCalls ==
  ASSUME GatewayInv, NEW s \in Slot, VaultStep(s)
  PROVE  /\ call[s].op # "none" /\ call'[s].op # "none"
         /\ \A t \in Slot \ {s} : call'[t] = call[t]
<1> USE DEF Slot
<1>1. call \in [Caller -> Calls]
  BY DEF GatewayInv, VaultInv, VaultTypeOK
<1>2. ASSUME NEW result, NEW value, Outcome(s, result, value)
      PROVE  call'[s].op = call[s].op /\ \A t \in Slot \ {s} : call'[t] = call[t]
  BY <1>1, <1>2 DEF Outcome, Calls
<1>3. ASSUME VaultHandles(s) \/ CallLost(s) PROVE
        /\ call[s].op # "none" /\ \E result, value : Outcome(s, result, value)
  BY <1>3 DEF VaultHandles, VaultRenews, VaultLogsIn, VaultReads, VaultRefuses, CallLost, Pending
<1>4. ASSUME Continues(s)
      PROVE  /\ call[s].op # "none" /\ call'[s].op # "none"
             /\ \A t \in Slot \ {s} : call'[t] = call[t]
  BY <1>1, <1>4 DEF Continues, RenewAnswered, RenewFailed, LoginAnswered, Answered, Sends, Request
<1> QED BY <1>2, <1>3, <1>4 DEF VaultStep

(* The slots, when one of them moves.                                      *)
LEMMA SlotMoves ==
  ASSUME GatewayInv, NEW s \in Slot, NEW p \in {"idle", "key", "wait"},
         NEW m \in Message \cup {NoMsg}, Moves(s, p, m),
         p = "idle" <=> m = NoMsg, p = "key" <=> call'[s].op # "none",
         \A t \in Slot \ {s} : call'[t] = call[t]
  PROVE  SlotsOK'
  BY DEF GatewayInv, SlotsOK, Moves

(* Who is told something waits no more.                                    *)
LEMMA TellMoves ==
  ASSUME GatewayInv, NEW s \in Slot, NEW a \in Answers, Tell(s, a)
  PROVE  Moves(s, "idle", NoMsg)
  BY DEF GatewayInv, SlotsOK, Tell, Moves

(* A message is published, or its route has no reply topic.                *)
LEMMA PublishMoves ==
  ASSUME GatewayInv, NEW s \in Slot, NEW m \in Message, Publish(s, m)
  PROVE  /\ UNCHANGED <<replies, performed, redeliveries>>
         /\ \/ Moves(s, "wait", m) /\ inbox' = inbox \cup {m} /\ UNCHANGED answer
            \/ Moves(s, "idle", NoMsg) /\ Tell(s, "unroutable") /\ UNCHANGED inbox
  BY DEF GatewayInv, SlotsOK, Publish, Tell, Moves, busVars, Answers

(* No message has the number 0.                                            *)
LEMMA NoMsgIsNone == NoMsg \notin Message
  BY DEF NoMsg, Message, RequestId

(* The message that carries the key is the one that waited for it, and the *)
(* key is no older than the request.                                       *)
LEMMA KeyedMessage ==
  ASSUME GatewayInv, NEW s \in Slot, pc[s] = "key", GotSecret(s)
  PROVE  LET m == [msg[s] EXCEPT !.key = call[s].value]
         IN  /\ m \in Message /\ m.id = msg[s].id /\ m.route = msg[s].route /\ m.era = msg[s].era
             /\ m.key \in m.era .. secret /\ m.era <= secret
<1>1. msg[s] \in Message
  BY DEF GatewayInv, SlotsOK
<1>2. call[s].value \in msg[s].era .. secret /\ msg[s].era <= secret
  BY DEF GatewayInv, WaitersOK
<1>3. secret \in 1 .. MaxSecrets /\ MaxSecrets \in Nat
  BY VaultAssumption DEF GatewayInv, VaultInv, VaultTypeOK
<1>4. msg[s].era \in 1 .. MaxSecrets
  BY <1>1 DEF Message
<1>5. call[s].value \in 0 .. MaxSecrets
  BY <1>2, <1>3, <1>4
<1> QED BY <1>1, <1>2, <1>5 DEF Message

(* The step of the slots, one action at a time.                            *)
LEMMA SlotsStep == GatewayInv /\ [GatewayNext]_vars => SlotsOK'
<1> SUFFICES ASSUME GatewayInv, [GatewayNext]_vars PROVE SlotsOK'
  OBVIOUS
<1>0. SlotsOK /\ call \in [Slot -> Calls]
  BY DEF GatewayInv, VaultInv, VaultTypeOK, Slot
<1>1. ASSUME NEW s \in Slot, TurnAway(s) \/ Echo(s) PROVE SlotsOK'
  <2>1. /\ pc[s] = "idle" /\ UNCHANGED call
        /\ Tell(s, "denied") \/ Tell(s, "local")
    BY <1>1 DEF TurnAway, Echo, Idle, vaultVars
  <2>2. Moves(s, "idle", NoMsg) /\ call'[s].op = "none"
    BY <1>0, <2>1, TellMoves DEF SlotsOK, Answers
  <2> QED BY <2>1, <2>2, SlotMoves
<1>2. ASSUME NEW s \in Slot, SendAtOnce(s) PROVE SlotsOK'
  <2>1. PICK r \in mix.routes, key \in {FixedKey, Plain} : Publish(s, NewMessage(r, key))
    BY <1>2 DEF SendAtOnce
  <2>2. pc[s] = "idle" /\ asked < MaxRequests /\ UNCHANGED call
    BY <1>2 DEF SendAtOnce, Idle, vaultVars
  <2>3. NewMessage(r, key) \in Message
    BY <2>1, <2>2, MixRoutes, NewMessageType, VaultAssumption DEF FixedKey, Plain
  <2>4. call'[s].op = "none"
    BY <1>0, <2>2 DEF SlotsOK
  <2> QED BY <2>1, <2>2, <2>3, <2>4, PublishMoves, SlotMoves, NoMsgIsNone
<1>3. ASSUME NEW s \in Slot, AskVault(s) PROVE SlotsOK'
  <2>1. PICK r \in mix.routes :
          /\ AskCert(s) \/ AskSecret(s)
          /\ pc' = [pc EXCEPT ![s] = "key"]
          /\ msg' = [msg EXCEPT ![s] = NewMessage(r, Plain)]
    BY <1>3 DEF AskVault
  <2>2. asked < MaxRequests /\ UNCHANGED answer
    BY <1>3 DEF AskVault, Idle
  <2>3. NewMessage(r, Plain) \in Message
    BY <2>2, MixRoutes, NewMessageType, VaultAssumption DEF Plain
  <2>4. call'[s].op # "none" /\ \A t \in Slot \ {s} : call'[t] = call[t]
    BY <1>0, <2>1 DEF AskCert, AskSecret, Sends, Request, Slot
  <2>5. Moves(s, "key", NewMessage(r, Plain))
    BY <1>0, <2>1, <2>2 DEF Moves, SlotsOK
  <2> QED BY <2>3, <2>4, <2>5, SlotMoves, NoMsgIsNone
<1>r. ASSUME NEW s \in Slot, Return(s)
      PROVE  call'[s].op = "none" /\ \A t \in Slot \ {s} : call'[t] = call[t]
  BY <1>0, <1>r DEF Return, Sends, NoCall, Slot
<1>4. ASSUME NEW s \in Slot, UseSecret(s) \/ KeyFailed(s) PROVE SlotsOK'
  <2> DEFINE m == [msg[s] EXCEPT !.key = call[s].value]
  <2>1. pc[s] = "key" /\ Return(s)
    BY <1>4 DEF UseSecret, KeyFailed
  <2>2. \/ Tell(s, "local") \/ Tell(s, "nokey")
        \/ GotSecret(s) /\ Publish(s, m)
    BY <1>4 DEF UseSecret, KeyFailed
  <2>3. GotSecret(s) => m \in Message
    BY <2>1, KeyedMessage
  <2> HIDE DEF m
  <2>4. Moves(s, "idle", NoMsg) \/ (m \in Message /\ Moves(s, "wait", m))
    BY <2>2, <2>3, TellMoves, PublishMoves DEF Answers
  <2> QED BY <1>r, <2>1, <2>4, SlotMoves, NoMsgIsNone
<1>5. ASSUME NEW s \in Slot, VaultStep(s) PROVE SlotsOK'
  <2>1. UNCHANGED <<pc, msg, answer>>
    BY <1>5 DEF VaultStep, gatewayVars
  <2> QED BY <1>0, <1>5, <2>1, VaultStepCalls DEF SlotsOK
<1>6. ASSUME NEW i \in RequestId, Serve(i) \/ ServeAndDie(i) PROVE SlotsOK'
  BY <1>0, <1>6 DEF Serve, ServeAndDie, vaultVars, gatewayVars, SlotsOK
<1>7. ASSUME NEW i \in RequestId, Consume(i) PROVE SlotsOK'
  <2>1. UNCHANGED call
    BY <1>7 DEF Consume, vaultVars
  <2>2. CASE UNCHANGED <<pc, msg, answer>>
    BY <1>0, <2>1, <2>2 DEF SlotsOK
  <2>3. CASE \E s \in Waiting(i) : Tell(s, Judged(msg[s].route, Head(replies[i])))
    <3>1. PICK s \in Slot : pc[s] = "wait" /\ Tell(s, Judged(msg[s].route, Head(replies[i])))
      BY <2>3 DEF Waiting
    <3>2. Judged(msg[s].route, Head(replies[i])) \in Answers
      BY DEF Judged, Answers
    <3>3. Moves(s, "idle", NoMsg) /\ call'[s].op = "none"
      BY <1>0, <2>1, <3>1, <3>2, TellMoves DEF SlotsOK
    <3> QED BY <2>1, <3>3, SlotMoves
  <2> QED BY <1>7, <2>2, <2>3 DEF Consume
<1>8. ASSUME Die PROVE SlotsOK'
  <2>1. \A s \in Slot : call'[s].op = "none"
    BY <1>8 DEF Die, ForgetCalls, NoCall, Slot
  <2> QED BY <1>0, <1>8, <2>1 DEF Die, SlotsOK, Answers
<1>9. ASSUME Boot \/ Environment \/ UNCHANGED vars PROVE SlotsOK'
  BY <1>0, <1>9 DEF Boot, LogInAtStart, Environment, Tick, Rotate, vars, vaultVars, gatewayVars,
                    SlotsOK
<1> QED BY <1>1, <1>2, <1>3, <1>4, <1>5, <1>6, <1>7, <1>8, <1>9 DEF GatewayNext

-----------------------------------------------------------------------------
(* Ids and replies.                                                        *)

(* A request that arrives takes the next number.                           *)
LEMMA IdsTaken ==
  ASSUME GatewayInv, NEW s \in Slot, Idle(s), Counted, NEW p \in {"key", "wait"},
         NEW m \in Message, Moves(s, p, m), m.id = asked + 1,
         UNCHANGED performed, inbox' = inbox \/ inbox' = inbox \cup {m}
  PROVE  IdsOK'
<1>1. IdsOK /\ asked \in 0 .. MaxRequests /\ asked < MaxRequests /\ asked' = asked + 1
  BY DEF GatewayInv, IdsOK, Idle, Counted
<1>2. SlotsOK /\ RequestId = 1 .. MaxRequests /\ MaxRequests \in Nat
  BY GatewayAssumption DEF GatewayInv, RequestId
<1>3. \A t \in Slot : pc[t] # "idle" => msg[t].id \in RequestId
  BY <1>2 DEF SlotsOK, Message
<1>4. \A t \in Slot \ {s} : pc'[t] = pc[t] /\ msg'[t] = msg[t]
  BY <1>2 DEF Moves, SlotsOK
<1>5. msg'[s] = m
  BY <1>2 DEF Moves, SlotsOK
<1>6. asked' \in 0 .. MaxRequests /\ performed' \subseteq 1 .. asked'
  BY <1>1, <1>2 DEF IdsOK
<1>7. \A n \in inbox' : n \in Message /\ n.id <= asked'
  BY <1>1, <1>2 DEF IdsOK, Message
<1>8. \A t \in Slot : pc'[t] # "idle" => msg'[t].id <= asked'
  BY <1>1, <1>2, <1>3, <1>4, <1>5 DEF IdsOK
<1>9. \A t, u \in Slot : t # u /\ pc'[t] # "idle" /\ pc'[u] # "idle" => msg'[t].id # msg'[u].id
  BY <1>1, <1>2, <1>3, <1>4, <1>5 DEF IdsOK
<1> QED BY <1>6, <1>7, <1>8, <1>9 DEF IdsOK

(* A request that ends, or goes on with the same number, changes nobody's. *)
LEMMA IdsKept ==
  ASSUME GatewayInv, NEW s \in Slot, NEW p \in {"idle", "wait"}, NEW m, Moves(s, p, m),
         p = "idle" \/ (m \in Message /\ pc[s] # "idle" /\ m.id = msg[s].id),
         UNCHANGED performed, asked' \in {asked, asked + 1}, asked' <= MaxRequests,
         inbox' = inbox \/ (p = "wait" /\ inbox' = inbox \cup {m})
  PROVE  IdsOK'
<1>1. IdsOK /\ asked \in 0 .. MaxRequests
  BY DEF GatewayInv, IdsOK
<1>2. SlotsOK /\ RequestId = 1 .. MaxRequests /\ MaxRequests \in Nat
  BY GatewayAssumption DEF GatewayInv, RequestId
<1>3. \A t \in Slot : pc[t] # "idle" => msg[t].id \in RequestId
  BY <1>2 DEF SlotsOK, Message
<1>4. /\ \A t \in Slot \ {s} : pc'[t] = pc[t] /\ msg'[t] = msg[t]
      /\ pc'[s] = p /\ msg'[s] = m
  BY <1>2 DEF Moves, SlotsOK
<1>5. \A t \in Slot : pc'[t] # "idle" => pc[t] # "idle" /\ msg'[t].id = msg[t].id
  BY <1>4
<1>6. asked' \in 0 .. MaxRequests /\ asked <= asked' /\ performed' \subseteq 1 .. asked'
  BY <1>1, <1>2 DEF IdsOK
<1>7. \A n \in inbox' : n \in Message /\ n.id <= asked'
  <2>1. \A n \in inbox : n \in Message /\ n.id <= asked /\ n.id \in RequestId
    BY <1>1 DEF IdsOK, Message
  <2>2. p = "wait" => m \in Message /\ m.id <= asked /\ m.id \in RequestId
    BY <1>1, <1>3 DEF IdsOK
  <2> QED BY <1>1, <1>2, <1>6, <2>1, <2>2
<1>8. \A t \in Slot : pc'[t] # "idle" => msg'[t].id <= asked'
  BY <1>1, <1>2, <1>3, <1>5, <1>6 DEF IdsOK
<1>9. \A t, u \in Slot : t # u /\ pc'[t] # "idle" /\ pc'[u] # "idle" => msg'[t].id # msg'[u].id
  BY <1>1, <1>5 DEF IdsOK
<1> QED BY <1>6, <1>7, <1>8, <1>9 DEF IdsOK

(* The step of the ids, one action at a time.                              *)
LEMMA IdsStep == GatewayInv /\ [GatewayNext]_vars => IdsOK'
<1> SUFFICES ASSUME GatewayInv, [GatewayNext]_vars PROVE IdsOK'
  OBVIOUS
<1>0. IdsOK /\ SlotsOK /\ MaxRequests \in Nat /\ RequestId = 1 .. MaxRequests
  BY GatewayAssumption DEF GatewayInv, RequestId
<1>c. ASSUME Counted, asked < MaxRequests
      PROVE  asked' \in {asked, asked + 1} /\ asked' <= MaxRequests
  BY <1>0, <1>c DEF Counted, IdsOK
<1>1. ASSUME NEW s \in Slot, TurnAway(s) \/ Echo(s) PROVE IdsOK'
  <2>1. /\ asked < MaxRequests /\ Counted /\ UNCHANGED <<performed, inbox>>
        /\ Tell(s, "denied") \/ Tell(s, "local")
    BY <1>1 DEF TurnAway, Echo, Idle, busVars
  <2>2. Moves(s, "idle", NoMsg)
    BY <2>1, TellMoves DEF Answers
  <2> QED BY <1>c, <2>1, <2>2, IdsKept
<1>2. ASSUME NEW s \in Slot, SendAtOnce(s) PROVE IdsOK'
  <2>1. PICK r \in mix.routes, key \in {FixedKey, Plain} : Publish(s, NewMessage(r, key))
    BY <1>2 DEF SendAtOnce
  <2>2. Idle(s) /\ asked < MaxRequests /\ Counted
    BY <1>2 DEF SendAtOnce, Idle
  <2> DEFINE m == NewMessage(r, key)
  <2>3. m \in Message /\ m.id = asked + 1
    BY <2>1, <2>2, MixRoutes, NewMessageType, VaultAssumption DEF FixedKey, Plain
  <2> HIDE DEF m
  <2>4. /\ UNCHANGED performed
        /\ \/ Moves(s, "wait", m) /\ inbox' = inbox \cup {m}
           \/ Moves(s, "idle", NoMsg) /\ UNCHANGED inbox
    BY <2>1, <2>3, PublishMoves DEF m
  <2> QED BY <1>c, <2>2, <2>3, <2>4, IdsTaken, IdsKept
<1>3. ASSUME NEW s \in Slot, AskVault(s) PROVE IdsOK'
  <2>1. PICK r \in mix.routes :
          pc' = [pc EXCEPT ![s] = "key"] /\ msg' = [msg EXCEPT ![s] = NewMessage(r, Plain)]
    BY <1>3 DEF AskVault
  <2>2. /\ Idle(s) /\ asked < MaxRequests /\ Counted
        /\ UNCHANGED <<answer, inbox, performed>>
    BY <1>3 DEF AskVault, Idle, busVars
  <2>3. NewMessage(r, Plain) \in Message /\ NewMessage(r, Plain).id = asked + 1
    BY <2>2, MixRoutes, NewMessageType, VaultAssumption DEF Plain
  <2>4. Moves(s, "key", NewMessage(r, Plain))
    BY <1>0, <2>1, <2>2 DEF Moves, SlotsOK
  <2> QED BY <2>2, <2>3, <2>4, IdsTaken
<1>4. ASSUME NEW s \in Slot, UseSecret(s) \/ KeyFailed(s) PROVE IdsOK'
  <2> DEFINE m == [msg[s] EXCEPT !.key = call[s].value]
  <2>1. /\ pc[s] = "key" /\ UNCHANGED asked
        /\ \/ (Tell(s, "local") \/ Tell(s, "nokey")) /\ UNCHANGED <<performed, inbox>>
           \/ GotSecret(s) /\ Publish(s, m)
    BY <1>4 DEF UseSecret, KeyFailed, busVars
  <2>2. GotSecret(s) => m \in Message /\ m.id = msg[s].id
    BY <2>1, KeyedMessage
  <2> HIDE DEF m
  <2>3. asked' <= MaxRequests /\ asked' = asked
    BY <1>0, <2>1 DEF IdsOK
  <2>4. CASE (Tell(s, "local") \/ Tell(s, "nokey")) /\ UNCHANGED <<performed, inbox>>
    <3>1. Moves(s, "idle", NoMsg)
      BY <2>4, TellMoves DEF Answers
    <3> QED BY <2>3, <2>4, <3>1, IdsKept
  <2>5. CASE GotSecret(s) /\ Publish(s, m)
    <3>1. /\ UNCHANGED performed
          /\ \/ Moves(s, "wait", m) /\ inbox' = inbox \cup {m}
             \/ Moves(s, "idle", NoMsg) /\ UNCHANGED inbox
      BY <2>2, <2>5, PublishMoves
    <3> QED BY <2>1, <2>2, <2>3, <2>5, <3>1, IdsKept
  <2> QED BY <2>1, <2>4, <2>5
<1>5. ASSUME NEW s \in Slot, VaultStep(s) PROVE IdsOK'
  BY <1>0, <1>5 DEF VaultStep, gatewayVars, busVars, IdsOK
<1>6. ASSUME NEW i \in RequestId, Serve(i) \/ ServeAndDie(i) PROVE IdsOK'
  <2>0. PICK m \in inbox : \E r \in Outcomes(m) : Handle(m, r)
    BY <1>6 DEF Serve, ServeAndDie
  <2>1. PICK r \in Outcomes(m) : Handle(m, r)
    BY <2>0
  <2>2. performed' \subseteq performed \cup {m.id} /\ m.id \in RequestId /\ m.id <= asked
    BY <1>0, <2>1 DEF Handle, IdsOK, Message
  <2>3. inbox' \subseteq inbox /\ UNCHANGED <<pc, msg, asked>>
    BY <1>6 DEF Serve, ServeAndDie, gatewayVars
  <2>4. asked \in Nat /\ performed' \subseteq 1 .. asked
    BY <1>0, <2>2 DEF IdsOK
  <2> QED BY <1>0, <2>3, <2>4 DEF IdsOK
<1>7. ASSUME NEW i \in RequestId, Consume(i) PROVE IdsOK'
  <2>1. UNCHANGED <<asked, inbox, performed>>
    BY <1>7 DEF Consume
  <2>2. CASE UNCHANGED <<pc, msg, answer>>
    BY <1>0, <2>1, <2>2 DEF IdsOK
  <2>3. CASE \E s \in Waiting(i) : Tell(s, Judged(msg[s].route, Head(replies[i])))
    <3>1. PICK s \in Slot : Tell(s, Judged(msg[s].route, Head(replies[i])))
      BY <2>3 DEF Waiting
    <3>2. Judged(msg[s].route, Head(replies[i])) \in Answers
      BY DEF Judged, Answers
    <3>3. Moves(s, "idle", NoMsg)
      BY <3>1, <3>2, TellMoves
    <3>4. asked' <= MaxRequests
      BY <1>0, <2>1 DEF IdsOK
    <3> QED BY <2>1, <3>3, <3>4, IdsKept
  <2> QED BY <1>7, <2>2, <2>3 DEF Consume
<1>8. ASSUME Die PROVE IdsOK'
  BY <1>0, <1>8 DEF Die, busVars, IdsOK
<1>9. ASSUME Boot \/ Environment \/ UNCHANGED vars PROVE IdsOK'
  BY <1>0, <1>9 DEF Boot, Environment, vars, gatewayVars, busVars, IdsOK
<1> QED BY <1>1, <1>2, <1>3, <1>4, <1>5, <1>6, <1>7, <1>8, <1>9 DEF GatewayNext

(* Whatever a handler does, it replies, and with one of the replies known. *)
LEMMA OutcomesAreReplies == ASSUME NEW m PROVE Outcomes(m) \subseteq Reply
<1> USE DEF Reply, Said, Done, DoneWithData, Refused, Thrown, Filtered
<1>1. ASSUME NEW op PROVE OrderReplies(op) \subseteq Reply
  BY <1>1 DEF OrderReplies
<1>2. ASSUME NEW op PROVE ProductReplies(op) \subseteq Reply
  BY <1>2 DEF ProductReplies
<1>3. ASSUME NEW op PROVE CategoryReplies(op) \subseteq Reply /\ BrandReplies(op) \subseteq Reply
  BY <1>3 DEF CategoryReplies, BrandReplies
<1>4. ASSUME NEW op PROVE AuthReplies(op) \subseteq Reply
  BY <1>4 DEF AuthReplies
<1>5. Replies(m) \subseteq Reply
  BY <1>1, <1>2, <1>3, <1>4 DEF Replies
<1> QED BY <1>5 DEF Outcomes

(* The step of the replies: one is appended by a handler, after it has     *)
(* recorded what it did, and one is taken by the consumer.                 *)
LEMMA RepliesStep == GatewayInv /\ [GatewayNext]_vars => RepliesOK'
<1> SUFFICES ASSUME GatewayInv, [GatewayNext]_vars PROVE RepliesOK'
  OBVIOUS
<1>0. /\ RepliesOK /\ IdsOK
      /\ replies \in [RequestId -> Seq(Reply)]
  BY DEF GatewayInv, RepliesOK
<1>1. ASSUME UNCHANGED <<replies, performed>> PROVE RepliesOK'
  BY <1>0, <1>1 DEF RepliesOK
<1>2. ASSUME NEW s \in Slot, TurnAway(s) \/ Echo(s) \/ AskVault(s) \/ KeyFailed(s) \/ VaultStep(s)
      PROVE  UNCHANGED <<replies, performed>>
  BY <1>2 DEF TurnAway, Echo, AskVault, KeyFailed, VaultStep, busVars
<1>3. ASSUME NEW s \in Slot, SendAtOnce(s) \/ UseSecret(s) PROVE UNCHANGED <<replies, performed>>
  BY <1>3 DEF SendAtOnce, UseSecret, Publish, busVars
<1>4. ASSUME NEW i \in RequestId, Serve(i) \/ ServeAndDie(i) PROVE RepliesOK'
  <2>0. PICK m \in inbox : \E r \in Outcomes(m) : Handle(m, r) /\ (Send(m, r) \/ UNCHANGED replies)
    BY <1>4 DEF Serve, ServeAndDie
  <2>1. PICK r \in Outcomes(m) : Handle(m, r) /\ (Send(m, r) \/ UNCHANGED replies)
    BY <2>0
  <2>2. m.id \in RequestId /\ r \in Reply
    BY <1>0, <2>1, OutcomesAreReplies DEF IdsOK, Message
  <2>3. performed \subseteq performed' /\ (r.says = "OK" => m.id \in performed')
    BY <2>1 DEF Handle
  <2>4. CASE UNCHANGED replies
    BY <1>0, <2>3, <2>4 DEF RepliesOK
  <2>5. CASE Send(m, r)
    <3>1. replies' \in [RequestId -> Seq(Reply)]
      BY <1>0, <2>2, <2>5 DEF Send
    <3>2. \A j \in RequestId \ {m.id} : replies'[j] = replies[j]
      BY <1>0, <2>5 DEF Send
    <3>3. replies'[m.id] = Append(replies[m.id], r) /\ replies[m.id] \in Seq(Reply)
      BY <1>0, <2>2, <2>5 DEF Send
    <3>4. \A k \in 1 .. Len(replies'[m.id]) :
            replies'[m.id][k] = r \/ (k \in 1 .. Len(replies[m.id])
                                       /\ replies'[m.id][k] = replies[m.id][k])
      BY <2>2, <3>3
    <3>5. \A k \in 1 .. Len(replies'[m.id]) :
            replies'[m.id][k].says = "OK" => m.id \in performed'
      BY <1>0, <2>2, <2>3, <3>4 DEF RepliesOK
    <3>6. \A j \in RequestId \ {m.id} : \A k \in 1 .. Len(replies'[j]) :
            replies'[j][k].says = "OK" => j \in performed'
      BY <1>0, <2>3, <3>2 DEF RepliesOK
    <3> QED BY <3>1, <3>5, <3>6 DEF RepliesOK
  <2> QED BY <2>1, <2>4, <2>5
<1>5. ASSUME NEW i \in RequestId, Consume(i) PROVE RepliesOK'
  <2>1. replies' = [replies EXCEPT ![i] = Tail(@)] /\ replies[i] # <<>> /\ performed' = performed
    BY <1>5 DEF Consume
  <2>2. replies[i] \in Seq(Reply) /\ replies'[i] = Tail(replies[i])
    BY <1>0, <2>1
  <2>3. /\ Tail(replies[i]) \in Seq(Reply)
        /\ \A k \in 1 .. Len(Tail(replies[i])) :
             /\ k + 1 \in 1 .. Len(replies[i])
             /\ Tail(replies[i])[k] = replies[i][k + 1]
    BY <2>1, <2>2
  <2>4. replies' \in [RequestId -> Seq(Reply)]
    BY <1>0, <2>1, <2>3
  <2>5. \A k \in 1 .. Len(replies'[i]) : replies'[i][k].says = "OK" => i \in performed'
    BY <1>0, <2>1, <2>2, <2>3 DEF RepliesOK
  <2>6. \A j \in RequestId \ {i} : replies'[j] = replies[j]
    BY <1>0, <2>1
  <2> QED BY <1>0, <2>1, <2>4, <2>5, <2>6 DEF RepliesOK
<1>6. ASSUME Die \/ Boot \/ Environment \/ UNCHANGED vars PROVE UNCHANGED <<replies, performed>>
  BY <1>6 DEF Die, Boot, Environment, vars, busVars
<1> QED BY <1>1, <1>2, <1>3, <1>4, <1>5, <1>6 DEF GatewayNext

(* The counters stay within their bounds.                                  *)
LEMMA CountersStep == GatewayInv /\ [GatewayNext]_vars => CountersOK'
<1> SUFFICES ASSUME GatewayInv, [GatewayNext]_vars PROVE CountersOK'
  OBVIOUS
<1>0. CountersOK /\ MaxRestarts \in Nat /\ MaxRedeliveries \in Nat
  BY GatewayAssumption DEF GatewayInv
<1>1. ASSUME NEW s \in Slot, TurnAway(s) \/ Echo(s) \/ AskVault(s) \/ KeyFailed(s) \/ VaultStep(s)
      PROVE  CountersOK'
  BY <1>0, <1>1 DEF TurnAway, Echo, AskVault, KeyFailed, VaultStep, Counted, gatewayVars, busVars,
                    CountersOK
<1>2. ASSUME NEW s \in Slot, SendAtOnce(s) \/ UseSecret(s) PROVE CountersOK'
  BY <1>0, <1>2 DEF SendAtOnce, UseSecret, Publish, Counted, busVars, CountersOK
<1>3. ASSUME NEW i \in RequestId, Serve(i) \/ ServeAndDie(i) \/ Consume(i) PROVE CountersOK'
  BY <1>0, <1>3 DEF Serve, ServeAndDie, Consume, gatewayVars, CountersOK
<1>4. ASSUME Die \/ Boot \/ Environment \/ UNCHANGED vars PROVE CountersOK'
  <2>1. CASE Die
    <3>1. /\ up' = FALSE /\ restarts < MaxRestarts /\ restarts' = restarts + 1
          /\ UNCHANGED <<mix, redeliveries>>
      BY <2>1 DEF Die, busVars
    <3>2. restarts' \in 0 .. MaxRestarts
      BY <1>0, <3>1 DEF CountersOK
    <3>3. up' \in BOOLEAN
      BY <3>1
    <3> QED BY <1>0, <3>1, <3>2, <3>3 DEF CountersOK
  <2>2. CASE Boot
    BY <1>0, <2>2 DEF Boot, busVars, CountersOK
  <2>3. CASE Environment \/ UNCHANGED vars
    BY <1>0, <2>3 DEF Environment, vars, gatewayVars, busVars, CountersOK
  <2> QED BY <1>4, <2>1, <2>2, <2>3
<1> QED BY <1>1, <1>2, <1>3, <1>4 DEF GatewayNext

-----------------------------------------------------------------------------
(* The keys.                                                               *)

(* The secret's value never goes back.                                     *)
LEMMA SecretGrows ==
  GatewayInv /\ [GatewayNext]_vars => secret \in Nat /\ secret' \in Nat /\ secret <= secret'
<1> SUFFICES ASSUME GatewayInv, [GatewayNext]_vars
             PROVE  secret \in Nat /\ secret' \in Nat /\ secret <= secret'
  OBVIOUS
<1>1. [VaultNext]_vaultVars
  BY VaultSteps
<1>2. secret \in Nat
  BY VaultAssumption DEF GatewayInv, VaultInv, VaultTypeOK
<1>3. secret' = secret \/ secret' = secret + 1
  BY <1>1 DEF VaultNext, VaultHandles, VaultRenews, VaultLogsIn, VaultReads, VaultRefuses,
      CallLost, Continues, RenewAnswered, RenewFailed, LoginAnswered, Tick, Rotate, AskSecret,
      AskCert, Return, LogInAtStart, ForgetCalls, vaultVars
<1> QED BY <1>2, <1>3

(* A waiting request whose call is not touched stays good.                 *)
LEMMA WaiterKept ==
  ASSUME GatewayInv, [GatewayNext]_vars, NEW s \in Slot, pc[s] = "key",
         msg'[s] = msg[s], call'[s] = call[s] \/ ~GotSecret(s)'
  PROVE  /\ msg'[s].era <= secret'
         /\ GotSecret(s)' => call'[s].value \in msg'[s].era .. secret'
<1>1. secret \in Nat /\ secret' \in Nat /\ secret <= secret'
  BY SecretGrows
<1>2. msg[s] \in Message /\ msg[s].era \in Nat
  <2>1. msg[s] \in Message
    BY DEF GatewayInv, SlotsOK
  <2> QED BY <2>1, VaultAssumption DEF Message
<1>3. msg[s].era <= secret /\ (GotSecret(s) => call[s].value \in msg[s].era .. secret)
  BY DEF GatewayInv, WaitersOK
<1>4. call'[s] = call[s] => (GotSecret(s)' <=> GotSecret(s))
  BY DEF GotSecret, Answered
<1> QED BY <1>1, <1>2, <1>3, <1>4

(* A message that stays in the inbox stays good.                           *)
LEMMA InboxKept ==
  ASSUME GatewayInv, [GatewayNext]_vars, NEW m \in inbox
  PROVE  m.era <= secret' /\ (KeyOf(m.route) = "vault" => m.key \in m.era .. secret')
<1>1. secret \in Nat /\ secret' \in Nat /\ secret <= secret'
  BY SecretGrows
<1>2. m \in Message
  BY DEF GatewayInv, IdsOK
<1>3. m.era \in Nat
  BY <1>2, VaultAssumption DEF Message
<1>4. m.era <= secret /\ (KeyOf(m.route) = "vault" => m.key \in m.era .. secret)
  BY DEF GatewayInv, InboxOK
<1> QED BY <1>1, <1>3, <1>4

(* The answer of Vault is the current value of the secret.                 *)
LEMMA VaultGivesCurrent ==
  ASSUME GatewayInv, NEW s \in Slot, VaultStep(s)
  PROVE  UNCHANGED secret /\ (GotSecret(s)' => call'[s].value = secret)
<1>1. call \in [Caller -> Calls] /\ s \in Caller
  BY DEF GatewayInv, VaultInv, VaultTypeOK, Slot
<1>2. CASE VaultReads(s)
  BY <1>1, <1>2 DEF VaultReads, Outcome, Calls, GotSecret, Answered
<1>3. CASE VaultRenews(s)
  BY <1>1, <1>3 DEF VaultRenews, Pending, Outcome, Calls, GotSecret, Answered
<1>4. CASE VaultLogsIn(s)
  BY <1>1, <1>4 DEF VaultLogsIn, Pending, Outcome, Calls, GotSecret, Answered
<1>5. CASE VaultRefuses(s) \/ CallLost(s)
  BY <1>1, <1>5 DEF VaultRefuses, CallLost, Outcome, Calls, GotSecret, Answered
<1>6. CASE Continues(s)
  BY <1>1, <1>6 DEF Continues, RenewAnswered, RenewFailed, LoginAnswered, Sends, Request,
                    GotSecret, Answered
<1> QED BY <1>2, <1>3, <1>4, <1>5, <1>6 DEF VaultStep, VaultHandles

(* The step of the keys: a request begins to wait with the secret's era,   *)
(* Vault answers with the current value, and the message sent carries it.  *)
LEMMA KeysStep == GatewayInv /\ [GatewayNext]_vars => WaitersOK' /\ InboxOK'
<1> SUFFICES ASSUME GatewayInv, [GatewayNext]_vars PROVE WaitersOK' /\ InboxOK'
  OBVIOUS
<1>0. SlotsOK /\ call \in [Slot -> Calls] /\ secret \in Nat
  BY VaultAssumption DEF GatewayInv, VaultInv, VaultTypeOK, Slot
\* Slot s goes to p, and whoever else waits goes on waiting.
<1>m. ASSUME NEW s \in Slot, NEW p, NEW m, Moves(s, p, m), p # "key",
             \A t \in Slot \ {s} : call'[t] = call[t]
      PROVE  WaitersOK'
  <2>1. pc'[s] # "key"
    BY <1>0, <1>m DEF Moves, SlotsOK
  <2>2. \A t \in Slot \ {s} : pc'[t] = pc[t] /\ msg'[t] = msg[t]
    BY <1>0, <1>m DEF Moves, SlotsOK
  <2> QED BY <1>m, <2>1, <2>2, WaiterKept DEF WaitersOK
<1>u. ASSUME UNCHANGED <<pc, msg, call>> PROVE WaitersOK'
  BY <1>u, WaiterKept DEF WaitersOK
<1>i. ASSUME inbox' \subseteq inbox PROVE InboxOK'
  BY <1>i, InboxKept DEF InboxOK
<1>s. ASSUME NEW m, inbox' \subseteq inbox \cup {m}, m.era <= secret, UNCHANGED secret,
             KeyOf(m.route) = "vault" => m.key \in m.era .. secret
      PROVE  InboxOK'
  BY <1>s, InboxKept DEF InboxOK
<1>1. ASSUME NEW s \in Slot, TurnAway(s) \/ Echo(s) PROVE WaitersOK' /\ InboxOK'
  <2>1. /\ UNCHANGED <<call, inbox>>
        /\ Tell(s, "denied") \/ Tell(s, "local")
    BY <1>1 DEF TurnAway, Echo, vaultVars, busVars
  <2>2. Moves(s, "idle", NoMsg)
    BY <2>1, TellMoves DEF Answers
  <2> QED BY <1>m, <1>i, <2>1, <2>2
<1>2. ASSUME NEW s \in Slot, SendAtOnce(s) PROVE WaitersOK' /\ InboxOK'
  <2>1. PICK r \in mix.routes, key \in {FixedKey, Plain} :
          ~NeedsVault(r) /\ Publish(s, NewMessage(r, key))
    BY <1>2 DEF SendAtOnce
  <2>2. asked < MaxRequests /\ UNCHANGED <<call, secret>>
    BY <1>2 DEF SendAtOnce, Idle, vaultVars
  <2> DEFINE m == NewMessage(r, key)
  <2>3. m \in Message
    BY <2>1, <2>2, MixRoutes, NewMessageType, VaultAssumption DEF FixedKey, Plain
  <2>4. m.era = secret /\ m.route = r
    BY DEF NewMessage
  <2>5. KeyOf(m.route) # "vault"
    BY <2>1, <2>4 DEF NeedsVault
  <2> HIDE DEF m
  <2>6. \/ Moves(s, "wait", m) /\ inbox' = inbox \cup {m}
        \/ Moves(s, "idle", NoMsg) /\ UNCHANGED inbox
    BY <2>1, <2>3, PublishMoves DEF m
  <2>7. WaitersOK'
    BY <1>m, <2>2, <2>6
  <2>8. m.era <= secret
    BY <1>0, <2>4
  <2>9. InboxOK'
    BY <1>s, <2>2, <2>5, <2>6, <2>8
  <2> QED BY <2>7, <2>9
<1>3. ASSUME NEW s \in Slot, AskVault(s) PROVE WaitersOK' /\ InboxOK'
  <2>1. PICK r \in mix.routes :
          /\ AskCert(s) \/ AskSecret(s)
          /\ pc' = [pc EXCEPT ![s] = "key"]
          /\ msg' = [msg EXCEPT ![s] = NewMessage(r, Plain)]
    BY <1>3 DEF AskVault
  <2>2. UNCHANGED <<inbox, secret>>
    BY <1>3 DEF AskVault, AskCert, AskSecret, busVars
  <2>3. ~GotSecret(s)' /\ \A t \in Slot \ {s} : call'[t] = call[t]
    BY <1>0, <2>1 DEF AskCert, AskSecret, Sends, Request, GotSecret, Answered, Slot
  <2>4. msg'[s].era = secret
    BY <1>0, <2>1 DEF NewMessage, SlotsOK
  <2>5. \A t \in Slot \ {s} : pc'[t] = pc[t] /\ msg'[t] = msg[t]
    BY <1>0, <2>1 DEF SlotsOK
  <2>6. \A t \in Slot \ {s} :
          pc'[t] = "key" => /\ msg'[t].era <= secret'
                            /\ GotSecret(t)' => call'[t].value \in msg'[t].era .. secret'
    BY <2>3, <2>5, WaiterKept
  <2>7. msg'[s].era <= secret'
    BY <1>0, <2>2, <2>4
  <2> QED BY <1>i, <2>2, <2>3, <2>6, <2>7 DEF WaitersOK
<1>4. ASSUME NEW s \in Slot, UseSecret(s) \/ KeyFailed(s) PROVE WaitersOK' /\ InboxOK'
  <2> DEFINE m == [msg[s] EXCEPT !.key = call[s].value]
  <2>1. /\ pc[s] = "key" /\ Return(s)
        /\ \/ (Tell(s, "local") \/ Tell(s, "nokey")) /\ UNCHANGED inbox
           \/ GotSecret(s) /\ Publish(s, m)
    BY <1>4 DEF UseSecret, KeyFailed, busVars
  <2>2. UNCHANGED secret /\ \A t \in Slot \ {s} : call'[t] = call[t]
    BY <1>0, <2>1 DEF Return, Sends, Slot
  <2>3. GotSecret(s) => m \in Message /\ m.era <= secret /\ m.key \in m.era .. secret
    BY <2>1, KeyedMessage
  <2> HIDE DEF m
  <2>4. CASE (Tell(s, "local") \/ Tell(s, "nokey")) /\ UNCHANGED inbox
    <3>1. Moves(s, "idle", NoMsg)
      BY <2>4, TellMoves DEF Answers
    <3> QED BY <1>m, <1>i, <2>2, <2>4, <3>1
  <2>5. CASE GotSecret(s) /\ Publish(s, m)
    <3>1. \/ Moves(s, "wait", m) /\ inbox' = inbox \cup {m}
          \/ Moves(s, "idle", NoMsg) /\ UNCHANGED inbox
      BY <2>3, <2>5, PublishMoves
    <3>2. WaitersOK'
      BY <1>m, <2>2, <3>1
    <3>3. InboxOK'
      BY <1>s, <2>2, <2>3, <2>5, <3>1
    <3> QED BY <3>2, <3>3
  <2> QED BY <2>1, <2>4, <2>5
<1>5. ASSUME NEW s \in Slot, VaultStep(s) PROVE WaitersOK' /\ InboxOK'
  <2>1. UNCHANGED <<pc, msg, inbox>>
    BY <1>5 DEF VaultStep, gatewayVars, busVars
  <2>2. UNCHANGED secret /\ (GotSecret(s)' => call'[s].value = secret)
    BY <1>5, VaultGivesCurrent
  <2>3. \A t \in Slot \ {s} : call'[t] = call[t]
    BY <1>5, VaultStepCalls
  <2>4. ASSUME pc'[s] = "key"
        PROVE  /\ msg'[s].era <= secret'
               /\ GotSecret(s)' => call'[s].value \in msg'[s].era .. secret'
    <3>1. msg[s].era <= secret /\ msg[s] \in Message
      BY <2>1, <2>4 DEF GatewayInv, WaitersOK, SlotsOK
    <3>2. msg[s].era \in Nat
      BY <3>1, VaultAssumption DEF Message
    <3> QED BY <1>0, <2>1, <2>2, <3>1, <3>2
  <2>5. \A t \in Slot \ {s} :
          pc'[t] = "key" => /\ msg'[t].era <= secret'
                            /\ GotSecret(t)' => call'[t].value \in msg'[t].era .. secret'
    BY <2>1, <2>3, WaiterKept
  <2> QED BY <1>i, <2>1, <2>4, <2>5 DEF WaitersOK
<1>6. ASSUME NEW i \in RequestId, Serve(i) \/ ServeAndDie(i) PROVE WaitersOK' /\ InboxOK'
  <2>1. UNCHANGED <<pc, msg, call>> /\ inbox' \subseteq inbox
    BY <1>6 DEF Serve, ServeAndDie, vaultVars, gatewayVars
  <2> QED BY <1>i, <1>u, <2>1
<1>7. ASSUME NEW i \in RequestId, Consume(i) PROVE WaitersOK' /\ InboxOK'
  <2>1. UNCHANGED <<call, inbox>>
    BY <1>7 DEF Consume, vaultVars
  <2>2. CASE UNCHANGED <<pc, msg, answer>>
    BY <1>i, <1>u, <2>1, <2>2
  <2>3. CASE \E s \in Waiting(i) : Tell(s, Judged(msg[s].route, Head(replies[i])))
    <3>1. PICK s \in Slot : Tell(s, Judged(msg[s].route, Head(replies[i])))
      BY <2>3 DEF Waiting
    <3>2. Judged(msg[s].route, Head(replies[i])) \in Answers
      BY DEF Judged, Answers
    <3>3. Moves(s, "idle", NoMsg)
      BY <3>1, <3>2, TellMoves
    <3> QED BY <1>i, <1>m, <2>1, <3>3
  <2> QED BY <1>7, <2>2, <2>3 DEF Consume
<1>8. ASSUME Die PROVE WaitersOK' /\ InboxOK'
  BY <1>i, <1>8 DEF Die, busVars, WaitersOK
<1>9. ASSUME Boot \/ Environment \/ UNCHANGED vars PROVE WaitersOK' /\ InboxOK'
  <2>1. UNCHANGED <<pc, msg, call, inbox>>
    BY <1>9 DEF Boot, LogInAtStart, Environment, Tick, Rotate, vars, vaultVars, gatewayVars, busVars
  <2> QED BY <1>i, <1>u, <2>1
<1> QED BY <1>1, <1>2, <1>3, <1>4, <1>5, <1>6, <1>7, <1>8, <1>9 DEF GatewayNext

(* The invariant is inductive.                                             *)
LEMMA GatewayInvStep == GatewayInv /\ [GatewayNext]_vars => GatewayInv'
<1>1. GatewayInv /\ [GatewayNext]_vars => VaultInv'
  BY VaultSteps, VaultInvStep DEF GatewayInv
<1> QED BY <1>1, SlotsStep, IdsStep, RepliesStep, KeysStep, CountersStep DEF GatewayInv

(* The gateway is type correct, with any number of requests and deaths:    *)
(* who waits for Vault has a call, and only requests carry messages.       *)
THEOREM GatewayTypes == GatewaySpec => []GatewayTypeOK
<1>1. GatewayInv => GatewayTypeOK
  BY InvTypes
<1> QED BY <1>1, GatewayInitInv, GatewayInvStep, PTL DEF GatewaySpec

(* A message carries the key that is in Vault, unless it was rotated since *)
(* the request came, whatever happened to the token (auth: encrypt).       *)
THEOREM KeysCurrent == GatewaySpec => []KeyIsCurrent
<1>1. GatewayInv => KeyIsCurrent
  BY InvKeys
<1> QED BY <1>1, GatewayInitInv, GatewayInvStep, PTL DEF GatewaySpec

-----------------------------------------------------------------------------
(* Each connection is a remote call.                                       *)

\* The refinement mapping, as in the definition of Call.
Opened  == [s \in Slot |-> pc[s] # "idle"]
Carried == [s \in Slot |-> pc[s] # "idle" /\ msg[s].id \in performed]

(* Nothing a connection sees has changed.                                  *)
LEMMA CallStutters ==
  ASSUME UNCHANGED <<Opened, Carried, answer>> PROVE UNCHANGED Call!vars
  BY DEF Opened, Carried, Call!vars

(* The map, when slot s moves and nothing is performed.                    *)
LEMMA MapMoves ==
  ASSUME GatewayInv, NEW s \in Slot, NEW p, NEW m, Moves(s, p, m), UNCHANGED performed
  PROVE  /\ Opened' = [Opened EXCEPT ![s] = p # "idle"]
         /\ Carried' = [Carried EXCEPT ![s] = p # "idle" /\ m.id \in performed]
<1>1. \A t \in Slot : /\ pc'[t] = IF t = s THEN p ELSE pc[t]
                      /\ msg'[t] = IF t = s THEN m ELSE msg[t]
  BY DEF GatewayInv, SlotsOK, Moves
<1> QED BY <1>1 DEF Opened, Carried

(* An idle connection has no request that could have been carried out.     *)
LEMMA IdleMap ==
  ASSUME GatewayInv, NEW s \in Slot, pc[s] = "idle"
  PROVE  /\ Opened = [Opened EXCEPT ![s] = FALSE] /\ Carried = [Carried EXCEPT ![s] = FALSE]
         /\ ~Opened[s]
  BY DEF Opened, Carried

(* A connection that is told something by the gateway alone.               *)
LEMMA ToldWhenIdle ==
  ASSUME GatewayInv, NEW s \in Slot, NEW a \in Answers \ {"ok"}, pc[s] = "idle", Tell(s, a),
         UNCHANGED performed
  PROVE  Call!TurnAway(s)
<1>1. Moves(s, "idle", NoMsg)
  BY TellMoves
<1>2. UNCHANGED <<Opened, Carried>>
  BY <1>1, MapMoves, IdleMap
<1>3. answer' = [answer EXCEPT ![s] = a]
  BY DEF Tell
<1> QED BY <1>2, <1>3, IdleMap DEF Call!TurnAway, Opened, Carried

(* A new request has a number that nobody has performed.                   *)
LEMMA AskedNow ==
  ASSUME GatewayInv, NEW s \in Slot, pc[s] = "idle", NEW p \in {"key", "wait"}, NEW m,
         Moves(s, p, m), m.id = asked + 1, UNCHANGED <<performed, answer>>
  PROVE  Call!Ask(s)
<1>1. m.id \notin performed
  BY GatewayAssumption DEF GatewayInv, IdsOK
<1>2. Opened' = [Opened EXCEPT ![s] = TRUE] /\ Carried' = Carried
  BY <1>1, MapMoves, IdleMap
<1> QED BY <1>2, IdleMap DEF Call!Ask, Opened, Carried

(* A request is answered; "ok" only if it was carried out.                 *)
LEMMA AnsweredNow ==
  ASSUME GatewayInv, NEW s \in Slot, pc[s] # "idle", NEW a \in Answers, Tell(s, a),
         UNCHANGED performed, a = "ok" => msg[s].id \in performed
  PROVE  Call!Answer(s, a)
<1>1. Moves(s, "idle", NoMsg)
  BY TellMoves
<1>2. Opened' = [Opened EXCEPT ![s] = FALSE] /\ Carried' = [Carried EXCEPT ![s] = FALSE]
  BY <1>1, MapMoves
<1>3. answer' = [answer EXCEPT ![s] = a]
  BY DEF Tell
<1>4. Opened[s] /\ (a = "ok" => Carried[s])
  BY DEF Opened, Carried
<1> QED BY <1>2, <1>3, <1>4 DEF Call!Answer, Opened, Carried

(* A handler that carries out request i carries out the request of the     *)
(* connection that sent it, if it still waits, and of no other.            *)
LEMMA PerformedNow ==
  ASSUME GatewayInv, NEW i \in RequestId, UNCHANGED <<pc, msg, answer>>,
         performed' \in {performed, performed \cup {i}}
  PROVE  UNCHANGED Call!vars \/ \E s \in Slot : Call!Perform(s)
<1>1. CASE \E s \in Slot : pc[s] # "idle" /\ msg[s].id = i /\ performed' = performed \cup {i}
  <2>1. PICK s \in Slot : pc[s] # "idle" /\ msg[s].id = i /\ performed' = performed \cup {i}
    BY <1>1
  <2>2. \A t \in Slot \ {s} : pc[t] # "idle" => msg[t].id # i
    BY <2>1 DEF GatewayInv, IdsOK
  <2>3. \A t \in Slot : (pc'[t] # "idle" /\ msg'[t].id \in performed')
                         <=> IF t = s THEN TRUE ELSE pc[t] # "idle" /\ msg[t].id \in performed
    BY <2>1, <2>2
  <2>4. Carried' = [Carried EXCEPT ![s] = TRUE]
    BY <2>3 DEF Carried
  <2>5. UNCHANGED <<Opened, answer>> /\ Opened[s]
    BY <2>1 DEF Opened
  <2>6. Call!Perform(s)
    BY <2>4, <2>5 DEF Call!Perform, Opened, Carried
  <2> QED BY <2>6
<1>2. CASE ~\E s \in Slot : pc[s] # "idle" /\ msg[s].id = i /\ performed' = performed \cup {i}
  <2>1. UNCHANGED <<Opened, Carried, answer>>
    BY <1>2 DEF Opened, Carried
  <2> QED BY <2>1, CallStutters
<1> QED BY <1>1, <1>2

(* Every step of the gateway is a step of the connections, or a stutter.   *)
LEMMA CallStep == GatewayInv /\ [GatewayNext]_vars => [Call!Next]_(Call!vars)
<1> SUFFICES ASSUME GatewayInv, [GatewayNext]_vars PROVE Call!Next \/ UNCHANGED Call!vars
  OBVIOUS
<1>0. SlotsOK
  BY DEF GatewayInv
<1>n. ASSUME NEW s \in Slot,
             Call!Ask(s) \/ Call!TurnAway(s) \/ Call!Perform(s) \/ \E a \in Answers : Call!Answer(s, a)
      PROVE  Call!Next
  BY <1>n DEF Call!Next
<1>u. ASSUME UNCHANGED <<pc, msg, answer, performed>> PROVE UNCHANGED Call!vars
  BY <1>u DEF Call!vars
<1>1. ASSUME NEW s \in Slot, TurnAway(s) \/ Echo(s) PROVE Call!Next
  <2>1. /\ pc[s] = "idle" /\ UNCHANGED performed
        /\ Tell(s, "denied") \/ Tell(s, "local")
    BY <1>1 DEF TurnAway, Echo, Idle, busVars
  <2> QED BY <1>n, <2>1, ToldWhenIdle DEF Answers
<1>2. ASSUME NEW s \in Slot, SendAtOnce(s) PROVE Call!Next
  <2>1. PICK r \in mix.routes, key \in {FixedKey, Plain} : Publish(s, NewMessage(r, key))
    BY <1>2 DEF SendAtOnce
  <2>2. pc[s] = "idle" /\ asked < MaxRequests
    BY <1>2 DEF SendAtOnce, Idle
  <2> DEFINE m == NewMessage(r, key)
  <2>3. m \in Message /\ m.id = asked + 1
    BY <2>1, <2>2, MixRoutes, NewMessageType, VaultAssumption DEF FixedKey, Plain
  <2> HIDE DEF m
  <2>4. /\ UNCHANGED performed
        /\ (Moves(s, "wait", m) /\ UNCHANGED answer) \/ Tell(s, "unroutable")
    BY <2>1, <2>3, PublishMoves DEF m
  <2>5. CASE Tell(s, "unroutable")
    BY <1>n, <2>2, <2>4, <2>5, ToldWhenIdle DEF Answers
  <2>6. CASE Moves(s, "wait", m) /\ UNCHANGED answer
    BY <1>n, <2>2, <2>3, <2>4, <2>6, AskedNow
  <2> QED BY <2>4, <2>5, <2>6
<1>3. ASSUME NEW s \in Slot, AskVault(s) PROVE Call!Next
  <2>1. PICK r \in mix.routes :
          pc' = [pc EXCEPT ![s] = "key"] /\ msg' = [msg EXCEPT ![s] = NewMessage(r, Plain)]
    BY <1>3 DEF AskVault
  <2>2. pc[s] = "idle" /\ UNCHANGED <<answer, performed>>
    BY <1>3 DEF AskVault, Idle, busVars
  <2>3. Moves(s, "key", NewMessage(r, Plain)) /\ NewMessage(r, Plain).id = asked + 1
    BY <1>0, <2>1, <2>2 DEF Moves, SlotsOK, NewMessage
  <2> QED BY <1>n, <2>2, <2>3, AskedNow
<1>4. ASSUME NEW s \in Slot, UseSecret(s) \/ KeyFailed(s) PROVE Call!Next \/ UNCHANGED Call!vars
  <2> DEFINE m == [msg[s] EXCEPT !.key = call[s].value]
  <2>1. /\ pc[s] = "key"
        /\ \/ (Tell(s, "local") \/ Tell(s, "nokey")) /\ UNCHANGED performed
           \/ GotSecret(s) /\ Publish(s, m)
    BY <1>4 DEF UseSecret, KeyFailed, busVars
  <2>2. GotSecret(s) => m \in Message /\ m.id = msg[s].id
    BY <2>1, KeyedMessage
  <2> HIDE DEF m
  <2>3. CASE (Tell(s, "local") \/ Tell(s, "nokey")) /\ UNCHANGED performed
    BY <1>n, <2>1, <2>3, AnsweredNow DEF Answers
  <2>4. CASE GotSecret(s) /\ Publish(s, m)
    <3>1. /\ UNCHANGED performed
          /\ (Moves(s, "wait", m) /\ UNCHANGED answer) \/ Tell(s, "unroutable")
      BY <2>2, <2>4, PublishMoves
    <3>2. CASE Tell(s, "unroutable")
      BY <1>n, <2>1, <3>1, <3>2, AnsweredNow DEF Answers
    <3>3. CASE Moves(s, "wait", m) /\ UNCHANGED answer
      <4>1. /\ Opened' = [Opened EXCEPT ![s] = "wait" # "idle"]
            /\ Carried' = [Carried EXCEPT ![s] = "wait" # "idle" /\ m.id \in performed]
        BY <3>1, <3>3, MapMoves
      <4>2. UNCHANGED <<Opened, Carried>>
        BY <2>1, <2>2, <2>4, <4>1 DEF Opened, Carried
      <4> QED BY <3>3, <4>2, CallStutters
    <3> QED BY <3>1, <3>2, <3>3
  <2> QED BY <2>1, <2>3, <2>4
<1>5. ASSUME NEW s \in Slot, VaultStep(s) PROVE UNCHANGED Call!vars
  BY <1>u, <1>5 DEF VaultStep, gatewayVars, busVars
<1>6. ASSUME NEW i \in RequestId, Serve(i) \/ ServeAndDie(i) PROVE Call!Next \/ UNCHANGED Call!vars
  <2>0. PICK m \in inbox : \E r \in Outcomes(m) : m.id = i /\ Handle(m, r)
    BY <1>6 DEF Serve, ServeAndDie
  <2>1. PICK r \in Outcomes(m) : m.id = i /\ Handle(m, r)
    BY <2>0
  <2>2. performed' \in {performed, performed \cup {i}} /\ UNCHANGED <<pc, msg, answer>>
    BY <1>6, <2>1 DEF Serve, ServeAndDie, Handle, gatewayVars
  <2> QED BY <1>n, <2>2, PerformedNow
<1>7. ASSUME NEW i \in RequestId, Consume(i) PROVE Call!Next \/ UNCHANGED Call!vars
  <2>1. replies[i] # <<>> /\ UNCHANGED performed
    BY <1>7 DEF Consume
  <2>2. CASE UNCHANGED <<pc, msg, answer>>
    BY <1>u, <2>1, <2>2
  <2>3. CASE \E s \in Waiting(i) : Tell(s, Judged(msg[s].route, Head(replies[i])))
    <3>1. PICK s \in Slot : /\ pc[s] = "wait" /\ msg[s].id = i
                            /\ Tell(s, Judged(msg[s].route, Head(replies[i])))
      BY <2>3 DEF Waiting
    <3>2. PICK a \in Answers : a = Judged(msg[s].route, Head(replies[i]))
      BY DEF Judged, Answers
    <3>3. replies[i] \in Seq(Reply) /\ 1 \in 1 .. Len(replies[i])
      BY <2>1 DEF GatewayInv, RepliesOK
    <3>4. Head(replies[i]) = replies[i][1]
      BY <2>1, <3>3
    <3>5. a = "ok" => Head(replies[i]).says = "OK"
      BY <3>2 DEF Judged
    <3>6. a = "ok" => msg[s].id \in performed
      BY <3>1, <3>3, <3>4, <3>5 DEF GatewayInv, RepliesOK
    <3>7. Call!Answer(s, a)
      BY <2>1, <3>1, <3>2, <3>6, AnsweredNow
    <3> QED BY <1>n, <3>2, <3>7
  <2> QED BY <1>7, <2>2, <2>3 DEF Consume
<1>8. ASSUME Die PROVE Call!Next
  <2>1. /\ pc' = [s \in Slot |-> "idle"]
        /\ answer' = [s \in Slot |-> IF pc[s] = "idle" THEN answer[s] ELSE "gone"]
    BY <1>8 DEF Die
  <2>2. Call!Lose
    BY <2>1 DEF Call!Lose
  <2> QED BY <2>2 DEF Call!Next
<1>9. ASSUME Boot \/ Environment \/ UNCHANGED vars PROVE UNCHANGED Call!vars
  BY <1>u, <1>9 DEF Boot, Environment, vars, gatewayVars, busVars
<1> QED BY <1>1, <1>2, <1>3, <1>4, <1>5, <1>6, <1>7, <1>8, <1>9 DEF GatewayNext

(* Each connection of the gateway is the remote call of RemoteCall: one    *)
(* answer per request, and "ok" only if a service carried it out.          *)
THEOREM GatewayImplements == GatewaySpec => ImplementsRemoteCall
<1>1. GatewayInit => Call!Init
  BY DEF GatewayInit, Call!Init, Answers
<1>2. GatewayInv /\ [GatewayNext]_vars => [Call!Next]_(Call!vars)
  BY CallStep
<1> QED BY <1>1, <1>2, GatewayInitInv, GatewayInvStep, PTL
    DEF GatewaySpec, ImplementsRemoteCall, Call!Spec

-----------------------------------------------------------------------------
(* AnswersAgree.  Every request number has one route, R[i], and whatever   *)
(* comes back under the number is a reply of that route's handler.         *)

ServiceReplies(r) ==
  CASE r.service = "order"    -> OrderReplies(r.op)
    [] r.service = "product"  -> ProductReplies(r.op)
    [] r.service = "category" -> CategoryReplies(r.op)
    [] r.service = "brand"    -> BrandReplies(r.op)
    [] OTHER                  -> AuthReplies(r.op) \cup {Filtered}

Fits(R) ==
  /\ \A s \in Slot : /\ pc[s] # "idle" => msg[s].route = R[msg[s].id]
                     /\ pc[s] = "wait" => msg[s].route.service # "vault"
                     /\ answer[s] # "unroutable"
  /\ \A m \in inbox : m.route = R[m.id]
  /\ \A i \in RequestId : \A k \in 1 .. Len(replies[i]) :
       i <= asked /\ replies[i][k] \in ServiceReplies(R[i]) \cup {Thrown}

OneRoute == \E R \in [RequestId -> Route] : Fits(R)

(* The table: what the gateway makes of each reply of each service.        *)
LEMMA JudgedAsTold ==
  ASSUME NEW r \in Route, r.service # "vault",
         NEW reply \in ServiceReplies(r) \cup {Thrown}
  PROVE  Judged(r, reply) = ToldOf(r, reply)
<1>1. /\ Thrown.says = "ERR" /\ "err" \in Thrown.fields
      /\ \A y : "err" \notin y.fields => y # Thrown
  BY DEF Thrown, Said
<1>2. /\ Done.says = "OK" /\ "err" \notin Done.fields
      /\ {"message"} \subseteq Done.fields /\ {"message", "status"} \subseteq Done.fields
  BY DEF Done, Said
<1>3. /\ DoneWithData.says = "OK" /\ "err" \notin DoneWithData.fields
      /\ {"message"} \subseteq DoneWithData.fields
      /\ {"message", "data"} \subseteq DoneWithData.fields
  BY DEF DoneWithData, Said
<1>4. /\ Refused.says = "ERR" /\ "err" \notin Refused.fields
      /\ {"message"} \subseteq Refused.fields
      /\ ~({"message", "data"} \subseteq Refused.fields)
  BY DEF Refused, Said
<1>5. CASE reply = Thrown
  BY <1>1, <1>5 DEF Judged, Accepts, ToldOf
<1>6. CASE r.service = "order" /\ reply \in OrderReplies(r.op)
  <2>1. r.op \in OrderRoutes
    BY <1>6 DEF Route
  <2>2. ASSUME reply = Said("ERR", {"message"})
        PROVE  /\ reply.says = "ERR" /\ "err" \notin reply.fields
               /\ ~({"message", "data"} \subseteq reply.fields)
    BY <2>2 DEF Said
  <2> QED
    BY <1>1, <1>2, <1>3, <1>6, <2>1, <2>2
    DEF OrderRoutes, OrderReplies, OrderNeeds, Needs, Accepts, Judged, ToldOf, Lenient
<1>7. CASE r.service = "product" /\ reply \in ProductReplies(r.op)
  <2>1. r.op \in ProductRoutes
    BY <1>7 DEF Route
  <2> QED
    BY <1>1, <1>2, <1>3, <1>4, <1>7, <2>1
    DEF ProductRoutes, ProductReplies, ProductNeeds, Needs, Accepts, Judged, ToldOf, Lenient
<1>8. CASE r.service = "category" /\ reply \in CategoryReplies(r.op)
  <2>1. r.op \in CategoryRoutes
    BY <1>8 DEF Route
  <2> QED
    BY <1>1, <1>2, <1>3, <1>4, <1>8, <2>1
    DEF CategoryRoutes, CategoryReplies, CategoryNeeds, Needs, Accepts, Judged, ToldOf, Lenient
<1>9. CASE r.service = "brand" /\ reply \in BrandReplies(r.op)
  <2>1. r.op \in BrandRoutes
    BY <1>9 DEF Route
  <2> QED
    BY <1>1, <1>2, <1>3, <1>4, <1>9, <2>1
    DEF BrandRoutes, BrandReplies, BrandNeeds, Needs, Accepts, Judged, ToldOf, Lenient
<1>10. CASE r.service = "auth" /\ reply \in AuthReplies(r.op) \cup {Filtered}
  <2>1. r.op \in AuthRoutes
    BY <1>10 DEF Route
  <2>2. /\ Filtered.says = "ERR" /\ "statusCode" \in Filtered.fields
        /\ "err" \notin Filtered.fields
    BY DEF Filtered, Said
  <2>3. \A says \in {"OK", "ERR"}, field \in {"html", "message"} :
          /\ Said(says, {field}).says = says
          /\ "statusCode" \notin Said(says, {field}).fields
          /\ "err" \notin Said(says, {field}).fields
    BY DEF Said
  <2>4. \/ reply = Filtered
        \/ reply = Said("OK", {"message"})
        \/ r.op = "verifyEmail" /\ (reply = Said("OK", {"html"}) \/ reply = Said("ERR", {"html"}))
    BY <1>10, <2>1 DEF AuthRoutes, AuthReplies
  <2> QED
    BY <1>1, <1>10, <2>1, <2>2, <2>3, <2>4
    DEF AuthRoutes, AuthAccepts, Accepts, Judged, ToldOf, Lenient
<1>11. r.service \in {"order", "product", "category", "brand", "auth"}
  BY DEF Route
<1> QED BY <1>5, <1>6, <1>7, <1>8, <1>9, <1>10, <1>11 DEF ServiceReplies

(* A handler of the route gives one of the route's replies, or throws.     *)
LEMMA OutcomesFit ==
  ASSUME NEW m
  PROVE  Outcomes(m) \subseteq ServiceReplies(m.route) \cup {Thrown}
BY DEF Outcomes, Replies, ServiceReplies

(* Every route that is sent has its reply topic: the two lists agree.      *)
LEMMA RoutesSubscribed ==
  ASSUME NEW r \in Route, r.service # "vault" PROVE Subscribed(r)
<1>1. CASE r.service = "order"
  BY <1>1 DEF Route, Subscribed, OrderRoutes, OrderTopics
<1>2. CASE r.service = "product"
  BY <1>2 DEF Route, Subscribed, ProductRoutes, ProductTopics
<1>3. CASE r.service = "brand"
  BY <1>3 DEF Route, Subscribed, BrandRoutes, BrandTopics
<1>4. CASE r.service = "category"
  BY <1>4 DEF Route, Subscribed, CategoryRoutes, CategoryTopics
<1>5. CASE r.service = "auth"
  BY <1>5 DEF Route, Subscribed, AuthRoutes, AuthTopics
<1> QED BY <1>1, <1>2, <1>3, <1>4, <1>5 DEF Route

(* The next number has no reply yet, so its route may be any.              *)
LEMMA NextRoute ==
  ASSUME GatewayInv, OneRoute, asked < MaxRequests, NEW CONSTANT r \in Route
  PROVE  \E R \in [RequestId -> Route] : Fits(R) /\ R[asked + 1] = r
<1>1. PICK R \in [RequestId -> Route] : Fits(R)
  BY DEF OneRoute
<1>2. /\ asked \in Nat /\ asked + 1 \in RequestId /\ RequestId \subseteq Nat
      /\ \A m \in inbox : m.id \in RequestId /\ m.id <= asked
      /\ \A s \in Slot : pc[s] # "idle" => msg[s].id \in RequestId /\ msg[s].id <= asked
  BY GatewayAssumption DEF GatewayInv, IdsOK, SlotsOK, RequestId, Message
<1>3. PICK S \in [RequestId -> Route] :
        S[asked + 1] = r /\ \A i \in RequestId : i <= asked => S[i] = R[i]
  <2> DEFINE S == [R EXCEPT ![asked + 1] = r]
  <2>1. S \in [RequestId -> Route] /\ S[asked + 1] = r
    BY <1>2
  <2>2. \A i \in RequestId : i <= asked => i # asked + 1
    BY <1>2
  <2>3. \A i \in RequestId : i <= asked => S[i] = R[i]
    BY <2>2
  <2> HIDE DEF S
  <2> QED BY <2>1, <2>3
<1>4. Fits(S)
  BY <1>1, <1>2, <1>3 DEF Fits
<1> QED BY <1>3, <1>4

(* A connection moves, with a request of its number's route or with none.  *)
LEMMA FitsMoves ==
  ASSUME GatewayInv, NEW CONSTANT R \in [RequestId -> Route], Fits(R), NEW s \in Slot,
         NEW p \in {"idle", "key", "wait"}, NEW m, Moves(s, p, m),
         p # "idle" => m.route = R[m.id],
         p = "wait" => m.route.service # "vault",
         answer'[s] # "unroutable", \A t \in Slot \ {s} : answer'[t] = answer[t],
         UNCHANGED replies, asked' \in {asked, asked + 1},
         inbox' = inbox \/ (p = "wait" /\ inbox' = inbox \cup {m})
  PROVE  OneRoute'
<1>1. /\ asked \in Nat /\ RequestId \subseteq Nat
      /\ pc'[s] = p /\ msg'[s] = m
      /\ \A t \in Slot \ {s} : pc'[t] = pc[t] /\ msg'[t] = msg[t]
  BY GatewayAssumption DEF GatewayInv, IdsOK, SlotsOK, RequestId, Moves
<1>2. \A i \in Nat : i <= asked => i <= asked'
  BY <1>1
<1>3. Fits(R)'
  BY <1>1, <1>2 DEF Fits
<1> QED BY <1>3 DEF OneRoute

(* A request that is told something takes nobody's number.                 *)
LEMMA FitsTold ==
  ASSUME GatewayInv, OneRoute, NEW s \in Slot, NEW a \in Answers \ {"unroutable"}, Tell(s, a),
         UNCHANGED <<replies, inbox>>, asked' \in {asked, asked + 1}
  PROVE  OneRoute'
<1>1. PICK R \in [RequestId -> Route] : Fits(R)
  BY DEF OneRoute
<1>2. Moves(s, "idle", NoMsg)
  BY TellMoves
<1>3. answer'[s] # "unroutable" /\ \A t \in Slot \ {s} : answer'[t] = answer[t]
  BY DEF Tell, GatewayInv, SlotsOK
<1> QED BY <1>1, <1>2, <1>3, FitsMoves

(* A request of its number's route is sent: there is a reply topic.        *)
LEMMA FitsPublished ==
  ASSUME GatewayInv, NEW CONSTANT R \in [RequestId -> Route], Fits(R), NEW s \in Slot,
         NEW m \in Message, Publish(s, m), m.route = R[m.id], m.route.service # "vault",
         asked' \in {asked, asked + 1}
  PROVE  OneRoute'
<1>1. m.route \in Route
  BY DEF Message
<1>2. Subscribed(m.route)
  BY <1>1, RoutesSubscribed
<1>3. /\ pc' = [pc EXCEPT ![s] = "wait"] /\ msg' = [msg EXCEPT ![s] = m]
      /\ inbox' = inbox \cup {m} /\ UNCHANGED <<answer, replies>>
  BY <1>2 DEF Publish
<1>4. Moves(s, "wait", m) /\ \A t \in Slot : answer'[t] # "unroutable" /\ answer'[t] = answer[t]
  BY <1>3 DEF Moves, Fits, GatewayInv, SlotsOK
<1> QED BY <1>3, <1>4, FitsMoves

(* A new request makes its number's route its own.                         *)
LEMMA FitsArrivals ==
  ASSUME GatewayInv, OneRoute, NEW s \in Slot, SendAtOnce(s) \/ AskVault(s)
  PROVE  OneRoute'
<1>1. asked < MaxRequests /\ asked' \in {asked, asked + 1} /\ mix.routes \subseteq Route
  BY MixRoutes DEF SendAtOnce, AskVault, Idle, Counted
<1>2. CASE SendAtOnce(s)
  <2>1. PICK r \in mix.routes, key \in {FixedKey, Plain} :
          r.service # "vault" /\ Publish(s, NewMessage(r, key))
    BY <1>2 DEF SendAtOnce, NeedsVault
  <2>2. NewMessage(r, key) \in Message /\ NewMessage(r, key).id = asked + 1
    BY <1>1, <2>1, NewMessageType, VaultAssumption DEF FixedKey, Plain
  <2>3. PICK R \in [RequestId -> Route] : Fits(R) /\ R[asked + 1] = r
    BY <1>1, <2>1, NextRoute
  <2>4. NewMessage(r, key).route = r
    BY DEF NewMessage
  <2> QED BY <1>1, <2>1, <2>2, <2>3, <2>4, FitsPublished
<1>3. CASE AskVault(s)
  <2>1. PICK r \in mix.routes :
          pc' = [pc EXCEPT ![s] = "key"] /\ msg' = [msg EXCEPT ![s] = NewMessage(r, Plain)]
    BY <1>3 DEF AskVault
  <2>2. UNCHANGED <<answer, inbox, replies>>
    BY <1>3 DEF AskVault, busVars
  <2>3. NewMessage(r, Plain).id = asked + 1 /\ NewMessage(r, Plain).route = r
    BY DEF NewMessage
  <2>4. PICK R \in [RequestId -> Route] : Fits(R) /\ R[asked + 1] = r
    BY <1>1, <2>1, NextRoute
  <2>5. Moves(s, "key", NewMessage(r, Plain)) /\ answer'[s] # "unroutable"
    BY <2>1, <2>2, <2>4 DEF Moves, GatewayInv, SlotsOK, Fits
  <2> QED BY <1>1, <2>2, <2>3, <2>4, <2>5, FitsMoves
<1> QED BY <1>2, <1>3

(* A request that has its key goes on under its number.                    *)
LEMMA FitsSecret ==
  ASSUME GatewayInv, OneRoute, NEW s \in Slot, UseSecret(s)
  PROVE  OneRoute'
<1> DEFINE m == [msg[s] EXCEPT !.key = call[s].value]
<1>1. PICK R \in [RequestId -> Route] : Fits(R)
  BY DEF OneRoute
<1>2. /\ pc[s] = "key" /\ GotSecret(s) /\ UNCHANGED asked
      /\ IF msg[s].route.service = "vault" THEN Tell(s, "local") /\ UNCHANGED busVars
                                           ELSE Publish(s, m)
  BY DEF UseSecret
<1>3. m \in Message /\ m.id = msg[s].id /\ m.route = msg[s].route
  BY <1>2, KeyedMessage
<1>4. m.route = R[m.id]
  BY <1>1, <1>2, <1>3 DEF Fits
<1> HIDE DEF m
<1>5. CASE msg[s].route.service = "vault"
  BY <1>2, <1>5, FitsTold DEF Answers, busVars
<1>6. CASE msg[s].route.service # "vault"
  BY <1>1, <1>2, <1>3, <1>4, <1>6, FitsPublished
<1> QED BY <1>5, <1>6

(* A handler replies to the number of its message, with a reply of the     *)
(* message's route.                                                        *)
LEMMA FitsServed ==
  ASSUME GatewayInv, OneRoute, NEW i \in RequestId, Serve(i) \/ ServeAndDie(i)
  PROVE  OneRoute'
<1>1. PICK R \in [RequestId -> Route] : Fits(R)
  BY DEF OneRoute
<1>2. PICK m \in inbox : \E r \in Outcomes(m) : Send(m, r) \/ UNCHANGED replies
  BY DEF Serve, ServeAndDie
<1>3. PICK r \in Outcomes(m) : Send(m, r) \/ UNCHANGED replies
  BY <1>2
<1>4. /\ UNCHANGED <<pc, msg, answer, asked>> /\ inbox' \subseteq inbox
  BY DEF Serve, ServeAndDie, gatewayVars
<1>5. /\ m.id \in RequestId /\ m.id <= asked /\ m.route = R[m.id]
      /\ r \in ServiceReplies(R[m.id]) \cup {Thrown} /\ r \in Reply
  BY <1>1, <1>3, OutcomesFit, OutcomesAreReplies DEF Fits, GatewayInv, IdsOK, Message
<1>6. ASSUME NEW j \in RequestId, NEW k \in 1 .. Len(replies'[j])
      PROVE  j <= asked' /\ replies'[j][k] \in ServiceReplies(R[j]) \cup {Thrown}
  <2>1. CASE replies'[j] = replies[j]
    BY <1>1, <1>4, <1>6, <2>1 DEF Fits
  <2>2. CASE replies'[j] # replies[j]
    <3>1. replies[j] \in Seq(Reply)
      BY DEF GatewayInv, RepliesOK
    <3>2. j = m.id /\ replies'[j] = Append(replies[j], r)
      BY <1>3, <1>5, <2>2 DEF Send, GatewayInv, RepliesOK
    <3>3. replies'[j][k] = r \/ (k \in 1 .. Len(replies[j]) /\ replies'[j][k] = replies[j][k])
      BY <1>5, <1>6, <3>1, <3>2
    <3> QED BY <1>1, <1>4, <1>5, <3>2, <3>3 DEF Fits
  <2> QED BY <2>1, <2>2
<1>7. Fits(R)'
  BY <1>1, <1>4, <1>6 DEF Fits
<1> QED BY <1>7 DEF OneRoute

(* The consumer takes a reply, and tells the one that waits for it.        *)
LEMMA FitsConsumed ==
  ASSUME GatewayInv, OneRoute, NEW i \in RequestId, Consume(i)
  PROVE  OneRoute'
<1>1. PICK R \in [RequestId -> Route] : Fits(R)
  BY DEF OneRoute
<1>2. /\ replies' = [replies EXCEPT ![i] = Tail(replies[i])] /\ replies[i] # <<>>
      /\ UNCHANGED <<asked, inbox>>
  BY DEF Consume
<1>3. ASSUME NEW j \in RequestId, NEW k \in 1 .. Len(replies'[j])
      PROVE  j <= asked' /\ replies'[j][k] \in ServiceReplies(R[j]) \cup {Thrown}
  <2>1. replies[j] \in Seq(Reply)
    BY DEF GatewayInv, RepliesOK
  <2>2. CASE j # i
    BY <1>1, <1>2, <1>3, <2>2 DEF Fits, GatewayInv, RepliesOK
  <2>3. CASE j = i
    <3>1. replies'[j] = Tail(replies[j]) /\ replies[j] # <<>>
      BY <1>2, <2>3 DEF GatewayInv, RepliesOK
    <3>2. k + 1 \in 1 .. Len(replies[j]) /\ replies'[j][k] = replies[j][k + 1]
      BY <1>3, <2>1, <3>1
    <3> QED BY <1>1, <1>2, <3>2 DEF Fits
  <2> QED BY <2>2, <2>3
<1>4. \A s \in Slot : /\ pc'[s] # "idle" => pc'[s] = pc[s] /\ msg'[s] = msg[s]
                      /\ answer'[s] # "unroutable"
  <2>1. CASE UNCHANGED <<pc, msg, answer>>
    BY <1>1, <2>1 DEF Fits
  <2>2. CASE \E s \in Waiting(i) : Tell(s, Judged(msg[s].route, Head(replies[i])))
    <3>1. PICK s \in Slot : Tell(s, Judged(msg[s].route, Head(replies[i])))
      BY <2>2 DEF Waiting
    <3>2. Judged(msg[s].route, Head(replies[i])) # "unroutable"
      BY DEF Judged
    <3> QED BY <1>1, <3>1, <3>2 DEF Tell, Fits, GatewayInv, SlotsOK
  <2> QED BY <2>1, <2>2 DEF Consume
<1>5. Fits(R)'
  BY <1>1, <1>2, <1>3, <1>4 DEF Fits
<1> QED BY <1>5 DEF OneRoute

(* The step, one action at a time.                                         *)
LEMMA FitsStep == GatewayInv /\ OneRoute /\ [GatewayNext]_vars => OneRoute'
<1> SUFFICES ASSUME GatewayInv, OneRoute, [GatewayNext]_vars PROVE OneRoute'
  OBVIOUS
<1>1. PICK R \in [RequestId -> Route] : Fits(R)
  BY DEF OneRoute
<1>2. ASSUME NEW s \in Slot, TurnAway(s) \/ Echo(s) \/ KeyFailed(s) PROVE OneRoute'
  <2>1. PICK a \in {"denied", "local", "nokey"} : Tell(s, a)
    BY <1>2 DEF TurnAway, Echo, KeyFailed
  <2>2. UNCHANGED <<replies, inbox>> /\ asked' \in {asked, asked + 1}
    BY <1>2 DEF TurnAway, Echo, KeyFailed, Counted, busVars
  <2> QED BY <2>1, <2>2, FitsTold DEF Answers
<1>3. ASSUME UNCHANGED <<pc, msg, answer, inbox, replies, asked>> PROVE OneRoute'
  <2>1. Fits(R)'
    BY <1>1, <1>3 DEF Fits
  <2> QED BY <2>1 DEF OneRoute
<1>4. ASSUME NEW s \in Slot, VaultStep(s)
      PROVE  UNCHANGED <<pc, msg, answer, inbox, replies, asked>>
  BY <1>4 DEF VaultStep, gatewayVars, busVars
<1>5. ASSUME Boot \/ Environment \/ UNCHANGED vars
      PROVE  UNCHANGED <<pc, msg, answer, inbox, replies, asked>>
  BY <1>5 DEF Boot, Environment, vars, gatewayVars, busVars
<1>6. ASSUME Die PROVE OneRoute'
  <2>1. Fits(R)'
    BY <1>1, <1>6 DEF Die, Fits, busVars
  <2> QED BY <2>1 DEF OneRoute
<1> QED
  BY <1>2, <1>3, <1>4, <1>5, <1>6, FitsArrivals, FitsSecret, FitsServed, FitsConsumed
  DEF GatewayNext

(* A reply leaves its queue only to the one connection that waits for it.  *)
LEMMA AgreeStep ==
  GatewayInv /\ OneRoute /\ [GatewayNext]_vars =>
    \A i \in RequestId, s \in Slot :
      s \in Waiting(i) /\ Len(replies'[i]) < Len(replies[i]) =>
        answer'[s] = ToldOf(msg[s].route, Head(replies[i]))
<1> SUFFICES ASSUME GatewayInv, OneRoute, [GatewayNext]_vars,
                    NEW i \in RequestId, NEW s \in Slot, s \in Waiting(i),
                    Len(replies'[i]) < Len(replies[i])
             PROVE  answer'[s] = ToldOf(msg[s].route, Head(replies[i]))
  OBVIOUS
<1>0. replies \in [RequestId -> Seq(Reply)] /\ Len(replies[i]) \in Nat
  BY DEF GatewayInv, RepliesOK
<1>1. Consume(i)
  <2>1. replies'[i] # replies[i]
    BY <1>0
  <2>2. ASSUME NEW t \in Slot, \/ TurnAway(t) \/ Echo(t) \/ SendAtOnce(t) \/ AskVault(t)
                               \/ VaultStep(t) \/ UseSecret(t) \/ KeyFailed(t)
        PROVE  UNCHANGED replies
    BY <2>2 DEF TurnAway, Echo, SendAtOnce, AskVault, VaultStep, UseSecret, KeyFailed,
       Publish, busVars
  <2>3. Die \/ Boot \/ Environment \/ UNCHANGED vars => UNCHANGED replies
    BY DEF Die, Boot, Environment, vars, busVars
  <2>4. ASSUME NEW j \in RequestId, Serve(j) \/ ServeAndDie(j) PROVE FALSE
    <3>1. PICK m \in inbox : \E r \in Outcomes(m) : Send(m, r) \/ UNCHANGED replies
      BY <2>4 DEF Serve, ServeAndDie
    <3>2. PICK r \in Outcomes(m) : Send(m, r)
      BY <2>1, <3>1
    <3>3. m.id = i /\ replies'[i] = Append(replies[i], r) /\ r \in Reply
      BY <1>0, <2>1, <3>2, OutcomesAreReplies DEF Send
    <3> QED BY <1>0, <3>3
  <2>5. PICK j \in RequestId : Consume(j)
    BY <2>1, <2>2, <2>3, <2>4 DEF GatewayNext
  <2> QED BY <1>0, <2>1, <2>5 DEF Consume
<1>2. PICK t \in Waiting(i) : Tell(t, Judged(msg[t].route, Head(replies[i])))
  BY <1>1 DEF Consume
<1>3. t = s
  BY <1>2 DEF Waiting, GatewayInv, IdsOK
<1>4. answer'[s] = Judged(msg[s].route, Head(replies[i]))
  BY <1>2, <1>3 DEF Tell, GatewayInv, SlotsOK
<1>5. PICK R \in [RequestId -> Route] : Fits(R)
  BY DEF OneRoute
<1>6. msg[s].route = R[i] /\ msg[s].route \in Route /\ msg[s].route.service # "vault"
  BY <1>5 DEF Waiting, Fits
<1>7. Head(replies[i]) \in ServiceReplies(R[i]) \cup {Thrown}
  <2>1. 1 \in 1 .. Len(replies[i]) /\ Head(replies[i]) = replies[i][1]
    BY <1>0, <1>1 DEF Consume
  <2> QED BY <1>5, <2>1 DEF Fits
<1> QED BY <1>4, <1>6, <1>7, JudgedAsTold

(* The two ends of every topic agree, for any routes used together: each   *)
(* reply of each handler is judged as it was meant, but for the lenient    *)
(* checks of delete and verifyEmail, and no request is without a reply     *)
(* topic, whatever the order of replies, redeliveries and deaths.          *)
THEOREM RepliesJudgedAsMeant == GatewaySpec => AnswersAgree
<1>1. GatewayInit => OneRoute
  <2> SUFFICES ASSUME GatewayInit PROVE OneRoute
    OBVIOUS
  <2>1. [service |-> "order", op |-> "create"] \in Route
    BY DEF Route, OrderRoutes
  <2> DEFINE R == [i \in RequestId |-> [service |-> "order", op |-> "create"]]
  <2>2. R \in [RequestId -> Route]
    BY <2>1
  <2> HIDE DEF R
  <2>3. Fits(R)
    BY DEF GatewayInit, Fits
  <2> QED BY <2>2, <2>3 DEF OneRoute
<1>2. OneRoute' => \A s \in Slot : answer'[s] # "unroutable"
  BY DEF OneRoute, Fits
<1>3. GatewayInv /\ OneRoute /\ [GatewayNext]_vars =>
        \A i \in RequestId, s \in Slot :
          /\ answer'[s] # "unroutable"
          /\ s \in Waiting(i) /\ Len(replies'[i]) < Len(replies[i]) =>
               answer'[s] = ToldOf(msg[s].route, Head(replies[i]))
  BY <1>2, FitsStep, AgreeStep
<1> QED BY <1>1, <1>3, FitsStep, GatewayInitInv, GatewayInvStep, PTL DEF GatewaySpec, AnswersAgree
=============================================================================
