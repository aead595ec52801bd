-------------------------- MODULE VaultToken_proofs --------------------------
(***************************************************************************)
(* The shared Vault token is safe for any number of requests, any lease    *)
(* and any delay within the assumption: BeliefBounded and                  *)
(* ReadsUseLiveToken are kept by every step that touches the token.        *)
(*                                                                         *)
(* Neither is inductive.  What a late answer does to tokenCreatedAt        *)
(* depends on when its call was sent and on the token it was sent with, so *)
(* the invariant says of each call under way how long the lease of its     *)
(* token, and of the token that has replaced it, must still be.            *)
(***************************************************************************)
EXTENDS VaultToken, TLAPS

\* Any step of VaultService, of Vault or of the clock.
VaultNext ==
  \/ \E h \in Caller : \/ VaultRenews(h) \/ VaultLogsIn(h) \/ VaultReads(h) \/ VaultRefuses(h)
                       \/ CallLost(h) \/ AskSecret(h) \/ AskCert(h)
                       \/ RenewAnswered(h) \/ RenewFailed(h) \/ LoginAnswered(h) \/ Return(h)
  \/ Tick \/ Rotate \/ LogInAtStart \/ ForgetCalls

\* A token is never leased past what Vault allows.
LeaseBounds ==
  \A t \in 1 .. tokens : lease[t] <= now + TTL /\ lease[t] <= born[t] + MaxLife

\* Token t is good until x, or has had its whole life.
GoodUntil(t, x) == Shorter(x, born[t] + MaxLife) <= lease[t]

\* The same after a step, of a token and a time before it.
GoodAfter(t, x) == Shorter(x, born'[t] + MaxLife) <= lease'[t]

OnTime(c) == c.with \in 1 .. tokens /\ c.sent <= now /\ now <= c.sent + MaxDelay

CallOK(c) ==
  /\ c.op # "none" => OnTime(c)
  /\ c.op = "renew" /\ c.result = "ok" => GoodUntil(c.with, c.sent + TTL)
  /\ c.op = "renew" /\ c.with # token => GoodUntil(token, c.sent + TTL - MaxDelay)
  /\ c.op = "login" /\ c.result = "ok" =>
       c.value \in 1 .. tokens /\ GoodUntil(c.value, c.sent + TTL)
  /\ c.op = "read" => GoodUntil(c.with, c.sent + MaxDelay + 1)

CallsOK == \A h \in Caller : CallOK(call[h])

VaultInv == VaultTypeOK /\ LeaseBounds /\ BeliefBounded /\ CallsOK

-----------------------------------------------------------------------------

(* Initially the token of the first login is the only one. *)
LEMMA VaultInitInv == VaultInit => VaultInv
<1> SUFFICES ASSUME VaultInit PROVE VaultInv
  OBVIOUS
<1> USE VaultAssumption DEF VaultInit, Token
<1>1. VaultTypeOK
  BY DEF VaultTypeOK, Calls, NoCall
<1>2. LeaseBounds /\ BeliefBounded
  BY DEF LeaseBounds, BeliefBounded, Shorter
<1>3. CallsOK
  BY DEF CallsOK, CallOK, NoCall
<1> QED BY <1>1, <1>2, <1>3 DEF VaultInv

(* The invariant implies that a read reaches Vault in time. *)
LEMMA InvReads == VaultInv => ReadsUseLiveToken
<1> SUFFICES ASSUME VaultInv, NEW h \in Caller, Pending(h, "read")
             PROVE  Live(call[h].with) \/ now >= born[call[h].with] + MaxLife
  BY DEF ReadsUseLiveToken
<1> USE VaultAssumption DEF VaultInv, VaultTypeOK, Calls, Token
<1>1. OnTime(call[h]) /\ GoodUntil(call[h].with, call[h].sent + MaxDelay + 1)
  BY DEF CallsOK, CallOK, Pending
<1>2. call[h] \in Calls /\ call[h].with \in Token /\ call[h].sent \in Nat /\ now \in Nat
  OBVIOUS
<1>3. \A t \in Token : lease[t] \in Nat /\ born[t] \in Nat
  OBVIOUS
<1> DEFINE t == call[h].with
<1> HIDE DEF VaultInv, VaultTypeOK, Calls, t
<1>4. now < call[h].sent + MaxDelay + 1
  BY <1>1, <1>2 DEF OnTime
<1>5. call[h].sent + MaxDelay + 1 <= lease[t] \/ born[t] + MaxLife <= lease[t]
  BY <1>1 DEF GoodUntil, Shorter, t
<1>6. now < lease[t] \/ now >= born[t] + MaxLife
  BY <1>2, <1>3, <1>4, <1>5 DEF t
<1> QED BY <1>6 DEF Live, t

-----------------------------------------------------------------------------
(* The types.                                                              *)

(* Every step keeps the types: a call is replaced by a call, a number stays *)
(* within its bound.                                                       *)
LEMMA VaultTypeStep == VaultInv /\ [VaultNext]_vaultVars => VaultTypeOK'
<1> SUFFICES ASSUME VaultInv, [VaultNext]_vaultVars PROVE VaultTypeOK'
  OBVIOUS
<1> USE VaultAssumption DEF VaultInv, VaultTypeOK, Token
<1>a. NoCall \in Calls
  BY DEF NoCall, Calls
<1>b. \A op \in {"renew", "login", "read", "readCert"} : Request(op) \in Calls
  BY DEF Request, Calls
<1>c. ASSUME NEW h \in Caller, NEW result \in {"ok", "failed"}, NEW value \in Nat,
             Outcome(h, result, value)
      PROVE  call' \in [Caller -> Calls]
  <2>1. [call[h] EXCEPT !.result = result, !.value = value] \in Calls
    BY DEF Calls
  <2> QED BY <1>c, <2>1 DEF Outcome
<1>1. ASSUME NEW h \in Caller, VaultRenews(h) PROVE VaultTypeOK'
  <2>1. call[h].with \in Token
    BY DEF Calls
  <2>2. lease' \in [Token -> Nat]
    BY <1>1, <2>1 DEF VaultRenews, Shorter
  <2>3. call' \in [Caller -> Calls]
    BY <1>1, <1>c DEF VaultRenews
  <2> QED BY <1>1, <2>2, <2>3 DEF VaultRenews
<1>2. ASSUME NEW h \in Caller, VaultLogsIn(h) PROVE VaultTypeOK'
  <2>1. call' \in [Caller -> Calls]
    BY <1>2, <1>c DEF VaultLogsIn
  <2> QED BY <1>2, <2>1 DEF VaultLogsIn, Issued
<1>3. ASSUME NEW h \in Caller, VaultReads(h) \/ VaultRefuses(h) \/ CallLost(h)
      PROVE  VaultTypeOK'
  <2>1. call' \in [Caller -> Calls]
    BY <1>3, <1>c DEF VaultReads, VaultRefuses, CallLost
  <2>2. /\ UNCHANGED <<now, lease, born, tokens, secret, token, tokenCreatedAt>>
        /\ lost' \in 0 .. MaxLost
    <3>1. CASE VaultReads(h) \/ VaultRefuses(h)
      BY <3>1 DEF VaultReads, VaultRefuses
    <3>2. CASE CallLost(h)
      BY <3>2 DEF CallLost
    <3> QED BY <1>3, <3>1, <3>2
  <2> QED BY <2>1, <2>2
<1>4. ASSUME NEW h \in Caller, AskSecret(h) \/ AskCert(h) \/ RenewFailed(h) \/ Return(h)
      PROVE  VaultTypeOK'
  <2>1. call' \in [Caller -> Calls]
    BY <1>4, <1>a, <1>b DEF AskSecret, AskCert, RenewFailed, Return, Sends
  <2> QED BY <1>4, <2>1 DEF AskSecret, AskCert, RenewFailed, Return
<1>5. ASSUME NEW h \in Caller, RenewAnswered(h) PROVE VaultTypeOK'
  <2>1. call' \in [Caller -> Calls]
    BY <1>5, <1>b DEF RenewAnswered, Sends
  <2> QED BY <1>5, <2>1 DEF RenewAnswered
<1>6. ASSUME NEW h \in Caller, LoginAnswered(h) PROVE VaultTypeOK'
  <2>1. call[h].value \in 1 .. tokens
    BY <1>6 DEF LoginAnswered, Answered, CallsOK, CallOK
  <2>2. [Request("read") EXCEPT !.with = call[h].value] \in Calls
    <3>1. call[h].value \in Token
      BY <2>1
    <3>2. Request("read") \in Calls
      BY <1>b
    <3> QED BY <3>1, <3>2 DEF Calls
  <2>3. call' \in [Caller -> Calls]
    <3> DEFINE read == [Request("read") EXCEPT !.with = call[h].value]
    <3>1. Sends(h, read)
      BY <1>6 DEF LoginAnswered
    <3>2. read \in Calls
      BY <2>2
    <3> HIDE DEF read
    <3> QED BY <3>1, <3>2 DEF Sends
  <2>4. /\ UNCHANGED <<now, lease, born, tokens, secret, lost>>
        /\ token' = call[h].value /\ tokenCreatedAt' = now
    BY <1>6 DEF LoginAnswered
  <2> QED BY <2>1, <2>3, <2>4
<1>7. ASSUME Tick PROVE VaultTypeOK'
  BY <1>7 DEF Tick
<1>11. ASSUME Rotate PROVE VaultTypeOK'
  BY <1>11 DEF Rotate
<1>8. CASE LogInAtStart
  BY <1>8 DEF LogInAtStart, Issued
<1>9. CASE ForgetCalls
  BY <1>9, <1>a DEF ForgetCalls
<1>10. CASE UNCHANGED vaultVars
  BY <1>10 DEF vaultVars
<1> QED BY <1>1, <1>2, <1>3, <1>4, <1>5, <1>6, <1>7, <1>8, <1>9, <1>10, <1>11 DEF VaultNext

-----------------------------------------------------------------------------
(* The leases.                                                             *)

\* Time goes on and no lease gets shorter.
Grown ==
  /\ tokens <= tokens' /\ now <= now'
  /\ \A t \in 1 .. tokens : lease[t] <= lease'[t] /\ born'[t] = born[t]

(* Vault forgets no token earlier than it said, and promises no more than  *)
(* it may: time and the leases only grow, within their bounds.             *)
LEMMA LeasesGrow == VaultInv /\ [VaultNext]_vaultVars => Grown /\ LeaseBounds'
<1> SUFFICES ASSUME VaultInv, [VaultNext]_vaultVars PROVE Grown /\ LeaseBounds'
  OBVIOUS
<1> USE VaultAssumption DEF VaultInv, VaultTypeOK, Token, LeaseBounds, Grown
<1>1. ASSUME NEW h \in Caller, VaultRenews(h) PROVE Grown /\ LeaseBounds'
  <2> DEFINE t == call[h].with
  <2>1. t \in 1 .. tokens
    BY <1>1 DEF VaultRenews, Pending, CallsOK, CallOK, OnTime
  <2>2. /\ lease' = [lease EXCEPT ![t] = Shorter(now + TTL, born[t] + MaxLife)]
        /\ UNCHANGED <<now, born, tokens>>
    BY <1>1 DEF VaultRenews
  <2>3. \A u \in 1 .. tokens :
          /\ lease[u] \in Nat /\ born[u] \in Nat
          /\ lease[u] <= now + TTL /\ lease[u] <= born[u] + MaxLife
    OBVIOUS
  <2> HIDE DEF t
  <2>4. \A u \in 1 .. tokens :
          lease'[u] = IF u = t THEN Shorter(now + TTL, born[t] + MaxLife) ELSE lease[u]
    BY <2>1, <2>2
  <2>5. Grown
    BY <2>1, <2>2, <2>3, <2>4, SMTT(30) DEF Shorter
  <2>6. LeaseBounds'
    BY <2>1, <2>2, <2>3, <2>4, SMTT(30) DEF Shorter
  <2> QED BY <2>5, <2>6
<1>2. ASSUME Issued, UNCHANGED now PROVE Grown /\ LeaseBounds'
  BY <1>2, SMTT(30) DEF Issued
<1>3. ASSUME UNCHANGED <<now, lease, born, tokens>> PROVE Grown /\ LeaseBounds'
  BY <1>3
<1>4. ASSUME Tick PROVE Grown /\ LeaseBounds'
  BY <1>4, SMTT(30) DEF Tick
<1>5. (\E h \in Caller : VaultLogsIn(h)) \/ LogInAtStart => Issued /\ UNCHANGED now
  BY DEF VaultLogsIn, LogInAtStart
<1>6. ASSUME NEW h \in Caller,
             \/ VaultReads(h) \/ VaultRefuses(h) \/ CallLost(h) \/ AskSecret(h) \/ AskCert(h)
             \/ RenewAnswered(h) \/ RenewFailed(h) \/ LoginAnswered(h) \/ Return(h)
      PROVE  UNCHANGED <<now, lease, born, tokens>>
  BY <1>6 DEF VaultReads, VaultRefuses, CallLost, AskSecret, AskCert, RenewAnswered,
              RenewFailed, LoginAnswered, Return
<1>7. Rotate \/ ForgetCalls \/ UNCHANGED vaultVars => UNCHANGED <<now, lease, born, tokens>>
  BY DEF Rotate, ForgetCalls, vaultVars
<1> QED BY <1>1, <1>2, <1>3, <1>4, <1>5, <1>6, <1>7 DEF VaultNext

(* What was promised of a lease stays true.                                *)
LEMMA GoodUntilKept ==
  ASSUME VaultInv, [VaultNext]_vaultVars, NEW t \in 1 .. tokens, NEW x \in Int, GoodUntil(t, x)
  PROVE  GoodAfter(t, x)
<1>1. Grown /\ VaultTypeOK /\ VaultTypeOK'
  BY LeasesGrow, VaultTypeStep DEF VaultInv
<1>2. t \in Token
  BY <1>1, VaultAssumption DEF VaultTypeOK, Token
<1>3. /\ lease[t] \in Nat /\ lease'[t] \in Nat /\ born[t] \in Nat
      /\ lease[t] <= lease'[t] /\ born'[t] = born[t]
  BY <1>1, <1>2 DEF Grown, VaultTypeOK
<1> QED BY <1>3, VaultAssumption DEF GoodUntil, GoodAfter, Shorter
-----------------------------------------------------------------------------
(* What is promised to the calls under way.                                *)

(* A call that a step leaves alone keeps its promises, if the step touches *)
(* neither the clock nor the token.                                        *)
LEMMA CallKept ==
  ASSUME VaultInv, [VaultNext]_vaultVars, UNCHANGED <<now, token>>,
         NEW g \in Caller, call'[g] = call[g]
  PROVE  CallOK(call[g])'
<1> DEFINE c == call[g]
<1>0. Grown /\ VaultTypeOK /\ VaultTypeOK' /\ CallsOK
  BY LeasesGrow, VaultTypeStep DEF VaultInv
<1>1. /\ c \in Calls /\ token \in 1 .. tokens /\ CallOK(c) /\ Grown
      /\ tokens \in Nat /\ tokens' \in Nat
  BY <1>0, VaultAssumption DEF VaultTypeOK, CallsOK, Token
<1>2. \A t \in 1 .. tokens : \A x \in Int : GoodUntil(t, x) => GoodAfter(t, x)
  BY GoodUntilKept
<1>3. /\ c.sent \in Nat /\ c.sent + TTL \in Int /\ c.sent + TTL - MaxDelay \in Int
      /\ c.sent + MaxDelay + 1 \in Int
  BY <1>1, VaultAssumption DEF Calls
<1>4. c.op # "none" => OnTime(c)'
  BY <1>1 DEF CallOK, OnTime, Grown
<1>5. c.op = "renew" /\ c.result = "ok" => GoodAfter(c.with, c.sent + TTL)
  BY <1>1, <1>2, <1>3 DEF CallOK, OnTime
<1>6. c.op = "renew" /\ c.with # token => GoodAfter(token, c.sent + TTL - MaxDelay)
  BY <1>1, <1>2, <1>3 DEF CallOK
<1>7. c.op = "login" /\ c.result = "ok" =>
        c.value \in 1 .. tokens' /\ GoodAfter(c.value, c.sent + TTL)
  BY <1>1, <1>2, <1>3 DEF CallOK, Grown
<1>8. c.op = "read" => GoodAfter(c.with, c.sent + MaxDelay + 1)
  BY <1>1, <1>2, <1>3 DEF CallOK, OnTime
<1> QED BY <1>4, <1>5, <1>6, <1>7, <1>8 DEF CallOK, GoodUntil, GoodAfter
(* The promises to every call, one action at a time.                       *)
LEMMA CallsStep == VaultInv /\ [VaultNext]_vaultVars => CallsOK'
<1> SUFFICES ASSUME VaultInv, [VaultNext]_vaultVars PROVE CallsOK'
  OBVIOUS
<1>0. /\ VaultTypeOK /\ VaultTypeOK' /\ LeaseBounds /\ BeliefBounded /\ CallsOK
      /\ Grown /\ LeaseBounds'
  BY LeasesGrow, VaultTypeStep DEF VaultInv
<1>k. ASSUME NEW h \in Caller, UNCHANGED <<now, token>>, CallOK(call[h])',
             \A g \in Caller \ {h} : call'[g] = call[g]
      PROVE  CallsOK'
  BY <1>k, CallKept DEF CallsOK
<1>o. ASSUME NEW h \in Caller, NEW result, NEW value, Outcome(h, result, value)
      PROVE  /\ \A g \in Caller \ {h} : call'[g] = call[g]
             /\ call'[h] = [call[h] EXCEPT !.result = result, !.value = value]
  BY <1>0, <1>o DEF Outcome, VaultTypeOK
<1>s. ASSUME NEW h \in Caller, NEW request, Sends(h, request)
      PROVE  (\A g \in Caller \ {h} : call'[g] = call[g]) /\ call'[h] = request
  BY <1>0, <1>s DEF Sends, VaultTypeOK
<1>u. \A t \in 1 .. tokens : \A x \in Int : GoodUntil(t, x) => GoodAfter(t, x)
  BY GoodUntilKept
<1> USE VaultAssumption
<1>n. now \in Nat /\ tokens \in Nat /\ tokens' \in Nat /\ token \in 1 .. tokens
  BY <1>0 DEF VaultTypeOK, Token
<1>c. ASSUME NEW h \in Caller
      PROVE  /\ call[h] \in Calls /\ call[h].sent \in Nat /\ CallOK(call[h])
             /\ call[h].op # "none" =>
                  /\ call[h].with \in 1 .. tokens /\ call[h].with \in Token
                  /\ call[h].sent <= now /\ now <= call[h].sent + MaxDelay
  <2>1. call[h] \in Calls /\ CallOK(call[h])
    BY <1>0 DEF VaultTypeOK, CallsOK
  <2>2. call[h].sent \in Nat /\ call[h].with \in Token
    BY <2>1 DEF Calls
  <2> QED BY <2>1, <2>2 DEF CallOK, OnTime
\* When a call ends, what matters is what its result promises.
<1>e. ASSUME NEW h \in Caller, NEW result \in {"ok", "failed"}, NEW value \in Nat,
             Outcome(h, result, value), UNCHANGED <<now, token>>,
             result = "ok" /\ call[h].op = "renew" =>
               GoodAfter(call[h].with, call[h].sent + TTL),
             result = "ok" /\ call[h].op = "login" =>
               value \in 1 .. tokens' /\ GoodAfter(value, call[h].sent + TTL)
      PROVE  CallsOK'
  <2> DEFINE c == call[h]
             d == call'[h]
  <2>1. c \in Calls /\ CallOK(c) /\ token \in 1 .. tokens
    BY <1>c, <1>n
  <2>0. Outcome(h, result, value)
    BY <1>e
  <2>2. d = [c EXCEPT !.result = result, !.value = value]
    <3>1. call \in [Caller -> Calls]
      BY <1>0 DEF VaultTypeOK
    <3> QED BY ONLY <2>0, <3>1 DEF Outcome
  <2>3. d.op = c.op /\ d.with = c.with /\ d.sent = c.sent /\ d.result = result /\ d.value = value
    BY <2>1, <2>2 DEF Calls
  <2>4. c.sent \in Nat
    BY <2>1 DEF Calls
  <2>5. c.op # "none" => OnTime(c)'
    BY <1>0, <1>c, <1>e, <1>n, <2>3 DEF OnTime, Grown
  <2>6. c.op = "renew" /\ c.with # token => GoodAfter(token, c.sent + TTL - MaxDelay)
    BY <1>u, <2>1, <2>3, <2>4 DEF CallOK
  <2>7. c.op = "read" => GoodAfter(c.with, c.sent + MaxDelay + 1)
    BY <1>u, <2>1, <2>3, <2>4 DEF CallOK, OnTime
  <2>8. CallOK(call[h])'
    BY <1>e, <2>3, <2>5, <2>6, <2>7 DEF CallOK, GoodUntil, GoodAfter
  <2> QED BY <1>e, <1>k, <1>o, <2>8
<1>1. ASSUME NEW h \in Caller, VaultReads(h) \/ VaultRefuses(h) \/ CallLost(h)
      PROVE  CallsOK'
  <2>1. PICK result \in {"ok", "failed"}, value \in Nat :
          /\ Outcome(h, result, value)
          /\ result = "ok" => call[h].op \in {"read", "readCert"}
    BY <1>0, <1>1 DEF VaultReads, VaultRefuses, CallLost, Pending, VaultTypeOK
  <2>2. UNCHANGED <<now, token>>
    BY <1>1 DEF VaultReads, VaultRefuses, CallLost
  <2> QED BY <1>e, <2>1, <2>2
<1>2. ASSUME NEW h \in Caller, VaultRenews(h) PROVE CallsOK'
  <2> DEFINE t == call[h].with
  <2>1. /\ Outcome(h, "ok", 0) /\ UNCHANGED <<now, token, born>> /\ call[h].op = "renew"
        /\ lease' = [lease EXCEPT ![t] = Shorter(now + TTL, born[t] + MaxLife)]
    BY <1>2 DEF VaultRenews, Pending
  <2>2. /\ t \in 1 .. tokens /\ t \in Token /\ call[h].sent <= now
        /\ call[h].sent \in Nat /\ now \in Nat /\ born[t] \in Nat
    BY <1>0, <1>c, <1>n, <2>1 DEF VaultTypeOK
  <2>3. lease'[t] = Shorter(now + TTL, born[t] + MaxLife)
    BY <1>0, <2>1, <2>2 DEF VaultTypeOK
  <2>4. GoodAfter(t, call[h].sent + TTL)
    BY <2>1, <2>2, <2>3 DEF GoodAfter, Shorter
  <2> QED BY <1>e, <2>1, <2>4
<1>3. ASSUME NEW h \in Caller, VaultLogsIn(h) PROVE CallsOK'
  <2>1. /\ Outcome(h, "ok", tokens + 1) /\ UNCHANGED <<now, token>> /\ call[h].op = "login"
        /\ Issued
    BY <1>3 DEF VaultLogsIn, Pending
  <2>2. call[h].sent <= now /\ call[h].sent \in Nat /\ now \in Nat /\ tokens \in Nat
    BY <1>c, <1>n, <2>1
  <2>3. /\ tokens' = tokens + 1 /\ tokens + 1 \in Token
        /\ lease'[tokens + 1] = now + TTL /\ born'[tokens + 1] = now
    BY <1>0, <2>1, <2>2 DEF Issued, VaultTypeOK, Token
  <2>4. GoodAfter(tokens + 1, call[h].sent + TTL)
    BY <2>2, <2>3 DEF GoodAfter, Shorter
  <2>5. tokens + 1 \in 1 .. tokens'
    BY <2>2, <2>3
  <2> QED BY <1>e, <2>1, <2>2, <2>4, <2>5
\* A call that is sent now is on time; a read must be in time, a renewal is
\* with the service's own token and a login promises nothing yet.
<1>f. ASSUME NEW h \in Caller, NEW c \in Calls, Sends(h, c), UNCHANGED now, c.sent = now,
             c.result = "pending", c.with \in 1 .. tokens',
             c.op = "read" => GoodAfter(c.with, now + MaxDelay + 1),
             c.op = "renew" => c.with = token'
      PROVE  CallOK(call[h])'
  <2>1. call'[h] = c
    BY <1>f, <1>s
  <2>2. OnTime(call[h])'
    BY <1>f, <1>n, <2>1 DEF OnTime
  <2> QED BY <1>f, <2>1, <2>2 DEF CallOK, GoodUntil, GoodAfter
<1>v. /\ token \in 1 .. tokens' /\ token \in Token
      /\ lease[token] \in Nat /\ born[token] \in Nat
  <2>0. tokens \in 1 .. MaxTokens /\ tokens <= tokens'
    BY <1>0 DEF Grown, VaultTypeOK, Token
  <2>1. token \in Token /\ token \in 1 .. tokens'
    BY <1>n, <2>0 DEF Token
  <2> QED BY <1>0, <2>1 DEF VaultTypeOK
<1>g. \A op \in {"renew", "login", "read", "readCert"} :
        /\ Request(op) \in Calls /\ Request(op).sent = now /\ Request(op).op = op
        /\ Request(op).result = "pending" /\ Request(op).with = token
  <2>1. now \in 0 .. MaxNow
    BY <1>0 DEF VaultTypeOK
  <2> QED BY <1>v, <2>1 DEF Request, Calls
<1>4. ASSUME NEW h \in Caller, AskSecret(h) PROVE CallsOK'
  <2> DEFINE op == IF ShouldRenew THEN "renew" ELSE "read"
  <2>1. Sends(h, Request(op)) /\ UNCHANGED <<now, token>>
    BY <1>4 DEF AskSecret
  <2>2. ASSUME op = "read" PROVE GoodUntil(token, now + MaxDelay + 1)
    <3>1. now - tokenCreatedAt < TTL - RenewMargin /\ tokenCreatedAt \in Nat
      BY <1>0, <1>n, <2>2 DEF ShouldRenew, VaultTypeOK
    <3> QED BY <1>0, <1>n, <1>v, <3>1 DEF BeliefBounded, GoodUntil, Shorter
  <2>3. op = "read" => GoodAfter(token, now + MaxDelay + 1)
    BY <1>n, <1>u, <2>2
  <2>4. Request(op) \in Calls /\ Request(op).op = op
    BY <1>g
  <2>5. CallOK(call[h])'
    BY <1>f, <1>g, <1>v, <2>1, <2>3, <2>4
  <2> QED BY <1>k, <1>s, <2>1, <2>5
<1>5. ASSUME NEW h \in Caller, AskCert(h) \/ RenewFailed(h) PROVE CallsOK'
  <2>1. PICK op \in {"readCert", "login"} : Sends(h, Request(op)) /\ UNCHANGED <<now, token>>
    BY <1>5 DEF AskCert, RenewFailed
  <2>2. CallOK(call[h])'
    BY <1>f, <1>g, <1>v, <2>1
  <2> QED BY <1>k, <1>s, <2>1, <2>2
<1>6. ASSUME NEW h \in Caller, Return(h) PROVE CallsOK'
  <2>1. Sends(h, NoCall) /\ UNCHANGED <<now, token>>
    BY <1>6 DEF Return
  <2>2. CallOK(call[h])'
    BY <1>s, <2>1 DEF CallOK, NoCall
  <2> QED BY <1>k, <1>s, <2>1, <2>2
<1>7. ASSUME NEW h \in Caller, RenewAnswered(h) PROVE CallsOK'
  <2>1. /\ Sends(h, Request("read")) /\ UNCHANGED <<now, token>>
        /\ call[h].op = "renew" /\ call[h].result = "ok"
    BY <1>7 DEF RenewAnswered, Answered
  <2>2. GoodUntil(token, now + MaxDelay + 1)
    <3>1. CASE call[h].with = token
      <4>1. GoodUntil(token, call[h].sent + TTL)
        BY <1>c, <2>1, <3>1 DEF CallOK
      <4> QED BY <1>c, <1>n, <1>v, <2>1, <4>1 DEF GoodUntil, Shorter
    <3>2. CASE call[h].with # token
      <4>1. GoodUntil(token, call[h].sent + TTL - MaxDelay)
        BY <1>c, <2>1, <3>2 DEF CallOK
      <4> QED BY <1>c, <1>n, <1>v, <2>1, <4>1 DEF GoodUntil, Shorter
    <3> QED BY <3>1, <3>2
  <2>3. GoodAfter(token, now + MaxDelay + 1)
    BY <1>n, <1>u, <2>2
  <2>4. CallOK(call[h])'
    BY <1>f, <1>g, <1>v, <2>1, <2>3
  <2> QED BY <1>k, <1>s, <2>1, <2>4
\* The one step that changes the token under the others' renewals: their
\* calls were sent before now, the login not more than MaxDelay before.
<1>8. ASSUME NEW h \in Caller, LoginAnswered(h) PROVE CallsOK'
  <2> DEFINE t == call[h].value
             read == [Request("read") EXCEPT !.with = t]
  <2>1. /\ Sends(h, read) /\ UNCHANGED <<now, tokens, lease, born>> /\ token' = t
        /\ call[h].op = "login" /\ call[h].result = "ok"
    BY <1>8 DEF LoginAnswered, Answered
  <2>2. t \in 1 .. tokens /\ t \in Token /\ GoodUntil(t, call[h].sent + TTL)
    <3>1. t \in 1 .. tokens /\ GoodUntil(t, call[h].sent + TTL)
      BY <1>c, <2>1 DEF CallOK
    <3>2. tokens \in 1 .. MaxTokens
      BY <1>0 DEF VaultTypeOK, Token
    <3> HIDE DEF t
    <3> QED BY <1>n, <3>1, <3>2 DEF Token
  <2>3. lease[t] \in Nat /\ born[t] \in Nat
    BY <1>0, <2>2 DEF VaultTypeOK
  <2>4. GoodAfter(t, now + TTL - MaxDelay)
    BY <1>c, <1>n, <2>1, <2>2, <2>3 DEF GoodUntil, GoodAfter, Shorter
  <2>5. GoodAfter(t, now + MaxDelay + 1)
    BY <1>n, <2>1, <2>3, <2>4 DEF GoodAfter, Shorter
  <2>6. /\ read \in Calls /\ read.sent = now /\ read.op = "read"
        /\ read.result = "pending" /\ read.with = t
    BY <1>g, <2>2 DEF Calls
  <2>7. CallOK(call[h])'
    <3> HIDE DEF read, t
    <3> QED BY <1>f, <2>1, <2>2, <2>5, <2>6
  <2>8. ASSUME NEW g \in Caller \ {h} PROVE CallOK(call[g])'
    <3> DEFINE c == call[g]
    <3>1. /\ call'[g] = c /\ c.sent \in Nat /\ CallOK(c)
          /\ c.op # "none" => c.with \in 1 .. tokens /\ c.sent <= now
      BY <1>c, <1>s, <2>1
    <3>2. \A u \in 1 .. tokens : \A x \in Int : GoodUntil(u, x) => GoodAfter(u, x)
      BY <1>u
    <3>3. c.op # "none" => OnTime(c)'
      BY <2>1, <3>1 DEF CallOK, OnTime
    <3>4. c.op = "renew" => GoodAfter(t, c.sent + TTL - MaxDelay)
      BY <1>n, <2>1, <2>3, <2>4, <3>1 DEF GoodAfter, Shorter
    <3> HIDE DEF t
    <3> QED BY <2>1, <3>1, <3>3, <3>4 DEF CallOK, GoodUntil, GoodAfter
  <2> QED BY <2>7, <2>8 DEF CallsOK
<1>9. ASSUME Tick PROVE CallsOK'
  <2> SUFFICES ASSUME NEW g \in Caller PROVE CallOK(call[g])'
    BY DEF CallsOK
  <2>1. /\ now' = now + 1 /\ UNCHANGED <<tokens, lease, born, token, call>>
        /\ call[g].op = "none" \/ now < call[g].sent + MaxDelay
    BY <1>9 DEF Tick
  <2>2. call[g].op # "none" => OnTime(call[g])'
    BY <1>c, <1>n, <2>1 DEF OnTime
  <2> QED BY <1>c, <2>1, <2>2 DEF CallOK, GoodUntil
<1>10. ASSUME LogInAtStart PROVE CallsOK'
  <2> SUFFICES ASSUME NEW g \in Caller PROVE CallOK(call[g])'
    BY DEF CallsOK
  <2> DEFINE c == call[g]
  <2>1. Issued /\ UNCHANGED <<now, call>> /\ token' = tokens + 1
    BY <1>10 DEF LogInAtStart
  <2>2. /\ tokens' = tokens + 1 /\ tokens + 1 \in Token
        /\ lease'[tokens + 1] = now + TTL /\ born'[tokens + 1] = now
    BY <1>0, <1>n, <2>1 DEF Issued, VaultTypeOK, Token
  <2>3. c.op # "none" => OnTime(c)'
    BY <1>c, <1>n, <2>1, <2>2 DEF OnTime
  <2>4. c.op = "renew" => GoodAfter(token', c.sent + TTL - MaxDelay)
    BY <1>c, <1>n, <2>1, <2>2 DEF GoodAfter, Shorter
  <2>5. c.op = "renew" /\ c.result = "ok" => GoodAfter(c.with, c.sent + TTL)
    BY <1>c, <1>u DEF CallOK
  <2>6. c.op = "login" /\ c.result = "ok" =>
          c.value \in 1 .. tokens' /\ GoodAfter(c.value, c.sent + TTL)
    BY <1>c, <1>n, <1>u, <2>2 DEF CallOK
  <2>7. c.op = "read" => GoodAfter(c.with, c.sent + MaxDelay + 1)
    BY <1>c, <1>u DEF CallOK
  <2> QED BY <2>1, <2>3, <2>4, <2>5, <2>6, <2>7 DEF CallOK, GoodUntil, GoodAfter
<1>11. ASSUME Rotate \/ UNCHANGED vaultVars PROVE CallsOK'
  BY <1>11, CallKept DEF Rotate, vaultVars, CallsOK
<1>12. ASSUME ForgetCalls PROVE CallsOK'
  <2>1. \A g \in Caller : call'[g] = NoCall
    BY <1>12 DEF ForgetCalls
  <2> QED BY <2>1 DEF CallsOK, CallOK, NoCall
<1> QED BY <1>1, <1>2, <1>3, <1>4, <1>5, <1>6, <1>7, <1>8, <1>9, <1>10, <1>11, <1>12
        DEF VaultNext

-----------------------------------------------------------------------------
(* What the service believes.                                              *)

(* tokenCreatedAt + TTL is at most two calls past the lease of the token.  *)
LEMMA BeliefStep == VaultInv /\ [VaultNext]_vaultVars => BeliefBounded'
<1> SUFFICES ASSUME VaultInv, [VaultNext]_vaultVars PROVE BeliefBounded'
  OBVIOUS
<1> USE VaultAssumption
<1>0. /\ VaultTypeOK /\ VaultTypeOK' /\ BeliefBounded /\ CallsOK /\ Grown
  BY LeasesGrow, VaultTypeStep DEF VaultInv
<1>n. /\ now \in Nat /\ tokens \in Nat /\ token \in 1 .. tokens /\ token \in Token
      /\ tokenCreatedAt \in Nat
  <2>1. tokens \in 1 .. MaxTokens /\ now \in 0 .. MaxNow /\ token \in 1 .. tokens
    BY <1>0 DEF VaultTypeOK, Token
  <2>2. token \in Token
    BY <2>1 DEF Token
  <2> QED BY <1>0, <2>1, <2>2 DEF VaultTypeOK
<1>v. lease[token] \in Nat /\ born[token] \in Nat
  BY <1>0, <1>n DEF VaultTypeOK
<1>u. \A t \in 1 .. tokens : \A x \in Int : GoodUntil(t, x) => GoodAfter(t, x)
  BY GoodUntilKept
<1>b. GoodAfter(token', tokenCreatedAt' + TTL - 2 * MaxDelay) => BeliefBounded'
  BY DEF BeliefBounded, GoodAfter, Shorter
<1>c. ASSUME NEW h \in Caller, call[h].op # "none"
      PROVE  /\ call[h].sent \in Nat /\ CallOK(call[h])
             /\ call[h].sent <= now /\ now <= call[h].sent + MaxDelay
  <2>1. call[h] \in Calls /\ CallOK(call[h])
    BY <1>0 DEF VaultTypeOK, CallsOK
  <2> QED BY <1>c, <2>1 DEF CallOK, OnTime, Calls
<1>1. ASSUME UNCHANGED <<token, tokenCreatedAt>> PROVE BeliefBounded'
  <2>1. GoodUntil(token, tokenCreatedAt + TTL - 2 * MaxDelay)
    BY <1>0 DEF BeliefBounded, GoodUntil
  <2> QED BY <1>1, <1>b, <1>n, <1>u, <2>1
<1>2. ASSUME NEW h \in Caller, RenewAnswered(h) PROVE BeliefBounded'
  <2>1. /\ call[h].op = "renew" /\ call[h].result = "ok"
        /\ token' = token /\ tokenCreatedAt' = now
    BY <1>2 DEF RenewAnswered, Answered
  <2>2. \/ GoodUntil(token, call[h].sent + TTL)
        \/ GoodUntil(token, call[h].sent + TTL - MaxDelay)
    BY <1>c, <2>1 DEF CallOK
  <2>3. GoodUntil(token, now + TTL - 2 * MaxDelay)
    BY <1>c, <1>n, <1>v, <2>1, <2>2 DEF GoodUntil, Shorter
  <2> QED BY <1>b, <1>n, <1>u, <2>1, <2>3
<1>3. ASSUME NEW h \in Caller, LoginAnswered(h) PROVE BeliefBounded'
  <2> DEFINE t == call[h].value
  <2>1. /\ call[h].op = "login" /\ call[h].result = "ok"
        /\ token' = t /\ tokenCreatedAt' = now
    BY <1>3 DEF LoginAnswered, Answered
  <2>2. t \in 1 .. tokens /\ GoodUntil(t, call[h].sent + TTL)
    BY <1>c, <2>1 DEF CallOK
  <2>3. tokens \in 1 .. MaxTokens
    BY <1>0 DEF VaultTypeOK, Token
  <2>4. lease[t] \in Nat /\ born[t] \in Nat
    <3> HIDE DEF t
    <3>1. t \in Token
      BY <2>2, <2>3 DEF Token
    <3> QED BY <1>0, <3>1 DEF VaultTypeOK
  <2>5. GoodUntil(t, now + TTL - 2 * MaxDelay)
    BY <1>c, <1>n, <2>1, <2>2, <2>4 DEF GoodUntil, Shorter
  <2> HIDE DEF t
  <2> QED BY <1>b, <1>n, <1>u, <2>1, <2>2, <2>5
<1>4. ASSUME LogInAtStart PROVE BeliefBounded'
  <2>1. /\ tokens + 1 \in Token /\ token' = tokens + 1 /\ tokenCreatedAt' = now
        /\ lease'[tokens + 1] = now + TTL /\ born'[tokens + 1] = now
    BY <1>0, <1>4, <1>n DEF LogInAtStart, Issued, VaultTypeOK, Token
  <2> QED BY <1>b, <1>n, <2>1 DEF GoodAfter, Shorter
<1>5. ASSUME NEW h \in Caller,
             \/ VaultRenews(h) \/ VaultLogsIn(h) \/ VaultReads(h) \/ VaultRefuses(h)
             \/ CallLost(h) \/ AskSecret(h) \/ AskCert(h) \/ RenewFailed(h) \/ Return(h)
      PROVE  UNCHANGED <<token, tokenCreatedAt>>
  BY <1>5 DEF VaultRenews, VaultLogsIn, VaultReads, VaultRefuses, CallLost, AskSecret,
              AskCert, RenewFailed, Return
<1>6. Tick \/ Rotate \/ ForgetCalls \/ UNCHANGED vaultVars
      => UNCHANGED <<token, tokenCreatedAt>>
  BY DEF Tick, Rotate, ForgetCalls, vaultVars
<1> QED BY <1>1, <1>2, <1>3, <1>4, <1>5, <1>6 DEF VaultNext

(* The invariant is kept by every step.                                    *)
LEMMA VaultInvStep == VaultInv /\ [VaultNext]_vaultVars => VaultInv'
  BY VaultTypeStep, LeasesGrow, CallsStep, BeliefStep DEF VaultInv
=============================================================================
