----------------------------- MODULE VaultToken -----------------------------
(***************************************************************************)
(* VaultService: one Vault token shared by every request of a process.     *)
(*                                                                         *)
(* A request that needs a secret runs maybeRenewToken and then a read.     *)
(* Whether the token is renewed depends on two fields of the service, the  *)
(* time of the last answer (tokenCreatedAt) and tokenTTL; when a renewal   *)
(* fails the service logs in again.  Nothing serialises the requests: the  *)
(* answer to one of them may come after another has replaced the token.    *)
(*                                                                         *)
(* Vault itself is modelled by the expiry (lease) and the birth of each    *)
(* token it issued: a renewal extends the lease by TTL, never past the     *)
(* maximum life of the token.  Vault handles a call at some moment between *)
(* the sending and the answer.                                             *)
(***************************************************************************)
EXTENDS Integers

CONSTANTS
  Caller,       \* the requests of one process that may use Vault at a time
  TTL,          \* the lease Vault grants, in units of the clock
  RenewMargin,  \* 30 s in the code: how early the service renews
  MaxLife,      \* how long Vault lets a token live, renewed or not
  MaxDelay,     \* a call to Vault is answered within this time
  MaxTokens,    \* bound: tokens Vault issues
  MaxNow,       \* bound: readings of the clock
  MaxLost,      \* bound: calls that fail although Vault could have served them
  MaxSecrets    \* bound: values the secret takes (an operator rotates it)

ASSUME VaultAssumption ==
  /\ TTL \in Nat /\ RenewMargin \in Nat /\ MaxLife \in Nat
  /\ MaxDelay \in Nat /\ MaxNow \in Nat /\ MaxLost \in Nat
  /\ MaxTokens \in Nat \ {0} /\ MaxSecrets \in Nat \ {0}
  /\ 3 * MaxDelay <= RenewMargin
  /\ RenewMargin < TTL
  /\ TTL <= MaxLife

VARIABLES
  now,             \* the clock
  lease,           \* when Vault forgets each token
  born,            \* when Vault issued it
  tokens,          \* how many tokens were issued
  secret,          \* the secret's current value in Vault
  token,           \* this.vaultClient.token
  tokenCreatedAt,  \* this.tokenCreatedAt
  call,            \* the call to Vault each request is waiting for
  lost             \* calls that failed on the way

vaultVars == <<now, lease, born, tokens, secret, token, tokenCreatedAt, call, lost>>

Token == 1 .. MaxTokens

Calls ==
  [op     : {"none", "renew", "login", "read", "readCert"},
   with   : Token,                       \* the token in the request's header
   sent   : 0 .. MaxNow,
   result : {"pending", "ok", "failed"},
   value  : Nat]                         \* the new token, or the secret

Request(op) ==
  [op |-> op, with |-> token, sent |-> now, result |-> "pending", value |-> 0]

NoCall == [op |-> "none", with |-> 1, sent |-> 0, result |-> "pending", value |-> 0]

VaultTypeOK ==
  /\ now \in 0 .. MaxNow
  /\ lease \in [Token -> Nat]
  /\ born \in [Token -> 0 .. MaxNow]
  /\ tokens \in Token
  /\ secret \in 1 .. MaxSecrets
  /\ token \in 1 .. tokens
  /\ tokenCreatedAt \in 0 .. now
  /\ call \in [Caller -> Calls]
  /\ lost \in 0 .. MaxLost

\* Vault has just issued its first token, in onModuleInit.
VaultInit ==
  /\ now = 0 /\ tokens = 1 /\ secret = 1
  /\ lease = [t \in Token |-> IF t = 1 THEN TTL ELSE 0]
  /\ born = [t \in Token |-> 0]
  /\ token = 1
  /\ tokenCreatedAt = 0
  /\ call = [h \in Caller |-> NoCall]
  /\ lost = 0

-----------------------------------------------------------------------------
(* Vault, and the network between.                                         *)

Live(t) == now < lease[t]

Shorter(a, b) == IF a <= b THEN a ELSE b

Pending(h, op) == call[h].op = op /\ call[h].result = "pending"

Outcome(h, result, value) ==
  call' = [call EXCEPT ![h].result = result, ![h].value = value]

VaultRenews(h) ==
  LET t == call[h].with IN
  /\ Pending(h, "renew") /\ Live(t)
  /\ lease' = [lease EXCEPT ![t] = Shorter(now + TTL, born[t] + MaxLife)]
  /\ Outcome(h, "ok", 0)
  /\ UNCHANGED <<now, born, tokens, secret, token, tokenCreatedAt, lost>>

\* The token that Vault issues next.
Issued ==
  /\ tokens < MaxTokens
  /\ tokens' = tokens + 1
  /\ lease' = [lease EXCEPT ![tokens + 1] = now + TTL]
  /\ born' = [born EXCEPT ![tokens + 1] = now]

VaultLogsIn(h) ==
  /\ Pending(h, "login")
  /\ Issued
  /\ Outcome(h, "ok", tokens + 1)
  /\ UNCHANGED <<now, secret, token, tokenCreatedAt, lost>>

VaultReads(h) ==
  /\ Pending(h, "read") \/ Pending(h, "readCert")
  /\ Live(call[h].with)
  /\ Outcome(h, "ok", secret)
  /\ UNCHANGED <<now, lease, born, tokens, secret, token, tokenCreatedAt, lost>>

\* Permission denied: Vault has forgotten the token.
VaultRefuses(h) ==
  /\ Pending(h, "renew") \/ Pending(h, "read") \/ Pending(h, "readCert")
  /\ ~Live(call[h].with)
  /\ Outcome(h, "failed", 0)
  /\ UNCHANGED <<now, lease, born, tokens, secret, token, tokenCreatedAt, lost>>

\* The request or its answer does not arrive; Vault may have handled it.
CallLost(h) ==
  /\ call[h].op # "none" /\ call[h].result # "failed"
  /\ lost < MaxLost
  /\ lost' = lost + 1
  /\ Outcome(h, "failed", 0)
  /\ UNCHANGED <<now, lease, born, tokens, secret, token, tokenCreatedAt>>

VaultHandles(h) ==
  VaultRenews(h) \/ VaultLogsIn(h) \/ VaultReads(h) \/ VaultRefuses(h)

\* Time passes, but no call takes longer than MaxDelay.
Tick ==
  /\ now < MaxNow
  /\ \A h \in Caller : call[h].op = "none" \/ now < call[h].sent + MaxDelay
  /\ now' = now + 1
  /\ UNCHANGED <<lease, born, tokens, secret, token, tokenCreatedAt, call, lost>>

\* An operator stores a new value of the secret.
Rotate ==
  /\ secret < MaxSecrets
  /\ secret' = secret + 1
  /\ UNCHANGED <<now, lease, born, tokens, token, tokenCreatedAt, call, lost>>

-----------------------------------------------------------------------------
(* VaultService.                                                           *)

(* Mutant: the token is renewed once its time is over, without a margin. *)
RenewTooLate == now - tokenCreatedAt >= TTL

ShouldRenew == now - tokenCreatedAt >= TTL - RenewMargin

Sends(h, request) == call' = [call EXCEPT ![h] = request]

\* getAesKey and getGatewayApiKey, up to their first await.
AskSecret(h) ==
  /\ Sends(h, Request(IF ShouldRenew THEN "renew" ELSE "read"))
  /\ UNCHANGED <<now, lease, born, tokens, secret, token, tokenCreatedAt, lost>>

\* getTlsCert: a read, and no renewal before it.
AskCert(h) ==
  /\ Sends(h, Request("readCert"))
  /\ UNCHANGED <<now, lease, born, tokens, secret, token, tokenCreatedAt, lost>>

Answered(h, op, result) == call[h].op = op /\ call[h].result = result

\* The lease_duration of the answer is not looked at.
RenewAnswered(h) ==
  /\ Answered(h, "renew", "ok")
  /\ tokenCreatedAt' = now
  /\ Sends(h, Request("read"))
  /\ UNCHANGED <<now, lease, born, tokens, secret, token, lost>>

(* Mutant: a failed renewal counts as one. *)
RenewFailureIgnored(h) ==
  /\ Answered(h, "renew", "failed")
  /\ tokenCreatedAt' = now
  /\ Sends(h, Request("read"))
  /\ UNCHANGED <<now, lease, born, tokens, secret, token, lost>>

RenewFailed(h) ==
  /\ Answered(h, "renew", "failed")
  /\ Sends(h, Request("login"))
  /\ UNCHANGED <<now, lease, born, tokens, secret, token, tokenCreatedAt, lost>>

LoginAnswered(h) ==
  /\ Answered(h, "login", "ok")
  /\ token' = call[h].value
  /\ tokenCreatedAt' = now
  /\ Sends(h, [Request("read") EXCEPT !.with = call[h].value])
  /\ UNCHANGED <<now, lease, born, tokens, secret, lost>>

Continues(h) == RenewAnswered(h) \/ RenewFailed(h) \/ LoginAnswered(h)

\* The awaits of the request are over: it has the secret, or an exception.
GotSecret(h) == Answered(h, "read", "ok") \/ Answered(h, "readCert", "ok")
NoSecret(h)  == call[h].result = "failed" /\ call[h].op \in {"login", "read", "readCert"}

Return(h) ==
  /\ Sends(h, NoCall)
  /\ UNCHANGED <<now, lease, born, tokens, secret, token, tokenCreatedAt, lost>>

\* The process starts again: it logs in before it listens to anyone.
LogInAtStart ==
  /\ Issued
  /\ token' = tokens + 1
  /\ tokenCreatedAt' = now
  /\ UNCHANGED <<now, secret, call, lost>>

\* The process ends; its calls are nobody's.
ForgetCalls ==
  /\ call' = [h \in Caller |-> NoCall]
  /\ UNCHANGED <<now, lease, born, tokens, secret, token, tokenCreatedAt, lost>>

-----------------------------------------------------------------------------
(***************************************************************************)
(* The service thinks the token lives until tokenCreatedAt + TTL.  An      *)
(* answer arrives late, and the answer to a renewal of the old token may   *)
(* arrive after another request has logged in, which moves tokenCreatedAt  *)
(* without moving the lease of the new token.  The error is never more     *)
(* than two calls (maybeRenewToken, loginWithAppRole), unless the token    *)
(* has reached its maximum life.                                           *)
(***************************************************************************)
BeliefBounded ==
  Shorter(tokenCreatedAt + TTL - 2 * MaxDelay, born[token] + MaxLife) <= lease[token]

(***************************************************************************)
(* A request that went through maybeRenewToken reads with a token that     *)
(* Vault still knows when it handles the read, however the requests        *)
(* interleave, if a call takes at most a third of the margin: only a token *)
(* past its maximum life is refused (getAesKey, getGatewayApiKey).         *)
(***************************************************************************)
ReadsUseLiveToken ==
  \A h \in Caller :
    LET t == call[h].with IN
    Pending(h, "read") => Live(t) \/ now >= born[t] + MaxLife
=============================================================================
