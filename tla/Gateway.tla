------------------------------ MODULE Gateway ------------------------------
(***************************************************************************)
(* api-gateway: every HTTP route as a remote call over Kafka.              *)
(*                                                                         *)
(* A request passes the guards of its controller, its payload is encrypted *)
(* (with the hard-coded key, or with the one in Vault), sent to the topic  *)
(* of the route with a fresh correlation id, and the handler waits for the *)
(* first reply to that id: there is no timeout.  The reply is checked for  *)
(* the fields the route expects.  The services are what the gateway knows  *)
(* of them: the topics they listen to and the replies they can give, once  *)
(* per delivery, and a message whose offset was not committed before a     *)
(* crash is delivered again.  Requests run concurrently, the gateway may   *)
(* die under them, and its Vault token is shared by all (VaultToken).      *)
(***************************************************************************)
EXTENDS VaultToken, FiniteSets, Sequences

CONSTANTS
  Mixes,            \* bound: the routes a behaviour uses, until which time
  MaxRequests,      \* bound: requests
  MaxRestarts,      \* bound: deaths of the gateway
  MaxRedeliveries   \* bound: deaths of a service in a handler

VARIABLES
  up,            \* the gateway listens
  mix,           \* the routes in use, and when the clock stops
  asked,         \* requests so far
  pc,            \* where the request of each connection waits
  msg,           \* the request: its number, its route, the secret when it came
  answer,        \* what the connection was told last
  inbox,         \* messages whose offset is not committed
  replies,       \* replies not yet consumed, by correlation id
  performed,     \* requests that a handler has carried out
  restarts, redeliveries

gatewayVars == <<up, mix, asked, pc, msg, answer, restarts>>
busVars == <<inbox, replies, performed, redeliveries>>
vars == <<vaultVars, gatewayVars, busVars>>

RequestId == 1 .. MaxRequests
Slot == Caller

-----------------------------------------------------------------------------
(* The routes: a service and the operation asked of it, named by the topic *)
(* its method sends to.                                                    *)

OrderRoutes    == {"create", "getAllOrders", "getAllOrderByUser", "getOrder", "update",
                   "cancel", "delete"}
ProductRoutes  == {"create", "getAll", "getAllProducts", "getProduct", "update", "delete"}
BrandRoutes    == {"create", "getAll", "getAllBrands", "getBrand", "update", "delete"}
CategoryRoutes == {"create", "getAll", "getAllCategories", "getCategory", "update", "delete"}
AuthRoutes     == {"register", "login", "verifyEmail", "refresh-token", "logout", "me",
                   "resetPassword", "forgot-password"}

Route ==
  [service : {"order"}, op : OrderRoutes] \cup [service : {"product"}, op : ProductRoutes]
    \cup [service : {"brand"}, op : BrandRoutes]
    \cup [service : {"category"}, op : CategoryRoutes]
    \cup [service : {"auth"}, op : AuthRoutes]
    \cup [service : {"vault"}, op : {"aes", "api-key", "keyHttps"}]

\* The reply topics subscribed to in onModuleInit, a list of their own.
OrderTopics ==
  {"getAllOrders", "getOrder", "getAllOrderByUser", "create", "update", "cancel", "delete"}
ProductTopics ==
  {"create", "update", "delete", "getAll", "getProduct", "getAllProducts"}
BrandTopics ==
  {"getAll", "getAllBrands", "getBrand", "create", "update", "delete"}
CategoryTopics ==
  {"getAll", "getAllCategories", "getCategory", "create", "update", "delete"}
AuthTopics ==
  {"register", "login", "verifyEmail", "refresh-token", "logout", "me",
   "resetPassword", "forgot-password"}

Subscribed(r) ==
  r.op \in CASE r.service = "order"    -> OrderTopics
             [] r.service = "product"  -> ProductTopics
             [] r.service = "brand"    -> BrandTopics
             [] r.service = "category" -> CategoryTopics
             [] r.service = "auth"     -> AuthTopics
             [] OTHER                  -> {}

\* The routes that take every request: no guard, and nothing that is validated.
ProductOpen  == {"getAllProducts", "getProduct"}
BrandOpen    == {"getAllBrands", "getBrand"}
CategoryOpen == {"getAllCategories", "getCategory"}
AuthOpen     == {"refresh-token", "logout"}

Open(r) ==
  r.op \in CASE r.service = "order"    -> {}
             [] r.service = "product"  -> ProductOpen
             [] r.service = "brand"    -> BrandOpen
             [] r.service = "category" -> CategoryOpen
             [] r.service = "auth"     -> AuthOpen
             [] OTHER                  -> {r.op}

\* The key a payload is encrypted with; verifyEmail, me and forgot-password
\* send a bare string.
AuthKey(op) ==
  CASE op \in {"refresh-token", "logout", "resetPassword"} -> "vault"
    [] op \in {"register", "login"} -> "fixed"
    [] OTHER -> "none"

KeyOf(r) == IF r.service = "auth" THEN AuthKey(r.op) ELSE "fixed"

NeedsVault(r) == r.service = "vault" \/ KeyOf(r) = "vault"

FixedKey == 1  \* keyFix, which is also the first value of the secret
Plain == 0     \* not encrypted

(* Mutant: the check of the read handlers copied to create. *)
OrderNeedsData(op) ==
  IF op \in {"delete", "update", "cancel"} THEN {"message"} ELSE {"message", "data"}

\* The fields a decrypted reply must have, or the handler throws.
OrderNeeds(op) ==
  CASE op = "delete" -> {"message"}
    [] op \in {"create", "update", "cancel"} -> {"message", "status"}
    [] OTHER -> {"message", "data"}

ProductNeeds(op)  == IF op = "delete" THEN {"message"} ELSE {"message", "data"}
BrandNeeds(op)    == IF op = "delete" THEN {"message"} ELSE {"message", "data"}
CategoryNeeds(op) == IF op = "delete" THEN {"message"} ELSE {"message", "data"}

\* auth: a reply with a statusCode of 400 or more is thrown again as 500;
\* verifyEmail returns the promise and looks at nothing.
AuthAccepts(op, fields) == op = "verifyEmail" \/ "statusCode" \notin fields

-----------------------------------------------------------------------------
(* The replies of the services, by the patterns they listen to: what a     *)
(* reply says of the request, and its fields.                              *)

Said(says, fields) == [says |-> says, fields |-> fields]

Done == Said("OK", {"status", "message"})
DoneWithData == Said("OK", {"status", "message", "data"})
Refused == Said("ERR", {"status", "message"})
Thrown == Said("ERR", {"err"})  \* an exception: Kafka carries an error

(* Mutant: orders-service listens to another name for one pattern. *)
OrderRepliesRenamed(op) ==
  CASE op \in {"create", "update", "cancel", "delete"} -> {Done}
    [] op = "getAllOrders" -> {DoneWithData}
    [] op = "getOrder" -> {DoneWithData, Said("ERR", {"message"})}
    [] OTHER -> {}

OrderReplies(op) ==
  CASE op \in {"create", "update", "cancel", "delete"} -> {Done}
    [] op \in {"getAllOrders", "getAllOrderByUser"} -> {DoneWithData}
    [] op = "getOrder" -> {DoneWithData, Said("ERR", {"message"})}
    [] OTHER -> {}

ProductReplies(op) ==
  CASE op = "delete" -> {Done, Refused}
    [] op \in {"update", "getProduct"} -> {DoneWithData, Refused}
    [] op \in {"create", "getAll", "getAllProducts"} -> {DoneWithData}
    [] OTHER -> {}

CategoryReplies(op) ==
  CASE op = "delete" -> {Done, Refused}
    [] op \in {"create", "update"} -> {DoneWithData, Refused}
    [] op \in {"getAll", "getAllCategories", "getCategory"} -> {DoneWithData}
    [] OTHER -> {}

BrandReplies(op) ==
  CASE op = "delete" -> {Done, Refused}
    [] op \in {"create", "update"} -> {DoneWithData, Refused}
    [] op \in {"getAll", "getAllBrands", "getBrand"} -> {DoneWithData}
    [] OTHER -> {}

\* HttpExceptionFilter turns an HttpException into a reply like any other.
Filtered == Said("ERR", {"message", "statusCode"})

AuthReplies(op) ==
  CASE op = "verifyEmail" -> {Said("OK", {"html"}), Said("ERR", {"html"})}
    [] op \in {"register", "login", "refresh-token", "logout", "me",
               "resetPassword", "forgot-password"} -> {Said("OK", {"message"}), Filtered}
    [] OTHER -> {}

\* auth-service decrypts with the key in Vault, the others with keyFix.
ServiceKey(service) == IF service = "auth" THEN secret ELSE FixedKey

Decrypts(m) == m.key \in {Plain, ServiceKey(m.route.service)}

\* The replies to message m; a decryption that fails is an exception.
Replies(m) ==
  LET r == m.route IN
  IF ~Decrypts(m) THEN {IF r.service = "auth" THEN Filtered ELSE Thrown}
  ELSE CASE r.service = "order"    -> OrderReplies(r.op)
         [] r.service = "product"  -> ProductReplies(r.op)
         [] r.service = "category" -> CategoryReplies(r.op)
         [] r.service = "brand"    -> BrandReplies(r.op)
         [] OTHER                  -> AuthReplies(r.op)

-----------------------------------------------------------------------------
(* The types.                                                              *)

ASSUME GatewayAssumption ==
  /\ Mixes \subseteq [routes : SUBSET Route, until : 0 .. MaxNow]
  /\ MaxRequests \in Nat /\ MaxRestarts \in Nat /\ MaxRedeliveries \in Nat
  /\ MaxTokens >= 1 + MaxRequests + MaxRestarts  \* a login is never out of tokens

Reply == [says : {"OK", "ERR"},
          fields : SUBSET {"status", "message", "data", "err", "statusCode", "html"}]

\* What a connection is told: a success; a success whose body says that the
\* service refused; turned away by a guard or by validation; no key; a topic
\* without a reply topic; a reply that was not accepted; something the gateway
\* knows itself.  Or the connection is lost.
Answers == {"nothing", "ok", "refused", "denied", "nokey", "unroutable", "rejected",
            "local", "gone"}

Message == [id : RequestId, route : Route, key : 0 .. MaxSecrets, era : 1 .. MaxSecrets]

NoMsg == [id |-> 0]

GatewayTypeOK ==
  /\ VaultTypeOK
  /\ up \in BOOLEAN
  /\ mix \in Mixes
  /\ asked \in 0 .. MaxRequests
  /\ pc \in [Slot -> {"idle", "key", "wait"}]
  /\ msg \in [Slot -> Message \cup {NoMsg}]
  /\ answer \in [Slot -> Answers]
  /\ inbox \subseteq Message
  /\ replies \in [RequestId -> Seq(Reply)]
  /\ performed \subseteq 1 .. asked
  /\ restarts \in 0 .. MaxRestarts
  /\ redeliveries \in 0 .. MaxRedeliveries
  /\ \A s \in Slot : /\ pc[s] = "idle" <=> msg[s] = NoMsg
                     /\ pc[s] = "key" <=> call[s].op # "none"

GatewayInit ==
  /\ VaultInit
  /\ up = TRUE
  /\ mix \in Mixes
  /\ asked = 0
  /\ pc = [s \in Slot |-> "idle"]
  /\ msg = [s \in Slot |-> NoMsg]
  /\ answer = [s \in Slot |-> "nothing"]
  /\ inbox = {}
  /\ replies = [i \in RequestId |-> <<>>]
  /\ performed = {}
  /\ restarts = 0 /\ redeliveries = 0

-----------------------------------------------------------------------------
(* A request arrives.                                                      *)

Idle(s) == up /\ pc[s] = "idle" /\ asked < MaxRequests

Counted == asked' = asked + 1 /\ UNCHANGED <<up, mix, restarts>>

(* Mutant: the answered request stays in the table of the pending ones. *)
TellAndKeep(s, a) ==
  /\ pc' = [pc EXCEPT ![s] = "idle"]
  /\ msg' = msg
  /\ answer' = [answer EXCEPT ![s] = a]

Tell(s, a) ==
  /\ pc' = [pc EXCEPT ![s] = "idle"]
  /\ msg' = [msg EXCEPT ![s] = NoMsg]
  /\ answer' = [answer EXCEPT ![s] = a]

\* JwtAuthGuard, RoleGuard and RolesGuard, the ValidationPipe, and the checks
\* for a missing token or e-mail; who asks and with what is left out.
TurnAway(s) ==
  /\ Idle(s)
  /\ \E r \in mix.routes : ~Open(r)
  /\ Counted
  /\ Tell(s, "denied")
  /\ UNCHANGED <<vaultVars, busVars>>

\* The controller answers without asking anybody: the call of updateCategory
\* is a comment.
Echo(s) ==
  /\ Idle(s)
  /\ \E r \in mix.routes : r.service = "category" /\ r.op = "update"
  /\ Counted
  /\ Tell(s, "local")
  /\ UNCHANGED <<vaultVars, busVars>>

\* client.send: a message with a correlation id, if the reply topic is known.
Publish(s, m) ==
  IF Subscribed(m.route)
  THEN /\ inbox' = inbox \cup {m}
       /\ pc' = [pc EXCEPT ![s] = "wait"]
       /\ msg' = [msg EXCEPT ![s] = m]
       /\ UNCHANGED <<answer, replies, performed, redeliveries>>
  ELSE Tell(s, "unroutable") /\ UNCHANGED busVars

NewMessage(r, key) == [id |-> asked + 1, route |-> r, key |-> key, era |-> secret]

\* Encrypt with the hard-coded key, or no encryption, then send.
SendAtOnce(s) ==
  /\ Idle(s)
  /\ \E r \in mix.routes :
       /\ ~NeedsVault(r)
       /\ ~(r.service = "category" /\ r.op = "update")
       /\ Publish(s, NewMessage(r, IF KeyOf(r) = "fixed" THEN FixedKey ELSE Plain))
  /\ Counted
  /\ UNCHANGED vaultVars

\* encrypt, or one of the routes that show a secret: Vault first.
AskVault(s) ==
  /\ Idle(s)
  /\ \E r \in mix.routes :
       /\ NeedsVault(r)
       /\ IF r.op = "keyHttps" THEN AskCert(s) ELSE AskSecret(s)
       /\ pc' = [pc EXCEPT ![s] = "key"]
       /\ msg' = [msg EXCEPT ![s] = NewMessage(r, Plain)]
  /\ Counted
  /\ UNCHANGED <<answer, busVars>>

(* Mutant: the key of the first request is kept for the others. *)
UseSecretCached(s) ==
  /\ pc[s] = "key" /\ GotSecret(s)
  /\ IF msg[s].route.service = "vault"
     THEN Tell(s, "local") /\ UNCHANGED busVars
     ELSE Publish(s, [msg[s] EXCEPT !.key = FixedKey])
  /\ Return(s)
  /\ UNCHANGED <<up, mix, asked, restarts>>

UseSecret(s) ==
  /\ pc[s] = "key" /\ GotSecret(s)
  /\ IF msg[s].route.service = "vault"
     THEN Tell(s, "local") /\ UNCHANGED busVars
     ELSE Publish(s, [msg[s] EXCEPT !.key = call[s].value])
  /\ Return(s)
  /\ UNCHANGED <<up, mix, asked, restarts>>

KeyFailed(s) ==
  /\ pc[s] = "key" /\ NoSecret(s)
  /\ Tell(s, "nokey")
  /\ Return(s)
  /\ UNCHANGED <<up, mix, asked, restarts, busVars>>

VaultStep(s) ==
  /\ VaultHandles(s) \/ CallLost(s) \/ Continues(s)
  /\ UNCHANGED <<gatewayVars, busVars>>

-----------------------------------------------------------------------------
(* The services, and the replies.                                          *)

\* A handler can also throw, whatever it was asked; a topic that no pattern
\* listens to is not even consumed.
Outcomes(m) == IF Replies(m) = {} THEN {} ELSE Replies(m) \cup {Thrown}

Handle(m, r) ==
  performed' = IF r.says = "OK" THEN performed \cup {m.id} ELSE performed

Send(m, r) == replies' = [replies EXCEPT ![m.id] = Append(@, r)]

\* A service takes the message, runs the handler, replies, and the offset is
\* committed.
Serve(i) ==
  \E m \in inbox : \E r \in Outcomes(m) :
    /\ m.id = i
    /\ Handle(m, r) /\ Send(m, r)
    /\ inbox' = inbox \ {m}
    /\ UNCHANGED <<vaultVars, gatewayVars, redeliveries>>

\* The service dies after the handler, before or after its reply was sent:
\* the offset is not committed and the message comes again.
ServeAndDie(i) ==
  \E m \in inbox : \E r \in Outcomes(m) :
    /\ m.id = i
    /\ redeliveries < MaxRedeliveries
    /\ redeliveries' = redeliveries + 1
    /\ Handle(m, r)
    /\ Send(m, r) \/ UNCHANGED replies
    /\ UNCHANGED <<vaultVars, gatewayVars, inbox>>

Needs(r) ==
  CASE r.service = "order"    -> OrderNeeds(r.op)
    [] r.service = "product"  -> ProductNeeds(r.op)
    [] r.service = "brand"    -> BrandNeeds(r.op)
    [] r.service = "category" -> CategoryNeeds(r.op)

\* An error header makes firstValueFrom reject; otherwise the fields count.
Accepts(r, fields) ==
  /\ "err" \notin fields
  /\ IF r.service = "auth" THEN AuthAccepts(r.op, fields) ELSE Needs(r) \subseteq fields

Judged(r, reply) ==
  IF ~Accepts(r, reply.fields) THEN "rejected"
  ELSE IF reply.says = "OK" THEN "ok" ELSE "refused"

(* Mutant: the reply on a topic goes to whoever waits. *)
AnyWaiting(i) == {s \in Slot : pc[s] = "wait"}

Waiting(i) == {s \in Slot : pc[s] = "wait" /\ msg[s].id = i}

\* The reply consumer looks the correlation id up: the first reply answers the
\* request, any other reply finds nobody and is dropped.
Consume(i) ==
  /\ up /\ replies[i] # <<>>
  /\ replies' = [replies EXCEPT ![i] = Tail(@)]
  /\ IF Waiting(i) = {}
     THEN UNCHANGED <<pc, msg, answer>>
     ELSE \E s \in Waiting(i) : Tell(s, Judged(msg[s].route, Head(replies[i])))
  /\ UNCHANGED <<vaultVars, up, mix, asked, restarts, inbox, performed, redeliveries>>

\* The gateway dies: connections, correlation ids and calls are gone.
Die ==
  /\ up /\ restarts < MaxRestarts
  /\ restarts' = restarts + 1
  /\ up' = FALSE
  /\ pc' = [s \in Slot |-> "idle"]
  /\ msg' = [s \in Slot |-> NoMsg]
  /\ answer' = [s \in Slot |-> IF pc[s] = "idle" THEN answer[s] ELSE "gone"]
  /\ ForgetCalls
  /\ UNCHANGED <<mix, asked, busVars>>

\* bootstrap logs in, reads the certificate, and listens; the module's own
\* login at listen time replaces the token before any request.
Boot ==
  /\ ~up
  /\ up' = TRUE
  /\ LogInAtStart
  /\ UNCHANGED <<mix, asked, pc, msg, answer, restarts, busVars>>

\* Only requests that use Vault look at the clock, and only auth-service looks
\* at the value of the key: a mix without any stands still.
Environment ==
  /\ \/ Tick /\ now < mix.until
     \/ Rotate /\ \E r \in mix.routes : r.service = "auth"
  /\ UNCHANGED <<gatewayVars, busVars>>

GatewayNext ==
  \/ \E s \in Slot : \/ TurnAway(s) \/ Echo(s) \/ SendAtOnce(s) \/ AskVault(s)
                     \/ VaultStep(s) \/ UseSecret(s) \/ KeyFailed(s)
  \/ \E i \in RequestId : Serve(i) \/ ServeAndDie(i) \/ Consume(i)
  \/ Die \/ Boot \/ Environment

GatewaySpec == GatewayInit /\ [][GatewayNext]_vars

\* Vault and Kafka answer, the services consume, and the event loop goes on,
\* one request at a time; nobody has to send a request or start a dead gateway.
Goes(s) ==
  \/ (VaultHandles(s) \/ Continues(s)) /\ UNCHANGED <<gatewayVars, busVars>>
  \/ UseSecret(s) \/ KeyFailed(s)

FairGatewaySpec ==
  /\ GatewaySpec
  /\ WF_vars(\E s \in Slot : Goes(s))
  /\ WF_vars(\E i \in RequestId : Serve(i))
  /\ WF_vars(\E i \in RequestId : Consume(i))

-----------------------------------------------------------------------------
(* Properties.                                                             *)

Lenient(r) == r.op \in {"delete", "verifyEmail"}

(* What a client ought to be told of a reply of route r.                   *)
ToldOf(r, reply) ==
  IF reply.says = "OK" THEN "ok"
  ELSE IF reply # Thrown /\ Lenient(r) THEN "refused" ELSE "rejected"

(***************************************************************************)
(* The two ends agree on every route: a reply that says OK is passed on,   *)
(* and a reply that says ERR is an error for the client, except that a     *)
(* refused delete and a refused verifyEmail are passed on as a success;    *)
(* and no method sends to a topic missing from the list of reply topics.   *)
(***************************************************************************)
AnswersAgree ==
  [][\A i \in RequestId, s \in Slot :
       /\ answer'[s] # "unroutable"
       /\ s \in Waiting(i) /\ Len(replies'[i]) < Len(replies[i]) =>
            answer'[s] = ToldOf(msg[s].route, Head(replies[i]))]_vars

(***************************************************************************)
(* A request encrypted with the key in Vault carries the key's value at    *)
(* the time or a later one, so auth-service can decrypt it unless the key  *)
(* was rotated since the request came, whatever happened to the token.     *)
(***************************************************************************)
KeyIsCurrent ==
  \A m \in inbox : KeyOf(m.route) = "vault" /\ m.era = secret => m.key = secret

(***************************************************************************)
(* Each connection is a remote call: one answer per request, and "ok" only *)
(* if a service carried out this request, in spite of redeliveries and of  *)
(* late replies to requests of the same connection or of a dead gateway.   *)
(***************************************************************************)
Call == INSTANCE RemoteCall WITH
  Client <- Slot,
  open <- [s \in Slot |-> pc[s] # "idle"],
  done <- [s \in Slot |-> pc[s] # "idle" /\ msg[s].id \in performed],
  told <- answer

ImplementsRemoteCall == Call!Spec

(***************************************************************************)
(* firstValueFrom has no timeout, yet a request is answered or its         *)
(* connection is lost with the gateway: every topic has a consumer that    *)
(* replies, throw or not.  As long as a reply that was sent arrives:       *)
(* NestJS does not wait for it to be published before the offset is        *)
(* committed, and a reply lost after that is not modelled.                 *)
(***************************************************************************)
EveryHttpRequestAnswered == \A s \in Slot : pc[s] # "idle" ~> pc[s] = "idle"
=============================================================================
