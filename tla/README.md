# TLA+ specifications of the microservice shop

The repository is a small e-commerce back end: an HTTP gateway (NestJS) in front of
three Kafka micro-services (orders, products, auth) that keep their state in MySQL,
with Vault for keys, Consul for configuration and nginx with a WAF at the edge. These
modules model the part of it whose correctness depends on the order of things: the
handlers that change rows, the awaits inside them, and what happens when two of them,
a crash or a rejected query meet.

## 1. The system

| part | state | operations | talks to |
|---|---|---|---|
| orders-service (`src/orders-service`) | tables `orders`, `order_items`, and `products` (its own entity class, four columns) | `order.create`, `order.update`, `order.cancel`, `order.delete`; reads `order.getAllOrders`, `order.getOrder`, ... | Kafka, MySQL |
| products-service (`src/products-service`) | tables `products`, `categories`, `brands` | create, update, delete of each; reads | Kafka, MySQL |
| auth-service (`src/auth-service`) | tables of users, sessions, revoked tokens | register, verify e-mail, login with lockout, refresh, logout, me, forgotten and reset password | Kafka, MySQL, SMTP |
| api-gateway (`src/api-gateway`) | none but pending requests | validates DTOs, encrypts, sends on Kafka and waits for the reply; JWT guards | Kafka, HTTP |
| VaultService, EncryptService (one copy per service) | Vault token and its lease; the AES key | login, renewal, read of secrets; encrypt, decrypt | Vault |
| sidecars (`src/nginx-sidecar`, `src/sidecar`) | files, the hash last installed | poll Consul, install, reload nginx | Consul, docker |
| nginx WAF, certificates, compose files, init SQL | - | configuration | - |

How the parts interact:

* The gateway calls `client.send(topic, encrypted)` and waits for the first reply
  (`firstValueFrom`, no timeout). Nest's `ServerKafka` awaits the handler inside
  kafkajs' `eachMessage`, so **one instance of a service runs one handler at a time**,
  and the offset is committed after the handler: a process that dies in a handler is
  sent the same message again. An exception becomes an error reply; the offset is
  committed all the same. A topic has one partition and keeps its order; **between the
  topics there is none**, so after a crash a request of another topic may be handled
  before the one that is delivered again. (kafkajs commits when a batch is over: with
  several messages in a batch a finished one may be handled again too, which for a handler
  is the same as a client that sends it twice, and the clients of the models may.)
* A handler is an `async` function. The code between two awaits is atomic, and at each
  await anything else may happen: another service, another instance of the group.
* **orders-service and products-service write one table.** Both connect to the schema
  `offline_db` and each has an entity class for `products`. There is no transaction, no
  lock, no version column: a handler reads a row, changes the object and writes the
  object back with `Repository.save`.
* TypeORM, Kafka and MySQL are not in the repository; they are modelled from how the
  code uses them and listed as external in `PROJECT.json`. Of TypeORM we use: `findOne`
  with `{ id: undefined }` has no condition; `save` of an entity writes the columns the
  entity class has and leaves the others; `save` of an entity whose row is gone inserts
  it; `save` of an order whose items were loaded cascades to them, and of one whose
  items were not loaded does not touch them; a unique index or a foreign key makes it
  reject with no effect.

Hard behaviours, with their lines, are the `hazards` of `PROJECT.json`. In short: objects
held over awaits (every handler), handlers of several awaits that fail or crash half-way
and are not undone (`createOrder`, `cancelOrder`), redelivery to handlers that are not
idempotent, and requests in an order nobody expected (cancel twice, update after cancel).

What makes each part correct:

* orders: stock is never negative and no unit is lost or made up; between requests a live
  order has taken exactly the units of its items; a status only moves forward; stock only
  moves with an order; the total is the sum of the items; every request is answered.
* products, categories, brands: references resolve, names are unique, every request is
  answered.
* both together: no negative stock, whatever interleaving.
* auth: a lockout counts failures whatever comes between them, a session that logged out
  gives out no tokens, a reset token works once, a verified account stays verified and its
  password changes only by a mailed token, every request is answered.
* gateway: the two ends agree on topics and on the fields of a reply; a request gets its
  own reply, once; "ok" means that it was carried out; every request is answered.
* Vault: one token serves all requests, and a key is read with a token Vault still knows;
  what was encrypted for auth-service can be decrypted there.
* sidecar: what a loop believes to have installed the service runs with, and kafka restarts
  after zookeeper did, wherever the container stopped. That Consul's value arrives in the
  end it cannot promise: the script ends with its loops (section 5).

## 2. The modules

| module | models | lines of code |
|---|---|---|
| `OfflineDb` | the table `products`, what a load returns, what a save does | entity classes of both services |
| `OrderService` | the four writing handlers of orders-service | `orders.service.ts` |
| `ProductService` | the nine writing handlers of products-service | `product.service.ts`, `categories.service.ts`, `brands.service.ts` |
| `Shop` | both services at once over the table | the two `app.module.ts` |
| `StockLedger` | abstract: units move between a shelf and the account of an order | none, it is the promise |
| `AuthService` | the seven writing handlers of auth-service, with a clock | `auth.service.ts`, `email-otp.service.ts`, `jwt.service.ts` |
| `SessionLifecycle` | abstract: a session opens, gives out access tokens, closes | none, it is the promise |
| `VaultToken` | the Vault token of a process, its renewal and the login that replaces it | `vault.service.ts` |
| `Gateway` | every HTTP route as a remote call over Kafka, on top of `VaultToken` | the controllers, guards and services of `src/api-gateway`; the `@MessagePattern`s of the others |
| `RemoteCall` | abstract: a request is asked, carried out and answered once | none, it is the promise |
| `ConfigSidecar` | the loops that copy Consul keys to files and reload services | `nginx-sidecar/entrypoint.sh`, `watchmap.json` |
| `MCOrderService`, `MCProductService`, `MCShop`, `MCAuthService`, `MCGateway`, `MCConfigSidecar` | small instances | - |
| `OrderService_proofs`, `OrderSerial_proofs`, `ProductService_proofs`, `Shop_proofs`, `AuthService_proofs`, `VaultToken_proofs`, `Gateway_proofs`, `ConfigSidecar_proofs` | theorems | - |

### State and actions

`OrderService` has the tables (`products`, `orders`), and per worker `pc` (the await it
is at), `msg` (the request it was delivered), `mem` (the locals of the handler that live
over an await: the order, the order row as it was read, the products as they were read,
the loop position) and `reply`. A worker is a consumer of the group; `Assigned` says which
one owns the partition of a topic. `again` holds the requests whose worker died before
their offset was committed. A row of `order_items` is an element of the `items`
of its order. Three history variables record what the properties speak about: `issued`
(uuids handed out), `charged` (units taken for an order minus units returned, changed
at exactly the two `productRepo.save` loops) and `halfway` (orders whose return loop was
broken off by a crash or a rejected call, with the topic).

Each action is the code from one await to the next:

| code | actions |
|---|---|
| `createOrder` up to `orderRepo.save` (26-94) | `CreateReject`, `CreateAccept` |
| `await orderRepo.save(order)` (95) | `CreateSaveOrder`, `CreateTotalTooLarge` |
| the deduction loop (104-110), once per line | `CreateDeduct`, `CreateDeductRefused` |
| `await orderItemRepo.save` (113-137) and the return | `CreateSaveItems`, `CreateItemsRefused` |
| `findOne` of update, cancel, delete | `UpdateFind`, `CancelFind`, `DeleteFind`, `OrderNotFound` |
| `updateOrder`'s save (212-223) | `UpdateSave` |
| the return loop (235-242 and 264-272), read and write of each item | `ReturnFind`, `ReturnSkip`, `ReturnSave`, `ReturnRefused` |
| `status = 0` and save (244-251) | `CancelSave` |
| the two deletes (274-276) | `DeleteItems`, `DeleteOrder` |
| delivery (a new request, or one whose worker died) and offset commit | `Receive` (`NewRequest`, `Redeliver`), `Commit` |
| the process dies; a query rejects | `Crash`, `DbError` |

The findBy of `createOrder` and the checks that follow it are one action, since nothing
of the handler's state before the read matters. `ProductService` is built the same way
with one worker; categories and brands are the same code twice, so a label has a `kind`,
and `callsAgain` holds the requests to be delivered again.

`Crash` (`Restart`, `CrashAuth` in the other two services) leaves the worker idle and puts
its request into `again`. Kafka delivers that one before the others of its topic, but
requests of other topics may be handled first, as often as the clients send some.

`CancelField` is the field in which a cancel carries the id. The gateway sends `id`
(`api-gateway/src/orders/orders.service.ts:150`), `cancelOrder` reads `orderId` (227).
The parameter takes both values: `"id"` is what is deployed, `"orderId"` is what the
handler was written for and lets the properties speak about a cancel that finds its
order. Every passing run has `"id"`. Every theorem holds for both values but
`NamedOrdersAreHit`, which is about the difference. `getOrder` (187) has the same
mismatch; it is a read and not modelled.

Each service is also specified open, beside the other: `OpenOrderSpec` adds to the steps
of `OrderService` those of a products-service that saves and removes products at any await
(`CatalogSave`, `CatalogRemove`), and `OpenProductSpec` adds to `ProductService` the saves
of an orders-service (`OrdersSave`, only of rows that existed once). What the other may save
is the constant `OtherSaves`: entities with a legal stock. This is coarser than `Shop`,
which has both services in full, and is what the first two theorems are about.

`AuthService` has the tables of accounts (`users`), `sessions` and `revoked` tokens, and
the `mails` sent; the same `again`, and per worker the same `pc`, `msg`, `mem`, `reply`, as
`OrderService`, where `mem` holds the account as it was read, a token and a date computed before a save. `now`
is a clock that `Tick` moves between any two steps. A token is a number counted by
`issued`; 0 stands for NULL. The actions are named by handler and await: `RegisterFind`,
`RegisterSave`, `RegisterMail`; `VerifyFind`, `VerifySave`; `LoginFind`, `LoginCompare`,
`LoginSaveFailure`, `LoginSaveCleared`, `LoginSaveSession`; `RefreshCheck`,
`RefreshGrant`; `LogoutCheck`, `LogoutSaveSession`, `LogoutSaveRevoked`; `ForgotFind`,
`ForgotSave`, `ForgotMail`; `ResetFind`, `ResetSave`; a `...Refused` is the throw before
the first write, `RefreshStillValid` the return with the old access token. `CrashAuth`
and `CallRejects` are the faults. `Raw` and `Bcrypt` keep apart the token that
`refreshToken` looks up and the salted hash that `logout` stores: they are never equal, so
the lookup never finds anything and the session's `isRevoked` does all the work. Clients
send tokens they were mailed, old ones included, and refresh tokens of sessions. Three
history variables record what the properties speak of: reset tokens that changed a
password (`spent`), wrong passwords in a row (`wrong`), access tokens a session gave out
(`grants`). It implements `SessionLifecycle` under the mapping that calls a session
without a row "none", a revoked one "closed" and any other "open".

`VaultToken` has no specification of its own: it is the part of `Gateway` that knows Vault.
`token` and `tokenCreatedAt` are the two fields of the service; `call` is the call to
Vault each request waits for; `lease`, `born` and `secret` are Vault's. A call is sent,
handled by Vault some time later (`VaultRenews`, `VaultLogsIn`, `VaultReads`,
`VaultRefuses`) or lost, and answered some time after that. `AskSecret` is
`getAesKey`/`getGatewayApiKey` up to its first await with the test of `maybeRenewToken`,
`AskCert` is `getTlsCert`, which does not renew; `RenewAnswered`, `RenewFailed` and
`LoginAnswered` are what follows each await.

`Gateway` has a slot per request the gateway handles at a time. `TurnAway` is a guard or
a DTO; `Echo` is the update of a category, which answers without asking the service
(`categories.controller.ts` has the call as a comment); `SendAtOnce` and `AskVault` with
`UseSecret` and `KeyFailed` are the proxies' `encrypt` and `client.send`. `inbox` holds
the messages whose offset is not committed, `replies` those sent and not yet consumed.
`Serve` is a service with its handler and its reply, `ServeAndDie` the same with a crash
before the offset is committed, before or after the reply is on the topic; `Consume` is
the reply consumer that looks the correlation id up. `Die` and `Boot` are the gateway's
own crash and start. The tables `...Routes`, `...Topics`, `...Open`, `...Needs` and
`...Replies` are what the controllers and services of the two ends say of each route: the
topic it is sent to, the reply topics the gateway subscribes to, whether nothing can turn
a request away, the fields the gateway checks and the fields the service gives. Who may
ask is left out: no property depends on it. `performed` is a history variable: the
requests a handler carried out. `Gateway` implements `RemoteCall` when a connection is
open as long as its request is under way and done when its request is in `performed`.

`ConfigSidecar` has one loop per key (`pc`), the shell variables `hash` and `new`, the
`file` and what each service has `loaded`. A version is a number; 0 is the empty file. The
key may hold nothing (the shell sees an empty answer, and installs an empty file), or the
empty string (`jq` shows `null`, which the script skips). `behind` says that zookeeper
has restarted and kafka has not since.

`StockLedger` is what the handling of orders promises about stock. `OrderService`
implements it under the refinement mapping `shelf[p]` = the stock of the row, or 0 when
there is none, with `charged` mapped to itself.

## 3. The runs

| run | question | bounds |
|---|---|---|
| `order_serial` | one instance, no failure: is stock always accounted for, is the ledger implemented? | 5 requests, 3 orders, 2 products with 2 units each, 6 carts |
| `order_crash` | the same with a crash and a rejected call at any await, redelivery in any order between the topics; do requests end? | 3 requests, 3 orders, 1 crash, 1 rejected call |
| `order_group` | two members of the group, calls that reject, products saved and removed by the other service | 3 requests, 1 rejected call, 2 carts |
| `shop` | both services at once | 2 order requests, 3 product requests, 1 order |
| `product_service` | products-service with restarts, orders-service saving products | 3 requests, 1 restart |
| `auth_service` | one address, time passing, a crash and a rejected call: lockout, tokens, sessions | 4 requests, 1 account, 2 passwords, 2 addresses, 2 sessions, 3 readings of the clock |
| `gateway` | both ends of every route, two requests at once, with a crash of either end, a redelivery, a rotated key and a Vault token that is renewed, lost and replaced | 2 requests, 2 connections, all 33 Kafka routes one at a time, the 3 routes that show a secret of Vault, 1 restart, 1 redelivery, 1 lost call, 6 readings of the clock |
| `config_sidecar` | two keys with a dependent reload, while Consul fails, reloads fail and the container restarts | 3 writes of 2 values or of the empty string, 1 outage, 1 failed reload, 1 restart |
| `auth_mail_lost` (violation) | was a mail sent to whom is told to look for it? | 2 requests, 1 rejected call |
| `order_double_cancel` (violation) | does cancelling twice return stock twice? | as `order_serial` with 2 orders and `CancelField = "orderId"`, so that it does not rest on the other finding |
| `order_cancel_other` (violation) | does a cancel hit the order it names? | as `order_serial` with 2 orders |
| `shop_lost_update` (violation) | does stock only move with orders? | as `shop` |

What they show:

* `order_serial`: `OrderTypeOK`; `HandlersOK` (below); `OrdersSettled`, between requests a
  live order is charged exactly its items and a cancelled or deleted one keeps no unit;
  `ImplementsLedger`; `OrderLifecycle`, the status moves 1, 2, 3 or to 0 and a cancelled
  or deleted order stays so; `OnlyCancelReturnsTwice`, an order gives back more than it
  took only in the loop of a cancel of a cancelled order: the defect of
  `order_double_cancel` is the only one of its kind.
* `order_crash`: of `OrdersSettled` the part that crashes and rejected calls leave is
  `LiveOrdersSettled`: when nothing runs or waits to run again, a live order that got its
  items has taken exactly their units, with two exceptions that the code does not repair.
  A cancel broken off in its loop leaves its order live and half returned: an update may
  then meet it, and the cancel that is delivered again reads `orderId`, gets none, and may
  pick another order. A delete broken off there does leave its order half returned for a
  time, whatever updates and cancels meet it meanwhile, but delivered again it finds the
  order by its id and removes it: only a rejected call can leave such an order for good. A
  crash between the writes of `createOrder` leaves an
  order without items whose units nobody returns, and the redelivery creates a second
  order: that is the code, and no property says otherwise. `SnapshotsFresh` and
  `OrderLifecycle` survive. `CreateFailsBeforeSaving`: once the order row is written,
  nothing but a rejected call makes the create fail; in particular neither a unique
  name, nor a foreign key, nor the range of an item's amount (the total is at least as
  large and was stored first). `UnitsConserved`: the units on the shelf and those that
  the orders hold are together what the shop began with, at every await and whatever is
  begun again; a double cancel makes the account of an order negative, not a unit out of
  nothing. The sum over orders is written as a sum along any list of the order ids, so
  that it is the sum the proofs are about. `EveryRequestAnswered`, topic by topic: each
  partition comes to a point where nothing in it is unfinished.
* `order_group`: `HandlersOK` and `TotalMatchesItems` hold for two workers.
  `SnapshotsFresh`, `OrderLifecycle` and `ImplementsLedger` do not: with update and
  cancel on two members, an update writes its old status over a cancel. That is why the
  theorems about them assume one worker, and why scaling the service out needs more than
  a second instance.
* `shop`: stock never goes negative although both services write old values back
  (a write-back is of a value that was read, or that value less units that were there).
  It does not say that a unit is sold once: a deduction can be erased, which is what
  `shop_lost_update` shows. Totals match items although prices move between the two computations, since both use
  the same snapshot; references resolve although labels are deleted under
  `product.create` (one instance runs one handler) and although orders re-insert deleted
  products (without labels).
* `product_service`: types, references, and that every call ends after a restart, although
  orders-service puts deleted products back (the insert of a product whose name came back
  between the look and the insert is refused by the index).

* `auth_service`: `AuthTypeOK`; `AccountsFresh`, what a handler will write back is the row
  in the table plus its own change (one instance; the properties that follow rest on it);
  `LockoutHolds`; `ResetTokenWorksOnce`, although a reset is delivered again after a crash;
  `VerifiedAccountsKeep`; `ImplementsSessions`; `EveryAuthRequestAnswered`.

* `gateway`: `GatewayTypeOK`; `AnswersAgree`, on all 33 routes a reply that says OK has the
  fields the gateway asks for and one that says ERR is an error for the client, but for the
  deletes and `verifyEmail`, where a refusal is passed on as an HTTP success
  (`if (!result.message)` is all that is asked of a delete), and the topics the methods
  send to are among the reply topics `onModuleInit` lists apart;
  `ImplementsRemoteCall`, in spite of redelivered messages and late replies;
  `EveryHttpRequestAnswered`, as long as a reply that was sent arrives (section 5);
  `KeyIsCurrent`, what a request encrypts with the key of
  Vault is decrypted by auth-service unless the key was rotated since the request came;
  `BeliefBounded` and `ReadsUseLiveToken`, two requests that renew and log in at once
  leave the service wrong about its token by at most two calls, and the margin of 30 s
  covers three, so a key is only refused when the token is past its maximum life.
* `config_sidecar`: `SidecarTypeOK`; `InstalledIsLoaded`, a stop between `mv` and the
  reload does no harm because the hash is in a shell variable and forgotten with it;
  `KafkaRestartsWithZookeeper`, the same for a stop between the two restarts. Both are
  safety properties: nothing makes a stopped container start again, so that the services
  follow Consul in the end is not claimed.

Seen while modelling the gateway, and not properties: a client can be told of a failure
(`rejected`) although the first delivery was carried out and its reply was lost, since
delivery is at least once; register and login are encrypted with the hard-coded `keyFix`
and refused once the key in Vault is another one; `updateCategory` answers without
calling the service; `verifyEmail` returns what it got without a look; `main.ts` and the
module both log in to Vault, the second login replaces the token of the first (`Boot` is
the second one).

The violations are disagreements between the code and what it says about itself; each is
a `finding` of `PROJECT.json` with the quoted line: `cancelOrder` returns stock whatever
the status, although `deleteOrder` guards the same loop; a cancel as the gateway sends it
cancels an arbitrary order; an account or a reset token is saved before its mail is sent,
and when the mail fails (or the process dies there) the next request is refused with
"please check your e-mail"; and a product edited while an order is placed loses the
deduction (the two services overwrite each other's rows).

### Bounds

Every bound is a named constant (`MaxRequests`, `MaxCrashes`, `MaxDbErrors`, `MaxAmount`,
`MaxCalls`, `MaxRestarts`). Two products are enough for an order of two lines and for a
name that is taken; two units each, for an order that takes the last one and one that is
refused. The carts are: one line, two lines, one product twice, none, a line over
`MaxAmount`, two lines that are over it only together. Five requests reach create,
update, update, cancel, delete of one order and two orders at once; the interesting
failures need three. `OrderId` and `ProductId` stand for uuids and are finite, so a create
is only delivered while ids are left for it and for its redeliveries. For `order_crash`,
three requests are what its exceptions take (create, a cancel or delete that breaks off,
and an update or cancel of the same order before it comes again), with one crash and one
rejected call anywhere. `order_serial`
declares symmetry of order ids; the runs with liveness do not.

For `auth_service`: `TokenLife`, `LockLife`, `RefreshLife` and `MaxFailed` are constants
(15 minutes, 15 minutes, 7 days and 5 in the code; 1, 1, 2 and 2 in the run), so that
with three readings of the clock (`MaxNow`) a token, a lock and a refresh token are seen
live and expired. Four requests reach register, an expired token, register again and
verify; login, refresh, logout, refresh; forgot, reset and the reset with the used token;
a wrong password, a reset, a wrong password. The account table starts with no account or
a verified one. One account is enough for the properties, which speak of one account or
one session each. Uuids are numbers, sessions are finite, so a login is only delivered
while sessions are left for it and its redelivery.

For `gateway`: a behaviour uses one route (or the two that read secrets of Vault with and
without a renewal), named by `Mixes`, so that 33 routes do not multiply; two requests at
once on one route are what correlation ids must tell apart, and routes share nothing
else but the Vault token. The clock stands still where a Kafka route is in use, since
only Vault looks at it, and runs to `MaxNow` = 5 in the mix that uses Vault alone: past
the renewal (TTL 4, margin 3), the lease and the maximum life (5). `MaxDelay` = 1 is the
largest with three calls in the margin. One lost call leads from a renewal to a login, a
second connection renews meanwhile. Four tokens are enough for a login of each request
and each start (the assumption of `MaxTokens`). A key rotates only where auth-service is
asked.

For `config_sidecar`: kafka and zookeeper are the two keys of `watchmap.json` that depend
on each other; nginx and vault are the same loop without a dependent. Two values and the
empty string with three writes give a value that is replaced by another, by nothing, and
put back.

`CHECK_DEADLOCK FALSE` is in every configuration but that of the sidecar, whose loops
never stop: clients may stop sending, and the bound on requests makes them.

### Fairness

`FairOrderSpec` has weak fairness of each worker's handler steps, the commit among them,
and of `Redeliver`, and nothing else: the event loop resumes a handler when the database
answers or rejects, and a crashed worker is restarted and sent the uncommitted requests
again. Weak fairness of `Redeliver` is enough because the clients of a run send finitely
many requests, which is when a worker stays idle with a request to come back. Clients
need not send and nothing need fail. It assumes that a query settles; there is no query
timeout in the code, so a connection that hangs for ever is excluded by this assumption.
The specifications of products-service have the same fairness (`RedeliverCall`).
`FairAuthSpec` is the same for auth-service, where the mail server too must accept or
reject; the clock need not tick.

`FairGatewaySpec`: Vault answers or the call fails and the event loop goes on (`Goes`,
without the loss of a call), each topic's service takes and answers a message (`Serve`),
and the reply consumer reads (`Consume`). Each is fair as a whole, not per request: a
topic is a queue, and the bounds end everything else. Nobody need send, start a dead
gateway, rotate a key or let time pass. A service that is down for ever is excluded; for
a service that is down for a time see `ServeAndDie`. `ConfigSidecar` has no
fairness: the loops end with the script, and no compose file starts it again.

## 4. The proofs

`OrderService_proofs`, for any set of workers, products, orders, users and carts, any
bounds, both values of `CancelField`, any number of crashes and rejected calls:

* `OrderTypeCorrect`: `OpenOrderSpec => []OrderTypeOK`.
* `StockNeverNegative`: `OpenOrderSpec => []HandlersOK`, also beside a products-service that
  writes any legal stock at any await. `StockNonNegative` alone is not inductive,
  because a deduction writes back a number computed from a local variable. `HandlersOK`
  adds what the locals hold: each product a handler holds has a stock that is not
  negative, no product is named by two lines of an accepted cart (which follows from the
  comparison of lengths at line 45, by a counting argument on the set of rows found), and
  each line that is still to be deducted has enough units in the object that will be
  written back. The conjunction with `OrderTypeOK`, `OrderInv`, is inductive.
* `OrdersAddUp`: `OpenOrderSpec => []TotalMatchesItems`. The invariant `OneTotal` says that
  there is a total for each order number that its row has, that every handler has read,
  and that the cart comes to which a `createOrder` is working on. A deduction changes the
  stocks of that handler's snapshot and no price, so what `createOrder` adds up and what
  it saves as items are one function of the cart (`SumOver` is not unfolded for it).
* `NamedOrdersAreHit`: with `CancelField = "orderId"`, `OpenOrderSpec =>
  []CancelHitsNamedOrder`. It is the other half of the finding of `order_cancel_other`:
  the field name is the only thing that makes a cancel hit another order, whatever
  workers, crashes, rejected calls and writes of products-service come in between.

`OrderSerial_proofs`, under the assumption `OneWorkerOnly` (one instance, as deployed):

* `WritesBackWhatItRead`: `OrderSpec => []SnapshotsFresh`. The inductive invariant
  `SerialInv` is `OrderInv`, `SnapshotsFresh` and that a row in the table has an id that
  was handed out (or the insert of a create could land on a row some handler holds). The
  proof needs that between a read and the write-back only the same worker moves.
* `StatusOnlyMovesForward`: `OrderSpec => OrderLifecycle`, from `SerialInv`.
* `SerialServiceKeepsLedger`: `OrderSpec => ImplementsLedger`, step by step: a deduction
  and a return are `Take` and `Give`, everything else stutters.
* `StockIsConserved`: `OrderSpec => []UnitsConserved`, from `SerialInv` and the ledger. A
  step of the ledger moves units between one product's shelf and one account; along every
  list of the order ids the account occurs once, so the sum changes by just as many
  (`SumWithChange`). It takes the set of order ids to be finite, as it is in every run:
  over an infinite set there is no sum.
* `SavedOrdersGoThrough`: `OrderSpec => []CreateFailsBeforeSaving`. Its invariant,
  `AloneInv`, adds to `SerialInv` that names are unique (so that a write-back of a row as
  it was read is not refused), `OneTotal`, that a saved order names each product once and
  only products that are in the table (`RowLines`, which is why no foreign key refuses
  anything), and for the order in hand (`InHand`) that its row is in the table and is what
  the handler read. That an
  item's amount then fits its column needs that no term of a sum of natural numbers is
  larger than the sum (`SumBounds`).
* `OrdersStaySettled`: `OrderSpec => [](crashes = 0 /\ dbErrors = 0 => OrdersSettled)`.
  `SerialAccounts` says what an account holds in the middle of a handler: after the
  deductions up to a line, the quantities of these lines (`CartBilled`), before the
  returns from a line on, those of the rest (`ReturnBilled`), and of every order not in
  hand that it is settled (`Closed`); an account nobody has opened is empty. The premise
  is needed, not convenient: a crash of a create leaves a live order without items that
  holds units (`order_crash` and the hazard at line 95).
* `LiveOrdersStaySettled`: `OrderSpec => []LiveOrdersSettled`, for both values of
  `CancelField`, any number of crashes and rejected calls, and redeliveries in any order
  between the topics. `LiveAccounts` says that a live order with items is billed for them
  (`LiveBilled`) unless a loop is returning them (`Returning`) or one was broken off
  (`Excused`). A cancel excuses its order for good. A delete excuses it only while it is
  still to be handled (`DeletePending`), for it names its order (`DeletesNamed`: `id` is
  both what is sent and what is read) and, with no rejected call, does not end before the
  order is gone (`DeleteEnds`); when nothing waits to run again the excuse has lapsed.
  The two exceptions of the property are needed: section 3 says how each comes about.
* `OnlyCancelOverReturns`: `OrderSpec => OnlyCancelReturnsTwice`, from `SerialAccounts`:
  a delete returns only for an order that was live when it was read.

Where these speak of sums they rest on what `SumOver` computes, an induction over the
lines of an order. An
induction rule over a predicate is out of the provers' reach, but the rule over a set is
not: a set of numbers with 0 in it and closed under successor is `Nat`
(`SetInduction`, from the least element that `WFMin` of the library gives). `SumOver` is
a recursive function whose existence is proved that way (`SumDef`), and `SumInduction`
carries a fact along the partial sums.

`VaultToken_proofs` and `Gateway_proofs`, for any number of connections, requests,
routes, tokens, restarts and redeliveries, any lease, maximum life and margin of at least
three calls:

* `TokenBelief` and `KeyReadsServed`: `GatewaySpec => []BeliefBounded`,
  `[]ReadsUseLiveToken`. `BeliefBounded` is not inductive: an answer to a renewal
  moves `tokenCreatedAt` whatever the token is by then. `VaultInv` adds, for each call
  under way, that it was sent at most `MaxDelay` ago and what its answer may rely on
  (`CallOK`): the lease a granted renewal left; that a token which has replaced the one
  under renewal is good for as long as the answer will claim, less one call; the lease of
  the token of a login; and that a read's token is good until the read is over.
  `VaultToken_proofs` shows that every step of `VaultToken` keeps it, `Gateway_proofs`
  that every step of `Gateway` is such a step or leaves Vault alone.
* `KeysCurrent`: `GatewaySpec => []KeyIsCurrent`; a message's key lies between the
  secret when the request came and the secret now.
* `GatewayTypes`: `GatewaySpec => []GatewayTypeOK`.
* `GatewayImplements`: `GatewaySpec => ImplementsRemoteCall`. The invariant,
  `GatewayInv`, adds to `VaultInv` and the types that a number is given to one request
  only and nothing in the topics carries a number not yet given out (`IdsOK`), that a
  reply that says OK is to a request in `performed` (`RepliesOK`), and that a key is
  never older than the request it serves, while it is read (`WaitersOK`) and once it is
  used (`InboxOK`).
* `RepliesJudgedAsMeant`: `GatewaySpec => AnswersAgree`, for any routes used together.
  `OneRoute` says that a request number has one route and that every reply queued under it
  is one that route's handler can give; the rest is the table of replies against the
  fields the gateway asks for, one service at a time (`JudgedAsTold`).

`ProductService_proofs`, for any products, labels, requests and restarts, beside an
orders-service that saves any legal entity of a product that existed once:

* `ProductTypesCorrect`: `OpenProductSpec => []ProductTypeOK`.
* `ReferencesResolve`: `OpenProductSpec => []LabelReferencesResolve`. The insert of
  `create` comes two awaits after the category was found and one after the brand was, so
  the property is not inductive; `ChecksHold` adds that what the handler found is still
  there. It holds because one instance runs one handler at a time, and because a row that
  orders-service inserts again has no references.

`Shop_proofs`, both services in full over one table, for any number of order workers:

* `ShopStockNeverNegative`: `ShopSpec => []StockNonNegative`, and `ShopReferencesResolve`:
  `ShopSpec => []LabelReferencesResolve`. `ShopInv` joins the invariants of the two
  services, `OrderInv` and `ProductInv`, and adds the one thing the first needs of the
  second: the product that `product.update` will write back was read with a legal stock.
  Each step of one service is shown to be a change of the table that the other's invariant
  survives (`TableInv`, `SaveKeepsReferences`). It says nothing of lost updates: they
  happen (`shop_lost_update`), but never below zero.
* `ShopOrdersAddUp`: `ShopSpec => []TotalMatchesItems`, since `OneTotal` is about the
  variables of orders-service alone.

`AuthService_proofs`, for any accounts, sessions, lives of tokens, requests, crashes and
rejected calls. With any number of workers:

* `AuthTypesCorrect`: `AuthSpec => []AuthTypeOK`; the invariant `AuthInv` adds what a
  handler holds at a save and that the session named by a refresh or a logout exists.
* `SessionsKeepTheirPromise`: `AuthSpec => ImplementsSessions`: a login is `Open`, a grant
  is `Refresh` of an open session, the first save of a logout is `Close`, everything else
  stutters. It needs no bound on workers, since a session row is written by its login once
  and by logouts in one column only.

Under `OneWorkerOnly`, from the invariant `SerialInv`:

* `NoAccountWriteIsLost`: `AuthSpec => []AccountsFresh`, since between a read and the save
  only the same worker moves.
* `LockoutIsExact`: `AuthSpec => []LockoutHolds`. The history of wrong passwords is not in
  any table; `Counted` says that it equals the column `failed` of the row, and that the
  column stays below `MaxFailed`.
* `ResetTokensWorkOnce`: `AuthSpec => ResetTokenWorksOnce`, and `VerifiedAccountsAreKept`:
  `AuthSpec => VerifiedAccountsKeep`. `TokensOK` says that a reset token is in one row, was
  mailed to its owner only, and is in no row once used; `Knows`, that a reset under way
  names a token that was mailed and found it in the row, that a registration under way
  found no verified account, and that a token about to be saved is nobody's yet. A
  redelivered reset finds its token gone from every row, whatever the crash.

`ConfigSidecar_proofs`, for any keys, contents, writes, outages, failed reloads and
restarts: `SidecarTypes` (`Spec => []SidecarTypeOK`) and `NothingInstalledUntold`
(`Spec => []InstalledIsLoaded`), inductive together with `HashIsFile`, that the hash
a loop knows is that of the file it installed; and `KafkaNeverForgotten`
(`Spec => []KafkaRestartsWithZookeeper`), inductive with the types.

Everything the proofs use beyond the definitions is an `ASSUME` of a module and checked
by TLC in every run, or an assumption of the theorems that name it (`OneWorkerOnly`,
`CancelField = "orderId"`, `IsFiniteSet(OrderId)`):
quantities, prices and lives are positive naturals, carts are sequences of lines, the
initial tables are legal (no negative stock, unique names, no locked account), `NoRow` and
`Null` are no values, a call to Vault is over well inside the margin of renewal.

Only model-checked: liveness (`EveryRequestAnswered`, `EveryCallAnswered`,
`EveryAuthRequestAnswered`, `EveryHttpRequestAnswered`), which needs fairness and
`ENABLED`.
Every safety property of a passing run is stated by a theorem.

## 5. What is not modelled, and why

* The reads of every service: they change nothing.
* Encryption of messages in orders-service and products-service: a local function of a
  fixed key, which cannot fail after the writes of a handler.
* Addresses, phones, dates, descriptions, images, `sold`: no handler decides on them.
* Fractional quantities: the gateway lets them through, an INT column rounds them.
* Rejected calls in `ProductService`: each of its handlers has one write and it is the
  last step, so a rejection is the error answer it already has.
* The two SQL statements of one `save`: one step.
* Names, phones, roles of accounts and the unused table `email_otp_codes`; `auth.me`.
* The ciphers: `Gateway` knows which key a message is encrypted with and which one decrypts
  it, not what encryption does. `EncryptService.encrypt` and `decrypt` (lower case), which
  ask Vault for a key by name, are called by no code.
* What an HTTP body holds: a route either may be refused by its DTO or not. Two
  disagreements of the DTOs with their callers are therefore outside the models: `page` and
  `pageSize` of a query are strings when `@IsInt` looks at them, and the gateway names the
  filters of a product list otherwise than `product.getAll` reads them.
* A reply that is lost: NestJS hands it to the Kafka producer and does not wait for the
  publication before the offset is committed. If it is lost then, nothing sends it again
  and the HTTP request waits for ever, since `firstValueFrom` has no timeout.
* That the sidecar keeps running. `entrypoint.sh:8` starts its loops in the subshell of a
  pipeline, so `wait` at line 46 has no job, the script is over at once and the container
  stops with its loops; `Restart` is somebody starting it again. And no compose file does:
  `docker-compose-nginx.yml:28` has it in a block that is commented out, and
  `docker-compose-full.yml:27` starts `abc.sh` (in an image without docker's client, and
  with no volume at the `/nginx` it copies to). `ConfigSidecar` says what the loops do
  while they run.
* The other scripts beside `nginx-sidecar/entrypoint.sh`: `abc.sh` copies the file and
  reloads nginx every 30 s, whatever it got; the scripts of `src/sidecar` go through the
  keys once and stop; they and the `...Old` and `...New` ones are started by no compose file.
* WAF rules, certificates, compose files: configuration.

## 6. Plan

Done: `OrderService`, `ProductService`, `Shop`, `AuthService`, `Gateway` with `VaultToken`,
`ConfigSidecar`, their runs, and the theorems of section 4. Left, in this order:

1. `AuthService` with two members of the group: which properties survive when login and
   the password reset run beside each other. `SessionsKeepTheirPromise` already covers it.
2. A gateway in front of the detailed services instead of the abstract handler of `Serve`.
3. The sidecar script `abc.sh`, which the deployment has instead of `entrypoint.sh`.
