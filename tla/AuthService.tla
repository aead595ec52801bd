---------------------------- MODULE AuthService ----------------------------
(***************************************************************************)
(* auth-service: registration and verification of accounts, login with a   *)
(* lockout, refresh and logout of sessions, and the forgotten password.    *)
(*                                                                         *)
(* One action per await of a handler, as in OrderService: a worker is one  *)
(* consumer of the group 'auth-service-consumer', runs one handler at a    *)
(* time and is sent the request again when it dies before the offset is    *)
(* committed, before the others of its topic but maybe after requests of   *)
(* other topics.  A handler loads a whole account row, changes the object  *)
(* and saves the whole object.                                             *)
(*                                                                         *)
(* Time is a clock that ticks between any two steps; dates are readings of *)
(* it, 0 is NULL.  A password stands for itself and for its bcrypt hash.   *)
(* Names, phones, roles and the text of mails are left out.  auth.me only  *)
(* reads.                                                                  *)
(***************************************************************************)
EXTENDS Naturals, FiniteSets

CONSTANTS
  Worker,        \* instances of auth-service
  UserName,      \* the unique column `username`, an e-mail address
  Password,
  Address,       \* an IP address together with a user agent
  SessionId,     \* uuids of sessions
  NoRow,         \* "no such row"
  Null,          \* undefined
  Accounts,      \* the contents of the account table to start with
  TokenLife,     \* 15 minutes: a verification or a reset token
  LockLife,      \* 15 minutes: a locked account
  RefreshLife,   \* 7 days: a refresh token
  MaxFailed,     \* 5: wrong passwords until the account is locked
  Assigned,      \* Assigned[topic]: the worker that owns its partition
  MaxNow,        \* bound: ticks of the clock
  MaxRequests,   \* bound: requests the clients send
  MaxCrashes,    \* bound: crashes of a worker
  MaxRejections  \* bound: database and mail calls that reject

Topic == {"register", "verify", "login", "refresh", "logout", "forgot", "reset"}

(* vtoken, vexp: the verification token and its date.  rtoken, rexp: the   *)
(* reset token and its date.                                               *)
Account == [ pw : Password, verified : BOOLEAN, vtoken : Nat, vexp : Nat,
             failed : Nat, locked : Nat, rtoken : Nat, rexp : Nat ]

SessionRow == [ user : UserName, from : Address, exp : Nat, revoked : BOOLEAN ]

ASSUME AccountsAreLegal ==
  \A table \in Accounts :
    /\ table \in [UserName -> Account \cup {NoRow}]
    /\ \A u \in UserName : table[u] # NoRow =>
         table[u].verified /\ table[u].failed = 0 /\ table[u].locked = 0
           /\ table[u].vtoken = 0 /\ table[u].rtoken = 0
ASSUME NoRowIsNothing  == NoRow \notin Account \cup SessionRow
ASSUME NullIsNothing   == Null \notin UserName
ASSUME AuthTopicsOwned == Assigned \in [Topic -> Worker]
ASSUME LivesArePositive ==
  {TokenLife, LockLife, RefreshLife, MaxFailed} \subseteq Nat \ {0}
ASSUME AuthBounds == {MaxNow, MaxRequests, MaxCrashes, MaxRejections} \subseteq Nat

VARIABLES
  users,      \* users[u]: the account row, or NoRow
  sessions,   \* sessions[s]: the session row, or NoRow
  revoked,    \* the column revoked_tokens.token
  mails,      \* mails sent
  issued,     \* uuids handed out as tokens so far
  now,        \* the clock
  pc, msg, mem, reply,   \* as in OrderService
  again, received, crashes, rejections,
  spent,      \* reset tokens a password was changed with (history)
  wrong,      \* wrong[u]: wrong passwords answered since the last right one
              \* or the last lock (history)
  grants      \* grants[s]: access tokens given out by refreshing s (history)

tables == <<users, sessions, revoked, mails, issued>>
history == <<spent, wrong, grants>>
delivery == <<again, received, crashes, rejections>>
authVars == <<users, sessions, revoked, mails, issued, now, pc, msg, mem, reply,
              again, received, crashes, rejections, spent, wrong, grants>>

-----------------------------------------------------------------------------
(* Requests.  A client knows the tokens it was mailed, the used and the    *)
(* expired ones included, and the refresh tokens of its logins.            *)

Mail == [ kind : {"verify", "reset"}, to : UserName, token : Nat ]

Mailed(kind) == { m.token : m \in {n \in mails : n.kind = kind} }

Opened == { s \in SessionId : sessions[s] # NoRow }

Request ==
  [ topic : {"register"}, user : UserName, pw : Password ]
  \cup [ topic : {"verify"}, token : Nat ]
  \cup [ topic : {"login"}, user : UserName, pw : Password, from : Address ]
  \cup [ topic : {"refresh"}, session : SessionId, access : {"valid", "expired"} ]
  \cup [ topic : {"logout"}, session : SessionId, from : Address ]
  \cup [ topic : {"forgot"}, user : UserName ]
  \cup [ topic : {"reset"}, token : Nat, pw : Password ]

Sendable ==
  [ topic : {"register"}, user : UserName, pw : Password ]
  \cup [ topic : {"verify"}, token : Mailed("verify") ]
  \cup [ topic : {"login"}, user : UserName, pw : Password, from : Address ]
  \cup [ topic : {"refresh"}, session : Opened, access : {"valid", "expired"} ]
  \cup [ topic : {"logout"}, session : Opened, from : Address ]
  \cup [ topic : {"forgot"}, user : UserName ]
  \cup [ topic : {"reset"}, token : Mailed("reset"), pw : Password ]

(* user, row: the account as it was read.  token, date: a uuid and a date  *)
(* computed before the save.                                               *)
Locals == [ user : UserName \cup {Null}, row : Account \cup {NoRow},
            token : Nat, date : Nat ]

Nothing == [ user |-> Null, row |-> NoRow, token |-> 0, date |-> 0 ]

AuthInit ==
  /\ users \in Accounts
  /\ sessions = [s \in SessionId |-> NoRow]
  /\ revoked = {} /\ mails = {} /\ issued = 0 /\ now = 1
  /\ pc = [w \in Worker |-> "idle"]
  /\ msg = [w \in Worker |-> Null]
  /\ mem = [w \in Worker |-> Nothing]
  /\ reply = [w \in Worker |-> Null]
  /\ again = {}
  /\ received = 0 /\ crashes = 0 /\ rejections = 0
  /\ spent = {}
  /\ wrong = [u \in UserName |-> 0]
  /\ grants = [s \in SessionId |-> 0]

-----------------------------------------------------------------------------
(* Steps every handler is made of.                                         *)

Step(w, where) ==
  /\ pc' = [pc EXCEPT ![w] = where]
  /\ UNCHANGED <<msg, reply, delivery, now>>

End(w, answer) ==
  /\ pc' = [pc EXCEPT ![w] = "done"]
  /\ reply' = [reply EXCEPT ![w] = answer]
  /\ UNCHANGED <<msg, delivery, now>>

Begins(w, topic) == pc[w] = "received" /\ msg[w].topic = topic

(* await userRepository.findOne(...): the handler goes on with the row.    *)
Holding(w, u, token, date) ==
  mem' = [mem EXCEPT ![w] = [user |-> u, row |-> users[u], token |-> token, date |-> date]]

(* await userRepository.save(user): every column of the object.            *)
SaveAccount(w, row) == users' = [users EXCEPT ![mem[w].user] = row]

(* findOne({ where: { <field>: token } }).                                 *)
Holders(field, token) == { u \in UserName : users[u] # NoRow /\ users[u][field] = token }

(* Uuids do not run out, SessionId does.                                   *)
SessionsLeft == Cardinality(SessionId \ Opened) > MaxCrashes - crashes

Begin(w, m) ==
  /\ pc[w] = "idle" /\ Assigned[m.topic] = w
  /\ pc' = [pc EXCEPT ![w] = "received"]
  /\ msg' = [msg EXCEPT ![w] = m]
  /\ UNCHANGED <<tables, history, mem, reply, crashes, rejections, now>>

NewRequest(w) ==
  /\ received < MaxRequests
  /\ \E m \in Sendable :
       /\ \A n \in again : n.topic # m.topic
       /\ m.topic = "login" => SessionsLeft
       /\ Begin(w, m)
  /\ received' = received + 1
  /\ UNCHANGED again

Redeliver(w) ==
  /\ \E m \in again : Begin(w, m) /\ again' = again \ {m}
  /\ UNCHANGED received

Deliver(w) == NewRequest(w) \/ Redeliver(w)

CommitOffset(w) ==
  /\ pc[w] = "done"
  /\ pc' = [pc EXCEPT ![w] = "idle"]
  /\ msg' = [msg EXCEPT ![w] = Null]
  /\ mem' = [mem EXCEPT ![w] = Nothing]
  /\ reply' = [reply EXCEPT ![w] = Null]
  /\ UNCHANGED <<tables, history, delivery, now>>

-----------------------------------------------------------------------------
(* auth.register.  An account that was never verified may be registered    *)
(* again once its token has expired.                                       *)

TokenPending(u) == users[u].vexp >= now

(* Mutant: whether the account was verified is forgotten.                  *)
RenewableIfExpired(u) == ~TokenPending(u)

Renewable(u) == ~users[u].verified /\ ~TokenPending(u)

RegisterRefused(w) ==
  /\ Begins(w, "register")
  /\ LET u == msg[w].user
     IN  /\ users[u] # NoRow /\ ~Renewable(u)
         /\ End(w, IF users[u].verified THEN "error" ELSE "pending")
  /\ UNCHANGED <<tables, history, mem>>

(* The date is computed here, the token after the bcrypt hash; the hash    *)
(* reads no table.                                                         *)
RegisterFind(w) ==
  /\ Begins(w, "register")
  /\ LET u == msg[w].user
     IN  /\ users[u] # NoRow => Renewable(u)
         /\ Holding(w, u, issued + 1, now + TokenLife)
  /\ issued' = issued + 1
  /\ Step(w, "saveRegistered")
  /\ UNCHANGED <<users, sessions, revoked, mails, history>>

(* Mutant: the column failedLoginAttempts without its default.             *)
RegisteredWithoutDefault(w) ==
  [ pw |-> msg[w].pw, verified |-> FALSE, vtoken |-> mem[w].token, vexp |-> mem[w].date,
    failed |-> Null, locked |-> 0, rtoken |-> 0, rexp |-> 0 ]

(* create(...) of a new account, or Object.assign to the one that was read.*)
Registered(w) ==
  LET row == IF mem[w].row = NoRow
             THEN [ pw |-> msg[w].pw, verified |-> FALSE, vtoken |-> 0, vexp |-> 0,
                    failed |-> 0, locked |-> 0, rtoken |-> 0, rexp |-> 0 ]
             ELSE mem[w].row
  IN  [row EXCEPT !.pw = msg[w].pw, !.vtoken = mem[w].token, !.vexp = mem[w].date]

RegisterSave(w) ==
  /\ pc[w] = "saveRegistered"
  /\ SaveAccount(w, Registered(w))
  /\ Step(w, "mailVerification")
  /\ UNCHANGED <<sessions, revoked, mails, issued, history, mem>>

(* await emailOtpService.sendVerificationEmail / sendPasswordResetEmail    *)
SendMail(w, kind) ==
  /\ mails' = mails \cup {[kind |-> kind, to |-> mem[w].user, token |-> mem[w].token]}
  /\ End(w, "ok")
  /\ UNCHANGED <<users, sessions, revoked, issued, history, mem>>

RegisterMail(w) == pc[w] = "mailVerification" /\ SendMail(w, "verify")

-----------------------------------------------------------------------------
(* auth.verifyEmail                                                        *)

VerifyRefused(w) ==
  /\ Begins(w, "verify")
  /\ \A u \in Holders("vtoken", msg[w].token) : users[u].vexp < now
  /\ End(w, "error")
  /\ UNCHANGED <<tables, history, mem>>

VerifyFind(w) ==
  /\ Begins(w, "verify")
  /\ \E u \in Holders("vtoken", msg[w].token) :
       /\ users[u].vexp >= now
       /\ Holding(w, u, 0, 0)
  /\ Step(w, "saveVerified")
  /\ UNCHANGED <<tables, history>>

VerifySave(w) ==
  /\ pc[w] = "saveVerified"
  /\ SaveAccount(w, [mem[w].row EXCEPT !.verified = TRUE, !.vtoken = 0, !.vexp = 0])
  /\ End(w, "ok")
  /\ UNCHANGED <<sessions, revoked, mails, issued, history, mem>>

-----------------------------------------------------------------------------
(* auth.login                                                              *)

Locked(u) == users[u].locked > now

Usable(u) == users[u] # NoRow /\ users[u].verified /\ ~Locked(u)

LoginRefused(w) ==
  /\ Begins(w, "login")
  /\ ~Usable(msg[w].user)
  /\ End(w, "error")
  /\ UNCHANGED <<tables, history, mem>>

LoginFind(w) ==
  /\ Begins(w, "login")
  /\ Usable(msg[w].user)
  /\ Holding(w, msg[w].user, 0, 0)
  /\ Step(w, "compare")
  /\ UNCHANGED <<tables, history>>

(* Mutant: the failure is counted by a query of its own, and the object    *)
(* that is saved later does not know it.                                   *)
LoginCompareCounts(w) ==
  /\ pc[w] = "compare"
  /\ IF msg[w].pw # mem[w].row.pw
     THEN /\ mem' = [mem EXCEPT ![w].date = now + LockLife]
          /\ users' = [users EXCEPT ![mem[w].user].failed = @ + 1]
          /\ Step(w, "saveFailure")
     ELSE /\ mem' = [mem EXCEPT ![w].date = now + RefreshLife]
          /\ Step(w, IF mem[w].row.failed > 0 THEN "saveCleared" ELSE "saveSession")
          /\ UNCHANGED users
  /\ UNCHANGED <<sessions, revoked, mails, issued, history>>

(* await bcrypt.compare(password, user.password), with the row as read.    *)
(* The date is that of a lock, or that of the tokens of a new session.     *)
LoginCompare(w) ==
  /\ pc[w] = "compare"
  /\ IF msg[w].pw # mem[w].row.pw
     THEN /\ mem' = [mem EXCEPT ![w].date = now + LockLife]
          /\ Step(w, "saveFailure")
     ELSE /\ mem' = [mem EXCEPT ![w].date = now + RefreshLife]
          /\ Step(w, IF mem[w].row.failed > 0 THEN "saveCleared" ELSE "saveSession")
  /\ UNCHANGED <<tables, history>>

(* Mutant: one failure too many.                                           *)
LocksLate(row) == row.failed + 1 > MaxFailed

LocksNow(row) == row.failed + 1 >= MaxFailed

(* One more failure, or a lock and the count back at 0.                    *)
Failed(w) ==
  LET row == mem[w].row
  IN  IF LocksNow(row) THEN [row EXCEPT !.failed = 0, !.locked = mem[w].date]
                       ELSE [row EXCEPT !.failed = @ + 1]

LoginSaveFailure(w) ==
  /\ pc[w] = "saveFailure"
  /\ SaveAccount(w, Failed(w))
  /\ wrong' = [wrong EXCEPT ![mem[w].user] = IF LocksNow(mem[w].row) THEN 0 ELSE @ + 1]
  /\ End(w, "error")
  /\ UNCHANGED <<sessions, revoked, mails, issued, spent, grants, mem>>

LoginSaveCleared(w) ==
  /\ pc[w] = "saveCleared"
  /\ SaveAccount(w, [mem[w].row EXCEPT !.failed = 0, !.locked = 0])
  /\ wrong' = [wrong EXCEPT ![mem[w].user] = 0]
  /\ mem' = [mem EXCEPT ![w].date = now + RefreshLife]
  /\ Step(w, "saveSession")
  /\ UNCHANGED <<sessions, revoked, mails, issued, spent, grants>>

LoginSaveSession(w) ==
  /\ pc[w] = "saveSession"
  /\ \E s \in SessionId :
       /\ sessions[s] = NoRow
       /\ sessions' = [sessions EXCEPT ![s] =
            [user |-> mem[w].user, from |-> msg[w].from, exp |-> mem[w].date,
             revoked |-> FALSE]]
  /\ End(w, "ok")
  /\ UNCHANGED <<users, revoked, mails, issued, history, mem>>

-----------------------------------------------------------------------------
(* auth.refresh-token                                                      *)

(* What a client sends and what logout stores of a refresh token.          *)
Raw(s)    == <<"token", s>>
Bcrypt(s) == <<"bcrypt", s>>

(* jwt.verify of the refresh token of session s.                           *)
Verifies(s) == sessions[s].exp > now

RefreshStillValid(w) ==
  /\ Begins(w, "refresh")
  /\ msg[w].access = "valid"
  /\ End(w, "ok")
  /\ UNCHANGED <<tables, history, mem>>

(* await revokedTokenRepository.findOne(...), then jwt.verify.             *)
RefreshCheck(w) ==
  /\ Begins(w, "refresh")
  /\ msg[w].access = "expired"
  /\ IF Raw(msg[w].session) \in revoked \/ ~Verifies(msg[w].session)
     THEN End(w, "error")
     ELSE Step(w, "findSession")
  /\ UNCHANGED <<tables, history, mem>>

(* Mutant: findOne({ where: { sessionId } }), revoked or not.              *)
RefreshGrantAny(w) ==
  /\ pc[w] = "findSession"
  /\ grants' = [grants EXCEPT ![msg[w].session] = @ + 1]
  /\ End(w, "ok")
  /\ UNCHANGED <<tables, spent, wrong, mem>>

(* findOne({ where: { sessionId, isRevoked: false } })                     *)
RefreshGrant(w) ==
  /\ pc[w] = "findSession"
  /\ ~sessions[msg[w].session].revoked
  /\ grants' = [grants EXCEPT ![msg[w].session] = @ + 1]
  /\ End(w, "ok")
  /\ UNCHANGED <<tables, spent, wrong, mem>>

RefreshRefused(w) ==
  /\ pc[w] = "findSession"
  /\ sessions[msg[w].session].revoked
  /\ End(w, "error")
  /\ UNCHANGED <<tables, history, mem>>

-----------------------------------------------------------------------------
(* auth.logout                                                             *)

LogoutCheck(w) ==
  /\ Begins(w, "logout")
  /\ LET s == msg[w].session
     IN  IF Verifies(s) /\ sessions[s].from = msg[w].from
         THEN Step(w, "saveClosed")
         ELSE End(w, "error")
  /\ UNCHANGED <<tables, history, mem>>

(* session.isRevoked = true; nothing else of a session ever changes.       *)
LogoutSaveSession(w) ==
  /\ pc[w] = "saveClosed"
  /\ sessions' = [sessions EXCEPT ![msg[w].session].revoked = TRUE]
  /\ Step(w, "saveRevoked")
  /\ UNCHANGED <<users, revoked, mails, issued, history, mem>>

LogoutSaveRevoked(w) ==
  /\ pc[w] = "saveRevoked"
  /\ revoked' = revoked \cup {Bcrypt(msg[w].session)}
  /\ End(w, "ok")
  /\ UNCHANGED <<users, sessions, mails, issued, history, mem>>

-----------------------------------------------------------------------------
(* auth.forgot-password and auth.resetPassword                             *)

ResetPending(u) == users[u].rtoken # 0 /\ users[u].rexp > now

(* Mutant: nothing is answered while a reset is pending.                   *)
ForgotRefusedSilent(w) ==
  /\ Begins(w, "forgot")
  /\ ~Usable(msg[w].user)
  /\ End(w, "error")
  /\ UNCHANGED <<tables, history, mem>>

ForgotRefused(w) ==
  /\ Begins(w, "forgot")
  /\ IF Usable(msg[w].user)
     THEN ResetPending(msg[w].user) /\ End(w, "pending")
     ELSE End(w, "error")
  /\ UNCHANGED <<tables, history, mem>>

ForgotFind(w) ==
  /\ Begins(w, "forgot")
  /\ Usable(msg[w].user) /\ ~ResetPending(msg[w].user)
  /\ Holding(w, msg[w].user, issued + 1, now + TokenLife)
  /\ issued' = issued + 1
  /\ Step(w, "saveForgotten")
  /\ UNCHANGED <<users, sessions, revoked, mails, history>>

ForgotSave(w) ==
  /\ pc[w] = "saveForgotten"
  /\ SaveAccount(w, [mem[w].row EXCEPT !.rtoken = mem[w].token, !.rexp = mem[w].date])
  /\ Step(w, "mailReset")
  /\ UNCHANGED <<sessions, revoked, mails, issued, history, mem>>

ForgotMail(w) == pc[w] = "mailReset" /\ SendMail(w, "reset")

ResetRefused(w) ==
  /\ Begins(w, "reset")
  /\ \A u \in Holders("rtoken", msg[w].token) : users[u].rexp < now
  /\ End(w, "error")
  /\ UNCHANGED <<tables, history, mem>>

ResetFind(w) ==
  /\ Begins(w, "reset")
  /\ \E u \in Holders("rtoken", msg[w].token) :
       /\ users[u].rexp >= now
       /\ Holding(w, u, 0, 0)
  /\ Step(w, "saveReset")
  /\ UNCHANGED <<tables, history>>

(* Mutant: the token stays in the row.                                     *)
AfterResetKeepsToken(w) == [mem[w].row EXCEPT !.pw = msg[w].pw]

(* user.password, the token and its date; failures and the lock stay.      *)
AfterReset(w) == [mem[w].row EXCEPT !.pw = msg[w].pw, !.rtoken = 0, !.rexp = 0]

ResetSave(w) ==
  /\ pc[w] = "saveReset"
  /\ SaveAccount(w, AfterReset(w))
  /\ spent' = spent \cup {msg[w].token}
  /\ End(w, "ok")
  /\ UNCHANGED <<sessions, revoked, mails, issued, wrong, grants, mem>>

-----------------------------------------------------------------------------
(* Time and faults.                                                        *)

Tick ==
  /\ now < MaxNow
  /\ now' = now + 1
  /\ UNCHANGED <<tables, history, pc, msg, mem, reply, delivery>>

(* The process dies before the offset is committed: the request is handled *)
(* again from the start, in its turn.                                      *)
CrashAuth(w) ==
  /\ pc[w] # "idle"
  /\ crashes < MaxCrashes
  /\ crashes' = crashes + 1
  /\ again' = again \cup {msg[w]}
  /\ pc' = [pc EXCEPT ![w] = "idle"]
  /\ msg' = [msg EXCEPT ![w] = Null]
  /\ mem' = [mem EXCEPT ![w] = Nothing]
  /\ reply' = [reply EXCEPT ![w] = Null]
  /\ UNCHANGED <<tables, history, received, rejections, now>>

(* The awaited call to the database, the mail server or, before the first  *)
(* read, Vault rejects: the handler throws and nothing is undone.          *)
CallRejects(w) ==
  /\ pc[w] \notin {"idle", "done", "compare"}
  /\ rejections < MaxRejections
  /\ rejections' = rejections + 1
  /\ pc' = [pc EXCEPT ![w] = "done"]
  /\ reply' = [reply EXCEPT ![w] = "error"]
  /\ UNCHANGED <<tables, history, msg, mem, again, received, crashes, now>>

-----------------------------------------------------------------------------
RegisterStep(w) ==
  RegisterRefused(w) \/ RegisterFind(w) \/ RegisterSave(w) \/ RegisterMail(w)
VerifyStep(w) == VerifyRefused(w) \/ VerifyFind(w) \/ VerifySave(w)
LoginStep(w) ==
  \/ LoginRefused(w) \/ LoginFind(w) \/ LoginCompare(w)
  \/ LoginSaveFailure(w) \/ LoginSaveCleared(w) \/ LoginSaveSession(w)
RefreshStep(w) ==
  RefreshStillValid(w) \/ RefreshCheck(w) \/ RefreshGrant(w) \/ RefreshRefused(w)
LogoutStep(w) == LogoutCheck(w) \/ LogoutSaveSession(w) \/ LogoutSaveRevoked(w)
ForgotStep(w) == ForgotRefused(w) \/ ForgotFind(w) \/ ForgotSave(w) \/ ForgotMail(w)
ResetStep(w) == ResetRefused(w) \/ ResetFind(w) \/ ResetSave(w)

AuthStep(w) ==
  \/ RegisterStep(w) \/ VerifyStep(w) \/ LoginStep(w) \/ RefreshStep(w)
  \/ LogoutStep(w) \/ ForgotStep(w) \/ ResetStep(w) \/ CommitOffset(w)

AuthNext ==
  \/ \E w \in Worker : Deliver(w) \/ AuthStep(w) \/ CrashAuth(w) \/ CallRejects(w)
  \/ Tick

AuthSpec == AuthInit /\ [][AuthNext]_authVars

(* A running handler goes on: the database and the mail server answer or   *)
(* reject, and a crashed worker is restarted and is sent the uncommitted   *)
(* requests again.  Neither clients nor the clock need to do anything.     *)
FairAuthSpec ==
  AuthSpec /\ \A w \in Worker : WF_authVars(AuthStep(w)) /\ WF_authVars(Redeliver(w))

-----------------------------------------------------------------------------
(* Properties.                                                             *)

AwaitsIn(topic) ==
  CASE topic = "register" -> {"saveRegistered", "mailVerification"}
    [] topic = "verify"   -> {"saveVerified"}
    [] topic = "login"    -> {"compare", "saveFailure", "saveCleared", "saveSession"}
    [] topic = "refresh"  -> {"findSession"}
    [] topic = "logout"   -> {"saveClosed", "saveRevoked"}
    [] topic = "forgot"   -> {"saveForgotten", "mailReset"}
    [] topic = "reset"    -> {"saveReset"}

(* Every variable has its type, and a worker is only ever at an await of   *)
(* the handler of the request it holds.                                    *)
AuthTypeOK ==
  /\ users \in [UserName -> Account \cup {NoRow}]
  /\ sessions \in [SessionId -> SessionRow \cup {NoRow}]
  /\ revoked \subseteq { Bcrypt(s) : s \in SessionId }
  /\ mails \subseteq Mail
  /\ issued \in Nat /\ now \in Nat
  /\ mem \in [Worker -> Locals]
  /\ reply \in [Worker -> {"ok", "error", "pending", Null}]
  /\ again \subseteq Request
  /\ received \in Nat /\ crashes \in Nat /\ rejections \in Nat
  /\ spent \subseteq Nat
  /\ wrong \in [UserName -> Nat]
  /\ grants \in [SessionId -> Nat]
  /\ \A w \in Worker :
       IF pc[w] = "idle" THEN msg[w] = Null
       ELSE /\ msg[w] \in Request
            /\ pc[w] \in {"received", "done"} \cup AwaitsIn(msg[w].topic)

(* Between the read of an account and the save of it nobody else writes    *)
(* it: true of one worker, and the reason why the properties below are.    *)
AccountsFresh ==
  \A w \in Worker :
    pc[w] \in {"saveRegistered", "saveVerified", "compare", "saveFailure", "saveCleared",
               "saveForgotten", "saveReset"} =>
      users[mem[w].user] = mem[w].row

(* Nobody is told more than MaxFailed - 1 times that the password is wrong *)
(* without a right one or a lock in between, whatever other requests for   *)
(* the account, crashes and expired locks come between the attempts.       *)
LockoutHolds == \A u \in UserName : wrong[u] < MaxFailed

(* A reset token that has changed a password never changes one again, not  *)
(* even when the request is delivered twice.                               *)
ResetTokenWorksOnce ==
  [][\A w \in Worker :
       pc[w] = "saveReset" /\ pc'[w] = "done" /\ reply'[w] = "ok"
         => msg[w].token \notin spent]_authVars

(* A verified account stays verified, whatever handler had read it before, *)
(* and its password changes only with a reset token mailed to its owner.   *)
VerifiedAccountsKeep ==
  [][\A u \in UserName :
       users[u] # NoRow /\ users[u].verified =>
         /\ users'[u] # NoRow /\ users'[u].verified
         /\ users'[u].pw # users[u].pw =>
              \E t \in spent' \ spent : [kind |-> "reset", to |-> u, token |-> t] \in mails
     ]_authVars

(* Sessions open once, and give out access tokens only until the logout.   *)
Sessions == INSTANCE SessionLifecycle WITH
  Session <- SessionId,
  granted <- grants,
  state   <- [s \in SessionId |-> IF sessions[s] = NoRow THEN "none"
                                  ELSE IF sessions[s].revoked THEN "closed" ELSE "open"]

ImplementsSessions == Sessions!SessionSpec

(* Who is told that a mail is on its way ("Vui lòng kiểm tra email của     *)
(* bạn", "Please check your email") was sent one with the token that       *)
(* blocks the request.                                                     *)
PendingMailWasSent ==
  \A w \in Worker :
    pc[w] = "done" /\ reply[w] = "pending" =>
      LET u == msg[w].user
      IN  IF msg[w].topic = "register"
          THEN [kind |-> "verify", to |-> u, token |-> users[u].vtoken] \in mails
          ELSE [kind |-> "reset", to |-> u, token |-> users[u].rtoken] \in mails

(* Every request that was delivered is answered and committed in the end,  *)
(* the ones whose worker died included.                                    *)
Backlog == again # {} \/ \E w \in Worker : pc[w] # "idle"

EveryAuthRequestAnswered == Backlog ~> ~Backlog

=============================================================================
