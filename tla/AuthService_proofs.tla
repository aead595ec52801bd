-------------------------- MODULE AuthService_proofs --------------------------
(***************************************************************************)
(* What auth-service guarantees with any number of accounts, sessions,     *)
(* requests, crashes and rejected calls.                                   *)
(*                                                                         *)
(* With any number of workers: its types, and that a session gives out     *)
(* access tokens from its login to its logout and never after.  The types  *)
(* are not inductive: a save writes what a handler has held over an await. *)
(* HandlerOK says that a handler which stands at a save holds an account,  *)
(* and that a refresh or a logout under way names a session that exists;   *)
(* AgainOK says the latter of the requests that wait to be delivered again.*)
(*                                                                         *)
(* With one worker, as deployed: no handler writes back a row that somebody*)
(* else has changed, the lockout counts every wrong password, a reset      *)
(* token works once and for its owner only, and a verified account is      *)
(* never taken over.  The invariant, SerialInv, relates the history of     *)
(* wrong passwords to the counter in the row (Counted), and says of the    *)
(* reset tokens in rows, mails, locals and requests that no two accounts   *)
(* have one in common and that none in a row was used (TokensOK, Knows;    *)
(* AgainMailed for the resets that wait to be delivered again).            *)
(***************************************************************************)
EXTENDS AuthService, TLAPS

\* Awaits at which a handler holds the name of an account, and its row.
AwaitsUser == {"saveRegistered", "mailVerification"}
AwaitsAccount == {"saveVerified", "compare", "saveFailure", "saveCleared", "saveSession",
                  "saveForgotten", "mailReset", "saveReset"}

Places == {"idle", "received", "done", "findSession", "saveClosed", "saveRevoked"}
            \cup AwaitsUser \cup AwaitsAccount

ControlOK ==
  /\ pc \in [Worker -> Places]
  /\ msg \in [Worker -> Request \cup {Null}]
  /\ \A w \in Worker :
       IF pc[w] = "idle" THEN msg[w] = Null
       ELSE /\ msg[w] \in Request
            /\ pc[w] \in {"received", "done"} \cup AwaitsIn(msg[w].topic)

TablesOK ==
  /\ users \in [UserName -> Account \cup {NoRow}]
  /\ sessions \in [SessionId -> SessionRow \cup {NoRow}]
  /\ revoked \subseteq { Bcrypt(s) : s \in SessionId }
  /\ mails \subseteq Mail
  /\ issued \in Nat

HistoryOK ==
  /\ spent \subseteq Nat
  /\ wrong \in [UserName -> Nat]
  /\ grants \in [SessionId -> Nat]

ClockOK == now \in Nat /\ received \in Nat /\ crashes \in Nat /\ rejections \in Nat

Answer == {"ok", "error", "pending", Null}

LocalsOK == mem \in [Worker -> Locals] /\ reply \in [Worker -> Answer]

HandlerOK(w) ==
  /\ pc[w] \in AwaitsUser \cup AwaitsAccount => mem[w].user \in UserName
  /\ pc[w] \in AwaitsAccount => mem[w].row \in Account
  /\ pc[w] # "idle" /\ msg[w].topic \in {"refresh", "logout"} =>
       sessions[msg[w].session] # NoRow

\* What is to be delivered again was sent: its session exists.
AgainOK ==
  /\ again \subseteq Request
  /\ \A m \in again : m.topic \in {"refresh", "logout"} => sessions[m.session] # NoRow

AuthInv ==
  /\ ControlOK /\ TablesOK /\ HistoryOK /\ ClockOK /\ LocalsOK /\ AgainOK
  /\ \A w \in Worker : HandlerOK(w)

SessionsKept == \A s \in SessionId : sessions[s] # NoRow => sessions'[s] # NoRow

(* The invariant implies the types. *)
LEMMA InvTypes == AuthInv => AuthTypeOK
  BY DEF AuthInv, ControlOK, TablesOK, HistoryOK, ClockOK, LocalsOK, AgainOK, Answer, AuthTypeOK

-----------------------------------------------------------------------------
(* Requests.                                                               *)

(* What a request of each topic carries. *)
LEMMA RequestFields ==
  ASSUME NEW m \in Request
  PROVE  /\ m.topic \in Topic
         /\ m.topic \in {"register", "login", "forgot"} => m.user \in UserName
         /\ m.topic \in {"register", "login", "reset"} => m.pw \in Password
         /\ m.topic = "login" => m.from \in Address
         /\ m.topic \in {"refresh", "logout"} => m.session \in SessionId
         /\ m.topic \in {"verify", "reset"} => m.token \in Nat
  BY DEF Request, Topic

(* The handler of a topic stands at its own awaits only. *)
LEMMA AwaitTopics ==
  ASSUME NEW t \in Topic, NEW p \in AwaitsIn(t)
  PROVE  /\ p \in Places \ {"idle", "received", "done"}
         /\ p \in {"saveRegistered", "mailVerification"} => t = "register"
         /\ p = "saveVerified" => t = "verify"
         /\ p \in {"compare", "saveFailure", "saveCleared", "saveSession"} => t = "login"
         /\ p = "findSession" => t = "refresh"
         /\ p \in {"saveClosed", "saveRevoked"} => t = "logout"
         /\ p \in {"saveForgotten", "mailReset"} => t = "forgot"
         /\ p = "saveReset" => t = "reset"
  BY DEF Topic, AwaitsIn, Places, AwaitsUser, AwaitsAccount

(* Which request a worker handles when it stands at an await. *)
LEMMA Handling ==
  ASSUME ControlOK, NEW w \in Worker, pc[w] # "idle"
  PROVE  /\ msg[w] \in Request /\ msg[w].topic \in Topic
         /\ pc[w] \in {"saveRegistered", "mailVerification"} => msg[w].topic = "register"
         /\ pc[w] = "saveVerified" => msg[w].topic = "verify"
         /\ pc[w] \in {"compare", "saveFailure", "saveCleared", "saveSession"} =>
              msg[w].topic = "login"
         /\ pc[w] = "findSession" => msg[w].topic = "refresh"
         /\ pc[w] \in {"saveClosed", "saveRevoked"} => msg[w].topic = "logout"
         /\ pc[w] \in {"saveForgotten", "mailReset"} => msg[w].topic = "forgot"
         /\ pc[w] = "saveReset" => msg[w].topic = "reset"
<1>1. msg[w] \in Request /\ pc[w] \in {"received", "done"} \cup AwaitsIn(msg[w].topic)
  BY DEF ControlOK
<1>2. msg[w].topic \in Topic
  BY <1>1, RequestFields
<1>3. CASE pc[w] \in {"received", "done"}
  BY <1>1, <1>2, <1>3
<1>4. CASE pc[w] \in AwaitsIn(msg[w].topic)
  BY <1>1, <1>2, <1>4, AwaitTopics
<1> QED BY <1>1, <1>3, <1>4

(* What clients send is a request, and names a session that was opened. *)
LEMMA SendableTyped ==
  ASSUME TablesOK, NEW m \in Sendable
  PROVE  m \in Request /\ (m.topic \in {"refresh", "logout"} => sessions[m.session] # NoRow)
<1>1. Opened \subseteq SessionId /\ \A s \in Opened : sessions[s] # NoRow
  BY DEF Opened
<1>2. \A kind : Mailed(kind) \subseteq Nat
  BY DEF Mailed, Mail, TablesOK
<1> QED BY <1>1, <1>2 DEF Sendable, Request

(* A session stays, so what waits to be delivered again stays a request    *)
(* for one that exists.                                                    *)
LEMMA AgainStays ==
  ASSUME AuthInv, SessionsKept, again' \subseteq again
  PROVE  AgainOK'
<1>1. \A m \in again : m.topic \in {"refresh", "logout"} => m.session \in SessionId
  BY RequestFields DEF AuthInv, AgainOK
<1> QED BY <1>1 DEF AuthInv, AgainOK, SessionsKept

-----------------------------------------------------------------------------
(* How a step of a handler is put together.                                *)

(* A handler that goes on to another await of its topic, or ends. *)
LEMMA MoveKeeps ==
  ASSUME AuthInv, NEW w \in Worker, pc[w] # "idle",
         NEW where \in {"received", "done"} \cup AwaitsIn(msg[w].topic),
         pc' = [pc EXCEPT ![w] = where], UNCHANGED <<msg, again>>,
         TablesOK', HistoryOK', ClockOK', LocalsOK', SessionsKept,
         \A v \in Worker \ {w} : mem'[v] = mem[v],
         where \in AwaitsUser \cup AwaitsAccount => mem'[w].user \in UserName,
         where \in AwaitsAccount => mem'[w].row \in Account
  PROVE  AuthInv'
<1>1. msg[w] \in Request /\ msg[w].topic \in Topic
  BY Handling DEF AuthInv
<1>2. where \in Places /\ where # "idle"
  BY <1>1, AwaitTopics DEF Places
<1>3. pc'[w] = where /\ \A v \in Worker \ {w} : pc'[v] = pc[v]
  BY DEF AuthInv, ControlOK
<1>4. ControlOK'
  <2>1. pc' \in [Worker -> Places]
    BY <1>2 DEF AuthInv, ControlOK
  <2> QED BY <1>1, <1>2, <1>3, <2>1 DEF AuthInv, ControlOK
<1>5. ASSUME NEW v \in Worker PROVE HandlerOK(v)'
  <2>0. msg'[v] = msg[v]
    OBVIOUS
  <2>1. pc'[v] # "idle" /\ msg'[v].topic \in {"refresh", "logout"} =>
          sessions'[msg'[v].session] # NoRow
    <3>1. ASSUME pc'[v] # "idle", msg[v].topic \in {"refresh", "logout"}
          PROVE  sessions'[msg[v].session] # NoRow
      <4>1. pc[v] # "idle"
        BY <1>3, <3>1
      <4>2. msg[v].session \in SessionId
        BY <3>1, <4>1, Handling, RequestFields DEF AuthInv
      <4> QED BY <3>1, <4>1, <4>2 DEF AuthInv, HandlerOK, SessionsKept
    <3> QED BY <2>0, <3>1
  <2>2. CASE v = w
    BY <1>3, <2>1, <2>2 DEF HandlerOK
  <2>3. CASE v # w
    BY <1>3, <2>1, <2>3 DEF AuthInv, HandlerOK
  <2> QED BY <2>2, <2>3
<1> QED BY <1>4, <1>5, AgainStays DEF AuthInv

(* A handler that ends. *)
LEMMA EndKeeps ==
  ASSUME AuthInv, NEW w \in Worker, pc[w] # "idle",
         NEW a \in {"ok", "error", "pending"}, End(w, a),
         TablesOK', HistoryOK', SessionsKept, UNCHANGED mem
  PROVE  AuthInv'
<1>1. pc' = [pc EXCEPT ![w] = "done"] /\ UNCHANGED <<msg, again>>
  BY DEF End, delivery
<1>2. ClockOK'
  BY DEF End, delivery, AuthInv, ClockOK
<1>3. LocalsOK'
  BY DEF End, AuthInv, LocalsOK, Answer
<1>4. "done" \notin AwaitsUser \cup AwaitsAccount
  BY DEF AwaitsUser, AwaitsAccount
<1> QED BY <1>1, <1>2, <1>3, <1>4, MoveKeeps

(* A handler that goes on, with what it has just read or computed. *)
LEMMA StepKeeps ==
  ASSUME AuthInv, NEW w \in Worker, pc[w] # "idle",
         NEW where \in AwaitsIn(msg[w].topic), Step(w, where),
         TablesOK', HistoryOK', SessionsKept,
         NEW locals \in Locals, mem' = [mem EXCEPT ![w] = locals],
         where \in AwaitsUser \cup AwaitsAccount => locals.user \in UserName,
         where \in AwaitsAccount => locals.row \in Account
  PROVE  AuthInv'
<1>1. pc' = [pc EXCEPT ![w] = where] /\ UNCHANGED <<msg, again>>
  BY DEF Step, delivery
<1>2. ClockOK'
  BY DEF Step, delivery, AuthInv, ClockOK
<1>3. mem'[w] = locals /\ \A v \in Worker \ {w} : mem'[v] = mem[v]
  BY DEF AuthInv, LocalsOK
<1>4. LocalsOK'
  BY DEF Step, AuthInv, LocalsOK
<1> QED BY <1>1, <1>2, <1>3, <1>4, MoveKeeps

(* Tables and histories that nobody writes. *)
LEMMA TablesUntouched ==
  ASSUME AuthInv, UNCHANGED <<tables, history>>
  PROVE  TablesOK' /\ HistoryOK' /\ SessionsKept
  BY DEF AuthInv, TablesOK, HistoryOK, SessionsKept, tables, history

-----------------------------------------------------------------------------
(* The steps that only read.                                               *)

(* The refusals, and a refresh with an access token that is still valid. *)
LEMMA RefusalKeeps ==
  ASSUME AuthInv, NEW w \in Worker,
         \/ RegisterRefused(w) \/ VerifyRefused(w) \/ LoginRefused(w) \/ RefreshStillValid(w)
         \/ RefreshRefused(w) \/ ForgotRefused(w) \/ ResetRefused(w)
  PROVE  AuthInv'
<1>1. pc[w] # "idle" /\ UNCHANGED <<tables, history, mem>>
  BY DEF RegisterRefused, VerifyRefused, LoginRefused, RefreshStillValid, RefreshRefused,
         ForgotRefused, ResetRefused, Begins
<1>2. \E a \in {"ok", "error", "pending"} : End(w, a)
  BY DEF RegisterRefused, VerifyRefused, LoginRefused, RefreshStillValid, RefreshRefused,
         ForgotRefused, ResetRefused
<1> QED BY <1>1, <1>2, TablesUntouched, EndKeeps

(* The read of an account: the handler goes on with its row, a token and a *)
(* date.  Only a registration may have found none.                         *)
LEMMA ReadKeeps ==
  ASSUME AuthInv, NEW w \in Worker, pc[w] # "idle",
         NEW where \in AwaitsIn(msg[w].topic), Step(w, where),
         NEW u \in UserName, NEW token \in Nat, NEW date \in Nat, Holding(w, u, token, date),
         issued' \in Nat, UNCHANGED <<users, sessions, revoked, mails, history>>,
         where \in AwaitsAccount => users[u] # NoRow
  PROVE  AuthInv'
<1> DEFINE locals == [user |-> u, row |-> users[u], token |-> token, date |-> date]
<1>1. TablesOK' /\ HistoryOK' /\ SessionsKept
  BY DEF AuthInv, TablesOK, HistoryOK, SessionsKept, history
<1>2. users[u] \in Account \cup {NoRow}
  BY DEF AuthInv, TablesOK
<1>3. locals \in Locals
  BY <1>2 DEF Locals
<1>4. mem' = [mem EXCEPT ![w] = locals] /\ locals.user \in UserName
  BY DEF Holding
<1>5. where \in AwaitsAccount => locals.row \in Account
  BY <1>2
<1> HIDE DEF locals
<1> QED BY <1>1, <1>3, <1>4, <1>5, StepKeeps

(* The handlers that begin with an account. *)
LEMMA FindKeeps ==
  ASSUME AuthInv, NEW w \in Worker,
         RegisterFind(w) \/ VerifyFind(w) \/ LoginFind(w) \/ ForgotFind(w) \/ ResetFind(w)
  PROVE  AuthInv'
<1>1. pc[w] = "received"
  BY DEF RegisterFind, VerifyFind, LoginFind, ForgotFind, ResetFind, Begins
<1>2. msg[w] \in Request
  BY <1>1, Handling DEF AuthInv
<1>3. \A date : date \in {TokenLife} => now + date \in Nat
  BY LivesArePositive DEF AuthInv, ClockOK
<1>4. issued \in Nat /\ issued + 1 \in Nat /\ NoRow \notin Account
  BY NoRowIsNothing DEF AuthInv, TablesOK
<1>5. CASE RegisterFind(w)
  <2>1. msg[w].topic = "register" /\ msg[w].user \in UserName
    BY <1>2, <1>5, RequestFields DEF RegisterFind, Begins
  <2>2. "saveRegistered" \in AwaitsIn(msg[w].topic) /\ "saveRegistered" \notin AwaitsAccount
    BY <2>1 DEF AwaitsIn, AwaitsAccount
  <2>3. /\ Holding(w, msg[w].user, issued + 1, now + TokenLife)
        /\ issued' \in Nat /\ Step(w, "saveRegistered")
        /\ UNCHANGED <<users, sessions, revoked, mails, history>>
    BY <1>4, <1>5 DEF RegisterFind
  <2> QED BY <1>1, <1>3, <1>4, <2>1, <2>2, <2>3, ReadKeeps
<1>6. CASE VerifyFind(w)
  <2>1. PICK u \in UserName : users[u] # NoRow /\ Holding(w, u, 0, 0)
    BY <1>6 DEF VerifyFind, Holders
  <2>2. msg[w].topic = "verify"
    BY <1>6 DEF VerifyFind, Begins
  <2>3. "saveVerified" \in AwaitsIn(msg[w].topic)
    BY <2>2 DEF AwaitsIn
  <2>4. /\ issued' \in Nat /\ Step(w, "saveVerified")
        /\ UNCHANGED <<users, sessions, revoked, mails, history>>
    BY <1>4, <1>6 DEF VerifyFind, tables
  <2> QED BY <1>1, <2>1, <2>3, <2>4, ReadKeeps
<1>7. CASE LoginFind(w)
  <2>1. msg[w].topic = "login" /\ msg[w].user \in UserName /\ users[msg[w].user] # NoRow
    BY <1>2, <1>7, RequestFields DEF LoginFind, Begins, Usable
  <2>2. "compare" \in AwaitsIn(msg[w].topic)
    BY <2>1 DEF AwaitsIn
  <2>3. /\ Holding(w, msg[w].user, 0, 0)
        /\ issued' \in Nat /\ Step(w, "compare")
        /\ UNCHANGED <<users, sessions, revoked, mails, history>>
    BY <1>4, <1>7 DEF LoginFind, tables
  <2> QED BY <1>1, <2>1, <2>2, <2>3, ReadKeeps
<1>8. CASE ForgotFind(w)
  <2>1. msg[w].topic = "forgot" /\ msg[w].user \in UserName /\ users[msg[w].user] # NoRow
    BY <1>2, <1>8, RequestFields DEF ForgotFind, Begins, Usable
  <2>2. "saveForgotten" \in AwaitsIn(msg[w].topic)
    BY <2>1 DEF AwaitsIn
  <2>3. /\ Holding(w, msg[w].user, issued + 1, now + TokenLife)
        /\ issued' \in Nat /\ Step(w, "saveForgotten")
        /\ UNCHANGED <<users, sessions, revoked, mails, history>>
    BY <1>4, <1>8 DEF ForgotFind
  <2> QED BY <1>1, <1>3, <1>4, <2>1, <2>2, <2>3, ReadKeeps
<1>9. CASE ResetFind(w)
  <2>1. PICK u \in UserName : users[u] # NoRow /\ Holding(w, u, 0, 0)
    BY <1>9 DEF ResetFind, Holders
  <2>2. msg[w].topic = "reset"
    BY <1>9 DEF ResetFind, Begins
  <2>3. "saveReset" \in AwaitsIn(msg[w].topic)
    BY <2>2 DEF AwaitsIn
  <2>4. /\ issued' \in Nat /\ Step(w, "saveReset")
        /\ UNCHANGED <<users, sessions, revoked, mails, history>>
    BY <1>4, <1>9 DEF ResetFind, tables
  <2> QED BY <1>1, <2>1, <2>3, <2>4, ReadKeeps
<1> QED BY <1>5, <1>6, <1>7, <1>8, <1>9

(* The locals a handler keeps over a step. *)
LEMMA LocalsHeld ==
  ASSUME AuthInv, NEW w \in Worker
  PROVE  mem[w] \in Locals /\ (UNCHANGED mem => mem' = [mem EXCEPT ![w] = mem[w]])
  BY DEF AuthInv, LocalsOK

(* The first checks of refresh and logout. *)
LEMMA CheckKeeps ==
  ASSUME AuthInv, NEW w \in Worker, RefreshCheck(w) \/ LogoutCheck(w)
  PROVE  AuthInv'
<1>1. pc[w] # "idle" /\ UNCHANGED <<tables, history, mem>>
  BY DEF RefreshCheck, LogoutCheck, Begins
<1>2. CASE End(w, "error")
  BY <1>1, <1>2, TablesUntouched, EndKeeps
<1>3. ASSUME NEW where \in AwaitsIn(msg[w].topic), Step(w, where),
             where \notin AwaitsUser \cup AwaitsAccount
      PROVE  AuthInv'
  BY <1>1, <1>3, LocalsHeld, TablesUntouched, StepKeeps
<1>4. CASE RefreshCheck(w)
  <2>1. msg[w].topic = "refresh" /\ (End(w, "error") \/ Step(w, "findSession"))
    BY <1>4 DEF RefreshCheck, Begins
  <2>2. "findSession" \in AwaitsIn(msg[w].topic)
    BY <2>1 DEF AwaitsIn
  <2>3. "findSession" \notin AwaitsUser \cup AwaitsAccount
    BY DEF AwaitsUser, AwaitsAccount
  <2> QED BY <1>2, <1>3, <2>1, <2>2, <2>3
<1>5. CASE LogoutCheck(w)
  <2>1. msg[w].topic = "logout" /\ (End(w, "error") \/ Step(w, "saveClosed"))
    BY <1>5 DEF LogoutCheck, Begins
  <2>2. "saveClosed" \in AwaitsIn(msg[w].topic)
    BY <2>1 DEF AwaitsIn
  <2>3. "saveClosed" \notin AwaitsUser \cup AwaitsAccount
    BY DEF AwaitsUser, AwaitsAccount
  <2> QED BY <1>2, <1>3, <2>1, <2>2, <2>3
<1> QED BY <1>4, <1>5

-----------------------------------------------------------------------------
(* The steps that write.                                                   *)

(* What a handler saves is an account. *)
LEMMA SaveKeepsTables ==
  ASSUME AuthInv, NEW w \in Worker, mem[w].user \in UserName,
         NEW row \in Account, SaveAccount(w, row),
         UNCHANGED <<sessions, revoked, mails, issued>>
  PROVE  TablesOK' /\ SessionsKept
  BY DEF AuthInv, TablesOK, SessionsKept, SaveAccount

(* The row a handler writes: the one it has read, with its own fields. *)
LEMMA RowsTyped ==
  ASSUME AuthInv, NEW w \in Worker, pc[w] # "idle"
  PROVE  /\ pc[w] = "saveRegistered" => Registered(w) \in Account
         /\ pc[w] = "saveVerified" =>
              [mem[w].row EXCEPT !.verified = TRUE, !.vtoken = 0, !.vexp = 0] \in Account
         /\ pc[w] = "saveFailure" => Failed(w) \in Account
         /\ pc[w] = "saveCleared" => [mem[w].row EXCEPT !.failed = 0, !.locked = 0] \in Account
         /\ pc[w] = "saveForgotten" =>
              [mem[w].row EXCEPT !.rtoken = mem[w].token, !.rexp = mem[w].date] \in Account
         /\ pc[w] = "saveReset" => AfterReset(w) \in Account
<1>1. mem[w] \in Locals
  BY LocalsHeld
<1>2. mem[w].token \in Nat /\ mem[w].date \in Nat /\ mem[w].row \in Account \cup {NoRow}
  BY <1>1 DEF Locals
<1>3. pc[w] \in AwaitsAccount => mem[w].row \in Account
  BY DEF AuthInv, HandlerOK
<1>4. ASSUME pc[w] = "saveRegistered" PROVE Registered(w) \in Account
  <2>1. msg[w].pw \in Password
    BY <1>4, Handling, RequestFields DEF AuthInv
  <2>2. CASE mem[w].row = NoRow
    BY <1>2, <2>1, <2>2 DEF Registered, Account
  <2>3. CASE mem[w].row # NoRow
    <3>1. mem[w].row \in Account
      BY <1>2, <2>3
    <3> QED BY <1>2, <2>1, <2>3, <3>1 DEF Registered, Account
  <2> QED BY <2>2, <2>3
<1>5. ASSUME pc[w] = "saveVerified"
      PROVE  [mem[w].row EXCEPT !.verified = TRUE, !.vtoken = 0, !.vexp = 0] \in Account
  BY <1>3, <1>5 DEF AwaitsAccount, Account
<1>6. ASSUME pc[w] = "saveFailure" PROVE Failed(w) \in Account
  <2>1. mem[w].row \in Account
    BY <1>3, <1>6 DEF AwaitsAccount
  <2>2. [mem[w].row EXCEPT !.failed = 0, !.locked = mem[w].date] \in Account
    BY <1>2, <2>1 DEF Account
  <2>3. [mem[w].row EXCEPT !.failed = @ + 1] \in Account
    BY <2>1 DEF Account
  <2> QED BY <2>2, <2>3 DEF Failed
<1>7. ASSUME pc[w] = "saveCleared"
      PROVE  [mem[w].row EXCEPT !.failed = 0, !.locked = 0] \in Account
  BY <1>3, <1>7 DEF AwaitsAccount, Account
<1>8. ASSUME pc[w] = "saveForgotten"
      PROVE  [mem[w].row EXCEPT !.rtoken = mem[w].token, !.rexp = mem[w].date] \in Account
  BY <1>2, <1>3, <1>8 DEF AwaitsAccount, Account
<1>9. ASSUME pc[w] = "saveReset" PROVE AfterReset(w) \in Account
  <2>1. mem[w].row \in Account
    BY <1>3, <1>9 DEF AwaitsAccount
  <2>2. msg[w].pw \in Password
    BY <1>9, Handling, RequestFields DEF AuthInv
  <2> QED BY <2>1, <2>2 DEF AfterReset, Account
<1> QED BY <1>4, <1>5, <1>6, <1>7, <1>8, <1>9

(* The saves of an account that end the handler or go on to a mail. *)
LEMMA AccountSaveKeeps ==
  ASSUME AuthInv, NEW w \in Worker,
         RegisterSave(w) \/ VerifySave(w) \/ LoginSaveFailure(w) \/ ForgotSave(w) \/ ResetSave(w)
  PROVE  AuthInv'
<1>1. pc[w] \in {"saveRegistered", "saveVerified", "saveFailure", "saveForgotten", "saveReset"}
  BY DEF RegisterSave, VerifySave, LoginSaveFailure, ForgotSave, ResetSave
<1>2. mem[w].user \in UserName /\ mem[w] \in Locals
  BY <1>1, LocalsHeld DEF AuthInv, HandlerOK, AwaitsUser, AwaitsAccount
<1>3. UNCHANGED <<sessions, revoked, mails, issued, mem>>
  BY DEF RegisterSave, VerifySave, LoginSaveFailure, ForgotSave, ResetSave
<1>4. CASE RegisterSave(w)
  <2>1. msg[w].topic = "register"
    BY <1>4, Handling DEF RegisterSave, AuthInv
  <2>2. TablesOK' /\ SessionsKept
    BY <1>2, <1>3, <1>4, RowsTyped, SaveKeepsTables DEF RegisterSave
  <2>3. HistoryOK' /\ Step(w, "mailVerification")
    BY <1>4 DEF RegisterSave, history, AuthInv, HistoryOK
  <2>4. "mailVerification" \in AwaitsIn(msg[w].topic) /\ "mailVerification" \notin AwaitsAccount
    BY <2>1 DEF AwaitsIn, AwaitsAccount
  <2> QED BY <1>1, <1>2, <1>3, <2>2, <2>3, <2>4, LocalsHeld, StepKeeps
<1>5. CASE VerifySave(w)
  <2>1. TablesOK' /\ SessionsKept
    BY <1>2, <1>3, <1>5, RowsTyped, SaveKeepsTables DEF VerifySave
  <2>2. HistoryOK' /\ End(w, "ok")
    BY <1>5 DEF VerifySave, history, AuthInv, HistoryOK
  <2> QED BY <1>1, <1>3, <2>1, <2>2, EndKeeps
<1>6. CASE LoginSaveFailure(w)
  <2>1. TablesOK' /\ SessionsKept
    BY <1>2, <1>3, <1>6, RowsTyped, SaveKeepsTables DEF LoginSaveFailure
  <2>2. HistoryOK' /\ End(w, "error")
    BY <1>2, <1>6 DEF LoginSaveFailure, AuthInv, HistoryOK
  <2> QED BY <1>1, <1>3, <2>1, <2>2, EndKeeps
<1>7. CASE ForgotSave(w)
  <2>1. msg[w].topic = "forgot" /\ mem[w].row \in Account
    BY <1>7, Handling DEF ForgotSave, AuthInv, HandlerOK, AwaitsAccount
  <2>2. TablesOK' /\ SessionsKept
    BY <1>2, <1>3, <1>7, RowsTyped, SaveKeepsTables DEF ForgotSave
  <2>3. HistoryOK' /\ Step(w, "mailReset")
    BY <1>7 DEF ForgotSave, history, AuthInv, HistoryOK
  <2>4. "mailReset" \in AwaitsIn(msg[w].topic)
    BY <2>1 DEF AwaitsIn
  <2> QED BY <1>1, <1>2, <1>3, <2>1, <2>2, <2>3, <2>4, LocalsHeld, StepKeeps
<1>8. CASE ResetSave(w)
  <2>0. msg[w].token \in Nat
    BY <1>8, Handling, RequestFields DEF ResetSave, AuthInv
  <2>1. TablesOK' /\ SessionsKept
    BY <1>2, <1>3, <1>8, RowsTyped, SaveKeepsTables DEF ResetSave
  <2>2. HistoryOK' /\ End(w, "ok")
    BY <1>8, <2>0 DEF ResetSave, AuthInv, HistoryOK
  <2> QED BY <1>1, <1>3, <2>1, <2>2, EndKeeps
<1> QED BY <1>4, <1>5, <1>6, <1>7, <1>8

(* The comparison of the password and the save of a cleared counter. *)
LEMMA LoginGoesOnKeeps ==
  ASSUME AuthInv, NEW w \in Worker, LoginCompare(w) \/ LoginSaveCleared(w)
  PROVE  AuthInv'
<1>1. pc[w] \in {"compare", "saveCleared"} /\ pc[w] # "idle"
  BY DEF LoginCompare, LoginSaveCleared
<1>2. /\ mem[w].user \in UserName /\ mem[w].row \in Account /\ mem[w] \in Locals
      /\ msg[w].topic = "login"
  BY <1>1, LocalsHeld, Handling DEF AuthInv, HandlerOK, AwaitsAccount
<1>3. PICK date \in Nat : mem' = [mem EXCEPT ![w].date = date]
  BY LivesArePositive DEF LoginCompare, LoginSaveCleared, AuthInv, ClockOK
<1> DEFINE locals == [mem[w] EXCEPT !.date = date]
<1>4. locals \in Locals /\ locals.user = mem[w].user /\ locals.row = mem[w].row
  BY <1>2 DEF Locals
<1>5. mem' = [mem EXCEPT ![w] = locals]
  BY <1>3
<1>6. \A where \in {"saveFailure", "saveCleared", "saveSession"} : where \in AwaitsIn("login")
  BY DEF AwaitsIn
<1>7. TablesOK' /\ HistoryOK' /\ SessionsKept
  <2>1. CASE LoginCompare(w)
    BY <2>1, TablesUntouched DEF LoginCompare
  <2>2. CASE LoginSaveCleared(w)
    <3>1. TablesOK' /\ SessionsKept
      BY <1>1, <1>2, <2>2, RowsTyped, SaveKeepsTables DEF LoginSaveCleared
    <3>2. HistoryOK'
      BY <1>2, <2>2 DEF LoginSaveCleared, AuthInv, HistoryOK
    <3> QED BY <3>1, <3>2
  <2> QED BY <2>1, <2>2
<1>8. \E where \in {"saveFailure", "saveCleared", "saveSession"} : Step(w, where)
  BY DEF LoginCompare, LoginSaveCleared
<1> HIDE DEF locals
<1> QED BY <1>1, <1>2, <1>4, <1>5, <1>6, <1>7, <1>8, StepKeeps

(* Mails, sessions and revoked tokens. *)
LEMMA LastWriteKeeps ==
  ASSUME AuthInv, NEW w \in Worker,
         \/ RegisterMail(w) \/ ForgotMail(w) \/ LoginSaveSession(w) \/ RefreshGrant(w)
         \/ LogoutSaveRevoked(w)
  PROVE  AuthInv'
<1>0. pc[w] # "idle" /\ UNCHANGED <<mem>>
  BY DEF RegisterMail, ForgotMail, SendMail, LoginSaveSession, RefreshGrant, LogoutSaveRevoked
<1>1. CASE RegisterMail(w) \/ ForgotMail(w)
  <2>1. mem[w].user \in UserName /\ mem[w].token \in Nat
    BY <1>1, LocalsHeld DEF RegisterMail, ForgotMail, AuthInv, HandlerOK, AwaitsUser,
                            AwaitsAccount, Locals
  <2>2. PICK kind \in {"verify", "reset"} : SendMail(w, kind)
    BY <1>1 DEF RegisterMail, ForgotMail
  <2>3. TablesOK' /\ HistoryOK' /\ SessionsKept
    BY <2>1, <2>2 DEF SendMail, Mail, history, AuthInv, TablesOK, HistoryOK, SessionsKept
  <2> QED BY <1>0, <2>2, <2>3, EndKeeps DEF SendMail
<1>2. CASE LoginSaveSession(w)
  <2>1. /\ mem[w].user \in UserName /\ mem[w].date \in Nat
        /\ msg[w].topic = "login" /\ msg[w] \in Request
    BY <1>2, LocalsHeld, Handling DEF LoginSaveSession, AuthInv, HandlerOK, AwaitsAccount, Locals
  <2> DEFINE row == [user |-> mem[w].user, from |-> msg[w].from, exp |-> mem[w].date,
                     revoked |-> FALSE]
  <2>2. row \in SessionRow /\ row # NoRow
    <3>1. msg[w].from \in Address
      BY <2>1, RequestFields
    <3>2. row \in SessionRow
      BY <2>1, <3>1 DEF SessionRow
    <3> QED BY <3>2, NoRowIsNothing
  <2>3. PICK s \in SessionId : sessions' = [sessions EXCEPT ![s] = row]
    BY <1>2 DEF LoginSaveSession
  <2> HIDE DEF row
  <2>4. TablesOK' /\ HistoryOK' /\ SessionsKept
    BY <1>2, <2>2, <2>3 DEF LoginSaveSession, history, AuthInv, TablesOK, HistoryOK, SessionsKept
  <2> QED BY <1>0, <1>2, <2>4, EndKeeps DEF LoginSaveSession
<1>3. CASE RefreshGrant(w)
  <2>1. msg[w].session \in SessionId
    BY <1>3, Handling, RequestFields DEF RefreshGrant, AuthInv
  <2>2. TablesOK' /\ HistoryOK' /\ SessionsKept
    BY <1>3, <2>1 DEF RefreshGrant, tables, AuthInv, TablesOK, HistoryOK, SessionsKept
  <2> QED BY <1>0, <1>3, <2>2, EndKeeps DEF RefreshGrant
<1>4. CASE LogoutSaveRevoked(w)
  <2>1. msg[w].session \in SessionId
    BY <1>4, Handling, RequestFields DEF LogoutSaveRevoked, AuthInv
  <2>2. TablesOK' /\ HistoryOK' /\ SessionsKept
    BY <1>4, <2>1 DEF LogoutSaveRevoked, history, AuthInv, TablesOK, HistoryOK, SessionsKept
  <2> QED BY <1>0, <1>4, <2>2, EndKeeps DEF LogoutSaveRevoked
<1> QED BY <1>1, <1>2, <1>3, <1>4

(* The save of a session that was closed. *)
LEMMA LogoutSaveKeeps ==
  ASSUME AuthInv, NEW w \in Worker, LogoutSaveSession(w)
  PROVE  AuthInv'
<1> DEFINE s == msg[w].session
<1>1. /\ pc[w] # "idle" /\ msg[w].topic = "logout" /\ s \in SessionId
      /\ UNCHANGED <<users, revoked, mails, issued, history, mem>>
      /\ Step(w, "saveRevoked")
      /\ sessions' = [sessions EXCEPT ![s].revoked = TRUE]
  BY Handling, RequestFields DEF LogoutSaveSession, AuthInv
<1>2. sessions[s] # NoRow /\ sessions[s] \in SessionRow
  BY <1>1 DEF AuthInv, HandlerOK, TablesOK
<1>3. [sessions[s] EXCEPT !.revoked = TRUE] \in SessionRow
  BY <1>2 DEF SessionRow
<1>4. "saveRevoked" \in AwaitsIn(msg[w].topic) /\ "saveRevoked" \notin AwaitsUser \cup AwaitsAccount
  BY <1>1 DEF AwaitsIn, AwaitsUser, AwaitsAccount
<1> HIDE DEF s
<1>5. TablesOK' /\ HistoryOK'
  BY <1>1, <1>3 DEF history, AuthInv, TablesOK, HistoryOK
<1>6. SessionsKept
  BY <1>1, <1>3, NoRowIsNothing DEF SessionsKept, AuthInv, TablesOK
<1> QED BY <1>1, <1>4, <1>5, <1>6, LocalsHeld, StepKeeps

-----------------------------------------------------------------------------
(* Delivery, commit, faults and time.                                      *)

(* A worker is sent a request that a client can send, or has sent before.  *)
LEMMA Delivered ==
  ASSUME NEW w \in Worker, Deliver(w)
  PROVE  /\ \E m \in Sendable \cup again : Begin(w, m)
         /\ again' \subseteq again /\ received' \in {received, received + 1}
  BY DEF Deliver, NewRequest, Redeliver

LEMMA DeliverKeeps ==
  ASSUME AuthInv, NEW w \in Worker, Deliver(w)
  PROVE  AuthInv'
<1>1. PICK m \in Sendable \cup again : Begin(w, m)
  BY Delivered
<1>2. m \in Request /\ (m.topic \in {"refresh", "logout"} => sessions[m.session] # NoRow)
  BY SendableTyped DEF AuthInv, AgainOK
<1>3. /\ pc' = [pc EXCEPT ![w] = "received"] /\ msg' = [msg EXCEPT ![w] = m]
      /\ UNCHANGED <<tables, history, mem, reply, crashes, rejections, now>>
  BY <1>1 DEF Begin
<1>4. /\ pc'[w] = "received" /\ msg'[w] = m
      /\ \A v \in Worker \ {w} : pc'[v] = pc[v] /\ msg'[v] = msg[v]
  BY <1>1, <1>3 DEF AuthInv, ControlOK
<1>5. ControlOK'
  <2>1. pc' \in [Worker -> Places] /\ msg' \in [Worker -> Request \cup {Null}]
    BY <1>1, <1>2, <1>3 DEF AuthInv, ControlOK, Places
  <2> QED BY <1>2, <1>4, <2>1 DEF AuthInv, ControlOK
<1>6. TablesOK' /\ HistoryOK' /\ ClockOK' /\ LocalsOK' /\ AgainOK'
  BY <1>3, Delivered, TablesUntouched, AgainStays DEF AuthInv, ClockOK, LocalsOK
<1>7. ASSUME NEW v \in Worker PROVE HandlerOK(v)'
  <2>1. UNCHANGED <<mem, sessions>>
    BY <1>3 DEF tables
  <2>2. CASE v = w
    BY <1>2, <1>4, <2>1, <2>2 DEF HandlerOK, AwaitsUser, AwaitsAccount
  <2>3. CASE v # w
    BY <1>4, <2>1, <2>3 DEF HandlerOK, AuthInv
  <2> QED BY <2>2, <2>3
<1> QED BY <1>5, <1>6, <1>7 DEF AuthInv

(* The worker has no request any more. *)
LEMMA ForgetKeeps ==
  ASSUME AuthInv, NEW w \in Worker,
         pc' = [pc EXCEPT ![w] = "idle"], msg' = [msg EXCEPT ![w] = Null],
         mem' = [mem EXCEPT ![w] = Nothing], reply' = [reply EXCEPT ![w] = Null],
         UNCHANGED <<tables, history, now>>, ClockOK', AgainOK'
  PROVE  AuthInv'
<1>2. Nothing \in Locals
  BY DEF Nothing, Locals
<1>3. /\ pc'[w] = "idle" /\ msg'[w] = Null
      /\ \A v \in Worker \ {w} : pc'[v] = pc[v] /\ msg'[v] = msg[v] /\ mem'[v] = mem[v]
  BY DEF AuthInv, ControlOK, LocalsOK
<1>4. ControlOK'
  <2>1. pc' \in [Worker -> Places] /\ msg' \in [Worker -> Request \cup {Null}]
    BY DEF AuthInv, ControlOK, Places
  <2> QED BY <1>3, <2>1 DEF AuthInv, ControlOK
<1>5. TablesOK' /\ HistoryOK' /\ LocalsOK'
  BY <1>2, TablesUntouched DEF AuthInv, LocalsOK, Answer
<1>6. ASSUME NEW v \in Worker PROVE HandlerOK(v)'
  <2>1. UNCHANGED sessions
    BY DEF tables
  <2>2. CASE v = w
    BY <1>3, <2>2 DEF HandlerOK, AwaitsUser, AwaitsAccount
  <2>3. CASE v # w
    BY <1>3, <2>1, <2>3 DEF HandlerOK, AuthInv
  <2> QED BY <2>2, <2>3
<1> QED BY <1>4, <1>5, <1>6 DEF AuthInv

(* A handled request is forgotten. *)
LEMMA CommitKeeps ==
  ASSUME AuthInv, NEW w \in Worker, CommitOffset(w)
  PROVE  AuthInv'
<1>1. /\ pc' = [pc EXCEPT ![w] = "idle"] /\ msg' = [msg EXCEPT ![w] = Null]
      /\ mem' = [mem EXCEPT ![w] = Nothing] /\ reply' = [reply EXCEPT ![w] = Null]
      /\ UNCHANGED <<tables, history, now, again, received, crashes, rejections>>
  BY DEF CommitOffset, delivery
<1>2. ClockOK' /\ AgainOK'
  BY <1>1, TablesUntouched, AgainStays DEF AuthInv, ClockOK
<1> QED BY <1>1, <1>2, ForgetKeeps

(* A crash forgets the request too, but leaves it to be delivered again.   *)
LEMMA CrashKeeps ==
  ASSUME AuthInv, NEW w \in Worker, CrashAuth(w)
  PROVE  AuthInv'
<1>1. /\ pc' = [pc EXCEPT ![w] = "idle"] /\ msg' = [msg EXCEPT ![w] = Null]
      /\ mem' = [mem EXCEPT ![w] = Nothing] /\ reply' = [reply EXCEPT ![w] = Null]
      /\ UNCHANGED <<tables, history, now, received, rejections>>
      /\ pc[w] # "idle" /\ again' = again \cup {msg[w]} /\ crashes' = crashes + 1
  BY DEF CrashAuth
<1>2. ClockOK'
  BY <1>1 DEF AuthInv, ClockOK
<1>3. AgainOK'
  <2>1. msg[w] \in Request
    BY <1>1, Handling DEF AuthInv
  <2>2. msg[w].topic \in {"refresh", "logout"} => sessions[msg[w].session] # NoRow
    BY <1>1 DEF AuthInv, HandlerOK
  <2>3. UNCHANGED sessions
    BY <1>1 DEF tables
  <2> QED BY <1>1, <2>1, <2>2, <2>3 DEF AuthInv, AgainOK
<1> QED BY <1>1, <1>2, <1>3, ForgetKeeps

(* A rejected call ends the handler. *)
LEMMA RejectKeeps ==
  ASSUME AuthInv, NEW w \in Worker, CallRejects(w)
  PROVE  AuthInv'
<1>1. /\ pc[w] # "idle" /\ UNCHANGED <<tables, history, msg, mem, again>>
      /\ pc' = [pc EXCEPT ![w] = "done"]
  BY DEF CallRejects
<1>2. ClockOK' /\ LocalsOK'
  BY DEF CallRejects, AuthInv, ClockOK, LocalsOK, Answer
<1>3. "done" \notin AwaitsUser \cup AwaitsAccount
  BY DEF AwaitsUser, AwaitsAccount
<1> QED BY <1>1, <1>2, <1>3, TablesUntouched, MoveKeeps

(* Time passes. *)
LEMMA TickKeeps ==
  ASSUME AuthInv, Tick
  PROVE  AuthInv'
<1>1. now' \in Nat /\ UNCHANGED <<tables, history, pc, msg, mem, reply, delivery>>
  BY DEF Tick, AuthInv, ClockOK
<1>2. TablesOK' /\ HistoryOK' /\ ClockOK' /\ LocalsOK' /\ ControlOK' /\ AgainOK'
  BY <1>1, TablesUntouched, AgainStays DEF AuthInv, ClockOK, LocalsOK, ControlOK, delivery
<1>3. \A v \in Worker : HandlerOK(v)'
  BY <1>1 DEF AuthInv, HandlerOK, tables
<1> QED BY <1>2, <1>3 DEF AuthInv

-----------------------------------------------------------------------------
(* The results.                                                            *)

(* Initially the tables are legal and nobody works. *)
LEMMA AuthInitInv == AuthInit => AuthInv
<1> SUFFICES ASSUME AuthInit PROVE AuthInv
  OBVIOUS
<1>1. TablesOK
  BY AccountsAreLegal DEF AuthInit, TablesOK
<1>2. HistoryOK /\ ClockOK
  BY DEF AuthInit, HistoryOK, ClockOK
<1>3. ControlOK
  BY DEF AuthInit, ControlOK, Places
<1>4. LocalsOK
  BY DEF AuthInit, LocalsOK, Answer, Nothing, Locals
<1>5. \A w \in Worker : HandlerOK(w)
  BY DEF AuthInit, HandlerOK, AwaitsUser, AwaitsAccount
<1>6. AgainOK
  BY DEF AuthInit, AgainOK
<1> QED BY <1>1, <1>2, <1>3, <1>4, <1>5, <1>6 DEF AuthInv

(* The steps of a handler, by what they do to the invariant. *)
LEMMA StepsOfHandlers ==
  ASSUME NEW w \in Worker, AuthStep(w)
  PROVE  \/ RegisterRefused(w) \/ VerifyRefused(w) \/ LoginRefused(w) \/ RefreshStillValid(w)
         \/ RefreshRefused(w) \/ ForgotRefused(w) \/ ResetRefused(w)
         \/ RegisterFind(w) \/ VerifyFind(w) \/ LoginFind(w) \/ ForgotFind(w) \/ ResetFind(w)
         \/ RefreshCheck(w) \/ LogoutCheck(w)
         \/ RegisterSave(w) \/ VerifySave(w) \/ LoginSaveFailure(w) \/ ForgotSave(w)
         \/ ResetSave(w)
         \/ LoginCompare(w) \/ LoginSaveCleared(w)
         \/ RegisterMail(w) \/ ForgotMail(w) \/ LoginSaveSession(w) \/ RefreshGrant(w)
         \/ LogoutSaveRevoked(w) \/ LogoutSaveSession(w) \/ CommitOffset(w)
  BY DEF AuthStep, RegisterStep, VerifyStep, LoginStep, RefreshStep, LogoutStep, ForgotStep,
         ResetStep

(* Every step of any worker, every fault and the clock keep the invariant. *)
LEMMA AuthInvStep == AuthInv /\ [AuthNext]_authVars => AuthInv'
<1> SUFFICES ASSUME AuthInv, [AuthNext]_authVars PROVE AuthInv'
  OBVIOUS
<1>1. CASE UNCHANGED authVars
  <2>1. /\ UNCHANGED <<tables, history, now, again, received, crashes, rejections>>
        /\ UNCHANGED <<pc, msg, mem, reply>>
    BY <1>1 DEF authVars, tables, history
  <2>2. TablesOK' /\ HistoryOK' /\ ClockOK' /\ LocalsOK' /\ ControlOK' /\ AgainOK'
    BY <2>1, TablesUntouched, AgainStays DEF AuthInv, ClockOK, LocalsOK, ControlOK
  <2>3. \A v \in Worker : HandlerOK(v)'
    BY <2>1 DEF AuthInv, HandlerOK, tables
  <2> QED BY <2>2, <2>3 DEF AuthInv
<1>2. ASSUME NEW w \in Worker, AuthStep(w) PROVE AuthInv'
  BY <1>2, StepsOfHandlers, RefusalKeeps, FindKeeps, CheckKeeps, AccountSaveKeeps,
     LoginGoesOnKeeps, LastWriteKeeps, LogoutSaveKeeps, CommitKeeps
<1> QED BY <1>1, <1>2, DeliverKeeps, CrashKeeps, RejectKeeps, TickKeeps DEF AuthNext

(* Every variable of auth-service keeps its type, and a worker only stands *)
(* at an await of the request it was sent.                                 *)
THEOREM AuthTypesCorrect == AuthSpec => []AuthTypeOK
<1> QED BY AuthInitInv, AuthInvStep, InvTypes, PTL DEF AuthSpec

-----------------------------------------------------------------------------
(* Sessions.                                                               *)

SessionState ==
  [s \in SessionId |-> IF sessions[s] = NoRow THEN "none"
                       ELSE IF sessions[s].revoked THEN "closed" ELSE "open"]

(* A step that leaves sessions and grants alone is invisible. *)
LEMMA SessionsStutter ==
  ASSUME UNCHANGED <<sessions, grants>>
  PROVE  UNCHANGED Sessions!sessionVars
  BY DEF Sessions!sessionVars

(* A login opens a session that was not there. *)
LEMMA LoginOpens ==
  ASSUME AuthInv, NEW w \in Worker, LoginSaveSession(w)
  PROVE  Sessions!SessionNext
<1>1. PICK s \in SessionId :
        /\ sessions[s] = NoRow
        /\ sessions' = [sessions EXCEPT ![s] =
             [user |-> mem[w].user, from |-> msg[w].from, exp |-> mem[w].date,
              revoked |-> FALSE]]
  BY DEF LoginSaveSession
<1>2. [user |-> mem[w].user, from |-> msg[w].from, exp |-> mem[w].date, revoked |-> FALSE]
        \in SessionRow
  <2>1. /\ mem[w].user \in UserName /\ mem[w].date \in Nat
        /\ msg[w].topic = "login" /\ msg[w] \in Request
    BY LocalsHeld, Handling DEF LoginSaveSession, AuthInv, HandlerOK, AwaitsAccount, Locals
  <2>2. msg[w].from \in Address
    BY <2>1, RequestFields
  <2> QED BY <2>1, <2>2 DEF SessionRow
<1>3. /\ sessions'[s] # NoRow /\ sessions'[s].revoked = FALSE
      /\ \A r \in SessionId \ {s} : sessions'[r] = sessions[r]
  BY <1>1, <1>2, NoRowIsNothing DEF AuthInv, TablesOK
<1>4. SessionState' = [SessionState EXCEPT ![s] = "open"] /\ SessionState[s] = "none"
  BY <1>1, <1>3 DEF SessionState
<1>5. UNCHANGED grants
  BY DEF LoginSaveSession, history
<1>6. Sessions!Open(s)
  BY <1>4, <1>5 DEF Sessions!Open, SessionState
<1> QED BY <1>6 DEF Sessions!SessionNext

(* A refresh is granted only by a session that is open. *)
LEMMA RefreshIsOpen ==
  ASSUME AuthInv, NEW w \in Worker, RefreshGrant(w)
  PROVE  Sessions!SessionNext
<1> DEFINE s == msg[w].session
<1>1. pc[w] = "findSession" /\ s \in SessionId /\ sessions[s] # NoRow /\ ~sessions[s].revoked
  BY Handling, RequestFields DEF RefreshGrant, AuthInv, HandlerOK
<1>2. SessionState[s] = "open"
  BY <1>1 DEF SessionState
<1>3. grants' = [grants EXCEPT ![s] = @ + 1] /\ UNCHANGED sessions
  BY DEF RefreshGrant, tables
<1>4. UNCHANGED SessionState
  BY <1>3 DEF SessionState
<1> HIDE DEF s
<1>5. Sessions!Refresh(s)
  BY <1>2, <1>3, <1>4 DEF Sessions!Refresh, SessionState
<1> QED BY <1>1, <1>5 DEF Sessions!SessionNext

(* A logout closes an open session, or one that is closed stays so. *)
LEMMA LogoutCloses ==
  ASSUME AuthInv, NEW w \in Worker, LogoutSaveSession(w)
  PROVE  Sessions!SessionNext \/ UNCHANGED Sessions!sessionVars
<1>0. PICK s \in SessionId : s = msg[w].session
  BY Handling, RequestFields DEF LogoutSaveSession, AuthInv
<1>1. pc[w] = "saveClosed" /\ sessions[s] # NoRow /\ sessions[s] \in SessionRow
  BY <1>0, Handling DEF LogoutSaveSession, AuthInv, HandlerOK, TablesOK
<1>2. sessions' = [sessions EXCEPT ![s].revoked = TRUE] /\ UNCHANGED grants
  BY <1>0 DEF LogoutSaveSession, history
<1>3. sessions'[s] = [sessions[s] EXCEPT !.revoked = TRUE]
  BY <1>1, <1>2 DEF AuthInv, TablesOK
<1>4. [sessions[s] EXCEPT !.revoked = TRUE] \in SessionRow
  BY <1>1 DEF SessionRow
<1>5. /\ sessions'[s] # NoRow /\ sessions'[s].revoked
      /\ \A r \in SessionId \ {s} : sessions'[r] = sessions[r]
  BY <1>1, <1>2, <1>3, <1>4, NoRowIsNothing DEF AuthInv, TablesOK, SessionRow
<1>6. SessionState' = [SessionState EXCEPT ![s] = "closed"]
  BY <1>1, <1>5 DEF SessionState
<1>7. CASE sessions[s].revoked
  <2>1. SessionState[s] = "closed"
    BY <1>1, <1>7 DEF SessionState
  <2>2. UNCHANGED SessionState
    BY <1>6, <2>1 DEF SessionState
  <2> QED BY <1>2, <2>2 DEF Sessions!sessionVars, SessionState
<1>8. CASE ~sessions[s].revoked
  <2>1. SessionState[s] = "open"
    BY <1>1, <1>8 DEF SessionState
  <2>2. UNCHANGED grants
    BY <1>2
  <2>3. Sessions!Close(s)
    BY <1>6, <2>1, <2>2 DEF Sessions!Close, SessionState
  <2> QED BY <1>1, <2>3 DEF Sessions!SessionNext
<1> QED BY <1>7, <1>8

(* Every other step leaves sessions and grants alone. *)
LEMMA OthersLeaveSessions ==
  ASSUME NEW w \in Worker, AuthStep(w),
         ~LoginSaveSession(w), ~RefreshGrant(w), ~LogoutSaveSession(w)
  PROVE  UNCHANGED <<sessions, grants>>
<1>1. CASE \/ RegisterRefused(w) \/ VerifyRefused(w) \/ LoginRefused(w) \/ RefreshStillValid(w)
           \/ RefreshRefused(w) \/ ForgotRefused(w) \/ ResetRefused(w)
           \/ RefreshCheck(w) \/ LogoutCheck(w) \/ CommitOffset(w)
  BY <1>1 DEF RegisterRefused, VerifyRefused, LoginRefused, RefreshStillValid, RefreshRefused,
         ForgotRefused, ResetRefused, RefreshCheck, LogoutCheck, CommitOffset, tables, history
<1>2. CASE RegisterFind(w) \/ VerifyFind(w) \/ LoginFind(w) \/ ForgotFind(w) \/ ResetFind(w)
  BY <1>2 DEF RegisterFind, VerifyFind, LoginFind, ForgotFind, ResetFind, tables, history
<1>3. CASE \/ RegisterSave(w) \/ VerifySave(w) \/ LoginSaveFailure(w) \/ ForgotSave(w)
           \/ ResetSave(w) \/ LoginCompare(w) \/ LoginSaveCleared(w)
  BY <1>3 DEF RegisterSave, VerifySave, LoginSaveFailure, ForgotSave, ResetSave, LoginCompare,
         LoginSaveCleared, tables, history
<1>4. CASE RegisterMail(w) \/ ForgotMail(w) \/ LogoutSaveRevoked(w)
  BY <1>4 DEF RegisterMail, ForgotMail, SendMail, LogoutSaveRevoked, history
<1> QED BY <1>1, <1>2, <1>3, <1>4, StepsOfHandlers

(* Sessions open once, and give out access tokens only until the logout,   *)
(* with any number of workers and whatever crashes or rejects              *)
(* (login, refreshToken and logout of auth.service.ts).                    *)
THEOREM SessionsKeepTheirPromise == AuthSpec => ImplementsSessions
<1>1. AuthInit => Sessions!SessionInit
  BY DEF AuthInit, Sessions!SessionInit
<1>2. AuthInv /\ [AuthNext]_authVars => [Sessions!SessionNext]_(Sessions!sessionVars)
  <2> SUFFICES ASSUME AuthInv, [AuthNext]_authVars
               PROVE  Sessions!SessionNext \/ UNCHANGED Sessions!sessionVars
    OBVIOUS
  <2>1. CASE UNCHANGED authVars
    BY <2>1, SessionsStutter DEF authVars
  <2>2. ASSUME NEW w \in Worker, AuthStep(w)
        PROVE  Sessions!SessionNext \/ UNCHANGED Sessions!sessionVars
    BY <2>2, OthersLeaveSessions, SessionsStutter, LoginOpens, RefreshIsOpen, LogoutCloses
  <2>3. ASSUME NEW w \in Worker, Deliver(w) \/ CrashAuth(w) \/ CallRejects(w)
        PROVE  UNCHANGED <<sessions, grants>>
    BY <2>3 DEF Deliver, NewRequest, Redeliver, Begin, CrashAuth, CallRejects, tables, history
  <2>4. Tick => UNCHANGED <<sessions, grants>>
    BY DEF Tick, tables, history
  <2> QED BY <2>1, <2>2, <2>3, <2>4, SessionsStutter DEF AuthNext
<1> QED BY <1>1, <1>2, AuthInitInv, AuthInvStep, PTL
        DEF AuthSpec, ImplementsSessions, Sessions!SessionSpec

-----------------------------------------------------------------------------
(* One worker.                                                             *)

OneWorkerOnly == \A u, v \in Worker : u = v

\* Awaits between the read of an account and the save of it.
AwaitsSave == {"saveRegistered", "saveVerified", "compare", "saveFailure", "saveCleared",
               "saveForgotten", "saveReset"}

HoldsFresh(w) == pc[w] \in AwaitsSave => users[mem[w].user] = mem[w].row

\* The counter of an account is the number of wrong passwords in a row.
Counted ==
  \A u \in UserName :
    IF users[u] = NoRow THEN wrong[u] = 0
    ELSE wrong[u] = users[u].failed /\ users[u].failed < MaxFailed

Has(u, token) == users[u] # NoRow /\ users[u].rtoken = token

\* A reset token belongs to one account, was mailed to it alone, and is not
\* in a row once it was used.
TokensOK ==
  /\ spent \subseteq 1 .. issued
  /\ \A m \in mails : m.token \in 1 .. issued
  /\ \A u \in UserName : users[u] # NoRow => users[u].rtoken \in (0 .. issued) \ spent
  /\ \A u, v \in UserName, t \in 1 .. issued : Has(u, t) /\ Has(v, t) => u = v
  /\ \A u \in UserName, m \in mails : m.kind = "reset" /\ Has(u, m.token) => m.to = u

\* What the handler of w knows at its await.
Knows(w) ==
  /\ pc[w] = "saveRegistered" => mem[w].row = NoRow \/ ~mem[w].row.verified
  /\ pc[w] = "saveReset" => mem[w].row.rtoken = msg[w].token
  /\ pc[w] \in {"saveRegistered", "mailVerification", "saveForgotten", "mailReset"} =>
       mem[w].token \in 1 .. issued
  /\ pc[w] = "saveForgotten" =>
       /\ mem[w].token \notin spent
       /\ \A u \in UserName : ~Has(u, mem[w].token)
       /\ \A m \in mails : m.kind = "reset" => m.token # mem[w].token
  /\ pc[w] = "mailReset" => \A u \in UserName : Has(u, mem[w].token) => u = mem[w].user
  /\ pc[w] # "idle" /\ msg[w].topic = "reset" =>
       \E m \in mails : m.kind = "reset" /\ m.token = msg[w].token

\* The token of a reset that is to be delivered again was mailed.
AgainMailed ==
  \A n \in again : n.topic = "reset" =>
    \E m \in mails : m.kind = "reset" /\ m.token = n.token

SerialInv ==
  /\ AuthInv /\ AccountsFresh /\ Counted /\ TokensOK
  /\ \A w \in Worker : Knows(w)

-----------------------------------------------------------------------------
(* How a step is put together.                                             *)

(* Nobody else can be at an await. *)
LEMMA OneIsAll ==
  ASSUME OneWorkerOnly, NEW w \in Worker, HoldsFresh(w)', Knows(w)'
  PROVE  AccountsFresh' /\ \A v \in Worker : Knows(v)'
<1>1. AccountsFresh'
  BY DEF OneWorkerOnly, HoldsFresh, AccountsFresh, AwaitsSave
<1>2. \A v \in Worker : Knows(v)'
  BY DEF OneWorkerOnly
<1> QED BY <1>1, <1>2

(* Awaits at which nothing is held that could become stale. *)
Resting == {"idle", "received", "done", "findSession", "saveClosed", "saveRevoked", "saveSession"}

(* A step after which the handler holds nothing, and that leaves accounts  *)
(* and mails alone.                                                        *)
LEMMA RestKeeps ==
  ASSUME SerialInv, AuthInv', OneWorkerOnly, NEW w \in Worker, pc'[w] \in Resting,
         UNCHANGED <<users, spent, wrong, mails, issued>>,
         pc'[w] # "idle" /\ msg'[w].topic = "reset" =>
           \E m \in mails : m.kind = "reset" /\ m.token = msg'[w].token
  PROVE  SerialInv'
<1>1. Counted'
  BY DEF SerialInv, Counted
<1>2. TokensOK'
  BY DEF SerialInv, TokensOK, Has
<1>3. HoldsFresh(w)' /\ Knows(w)'
  BY DEF HoldsFresh, Knows, Resting, AwaitsSave
<1> QED BY <1>1, <1>2, <1>3, OneIsAll DEF SerialInv

(* The same of a handler that goes on with its request. *)
LEMMA RestSameRequest ==
  ASSUME SerialInv, AuthInv', OneWorkerOnly, NEW w \in Worker, pc[w] # "idle",
         NEW where \in Resting, pc' = [pc EXCEPT ![w] = where], UNCHANGED msg,
         UNCHANGED <<users, spent, wrong, mails, issued>>
  PROVE  SerialInv'
<1>1. pc'[w] = where
  BY DEF SerialInv, AuthInv, ControlOK
<1>2. msg[w].topic = "reset" => \E m \in mails : m.kind = "reset" /\ m.token = msg[w].token
  BY DEF SerialInv, Knows
<1> QED BY <1>1, <1>2, RestKeeps

(* Initially nobody has failed and no token exists. *)
LEMMA SerialInit == AuthInit => SerialInv
<1> SUFFICES ASSUME AuthInit PROVE SerialInv
  OBVIOUS
<1>1. AuthInv
  BY AuthInitInv
<1>2. \A u \in UserName : users[u] # NoRow => users[u].failed = 0 /\ users[u].rtoken = 0
  BY AccountsAreLegal DEF AuthInit
<1>3. AccountsFresh /\ \A w \in Worker : Knows(w)
  BY DEF AuthInit, AccountsFresh, Knows
<1>4. Counted
  BY <1>2, LivesArePositive DEF AuthInit, Counted
<1>5. TokensOK
  BY <1>2 DEF AuthInit, TokensOK, Has
<1> QED BY <1>1, <1>3, <1>4, <1>5 DEF SerialInv

-----------------------------------------------------------------------------
(* Steps that hold nothing afterwards.                                     *)

(* Refusals, checks, grants, the writes of sessions and revoked tokens,    *)
(* and the faults.                                                         *)
LEMMA EndsKeepSerial ==
  ASSUME SerialInv, AuthInv', OneWorkerOnly, NEW w \in Worker,
         \/ RegisterRefused(w) \/ VerifyRefused(w) \/ LoginRefused(w) \/ RefreshStillValid(w)
         \/ RefreshRefused(w) \/ ForgotRefused(w) \/ ResetRefused(w)
         \/ RefreshCheck(w) \/ LogoutCheck(w) \/ LoginSaveSession(w) \/ RefreshGrant(w)
         \/ LogoutSaveSession(w) \/ LogoutSaveRevoked(w) \/ CrashAuth(w) \/ CallRejects(w)
  PROVE  SerialInv'
<1>1. CASE \/ RegisterRefused(w) \/ VerifyRefused(w) \/ LoginRefused(w) \/ RefreshStillValid(w)
           \/ RefreshRefused(w) \/ ForgotRefused(w) \/ ResetRefused(w)
           \/ RefreshCheck(w) \/ LogoutCheck(w)
  <2>1. /\ pc[w] # "idle" /\ UNCHANGED <<users, spent, wrong, mails, issued>>
        /\ (\E a \in {"ok", "error", "pending"} : End(w, a)) \/ Step(w, "findSession")
             \/ Step(w, "saveClosed")
    BY <1>1 DEF RegisterRefused, VerifyRefused, LoginRefused, RefreshStillValid, RefreshRefused,
       ForgotRefused, ResetRefused, RefreshCheck, LogoutCheck, Begins, tables, history
  <2> QED BY <2>1, RestSameRequest DEF End, Step, Resting
<1>2. CASE LoginSaveSession(w) \/ RefreshGrant(w) \/ LogoutSaveRevoked(w) \/ LogoutSaveSession(w)
  <2>1. /\ pc[w] # "idle" /\ UNCHANGED <<users, spent, wrong, mails, issued>>
        /\ End(w, "ok") \/ Step(w, "saveRevoked")
    BY <1>2 DEF LoginSaveSession, RefreshGrant, LogoutSaveRevoked, LogoutSaveSession,
       tables, history
  <2> QED BY <2>1, RestSameRequest DEF End, Step, Resting
<1>3. CASE CallRejects(w)
  <2>1. /\ pc[w] # "idle" /\ UNCHANGED <<users, spent, wrong, mails, issued, msg>>
        /\ pc' = [pc EXCEPT ![w] = "done"]
    BY <1>3 DEF CallRejects, tables, history
  <2> QED BY <2>1, RestSameRequest DEF Resting
<1>4. CASE CrashAuth(w)
  <2>1. /\ pc'[w] = "idle" /\ UNCHANGED <<users, spent, wrong, mails, issued>>
    BY <1>4 DEF CrashAuth, tables, history, SerialInv, AuthInv, ControlOK
  <2> QED BY <2>1, RestKeeps DEF Resting
<1> QED BY <1>1, <1>2, <1>3, <1>4

(* A request is delivered or forgotten; a reset comes with a mailed token. *)
LEMMA DeliveryKeepsSerial ==
  ASSUME SerialInv, AuthInv', AgainMailed, OneWorkerOnly, NEW w \in Worker,
         Deliver(w) \/ CommitOffset(w)
  PROVE  SerialInv'
<1>1. UNCHANGED <<users, spent, wrong, mails, issued>>
  BY DEF Deliver, NewRequest, Redeliver, Begin, CommitOffset, tables, history
<1>2. CASE Deliver(w)
  <2>1. PICK m \in Sendable \cup again : Begin(w, m)
    BY <1>2, Delivered
  <2>2. pc'[w] = "received" /\ msg'[w] = m
    BY <2>1 DEF Begin, SerialInv, AuthInv, ControlOK
  <2>3. m \in Sendable /\ m.topic = "reset" => m.token \in Mailed("reset")
    BY DEF Sendable
  <2>4. m.topic = "reset" => \E l \in mails : l.kind = "reset" /\ l.token = m.token
    BY <2>3 DEF Mailed, AgainMailed
  <2> QED BY <1>1, <2>2, <2>4, RestKeeps DEF Resting
<1>3. CASE CommitOffset(w)
  <2>1. pc'[w] = "idle"
    BY <1>3 DEF CommitOffset, SerialInv, AuthInv, ControlOK
  <2> QED BY <1>1, <2>1, RestKeeps DEF Resting
<1> QED BY <1>2, <1>3

-----------------------------------------------------------------------------
(* Steps that read an account.                                             *)

(* The row that was read is the row in the table. *)
LEMMA FindKeepsFresh ==
  ASSUME SerialInv, OneWorkerOnly, NEW w \in Worker, NEW u \in UserName,
         NEW token, NEW date, Holding(w, u, token, date), UNCHANGED users
  PROVE  HoldsFresh(w)' /\ mem'[w] = [user |-> u, row |-> users[u], token |-> token, date |-> date]
<1>1. mem'[w] = [user |-> u, row |-> users[u], token |-> token, date |-> date]
  BY DEF Holding, SerialInv, AuthInv, LocalsOK
<1>2. mem'[w].user = u /\ mem'[w].row = users[u]
  BY <1>1
<1> QED BY <1>1, <1>2 DEF HoldsFresh

(* The finds of login and verifyEmail. *)
LEMMA PlainFindKeepsSerial ==
  ASSUME SerialInv, AuthInv', OneWorkerOnly, NEW w \in Worker, VerifyFind(w) \/ LoginFind(w)
  PROVE  SerialInv'
<1>1. PICK u \in UserName : Holding(w, u, 0, 0)
  <2>1. CASE VerifyFind(w)
    BY <2>1 DEF VerifyFind, Holders
  <2>2. CASE LoginFind(w)
    <3>1. msg[w].topic = "login" /\ pc[w] # "idle"
      BY <2>2 DEF LoginFind, Begins
    <3>2. msg[w].user \in UserName
      BY <3>1, Handling, RequestFields DEF SerialInv, AuthInv
    <3> QED BY <2>2, <3>2 DEF LoginFind
  <2> QED BY <2>1, <2>2
<1>2. UNCHANGED <<users, spent, wrong, mails, issued, msg>>
  BY DEF VerifyFind, LoginFind, tables, history, Step
<1>3. msg[w].topic # "reset" /\ pc'[w] \in {"saveVerified", "compare"}
  BY DEF VerifyFind, LoginFind, Begins, Step, SerialInv, AuthInv, ControlOK
<1>4. Counted' /\ TokensOK'
  BY <1>2 DEF SerialInv, Counted, TokensOK, Has
<1>5. Knows(w)'
  BY <1>2, <1>3 DEF Knows
<1>6. HoldsFresh(w)'
  BY <1>1, <1>2, FindKeepsFresh
<1> QED BY <1>4, <1>5, <1>6, OneIsAll DEF SerialInv

(* The finds of register and forgetPassword, with a token nobody has. *)
LEMMA TokenFindKeepsSerial ==
  ASSUME SerialInv, AuthInv', OneWorkerOnly, NEW w \in Worker, RegisterFind(w) \/ ForgotFind(w)
  PROVE  SerialInv'
<1> DEFINE u == msg[w].user
<1>0. msg[w].topic \in {"register", "forgot"} /\ pc[w] # "idle"
  BY DEF RegisterFind, ForgotFind, Begins
<1>1. u \in UserName
  BY <1>0, Handling, RequestFields DEF SerialInv, AuthInv
<1>2. /\ issued' = issued + 1 /\ issued \in Nat
      /\ UNCHANGED <<users, spent, wrong, mails, msg>>
  BY DEF RegisterFind, ForgotFind, history, Step, SerialInv, AuthInv, TablesOK
<1>3. Holding(w, u, issued + 1, now + TokenLife)
  BY DEF RegisterFind, ForgotFind
<1>4. /\ mem'[w] = [user |-> u, row |-> users[u], token |-> issued + 1, date |-> now + TokenLife]
      /\ HoldsFresh(w)'
  BY <1>1, <1>2, <1>3, FindKeepsFresh
<1>5. pc'[w] \in {"saveRegistered", "saveForgotten"}
      /\ (pc'[w] = "saveRegistered" => RegisterFind(w))
  BY DEF RegisterFind, ForgotFind, Step, SerialInv, AuthInv, ControlOK
<1>6. Counted'
  BY <1>2 DEF SerialInv, Counted
<1>7. TokensOK'
  <2>1. 1 .. issued \subseteq 1 .. issued' /\ 0 .. issued \subseteq 0 .. issued'
    BY <1>2
  <2>2. \A v \in UserName : ~Has(v, issued + 1)
    BY <1>2 DEF SerialInv, TokensOK, Has
  <2>3. \A t \in 1 .. issued' : t \in 1 .. issued \/ t = issued + 1
    BY <1>2
  <2>4. \A v, x \in UserName, t \in 1 .. issued' : Has(v, t)' /\ Has(x, t)' => v = x
    BY <1>2, <2>2, <2>3 DEF SerialInv, TokensOK, Has
  <2>5. \A v \in UserName, m \in mails' : m.kind = "reset" /\ Has(v, m.token)' => m.to = v
    BY <1>2 DEF SerialInv, TokensOK, Has
  <2>6. \A v \in UserName : users'[v] # NoRow => users'[v].rtoken \in (0 .. issued') \ spent'
    BY <1>2, <2>1 DEF SerialInv, TokensOK
  <2>7. spent' \subseteq 1 .. issued' /\ \A m \in mails' : m.token \in 1 .. issued'
    BY <1>2, <2>1 DEF SerialInv, TokensOK
  <2> QED BY <2>4, <2>5, <2>6, <2>7 DEF TokensOK
<1>8. Knows(w)'
  <2>1. pc'[w] = "saveRegistered" => mem'[w].row = NoRow \/ ~mem'[w].row.verified
    BY <1>1, <1>4, <1>5 DEF RegisterFind, Renewable
  <2>2. mem'[w].token = issued + 1 /\ mem'[w].token \in 1 .. issued'
    BY <1>2, <1>4
  <2>3. issued + 1 \notin spent /\ \A m \in mails : m.token # issued + 1
    BY <1>2 DEF SerialInv, TokensOK
  <2>4. \A v \in UserName : ~Has(v, issued + 1)
    BY <1>2 DEF SerialInv, TokensOK, Has
  <2>5. msg'[w].topic # "reset"
    BY <1>0, <1>2
  <2>6. /\ mem'[w].token \notin spent'
        /\ \A v \in UserName : ~Has(v, mem[w].token)'
        /\ \A m \in mails' : m.kind = "reset" => m.token # mem'[w].token
    <3> HIDE DEF u
    <3> QED BY <1>2, <2>2, <2>3, <2>4 DEF Has
  <2>7. pc'[w] \notin {"saveReset", "mailReset"}
    BY <1>5
  <2> QED BY <2>1, <2>2, <2>5, <2>6, <2>7 DEF Knows
<1> QED BY <1>4, <1>6, <1>7, <1>8, OneIsAll DEF SerialInv

(* The find of resetPassword: the row has the token of the request. *)
LEMMA ResetFindKeepsSerial ==
  ASSUME SerialInv, AuthInv', OneWorkerOnly, NEW w \in Worker, ResetFind(w)
  PROVE  SerialInv'
<1>1. PICK u \in UserName : users[u].rtoken = msg[w].token /\ Holding(w, u, 0, 0)
  BY DEF ResetFind, Holders
<1>2. UNCHANGED <<users, spent, wrong, mails, issued, msg>> /\ pc[w] # "idle"
  BY DEF ResetFind, tables, history, Step, Begins
<1>3. pc'[w] = "saveReset"
  BY DEF ResetFind, Step, SerialInv, AuthInv, ControlOK
<1>4. Counted' /\ TokensOK'
  BY <1>2 DEF SerialInv, Counted, TokensOK, Has
<1>5. HoldsFresh(w)' /\ mem'[w].row = users[u]
  <2>1. UNCHANGED users /\ Holding(w, u, 0, 0)
    BY <1>1, <1>2
  <2>2. HoldsFresh(w)' /\ mem'[w] = [user |-> u, row |-> users[u], token |-> 0, date |-> 0]
    BY <2>1, FindKeepsFresh
  <2> QED BY <2>2
<1>6. msg[w].topic = "reset" => \E m \in mails : m.kind = "reset" /\ m.token = msg[w].token
  BY <1>2 DEF SerialInv, Knows
<1>7. Knows(w)'
  BY <1>1, <1>2, <1>3, <1>5, <1>6 DEF Knows
<1> QED BY <1>4, <1>5, <1>7, OneIsAll DEF SerialInv

(* The comparison of the password looks at the row that was read. *)
LEMMA CompareKeepsSerial ==
  ASSUME SerialInv, AuthInv', OneWorkerOnly, NEW w \in Worker, LoginCompare(w)
  PROVE  SerialInv'
<1>1. pc[w] = "compare" /\ UNCHANGED <<users, spent, wrong, mails, issued, msg>>
  BY DEF LoginCompare, tables, history, Step
<1>2. PICK date : mem' = [mem EXCEPT ![w].date = date]
  BY DEF LoginCompare
<1>3. mem'[w].row = mem[w].row /\ mem'[w].user = mem[w].user
  BY <1>2 DEF SerialInv, AuthInv, LocalsOK, Locals
<1>4. pc'[w] \in {"saveFailure", "saveCleared", "saveSession"}
  BY DEF LoginCompare, Step, SerialInv, AuthInv, ControlOK
<1>5. users[mem[w].user] = mem[w].row
  BY <1>1 DEF SerialInv, AccountsFresh
<1>6. HoldsFresh(w)'
  BY <1>1, <1>3, <1>5 DEF HoldsFresh
<1>7. msg[w].topic # "reset"
  BY <1>1, Handling DEF SerialInv, AuthInv
<1>8. Knows(w)'
  BY <1>1, <1>4, <1>7 DEF Knows
<1>9. Counted' /\ TokensOK'
  BY <1>1 DEF SerialInv, Counted, TokensOK, Has
<1> QED BY <1>6, <1>8, <1>9, OneIsAll DEF SerialInv

-----------------------------------------------------------------------------
(* Steps that save an account.                                             *)

(* Before a save the row in the table is the one that was read. *)
LEMMA SaveIsFresh ==
  ASSUME SerialInv, NEW w \in Worker, pc[w] \in AwaitsSave
  PROVE  mem[w].user \in UserName /\ users[mem[w].user] = mem[w].row
<1>1. mem[w].user \in UserName
  BY DEF SerialInv, AuthInv, HandlerOK, AwaitsSave, AwaitsUser, AwaitsAccount
<1>2. users[mem[w].user] = mem[w].row
  BY DEF SerialInv, AccountsFresh, AwaitsSave
<1> QED BY <1>1, <1>2

(* A row with the old reset token, or none, takes nobody's. *)
LEMMA SameTokenKeeps ==
  ASSUME TablesOK, TokensOK, NEW u \in UserName, NEW row \in Account,
         users' = [users EXCEPT ![u] = row], UNCHANGED <<spent, mails, issued>>,
         row.rtoken = 0 \/ Has(u, row.rtoken)
  PROVE  TokensOK'
<1>1. /\ users'[u] = row /\ row # NoRow
      /\ \A v \in UserName \ {u} : users'[v] = users[v]
  BY NoRowIsNothing DEF TablesOK
<1>2. \A v \in UserName, t \in 1 .. issued : Has(v, t)' => Has(v, t)
  <2> SUFFICES ASSUME NEW v \in UserName, NEW t \in 1 .. issued, Has(v, t)' PROVE Has(v, t)
    OBVIOUS
  <2>1. CASE v = u
    <3>1. row.rtoken = t /\ t # 0
      BY <1>1, <2>1 DEF Has
    <3> QED BY <2>1, <3>1
  <2>2. CASE v # u
    BY <1>1, <2>2 DEF Has
  <2> QED BY <2>1, <2>2
<1>3. 0 \in 0 .. issued /\ 0 \notin spent
  BY DEF TokensOK, TablesOK
<1>4. \A v \in UserName : users'[v] # NoRow => users'[v].rtoken \in (0 .. issued) \ spent
  <2> SUFFICES ASSUME NEW v \in UserName, users'[v] # NoRow
               PROVE  users'[v].rtoken \in (0 .. issued) \ spent
    OBVIOUS
  <2>1. CASE v = u
    BY <1>1, <1>3, <2>1 DEF Has, TokensOK
  <2>2. CASE v # u
    BY <1>1, <2>2 DEF TokensOK
  <2> QED BY <2>1, <2>2
<1>5. \A v, x \in UserName, t \in 1 .. issued' : Has(v, t)' /\ Has(x, t)' => v = x
  BY <1>2 DEF TokensOK
<1>6. \A v \in UserName, m \in mails' : m.kind = "reset" /\ Has(v, m.token)' => m.to = v
  <2> SUFFICES ASSUME NEW v \in UserName, NEW m \in mails, m.kind = "reset", Has(v, m.token)'
               PROVE  m.to = v
    OBVIOUS
  <2>1. m.token \in 1 .. issued
    BY DEF TokensOK
  <2> QED BY <1>2, <2>1 DEF TokensOK
<1> QED BY <1>4, <1>5, <1>6 DEF TokensOK

(* The history and the counter of the row go together. *)
LEMMA SameCountKeeps ==
  ASSUME TablesOK, Counted, NEW u \in UserName, NEW row \in Account,
         users' = [users EXCEPT ![u] = row], wrong'[u] = row.failed, row.failed < MaxFailed,
         \A v \in UserName \ {u} : wrong'[v] = wrong[v]
  PROVE  Counted'
<1>1. /\ users'[u] = row /\ row # NoRow
      /\ \A v \in UserName \ {u} : users'[v] = users[v]
  BY NoRowIsNothing DEF TablesOK
<1> QED BY <1>1 DEF Counted

(* register: a new row, or the one that was read with another password. *)
LEMMA RegisterSaveKeepsSerial ==
  ASSUME SerialInv, AuthInv', OneWorkerOnly, NEW w \in Worker, RegisterSave(w)
  PROVE  SerialInv'
<1>1. /\ pc[w] = "saveRegistered" /\ pc[w] # "idle"
      /\ UNCHANGED <<spent, wrong, mails, issued, mem, msg>>
      /\ pc' = [pc EXCEPT ![w] = "mailVerification"]
  BY DEF RegisterSave, history, Step
<1>2. PICK u \in UserName : u = mem[w].user /\ users[u] = mem[w].row
  BY <1>1, SaveIsFresh DEF AwaitsSave
<1>3. PICK row \in Account : row = Registered(w)
  BY <1>1, RowsTyped DEF SerialInv
<1>4. users' = [users EXCEPT ![u] = row]
  BY <1>2, <1>3 DEF RegisterSave, SaveAccount
<1>5. /\ row.failed = IF users[u] = NoRow THEN 0 ELSE users[u].failed
      /\ row.rtoken = IF users[u] = NoRow THEN 0 ELSE users[u].rtoken
  <2>1. CASE users[u] = NoRow
    BY <1>2, <1>3, <2>1 DEF Registered
  <2>2. CASE users[u] # NoRow
    <3>1. users[u] \in Account
      BY <2>2 DEF SerialInv, AuthInv, TablesOK
    <3> QED BY <1>2, <1>3, <2>2, <3>1 DEF Registered, Account
  <2> QED BY <2>1, <2>2
<1>6. wrong[u] = row.failed /\ row.failed < MaxFailed
  BY <1>5, LivesArePositive DEF SerialInv, Counted
<1>7. Counted'
  BY <1>1, <1>4, <1>6, SameCountKeeps DEF SerialInv, AuthInv
<1>8. TokensOK'
  BY <1>1, <1>4, <1>5, SameTokenKeeps DEF SerialInv, AuthInv, Has
<1>9. pc'[w] = "mailVerification"
  BY <1>1 DEF SerialInv, AuthInv, ControlOK
<1>10. HoldsFresh(w)'
  BY <1>9 DEF HoldsFresh, AwaitsSave
<1>11. Knows(w)'
  <2>1. mem[w].token \in 1 .. issued
    BY <1>1 DEF SerialInv, Knows
  <2>2. msg[w].topic # "reset"
    BY <1>1, Handling DEF SerialInv, AuthInv
  <2> QED BY <1>1, <1>9, <2>1, <2>2 DEF Knows
<1> QED BY <1>7, <1>8, <1>10, <1>11, OneIsAll DEF SerialInv

(* The saves that keep the reset token: verifyEmail and the two of login. *)
LEMMA PlainSaveKeepsSerial ==
  ASSUME SerialInv, AuthInv', OneWorkerOnly, NEW w \in Worker,
         VerifySave(w) \/ LoginSaveFailure(w) \/ LoginSaveCleared(w)
  PROVE  SerialInv'
<1>1. /\ pc[w] \in {"saveVerified", "saveFailure", "saveCleared"}
      /\ UNCHANGED <<spent, mails, issued, msg>>
      /\ pc' = [pc EXCEPT ![w] = "done"] \/ pc' = [pc EXCEPT ![w] = "saveSession"]
  BY DEF VerifySave, LoginSaveFailure, LoginSaveCleared, history, Step, End
<1>2. PICK u \in UserName : u = mem[w].user /\ users[u] = mem[w].row
  BY <1>1, SaveIsFresh DEF AwaitsSave
<1>3. users[u] \in Account /\ users[u] # NoRow
  <2>1. mem[w].row \in Account
    BY <1>1 DEF SerialInv, AuthInv, HandlerOK, AwaitsAccount
  <2> QED BY <1>2, <2>1, NoRowIsNothing
<1>4. wrong[u] = users[u].failed /\ users[u].failed < MaxFailed /\ users[u].failed \in Nat
  BY <1>3 DEF SerialInv, Counted, Account
<1>5. wrong \in [UserName -> Nat]
  BY DEF SerialInv, AuthInv, HistoryOK
<1>m. MaxFailed \in Nat /\ 0 < MaxFailed
  BY LivesArePositive
<1>6. \E row \in Account :
        /\ users' = [users EXCEPT ![u] = row]
        /\ wrong'[u] = row.failed /\ row.failed < MaxFailed /\ row.rtoken = users[u].rtoken
        /\ \A v \in UserName \ {u} : wrong'[v] = wrong[v]
  <2>1. CASE VerifySave(w)
    <3>1. PICK row \in Account :
            row = [mem[w].row EXCEPT !.verified = TRUE, !.vtoken = 0, !.vexp = 0]
      BY <2>1, RowsTyped DEF VerifySave, SerialInv
    <3>2. users' = [users EXCEPT ![u] = row] /\ UNCHANGED wrong
      BY <1>2, <2>1, <3>1 DEF VerifySave, SaveAccount, history
    <3>3. row.failed = users[u].failed /\ row.rtoken = users[u].rtoken
      BY <1>2, <1>3, <3>1 DEF Account
    <3> QED BY <1>4, <3>2, <3>3
  <2>2. CASE LoginSaveFailure(w)
    <3>1. PICK row \in Account : row = Failed(w)
      BY <2>2, RowsTyped DEF LoginSaveFailure, SerialInv
    <3>2. users' = [users EXCEPT ![u] = row]
      BY <1>2, <2>2, <3>1 DEF LoginSaveFailure, SaveAccount
    <3>3. wrong' = [wrong EXCEPT ![u] = IF LocksNow(users[u]) THEN 0 ELSE @ + 1]
      BY <1>2, <2>2 DEF LoginSaveFailure
    <3>4. CASE LocksNow(users[u])
      <4>1. row.failed = 0 /\ row.rtoken = users[u].rtoken
        BY <1>2, <1>3, <3>1, <3>4 DEF Failed, Account
      <4>2. wrong'[u] = 0 /\ \A v \in UserName \ {u} : wrong'[v] = wrong[v]
        BY <1>5, <3>3, <3>4
      <4> QED BY <1>m, <3>2, <4>1, <4>2
    <3>5. CASE ~LocksNow(users[u])
      <4>1. row.failed = users[u].failed + 1 /\ row.rtoken = users[u].rtoken
        BY <1>2, <1>3, <3>1, <3>5 DEF Failed, Account
      <4>2. row.failed < MaxFailed
        BY <1>4, <3>5, <4>1, LivesArePositive DEF LocksNow
      <4> QED BY <1>4, <1>5, <3>2, <3>3, <3>5, <4>1, <4>2
    <3> QED BY <3>4, <3>5
  <2>3. CASE LoginSaveCleared(w)
    <3>1. PICK row \in Account : row = [mem[w].row EXCEPT !.failed = 0, !.locked = 0]
      BY <2>3, RowsTyped DEF LoginSaveCleared, SerialInv
    <3>2. users' = [users EXCEPT ![u] = row] /\ wrong' = [wrong EXCEPT ![u] = 0]
      BY <1>2, <2>3, <3>1 DEF LoginSaveCleared, SaveAccount
    <3>3. row.failed = 0 /\ row.rtoken = users[u].rtoken
      BY <1>2, <1>3, <3>1 DEF Account
    <3>4. wrong'[u] = 0 /\ \A v \in UserName \ {u} : wrong'[v] = wrong[v]
      BY <1>5, <3>2
    <3> QED BY <1>m, <3>2, <3>3, <3>4
  <2> QED BY <2>1, <2>2, <2>3
<1>7. PICK row \in Account :
        /\ users' = [users EXCEPT ![u] = row]
        /\ wrong'[u] = row.failed /\ row.failed < MaxFailed /\ row.rtoken = users[u].rtoken
        /\ \A v \in UserName \ {u} : wrong'[v] = wrong[v]
  BY <1>6
<1>8. Counted'
  BY <1>7, SameCountKeeps DEF SerialInv, AuthInv
<1>9. TokensOK'
  BY <1>1, <1>3, <1>7, SameTokenKeeps DEF SerialInv, AuthInv, Has
<1>10. pc'[w] \in {"done", "saveSession"}
  BY <1>1 DEF SerialInv, AuthInv, ControlOK
<1>11. HoldsFresh(w)'
  BY <1>10 DEF HoldsFresh, AwaitsSave
<1>12. msg[w].topic # "reset"
  BY <1>1, Handling DEF SerialInv, AuthInv
<1>13. Knows(w)'
  BY <1>1, <1>10, <1>12 DEF Knows
<1> QED BY <1>8, <1>9, <1>11, <1>13, OneIsAll DEF SerialInv

(* forgetPassword: the row gets a token that nobody has or was mailed. *)
LEMMA ForgotSaveKeepsSerial ==
  ASSUME SerialInv, AuthInv', OneWorkerOnly, NEW w \in Worker, ForgotSave(w)
  PROVE  SerialInv'
<1>1. /\ pc[w] = "saveForgotten" /\ pc[w] # "idle"
      /\ UNCHANGED <<spent, wrong, mails, issued, mem, msg>>
      /\ pc' = [pc EXCEPT ![w] = "mailReset"]
  BY DEF ForgotSave, history, Step
<1>2. PICK u \in UserName : u = mem[w].user /\ users[u] = mem[w].row
  BY <1>1, SaveIsFresh DEF AwaitsSave
<1>3. users[u] \in Account /\ users[u] # NoRow
  <2>1. mem[w].row \in Account
    BY <1>1 DEF SerialInv, AuthInv, HandlerOK, AwaitsAccount
  <2> QED BY <1>2, <2>1, NoRowIsNothing
<1>4. PICK new \in 1 .. issued : new = mem[w].token
  BY <1>1 DEF SerialInv, Knows
<1>5. /\ new \notin spent
      /\ \A v \in UserName : ~Has(v, new)
      /\ \A m \in mails : m.kind = "reset" => m.token # new
  BY <1>1, <1>4 DEF SerialInv, Knows
<1>6. PICK row \in Account :
        row = [mem[w].row EXCEPT !.rtoken = mem[w].token, !.rexp = mem[w].date]
  BY <1>1, RowsTyped DEF SerialInv
<1>7. users' = [users EXCEPT ![u] = row]
  BY <1>2, <1>6 DEF ForgotSave, SaveAccount
<1>8. row.failed = users[u].failed /\ row.rtoken = new
  BY <1>2, <1>3, <1>4, <1>6 DEF Account
<1>9. wrong[u] = row.failed /\ row.failed < MaxFailed
  BY <1>3, <1>8 DEF SerialInv, Counted
<1>10. Counted'
  BY <1>1, <1>7, <1>9, SameCountKeeps DEF SerialInv, AuthInv
<1>11. /\ users'[u] = row /\ row # NoRow
       /\ \A v \in UserName \ {u} : users'[v] = users[v]
  BY <1>7, NoRowIsNothing DEF SerialInv, AuthInv, TablesOK
<1>12. \A v \in UserName : Has(v, new)' => v = u
  BY <1>4, <1>5, <1>11 DEF Has
<1>13. \A v \in UserName, t \in 1 .. issued : Has(v, t)' => Has(v, t) \/ t = new
  BY <1>8, <1>11 DEF Has
<1>14. TokensOK'
  <2>1. spent' \subseteq 1 .. issued' /\ \A m \in mails' : m.token \in 1 .. issued'
    BY <1>1 DEF SerialInv, TokensOK
  <2>2. \A v \in UserName : users'[v] # NoRow => users'[v].rtoken \in (0 .. issued') \ spent'
    <3> SUFFICES ASSUME NEW v \in UserName, users'[v] # NoRow
                 PROVE  users'[v].rtoken \in (0 .. issued) \ spent
      BY <1>1
    <3>1. CASE v = u
      BY <1>5, <1>8, <1>11, <3>1 DEF SerialInv, AuthInv, TablesOK
    <3>2. CASE v # u
      BY <1>11, <3>2 DEF SerialInv, TokensOK
    <3> QED BY <3>1, <3>2
  <2>3. \A v, x \in UserName, t \in 1 .. issued' : Has(v, t)' /\ Has(x, t)' => v = x
    <3> SUFFICES ASSUME NEW v \in UserName, NEW x \in UserName, NEW t \in 1 .. issued,
                        Has(v, t)', Has(x, t)'
                 PROVE  v = x
      BY <1>1
    <3>1. CASE t = new
      BY <1>12, <3>1
    <3>2. CASE t # new
      BY <1>13, <3>2 DEF SerialInv, TokensOK
    <3> QED BY <3>1, <3>2
  <2>4. \A v \in UserName, m \in mails' : m.kind = "reset" /\ Has(v, m.token)' => m.to = v
    <3> SUFFICES ASSUME NEW v \in UserName, NEW m \in mails, m.kind = "reset",
                        Has(v, m.token)'
                 PROVE  m.to = v
      BY <1>1
    <3>1. m.token \in 1 .. issued /\ m.token # new
      BY <1>5 DEF SerialInv, TokensOK
    <3>2. Has(v, m.token)
      BY <1>13, <3>1
    <3> QED BY <3>2 DEF SerialInv, TokensOK
  <2> QED BY <2>1, <2>2, <2>3, <2>4 DEF TokensOK
<1>15. pc'[w] = "mailReset"
  BY <1>1 DEF SerialInv, AuthInv, ControlOK
<1>16. HoldsFresh(w)'
  BY <1>15 DEF HoldsFresh, AwaitsSave
<1>17. Knows(w)'
  <2>1. msg[w].topic # "reset"
    BY <1>1, Handling DEF SerialInv, AuthInv
  <2>2. mem'[w].token = new /\ mem'[w].user = u /\ new \in 1 .. issued'
    BY <1>1, <1>2, <1>4
  <2>3. \A v \in UserName : Has(v, mem[w].token)' => v = u
    BY <1>12, <2>2 DEF Has
  <2> QED BY <1>1, <1>15, <2>1, <2>2, <2>3 DEF Knows
<1> QED BY <1>10, <1>14, <1>16, <1>17, OneIsAll DEF SerialInv

\* What a reset finds when it saves: a token that is in this row only, that
\* changed no password yet, and that was mailed to the owner of the row.
ResetFound(w, u) ==
  /\ u = mem[w].user /\ users[u] = mem[w].row /\ users[u] \in Account
  /\ Has(u, msg[w].token)
  /\ msg[w].token \in (1 .. issued) \ spent
  /\ [kind |-> "reset", to |-> u, token |-> msg[w].token] \in mails
  /\ \A v \in UserName \ {u} : ~Has(v, msg[w].token)

(* The invariant says so at the save of resetPassword. *)
LEMMA ResetFindsItsToken ==
  ASSUME SerialInv, NEW w \in Worker, pc[w] = "saveReset"
  PROVE  \E u \in UserName : ResetFound(w, u)
<1>1. PICK u \in UserName : u = mem[w].user /\ users[u] = mem[w].row
  BY SaveIsFresh DEF AwaitsSave
<1>2. users[u] \in Account /\ users[u] # NoRow
  <2>1. mem[w].row \in Account
    BY DEF SerialInv, AuthInv, HandlerOK, AwaitsAccount
  <2> QED BY <1>1, <2>1, NoRowIsNothing
<1>3. Has(u, msg[w].token)
  BY <1>1, <1>2 DEF SerialInv, Knows, Has
<1>4. msg[w].topic = "reset"
  BY Handling DEF SerialInv, AuthInv
<1>5. PICK m \in mails : m.kind = "reset" /\ m.token = msg[w].token
  BY <1>4 DEF SerialInv, Knows
<1>6. m.token \in 1 .. issued /\ m.to = u
  BY <1>3, <1>5 DEF SerialInv, TokensOK
<1>7. msg[w].token \notin spent
  BY <1>2, <1>3 DEF SerialInv, TokensOK, Has
<1>8. m \in Mail
  BY DEF SerialInv, AuthInv, TablesOK
<1>9. m = [kind |-> "reset", to |-> u, token |-> msg[w].token]
  BY <1>5, <1>6, <1>8 DEF Mail
<1>10. \A v \in UserName \ {u} : ~Has(v, msg[w].token)
  BY <1>3, <1>5, <1>6 DEF SerialInv, TokensOK
<1> QED BY <1>1, <1>2, <1>3, <1>5, <1>6, <1>7, <1>9, <1>10 DEF ResetFound

(* resetPassword: the token leaves the row and is spent. *)
LEMMA ResetSaveKeepsSerial ==
  ASSUME SerialInv, AuthInv', OneWorkerOnly, NEW w \in Worker, ResetSave(w)
  PROVE  SerialInv'
<1>1. /\ pc[w] = "saveReset" /\ pc[w] # "idle"
      /\ UNCHANGED <<wrong, mails, issued, msg>>
      /\ pc' = [pc EXCEPT ![w] = "done"]
      /\ spent' = spent \cup {msg[w].token}
  BY DEF ResetSave, End
<1>2. PICK u \in UserName : ResetFound(w, u)
  BY <1>1, ResetFindsItsToken
<1>3. PICK t \in 1 .. issued : t = msg[w].token
  BY <1>2 DEF ResetFound
<1>4. /\ users[u] = mem[w].row /\ users[u] \in Account /\ users[u] # NoRow /\ u = mem[w].user
      /\ \A v \in UserName \ {u} : ~Has(v, t)
  BY <1>2, <1>3, NoRowIsNothing DEF ResetFound
<1>5. PICK row \in Account : row = AfterReset(w)
  BY <1>1, RowsTyped DEF SerialInv
<1>6. users' = [users EXCEPT ![u] = row]
  BY <1>4, <1>5 DEF ResetSave, SaveAccount
<1>7. row.failed = users[u].failed /\ row.rtoken = 0
  BY <1>4, <1>5 DEF AfterReset, Account
<1>8. wrong[u] = row.failed /\ row.failed < MaxFailed
  BY <1>4, <1>7 DEF SerialInv, Counted
<1>9. Counted'
  BY <1>1, <1>6, <1>8, SameCountKeeps DEF SerialInv, AuthInv
<1>10. /\ users'[u] = row /\ row # NoRow
       /\ \A v \in UserName \ {u} : users'[v] = users[v]
  BY <1>6, NoRowIsNothing DEF SerialInv, AuthInv, TablesOK
<1>11. \A v \in UserName, r \in 1 .. issued : Has(v, r)' => Has(v, r) /\ r # t
  BY <1>3, <1>4, <1>7, <1>10 DEF Has
<1>12. TokensOK'
  <2>1. spent' \subseteq 1 .. issued' /\ \A m \in mails' : m.token \in 1 .. issued'
    BY <1>1, <1>3 DEF SerialInv, TokensOK
  <2>2. \A v \in UserName : users'[v] # NoRow => users'[v].rtoken \in (0 .. issued') \ spent'
    <3> SUFFICES ASSUME NEW v \in UserName, users'[v] # NoRow
                 PROVE  users'[v].rtoken \in (0 .. issued) \ (spent \cup {t})
      BY <1>1, <1>3
    <3>1. CASE v = u
      BY <1>7, <1>10, <3>1 DEF SerialInv, TokensOK, AuthInv, TablesOK
    <3>2. CASE v # u
      BY <1>4, <1>10, <3>2 DEF SerialInv, TokensOK, Has
    <3> QED BY <3>1, <3>2
  <2>3. \A v, x \in UserName, r \in 1 .. issued' : Has(v, r)' /\ Has(x, r)' => v = x
    BY <1>1, <1>11 DEF SerialInv, TokensOK
  <2>4. \A v \in UserName, m \in mails' : m.kind = "reset" /\ Has(v, m.token)' => m.to = v
    BY <1>1, <1>11 DEF SerialInv, TokensOK
  <2> QED BY <2>1, <2>2, <2>3, <2>4 DEF TokensOK
<1>13. pc'[w] = "done"
  BY <1>1 DEF SerialInv, AuthInv, ControlOK
<1>14. HoldsFresh(w)'
  BY <1>13 DEF HoldsFresh, AwaitsSave
<1>15. Knows(w)'
  BY <1>1, <1>13 DEF SerialInv, Knows
<1> QED BY <1>9, <1>12, <1>14, <1>15, OneIsAll DEF SerialInv

(* A mail goes to the account whose row has the token. *)
LEMMA MailKeepsSerial ==
  ASSUME SerialInv, AuthInv', OneWorkerOnly, NEW w \in Worker, RegisterMail(w) \/ ForgotMail(w)
  PROVE  SerialInv'
<1>1. PICK kind \in {"verify", "reset"} :
        SendMail(w, kind) /\ (kind = "reset" => pc[w] = "mailReset")
  BY DEF RegisterMail, ForgotMail
<1> DEFINE new == [kind |-> kind, to |-> mem[w].user, token |-> mem[w].token]
<1>2. /\ UNCHANGED <<users, spent, wrong, issued, msg>> /\ mails' = mails \cup {new}
      /\ pc' = [pc EXCEPT ![w] = "done"]
      /\ pc[w] \in {"mailVerification", "mailReset"} /\ pc[w] # "idle"
  BY <1>1 DEF SendMail, history, End, RegisterMail, ForgotMail
<1>3. new.token \in 1 .. issued
  BY <1>2 DEF SerialInv, Knows
<1>4. kind = "reset" => \A u \in UserName : Has(u, new.token) => new.to = u
  BY <1>1 DEF SerialInv, Knows
<1>5. new.kind = kind
  OBVIOUS
<1> HIDE DEF new
<1>6. TokensOK'
  BY <1>2, <1>3, <1>4, <1>5 DEF SerialInv, TokensOK, Has
<1>7. Counted'
  BY <1>2 DEF SerialInv, Counted
<1>8. pc'[w] = "done"
  BY <1>2 DEF SerialInv, AuthInv, ControlOK
<1>9. HoldsFresh(w)'
  BY <1>8 DEF HoldsFresh, AwaitsSave
<1>10. Knows(w)'
  <2>1. msg[w].topic # "reset"
    BY <1>2, Handling DEF SerialInv, AuthInv
  <2> QED BY <1>2, <1>8, <2>1 DEF Knows
<1> QED BY <1>6, <1>7, <1>9, <1>10, OneIsAll DEF SerialInv

-----------------------------------------------------------------------------
(* The invariant.                                                          *)

(* A step that moves only the clock, or nothing. *)
LEMMA ClockKeepsSerial ==
  ASSUME SerialInv, AuthInv', UNCHANGED <<users, spent, wrong, mails, issued, pc, msg, mem>>
  PROVE  SerialInv'
<1>1. AccountsFresh'
  BY DEF SerialInv, AccountsFresh
<1>2. Counted' /\ TokensOK'
  BY DEF SerialInv, Counted, TokensOK, Has
<1>3. \A w \in Worker : Knows(w)'
  BY DEF SerialInv, Knows, Has
<1> QED BY <1>1, <1>2, <1>3 DEF SerialInv

(* A handler's step leaves what is to be delivered again, and the mails.   *)
LEMMA AgainStaysMailed ==
  ASSUME SerialInv, AgainMailed, [AuthNext]_authVars
  PROVE  AgainMailed'
<1>1. ASSUME UNCHANGED again \/ again' \subseteq again, mails \subseteq mails'
      PROVE  AgainMailed'
  BY <1>1 DEF AgainMailed
<1>2. ASSUME NEW w \in Worker, AuthStep(w) PROVE AgainMailed'
  <2>1. CASE \/ RegisterRefused(w) \/ VerifyRefused(w) \/ LoginRefused(w)
             \/ RefreshStillValid(w) \/ RefreshRefused(w) \/ ForgotRefused(w)
             \/ ResetRefused(w) \/ RefreshCheck(w) \/ LogoutCheck(w) \/ CommitOffset(w)
    BY <1>1, <2>1 DEF RegisterRefused, VerifyRefused, LoginRefused, RefreshStillValid,
       RefreshRefused, ForgotRefused, ResetRefused, RefreshCheck, LogoutCheck, CommitOffset,
       End, Step, tables, delivery
  <2>2. CASE \/ RegisterFind(w) \/ VerifyFind(w) \/ LoginFind(w) \/ ForgotFind(w)
             \/ ResetFind(w) \/ LoginCompare(w)
    BY <1>1, <2>2 DEF RegisterFind, VerifyFind, LoginFind, ForgotFind, ResetFind, LoginCompare,
       End, Step, tables, delivery
  <2>3. CASE \/ RegisterSave(w) \/ VerifySave(w) \/ LoginSaveFailure(w) \/ ForgotSave(w)
             \/ ResetSave(w) \/ LoginSaveCleared(w)
    BY <1>1, <2>3 DEF RegisterSave, VerifySave, LoginSaveFailure, ForgotSave, ResetSave,
       LoginSaveCleared, End, Step, delivery
  <2>4. CASE \/ RegisterMail(w) \/ ForgotMail(w) \/ LoginSaveSession(w) \/ RefreshGrant(w)
             \/ LogoutSaveRevoked(w) \/ LogoutSaveSession(w)
    BY <1>1, <2>4 DEF RegisterMail, ForgotMail, SendMail, LoginSaveSession, RefreshGrant,
       LogoutSaveRevoked, LogoutSaveSession, End, Step, tables, delivery
  <2> QED BY <1>2, <2>1, <2>2, <2>3, <2>4, StepsOfHandlers
<1>3. ASSUME NEW w \in Worker, Deliver(w) PROVE AgainMailed'
  <2>1. UNCHANGED mails
    BY <1>3 DEF Deliver, NewRequest, Redeliver, Begin, tables
  <2> QED BY <1>1, <1>3, <2>1, Delivered
<1>4. ASSUME NEW w \in Worker, CrashAuth(w) PROVE AgainMailed'
  <2>1. pc[w] # "idle" /\ again' = again \cup {msg[w]} /\ UNCHANGED mails
    BY <1>4 DEF CrashAuth, tables
  <2> QED BY <2>1 DEF SerialInv, Knows, AgainMailed
<1>5. ASSUME NEW w \in Worker, CallRejects(w) PROVE AgainMailed'
  BY <1>1, <1>5 DEF CallRejects, tables
<1>6. ASSUME Tick \/ UNCHANGED authVars PROVE AgainMailed'
  BY <1>1, <1>6 DEF Tick, authVars, tables, delivery
<1> QED BY <1>2, <1>3, <1>4, <1>5, <1>6 DEF AuthNext

(* Every step of the one worker, every fault and the clock keep it. *)
LEMMA SerialStep ==
  ASSUME OneWorkerOnly
  PROVE  SerialInv /\ AgainMailed /\ [AuthNext]_authVars => SerialInv'
<1> SUFFICES ASSUME SerialInv, AgainMailed, [AuthNext]_authVars PROVE SerialInv'
  OBVIOUS
<1>1. AuthInv'
  BY AuthInvStep DEF SerialInv
<1>2. CASE UNCHANGED authVars
  BY <1>1, <1>2, ClockKeepsSerial DEF authVars
<1>3. CASE Tick
  BY <1>1, <1>3, ClockKeepsSerial DEF Tick, tables, history
<1>4. ASSUME NEW w \in Worker, AuthStep(w) PROVE SerialInv'
  BY <1>1, <1>4, StepsOfHandlers, EndsKeepSerial, DeliveryKeepsSerial, PlainFindKeepsSerial,
     TokenFindKeepsSerial, ResetFindKeepsSerial, CompareKeepsSerial, RegisterSaveKeepsSerial,
     PlainSaveKeepsSerial, ForgotSaveKeepsSerial, ResetSaveKeepsSerial, MailKeepsSerial
<1>5. ASSUME NEW w \in Worker, Deliver(w) \/ CrashAuth(w) \/ CallRejects(w) PROVE SerialInv'
  BY <1>1, <1>5, DeliveryKeepsSerial, EndsKeepSerial
<1> QED BY <1>2, <1>3, <1>4, <1>5 DEF AuthNext

(* In every reachable state. *)
LEMMA SerialAlways ==
  ASSUME OneWorkerOnly
  PROVE  AuthSpec => []SerialInv
<1>1. AuthInit => AgainMailed
  BY DEF AuthInit, AgainMailed
<1>2. SerialInv /\ AgainMailed /\ [AuthNext]_authVars => AgainMailed'
  BY AgainStaysMailed
<1> QED BY <1>1, <1>2, SerialInit, SerialStep, PTL DEF AuthSpec

-----------------------------------------------------------------------------
(* The results.                                                            *)

(* Whatever handler of auth.service.ts is about to save an account, the    *)
(* row in the table is the one it has read: nothing is overwritten.        *)
THEOREM NoAccountWriteIsLost ==
  ASSUME OneWorkerOnly
  PROVE  AuthSpec => []AccountsFresh
<1>1. SerialInv => AccountsFresh
  BY DEF SerialInv
<1> QED BY <1>1, SerialAlways, PTL

(* login counts every wrong password and locks the account at the limit,   *)
(* whatever other requests for the account come in between.                *)
THEOREM LockoutIsExact ==
  ASSUME OneWorkerOnly
  PROVE  AuthSpec => []LockoutHolds
<1>1. SerialInv => LockoutHolds
  BY LivesArePositive DEF SerialInv, Counted, LockoutHolds
<1> QED BY <1>1, SerialAlways, PTL

(* resetPassword changes a password at most once with a token, also when   *)
(* the request is delivered again after a crash.                           *)
THEOREM ResetTokensWorkOnce ==
  ASSUME OneWorkerOnly
  PROVE  AuthSpec => ResetTokenWorksOnce
<1>1. SerialInv =>
        \A w \in Worker : pc[w] = "saveReset" => msg[w].token \notin spent
  BY ResetFindsItsToken DEF ResetFound
<1>2. SerialInv =>
        [\A w \in Worker :
           pc[w] = "saveReset" /\ pc'[w] = "done" /\ reply'[w] = "ok"
             => msg[w].token \notin spent]_authVars
  BY <1>1
<1> QED BY <1>2, SerialAlways, PTL DEF ResetTokenWorksOnce

\* What a step does to the account of u, if it was verified.
KeepsAccount(u) ==
  users[u] # NoRow /\ users[u].verified =>
    /\ users'[u] # NoRow /\ users'[u].verified
    /\ users'[u].pw # users[u].pw =>
         \E t \in spent' \ spent : [kind |-> "reset", to |-> u, token |-> t] \in mails

(* A save that leaves a verified account verified and its password alone. *)
LEMMA MildSaveKeeps ==
  ASSUME SerialInv, NEW u \in UserName, NEW row \in Account,
         users' = [users EXCEPT ![u] = row],
         users[u] # NoRow /\ users[u].verified => row.verified /\ row.pw = users[u].pw
  PROVE  \A v \in UserName : KeepsAccount(v)
<1>1. /\ users'[u] = row /\ row # NoRow
      /\ \A v \in UserName \ {u} : users'[v] = users[v]
  BY NoRowIsNothing DEF SerialInv, AuthInv, TablesOK
<1> QED BY <1>1 DEF KeepsAccount

(* register finds no verified account, verifyEmail makes one, login and    *)
(* forgetPassword write back what they read of it.                         *)
LEMMA MildSaves ==
  ASSUME SerialInv, NEW w \in Worker,
         \/ RegisterSave(w) \/ VerifySave(w) \/ LoginSaveFailure(w) \/ LoginSaveCleared(w)
         \/ ForgotSave(w)
  PROVE  \A v \in UserName : KeepsAccount(v)
<1>1. /\ pc[w] # "idle"
      /\ pc[w] \in {"saveRegistered", "saveVerified", "saveFailure", "saveCleared",
                    "saveForgotten"}
  BY DEF RegisterSave, VerifySave, LoginSaveFailure, LoginSaveCleared, ForgotSave
<1>2. PICK u \in UserName : u = mem[w].user /\ users[u] = mem[w].row
  BY <1>1, SaveIsFresh DEF AwaitsSave
<1>3. CASE RegisterSave(w)
  <2>1. PICK row \in Account : row = Registered(w)
    BY <1>3, RowsTyped DEF RegisterSave, SerialInv
  <2>2. users' = [users EXCEPT ![u] = row]
    BY <1>2, <1>3, <2>1 DEF RegisterSave, SaveAccount
  <2>3. users[u] = NoRow \/ ~users[u].verified
    BY <1>2, <1>3 DEF RegisterSave, SerialInv, Knows
  <2> QED BY <2>2, <2>3, MildSaveKeeps
<1>4. CASE ~RegisterSave(w)
  <2>0. mem[w].row \in Account
    <3>1. pc[w] \in AwaitsAccount
      BY <1>4 DEF VerifySave, LoginSaveFailure, LoginSaveCleared, ForgotSave, AwaitsAccount
    <3> QED BY <3>1 DEF SerialInv, AuthInv, HandlerOK
  <2>1. PICK row \in Account :
          /\ users' = [users EXCEPT ![mem[w].user] = row]
          /\ row.pw = mem[w].row.pw
          /\ row.verified = TRUE \/ row.verified = mem[w].row.verified
    <3>1. CASE VerifySave(w)
      <4>1. PICK row \in Account :
              row = [mem[w].row EXCEPT !.verified = TRUE, !.vtoken = 0, !.vexp = 0]
        BY <1>1, <3>1, RowsTyped DEF VerifySave, SerialInv
      <4>2. row.pw = mem[w].row.pw /\ row.verified = TRUE
        BY <2>0, <4>1 DEF Account
      <4> QED BY <3>1, <4>1, <4>2 DEF VerifySave, SaveAccount
    <3>2. CASE LoginSaveFailure(w)
      <4>1. PICK row \in Account : row = Failed(w)
        BY <1>1, <3>2, RowsTyped DEF LoginSaveFailure, SerialInv
      <4>2. row.pw = mem[w].row.pw /\ row.verified = mem[w].row.verified
        BY <2>0, <4>1 DEF Failed, Account
      <4> QED BY <3>2, <4>1, <4>2 DEF LoginSaveFailure, SaveAccount
    <3>3. CASE LoginSaveCleared(w)
      <4>1. PICK row \in Account : row = [mem[w].row EXCEPT !.failed = 0, !.locked = 0]
        BY <1>1, <3>3, RowsTyped DEF LoginSaveCleared, SerialInv
      <4>2. row.pw = mem[w].row.pw /\ row.verified = mem[w].row.verified
        BY <2>0, <4>1 DEF Account
      <4> QED BY <3>3, <4>1, <4>2 DEF LoginSaveCleared, SaveAccount
    <3>4. CASE ForgotSave(w)
      <4>1. PICK row \in Account :
              row = [mem[w].row EXCEPT !.rtoken = mem[w].token, !.rexp = mem[w].date]
        BY <1>1, <3>4, RowsTyped DEF ForgotSave, SerialInv
      <4>2. row.pw = mem[w].row.pw /\ row.verified = mem[w].row.verified
        BY <2>0, <4>1 DEF Account
      <4> QED BY <3>4, <4>1, <4>2 DEF ForgotSave, SaveAccount
    <3> QED BY <1>4, <3>1, <3>2, <3>3, <3>4
  <2>2. users' = [users EXCEPT ![u] = row]
    BY <1>2, <2>1
  <2>3. users[u].verified => row.verified
    BY <1>2, <2>1
  <2>4. row.pw = users[u].pw
    BY <1>2, <2>1
  <2> QED BY <2>2, <2>3, <2>4, MildSaveKeeps
<1> QED BY <1>3, <1>4

(* resetPassword changes the password of the account that was mailed the   *)
(* token, and the token is spent with it.                                  *)
LEMMA ResetKeepsAccounts ==
  ASSUME SerialInv, NEW w \in Worker, ResetSave(w)
  PROVE  \A v \in UserName : KeepsAccount(v)
<1>1. pc[w] = "saveReset" /\ pc[w] # "idle" /\ spent' = spent \cup {msg[w].token}
  BY DEF ResetSave
<1>2. PICK u \in UserName : ResetFound(w, u)
  BY <1>1, ResetFindsItsToken
<1>3. PICK row \in Account : row = AfterReset(w)
  BY <1>1, RowsTyped DEF SerialInv
<1>4. users' = [users EXCEPT ![u] = row]
  BY <1>2, <1>3 DEF ResetSave, SaveAccount, ResetFound
<1>5. row.verified = users[u].verified
  BY <1>2, <1>3 DEF ResetFound, AfterReset, Account
<1>6. /\ users'[u] = row /\ row # NoRow
      /\ \A v \in UserName \ {u} : users'[v] = users[v]
  BY <1>4, NoRowIsNothing DEF SerialInv, AuthInv, TablesOK
<1>7. /\ msg[w].token \in spent' \ spent
      /\ [kind |-> "reset", to |-> u, token |-> msg[w].token] \in mails
  BY <1>1, <1>2 DEF ResetFound
<1> QED BY <1>5, <1>6, <1>7 DEF KeepsAccount

(* Every other step leaves the accounts alone. *)
LEMMA OthersLeaveAccounts ==
  ASSUME NEW w \in Worker, AuthStep(w),
         ~RegisterSave(w), ~VerifySave(w), ~LoginSaveFailure(w), ~LoginSaveCleared(w),
         ~ForgotSave(w), ~ResetSave(w)
  PROVE  UNCHANGED users
<1>1. CASE \/ RegisterRefused(w) \/ VerifyRefused(w) \/ LoginRefused(w) \/ RefreshStillValid(w)
           \/ RefreshRefused(w) \/ ForgotRefused(w) \/ ResetRefused(w)
           \/ RefreshCheck(w) \/ LogoutCheck(w) \/ CommitOffset(w)
  BY <1>1 DEF RegisterRefused, VerifyRefused, LoginRefused, RefreshStillValid, RefreshRefused,
         ForgotRefused, ResetRefused, RefreshCheck, LogoutCheck, CommitOffset, tables
<1>2. CASE \/ RegisterFind(w) \/ VerifyFind(w) \/ LoginFind(w) \/ ForgotFind(w) \/ ResetFind(w)
           \/ LoginCompare(w)
  BY <1>2 DEF RegisterFind, VerifyFind, LoginFind, ForgotFind, ResetFind, LoginCompare, tables
<1>3. CASE \/ RegisterMail(w) \/ ForgotMail(w) \/ LogoutSaveRevoked(w) \/ LogoutSaveSession(w)
           \/ LoginSaveSession(w) \/ RefreshGrant(w)
  BY <1>3 DEF RegisterMail, ForgotMail, SendMail, LogoutSaveRevoked, LogoutSaveSession,
         LoginSaveSession, RefreshGrant, tables
<1> QED BY <1>1, <1>2, <1>3, StepsOfHandlers

(* No handler of auth.service.ts takes the verification of an account      *)
(* back, and only resetPassword changes the password of a verified one,    *)
(* with a new use of a token that was mailed to its owner.                 *)
THEOREM VerifiedAccountsAreKept ==
  ASSUME OneWorkerOnly
  PROVE  AuthSpec => VerifiedAccountsKeep
<1>1. SerialInv /\ [AuthNext]_authVars => [\A u \in UserName : KeepsAccount(u)]_authVars
  <2> SUFFICES ASSUME SerialInv, [AuthNext]_authVars
               PROVE  (\A u \in UserName : KeepsAccount(u)) \/ UNCHANGED authVars
    OBVIOUS
  <2>1. ASSUME UNCHANGED users PROVE \A u \in UserName : KeepsAccount(u)
    BY <2>1 DEF KeepsAccount
  <2>2. ASSUME NEW w \in Worker, AuthStep(w) PROVE \A u \in UserName : KeepsAccount(u)
    BY <2>1, <2>2, OthersLeaveAccounts, MildSaves, ResetKeepsAccounts
  <2>3. ASSUME NEW w \in Worker, Deliver(w) \/ CrashAuth(w) \/ CallRejects(w)
        PROVE  UNCHANGED users
    BY <2>3 DEF Deliver, NewRequest, Redeliver, Begin, CrashAuth, CallRejects, tables
  <2>4. Tick => UNCHANGED users
    BY DEF Tick, tables
  <2> QED BY <2>1, <2>2, <2>3, <2>4 DEF AuthNext
<1>2. [\A u \in UserName : KeepsAccount(u)]_authVars =>
        [\A u \in UserName :
           users[u] # NoRow /\ users[u].verified =>
             /\ users'[u] # NoRow /\ users'[u].verified
             /\ users'[u].pw # users[u].pw =>
                  \E t \in spent' \ spent : [kind |-> "reset", to |-> u, token |-> t] \in mails
        ]_authVars
  BY DEF KeepsAccount
<1> QED BY <1>1, <1>2, SerialAlways, PTL DEF AuthSpec, VerifiedAccountsKeep

=============================================================================
