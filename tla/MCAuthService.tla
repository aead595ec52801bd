--------------------------- MODULE MCAuthService ---------------------------
(* Small instances of AuthService for TLC.                                 *)
EXTENDS AuthService, TLC

CONSTANTS u1, k1, k2, w1

(* No account, or one that was verified with password k1.                  *)
MCAccounts ==
  { u1 :> NoRow,
    u1 :> [ pw |-> k1, verified |-> TRUE, vtoken |-> 0, vexp |-> 0, failed |-> 0,
            locked |-> 0, rtoken |-> 0, rexp |-> 0 ] }

OneWorker == [t \in Topic |-> w1]

=============================================================================
