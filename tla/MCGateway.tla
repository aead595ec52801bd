----------------------------- MODULE MCGateway -----------------------------
EXTENDS Gateway

CONSTANTS s1, s2

Vaults(ops) == [service : {"vault"}, op : ops]
Mix(routes, until) == [routes |-> routes, until |-> until]

\* Each route alone.  The clock runs past the maximum life of a token where
\* nothing but Vault is involved, and stands still where Kafka is.
MCMixes ==
  {Mix({r}, 0) : r \in Route \ Vaults({"aes", "keyHttps"})}
    \cup {Mix(Vaults({"aes", "keyHttps"}), MaxNow)}
=============================================================================
