----------------------------- MODULE MCGateway ------------------------------
(***************************************************************************)
(* A gateway with two threads, two accounts and two tokens.                *)
(***************************************************************************)
EXTENDS Gateway, TLC

CONSTANTS t1, t2, a1, a2, k1, k2

MCThreads == {t1, t2}
MCAccountId == {Seed, a1, a2}
MCToken == {k1, k2}
MCDigest == [k \in MCToken |-> k]
MCDigestOne == [k \in {k1} |-> k]

Ask(type, header, token, account, arguments) ==
  [type |-> type, header |-> header, token |-> token, account_id |-> account,
   arguments |-> arguments]

\* Creations with and without a token, good requests for every account, and one of
\* each kind of bad request.
MCRequests ==
  {Ask("create_account", "Authorization", NoToken, NoAccount, "omitted"),
   Ask("get_account", "Authorization", Garbled, Garbled, "omitted"),
   Ask("get_account", "Authorization", NoToken, Seed, "omitted"),
   Ask("get_transaction", "Authorization", Garbled, Seed, "garbled"),
   Ask("get_account", "Authorization", Garbled, Seed, "omitted")}
  \cup {Ask("create_account", "Authorization", k, NoAccount, "omitted") : k \in MCToken}
  \cup {Ask("create_transaction", "Authorization", k, a, "given") :
           k \in MCToken, a \in MCAccountId}
  \cup {Ask("get_transactions", "Authorization", k, a, "omitted") : k \in MCToken, a \in {a1, a2}}

\* Clients that rely on README.md: its header, its optional dates.
MCDocumentedRequests ==
  {Ask("create_account", "Authorization", NoToken, NoAccount, "omitted"),
   Ask("get_account", "Authentication", k1, a1, "omitted"),
   Ask("get_transactions", "Authorization", k1, a1, "omitted")}

\* Good requests of every kind, which compete for the tokens' locks.
MCLockRequests ==
  {Ask("create_account", "Authorization", NoToken, NoAccount, "omitted")}
  \cup {Ask(type, "Authorization", k1, a1, "given") : type \in AccountRequests}

MCSymmetry == Permutations(MCThreads) \cup Permutations({a1, a2}) \cup Permutations(MCToken)
=============================================================================
