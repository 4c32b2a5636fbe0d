-------------------------- MODULE MCOfflineQueue --------------------------
(* Instances of OfflineQueue for TLC.                                      *)
EXTENDS OfflineQueue, TLC

\* Tokens expire while two syncs, or a sync and another page, call the API.
Tokens == {"login", "tokenExpires", "browse", "secondOrder"}

\* Users sign in and out; their sessions expire or are revoked elsewhere.
Users == {"login", "register", "logout", "tokenExpires"}
Elsewhere == {"login", "register", "revoke", "expire", "tokenExpires", "secondTab"}

\* The network loses requests and answers: for two tabs, or for two orders.
Losses == {"login", "lose", "tokenExpires", "secondTab"}
MoreLosses == {"login", "lose", "tokenExpires", "secondOrder"}

\* Tabs close, IndexedDB fails, and waiters go on to another table.
Browsers == {"login", "close", "lose", "abort", "wander", "secondTab"}

Days == {Tokens, Users, Elsewhere, Losses, MoreLosses, Browsers}

\* A day without any failure.
QuietDay == {{"login", "tokenExpires", "browse"}}
=============================================================================
