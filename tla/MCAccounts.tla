------------------------------- MODULE MCAccounts -------------------------------
(* Instances of Accounts for TLC *)
EXTENDS Accounts, TLC

\* Requests and usernames are interchangeable
AccountSymmetry == Permutations(Requests) \cup Permutations(Names)

\* One permission of either role in place of twelve and two
OneEach == <<"admin", "user">>
=============================================================================
