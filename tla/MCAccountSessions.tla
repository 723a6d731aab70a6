-------------------------- MODULE MCAccountSessions --------------------------
(* A small instance of AccountSessions: every login presents the password  *)
(* of the first verifier, which the account may lose and regain.           *)
EXTENDS AccountSessions

CONSTANTS h1, h2

(* Local accounts, and one that is disabled.                               *)
MCInitially ==
    [disabled : Flags, bcrypt : {h1}, method : {"password"},
     twoFactor : {FALSE}, other : {FALSE}]

MCPassword == [l \in Logins |-> h1]
=============================================================================
