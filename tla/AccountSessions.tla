--------------------------- MODULE AccountSessions ---------------------------
(***************************************************************************)
(* One account and its login tokens (internal/api/api.go: login, logout,   *)
(* authenticate; internal/eventlog/security.go: BlockSecurityAccount).     *)
(* The REST handlers share the account document with one another and with  *)
(* the Meteor application.  A handler reads the document, works for a      *)
(* while, and then sends one update, which the database applies atomically *)
(* (MutationGate), possibly after the handler has given up waiting.        *)
(***************************************************************************)
EXTENDS Naturals, FiniteSets

CONSTANTS
    Logins,       \* login requests; a login that issues a token names it
    Logouts,      \* logout requests
    Hashes,       \* bcrypt verifiers the account may have
    Password,     \* Password[l]: the verifier the password of l satisfies
    Initially,    \* the policies the account may start with
    Expiration,   \* LoginExpiration
    MaxEdits,     \* bound: changes of the account from elsewhere
    MaxClock      \* bound: the time

ASSUME SessionAssumption ==
    /\ Password \in [Logins -> Hashes]
    /\ Logins \cap Logouts = {}
    /\ Expiration \in Nat \ {0} /\ MaxEdits \in Nat /\ MaxClock \in Nat

Flags == {"absent", "false", "true"}
Methods == {"password", "ldap"}
(* twoFactor stands for the fields that must be absent when the token is   *)
(* stored, other for the providers that are looked at only when the        *)
(* account is found.                                                       *)
Policy == [disabled : Flags, bcrypt : Hashes, method : Methods,
           twoFactor : BOOLEAN, other : BOOLEAN]
Token == [hash : Logins, when : 0 .. MaxClock]
Account == [policy : Policy, tokens : SUBSET Token]

ASSUME PolicyAssumption == Initially \subseteq Policy

VARIABLES
    account,   \* the document: policy fields and tokens
    login,     \* login[l]: phase, observed account and timestamp
    logout,    \* logout[q]: phase, token and scope
    pending,   \* requests whose update the database has not finished
    outcome,   \* outcome[x]: what the database made of the update of x
    clock, edits,
    revoked    \* history: the tokens that have been removed

accountVars == <<account, login, logout, pending, outcome, clock, edits, revoked>>

loginDisabled(flag) == flag = "true"

Held(tokens) == {t.hash : t \in tokens}

Stored(l) == l \in Held(account.tokens)

(* What authenticate requires of a bearer token.                           *)
Accepted(l) ==
    /\ ~loginDisabled(account.policy.disabled)
    /\ \E t \in account.tokens :
          t.hash = l /\ t.when <= clock /\ clock < t.when + Expiration

(* The account's tokens become ts.                                         *)
Retain(ts) ==
    /\ account' = [account EXCEPT !.tokens = ts]
    /\ revoked' = revoked \cup (Held(account.tokens) \ Held(ts))

-----------------------------------------------------------------------------
(* POST /users/login                                                       *)

(* Only enabled accounts with a local password can log in here.            *)
Local(p) ==
    /\ ~loginDisabled(p.disabled) /\ p.method = "password"
    /\ ~p.twoFactor /\ ~p.other

Find(l) ==
    /\ login[l].phase = "new"
    /\ login' = [login EXCEPT ![l] =
            [phase |-> IF Local(account.policy) /\ account.policy.bcrypt = Password[l]
                       THEN "verified" ELSE "rejected",
             seen |-> account, when |-> @.when]]
    /\ UNCHANGED <<account, logout, pending, outcome, clock, edits, revoked>>

Issue(l) ==
    /\ login[l].phase = "verified"
    /\ login' = [login EXCEPT ![l].phase = "sent", ![l].when = clock]
    /\ pending' = pending \cup {l}
    /\ UNCHANGED <<account, logout, outcome, clock, edits, revoked>>

Same(field, l, p) == p[field] = login[l].seen.policy[field]

(* Mutant of Selector: the disabled flag is not compared.                  *)
Selector_AnyFlag(l, p) ==
    Same("bcrypt", l, p) /\ Same("method", l, p) /\ ~p.twoFactor

(* The filter of the update compares the account with the one observed.    *)
Selector(l, p) ==
    /\ Same("disabled", l, p) /\ Same("bcrypt", l, p) /\ Same("method", l, p)
    /\ ~p.twoFactor

Stamped(l) == [hash |-> l, when |-> login[l].when]

(* Mutant of AddToken: the array found at the start is extended and set.   *)
AddToken_ToObserved(l) == login[l].seen.tokens \cup {Stamped(l)}

(* $addToSet *)
AddToken(l) == account.tokens \cup {Stamped(l)}

ApplyLogin(l) ==
    /\ l \in pending
    /\ pending' = pending \ {l}
    /\ \/ /\ Selector(l, account.policy)
          /\ account' = [account EXCEPT !.tokens = AddToken(l)]
          /\ outcome' = [outcome EXCEPT ![l] = "matched"]
       \/ /\ ~Selector(l, account.policy)
          /\ outcome' = [outcome EXCEPT ![l] = "unmatched"]
          /\ UNCHANGED account
    /\ UNCHANGED <<login, logout, clock, edits, revoked>>

LoginReply(l) ==
    /\ login[l].phase = "sent" /\ outcome[l] # "none"
    /\ login' = [login EXCEPT ![l].phase =
            CASE outcome[l] = "matched"   -> "ok"
              [] outcome[l] = "unmatched" -> "rejected"
              [] outcome[l] = "failed"    -> "error"]
    /\ UNCHANGED <<account, logout, pending, outcome, clock, edits, revoked>>

(* The context of the request ends while the update is under way.          *)
LoginTimeout(l) ==
    /\ login[l].phase = "sent"
    /\ login' = [login EXCEPT ![l].phase = "error"]
    /\ UNCHANGED <<account, logout, pending, outcome, clock, edits, revoked>>

-----------------------------------------------------------------------------
(* POST /users/logout                                                      *)

(* A client has the tokens of the logins that were answered with one.      *)
Issued == {l \in Logins : login[l].phase = "ok"}

Authenticate(q, l, all) ==
    /\ logout[q].phase = "new"
    /\ l \in Issued
    /\ logout' = [logout EXCEPT ![q] =
            [phase |-> IF Accepted(l) THEN "authenticated" ELSE "unauthorized",
             token |-> {l}, all |-> all, before |-> Issued]]
    /\ UNCHANGED <<account, login, pending, outcome, clock, edits, revoked>>

SendLogout(q) ==
    /\ logout[q].phase = "authenticated"
    /\ logout' = [logout EXCEPT ![q].phase = "sent"]
    /\ pending' = pending \cup {q}
    /\ UNCHANGED <<account, login, outcome, clock, edits, revoked>>

(* Mutant of Kept: only the tokens the client sent are removed.            *)
Kept_Others(q) == {t \in account.tokens : t.hash \notin logout[q].token}

(* $pull of the token, or $set of an empty array.                          *)
Kept(q) ==
    IF logout[q].all THEN {} ELSE {t \in account.tokens : t.hash \notin logout[q].token}

ApplyLogout(q) ==
    /\ q \in pending
    /\ pending' = pending \ {q}
    /\ Retain(Kept(q))
    /\ outcome' = [outcome EXCEPT ![q] = "matched"]
    /\ UNCHANGED <<login, logout, clock, edits>>

LogoutReply(q) ==
    /\ logout[q].phase = "sent" /\ outcome[q] # "none"
    /\ logout' = [logout EXCEPT ![q].phase = IF outcome[q] = "failed" THEN "error" ELSE "ok"]
    /\ UNCHANGED <<account, login, pending, outcome, clock, edits, revoked>>

LogoutTimeout(q) ==
    /\ logout[q].phase = "sent"
    /\ logout' = [logout EXCEPT ![q].phase = "error"]
    /\ UNCHANGED <<account, login, pending, outcome, clock, edits, revoked>>

-----------------------------------------------------------------------------
(* The database, the security reporter, and the Meteor application.        *)

(* The database ends the update with an error and has not applied it.      *)
FailUpdate(x) ==
    /\ x \in pending
    /\ pending' = pending \ {x}
    /\ outcome' = [outcome EXCEPT ![x] = "failed"]
    /\ UNCHANGED <<account, login, logout, clock, edits, revoked>>

Edit == edits < MaxEdits /\ edits' = edits + 1

(* The block keeps the tokens: authenticate refuses them.                  *)
BlockSecurityAccount ==
    /\ Edit
    /\ account' = [account EXCEPT !.policy.disabled = "true"]
    /\ UNCHANGED <<login, logout, pending, outcome, clock, revoked>>

(* Meteor's disable also unsets the tokens.                                *)
Disable ==
    /\ Edit
    /\ account' = [policy |-> [account.policy EXCEPT !.disabled = "true"], tokens |-> {}]
    /\ revoked' = revoked \cup Held(account.tokens)
    /\ UNCHANGED <<login, logout, pending, outcome, clock>>

(* Enabling, a new password, another way to authenticate, two factors, ... *)
ChangePolicy(p) ==
    /\ Edit
    /\ \E f \in DOMAIN p : \A g \in DOMAIN p \ {f} : p[g] = account.policy[g]
    /\ account' = [account EXCEPT !.policy = p]
    /\ UNCHANGED <<login, logout, pending, outcome, clock, revoked>>

ClockTicks ==
    /\ clock < MaxClock
    /\ clock' = clock + 1
    /\ UNCHANGED <<account, login, logout, pending, outcome, edits, revoked>>

AccountInit ==
    /\ account \in [policy : Initially, tokens : {{}}]
    /\ login = [l \in Logins |-> [phase |-> "new", seen |-> account, when |-> 0]]
    /\ logout = [q \in Logouts |->
                   [phase |-> "new", token |-> {}, all |-> FALSE, before |-> {}]]
    /\ pending = {}
    /\ outcome = [x \in Logins \cup Logouts |-> "none"]
    /\ clock = 0 /\ edits = 0
    /\ revoked = {}

LoginStep(l) ==
    Find(l) \/ Issue(l) \/ ApplyLogin(l) \/ LoginReply(l) \/ LoginTimeout(l)

LogoutStep(q) ==
    \/ \E l \in Logins, all \in BOOLEAN : Authenticate(q, l, all)
    \/ SendLogout(q) \/ ApplyLogout(q) \/ LogoutReply(q) \/ LogoutTimeout(q)

AccountNext ==
    \/ \E l \in Logins : LoginStep(l)
    \/ \E q \in Logouts : LogoutStep(q)
    \/ \E x \in Logins \cup Logouts : FailUpdate(x)
    \/ BlockSecurityAccount \/ Disable \/ ClockTicks
    \/ \E p \in Policy : ChangePolicy(p)

AccountSpec == AccountInit /\ [][AccountNext]_accountVars
-----------------------------------------------------------------------------
LoginPhases == {"new", "verified", "sent", "ok", "rejected", "error"}
LogoutPhases == {"new", "authenticated", "sent", "ok", "unauthorized", "error"}

AccountTypeOK ==
    /\ account \in Account
    /\ login \in [Logins -> [phase : LoginPhases, seen : Account, when : 0 .. MaxClock]]
    /\ logout \in [Logouts -> [phase : LogoutPhases, token : SUBSET Logins,
                               all : BOOLEAN, before : SUBSET Logins]]
    /\ pending \subseteq Logins \cup Logouts
    /\ outcome \in [Logins \cup Logouts -> {"none", "matched", "unmatched", "failed"}]
    /\ clock \in 0 .. MaxClock /\ edits \in 0 .. MaxEdits
    /\ revoked \subseteq Logins

(* "A concurrent disable, LDAP switch or 2FA enable cannot be bypassed":   *)
(* in the step that stores a token the account is enabled, authenticates   *)
(* with the password that was presented and with nothing else, however     *)
(* long ago that was verified and whether or not the handler still waits.  *)
IssuedUnderPolicy ==
    [][\A l \in Logins : Stored(l)' /\ ~Stored(l) =>
           /\ ~loginDisabled(account.policy.disabled)
           /\ account.policy.bcrypt = Password[l]
           /\ account.policy.method = "password"
           /\ ~account.policy.twoFactor]_accountVars

(* A login that was answered with a token has a session until the token    *)
(* expires, is removed, or the account is disabled: no other login, logout *)
(* or edit costs it the session.                                           *)
SessionHonoured ==
    \A l \in Issued :
        \/ Accepted(l)
        \/ l \in revoked
        \/ loginDisabled(account.policy.disabled)
        \/ clock >= login[l].when + Expiration

(* A token that was removed, by logout or by a disable, is never stored    *)
(* again, not even by an update that its handler has given up.             *)
RevokedStaysOut == \A l \in revoked : ~Stored(l)

(* An acknowledged logout has ended its session; one of all sessions has   *)
(* ended every session that anyone had been given when it began.           *)
LogoutFinal ==
    \A q \in Logouts : logout[q].phase = "ok" =>
        \A l \in logout[q].token \cup (IF logout[q].all THEN logout[q].before ELSE {}) :
            ~Stored(l) /\ l \in revoked
=============================================================================
