---------------------------- MODULE LoginThrottle ----------------------------
(***************************************************************************)
(* The per-address login throttle of the REST API (internal/api/api.go).   *)
(* Every POST /users/login handler calls begin, verifies a password, and   *)
(* calls finish in a defer.  Handlers run concurrently; begin and finish   *)
(* hold the service mutex, so each is one action.  What happens between    *)
(* them (body, account lookup, bcrypt, token update) is the Verdict a      *)
(* finish reports; AccountSessions models it.                              *)
(***************************************************************************)
EXTENDS Integers, FiniteSets, Sequences

CONSTANTS
    Keys,          \* client keys: the addresses clientKey resolves
    Handlers,      \* concurrent login handlers (one per HTTP request in flight)
    MaxFailures,   \* options.LoginMaxFailures
    Window,        \* options.LoginFailureWindow
    Lockout,       \* options.LoginLockout
    Capacity,      \* retained keys: 10000 in begin
    MaxTime        \* bound of the model: the last instant explored

ASSUME ThrottleAssumption ==
    /\ MaxFailures \in Nat \ {0}
    /\ Window \in Nat \ {0}
    /\ Lockout \in Nat \ {0}
    /\ Capacity \in Nat \ {0}
    /\ MaxTime \in Nat

VARIABLES
    attempts,   \* s.attempts: the retained keys and their counters
    handler,    \* what each handler is doing, and for which key
    now,        \* the monotonic clock
    admitted    \* history: per key, the instants at which begin admitted a
                \* handler since the key's last successful login

vars == <<attempts, handler, now, admitted>>

-----------------------------------------------------------------------------
(* The zero time.Time of a.until; instants of the clock are 1, 2, ...      *)
NoLock == 0

Attempt == [failures : Nat, since : Nat, until : Nat, busy : BOOLEAN]

Idle == [state |-> "idle"]

Verifying(k) == [state |-> "verifying", key |-> k]

Fresh == [failures |-> 0, since |-> now, until |-> NoLock, busy |-> FALSE]

-----------------------------------------------------------------------------
(* begin *)

(* Mutants of Stale: a sweep that forgets busy, one that forgets the lock.  *)
Stale_EvenIfBusy(a) == now > a.until /\ now - a.since > Window
Stale_EvenIfLocked(a) == ~a.busy /\ now - a.since > Window

(* The entries the sweep at the head of begin deletes.                     *)
Stale(a) == ~a.busy /\ now > a.until /\ now - a.since > Window

Retained == {k \in DOMAIN attempts : ~Stale(attempts[k])}

(* Mutant of Expired: the lock ends one instant early.                     *)
Expired_Early(a) == a.until # NoLock /\ now + 1 >= a.until

(* A retained entry whose lock has run out starts over.                    *)
Expired(a) == a.until # NoLock /\ now >= a.until

(* What begin finds for key k after the sweep, a creation or a reset.      *)
Entry(k) ==
    IF k \notin Retained \/ Expired(attempts[k]) THEN Fresh ELSE attempts[k]

(* The map begin leaves when it gives k the entry e.                       *)
Keeping(k, e) ==
    [x \in Retained \cup {k} |-> IF x = k THEN e ELSE attempts[x]]

MapFull(k) == k \notin Retained /\ Cardinality(Retained) >= Capacity

Blocked(e) == e.busy \/ now < e.until

Admit(h, k) ==
    /\ handler[h] = Idle
    /\ ~MapFull(k)
    /\ ~Blocked(Entry(k))
    /\ attempts' = Keeping(k, [Entry(k) EXCEPT !.busy = TRUE])
    /\ handler' = [handler EXCEPT ![h] = Verifying(k)]
    /\ admitted' = [admitted EXCEPT ![k] = Append(@, now)]
    /\ UNCHANGED now

(* 429: the handler returns at once, and the sweep has still run.          *)
Refuse(h, k) ==
    /\ handler[h] = Idle
    /\ \/ MapFull(k) /\ attempts' = [x \in Retained |-> attempts[x]]
       \/ ~MapFull(k) /\ Blocked(Entry(k)) /\ attempts' = Keeping(k, Entry(k))
    /\ UNCHANGED <<handler, now, admitted>>

-----------------------------------------------------------------------------
(* finish *)

(* Success deletes the entry.                                              *)
FinishSuccess(h) ==
    /\ handler[h].state = "verifying"
    /\ LET k == handler[h].key IN
       /\ attempts' = [x \in DOMAIN attempts \ {k} |-> attempts[x]]
       /\ admitted' = [admitted EXCEPT ![k] = <<>>]
    /\ handler' = [handler EXCEPT ![h] = Idle]
    /\ UNCHANGED now

(* Mutant of Failed: the failure is not counted.                           *)
Failed_Uncounted(a) == [a EXCEPT !.busy = FALSE]

(* The entry finish leaves after a failure.                                *)
Failed(a) ==
    [a EXCEPT !.busy = FALSE,
              !.failures = @ + 1,
              !.until = IF a.failures + 1 >= MaxFailures THEN now + Lockout ELSE @]

(* 400, 401, 500 and a panic in the handler all count as failures; finish  *)
(* returns early when the entry is gone.                                   *)
FinishFailure(h) ==
    /\ handler[h].state = "verifying"
    /\ LET k == handler[h].key IN
       attempts' = IF k \in DOMAIN attempts
                   THEN [attempts EXCEPT ![k] = Failed(@)]
                   ELSE attempts
    /\ handler' = [handler EXCEPT ![h] = Idle]
    /\ UNCHANGED <<now, admitted>>

-----------------------------------------------------------------------------
Tick ==
    /\ now < MaxTime
    /\ now' = now + 1
    /\ UNCHANGED <<attempts, handler, admitted>>

Init ==
    /\ attempts = [k \in {} |-> Fresh]
    /\ handler = [h \in Handlers |-> Idle]
    /\ now = 1
    /\ admitted = [k \in Keys |-> <<>>]

Next ==
    \/ \E h \in Handlers, k \in Keys : Admit(h, k) \/ Refuse(h, k)
    \/ \E h \in Handlers : FinishSuccess(h) \/ FinishFailure(h)
    \/ Tick

Spec == Init /\ [][Next]_vars

-----------------------------------------------------------------------------
TypeOK ==
    /\ attempts \in [DOMAIN attempts -> Attempt]
    /\ DOMAIN attempts \subseteq Keys
    /\ handler \in [Handlers -> {Idle} \cup {Verifying(k) : k \in Keys}]
    /\ now \in Nat \ {0}
    /\ admitted \in [Keys -> Seq(Nat)]

VerifyingFor(k) == {h \in Handlers : handler[h] = Verifying(k)}

(* Password work is serialised per address: an entry is busy exactly while *)
(* one handler verifies for it, and no handler verifies for an address     *)
(* whose entry the sweep of another request's begin has dropped.           *)
OneVerificationPerKey ==
    \A k \in Keys :
        /\ \A g, h \in VerifyingFor(k) : g = h
        /\ VerifyingFor(k) # {} <=> (k \in DOMAIN attempts /\ attempts[k].busy)

(* No entry collects more than LoginMaxFailures failures, and the failure  *)
(* that reaches the limit has locked the address.                          *)
FailuresBounded ==
    \A k \in DOMAIN attempts :
        /\ attempts[k].failures <= MaxFailures
        /\ attempts[k].failures = MaxFailures <=> attempts[k].until # NoLock

Shorter == IF Window < Lockout THEN Window ELSE Lockout

(* The admissions one window or lock can follow another with.              *)
Burst == IF MaxFailures = 1 THEN 1 ELSE 2 * MaxFailures - 2

(* The rate the throttle really enforces.  Windows are fixed, not sliding: *)
(* a sweep at the end of a window starts a new one with all its failures   *)
(* allowed.  An address that does not succeed is still admitted at most    *)
(* Burst times within less than the shorter of window and lockout.         *)
AdmissionRate ==
    \A k \in Keys : \A i, j \in 1 .. Len(admitted[k]) :
        j - i >= Burst => admitted[k][j] - admitted[k][i] >= Shorter

(* An address that fails MaxFailures times in a row within its window is   *)
(* shut out: the next admission is at least Lockout after the last one.    *)
LockoutServed ==
    [][\A k \in Keys :
        (/\ k \in DOMAIN attempts
         /\ attempts[k].failures = MaxFailures
         /\ admitted'[k] # admitted[k]
         /\ admitted'[k] # <<>>)
        => now >= admitted[k][Len(admitted[k])] + Lockout]_vars
=============================================================================
