----------------------------- MODULE LoginProofs -----------------------------
(***************************************************************************)
(* Proofs about the two sides of a login: LoginThrottle for every set of   *)
(* addresses and handlers and every value of its limits, AccountSessions   *)
(* for any requests, passwords, policies and bounds.                       *)
(*                                                                         *)
(* The invariants the runs check are not inductive.  Those of the throttle *)
(* say nothing of how the counters of an entry relate to the history of    *)
(* admissions: EntryOK and Rested supply that relation.  Those of the      *)
(* account speak of answered requests: AccountInv follows an update from   *)
(* its handler through the database, which requests may have one under     *)
(* way, and what a finished one has done to the tokens.                    *)
(***************************************************************************)
EXTENDS LoginThrottle, AccountSessions, TLAPS

(* Admissions the entry a has seen: its failures and the one in progress.  *)
Seen(a) == a.failures + (IF a.busy THEN 1 ELSE 0)

Ordered(s, t) ==
    \A i, j \in 1 .. Len(s) : i <= j => s[i] <= s[j] /\ s[j] <= t

Rated(s) == \A i, j \in 1 .. Len(s) : j - i >= Burst => s[j] - s[i] >= Shorter

(* A new entry at t cannot exceed the rate, whatever it goes on to admit.  *)
Rested(s, t) ==
    \A i \in 1 .. Len(s) : i <= Len(s) - MaxFailures + 2 => s[i] + Shorter <= t

(* The last Seen(a) admissions of s belong to the entry a, which began     *)
(* with the first of them; its lock counts from after the last of them.    *)
EntryOK(a, s) ==
    /\ Seen(a) >= 1 /\ Seen(a) <= Len(s) /\ Seen(a) <= MaxFailures
    /\ a.failures = MaxFailures <=> a.until # NoLock
    /\ s[Len(s) - Seen(a) + 1] = a.since
    /\ a.until # NoLock => s[Len(s)] + Lockout <= a.until
    /\ \A i \in 1 .. Len(s) :
          (i <= Len(s) - Seen(a) /\ i <= Len(s) - Seen(a) - MaxFailures + 2)
          => s[i] + Shorter <= a.since

HistoryOK(k) ==
    /\ Ordered(admitted[k], now)
    /\ Rated(admitted[k])
    /\ k \in DOMAIN attempts => EntryOK(attempts[k], admitted[k])
    /\ k \notin DOMAIN attempts => Rested(admitted[k], now)

IInv == TypeOK /\ OneVerificationPerKey /\ \A k \in Keys : HistoryOK(k)

-----------------------------------------------------------------------------
(* Facts about one history.                                                *)

LEMMA AppendFacts ==
    ASSUME NEW s \in Seq(Nat), NEW t \in Nat
    PROVE  /\ Append(s, t) \in Seq(Nat)
           /\ Len(s) \in Nat
           /\ Len(Append(s, t)) = Len(s) + 1
           /\ \A i \in 1 .. Len(s) : Append(s, t)[i] = s[i] /\ s[i] \in Nat
           /\ Append(s, t)[Len(s) + 1] = t
OBVIOUS

(* An entry that is swept, or whose lock has run out, leaves its address   *)
(* rested.                                                                 *)
LEMMA EndedEntryRested ==
    ASSUME NEW a \in Attempt, NEW s \in Seq(Nat), NEW t \in Nat,
           Ordered(s, t), EntryOK(a, s),
           \/ ~a.busy /\ t > a.until /\ t - a.since > Window
           \/ a.until # NoLock /\ t >= a.until
    PROVE  Rested(s, t)
<1> SUFFICES ASSUME NEW i \in 1 .. Len(s), i <= Len(s) - MaxFailures + 2
             PROVE  s[i] + Shorter <= t
    BY DEF Rested
<1> DEFINE n == Len(s)
<1>1. /\ n \in Nat /\ s[i] \in Nat /\ Shorter \in Nat
      /\ Shorter <= Window /\ Shorter <= Lockout /\ n >= 1 /\ s[n] \in Nat
    BY AppendFacts, ThrottleAssumption DEF Shorter
<1>2. CASE a.until # NoLock
    <2>1. s[i] <= s[n]
        BY <1>1 DEF Ordered
    <2>2. s[n] + Lockout <= a.until /\ t >= a.until
        BY <1>2 DEF EntryOK, Attempt, NoLock
    <2>3. QED
        BY <1>1, <2>1, <2>2, ThrottleAssumption DEF Attempt
<1>3. CASE a.until = NoLock
    <2>1. t - a.since > Window /\ ~a.busy
        BY <1>3
    <2>2. Seen(a) <= MaxFailures - 1 /\ Seen(a) \in Nat /\ Seen(a) >= 1 /\ Seen(a) <= n
        BY <1>3, <2>1, ThrottleAssumption DEF EntryOK, Seen, Attempt
    <2>3. i <= n - Seen(a) + 1 /\ n - Seen(a) + 1 \in 1 .. n
        <3> DEFINE c == Seen(a)
        <3>1. c \in Nat /\ c >= 1 /\ c <= n /\ c <= MaxFailures - 1
            BY <2>2
        <3>2. i \in Nat /\ i <= n - MaxFailures + 2
            BY <1>1
        <3> HIDE DEF c, n
        <3>3. i <= n - c + 1 /\ n - c + 1 \in 1 .. n
            BY <1>1, <3>1, <3>2, ThrottleAssumption
        <3>4. QED
            BY <3>3 DEF c
    <2>4. s[i] <= a.since
        BY <2>3 DEF Ordered, EntryOK
    <2>5. QED
        BY <1>1, <2>1, <2>4, ThrottleAssumption DEF Attempt
<1>4. QED
    BY <1>2, <1>3

(* Admitting a handler on a fresh entry.                                   *)
LEMMA FreshAdmission ==
    ASSUME NEW s \in Seq(Nat), NEW t \in Nat,
           Ordered(s, t), Rated(s), Rested(s, t),
           NEW a \in Attempt,
           a = [failures |-> 0, since |-> t, until |-> NoLock, busy |-> TRUE]
    PROVE  /\ Ordered(Append(s, t), t)
           /\ Rated(Append(s, t))
           /\ EntryOK(a, Append(s, t))
<1> DEFINE n == Len(s)
           u == Append(s, t)
<1>1. /\ u \in Seq(Nat) /\ n \in Nat /\ Len(u) = n + 1 /\ u[n + 1] = t
      /\ \A i \in 1 .. n : u[i] = s[i] /\ s[i] \in Nat
    BY AppendFacts
<1>2. Ordered(u, t)
    <2> SUFFICES ASSUME NEW i \in 1 .. Len(u), NEW j \in 1 .. Len(u), i <= j
                 PROVE  u[i] <= u[j] /\ u[j] <= t
        BY DEF Ordered
    <2>1. CASE j = n + 1
        <3>1. CASE i = n + 1
            BY <1>1, <2>1, <3>1
        <3>2. CASE i # n + 1
            <4>1. i \in 1 .. n
                BY <1>1, <3>2
            <4>2. s[i] <= t
                BY <4>1 DEF Ordered
            <4>3. QED
                BY <1>1, <2>1, <4>1, <4>2
        <3>3. QED
            BY <3>1, <3>2
    <2>2. CASE j # n + 1
        <3>1. i \in 1 .. n /\ j \in 1 .. n
            BY <1>1, <2>2
        <3>2. QED
            BY <1>1, <3>1 DEF Ordered
    <2>3. QED
        BY <2>1, <2>2
<1>3. Rated(u)
    <2> SUFFICES ASSUME NEW i \in 1 .. Len(u), NEW j \in 1 .. Len(u),
                        j - i >= Burst
                 PROVE  u[j] - u[i] >= Shorter
        BY DEF Rated
    <2>1. Burst \in Nat /\ Burst >= 1 /\ Burst >= MaxFailures - 1 /\ Shorter \in Nat
        BY ThrottleAssumption DEF Burst, Shorter
    <2>2. i \in 1 .. n
        BY <1>1, <2>1
    <2>3. CASE j = n + 1
        <3>1. i <= n - MaxFailures + 2
            BY <1>1, <2>1, <2>3, ThrottleAssumption DEF Burst
        <3>2. s[i] + Shorter <= t
            BY <2>2, <3>1 DEF Rested
        <3>3. QED
            BY <1>1, <2>1, <2>2, <2>3, <3>2
    <2>4. CASE j # n + 1
        <3>1. j \in 1 .. n
            BY <1>1, <2>4
        <3>2. QED
            BY <1>1, <2>2, <3>1 DEF Rated
    <2>5. QED
        BY <2>3, <2>4
<1>4. Seen(a) = 1 /\ a.since = t /\ a.until = NoLock /\ a.failures = 0
    BY DEF Seen
<1>5. EntryOK(a, u)
    <2>1. \A i \in 1 .. Len(u) :
             (i <= Len(u) - 1 /\ i <= Len(u) - 1 - MaxFailures + 2)
             => u[i] + Shorter <= t
        BY <1>1, ThrottleAssumption DEF Rested
    <2>2. /\ Len(u) - Seen(a) = n
          /\ Len(u) - Seen(a) - MaxFailures + 2 = Len(u) - 1 - MaxFailures + 2
          /\ Len(u) - Seen(a) = Len(u) - 1
          /\ Seen(a) >= 1 /\ Seen(a) <= Len(u) /\ Seen(a) <= MaxFailures
        BY <1>1, <1>4, ThrottleAssumption
    <2>3. u[Len(u) - Seen(a) + 1] = a.since
        BY <1>1, <1>4, <2>2
    <2>4. a.failures # MaxFailures
        BY <1>4, ThrottleAssumption
    <2>5. \A i \in 1 .. Len(u) :
             (i <= Len(u) - Seen(a) /\ i <= Len(u) - Seen(a) - MaxFailures + 2)
             => u[i] + Shorter <= a.since
        BY <1>4, <2>1, <2>2
    <2> HIDE DEF u, n
    <2>6. QED
        BY <1>4, <2>2, <2>3, <2>4, <2>5, Zenon DEF EntryOK
<1>6. QED
    BY <1>2, <1>3, <1>5

(* Admitting a handler on an entry that has failures left.                 *)
LEMMA LaterAdmission ==
    ASSUME NEW s \in Seq(Nat), NEW t \in Nat, NEW a \in Attempt,
           Ordered(s, t), Rated(s), EntryOK(a, s),
           ~a.busy, a.until = NoLock
    PROVE  /\ Ordered(Append(s, t), t)
           /\ Rated(Append(s, t))
           /\ EntryOK([a EXCEPT !.busy = TRUE], Append(s, t))
<1> DEFINE n == Len(s)
           u == Append(s, t)
           c == Seen(a)
           b == [a EXCEPT !.busy = TRUE]
<1>1. /\ u \in Seq(Nat) /\ n \in Nat /\ Len(u) = n + 1 /\ u[n + 1] = t
      /\ \A i \in 1 .. n : u[i] = s[i] /\ s[i] \in Nat
    BY AppendFacts
<1>2. /\ c \in Nat /\ c >= 1 /\ c <= n /\ c <= MaxFailures - 1
      /\ a.failures = c
    BY ThrottleAssumption DEF EntryOK, Seen, Attempt
<1>3. s[n - c + 1] = a.since /\ a.since \in Nat /\ a.since <= t
    <2>1. s[n - c + 1] = a.since /\ a.since \in Nat
        BY DEF EntryOK, Attempt
    <2> HIDE DEF c
    <2>2. n - c + 1 \in 1 .. n
        BY <1>1, <1>2
    <2>3. QED
        BY <2>1, <2>2 DEF Ordered
<1>4. /\ b \in Attempt /\ b.failures = c /\ b.busy /\ b.since = a.since
      /\ b.until = NoLock /\ Seen(b) = c + 1
    BY <1>2 DEF Attempt, Seen
<1> HIDE DEF b
<1>5. \A i \in 1 .. n : (i <= n - c /\ i <= n - c - MaxFailures + 2)
                          => s[i] + Shorter <= a.since
    BY DEF EntryOK
<1> HIDE DEF c
<1>6. Ordered(u, t)
    <2> SUFFICES ASSUME NEW i \in 1 .. Len(u), NEW j \in 1 .. Len(u), i <= j
                 PROVE  u[i] <= u[j] /\ u[j] <= t
        BY DEF Ordered
    <2>1. CASE j = n + 1 /\ i = n + 1
        BY <1>1, <2>1
    <2>2. CASE j = n + 1 /\ i # n + 1
        <3>1. i \in 1 .. n
            BY <1>1, <2>2
        <3>2. s[i] <= t
            BY <3>1 DEF Ordered
        <3>3. QED
            BY <1>1, <2>2, <3>1, <3>2
    <2>3. CASE j # n + 1
        <3>1. i \in 1 .. n /\ j \in 1 .. n
            BY <1>1, <2>3
        <3>2. QED
            BY <1>1, <3>1 DEF Ordered
    <2>4. QED
        BY <2>1, <2>2, <2>3
<1>7. Rated(u)
    <2> SUFFICES ASSUME NEW i \in 1 .. Len(u), NEW j \in 1 .. Len(u),
                        j - i >= Burst
                 PROVE  u[j] - u[i] >= Shorter
        BY DEF Rated
    <2>1. Burst = 2 * MaxFailures - 2 /\ Burst \in Nat /\ Burst >= 1
          /\ Shorter \in Nat
        BY <1>2, ThrottleAssumption DEF Burst, Shorter
    <2>2. i \in 1 .. n
        BY <1>1, <2>1
    <2>3. CASE j = n + 1
        <3>1. i <= n - c /\ i <= n - c - MaxFailures + 2
            BY <1>1, <1>2, <2>1, <2>3, ThrottleAssumption
        <3>2. s[i] + Shorter <= a.since
            BY <1>5, <2>2, <3>1
        <3>3. QED
            BY <1>1, <1>3, <2>1, <2>2, <2>3, <3>2
    <2>4. CASE j # n + 1
        <3>1. j \in 1 .. n
            BY <1>1, <2>4
        <3>2. QED
            BY <1>1, <2>2, <3>1 DEF Rated
    <2>5. QED
        BY <2>3, <2>4
<1>8. EntryOK(b, u)
    <2>1. /\ Seen(b) >= 1 /\ Seen(b) <= Len(u) /\ Seen(b) <= MaxFailures
          /\ Len(u) - Seen(b) + 1 = n - c + 1
          /\ b.failures # MaxFailures
        BY <1>1, <1>2, <1>4, ThrottleAssumption
    <2>2. u[Len(u) - Seen(b) + 1] = b.since
        BY <1>1, <1>2, <1>3, <1>4, <2>1
    <2>3. \A i \in 1 .. Len(u) :
             (i <= Len(u) - Seen(b) /\ i <= Len(u) - Seen(b) - MaxFailures + 2)
             => u[i] + Shorter <= b.since
        BY <1>1, <1>2, <1>4, <1>5, ThrottleAssumption
    <2> HIDE DEF u, n
    <2>4. QED
        BY <1>4, <2>1, <2>2, <2>3, Zenon DEF EntryOK
<1>9. QED
    BY <1>6, <1>7, <1>8 DEF b

(* finish, after a failure.                                                *)
LEMMA FailureRecorded ==
    ASSUME NEW s \in Seq(Nat), NEW t \in Nat \ {0}, NEW a \in Attempt,
           Ordered(s, t), EntryOK(a, s), a.busy,
           NEW b,
           b = [a EXCEPT !.busy = FALSE,
                         !.failures = @ + 1,
                         !.until = IF a.failures + 1 >= MaxFailures
                                   THEN t + Lockout ELSE @]
    PROVE  b \in Attempt /\ EntryOK(b, s)
<1> DEFINE n == Len(s)
<1>1. /\ n \in Nat /\ n >= 1 /\ s[n] \in Nat /\ s[n] <= t
      /\ Seen(a) = a.failures + 1 /\ a.failures + 1 <= MaxFailures
      /\ a.failures \in Nat
    <2>1. Seen(a) = a.failures + 1 /\ a.failures \in Nat
        BY DEF Seen, Attempt
    <2>2. n \in Nat /\ n >= 1 /\ a.failures + 1 <= MaxFailures
        BY <2>1, AppendFacts DEF EntryOK
    <2>3. n \in 1 .. n
        BY <2>2
    <2>4. QED
        BY <2>1, <2>2, <2>3, AppendFacts DEF Ordered
<1>2. a.until = NoLock
    BY <1>1, ThrottleAssumption DEF EntryOK
<1>3. /\ b \in Attempt /\ b.failures = a.failures + 1 /\ ~b.busy
      /\ b.since = a.since
      /\ b.until = IF a.failures + 1 >= MaxFailures THEN t + Lockout ELSE NoLock
    <2> DEFINE w == IF a.failures + 1 >= MaxFailures THEN t + Lockout ELSE a.until
    <2>1. w \in Nat /\ a.failures + 1 \in Nat
        BY <1>1, ThrottleAssumption DEF Attempt
    <2>2. w = IF a.failures + 1 >= MaxFailures THEN t + Lockout ELSE NoLock
        BY <1>2
    <2>3. b = [a EXCEPT !.busy = FALSE, !.failures = @ + 1, !.until = w]
        OBVIOUS
    <2> HIDE DEF w
    <2>4. b.until = w /\ b.failures = a.failures + 1 /\ ~b.busy
          /\ b.since = a.since /\ b \in Attempt
        BY <2>1, <2>3 DEF Attempt
    <2>5. QED
        BY <2>2, <2>4
<1>4. Seen(b) = Seen(a)
    BY <1>1, <1>3 DEF Seen
<1>5. b.failures = MaxFailures <=> b.until # NoLock
    BY <1>1, <1>3, ThrottleAssumption DEF NoLock
<1>6. b.until # NoLock => s[n] + Lockout <= b.until
    BY <1>1, <1>3, ThrottleAssumption
<1>7. EntryOK(b, s)
    BY <1>3, <1>4, <1>5, <1>6, Zenon DEF EntryOK
<1>8. QED
    BY <1>3, <1>7

(* The passage of time keeps a history ordered and rested.                 *)
LEMMA TimePasses ==
    ASSUME NEW s \in Seq(Nat), NEW t \in Nat
    PROVE  /\ Ordered(s, t) => Ordered(s, t + 1)
           /\ Rested(s, t) => Rested(s, t + 1)
<1>1. Ordered(s, t) => Ordered(s, t + 1)
    <2>1. \A j \in 1 .. Len(s) : s[j] \in Nat
        BY AppendFacts
    <2>2. \A j \in 1 .. Len(s) : s[j] <= t => s[j] <= t + 1
        BY <2>1
    <2>3. QED
        BY <2>2, Zenon DEF Ordered
<1>2. Rested(s, t) => Rested(s, t + 1)
    <2>1. \A j \in 1 .. Len(s) : s[j] + Shorter \in Nat
        BY AppendFacts, ThrottleAssumption DEF Shorter
    <2>2. \A j \in 1 .. Len(s) : s[j] + Shorter <= t => s[j] + Shorter <= t + 1
        BY <2>1
    <2>3. QED
        BY <2>2, Zenon DEF Rested
<1>3. QED
    BY <1>1, <1>2

(* A successful login clears the history.                                  *)
LEMMA EmptyHistory ==
    ASSUME NEW t \in Nat
    PROVE  /\ <<>> \in Seq(Nat) /\ Ordered(<<>>, t)
           /\ Rated(<<>>) /\ Rested(<<>>, t)
BY DEF Ordered, Rated, Rested

-----------------------------------------------------------------------------
(* The invariant is inductive.                                             *)

LEMMA InitInv == Init => IInv
<1> SUFFICES ASSUME Init PROVE IInv
    OBVIOUS
<1>1. TypeOK
    BY DEF Init, TypeOK
<1>2. OneVerificationPerKey
    BY DEF Init, OneVerificationPerKey, VerifyingFor, Idle, Verifying
<1>3. ASSUME NEW k \in Keys PROVE HistoryOK(k)
    <2>1. now \in Nat /\ admitted[k] = <<>> /\ k \notin DOMAIN attempts
        BY DEF Init
    <2>2. QED
        BY <2>1, EmptyHistory DEF HistoryOK
<1>4. QED
    BY <1>1, <1>2, <1>3 DEF IInv

(* What begin finds is typed, and what it drops or resets was at an end.   *)
LEMMA EntryFacts ==
    ASSUME IInv, NEW k \in Keys
    PROVE  /\ Entry(k) \in Attempt
           /\ Retained \subseteq DOMAIN attempts
           /\ k \in DOMAIN attempts => attempts[k] \in Attempt
           /\ Entry(k) # Fresh => k \in Retained /\ Entry(k) = attempts[k]
                                  /\ ~Expired(attempts[k])
           /\ (k \notin Retained \/ Expired(attempts[k])) =>
                 Entry(k) = Fresh /\ Rested(admitted[k], now)
<1>1. now \in Nat \ {0} /\ Fresh \in Attempt /\ admitted[k] \in Seq(Nat)
    BY DEF IInv, TypeOK, Fresh, Attempt, NoLock
<1>2. k \in DOMAIN attempts => attempts[k] \in Attempt
    BY DEF IInv, TypeOK
<1>3. Retained \subseteq DOMAIN attempts
    BY DEF Retained
<1>4. Entry(k) \in Attempt
    BY <1>1, <1>2, <1>3 DEF Entry
<1>5. ASSUME k \notin Retained \/ Expired(attempts[k])
      PROVE  Entry(k) = Fresh /\ Rested(admitted[k], now)
    <2>1. Entry(k) = Fresh
        BY <1>5 DEF Entry
    <2>2. CASE k \notin DOMAIN attempts
        BY <2>1, <2>2 DEF IInv, HistoryOK
    <2>3. CASE k \in DOMAIN attempts
        <3>1. Ordered(admitted[k], now) /\ EntryOK(attempts[k], admitted[k])
            BY <2>3 DEF IInv, HistoryOK
        <3>2. \/ Stale(attempts[k])
              \/ Expired(attempts[k])
            BY <1>5, <2>3 DEF Retained
        <3>3. QED
            BY <1>1, <1>2, <2>1, <2>3, <3>1, <3>2, EndedEntryRested
            DEF Stale, Expired
    <2>4. QED
        BY <2>2, <2>3
<1>6. QED
    BY <1>2, <1>3, <1>4, <1>5 DEF Entry

LEMMA HandlerFacts ==
    /\ \A k \in Keys : Verifying(k) # Idle
    /\ \A k, x \in Keys : Verifying(k) = Verifying(x) => k = x
    /\ \A k \in Keys : Verifying(k).state = "verifying" /\ Verifying(k).key = k
    /\ Idle.state # "verifying"
BY DEF Verifying, Idle

(* A handler that verifies for k keeps the entry of k alive and busy.      *)
LEMMA BusyKept ==
    ASSUME IInv, NEW k \in Keys, k \in DOMAIN attempts, attempts[k].busy
    PROVE  k \in Retained /\ attempts[k].until = NoLock /\ Entry(k) = attempts[k]
           /\ Blocked(Entry(k))
<1>1. ~Stale(attempts[k])
    BY DEF Stale
<1>2. k \in Retained
    BY <1>1 DEF Retained
<1>3. attempts[k].until = NoLock
    <2>1. EntryOK(attempts[k], admitted[k]) /\ attempts[k] \in Attempt
        BY DEF IInv, HistoryOK, TypeOK
    <2> DEFINE a == attempts[k]
    <2> HIDE DEF a
    <2>2. a \in Attempt /\ a.busy
        BY <2>1 DEF a
    <2>3. Seen(a) <= MaxFailures /\ (a.failures = MaxFailures <=> a.until # NoLock)
        BY <2>1 DEF EntryOK, a
    <2>4. a.failures # MaxFailures
        BY <2>2, <2>3, ThrottleAssumption DEF Attempt, Seen
    <2>5. QED
        BY <2>3, <2>4 DEF a
<1>4. QED
    BY <1>2, <1>3 DEF Entry, Expired, Blocked

(* An address the sweep alone may touch.                                   *)
LEMMA Swept ==
    ASSUME IInv, NEW x \in Keys, now' = now, admitted'[x] = admitted[x],
           x \in DOMAIN attempts' <=> x \in Retained,
           x \in Retained => attempts'[x] = attempts[x]
    PROVE  HistoryOK(x)'
<1>1. Retained \subseteq DOMAIN attempts
    BY DEF Retained
<1>2. HistoryOK(x) /\ (x \notin Retained => Rested(admitted[x], now))
    BY EntryFacts DEF IInv
<1>3. QED
    BY <1>1, <1>2 DEF HistoryOK

LEMMA AdmitInv ==
    ASSUME IInv, NEW h \in Handlers, NEW k \in Keys, Admit(h, k)
    PROVE  IInv'
<1> DEFINE b == [Entry(k) EXCEPT !.busy = TRUE]
<1>1. /\ Entry(k) \in Attempt /\ b \in Attempt /\ Retained \subseteq DOMAIN attempts
      /\ now \in Nat \ {0} /\ now' = now
      /\ attempts' = Keeping(k, b)
      /\ handler[h] = Idle /\ handler' = [handler EXCEPT ![h] = Verifying(k)]
      /\ admitted' = [admitted EXCEPT ![k] = Append(@, now)]
      /\ ~Entry(k).busy /\ ~(now < Entry(k).until)
      /\ TypeOK
    <2>1. Entry(k) \in Attempt /\ Retained \subseteq DOMAIN attempts
        BY EntryFacts
    <2>2. b \in Attempt
        BY <2>1 DEF Attempt
    <2>3. QED
        BY <2>1, <2>2 DEF Admit, Blocked, IInv, TypeOK
<1> HIDE DEF b
<1>2. /\ DOMAIN attempts' = Retained \cup {k}
      /\ attempts'[k] = b
      /\ \A x \in Retained : x # k => attempts'[x] = attempts[x]
    BY <1>1 DEF Keeping
<1>3. TypeOK'
    <2>1. DOMAIN attempts' \subseteq Keys /\ attempts' \in [DOMAIN attempts' -> Attempt]
        BY <1>1, <1>2 DEF TypeOK, Keeping
    <2>2. handler' \in [Handlers -> {Idle} \cup {Verifying(x) : x \in Keys}]
        BY <1>1 DEF TypeOK
    <2>3. admitted' \in [Keys -> Seq(Nat)]
        BY <1>1, AppendFacts DEF TypeOK
    <2>4. QED
        BY <1>1, <2>1, <2>2, <2>3 DEF TypeOK
<1>4. OneVerificationPerKey'
    <2>1. ~(k \in DOMAIN attempts /\ attempts[k].busy)
        BY <1>1, BusyKept
    <2>2. \A g \in Handlers : handler[g] # Verifying(k)
        BY <2>1 DEF IInv, OneVerificationPerKey, VerifyingFor
    <2>3. \A g \in Handlers : handler'[g] = Verifying(k) <=> g = h
        BY <1>1, <2>2 DEF TypeOK
    <2>4. \A x \in Keys : x # k =>
             /\ VerifyingFor(x)' = VerifyingFor(x)
             /\ (x \in DOMAIN attempts' /\ attempts'[x].busy)
                  <=> (x \in DOMAIN attempts /\ attempts[x].busy)
        <3> SUFFICES ASSUME NEW x \in Keys, x # k
                     PROVE  /\ VerifyingFor(x)' = VerifyingFor(x)
                            /\ (x \in DOMAIN attempts' /\ attempts'[x].busy)
                                 <=> (x \in DOMAIN attempts /\ attempts[x].busy)
            OBVIOUS
        <3>1. \A g \in Handlers : handler'[g] = Verifying(x) <=> handler[g] = Verifying(x)
            BY <1>1, HandlerFacts DEF TypeOK
        <3>2. (x \in DOMAIN attempts /\ attempts[x].busy) => x \in Retained
            BY BusyKept
        <3>3. QED
            BY <1>1, <1>2, <3>1, <3>2 DEF VerifyingFor
    <2>5. b.busy
        BY <1>1 DEF b, Attempt
    <2>6. /\ \A f, g \in VerifyingFor(k)' : f = g
          /\ VerifyingFor(k)' # {}
        BY <2>3 DEF VerifyingFor
    <2>7. QED
        BY <1>2, <2>4, <2>5, <2>6 DEF OneVerificationPerKey, IInv
<1>5. ASSUME NEW x \in Keys PROVE HistoryOK(x)'
    <2>1. CASE x # k
        <3>1. admitted'[x] = admitted[x]
            BY <1>1, <2>1 DEF TypeOK
        <3>2. QED
            BY <1>1, <1>2, <2>1, <3>1, Swept
    <2>2. CASE x = k
        <3>1. admitted[k] \in Seq(Nat) /\ admitted'[k] = Append(admitted[k], now)
            BY <1>1 DEF TypeOK
        <3>2. Ordered(admitted[k], now) /\ Rated(admitted[k])
            BY DEF IInv, HistoryOK
        <3>3. Ordered(admitted'[k], now) /\ Rated(admitted'[k])
              /\ EntryOK(b, admitted'[k])
            <4>1. CASE k \notin Retained \/ Expired(attempts[k])
                <5>1. Entry(k) = Fresh /\ Rested(admitted[k], now)
                    BY <4>1, EntryFacts
                <5>2. b = [failures |-> 0, since |-> now, until |-> NoLock, busy |-> TRUE]
                    <6>1. b = [Fresh EXCEPT !.busy = TRUE]
                        BY <5>1 DEF b
                    <6>2. QED
                        BY <6>1 DEF Fresh
                <5>3. QED
                    BY <1>1, <3>1, <3>2, <5>1, <5>2, FreshAdmission
            <4>2. CASE ~(k \notin Retained \/ Expired(attempts[k]))
                <5>1. Entry(k) = attempts[k] /\ k \in DOMAIN attempts
                    BY <1>1, <4>2 DEF Entry
                <5>2. Entry(k).until = NoLock
                    BY <1>1, <4>2, <5>1 DEF Expired, Attempt, NoLock
                <5>3. EntryOK(Entry(k), admitted[k])
                    BY <5>1 DEF IInv, HistoryOK
                <5>4. QED
                    BY <1>1, <3>1, <3>2, <5>2, <5>3, LaterAdmission DEF b
            <4>3. QED
                BY <4>1, <4>2
        <3>4. QED
            BY <1>1, <1>2, <2>2, <3>3 DEF HistoryOK
    <2>3. QED
        BY <2>1, <2>2
<1>6. QED
    BY <1>3, <1>4, <1>5 DEF IInv

LEMMA RefuseInv ==
    ASSUME IInv, NEW h \in Handlers, NEW k \in Keys, Refuse(h, k)
    PROVE  IInv'
<1>1. /\ now \in Nat \ {0} /\ now' = now /\ handler' = handler /\ admitted' = admitted
      /\ TypeOK /\ Retained \subseteq DOMAIN attempts
    BY EntryFacts DEF Refuse, IInv, TypeOK
<1>2. /\ DOMAIN attempts' = Retained
      /\ \A x \in Retained : attempts'[x] = attempts[x]
    <2>1. CASE attempts' = [x \in Retained |-> attempts[x]]
        BY <2>1
    <2>2. CASE Blocked(Entry(k)) /\ attempts' = Keeping(k, Entry(k))
        <3>1. ~Blocked(Fresh)
            BY <1>1 DEF Blocked, Fresh, NoLock
        <3>2. k \in Retained /\ Entry(k) = attempts[k]
            BY <2>2, <3>1, EntryFacts
        <3>3. QED
            BY <2>2, <3>2 DEF Keeping
    <2>3. QED
        BY <2>1, <2>2 DEF Refuse
<1>3. TypeOK'
    <2>1. attempts' = [x \in Retained |-> attempts[x]]
        <3>1. attempts' = Keeping(k, Entry(k)) \/ attempts' = [x \in Retained |-> attempts[x]]
            BY DEF Refuse
        <3>2. QED
            BY <1>2, <3>1 DEF Keeping
    <2>2. QED
        BY <1>1, <2>1 DEF TypeOK
<1>4. OneVerificationPerKey'
    <2>1. \A x \in Keys : VerifyingFor(x)' = VerifyingFor(x)
        BY <1>1 DEF VerifyingFor
    <2>2. \A x \in Keys : (x \in DOMAIN attempts /\ attempts[x].busy) => x \in Retained
        BY BusyKept
    <2>3. \A x \in Keys : (x \in DOMAIN attempts' /\ attempts'[x].busy)
                           <=> (x \in DOMAIN attempts /\ attempts[x].busy)
        BY <1>1, <1>2, <2>2
    <2>4. QED
        BY <2>1, <2>3 DEF OneVerificationPerKey, IInv
<1>5. \A x \in Keys : HistoryOK(x)'
    BY <1>1, <1>2, Swept
<1>6. QED
    BY <1>3, <1>4, <1>5 DEF IInv

LEMMA FinishSuccessInv ==
    ASSUME IInv, NEW h \in Handlers, FinishSuccess(h)
    PROVE  IInv'
<1>1. TypeOK /\ now \in Nat \ {0} /\ now' = now
    BY DEF IInv, TypeOK, FinishSuccess
<1>2. PICK k \in Keys : handler[h] = Verifying(k) /\ handler[h].key = k
    BY <1>1, HandlerFacts DEF TypeOK, FinishSuccess
<1>3. /\ attempts' = [x \in DOMAIN attempts \ {k} |-> attempts[x]]
      /\ admitted' = [admitted EXCEPT ![k] = <<>>]
      /\ handler' = [handler EXCEPT ![h] = Idle]
    BY <1>2 DEF FinishSuccess
<1>4. TypeOK'
    BY <1>1, <1>2, <1>3, EmptyHistory DEF TypeOK
<1>5. OneVerificationPerKey'
    <2>1. VerifyingFor(k)' = {}
        <3>1. \A g \in Handlers : handler[g] = Verifying(k) => g = h
            BY <1>2 DEF IInv, OneVerificationPerKey, VerifyingFor
        <3>2. QED
            BY <1>1, <1>2, <1>3, <3>1, HandlerFacts DEF VerifyingFor, TypeOK
    <2>2. \A x \in Keys : x # k => VerifyingFor(x)' = VerifyingFor(x)
        BY <1>1, <1>2, <1>3, HandlerFacts DEF VerifyingFor, TypeOK
    <2>3. QED
        BY <1>3, <2>1, <2>2 DEF OneVerificationPerKey, IInv
<1>6. ASSUME NEW x \in Keys PROVE HistoryOK(x)'
    <2>1. CASE x = k
        <3>1. admitted'[k] = <<>> /\ k \notin DOMAIN attempts'
            BY <1>1, <1>2, <1>3 DEF TypeOK
        <3>2. QED
            BY <1>1, <2>1, <3>1, EmptyHistory DEF HistoryOK
    <2>2. CASE x # k
        BY <1>1, <1>3, <2>2 DEF HistoryOK, IInv, TypeOK
    <2>3. QED
        BY <2>1, <2>2
<1>7. QED
    BY <1>4, <1>5, <1>6 DEF IInv

LEMMA FinishFailureInv ==
    ASSUME IInv, NEW h \in Handlers, FinishFailure(h)
    PROVE  IInv'
<1>1. TypeOK /\ now \in Nat \ {0} /\ now' = now /\ admitted' = admitted
    BY DEF IInv, TypeOK, FinishFailure
<1>2. PICK k \in Keys : handler[h] = Verifying(k) /\ handler[h].key = k
    BY <1>1, HandlerFacts DEF TypeOK, FinishFailure
<1> DEFINE b == Failed(attempts[k])
<1>3. k \in DOMAIN attempts /\ attempts[k].busy /\ attempts[k] \in Attempt
    BY <1>1, <1>2 DEF IInv, OneVerificationPerKey, VerifyingFor, TypeOK
<1>4. b \in Attempt /\ EntryOK(b, admitted[k]) /\ ~b.busy
    <2>1. Ordered(admitted[k], now) /\ EntryOK(attempts[k], admitted[k])
          /\ admitted[k] \in Seq(Nat)
        BY <1>1, <1>2, <1>3 DEF IInv, HistoryOK, TypeOK
    <2>2. ~b.busy
        BY <1>3 DEF Failed, Attempt
    <2>3. QED
        BY <1>1, <1>3, <2>1, <2>2, FailureRecorded DEF Failed
<1>5. /\ attempts' = [attempts EXCEPT ![k] = b]
      /\ handler' = [handler EXCEPT ![h] = Idle]
    BY <1>2, <1>3 DEF FinishFailure
<1> HIDE DEF b
<1>6. TypeOK'
    BY <1>1, <1>2, <1>3, <1>4, <1>5 DEF TypeOK
<1>7. OneVerificationPerKey'
    <2>1. VerifyingFor(k)' = {}
        <3>1. \A g \in Handlers : handler[g] = Verifying(k) => g = h
            BY <1>2 DEF IInv, OneVerificationPerKey, VerifyingFor
        <3>2. QED
            BY <1>1, <1>2, <1>5, <3>1, HandlerFacts DEF VerifyingFor, TypeOK
    <2>2. \A x \in Keys : x # k => VerifyingFor(x)' = VerifyingFor(x)
        BY <1>1, <1>2, <1>5, HandlerFacts DEF VerifyingFor, TypeOK
    <2>3. /\ ~attempts'[k].busy
          /\ DOMAIN attempts' = DOMAIN attempts
          /\ \A x \in DOMAIN attempts : x # k => attempts'[x] = attempts[x]
        BY <1>1, <1>3, <1>4, <1>5 DEF TypeOK
    <2>4. QED
        BY <2>1, <2>2, <2>3 DEF OneVerificationPerKey, IInv
<1>8. ASSUME NEW x \in Keys PROVE HistoryOK(x)'
    <2>1. CASE x = k
        <3>1. attempts'[k] = b /\ k \in DOMAIN attempts'
            BY <1>1, <1>3, <1>5 DEF TypeOK
        <3>2. QED
            BY <1>1, <1>2, <1>4, <2>1, <3>1 DEF HistoryOK, IInv
    <2>2. CASE x # k
        <3>1. DOMAIN attempts' = DOMAIN attempts /\ attempts'[x] = attempts[x]
            BY <1>1, <1>5, <2>2 DEF TypeOK
        <3>2. QED
            BY <1>1, <3>1 DEF HistoryOK, IInv
    <2>3. QED
        BY <2>1, <2>2
<1>9. QED
    BY <1>6, <1>7, <1>8 DEF IInv

LEMMA TickInv == ASSUME IInv, Tick PROVE IInv'
<1>1. /\ TypeOK /\ now \in Nat \ {0} /\ now' = now + 1
      /\ attempts' = attempts /\ handler' = handler /\ admitted' = admitted
    BY DEF IInv, TypeOK, Tick
<1>2. TypeOK'
    BY <1>1 DEF TypeOK
<1>3. OneVerificationPerKey'
    BY <1>1 DEF OneVerificationPerKey, VerifyingFor, IInv
<1>4. ASSUME NEW k \in Keys PROVE HistoryOK(k)'
    <2>1. admitted[k] \in Seq(Nat) /\ HistoryOK(k)
        BY <1>1 DEF IInv, TypeOK
    <2>2. QED
        BY <1>1, <2>1, TimePasses DEF HistoryOK
<1>5. QED
    BY <1>2, <1>3, <1>4 DEF IInv

(* The strengthened invariant holds in every reachable state: each entry   *)
(* of the attempts map accounts for the latest admissions of its address.  *)
THEOREM Inductive == Spec => []IInv
<1>1. IInv /\ [Next]_vars => IInv'
    <2> SUFFICES ASSUME IInv, [Next]_vars PROVE IInv'
        OBVIOUS
    <2>1. CASE \E h \in Handlers, k \in Keys : Admit(h, k)
        BY <2>1, AdmitInv
    <2>2. CASE \E h \in Handlers, k \in Keys : Refuse(h, k)
        BY <2>2, RefuseInv
    <2>3. CASE \E h \in Handlers : FinishSuccess(h)
        BY <2>3, FinishSuccessInv
    <2>4. CASE \E h \in Handlers : FinishFailure(h)
        BY <2>4, FinishFailureInv
    <2>5. CASE Tick
        BY <2>5, TickInv
    <2>6. CASE UNCHANGED vars
        BY <2>6 DEF vars, IInv, TypeOK, OneVerificationPerKey, VerifyingFor, HistoryOK
    <2>7. QED
        BY <2>1, <2>2, <2>3, <2>4, <2>5, <2>6 DEF Next
<1>2. QED
    BY <1>1, InitInv, PTL DEF Spec

-----------------------------------------------------------------------------
(* What the runs check on small instances, for every instance.             *)

(* The state of the throttle keeps its type.                               *)
THEOREM TypeCorrect == Spec => []TypeOK
BY Inductive, PTL DEF IInv

(* begin never lets two handlers verify passwords for one address, and no  *)
(* sweep takes away the entry of a handler still at work.                  *)
THEOREM SerialVerification == Spec => []OneVerificationPerKey
BY Inductive, PTL DEF IInv

(* No entry counts past LoginMaxFailures, and reaching it locks.           *)
THEOREM BoundedFailures == Spec => []FailuresBounded
<1>1. IInv => FailuresBounded
    <2> SUFFICES ASSUME IInv, NEW k \in DOMAIN attempts
                 PROVE  /\ attempts[k].failures <= MaxFailures
                        /\ attempts[k].failures = MaxFailures
                              <=> attempts[k].until # NoLock
        BY DEF FailuresBounded
    <2>1. EntryOK(attempts[k], admitted[k]) /\ attempts[k] \in Attempt
        BY DEF IInv, HistoryOK, TypeOK
    <2>2. QED
        BY <2>1, ThrottleAssumption DEF EntryOK, Seen, Attempt
<1>2. QED
    BY <1>1, Inductive, PTL

(* The admission rate of an address that does not succeed, for every       *)
(* setting of the three limits.                                            *)
THEOREM BoundedAdmissionRate == Spec => []AdmissionRate
<1>1. IInv => AdmissionRate
    BY DEF IInv, HistoryOK, Rated, AdmissionRate
<1>2. QED
    BY <1>1, Inductive, PTL

(* begin admits a locked address only after it has served its lockout.     *)
THEOREM LockoutIsServed == Spec => LockoutServed
<1> DEFINE Served(k) ==
        (/\ k \in DOMAIN attempts
         /\ attempts[k].failures = MaxFailures
         /\ admitted'[k] # admitted[k]
         /\ admitted'[k] # <<>>)
        => now >= admitted[k][Len(admitted[k])] + Lockout
<1>1. IInv /\ [Next]_vars => [\A k \in Keys : Served(k)]_vars
    <2> SUFFICES ASSUME IInv, Next, NEW k \in Keys,
                        k \in DOMAIN attempts,
                        attempts[k].failures = MaxFailures,
                        admitted'[k] # admitted[k], admitted'[k] # <<>>
                 PROVE  now >= admitted[k][Len(admitted[k])] + Lockout
        BY Zenon
    <2>1. TypeOK
        BY DEF IInv
    <2>2. \E h \in Handlers : Admit(h, k)
        <3>1. CASE \E h \in Handlers, x \in Keys : Admit(h, x)
            BY <2>1, <3>1 DEF Admit, TypeOK
        <3>2. CASE \E h \in Handlers : FinishSuccess(h)
            BY <2>1, <3>2 DEF FinishSuccess, TypeOK
        <3>3. CASE admitted' = admitted
            BY <3>3
        <3>4. QED
            BY <3>1, <3>2, <3>3 DEF Next, Refuse, FinishFailure, Tick
    <2>3. /\ EntryOK(attempts[k], admitted[k]) /\ attempts[k] \in Attempt
          /\ admitted[k] \in Seq(Nat) /\ now \in Nat
        BY <2>1 DEF IInv, HistoryOK, TypeOK
    <2>4. attempts[k].until # NoLock
        BY <2>3 DEF EntryOK
    <2>5. now >= attempts[k].until
        <3>1. CASE k \in Retained /\ ~Expired(attempts[k])
            <4>1. Entry(k) = attempts[k] /\ ~(now < attempts[k].until)
                BY <2>2, <3>1 DEF Entry, Admit, Blocked
            <4>2. QED
                BY <2>3, <4>1 DEF Attempt
        <3>2. CASE Expired(attempts[k])
            BY <3>2 DEF Expired
        <3>3. CASE k \notin Retained
            BY <2>3, <3>3 DEF Retained, Stale, Attempt
        <3>4. QED
            BY <3>1, <3>2, <3>3
    <2>6. admitted[k][Len(admitted[k])] + Lockout <= attempts[k].until
          /\ admitted[k][Len(admitted[k])] \in Nat
        <3>1. Len(admitted[k]) >= 1
            BY <2>3, AppendFacts DEF EntryOK, Seen, Attempt
        <3>2. QED
            BY <2>3, <2>4, <3>1, AppendFacts DEF EntryOK
    <2>7. QED
        BY <2>3, <2>5, <2>6, ThrottleAssumption DEF Attempt
<1>2. QED
    BY <1>1, Inductive, PTL DEF Spec, LockoutServed

-----------------------------------------------------------------------------
(* The account and its tokens.                                             *)

(* An update under way was sent by a login that had verified the password  *)
(* of an enabled local account.                                            *)
Verified(l) == LET p == login[l].seen.policy IN Local(p) /\ p.bcrypt = Password[l]

LoginOK(l) ==
    /\ login[l].phase \in {"new", "rejected"} => l \notin pending
    /\ login[l].phase = "new" => outcome[l] = "none"
    /\ login[l].phase = "verified" => l \notin pending /\ outcome[l] = "none" /\ Verified(l)
    /\ l \in pending => outcome[l] = "none" /\ Verified(l)
    /\ login[l].phase = "ok" => outcome[l] = "matched"
    /\ login[l].when <= clock

(* A token is stored once: when its update is applied, and until removed.  *)
TokenOK(l) ==
    /\ outcome[l] = "matched" <=> Stored(l) \/ l \in revoked
    /\ ~(Stored(l) /\ l \in revoked)

StampOK == \A t \in account.tokens : t.when = login[t.hash].when /\ t.when <= clock

Ends(q) == logout[q].token \cup (IF logout[q].all THEN logout[q].before ELSE {})

LogoutOK(q) ==
    /\ Ends(q) \subseteq Issued
    /\ logout[q].phase \in {"new", "authenticated", "unauthorized"} =>
          q \notin pending /\ outcome[q] = "none"
    /\ q \in pending => outcome[q] = "none"
    /\ outcome[q] = "matched" => Ends(q) \subseteq revoked
    /\ logout[q].phase = "ok" => outcome[q] = "matched"
    /\ outcome[q] # "unmatched"

AccountInv ==
    /\ AccountTypeOK
    /\ \A l \in Logins : LoginOK(l) /\ TokenOK(l)
    /\ StampOK
    /\ \A q \in Logouts : LogoutOK(q)

-----------------------------------------------------------------------------
LEMMA AccountInitInv == AccountInit => AccountInv
<1> SUFFICES ASSUME AccountInit PROVE AccountInv
    OBVIOUS
<1>1. AccountTypeOK
    BY SessionAssumption, PolicyAssumption
    DEF AccountInit, AccountTypeOK, Account, Token, LoginPhases, LogoutPhases
<1>2. \A l \in Logins : LoginOK(l) /\ TokenOK(l)
    BY SessionAssumption DEF AccountInit, LoginOK, TokenOK, Stored, Held
<1>3. StampOK
    BY DEF AccountInit, StampOK
<1>4. \A q \in Logouts : LogoutOK(q)
    BY SessionAssumption DEF AccountInit, LogoutOK, Ends, Issued
<1>5. QED
    BY <1>1, <1>2, <1>3, <1>4 DEF AccountInv

(* Steps of a login that leave the account alone.                          *)
LEMMA LoginStepInv ==
    ASSUME AccountInv, NEW l \in Logins,
           Find(l) \/ Issue(l) \/ LoginReply(l) \/ LoginTimeout(l)
    PROVE  AccountInv'
<1> USE SessionAssumption
<1>1. AccountTypeOK'
    <2> USE DEF AccountInv, AccountTypeOK, LoginPhases
    <2>1. CASE Find(l)
        BY <2>1 DEF Find
    <2>2. CASE Issue(l)
        <3>1. [login[l] EXCEPT !.phase = "sent", !.when = clock]
                \in [phase : LoginPhases, seen : Account, when : 0 .. MaxClock]
            OBVIOUS
        <3>2. login' = [login EXCEPT ![l] = [login[l] EXCEPT !.phase = "sent", !.when = clock]]
            BY <2>2 DEF Issue
        <3>3. QED
            BY <2>2, <3>1, <3>2 DEF Issue
    <2>3. CASE LoginReply(l)
        <3>1. outcome[l] \in {"matched", "unmatched", "failed"}
            BY <2>3 DEF LoginReply
        <3>2. QED
            BY <2>3, <3>1 DEF LoginReply
    <2>4. CASE LoginTimeout(l)
        BY <2>4 DEF LoginTimeout
    <2>5. QED
        BY <2>1, <2>2, <2>3, <2>4
<1>2. /\ UNCHANGED <<account, logout, outcome, clock, edits, revoked>>
      /\ \A m \in Logins \ {l} : login'[m] = login[m]
      /\ \A m \in Logins \ {l} : m \in pending' <=> m \in pending
      /\ \A q \in Logouts : q \in pending' <=> q \in pending
    BY DEF Find, Issue, LoginReply, LoginTimeout, AccountInv, AccountTypeOK
<1>3. LoginOK(l)'
    <2> USE DEF AccountInv, AccountTypeOK, LoginOK, Verified, LoginPhases, Account
    <2>1. CASE Find(l)
        BY <2>1 DEF Find
    <2>2. CASE Issue(l)
        BY <2>2 DEF Issue
    <2>3. CASE LoginReply(l)
        <3>1. outcome[l] \in {"matched", "unmatched", "failed"}
            BY <2>3 DEF LoginReply
        <3>2. QED
            BY <2>3, <3>1 DEF LoginReply
    <2>4. CASE LoginTimeout(l)
        BY <2>4 DEF LoginTimeout
    <2>5. QED
        BY <2>1, <2>2, <2>3, <2>4
<1>4. \A m \in Logins : LoginOK(m)'
    BY <1>2, <1>3 DEF AccountInv, LoginOK, Verified
<1>5. \A m \in Logins : TokenOK(m)'
    BY <1>2 DEF AccountInv, TokenOK, Stored
<1>6. login'[l].when = login[l].when \/ ~Stored(l)
    BY DEF Find, Issue, LoginReply, LoginTimeout, AccountInv, AccountTypeOK, LoginOK, TokenOK
<1>7. StampOK'
    <2> SUFFICES ASSUME NEW t \in account.tokens
                 PROVE  t.when = login'[t.hash].when /\ t.when <= clock
        BY <1>2 DEF StampOK
    <2>1. t.hash \in Logins /\ Stored(t.hash)
        BY DEF AccountInv, AccountTypeOK, Account, Token, Stored, Held
    <2>2. login'[t.hash].when = login[t.hash].when
        BY <1>2, <1>6, <2>1
    <2>3. QED
        BY <2>2 DEF AccountInv, StampOK
<1>8. Issued \subseteq Issued'
    <2>1. login[l].phase # "ok"
        BY DEF Find, Issue, LoginReply, LoginTimeout
    <2>2. QED
        BY <1>2, <2>1 DEF Issued
<1>9. \A q \in Logouts : LogoutOK(q)'
    BY <1>2, <1>8 DEF AccountInv, LogoutOK, Ends
<1>10. QED
    BY <1>1, <1>4, <1>5, <1>7, <1>9 DEF AccountInv

LEMMA ApplyLoginInv ==
    ASSUME AccountInv, NEW l \in Logins, ApplyLogin(l)
    PROVE  AccountInv'
<1> USE SessionAssumption
<1>1. /\ UNCHANGED <<login, logout, clock, edits, revoked>>
      /\ pending' = pending \ {l} /\ l \in pending
      /\ account.policy' = account.policy
      /\ \A x \in (Logins \cup Logouts) \ {l} : outcome'[x] = outcome[x]
    BY DEF ApplyLogin, AccountInv, AccountTypeOK, Account
<1>2. outcome[l] = "none" /\ ~Stored(l) /\ l \notin revoked
    BY <1>1 DEF AccountInv, LoginOK, TokenOK
<1>3. Stamped(l) \in Token /\ Stamped(l).hash = l /\ Stamped(l).when = login[l].when
    BY DEF Stamped, Token, AccountInv, AccountTypeOK
<1>4. \/ /\ account.tokens' = account.tokens \cup {Stamped(l)}
         /\ outcome' = [outcome EXCEPT ![l] = "matched"]
      \/ /\ account' = account
         /\ outcome' = [outcome EXCEPT ![l] = "unmatched"]
    BY DEF ApplyLogin, AddToken, AccountInv, AccountTypeOK, Account
<1>5. AccountTypeOK'
    <2>1. account' \in Account
        BY <1>3 DEF ApplyLogin, AddToken, AccountInv, AccountTypeOK, Account
    <2>2. QED
        BY <1>1, <1>4, <2>1 DEF AccountInv, AccountTypeOK
<1>6. \A m \in Logins : LoginOK(m)'
    <2> SUFFICES ASSUME NEW m \in Logins PROVE LoginOK(m)'
        OBVIOUS
    <2>1. CASE m = l
        BY <1>1, <1>2, <2>1 DEF AccountInv, LoginOK, Verified
    <2>2. CASE m # l
        BY <1>1, <2>2 DEF AccountInv, LoginOK, Verified
    <2>3. QED
        BY <2>1, <2>2
<1>7. \A m \in Logins : TokenOK(m)'
    <2> SUFFICES ASSUME NEW m \in Logins PROVE TokenOK(m)'
        OBVIOUS
    <2>1. CASE account.tokens' = account.tokens \cup {Stamped(l)}
               /\ outcome' = [outcome EXCEPT ![l] = "matched"]
        <3>1. Stored(m)' <=> Stored(m) \/ m = l
            BY <1>3, <2>1 DEF Stored, Held
        <3>2. QED
            BY <1>1, <1>2, <2>1, <3>1 DEF AccountInv, TokenOK, AccountTypeOK
    <2>2. CASE account' = account /\ outcome' = [outcome EXCEPT ![l] = "unmatched"]
        BY <1>1, <1>2, <2>2 DEF AccountInv, TokenOK, Stored, AccountTypeOK
    <2>3. QED
        BY <1>4, <2>1, <2>2
<1>8. StampOK'
    BY <1>1, <1>3, <1>4 DEF AccountInv, StampOK, LoginOK
<1>9. \A q \in Logouts : LogoutOK(q)'
    BY <1>1 DEF AccountInv, LogoutOK, Ends, Issued
<1>10. QED
    BY <1>5, <1>6, <1>7, <1>8, <1>9 DEF AccountInv

(* Steps of a logout that leave the account alone.                         *)
LEMMA LogoutStepInv ==
    ASSUME AccountInv, NEW q \in Logouts,
           \/ \E l \in Logins, all \in BOOLEAN : Authenticate(q, l, all)
           \/ SendLogout(q) \/ LogoutReply(q) \/ LogoutTimeout(q)
    PROVE  AccountInv'
<1> USE SessionAssumption
<1>1. /\ UNCHANGED <<account, login, outcome, clock, edits, revoked>>
      /\ \A r \in Logouts \ {q} : logout'[r] = logout[r]
      /\ \A r \in Logouts \ {q} : r \in pending' <=> r \in pending
      /\ \A l \in Logins : l \in pending' <=> l \in pending
    BY DEF Authenticate, SendLogout, LogoutReply, LogoutTimeout, AccountInv, AccountTypeOK
<1>2. AccountTypeOK' /\ LogoutOK(q)'
    <2>1. CASE \E l \in Logins, all \in BOOLEAN : Authenticate(q, l, all)
        BY <2>1 DEF Authenticate, Issued, AccountInv, AccountTypeOK, LogoutPhases, LogoutOK, Ends
    <2>2. CASE SendLogout(q)
        BY <2>2 DEF SendLogout, AccountInv, AccountTypeOK, LogoutPhases, LogoutOK, Ends, Issued
    <2>3. CASE LogoutReply(q)
        <3>1. outcome[q] \in {"matched", "failed"}
            BY <2>3 DEF LogoutReply, AccountInv, AccountTypeOK, LogoutOK
        <3>2. QED
            BY <2>3, <3>1 DEF LogoutReply, AccountInv, AccountTypeOK, LogoutPhases, LogoutOK, Ends, Issued
    <2>4. CASE LogoutTimeout(q)
        BY <2>4 DEF LogoutTimeout, AccountInv, AccountTypeOK, LogoutPhases, LogoutOK, Ends, Issued
    <2>5. QED
        BY <2>1, <2>2, <2>3, <2>4
<1>3. \A l \in Logins : LoginOK(l)' /\ TokenOK(l)'
    BY <1>1 DEF AccountInv, LoginOK, Verified, TokenOK, Stored
<1>4. StampOK'
    BY <1>1 DEF AccountInv, StampOK
<1>5. \A r \in Logouts : LogoutOK(r)'
    BY <1>1, <1>2 DEF AccountInv, LogoutOK, Ends, Issued
<1>6. QED
    BY <1>2, <1>3, <1>4, <1>5 DEF AccountInv

(* An account that keeps only some of its tokens.                          *)
LEMMA RetainInv ==
    ASSUME AccountInv, NEW ts \in SUBSET account.tokens,
           account'.policy \in Policy, account'.tokens = ts,
           account' = [policy |-> account'.policy, tokens |-> ts],
           revoked' = revoked \cup (Held(account.tokens) \ Held(ts)),
           UNCHANGED <<login, clock>>,
           \A l \in Logins : outcome'[l] = outcome[l]
    PROVE  /\ account' \in Account /\ revoked' \subseteq Logins
           /\ StampOK'
           /\ \A l \in Logins : TokenOK(l)'
<1>1. account' \in Account /\ revoked' \subseteq Logins
    BY DEF AccountInv, AccountTypeOK, Account, Token, Held
<1>2. StampOK'
    BY DEF AccountInv, StampOK
<1>3. ASSUME NEW l \in Logins PROVE TokenOK(l)'
    <2>1. Stored(l)' <=> l \in Held(ts)
        BY DEF Stored
    <2>2. l \in Held(ts) => Stored(l)
        BY DEF Stored, Held
    <2>3. QED
        BY <2>1, <2>2 DEF AccountInv, TokenOK, Stored
<1>4. QED
    BY <1>1, <1>2, <1>3

LEMMA ApplyLogoutInv ==
    ASSUME AccountInv, NEW q \in Logouts, ApplyLogout(q)
    PROVE  AccountInv'
<1> USE SessionAssumption
<1>1. /\ UNCHANGED <<login, logout, clock, edits>>
      /\ pending' = pending \ {q} /\ q \in pending
      /\ outcome' = [outcome EXCEPT ![q] = "matched"]
      /\ account' = [account EXCEPT !.tokens = Kept(q)]
      /\ revoked' = revoked \cup (Held(account.tokens) \ Held(Kept(q)))
    BY DEF ApplyLogout, Retain
<1>2. Kept(q) \in SUBSET account.tokens
    BY DEF Kept
<1>3. /\ account' = [policy |-> account.policy, tokens |-> Kept(q)]
      /\ account.policy \in Policy
    BY <1>1 DEF AccountInv, AccountTypeOK, Account
<1>4. \A x \in (Logins \cup Logouts) \ {q} : outcome'[x] = outcome[x]
    BY <1>1 DEF AccountInv, AccountTypeOK
<1>5. /\ account' \in Account /\ revoked' \subseteq Logins
      /\ StampOK' /\ \A l \in Logins : TokenOK(l)'
    BY <1>1, <1>2, <1>3, <1>4, RetainInv
<1>6. AccountTypeOK'
    BY <1>1, <1>5 DEF AccountInv, AccountTypeOK
<1>7. \A l \in Logins : LoginOK(l)'
    BY <1>1, <1>4 DEF AccountInv, LoginOK, Verified
<1>8. Ends(q) \subseteq revoked'
    <2> SUFFICES ASSUME NEW l \in Ends(q) PROVE l \in revoked'
        OBVIOUS
    <2>1. l \in Logins /\ login[l].phase = "ok"
        BY DEF AccountInv, LogoutOK, Issued
    <2>2. Stored(l) \/ l \in revoked
        BY <2>1 DEF AccountInv, LoginOK, TokenOK
    <2>3. l \notin Held(Kept(q))
        BY DEF Ends, Kept, Held
    <2>4. QED
        BY <1>1, <2>2, <2>3 DEF Stored
<1>9. \A r \in Logouts : LogoutOK(r)'
    <2> SUFFICES ASSUME NEW r \in Logouts PROVE LogoutOK(r)'
        OBVIOUS
    <2>1. CASE r = q
        BY <1>1, <1>8, <2>1 DEF AccountInv, AccountTypeOK, LogoutOK, Ends, Issued
    <2>2. CASE r # q
        BY <1>1, <1>4, <2>2 DEF AccountInv, LogoutOK, Ends, Issued
    <2>3. QED
        BY <2>1, <2>2
<1>10. QED
    BY <1>5, <1>6, <1>7, <1>9 DEF AccountInv

(* The database, the clock, and the rest of the application.               *)
LEMMA FailUpdateInv ==
    ASSUME AccountInv, NEW x \in Logins \cup Logouts, FailUpdate(x)
    PROVE  AccountInv'
<1> USE SessionAssumption
<1>1. /\ UNCHANGED <<account, login, logout, clock, edits, revoked>>
      /\ x \in pending /\ pending' = pending \ {x}
      /\ outcome' = [outcome EXCEPT ![x] = "failed"]
    BY DEF FailUpdate
<1>2. outcome[x] = "none"
    BY <1>1 DEF AccountInv, LoginOK, LogoutOK
<1>3. AccountTypeOK'
    BY <1>1 DEF AccountInv, AccountTypeOK
<1>4. \A l \in Logins : LoginOK(l)' /\ TokenOK(l)'
    BY <1>1, <1>2 DEF AccountInv, AccountTypeOK, LoginOK, Verified, TokenOK, Stored
<1>5. StampOK'
    BY <1>1 DEF AccountInv, StampOK
<1>6. \A q \in Logouts : LogoutOK(q)'
    BY <1>1, <1>2 DEF AccountInv, AccountTypeOK, LogoutOK, Ends, Issued
<1>7. QED
    BY <1>3, <1>4, <1>5, <1>6 DEF AccountInv

LEMMA EditInv ==
    ASSUME AccountInv,
           BlockSecurityAccount \/ Disable \/ \E p \in Policy : ChangePolicy(p)
    PROVE  AccountInv'
<1> USE SessionAssumption
<1>1. /\ UNCHANGED <<login, logout, pending, outcome, clock>>
      /\ edits' \in 0 .. MaxEdits
    BY DEF BlockSecurityAccount, Disable, ChangePolicy, Edit, AccountInv, AccountTypeOK
<1>2. PICK ts \in {{}, account.tokens} :
         /\ account' = [policy |-> account'.policy, tokens |-> ts]
         /\ account'.policy \in Policy
         /\ revoked' = revoked \cup (Held(account.tokens) \ Held(ts))
    <2>1. CASE BlockSecurityAccount
        <3>1. /\ account' = [policy |-> account'.policy, tokens |-> account.tokens]
              /\ account'.policy \in Policy
            BY <2>1 DEF BlockSecurityAccount, AccountInv, AccountTypeOK, Account, Policy, Flags
        <3>2. revoked' = revoked \cup (Held(account.tokens) \ Held(account.tokens))
            BY <2>1 DEF BlockSecurityAccount
        <3>3. QED
            BY <3>1, <3>2
    <2>2. CASE Disable
        <3>1. /\ account' = [policy |-> account'.policy, tokens |-> {}]
              /\ account'.policy \in Policy
            BY <2>2 DEF Disable, AccountInv, AccountTypeOK, Account, Policy, Flags
        <3>2. revoked' = revoked \cup (Held(account.tokens) \ Held({}))
            BY <2>2 DEF Disable, Held
        <3>3. QED
            BY <3>1, <3>2
    <2>3. CASE \E p \in Policy : ChangePolicy(p)
        <3>1. /\ account' = [policy |-> account'.policy, tokens |-> account.tokens]
              /\ account'.policy \in Policy
            BY <2>3 DEF ChangePolicy, AccountInv, AccountTypeOK, Account
        <3>2. revoked' = revoked \cup (Held(account.tokens) \ Held(account.tokens))
            BY <2>3 DEF ChangePolicy
        <3>3. QED
            BY <3>1, <3>2
    <2>4. QED
        BY <2>1, <2>2, <2>3
<1>3. ts \in SUBSET account.tokens /\ account'.tokens = ts
    <2>1. [policy |-> account'.policy, tokens |-> ts].tokens = ts
        OBVIOUS
    <2>2. QED
        BY <1>2, <2>1
<1>4. /\ account' \in Account /\ revoked' \subseteq Logins
      /\ StampOK' /\ \A l \in Logins : TokenOK(l)'
    BY <1>1, <1>2, <1>3, RetainInv
<1>5. AccountTypeOK'
    BY <1>1, <1>4 DEF AccountInv, AccountTypeOK
<1>6. \A l \in Logins : LoginOK(l)'
    BY <1>1 DEF AccountInv, LoginOK, Verified
<1>7. \A q \in Logouts : LogoutOK(q)'
    BY <1>1, <1>2 DEF AccountInv, LogoutOK, Ends, Issued
<1>8. QED
    BY <1>4, <1>5, <1>6, <1>7 DEF AccountInv

LEMMA ClockTicksInv ==
    ASSUME AccountInv, ClockTicks
    PROVE  AccountInv'
<1> USE SessionAssumption
<1>1. UNCHANGED <<account, login, logout, pending, outcome, edits, revoked>>
      /\ clock' = clock + 1 /\ clock' \in 0 .. MaxClock /\ clock \in Nat
    BY DEF ClockTicks, AccountInv, AccountTypeOK
<1>2. AccountTypeOK'
    BY <1>1 DEF AccountInv, AccountTypeOK
<1>3. \A l \in Logins : LoginOK(l)' /\ TokenOK(l)'
    BY <1>1 DEF AccountInv, AccountTypeOK, LoginOK, Verified, TokenOK, Stored
<1>4. StampOK'
    BY <1>1 DEF AccountInv, AccountTypeOK, Account, Token, StampOK
<1>5. \A q \in Logouts : LogoutOK(q)'
    BY <1>1 DEF AccountInv, LogoutOK, Ends, Issued
<1>6. QED
    BY <1>2, <1>3, <1>4, <1>5 DEF AccountInv

LEMMA StepInv == AccountInv /\ [AccountNext]_accountVars => AccountInv'
<1> SUFFICES ASSUME AccountInv, [AccountNext]_accountVars PROVE AccountInv'
    OBVIOUS
<1>1. CASE UNCHANGED accountVars
    BY <1>1 DEF accountVars, AccountInv, AccountTypeOK, LoginOK, Verified, TokenOK, Stored, StampOK,
                LogoutOK, Ends, Issued
<1>2. ASSUME NEW l \in Logins, LoginStep(l) PROVE AccountInv'
    BY <1>2, LoginStepInv, ApplyLoginInv DEF LoginStep
<1>3. ASSUME NEW q \in Logouts, LogoutStep(q) PROVE AccountInv'
    BY <1>3, LogoutStepInv, ApplyLogoutInv DEF LogoutStep
<1>4. ASSUME NEW x \in Logins \cup Logouts, FailUpdate(x) PROVE AccountInv'
    BY <1>4, FailUpdateInv
<1>5. CASE BlockSecurityAccount \/ Disable \/ \E p \in Policy : ChangePolicy(p)
    BY <1>5, EditInv
<1>6. CASE ClockTicks
    BY <1>6, ClockTicksInv
<1>7. QED
    BY <1>1, <1>2, <1>3, <1>4, <1>5, <1>6 DEF AccountNext

THEOREM AccountInductive == AccountSpec => []AccountInv
<1>1. QED
    BY AccountInitInv, StepInv, PTL DEF AccountSpec

(* The variables keep their types, for any requests, policies and bounds.  *)
THEOREM AccountTypeCorrect == AccountSpec => []AccountTypeOK
<1>1. AccountInv => AccountTypeOK
    BY DEF AccountInv
<1>2. QED
    BY <1>1, AccountInductive, PTL

(* A removed token never comes back, for any number of requests and edits. *)
THEOREM RevocationIsFinal == AccountSpec => []RevokedStaysOut
<1>1. AccountInv => RevokedStaysOut
    BY DEF AccountInv, AccountTypeOK, TokenOK, RevokedStaysOut
<1>2. QED
    BY <1>1, AccountInductive, PTL

(* An answered login keeps its session until it expires, is removed or     *)
(* the account is disabled.                                                *)
THEOREM SessionsAreHonoured == AccountSpec => []SessionHonoured
<1>1. ASSUME AccountInv PROVE SessionHonoured
    <2> SUFFICES ASSUME NEW l \in Issued, l \notin revoked,
                        ~loginDisabled(account.policy.disabled),
                        ~(clock >= login[l].when + Expiration)
                 PROVE  Accepted(l)
        BY DEF SessionHonoured
    <2>1. l \in Logins /\ Stored(l)
        BY <1>1 DEF Issued, AccountInv, LoginOK, TokenOK
    <2>2. PICK t \in account.tokens : t.hash = l
        BY <2>1 DEF Stored, Held
    <2>3. t.when = login[l].when /\ t.when <= clock
        BY <1>1, <2>2 DEF AccountInv, StampOK
    <2>4. clock \in Nat /\ login[l].when \in Nat /\ Expiration \in Nat
        BY <1>1, <2>1, SessionAssumption DEF AccountInv, AccountTypeOK
    <2>5. QED
        BY <2>2, <2>3, <2>4 DEF Accepted
<1>2. QED
    BY <1>1, AccountInductive, PTL

(* An acknowledged logout has removed what it promised to remove.          *)
THEOREM LogoutsAreFinal == AccountSpec => []LogoutFinal
<1>1. ASSUME AccountInv PROVE LogoutFinal
    <2> SUFFICES ASSUME NEW q \in Logouts, logout[q].phase = "ok", NEW l \in Ends(q)
                 PROVE  ~Stored(l) /\ l \in revoked
        BY DEF LogoutFinal, Ends
    <2>1. l \in revoked
        BY <1>1 DEF AccountInv, LogoutOK
    <2>2. QED
        BY <1>1, <2>1 DEF AccountInv, AccountTypeOK, TokenOK
<1>2. QED
    BY <1>1, AccountInductive, PTL

(* Tokens are issued to enabled local accounts whose password was given.   *)
THEOREM PolicyHoldsAtIssue == AccountSpec => IssuedUnderPolicy
<1> DEFINE Usable(l) ==
        /\ ~loginDisabled(account.policy.disabled)
        /\ account.policy.bcrypt = Password[l]
        /\ account.policy.method = "password"
        /\ ~account.policy.twoFactor
        A == \A l \in Logins : Stored(l)' /\ ~Stored(l) => Usable(l)
<1>1. ASSUME AccountInv, [AccountNext]_accountVars PROVE A
    <2> SUFFICES ASSUME NEW l \in Logins, Stored(l)', ~Stored(l) PROVE Usable(l)
        OBVIOUS
    <2>1. account'.tokens # account.tokens
        BY DEF Stored
    <2>2. PICK m \in Logins : ApplyLogin(m)
        <3>1. CASE UNCHANGED accountVars
            BY <2>1, <3>1 DEF accountVars
        <3>2. ASSUME NEW x \in Logins, LoginStep(x), ~ApplyLogin(x) PROVE FALSE
            BY <2>1, <3>2 DEF LoginStep, Find, Issue, LoginReply, LoginTimeout
        <3>3. ASSUME NEW q \in Logouts, ApplyLogout(q) PROVE FALSE
            <4>1. account'.tokens = Kept(q)
                BY <1>1, <3>3 DEF ApplyLogout, Retain, AccountInv, AccountTypeOK, Account
            <4>2. QED
                BY <4>1 DEF Kept, Stored, Held
        <3>4. ASSUME NEW q \in Logouts, LogoutStep(q), ~ApplyLogout(q) PROVE FALSE
            BY <2>1, <3>4 DEF LogoutStep, Authenticate, SendLogout, LogoutReply, LogoutTimeout
        <3>5. ASSUME NEW x \in Logins \cup Logouts, FailUpdate(x) PROVE FALSE
            BY <2>1, <3>5 DEF FailUpdate
        <3>6. CASE Disable
            <4>1. account'.tokens = {}
                BY <3>6 DEF Disable
            <4>2. QED
                BY <4>1 DEF Stored, Held
        <3>7. CASE ClockTicks \/ BlockSecurityAccount \/ \E p \in Policy : ChangePolicy(p)
            BY <1>1, <2>1, <3>7
            DEF ClockTicks, BlockSecurityAccount, ChangePolicy, AccountInv, AccountTypeOK, Account
        <3>8. QED
            BY <1>1, <3>1, <3>2, <3>3, <3>4, <3>5, <3>6, <3>7 DEF AccountNext
    <2>3. Selector(m, account.policy) /\ account'.tokens = account.tokens \cup {Stamped(m)}
        BY <1>1, <2>1, <2>2 DEF ApplyLogin, AddToken, AccountInv, AccountTypeOK, Account
    <2>4. m = l
        BY <2>3 DEF Stored, Held, Stamped
    <2>5. Verified(l)
        BY <1>1, <2>2, <2>4 DEF ApplyLogin, AccountInv, LoginOK
    <2>6. QED
        BY <2>3, <2>4, <2>5 DEF Selector, Same, Verified, Local
<1>2. QED
    BY <1>1, AccountInductive, PTL DEF AccountSpec, IssuedUnderPolicy
===============================================================================
