---------------------------- MODULE MutationGate ----------------------------
(***************************************************************************)
(* The mutation gate of the embedded FerretDB server                       *)
(* (internal/compat/ferretdb/internal/handler/mutations.go).  The SQLite   *)
(* backend stores whole documents: a command queries a document, computes  *)
(* its new contents and writes it back by _id.  The gate, a channel of     *)
(* capacity one, is held from before the first query to after the last     *)
(* write, so that no two commands work from the same snapshot.             *)
(*                                                                         *)
(* A connection reads a request, handles it, and only then reads again     *)
(* (clientconn/conn.go), so the context a handler waits with is cancelled  *)
(* when the listener stops, and not when the client goes away.             *)
(***************************************************************************)
EXTENDS AtomicDocuments

CONSTANT NoOne   \* the gate holds no token

ASSUME GateAssumption == NoOne \notin Commands /\ Ids # {}

SomeId == CHOOSE i \in Ids : TRUE

VARIABLES
    gate,        \* the command whose token is in the channel, or NoOne
    stage,       \* where the server is with each command
    current,     \* the document a command is working on
    snapshot,    \* the contents it has read
    cancelled,   \* the commands whose connection context is cancelled
    client       \* what the sender of each command knows

vars == <<docs, todo, gate, stage, current, snapshot, cancelled, client>>

server == <<gate, stage, current, snapshot>>

-----------------------------------------------------------------------------
(* The client and its connection.                                          *)

Send(c) ==
    /\ client[c] = "idle"
    /\ client' = [client EXCEPT ![c] = "pending"]
    /\ stage' = [stage EXCEPT ![c] = "waiting"]
    /\ UNCHANGED <<docs, todo, gate, current, snapshot, cancelled>>

(* The deadline of the driver passes, or its process ends: the connection  *)
(* is closed, which the server notices when it reads from it again.        *)
GiveUp(c) ==
    /\ client[c] = "pending"
    /\ client' = [client EXCEPT ![c] = "gone"]
    /\ UNCHANGED <<docs, todo, server, cancelled>>

(* The listener has been stopped and the grace of the connection is over.  *)
Cancel(c) ==
    /\ cancelled' = cancelled \cup {c}
    /\ UNCHANGED <<docs, todo, server, client>>

(* A reply that is written to a connection its client has closed is lost.  *)
Reply(c) ==
    /\ stage[c] \in {"done", "failed"}
    /\ client[c] = "pending"
    /\ client' = [client EXCEPT ![c] = IF stage[c] = "done" THEN "ok" ELSE "error"]
    /\ UNCHANGED <<docs, todo, server, cancelled>>

-----------------------------------------------------------------------------
(* lockMutation and the commands it wraps.                                 *)

(* Mutant of Free: the command does not wait for the channel.              *)
Free_Always == TRUE

(* There is room in the channel.                                           *)
Free == gate = NoOne

Acquire(c) ==
    /\ stage[c] = "waiting" /\ Free
    /\ c \notin cancelled
    /\ gate' = c
    /\ stage' = [stage EXCEPT ![c] = "holding"]
    /\ UNCHANGED <<docs, todo, current, snapshot, cancelled, client>>

(* Mutant of TokenOfRefused: the token put in the channel before the       *)
(* context was checked again stays there.                                  *)
TokenOfRefused_Kept(c) == IF Free THEN c ELSE gate

(* What a refused command leaves in the channel: the select may have put   *)
(* its token there, and the check that follows takes it out again.         *)
TokenOfRefused(c) == gate

Refuse(c) ==
    /\ stage[c] = "waiting"
    /\ c \in cancelled
    /\ gate' = TokenOfRefused(c)
    /\ stage' = [stage EXCEPT ![c] = "failed"]
    /\ UNCHANGED <<docs, todo, current, snapshot, cancelled, client>>

(* The iterator of the command yields its next document.                   *)
Read(c, i) ==
    /\ stage[c] = "holding"
    /\ i \in todo[c]
    /\ current' = [current EXCEPT ![c] = i]
    /\ snapshot' = [snapshot EXCEPT ![c] = docs[i]]
    /\ stage' = [stage EXCEPT ![c] = "modifying"]
    /\ UNCHANGED <<docs, todo, gate, cancelled, client>>

(* UpdateAll: the whole document is replaced in one SQL transaction.       *)
Replace(c) ==
    /\ stage[c] = "modifying"
    /\ docs' = [docs EXCEPT ![current[c]] = Update(c, snapshot[c])]
    /\ todo' = [todo EXCEPT ![c] = @ \ {current[c]}]
    /\ stage' = [stage EXCEPT ![c] = "holding"]
    /\ UNCHANGED <<gate, current, snapshot, cancelled, client>>

Complete(c) ==
    /\ stage[c] = "holding"
    /\ todo[c] = {}
    /\ gate' = NoOne
    /\ stage' = [stage EXCEPT ![c] = "done"]
    /\ UNCHANGED <<docs, todo, current, snapshot, cancelled, client>>

(* release is deferred.                                                    *)
TokenAfterError == NoOne

(* An operator error, an SQL error, a cancelled context or a panic ends    *)
(* the command; the documents it has replaced stay replaced.               *)
Fail(c) ==
    /\ stage[c] \in {"holding", "modifying"}
    /\ gate' = TokenAfterError
    /\ stage' = [stage EXCEPT ![c] = "failed"]
    /\ UNCHANGED <<docs, todo, current, snapshot, cancelled, client>>

Init ==
    /\ AtomicInit
    /\ gate = NoOne
    /\ stage = [c \in Commands |-> "new"]
    /\ current = [c \in Commands |-> SomeId]
    /\ snapshot = [c \in Commands |-> InitDocs[SomeId]]
    /\ cancelled = {}
    /\ client = [c \in Commands |-> "idle"]

Step(c) ==
    \/ Refuse(c) \/ Replace(c) \/ Complete(c) \/ Fail(c)
    \/ \E i \in Ids : Read(c, i)

Next ==
    \E c \in Commands :
        Send(c) \/ GiveUp(c) \/ Cancel(c) \/ Reply(c) \/ Acquire(c) \/ Step(c)

(* A handler that runs goes on running, and Go serves the senders that     *)
(* wait on a channel in the order they came: none is passed over for ever. *)
Fairness == \A c \in Commands : WF_vars(Step(c)) /\ SF_vars(Acquire(c))

Spec == Init /\ [][Next]_vars /\ Fairness
-----------------------------------------------------------------------------
Stages == {"new", "waiting", "holding", "modifying", "done", "failed"}

TypeOK ==
    /\ docs \in [Ids -> Docs]
    /\ todo \in [Commands -> SUBSET Ids]
    /\ gate \in Commands \cup {NoOne}
    /\ stage \in [Commands -> Stages]
    /\ current \in [Commands -> Ids]
    /\ snapshot \in [Commands -> Docs]
    /\ cancelled \subseteq Commands
    /\ client \in [Commands -> {"idle", "pending", "ok", "error", "gone"}]

(* A command that is about to replace a document replaces the contents     *)
(* that are stored: nobody has written it since it was read.               *)
SnapshotCurrent ==
    \A c \in Commands : stage[c] = "modifying" => snapshot[c] = docs[current[c]]

(* Each command updates each document at most once and atomically.         *)
Atomic == INSTANCE AtomicDocuments WITH docs <- docs, todo <- todo

Linearizable == Atomic!AtomicSpec

(* The token in the channel is that of the one command that runs: no way   *)
(* out of lockMutation or of a command leaves a token behind, and no two   *)
(* commands run together.                                                  *)
TokenOfRunning ==
    \A c \in Commands : gate = c <=> stage[c] \in {"holding", "modifying"}

(* Every command that waits for the gate gets an end.                      *)
GateServesAll ==
    \A c \in Commands : stage[c] = "waiting" ~> stage[c] \in {"done", "failed"}
=============================================================================
