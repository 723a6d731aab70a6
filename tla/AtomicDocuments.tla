--------------------------- MODULE AtomicDocuments ---------------------------
(***************************************************************************)
(* What the users of the database rely on: a mutation command updates each *)
(* document it targets at most once, in one indivisible step that reads    *)
(* the document as it is.  A command of several documents is not atomic as *)
(* a whole, and may stop part of the way.                                  *)
(***************************************************************************)
CONSTANTS
    Ids,           \* document identities
    Docs,          \* document contents
    InitDocs,      \* the documents at the start
    Commands,      \* mutation commands, each sent once
    Targets,       \* Targets[c]: the documents that command c may visit
    Update(_, _)   \* what c makes of d: d itself when its filter does not match

ASSUME DocumentsAssumption ==
    /\ InitDocs \in [Ids -> Docs]
    /\ Targets \in [Commands -> SUBSET Ids]
    /\ \A c \in Commands, d \in Docs : Update(c, d) \in Docs

VARIABLES
    docs,   \* the stored documents
    todo    \* todo[c]: the targets c has not updated

AtomicInit == docs = InitDocs /\ todo = Targets

Apply(c, i) ==
    /\ i \in todo[c]
    /\ docs' = [docs EXCEPT ![i] = Update(c, @)]
    /\ todo' = [todo EXCEPT ![c] = @ \ {i}]

AtomicNext == \E c \in Commands, i \in Ids : Apply(c, i)

AtomicSpec == AtomicInit /\ [][AtomicNext]_<<docs, todo>>
=============================================================================
