------------------------------ MODULE ConvStore ------------------------------
(***************************************************************************)
(* The conversation store of src/db/db.go: conversations and their         *)
(* messages, as changed by CreateConversation, CreateSubagentConversation  *)
(* (through SubagentDBAdapter.GetOrCreateSubagentConversation, for         *)
(* concurrent callers under one parent), CreateMessage,                    *)
(* Archive/UnarchiveConversation and DeleteConversation.  Every store      *)
(* method runs in one write transaction of the pool, so each is one atomic *)
(* step here; GetOrCreate spans several transactions and is a per-caller   *)
(* state machine.                                                          *)
(*                                                                         *)
(* Whether the foreign keys of the schema are enforced is decided once, by *)
(* New, from the DSN it is given.  The uniqueness of a slug among the      *)
(* children of a parent (spec 3, 4.3) is not in the schema under src/ and *)
(* is modelled from the spec.                                              *)
(***************************************************************************)
EXTENDS Naturals, FiniteSets, Sequences, TLC

CONSTANTS
    DSNs,         \* the DSNs New may be given: [query, fk] records
    Parent,       \* the parent conversation of the get-or-create callers
    TopIds,       \* ids CreateConversation may generate
    Callers,      \* concurrent GetOrCreate callers; each also names the id
                  \* its CreateSubagentConversation generates
    Base,         \* Base[c]: the slug caller c asks for
    PreSlugs,     \* slugs children of the parent may already have (a child
                  \* with slug s has id s)
    MaxAttempts,  \* the retry bound (100 in the code)
    MaxMsgs,      \* bound on the messages ever inserted
    None

VARIABLES
    fk,        \* foreign keys are enforced on the pool's connections
    convs,     \* conversation rows: [id, parent, slug]
    archived,  \* ids of archived conversations
    msgs,      \* message rows: [conv, seq]
    written,   \* history: every message row ever inserted
    created,   \* history: every conversation id ever generated
    pc,        \* per caller: "lookup", "create", "done", "exhausted", "error"
    attempt,   \* the loop's attempt counter
    actual,    \* actualSlug
    result     \* the (conversation id, slug) returned

vars == <<fk, convs, archived, msgs, written, created, pc, attempt, actual, result>>

AllIds == {Parent} \cup TopIds \cup Callers \cup PreSlugs

Ids == {cv.id : cv \in convs}

\* Mutant: the "&_foreign_keys=on" branch for a DSN with a query is lost.
ForeignKeysOnlyWithoutQuery(d) == ~d.query \/ d.fk = "on"

\* New: "?_foreign_keys=on" is appended to a DSN with no query, and
\* "&_foreign_keys=on" to one whose query does not mention _foreign_keys.
ForeignKeysOn(d) == ~d.query \/ d.fk \in {"absent", "on"}

\* fmt.Sprintf("%s-%d", baseSlug, attempt+1) for a retry, baseSlug at first.
Suffixed(b, k) == IF k = 0 THEN b ELSE b \o "-" \o ToString(k)

\* GetConversationBySlugAndParent: the child of Parent with this slug.
BySlug(s) == {cv \in convs : cv.parent = Parent /\ cv.slug = s}

\* GetNextSequenceID: max(sequence_id) + 1 in the conversation, or 1.
NextSeq(id) ==
    LET seqs == {m.seq : m \in {r \in msgs : r.conv = id}}
    IN  IF seqs = {} THEN 1 ELSE 1 + CHOOSE s \in seqs : \A t \in seqs : t <= s

\* A row referencing id violates a foreign key when they are enforced.
FKRefused(id) == fk /\ id \notin Ids

-----------------------------------------------------------------------------
Init ==
    /\ fk \in {ForeignKeysOn(d) : d \in DSNs}
    /\ \E pre \in SUBSET PreSlugs :
          convs = {[id |-> Parent, parent |-> None, slug |-> None]}
                  \cup {[id |-> s, parent |-> Parent, slug |-> s] : s \in pre}
    /\ archived = {}
    /\ msgs = {}
    /\ written = {}
    /\ created = {cv.id : cv \in convs}
    /\ pc = [c \in Callers |-> "lookup"]
    /\ attempt = [c \in Callers |-> 0]
    /\ actual = [c \in Callers |-> Base[c]]
    /\ result = [c \in Callers |-> [id |-> None, slug |-> None]]

StoreVars == <<fk, convs, archived, msgs, written, created>>
CallerVars == <<pc, attempt, actual, result>>

(* CreateConversation: a new top-level conversation.  generateConversationID *)
(* draws 6 random characters; an id is taken as never drawn twice.         *)
CreateConversation(id) ==
    /\ id \notin created
    /\ convs' = convs \cup {[id |-> id, parent |-> None, slug |-> None]}
    /\ created' = created \cup {id}
    /\ UNCHANGED <<fk, archived, msgs, written>> /\ UNCHANGED CallerVars

(* CreateMessage: GetNextSequenceID and the insert in one transaction; the *)
(* insert fails on the foreign key for an unknown conversation.            *)
CreateMessage(id) ==
    /\ Cardinality(written) < MaxMsgs
    /\ ~FKRefused(id)
    /\ LET m == [conv |-> id, seq |-> NextSeq(id)]
       IN  /\ msgs' = msgs \cup {m}
           /\ written' = written \cup {m}
    /\ UNCHANGED <<fk, convs, archived, created>> /\ UNCHANGED CallerVars

(* ArchiveConversation / UnarchiveConversation: an UPDATE of one row; an  *)
(* unknown id is sql.ErrNoRows and changes nothing.                        *)
ArchiveConversation(id) ==
    /\ id \in Ids
    /\ archived' = archived \cup {id}
    /\ UNCHANGED <<fk, convs, msgs, written, created>> /\ UNCHANGED CallerVars

UnarchiveConversation(id) ==
    /\ id \in Ids /\ id \in archived
    /\ archived' = archived \ {id}
    /\ UNCHANGED <<fk, convs, msgs, written, created>> /\ UNCHANGED CallerVars

\* Mutant: the messages are deleted in a transaction of their own.
DeleteConversationMessagesFirst(id) ==
    /\ id \in Ids
    /\ msgs' = {m \in msgs : m.conv # id}
    /\ IF fk /\ \E cv \in convs : cv.parent = id
       THEN UNCHANGED <<fk, convs, archived, written, created>>
       ELSE /\ convs' = {cv \in convs : cv.id # id}
            /\ archived' = archived \ {id}
            /\ UNCHANGED <<fk, written, created>>
    /\ UNCHANGED CallerVars

(* DeleteConversation: the messages, then the row, in one transaction.    *)
(* With foreign keys on, a parent that still has sub-agents is refused and *)
(* the transaction rolls back, messages included.                          *)
DeleteConversation(id) ==
    /\ id \in Ids
    /\ IF fk /\ \E cv \in convs : cv.parent = id
       THEN UNCHANGED StoreVars
       ELSE /\ msgs' = {m \in msgs : m.conv # id}
            /\ convs' = {cv \in convs : cv.id # id}
            /\ archived' = archived \ {id}
            /\ UNCHANGED <<fk, written, created>>
    /\ UNCHANGED CallerVars

-----------------------------------------------------------------------------
(* GetOrCreateSubagentConversation, step 1: the lookup (a read            *)
(* transaction).  An existing child is returned as it is.                  *)
Lookup(c) ==
    /\ pc[c] = "lookup"
    /\ IF BySlug(Base[c]) # {}
       THEN LET cv == CHOOSE x \in BySlug(Base[c]) : TRUE
            IN  /\ result' = [result EXCEPT ![c] = [id |-> cv.id, slug |-> cv.slug]]
                /\ pc' = [pc EXCEPT ![c] = "done"]
       ELSE /\ pc' = [pc EXCEPT ![c] = "create"]
            /\ UNCHANGED result
    /\ UNCHANGED <<attempt, actual>> /\ UNCHANGED StoreVars

\* Mutant: the requested slug is returned instead of the one used.
ReturnedBase(c) == [id |-> c, slug |-> Base[c]]

\* return conv.ConversationID, actualSlug
Returned(c) == [id |-> c, slug |-> actual[c]]

(* One attempt, CreateSubagentConversation in a write transaction: a      *)
(* sibling with the slug is a unique constraint violation and the next     *)
(* suffix is tried; a parent deleted meanwhile fails the foreign key,      *)
(* which is returned; otherwise the child is created and returned.         *)
CreateAttempt(c) ==
    /\ pc[c] = "create" /\ attempt[c] < MaxAttempts
    /\ CASE BySlug(actual[c]) # {} ->
              /\ attempt' = [attempt EXCEPT ![c] = @ + 1]
              /\ actual' = [actual EXCEPT ![c] = Suffixed(Base[c], attempt[c] + 1)]
              /\ UNCHANGED <<pc, result>> /\ UNCHANGED StoreVars
         [] FKRefused(Parent) ->
              /\ pc' = [pc EXCEPT ![c] = "error"]
              /\ UNCHANGED <<attempt, actual, result>> /\ UNCHANGED StoreVars
         [] OTHER ->
              /\ convs' = convs \cup {[id |-> c, parent |-> Parent, slug |-> actual[c]]}
              /\ created' = created \cup {c}
              /\ result' = [result EXCEPT ![c] = Returned(c)]
              /\ pc' = [pc EXCEPT ![c] = "done"]
              /\ UNCHANGED <<attempt, actual>>
              /\ UNCHANGED <<fk, archived, msgs, written>>

(* Any other error of the insert is returned as it is. *)
CreateError(c) ==
    /\ pc[c] = "create" /\ attempt[c] < MaxAttempts
    /\ pc' = [pc EXCEPT ![c] = "error"]
    /\ UNCHANGED <<attempt, actual, result>> /\ UNCHANGED StoreVars

(* "failed to create unique subagent slug after 100 attempts" *)
Exhausted(c) ==
    /\ pc[c] = "create" /\ attempt[c] = MaxAttempts
    /\ pc' = [pc EXCEPT ![c] = "exhausted"]
    /\ UNCHANGED <<attempt, actual, result>> /\ UNCHANGED StoreVars

Next ==
    \/ \E id \in TopIds : CreateConversation(id)
    \/ \E id \in AllIds :
          \/ CreateMessage(id)
          \/ ArchiveConversation(id)
          \/ UnarchiveConversation(id)
          \/ DeleteConversation(id)
    \/ \E c \in Callers :
          Lookup(c) \/ CreateAttempt(c) \/ CreateError(c) \/ Exhausted(c)

Spec == Init /\ [][Next]_vars

-----------------------------------------------------------------------------
TypeOK ==
    /\ fk \in BOOLEAN
    /\ \A cv \in convs : cv.id \in AllIds
    /\ archived \subseteq AllIds
    /\ msgs \subseteq written
    /\ pc \in [Callers -> {"lookup", "create", "done", "exhausted", "error"}]
    /\ attempt \in [Callers -> 0..MaxAttempts]

(* Foreign keys (spec 3, 4.1): every message belongs to a conversation in *)
(* the store, and every sub-agent's parent is in the store, whatever       *)
(* order creates, deletes and inserts of several callers take.  It rests  *)
(* on New turning foreign keys on and on DeleteConversation's refusal.     *)
ReferentialIntegrity ==
    /\ \A m \in msgs : m.conv \in Ids
    /\ \A cv \in convs : cv.parent # None => cv.parent \in Ids

(* DeleteConversation is all or nothing (spec 3: deletion cascades to     *)
(* messages within a single transaction): a conversation still in the     *)
(* store keeps every message ever inserted into it, even when the delete  *)
(* of its row was refused after its messages were deleted.                 *)
DeleteAllOrNothing ==
    \A m \in written : m.conv \in Ids => m \in msgs

(* What GetOrCreateSubagentConversation returns resolves (spec 3, 4.3):   *)
(* while the returned conversation exists, it is the child of the parent  *)
(* found by the returned slug, also when the slug carries a retry suffix  *)
(* that is another caller's requested slug.                                *)
ReturnedSlugResolves ==
    \A c \in Callers :
        pc[c] = "done" /\ result[c].id \in Ids =>
            BySlug(result[c].slug) = {cv \in convs : cv.id = result[c].id}
====
