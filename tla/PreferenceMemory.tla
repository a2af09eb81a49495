-------------------------- MODULE PreferenceMemory --------------------------
(***************************************************************************)
(* The long-term preferences of the virtual expert's users (server-agent,  *)
(* database store).  A finished run may extract one preference from the    *)
(* user's message: a row of memory_candidate, and for a low-risk one also  *)
(* a row of user_memory.  A high-impact candidate waits until its user     *)
(* accepts or rejects it.  Every run opens by reading preferences back,    *)
(* from user_memory and, the older way, from the accepted candidates.      *)
(* One repository call is one READ COMMITTED transaction; create_user_     *)
(* memory reads in one statement what it expires in a later one, so other  *)
(* handlers run between the two.                                           *)
(***************************************************************************)
EXTENDS Naturals, FiniteSets

CONSTANTS
    Users,          \* values of the X-Agent-User-Id header
    Keys,           \* preference keys the messages of an instance express
    Streams,        \* executions of a stream endpoint, each of its own session
    Accepts,        \* executions of POST memory-candidates/{id}/accept
    NoCandidate,    \* an accept that has not read its candidate
    RecallLimit,    \* most memories recalled (the code's 8)
    SummaryLimit,   \* most accepted candidates recalled (the code's 5)
    MayFail         \* a handler may end at any await: error, client, process

\* Keys by what the code tells apart: answer.*, export.default_format,
\* interaction.ask_when_uncertain and analysis.risk_policy.
AllKeys == {"answer", "export", "interaction", "policy"}
HighImpact == {"policy"}

\* Keys whose memory_type list_accepted_memories gives a score by itself; the
\* others count only when a word of theirs is in the query.
AlwaysScored == {"answer", "export"}

ASSUME ConstantsAssumption ==
    /\ Keys \subseteq AllKeys
    /\ Streams \cap Accepts = {}
    /\ NoCandidate \notin Streams
    /\ RecallLimit \in Nat
    /\ SummaryLimit \in Nat
    /\ MayFail \in BOOLEAN

\* A run extracts at most one candidate and stores at most one memory, an
\* accept stores one: the executions name the rows they insert.
Handlers == Streams \cup Accepts

VARIABLES
    owner,      \* the user of a run, its candidate and its memories
    key,        \* the preference key of the run's message
    gone,       \* sessions deleted
    candidate,  \* memory_candidate.status, "none" when there is no row
    reviewed,   \* candidates with reviewed_by set
    memory,     \* user_memory.status, "none" before the row exists
    source,     \* the candidate an accept has read
    pc,         \* where each execution is
    found,      \* the active memories the SELECT of create_user_memory returned
    rivals,     \* history: executions between SELECT and commit at that SELECT
    recalled,   \* memories given to a run's prompt
    summary     \* accepted candidates given to a run's prompt

rows == <<gone, candidate, reviewed, memory>>
inputs == <<owner, key, source>>
creation == <<found, rivals>>
prompts == <<recalled, summary>>
vars == <<rows, inputs, pc, creation, prompts>>

CandidateStatus == {"none", "pending", "accepted", "rejected"}
MemoryStatus == {"none", "active", "expired", "deleted"}
Pc == {"idle", "recalled", "running", "select", "insert", "status", "done"}

TypeOK ==
    /\ owner \in [Streams -> Users]
    /\ key \in [Streams -> Keys]
    /\ gone \subseteq Streams
    /\ candidate \in [Streams -> CandidateStatus]
    /\ reviewed \subseteq Streams
    /\ memory \in [Handlers -> MemoryStatus]
    /\ source \in [Accepts -> Streams \cup {NoCandidate}]
    /\ pc \in [Handlers -> Pc]
    /\ found \in [Handlers -> SUBSET Handlers]
    /\ rivals \in [Handlers -> SUBSET Handlers]
    /\ recalled \in [Streams -> SUBSET Handlers]
    /\ summary \in [Streams -> SUBSET Streams]
    /\ \A c \in gone : candidate[c] = "none"

\* Empty tables; who will write what is open.
Init ==
    /\ owner \in [Streams -> Users]
    /\ key \in [Streams -> Keys]
    /\ gone = {}
    /\ candidate = [c \in Streams |-> "none"]
    /\ reviewed = {}
    /\ memory = [h \in Handlers |-> "none"]
    /\ source = [a \in Accepts |-> NoCandidate]
    /\ pc = [h \in Handlers |-> "idle"]
    /\ found = [h \in Handlers |-> {}]
    /\ rivals = [h \in Handlers |-> {}]
    /\ recalled = [s \in Streams |-> {}]
    /\ summary = [s \in Streams |-> {}]

Goto(h, place) == pc' = [pc EXCEPT ![h] = place]

\* The candidate a memory row comes from: source_candidate_id.
Source(h) == IF h \in Streams THEN h ELSE source[h]

\* The columns user_id and preference_key of a memory row, copied from its
\* candidate.
SameUserAndKey(m, h) ==
    /\ Source(m) # NoCandidate
    /\ Source(h) # NoCandidate
    /\ owner[Source(m)] = owner[Source(h)]
    /\ key[Source(m)] = key[Source(h)]

\* A query's rows cut to its limit; which ones are cut depends on scores and
\* times that are left out.
AtMost(S, limit) ==
    {T \in SUBSET S : Cardinality(T) = IF Cardinality(S) > limit
                                       THEN limit ELSE Cardinality(S)}

---------------------------------------------------------------------------
(* A run: what it recalls, and what its end stores                         *)

\* list_user_memories(user_id, "active"), ranked and cut.
OwnActive(u) ==
    {m \in Handlers : /\ memory[m] = "active"
                      /\ owner[Source(m)] = u}

RecallMemories(s) ==
    /\ pc[s] = "idle"
    /\ \E S \in AtMost(OwnActive(owner[s]), RecallLimit) :
           recalled' = [recalled EXCEPT ![s] = S]
    /\ Goto(s, "recalled")
    /\ UNCHANGED <<rows, inputs, creation, summary>>

\* list_accepted_memories(query): of every user, and also those whose memory
\* is no longer active; extra are the rows a word of the query matches.
ListAcceptedMemories(s) ==
    /\ pc[s] = "recalled"
    /\ LET accepted == {c \in Streams : candidate[c] = "accepted"}
           always == {c \in accepted : key[c] \in AlwaysScored}
       IN  \E extra \in SUBSET (accepted \ always) :
               \E S \in AtMost(always \cup extra, SummaryLimit) :
                   summary' = [summary EXCEPT ![s] = S]
    /\ Goto(s, "running")
    /\ UNCHANGED <<rows, inputs, creation, recalled>>

\* The run is cancelled or fails, its message expresses no preference, or its
\* session was deleted and the candidate's foreign key refuses the row.
StoreNothing(s) ==
    /\ pc[s] = "running"
    /\ Goto(s, "done")
    /\ UNCHANGED <<rows, inputs, creation, prompts>>

\* Mutant of InitialStatus: every preference is accepted at once.
InitialStatus_noReview(k) == "accepted"

\* proposed_action of a candidate, as the status it is stored with.
InitialStatus(k) == IF k \in HighImpact THEN "pending" ELSE "accepted"

\* create_memory_candidate_v2; an accepted one goes on to create_user_memory.
StoreCandidate(s) ==
    /\ pc[s] = "running"
    /\ s \notin gone
    /\ candidate' = [candidate EXCEPT ![s] = InitialStatus(key[s])]
    /\ Goto(s, IF InitialStatus(key[s]) = "accepted" THEN "select" ELSE "done")
    /\ UNCHANGED <<gone, reviewed, memory, inputs, creation, prompts>>

---------------------------------------------------------------------------
(* create_user_memory, shared by runs and accepts                          *)

ActiveOfKey(h) == {m \in Handlers : memory[m] = "active" /\ SameUserAndKey(m, h)}

SelectActive(h) ==
    /\ pc[h] = "select"
    /\ found' = [found EXCEPT ![h] = ActiveOfKey(h)]
    /\ rivals' = [rivals EXCEPT ![h] = {g \in Handlers : pc[g] = "insert"}]
    /\ Goto(h, "insert")
    /\ UNCHANGED <<rows, inputs, prompts>>

\* Mutant of InsertRow: what was found stays active.
InsertRow_keepsFound(h) == memory' = [memory EXCEPT ![h] = "active"]

\* The rows found are updated by id, whatever their status is by now.
InsertRow(h) ==
    memory' = [m \in Handlers |-> IF m = h THEN "active"
                                  ELSE IF m \in found[h] THEN "expired"
                                  ELSE memory[m]]

InsertMemory(h) ==
    /\ pc[h] = "insert"
    /\ InsertRow(h)
    /\ Goto(h, IF h \in Accepts THEN "status" ELSE "done")
    /\ UNCHANGED <<gone, candidate, reviewed, inputs, creation, prompts>>

---------------------------------------------------------------------------
(* The user's review of candidates and memories.  A request of another     *)
(* user is answered 404 and changes nothing.                               *)

\* set_memory_candidate_status looks at no earlier status.
Review(c, status) ==
    /\ candidate' = [candidate EXCEPT ![c] = status]
    /\ reviewed' = reviewed \cup {c}

\* Mutant of ReadCandidate: a candidate is marked before its memory is made.
ReadCandidate_marksFirst(a) ==
    /\ pc[a] = "idle"
    /\ \E c \in Streams :
           /\ candidate[c] = "pending"
           /\ source' = [source EXCEPT ![a] = c]
           /\ Review(c, "accepted")
    /\ Goto(a, "select")
    /\ UNCHANGED <<gone, memory, owner, key, creation, prompts>>

\* accept_candidate reads a candidate that is still pending.
ReadCandidate(a) ==
    /\ pc[a] = "idle"
    /\ \E c \in Streams :
           /\ candidate[c] = "pending"
           /\ source' = [source EXCEPT ![a] = c]
    /\ Goto(a, "select")
    /\ UNCHANGED <<rows, owner, key, creation, prompts>>

\* Mutant of SetAccepted: the mark is taken for the row, and made anew.
SetAccepted_revives(a) ==
    /\ pc[a] = "status"
    /\ Review(source[a], "accepted")
    /\ Goto(a, "done")
    /\ UNCHANGED <<gone, memory, inputs, creation, prompts>>

\* The candidate is marked, unless it went with its session meanwhile.
SetAccepted(a) ==
    /\ pc[a] = "status"
    /\ IF candidate[source[a]] = "none"
       THEN UNCHANGED <<candidate, reviewed>>
       ELSE Review(source[a], "accepted")
    /\ Goto(a, "done")
    /\ UNCHANGED <<gone, memory, inputs, creation, prompts>>

RejectCandidate(c) ==
    /\ candidate[c] # "none"
    /\ Review(c, "rejected")
    /\ UNCHANGED <<gone, memory, inputs, pc, creation, prompts>>

\* A memory that exists is deleted, expired ones too.
DeleteMemory(m) ==
    /\ memory[m] # "none"
    /\ memory' = [memory EXCEPT ![m] = "deleted"]
    /\ UNCHANGED <<gone, candidate, reviewed, inputs, pc, creation, prompts>>

---------------------------------------------------------------------------
(* Around them                                                             *)

\* The session's candidates go with it, its user's memories stay.
DeleteSession(s) ==
    /\ s \notin gone
    /\ gone' = gone \cup {s}
    /\ candidate' = [candidate EXCEPT ![s] = "none"]
    /\ reviewed' = reviewed \ {s}
    /\ UNCHANGED <<memory, inputs, pc, creation, prompts>>

HandlerEnds(h) ==
    /\ MayFail
    /\ pc[h] \notin {"idle", "done"}
    /\ Goto(h, "done")
    /\ UNCHANGED <<rows, inputs, creation, prompts>>

StreamStep(s) ==
    \/ RecallMemories(s)
    \/ ListAcceptedMemories(s)
    \/ StoreNothing(s)
    \/ StoreCandidate(s)

CreationStep(h) == SelectActive(h) \/ InsertMemory(h)

Next ==
    \/ \E s \in Streams : StreamStep(s) \/ RejectCandidate(s) \/ DeleteSession(s)
    \/ \E a \in Accepts : ReadCandidate(a) \/ SetAccepted(a)
    \/ \E h \in Handlers : CreationStep(h) \/ DeleteMemory(h) \/ HandlerEnds(h)

Spec == Init /\ [][Next]_vars

---------------------------------------------------------------------------
(* Safety                                                                  *)

\* Between the SELECT of create_user_memory and its commit, or after it.
Creating(h) == pc[h] = "insert" \/ memory[h] # "none"

\* Two memories of one user and key are active together only when their two
\* create_user_memory transactions overlapped: one that starts after the
\* other's commit expires it, and nothing makes a memory active again.
ActivesOverlapped ==
    \A m, n \in Handlers :
        /\ m # n
        /\ memory[m] = "active"
        /\ memory[n] = "active"
        /\ SameUserAndKey(m, n)
        => m \in rivals[n] \/ n \in rivals[m]

\* A candidate shown as accepted by its user has given a memory, wherever the
\* accept was cut off and whatever was rejected meanwhile: create_user_memory
\* commits before the candidate is marked.
ReviewedAcceptedHasMemory ==
    \A c \in Streams :
        c \in reviewed /\ candidate[c] = "accepted"
        => \E a \in Accepts : source[a] = c /\ memory[a] # "none"

\* What a run recalls from user_memory is of its own user, and a preference
\* of high impact comes from an accept, not from its extraction.
RecallsOwnConfirmed ==
    \A s \in Streams : \A m \in recalled[s] :
        /\ owner[Source(m)] = owner[s]
        /\ key[Source(m)] \in HighImpact => m \in Accepts

\* The step takes the place of every memory that expires in it.
Succeeds ==
    \A m \in Handlers :
        memory[m] = "active" /\ memory'[m] = "expired"
        => \E h \in Handlers : /\ memory[h] = "none"
                               /\ memory'[h] = "active"
                               /\ SameUserAndKey(m, h)

\* A memory expires only in the step that makes another of the same user and
\* key active: no preference is lost to the creation of an unrelated one, and
\* none expires without its successor.
ExpiresOnlyForSuccessor == [][Succeeds]_vars
=============================================================================
