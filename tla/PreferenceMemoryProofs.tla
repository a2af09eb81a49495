----------------------- MODULE PreferenceMemoryProofs -----------------------
(***************************************************************************)
(* Theorems about PreferenceMemory for every value of its constants.       *)
(***************************************************************************)
EXTENDS PreferenceMemory, TLAPS

---------------------------------------------------------------------------
(* Type correctness                                                        *)

\* An accept that creates a memory, or has created one, knows its candidate.
SourcesKnown ==
    \A a \in Accepts :
        pc[a] \in {"select", "insert", "status"} \/ memory[a] # "none"
        => source[a] \in Streams

\* What a SELECT found are rows, and rows are never removed.
FoundRows == \A h \in Handlers : \A m \in found[h] : memory[m] # "none"

TypeInv == TypeOK /\ SourcesKnown /\ FoundRows

LEMMA AtMostSubset ==
  ASSUME NEW S, NEW limit, NEW T \in AtMost(S, limit)
  PROVE  T \subseteq S
BY DEF AtMost

LEMMA TypeInvInit == Init => TypeInv
BY DEF Init, TypeInv, TypeOK, SourcesKnown, FoundRows, CandidateStatus, MemoryStatus, Pc, Handlers

LEMMA TypeInvStep == TypeInv /\ [Next]_vars => TypeInv'
<1> SUFFICES ASSUME TypeInv, [Next]_vars PROVE TypeInv'
  OBVIOUS
<1> USE ConstantsAssumption
    DEF TypeInv, TypeOK, SourcesKnown, FoundRows, CandidateStatus, MemoryStatus, Pc, Handlers,
        Goto, rows, inputs, creation, prompts
<1>1. ASSUME NEW s \in Streams, RecallMemories(s) PROVE TypeInv'
  <2>1. PICK S \in AtMost(OwnActive(owner[s]), RecallLimit) :
            recalled' = [recalled EXCEPT ![s] = S]
    BY <1>1 DEF RecallMemories
  <2>2. S \subseteq Handlers
    BY <2>1, AtMostSubset DEF OwnActive
  <2> QED
    BY <1>1, <2>1, <2>2 DEF RecallMemories
<1>2. ASSUME NEW s \in Streams, ListAcceptedMemories(s) PROVE TypeInv'
  <2> DEFINE accepted == {c \in Streams : candidate[c] = "accepted"}
             always == {c \in accepted : key[c] \in AlwaysScored}
  <2>1. PICK extra \in SUBSET (accepted \ always) :
            \E S \in AtMost(always \cup extra, SummaryLimit) :
                summary' = [summary EXCEPT ![s] = S]
    BY <1>2 DEF ListAcceptedMemories
  <2>2. PICK S \in AtMost(always \cup extra, SummaryLimit) :
            summary' = [summary EXCEPT ![s] = S]
    BY <2>1
  <2>3. S \subseteq Streams
    BY <2>2, AtMostSubset
  <2> HIDE DEF accepted, always
  <2> QED
    BY <1>2, <2>2, <2>3 DEF ListAcceptedMemories
<1>3. ASSUME NEW s \in Streams, StoreNothing(s) PROVE TypeInv'
  BY <1>3 DEF StoreNothing
<1>4. ASSUME NEW s \in Streams, StoreCandidate(s) PROVE TypeInv'
  BY <1>4 DEF StoreCandidate, InitialStatus
<1>5. ASSUME NEW h \in Handlers, SelectActive(h) PROVE TypeInv'
  <2>1. ActiveOfKey(h) \in SUBSET {m \in Handlers : memory[m] # "none"}
    BY DEF ActiveOfKey
  <2>2. {g \in Handlers : pc[g] = "insert"} \in SUBSET Handlers
    OBVIOUS
  <2>3. PICK F \in SUBSET {m \in Handlers : memory[m] # "none"}, R \in SUBSET Handlers :
            /\ found' = [found EXCEPT ![h] = F]
            /\ rivals' = [rivals EXCEPT ![h] = R]
    <3> HIDE DEF Handlers
    <3> QED
      BY <1>5, <2>1, <2>2 DEF SelectActive
  <2> QED
    BY <1>5, <2>3 DEF SelectActive
<1>6. ASSUME NEW h \in Handlers, InsertMemory(h) PROVE TypeInv'
  BY <1>6 DEF InsertMemory, InsertRow
<1>7. ASSUME NEW a \in Accepts, ReadCandidate(a) PROVE TypeInv'
  <2>1. PICK c \in Streams : source' = [source EXCEPT ![a] = c]
    BY <1>7 DEF ReadCandidate
  <2>2. SourcesKnown'
    BY <1>7, <2>1 DEF ReadCandidate
  <2>3. FoundRows'
    BY <1>7 DEF ReadCandidate
  <2>4. TypeOK'
    BY <1>7, <2>1 DEF ReadCandidate
  <2> QED
    BY <2>2, <2>3, <2>4
<1>8. ASSUME NEW a \in Accepts, SetAccepted(a) PROVE TypeInv'
  <2>1. pc[a] = "status" /\ source[a] \in Streams
    BY <1>8 DEF SetAccepted
  <2>2. CASE candidate[source[a]] = "none"
    BY <1>8, <2>2 DEF SetAccepted
  <2>3. CASE candidate[source[a]] # "none"
    <3>1. PICK c \in Streams :
              /\ candidate[c] # "none"
              /\ candidate' = [candidate EXCEPT ![c] = "accepted"]
              /\ reviewed' = reviewed \cup {c}
      BY <1>8, <2>1, <2>3 DEF SetAccepted, Review
    <3> QED
      BY <1>8, <3>1 DEF SetAccepted
  <2> QED
    BY <2>2, <2>3
<1>9. ASSUME NEW c \in Streams, RejectCandidate(c) PROVE TypeInv'
  BY <1>9 DEF RejectCandidate, Review
<1>10. ASSUME NEW m \in Handlers, DeleteMemory(m) PROVE TypeInv'
  BY <1>10 DEF DeleteMemory
<1>11. ASSUME NEW s \in Streams, DeleteSession(s) PROVE TypeInv'
  BY <1>11 DEF DeleteSession
<1>12. ASSUME NEW h \in Handlers, HandlerEnds(h) PROVE TypeInv'
  BY <1>12 DEF HandlerEnds
<1>13. CASE UNCHANGED vars
  BY <1>13 DEF vars
<1> HIDE DEF TypeInv, TypeOK, SourcesKnown, FoundRows, CandidateStatus, MemoryStatus, Pc,
             Handlers, Goto, rows, inputs, creation, prompts
<1> QED
  BY <1>1, <1>2, <1>3, <1>4, <1>5, <1>6, <1>7, <1>8, <1>9, <1>10, <1>11, <1>12, <1>13
     DEF Next, StreamStep, CreationStep

\* The rows, handlers and prompts keep their types, and no candidate outlives
\* its deleted session.
THEOREM TypeCorrect == Spec => []TypeOK
<1>1. TypeInv => TypeOK
  BY DEF TypeInv
<1> QED
  BY TypeInvInit, TypeInvStep, <1>1, PTL DEF Spec

---------------------------------------------------------------------------
(* One active memory of a user and key, but for overlapping creations      *)

\* An execution that has not committed its memory has none, and has found
\* nothing before its SELECT.
Before(h) == pc[h] \in {"idle", "recalled", "running", "select"}

Fresh ==
    \A h \in Handlers :
        /\ Before(h) \/ pc[h] = "insert" => memory[h] = "none"
        /\ Before(h) => found[h] = {}

\* What a SELECT found are memories of the same user and key.
FoundSameKey == \A h \in Handlers : \A m \in found[h] : SameUserAndKey(m, h)

\* A committed creation has put an end to what it found.
Covered ==
    \A h \in Handlers : \A m \in found[h] :
        memory[h] # "none" => memory[m] # "active"

\* m was committed when n looked: n found it, or it was no longer active.
Precedes(m, n) == memory[m] # "none" /\ (m \in found[n] \/ memory[m] # "active")

\* Of two creations of one user and key that did not overlap, one precedes.
Serial ==
    \A m, n \in Handlers :
        /\ m # n
        /\ Creating(m)
        /\ Creating(n)
        /\ SameUserAndKey(m, n)
        /\ m \notin rivals[n]
        /\ n \notin rivals[m]
        => Precedes(m, n) \/ Precedes(n, m)

CreationInv == Fresh /\ FoundSameKey /\ Covered /\ Serial

LEMMA CreationInvInit == Init => CreationInv
BY DEF Init, CreationInv, Fresh, FoundSameKey, Covered, Serial, Creating, Handlers

LEMMA SameUserAndKeySymmetric ==
  ASSUME NEW m, NEW n
  PROVE  SameUserAndKey(m, n) <=> SameUserAndKey(n, m)
BY DEF SameUserAndKey

\* A step that selects, commits, deletes and reads no candidate keeps the
\* invariant.
LEMMA CreationInvKept ==
  ASSUME TypeInv, CreationInv, UNCHANGED <<memory, inputs, creation>>,
         \A h \in Handlers : pc'[h] = "insert" => pc[h] = "insert",
         \A h \in Handlers : Before(h)' => Before(h)
  PROVE  CreationInv'
<1>1. UNCHANGED <<memory, owner, key, source, found, rivals>>
  BY DEF inputs, creation
<1>2. Fresh'
  BY <1>1 DEF CreationInv, Fresh
<1>3. FoundSameKey'
  BY <1>1 DEF CreationInv, FoundSameKey, SameUserAndKey, Source
<1>4. Covered'
  BY <1>1 DEF CreationInv, Covered
<1>5. Serial'
  BY <1>1 DEF CreationInv, Serial, Creating, Precedes, SameUserAndKey, Source
<1> QED
  BY <1>2, <1>3, <1>4, <1>5 DEF CreationInv

LEMMA CreationInvStep == TypeInv /\ CreationInv /\ [Next]_vars => CreationInv'
<1> SUFFICES ASSUME TypeInv, CreationInv, [Next]_vars PROVE CreationInv'
  OBVIOUS
<1>0. pc \in [Handlers -> Pc] /\ memory \in [Handlers -> MemoryStatus]
      /\ found \in [Handlers -> SUBSET Handlers] /\ rivals \in [Handlers -> SUBSET Handlers]
      /\ Streams \subseteq Handlers /\ Accepts \subseteq Handlers
  BY DEF TypeInv, TypeOK, Handlers
<1>1. ASSUME NEW s \in Streams, RecallMemories(s) PROVE CreationInv'
  BY <1>0, <1>1, CreationInvKept DEF RecallMemories, rows, Goto, Before
<1>2. ASSUME NEW s \in Streams, ListAcceptedMemories(s) PROVE CreationInv'
  BY <1>0, <1>2, CreationInvKept DEF ListAcceptedMemories, rows, Goto, Before
<1>3. ASSUME NEW s \in Streams, StoreNothing(s) PROVE CreationInv'
  BY <1>0, <1>3, CreationInvKept DEF StoreNothing, rows, Goto, Before
<1>4. ASSUME NEW s \in Streams, StoreCandidate(s) PROVE CreationInv'
  BY <1>0, <1>4, CreationInvKept DEF StoreCandidate, Goto, Before
<1>5. ASSUME NEW h \in Handlers, SelectActive(h) PROVE CreationInv'
  <2>1. /\ pc[h] = "select" /\ pc' = [pc EXCEPT ![h] = "insert"]
        /\ UNCHANGED <<memory, owner, key, source>>
        /\ memory[h] = "none" /\ found[h] = {}
    BY <1>5 DEF SelectActive, Goto, rows, inputs, CreationInv, Fresh, Before
  <2>2. /\ found' = [found EXCEPT ![h] = ActiveOfKey(h)]
        /\ rivals' = [rivals EXCEPT ![h] = {g \in Handlers : pc[g] = "insert"}]
    BY <1>5 DEF SelectActive
  <2>3. \A m, n : SameUserAndKey(m, n)' <=> SameUserAndKey(m, n)
    BY <2>1 DEF SameUserAndKey, Source
  <2>4. Fresh'
    BY <1>0, <2>1, <2>2 DEF CreationInv, Fresh, Before
  <2>5. FoundSameKey'
    BY <1>0, <2>2, <2>3 DEF CreationInv, FoundSameKey, ActiveOfKey
  <2>6. Covered'
    BY <1>0, <2>1, <2>2 DEF CreationInv, Covered
  <2>7. ASSUME NEW n \in Handlers, n # h, Creating(n)', SameUserAndKey(n, h),
               n \notin rivals'[h]
        PROVE  Precedes(n, h)'
    <3>1. memory[n] # "none"
      BY <1>0, <2>1, <2>2, <2>7 DEF Creating
    <3> QED
      BY <1>0, <2>1, <2>2, <2>7, <3>1 DEF Precedes, ActiveOfKey
  <2>8. Serial'
    <3> SUFFICES ASSUME NEW m \in Handlers, NEW n \in Handlers, m # n,
                        Creating(m)', Creating(n)', SameUserAndKey(m, n),
                        m \notin rivals'[n], n \notin rivals'[m]
                 PROVE  Precedes(m, n)' \/ Precedes(n, m)'
      BY <2>3 DEF Serial
    <3>1. CASE m = h
      BY <2>7, <3>1, SameUserAndKeySymmetric
    <3>2. CASE n = h
      BY <2>7, <3>2
    <3>3. CASE m # h /\ n # h
      <4>1. Creating(m) /\ Creating(n) /\ m \notin rivals[n] /\ n \notin rivals[m]
        BY <1>0, <2>1, <2>2, <3>3 DEF Creating
      <4>2. Precedes(m, n) \/ Precedes(n, m)
        BY <4>1 DEF CreationInv, Serial
      <4> QED
        BY <1>0, <2>1, <2>2, <3>3, <4>2 DEF Precedes
    <3> QED
      BY <3>1, <3>2, <3>3
  <2> QED
    BY <2>4, <2>5, <2>6, <2>8 DEF CreationInv
<1>6. ASSUME NEW h \in Handlers, InsertMemory(h) PROVE CreationInv'
  <2>1. /\ pc[h] = "insert" /\ memory[h] = "none"
        /\ UNCHANGED <<owner, key, source, found, rivals>>
    BY <1>6 DEF InsertMemory, inputs, creation, CreationInv, Fresh
  <2>2. \A m \in Handlers : memory'[m] = IF m = h THEN "active"
                                         ELSE IF m \in found[h] THEN "expired"
                                         ELSE memory[m]
    BY <1>6 DEF InsertMemory, InsertRow
  <2>3. PICK place \in {"status", "done"} : pc' = [pc EXCEPT ![h] = place]
    BY <1>6 DEF InsertMemory, Goto
  <2>4. \A m, n : SameUserAndKey(m, n)' <=> SameUserAndKey(m, n)
    BY <2>1 DEF SameUserAndKey, Source
  <2>5. Fresh'
    <3>1. \A g \in Handlers : Before(g)' => g # h /\ Before(g)
      BY <1>0, <2>3 DEF Before
    <3>2. \A g \in Handlers : pc'[g] = "insert" => g # h /\ pc[g] = "insert"
      BY <1>0, <2>3
    <3>3. \A g \in found[h] : memory[g] # "none"
      BY DEF TypeInv, FoundRows
    <3> QED
      BY <2>1, <2>2, <3>1, <3>2, <3>3 DEF CreationInv, Fresh
  <2>6. FoundSameKey'
    BY <2>1, <2>4 DEF CreationInv, FoundSameKey
  <2>7. Covered'
    <3> SUFFICES ASSUME NEW g \in Handlers, NEW m \in found[g], memory'[g] # "none"
                 PROVE  memory'[m] # "active"
      BY <2>1 DEF Covered
    <3>1. m \in Handlers /\ memory[m] # "none" /\ m # h
      BY <1>0, <2>1 DEF TypeInv, FoundRows
    <3>2. CASE g = h
      BY <2>2, <3>1, <3>2
    <3>3. CASE g # h
      <4>1. memory[g] # "none"
        BY <2>2, <3>3 DEF TypeInv, FoundRows
      <4>2. memory[m] # "active"
        BY <4>1 DEF CreationInv, Covered
      <4> QED
        BY <2>2, <3>1, <4>2
    <3> QED
      BY <3>2, <3>3
  <2>8. ASSUME NEW m \in Handlers, NEW n \in Handlers, Precedes(m, n)
        PROVE  Precedes(m, n)'
    BY <2>1, <2>2, <2>8 DEF Precedes
  <2>9. ASSUME NEW m \in Handlers, Creating(m)' PROVE Creating(m)
    <3>1. CASE m = h
      BY <2>1, <3>1 DEF Creating
    <3>2. CASE m # h
      BY <1>0, <2>2, <2>3, <2>9, <3>2 DEF Creating, TypeInv, FoundRows
    <3> QED
      BY <3>1, <3>2
  <2>10. Serial'
    BY <2>1, <2>4, <2>8, <2>9 DEF CreationInv, Serial
  <2> QED
    BY <2>5, <2>6, <2>7, <2>10 DEF CreationInv
<1>7. ASSUME NEW a \in Accepts, ReadCandidate(a) PROVE CreationInv'
  <2>1. /\ pc[a] = "idle" /\ pc' = [pc EXCEPT ![a] = "select"]
        /\ UNCHANGED <<memory, owner, key, found, rivals>>
        /\ memory[a] = "none" /\ found[a] = {}
    BY <1>0, <1>7 DEF ReadCandidate, Goto, rows, creation, CreationInv, Fresh, Before
  <2>2. PICK c \in Streams : source' = [source EXCEPT ![a] = c]
    BY <1>7 DEF ReadCandidate
  <2>3. \A m \in Handlers : m # a => Source(m)' = Source(m)
    BY <2>2 DEF Source, TypeInv, TypeOK, Handlers
  <2>4. \A m, n \in Handlers : m # a /\ n # a
            => (SameUserAndKey(m, n)' <=> SameUserAndKey(m, n))
    BY <2>1, <2>3 DEF SameUserAndKey
  <2>5. Fresh'
    BY <1>0, <2>1 DEF CreationInv, Fresh, Before
  <2>6. FoundSameKey'
    <3>1. \A h \in Handlers : \A m \in found[h] : m \in Handlers /\ m # a /\ h # a
      BY <1>0, <2>1 DEF TypeInv, FoundRows
    <3> QED
      BY <2>1, <2>4, <3>1 DEF CreationInv, FoundSameKey
  <2>7. Covered'
    BY <2>1 DEF CreationInv, Covered
  <2>8. \A m \in Handlers : Creating(m)' => m # a /\ Creating(m)
    BY <1>0, <2>1 DEF Creating
  <2>9. Serial'
    BY <2>1, <2>4, <2>8 DEF CreationInv, Serial, Precedes
  <2> QED
    BY <2>5, <2>6, <2>7, <2>9 DEF CreationInv
<1>8. ASSUME NEW a \in Accepts, SetAccepted(a) PROVE CreationInv'
  BY <1>0, <1>8, CreationInvKept DEF SetAccepted, Goto, Before
<1>9. ASSUME NEW c \in Streams, RejectCandidate(c) PROVE CreationInv'
  BY <1>0, <1>9, CreationInvKept DEF RejectCandidate, Before
<1>10. ASSUME NEW d \in Handlers, DeleteMemory(d) PROVE CreationInv'
  <2>1. /\ memory[d] # "none" /\ memory' = [memory EXCEPT ![d] = "deleted"]
        /\ UNCHANGED <<pc, owner, key, source, found, rivals>>
    BY <1>10 DEF DeleteMemory, inputs, creation
  <2>2. \A m, n : SameUserAndKey(m, n)' <=> SameUserAndKey(m, n)
    BY <2>1 DEF SameUserAndKey, Source
  <2>3. Fresh'
    BY <1>0, <2>1 DEF CreationInv, Fresh, Before
  <2>4. FoundSameKey'
    BY <2>1, <2>2 DEF CreationInv, FoundSameKey
  <2>5. Covered'
    BY <1>0, <2>1 DEF CreationInv, Covered
  <2>6. Serial'
    BY <1>0, <2>1, <2>2 DEF CreationInv, Serial, Creating, Precedes
  <2> QED
    BY <2>3, <2>4, <2>5, <2>6 DEF CreationInv
<1>11. ASSUME NEW s \in Streams, DeleteSession(s) PROVE CreationInv'
  BY <1>0, <1>11, CreationInvKept DEF DeleteSession, Before
<1>12. ASSUME NEW h \in Handlers, HandlerEnds(h) PROVE CreationInv'
  BY <1>0, <1>12, CreationInvKept DEF HandlerEnds, Goto, rows, Before
<1>13. CASE UNCHANGED vars
  BY <1>13, CreationInvKept DEF vars, rows, Before
<1> QED
  BY <1>1, <1>2, <1>3, <1>4, <1>5, <1>6, <1>7, <1>8, <1>9, <1>10, <1>11, <1>12, <1>13
     DEF Next, StreamStep, CreationStep

\* Two active memories of one user and key come from overlapping creations,
\* for any number of users, runs and accepts, any key and any failure.
THEOREM ActivesOnlyByOverlap == Spec => []ActivesOverlapped
<1>1. TypeInv /\ CreationInv => ActivesOverlapped
  BY DEF CreationInv, Covered, Serial, Creating, Precedes, ActivesOverlapped
<1> QED
  BY TypeInvInit, TypeInvStep, CreationInvInit, CreationInvStep, <1>1, PTL DEF Spec

\* A memory expires only in the step that activates its successor.
THEOREM ExpiryBringsSuccessor == Spec => ExpiresOnlyForSuccessor
<1>1. TypeInv /\ CreationInv /\ [Next]_vars => [Succeeds]_vars
  <2> SUFFICES ASSUME TypeInv, CreationInv, Next, NEW m \in Handlers,
                      memory[m] = "active", memory'[m] = "expired"
               PROVE  \E h \in Handlers : /\ memory[h] = "none"
                                          /\ memory'[h] = "active"
                                          /\ SameUserAndKey(m, h)
    BY DEF Succeeds
  <2>1. PICK h \in Handlers : InsertMemory(h)
    <3>1. \A d \in Handlers : ~ DeleteMemory(d)
      BY DEF DeleteMemory, TypeInv, TypeOK
    <3> QED
      BY <3>1 DEF Next, StreamStep, CreationStep, RecallMemories, ListAcceptedMemories,
                  StoreNothing, StoreCandidate, SelectActive, ReadCandidate, SetAccepted,
                  RejectCandidate, DeleteSession, HandlerEnds, rows
  <2>2. memory[h] = "none" /\ memory'[h] = "active" /\ m \in found[h]
    BY <2>1 DEF InsertMemory, InsertRow, CreationInv, Fresh
  <2> QED
    BY <2>2 DEF CreationInv, FoundSameKey
<1> QED
  BY TypeInvInit, TypeInvStep, CreationInvInit, CreationInvStep, <1>1, PTL
     DEF Spec, ExpiresOnlyForSuccessor

---------------------------------------------------------------------------
(* Review                                                                  *)

\* A run that has not stored its candidate has no row, reviewed or not.
Unstored ==
    \A s \in Streams :
        pc[s] \in {"idle", "recalled", "running"} \/ candidate[s] = "none"
        => candidate[s] = "none" /\ s \notin reviewed

\* An accept is about to mark only when its memory is there.
MarksAfterCreation == \A a \in Accepts : pc[a] = "status" => memory[a] # "none"

\* Only an accept creates a memory of high impact.
LowImpactByRun ==
    \A s \in Streams :
        memory[s] # "none" \/ pc[s] \in {"select", "insert", "status"}
        => key[s] \notin HighImpact

\* What was recalled is a row, of the run's user and as RecallsOwnConfirmed says.
RecalledRows == \A s \in Streams : \A m \in recalled[s] : memory[m] # "none"

ReviewInv ==
    /\ Unstored
    /\ MarksAfterCreation
    /\ LowImpactByRun
    /\ RecalledRows
    /\ ReviewedAcceptedHasMemory
    /\ RecallsOwnConfirmed

LEMMA ReviewInvInit == Init => ReviewInv
BY DEF Init, ReviewInv, Unstored, MarksAfterCreation, LowImpactByRun, RecalledRows,
       ReviewedAcceptedHasMemory, RecallsOwnConfirmed, Handlers

LEMMA ReviewInvStep == TypeInv /\ CreationInv /\ ReviewInv /\ [Next]_vars => ReviewInv'
<1> SUFFICES ASSUME TypeInv, CreationInv, ReviewInv, [Next]_vars PROVE ReviewInv'
  OBVIOUS
<1>0. /\ pc \in [Handlers -> Pc] /\ memory \in [Handlers -> MemoryStatus]
      /\ candidate \in [Streams -> CandidateStatus] /\ source \in [Accepts -> Streams \cup {NoCandidate}]
      /\ recalled \in [Streams -> SUBSET Handlers]
      /\ Handlers = Streams \cup Accepts /\ Streams \cap Accepts = {}
  BY ConstantsAssumption DEF TypeInv, TypeOK, Handlers
<1> USE DEF ReviewInv, Unstored, MarksAfterCreation, LowImpactByRun, RecalledRows,
        ReviewedAcceptedHasMemory, RecallsOwnConfirmed, Source, Goto, rows, inputs,
        creation, prompts
<1>1. ASSUME NEW s \in Streams, RecallMemories(s) PROVE ReviewInv'
  <2>1. PICK S \in AtMost(OwnActive(owner[s]), RecallLimit) :
            recalled' = [recalled EXCEPT ![s] = S]
    BY <1>1 DEF RecallMemories
  <2>2. \A m \in S : m \in Handlers /\ memory[m] = "active" /\ owner[Source(m)] = owner[s]
    BY <2>1, AtMostSubset DEF OwnActive
  <2>3. \A m \in S : key[Source(m)] \in HighImpact => m \in Accepts
    BY <1>0, <2>2
  <2>4. UNCHANGED <<owner, key, source, memory, candidate, reviewed>>
    BY <1>1 DEF RecallMemories
  <2>5. RecalledRows' /\ RecallsOwnConfirmed'
    BY <1>0, <2>1, <2>2, <2>3, <2>4
  <2>6. Unstored' /\ MarksAfterCreation' /\ LowImpactByRun' /\ ReviewedAcceptedHasMemory'
    BY <1>0, <1>1, <2>4 DEF RecallMemories
  <2> QED
    BY <2>5, <2>6
<1>2. ASSUME NEW s \in Streams, ListAcceptedMemories(s) PROVE ReviewInv'
  BY <1>0, <1>2 DEF ListAcceptedMemories
<1>3. ASSUME NEW s \in Streams, StoreNothing(s) PROVE ReviewInv'
  BY <1>0, <1>3 DEF StoreNothing
<1>4. ASSUME NEW s \in Streams, StoreCandidate(s) PROVE ReviewInv'
  BY <1>0, <1>4 DEF StoreCandidate, InitialStatus, HighImpact
<1>5. ASSUME NEW h \in Handlers, SelectActive(h) PROVE ReviewInv'
  BY <1>0, <1>5 DEF SelectActive
<1>6. ASSUME NEW h \in Handlers, InsertMemory(h) PROVE ReviewInv'
  <2>1. /\ pc[h] = "insert"
        /\ UNCHANGED <<owner, key, source, candidate, reviewed, recalled>>
    BY <1>6 DEF InsertMemory
  <2>2. \A m \in Handlers : memory'[m] # "none" <=> m = h \/ memory[m] # "none"
    BY <1>0, <1>6 DEF InsertMemory, InsertRow, TypeInv, FoundRows
  <2>3. pc' = [pc EXCEPT ![h] = IF h \in Accepts THEN "status" ELSE "done"]
    BY <1>6 DEF InsertMemory
  <2> QED
    BY <1>0, <2>1, <2>2, <2>3
<1>7. ASSUME NEW a \in Accepts, ReadCandidate(a) PROVE ReviewInv'
  <2>1. /\ pc[a] = "idle" /\ memory[a] = "none" /\ pc' = [pc EXCEPT ![a] = "select"]
        /\ UNCHANGED <<owner, key, memory, candidate, reviewed, recalled>>
    BY <1>0, <1>7 DEF ReadCandidate, CreationInv, Fresh, Before
  <2>2. PICK c \in Streams : source' = [source EXCEPT ![a] = c]
    BY <1>7 DEF ReadCandidate
  <2>3. \A m \in Handlers : m # a => Source(m)' = Source(m)
    BY <1>0, <2>2
  <2>4. RecallsOwnConfirmed'
    BY <1>0, <2>1, <2>3
  <2> QED
    BY <1>0, <2>1, <2>2, <2>4
<1>8. ASSUME NEW a \in Accepts, SetAccepted(a) PROVE ReviewInv'
  BY <1>0, <1>8 DEF SetAccepted, Review
<1>9. ASSUME NEW c \in Streams, RejectCandidate(c) PROVE ReviewInv'
  BY <1>0, <1>9 DEF RejectCandidate, Review
<1>10. ASSUME NEW m \in Handlers, DeleteMemory(m) PROVE ReviewInv'
  BY <1>0, <1>10 DEF DeleteMemory
<1>11. ASSUME NEW s \in Streams, DeleteSession(s) PROVE ReviewInv'
  BY <1>0, <1>11 DEF DeleteSession
<1>12. ASSUME NEW h \in Handlers, HandlerEnds(h) PROVE ReviewInv'
  BY <1>0, <1>12 DEF HandlerEnds
<1>13. CASE UNCHANGED vars
  BY <1>13 DEF vars
<1> HIDE DEF ReviewInv, Unstored, MarksAfterCreation, LowImpactByRun, RecalledRows,
             ReviewedAcceptedHasMemory, RecallsOwnConfirmed, Source, Goto, rows,
             inputs, creation, prompts
<1> QED
  BY <1>1, <1>2, <1>3, <1>4, <1>5, <1>6, <1>7, <1>8, <1>9, <1>10, <1>11, <1>12, <1>13
     DEF Next, StreamStep, CreationStep

LEMMA Reviewed == Spec => []ReviewInv
BY TypeInvInit, TypeInvStep, CreationInvInit, CreationInvStep, ReviewInvInit,
   ReviewInvStep, PTL DEF Spec

\* A candidate its user has accepted has given a memory.
THEOREM AcceptCreatesFirst == Spec => []ReviewedAcceptedHasMemory
BY Reviewed, PTL DEF ReviewInv

\* A run recalls memories of its own user, those of high impact only after an
\* accept.
THEOREM RecallIsOwnAndConfirmed == Spec => []RecallsOwnConfirmed
BY Reviewed, PTL DEF ReviewInv
=============================================================================
