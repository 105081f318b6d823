-------------------------- MODULE AskSessionProofs --------------------------
(***************************************************************************)
(* What AskSession promises for every number of users, threads, documents  *)
(* and texts, and Conversation for dialogues of any length.  Both rest on  *)
(* what one call of Ask makes of a session.                                *)
(***************************************************************************)
EXTENDS AskSession, Conversation, TLAPS

-----------------------------------------------------------------------------
(* One outcome of a call: types, and what it does to the pending question.   *)

\* The text was no selection of a pending question, so that the outcome either leaves
\* question and documents alone and offers nothing, or drops the question, or stores both
\* as it offers them, several documents.
Consistent(text, s, o) ==
    \/ /\ o.session.pending = s.pending /\ o.session.candidates = s.candidates
       /\ o.reply.status # "need_clarification"
    \/ o.session.pending = NoText /\ o.reply.status # "need_clarification"
    \/ /\ o.session.pending = text /\ o.session.candidates = o.reply.candidates
       /\ o.reply.status = "need_clarification" /\ Cardinality(o.session.candidates) > 1

Typed(o) == o.session \in SessionState /\ o.reply \in Replies

LEMMA AnsweredType ==
  ASSUME NEW d \in Docs, NEW text \in Text \cup {NoText}
  PROVE  Answered(d, text) \in Replies /\ LowRelevance(d) \in Replies
  BY DEF Answered, LowRelevance, Replies

LEMMA ClarificationType ==
  ASSUME NEW ds \in SUBSET Docs
  PROVE  NeedClarification(ds) \in Replies
  BY DEF NeedClarification, Replies

LEMMA RememberedOutcome ==
  ASSUME NEW s \in SessionState, NEW m \in Remembered(s)
  PROVE  m \in SessionState /\ m.pending = s.pending /\ m.candidates = s.candidates
  BY DEF Remembered, SessionState

LEMMA ResolvedOutcome ==
  ASSUME NEW s \in SessionState, s.pending # NoText, NEW text \in Text,
         NEW o \in ResolvePendingSelection(text, s)
  PROVE  /\ Typed(o)
         /\ text \notin s.candidates => o.session = s
         /\ text \in s.candidates =>
               /\ o.session.pending = NoText
               /\ \/ o.reply = Answered(text, s.pending)
                  \/ o.reply = LowRelevance(text)
  <1>1. CASE text \notin s.candidates
    <2>1. o = [session |-> s, reply |-> NeedClarification(s.candidates)]
      BY <1>1 DEF ResolvePendingSelection, Outcome
    <2>2. s.candidates \in SUBSET Docs
      BY DEF SessionState
    <2> QED
      BY <1>1, <2>1, <2>2, ClarificationType DEF Typed
  <1>2. CASE text \in s.candidates
    <2> DEFINE cleared == [s EXCEPT !.pending = NoText, !.candidates = {}]
    <2>1. text \in Docs /\ s.pending \in Text
      BY <1>2 DEF SessionState
    <2>2. o.session \in {cleared, [cleared EXCEPT !.active = text]}
      BY <1>2 DEF ResolvePendingSelection, Outcome
    <2>3. o.reply \in {Answered(text, s.pending), LowRelevance(text)}
      BY <1>2 DEF ResolvePendingSelection, Outcome
    <2>4. o.session \in SessionState /\ o.session.pending = NoText
      BY <2>1, <2>2 DEF SessionState
    <2> QED
      BY <1>2, <2>1, <2>3, <2>4, AnsweredType DEF Typed
  <1> QED
    BY <1>1, <1>2

LEMMA ConfidentOutcome ==
  ASSUME NEW s \in SessionState, NEW text \in Text, NEW c \in Reports,
         NEW o \in GenerateAndVerify(text, s, c)
  PROVE  Typed(o) /\ Consistent(text, s, o)
  <1>1. /\ o.session = [s EXCEPT !.active = c.top, !.pending = NoText]
        /\ o.reply = Answered(c.top, text)
    BY DEF GenerateAndVerify, Outcome
  <1>2. c.top \in Docs
    BY DEF Reports
  <1>3. o.session \in SessionState /\ o.session.pending = NoText
    BY <1>1, <1>2 DEF SessionState
  <1>4. o.reply \in Replies /\ o.reply.status = "answered"
    BY <1>1, <1>2, AnsweredType DEF Answered
  <1> QED
    BY <1>3, <1>4 DEF Typed, Consistent

LEMMA AskBackOutcome ==
  ASSUME NEW s \in SessionState, NEW text \in Text, NEW c \in Reports
  PROVE  Typed(AskBack(text, s, c)) /\ Consistent(text, s, AskBack(text, s, c))
  <1>1. c.top \in Docs /\ c.found \in SUBSET Docs
    BY DEF Reports
  <1>2. CASE c.sure = "spread"
    <2>1. /\ Cardinality(c.found) > 1
          /\ AskBack(text, s, c).session =
               [s EXCEPT !.pending = text, !.candidates = c.found]
          /\ AskBack(text, s, c).reply = NeedClarification(c.found)
      BY <1>2 DEF AskBack, Outcome, Reports
    <2>2. NeedClarification(c.found) \in Replies
      BY <1>1, ClarificationType
    <2>3. /\ AskBack(text, s, c).session \in SessionState
          /\ AskBack(text, s, c).session.pending = text
          /\ AskBack(text, s, c).session.candidates = c.found
      BY <1>1, <2>1 DEF SessionState
    <2>4. /\ NeedClarification(c.found).status = "need_clarification"
          /\ NeedClarification(c.found).candidates = c.found
      BY DEF NeedClarification
    <2> QED
      BY <2>1, <2>2, <2>3, <2>4 DEF Typed, Consistent
  <1>3. CASE c.sure # "spread"
    <2>1. /\ AskBack(text, s, c).session = [s EXCEPT !.active = c.top]
          /\ AskBack(text, s, c).reply = LowRelevance(c.top)
      BY <1>3 DEF AskBack, Outcome
    <2>2. LowRelevance(c.top) \in Replies
      BY <1>1, AnsweredType
    <2> QED
      BY <1>1, <2>1, <2>2 DEF Typed, Consistent, SessionState, LowRelevance
  <1> QED
    BY <1>2, <1>3

LEMMA LowConfidenceOutcome ==
  ASSUME NEW s \in SessionState, NEW text \in Text, NEW c \in Reports,
         NEW o \in HandleLowConfidence(text, s, c)
  PROVE  Typed(o) /\ Consistent(text, s, o)
  <1>1. CASE o \in {Outcome([s EXCEPT !.active = d], Answered(d, text)) : d \in Docs \ {s.active}}
    <2>1. PICK d \in Docs : o.session = [s EXCEPT !.active = d] /\ o.reply = Answered(d, text)
      BY <1>1 DEF Outcome
    <2>2. o.reply \in Replies /\ o.reply.status = "answered"
      BY <2>1, AnsweredType DEF Answered
    <2> QED
      BY <2>1, <2>2 DEF Typed, Consistent, SessionState
  <1>2. CASE o \in {Outcome(m, Answered(m.active, text)) :
                       m \in {x \in Remembered(s) : x.active # NoDoc}}
    <2>1. PICK m \in Remembered(s) :
             m.active # NoDoc /\ o.session = m /\ o.reply = Answered(m.active, text)
      BY <1>2 DEF Outcome
    <2>2. /\ m \in SessionState /\ m.active \in Docs
          /\ m.pending = s.pending /\ m.candidates = s.candidates
      BY <2>1, RememberedOutcome DEF SessionState
    <2>3. o.reply \in Replies /\ o.reply.status = "answered"
      BY <2>1, <2>2, AnsweredType DEF Answered
    <2> QED
      BY <2>1, <2>2, <2>3 DEF Typed, Consistent
  <1>3. CASE o \in {AskBack(text, m, c) : m \in Remembered(s)}
    <2>1. PICK m \in Remembered(s) : o = AskBack(text, m, c)
      BY <1>3
    <2>2. m \in SessionState /\ m.pending = s.pending /\ m.candidates = s.candidates
      BY RememberedOutcome
    <2>3. Typed(o) /\ Consistent(text, m, o)
      BY <2>1, <2>2, AskBackOutcome
    <2> QED
      BY <2>2, <2>3 DEF Consistent
  <1> QED
    BY <1>1, <1>2, <1>3 DEF HandleLowConfidence

\* Every text is asked as a selection or as a question.
LEMMA AskedOutcome ==
  ASSUME NEW s \in SessionState, NEW text \in Text, NEW o \in Ask(text, s)
  PROVE  /\ Typed(o)
         /\ IF s.pending # NoText /\ LooksLikeSelection(text)
            THEN o \in ResolvePendingSelection(text, s)
            ELSE Consistent(text, s, o)
  <1>1. CASE s.pending # NoText /\ LooksLikeSelection(text)
    <2>1. o \in ResolvePendingSelection(text, s)
      BY <1>1 DEF Ask
    <2> QED
      BY <1>1, <2>1, ResolvedOutcome
  <1>2. CASE ~(s.pending # NoText /\ LooksLikeSelection(text))
    <2>1. PICK c \in Reports : o \in IF c.sure = "confident"
                                     THEN GenerateAndVerify(text, s, c)
                                     ELSE HandleLowConfidence(text, s, c)
      BY <1>2 DEF Ask
    <2>2. Typed(o) /\ Consistent(text, s, o)
      BY <2>1, ConfidentOutcome, LowConfidenceOutcome
    <2> QED
      BY <1>2, <2>2
  <1> QED
    BY <1>1, <1>2

\* A pending question is one of the texts T and is stored with its candidates.
Answerable(s, T) == s.pending # NoText => s.pending \in T /\ Cardinality(s.candidates) > 1

LEMMA AskedSession ==
  ASSUME NEW s \in SessionState, NEW T, Answerable(s, T), NEW text \in Text \cap T,
         NEW o \in Ask(text, s)
  PROVE  o.session \in SessionState /\ Answerable(o.session, T)
  <1>1. CASE s.pending # NoText /\ LooksLikeSelection(text)
    <2>1. o \in ResolvePendingSelection(text, s)
      BY <1>1, AskedOutcome
    <2>2. o.session = s \/ o.session.pending = NoText
      BY <1>1, <2>1, ResolvedOutcome
    <2> QED
      BY <2>2, AskedOutcome DEF Typed, Answerable
  <1>2. CASE ~(s.pending # NoText /\ LooksLikeSelection(text))
    <2>1. Typed(o) /\ Consistent(text, s, o)
      BY <1>2, AskedOutcome
    <2> QED
      BY <2>1 DEF Typed, Consistent, Answerable
  <1> QED
    BY <1>1, <1>2

-----------------------------------------------------------------------------
(* Types, with what a thread holds at each step: a user, a text of that user *)
(* and a state that may be stored.                                           *)

ThreadOK(q) ==
    /\ q \in RequestState
    /\ q.pc \notin {"idle", "done"} => q.user \in Users
    /\ q.pc \in {"acquire", "load", "ask"} => q.text \in Says[q.user]
    /\ q.pc \in {"ask", "store"} => Answerable(q.state, Says[q.user])

Threads == req \in [Requests -> RequestState] /\ \A r \in Requests : ThreadOK(req[r])

Shared ==
    /\ session \in [Users -> SessionState]
    /\ lock \in [Users -> Requests \cup {Free, Orphan}]
    /\ overtaken \cup outdated \subseteq Requests
    /\ disturbed \subseteq Users

WellFormed == Shared /\ Threads /\ PendingIsAnswerable

LEMMA IdleThread ==
    /\ ThreadOK(Idle) /\ Idle \in RequestState
    /\ NewSession \in SessionState /\ NewSession.pending = NoText
  BY NoUserAssumption
     DEF Idle, RequestState, NewSession, SessionState, Steps, Codes, ThreadOK, Answerable

LEMMA InitWellFormed == Init => WellFormed
  BY IdleThread DEF Init, WellFormed, Shared, Threads, PendingIsAnswerable

\* A step of one thread.
LEMMA OneThread ==
  ASSUME Threads, NEW r \in Requests, NEW q, ThreadOK(q), req' = [req EXCEPT ![r] = q]
  PROVE  Threads'
  BY DEF Threads, ThreadOK

LEMMA ForgetStep ==
  ASSUME Threads, NEW r \in Requests, NEW step \in {"release", "unwind", "push"},
         NEW code \in Codes, req[r].user \in Users, Forget(r, step, code)
  PROVE  Threads'
  <1> DEFINE q == [Idle EXCEPT !.pc = step, !.user = req[r].user, !.code = code]
  <1>1. ThreadOK(q)
    BY IdleThread DEF ThreadOK, Idle, RequestState, Steps
  <1> QED
    BY <1>1, OneThread DEF Forget

LEMMA ReplyStep ==
  ASSUME Threads, NEW r \in Requests, NEW code \in Codes, Reply(r, code)
  PROVE  Threads'
  <1> DEFINE q == [Idle EXCEPT !.pc = "done", !.code = code]
  <1>1. ThreadOK(q)
    BY IdleThread DEF ThreadOK, Idle, RequestState, Steps
  <1> QED
    BY <1>1, OneThread DEF Reply

LEMMA AcquiredStep ==
  ASSUME Threads, NEW r \in Requests, At(r, "acquire"), Goto(r, "load")
  PROVE  Threads'
  <1> DEFINE q == [req[r] EXCEPT !.pc = "load"]
  <1>1. ThreadOK(q)
    BY DEF Threads, ThreadOK, At, RequestState, Steps
  <1> QED
    BY <1>1, OneThread DEF Goto, Threads

\* The user of a thread that holds or waits for a lock.
LEMMA ThreadUser ==
  ASSUME Threads, NEW r \in Requests, req[r].pc \notin {"idle", "done"}
  PROVE  req[r].user \in Users
  BY DEF Threads, ThreadOK

LEMMA ArriveStep ==
  ASSUME WellFormed, NEW r \in Requests, NEW u \in Users, NEW text \in Says[u],
         Arrive(r, u, text)
  PROVE  WellFormed'
  <1> DEFINE q == [Idle EXCEPT !.pc = "acquire", !.user = u, !.text = text]
  <1>1. text \in Text
    BY SaysAssumption
  <1>2. ThreadOK(q)
    BY <1>1, IdleThread DEF ThreadOK, Idle, RequestState, Steps
  <1>3. Threads'
    BY <1>2, OneThread DEF Arrive, WellFormed
  <1> QED
    BY <1>3 DEF Arrive, WellFormed, Shared, PendingIsAnswerable, history

LEMMA AcquireStep ==
  ASSUME WellFormed, NEW r \in Requests,
         Acquire(r) \/ AcquireTimeout(r) \/ AcquireError(r)
  PROVE  WellFormed'
  <1>1. Threads'
    BY AcquiredStep, ReplyStep
       DEF Acquire, AcquireTimeout, AcquireError, WellFormed, RedisCodes, Codes
  <1>2. Shared'
    BY DEF Acquire, AcquireTimeout, AcquireError, WellFormed, Shared, InsideFor, history
  <1>3. PendingIsAnswerable'
    BY DEF Acquire, AcquireTimeout, AcquireError, WellFormed, PendingIsAnswerable
  <1> QED
    BY <1>1, <1>2, <1>3 DEF WellFormed

LEMMA LoadStep ==
  ASSUME WellFormed, NEW r \in Requests, Load(r)
  PROVE  WellFormed'
  <1> DEFINE q == [req[r] EXCEPT !.pc = "ask", !.state = session[req[r].user]]
  <1>1. req[r].user \in Users
    BY ThreadUser DEF Load, At, WellFormed
  <1>2. session[req[r].user] \in SessionState /\ Answerable(session[req[r].user], Says[req[r].user])
    BY <1>1 DEF WellFormed, Shared, PendingIsAnswerable, Answerable
  <1>3. ThreadOK(q)
    BY <1>1, <1>2 DEF WellFormed, Threads, ThreadOK, Load, At, RequestState, Steps
  <1>4. Threads'
    BY <1>3, OneThread DEF Load, WellFormed, Threads
  <1> QED
    BY <1>4 DEF Load, WellFormed, Shared, PendingIsAnswerable, history

LEMMA AskPipelineStep ==
  ASSUME WellFormed, NEW r \in Requests, AskPipeline(r)
  PROVE  WellFormed'
  <1>1. PICK o \in Ask(req[r].text, req[r].state) :
           req' = [req EXCEPT ![r].pc = "store", ![r].text = NoText, ![r].state = o.session]
    BY DEF AskPipeline
  <1> DEFINE q == [req[r] EXCEPT !.pc = "store", !.text = NoText, !.state = o.session]
  <1>2. /\ req[r].user \in Users
        /\ req[r].state \in SessionState
        /\ req[r].text \in Says[req[r].user]
        /\ Answerable(req[r].state, Says[req[r].user])
    BY DEF AskPipeline, At, WellFormed, Threads, ThreadOK, RequestState
  <1>3. o.session \in SessionState /\ Answerable(o.session, Says[req[r].user])
    BY <1>2, AskedSession, SaysAssumption
  <1>4. ThreadOK(q)
    <2>1. req[r] \in RequestState /\ ThreadOK(req[r]) /\ req[r].pc = "ask"
      BY DEF WellFormed, Threads, AskPipeline, At
    <2>2. /\ q.pc = "store" /\ q.text = NoText /\ q.state = o.session
          /\ q.user = req[r].user /\ q.code = req[r].code /\ q \in RequestState
      BY <1>3, <2>1 DEF RequestState, Steps
    <2> QED
      BY <1>2, <1>3, <2>1, <2>2 DEF ThreadOK
  <1>5. Threads'
    BY <1>1, <1>4, OneThread DEF WellFormed, Threads
  <1> QED
    BY <1>5 DEF AskPipeline, WellFormed, Shared, PendingIsAnswerable, history

\* The write of a session, by a thread that holds one fit to be stored.
LEMMA WriteStep ==
  ASSUME WellFormed, NEW r \in Requests, At(r, "store"), Write(r)
  PROVE  /\ session' \in [Users -> SessionState]
         /\ outdated' \subseteq Requests
         /\ PendingIsAnswerable'
  <1>1. /\ req[r].user \in Users
        /\ req[r].state \in SessionState
        /\ Answerable(req[r].state, Says[req[r].user])
    BY DEF At, WellFormed, Threads, ThreadOK, RequestState
  <1> QED
    BY <1>1 DEF Write, WellFormed, Shared, InsideFor, PendingIsAnswerable, Answerable

LEMMA StoreStep ==
  ASSUME WellFormed, NEW r \in Requests, Store(r)
  PROVE  WellFormed'
  <1>1. Threads'
    BY ForgetStep, ThreadUser DEF Store, At, WellFormed, Codes
  <1> QED
    BY <1>1, WriteStep DEF Store, WellFormed, Shared

LEMMA RaiseStep ==
  ASSUME WellFormed, NEW r \in Requests, RaiseInside(r)
  PROVE  WellFormed'
  <1>1. Threads'
    BY ForgetStep, ThreadUser DEF RaiseInside, At, WellFormed, Codes, RedisCodes
  <1>2. CASE session' = session /\ outdated' \subseteq outdated
    BY <1>1, <1>2 DEF RaiseInside, WellFormed, Shared, PendingIsAnswerable
  <1>3. CASE At(r, "store") /\ Write(r)
    BY <1>1, <1>3, WriteStep DEF RaiseInside, WellFormed, Shared
  <1> QED
    BY <1>2, <1>3 DEF RaiseInside

LEMMA ReleaseStep ==
  ASSUME WellFormed, NEW r \in Requests,
         Release(r) \/ ReleaseNotOwned(r) \/ ReleaseError(r)
  PROVE  WellFormed'
  <1>1. req[r].user \in Users /\ req[r].code \in Codes
    BY DEF Release, ReleaseNotOwned, ReleaseError, WellFormed, Threads, ThreadOK, RequestState
  <1>2. Threads'
    <2>1. CASE Release(r)
      BY <1>1, <2>1, ForgetStep, ReplyStep DEF Release, WellFormed, Codes
    <2>2. CASE ReleaseNotOwned(r) \/ ReleaseError(r)
      BY <2>2, ReplyStep DEF ReleaseNotOwned, ReleaseError, WellFormed, Codes, RedisCodes
    <2> QED
      BY <2>1, <2>2
  <1>3. lock' \in [Users -> Requests \cup {Free, Orphan}]
    BY DEF Release, ReleaseNotOwned, ReleaseError, Abandoned, WellFormed, Shared
  <1>4. disturbed' \subseteq Users /\ UNCHANGED <<session, overtaken, outdated>>
    BY DEF Release, ReleaseNotOwned, ReleaseError, Left, WellFormed, Shared
  <1> QED
    BY <1>2, <1>3, <1>4 DEF WellFormed, Shared, PendingIsAnswerable

LEMMA CrashStep ==
  ASSUME WellFormed, NEW r \in Requests, Crash(r)
  PROVE  WellFormed'
  <1>1. Threads'
    BY IdleThread, OneThread DEF Crash, WellFormed
  <1>2. Shared'
    BY DEF Crash, Left, Abandoned, WellFormed, Shared
  <1> QED
    BY <1>1, <1>2 DEF Crash, WellFormed, PendingIsAnswerable

LEMMA EndStep ==
  ASSUME WellFormed, NEW r \in Requests, PushRecentTurn(r) \/ Return(r)
  PROVE  WellFormed'
  <1>1. Threads'
    BY IdleThread, OneThread, ReplyStep
       DEF PushRecentTurn, Return, WellFormed, Codes, RedisCodes
  <1> QED
    BY <1>1 DEF PushRecentTurn, Return, WellFormed, Shared, PendingIsAnswerable, history

LEMMA NextWellFormed == WellFormed /\ [Next]_vars => WellFormed'
  <1> SUFFICES ASSUME WellFormed, [Next]_vars
               PROVE  WellFormed'
    OBVIOUS
  <1>1. ASSUME NEW u \in Users, LeaseEnds(u) \/ SessionExpires(u)
        PROVE  WellFormed'
    BY <1>1, IdleThread
       DEF LeaseEnds, SessionExpires, WellFormed, Shared, Threads, PendingIsAnswerable, history
  <1>2. CASE UNCHANGED vars
    BY <1>2 DEF vars, history, WellFormed, Shared, Threads, PendingIsAnswerable
  <1>3. ASSUME NEW r \in Requests, Serve(r)
        PROVE  WellFormed'
    BY <1>3, AcquireStep, LoadStep, AskPipelineStep, StoreStep, RaiseStep, ReleaseStep, EndStep
       DEF Serve
  <1> QED
    BY <1>1, <1>2, <1>3, ArriveStep, CrashStep DEF Next

\* The variables keep their types, and what the threads hold is fit to be stored.
THEOREM WellFormedInvariant == Spec => []WellFormed
  BY InitWellFormed, NextWellFormed, PTL DEF Spec

\* TypeOK: the type invariant.
THEOREM TypeCorrect == Spec => []TypeOK
  <1>1. WellFormed => TypeOK
    BY DEF WellFormed, Shared, Threads, TypeOK
  <1> QED
    BY <1>1, WellFormedInvariant, PTL

\* PendingIsAnswerable: a pending question is one of the user's own texts and is
\* kept with two candidates or more.
THEOREM PendingStaysAnswerable == Spec => []PendingIsAnswerable
  <1>1. WellFormed => PendingIsAnswerable
    BY DEF WellFormed
  <1> QED
    BY <1>1, WellFormedInvariant, PTL

-----------------------------------------------------------------------------
(* The lock.  A thread that is inside either holds the key or belongs to a   *)
(* user whose lock was lost; only such a thread can be overtaken or outdated. *)

\* A thread whose token the key holds is inside, and nobody has overtaken it.
HolderInside ==
    \A u \in Users : lock[u] \in Requests =>
        req[lock[u]].user = u /\ req[lock[u]].pc \in Inside /\ lock[u] \notin overtaken

\* A thread is inside with the key, or its user has lost one.
InsideHolds ==
    \A r \in Requests : req[r].pc \in Inside =>
        lock[req[r].user] = r \/ req[r].user \in disturbed

OvertakenPlaces == \A r \in overtaken : req[r].pc \in Inside \cup {"done"}

AnswersAreLast == \A r \in Requests : req[r].code = 200 => req[r].pc = "done"

OutdatedInside ==
    \A r \in outdated : req[r].pc \in {"ask", "store"} /\ req[r].user \in disturbed

LockInv ==
    HolderInside /\ InsideHolds /\ OvertakenPlaces /\ AnswersAreLast /\ OutdatedInside
        /\ ReleasedInTime

\* What a step of thread r does to its place in the handler.
Moved(r, step, code) ==
    /\ req'[r].pc = step /\ req'[r].user = req[r].user /\ req'[r].code = code
    /\ \A q \in Requests \ {r} : req'[q] = req[q]

LEMMA Moves ==
  ASSUME Threads, NEW r \in Requests, NEW step, NEW code
  PROVE  /\ Goto(r, step) => Moved(r, step, req[r].code)
         /\ Forget(r, step, code) => Moved(r, step, code)
         /\ Load(r) => Moved(r, "ask", req[r].code)
         /\ AskPipeline(r) => Moved(r, "store", req[r].code)
  <1> USE DEF Threads, RequestState, Moved
  <1>1. ASSUME Goto(r, step)
        PROVE  Moved(r, step, req[r].code)
    BY <1>1 DEF Goto
  <1>2. ASSUME Forget(r, step, code)
        PROVE  Moved(r, step, code)
    BY <1>2 DEF Forget, Idle
  <1>3. ASSUME Load(r)
        PROVE  Moved(r, "ask", req[r].code)
    BY <1>3 DEF Load
  <1>4. ASSUME AskPipeline(r)
        PROVE  Moved(r, "store", req[r].code)
    BY <1>4 DEF AskPipeline
  <1> QED
    BY <1>1, <1>2, <1>3, <1>4

LEMMA ReplyMoves ==
  ASSUME Threads, NEW r \in Requests, NEW code, Reply(r, code)
  PROVE  /\ req'[r].pc = "done" /\ req'[r].code = code
         /\ \A q \in Requests \ {r} : req'[q] = req[q]
  BY DEF Threads, Reply, Idle

LEMMA AcquireLock ==
  ASSUME WellFormed, LockInv, NEW r \in Requests,
         Acquire(r) \/ AcquireTimeout(r) \/ AcquireError(r)
  PROVE  LockInv'
  <1> DEFINE u == req[r].user
  <1>0. /\ u \in Users /\ req[r].pc = "acquire" /\ req[r].code # 200 /\ Threads /\ Shared
        /\ r \notin overtaken /\ r \notin outdated /\ \A v \in Users : lock[v] # r
    BY ThreadUser, LockAssumption
       DEF Acquire, AcquireTimeout, AcquireError, At, WellFormed, LockInv, Inside,
           AnswersAreLast, OvertakenPlaces, OutdatedInside, HolderInside
  <1>1. CASE Acquire(r)
    <2>1. Moved(r, "load", req[r].code)
      BY <1>0, <1>1, Moves DEF Acquire
    <2>2. /\ lock' = [lock EXCEPT ![u] = r] /\ overtaken' = overtaken \cup InsideFor(u)
          /\ outdated' = outdated /\ disturbed' = disturbed /\ lock[u] = Free
      BY <1>1 DEF Acquire
    <2>3. r \notin overtaken'
      BY <1>0, <2>2 DEF InsideFor, Inside
    <2>4. HolderInside'
      BY <1>0, <2>1, <2>2, <2>3, LockAssumption
         DEF LockInv, HolderInside, Moved, Inside, InsideFor, Shared
    <2>5. InsideHolds'
      BY <1>0, <2>1, <2>2, LockAssumption
         DEF LockInv, InsideHolds, Moved, Inside, Shared, Threads, RequestState
    <2>6. OvertakenPlaces' /\ AnswersAreLast' /\ OutdatedInside'
      BY <1>0, <2>1, <2>2, <2>3
         DEF LockInv, OvertakenPlaces, AnswersAreLast, OutdatedInside, Moved, Inside, InsideFor,
             Shared
    <2>7. ReleasedInTime'
      BY <1>0, <2>1, <2>2, <2>3
         DEF LockInv, ReleasedInTime, AnswersAreLast, Moved, Inside, InsideFor
    <2> QED
      BY <2>4, <2>5, <2>6, <2>7 DEF LockInv
  <1>2. CASE AcquireTimeout(r) \/ AcquireError(r)
    <2> USE LockAssumption DEF LockInv, HolderInside, InsideHolds, OvertakenPlaces,
            AnswersAreLast, OutdatedInside, ReleasedInTime, Inside, InsideFor, Shared
    <2>1. PICK code \in {500, 503} : Reply(r, code)
      BY <1>2 DEF AcquireTimeout, AcquireError, RedisCodes
    <2>2. CASE UNCHANGED <<lock, overtaken, outdated, disturbed>>
      BY <1>0, <2>1, <2>2, ReplyMoves
    <2>3. CASE AcquireError(r) /\ lock[u] = Free /\ lock' = [lock EXCEPT ![u] = Orphan]
               /\ overtaken' = overtaken \cup InsideFor(u)
      <3>1. outdated' = outdated /\ disturbed' = disturbed
        BY <2>3 DEF AcquireError
      <3> QED
        BY <1>0, <2>1, <2>3, <3>1, ReplyMoves
    <2>4. CASE AcquireTimeout(r)
      BY <2>2, <2>4 DEF AcquireTimeout, history
    <2>5. CASE AcquireError(r) /\ UNCHANGED <<lock, overtaken>>
      <3>1. outdated' = outdated /\ disturbed' = disturbed
        BY <2>5 DEF AcquireError
      <3> QED
        BY <2>2, <2>5, <3>1
    <2>6. AcquireError(r) =>
              \/ UNCHANGED <<lock, overtaken>>
              \/ /\ lock[u] = Free /\ lock' = [lock EXCEPT ![u] = Orphan]
                 /\ overtaken' = overtaken \cup InsideFor(u)
      BY DEF AcquireError
    <2> QED
      BY <1>2, <2>3, <2>4, <2>5, <2>6
  <1> QED
    BY <1>1, <1>2

\* A step that neither enters nor leaves the lock, and writes nothing.
LEMMA InsideMove ==
  ASSUME WellFormed, LockInv, NEW r \in Requests, NEW step \in Inside, NEW code,
         req[r].pc \in Inside, code # 200, Moved(r, step, code),
         UNCHANGED <<lock, overtaken, disturbed>>, outdated' \subseteq outdated,
         step \in {"ask", "store"} \/ r \notin outdated'
  PROVE  LockInv'
  <1> USE DEF LockInv, Moved, Inside, WellFormed, Shared
  <1>1. HolderInside' /\ InsideHolds'
    BY LockAssumption DEF HolderInside, InsideHolds
  <1>2. OvertakenPlaces' /\ AnswersAreLast'
    BY DEF OvertakenPlaces, AnswersAreLast
  <1>3. OutdatedInside'
    BY DEF OutdatedInside
  <1>4. ReleasedInTime'
    BY DEF ReleasedInTime
  <1> QED
    BY <1>1, <1>2, <1>3, <1>4

\* A write makes those outdated that are inside with the writer.
LEMMA WriteMove ==
  ASSUME WellFormed, LockInv, NEW r \in Requests, NEW step \in {"release", "unwind"}, NEW code,
         req[r].pc = "store", code # 200, Moved(r, step, code), Write(r),
         UNCHANGED <<lock, overtaken, disturbed>>
  PROVE  LockInv'
  <1> USE DEF LockInv, Moved, Inside, WellFormed, Shared
  <1>1. HolderInside' /\ InsideHolds'
    BY LockAssumption DEF HolderInside, InsideHolds
  <1>2. OvertakenPlaces' /\ AnswersAreLast' /\ ReleasedInTime'
    BY DEF OvertakenPlaces, AnswersAreLast, ReleasedInTime
  <1>3. \A q \in InsideFor(req[r].user) \ {r} : req[r].user \in disturbed
    BY DEF InsideFor, InsideHolds
  <1>4. OutdatedInside'
    BY <1>3 DEF OutdatedInside, Write, InsideFor
  <1> QED
    BY <1>1, <1>2, <1>4

LEMMA InsideLock ==
  ASSUME WellFormed, LockInv, NEW r \in Requests,
         Load(r) \/ AskPipeline(r) \/ Store(r) \/ RaiseInside(r)
  PROVE  LockInv'
  <1>0. req[r].code # 200 /\ Threads /\ req[r].pc \in {"load", "ask", "store"}
        /\ (req[r].pc = "load" => r \notin outdated)
    BY DEF Load, AskPipeline, Store, RaiseInside, At, WellFormed, LockInv, AnswersAreLast,
           OutdatedInside
  <1>1. CASE Load(r)
    <2>1. Moved(r, "ask", req[r].code) /\ UNCHANGED <<lock, overtaken, outdated, disturbed>>
      BY <1>0, <1>1, Moves DEF Load, history
    <2> QED
      BY <1>0, <2>1, InsideMove DEF Inside
  <1>2. CASE AskPipeline(r)
    <2>1. Moved(r, "store", req[r].code) /\ UNCHANGED <<lock, overtaken, outdated, disturbed>>
      BY <1>0, <1>2, Moves DEF AskPipeline, history
    <2> QED
      BY <1>0, <2>1, InsideMove DEF Inside
  <1>3. CASE Store(r)
    <2>1. Moved(r, "release", 0)
      BY <1>0, <1>3, Moves DEF Store
    <2> QED
      BY <1>3, <2>1, WriteMove DEF Store, At
  <1>4. CASE RaiseInside(r)
    <2>1. PICK code \in {500, 502, 503} : Moved(r, "unwind", code)
      BY <1>0, <1>4, Moves DEF RaiseInside, RedisCodes
    <2>2. UNCHANGED <<lock, overtaken, disturbed>>
      BY <1>4 DEF RaiseInside
    <2>3. CASE At(r, "store") /\ Write(r)
      BY <2>1, <2>2, <2>3, WriteMove DEF At
    <2>4. CASE outdated' \subseteq outdated /\ r \notin outdated'
      BY <1>0, <2>1, <2>2, <2>4, InsideMove DEF Inside
    <2> QED
      BY <1>0, <1>4, <2>3, <2>4 DEF RaiseInside, At
  <1> QED
    BY <1>1, <1>2, <1>3, <1>4

\* A thread leaves the lock, or a step outside it: what the key may become.
LEMMA OutsideMove ==
  ASSUME WellFormed, LockInv, NEW r \in Requests,
         req'[r].pc \notin Inside, req'[r].code = 200 => req'[r].pc = "done",
         \A q \in Requests \ {r} : req'[q] = req[q],
         \A u \in Users : IF lock[u] = r THEN lock'[u] \in {Free, Orphan} ELSE lock'[u] = lock[u],
         \A q \in overtaken' : q \in overtaken /\ (q = r => req'[r].pc = "done" /\ req'[r].code # 200),
         outdated' = outdated \ {r},
         \A q \in Requests \ {r} :
            req[q].pc \in Inside /\ req[q].user \in disturbed => req[q].user \in disturbed'
  PROVE  LockInv'
  <1> USE DEF LockInv, WellFormed, Shared
  <1>1. HolderInside'
    BY LockAssumption DEF HolderInside
  <1>2. InsideHolds'
    <2> SUFFICES ASSUME NEW q \in Requests, (req[q].pc \in Inside)'
                 PROVE  (lock[req[q].user] = q \/ req[q].user \in disturbed)'
      BY DEF InsideHolds, Inside
    <2>1. q # r /\ req'[q] = req[q] /\ req[q].pc \in Inside
      BY DEF Inside
    <2>2. req[q].user \in Users
      BY <2>1, ThreadUser DEF Inside
    <2> QED
      BY <2>1, <2>2 DEF InsideHolds
  <1>3. OvertakenPlaces'
    BY DEF OvertakenPlaces, Inside
  <1>4. AnswersAreLast'
    BY DEF AnswersAreLast
  <1>5. OutdatedInside'
    BY DEF OutdatedInside, Inside
  <1>6. ReleasedInTime'
    BY DEF ReleasedInTime, OvertakenPlaces, Inside
  <1> QED
    BY <1>1, <1>2, <1>3, <1>4, <1>5, <1>6

\* The bookkeeping keeps a user disturbed while another of its threads is inside.
LEMMA LeftKeeps ==
  ASSUME NEW r \in Requests, Left(r), NEW q \in Requests \ {r},
         req[q].pc \in Inside, req[q].user \in disturbed
  PROVE  req[q].user \in disturbed'
  BY DEF Left, InsideFor

LEMMA ReleaseLock ==
  ASSUME WellFormed, LockInv, NEW r \in Requests,
         Release(r) \/ ReleaseNotOwned(r) \/ ReleaseError(r)
  PROVE  LockInv'
  <1>0. /\ Threads /\ Shared /\ req[r].user \in Users /\ req[r].pc \in {"release", "unwind"}
        /\ req[r].code # 200 /\ r \notin outdated
    BY ThreadUser DEF Release, ReleaseNotOwned, ReleaseError, WellFormed, LockInv, AnswersAreLast,
                      OutdatedInside
  <1>1. Left(r) /\ UNCHANGED <<overtaken, outdated>>
    BY DEF Release, ReleaseNotOwned, ReleaseError
  <1>2. \A u \in Users : lock[u] = r => u = req[r].user /\ r \notin overtaken
    BY DEF LockInv, HolderInside
  <1>3. \A u \in Users : IF lock[u] = r THEN lock'[u] \in {Free, Orphan} ELSE lock'[u] = lock[u]
    BY <1>0, <1>2 DEF Release, ReleaseNotOwned, ReleaseError, Abandoned, Shared
  <1>4. /\ \A q \in Requests \ {r} : req'[q] = req[q]
        /\ req'[r].pc \in {"push", "done"} /\ req'[r].code # 200
        /\ req'[r].pc = "push" => lock[req[r].user] = r
    <2>1. CASE Release(r)
      BY <1>0, <2>1, Moves, ReplyMoves DEF Release, Moved
    <2>2. CASE ReleaseNotOwned(r)
      BY <1>0, <2>2, ReplyMoves DEF ReleaseNotOwned
    <2>3. CASE ReleaseError(r)
      BY <1>0, <2>3, ReplyMoves DEF ReleaseError, RedisCodes
    <2> QED
      BY <2>1, <2>2, <2>3
  <1>5. \A q \in Requests \ {r} :
           req[q].pc \in Inside /\ req[q].user \in disturbed => req[q].user \in disturbed'
    BY <1>1, LeftKeeps
  <1> QED
    BY <1>0, <1>1, <1>2, <1>3, <1>4, <1>5, OutsideMove DEF Inside

LEMMA EndLock ==
  ASSUME WellFormed, LockInv, NEW r \in Requests, Crash(r) \/ PushRecentTurn(r) \/ Return(r)
  PROVE  LockInv'
  <1>0. Threads /\ Shared
    BY DEF WellFormed
  <1>1. CASE Crash(r)
    <2>1. /\ req'[r].pc = "idle" /\ req'[r].code = 0
          /\ \A q \in Requests \ {r} : req'[q] = req[q]
      BY <1>0, <1>1 DEF Crash, Idle, Threads
    <2>2. \A u \in Users : IF lock[u] = r THEN lock'[u] \in {Free, Orphan} ELSE lock'[u] = lock[u]
      BY <1>0, <1>1 DEF Crash, Abandoned
    <2>3. Left(r) /\ overtaken' = overtaken \ {r} /\ outdated' = outdated \ {r}
      BY <1>1 DEF Crash
    <2>4. \A q \in Requests \ {r} :
             req[q].pc \in Inside /\ req[q].user \in disturbed => req[q].user \in disturbed'
      BY <2>3, LeftKeeps
    <2> QED
      BY <2>1, <2>2, <2>3, <2>4, OutsideMove DEF Inside
  <1>2. CASE PushRecentTurn(r)
    <2>1. PICK code \in {200, 500, 503} : Reply(r, code)
      BY <1>2 DEF PushRecentTurn, RedisCodes
    <2>2. /\ UNCHANGED <<lock, overtaken, outdated, disturbed>> /\ req[r].pc = "push"
          /\ r \notin overtaken /\ r \notin outdated /\ \A u \in Users : lock[u] # r
      BY <1>2 DEF PushRecentTurn, history, At, LockInv, ReleasedInTime, OutdatedInside,
                  HolderInside, Inside
    <2>3. /\ req'[r].pc = "done"
          /\ \A q \in Requests \ {r} : req'[q] = req[q]
      BY <1>0, <2>1, ReplyMoves
    <2> QED
      BY <2>2, <2>3, OutsideMove DEF Inside
  <1>3. CASE Return(r)
    <2>1. /\ req'[r].pc = "idle" /\ req'[r].code = 0
          /\ \A q \in Requests \ {r} : req'[q] = req[q]
      BY <1>0, <1>3 DEF Return, Idle, Threads
    <2>2. /\ UNCHANGED <<lock, outdated, disturbed>> /\ overtaken' = overtaken \ {r}
          /\ r \notin outdated /\ \A u \in Users : lock[u] # r
      BY <1>3 DEF Return, At, LockInv, OutdatedInside, HolderInside, Inside
    <2> QED
      BY <2>1, <2>2, OutsideMove DEF Inside
  <1> QED
    BY <1>1, <1>2, <1>3

LEMMA ArriveLock ==
  ASSUME WellFormed, LockInv, NEW r \in Requests, NEW u \in Users, NEW text \in Says[u],
         Arrive(r, u, text)
  PROVE  LockInv'
  <1>1. /\ req'[r].pc = "acquire" /\ req'[r].code = 0
        /\ \A q \in Requests \ {r} : req'[q] = req[q]
    <2>1. req' = [req EXCEPT ![r] = [Idle EXCEPT !.pc = "acquire", !.user = u, !.text = text]]
      BY DEF Arrive
    <2> QED
      BY <2>1 DEF WellFormed, Threads, Idle
  <1>2. /\ UNCHANGED <<lock, overtaken, outdated, disturbed>>
        /\ r \notin overtaken /\ r \notin outdated /\ \A v \in Users : lock[v] # r
    BY DEF Arrive, history, At, LockInv, OvertakenPlaces, OutdatedInside, HolderInside, Inside
  <1> QED
    BY <1>1, <1>2, OutsideMove DEF Inside

\* Redis loses a key: its thread, if it has one, is inside on its own account.
LEMMA RedisLock ==
  ASSUME WellFormed, LockInv, NEW u \in Users, LeaseEnds(u) \/ SessionExpires(u)
  PROVE  LockInv'
  <1> USE LockAssumption DEF LockInv, WellFormed, Shared
  <1>1. UNCHANGED <<req, overtaken, outdated>> /\ disturbed \subseteq disturbed'
    BY DEF LeaseEnds, SessionExpires, history
  <1>2. OvertakenPlaces' /\ AnswersAreLast' /\ OutdatedInside' /\ ReleasedInTime'
    BY <1>1 DEF OvertakenPlaces, AnswersAreLast, OutdatedInside, ReleasedInTime
  <1>3. CASE LeaseEnds(u)
    <2>1. lock' = [lock EXCEPT ![u] = Free]
      BY <1>3 DEF LeaseEnds
    <2>2. lock[u] \in Requests => u \in disturbed'
      BY <1>3 DEF LeaseEnds
    <2>3. HolderInside'
      BY <1>1, <2>1 DEF HolderInside
    <2>4. InsideHolds'
      <3> SUFFICES ASSUME NEW q \in Requests, req[q].pc \in Inside
                   PROVE  lock'[req[q].user] = q \/ req[q].user \in disturbed'
        BY <1>1 DEF InsideHolds
      <3>1. req[q].user \in Users
        BY ThreadUser DEF Inside
      <3> QED
        BY <1>1, <2>1, <2>2, <3>1 DEF InsideHolds
    <2> QED
      BY <1>2, <2>3, <2>4
  <1>4. CASE SessionExpires(u)
    BY <1>1, <1>2, <1>4 DEF SessionExpires, history, HolderInside, InsideHolds
  <1> QED
    BY <1>3, <1>4

LEMMA NextLockInv == WellFormed /\ LockInv /\ [Next]_vars => LockInv'
  <1> SUFFICES ASSUME WellFormed, LockInv, [Next]_vars
               PROVE  LockInv'
    OBVIOUS
  <1>1. CASE UNCHANGED vars
    BY <1>1 DEF vars, history, LockInv, HolderInside, InsideHolds, OvertakenPlaces,
                AnswersAreLast, OutdatedInside, ReleasedInTime
  <1>2. ASSUME NEW r \in Requests, Serve(r)
        PROVE  LockInv'
    BY <1>2, AcquireLock, InsideLock, ReleaseLock, EndLock DEF Serve
  <1> QED
    BY <1>1, <1>2, ArriveLock, EndLock, RedisLock DEF Next

\* Who is inside locked(), who holds the key, and what follows for those who do not.
THEOREM LockInvariant == Spec => []LockInv
  <1>1. Init => LockInv
    BY LockAssumption DEF Init, LockInv, HolderInside, InsideHolds, OvertakenPlaces,
                          AnswersAreLast, OutdatedInside, ReleasedInTime, Idle, Inside
  <1> QED
    BY <1>1, NextLockInv, WellFormedInvariant, PTL DEF Spec

\* ReleasedInTime: a request that gets as far as the answer 200 held the lock from
\* its acquisition to its release, so no other request of its user was inside.
THEOREM AnsweredRequestsHeldTheLock == Spec => []ReleasedInTime
  <1>1. LockInv => ReleasedInTime
    BY DEF LockInv
  <1> QED
    BY <1>1, LockInvariant, PTL

\* NoLostUpdate: only where a lock was lost under a thread can a thread overwrite
\* an update that it has not seen.
THEOREM UpdatesAreNotLost == Spec => []NoLostUpdate
  <1>1. LockInv => NoLostUpdate
    BY DEF LockInv, OutdatedInside, NoLostUpdate
  <1> QED
    BY <1>1, LockInvariant, PTL

-----------------------------------------------------------------------------
(* The dialogue.  PendingIsLastOffer is inductive with the types: the offer  *)
(* is remembered in the very step that stores question and documents, and no *)
(* other outcome stores one of the two.                                      *)

DialogueInv == DialogueTypeOK /\ PendingIsLastOffer

LEMMA DialogueInitInv == DialogueInit => DialogueInv
  BY DEF DialogueInit, DialogueInv, DialogueTypeOK, PendingIsLastOffer, NewSession, SessionState, LowRelevance, Replies

LEMMA SayInv ==
  ASSUME DialogueInv, NEW text \in Text, Say(text)
  PROVE  DialogueInv'
  <1>1. PICK o \in Ask(text, memory) :
           /\ memory' = o.session /\ reply' = o.reply
           /\ offer' = IF o.reply.status = "need_clarification" /\ ~Selects(text)
                       THEN [question |-> text, docs |-> o.reply.candidates] ELSE offer
    BY DEF Say
  <1>2. memory \in SessionState /\ said' = text
    BY DEF DialogueInv, DialogueTypeOK, Say
  <1>3. Typed(o)
    BY <1>2, AskedOutcome
  <1>4. DialogueTypeOK'
    <2>1. o.reply.candidates \in SUBSET Docs
      BY <1>3 DEF Typed, Replies
    <2>2. offer' \in [question : Text \cup {NoText}, docs : SUBSET Docs]
      BY <1>1, <2>1 DEF DialogueInv, DialogueTypeOK
    <2> QED
      BY <1>1, <1>2, <1>3, <2>2 DEF Typed, DialogueTypeOK
  <1>5. PendingIsLastOffer'
    <2>1. CASE Selects(text)
      <3>1. o \in ResolvePendingSelection(text, memory) /\ memory.pending # NoText
        BY <1>2, <2>1, AskedOutcome DEF Selects
      <3>2. offer' = offer
        BY <1>1, <2>1
      <3>3. memory' = memory \/ memory'.pending = NoText
        BY <1>1, <1>2, <3>1, ResolvedOutcome
      <3> QED
        BY <3>2, <3>3 DEF DialogueInv, PendingIsLastOffer
    <2>2. CASE ~Selects(text)
      <3>1. Consistent(text, memory, o)
        BY <1>2, <2>2, AskedOutcome DEF Selects
      <3>2. CASE o.reply.status = "need_clarification"
        BY <1>1, <2>2, <3>1, <3>2 DEF Consistent, PendingIsLastOffer
      <3>3. CASE o.reply.status # "need_clarification"
        BY <1>1, <3>1, <3>3 DEF Consistent, PendingIsLastOffer, DialogueInv
      <3> QED
        BY <3>2, <3>3
    <2> QED
      BY <2>1, <2>2
  <1> QED
    BY <1>4, <1>5 DEF DialogueInv

LEMMA DialogueNextInv == DialogueInv /\ [DialogueNext]_dialogue => DialogueInv'
  <1> SUFFICES ASSUME DialogueInv, [DialogueNext]_dialogue
               PROVE  DialogueInv'
    OBVIOUS
  <1>1. CASE Lapse
    BY <1>1 DEF Lapse, DialogueInv, DialogueTypeOK, PendingIsLastOffer, NewSession, SessionState
  <1>2. CASE UNCHANGED dialogue
    BY <1>2 DEF dialogue, DialogueInv, DialogueTypeOK, PendingIsLastOffer
  <1> QED
    BY <1>1, <1>2, SayInv DEF DialogueNext

\* What Sessions.ask leaves pending is always the last offer, with its documents.
THEOREM DialogueInvariant == Dialogue => []DialogueInv
  BY DialogueInitInv, DialogueNextInv, PTL DEF Dialogue

\* DialogueTypeOK: the type invariant.
THEOREM DialogueTypeCorrect == Dialogue => []DialogueTypeOK
  <1>1. DialogueInv => DialogueTypeOK
    BY DEF DialogueInv
  <1> QED
    BY <1>1, DialogueInvariant, PTL

\* PendingIsLastOffer: the pending question and its documents are those of the last offer.
THEOREM PendingIsOffered == Dialogue => []PendingIsLastOffer
  <1>1. DialogueInv => PendingIsLastOffer
    BY DEF DialogueInv
  <1> QED
    BY <1>1, DialogueInvariant, PTL

Honoured ==
    (memory.pending # NoText /\ said' \in memory.candidates) =>
        /\ reply'.status # "need_clarification"
        /\ reply'.top = said'
        /\ reply'.status = "answered" => reply'.about = offer.question

LEMMA NextHonours == DialogueInv /\ [DialogueNext]_dialogue => [Honoured]_dialogue
  <1> SUFFICES ASSUME DialogueInv, DialogueNext, memory.pending # NoText, said' \in memory.candidates
               PROVE  /\ reply'.status # "need_clarification"
                      /\ reply'.top = said'
                      /\ reply'.status = "answered" => reply'.about = offer.question
    BY DEF Honoured
  <1>1. said' \in Docs /\ said' # NoText /\ memory \in SessionState
    BY NoTextAssumption DEF DialogueInv, DialogueTypeOK, SessionState
  <1>2. PICK text \in Text : Say(text)
    BY <1>1 DEF DialogueNext, Lapse
  <1>3. text = said' /\ LooksLikeSelection(text)
    BY <1>1, <1>2, TextsAssumption DEF Say, LooksLikeSelection
  <1>4. PICK o \in Ask(text, memory) : reply' = o.reply
    BY <1>2 DEF Say
  <1>5. reply' = Answered(text, memory.pending) \/ reply' = LowRelevance(text)
    BY <1>1, <1>3, <1>4, AskedOutcome, ResolvedOutcome
  <1>6. offer.question = memory.pending
    BY DEF DialogueInv, PendingIsLastOffer
  <1> QED
    BY <1>3, <1>5, <1>6 DEF Answered, LowRelevance

\* SelectionIsHonoured: a document that was offered and is sent is answered about, with
\* the question it was offered for.
THEOREM SelectionsAreHonoured == Dialogue => SelectionIsHonoured
  BY DialogueInvariant, NextHonours, PTL DEF Dialogue, SelectionIsHonoured, Honoured
=============================================================================
