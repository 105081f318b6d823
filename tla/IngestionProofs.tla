-------------------------- MODULE IngestionProofs --------------------------
(***************************************************************************)
(* What Ingestion promises for every number of documents, texts and calls. *)
(***************************************************************************)
EXTENDS Ingestion, TLAPS

-----------------------------------------------------------------------------
(* The parts of a call, named by the steps it has still to make: by then the *)
(* registry has its row, the BM25 corpus is saved, the FAISS index is saved, *)
(* its vectors are, the FAISS index is changed.                              *)

RowSteps == {"delete_chunks", "insert_chunks", "bump"}
Bm25Steps == {"row"} \cup RowSteps
SaveSteps == {"bm25"} \cup Bm25Steps
DocstoreSteps == {"docstore_save"} \cup SaveSteps
FaissSteps == {"vectors_save"} \cup DocstoreSteps
CallSteps == {"faiss"} \cup FaissSteps

Running == call.pc \in CallSteps

WellFormed == TypeOK /\ (Running => version < MaxVersion)

LEMMA OfDocType == ASSUME NEW ids, NEW d PROVE OfDoc(ids, d) \subseteq ids \cap ({d} \X Chunks)
  BY DEF OfDoc

LEMMA IdsOfType ==
  ASSUME NEW d, NEW c \in Contents \cup {NoContent}
  PROVE  IdsOf(d, c) \subseteq {d} \X Chunks
  BY ContentsAssumption DEF IdsOf

LEMMA IdsType == ASSUME NEW d \in Docs PROVE {d} \X Chunks \subseteq Ids
  BY DEF Ids

LEMMA EndedType ==
  ASSUME NEW d \in Docs
  PROVE  Ended(d) \in Call /\ Ended(d).pc = "idle" /\ Ended(d).doc = d
  BY DEF Ended, Call, Steps

LEMMA SpoilType ==
  ASSUME harm \in [Docs -> Contents \cup {Clean, Spoilt}],
         NEW d \in Docs, NEW c \in Contents \cup {NoContent}, NEW rows, Spoil(d, c, rows)
  PROVE  harm' \in [Docs -> Contents \cup {Clean, Spoilt}]
  BY DEF Spoil

LEMMA CallType ==
  ASSUME WellFormed
  PROVE  /\ call.doc \in Docs /\ call.content \in Contents \cup {NoContent}
         /\ call.del \subseteq Ids /\ call.add \subseteq Ids /\ call.pc \in Steps
  BY DEF WellFormed, TypeOK, Call

LEMMA FailType ==
  ASSUME WellFormed, NEW rows, FailWith(rows)
  PROVE  /\ call' \in Call /\ call'.pc = "idle" /\ call'.doc = call.doc /\ ~Running'
         /\ harm' \in [Docs -> Contents \cup {Clean, Spoilt}]
  <1>1. call' \in Call /\ call'.pc = "idle" /\ call'.doc = call.doc
    BY CallType, EndedType DEF FailWith
  <1>2. harm' \in [Docs -> Contents \cup {Clean, Spoilt}]
    BY CallType, SpoilType DEF FailWith, WellFormed, TypeOK
  <1>3. ~Running'
    BY <1>1 DEF Running, CallSteps, FaissSteps, DocstoreSteps, SaveSteps, Bm25Steps, RowSteps
  <1> QED
    BY <1>1, <1>2, <1>3

LEMMA GotoType ==
  ASSUME WellFormed, NEW s \in Steps, Goto(s)
  PROVE  /\ call' \in Call /\ call'.pc = s
         /\ call'.doc = call.doc /\ call'.content = call.content
         /\ call'.del = call.del /\ call'.add = call.add
  BY DEF Goto, WellFormed, TypeOK, Call

LEMMA DiffType ==
  ASSUME WellFormed, NEW d \in Docs, NEW c \in Contents \cup {NoContent}, Diff(d, c)
  PROVE  /\ call' \in Call /\ call'.pc = "faiss" /\ call'.doc = d /\ call'.content = c
         /\ call'.del = OfDoc(chunks, d) \ IdsOf(d, c)
         /\ call'.add = IdsOf(d, c) \ OfDoc(chunks, d)
  <1>1. OfDoc(chunks, d) \subseteq Ids /\ IdsOf(d, c) \subseteq Ids
    BY OfDocType, IdsOfType, IdsType
  <1> QED
    BY <1>1 DEF Diff, Call, Steps

LEMMA InitWellFormed == Init => WellFormed
  <1> SUFFICES ASSUME Init
               PROVE  WellFormed
    OBVIOUS
  <1>1. call \in Call /\ call.pc = "idle"
    BY EndedType DEF Init
  <1>2. ~Running
    BY <1>1 DEF Running, CallSteps, FaissSteps, DocstoreSteps, SaveSteps, Bm25Steps, RowSteps
  <1>3. row \in [Docs -> Contents \cup {NoContent}]
        /\ harm \in [Docs -> Contents \cup {Clean, Spoilt}]
    BY DEF Init
  <1>4. /\ faiss = NoIndex /\ vectorsDisk = NoIndex /\ docstoreDisk = NoIndex
        /\ bm25 = {} /\ bm25Disk = {} /\ chunks = {} /\ version \in 0..MaxVersion
    BY MaxVersionAssumption DEF Init
  <1>5. askew \in BOOLEAN
    BY DEF Init
  <1> QED
    BY <1>1, <1>2, <1>3, <1>4, <1>5 DEF WellFormed, TypeOK

LEMMA StoredType ==
  ASSUME NEW X, X = NoIndex \/ X \subseteq Ids
  PROVE  Stored(X) \subseteq Ids
  BY DEF Stored

LEMMA NextWellFormed == WellFormed /\ [Next]_vars => WellFormed'
  <1> SUFFICES ASSUME WellFormed, [Next]_vars
               PROVE  WellFormed'
    OBVIOUS
  <1> USE CallType DEF memory, disk, registry, Running, CallSteps, FaissSteps, DocstoreSteps, SaveSteps,
                       Bm25Steps, RowSteps, At
  <1>1. ASSUME NEW d \in Docs, NEW content \in Contents, InsertOrUpdate(d, content)
        PROVE  WellFormed'
    <2>1. call' \in Call
      BY <1>1, EndedType, DiffType DEF InsertOrUpdate
    <2>2. harm' \in [Docs -> Contents \cup {Clean, Spoilt}]
      BY <1>1 DEF InsertOrUpdate, WellFormed, TypeOK
    <2> QED
      BY <1>1, <2>1, <2>2 DEF InsertOrUpdate, WellFormed, TypeOK
  <1>2. ASSUME NEW d \in Docs, DeleteDocument(d)
        PROVE  WellFormed'
    <2>1. call' \in Call
      BY <1>2, EndedType, DiffType DEF DeleteDocument
    <2> QED
      BY <1>2, <2>1 DEF DeleteDocument, WellFormed, TypeOK
  <1>3. CASE FaissUpdate
    <2>1. faiss' = NoIndex \/ faiss' \subseteq Ids
      BY <1>3, StoredType DEF FaissUpdate, WellFormed, TypeOK
    <2>2. call' \in Call /\ harm' \in [Docs -> Contents \cup {Clean, Spoilt}]
      BY <1>3, FailType, GotoType DEF FaissUpdate, Fail, Steps, WellFormed, TypeOK
    <2> QED
      BY <1>3, <2>1, <2>2 DEF FaissUpdate, WellFormed, TypeOK
  <1>4. CASE VectorsSave \/ DocstoreSave
    <2>1. call' \in Call /\ harm' \in [Docs -> Contents \cup {Clean, Spoilt}]
      BY <1>4, FailType, GotoType DEF VectorsSave, DocstoreSave, Fail, Steps, WellFormed, TypeOK
    <2>2. /\ vectorsDisk' \in {NoIndex, Broken, Askew} \/ vectorsDisk' \subseteq Ids
          /\ docstoreDisk' \in {NoIndex, Broken} \/ docstoreDisk' \subseteq Ids
      BY <1>4 DEF VectorsSave, DocstoreSave, Vectors, WellFormed, TypeOK
    <2>3. Running /\ UNCHANGED <<memory, bm25Disk, registry, version>>
      BY <1>4 DEF VectorsSave, DocstoreSave
    <2> QED
      BY <2>1, <2>2, <2>3 DEF WellFormed, TypeOK
  <1>5. CASE Bm25Save
    <2>1. call' \in Call /\ harm' \in [Docs -> Contents \cup {Clean, Spoilt}]
      BY <1>5, FailType, GotoType DEF Bm25Save, Fail, Steps, WellFormed, TypeOK
    <2> QED
      BY <1>5, <2>1 DEF Bm25Save, WellFormed, TypeOK
  <1>6. CASE WriteRow
    <2>1. call' \in Call /\ harm' \in [Docs -> Contents \cup {Clean, Spoilt}]
      BY <1>6, FailType, GotoType DEF WriteRow, Fail, Steps, WellFormed, TypeOK
    <2>2. chunks' \subseteq Ids /\ row' \in [Docs -> Contents \cup {NoContent}]
      BY <1>6 DEF WriteRow, WellFormed, TypeOK
    <2> QED
      BY <1>6, <2>1, <2>2 DEF WriteRow, WellFormed, TypeOK
  <1>7. CASE DeleteChunks \/ InsertChunks
    <2>1. call' \in Call /\ harm' \in [Docs -> Contents \cup {Clean, Spoilt}]
      BY <1>7, FailType, GotoType DEF DeleteChunks, InsertChunks, Fail, Steps, WellFormed, TypeOK
    <2>2. chunks' \subseteq Ids
      BY <1>7 DEF DeleteChunks, InsertChunks, WellFormed, TypeOK
    <2>3. Running /\ UNCHANGED <<memory, disk, row, version>>
      BY <1>7 DEF DeleteChunks, InsertChunks
    <2> QED
      BY <2>1, <2>2, <2>3 DEF WellFormed, TypeOK
  <1>8. CASE Bump
    <2>1. call' \in Call /\ harm' \in [Docs -> Contents \cup {Clean, Spoilt}] /\ call'.pc = "idle"
      <3>1. CASE Fail
        BY <3>1, FailType DEF Fail
      <3>2. CASE /\ call' = Ended(call.doc)
                 /\ harm' = [harm EXCEPT ![call.doc] = IF @ = Spoilt THEN Spoilt ELSE Clean]
        BY <3>2, EndedType DEF WellFormed, TypeOK
      <3> QED
        BY <1>8, <3>1, <3>2 DEF Bump
    <2>2. version' \in 0..MaxVersion
      BY <1>8, MaxVersionAssumption DEF Bump, WellFormed, TypeOK
    <2> QED
      BY <1>8, <2>1, <2>2 DEF Bump, WellFormed, TypeOK
  <1>9. CASE Crash
    <2>1. call' \in Call /\ call'.pc = "down"
      BY <1>9, EndedType DEF Crash, Call, Steps
    <2>2. harm' \in [Docs -> Contents \cup {Clean, Spoilt}]
      BY <1>9, SpoilType DEF Crash, WellFormed, TypeOK
    <2> QED
      BY <1>9, <2>1, <2>2 DEF Crash, Cut, WellFormed, TypeOK
  <1>10. CASE Start
    BY <1>10, GotoType DEF Start, Steps, WellFormed, TypeOK
  <1>11. CASE UNCHANGED vars
    BY <1>11 DEF vars, WellFormed, TypeOK
  <1> QED
    BY <1>1, <1>2, <1>3, <1>4, <1>5, <1>6, <1>7, <1>8, <1>9, <1>10, <1>11 DEF Next

\* The stores and the locals of a call are of their kinds, and a call that runs has a
\* version left to announce.
THEOREM WellFormedInvariant == Spec => []WellFormed
  BY InitWellFormed, NextWellFormed, PTL DEF Spec

\* TypeOK: the type invariant.
THEOREM TypeCorrect == Spec => []TypeOK
  <1>1. WellFormed => TypeOK
    BY DEF WellFormed
  <1> QED
    BY <1>1, WellFormedInvariant, PTL

-----------------------------------------------------------------------------
(* The call that runs.  Once it has saved an index, the file is what memory  *)
(* has, until the call ends; and what was read from the registry at the diff *)
(* is still what it says, or is being made of it.  This holds of every       *)
(* document, spoilt or not.                                                  *)

New == IdsOf(call.doc, call.content)

Old == OfDoc(chunks, call.doc)

SavedAsInMemory ==
    /\ call.pc \in DocstoreSteps => vectorsDisk = Vectors
    /\ call.pc \in SaveSteps => docstoreDisk = faiss
    /\ call.pc \in Bm25Steps => bm25Disk = bm25

DiffIsFollowed ==
    /\ call.del \subseteq {call.doc} \X Chunks /\ call.add \subseteq {call.doc} \X Chunks
    /\ call.pc \in {"faiss", "vectors_save", "docstore_save", "bm25", "row"} =>
          call.del = Old \ New /\ call.add = New \ Old
    /\ call.pc \in RowSteps => row[call.doc] = call.content
    /\ call.pc = "delete_chunks" => (Old \ call.del) \cup call.add = New
    /\ call.pc = "insert_chunks" => Old \cup call.add = New
    /\ call.pc = "bump" => Old = New
    \* delete_document has no such transaction
    /\ call.pc \in {"delete_chunks", "insert_chunks"} => call.content # NoContent

CallInv == SavedAsInMemory /\ DiffIsFollowed

\* A call that is cut off is remembered.
LEMMA CutOffIsHarmed ==
  ASSUME WellFormed, NEW d \in Docs, NEW c \in Contents \cup {NoContent}, NEW rows,
         Spoil(d, c, rows)
  PROVE  harm'[d] # Clean
  BY MarksAssumption DEF Spoil, WellFormed, TypeOK

\* No call runs: there is nothing to follow.
LEMMA EndedCall ==
  ASSUME NEW d, call' = Ended(d) \/ call' = [Ended(d) EXCEPT !.pc = "down"]
  PROVE  CallInv'
  BY DEF CallInv, SavedAsInMemory, DiffIsFollowed, Ended, RowSteps, Bm25Steps, SaveSteps,
         DocstoreSteps

LEMMA FailedCall ==
  ASSUME NEW rows, FailWith(rows)
  PROVE  CallInv'
  BY EndedCall DEF FailWith

LEMMA DiffStarts ==
  ASSUME WellFormed, NEW d \in Docs, NEW c \in Contents \cup {NoContent}, Diff(d, c),
         UNCHANGED chunks
  PROVE  CallInv'
  <1>1. OfDoc(chunks, d) \subseteq {d} \X Chunks /\ IdsOf(d, c) \subseteq {d} \X Chunks
    BY OfDocType, IdsOfType
  <1> QED
    BY <1>1, DiffType
       DEF CallInv, SavedAsInMemory, DiffIsFollowed, New, Old, RowSteps, Bm25Steps, SaveSteps,
           DocstoreSteps

LEMMA NextCallInv == WellFormed /\ CallInv /\ [Next]_vars => CallInv'
  <1> SUFFICES ASSUME WellFormed, CallInv, [Next]_vars
               PROVE  CallInv'
    OBVIOUS
  <1> USE DEF memory, disk, registry, At, Vectors, RowSteps, Bm25Steps, SaveSteps, DocstoreSteps
  <1>1. ASSUME NEW d \in Docs, NEW content \in Contents, InsertOrUpdate(d, content)
        PROVE  CallInv'
    BY <1>1, EndedCall, DiffStarts DEF InsertOrUpdate
  <1>2. ASSUME NEW d \in Docs, DeleteDocument(d)
        PROVE  CallInv'
    BY <1>2, EndedCall, DiffStarts DEF DeleteDocument
  <1>3. CASE Fail \/ \E rows : FailWith(rows)
    BY <1>3, FailedCall DEF Fail
  <1>4. CASE FaissUpdate /\ ~Fail
    BY <1>4, GotoType DEF FaissUpdate, Steps, CallInv, SavedAsInMemory, DiffIsFollowed, New, Old
  <1>5. CASE (VectorsSave \/ DocstoreSave) /\ ~Fail
    BY <1>5, GotoType DEF VectorsSave, DocstoreSave, Steps, CallInv, SavedAsInMemory,
                          DiffIsFollowed, New, Old
  <1>6. CASE Bm25Save /\ ~Fail
    BY <1>6, GotoType DEF Bm25Save, Steps, CallInv, SavedAsInMemory, DiffIsFollowed, New, Old
  <1>7. CASE WriteRow /\ ~\E rows : FailWith(rows)
    <2>1. /\ At("row") /\ row' = [row EXCEPT ![call.doc] = call.content]
          /\ chunks' = IF call.content = NoContent THEN chunks \ Old ELSE chunks
          /\ Goto(IF call.content = NoContent THEN "bump" ELSE "delete_chunks")
          /\ UNCHANGED <<memory, disk>>
      BY <1>7 DEF WriteRow, Fail, Old
    <2>2. row'[call.doc] = call.content
      BY <2>1, CallType DEF WellFormed, TypeOK
    <2>3. CASE call.content = NoContent
      <3>1. call'.pc = "bump" /\ call'.doc = call.doc /\ call'.content = NoContent
            /\ call'.del = call.del /\ call'.add = call.add
        BY <2>1, <2>3, GotoType DEF Steps
      <3>2. Old' = {} /\ New' = {}
        BY <2>1, <2>3, <3>1 DEF Old, New, OfDoc, IdsOf
      <3> QED
        BY <2>1, <2>2, <2>3, <3>1, <3>2 DEF CallInv, SavedAsInMemory, DiffIsFollowed
    <2>4. CASE call.content # NoContent
      <3>1. call'.pc = "delete_chunks" /\ call'.doc = call.doc /\ call'.content = call.content
            /\ call'.del = call.del /\ call'.add = call.add
        BY <2>1, <2>4, GotoType DEF Steps
      <3>2. Old' = Old /\ New' = New
        BY <2>1, <2>4, <3>1 DEF Old, New
      <3>3. (Old \ (Old \ New)) \cup (New \ Old) = New
        OBVIOUS
      <3> QED
        BY <2>1, <2>2, <2>4, <3>1, <3>2, <3>3 DEF CallInv, SavedAsInMemory, DiffIsFollowed
    <2> QED
      BY <2>3, <2>4
  <1>8. CASE (DeleteChunks \/ InsertChunks) /\ ~Fail
    <2>1. CASE DeleteChunks
      <3>1. Old' = Old \ call.del
        BY <1>8, <2>1, GotoType DEF DeleteChunks, Steps, Old, OfDoc
      <3> QED
        BY <1>8, <2>1, <3>1, GotoType
           DEF DeleteChunks, Steps, CallInv, SavedAsInMemory, DiffIsFollowed, New
    <2>2. CASE InsertChunks
      <3>1. Old' = Old \cup call.add
        BY <1>8, <2>2, GotoType DEF InsertChunks, Steps, Old, OfDoc, CallInv, DiffIsFollowed
      <3> QED
        BY <1>8, <2>2, <3>1, GotoType
           DEF InsertChunks, Steps, CallInv, SavedAsInMemory, DiffIsFollowed, New
    <2> QED
      BY <1>8, <2>1, <2>2
  <1>9. CASE Bump /\ ~Fail
    BY <1>9, EndedCall DEF Bump
  <1>10. CASE Crash
    BY <1>10, EndedCall DEF Crash
  <1>11. CASE Start
    BY <1>11, GotoType DEF Start, Steps, CallInv, SavedAsInMemory, DiffIsFollowed
  <1>12. CASE UNCHANGED vars
    BY <1>12 DEF vars, CallInv, SavedAsInMemory, DiffIsFollowed, New, Old
  <1> QED
    BY <1>1, <1>2, <1>3, <1>4, <1>5, <1>6, <1>7, <1>8, <1>9, <1>10, <1>11, <1>12 DEF Next

\* Inside a call, for every document: what its steps have saved is what memory has until
\* the call ends, and what they have left to do completes the diff it made.
THEOREM CallInvariant == Spec => []CallInv
  <1>1. Init => CallInv
    BY DEF Init, CallInv, SavedAsInMemory, DiffIsFollowed, Ended, RowSteps, Bm25Steps, SaveSteps,
         DocstoreSteps
  <1> QED
    BY <1>1, WellFormedInvariant, NextCallInv, PTL DEF Spec

\* BumpIsLast: the version moves only when both indexes are on disk and the registry has
\* the document, whatever failed before; and a call that begins to write ends well only
\* by moving it.
THEOREM BumpComesLast == Spec => BumpIsLast
  <1> DEFINE Complete == /\ vectorsDisk = Vectors /\ docstoreDisk = faiss /\ bm25Disk = bm25
                         /\ row[call.doc] = call.content
                         /\ OfDoc(chunks, call.doc) = IdsOf(call.doc, call.content)
  <1>1. ASSUME WellFormed, CallInv, [Next]_vars
        PROVE  [/\ version' # version => Complete
                /\ ~At("idle") /\ ~At("down") /\ At("idle")' /\ harm'[call.doc] = Clean
                      => version' # version]_vars
    <2>1. version' # version => Bump
      BY <1>1 DEF Next, InsertOrUpdate, DeleteDocument, FaissUpdate, VectorsSave, DocstoreSave,
                  Bm25Save, WriteRow, DeleteChunks, InsertChunks, Crash, Start, vars
    <2>2. version' # version => Complete
      BY <1>1, <2>1 DEF Bump, At, CallInv, SavedAsInMemory, DiffIsFollowed, New, Old,
                        RowSteps, Bm25Steps, SaveSteps, DocstoreSteps
    <2>3. ASSUME ~At("idle"), ~At("down"), At("idle")', harm'[call.doc] = Clean,
                 version' = version
          PROVE  FALSE
      <3>1. ASSUME NEW rows, FailWith(rows)
            PROVE  FALSE
        BY <1>1, <2>3, <3>1, CallType, CutOffIsHarmed DEF FailWith
      <3>2. ASSUME NEW s \in Steps \ {"idle"}, Goto(s)
            PROVE  FALSE
        BY <1>1, <2>3, <3>2, GotoType DEF At
      <3>3. ~Bump
        <4>1. version + 1 # version
          BY <1>1 DEF WellFormed, TypeOK
        <4> QED
          BY <2>3, <3>1, <4>1 DEF Bump, Fail
      <3>4. ~UNCHANGED vars
        BY <2>3 DEF vars, At
      <3>5. ~Crash
        BY <2>3, <1>1, CallType, EndedType DEF Crash, At, Call
      <3>6. ~FaissUpdate /\ ~VectorsSave /\ ~DocstoreSave /\ ~Bm25Save
        BY <3>1, <3>2 DEF FaissUpdate, VectorsSave, DocstoreSave, Bm25Save, Fail, Steps
      <3>7. ~WriteRow /\ ~DeleteChunks /\ ~InsertChunks
        BY <3>1, <3>2 DEF WriteRow, DeleteChunks, InsertChunks, Fail, Steps
      <3> QED
        BY <1>1, <2>3, <3>3, <3>4, <3>5, <3>6, <3>7
           DEF Next, InsertOrUpdate, DeleteDocument, Start
    <2> QED
      BY <2>2, <2>3
  <1> QED
    BY <1>1, WellFormedInvariant, CallInvariant, PTL DEF Spec, BumpIsLast

-----------------------------------------------------------------------------
(* What is known of a document that is not spoilt, while a call changes it   *)
(* or not.  An index has what the registry says, or, after a failed first    *)
(* insertion, part of the text that Postgres has not heard of; from the step *)
(* that writes it on, it has what the call will leave.                       *)

Rest(X, e) ==
    IF harm[e] = Clean THEN OfDoc(X, e) = IdsOf(e, row[e])
    ELSE OfDoc(X, e) \subseteq IdsOf(e, harm[e])

Has(X, e, steps) ==
    IF call.doc = e /\ call.pc \in steps THEN OfDoc(X, e) = New ELSE Rest(X, e)

RegistryHas(e) ==
    \/ call.doc = e /\ call.pc \in RowSteps
    \/ /\ OfDoc(chunks, e) = IdsOf(e, row[e])
       /\ harm[e] # Clean => row[e] = NoContent

IndexesHave(e) ==
    /\ ~askew /\ vectorsDisk # Askew
    /\ ~At("down") => Has(Stored(faiss), e, FaissSteps) /\ Has(bm25, e, Bm25Steps)
    /\ vectorsDisk # Broken => Has(Stored(vectorsDisk), e, DocstoreSteps)
    /\ docstoreDisk # Broken => Has(Stored(docstoreDisk), e, SaveSteps)
    /\ bm25Disk # Broken => Has(bm25Disk, e, Bm25Steps)

Known(e) ==
    harm[e] # Spoilt =>
        /\ ~Settled(e) => harm[e] \in {Clean, call.content}
        /\ RegistryHas(e) /\ IndexesHave(e)

AllKnown == \A e \in Docs : Known(e)

LEMMA StepsInOrder ==
  /\ RowSteps \subseteq Bm25Steps /\ Bm25Steps \subseteq SaveSteps
  /\ SaveSteps \subseteq DocstoreSteps /\ DocstoreSteps \subseteq FaissSteps
  /\ FaissSteps \subseteq CallSteps
  /\ "down" \notin CallSteps /\ "idle" \notin CallSteps
  /\ Steps = {"down", "idle"} \cup CallSteps
  BY DEF RowSteps, Bm25Steps, SaveSteps, DocstoreSteps, FaissSteps, CallSteps, Steps

LEMMA SettledOrRuns ==
  ASSUME WellFormed, NEW e
  PROVE  Settled(e) <=> ~(call.doc = e /\ Running)
  BY CallType, StepsInOrder DEF Settled, At, Running

\* A document that no call is in the middle of: what it has is at rest.
AtRest(e) ==
    harm[e] # Spoilt =>
        /\ OfDoc(chunks, e) = IdsOf(e, row[e])
        /\ harm[e] # Clean => row[e] = NoContent
        /\ ~askew /\ vectorsDisk # Askew
        /\ ~At("down") => Rest(Stored(faiss), e) /\ Rest(bm25, e)
        /\ vectorsDisk # Broken => Rest(Stored(vectorsDisk), e)
        /\ docstoreDisk # Broken => Rest(Stored(docstoreDisk), e)
        /\ bm25Disk # Broken => Rest(bm25Disk, e)

LEMMA SettledIsAtRest ==
  ASSUME WellFormed, NEW e \in Docs, Settled(e)
  PROVE  Known(e) <=> AtRest(e)
  <1>1. ~(call.doc = e /\ call.pc \in CallSteps)
    BY SettledOrRuns DEF Running
  <1> QED
    BY <1>1, StepsInOrder DEF Known, AtRest, RegistryHas, IndexesHave, Has

LEMMA SettledIsAtRestNext ==
  ASSUME WellFormed', NEW e \in Docs, call'.doc # e \/ ~Running'
  PROVE  AtRest(e)' => Known(e)'
  BY StepsInOrder DEF Running, Known, AtRest, RegistryHas, IndexesHave, Has, Settled, At,
                      WellFormed, TypeOK, Call

LEMMA FaissIsNoMark == WellFormed => faiss # Askew /\ faiss # Broken
  BY FilesAssumption DEF WellFormed, TypeOK, Ids

\* Nothing is done to e but to save or to load what there is of it.
LEMMA AtRestKept ==
  ASSUME WellFormed, NEW e, AtRest(e), harm'[e] = harm[e], row'[e] = row[e],
         OfDoc(chunks', e) = OfDoc(chunks, e), askew' => askew,
         \/ At("down")'
         \/ /\ ~At("down") /\ OfDoc(Stored(faiss'), e) = OfDoc(Stored(faiss), e)
            /\ OfDoc(bm25', e) = OfDoc(bm25, e)
         \/ /\ bm25Disk # Broken /\ bm25' = bm25Disk
            /\ \/ vectorsDisk # Broken /\ faiss' = vectorsDisk
               \/ docstoreDisk # Broken /\ faiss' = docstoreDisk,
         \/ vectorsDisk' \in {vectorsDisk, Broken}
         \/ ~At("down") /\ vectorsDisk' = Vectors,
         \/ docstoreDisk' \in {docstoreDisk, Broken}
         \/ ~At("down") /\ docstoreDisk' = faiss,
         \/ bm25Disk' \in {bm25Disk, Broken}
         \/ ~At("down") /\ OfDoc(bm25Disk', e) = OfDoc(bm25, e)
  PROVE  AtRest(e)'
  <1> SUFFICES ASSUME harm[e] # Spoilt
               PROVE  AtRest(e)'
    BY DEF AtRest
  <1>1. ~askew /\ Vectors = faiss /\ faiss # Askew /\ Broken # Askew
    BY FaissIsNoMark, FilesAssumption DEF AtRest, Vectors
  <1>2. ASSUME NEW X, NEW Y, OfDoc(Y, e) = OfDoc(X, e), Rest(X, e)
        PROVE  IF harm'[e] = Clean THEN OfDoc(Y, e) = IdsOf(e, row'[e])
               ELSE OfDoc(Y, e) \subseteq IdsOf(e, harm'[e])
    BY <1>2 DEF Rest
  <1> QED
    BY <1>1, <1>2 DEF AtRest, Rest

\* What a write makes of an index that has not had it.
LEMMA WriteMakesNew ==
  ASSUME WellFormed, CallInv, Known(call.doc), harm[call.doc] # Spoilt,
         call.pc \in {"faiss", "vectors_save", "docstore_save", "bm25", "row"},
         NEW X, Rest(X, call.doc)
  PROVE  OfDoc((X \ call.del) \cup call.add, call.doc) = New
  <1> DEFINE d == call.doc
  <1>1. call.del = Old \ New /\ call.add = New \ Old
    BY DEF CallInv, DiffIsFollowed
  <1>2. OfDoc((X \ call.del) \cup call.add, d) = (OfDoc(X, d) \ call.del) \cup call.add
    <2>1. call.del \subseteq {d} \X Chunks /\ call.add \subseteq {d} \X Chunks
      BY DEF CallInv, DiffIsFollowed
    <2> QED
      BY <2>1 DEF OfDoc
  <1>3. ~Settled(d) /\ call.pc \notin RowSteps
    BY DEF Settled, At, RowSteps
  <1>4. Old = IdsOf(d, row[d]) /\ (harm[d] # Clean => harm[d] = call.content /\ row[d] = NoContent)
    BY <1>3 DEF Known, RegistryHas, Old
  <1>5. CASE harm[d] = Clean
    BY <1>1, <1>2, <1>4, <1>5 DEF Rest
  <1>6. CASE harm[d] # Clean
    <2>1. Old = {} /\ OfDoc(X, d) \subseteq New
      BY <1>4, <1>6 DEF Rest, IdsOf, New
    <2> QED
      BY <1>1, <1>2, <2>1
  <1> QED
    BY <1>5, <1>6

\* A first insertion: every index has no more than its text.
LEMMA FirstInsertion ==
  ASSUME WellFormed, CallInv, Known(call.doc), harm[call.doc] # Spoilt, Running,
         row[call.doc] = NoContent, call.content # NoContent
  PROVE  /\ OfDoc(chunks, call.doc) = {} /\ call.pc \notin RowSteps
         /\ OfDoc(Stored(faiss), call.doc) \subseteq New /\ OfDoc(bm25, call.doc) \subseteq New
         /\ vectorsDisk # Broken => OfDoc(Stored(vectorsDisk), call.doc) \subseteq New
         /\ docstoreDisk # Broken => OfDoc(Stored(docstoreDisk), call.doc) \subseteq New
         /\ bm25Disk # Broken => OfDoc(bm25Disk, call.doc) \subseteq New
  <1> DEFINE d == call.doc
  <1>1. call.pc \notin RowSteps
    BY DEF CallInv, DiffIsFollowed
  <1>2. ~Settled(d) /\ ~At("down")
    BY SettledOrRuns, StepsInOrder DEF Running, At
  <1>3. RegistryHas(d) /\ IndexesHave(d) /\ harm[d] \in {Clean, call.content}
    BY <1>2 DEF Known
  <1>4. OfDoc(chunks, d) = {}
    BY <1>1, <1>3 DEF RegistryHas, IdsOf
  <1>5. ASSUME NEW X, NEW S, Has(X, d, S)
        PROVE  OfDoc(X, d) \subseteq New
    BY <1>3, <1>5 DEF Has, Rest, New, IdsOf
  <1> QED
    BY <1>1, <1>2, <1>3, <1>4, <1>5 DEF IndexesHave

\* A call that is cut off leaves its document spoilt, or part of a first insertion.
LEMMA CutOffIsAtRest ==
  ASSUME WellFormed, CallInv, NEW d, d = call.doc, Known(d), Running,
         Spoil(d, call.content, row'),
         (row' = row /\ (chunks' = chunks \/ call.pc \in RowSteps)) \/ row'[d] = call.content,
         At("down")' \/ (Stored(faiss') \subseteq Stored(faiss) /\ bm25' \subseteq bm25 \cup call.add),
         askew' => askew, vectorsDisk' \in {vectorsDisk, Vectors, Broken},
         docstoreDisk' \in {docstoreDisk, faiss, Broken}, bm25Disk' \in {bm25Disk, Broken}
  PROVE  AtRest(d)'
  <1> SUFFICES ASSUME harm'[d] # Spoilt
               PROVE  AtRest(d)'
    BY DEF AtRest
  <1>1. /\ harm'[d] = call.content /\ call.content # NoContent /\ row'[d] = NoContent
        /\ harm[d] \in {Clean, call.content} /\ harm[d] # Spoilt
    BY CallType, MarksAssumption DEF Spoil, WellFormed, TypeOK
  <1>2. row' = row /\ row[d] = NoContent
    BY <1>1
  <1>3. /\ OfDoc(chunks, d) = {} /\ call.pc \notin RowSteps
        /\ OfDoc(Stored(faiss), d) \subseteq New /\ OfDoc(bm25, d) \subseteq New
        /\ vectorsDisk # Broken => OfDoc(Stored(vectorsDisk), d) \subseteq New
        /\ docstoreDisk # Broken => OfDoc(Stored(docstoreDisk), d) \subseteq New
        /\ bm25Disk # Broken => OfDoc(bm25Disk, d) \subseteq New
    BY <1>1, <1>2, FirstInsertion
  <1>4. OfDoc(chunks', d) = IdsOf(d, row'[d])
    BY <1>1, <1>2, <1>3 DEF IdsOf
  <1>5. call.add \subseteq New
    BY <1>3 DEF Running, CallInv, DiffIsFollowed, CallSteps, FaissSteps, DocstoreSteps, SaveSteps, Bm25Steps
  <1>6. At("down")' \/ (OfDoc(Stored(faiss'), d) \subseteq New /\ OfDoc(bm25', d) \subseteq New)
    BY <1>3, <1>5 DEF OfDoc
  <1>7. /\ ~askew' /\ vectorsDisk' # Askew
        /\ vectorsDisk' # Broken => OfDoc(Stored(vectorsDisk'), d) \subseteq New
        /\ docstoreDisk' # Broken => OfDoc(Stored(docstoreDisk'), d) \subseteq New
        /\ bm25Disk' # Broken => OfDoc(bm25Disk', d) \subseteq New
    <2>1. ~askew /\ vectorsDisk # Askew
      BY <1>1 DEF Known, IndexesHave
    <2>2. Vectors = faiss /\ faiss # Askew /\ Broken # Askew
      BY <2>1, FaissIsNoMark, FilesAssumption DEF Vectors
    <2> QED
      BY <1>3, <2>1, <2>2
  <1>8. call.content # Clean
    BY <1>1, CallType, MarksAssumption
  <1> QED
    BY <1>1, <1>4, <1>6, <1>7, <1>8 DEF AtRest, Rest, New

LEMMA StoredIsIndex == ASSUME NEW X, X \subseteq Ids PROVE Stored(X) = X
  BY FilesAssumption DEF Stored, Ids

LEMMA FaissAfter ==
  ASSUME WellFormed, FaissUpdate
  PROVE  \/ Fail /\ Stored(faiss') \in {Stored(faiss), Stored(faiss) \ call.del}
         \/ Goto("vectors_save") /\ Stored(faiss') = (Stored(faiss) \ call.del) \cup call.add
            /\ UNCHANGED harm
  <1>1. Stored(NoIndex) = {}
    BY DEF Stored
  <1>2. faiss # NoIndex => faiss \subseteq Ids /\ Stored(faiss) = faiss
    BY StoredIsIndex DEF WellFormed, TypeOK
  <1>3. call.add \subseteq Ids
    BY CallType
  <1>4. CASE UNCHANGED faiss /\ Fail
    BY <1>4
  <1>5. CASE faiss' = (IF faiss = NoIndex THEN NoIndex ELSE faiss \ call.del) /\ Fail
    <2>1. CASE faiss = NoIndex
      BY <1>5, <2>1
    <2>2. CASE faiss # NoIndex
      <3>1. faiss' = faiss \ call.del /\ faiss' \subseteq Ids
        BY <1>2, <1>5, <2>2
      <3> QED
        BY <1>2, <1>5, <2>2, <3>1, StoredIsIndex
    <2> QED
      BY <2>1, <2>2
  <1>6. CASE /\ faiss' = IF faiss = NoIndex /\ call.add = {} THEN NoIndex
                        ELSE (Stored(faiss) \ call.del) \cup call.add
             /\ Goto("vectors_save") /\ UNCHANGED harm
    <2>1. CASE faiss = NoIndex /\ call.add = {}
      BY <1>1, <1>6, <2>1
    <2>2. CASE ~(faiss = NoIndex /\ call.add = {})
      <3>1. faiss' = (Stored(faiss) \ call.del) \cup call.add /\ faiss' \subseteq Ids
        BY <1>1, <1>2, <1>3, <1>6, <2>2
      <3> QED
        BY <1>6, <3>1, StoredIsIndex
    <2> QED
      BY <2>1, <2>2
  <1> QED
    BY <1>4, <1>5, <1>6 DEF FaissUpdate

\* What a call does to the documents it is not for.
LEMMA OthersKnown ==
  ASSUME WellFormed, WellFormed', CallInv, [Next]_vars, NEW e \in Docs, Known(e),
         call.doc # e \/ ~Running, call'.doc # e \/ ~Running'
  PROVE  Known(e)'
  <1> USE DEF memory, disk, registry, At
  <1> SUFFICES AtRest(e)'
    BY SettledIsAtRestNext
  <1>1. AtRest(e)
    BY SettledOrRuns, SettledIsAtRest
  <1>2. ASSUME NEW d \in Docs, NEW content \in Contents, InsertOrUpdate(d, content)
        PROVE  AtRest(e)'
    <2>1. harm'[e] = harm[e] /\ call'.pc # "down"
      <3>1. CASE row[d] = content
        BY <1>2, <3>1 DEF InsertOrUpdate, Ended
      <3>2. CASE row[d] # content
        <4>1. call'.pc = "faiss" /\ call'.doc = d
          BY <1>2, <3>2, DiffType DEF InsertOrUpdate
        <4>2. d # e
          BY <4>1 DEF Running, CallSteps
        <4> QED
          BY <1>2, <3>2, <4>1, <4>2 DEF InsertOrUpdate, WellFormed, TypeOK
      <3> QED
        BY <3>1, <3>2
    <2> QED
      BY <1>1, <1>2, <2>1, AtRestKept DEF InsertOrUpdate
  <1>3. ASSUME NEW d \in Docs, DeleteDocument(d)
        PROVE  AtRest(e)'
    BY <1>1, <1>3, AtRestKept DEF DeleteDocument
  <1>4. CASE Start
    <2>1. CASE harm'[e] = Spoilt
      BY <2>1 DEF AtRest
    <2>2. CASE harm'[e] # Spoilt
      <3>1. ~askew' /\ harm' = harm
        BY <1>4, <2>2 DEF Start
      <3> QED
        BY <1>1, <1>4, <3>1, FilesAssumption, AtRestKept DEF Start
    <2> QED
      BY <2>1, <2>2
  <1>5. CASE Crash
    <2>1. harm'[e] = harm[e] /\ call'.pc = "down"
      <3>1. CASE At("idle")
        BY <1>5, <3>1, EndedType DEF Crash, Ended
      <3>2. CASE ~At("idle")
        <4>1. Running
          BY <1>5, <3>2, CallType, StepsInOrder DEF Crash, Running
        <4> QED
          BY <1>5, <3>2, <4>1, CallType DEF Crash, Spoil, Ended, WellFormed, TypeOK
      <3> QED
        BY <3>1, <3>2
    <2> QED
      BY <1>1, <1>5, <2>1, AtRestKept DEF Crash, Cut
  <1>6. CASE UNCHANGED vars
    BY <1>1, <1>6, AtRestKept DEF vars
  <1>7. ASSUME Running, Fail \/ FailWith(row') \/ UNCHANGED harm
               \/ harm' = [harm EXCEPT ![call.doc] = IF @ = Spoilt THEN Spoilt ELSE Clean]
        PROVE  /\ call.doc # e /\ harm'[e] = harm[e] /\ call.pc # "down"
               /\ call.del \subseteq {call.doc} \X Chunks /\ call.add \subseteq {call.doc} \X Chunks
    BY <1>7, CallType, StepsInOrder
       DEF Fail, FailWith, Spoil, WellFormed, TypeOK, CallInv, DiffIsFollowed, Running
  <1> USE DEF Running, CallSteps, FaissSteps, DocstoreSteps, SaveSteps, Bm25Steps, RowSteps
  <1>8. CASE FaissUpdate
    <2>1. Stored(faiss') \in {Stored(faiss), Stored(faiss) \ call.del,
                              (Stored(faiss) \ call.del) \cup call.add}
      BY <1>8, FaissAfter
    <2>2. /\ call.doc # e
          /\ call.del \subseteq {call.doc} \X Chunks /\ call.add \subseteq {call.doc} \X Chunks
      BY <1>7, <1>8, FaissAfter DEF FaissUpdate
    <2>3. OfDoc(Stored(faiss'), e) = OfDoc(Stored(faiss), e)
      BY <2>1, <2>2 DEF OfDoc
    <2> QED
      BY <1>1, <1>7, <1>8, <2>3, AtRestKept DEF FaissUpdate
  <1>9. CASE VectorsSave \/ DocstoreSave
    <2>1. CASE VectorsSave
      <3>1. vectorsDisk' \in {vectorsDisk, Broken} \/ vectorsDisk' = Vectors
        BY <2>1 DEF VectorsSave
      <3> QED
        BY <1>1, <1>7, <2>1, <3>1, AtRestKept DEF VectorsSave
    <2>2. CASE DocstoreSave
      BY <1>1, <1>7, <2>2, AtRestKept DEF DocstoreSave
    <2> QED
      BY <1>9, <2>1, <2>2
  <1>10. CASE Bm25Save
    <2>1. OfDoc(bm25', e) = OfDoc(bm25, e)
      <3>1. bm25' = (bm25 \ call.del) \cup call.add /\ (Fail \/ UNCHANGED harm) /\ Running
        BY <1>10 DEF Bm25Save
      <3> QED
        BY <1>7, <3>1 DEF OfDoc
    <2> QED
      BY <1>1, <1>7, <1>10, <2>1, AtRestKept DEF Bm25Save
  <1>11. CASE WriteRow
    <2>1. row'[e] = row[e] /\ chunks' \in {chunks, chunks \ OfDoc(chunks, call.doc)}
      BY <1>7, <1>11 DEF WriteRow, WellFormed, TypeOK
    <2>2. OfDoc(chunks', e) = OfDoc(chunks, e)
      <3>1. call.doc # e
        BY <1>7, <1>11 DEF WriteRow
      <3> QED
        BY <2>1, <3>1 DEF OfDoc
    <2> QED
      BY <1>1, <1>7, <1>11, <2>1, <2>2, AtRestKept DEF WriteRow
  <1>12. CASE DeleteChunks
    <2>1. OfDoc(chunks', e) = OfDoc(chunks, e)
      <3>1. chunks' \in {chunks, chunks \ call.del} /\ (Fail \/ UNCHANGED harm) /\ Running
        BY <1>12 DEF DeleteChunks
      <3> QED
        BY <1>7, <3>1 DEF OfDoc
    <2> QED
      BY <1>1, <1>7, <1>12, <2>1, AtRestKept DEF DeleteChunks
  <1>13. CASE InsertChunks
    <2>1. OfDoc(chunks', e) = OfDoc(chunks, e)
      <3>1. chunks' \in {chunks, chunks \cup call.add} /\ (Fail \/ UNCHANGED harm) /\ Running
        BY <1>13 DEF InsertChunks
      <3> QED
        BY <1>7, <3>1 DEF OfDoc
    <2> QED
      BY <1>1, <1>7, <1>13, <2>1, AtRestKept DEF InsertChunks
  <1>14. CASE Bump
    BY <1>1, <1>7, <1>14, AtRestKept DEF Bump
  <1> QED
    BY <1>2, <1>3, <1>4, <1>5, <1>6, <1>8, <1>9, <1>10, <1>11, <1>12, <1>13, <1>14 DEF Next

\* The step that begins a call for e: nothing of it is written yet.
LEMMA BegunKnown ==
  ASSUME WellFormed, NEW e \in Docs, Known(e), At("idle"),
         NEW c \in Contents \cup {NoContent}, Diff(e, c),
         UNCHANGED <<memory, disk, registry>>,
         harm'[e] = Spoilt \/ (harm'[e] = harm[e] /\ harm[e] \in {Clean, c})
  PROVE  Known(e)'
  <1>1. AtRest(e)
    BY SettledIsAtRest DEF Settled
  <1>2. call'.pc = "faiss" /\ call'.content = c
    BY DiffType
  <1>3. harm'[e] # Spoilt => RegistryHas(e)'
    BY <1>1, <1>2 DEF AtRest, RegistryHas, registry
  <1>4. harm'[e] # Spoilt => IndexesHave(e)'
    BY <1>1, <1>2 DEF AtRest, IndexesHave, Has, Rest, At, memory, disk, registry,
                      FaissSteps, DocstoreSteps, SaveSteps, Bm25Steps, RowSteps
  <1> QED
    BY <1>2, <1>3, <1>4 DEF Known

\* The steps of a call, for the document it is for.
LEMMA RunsKnown ==
  ASSUME WellFormed, WellFormed', CallInv, [Next]_vars, NEW d, d = call.doc, Known(d), Running
  PROVE  call'.doc = d /\ Known(d)'
  <1> USE DEF memory, disk, registry, At
  <1>1. ~Settled(d) /\ ~At("down") /\ ~At("idle") /\ d \in Docs
    BY SettledOrRuns, StepsInOrder, CallType DEF Running
  <1>2. harm[d] # Spoilt => harm[d] \in {Clean, call.content} /\ RegistryHas(d) /\ IndexesHave(d)
    BY <1>1 DEF Known
  <1>3. ASSUME FailWith(row'),
               (row' = row /\ (chunks' = chunks \/ call.pc \in RowSteps)) \/ row'[d] = call.content,
               Stored(faiss') \subseteq Stored(faiss), bm25' \subseteq bm25 \cup call.add,
               askew' = askew, vectorsDisk' \in {vectorsDisk, Vectors, Broken},
               docstoreDisk' \in {docstoreDisk, faiss, Broken}, bm25Disk' \in {bm25Disk, Broken}
        PROVE  call'.doc = d /\ Known(d)'
    <2>1. call'.doc = d /\ ~Running' /\ Spoil(d, call.content, row')
      BY <1>3, FailType DEF FailWith
    <2>2. AtRest(d)'
      BY <1>3, <2>1, CutOffIsAtRest
    <2> QED
      BY <1>1, <2>1, <2>2, SettledIsAtRestNext
  <1>4. ASSUME NEW s \in CallSteps, Goto(s), UNCHANGED harm,
               harm[d] # Spoilt => RegistryHas(d)' /\ IndexesHave(d)'
        PROVE  call'.doc = d /\ Known(d)'
    BY <1>1, <1>2, <1>4, GotoType, StepsInOrder DEF Known
  <1> USE DEF CallSteps, FaissSteps, DocstoreSteps, SaveSteps, Bm25Steps, RowSteps
  <1>5. CASE FaissUpdate
    <2>1. CASE Fail
      <3>1. Stored(faiss') \subseteq Stored(faiss)
        BY <1>5, <2>1, FaissAfter, FailType, GotoType DEF Fail, Steps
      <3> QED
        BY <1>3, <1>5, <2>1, <3>1 DEF FaissUpdate, Fail
    <2>2. CASE Goto("vectors_save") /\ UNCHANGED harm
                 /\ Stored(faiss') = (Stored(faiss) \ call.del) \cup call.add
      <3>1. /\ call'.pc = "vectors_save" /\ call'.doc = d /\ New' = New
            /\ call.pc = "faiss" /\ UNCHANGED <<askew, bm25, disk, registry>>
        BY <1>5, <2>2, GotoType DEF FaissUpdate, Steps, New
      <3>2. harm[d] # Spoilt => OfDoc(Stored(faiss'), d) = New
        BY <1>1, <1>2, <2>2, <3>1, WriteMakesNew DEF IndexesHave, Has, Known
      <3>3. harm[d] # Spoilt => RegistryHas(d)' /\ IndexesHave(d)'
        BY <1>2, <2>2, <3>1, <3>2 DEF RegistryHas, IndexesHave, Has, Rest
      <3> QED
        BY <1>4, <2>2, <3>3
    <2> QED
      BY <1>5, <2>1, <2>2, FaissAfter
  <1>6. CASE VectorsSave \/ DocstoreSave
    <2>1. CASE Fail
      BY <1>3, <1>6, <2>1 DEF VectorsSave, DocstoreSave, Fail
    <2>2. CASE VectorsSave /\ Goto("docstore_save") /\ UNCHANGED harm /\ vectorsDisk' = Vectors
      <3>1. /\ call'.pc = "docstore_save" /\ call'.doc = d /\ New' = New
            /\ call.pc = "vectors_save"
            /\ UNCHANGED <<memory, docstoreDisk, bm25Disk, registry>>
        BY <2>2, GotoType DEF VectorsSave, Steps, New
      <3>2. harm[d] # Spoilt => vectorsDisk' = faiss /\ faiss # Askew
        BY <1>2, <2>2, FaissIsNoMark DEF IndexesHave, Vectors
      <3>3. harm[d] # Spoilt => RegistryHas(d)' /\ IndexesHave(d)'
        BY <1>2, <2>2, <3>1, <3>2 DEF RegistryHas, IndexesHave, Has, Rest
      <3> QED
        BY <1>4, <2>2, <3>3
    <2>3. CASE DocstoreSave /\ Goto("bm25") /\ UNCHANGED harm /\ docstoreDisk' = faiss
      <3>1. /\ call'.pc = "bm25" /\ call'.doc = d /\ New' = New
            /\ call.pc = "docstore_save"
            /\ UNCHANGED <<memory, vectorsDisk, bm25Disk, registry>>
        BY <2>3, GotoType DEF DocstoreSave, Steps, New
      <3>2. harm[d] # Spoilt => RegistryHas(d)' /\ IndexesHave(d)'
        BY <1>2, <2>3, <3>1 DEF RegistryHas, IndexesHave, Has, Rest
      <3> QED
        BY <1>4, <2>3, <3>2
    <2> QED
      BY <1>6, <2>1, <2>2, <2>3 DEF VectorsSave, DocstoreSave
  <1>7. CASE Bm25Save
    <2>1. CASE Fail /\ bm25Disk' \in {bm25Disk, Broken}
      BY <1>3, <1>7, <2>1 DEF Bm25Save, Fail
    <2>2. CASE Goto("row") /\ UNCHANGED harm /\ bm25Disk' = bm25'
                 /\ bm25' = (bm25 \ call.del) \cup call.add
      <3>1. /\ call'.pc = "row" /\ call'.doc = d /\ New' = New
            /\ call.pc = "bm25" /\ UNCHANGED <<faiss, askew, vectorsDisk, docstoreDisk, registry>>
        BY <1>7, <2>2, GotoType DEF Bm25Save, Steps, New
      <3>2. harm[d] # Spoilt => OfDoc(bm25', d) = New
        BY <1>1, <1>2, <2>2, <3>1, WriteMakesNew DEF IndexesHave, Has, Known
      <3>3. harm[d] # Spoilt => RegistryHas(d)' /\ IndexesHave(d)'
        BY <1>2, <2>2, <3>1, <3>2 DEF RegistryHas, IndexesHave, Has, Rest
      <3> QED
        BY <1>4, <2>2, <3>3
    <2> QED
      BY <1>7, <2>1, <2>2 DEF Bm25Save
  \* From here on every index is written, and the registry follows.
  <1>8. ASSUME call.pc \in Bm25Steps, NEW s \in RowSteps, Goto(s), UNCHANGED harm,
               UNCHANGED <<memory, disk>>
        PROVE  call'.doc = d /\ Known(d)'
    <2>1. call'.pc = s /\ call'.doc = d /\ New' = New
      BY <1>8, GotoType DEF Steps, New
    <2>2. harm[d] # Spoilt => RegistryHas(d)' /\ IndexesHave(d)'
      BY <1>2, <1>8, <2>1 DEF RegistryHas, IndexesHave, Has
    <2> QED
      BY <1>4, <1>8, <2>2
  <1>9. CASE WriteRow
    <2>1. FailWith(row') \/ \E s \in RowSteps : (Goto(s) /\ UNCHANGED harm)
      BY <1>9 DEF WriteRow, Fail
    <2>2. (row' = row /\ chunks' = chunks) \/ row'[d] = call.content
      BY <1>1, <1>9 DEF WriteRow, WellFormed, TypeOK
    <2> QED
      BY <1>3, <1>8, <1>9, <2>1, <2>2 DEF WriteRow
  <1>10. CASE DeleteChunks \/ InsertChunks
    <2>1. FailWith(row') \/ \E s \in RowSteps : (Goto(s) /\ UNCHANGED harm)
      BY <1>10 DEF DeleteChunks, InsertChunks, Fail
    <2>2. call.pc \in RowSteps /\ UNCHANGED <<row, memory, disk>>
      BY <1>10 DEF DeleteChunks, InsertChunks
    <2> QED
      BY <1>3, <1>8, <2>1, <2>2
  <1>11. CASE Bump
    <2>1. CASE Fail
      BY <1>3, <1>11, <2>1 DEF Bump, Fail
    <2>2. CASE /\ call' = Ended(d)
               /\ harm' = [harm EXCEPT ![d] = IF @ = Spoilt THEN Spoilt ELSE Clean]
      <3>1. call'.doc = d /\ call'.pc = "idle" /\ ~Running'
        BY <2>2 DEF Ended, Running
      <3>2. /\ call.pc = "bump" /\ row[d] = call.content /\ Old = New
            /\ UNCHANGED <<memory, disk, registry>>
        BY <1>11 DEF Bump, CallInv, DiffIsFollowed
      <3>3. harm'[d] # Spoilt => harm[d] # Spoilt /\ harm'[d] = Clean
        BY <1>1, <2>2 DEF WellFormed, TypeOK
      <3>4. harm[d] # Spoilt =>
              /\ OfDoc(Stored(faiss), d) = New /\ OfDoc(bm25, d) = New
              /\ ~askew /\ vectorsDisk # Askew
              /\ vectorsDisk # Broken => OfDoc(Stored(vectorsDisk), d) = New
              /\ docstoreDisk # Broken => OfDoc(Stored(docstoreDisk), d) = New
              /\ bm25Disk # Broken => OfDoc(bm25Disk, d) = New
        BY <1>1, <1>2, <3>2 DEF IndexesHave, Has
      <3>5. AtRest(d)'
        BY <3>2, <3>3, <3>4 DEF AtRest, Rest, New, Old
      <3> QED
        BY <1>1, <3>1, <3>5, SettledIsAtRestNext
    <2> QED
      BY <1>11, <2>1, <2>2 DEF Bump
  <1>12. CASE Crash
    <2>1. call'.doc = d /\ call'.pc = "down" /\ ~Running' /\ Spoil(d, call.content, row')
      BY <1>1, <1>12 DEF Crash, Ended, Running
    <2>2. AtRest(d)'
      BY <1>12, <2>1, CutOffIsAtRest DEF Crash, Cut
    <2> QED
      BY <1>1, <2>1, <2>2, SettledIsAtRestNext
  <1>13. CASE UNCHANGED vars
    BY <1>13 DEF vars, Known, Settled, RegistryHas, IndexesHave, Has, Rest, New
  <1> QED
    BY <1>1, <1>5, <1>6, <1>7, <1>9, <1>10, <1>11, <1>12, <1>13
       DEF Next, InsertOrUpdate, DeleteDocument, Start

LEMMA NextAllKnown == WellFormed /\ CallInv /\ AllKnown /\ [Next]_vars => AllKnown'
  <1> SUFFICES ASSUME WellFormed, CallInv, AllKnown, [Next]_vars, NEW e \in Docs
               PROVE  Known(e)'
    BY DEF AllKnown
  <1>1. WellFormed' /\ Known(e)
    BY NextWellFormed DEF AllKnown
  <1>2. CASE call.doc = e /\ Running
    BY <1>1, <1>2, RunsKnown
  <1>3. CASE ~(call.doc = e /\ Running) /\ ~(call'.doc = e /\ Running')
    BY <1>1, <1>3, OthersKnown
  <1>4. CASE ~(call.doc = e /\ Running) /\ call'.doc = e /\ Running'
    <2>1. ~Running
      BY <1>1, <1>4, CallType, RunsKnown DEF AllKnown
    <2>2. ~UNCHANGED vars /\ ~Crash /\ ~Start
      BY <1>4, <2>1, GotoType, StepsInOrder, EndedType, CallType
         DEF vars, Running, Crash, Start, Steps, CallSteps, FaissSteps, DocstoreSteps, SaveSteps, Bm25Steps,
             RowSteps, Ended
    <2>3. \E d \in Docs : (\E c \in Contents : InsertOrUpdate(d, c)) \/ DeleteDocument(d)
      BY <2>1, <2>2 DEF Next, Running, CallSteps, FaissSteps, DocstoreSteps, SaveSteps, Bm25Steps, RowSteps, At,
                        FaissUpdate, VectorsSave, DocstoreSave, Bm25Save, WriteRow, DeleteChunks, InsertChunks, Bump
    <2>4. ASSUME NEW d \in Docs, call' = Ended(d)
          PROVE  FALSE
      BY <1>4, <2>4 DEF Ended, Running, CallSteps, FaissSteps, DocstoreSteps, SaveSteps, Bm25Steps, RowSteps
    <2>5. ASSUME NEW d \in Docs, NEW c \in Contents, InsertOrUpdate(d, c)
          PROVE  Known(e)'
      <3>1. At("idle") /\ Diff(d, c) /\ UNCHANGED <<memory, disk, registry>>
            /\ harm' = [harm EXCEPT ![d] = IF @ \in {Clean, c} THEN @ ELSE Spoilt]
        BY <2>4, <2>5 DEF InsertOrUpdate
      <3>2. d = e
        BY <1>4, <3>1, DiffType
      <3>3. harm'[e] = Spoilt \/ (harm'[e] = harm[e] /\ harm[e] \in {Clean, c})
        BY <3>1, <3>2 DEF WellFormed, TypeOK
      <3>4. Diff(e, c) /\ c \in Contents \cup {NoContent}
        BY <3>1, <3>2
      <3> QED
        BY <1>1, <3>1, <3>3, <3>4, BegunKnown
    <2>6. ASSUME NEW d \in Docs, DeleteDocument(d)
          PROVE  Known(e)'
      <3>1. /\ At("idle") /\ Diff(d, NoContent) /\ UNCHANGED <<memory, disk, registry>>
            /\ OfDoc(chunks, d) # {} /\ harm' = harm
        BY <2>4, <2>6 DEF DeleteDocument
      <3>2. d = e
        BY <1>4, <3>1, DiffType
      <3>3. AtRest(e)
        BY <1>1, <3>1, SettledIsAtRest DEF Settled
      \* nothing can be deleted of a first insertion that failed
      <3>4. harm[e] \in {Clean, Spoilt}
        BY <3>1, <3>2, <3>3 DEF AtRest, IdsOf
      <3>5. Diff(e, NoContent) /\ NoContent \in Contents \cup {NoContent}
        BY <3>1, <3>2
      <3> QED
        BY <1>1, <3>1, <3>4, <3>5, BegunKnown
    <2> QED
      BY <2>3, <2>5, <2>6
  <1> QED
    BY <1>2, <1>3, <1>4

\* What each store has of a document that is not spoilt, before and after its write.
THEOREM KnownInvariant == Spec => []AllKnown
  <1>1. Init => AllKnown
    <2> SUFFICES ASSUME Init, NEW e \in Docs
                 PROVE  Known(e)
      BY DEF AllKnown
    <2>1. Settled(e) /\ harm[e] = Clean /\ row[e] = NoContent
      BY DEF Init, Settled, At, Ended
    <2>2. AtRest(e)
      BY <2>1, FilesAssumption DEF Init, AtRest, Rest, Stored, OfDoc, IdsOf
    <2> QED
      BY <2>1, <2>2, InitWellFormed, SettledIsAtRest
  <1> QED
    BY <1>1, WellFormedInvariant, CallInvariant, NextAllKnown, PTL DEF Spec

\* StoresAgree: between the calls the registry and the indexes agree on a document that no
\* failed call has touched, whatever failed for other documents.
THEOREM StoresStayInAgreement == Spec => []StoresAgree
  <1>1. ASSUME WellFormed, AllKnown
        PROVE  StoresAgree
    <2> SUFFICES ASSUME NEW d \in Docs, harm[d] = Clean, Settled(d)
                 PROVE  Agrees(d)
      BY DEF StoresAgree
    <2>1. AtRest(d)
      BY <1>1, SettledIsAtRest DEF AllKnown
    <2> QED
      BY <2>1, MarksAssumption DEF AtRest, Rest, Agrees
  <1> QED
    BY <1>1, WellFormedInvariant, KnownInvariant, PTL

\* DiffIsApplicable: what the diff against the registry tells FAISS to delete is there.
THEOREM DiffsAreApplicable == Spec => []DiffIsApplicable
  <1>1. ASSUME WellFormed, CallInv, AllKnown
        PROVE  DiffIsApplicable
    <2> SUFFICES ASSUME At("faiss"), harm[call.doc] # Spoilt, faiss # NoIndex
                 PROVE  call.del \subseteq faiss
      BY DEF DiffIsApplicable, DeleteRaises
    <2>1. /\ ~Settled(call.doc) /\ ~At("down")
          /\ call.pc \notin FaissSteps /\ call.pc \notin RowSteps
      BY DEF At, Settled, FaissSteps, DocstoreSteps, SaveSteps, Bm25Steps, RowSteps
    <2>2. /\ harm[call.doc] \in {Clean, call.content}
          /\ RegistryHas(call.doc) /\ Rest(Stored(faiss), call.doc)
      BY <1>1, <2>1, CallType DEF AllKnown, Known, IndexesHave, Has
    <2>3. call.del = Old \ New /\ Old = IdsOf(call.doc, row[call.doc])
      BY <1>1, <2>1, <2>2 DEF At, CallInv, DiffIsFollowed, RegistryHas, Old
    <2>4. Old \subseteq OfDoc(Stored(faiss), call.doc)
      BY <2>1, <2>2, <2>3 DEF RegistryHas, Rest, IdsOf
    <2> QED
      BY <2>3, <2>4 DEF OfDoc, Stored
  <1> QED
    BY <1>1, WellFormedInvariant, CallInvariant, KnownInvariant, PTL
=============================================================================
