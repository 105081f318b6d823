----------------------------- MODULE Ingestion -----------------------------
(***************************************************************************)
(* IngestionService (ingest/ingestion_service.py): a document is written   *)
(* to the FAISS index, which has two files, to the BM25 corpus and, in     *)
(* three transactions, to Postgres, one after the other, with nothing that *)
(* makes one step of them.  A call may fail between any two writes, or in  *)
(* one; the process may end at any time and load the indexes again.        *)
(*                                                                         *)
(* There is one process that writes.  A chunk id is a document with the    *)
(* hash of a text: <<document, chunk>>.  Of the vectors only this counts:  *)
(* which ids they were made for, or that the mapping of positions to ids,  *)
(* which is kept apart from them, does not fit them.  (Their order needs no *)
(* model: before an id that was deleted is added again, both files have    *)
(* been saved without it.)                                                 *)
(***************************************************************************)
EXTENDS FiniteSets, Naturals

CONSTANTS
    Docs,        \* document ids
    Contents,    \* the texts a contract may have
    Chunks,
    ChunksOf,    \* what the chunker makes of a text: no chunk, if it is blank
    NoContent,   \* None: no row in the table documents
    NoIndex,     \* FaissIndex without a store
    Broken,      \* a file that was cut short
    Askew,       \* vectors that are out of step with the mapping beside them
    Clean, Spoilt,
    MaxVersion   \* bound: calls begin while the version is below it

ASSUME ContentsAssumption ==
    /\ NoContent \notin Contents
    /\ ChunksOf \in [Contents -> SUBSET Chunks]
ASSUME MarksAssumption == Clean # Spoilt /\ {Clean, Spoilt} \cap Contents = {}
ASSUME FilesAssumption ==
    /\ \A ids \in SUBSET (Docs \X Chunks) : ids \notin {NoIndex, Broken, Askew}
    /\ NoIndex # Broken /\ NoIndex # Askew /\ Broken # Askew
ASSUME MaxVersionAssumption == MaxVersion \in Nat

VARIABLES
    faiss, bm25,           \* the ids of the indexes in the memory of the process
    askew,                 \* the vectors in memory are not those of the mapping
    vectorsDisk,           \* index.faiss
    docstoreDisk,          \* index.pkl: the texts, and the mapping of positions to ids
    bm25Disk,              \* bm25_corpus.pkl
    row,                   \* documents.content_hash
    chunks,                \* the rows of the table chunks
    version,               \* index:version in Redis
    call,                  \* the call that runs, or the last one
    harm                   \* history: what failed calls may have left of a document

memory == <<faiss, askew, bm25>>
disk == <<vectorsDisk, docstoreDisk, bm25Disk>>
registry == <<row, chunks>>
vars == <<memory, disk, registry, version, call, harm>>

Ids == Docs \X Chunks

OfDoc(ids, d) == ids \cap ({d} \X Chunks)

IdsOf(d, content) ==
    IF content = NoContent THEN {} ELSE {d} \X ChunksOf[content]

Stored(index) == IF index = NoIndex THEN {} ELSE index

Vectors == IF askew THEN Askew ELSE faiss

Steps == {"down", "idle", "faiss", "vectors_save", "docstore_save", "bm25", "row",
          "delete_chunks", "insert_chunks", "bump"}

\* content is NoContent in delete_document.
Call == [pc: Steps, doc: Docs, content: Contents \cup {NoContent},
         del: SUBSET Ids, add: SUBSET Ids]

Ended(d) == [pc |-> "idle", doc |-> d, content |-> NoContent, del |-> {}, add |-> {}]

At(step) == call.pc = step

Goto(step) == call' = [call EXCEPT !.pc = step]

Init ==
    /\ faiss = NoIndex /\ bm25 = {} /\ askew = FALSE
    /\ vectorsDisk = NoIndex /\ docstoreDisk = NoIndex /\ bm25Disk = {}
    /\ row = [d \in Docs |-> NoContent]
    /\ chunks = {}
    /\ version = 0
    /\ \E d \in Docs : call = Ended(d)
    /\ harm = [d \in Docs |-> Clean]

\* What a call that is cut off may leave: the chunks of a text that Postgres has
\* not heard of, which a retry with that text finds again; or anything.
Spoil(d, content, rows) ==
    harm' = [harm EXCEPT ![d] =
        IF content # NoContent /\ rows[d] = NoContent /\ harm[d] \in {Clean, content}
        THEN content ELSE Spoilt]

\* The call raises.
FailWith(rows) ==
    call' = Ended(call.doc) /\ Spoil(call.doc, call.content, rows)

Fail == FailWith(row)

-----------------------------------------------------------------------------

Diff(d, content) ==
    call' = [pc |-> "faiss", doc |-> d, content |-> content,
             del |-> OfDoc(chunks, d) \ IdsOf(d, content),
             add |-> IdsOf(d, content) \ OfDoc(chunks, d)]

\* insert_or_update_document, up to the diff against the registry.
InsertOrUpdate(d, content) ==
    /\ At("idle") /\ version < MaxVersion
    /\ IF row[d] = content
       THEN call' = Ended(d) /\ UNCHANGED harm
       ELSE /\ Diff(d, content)
            /\ harm' = [harm EXCEPT ![d] = IF @ \in {Clean, content} THEN @ ELSE Spoilt]
    /\ UNCHANGED <<memory, disk, registry, version>>

\* delete_document: it raises at once for a document without chunks.
DeleteDocument(d) ==
    /\ At("idle") /\ version < MaxVersion
    /\ IF OfDoc(chunks, d) = {}
       THEN call' = Ended(d)
       ELSE Diff(d, NoContent)
    /\ UNCHANGED <<memory, disk, registry, version, harm>>

\* Mutant: the step that embeds nothing does not delete either.
FaissUpdate_OnlyAdded ==
    /\ At("faiss")
    /\ faiss' = IF call.add = {} THEN faiss ELSE (Stored(faiss) \ call.del) \cup call.add
    /\ Goto("vectors_save")
    /\ UNCHANGED <<askew, bm25, disk, registry, version, harm>>

\* FAISS.delete raises when it is given an id the store does not have.
DeleteRaises == faiss # NoIndex /\ ~(call.del \subseteq faiss)

\* Embedding what is new may fail, after the delete; ids the store has are skipped.
FaissUpdate ==
    /\ At("faiss")
    /\ \/ DeleteRaises /\ UNCHANGED faiss /\ Fail
       \/ /\ ~DeleteRaises /\ call.add # {}
          /\ faiss' = IF faiss = NoIndex THEN NoIndex ELSE faiss \ call.del
          /\ Fail
       \/ /\ ~DeleteRaises
          /\ faiss' = IF faiss = NoIndex /\ call.add = {} THEN NoIndex
                      ELSE (Stored(faiss) \ call.del) \cup call.add
          /\ Goto("vectors_save") /\ UNCHANGED harm
    /\ UNCHANGED <<askew, bm25, disk, registry, version>>

(* FaissIndex.save: save_local writes index.faiss, then index.pkl, each over the   *)
(* old one.  A write that fails may leave its file broken.                         *)

\* Mutant: the index is saved when there are no files yet.
VectorsSave_FirstOnly ==
    /\ At("vectors_save")
    /\ vectorsDisk' = IF vectorsDisk = NoIndex THEN faiss ELSE vectorsDisk
    /\ Goto(IF vectorsDisk = NoIndex THEN "docstore_save" ELSE "bm25")
    /\ UNCHANGED <<memory, docstoreDisk, bm25Disk, registry, version, harm>>

\* A store that was never made cannot be saved.
VectorsSave ==
    /\ At("vectors_save")
    /\ \/ faiss # NoIndex /\ vectorsDisk' = Vectors /\ Goto("docstore_save") /\ UNCHANGED harm
       \/ vectorsDisk' \in (IF faiss = NoIndex THEN {vectorsDisk} ELSE {vectorsDisk, Broken}) /\ Fail
    /\ UNCHANGED <<memory, docstoreDisk, bm25Disk, registry, version>>

\* Mutant: the mapping is not saved when nothing was added to it.
DocstoreSave_OnlyAdded ==
    /\ At("docstore_save")
    /\ docstoreDisk' = IF call.add = {} THEN docstoreDisk ELSE faiss
    /\ Goto("bm25")
    /\ UNCHANGED <<memory, vectorsDisk, bm25Disk, registry, version, harm>>

DocstoreSave ==
    /\ At("docstore_save")
    /\ \/ docstoreDisk' = faiss /\ Goto("bm25") /\ UNCHANGED harm
       \/ docstoreDisk' \in {docstoreDisk, Broken} /\ Fail
    /\ UNCHANGED <<memory, vectorsDisk, bm25Disk, registry, version>>

\* Bm25Index: the lists, and the pickle that is written over the old one.
Bm25Save ==
    /\ At("bm25")
    /\ bm25' = (bm25 \ call.del) \cup call.add
    /\ \/ bm25Disk' = bm25' /\ Goto("row") /\ UNCHANGED harm
       \/ bm25Disk' \in {bm25Disk, Broken} /\ Fail
    /\ UNCHANGED <<faiss, askew, vectorsDisk, docstoreDisk, registry, version>>

(* The transactions of the registry.  One that raises may have committed.   *)

\* Mutant: the record is written where its hash belongs.
WriteRow_Record ==
    /\ At("row")
    /\ row' = [row EXCEPT ![call.doc] = call]
    /\ Goto(IF call.content = NoContent THEN "bump" ELSE "delete_chunks")
    /\ UNCHANGED <<memory, disk, chunks, version, harm>>

WriteRow ==
    /\ At("row")
    /\ \/ /\ row' = [row EXCEPT ![call.doc] = call.content]
          \* a deleted row takes its chunks with it
          /\ chunks' = IF call.content = NoContent THEN chunks \ OfDoc(chunks, call.doc)
                       ELSE chunks
          /\ \/ /\ Goto(IF call.content = NoContent THEN "bump" ELSE "delete_chunks")
                /\ UNCHANGED harm
             \/ FailWith(row')
       \/ UNCHANGED registry /\ Fail
    /\ UNCHANGED <<memory, disk, version>>

DeleteChunks ==
    /\ At("delete_chunks")
    /\ UNCHANGED row
    /\ \/ chunks' = chunks \ call.del /\ Goto("insert_chunks") /\ UNCHANGED harm
       \/ call.del # {} /\ chunks' \in {chunks, chunks \ call.del} /\ Fail
    /\ UNCHANGED <<memory, disk, version>>

InsertChunks ==
    /\ At("insert_chunks")
    /\ UNCHANGED row
    /\ \/ chunks' = chunks \cup call.add /\ Goto("bump") /\ UNCHANGED harm
       \/ call.add # {} /\ chunks' \in {chunks, chunks \cup call.add} /\ Fail
    /\ UNCHANGED <<memory, disk, version>>

\* bump_index_version; the INCR of a call to Redis that raises may have been done.
Bump ==
    /\ At("bump")
    /\ \/ /\ version' = version + 1
          /\ call' = Ended(call.doc)
          /\ harm' = [harm EXCEPT ![call.doc] = IF @ = Spoilt THEN Spoilt ELSE Clean]
       \/ version' \in {version, version + 1} /\ Fail
    /\ UNCHANGED <<memory, disk, registry>>

-----------------------------------------------------------------------------

\* What the end of the process may leave of the file that a step was writing.
Cut(step, file) == IF At(step) /\ faiss # NoIndex THEN {file, Broken} ELSE {file}

\* The process ends, in the middle of a file perhaps.  build_index ends with every
\* call that raises.
Crash ==
    /\ ~At("down")
    /\ faiss' = NoIndex /\ bm25' = {} /\ askew' = FALSE
    /\ vectorsDisk' \in Cut("vectors_save", vectorsDisk)
    /\ docstoreDisk' \in Cut("docstore_save", docstoreDisk)
    /\ bm25Disk' \in Cut("bm25", bm25Disk)
    /\ IF At("idle") THEN UNCHANGED harm ELSE Spoil(call.doc, call.content, row)
    /\ call' = [Ended(call.doc) EXCEPT !.pc = "down"]
    /\ UNCHANGED <<registry, version>>

\* A file that was cut short, or vectors without a mapping, are not survived.  The
\* files of two saves are loaded without a complaint, and then the vector of one chunk
\* is taken for that of another: no document is spared.
Start ==
    /\ At("down") /\ bm25Disk # Broken
    /\ \/ vectorsDisk = NoIndex /\ faiss' = NoIndex /\ askew' = FALSE
       \/ /\ vectorsDisk \notin {NoIndex, Broken} /\ docstoreDisk \notin {NoIndex, Broken}
          /\ faiss' = docstoreDisk /\ askew' = (vectorsDisk # docstoreDisk)
    /\ bm25' = bm25Disk
    /\ harm' = IF askew' THEN [d \in Docs |-> Spoilt] ELSE harm
    /\ Goto("idle")
    /\ UNCHANGED <<disk, registry, version>>

Next ==
    \/ \E d \in Docs : (\E content \in Contents : InsertOrUpdate(d, content)) \/ DeleteDocument(d)
    \/ FaissUpdate \/ VectorsSave \/ DocstoreSave \/ Bm25Save
    \/ WriteRow \/ DeleteChunks \/ InsertChunks \/ Bump
    \/ Crash \/ Start

Spec == Init /\ [][Next]_vars

-----------------------------------------------------------------------------

TypeOK ==
    /\ faiss = NoIndex \/ faiss \subseteq Ids
    /\ askew \in BOOLEAN
    /\ vectorsDisk \in {NoIndex, Broken, Askew} \/ vectorsDisk \subseteq Ids
    /\ docstoreDisk \in {NoIndex, Broken} \/ docstoreDisk \subseteq Ids
    /\ bm25 \subseteq Ids
    /\ bm25Disk = Broken \/ bm25Disk \subseteq Ids
    /\ row \in [Docs -> Contents \cup {NoContent}]
    /\ chunks \subseteq Ids
    /\ version \in 0..MaxVersion
    /\ call \in Call
    /\ harm \in [Docs -> Contents \cup {Clean, Spoilt}]

\* No call is in the middle of d.
Settled(d) == At("down") \/ At("idle") \/ call.doc # d

\* The document is in the registry with all its chunks, and the indexes have the
\* same chunks, in memory and in every file that can be read.
Agrees(d) ==
    LET ids == IdsOf(d, row[d])
    IN  /\ OfDoc(chunks, d) = ids
        /\ vectorsDisk # Askew
        /\ vectorsDisk # Broken => OfDoc(Stored(vectorsDisk), d) = ids
        /\ docstoreDisk # Broken => OfDoc(Stored(docstoreDisk), d) = ids
        /\ bm25Disk # Broken => OfDoc(bm25Disk, d) = ids
        /\ ~At("down") => ~askew /\ OfDoc(Stored(faiss), d) = ids /\ OfDoc(bm25, d) = ids

\* Between the calls the registry and the indexes agree on a document that no
\* failed call has touched, or only first insertions that failed before Postgres
\* heard of it and were repeated with the same text until one returned.  Failed calls
\* for other documents, and the unsaved changes they leave in memory, do no harm to
\* it; the two files of FAISS do, if the process ends before they are of one save.
StoresAgree == \A d \in Docs : harm[d] = Clean /\ Settled(d) => Agrees(d)

\* What the diff against the registry tells FAISS to delete is there to be
\* deleted: with such a document, FAISS.delete never raises.
DiffIsApplicable ==
    At("faiss") /\ harm[call.doc] # Spoilt => ~DeleteRaises

\* The version never moves before the change it announces is complete: all three
\* files are as the indexes are in memory, and the registry has the document.  And a
\* call that has begun to write does not end well before the version has moved: what
\* it saved is announced, or its document is not Clean.
BumpIsLast ==
    [][/\ version' # version =>
             /\ vectorsDisk = Vectors /\ docstoreDisk = faiss /\ bm25Disk = bm25
             /\ row[call.doc] = call.content
             /\ OfDoc(chunks, call.doc) = IdsOf(call.doc, call.content)
       /\ ~At("idle") /\ ~At("down") /\ At("idle")' /\ harm'[call.doc] = Clean =>
             version' # version]_vars
=============================================================================
