-------------------------- MODULE IndexCacheProofs --------------------------
(***************************************************************************)
(* What IndexCache promises for every number of workers and saves.         *)
(***************************************************************************)
EXTENDS IndexCache, TLAPS

-----------------------------------------------------------------------------
(* Types.  Every bump announces a save of its own, so announced has room.    *)

Bumps == version + lost

WriterOK ==
    /\ writer \in Writer
    /\ version \in Nat /\ lost \in Nat
    /\ Bumps <= writer.save
    /\ writer.pc # "idle" => Bumps < writer.save

WellFormed ==
    /\ disk \in [Files -> Saves \cup {Broken}]
    /\ WriterOK
    /\ announced \in [Saves -> Saves]
    /\ watcher \in [Workers -> Watcher]
    /\ cache \in [Workers -> Cache]
    /\ seen \in [Workers -> Saves \cup {None}]
    /\ query \in [Workers -> Saves \cup {None}]
    /\ reloaded \subseteq Workers

LEMMA SaveNumbers ==
    /\ 0 \in Saves /\ \A n \in Saves : n \in Nat /\ n <= MaxSaves
    /\ MaxSaves \in Nat /\ \A n \in Nat : n <= MaxSaves => n \in Saves
    /\ Broken \notin Saves /\ None \notin Saves
  BY MaxSavesAssumption, MarksAssumption DEF Saves

LEMMA Constants ==
    /\ Down \in Watcher /\ [Down EXCEPT !.pc = "sleep"] \in Watcher /\ Empty \in Cache
    /\ [Down EXCEPT !.pc = "sleep"].pc = "sleep" /\ [Down EXCEPT !.pc = "sleep"].target = 0
    /\ [Down EXCEPT !.pc = "sleep"].boots = FALSE
  <1>1. Nothing \in [Files -> Saves]
    BY SaveNumbers DEF Nothing
  <1> QED
    BY <1>1, SaveNumbers DEF Down, Watcher, Empty, Cache, Files

LEMMA AfterFile ==
  ASSUME NEW f \in Files
  PROVE  /\ f # "corpus" => After(f) \in Files
         /\ f = "vectors" => After(f) = "docstore"
         /\ f = "docstore" => After(f) = "corpus"
  BY DEF Files, After

LEMMA InitWellFormed == Init => WellFormed
  BY SaveNumbers, Constants DEF Init, WellFormed, WriterOK, Bumps, Writer, Files

\* The steps of the ingestion process.
LEMMA WriterWellFormed ==
  ASSUME WellFormed,
         BeginSave \/ Bump \/ Abandon \/ LoseVersion \/ \E f \in Files : Open(f) \/ Close(f)
  PROVE  WellFormed'
  <1> USE DEF WellFormed, serving
  <1>0. writer \in Writer /\ writer.save \in Nat /\ version \in Nat /\ lost \in Nat
    BY SaveNumbers DEF WriterOK, Writer
  <1>1. CASE BeginSave
    <2>1. writer.save + 1 \in Saves /\ Bumps < writer.save + 1
      BY <1>0, <1>1, SaveNumbers DEF BeginSave, WriterOK, Bumps
    <2>2. WriterOK'
      BY <1>0, <1>1, <2>1 DEF BeginSave, WriterOK, Writer, Files, Bumps
    <2> QED
      BY <1>1, <2>2 DEF BeginSave
  <1>2. CASE Bump
    <2>1. version + lost + 1 <= writer.save /\ writer.save \in Saves
      BY <1>0, <1>2 DEF Bump, WriterOK, Bumps, Writer
    <2>2. version + lost + 1 \in Saves
      BY <1>0, <2>1, SaveNumbers
    <2>3. announced' \in [Saves -> Saves]
      BY <1>2, <2>1, <2>2 DEF Bump
    <2>4. WriterOK'
      BY <1>0, <1>2, <2>1 DEF Bump, WriterOK, Writer, Bumps
    <2> QED
      BY <1>2, <2>3, <2>4 DEF Bump
  <1>3. CASE Abandon
    <2>1. WriterOK'
      BY <1>0, <1>3 DEF Abandon, WriterOK, Writer, Bumps
    <2> QED
      BY <1>3, <2>1 DEF Abandon
  <1>4. CASE LoseVersion
    <2>1. PICK v \in 0..(version - 1) : version' = v /\ lost' = lost + version - v
      BY <1>4 DEF LoseVersion
    <2>2. version' \in Nat /\ lost' \in Nat /\ Bumps' = Bumps
      BY <1>0, <2>1 DEF Bumps
    <2> QED
      BY <1>4, <2>2 DEF LoseVersion, WriterOK
  <1>5. ASSUME NEW f \in Files, Open(f)
        PROVE  WellFormed'
    <2>1. WriterOK'
      BY <1>0, <1>5 DEF Open, WriterOK, Writer, Bumps
    <2> QED
      BY <1>5, <2>1 DEF Open
  <1>6. ASSUME NEW f \in Files, Close(f)
        PROVE  WellFormed'
    <2>1. writer'.pc \in Files \cup {"bump"} /\ writer' \in Writer /\ writer'.save = writer.save
      BY <1>0, <1>6, AfterFile DEF Close, Writer
    <2>2. f # "idle"
      BY DEF Files
    <2>3. WriterOK'
      BY <1>0, <1>6, <2>1, <2>2 DEF Close, WriterOK, Bumps
    <2>4. writer.save \in Saves
      BY <1>0 DEF Writer
    <2> QED
      BY <1>6, <2>3, <2>4 DEF Close
  <1> QED
    BY <1>1, <1>2, <1>3, <1>4, <1>5, <1>6

\* The steps of a worker.
LEMMA WorkerWellFormed ==
  ASSUME WellFormed, NEW w \in Workers,
         Boot(w) \/ Watch(w) \/ BuildOkapi(w) \/ StoreOkapi(w) \/ Stop(w)
  PROVE  WellFormed'
  <1> USE DEF WellFormed, ingestion
  <1>a. ASSUME UNCHANGED ingestion
        PROVE  WriterOK' /\ disk' = disk /\ announced' = announced
    BY <1>a DEF WriterOK, Bumps
  <1>0. watcher[w] \in Watcher /\ cache[w] \in Cache
    OBVIOUS
  <1>1. CASE Boot(w)
    BY <1>0, <1>1, <1>a DEF Boot, Watcher, Files
  <1>2. CASE Poll(w)
    <2>1. version \in Saves
      BY SaveNumbers DEF WriterOK, Bumps, Writer
    <2>2. seen' \in [Workers -> Saves \cup {None}]
      BY <1>2, <2>1 DEF Poll
    <2>3. watcher' \in [Workers -> Watcher]
      <3>1. [watcher[w] EXCEPT !.pc = "vectors", !.target = version] \in Watcher
        BY <1>0, <2>1 DEF Watcher, Files
      <3>2. \/ watcher' = watcher
            \/ watcher' = [watcher EXCEPT
                              ![w] = [watcher[w] EXCEPT !.pc = "vectors", !.target = version]]
        BY <1>2 DEF Poll
      <3> QED
        BY <3>1, <3>2
    <2> QED
      BY <1>2, <1>a, <2>2, <2>3 DEF Poll
  <1>3. ASSUME NEW f \in Files, Read(w, f)
        PROVE  WellFormed'
    <2>1. disk[f] \in Saves
      BY <1>3 DEF Read
    <2>2. (IF f = "corpus" THEN "swap" ELSE After(f)) \in Files \cup {"swap"}
      BY AfterFile
    <2> QED
      BY <1>0, <1>3, <1>a, <2>1, <2>2 DEF Read, Watcher
  <1>4. ASSUME NEW f \in Files, ReadRaises(w, f)
        PROVE  WellFormed'
    BY <1>4, <1>a, Constants DEF ReadRaises, Raise
  <1>5. CASE SwapFaiss(w) \/ SwapBm25(w) \/ SwapOkapi(w)
    <2>1. watcher[w].read \in [Files -> Saves] /\ watcher[w].read["corpus"] \in Saves
      BY <1>0 DEF Watcher, Files
    <2>2. cache' \in [Workers -> Cache]
      <3>1. CASE SwapFaiss(w)
        BY <1>0, <2>1, <3>1 DEF SwapFaiss, Cache, Files
      <3>2. CASE SwapBm25(w)
        BY <1>0, <2>1, <3>2 DEF SwapBm25, Cache, Files
      <3>3. CASE SwapOkapi(w)
        BY <1>0, <2>1, <3>3 DEF SwapOkapi, Cache
      <3> QED
        BY <1>5, <3>1, <3>2, <3>3
    <2>3. PICK step \in {"swap_bm25", "swap_okapi", "sessions"} : Goto(w, step)
      BY <1>5 DEF SwapFaiss, SwapBm25, SwapOkapi
    <2>4. [watcher[w] EXCEPT !.pc = step] \in Watcher
      BY <1>0 DEF Watcher
    <2>5. watcher' \in [Workers -> Watcher]
      BY <2>3, <2>4 DEF Goto
    <2> QED
      BY <1>5, <1>a, <2>2, <2>5 DEF SwapFaiss, SwapBm25, SwapOkapi
  <1>6. CASE ReloadSessions(w)
    <2>1. cache[w].files["corpus"] \in Saves /\ watcher[w].target \in Saves
      BY <1>0 DEF Cache, Watcher, Files
    <2>2. cache' \in [Workers -> Cache]
      BY <1>0, <1>6, <2>1 DEF ReloadSessions, Cache
    <2> QED
      BY <1>6, <1>a, <2>1, <2>2, Constants DEF ReloadSessions
  <1>7. CASE ReloadSessionsRaises(w)
    BY <1>7, <1>a, Constants DEF ReloadSessionsRaises, Raise
  <1>8. CASE BuildOkapi(w)
    <2>1. cache[w].files["corpus"] \in Saves
      BY <1>0 DEF Cache, Files
    <2> QED
      BY <1>8, <1>a, <2>1 DEF BuildOkapi
  <1>9. CASE StoreOkapi(w)
    BY <1>0, <1>9, <1>a DEF StoreOkapi, Cache
  <1>10. CASE Stop(w)
    BY <1>10, <1>a, Constants DEF Stop
  <1> QED
    BY <1>1, <1>2, <1>3, <1>4, <1>5, <1>6, <1>7, <1>8, <1>9, <1>10 DEF Watch

LEMMA NextWellFormed == WellFormed /\ [Next]_vars => WellFormed'
  <1>1. WellFormed /\ UNCHANGED vars => WellFormed'
    BY DEF vars, WellFormed, WriterOK, Bumps
  <1> QED
    BY <1>1, WriterWellFormed, WorkerWellFormed DEF Next

\* Files, counter, watcher and caches of the workers are of their kinds.
THEOREM WellFormedInvariant == Spec => []WellFormed
  BY InitWellFormed, NextWellFormed, PTL DEF Spec

\* TypeOK: the type invariant.
THEOREM TypeCorrect == Spec => []TypeOK
  <1>1. ASSUME WellFormed
        PROVE  TypeOK
    <2>1. version \in Saves /\ lost \in Saves
      BY <1>1, SaveNumbers DEF WellFormed, WriterOK, Bumps, Writer
    <2>2. \A w \in Workers : cache[w] \in Cache
      BY <1>1 DEF WellFormed
    <2>3. \A w \in Workers :
             /\ cache[w].files \in [Files -> Saves] /\ cache[w].lookup \in Saves
             /\ cache[w].okapi = None \/ cache[w].okapi \in Saves
      BY <2>2 DEF Cache
    <2> QED
      BY <1>1, <2>1, <2>3 DEF WellFormed, TypeOK, WriterOK
  <1> QED
    BY <1>1, WellFormedInvariant, PTL

-----------------------------------------------------------------------------
(* What a bump has announced stays in the files, or in files newer still.    *)

\* The files that the save under way has written.
Closed(f) ==
    \/ writer.pc = "bump"
    \/ writer.pc = "docstore" /\ f = "vectors"
    \/ writer.pc = "corpus" /\ f # "corpus"

SaveIsWhole == \A f \in Files : Closed(f) => disk[f] = writer.save

AnnouncedGrows ==
    /\ announced[0] = 0
    /\ \A n \in 0..Bumps : announced[n] <= writer.save
    /\ \A m, n \in 0..Bumps : m <= n => announced[m] <= announced[n]

DiskIsNew ==
    \A f \in Files : disk[f] # Broken =>
        disk[f] <= writer.save /\ \A n \in 0..Bumps : announced[n] <= disk[f]

DiskInv == SaveIsWhole /\ AnnouncedGrows /\ DiskIsNew

\* No step takes an announcement back.
BumpsKept == Bumps' >= Bumps /\ \A n \in 0..Bumps : announced'[n] = announced[n]

LEMMA BumpTypes ==
  ASSUME WellFormed
  PROVE  /\ Bumps \in Nat /\ writer.save \in Saves /\ writer.save \in Nat
         /\ Bumps <= writer.save
         /\ \A n \in 0..Bumps : n \in Saves /\ announced[n] \in Nat
         /\ \A f \in Files : disk[f] # Broken => disk[f] \in Nat
  <1>1. Bumps \in Nat /\ writer.save \in Saves /\ Bumps <= writer.save
    BY DEF WellFormed, WriterOK, Bumps, Writer
  <1>2. ASSUME NEW n \in 0..Bumps
        PROVE  n \in Saves /\ announced[n] \in Nat
    <2>1. n \in Saves
      BY <1>1, SaveNumbers
    <2> QED
      BY <2>1, SaveNumbers DEF WellFormed
  <1> QED
    BY <1>1, <1>2, SaveNumbers DEF WellFormed

LEMMA WriterDiskInv ==
  ASSUME WellFormed, DiskInv,
         BeginSave \/ Bump \/ Abandon \/ LoseVersion \/ \E f \in Files : Open(f) \/ Close(f)
  PROVE  DiskInv' /\ BumpsKept
  <1> USE DEF DiskInv, SaveIsWhole, AnnouncedGrows, DiskIsNew, BumpsKept, serving
  <1>0. /\ Bumps \in Nat /\ writer.save \in Saves /\ writer.save \in Nat
        /\ \A n \in 0..Bumps : n \in Saves /\ announced[n] \in Nat
        /\ \A f \in Files : disk[f] # Broken => disk[f] \in Nat
        /\ version \in Nat /\ lost \in Nat /\ disk \in [Files -> Saves \cup {Broken}]
        /\ writer \in Writer /\ announced \in [Saves -> Saves]
    BY BumpTypes DEF WellFormed, WriterOK
  <1>1. CASE BeginSave
    <2>1. writer'.save = writer.save + 1 /\ \A f \in Files : ~Closed(f)'
      BY <1>1 DEF BeginSave, Closed
    <2>2. Bumps' = Bumps /\ disk' = disk /\ announced' = announced
      BY <1>1 DEF BeginSave, Bumps
    <2>3. \A n \in 0..Bumps : announced[n] <= writer'.save
      BY <1>0, <2>1
    <2>4. \A f \in Files : disk[f] # Broken => disk[f] <= writer'.save
      BY <1>0, <2>1
    <2> QED
      BY <1>0, <2>1, <2>2, <2>3, <2>4
  <1>2. CASE Bump
    <2> DEFINE b == version + lost + 1
    <2>1. b \in Nat /\ b = Bumps + 1 /\ Bumps' = b /\ b \in Saves
      <3>1. b \in Nat /\ b = Bumps + 1 /\ Bumps' = b /\ b <= writer.save
        BY <1>0, <1>2 DEF Bump, Bumps, WellFormed, WriterOK
      <3> QED
        BY <1>0, <3>1, SaveNumbers
    <2>2. /\ announced'[b] = writer.save
          /\ \A n \in 0..Bumps : announced'[n] = announced[n]
          /\ \A n \in 0..Bumps' : n \in 0..Bumps \/ n = b
      BY <1>0, <1>2, <2>1 DEF Bump
    <2>3. writer'.save = writer.save /\ writer'.pc = "idle" /\ disk' = disk
      BY <1>0, <1>2 DEF Bump, Writer
    <2>4. \A f \in Files : disk[f] = writer.save
      BY <1>2 DEF Bump, Closed
    <2>5. SaveIsWhole'
      BY <2>3 DEF Closed
    <2>6. AnnouncedGrows'
      <3>1. announced'[0] = 0
        BY <1>0, <2>2
      <3>2. \A n \in 0..Bumps' : announced'[n] <= writer'.save
        BY <1>0, <2>2, <2>3
      <3>3. ASSUME NEW m \in 0..Bumps', NEW n \in 0..Bumps', m <= n
            PROVE  announced'[m] <= announced'[n]
        <4>1. CASE n = b
          BY <1>0, <2>2, <2>3, <3>2, <4>1
        <4>2. CASE n # b
          <5>1. n \in 0..Bumps /\ m \in 0..Bumps
            BY <1>0, <2>1, <2>2, <3>3, <4>2
          <5> QED
            BY <2>2, <3>3, <5>1
        <4> QED
          BY <4>1, <4>2
      <3> QED
        BY <3>1, <3>2, <3>3
    <2>7. DiskIsNew'
      BY <1>0, <2>3, <2>4, <2>6
    <2> QED
      BY <1>0, <2>1, <2>2, <2>5, <2>6, <2>7
  <1>3. CASE Abandon
    <2>1. writer'.save = writer.save /\ \A f \in Files : ~Closed(f)'
      BY <1>0, <1>3 DEF Abandon, Writer, Closed
    <2>2. Bumps' = Bumps /\ disk' = disk /\ announced' = announced
      BY <1>3 DEF Abandon, Bumps
    <2> QED
      BY <1>0, <2>1, <2>2
  <1>4. CASE LoseVersion
    <2>1. Bumps' = Bumps
      BY <1>0, <1>4 DEF LoseVersion, Bumps
    <2>2. writer' = writer /\ disk' = disk /\ announced' = announced
      BY <1>4 DEF LoseVersion
    <2> QED
      BY <1>0, <2>1, <2>2 DEF Closed
  <1>5. ASSUME NEW f \in Files, Open(f)
        PROVE  DiskInv' /\ BumpsKept
    <2>1. /\ writer'.save = writer.save /\ writer'.pc = writer.pc /\ writer.pc = f
          /\ Bumps' = Bumps /\ announced' = announced
          /\ disk' = [disk EXCEPT ![f] = Broken]
      BY <1>0, <1>5 DEF Open, Writer, Bumps
    <2>2. ~Closed(f)
      BY <2>1 DEF Closed, Files
    <2>3. SaveIsWhole'
      BY <1>0, <2>1, <2>2 DEF Closed
    <2>4. DiskIsNew' /\ AnnouncedGrows'
      BY <1>0, <2>1
    <2> QED
      BY <1>0, <2>1, <2>3, <2>4
  <1>6. ASSUME NEW f \in Files, Close(f)
        PROVE  DiskInv' /\ BumpsKept
    <2>1. /\ writer'.save = writer.save /\ writer.pc = f
          /\ writer'.pc = IF f = "corpus" THEN "bump" ELSE After(f)
          /\ Bumps' = Bumps /\ announced' = announced
          /\ disk' = [disk EXCEPT ![f] = writer.save]
      BY <1>0, <1>6 DEF Close, Writer, Bumps
    <2>2. \A g \in Files : Closed(g)' => g = f \/ Closed(g)
      BY <2>1, AfterFile DEF Closed, Files
    <2>3. SaveIsWhole'
      BY <1>0, <2>1, <2>2
    <2>4. DiskIsNew' /\ AnnouncedGrows'
      BY <1>0, <2>1
    <2> QED
      BY <1>0, <2>1, <2>3, <2>4
  <1> QED
    BY <1>1, <1>2, <1>3, <1>4, <1>5, <1>6

LEMMA OthersDiskInv ==
  ASSUME WellFormed, DiskInv, UNCHANGED ingestion
  PROVE  DiskInv' /\ BumpsKept
  <1>1. Bumps' = Bumps /\ Bumps \in Nat
    BY BumpTypes DEF ingestion, Bumps
  <1> QED
    BY <1>1 DEF ingestion, DiskInv, SaveIsWhole, AnnouncedGrows, DiskIsNew, Closed, BumpsKept

-----------------------------------------------------------------------------
(* A reload reads what its target had announced, or something newer, though  *)
(* the files change under it; and it only begins for a version that was not  *)
(* seen.  SeenIsServed and LookupFollows take both.                          *)

Swapping == {"swap", "swap_bm25", "swap_okapi"}

HasRead(w, f) ==
    \/ watcher[w].pc \in Swapping
    \/ watcher[w].pc = "docstore" /\ f = "vectors"
    \/ watcher[w].pc = "corpus" /\ f # "corpus"

HasSwapped(w, f) ==
    \/ watcher[w].pc \in {"swap_okapi", "sessions"}
    \/ watcher[w].pc = "swap_bm25" /\ f # "corpus"

Reloads(w) == watcher[w].pc \in Files \cup Swapping \cup {"sessions"}

TargetIsRead(w) ==
    /\ watcher[w].target \in 0..Bumps
    /\ \A f \in Files :
          /\ HasRead(w, f) => announced[watcher[w].target] <= watcher[w].read[f]
          /\ HasSwapped(w, f) => announced[watcher[w].target] <= cache[w].files[f]

SeenIsPast(w) ==
    /\ seen[w] # None => seen[w] \in 0..Bumps
    /\ Reloads(w) /\ ~watcher[w].boots => seen[w] # None /\ seen[w] < watcher[w].target
    /\ watcher[w].boots => seen[w] = None /\ Reloads(w)
    /\ watcher[w].pc = "down" => seen[w] = None
    /\ w \in reloaded => seen[w] # None

Served(w) ==
    w \in reloaded =>
        /\ \A f \in Files : announced[seen[w]] <= cache[w].files[f]
        /\ announced[seen[w]] <= cache[w].lookup

Followed(w) ==
    cache[w].lookup # cache[w].files["corpus"] =>
        \/ watcher[w].pc \in {"swap_okapi", "sessions"}
        \/ seen[w] # None /\ seen[w] < Bumps

WorkerInv(w) == TargetIsRead(w) /\ SeenIsPast(w) /\ Served(w) /\ Followed(w)

CacheInv == DiskInv /\ \A w \in Workers : WorkerInv(w)

LEMMA WorkerTypes ==
  ASSUME WellFormed, NEW w \in Workers
  PROVE  /\ watcher[w] \in Watcher /\ cache[w] \in Cache /\ cache[w].lookup \in Nat
         /\ \A f \in Files : watcher[w].read[f] \in Nat /\ cache[w].files[f] \in Nat
         /\ seen[w] # None => seen[w] \in Nat
  BY SaveNumbers DEF WellFormed, Watcher, Cache

\* A worker that does nothing, while the ingestion process may.
LEMMA RestingWorker ==
  ASSUME WellFormed, DiskInv, BumpsKept, NEW w \in Workers, WorkerInv(w),
         watcher'[w] = watcher[w], cache'[w] = cache[w], seen'[w] = seen[w],
         w \in reloaded' <=> w \in reloaded, Bumps' \in Nat
  PROVE  WorkerInv(w)'
  <1>0. Bumps \in Nat /\ Bumps' >= Bumps /\ \A n \in 0..Bumps : n \in 0..Bumps'
    BY BumpTypes DEF BumpsKept
  <1>1. TargetIsRead(w)'
    BY <1>0 DEF WorkerInv, TargetIsRead, HasRead, HasSwapped, Swapping, BumpsKept
  <1>2. SeenIsPast(w)'
    BY <1>0 DEF WorkerInv, SeenIsPast, Reloads
  <1>3. Served(w)'
    BY <1>0 DEF WorkerInv, Served, SeenIsPast, BumpsKept
  <1>4. Followed(w)'
    BY <1>0, WorkerTypes DEF WorkerInv, Followed
  <1> QED
    BY <1>1, <1>2, <1>3, <1>4 DEF WorkerInv

\* One worker's step that leaves the ingestion process alone.
LEMMA OneWorker ==
  ASSUME WellFormed, WellFormed', CacheInv, UNCHANGED ingestion, NEW w \in Workers,
         \A v \in Workers \ {w} :
             /\ watcher'[v] = watcher[v] /\ cache'[v] = cache[v] /\ seen'[v] = seen[v]
             /\ v \in reloaded' <=> v \in reloaded,
         WorkerInv(w)'
  PROVE  CacheInv'
  <1>1. DiskInv' /\ BumpsKept
    BY OthersDiskInv DEF CacheInv
  <1>2. Bumps' \in Nat
    BY BumpTypes DEF ingestion, Bumps
  <1>3. \A v \in Workers \ {w} : WorkerInv(v)'
    BY <1>1, <1>2, RestingWorker DEF CacheInv
  <1> QED
    BY <1>1, <1>3 DEF CacheInv

\* Giving a reload up keeps what is served.
LEMMA RaiseInv ==
  ASSUME WellFormed, CacheInv, UNCHANGED ingestion, NEW w \in Workers, Raise(w),
         UNCHANGED <<seen, reloaded>>, Reloads(w),
         \/ cache'[w] = cache[w] /\ watcher[w].pc \in Files
         \/ cache'[w] = cache[w] /\ ~watcher[w].boots
         \/ cache'[w] = Empty /\ watcher[w].boots
  PROVE  WorkerInv(w)'
  <1> USE DEF WorkerInv
  <1>0. /\ WorkerInv(w) /\ Bumps \in Nat /\ Bumps' = Bumps /\ announced' = announced
        /\ watcher[w] \in Watcher
    BY BumpTypes, WorkerTypes DEF CacheInv, ingestion, Bumps
  <1>1. watcher'[w] = IF watcher[w].boots THEN Down ELSE [Down EXCEPT !.pc = "sleep"]
    BY DEF Raise, WellFormed
  <1>2. /\ watcher'[w].pc \in {"down", "sleep"} /\ watcher'[w].target = 0
        /\ ~watcher'[w].boots /\ (watcher'[w].pc = "down" => watcher[w].boots)
    BY <1>1 DEF Down
  <1>3. TargetIsRead(w)'
    BY <1>0, <1>2 DEF TargetIsRead, HasRead, HasSwapped, Swapping
  <1>4. SeenIsPast(w)'
    BY <1>0, <1>2 DEF SeenIsPast, Reloads, Swapping, Files
  <1>5. Served(w)'
    BY <1>0 DEF Served, SeenIsPast
  <1>6. Followed(w)'
    <2>1. CASE cache'[w] = Empty
      BY <2>1 DEF Followed, Empty, Nothing, Files
    <2>2. CASE cache'[w] = cache[w] /\ watcher[w].pc \in Files
      BY <1>0, <2>2 DEF Followed, Files
    <2>3. CASE cache'[w] = cache[w] /\ ~watcher[w].boots
      <3>1. seen[w] # None /\ seen[w] < watcher[w].target /\ watcher[w].target \in 0..Bumps
        BY <1>0, <2>3 DEF SeenIsPast, TargetIsRead
      <3>2. seen[w] < Bumps
        BY <1>0, <3>1, WorkerTypes
      <3> QED
        BY <1>0, <3>1, <3>2 DEF Followed
    <2> QED
      BY <2>1, <2>2, <2>3
  <1> QED
    BY <1>3, <1>4, <1>5, <1>6

LEMMA PollInv ==
  ASSUME WellFormed, CacheInv, NEW w \in Workers, Poll(w)
  PROVE  WorkerInv(w)'
  <1> USE DEF WorkerInv
  <1>0. /\ WorkerInv(w) /\ Bumps \in Nat /\ Bumps' = Bumps /\ announced' = announced
        /\ watcher[w] \in Watcher /\ watcher[w].pc = "sleep"
        /\ cache' = cache /\ reloaded' = reloaded
    BY BumpTypes, WorkerTypes DEF CacheInv, Poll, ingestion, Bumps
  <1>1. version \in 0..Bumps
    BY DEF WellFormed, WriterOK, Bumps
  <1>2. ~watcher[w].boots
    BY <1>0 DEF SeenIsPast, Reloads, Swapping, Files
  <1>3. CASE seen[w] = None
    <2>1. watcher'[w] = watcher[w] /\ seen'[w] = version
      BY <1>3 DEF Poll, WellFormed
    <2>2. w \notin reloaded /\ cache[w].lookup = cache[w].files["corpus"]
      BY <1>0, <1>3 DEF SeenIsPast, Followed
    <2>3. SeenIsPast(w)'
      BY <1>0, <1>1, <1>2, <2>1, <2>2 DEF SeenIsPast, Reloads, Swapping, Files
    <2> QED
      BY <1>0, <2>1, <2>2, <2>3 DEF TargetIsRead, HasRead, HasSwapped, Swapping, Served, Followed
  <1>4. CASE seen[w] # None
    <2>1. /\ seen' = seen /\ version > seen[w]
          /\ watcher'[w] = [watcher[w] EXCEPT !.pc = "vectors", !.target = version]
      BY <1>4 DEF Poll, WellFormed
    <2>2. watcher'[w].pc = "vectors" /\ watcher'[w].target = version /\ ~watcher'[w].boots
      BY <1>0, <1>2, <2>1 DEF Watcher
    <2>3. TargetIsRead(w)'
      BY <1>0, <1>1, <2>2 DEF TargetIsRead, HasRead, HasSwapped, Swapping
    <2>4. SeenIsPast(w)'
      BY <1>0, <1>1, <1>4, <2>1, <2>2, WorkerTypes DEF SeenIsPast, Reloads, Swapping, Files
    <2>5. Served(w)' /\ Followed(w)'
      BY <1>0, <2>1, <2>2 DEF Served, Followed
    <2> QED
      BY <2>3, <2>4, <2>5
  <1> QED
    BY <1>3, <1>4

LEMMA ReadInv ==
  ASSUME WellFormed, CacheInv, NEW w \in Workers, NEW f \in Files, Read(w, f)
  PROVE  WorkerInv(w)'
  <1> USE DEF WorkerInv
  <1>0. /\ WorkerInv(w) /\ Bumps \in Nat /\ Bumps' = Bumps /\ announced' = announced
        /\ watcher[w] \in Watcher /\ watcher[w].pc = f
        /\ cache' = cache /\ reloaded' = reloaded /\ seen' = seen
    BY BumpTypes, WorkerTypes DEF CacheInv, Read, ingestion, Bumps
  <1>1. watcher'[w] = [watcher[w] EXCEPT !.read[f] = disk[f],
                                         !.pc = IF f = "corpus" THEN "swap" ELSE After(f)]
    BY DEF Read, WellFormed
  <1>2. /\ watcher'[w].pc = IF f = "corpus" THEN "swap" ELSE After(f)
        /\ watcher'[w].target = watcher[w].target /\ watcher'[w].boots = watcher[w].boots
        /\ watcher'[w].read = [watcher[w].read EXCEPT ![f] = disk[f]]
    BY <1>0, <1>1 DEF Watcher
  <1>3. /\ Reloads(w) /\ Reloads(w)' /\ watcher[w].pc \in Files
        /\ watcher'[w].pc \in Files \cup {"swap"}
    BY <1>0, <1>2, AfterFile DEF Reloads, Swapping
  <1>4. disk[f] # Broken /\ announced[watcher[w].target] <= disk[f]
    BY <1>0 DEF Read, CacheInv, DiskInv, DiskIsNew, TargetIsRead
  <1>5. \A g \in Files : HasRead(w, g)' => g = f \/ HasRead(w, g)
    BY <1>0, <1>2, AfterFile DEF HasRead, Swapping, Files
  <1>6. /\ watcher'[w].read[f] = disk[f]
        /\ \A g \in Files \ {f} : watcher'[w].read[g] = watcher[w].read[g]
    BY <1>0, <1>2 DEF Watcher
  <1>7. TargetIsRead(w)'
    BY <1>0, <1>2, <1>3, <1>4, <1>5, <1>6 DEF TargetIsRead, HasSwapped, Files
  <1>8. SeenIsPast(w)'
    BY <1>0, <1>2, <1>3 DEF SeenIsPast, Files
  <1>9. Served(w)' /\ Followed(w)'
    BY <1>0, <1>2, <1>3 DEF Served, Followed, Files
  <1> QED
    BY <1>7, <1>8, <1>9

\* Each assignment of the swap puts what was read in the place of some files.
LEMMA SwapSteps ==
  ASSUME WellFormed, NEW w \in Workers, SwapFaiss(w) \/ SwapBm25(w) \/ SwapOkapi(w)
  PROVE  /\ watcher[w].pc \in Swapping
         /\ watcher'[w].pc \in {"swap_bm25", "swap_okapi", "sessions"}
         /\ watcher'[w].target = watcher[w].target /\ watcher'[w].boots = watcher[w].boots
         /\ watcher'[w].read = watcher[w].read
         /\ cache'[w].lookup = cache[w].lookup
         /\ \A f \in Files :
                \/ cache'[w].files[f] = cache[w].files[f] /\ (HasSwapped(w, f)' => HasSwapped(w, f))
                \/ cache'[w].files[f] = watcher[w].read[f]
         /\ \/ watcher'[w].pc \in {"swap_okapi", "sessions"}
            \/ /\ cache'[w].files["corpus"] = cache[w].files["corpus"]
               /\ watcher[w].pc = "swap"
  <1>0. watcher[w] \in Watcher /\ cache[w] \in Cache /\ cache[w].files \in [Files -> Saves]
    BY DEF WellFormed, Cache
  <1>1. ASSUME NEW step, Goto(w, step)
        PROVE  /\ watcher'[w].pc = step /\ watcher'[w].target = watcher[w].target
               /\ watcher'[w].boots = watcher[w].boots /\ watcher'[w].read = watcher[w].read
    BY <1>0, <1>1 DEF Goto, WellFormed, Watcher
  <1>2. CASE SwapFaiss(w)
    <2>1. watcher[w].pc = "swap" /\ Goto(w, "swap_bm25")
      BY <1>2 DEF SwapFaiss
    <2>2. cache'[w] = [cache[w] EXCEPT !.files["vectors"] = watcher[w].read["vectors"],
                                       !.files["docstore"] = watcher[w].read["docstore"]]
      BY <1>2 DEF SwapFaiss, WellFormed
    <2>3. /\ cache'[w].lookup = cache[w].lookup
          /\ cache'[w].files["vectors"] = watcher[w].read["vectors"]
          /\ cache'[w].files["docstore"] = watcher[w].read["docstore"]
          /\ cache'[w].files["corpus"] = cache[w].files["corpus"]
      BY <1>0, <2>2 DEF Cache, Files
    <2> QED
      BY <1>1, <2>1, <2>3 DEF Swapping, HasSwapped, Files
  <1>3. CASE SwapBm25(w)
    <2>1. PICK step \in {"swap_okapi", "sessions"} : Goto(w, step)
      BY <1>3 DEF SwapBm25
    <2>2. /\ watcher[w].pc = "swap_bm25"
          /\ cache'[w] = [cache[w] EXCEPT !.files["corpus"] = watcher[w].read["corpus"]]
      BY <1>3 DEF SwapBm25, WellFormed
    <2>3. /\ cache'[w].lookup = cache[w].lookup
          /\ cache'[w].files["vectors"] = cache[w].files["vectors"]
          /\ cache'[w].files["docstore"] = cache[w].files["docstore"]
          /\ cache'[w].files["corpus"] = watcher[w].read["corpus"]
      BY <1>0, <2>2 DEF Cache, Files
    <2> QED
      BY <1>1, <2>1, <2>2, <2>3 DEF Swapping, HasSwapped, Files
  <1>4. CASE SwapOkapi(w)
    <2>1. /\ watcher[w].pc = "swap_okapi" /\ Goto(w, "sessions")
          /\ cache'[w].lookup = cache[w].lookup /\ cache'[w].files = cache[w].files
      BY <1>0, <1>4 DEF SwapOkapi, WellFormed, Cache
    <2> QED
      BY <1>1, <2>1 DEF Swapping, HasSwapped, Files
  <1> QED
    BY <1>2, <1>3, <1>4

LEMMA SwapInv ==
  ASSUME WellFormed, CacheInv, NEW w \in Workers, SwapFaiss(w) \/ SwapBm25(w) \/ SwapOkapi(w)
  PROVE  WorkerInv(w)'
  <1> USE DEF WorkerInv
  <1>0. /\ WorkerInv(w) /\ Bumps \in Nat /\ Bumps' = Bumps /\ announced' = announced
        /\ reloaded' = reloaded /\ seen' = seen
    BY BumpTypes DEF CacheInv, SwapFaiss, SwapBm25, SwapOkapi, ingestion, Bumps
  <1>1. /\ watcher[w].pc \in Swapping
        /\ watcher'[w].pc \in {"swap_bm25", "swap_okapi", "sessions"}
        /\ watcher'[w].target = watcher[w].target /\ watcher'[w].boots = watcher[w].boots
        /\ watcher'[w].read = watcher[w].read
    BY SwapSteps
  <1>2. /\ cache'[w].lookup = cache[w].lookup
        /\ \A f \in Files :
               \/ cache'[w].files[f] = cache[w].files[f] /\ (HasSwapped(w, f)' => HasSwapped(w, f))
               \/ cache'[w].files[f] = watcher[w].read[f]
    BY SwapSteps
  <1>3. \A f \in Files : announced[watcher[w].target] <= watcher[w].read[f]
    BY <1>0, <1>1 DEF TargetIsRead, HasRead
  <1>4. TargetIsRead(w)'
    BY <1>0, <1>1, <1>2, <1>3 DEF TargetIsRead
  <1>5. SeenIsPast(w)'
    BY <1>0, <1>1 DEF SeenIsPast, Reloads, Swapping
  <1>6. Served(w)'
    <2>1. ASSUME w \in reloaded
          PROVE  \A f \in Files : announced[seen[w]] <= watcher[w].read[f]
      <3>1. /\ seen[w] # None /\ seen[w] \in 0..Bumps /\ seen[w] < watcher[w].target
            /\ watcher[w].target \in 0..Bumps
        BY <1>0, <1>1, <2>1 DEF SeenIsPast, Reloads, TargetIsRead
      <3>2. announced[seen[w]] <= announced[watcher[w].target]
        BY <1>0, <3>1 DEF CacheInv, DiskInv, AnnouncedGrows
      <3>3. announced[seen[w]] \in Nat /\ announced[watcher[w].target] \in Nat
        BY <3>1, BumpTypes
      <3> QED
        BY <1>3, <3>2, <3>3, WorkerTypes
    <2> QED
      BY <1>0, <1>2, <2>1 DEF Served
  <1>7. Followed(w)'
    <2>1. \/ watcher'[w].pc \in {"swap_okapi", "sessions"}
          \/ cache'[w].files["corpus"] = cache[w].files["corpus"] /\ watcher[w].pc = "swap"
      BY SwapSteps
    <2> QED
      BY <1>0, <1>2, <2>1 DEF Followed
  <1> QED
    BY <1>4, <1>5, <1>6, <1>7

LEMMA ReloadSessionsInv ==
  ASSUME WellFormed, CacheInv, NEW w \in Workers, ReloadSessions(w)
  PROVE  WorkerInv(w)'
  <1> USE DEF WorkerInv
  <1>0. /\ WorkerInv(w) /\ Bumps \in Nat /\ Bumps' = Bumps /\ announced' = announced
        /\ watcher[w] \in Watcher /\ watcher[w].pc = "sessions" /\ cache[w] \in Cache
    BY BumpTypes, WorkerTypes DEF CacheInv, ReloadSessions, ingestion, Bumps
  <1>1. watcher'[w].pc = "sleep" /\ watcher'[w].target = 0 /\ ~watcher'[w].boots
    BY Constants DEF ReloadSessions, WellFormed
  <1>2. cache'[w].files = cache[w].files /\ cache'[w].lookup = cache[w].files["corpus"]
    BY <1>0 DEF ReloadSessions, WellFormed, Cache
  <1>3. IF watcher[w].boots THEN UNCHANGED <<seen, reloaded>>
        ELSE seen'[w] = watcher[w].target /\ reloaded' = reloaded \cup {w}
    BY DEF ReloadSessions, WellFormed
  <1>4. watcher[w].target \in 0..Bumps /\ watcher[w].target # None
    BY <1>0, SaveNumbers, BumpTypes DEF TargetIsRead
  <1>5. \A f \in Files : announced[watcher[w].target] <= cache[w].files[f]
    BY <1>0 DEF TargetIsRead, HasSwapped
  <1>6. TargetIsRead(w)' /\ Followed(w)'
    BY <1>0, <1>1, <1>2 DEF TargetIsRead, HasRead, HasSwapped, Swapping, Followed
  <1>7. SeenIsPast(w)'
    BY <1>0, <1>1, <1>3, <1>4 DEF SeenIsPast, Reloads, Swapping, Files
  <1>8. Served(w)'
    BY <1>0, <1>2, <1>3, <1>4, <1>5 DEF Served, SeenIsPast, Files
  <1> QED
    BY <1>6, <1>7, <1>8

\* A step of one worker leaves the others, and the files, alone.
LEMMA OthersUnchanged ==
  ASSUME WellFormed, NEW w \in Workers,
         Boot(w) \/ Watch(w) \/ BuildOkapi(w) \/ StoreOkapi(w) \/ Stop(w)
  PROVE  /\ UNCHANGED ingestion
         /\ \A v \in Workers \ {w} :
              /\ watcher'[v] = watcher[v] /\ cache'[v] = cache[v] /\ seen'[v] = seen[v]
              /\ v \in reloaded' <=> v \in reloaded
  <1> USE DEF WellFormed
  <1>1. CASE Boot(w) \/ BuildOkapi(w) \/ StoreOkapi(w)
    BY <1>1 DEF Boot, BuildOkapi, StoreOkapi
  <1>2. CASE Stop(w)
    BY <1>2 DEF Stop
  <1>3. CASE Poll(w)
    BY <1>3 DEF Poll
  <1>4. ASSUME NEW f \in Files, Read(w, f) \/ ReadRaises(w, f)
        PROVE  /\ UNCHANGED <<ingestion, cache, seen, reloaded>>
               /\ \A v \in Workers \ {w} : watcher'[v] = watcher[v]
    BY <1>4 DEF Read, ReadRaises, Raise
  <1>5. CASE SwapFaiss(w) \/ SwapBm25(w) \/ SwapOkapi(w)
    BY <1>5 DEF SwapFaiss, SwapBm25, SwapOkapi, Goto
  <1>6. CASE ReloadSessions(w)
    BY <1>6 DEF ReloadSessions
  <1>7. CASE ReloadSessionsRaises(w)
    BY <1>7 DEF ReloadSessionsRaises, Raise
  <1> QED
    BY <1>1, <1>2, <1>3, <1>4, <1>5, <1>6, <1>7 DEF Watch

LEMMA WorkerCacheInv ==
  ASSUME WellFormed, WellFormed', CacheInv, NEW w \in Workers,
         Boot(w) \/ Watch(w) \/ BuildOkapi(w) \/ StoreOkapi(w) \/ Stop(w)
  PROVE  CacheInv'
  <1>0. /\ UNCHANGED ingestion
        /\ \A v \in Workers \ {w} :
             /\ watcher'[v] = watcher[v] /\ cache'[v] = cache[v] /\ seen'[v] = seen[v]
             /\ v \in reloaded' <=> v \in reloaded
    BY OthersUnchanged
  <1>1. /\ WorkerInv(w) /\ Bumps \in Nat /\ Bumps' = Bumps /\ announced' = announced
        /\ watcher[w] \in Watcher /\ cache[w] \in Cache
    BY <1>0, BumpTypes, WorkerTypes DEF CacheInv, ingestion, Bumps
  <1>2. CASE Boot(w)
    <2>1. /\ watcher'[w].pc = "vectors" /\ watcher'[w].boots
          /\ watcher'[w].target = watcher[w].target
          /\ cache' = cache /\ seen' = seen /\ reloaded' = reloaded
      BY <1>1, <1>2 DEF Boot, WellFormed, Watcher
    <2>2. watcher[w].pc = "down"
      BY <1>2 DEF Boot
    <2>3. WorkerInv(w)'
      BY <1>1, <2>1, <2>2
         DEF WorkerInv, TargetIsRead, HasRead, HasSwapped, Swapping, SeenIsPast, Reloads, Served, Followed, Files
    <2> QED
      BY <1>0, <2>3, OneWorker
  <1>3. CASE Poll(w)
    BY <1>0, <1>3, PollInv, OneWorker
  <1>4. ASSUME NEW f \in Files, Read(w, f)
        PROVE  CacheInv'
    BY <1>0, <1>4, ReadInv, OneWorker
  <1>5. ASSUME NEW f \in Files, ReadRaises(w, f)
        PROVE  CacheInv'
    <2>1. Reloads(w) /\ watcher[w].pc \in Files
      BY <1>5 DEF ReadRaises, Reloads
    <2> QED
      BY <1>0, <1>5, <2>1, RaiseInv, OneWorker DEF ReadRaises
  <1>6. CASE SwapFaiss(w) \/ SwapBm25(w) \/ SwapOkapi(w)
    BY <1>0, <1>6, SwapInv, OneWorker
  <1>7. CASE ReloadSessions(w)
    BY <1>0, <1>7, ReloadSessionsInv, OneWorker
  <1>8. CASE ReloadSessionsRaises(w)
    <2>1. Reloads(w) /\ Raise(w) /\ UNCHANGED <<seen, reloaded>>
      BY <1>8 DEF ReloadSessionsRaises, Reloads
    <2>2. \/ cache'[w] = cache[w] /\ ~watcher[w].boots
          \/ cache'[w] = Empty /\ watcher[w].boots
      BY <1>1, <1>8 DEF ReloadSessionsRaises, WellFormed, Watcher
    <2> QED
      BY <1>0, <2>1, <2>2, RaiseInv, OneWorker
  <1>9. CASE BuildOkapi(w) \/ StoreOkapi(w)
    <2>1. /\ watcher' = watcher /\ seen' = seen /\ reloaded' = reloaded
          /\ cache'[w].files = cache[w].files /\ cache'[w].lookup = cache[w].lookup
      BY <1>1, <1>9 DEF BuildOkapi, StoreOkapi, WellFormed, Cache
    <2>2. WorkerInv(w)'
      BY <1>1, <2>1 DEF WorkerInv, TargetIsRead, HasRead, HasSwapped, Swapping, SeenIsPast, Reloads, Served, Followed
    <2> QED
      BY <1>0, <2>2, OneWorker
  <1>10. CASE Stop(w)
    <2>1. /\ watcher'[w] = Down /\ cache'[w] = Empty /\ seen'[w] = None
          /\ w \notin reloaded'
      BY <1>10 DEF Stop, WellFormed
    <2>2. WorkerInv(w)'
      BY <1>1, <2>1 DEF WorkerInv, TargetIsRead, HasRead, HasSwapped, Swapping, SeenIsPast, Reloads, Served,
                        Followed, Files, Down, Empty, Nothing
    <2> QED
      BY <1>0, <2>2, OneWorker
  <1> QED
    BY <1>2, <1>3, <1>4, <1>5, <1>6, <1>7, <1>8, <1>9, <1>10 DEF Watch

LEMMA NextCacheInv == WellFormed /\ WellFormed' /\ CacheInv /\ [Next]_vars => CacheInv'
  <1> SUFFICES ASSUME WellFormed, WellFormed', CacheInv, [Next]_vars
               PROVE  CacheInv'
    OBVIOUS
  <1>0. Bumps' \in Nat
    <2>1. version' \in Nat /\ lost' \in Nat
      BY DEF WellFormed, WriterOK
    <2>2. \A m, n \in Nat : m + n \in Nat
      OBVIOUS
    <2> QED
      BY <2>1, <2>2 DEF Bumps
  <1>1. ASSUME DiskInv', BumpsKept, UNCHANGED serving
        PROVE  CacheInv'
    BY <1>0, <1>1, RestingWorker DEF CacheInv, serving
  <1>2. CASE BeginSave \/ Bump \/ Abandon \/ LoseVersion \/ \E f \in Files : Open(f) \/ Close(f)
    <2>1. UNCHANGED serving
      BY <1>2 DEF BeginSave, Bump, Abandon, LoseVersion, Open, Close
    <2> QED
      BY <1>1, <1>2, <2>1, WriterDiskInv DEF CacheInv
  <1>3. CASE UNCHANGED vars
    BY <1>1, <1>3, OthersDiskInv DEF vars, ingestion, serving, CacheInv
  <1> QED
    BY <1>2, <1>3, WorkerCacheInv DEF Next

\* What saves announce, reloads read and workers serve, through failures of each and
\* losses of the counter.
THEOREM CacheInvariant == Spec => []CacheInv
  <1>1. Init => CacheInv
    <2> SUFFICES ASSUME Init
                 PROVE  CacheInv
      OBVIOUS
    <2>1. Bumps = 0 /\ 0 \in Saves
      BY SaveNumbers DEF Init, Bumps
    <2>2. DiskInv
      BY <2>1 DEF Init, DiskInv, SaveIsWhole, Closed, AnnouncedGrows, DiskIsNew
    <2>3. ASSUME NEW w \in Workers
          PROVE  WorkerInv(w)
      BY <2>1 DEF Init, WorkerInv, TargetIsRead, HasRead, HasSwapped, Swapping, SeenIsPast, Reloads, Served,
                  Followed, Files, Down, Empty, Nothing
    <2> QED
      BY <2>2, <2>3 DEF CacheInv
  <1> QED
    BY <1>1, WellFormedInvariant, NextCacheInv, PTL DEF Spec

\* SeenIsServed: a worker that has reloaded serves every save that the version it has seen
\* announces.
THEOREM SeenSavesAreServed == Spec => []SeenIsServed
  <1>1. WellFormed /\ CacheInv => SeenIsServed
    <2> SUFFICES ASSUME WellFormed, CacheInv, NEW w \in reloaded
                 PROVE  /\ \A f \in Files : cache[w].files[f] >= announced[seen[w]]
                        /\ cache[w].lookup >= announced[seen[w]]
      BY DEF SeenIsServed
    <2>1. w \in Workers
      BY DEF WellFormed
    <2>2. WorkerInv(w) /\ seen[w] \in 0..Bumps
      BY <2>1 DEF CacheInv, WorkerInv, SeenIsPast
    <2> QED
      BY <2>1, <2>2, WorkerTypes, BumpTypes DEF WorkerInv, Served
  <1> QED
    BY <1>1, WellFormedInvariant, CacheInvariant, PTL

\* LookupFollows: the sessions lag behind the corpus only for the length of a reload, or
\* until the next one.
THEOREM LookupIsFollowed == Spec => []LookupFollows
  <1>1. CacheInv => LookupFollows
    BY DEF CacheInv, WorkerInv, Followed, LookupFollows, Bumps
  <1> QED
    BY <1>1, CacheInvariant, PTL
=============================================================================
