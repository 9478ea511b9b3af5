--------------------------- MODULE WebCacheProofs ---------------------------
(***************************************************************************)
(* What holds of WebCache for any pages, sizes and limits, and any naming  *)
(* of the files: two pages may share a file.                               *)
(***************************************************************************)
EXTENDS WebCache, FiniteSetTheorems, TLAPS

\* writeDate is when the content was fetched, in memory and in the files.
StampsAreTrue ==
  /\ \A u \in Url : Cached(u) => cache[u].content = cache[u].writeDate
  /\ \A n \in Name : files[n] # NONE => files[n].content = files[n].writeDate

\* After the purge of a request and until it looks its page up, no page in memory
\* is too old for it, however long that takes.
LookupIsFresh ==
  request # NONE =>
    /\ request.arrival <= clock
    /\ maxTimeToKeepPage > 0 =>
          \A u \in Url : Cached(u) =>
             request.arrival - cache[u].writeDate <= maxTimeToKeepPage

\* The inductive invariant.
Sound == /\ TypeOK /\ StampsAreTrue /\ LookupIsFresh
         /\ ServedIsFresh /\ FilesAreCached

LEMMA InitSound == Init => Sound
<1> SUFFICES ASSUME Init PROVE Sound
  OBVIOUS
<1>1. clock \in Time /\ accesses \in [Url -> Nat]
  BY CacheAssumption DEF Init, Time
<1>2. TypeOK
  BY <1>1 DEF Init, TypeOK
<1>3. StampsAreTrue /\ FilesAreCached
  BY DEF Init, StampsAreTrue, FilesAreCached, Cached
<1>4. ServedIsFresh /\ LookupIsFresh
  BY DEF Init, ServedIsFresh, LookupIsFresh
<1> QED BY <1>2, <1>3, <1>4 DEF Sound

\* What is left once some pages are dropped, and their files deleted, is as it was.
LEMMA DropKeeps ==
  ASSUME Sound, NEW us \in SUBSET Url
  PROVE  LET m == Drop(cache, us)
             fs == Delete(files, us)
         IN  /\ m \in [Url -> WebCacheEntry \cup {NONE}]
             /\ fs \in [Name -> File \cup {NONE}]
             /\ \A u \in Url : m[u] = IF u \in us THEN NONE ELSE cache[u]
             /\ \A n \in Name : fs[n] # NONE =>
                   /\ fs[n] = files[n] /\ fs[n].url \in Url \ us
                   /\ n = formName[fs[n].url]
                   /\ m[fs[n].url] # NONE
<1>1. /\ Drop(cache, us) \in [Url -> WebCacheEntry \cup {NONE}]
      /\ Delete(files, us) \in [Name -> File \cup {NONE}]
      /\ \A u \in Url : Drop(cache, us)[u] = IF u \in us THEN NONE ELSE cache[u]
  BY DEF Sound, TypeOK, Drop, Delete
<1>2. ASSUME NEW n \in Name, Delete(files, us)[n] # NONE
      PROVE  /\ Delete(files, us)[n] = files[n] /\ files[n].url \in Url \ us
             /\ n = formName[files[n].url]
             /\ Drop(cache, us)[files[n].url] # NONE
  <2>1. /\ Delete(files, us)[n] = files[n] /\ files[n] # NONE
        /\ ~ \E u \in us : formName[u] = n
    BY <1>2 DEF Delete
  <2>2. files[n] \in File /\ files[n].url \in Url
    BY <2>1 DEF Sound, TypeOK, File
  <2>3. cache[files[n].url] # NONE /\ n = formName[files[n].url]
    BY <2>1 DEF Sound, FilesAreCached, Cached
  <2> QED BY <2>1, <2>2, <2>3, <1>1
<1> QED BY <1>1, <1>2

LEMMA ForgetIsCount ==
  ASSUME Sound, NEW us
  PROVE  Forget(us) \in [Url -> Nat]
BY DEF Sound, TypeOK, Forget

\* The step lemmas, one for each action.
LEMMA TickKeepsSound == ASSUME Sound, Tick PROVE Sound'
<1>1. /\ clock' = clock + 1 /\ clock \in Nat /\ clock' \in Time
      /\ UNCHANGED <<cache, files, request, pending, served, accesses, unwritten,
                     restarted>>
  BY CacheAssumption DEF Tick, history, Sound, TypeOK, Time
<1>2. TypeOK'
  BY <1>1 DEF Sound, TypeOK
<1>3. LookupIsFresh'
  <2>1. request # NONE => request.arrival \in Int
    BY DEF Sound, TypeOK, Request, Time
  <2> QED BY <1>1, <2>1 DEF Sound, LookupIsFresh, Cached
<1>4. StampsAreTrue' /\ ServedIsFresh' /\ FilesAreCached'
  BY <1>1 DEF Sound, StampsAreTrue, ServedIsFresh, FilesAreCached, Cached
<1> QED BY <1>2, <1>3, <1>4 DEF Sound

LEMMA PurgeKeepsSound ==
  ASSUME Sound, NEW u \in Url, RequestURL(u)
  PROVE  Sound'
<1>0. OldPages \in SUBSET Url
  BY DEF OldPages
<1>1. request' \in Request /\ request'.arrival = clock /\ clock \in Int /\ clock' = clock
  BY CacheAssumption DEF RequestURL, Request, Sound, TypeOK, Time
<1>2. TypeOK'
  BY <1>0, <1>1, DropKeeps, ForgetIsCount DEF RequestURL, Sound, TypeOK
<1>3. StampsAreTrue' /\ FilesAreCached'
  BY <1>0, DropKeeps DEF RequestURL, Sound, StampsAreTrue, FilesAreCached, Cached
<1>4. ASSUME maxTimeToKeepPage > 0, NEW v \in Url, cache'[v] # NONE
      PROVE  clock - cache'[v].writeDate <= maxTimeToKeepPage
  <2>1. v \notin OldPages /\ cache'[v] = cache[v]
    BY <1>0, <1>4, DropKeeps DEF RequestURL
  <2>2. cache[v].writeDate \in Int
    BY <1>4, <2>1 DEF Sound, TypeOK, WebCacheEntry, Time
  <2>3. ~(clock - cache[v].writeDate > maxTimeToKeepPage)
    BY <1>4, <2>1 DEF OldPages, Cached
  <2> QED BY <1>1, <2>1, <2>2, <2>3, CacheAssumption
<1>5. LookupIsFresh'
  BY <1>1, <1>4 DEF LookupIsFresh, Cached
<1>6. ServedIsFresh'
  BY DEF RequestURL, ServedIsFresh
<1> QED BY <1>2, <1>3, <1>5, <1>6 DEF Sound

LEMMA HitKeepsSound ==
  ASSUME Sound, NEW u \in Url, RequestHit(u)
  PROVE  Sound'
<1>1. /\ cache[u] \in WebCacheEntry /\ cache[u].frequency \in Nat
      /\ cache[u].content = cache[u].writeDate /\ cache[u].writeDate \in Int
      /\ request \in Request /\ request # NONE /\ request.arrival \in Int
  BY DEF RequestHit, LooksUp, Sound, TypeOK, StampsAreTrue, Cached, WebCacheEntry,
         Request, Time
<1>2. cache' = [cache EXCEPT ![u] = [cache[u] EXCEPT !.frequency = @ + 1]]
  BY DEF RequestHit
<1>3. [cache[u] EXCEPT !.frequency = @ + 1] \in WebCacheEntry
  BY <1>1 DEF WebCacheEntry
<1>4. /\ cache' \in [Url -> WebCacheEntry \cup {NONE}]
      /\ cache'[u].content = cache[u].content
      /\ cache'[u].writeDate = cache[u].writeDate /\ cache'[u] # NONE
      /\ \A v \in Url \ {u} : cache'[v] = cache[v]
  BY <1>1, <1>2, <1>3, CacheAssumption DEF Sound, TypeOK, WebCacheEntry
<1>5. served' \in Int /\ (maxTimeToKeepPage > 0 => served' <= maxTimeToKeepPage)
  BY <1>1 DEF RequestHit, Sound, LookupIsFresh, Cached
<1>6. TypeOK'
  <2>1. accesses' \in [Url -> Nat]
    BY DEF RequestHit, Sound, TypeOK
  <2> QED BY <2>1, <1>4, <1>5 DEF RequestHit, LooksUp, Sound, TypeOK
<1>7. StampsAreTrue' /\ FilesAreCached'
  BY <1>1, <1>4 DEF RequestHit, Sound, StampsAreTrue, FilesAreCached, Cached
<1>8. LookupIsFresh'
  BY DEF RequestHit, LooksUp, LookupIsFresh
<1> QED BY <1>5, <1>6, <1>7, <1>8 DEF Sound, ServedIsFresh

LEMMA FailureKeepsSound ==
  ASSUME Sound, NEW u \in Url, RequestFails(u)
  PROVE  Sound'
<1>1. /\ request' = NONE
      /\ UNCHANGED <<cache, files, pending, clock, served, accesses, unwritten, restarted>>
  BY DEF RequestFails, LooksUp, history
<1>2. TypeOK' /\ LookupIsFresh'
  BY <1>1 DEF Sound, TypeOK, LookupIsFresh
<1> QED BY <1>1, <1>2 DEF Sound, StampsAreTrue, FilesAreCached, ServedIsFresh, Cached

LEMMA MissKeepsSound ==
  ASSUME Sound, NEW u \in Url, RequestMiss(u)
  PROVE  Sound'
<1>1. /\ NewEntry(u) \in WebCacheEntry /\ NewEntry(u) # NONE
      /\ NewEntry(u).url = u /\ NewEntry(u).writeDate = clock
      /\ NewEntry(u).content = clock
      /\ clock \in Time /\ formName[u] \in Name
  BY CacheAssumption DEF Sound, TypeOK, NewEntry, WebCacheEntry
<1>2. /\ cache' \in [Url -> WebCacheEntry \cup {NONE}] /\ cache'[u] = NewEntry(u)
      /\ \A v \in Url \ {u} : cache'[v] = cache[v]
  BY <1>1 DEF RequestMiss, Sound, TypeOK
<1>3. /\ files' \in [Name -> File \cup {NONE}] /\ unwritten' \subseteq Url
      /\ files'[formName[u]] # NONE =>
            /\ files'[formName[u]].url = u
            /\ files'[formName[u]].content = clock
            /\ files'[formName[u]].writeDate = clock
      /\ \A n \in Name \ {formName[u]} : files'[n] = files[n]
  <2>1. PICK f \in File \cup {NONE} :
          /\ files' = [files EXCEPT ![formName[u]] = f]
          /\ f # NONE => f.url = u /\ f.content = clock /\ f.writeDate = clock
    <3>1. ASSUME NEW bytes \in Nat
          PROVE  /\ Part(NewEntry(u), bytes) \in File
                 /\ Part(NewEntry(u), bytes).url = u
                 /\ Part(NewEntry(u), bytes).content = clock
                 /\ Part(NewEntry(u), bytes).writeDate = clock
      BY <1>1 DEF Part, File, WebCacheEntry
    <3>2. PageSize[u] \in Nat /\ 0 .. PageSize[u] - 1 \subseteq Nat
      BY CacheAssumption
    <3> QED BY <3>1, <3>2 DEF RequestMiss, Update
  <2>2. unwritten' \subseteq Url
    BY DEF RequestMiss, Update, Sound, TypeOK
  <2> QED BY <1>1, <2>1, <2>2 DEF Sound, TypeOK
<1>4. request # NONE /\ request.arrival \in Int /\ clock \in Int
      /\ request.arrival <= clock /\ request' = NONE
  BY <1>1 DEF RequestMiss, LooksUp, Sound, TypeOK, Request, LookupIsFresh, Time
<1>5. TypeOK'
  <2>1. accesses' \in [Url -> Nat]
    BY DEF RequestMiss, Sound, TypeOK
  <2>2. served' \in Int
    BY <1>4 DEF RequestMiss
  <2>3. pending' \in Url \cup {NONE} /\ clock' = clock /\ restarted' = restarted
    BY DEF RequestMiss
  <2> QED BY <2>1, <2>2, <2>3, <1>2, <1>3, <1>4 DEF Sound, TypeOK
<1>6. StampsAreTrue'
  BY <1>1, <1>2, <1>3 DEF Sound, StampsAreTrue, Cached
<1>7. FilesAreCached'
  <2>1. \A n \in Name : files[n] # NONE => files[n].url \in Url
    BY DEF Sound, TypeOK, File
  <2> QED BY <1>1, <1>2, <1>3, <2>1 DEF Sound, FilesAreCached, Cached
<1>8. ServedIsFresh' /\ LookupIsFresh'
  BY <1>4, CacheAssumption DEF RequestMiss, ServedIsFresh, LookupIsFresh
<1> QED BY <1>5, <1>6, <1>7, <1>8 DEF Sound

LEMMA EvictKeepsSound == ASSUME Sound, Evict PROVE Sound'
<1>1. CASE Others = {} /\ UNCHANGED <<cache, files, accesses, unwritten>> /\ pending' = NONE
  BY <1>1 DEF Evict, Sound, TypeOK, StampsAreTrue, LookupIsFresh, ServedIsFresh,
              FilesAreCached, Cached
<1>2. ASSUME NEW u \in LeastFrequent,
             cache' = Drop(cache, {u}), files' = Delete(files, {u}),
             pending' \in {pending, NONE}, accesses' = Forget({u}),
             unwritten' = unwritten \ {u}
      PROVE  Sound'
  <2>0. {u} \in SUBSET Url
    BY DEF LeastFrequent, Others
  <2>1. TypeOK'
    BY <1>2, <2>0, DropKeeps, ForgetIsCount DEF Evict, Sound, TypeOK
  <2>2. StampsAreTrue' /\ LookupIsFresh' /\ FilesAreCached'
    BY <1>2, <2>0, DropKeeps
       DEF Evict, Sound, StampsAreTrue, LookupIsFresh, FilesAreCached, Cached
  <2> QED BY <2>1, <2>2 DEF Sound, ServedIsFresh, Evict
<1> QED BY <1>1, <1>2 DEF Evict

\* What the program reads from whatever files a kill left.
LEMMA KilledKeepsSound ==
  ASSUME Sound, NEW us \in SUBSET Url, Killed(us)
  PROVE  Sound'
<1> DEFINE Holds(n, u) == files'[n] # NONE /\ files'[n].url = u
<1>1. /\ files' \in [Name -> File \cup {NONE}]
      /\ \A n \in Name : files'[n] # NONE =>
            files'[n] = files[n] /\ files'[n].url \in Url
              /\ n = formName[files'[n].url]
  BY DropKeeps DEF Killed, KeepWhole
<1>2. ASSUME NEW u \in Url
      PROVE  IF \E n \in Name : Holds(n, u)
             THEN \E n \in Name : Holds(n, u) /\ cache'[u] = EntryOf(files'[n])
             ELSE cache'[u] = NONE
  BY DEF Killed, ReadBack
<1>a. ASSUME NEW n \in Name, files'[n] # NONE
      PROVE  /\ EntryOf(files'[n]) \in WebCacheEntry /\ EntryOf(files'[n]) # NONE
             /\ EntryOf(files'[n]).content = files'[n].content
             /\ EntryOf(files'[n]).writeDate = files'[n].writeDate
  BY <1>1, <1>a, CacheAssumption DEF EntryOf, File, WebCacheEntry
<1>3. cache' \in [Url -> WebCacheEntry \cup {NONE}]
  <2>1. \A u \in Url : cache'[u] \in WebCacheEntry \cup {NONE}
    BY <1>2, <1>a
  <2>2. cache' = [u \in Url |-> cache'[u]]
    BY DEF Killed, ReadBack
  <2> QED BY <2>1, <2>2
<1>4. TypeOK'
  <2>1. accesses' \in [Url -> Nat]
    BY DEF Killed, Sound, TypeOK
  <2> QED BY <2>1, <1>1, <1>3 DEF Killed, Sound, TypeOK
<1>5. StampsAreTrue' /\ LookupIsFresh'
  BY <1>1, <1>2, <1>a DEF Killed, Sound, StampsAreTrue, LookupIsFresh, Cached
<1>6. FilesAreCached'
  BY <1>1, <1>2, <1>a DEF FilesAreCached, Cached
<1> QED BY <1>4, <1>5, <1>6 DEF Sound, ServedIsFresh, Killed

LEMMA KillIsKilled ==
  ASSUME Sound, Kill
  PROVE  \E us \in SUBSET Url : Killed(us)
<1>1. OldPages \in SUBSET Url
  BY DEF OldPages
<1>2. request # NONE => request.url \in Url
  BY DEF Sound, TypeOK, Request
<1> QED BY <1>1, <1>2 DEF Kill

LEMMA NextKeepsSound == Sound /\ [Next]_vars => Sound'
<1> SUFFICES ASSUME Sound, [Next]_vars PROVE Sound'
  OBVIOUS
<1>1. CASE Tick
  BY <1>1, TickKeepsSound
<1>2. ASSUME NEW u \in Url, RequestURL(u) PROVE Sound'
  BY <1>2, PurgeKeepsSound
<1>3. ASSUME NEW u \in Url, RequestHit(u) PROVE Sound'
  BY <1>3, HitKeepsSound
<1>4. ASSUME NEW u \in Url, RequestFails(u) PROVE Sound'
  BY <1>4, FailureKeepsSound
<1>5. ASSUME NEW u \in Url, RequestMiss(u) PROVE Sound'
  BY <1>5, MissKeepsSound
<1>6. CASE Evict
  BY <1>6, EvictKeepsSound
<1>7. CASE Kill
  BY <1>7, KillIsKilled, KilledKeepsSound
<1>8. CASE UNCHANGED vars
  BY <1>8 DEF vars, history, Sound, TypeOK, StampsAreTrue, LookupIsFresh,
              ServedIsFresh, FilesAreCached, Cached
<1> QED BY <1>1, <1>2, <1>3, <1>4, <1>5, <1>6, <1>7, <1>8 DEF Next

LEMMA AlwaysSound == Spec => []Sound
BY InitSound, NextKeepsSound, PTL DEF Spec

\* No page is ever served whose content had been fetched longer than the limit
\* before the page was asked for, however long the lookup took and whatever the
\* cache read back from its files when it was last started.
THEOREM PagesAreFresh == Spec => []ServedIsFresh
<1>1. Sound => ServedIsFresh
  BY DEF Sound
<1> QED BY <1>1, AlwaysSound, PTL

\* No file is left behind: each belongs to a page in memory, even where pages
\* share a name and delete each other's files, and after a kill at any point.
THEOREM NoFileIsLeft == Spec => []FilesAreCached
<1>1. Sound => FilesAreCached
  BY DEF Sound
<1> QED BY <1>1, AlwaysSound, PTL

\* Every variable keeps its type.
THEOREM CacheTypeCorrect == Spec => []TypeOK
<1>1. Sound => TypeOK
  BY DEF Sound
<1> QED BY <1>1, AlwaysSound, PTL

-----------------------------------------------------------------------------
(* What is in memory is on the disk, when no two pages share a file name. *)

NamesDiffer == \A u, v \in Url : formName[u] = formName[v] => u = v

OnDisk(m, fs, u) == /\ fs[formName[u]] # NONE /\ fs[formName[u]].url = u
                    /\ IsWhole(fs[formName[u]])
                    /\ fs[formName[u]].content = m[u].content
                    /\ fs[formName[u]].writeDate = m[u].writeDate

LEMMA DropKeepsOnDisk ==
  ASSUME NamesDiffer, Sound, CachedIsOnDisk, NEW us \in SUBSET Url,
         NEW u \in Url \ (unwritten \ us), Drop(cache, us)[u] # NONE
  PROVE  /\ u \notin us /\ u \notin unwritten /\ Cached(u)
         /\ Drop(cache, us)[u] = cache[u]
         /\ OnDisk(Drop(cache, us), Delete(files, us), u)
<1>1. u \notin us /\ Drop(cache, us)[u] = cache[u] /\ Cached(u) /\ u \notin unwritten
  BY DEF Drop, Cached
<1>2. OnDisk(cache, files, u)
  BY <1>1 DEF CachedIsOnDisk, OnDisk
<1>3. ~ \E v \in us : formName[v] = formName[u]
  BY <1>1 DEF NamesDiffer
<1>4. formName[u] \in Name
  BY CacheAssumption
<1>5. Delete(files, us)[formName[u]] = files[formName[u]]
  BY <1>3, <1>4 DEF Delete
<1> QED BY <1>1, <1>2, <1>5 DEF OnDisk

LEMMA HitKeepsOnDisk ==
  ASSUME Sound, CachedIsOnDisk, NEW u \in Url, RequestHit(u)
  PROVE  CachedIsOnDisk'
<1>1. SUFFICES ASSUME NEW v \in Url \ unwritten', cache'[v] # NONE
               PROVE  OnDisk(cache', files', v)
  BY DEF CachedIsOnDisk, OnDisk, Cached
<1>2. cache[u] \in WebCacheEntry /\ cache \in [Url -> WebCacheEntry \cup {NONE}]
  BY DEF RequestHit, Sound, TypeOK, Cached
<1>3. /\ cache[v] # NONE /\ cache'[v].content = cache[v].content
      /\ cache'[v].writeDate = cache[v].writeDate
  <2>1. cache' = [cache EXCEPT ![u] = [cache[u] EXCEPT !.frequency = @ + 1]]
    BY <1>2 DEF RequestHit
  <2>2. CASE v = u
    BY <1>2, <2>1, <2>2, CacheAssumption DEF WebCacheEntry
  <2>3. CASE v # u
    BY <1>1, <1>2, <2>1, <2>3
  <2> QED BY <2>2, <2>3
<1>4. OnDisk(cache, files, v)
  BY <1>1, <1>3 DEF RequestHit, CachedIsOnDisk, Cached, OnDisk
<1> QED BY <1>3, <1>4 DEF RequestHit, OnDisk

LEMMA MissKeepsOnDisk ==
  ASSUME NamesDiffer, Sound, CachedIsOnDisk, NEW u \in Url, RequestMiss(u)
  PROVE  CachedIsOnDisk'
<1>1. SUFFICES ASSUME NEW v \in Url \ unwritten', cache'[v] # NONE
               PROVE  OnDisk(cache', files', v)
  BY DEF CachedIsOnDisk, OnDisk, Cached
<1>2. /\ cache \in [Url -> WebCacheEntry \cup {NONE}]
      /\ files \in [Name -> File \cup {NONE}]
      /\ formName[u] \in Name /\ formName[v] \in Name
  BY CacheAssumption DEF Sound, TypeOK
<1>3. CASE v = u
  <2>1. files' = [files EXCEPT ![formName[u]] = Part(NewEntry(u), PageSize[u])]
    BY <1>1, <1>3 DEF RequestMiss, Update
  <2>2. /\ cache'[u] = NewEntry(u)
        /\ files'[formName[u]] = Part(NewEntry(u), PageSize[u])
    BY <1>2, <2>1 DEF RequestMiss
  <2>3. Part(NewEntry(u), PageSize[u]) \in File
    BY CacheAssumption DEF Sound, TypeOK, NewEntry, Part, File
  <2> QED BY <1>3, <2>2, <2>3, CacheAssumption DEF OnDisk, IsWhole, Part, NewEntry
<1>4. CASE v # u
  <2>1. formName[v] # formName[u]
    BY <1>4 DEF NamesDiffer
  <2>2. /\ cache'[v] = cache[v] /\ files'[formName[v]] = files[formName[v]]
        /\ v \notin unwritten
    BY <1>1, <1>2, <1>4, <2>1 DEF RequestMiss, Update
  <2>3. OnDisk(cache, files, v)
    BY <1>1, <2>2 DEF CachedIsOnDisk, Cached, OnDisk
  <2> QED BY <2>2, <2>3 DEF OnDisk
<1> QED BY <1>3, <1>4

\* The purge of a request, and a page that is evicted.
LEMMA DroppedKeepsOnDisk ==
  ASSUME NamesDiffer, Sound, CachedIsOnDisk, NEW us \in SUBSET Url,
         cache' = Drop(cache, us), files' = Delete(files, us),
         unwritten' = unwritten \ us
  PROVE  CachedIsOnDisk'
<1>1. ASSUME NEW v \in Url \ unwritten', cache'[v] # NONE
      PROVE  OnDisk(cache', files', v)
  BY <1>1, DropKeepsOnDisk
<1> QED BY <1>1 DEF CachedIsOnDisk, OnDisk, Cached

LEMMA KilledKeepsOnDisk ==
  ASSUME Sound, NEW us \in SUBSET Url, Killed(us)
  PROVE  CachedIsOnDisk'
<1>1. SUFFICES ASSUME NEW v \in Url, cache'[v] # NONE
               PROVE  OnDisk(cache', files', v)
  BY DEF CachedIsOnDisk, OnDisk, Cached
<1>2. PICK n \in Name : /\ files'[n] # NONE /\ files'[n].url = v
                        /\ cache'[v] = EntryOf(files'[n])
  BY <1>1 DEF Killed, ReadBack
<1>3. IsWhole(files'[n])
  BY <1>2 DEF Killed, KeepWhole
<1>4. n = formName[v]
  <2>1. files'[n] = Delete(files, us)[n]
    BY <1>2 DEF Killed, KeepWhole
  <2> QED BY <1>2, <2>1, DropKeeps
<1>5. cache'[v].content = files'[n].content /\ cache'[v].writeDate = files'[n].writeDate
  BY <1>2 DEF EntryOf
<1> QED BY <1>2, <1>3, <1>4, <1>5 DEF OnDisk

LEMMA NextKeepsOnDisk ==
  ASSUME NamesDiffer
  PROVE  Sound /\ CachedIsOnDisk /\ [Next]_vars => CachedIsOnDisk'
<1> SUFFICES ASSUME Sound, CachedIsOnDisk, [Next]_vars PROVE CachedIsOnDisk'
  OBVIOUS
<1>0. OldPages \in SUBSET Url
  BY DEF OldPages
<1>1. CASE UNCHANGED <<cache, files, unwritten>>
  BY <1>1 DEF CachedIsOnDisk, Cached
<1>2. ASSUME NEW u \in Url, RequestHit(u) PROVE CachedIsOnDisk'
  BY <1>2, HitKeepsOnDisk
<1>3. ASSUME NEW u \in Url, RequestURL(u) PROVE CachedIsOnDisk'
  BY <1>0, <1>3, DroppedKeepsOnDisk DEF RequestURL
<1>4. ASSUME NEW u \in Url, RequestMiss(u) PROVE CachedIsOnDisk'
  BY <1>4, MissKeepsOnDisk
<1>5. ASSUME NEW u \in LeastFrequent, cache' = Drop(cache, {u}),
             files' = Delete(files, {u}), unwritten' = unwritten \ {u}
      PROVE  CachedIsOnDisk'
  <2>1. {u} \in SUBSET Url
    BY DEF LeastFrequent, Others
  <2> QED BY <1>5, <2>1, DroppedKeepsOnDisk
<1>6. ASSUME NEW us \in SUBSET Url, Killed(us) PROVE CachedIsOnDisk'
  BY <1>6, KilledKeepsOnDisk
<1>7. CASE Evict
  BY <1>1, <1>5, <1>7 DEF Evict
<1>8. CASE Kill
  BY <1>6, <1>8, KillIsKilled
<1> QED BY <1>1, <1>2, <1>3, <1>4, <1>7, <1>8 DEF Next, Tick, RequestFails, vars, history

\* When no two pages share a file name, every page in memory that was written is
\* on the disk, whole and as it was fetched, so that a restart gives it back:
\* no failed write, purge, eviction or kill costs another page its file.
THEOREM PagesAreOnDisk ==
  ASSUME NamesDiffer PROVE Spec => []CachedIsOnDisk
<1>1. Init => CachedIsOnDisk
  BY DEF Init, CachedIsOnDisk, Cached
<1>2. Sound /\ CachedIsOnDisk /\ [Next]_vars => CachedIsOnDisk'
  BY NextKeepsOnDisk
<1> QED BY <1>1, <1>2, AlwaysSound, PTL DEF Spec

-----------------------------------------------------------------------------
(* What is evicted. *)

\* Until the program is killed, the frequency of a page counts its accesses, and
\* one more.
\* With TypeOK, the inductive invariant for LeastAccessedFirst.
Counts(m, times) == \A u \in Url : m[u] # NONE => m[u].frequency = times[u] + 1
FrequenciesCount == ~restarted => Counts(cache, accesses)

LEMMA DropKeepsCounts ==
  ASSUME Counts(cache, accesses), NEW us \in SUBSET Url
  PROVE  Counts(Drop(cache, us), Forget(us))
<1> SUFFICES ASSUME NEW u \in Url, Drop(cache, us)[u] # NONE
             PROVE  Drop(cache, us)[u].frequency = Forget(us)[u] + 1
  BY DEF Counts
<1>1. /\ Drop(cache, us)[u] = IF u \in us THEN NONE ELSE cache[u]
      /\ Forget(us)[u] = IF u \in us THEN 0 ELSE accesses[u]
  BY DEF Drop, Forget
<1> QED BY <1>1 DEF Counts

LEMMA NextKeepsCounts == Sound /\ FrequenciesCount /\ [Next]_vars => FrequenciesCount'
<1> SUFFICES ASSUME Sound, FrequenciesCount, [Next]_vars, ~restarted'
             PROVE  Counts(cache', accesses')
  BY DEF FrequenciesCount, Counts
<1>0. OldPages \in SUBSET Url
  BY DEF OldPages
<1>1. CASE UNCHANGED <<cache, accesses, restarted>>
  BY <1>1 DEF FrequenciesCount
<1>2. /\ ~restarted => Counts(cache, accesses)
      /\ cache \in [Url -> WebCacheEntry \cup {NONE}] /\ accesses \in [Url -> Nat]
  BY DEF FrequenciesCount, Sound, TypeOK
<1>3. ASSUME NEW u \in Url, RequestHit(u)
      PROVE  Counts(cache', accesses')
  <2>1. /\ ~restarted /\ cache[u] # NONE /\ cache[u] \in WebCacheEntry
        /\ cache' = [cache EXCEPT ![u].frequency = @ + 1]
        /\ accesses' = [accesses EXCEPT ![u] = @ + 1]
    BY <1>2, <1>3 DEF RequestHit, Cached
  <2>2. cache[u].frequency = accesses[u] + 1 /\ accesses[u] \in Nat
    BY <1>2, <2>1 DEF Counts
  <2>3. cache'[u].frequency = cache[u].frequency + 1 /\ accesses'[u] = accesses[u] + 1
    BY <1>2, <2>1 DEF WebCacheEntry
  <2>4. \A v \in Url \ {u} : cache'[v] = cache[v] /\ accesses'[v] = accesses[v]
    BY <1>2, <2>1
  <2> QED BY <1>2, <2>1, <2>2, <2>3, <2>4 DEF Counts
<1>4. ASSUME NEW u \in Url, RequestMiss(u)
      PROVE  Counts(cache', accesses')
  <2>1. /\ ~restarted /\ cache' = [cache EXCEPT ![u] = NewEntry(u)]
        /\ accesses' = [accesses EXCEPT ![u] = 1]
    BY <1>4 DEF RequestMiss
  <2>2. cache'[u].frequency = 2 /\ accesses'[u] = 1
    BY <1>2, <2>1 DEF NewEntry
  <2>3. \A v \in Url \ {u} : cache'[v] = cache[v] /\ accesses'[v] = accesses[v]
    BY <1>2, <2>1
  <2> QED BY <1>2, <2>1, <2>2, <2>3 DEF Counts
<1>5. ASSUME NEW us \in SUBSET Url, cache' = Drop(cache, us), accesses' = Forget(us),
             ~restarted
      PROVE  Counts(cache', accesses')
  BY <1>2, <1>5, DropKeepsCounts
<1>6. ASSUME NEW u \in Url, RequestURL(u)
      PROVE  Counts(cache', accesses')
  BY <1>0, <1>5, <1>6 DEF RequestURL
<1>7. CASE Evict
  <2>1. restarted' = restarted
    BY <1>7 DEF Evict
  <2>2. ASSUME NEW u \in LeastFrequent, cache' = Drop(cache, {u}), accesses' = Forget({u})
        PROVE  Counts(cache', accesses')
    <3>1. {u} \in SUBSET Url
      BY DEF LeastFrequent, Others
    <3> QED BY <1>5, <2>1, <2>2, <3>1
  <2> QED BY <1>1, <1>7, <2>1, <2>2 DEF Evict
<1>8. ~Kill
  BY DEF Kill, Killed
<1> QED BY <1>1, <1>3, <1>4, <1>6, <1>7, <1>8 DEF Next, Tick, RequestFails, vars, history

LEMMA EvictedIsLeast ==
  ASSUME Sound, FrequenciesCount, ~restarted, Evict,
         NEW u \in Others, cache'[u] = NONE, NEW v \in Others
  PROVE  accesses[u] <= accesses[v]
<1>1. u \in Url /\ v \in Url /\ cache[u] # NONE /\ cache[v] # NONE
  BY DEF Others, Cached
<1>2. u \in LeastFrequent
  <2>1. PICK w \in LeastFrequent : cache' = Drop(cache, {w})
    BY <1>1 DEF Evict
  <2>2. u = w
    BY <1>1, <2>1 DEF Drop
  <2> QED BY <2>1, <2>2
<1>3. cache[u].frequency <= cache[v].frequency
  BY <1>2 DEF LeastFrequent
<1>4. cache[u].frequency = accesses[u] + 1 /\ cache[v].frequency = accesses[v] + 1
  BY <1>1 DEF FrequenciesCount, Counts
<1>5. accesses[u] \in Nat /\ accesses[v] \in Nat
  BY <1>1 DEF Sound, TypeOK
<1> QED BY <1>3, <1>4, <1>5

\* As long as the program runs, of the pages that may go the one that is evicted
\* was accessed the fewest times, though new entries start at 1, setContent adds
\* an access nobody made, and pages that went and came again count anew.
THEOREM LeastAccessedGoesFirst == Spec => LeastAccessedFirst
<1>1. Init => FrequenciesCount
  BY DEF Init, FrequenciesCount, Counts
<1>2. Sound /\ FrequenciesCount /\ [Next]_vars => FrequenciesCount'
  BY NextKeepsCounts
<1>3. Sound /\ FrequenciesCount /\ [Next]_vars =>
        [~restarted /\ Evict =>
           \A u \in Others : cache'[u] = NONE =>
              \A v \in Others : accesses[u] <= accesses[v]]_vars
  BY EvictedIsLeast
<1> QED BY <1>1, <1>2, <1>3, AlwaysSound, PTL DEF Spec, LeastAccessedFirst

-----------------------------------------------------------------------------
(* Making room.  First, induction with a set for what is to be shown. *)

LEMMA LeastNumber ==
  ASSUME NEW S, S \subseteq Nat, S # {}
  PROVE  \E n \in S : \A k \in S : n <= k
<1> DEFINE R == {p \in Nat \X Nat : p[1] < p[2]}
<1>1. IsWellFoundedOn(R, Nat)
  BY NatLessThanWellFounded DEF OpToRel
<1>2. PICK n \in S : \A k \in S : ~ (<<k, n>> \in R)
  <2> HIDE DEF R
  <2> QED BY <1>1, WFMin
<1>3. \A k \in S : n <= k
  <2> SUFFICES ASSUME NEW k \in S PROVE n <= k
    OBVIOUS
  <2>1. n \in Nat /\ k \in Nat /\ ~ (<<k, n>> \in R)
    BY <1>2
  <2>2. ~ (k < n)
    BY <2>1
  <2> QED BY <2>1, <2>2
<1> QED BY <1>3

\* A set of numbers that has 0, and every k up to n if it has k - 1.
LEMMA Counting ==
  ASSUME NEW n \in Nat, NEW A, 0 \in A,
         \A k \in 1 .. n : k - 1 \in A => k \in A
  PROVE  0 .. n \subseteq A
<1> DEFINE Missing == (0 .. n) \ A
<1>1. SUFFICES ASSUME Missing # {} PROVE FALSE
  OBVIOUS
<1>2. PICK m \in Missing : \A k \in Missing : m <= k
  <2> Missing \subseteq Nat
    OBVIOUS
  <2> HIDE DEF Missing
  <2> QED BY <1>1, LeastNumber
<1>3. m \in 1 .. n /\ m \notin A
  BY SMT
<1>4. m - 1 \notin Missing
  BY <1>2, <1>3
<1> QED BY <1>3, <1>4

\* A finite set of integers that is not empty has a least and a greatest.
LEMMA FiniteHasMin ==
  ASSUME NEW S, S \subseteq Int, S # {}, NEW b \in Int, \A x \in S : b <= x
  PROVE  Min(S) \in S /\ \A x \in S : Min(S) <= x
<1> DEFINE D == {x - b : x \in S}
<1>1. D \subseteq Nat /\ D # {}
  <2>1. \A x \in S : x \in Int /\ b <= x /\ x - b \in Nat
    OBVIOUS
  <2> QED BY <2>1
<1>2. PICK d \in D : \A e \in D : d <= e
  <2> HIDE DEF D
  <2> QED BY <1>1, LeastNumber
<1>3. PICK x \in S : d = x - b
  OBVIOUS
<1>4. \A y \in S : x <= y
  <2> SUFFICES ASSUME NEW y \in S PROVE x <= y
    OBVIOUS
  <2>1. d <= y - b
    BY <1>2
  <2> QED BY <1>3, <2>1
<1> QED BY <1>4 DEF Min

LEMMA FiniteHasMax ==
  ASSUME NEW S, S \subseteq Int, S # {}, NEW b \in Int, \A x \in S : x <= b
  PROVE  Max(S) \in S /\ \A x \in S : x <= Max(S)
<1> DEFINE D == {b - x : x \in S}
<1>1. D \subseteq Nat /\ D # {}
  <2>1. \A x \in S : x \in Int /\ x <= b /\ b - x \in Nat
    OBVIOUS
  <2> QED BY <2>1
<1>2. PICK d \in D : \A e \in D : d <= e
  <2> HIDE DEF D
  <2> QED BY <1>1, LeastNumber
<1>3. PICK x \in S : d = b - x
  OBVIOUS
<1>4. \A y \in S : y <= x
  <2> SUFFICES ASSUME NEW y \in S PROVE y <= x
    OBVIOUS
  <2>1. d <= b - y
    BY <1>2
  <2> QED BY <1>3, <2>1
<1> QED BY <1>4 DEF Max

LEMMA LeastIsMin ==
  ASSUME NEW S, S \subseteq Int, NEW m \in S, \A x \in S : m <= x
  PROVE  Min(S) = m
<1>1. PICK c : c = Min(S)
  OBVIOUS
<1>2. c \in S /\ c <= m
  BY <1>1 DEF Min
<1>3. c \in Int /\ m \in Int /\ m <= c
  BY <1>2
<1> QED BY <1>1, <1>2, <1>3

LEMMA GreatestIsMax ==
  ASSUME NEW S, S \subseteq Int, NEW m \in S, \A x \in S : x <= m
  PROVE  Max(S) = m
<1>1. PICK c : c = Max(S)
  OBVIOUS
<1>2. c \in S /\ c >= m
  BY <1>1 DEF Max
<1>3. c \in Int /\ m \in Int /\ c <= m
  BY <1>2
<1> QED BY <1>1, <1>2, <1>3

\* SizeOnDisk adds up the files in an order that does not depend on them.
Bytes(fs, n) == IF fs[n] = NONE THEN 0 ELSE fs[n].size
NextOf(U) == CHOOSE n \in U : TRUE
AddsUp(h, fs, U) ==
  h[U] = IF U = {} THEN 0 ELSE Bytes(fs, NextOf(U)) + h[U \ {NextOf(U)}]

LEMMA NameSets ==
  /\ Cardinality(Name) \in Nat
  /\ \A U \in SUBSET Name :
        /\ Cardinality(U) \in Nat /\ Cardinality(U) <= Cardinality(Name)
        /\ U # {} => /\ NextOf(U) \in U /\ U \ {NextOf(U)} \in SUBSET Name
                     /\ Cardinality(U \ {NextOf(U)}) = Cardinality(U) - 1
  /\ \A U \in SUBSET Name : Cardinality(U) <= 0 => U = {}
<1>1. IsFiniteSet(Name)
  BY CacheAssumption
<1>2. Cardinality(Name) \in Nat
  BY <1>1, FS_CardinalityType
<1>3. \A U \in SUBSET Name : IsFiniteSet(U) /\ Cardinality(U) \in Nat
                             /\ Cardinality(U) <= Cardinality(Name)
  BY <1>1, FS_Subset, FS_CardinalityType
<1>4. ASSUME NEW U \in SUBSET Name, U # {}
      PROVE  /\ NextOf(U) \in U /\ U \ {NextOf(U)} \in SUBSET Name
             /\ Cardinality(U \ {NextOf(U)}) = Cardinality(U) - 1
  <2>1. NextOf(U) \in U
    BY <1>4 DEF NextOf
  <2> QED BY <1>3, <2>1, FS_RemoveElement
<1>5. \A U \in SUBSET Name : Cardinality(U) <= 0 => U = {}
  BY <1>3, FS_EmptySet
<1> QED BY <1>2, <1>3, <1>4, <1>5

LEMMA BytesType ==
  ASSUME NEW fs \in [Name -> File \cup {NONE}], NEW n \in Name
  PROVE  Bytes(fs, n) \in Nat
BY DEF Bytes, File

LEMMA SumExists ==
  ASSUME NEW fs \in [Name -> File \cup {NONE}]
  PROVE  \E h \in [SUBSET Name -> Nat] : \A U \in SUBSET Name : AddsUp(h, fs, U)
<1> DEFINE UpTo(h, m) == \A U \in SUBSET Name : Cardinality(U) <= m => AddsUp(h, fs, U)
           A == {m \in Nat : \E h \in [SUBSET Name -> Nat] : UpTo(h, m)}
<1>1. 0 \in A
  <2> DEFINE g == [U \in SUBSET Name |-> 0]
  <2>1. UpTo(g, 0)
    BY NameSets DEF AddsUp
  <2>2. g \in [SUBSET Name -> Nat]
    OBVIOUS
  <2> HIDE DEF g
  <2> QED BY <2>1, <2>2
<1>2. ASSUME NEW k \in 1 .. Cardinality(Name), k - 1 \in A
      PROVE  k \in A
  <2>1. PICK f \in [SUBSET Name -> Nat] : UpTo(f, k - 1)
    BY <1>2
  <2> DEFINE Sum(U) == IF U = {} THEN 0
                       ELSE Bytes(fs, NextOf(U)) + f[U \ {NextOf(U)}]
             g == [U \in SUBSET Name |-> Sum(U)]
  <2>2. ASSUME NEW U \in SUBSET Name PROVE Sum(U) \in Nat
    <3>1. CASE U = {}
      BY <3>1
    <3>2. CASE U # {}
      <4>1. Bytes(fs, NextOf(U)) \in Nat /\ f[U \ {NextOf(U)}] \in Nat
        BY <3>2, NameSets, BytesType
      <4> QED BY <3>2, <4>1
    <3> QED BY <3>1, <3>2
  <2>3. g \in [SUBSET Name -> Nat] /\ \A U \in SUBSET Name : g[U] = Sum(U)
    <3> HIDE DEF Sum
    <3> QED BY <2>2
  <2>4. ASSUME NEW U \in SUBSET Name, Cardinality(U) <= k - 1
        PROVE  g[U] = f[U]
    <3>1. f[U] = Sum(U)
      BY <2>1, <2>4 DEF AddsUp
    <3> HIDE DEF g, Sum
    <3> QED BY <3>1, <2>3
  <2> HIDE DEF g
  <2>5. ASSUME NEW U \in SUBSET Name, Cardinality(U) <= k
        PROVE  AddsUp(g, fs, U)
    <3>1. CASE U = {}
      BY <3>1, <2>3 DEF AddsUp
    <3>2. CASE U # {}
      <4>1. PICK V \in SUBSET Name : V = U \ {NextOf(U)}
        BY <3>2, NameSets
      <4>2. Cardinality(V) <= k - 1
        BY <2>5, <3>2, <4>1, NameSets
      <4>3. g[V] = f[V]
        BY <4>2, <2>4
      <4>4. g[U] = Bytes(fs, NextOf(U)) + f[V]
        BY <3>2, <2>3, <4>1
      <4> QED BY <3>2, <4>1, <4>3, <4>4 DEF AddsUp
    <3> QED BY <3>1, <3>2
  <2>6. UpTo(g, k)
    BY <2>5
  <2> HIDE DEF UpTo
  <2> QED BY <2>3, <2>6
<1>3. Cardinality(Name) \in A
  <2> HIDE DEF A
  <2>1. 0 .. Cardinality(Name) \subseteq A
    BY <1>1, <1>2, NameSets, Counting
  <2> QED BY <2>1, NameSets
<1>4. PICK h \in [SUBSET Name -> Nat] : UpTo(h, Cardinality(Name))
  BY <1>3
<1>5. \A U \in SUBSET Name : AddsUp(h, fs, U)
  BY <1>4, NameSets
<1> QED BY <1>5

LEMMA SizeIsSum ==
  ASSUME NEW fs \in [Name -> File \cup {NONE}]
  PROVE  \E h : (\A U \in SUBSET Name : AddsUp(h, fs, U)) /\ SizeOnDisk(fs) = h[Name]
<1> DEFINE Eq(h) == h = [U \in SUBSET Name |->
                           IF U = {} THEN 0
                           ELSE (IF fs[CHOOSE n \in U : TRUE] = NONE THEN 0
                                 ELSE fs[CHOOSE n \in U : TRUE].size)
                                + h[U \ {CHOOSE n \in U : TRUE}]]
<1>1. \E h : Eq(h)
  <2>1. PICK h \in [SUBSET Name -> Nat] : \A U \in SUBSET Name : AddsUp(h, fs, U)
    BY SumExists
  <2>2. \A U \in SUBSET Name :
           h[U] = IF U = {} THEN 0
                  ELSE (IF fs[CHOOSE n \in U : TRUE] = NONE THEN 0
                        ELSE fs[CHOOSE n \in U : TRUE].size)
                       + h[U \ {CHOOSE n \in U : TRUE}]
    BY <2>1 DEF AddsUp, Bytes, NextOf
  <2>3. h = [U \in SUBSET Name |-> h[U]]
    OBVIOUS
  <2>4. Eq(h)
    BY <2>2, <2>3, Zenon
  <2> QED BY <2>4
<1>2. PICK iter : Eq(iter) /\ SizeOnDisk(fs) = iter[Name]
  BY <1>1 DEF SizeOnDisk, MapThenSumSet, MapThenFoldSet
<1>3. \A U \in SUBSET Name : AddsUp(iter, fs, U)
  BY <1>2 DEF AddsUp, Bytes, NextOf
<1> QED BY <1>2, <1>3

\* Smaller files take no more room, and less if one of them is smaller.
LEMMA LessRoom ==
  ASSUME NEW fs \in [Name -> File \cup {NONE}], NEW gs \in [Name -> File \cup {NONE}],
         \A n \in Name : Bytes(gs, n) <= Bytes(fs, n)
  PROVE  /\ SizeOnDisk(fs) \in Nat /\ SizeOnDisk(gs) \in Nat
         /\ \A y \in Name : Bytes(gs, y) < Bytes(fs, y) => SizeOnDisk(gs) < SizeOnDisk(fs)
<1>1. PICK f : (\A U \in SUBSET Name : AddsUp(f, fs, U)) /\ SizeOnDisk(fs) = f[Name]
  BY SizeIsSum
<1>2. PICK g : (\A U \in SUBSET Name : AddsUp(g, gs, U)) /\ SizeOnDisk(gs) = g[Name]
  BY SizeIsSum
<1> DEFINE Less(U) == /\ f[U] \in Nat /\ g[U] \in Nat /\ g[U] <= f[U]
                      /\ \A y \in U : Bytes(gs, y) < Bytes(fs, y) => g[U] < f[U]
           A == {m \in Nat : \A U \in SUBSET Name : Cardinality(U) <= m => Less(U)}
<1>3. Less({})
  <2>1. f[{}] = 0 /\ g[{}] = 0
    BY <1>1, <1>2 DEF AddsUp
  <2> QED BY <2>1
<1>4. 0 \in A
  <2> HIDE DEF Less
  <2> QED BY <1>3, NameSets
<1>5. ASSUME NEW k \in 1 .. Cardinality(Name), k - 1 \in A
      PROVE  k \in A
  <2>1. SUFFICES ASSUME NEW U \in SUBSET Name, Cardinality(U) <= k PROVE Less(U)
    OBVIOUS
  <2>2. CASE U = {}
    BY <1>3, <2>2
  <2>3. CASE U # {}
    <3>1. PICK n \in U, V \in SUBSET Name : n = NextOf(U) /\ V = U \ {n}
      BY <2>3, NameSets
    <3>2. Cardinality(V) <= k - 1
      BY <2>1, <2>3, <3>1, NameSets
    <3>3. Less(V)
      BY <1>5, <3>2
    <3>4. f[U] = Bytes(fs, n) + f[V] /\ g[U] = Bytes(gs, n) + g[V]
      BY <1>1, <1>2, <2>3, <3>1 DEF AddsUp
    <3>5. Bytes(fs, n) \in Nat /\ Bytes(gs, n) \in Nat /\ Bytes(gs, n) <= Bytes(fs, n)
      BY <3>1, BytesType
    <3>6. f[U] \in Nat /\ g[U] \in Nat /\ g[U] <= f[U]
      BY <3>3, <3>4, <3>5
    <3>7. ASSUME NEW y \in U, Bytes(gs, y) < Bytes(fs, y) PROVE g[U] < f[U]
      <4>1. CASE y = n
        BY <3>3, <3>4, <3>5, <3>7, <4>1
      <4>2. CASE y # n
        <5>1. g[V] < f[V]
          BY <3>1, <3>3, <3>7, <4>2
        <5> QED BY <3>3, <3>4, <3>5, <5>1
      <4> QED BY <4>1, <4>2
    <3> QED BY <3>6, <3>7
  <2> QED BY <2>2, <2>3
<1>6. Cardinality(Name) \in A
  <2> HIDE DEF A
  <2>1. 0 .. Cardinality(Name) \subseteq A
    BY <1>4, <1>5, NameSets, Counting
  <2> QED BY <2>1, NameSets
<1>7. Less(Name)
  <2> HIDE DEF Less
  <2> QED BY <1>6, NameSets
<1> QED BY <1>1, <1>2, <1>7

LEMMA SizeType ==
  ASSUME NEW fs \in [Name -> File \cup {NONE}]
  PROVE  SizeOnDisk(fs) \in Nat
<1>1. \A n \in Name : Bytes(fs, n) <= Bytes(fs, n)
  BY BytesType
<1> QED BY <1>1, LessRoom

\* A round that takes no room away evicts a page that was never written whole.
LEMMA EvictionMakesRoom ==
  ASSUME NamesDiffer, Sound, CachedIsOnDisk, NEW u \in Others,
         u \notin unwritten
  PROVE  SizeOnDisk(Delete(files, {u})) < SizeOnDisk(files)
<1>1. u \in Url /\ Cached(u)
  BY DEF Others
<1>2. PICK n \in Name : n = formName[u]
  BY <1>1, CacheAssumption
<1>3. files[n] # NONE /\ files[n].size = PageSize[u]
  BY <1>1, <1>2 DEF CachedIsOnDisk, IsWhole
<1>4. PICK fs : fs = Delete(files, {u})
  OBVIOUS
<1>5. files \in [Name -> File \cup {NONE}] /\ fs \in [Name -> File \cup {NONE}]
  BY <1>1, <1>4, DropKeeps DEF Sound, TypeOK
<1>6. fs[n] = NONE /\ \A m \in Name : fs[m] = NONE \/ fs[m] = files[m]
  BY <1>2, <1>4 DEF Delete
<1>7. \A m \in Name : Bytes(fs, m) <= Bytes(files, m)
  <2> SUFFICES ASSUME NEW m \in Name PROVE Bytes(fs, m) <= Bytes(files, m)
    OBVIOUS
  <2>1. Bytes(fs, m) = 0 \/ Bytes(fs, m) = Bytes(files, m)
    BY <1>6 DEF Bytes
  <2>2. Bytes(files, m) \in Nat
    BY <1>5, BytesType
  <2> QED BY <2>1, <2>2
<1>8. Bytes(fs, n) < Bytes(files, n)
  <2>1. Bytes(fs, n) = 0 /\ Bytes(files, n) = PageSize[u]
    BY <1>3, <1>6 DEF Bytes
  <2>2. PageSize[u] \in Nat \ {0}
    BY <1>1, CacheAssumption
  <2> QED BY <2>1, <2>2
<1> QED BY <1>4, <1>5, <1>7, <1>8, LessRoom

RoomAround(u) ==
  \/ maxSizeOnDisk <= 0
  \/ SizeOnDisk(files') <= maxSizeOnDisk
  \/ \A n \in Name : files'[n] # NONE => files'[n].url = u
  \/ Evict /\ unwritten' # unwritten

LEMMA NotTooLarge ==
  ASSUME NEW fs \in [Name -> File \cup {NONE}], ~TooLarge(fs)
  PROVE  maxSizeOnDisk <= 0 \/ SizeOnDisk(fs) <= maxSizeOnDisk
BY SizeType, CacheAssumption DEF TooLarge

LEMMA MissMakesRoom ==
  ASSUME Sound, NEW u \in Url, RequestMiss(u), pending' = NONE
  PROVE  RoomAround(u)
<1>1. PICK fs \in [Name -> File \cup {NONE}] : fs = files'
  BY MissKeepsSound DEF Sound, TypeOK
<1>2. ~TooLarge(fs)
  BY <1>1, CacheAssumption DEF RequestMiss
<1> QED BY <1>1, <1>2, NotTooLarge DEF RoomAround

LEMMA EvictMakesRoom ==
  ASSUME NamesDiffer, Sound, CachedIsOnDisk, NEW u \in Url, pending = u, Evict,
         pending' = NONE
  PROVE  RoomAround(u)
<1>1. CASE Others = {} /\ files' = files
  <2>1. \A n \in Name : files[n] # NONE => files[n].url = u
    BY <1>1 DEF Others, Sound, TypeOK, FilesAreCached, File
  <2> QED BY <1>1, <2>1 DEF RoomAround
<1>2. ASSUME NEW v \in LeastFrequent, files' = Delete(files, {v}),
             unwritten' = unwritten \ {v},
             pending' = IF TooLarge(files') /\ SizeOnDisk(files') # SizeOnDisk(files)
                          THEN pending ELSE NONE
      PROVE  RoomAround(u)
  <2>1. v \in Others /\ v \in Url
    BY DEF LeastFrequent, Others
  <2>2. PICK fs \in [Name -> File \cup {NONE}] : fs = files'
    BY EvictKeepsSound DEF Sound, TypeOK
  <2>3. CASE ~TooLarge(fs)
    BY <2>2, <2>3, NotTooLarge DEF RoomAround
  <2>4. CASE v \in unwritten
    BY <1>2, <2>4 DEF RoomAround
  <2>5. CASE TooLarge(fs) /\ v \notin unwritten
    <3>1. SizeOnDisk(fs) < SizeOnDisk(files)
      BY <1>2, <2>1, <2>2, <2>5, EvictionMakesRoom
    <3>2. SizeOnDisk(fs) \in Nat /\ SizeOnDisk(files) \in Nat
      BY SizeType DEF Sound, TypeOK
    <3>3. SizeOnDisk(fs) # SizeOnDisk(files)
      BY <3>1, <3>2
    <3>4. pending' = u
      BY <1>2, <2>2, <2>5, <3>3
    <3> QED BY <3>4, CacheAssumption
  <2> QED BY <2>3, <2>4, <2>5
<1> QED BY <1>1, <1>2 DEF Evict

\* When no two pages share a file name, a request that has made room leaves
\* files that fit, or only that of its own page, or has just evicted a page
\* whose write failed: requestURL stops evicting as soon as a round frees no
\* room, and only such a page frees none.
THEOREM RoomIsMadeForPages ==
  ASSUME NamesDiffer PROVE Spec => RoomIsMade
<1>1. Init => CachedIsOnDisk
  BY DEF Init, CachedIsOnDisk, Cached
<1>2. Sound /\ CachedIsOnDisk /\ [Next]_vars => CachedIsOnDisk'
  BY NextKeepsOnDisk
<1>3. Sound /\ CachedIsOnDisk /\ [Next]_vars =>
        [\A u \in Url :
           (RequestMiss(u) \/ (pending = u /\ Evict)) /\ pending' = NONE =>
              \/ maxSizeOnDisk <= 0
              \/ SizeOnDisk(files') <= maxSizeOnDisk
              \/ \A n \in Name : files'[n] # NONE => files'[n].url = u
              \/ Evict /\ unwritten' # unwritten]_vars
  BY MissMakesRoom, EvictMakesRoom DEF RoomAround
<1> QED BY <1>1, <1>2, <1>3, AlwaysSound, PTL DEF Spec, RoomIsMade
=============================================================================
