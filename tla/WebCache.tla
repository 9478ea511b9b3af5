------------------------------ MODULE WebCache ------------------------------
(***************************************************************************)
(* The web cache of Laboratoare/Laborator6: pages kept in memory and in    *)
(* one file each, evicted least-frequently-used first when the files take  *)
(* too much room, and read back from the files when the program starts.    *)
(*                                                                         *)
(* The content of a page is the time it was fetched, which the program     *)
(* does not see: it goes by writeDate.  A request purges when it arrives,  *)
(* then looks its page up and may fetch it, and time passes in between.    *)
(* The program may be killed anywhere; it is started again at once, and    *)
(* WebCacheFile.init deletes the files that are not whole.  A write that   *)
(* fails leaves no file, or part of one, and the program goes on with the  *)
(* page in memory.                                                         *)
(***************************************************************************)
EXTENDS Integers, FiniteSets, FiniteSetsExt

CONSTANTS
  Url,
  Name,              \* file names
  formName,          \* Url -> Name: host, port and path, without the query
  PageSize,          \* Url -> the size of its page's file
  maxSizeOnDisk,
  maxTimeToKeepPage,
  NONE,
  MaxClock,          \* bound on the time
  MaxFrequency,      \* bound on the accesses to a page in the cache
  MaxUnwritten       \* bound on the pages in memory whose write failed

Time == 0 .. MaxClock
WebCacheEntry == [url: Url, content: Time, writeDate: Time, frequency: Nat]
File == [url: Url, content: Time, writeDate: Time, frequency: Nat, size: Nat]
Request == [url: Url, arrival: Time]

ASSUME CacheAssumption ==
  /\ IsFiniteSet(Name)
  /\ formName \in [Url -> Name]
  /\ PageSize \in [Url -> Nat \ {0}]
  /\ maxSizeOnDisk \in Int /\ maxTimeToKeepPage \in Int
  /\ MaxClock \in Nat /\ MaxFrequency \in Nat
  /\ NONE \notin Url \cup WebCacheEntry \cup File \cup Request

VARIABLES
  cache,     \* url -> WebCacheEntry, or NONE
  files,     \* name -> the page and what is written of it, or NONE
  request,   \* the request that has purged and not looked its page up, or NONE
  pending,   \* the url whose request is making room for its page, or NONE
  clock,
  served,    \* history: how old the page just served was when it was asked for
  accesses,  \* history: url -> accesses since its page was fetched
  unwritten, \* history: the pages in memory whose write failed
  restarted  \* history: has the program been killed?

history == <<served, accesses, unwritten, restarted>>
vars == <<cache, files, request, pending, clock, history>>

\* A fault: the page is put in the entry without setContent.
NewEntryUnstamped(u) ==
  [url |-> u, content |-> clock, writeDate |-> -1, frequency |-> 1]

\* setContent counts an access on top of the one an entry starts with.
NewEntry(u) == [url |-> u, content |-> clock, writeDate |-> clock, frequency |-> 2]

Cached(u) == cache[u] # NONE

SizeOnDisk(fs) ==
  MapThenSumSet(LAMBDA n : IF fs[n] = NONE THEN 0 ELSE fs[n].size, Name)
TooLarge(fs) == maxSizeOnDisk > 0 /\ SizeOnDisk(fs) > maxSizeOnDisk

Drop(m, us) == [u \in Url |-> IF u \in us THEN NONE ELSE m[u]]
\* removeEntry goes by the name, whoever's page the file holds.
Delete(fs, us) == [n \in Name |-> IF \E u \in us : formName[u] = n
                                    THEN NONE ELSE fs[n]]

\* The first bytes of the file of a page.
Part(e, bytes) == [url |-> e.url, content |-> e.content, writeDate |-> e.writeDate,
                   frequency |-> e.frequency, size |-> bytes]
IsWhole(f) == f.size = PageSize[f.url]
\* A fault: an entry that is read back takes the date of its reading.
EntryOfNow(f) == [url |-> f.url, content |-> f.content, writeDate |-> clock,
                  frequency |-> f.frequency]
EntryOf(f) == [url |-> f.url, content |-> f.content, writeDate |-> f.writeDate,
               frequency |-> f.frequency]

\* A fault: what is left of a write that failed is kept, and read.
KeepAny(fs) == fs
\* WebCacheFile.init: a file that is not whole is deleted; each of the others
\* gives back the entry it holds.
KeepWhole(fs) == [n \in Name |-> IF fs[n] # NONE /\ ~IsWhole(fs[n]) THEN NONE ELSE fs[n]]
ReadBack(fs) ==
  [u \in Url |-> IF \E n \in Name : fs[n] # NONE /\ fs[n].url = u
                   THEN EntryOf(fs[CHOOSE n \in Name : fs[n] # NONE /\ fs[n].url = u])
                   ELSE NONE]

\* A fault: a page is kept for a moment too long.
OldPagesLate == {u \in Url : /\ maxTimeToKeepPage > 0
                             /\ Cached(u)
                             /\ clock - cache[u].writeDate > maxTimeToKeepPage + 1}
OldPages == {u \in Url : /\ maxTimeToKeepPage > 0
                         /\ Cached(u)
                         /\ clock - cache[u].writeDate > maxTimeToKeepPage}
Forget(us) == [u \in Url |-> IF u \in us THEN 0 ELSE accesses[u]]

-----------------------------------------------------------------------------
Init ==
  /\ cache = [u \in Url |-> NONE]
  /\ files = [n \in Name |-> NONE]
  /\ request = NONE
  /\ pending = NONE
  /\ clock = 0
  /\ served = NONE
  /\ accesses = [u \in Url |-> 0]
  /\ unwritten = {} /\ restarted = FALSE

Tick == clock < MaxClock /\ clock' = clock + 1
        /\ UNCHANGED <<cache, files, request, pending, history>>

\* A fault: the old pages are left to be purged after the page is looked up.
PurgeLater(u) ==
  /\ request = NONE /\ pending = NONE
  /\ request' = [url |-> u, arrival |-> clock]
  /\ served' = NONE
  /\ UNCHANGED <<cache, files, pending, clock, accesses, unwritten, restarted>>

\* requestURL is called and purges the pages that are too old by now.
RequestURL(u) ==
  /\ request = NONE /\ pending = NONE
  /\ request' = [url |-> u, arrival |-> clock]
  /\ cache' = Drop(cache, OldPages)
  /\ files' = Delete(files, OldPages)
  /\ accesses' = Forget(OldPages)
  /\ unwritten' = unwritten \ OldPages
  /\ served' = NONE
  /\ UNCHANGED <<pending, clock, restarted>>

LooksUp(u) == request # NONE /\ request.url = u /\ request' = NONE

\* It finds its page, however much later.
RequestHit(u) ==
  /\ LooksUp(u)
  /\ Cached(u)
  /\ cache[u].frequency < MaxFrequency /\ accesses[u] < MaxFrequency
  /\ cache' = [cache EXCEPT ![u].frequency = @ + 1]
  /\ served' = request.arrival - cache[u].content
  /\ accesses' = [accesses EXCEPT ![u] = @ + 1]
  /\ UNCHANGED <<files, pending, clock, unwritten, restarted>>

\* It does not, and the page cannot be fetched.
RequestFails(u) ==
  /\ LooksUp(u)
  /\ ~Cached(u)
  /\ UNCHANGED <<cache, files, pending, clock, history>>

\* updateEntry deletes the file, then writes the page, or part of it, or
\* cannot even open the file; it reports nothing.
Update(u) ==
  \/ /\ files' = [files EXCEPT ![formName[u]] = Part(NewEntry(u), PageSize[u])]
     /\ unwritten' = unwritten \ {u}
  \/ /\ Cardinality(unwritten) < MaxUnwritten
     /\ \/ files' = [files EXCEPT ![formName[u]] = NONE]
        \/ \E bytes \in 0 .. PageSize[u] - 1 :
              files' = [files EXCEPT ![formName[u]] = Part(NewEntry(u), bytes)]
     /\ unwritten' = unwritten \cup {u}

\* It does not, and the fetched page may take room that others must give.
RequestMiss(u) ==
  /\ LooksUp(u)
  /\ ~Cached(u)
  /\ cache' = [cache EXCEPT ![u] = NewEntry(u)]
  /\ Update(u)
  /\ pending' = IF TooLarge(files') THEN u ELSE NONE
  /\ served' = request.arrival - clock
  /\ accesses' = [accesses EXCEPT ![u] = 1]
  /\ UNCHANGED <<clock, restarted>>

Others == {u \in Url : Cached(u) /\ u # pending}
\* A fault: the page that was fetched first goes first.
FirstFetched ==
  {u \in Others : \A v \in Others : cache[u].writeDate <= cache[v].writeDate}
LeastFrequent ==
  {u \in Others : \A v \in Others : cache[u].frequency <= cache[v].frequency}

\* Two faults: no file is deleted, and one page is evicted where more are in
\* the way.
EvictKeepsFile ==
  /\ pending # NONE
  /\ \E u \in Others : /\ cache' = Drop(cache, {u})
                        /\ accesses' = Forget({u}) /\ unwritten' = unwritten \ {u}
  /\ pending' = NONE
  /\ UNCHANGED <<files, request, clock, served, restarted>>
EvictOnce ==
  /\ pending # NONE
  /\ \/ Others = {} /\ UNCHANGED <<cache, files, accesses, unwritten>>
     \/ \E u \in LeastFrequent : /\ cache' = Drop(cache, {u})
                                  /\ files' = Delete(files, {u})
                                  /\ accesses' = Forget({u})
                                  /\ unwritten' = unwritten \ {u}
  /\ pending' = NONE
  /\ UNCHANGED <<request, clock, served, restarted>>

\* One round of the loop that makes room.  The enumeration of the Hashtable
\* decides between pages of the same frequency.
Evict ==
  /\ pending # NONE
  /\ \/ /\ Others = {}
        /\ pending' = NONE
        /\ UNCHANGED <<cache, files, accesses, unwritten>>
     \/ \E u \in LeastFrequent :
          /\ cache' = Drop(cache, {u})
          /\ files' = Delete(files, {u})
          /\ pending' = IF TooLarge(files') /\ SizeOnDisk(files') # SizeOnDisk(files)
                          THEN pending ELSE NONE
          /\ accesses' = Forget({u}) /\ unwritten' = unwritten \ {u}
  /\ UNCHANGED <<request, clock, served, restarted>>

\* The program is killed, perhaps while it purges or writes a file, and reads
\* the files that are left.
Killed(us) ==
  /\ files' = KeepWhole(Delete(files, us))
  /\ cache' = ReadBack(files')
  /\ request' = NONE /\ pending' = NONE
  /\ served' = NONE
  /\ accesses' = [u \in Url |-> IF cache'[u] = NONE THEN 0 ELSE accesses[u]]
  /\ unwritten' = {} /\ restarted' = TRUE
  /\ UNCHANGED clock

Kill ==
  \/ Killed({})
  \/ \E us \in SUBSET OldPages : request = NONE /\ pending = NONE /\ Killed(us)
  \/ request # NONE /\ ~Cached(request.url) /\ Killed({request.url})

Next ==
  \/ Tick
  \/ \E u \in Url : \/ RequestURL(u)
                    \/ RequestHit(u) \/ RequestFails(u) \/ RequestMiss(u)
  \/ Evict
  \/ Kill

Spec == Init /\ [][Next]_vars

-----------------------------------------------------------------------------
TypeOK ==
  /\ cache \in [Url -> WebCacheEntry \cup {NONE}]
  /\ files \in [Name -> File \cup {NONE}]
  /\ request \in Request \cup {NONE}
  /\ pending \in Url \cup {NONE}
  /\ clock \in Time
  /\ served \in Int \cup {NONE}
  /\ accesses \in [Url -> Nat]
  /\ unwritten \subseteq Url
  /\ restarted \in BOOLEAN

\* No page is served that had been fetched longer than maxTimeToKeepPage before
\* it was asked for (WebCache.java:40): the purge comes before the lookup, and
\* writeDate tells the age of the content in memory, in a file and after every
\* restart.
ServedIsFresh ==
  maxTimeToKeepPage > 0 /\ served # NONE => served <= maxTimeToKeepPage

\* Every file is the file of a page in memory, so whatever takes room on the
\* disk can be evicted.
FilesAreCached ==
  \A n \in Name : files[n] # NONE => Cached(files[n].url) /\ n = formName[files[n].url]

\* WebCache.java:85: a cached page is also on disk, whole and as it was fetched,
\* so that it is still there after a restart, unless its own write failed: no
\* failed write, purge, eviction or kill touches the file of another page.
CachedIsOnDisk ==
  \A u \in Url \ unwritten :
    Cached(u) => LET f == files[formName[u]] IN
                   /\ f # NONE /\ f.url = u /\ IsWhole(f)
                   /\ f.content = cache[u].content /\ f.writeDate = cache[u].writeDate

\* Once a fetched page has been served, the files fit in maxSizeOnDisk or hold
\* nothing but that page, unless the last page evicted was never written whole.
RoomIsMade ==
  [][\A u \in Url :
       (RequestMiss(u) \/ (pending = u /\ Evict)) /\ pending' = NONE =>
          \/ maxSizeOnDisk <= 0
          \/ SizeOnDisk(files') <= maxSizeOnDisk
          \/ \A n \in Name : files'[n] # NONE => files'[n].url = u
          \/ Evict /\ unwritten' # unwritten]_vars

\* As long as the program runs, the page that is evicted is one that was
\* accessed the fewest times, though its frequency counts from 2.
LeastAccessedFirst ==
  [][~restarted /\ Evict =>
        \A u \in Others : cache'[u] = NONE =>
           \A v \in Others : accesses[u] <= accesses[v]]_vars
=============================================================================
