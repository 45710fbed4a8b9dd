---------------------------- MODULE TemplateCache ----------------------------
(***************************************************************************)
(* Finding a template for the languages of a browser (templateloader.cpp)  *)
(* through the cache of QtWebApp (templatecache.cpp), which remembers too  *)
(* that a file does not exist.  A file is read with the mutex taken, but   *)
(* the document of an entry is copied after the mutex was released, when   *)
(* another thread may have replaced the entry, or dropped it for want of   *)
(* room: the thread then copies from memory that was given back (Freed).   *)
(***************************************************************************)
EXTENDS Integers, Sequences, SequencesExt, QCache

CONSTANTS Threads,
          Languages,          \* the values of Accept-Language
          Locales,            \* value -> its locales, as <<language, country>>
          Default,            \* language or country of the file without one
          Freed,
          cacheTimeout, maxCost,
          MaxTime, MaxEdits   \* bounds

FileNames == {<<Default, Default>>}
           \cup UNION {{loc, <<loc[1], Default>>} : loc \in UNION {Range(Locales[l]) : l \in Languages}}

VARIABLES now,
          disk,               \* name -> the sizes of its documents, the last is on the disk;
                              \* 0: empty, unreadable or no file
          replaced,           \* name -> when they were replaced
          cache,              \* name -> CacheEntry
          recent,             \* the keys of the cache, last used first
          web

vars == <<now, disk, replaced, cache, recent, web>>

Resting == [at |-> "idle"]

Init ==
  /\ now = 0
  /\ disk \in [FileNames -> {<<0>>, <<1>>}]
  /\ replaced = [f \in FileNames |-> <<>>]
  /\ cache = <<>> /\ recent = <<>>
  /\ web = [t \in Threads |-> Resting]

(* The names getTemplate tries: the exact locales, then their languages,   *)
(* then the default.                                                       *)
Tries(locs) ==
  LET all == locs \o [k \in DOMAIN locs |-> <<locs[k][1], Default>>]
  IN Append(all, <<Default, Default>>)

(* getTemplate                                                             *)
GetTemplate(t, l) ==
  /\ web[t].at = "idle"
  /\ web' = [web EXCEPT ![t] = [at |-> "next", asked |-> now, names |-> Tries(Locales[l]),
                                k |-> 1, now |-> now, document |-> 0]]
  /\ UNCHANGED <<now, disk, replaced, cache, recent>>

Name(t) == web[t].names[web[t].k]

(* A name that was tried before is not tried again.                        *)
Tried(t) ==
  web[t].k < Len(web[t].names) /\ \E j \in 1..(web[t].k - 1) : web[t].names[j] = Name(t)

Skip(t) ==
  /\ web[t].at = "next" /\ Tried(t)
  /\ web' = [web EXCEPT ![t].k = @ + 1]
  /\ UNCHANGED <<now, disk, replaced, cache, recent>>

(* tryFile: the clock is read before the mutex is taken.                   *)
TryFile(t) ==
  /\ web[t].at = "next" /\ ~Tried(t)
  /\ web' = [web EXCEPT ![t].at = "try", ![t].now = now]
  /\ UNCHANGED <<now, disk, replaced, cache, recent>>

YoungOrAbsent(t) ==
  /\ Name(t) \in DOMAIN cache
  /\ \/ cacheTimeout = 0 \/ cache[Name(t)].document = 0
     \/ cache[Name(t)].created > web[t].now - cacheTimeout
Young(t) ==
  /\ Name(t) \in DOMAIN cache
  /\ cacheTimeout = 0 \/ cache[Name(t)].created > web[t].now - cacheTimeout

(* A cached document that is young enough, about to be copied.             *)
Cached(t) ==
  /\ web[t].at = "try" /\ Young(t)
  /\ recent' = Looked(recent, Name(t))
  /\ web' = [web EXCEPT ![t].at = "copy"]
  /\ UNCHANGED <<now, disk, replaced, cache>>

(* The file is read, and stored even if there is none; insert() deletes an *)
(* entry larger than the cache at once.  Whoever was about to copy from an *)
(* entry that goes has a dangling pointer.                                 *)
Load(t) ==
  LET f == Name(t)
      document == Last(disk[f])
      after == [g \in DOMAIN cache \cup {f} |->
                  IF g = f THEN [document |-> document, created |-> web[t].now] ELSE cache[g]]
      size == [g \in DOMAIN after |-> after[g].document]
  IN /\ web[t].at = "try" /\ ~Young(t)
     /\ recent' = Inserted(recent, f, size, maxCost)
     /\ cache' = [g \in Range(recent') |-> after[g]]
     /\ web' = [u \in Threads |->
                  IF u = t
                  THEN [web[t] EXCEPT !.at = IF f \in DOMAIN cache' THEN "copy" ELSE "dangling"]
                  ELSE IF web[u].at = "copy" /\ (Name(u) = f \/ Name(u) \notin DOMAIN cache')
                       THEN [web[u] EXCEPT !.at = "dangling"] ELSE web[u]]
     /\ UNCHANGED <<now, disk, replaced>>

(* The document is copied; an empty one makes getTemplate try the next     *)
(* name.                                                                   *)
CopyDocument(t) ==
  LET document == IF web[t].at = "copy" THEN cache[Name(t)].document ELSE Freed
  IN /\ web[t].at \in {"copy", "dangling"}
     /\ web' = IF document = 0 /\ web[t].k < Len(web[t].names)
               THEN [web EXCEPT ![t].at = "next", ![t].k = @ + 1]
               ELSE [web EXCEPT ![t].at = "answered", ![t].document = document]
     /\ UNCHANGED <<now, disk, replaced, cache, recent>>

Rendered(t) ==
  /\ web[t].at = "answered"
  /\ web' = [web EXCEPT ![t] = Resting]
  /\ UNCHANGED <<now, disk, replaced, cache, recent>>

Edits == FoldFunction(LAMBDA s, n : n + Len(s), 0, replaced)

Replace(f, document) ==
  /\ Edits < MaxEdits
  /\ document # Last(disk[f])
  /\ disk' = [disk EXCEPT ![f] = Append(@, document)]
  /\ replaced' = [replaced EXCEPT ![f] = Append(@, now)]
  /\ UNCHANGED <<now, cache, recent, web>>

Tick ==
  /\ now < MaxTime
  /\ now' = now + 1
  /\ UNCHANGED <<disk, replaced, cache, recent, web>>

Next ==
  \/ \E t \in Threads : \/ \E l \in Languages : GetTemplate(t, l)
                        \/ Skip(t) \/ TryFile(t) \/ Cached(t) \/ Load(t)
                        \/ CopyDocument(t) \/ Rendered(t)
  \/ \E f \in FileNames : \E document \in 0..(maxCost + 1) : Replace(f, document)
  \/ Tick

Spec == Init /\ [][Next]_vars

-------------------------------------------------------------------------------
WasOnDisk(f, document, since) ==
  \E v \in DOMAIN disk[f] : /\ disk[f][v] = document
                            /\ v = Len(disk[f]) \/ replaced[f][v] >= since

(* A browser gets the first template of its list of languages: the one it  *)
(* gets was on the disk, and every file before it in the list was not, at  *)
(* some time within cacheTimeout before it asked, or later, for what the   *)
(* cache remembers of other requests counts for no longer (getTemplate,    *)
(* tryFile).  Without a timeout the cache remembers for ever.              *)
BestTemplateIsGiven ==
  \A t \in Threads :
    web[t].at = "answered" /\ web[t].document # Freed /\ cacheTimeout > 0 =>
      \A k \in 1..web[t].k :
        WasOnDisk(web[t].names[k], IF k < web[t].k THEN 0 ELSE web[t].document,
                  web[t].asked - cacheTimeout)
===============================================================================
