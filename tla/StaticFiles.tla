----------------------------- MODULE StaticFiles -----------------------------
(***************************************************************************)
(* The static files of QtWebApp (staticfilecontroller.cpp): one controller *)
(* serves the requests of all threads, from its cache or from the disk.    *)
(* The mutex covers the lookup and the insertion alone: between them the   *)
(* file is read while other threads, and whoever edits the files, go on.   *)
(* A file is replaced as a whole; version v of a file is its content       *)
(* between its (v-1)st and its v-th replacement.                           *)
(***************************************************************************)
EXTENDS Integers, Sequences, QCache

CONSTANTS Threads,
          Paths, Files,
          FileOf,             \* path -> file; a directory's is its index.html
          Outside,            \* the paths with "/.."
          Suffix, Size,       \* of every file
          cacheTimeout, maxCachedFileSize,
          maxCost,            \* of the QCache
          MaxTime, MaxEdits   \* bounds on the clock and on the versions

VARIABLES now,
          disk,               \* what open() finds for each file
          replaced,           \* file -> when its versions were replaced
          cache,              \* path -> CacheEntry
          recent,             \* the keys of the cache, last used first
          web                 \* the request each thread serves

vars == <<now, disk, replaced, cache, recent, web>>

Resting == [at |-> "idle"]

Init ==
  /\ now = 0
  /\ disk \in [Files -> {"readable", "locked", "missing"}]
  /\ replaced = [f \in Files |-> <<>>]
  /\ cache = <<>> /\ recent = <<>>
  /\ web = [t \in Threads |-> Resting]

Version(f) == Len(replaced[f]) + 1

MimeTypes == [png |-> "image/png", jpg |-> "image/jpeg", gif |-> "image/gif",
              pdf |-> "application/pdf", txt |-> "text/plain", html |-> "text/html",
              htm |-> "text/html", css |-> "text/css", js |-> "text/javascript",
              svg |-> "image/svg+xml", woff |-> "font/woff", woff2 |-> "font/woff2",
              ttf |-> "application/x-font-ttf", eot |-> "application/vnd.ms-fontobject",
              otf |-> "application/font-otf", json |-> "application/json",
              xml |-> "text/xml"]
setContentType(f) ==
  IF Suffix[f] \in DOMAIN MimeTypes THEN MimeTypes[Suffix[f]] ELSE "unset"

(* An entry goes to the cache.                                             *)
Insert(p, e) ==
  LET after == [q \in DOMAIN cache \cup {p} |-> IF q = p THEN e ELSE cache[q]]
      size == [q \in DOMAIN after |-> Size[after[q].filename]]
  IN /\ recent' = Inserted(recent, p, size, maxCost)
     /\ cache' = [q \in Range(recent') |-> after[q]]

(* service(): `now' of the source is the time the request began.           *)
Service(t, p) ==
  /\ web[t].at = "idle"
  /\ web' = [web EXCEPT ![t] = [at |-> "look", path |-> p, now |-> now]]
  /\ UNCHANGED <<now, disk, replaced, cache, recent>>

Answer(t, status, f, v, type) ==
  web' = [web EXCEPT ![t] = [at |-> "answered", path |-> web[t].path, now |-> web[t].now,
                             status |-> status, file |-> f, version |-> v, type |-> type]]
Refuse(t, status) == Answer(t, status, FileOf[web[t].path], 0, "unset")

InCache(t) ==
  LET p == web[t].path
  IN /\ p \in DOMAIN cache
     /\ cacheTimeout = 0 \/ cache[p].created > web[t].now - cacheTimeout

Hit(t) ==
  LET e == cache[web[t].path]
  IN /\ web[t].at = "look" /\ InCache(t)
     /\ recent' = Looked(recent, web[t].path)
     /\ Answer(t, 200, e.filename, e.version, setContentType(e.filename))
     /\ UNCHANGED <<now, disk, replaced, cache>>

Miss(t) ==
  /\ web[t].at = "look" /\ ~InCache(t)
  /\ recent' = Looked(recent, web[t].path)
  /\ web' = [web EXCEPT ![t].at = "open"]
  /\ UNCHANGED <<now, disk, replaced, cache>>

(* The file is opened and, being a file of one version, read.              *)
OpenFile(t) ==
  LET f == FileOf[web[t].path]
  IN /\ web[t].at = "open"
     /\ CASE web[t].path \in Outside -> Refuse(t, 403)
          [] web[t].path \notin Outside /\ disk[f] = "locked" -> Refuse(t, 403)
          [] web[t].path \notin Outside /\ disk[f] = "missing" -> Refuse(t, 404)
          [] OTHER -> IF Size[f] <= maxCachedFileSize
                      THEN web' = [web EXCEPT ![t] =
                             [at |-> "store", path |-> web[t].path, now |-> web[t].now,
                              file |-> f, version |-> Version(f)]]
                      ELSE Answer(t, 200, f, Version(f), setContentType(f))
     /\ UNCHANGED <<now, disk, replaced, cache, recent>>

StoreStampedLate(t) ==
  /\ web[t].at = "store"
  /\ Insert(web[t].path, [filename |-> web[t].file, version |-> web[t].version,
                          created |-> now])
  /\ Answer(t, 200, web[t].file, web[t].version, setContentType(web[t].file))
  /\ UNCHANGED <<now, disk, replaced>>
Store(t) ==
  /\ web[t].at = "store"
  /\ Insert(web[t].path, [filename |-> web[t].file, version |-> web[t].version,
                          created |-> web[t].now])
  /\ Answer(t, 200, web[t].file, web[t].version, setContentType(web[t].file))
  /\ UNCHANGED <<now, disk, replaced>>

Finished(t) ==
  /\ web[t].at = "answered"
  /\ web' = [web EXCEPT ![t] = Resting]
  /\ UNCHANGED <<now, disk, replaced, cache, recent>>

(* The files and the clock.                                                *)
Replace(f, state) ==
  /\ Len(replaced[f]) < MaxEdits
  /\ disk' = [disk EXCEPT ![f] = state]
  /\ replaced' = [replaced EXCEPT ![f] = Append(@, now)]
  /\ UNCHANGED <<now, cache, recent, web>>

Tick ==
  /\ now < MaxTime
  /\ now' = now + 1
  /\ UNCHANGED <<disk, replaced, cache, recent, web>>

Next ==
  \/ \E t \in Threads : \/ \E p \in Paths : Service(t, p)
                        \/ Hit(t) \/ Miss(t) \/ OpenFile(t) \/ Store(t) \/ Finished(t)
  \/ \E f \in Files : Replace(f, "readable") \/ Replace(f, "missing")
  \/ Tick

Spec == Init /\ [][Next]_vars

-------------------------------------------------------------------------------
CurrentSince(f, v, time) == v = Version(f) \/ replaced[f][v] >= time

(* What a request is given is the content its file had at some time within *)
(* cacheTimeout before the request began, or later, with the type of that  *)
(* file: whatever requests read and stored their copies in parallel, and   *)
(* even if the file was replaced between being read and being stored       *)
(* (service, which takes the time of an entry before it reads the file).   *)
ServedIsFresh ==
  \A t \in Threads :
    web[t].at = "answered" /\ web[t].status = 200 =>
      /\ web[t].file = FileOf[web[t].path] /\ web[t].path \notin Outside
      /\ web[t].type = setContentType(web[t].file)
      /\ cacheTimeout > 0 => CurrentSince(web[t].file, web[t].version,
                                          web[t].now - cacheTimeout)
===============================================================================
