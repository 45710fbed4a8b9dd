# TestDisplay in TLA+

TestDisplay is a Qt program that shows a heading and a message on a screen of a
test bench. Scripts are started on it by key, by touch, by a TCP port, by a web
page and by a schedule; one script runs at a time, and a database keeps a
journal of the runs. This directory holds TLA+ models of that program, the TLC
configurations that check them and the proofs TLAPS checks.

    tlc -workers 2 -config script_safety.cfg MCScriptControl     # a run
    tlapm ScriptControlProofs.tla                                # a proof

`PROJECT.json` lists the runs with their properties, the lines of code each
definition stands for, the hazards of the code and the theorems.

## 1. The system

Two kinds of threads make it up. The **main thread** runs the Qt event loop:
keys, touches, timers, the TCP port, the notifiers of the script's process, the
schedule, the file watcher, the accepting of web connections and the clean-up
of their handlers. Each **connection handler** of the web server has a thread
of its own, which reads a request, builds the page and writes it.

| component | state | operations | who calls it |
| --- | --- | --- | --- |
| `MainWindow`, scripts (`mainwindow.cpp`) | `bgRunning`, `runningScriptName`, `scriptLogFile`, `bgProcess` | `startBgProcess`, `stopBgProcess`, `processComplete` | keys, touch, port, schedule, and web threads by queued signals |
| `MainWindow`, TCP port | `tcpServer`, sockets, display fields | `onReadReady`, `parseText`, 15 commands | TCP clients, among them the Python driver |
| `MainWindow`, display | heading, message, style, timers | setters, `paintEvent`, menus | all of the above |
| `TestScriptMgr` | list of scripts | `load`, `getScriptForKey` | start of the program; keys, port, web |
| `LinuxProcessManager` | the entries of the last scan of `/proc` | `update`, `getProcessesWithParent` | `stopBgProcess` |
| `DatabaseLogger` | connection, `lastStartId` | `handleLog`, `getRecentTable` | script control; status page |
| `Scheduler` | `events`, switch, watcher | `loadSchedule`, `timeout`, `html` | timer, watcher, port, `/info` page |
| `RunGuard` | shared memory segment, semaphore | constructor, `tryToRun`, `release` | `main` |
| `TestDisplayRequestHandler` | none of its own | `service` and its pages | web threads, under `mainMutex` |
| `HttpListener`, pool, `HttpConnectionHandler` | pool, `busy`, socket, read timer, current request | accept, `read`, `readTimeout`, `disconnected`, `cleanup` | event loops of the main and of the handler threads |
| `HttpRequest`, `HttpResponse`, `HttpCookie` | the request, the answer so far | `readFromSocket`, `write` | connection handlers |
| styles (`DisplayStyle`, `DisplayXMLParser`) | list of styles | parsed once | start of the program, port |
| Python driver (`display_driver.py`, `test-display.py`) | its socket | one method for each command | demonstrations and unit tests, over the port |
| `HttpSessionStore`, `HttpSession` | `sessions`, counted data of each | `getSession`, `removeSession`, timer | a server's handlers; not this program's |
| `StaticFileController` | `cache` | `service` | as above |
| `TemplateLoader`, `TemplateCache`, `Template` | `cache`; the text | `getTemplate`, `setVariable`, `setCondition`, `loop` | as above |
| `Logger`, `FileLogger` (of QtWebApp, not built in) | buffers, file, backups | `log`, `timerEvent`, `refreshSettings` | Qt's message handler |

The sessions, static files and templates of QtWebApp are built in, but no code
of the program calls them; the logging is there as source only. They are
modelled as the server they were written for, with a thread for each request,
uses them.

What is hard about it:

* `startBgProcess` blocks the main thread in `waitForStarted` while web threads
  post further starts and stops, which are delivered to a state that changed;
* a stop looks for the child of the script in `/proc`, where processes come and
  go and numbers are used again, and signals it later;
* a START row may fail to be stored, and the rows that refer to it come later;
* the schedule fires in second 0 of a minute only and is re-read from a file
  that editors write in place or replace;
* port clients share one display, may send many lines at once, quit or hang up
  in between, and `KILL` ends the server from within one of its sockets;
* web threads take `mainMutex`, then `schedMutex` or `dbMutex`; the main thread
  takes `schedMutex` and starts a script under it;
* the driver takes the next thing it receives for the answer to its last call;
* requests arrive cut anywhere, styles in any order, template tags nested;
* the session timer, the caches and the rotation of logs work on what other
  threads are using, and a program may end in the middle of each;
* a connection handler is given away by the main thread and freed by its own,
  from inside the functions that are still working with the connection;
* a process that dies leaves a shared memory segment behind.

The properties that make each part correct are those of section 3. Every hazard
is listed in `PROJECT.json` with its line and the properties about it.

## 2. Modules

Actions carry the names of the functions they model, a handler is one action
unless it waits (then it is one action for each stretch between two waits), and
variables carry the names of the members they stand for. Helper operators whose
comment begins with *Mutant* are wrong variants of the operator that follows:
they show that the properties of a run can fail.

**ScriptControl** models the life of a script. `pc` says where the main thread
is: in the event loop, in `waitForStarted`, or between the scan of `/proc` and
`kill`. All callers are there: keys, touch, `RUNK` and `STOP`, the schedule,
and the web threads, which only append to `queue`. `proc` is the QProcess and
`kids` what the scan may find. Temporary files are numbers, `written` says whose
output they hold. Inserts into the database fail at will. With
`StartTimeouts = TRUE` `waitForStarted` may give up on an exec that succeeds
later. `Destroy` is the destruction of the window with a script still running.

**JobJournal** is the abstract promise: one slot, and a journal in which the
rows of a job stand together and name its START. ScriptControl implements it
(`ImplementsJobJournal`): `slot` is `runningScriptName`, `start` is
`lastStartId` while a script runs, `rows` is the event table.

**RunGuard** has one action for each call of `QSystemSemaphore` and
`QSharedMemory`. Processes come, go and die anywhere; the kernel detaches a
dead process and undoes its semaphore operations (`SEM_UNDO`, as Qt asks for),
but it leaves the segment. `cleaned` is a history variable: the processes that
looked for a leftover since the last death.

**Scheduler** has a clock in seconds, parametrised by the length of a minute
and of a day, `Timeout` for the 1000 ms timer, loading of the file event by
event, the watcher, edits in place (also half written) and by replacement, the
saved switch and restarts after a close or a crash. `HoldUp` is another handler
of the main thread that takes its time: a second may then see no timeout, or
two. `steady` is a history variable: nothing of the kind happened since the
second began, and neither file nor switch was touched. A time that does not
parse is `NoTime`, a mask that does not have seven characters is `BadDow`.

**ControlPort** has the lines of a client as `[cmd, args]`, in the kernel
(`wire`), in the socket (`buffer`) and answered (`answers`). `onReadReady` is
`ReadyRead`, one step for each line, and `ReadDone`: other clients send in
between. All 15 commands are there with their checks. `QUIT`, `KILL` and the
undefined cases (an empty line, a negative style) are actions of their own. Of
a script the port sees only whether one runs.

**WebDisplay** has what the threads share. A handler is a sequence of steps:
lock, unlock, an assignment or a reading of a shared field, sending the page.
Threads interleave between any two steps, mutexes are recursive, and a text
read while it is assigned comes out old or garbled. `raced` marks a page during
which the program changed its own message without `mainMutex`, which
`startBgProcess`, `stopBgProcess` and `resetText` do.

**HttpPool** has the listener, the pool and the connection handlers. A request
comes in pieces: something short of the end, the end (after which the
connection is kept or closed), or the byte that makes it too large. `pc` is the
place in `read` or `readTimeout`. While a thread waits for its client to take
what was written, `disconnected` and a nested `read` run inside that wait.
`timer` names the client it was started for. A descriptor may turn out to be
unusable.

**ProcessTable** is the scan behind a stop. The kernel forks, ends and reaps
processes and gives their numbers out in turn, while `update` fetches the names
in `/proc` in blocks of any size, opens the two files of each and `stopBgProcess` signals
the first whose parent is the script. `stayed` is a history variable: the
children that were there from the first step on.

**PortDriver** EXTENDS ControlPort with the driver on one connection: a method
sends its lines and takes whatever `recv` returns for the answer, Ctrl-C may
come in between. The programs are the demonstration of `main` and the unit
tests, and one that sets headings somebody else gave it (with a colon, with two
lines, empty). A reply arrives whole, and the loop of the demonstration is gone
through once.

**HttpRequest** is `readFromSocket` with its states, limits and multipart
parts, driven as `HttpConnectionHandler::read` drives it, with the network
cutting the stream anywhere. The reference `Expected` reads a request at once.
A byte is a word; the words of a header or of a multipart line are one each.

**HttpResponse** is the writing of a response with the part of
`HttpConnectionHandler::read` that ends it: length, chunks or the end of the
connection. **HttpCookie** writes and parses `Set-Cookie`; a text is the
sequence of its words and separators.

**HttpSessionStore** has the store, its timer and the handles of the threads,
which are counted, with their copies and assignments. A call that takes the lock
twice is two actions. **StaticFiles** and **TemplateCache** have caches
(**QCache**) that threads look up and fill under a mutex while the files on the
disk are replaced. **FileLogger** has the message handler, buffers, write
errors, flushing, the rotation rename by rename, a new file name, and the end of
the program in order or at any step. **WebApp** composes the four with
HttpResponse and DisplayStyles; its `ASSUME`s are those of their parameters,
what the words of a cookie may be, that a handler writes words, and that the
styles of a file have elements the parser knows.

**Template** fills a template one iteration of a `while` loop of the code at a
time; `Meaning` is the reference, from the tree the text was made from (both,
like the text itself, are recursive functions on the trees in `Forests`).
**DisplayStyles** is the style parser, event by event, with `Described` as the
reference. **Formats** composes HttpRequest, Template, PortDriver and
ProcessTable; its `ASSUME`s say that a client sends requests made of words,
whatever they are, that texts have a line, and that the script has a number. **Lists** holds what
these modules need of sequences: a fold goes from index to index, so that a
proof can follow it; those of SequencesExt go through sets of indices.

`MC*.tla` only define the finite instances. WebApp and Formats hold several
components that share nothing: each behaviour has one *scene*, the module whose
variables move, and those of the others are idle. So each is explored as if
alone. `*Proofs.tla` hold the theorems.

The models are composed by their interfaces rather than in one state space:
ControlPort, Scheduler and WebDisplay each have the part of script control
they see (a running script, a start that succeeds or fails), and ScriptControl
has all their calls as actions that may happen at any time. PortDriver is a
composition: the driver and the port take turns over one connection.

## 3. Runs

| run | distinct states | shows |
| --- | --- | --- |
| `script_safety` | 350 738 | starts do not time out. What is reported running is what runs, with its log file; SIGINT goes to the script it is meant for; rows name their own START; no output is left behind; the journal implements JobJournal; a script that ended frees slot and file |
| `script_timeouts` | 520 860 | starts may time out: `processComplete` still finds a log file whenever a process may finish |
| `script_stop_ok` | violation | `STOP` answers `OK` although nothing was signalled |
| `runguard` | 19 663 | three processes, two deaths: one runs at most, nobody is refused without reason, a new process never takes the segment of the running one, every start is answered |
| `sched` | 216 658 | three minutes over midnight, edits in place and by replacement, one delay or restart: every due command runs, no timeout starts two, events are of one file, the web table shows what will run, a valid file the watcher still has is in force in the end |
| `sched_replaced` | violation | after one replacement the watcher has lost the file |
| `port` | 235 518 | one client with all commands, their failures and lines that are none, or two clients on one display; the port may be taken: replies follow requests, `FAIL` changes nothing, `STAT` shows the last successful write of anybody, every line is answered |
| `port_kill` | violation | the reply to `KILL` is written to a deleted socket |
| `web` | 184 314 | two web threads and the main thread: no thread stuck, a page is a snapshot, the table is of one file |
| `http_pool` | 147 275 | two handlers, two clients, three connections: a free handler is unused, an accepted connection has one handler, no slot is lost, no request is mixed, an idle client has its own timer, every connection ends |
| `webapp` | 3 591 928 | *sessions*: data live as long as their handles, the timer keeps what was used in time; *files*: what is served is no older than the cache allows, with the type of its file; *templates*: the best language on the disk is given; *log*: rotation drops the oldest messages only, also over a crash; *response*: the client can tell what was written and where it ends; *styles*: the window has those of the file |
| `formats` | 1 047 151 | *request*: parsed as sent however it is cut, none accepted beyond the limits; *template*: rendered as the tree of its tags means; *driver*: what a program is told is true of the display; *processes*: a child that stays is found, no stranger is signalled unless a number was given anew |

### Bounds

* `script_*`: two scripts that share a key (so that the first is taken) and an
  unknown key, one child, two temporary files, one queued event. Two runs are
  what it takes for one to inherit from another; a second queued event would
  only wait behind the first.
* `runguard`: three processes are a runner, one that starts and one that
  cleans up; two deaths cover a death of each of two roles.
* `sched`, `sched_replaced`: days of two minutes of two seconds, from Saturday
  on, so that Sunday's two numberings and midnight are crossed within the six
  seconds of `Horizon`. The two files have a conflict with the first and not
  the last of two events, invalid times and masks. Two edits are a broken or
  half written file and its repair, or a change after a replacement; `MaxUpsets`
  allows one delay or one restart.
* `port`, `port_kill`: two lines a client. One client sends each pair of 29
  lines, every command with its failures among them; two clients send a write,
  a reset and statuses, so that there are two writes and what is shown between
  and after them. `may` says which of the two a behaviour is.
* `web`: two handlers of the main thread against two pages.
* `http_pool`: three connections on two handlers, so that one is refused or a
  handler is used again; two pieces of requests, one failing descriptor.
* `webapp`: two threads everywhere, interchangeable, as are the two session
  ids. A clock of two units with a time-out of one lets an entry or a session
  be fresh, just in time and too old. The caches have room for one entry, with
  a file that is too large for them; one replacement, since a race needs one
  between reading and storing. Sessions last as long as the clock does not move,
  and it moves once (`expirationTime`, `MaxSessionTime`). Four messages fill log,
  backups and one more; a crash, a change of the name. `MaxFiles` backups are
  more than there ever are; where they would not be, a rotation does not begin. Two writes
  of a handler are what it takes to leave the buffer for chunks. `Word` and
  `Number` are what the four cookies are made of. Styles have up to three of six
  elements in every order.
* `formats`: eight clients, of which each sends one or two requests: a query, a
  form, cookies, files, a multipart body that ends early, lengths that are
  negative, too large or not those of the body, header lines without a name. `maxSize` and `maxMultiPartSize` lie
  between the sizes of these requests, and `ReadBlock` (64 KB in the code) is
  shorter than the bodies. The four templates have loops in loops, conditions in loops, one name
  in several places and a condition without end, with up to two repetitions.
  Five numbers for six
  processes and blocks of any size, so that numbers are used again while the
  scan is half way. `Forests` are the templates and the bodies in them.

Deadlock is checked in `script_*`, `runguard` and `port*`. The others stop when
a bound is reached or the document is read; a stuck thread is seen in `web` and
`http_pool` by the liveness properties.

### Fairness

* ScriptControl: `waitForStarted` returns (it has a time limit) and `kill`
  returns: weak. `ProcessComplete` and `Dispatch`: strong, since the event loop
  comes to every notifier and posted event that stays ready, whatever handlers
  it serves in between. Nothing is assumed of scripts, users and clients.
* RunGuard: strong fairness of a process that waits for the semaphore: the
  kernel wakes waiters of a System V semaphore in order.
* Scheduler: loading goes on, a held-up main thread comes back, and the watcher
  is served (strong, as above). Not assumed: that the user stops editing; the
  property says what follows if so.
* ControlPort: the loop of `onReadReady` goes on, and readable sockets are
  served.
* WebDisplay: every thread goes on, and a free mutex comes to each that waits
  for it (strong). This assumes that **a client takes its page or hangs up**:
  beyond 16 KB `HttpResponse::writeToSocket` waits without limit, under
  `mainMutex`.
* The scenes of `webapp` and `formats` have no liveness property and no
  fairness.
* HttpPool: threads and the accepting go on (weak), and clients take their
  answers. That a client sends or hangs up is not assumed: the read timer is
  there for it.

## 4. Proofs

For any scripts, clients, lines, files, clocks, processes, handlers and
settings that satisfy the `ASSUME` of the module:

* **ScriptControlProofs**. `TypeCorrectness` includes `LogFileIsOwned`, also
  with timed out starts. If `StartTimeouts = FALSE`: `StatusIsExact`,
  `OutputIsNotStranded` and the refinement `JournalIsImplemented`. What is
  reported, by itself, is not inductive: `SlotInv` ties the slot to the process
  in every place of the main thread (while it waits the process is the one that
  was asked for; a process exists only if a script is reported or being
  started), and `LogInv` ties each file to the run that may write to it.
  `RowsReferRight` is proved from the steps of `JobJournal` that the refinement
  gives, with `StartIsLast`: as long as a run has a START row, it is the last row
  of the journal, so that what the run appends stands right after it.
* **RunGuardProofs**. `OneInstance`, `SegmentIsKept`, `MutualExclusion` and
  `RefusalsAreJust` come from `GuardInv`: who may be attached, that a creator
  is alone, that the answers of the calls are fresh, and that since a cleanup a
  segment without users is one that was just created.
* **SchedulerProofs**. `ScheduleHasNoConflicts`: whatever files are loaded, no
  two events in force are for one moment. With `FiredInv` (nothing was run in
  the future or by a later timeout) `OneCommandPerTimeout` follows: no timeout
  starts two commands (`NeverTwice`). `TableShowsWhatRuns`: counting days from
  Sunday, as the table does, and as `isEventTime` gets them from Qt comes to the
  same for every clock. `DueCommandsRun`: in a second that is `steady` the main
  thread is at its loop when the second ends (`SteadyIsAtLoop`) and the timeout
  of its first tick has run what was due (`DueHaveRun`).
  `EventsInForceAreOfOneFile`: while a file is loaded, the events so far are
  what the reference `Accepted` computes from the part that was read; at the
  loop, that part is the whole file.
* **ControlPortProofs**. `TypeCorrectness` includes that the style on display
  is one that is loaded. `RepliesInOrder` needs `AnswersInv`: what a client
  sent is what was answered, what the socket has and what the kernel has, in
  this order, and after `QUIT` nothing is read. For the other two properties
  each step of the loop has the `Effects` of one line and reply, or writes no
  reply. `FailedCommandsDoNothing` follows at once; `StatusIsUpToDate` by
  `StatusInv`: the display, too, is what a status would have to tell now. As
  `LIST` answers with the names themselves, it assumes that none is `STAT`.
* **HttpPoolProofs**. `FreeHandlers` needs that a handler outside the pool and
  one that is being deleted are not busy (`SlotInv`), so that no new or freed
  handler comes with a client. `RequestsAndTimers` needs that the thread that is
  reading has its timer running, unless it came from `readTimeout`.
  `NoSlotIsLostForever` compares the set of handlers that are busy for nobody
  with the number of descriptors that failed: each step adds at most one to
  both. `RequestsAreNotMixed` is a corollary of `RequestsAndTimers`.
  `NoConnectionIsForgotten` adds that only accepted clients are with a handler
  (`HeldInv`); as such a handler is busy, `cleanup` deletes none of them.
* **WebDisplayProofs**, for any number of web threads, any texts and any
  versions of the schedule. `LockInv`: the steps a thread has left can be
  annotated, for each mutex, with how often the thread holds it before each
  step (`Annotates`), 0 after the last and what `holder` and `depth` say at the
  first; a text is read and set where that is at least 1, half of the schedule
  is set where it is 2. That every list of `Handlers` and of `service` can be
  annotated is proved list by list. `LoadInv`: the halves of the schedule differ
  only while the main thread is between setting one and the other (`Midway`),
  where it has schedMutex. `WebInv`: a thread that has read the first of two
  fields reads the second next. `ShowInv`, that what was read first still
  holds, then follows from mutual exclusion, and with it `PagesAreSnapshots` and
  `TablesAreOfOneFile`. The proof needs that no text or version is the value
  `NoValue` of an unread field, which `ConstantsAssumption` says.

* **WebAppProofs**, on the composed module, so that the theorems name the very
  properties `webapp` checks: for any finite set of threads, any sessions,
  paths, files, sizes, languages, levels, limits, time-outs, headers, cookies,
  parts, number of writes and style files. Each scene has
  an inductive invariant of its own.
  * *Sessions*. `SessionsLiveWithHandles`: `StoreInv` adds to the property that
    the map, the threads, the old sessions and temporaries of an assignment, and
    the timer name only sessions that exist, and that a thread has a handle in
    the places where it uses one; each action then takes or gives one handle,
    and the numbers follow from the theorems on finite sets.
    `UsedSessionsAreKept`: `ClockInv` says that no time that was read is later
    than the clock, `TimerInv` that the sessions used in time are still there,
    and that every session in the map is in time but for those the timer has
    still to look at and the one it is about to erase, which may be used again
    before it is erased.
  * *Files*. `ServedFilesAreFresh`: a version is `Fresh` for a time if it was
    the content of its file then or later, which replacing the file later keeps
    true. By `FilesInv` every copy in the cache is fresh for the time its entry
    has, what a thread is about to store for the time of its request, and what
    it answered for `cacheTimeout` before. That the cache keeps only entries it
    had needs a largest prefix that fits (`LargestExists`).
  * *Templates*. `BestTemplatesAreGiven`: the same on documents (`OnDisk`), and
    in `TemplatesInv` that a request has found every name before the one it is
    at without a file lately enough, and that the entry it is about to copy from
    is as young as that.
  * *Log*. `LogsKeepTheirEnd`: `FilesAreCut` says that the files of a name are
    consecutive pieces of what was written (`IsCut`: where each of them ends),
    some of them empty; `Rotation`, that no backup lies above `maxBackups` and
    that a rotation never renames to a larger number. So the one file that is
    removed is the last that is not empty, and a rename moves an end over an
    empty piece. That pieces put together from the oldest on are the end of the
    whole (`CutIsSuffix`) is an induction on the recursive function in
    `FlattenSeq`, done with a first-order lemma (`Induction`).
  * *Responses*. `ResponsesAreFramed`: by `ResponseInv` the first item on the
    wire is the head with the headers and cookies as they were at the first
    write (`FramingIsKept`), the items after it are of the one kind that head
    announces and read back as what was written (`WireIsFramed`), there is one
    cookie of a name (`OneCookieOfAName`), and the texts of two cookies differ.
  * *Cookies*. `CookieIsReadBack` takes the text of a cookie apart, attribute by
    attribute. It assumes (`CookiesAssumption`) that the words of a cookie are
    no separators and its name not that of an attribute. The code assumes the
    same: it neither quotes nor rejects them. That the two recursive functions
    of the parser come to the same as the walk through the attributes is the
    lemma `SameResults`, an induction on the natural numbers.
  * *Styles*. `StylesShownAsWritten`: `StyleInv` says nothing of how far the
    parser is, but what it makes of the events still to come (`Makes`): the
    styles of the file. Each event then keeps it by definition, once `Takes`, an
    event as a function of the parser, is shown to be what the actions do. What
    is left is the first state: the events of a file make its styles, element by
    element (`UpTo`) and style by style (`Between`), whatever is amiss after
    them.

* **FormatsProofs**, on the composed module again, for any numbers, texts,
  requests, limits and block size.
  * *Processes*. `ChildrenAreFound`: `ProcessInv` says that a child that stayed
    is in the table under its number, and is either among the entries made, or
    the one being read, or among the names fetched, or beyond the last of them;
    and that an entry whose parent is the script was made of a process that the
    script forked, so that whoever has that number later was born later. The
    walk goes up, so a number that is given anew behind it does no harm.
  * *The Python driver*. `ProgramsKnowTheDisplay`, for any texts, of one line or
    several. By `PortShape` the lines sent are those answered, those read and
    those on the wire, in this order (`InOrder`). `Told` counts: while a call
    waits, no more lines are unread than are owed and the call's own, and while
    nothing is owed the heading is the one the results so far lead to expect
    (`Expected`), or the reply at hand says what became of it (`Effect`). That
    is `InStep` and `StatusIsAsSet`, which with it are inductive. What a program
    leaves is said of each aspect of the display (heading, timers on show,
    timers running) and of the lines answered: since the last line that settles
    the aspect, or from the start, it is as at first unless a line disturbed it
    (`Settled`). `Cleaning` says of the programs that the demonstration and the
    tests have sent the first of their closing calls in order (`Follows`), so
    that at their end the last lines sent are known; that at most one line is
    still unread then, the `QUIT`, follows from `Told`, because at most one
    reply is owed after Ctrl-C. Every step of the port keeps what the driver
    relies on (`PortStep`), so each of its actions is looked at once.
  * *Requests*. `RequestsParsedAsSent` joins two invariants. `TakenInv` is for
    the limits, whatever a client sends: what was taken of a request is no more
    than `currentSize` in its head and than one line beyond that and the body
    afterwards (`WithinLimits`). `RequestInv` is for a client that means what it
    sends (`Honest`): what still flows in, in the socket or on the way, is what
    is left of its encoded requests from the current one on (`After`,
    `Following`), and by it the request is at its first line (`AtFirstLine`),
    has its first `k` headers (`AtHeader`), or has all of them and a part of its
    body (`AtBody`); as long as no line of a head was cut, the size it counted
    is exact (`Counts`). That the body put together becomes the parameters,
    cookies and parts of `Expected` is proved of each of the folds that compute
    them. It needs no assumption on clients but that they send words.
    While this was proved, `IsPart` (what a client's multipart part may be)
    turned out to mean less than it said: a disjunction without brackets.

Only model-checked: all liveness (`EndedScriptIsCleanedUp`, `StartIsAnswered`,
`WatchedFileIsInForce`, `LinesAreAnswered`, `ThreadsComeBack`,
`ConnectionsEnd`), which with `ENABLED` is out of the prover's reach;
and `TemplateRendersAsMeant`, whose reference goes through trees of any depth:
an induction over the data. What `ParsedAsSent` leaves out
(`Honest`: a broken head, a wrong length, two files of one field, a cookie
header that is repeated or has more than one cookie) is in the run; the theorem
says of it that the limits hold.

## 5. Where code and documents differ

Shown by a run that finds the violation:

1. `STOP` answers `OK` when no child was found to signal (`mainwindow.cpp:770`,
   `readme.md:77` and `:91`): `script_stop_ok`.
2. A schedule that was replaced once is not watched any more
   (`scheduler.cpp:341`, comment at `:424`): `sched_replaced`.
3. `KILL` deletes the socket that `onReadReady` then writes to
   (`mainwindow.cpp:931`; `readme.md:94` says "No response"): `port_kill`.

Seen while modelling; the models do what the code does:

* `REST` resets heading, message and time, not style, timers or switch
  (`mainwindow.cpp:391`; `readme.md:87`: "Reset the device to initial state").
* `LIST:STYLE` lists nothing unless there are scripts (`mainwindow.cpp:631`).
* With the port taken the constructor prints "Exiting application..." and
  returns (`mainwindow.cpp:41`), and `main` goes on to run the event loop. The
  saved switch is overwritten, and closing the window goes through a null
  `tcpServer`.
* A web page says that a script "is running" before the posted start is
  handled (`testdisplayrequesthandler.cpp:202`); a posted stop may reach the
  next script (`:224`).
* An event that lists one time twice has two cells in the table, which shifts
  the rest of the row (`scheduler.cpp:377`).
* `mainwindow.cpp:101-105` leaves the settings group before the pool and the
  handlers read their limits: these are the defaults whatever the file says.
* A descriptor that cannot be used keeps its handler busy for good
  (`httpconnectionhandler.cpp:91`; `httpconnectionhandler.h:67`: "Returns true,
  if this handler is in use").
* The read timer is started again with each part of a body
  (`httpconnectionhandler.cpp:168-173`; `httpconnectionhandler.h:46`: "the
  maximum time to wait for a complete HTTP request").
* Web threads use the database connection of the main thread
  (`databaselogger.cpp:88`), which Qt does not allow.
* The listener is never closed: pages may be served while the window is being
  destroyed.
* The switch of the scheduler is saved in `closeEvent` only
  (`mainwindow.cpp:311`), so a crash forgets it.
* The number of the child, read while `/proc` was scanned, may have been given to another process before `kill`
  (`mainwindow.cpp:469`); so may that of the script, once it is reaped.

The driver of the port (PortDriver):

* `get_status` (`display_driver.py:212`) reads field 5 as *running* and field 6
  as the script; the program sends the switch of the scheduler and the running
  flag there (`mainwindow.cpp:582-599`, `readme.md:88`).
* After a Ctrl-C between `sendall` and `recv`, and after a text with a line
  end, every later call gets the answer of an earlier one. `close` does not
  read the answer to `QUIT`.
* A heading with a colon, or an empty one, is answered `FAIL`.

QtWebApp, requests and responses:

* A cut between carriage return and line feed of a header line ends the headers
  (`httprequest.cpp:103`); `ParsedAsSent` leaves those out. So does a line that
  fills what `readLine` may take.
* A header line that arrives in parts is counted more than once
  (`httprequest.cpp:31` and `:65`), so that a request that fits may be refused.
* A multipart body of exactly `maxMultiPartSize` is refused by one check and
  not by the other (`httprequest.cpp:134`, `:189`).
* Two files of one field, or a missing last boundary, leave a temporary file
  behind (`httprequest.h:133-137`).
* `if (posi)` takes -1 for found (`httprequest.cpp:272`, `httpcookie.cpp:43`),
  and `httpOnly` is not initialised in two constructors of HttpCookie.
* `httpresponse.cpp:117` takes `connection` for `Connection`, but
  `httpconnectionhandler.cpp:237` does not.

QtWebApp, sessions, caches and templates:

* The session timer may erase a session between its lookup and its renewal in
  `getSession`: the caller then has a session nobody else will find
  (`httpsessionstore.cpp:62`).
* Assigning an HttpSession sets the last access, which `httpsession.h` says is
  the time of the last `getSession()`.
* `TemplateCache::tryFile` copies the document after the mutex was released,
  and after an `insert` that deletes an entry larger than the cache
  (`templatecache.cpp:26`); `Freed` in the model.
* A tag without its end makes `Template` search for ever (`template.cpp:85`);
  the model has no step there.

QtWebApp, logging:

* `refreshSettings` and `timerEvent` open the file while they hold the mutex;
  if that fails `qWarning` comes back to `log`, which waits for the same mutex
  (`logger.cpp:49-51` says that there is no such danger); `timer.at = "stuck"`.
  The file is not tried again, and the QFile is leaked.
* The flush timer tests `file` before it takes the mutex.
* Buffered messages are printed above `minLevel`, unbuffered ones from it on.
* A buffer stays as it was when `bufferSize` becomes 0.
* The local `logger` of `Demo1/main.cpp:71` hides the global one, so
  `requestmapper.cpp:71-75` never clears a buffer.

Styles: the type of a font element is kept for the next one that has none, a
missing size becomes 0, text that arrives in pieces overwrites itself, and the
text of a timer is not trimmed (`displayxmlparser.cpp`).

## 6. Not modelled

Painting, fonts and menus (no state outlives an event); the layout of pages;
the SQL text; the script file (`TestScriptMgr::load`, read once: scripts that
are missing are skipped, `rootpath` counts only from where it stands); options
and the creation of a default configuration (`main`, read once); `rpi_utils`
(reads `/proc` for a page, keeps nothing); TLS (not configured); the
values in a session, the decoration of log messages; what
is not built: the service part of QtWebApp (vendored, and not used by any part
of the program) and the process table for Windows; the demos of QtWebApp.
Data races are modelled for the texts on display; the other unguarded fields
are flags and names of which no property speaks.

Hazards without a property have a note in `PROJECT.json` that says why.

## 7. Plan

Done: ScriptControl with JobJournal, RunGuard, Scheduler, ControlPort,
WebDisplay, HttpPool; then HttpRequest, HttpResponse, WebApp with its parts,
Template, DisplayStyles, PortDriver and ProcessTable; the proofs of the safety
properties of all these but Template. Next:

1. `TemplateRendersAsMeant`, with a reference that rewrites the text block by
   block instead of walking down the tree.
2. **TestScripts** for `TestScriptMgr::load`: the order of `rootpath` and
   scripts, and what a broken file leaves.
3. Abstract specifications: a connection (`queued`, `accepted`, gone) for
   HttpPool, a register for the display of ControlPort and WebDisplay, a cache
   that is never too old for StaticFiles and TemplateCache.
4. HttpRequest as the pieces HttpPool sees, as a refinement.
