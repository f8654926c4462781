# Xylitol in TLA+

TLA+ modules for the Rust crates of Xylitol (`src/crates/`) and for the C and
C++ of the project it restarts (`src/legacy/old-shashlik/`), TLC configurations
that check them on small instances, and theorems proved with TLAPS. Section 1 is the inventory of the system, section 2 the map from modules
to code, sections 3 to 5 say what is checked, proved and assumed, section 6 what
is not modelled, section 7 the plan.

## 1. The system

Xylitol finds, downloads and inspects Android packages. It is a GTK program
(`xylitol-gui`) and a command line (`xylitol-cli`) over the same libraries. Both
are ordinary processes of one user; they share a download directory and an index
file, and nothing keeps them from running at the same time.

| Component | State | Operations | Correct when |
| --- | --- | --- | --- |
| Download engine, `xylitol-apkpure/src/lib.rs` `Client::download`, `CancelToken` | `<name>.part`, `<name>`; per call: measured length, response, hasher, open file, token | measure, request (ranged), re-hash, append or create, receive, flush, verify, rename; cancel | only the whole published file gets the final name; an interrupted call is continued where it stopped; every call returns |
| Rate-limited requests, same file, `get` | attempts, waits | request, sleep, retry, give up | bounded attempts, waits as asked by the server, every request ends |
| Pages and records, `parse.rs`, `model.rs`, `search`, `releases`, `variants` | none | HTML and JSON to records | each file of a release appears once, in a stable order |
| Library index, `xylitol-core/src/library.rs` | `library.json`, `library.json.tmp`; per process: the map it read | open, add, remove, save | no reported addition is lost; the index always parses; two files never share a key |
| Selection, `xylitol-cli/src/select.rs` | none | filter, choose, prompt | a number refers to the list that was shown; nothing is picked silently |
| CLI, `xylitol-cli/src/main.rs` | one command per process | the above, Ctrl-C | |
| Discover page, `xylitol-gui/src/discover.rs` | generation counter, timers, searches in flight, what is shown | keystroke, timer, reply | what is shown belongs to the last text typed |
| Versions page and row, `variants.rs` | buttons, progress bar, token | download, cancel, resume, finish | a row is in one state at a time and never stuck |
| Task bridge, `tasks.rs` | a progress channel of 16, an outcome channel of 1 | send or drop, deliver | the outcome arrives once; the main loop is never blocked |
| Shared GUI state, `state.rs`, `window.rs` | one `RefCell<Library>`, observers | borrow, notify | no re-entrant borrow |
| Library page, `library_page.rs` | rows | remove, check | |
| Package inspection, `xylitol-apk` | none | zip and binary XML to `PackageInfo` | total on any input |
| Shim analysis, `xylitol-shim`, `xylitol-core/src/shim.rs` | none | ELF objects to a verdict | a verdict "can run" means every symbol has a provider |
| Old Shashlik, controller: `controller/` of `legacy/old-shashlik/src` | trackers and processes of six services, applications, timers; sockets | start, stop, restart, run an application, hear of an end | what it started stays in reach of its stop; the loss of a service ends the rest |
| Old Shashlik, gralloc: `libs/gralloc-shashlik` | the framebuffer's mapping and screens, buffers, open devices | map, allocate, free, register, lock, post | no screen is given twice; every address handed out is mapped; what is shown was given out, and is the current buffer when posts do not overlap |
| Old Shashlik, hwcomposer: `libs/hwcomposer-shashlik` | one object for the process, devices | open, close, call | a device is live until somebody closes one |
| Old Shashlik, properties daemon: `propertiesd/` | settings, their file, requests | get, set, list; start with defaults, save | defaults are there; nothing saved is lost; each request that has an answer gets it |
| Old Shashlik, launcher and libapk | none | hand over to Dalvik; unpack | |

How they meet. A row of the versions page (or the CLI's `download`) starts one
call of `Client::download` on the tokio runtime; its progress and its outcome
come back over two channels; on success the GTK main loop calls `Library::add`
on the one library the GUI opened at start, the CLI on a library it opens then.
`add` inspects the file and rewrites the index. A page of an app opened twice
has two rows, and so two Download buttons, for one file.

Old Shashlik is the C and C++ of the repository. Nothing of today's build uses
it (`NOTICE.md`): it is kept for reference, and modelled as what it is, the
runtime that Xylitol's shim is to replace. Its parts meet through processes. The
controller starts Android's services and applications; SurfaceFlinger and the
applications load the two graphics libraries; each of them may ask the properties
daemon, a module of kded, over its socket. Controllers know of each other's
services only by the processes they find in `/proc`.

What is hard. Calls of `download` interleave at every `.await`, with each other
and with the thread pool that carries out tokio's buffered writes; the server
may fail, ignore a range or serve another file than before; processes die
between any two steps; two processes rewrite one index. In the old runtime a
process and its tracker are forgotten at different times, by handlers that run
inside each other's message boxes; graphics calls may fail half-way under a lock, and posts take none;
the daemon is restarted over whatever an earlier one had saved. PROJECT.json lists each
hazard at its line.

## 2. Modules and the code

| Module | Models |
| --- | --- |
| `PartFile` | abstract: one file of the download directory and its part |
| `Download` | `Client::download`: calls, files, background writes, server, processes |
| `MCDownload` | instances of it |
| `DownloadProofs` | its theorems, the refinement of `PartFile` among them |
| `LibraryStore` | abstract: a store with atomic commits, as one session sees it |
| `Library` | `library.rs`: sessions of several processes over one index file |
| `MCLibrary` | instances of it |
| `LibraryProofs` | its theorems, the refinement of `LibraryStore` among them |
| `Requests`, `MCRequests`, `RequestsProofs` | `Client::get`: calls against a site that limits the address |
| `Discover`, `MCDiscover`, `DiscoverProofs` | `discover.rs`: text changes, timers, searches, what the page shows |
| `GuiSession`, `MCGuiSession`, `GuiSessionProofs` | `variants.rs`, `tasks.rs`, the library page: rows, channels, outcomes |
| `Controller`, `MCController`, `ControllerProofs` | the controller of the old runtime: invocations side by side, services, applications |
| `HalProcess` | what the two graphics libraries share: the process they end |
| `Gralloc` | its graphics memory allocator: framebuffer, screens, buffers |
| `Hwcomposer` | its hardware composer: one object, many devices |
| `Graphics`, `MCGraphics`, `GraphicsProofs` | both libraries in one process |
| `Propertiesd`, `MCPropertiesd`, `PropertiesdProofs` | its properties daemon: settings, file, clients |

The modules of Xylitol meet at three seams. `GuiSession` takes from `Download` that a call returns
(`EveryCallEnds`) and how it may have ended; `Discover` takes from `Requests`
that a search returns (`EveryGetEnds`); `Library` takes a finished download
(`Fetch`) as the file that may be added, and `GuiSession` the result of adding it.

**Download.** A member of `Attempt` is one call; all calls are for one variant
and directory, so they share `part` and `final`. `pc` follows the awaits of the
code: `send`, `open`, `rehash`, `append` or `create`, `stream`, `stopping` (the
flush after a cancellation), `flush`, `discard` or `rename`, and then how the call
ended. File names map to inodes, since a handle stays valid when its file is
truncated, removed or renamed; an inode is named after the call that created it.
A file is a sequence of blocks `<<version, i>>`, a chunk of the stream is one
block, and a hash is the sequence of blocks hashed: SHA-1 is taken as
collision-free. `pending` is the write that `tokio::fs::File` has
handed to the blocking pool: `write_all` returns before it is carried out, the
next write or flush waits for it and reports its failure, and dropping the file
does not wait for it. `Land` carries it out at that time, whatever became of the
call. A server that refuses (`refuse`), ignores a range (`ignoreRange`), breaks
the stream (`stream`) or ends it early without having announced a length (`eof`),
a failing disk (`disk`) and a dying process (`crash`) are members of `Faults`.
`Republish` puts another version behind the URL.

Nothing in the code orders calls, so what surroundings guarantee is the constant
`Discipline`: `free` (nothing), `serial` (a call starts when the others have
returned), `quiescent` (and their background writes have landed: a person
presses Retry, or reruns the command).

**PartFile** has no calls, handles or inodes: `held` is what the part holds,
`kept` what the file holds, each a set with no or one content. The part is begun
anew, extended by one block at its place, given up, or becomes the file when its
content is acceptable (the published one, or anything when there is no checksum).
`Download` maps the two names to it through the inodes (`Content`).

**Library.** A `File` is a package with what `inspect` says of it and where it
lies; the index is a set of files with distinct keys. `Add` and `Remove` change
the map in memory; `DeleteFile`, `OpenTmp`, `WriteTmp`, `RenameTmp` are the
system calls that follow, and `SaveFails` and `Crash` may replace or follow
any of them. `fs::write` is two steps, the truncating open and the write, and
the write goes to the opened file whatever its name is by then. `Torn` stands
for any text that does not parse, which `open_at` reads as an empty index. `owed` is a history variable: the
additions the program reported, less those later removed, replaced under their
key or whose file disappeared. `Discipline` is `exclusive` (one program open at a
time), `turns` (several, not saving at the same moment) or `free`.

**Requests.** `closed` is how long the limit on the address still lasts, for all
calls alike; `Tick` is a second. A 429 carries the rest of the limit as its
`Retry-After` or nothing that can be read. `asked` and `told` are history
variables: what is left of the wait the site asked for, and of the wait the error
told the user. `imposed` is the length of the one limit a behaviour has seen so far; from
the second on it is `Many`, which is longer than any limit and than the cap,
so that what is promised of a single limit says nothing then.

**Discover.** `text` is what the entry holds, `pending` that GTK has not yet
emitted `search-changed` for it. `timers` are the timeouts, which the main loop
fires oldest first, `flights` the searches on the runtime, each with the
generation it was started in; they return in any order. The page is a spinner, a
list and a status page.

**GuiSession.** A row is a variant and the number of the build of the list it
belongs to: a filter change drops the rows but the closures of their calls keep
them. `queue` is the progress channel of the row's last call; `call` is
`running`, then the outcome while it is in the outcome channel. Delivering
updates and delivering the outcome are separate actions, as their tasks are.
`Finish` is the call of `Library::add` with its three results.

**Controller.** A member of `Ctl` is one invocation of `shashlik-controller`;
`todo` holds the statements that are left of its command and of the handlers it
is in, innermost first, so a message box in a handler (`"box"`) lets the event
loop run before the statements under it. `tracker` is what the `...Tracker`
pointers lead to, `child` what `d->zygote` and its like do: the two are
forgotten by different signals, `Watch` (`fileWatch` every half second) and
`Finished` (`QProcess::finished`). A process goes from `up` to `term` when it was
told to end, to `zombie` when it ended under a living parent, to `gone` when it
was waited for. `Scan` is the constructor's look through `/proc`; `isZygote` is
read there without having been set, so which launchers it takes for a zygote is
any set with the real one in it. A process that did not start has a tracker with
number 0, and `stop` then signals the whole process group (`StopsItself`).

**Gralloc.** `module` is the `private_module_t`, `handle` the buffers, `used` the
addresses that are mapped, `screen` what the hardware shows. Each entry point but
one is one action: mapping the framebuffer and giving out its screens hold the
module's lock, and the others touch one buffer, which is in one caller's hands at
a time. `fb_post` takes no lock. Its post of a screen is three steps of a thread
(`posting`): `AskFlip` writes the offset that all posts share, `Flip` has the
driver show what it finds there, `MakeCurrent` sets the module's current buffer;
a refusal ends the post after the second. `torn` is a history variable: posts
have overlapped, and none that ran alone has ended since. The copying half of
`fb_post` (`PostCopy`) changes nothing of this state. Where an entry point may fail half-way (the framebuffer device that refuses, `mmap`, the shared
file, the compositor), every outcome is a disjunct, with what was changed until
then. A call through a null pointer or a division by zero ends the process (`up`).

**Hwcomposer.** `sInstance` is the singleton's pointer, `object` the objects that
were made, `held` the device of each user, which *is* the object. `cut` is a
history variable: the users who held a device when somebody closed one.

**Propertiesd.** A key stands for its path in the settings; `"dots"` is a key
with no part, for which `groups.last()` has no value. `settings` is what the
daemon sees, `file` what of it is saved, by `Sync` at some time or by a `Stop`.
A client's `request` stays until it is answered. A list, the unknown command and
less than two bytes are read and never answered (`Ignored`): the client joins
`read` and waits until the daemon ends. Any other number is answered with `"00"`.
`InitProperties` follows `childKeys()`, which does not look into groups.

## 3. What the runs check

| Run | Instance | Shows |
| --- | --- | --- |
| `download_seq` | 3 calls, 2 processes, versions of 2 and 3 blocks, all faults, quiescent | `FinalWhole`, `PartAligned`, `AtMostOneWriteBehind`, `CancelKeepsProgress`, refinement of `PartFile` |
| `download_overlap` | 2 calls at once, fairness | `EveryCallEnds` |
| `download_two_calls` | 2 calls at once, no fault | `FinalWhole` fails |
| `library_session` | 2 processes, 4 files, exclusive, crashes and failing saves | `IndexWhole`, `ReportedIsKept`, refinement of `LibraryStore` |
| `library_two_sessions` | GUI and CLI open together, no fault | `ReportedIsKept` fails |
| `requests_limits` | 2 calls, 2 retries, cap 3 s, limits up to 5 s, any number of them | `SleepBounded`, `LimitIsRiddenOut`, `WaitsAsAsked`, `EveryGetEnds` |
| `discover` | 2 queries, 5 changes of the text | `PageIsOwned`, `NoStaleAnswer`, `PageCatchesUp` |
| `gui_session` | 1 file of 3 blocks, 2 builds, 3 downloads, channel of 2 | `BarIsHonest`, `BarNeverGoesBack`, `OneCallPerRow`, `EveryClickSettles`, `PageFollowsLibrary` |
| `controller` | 2 invocations, 3 services, 3 processes, 1 click, crashes and sockets that cannot be bound, fairness | `OwnServiceTracked`, `LossStopsRest`, `LossEndsSession` |
| `graphics` | 3 buffers, up to 3 screens, 4 addresses, 2 threads that post, 2 users, 2 objects, every fault | `SlotsExclusive`, `BaseIsMapped`, `ScreenShowsCurrent`, `HeldIsLive`, `FramebufferMappedOnce` |
| `properties` | 2 clients, 5 keys, 3 settings, 2 values, stops and crashes, fairness | `DefaultsPresent`, `SavedStays`, `RequestsEnd` |
| `properties_restart` | the same | `SavedValuesAreUsed` fails |

The failing runs are disagreements between the code and what its documentation
says; `findings` in PROJECT.json quotes them.

*Two calls at once.* The first call creates the part and has a write in flight;
the second measures, creates or resumes the same part; both receive the whole
file and both hashes match, because a hash is fed from the stream, not from the
disk. The file that is renamed holds the two calls' writes on top of each other,
or is still being written by the other call when it already has its final name.

*Saved properties.* A client sets a property that has a default, the daemon
saves it, stops and is started again: `initProperties` asks `childKeys()` whether
there are values, which are all in groups, gets none, and writes the default over
the saved value. Only after a client has set a property without a dot do starts
leave the file alone.

*A late write* (`Discipline = "serial"`, no run of its own). The stream of the first call breaks while its last block is with
the blocking pool. The next call measures the part without it, asks for
the rest, hashes what is there; then the block lands and the new blocks are
appended after it. It takes a disk slower than a retry, but the result is a
wrong file marked as verified. The cancel path flushes and is safe
(`CancelKeepsProgress`).

*A complete part* (no run of its own). After a crash between the last write
and the rename the part is complete; the request for its continuation is answered
416, which the code takes for any other bad status, and the part is neither
completed nor removed, although the README of Xylitol has interrupted downloads
"continue where they stopped" (`src/README.md:25`). `WholePartIsStuck` proves
that no number of further calls changes that.

*Two saves at once* are outside what `library_session` checks and outside the
hypothesis of `IndexStaysWhole`: all processes write one `library.json.tmp`, and
with `Discipline = "free"` TLC renames a half-written file to the index in a few
steps.

*A limit longer than the cap.* The cap on `Retry-After` keeps the window
responsive, and is also what the error tells the user (`told`), so "try again in
about 60s" is said of limits that last much longer. No run checks it.

*Two bundles of one version* for different ABIs have one key: adding the second
drops the entry of the first (`Insert`), whose file stays. No run checks it.

*`--restart`.* `stop` waits for nothing and leaves the trackers, so the `start`
right after it takes every service for running (`AlreadyRuns`) and starts none,
where the help text has `--restart` equal to `--stop` and then `--start`
(`main.cpp:123`). The restart an application asks for (`Ensure`) is the same
call. No run checks it.

*Two posts at once.* One thread writes its offset, the other writes its own; the
driver shows the second for both, and the first is the last to set
`currentBuffer`. The module then takes a buffer for current that is not shown,
until a post runs alone. TLC finds this when `torn` is dropped from
`ScreenShowsCurrent`, which therefore promises the current buffer only after such
a post, and for overlapping posts that what is shown was given out.

*Requests without an answer.* `RequestsEnd` excepts the three kinds of `Ignored`,
once they were read: `readRequest` writes nothing for them
(`propertiesd.cpp:82`, `:87`, `:113`).

*What the other runs exclude.* `LimitIsRiddenOut` and `WaitsAsAsked` speak of a
single limit, no longer than the backoffs and the cap; `PageFollowsLibrary`
excepts an addition whose save failed, after which the code leaves the page as it was
(`variants.rs:394`). `LossStopsRest` and `LossEndsSession` are about invocations
without a window: the user at a window may start a service after the loss, or
leave a message box open. `HeldIsLive` excepts the users in `cut`, whose device
somebody else deleted. `FramebufferMappedOnce` takes a framebuffer that could not
be mapped as the code does: its handle stays, and the next open succeeds over it.

*Bounds.* Three calls are the smallest number where one leaves a part, one
mishandles it, and one continues what that left. Two and three blocks make a part
shorter than, equal to and longer than another version, and let a file have a
first, a middle and a last block. Two processes are a crash that ends some calls
and not others. For the library, two processes make one stale session; the four files
have two that share a path, two that share a key and two that share neither.
In `requests_limits` a limit may be shorter or longer than the cap and than the
sleeps of a call together. Five changes of the text leave three
outdated searches in flight beside the latest. In `gui_session` three blocks with
a channel of two drop an update, and three clicks are a call, the retry whose bar must not
show what the first left in its channel, and one from a row of the next build.
In `controller` three services are the one that starts an application, the one
whose loss stops the others, and one that is let slide; three processes are a
service, the one it brings down and an application or a service started by the
other invocation. `graphics` has drivers with fewer, as many and more screens than the two that are
asked for, buffers to exhaust them, and an address more than there are buffers, so
that an address is used again by another buffer; two posting threads overlap in
every order. Its constraint `OneMoves` has one of the two libraries stay as it
was loaded: they share only the end of the process. In `properties` a setting has a default, one is in a group without a
default, one is at the top of the file; the two keys that are no setting are the
empty key and the one that is only dots.

*Mutants.* Each property of a passing run has a mutant in the module, a
definition `Mut...` placed before the definition it replaces: a plausible slip in the
code (no flush before returning, resuming although the server sent everything,
comparing lengths instead of hashes, going on after a failed write, writing the
index in place) that TLC finds to break the property.

*Fairness.* `FairSpec` of `Download` assumes weak fairness for the steps of each
call and for the blocking pool: tokio polls every task that is ready, the pool
runs every job, and the read timeout of 30 s turns a silent server into an error,
so a call that can step eventually does. Starting, cancelling, crashing and
republishing are not fair. `Requests` adds that time passes, `Discover` that the
main loop handles signals, timeouts and outcomes that are ready and that every
search returns, `GuiSession` that every call returns and its outcome is awaited;
nothing is assumed of the user, the site or the progress task. `Controller`
assumes that each invocation's statements and event loop go on and that a process
ends some time after SIGTERM, not that the user closes a message box (so
`LossEndsSession` is about invocations without a window), `Propertiesd` that
kded's event loop comes to every socket that has data, and nothing of the daemon's
ends and starts. Deadlock checking is off for `Download`, where
each of a finite set of calls is run once and the system then stops, and for
`Discover` and `GuiSession`, where the user may stop typing and clicking, for
`Controller`, where every invocation ends, and for `Graphics`, where the process
does.

## 4. What is proved

`DownloadProofs`, for any sets of calls, processes and versions and any sizes:

- `TypeCorrect`: `Spec => []TypeOK`, whatever `Discipline` and `Faults` are.
- `FinalIsWhole`: with `Discipline = "quiescent"` and a checksum,
  `Spec => []FinalWhole`, under all faults. `FinalWhole` alone is not inductive:
  the rename needs that the part *is* what was hashed. The invariant `IInv`, which
  holds with or without a checksum (`Invariance`), says
  that at most one call runs and only it has a write in flight (`Solo`); that the
  part and the final file are different inodes and no handle refers to the
  final one (`Apart`); and, for the running call, how the hash, the part and
  the write in flight relate at each step (`CallOK`): while re-hashing the hash is
  a prefix of the part; while streaming the hash is the part followed by the
  pending block, unless a write failed, in which case the call can only return;
  after the flush they are equal; and a part that is about to be renamed, and the
  file, match the checksum if there is one (`Accepted`, `FinalMatches`).
- `PartIsAligned`, `OneWriteBehind`, `CancelLosesNothing`: with
  `Discipline = "quiescent"`, `Spec` implies `[]PartAligned`,
  `[]AtMostOneWriteBehind` and the action property `CancelKeepsProgress`. They
  rest on `IInv` and a second invariant, `Progress`: one write at most is in
  flight, also from a call that has returned (`Lone`); it continues the part
  where it ends (`Aimed`); and the counters of a call are the length of the part
  and of that write, from the measurement on (`Counted`).
- `FinalStays`: `Spec => FinalUntouched`: a file that has its final name is never
  written to again, whoever holds a handle; the rename comes after the flush.
- `DownloadImplementsPartFile`: with `Discipline = "quiescent"`,
  `Spec => PartFileSpec`. Only four steps touch the files (`TouchesFiles`):
  `Create` is `Begin`, `Land` is `Extend`, `Discard` is `GiveUp` and `Rename`
  is `Publish`, or a stutter when it fails; that `Land` extends the part and
  nothing else is what `Apart`, `ToPart` and `Aimed` are for.
- `FinalIsComplete`, `UncheckedFinalIsWhole`: what is left of `FinalIsWhole`
  without a checksum. When the site announces the length of its answers (`"eof"`
  is not a fault), the file is as long as some version with every block at its
  place; and when the site has not changed the file, it is the published one. The
  invariant `AllMeasured` follows the length from the response to the rename.
- `WholePartIsStuck`: under every `Discipline`, in a state where the part is as
  long as anything the site serves and no call is past its measurement
  (`Stuck`: TLC reaches it by a crash before the rename), every step leaves both names and
  `Stuck` as they are, and no call ends well. Its two hypotheses are the two ways
  out: a server that ignores ranges, a part that cannot be measured.

`LibraryProofs`, for any sets of processes and files:

- `LibraryTypeCorrect`: `Spec => []TypeOK`, which includes that no map ever
  holds two entries under one key.
- `IndexStaysWhole`: unless `Discipline = "free"`, `Spec => []IndexWhole`. The
  invariant adds that one process at a time is inside an operation and that what
  it is about to rename is the complete text of its map.
- `AdditionsAreKept`: with `Discipline = "exclusive"`,
  `Spec => []ReportedIsKept`. The invariant `Kept` adds that the file of an owed
  entry exists, that the open session has every owed entry in its map, so that no
  save of it drops one, and that a save in progress has the entry it will report.
- `LibraryImplementsStore`: with `Discipline = "exclusive"`, `Spec => StoreSpec`:
  `RenameTmp` is the abstract `Commit`, every other step of a save a stutter.

`RequestsProofs`, for any number of calls, retries and limits:

- `RequestsTypeCorrect` and `SleepIsBounded` (`Spec => []SleepBounded`), with the
  invariant that a call that does not sleep has no wait left.
- `ShortLimitIsRiddenOut` (`Spec => []LimitIsRiddenOut`) and
  `RetryAfterIsHonoured` (`Spec => WaitsAsAsked`). The invariant `OneLimit` says of
  a behaviour with one limit so far that it lasts no longer than it was imposed
  for, that a sleeping call's wait covers what it was asked for (`Honoured`), and,
  when the limit is short, that what remains of it and what a call has slept
  are together no more than the limit, and that the sleep under way covers the
  rest or the call has slept for its backoffs (`Covered`), which a call out of retries
  cannot have done before the end of the limit.
- The backoffs are summed by the recursive function `SleptBy`. That it satisfies
  its equation for every number of retries (`SleptByFacts`) needs induction, which
  the library states with an operator; here it is the least counterexample of a
  set of numbers (`Least`, `Induction`), from the well-foundedness of `<`.

`DiscoverProofs`, for any queries and number of changes: `DiscoverTypeCorrect`,
`OnePaneAlways`, `PageAlwaysOwned` and the action property `NeverStale`. The
invariant adds that no timer or flight is ahead of the counter, that an
unhandled change has not been counted, and that whatever bears the latest
number is about the text in the entry (`Latest`), which makes an answer that
passes the generation check the right one. `PageAlwaysOwned` is the safety half of
`PageCatchesUp`: a page that spins or is about another text has a timeout or an
answer ahead, which fairness then brings.

`GuiSessionProofs`, for any files, filters, sizes and capacities:
`GuiTypeCorrect`, `BarAlwaysHonest`, `BarOnlyAdvances` (an action property),
`OneCallAtATime` and `PageAlwaysFollows`. The invariant (`RowOK`) says of each
row that its bar, its button and its call agree, that the updates in the channel
are in order and not ahead of what was received, and that the bar is behind them.
`OneCallAtATime` includes that a row is busy only as long as its call or the
outcome of it is still to come, the safety half of `EveryClickSettles`.

`ControllerProofs`, for any invocations, commands, services and number of
processes: `ControllerTypeCorrect`, `ServicesStayTracked` and
`LossAlwaysStopsRest`. The invariant follows each service from its fork to the
two signals that forget it: as long as it has not been waited for, both pointers
lead to it; and a loss that was heard of either still has its `stop` ahead, in
`todo`, or has told every service started before it.

`GraphicsProofs`, for any buffers, screens, addresses, threads, users and faults:
`GraphicsTypeCorrect`, `ScreensAreExclusive`, `BasesAreMapped`, `CurrentIsShown`,
`ComposerIsReady`, `DevicesStayLive` and the action property `MappedOnce`. What
the four invariants of the allocator need beside themselves is that a framebuffer
that is not mapped has no mapping, no marks and no screens (`FramebufferKnown`).
`CurrentIsShown` needs in addition what a post relies on between its steps
(`PostsKnown`): the offset they share is that of a screen that was given out; two
threads in `fb_post` are never both alone; and a post that is alone finds its own
offset when it flips, and its own screen shown when it sets the current buffer.
`HwcReady` (the object that can be found is initialised) is proved only, as
`OnePane` of `Discover` is.

`PropertiesdProofs`, for any clients, keys and values: `PropertiesdTypeCorrect`,
`DefaultsAlwaysPresent` and the action property `SavedAlwaysStays`. The invariant
adds that a file with a setting at its top has all defaults
(`PlainAfterDefaults`), since only a daemon that wrote them can have saved it,
and that a running daemon has every setting that is saved (`SavedIsSet`).

The assumptions are those of the modules (`DownloadAssumption`,
`LibraryAssumption`, `RequestsAssumption`, `DiscoverAssumption`,
`GuiAssumption`, `ControllerAssumption`, `GrallocAssumption`,
`HwcomposerAssumption`, `PropertiesdAssumption`): sizes are positive, no default is at the top of the settings, `None`, `Failed`, `Hole` and `Torn` are
not data. TLC evaluates them in every run. The hypotheses on `Discipline` are
those of the runs; without them `download_two_calls` and `library_two_sessions`
are the counterexamples. That leaves to TLC alone the six liveness properties,
which are beyond the prover: `EveryCallEnds`, `EveryGetEnds`, `PageCatchesUp`,
`EveryClickSettles`, `LossEndsSession` and `RequestsEnd`.

## 5. Abstractions

- Bytes are blocks, and a chunk of the stream is a block; a write is carried out
  whole or not at all. tokio splits larger writes; each piece behaves as a block.
- The loss of power is not modelled: what the operating system accepted, stays.
- A failing `create_dir_all` is left out (a failing `metadata`, read as length 0,
  is not).
- The 350 ms of a debounce timer and the 30 s of a read timeout are not measured:
  a timer fires, and a request fails, at some time.
- `GuiSession` keeps one library entry for each variant; what keys and files
  do when they collide is in `Library`. Progress has a total: without one the bar
  only pulses.
- SHA-1 has no collisions.
- Times of entries, and the texts of errors, are left out.
- All calls of `Download` are for one file name. Variants that differ only in
  screen density have the same name; for a later call that is a republished file.
- `Controller`: process numbers ascend and are never reused (`MaxPid`). A fork
  that fails leaves nothing for an application (in the code a tracker with number
  0, as for a service). `Scan` is one step. Each invocation has a process group
  of its own. The destructor of `Controller::Private`, which would terminate the
  services, never runs, since `main` deletes nothing.
- `Gralloc`: pixels, sizes, offsets and file descriptors are left out. Two things
  follow: that `gralloc_alloc` computes a length in pixels where a mapping is in
  bytes, and that it returns success for some failures, cannot be seen. Register
  and unregister are called on buffers, not on screens, as their callers do: to
  unregister a screen would clear its address (`mapper.cpp:71`), from which a
  later post computes an offset. That a thread unmaps a buffer while another copies
  it to the screen is not modelled. A driver has at most `MaxScreens` screens.
- `Hwcomposer`: at most `MaxNew` objects are made. A call through a deleted object
  may end the process or not.
- `Propertiesd`: lengths of keys and values are left out, as is what a get and a
  set read beside them. No settings file of another scope is consulted.
  A request arrives whole, and a value is not empty.
- `Library`: an index that cannot be read (`library.rs:84`) ends a command without
  a change; the GUI goes on with a temporary library (`window.rs:18`), whose
  additions are not in the index. Neither is modelled.
- `GuiSession`: the update with which a call begins (`lib.rs:303`), which says
  how long the part is, is not sent.

## 6. Not modelled

- Parsers and pure analyses (APKPure's pages, `select.rs`, packages, binary XML,
  ELF objects): planned below.
- Widgets without a state of their own, icons, environment variables, packaging,
  CI, and the logging stub `native/log.c`, which writes a line.
- Old Shashlik's launcher: it reads its arguments and hands over to Dalvik.
  `ShashlikRuntime.cpp`, a copy of Android's `AndroidRuntime.cpp`, and
  `ProcessGlobals.cpp` are in no target of its CMakeLists, nothing calls
  `appthread.cpp`, and `Stubs.cpp` is a list of functions without effect. `libapk`
  unpacks one archive.
- Everything under `legacy/old-shashlik/src/deps`: Android's own sources and
  third-party libraries.

## 7. Plan

1. `Selection`: `choose`, `apply`, `matches_arch` against a reference definition.
2. `Acquire`: `Download` composed with `Library`: an entry marked verified
   describes the published file.
3. `ShimReport` (which objects are usable, how symbols are routed, the verdict)
   and `Package` (what a bundle contains), then `Axml`: the pure analyses,
   each against a reference definition over bounded inputs.
4. `Pages`: what `releases` and `variants` make of a page, `arch_rank`, and that
   the list the user numbers is stable.
5. Proofs: every invariant and action property of a passing run has its theorem.
   Left are the safety halves of the liveness properties that have none yet: what
   each step of a call of `Download`, of a `get` and of a stopping controller
   uses up, so that fairness alone is left to assume.
