# A TLA+ model of the Windows 2000 port of Supermium

The repository carries what a Chromium 144 based browser (Supermium) needs to run on Windows 2000: native bridge
DLLs for calls that system does not have, scripts that patch the browser's binaries to use them, a launcher that
records opt-in diagnostics, a certificate installer and a self-extracting package. This directory specifies the
parts with state and concurrency in TLA+, checks them with TLC and proves the most important results with TLAPS.

* `*.tla` without a prefix: the specifications. Each ends with a section *Properties*; operators commented as
  *Mutant* are the plausible bugs that show a property can fail (`PROJECT.json`, "mutants").
* `MC*.tla` and `*.cfg`: instances for TLC. `*_proofs.tla`: theorems for TLAPS. `Positions.tla`: the lemmas on
  positions of a text that several of them share.
* `PROJECT.json`: which definition models which lines, the runs, the findings, the hazards, the theorems.

    tlc -workers 2 -config SRWLock.cfg MCSRWLock.tla
    tlapm SRWLock_proofs.tla

## 1. Inventory

State, operations and difficult behaviour of every component, and what makes it correct.

| Component | Source | State | Operations | Hard behaviour | Correct when |
|---|---|---|---|---|---|
| SRW locks | `compat/w2k_sync.c` 12-19, 50-223 | one pointer-wide slot; a lazily allocated state: gate, two events, three counters | initialize, acquire, try, release, shared and exclusive | publication race, waits outside the gate, shared manual-reset events, failed allocation | it excludes, loses no wakeup, serves writers |
| Condition variables | same, 21-31, 85-104, 225-371 | a slot; a gate and a list of waiters on their threads' stacks | sleep (SRW, CS), wake one, wake all | timeout races wake, a waiter's lifetime, the order enqueue then unlock | no lost wakeup, TRUE exactly when woken, lock held on return |
| Job membership | same, 373-482; `compat/w2k_job.c` | none (a growing buffer) | `IsProcessInJob`, twice | the job changes between two queries, the limit of the buffer | the answer was true at a moment of the call; the loop ends |
| Vectored exception handlers | `compat/w2k_veh.c` 16-21, 264-442 | a list of reference-counted registrations, a hook in ntdll | add, remove, dispatch | handlers run without the lock, removal during dispatch, the second unlocked window | no freed registration is touched, every handler is called once |
| SID hook | same, 61-262, 555-572 | import slots, the captured original, an installed flag | patch at attach, patch lazily, convert | two threads at once, a slot patched twice, the delay loader | chrome.dll is redirected, and the hook does not call itself |
| GetModuleHandleEx | same, 444-534 | none | two entry points | the library goes between its three calls | a handle given with a reference is live |
| Terminal services | `compat/w2k_wts.c` | none | nine forwarders | none | outputs are set on every path |
| Network bridge | `compat/w2k_s232.c` | none (a result list) | getaddrinfo, freeaddrinfo, inet_ntop | failure halfway, number limits | the list is freed once, numbers are in range |
| Launcher session | `diagnostics/supermium_w2k_rc1_launcher.c` 134-262, 450-599, 861-1089 | session and profile directories, the browser process | start, collect, launch, wait, clean up | every step may fail, crash and restart, files still in use | a fresh profile per session, removed or reported |
| Media monitor | same, 706-859 | listening socket, log, lock, stop flag | start, serve, stop | two threads close one socket, a stop that times out | no use after stop, records whole |
| Browser event trace | same, 601-683 | a pipe, a log, counters | read, classify, write | the reader stops while the browser writes | the browser never blocks for ever |
| Sanitizer | same, 274-391 | none | redact a text | overlapping patterns | nothing sensitive is left |
| YouTube extension | `diagnostics/youtube-extension` | per-page stall timers, a record queue in flight | observe, post | the monitor is gone, pages navigate | only whitelisted fields are sent |
| Collector | `diagnostics/collect-system.vbs` | none | query and write | none | only listed fields are written |
| Installer | `sfx/w2k_sfx.c`, `sfx/build_w2k_sfx.mjs` | a temporary cabinet, the destination tree | extract, launch | failure halfway, names that leave the tree | nothing is launched after a failure |
| Certificates | `certificates/source` | the ROOT store, counters | install, verify | counts that overlap | exit code 0 only if all are present |
| Patch chain | `patches/*.py` | the bytes of five binaries and a bridge | seventeen scripts in a fixed order | a kill while writing, a failure between two files, a rerun, another order | a finished file has every edit once and no other |
| Import tooling | `scripts` | files | rebuild, validate, normalize | table layout | the import contract is met |
| Probes | `tests` | none of the product's | drive a browser or a device | - | - |

Interactions. The browser calls the bridge DLLs through patched imports (patch chain -> import tooling -> bridges).
Condition variables use the SRW lock's state directly (`wait_cv_common` calls `release_*_state` and
`acquire_*_state`); both share the idiom of a slot published with `InterlockedCompareExchange`. The vectored handler
calls run the SID hook's lazy check before they take `g_lock`. The launcher (`Session`) starts the collector and the browser,
reads the browser's output through a pipe and serves the extension over a loopback socket.

## 2. What is modelled

### RWLock - what a slim reader/writer lock promises
An abstract specification with two variables: `mode` (what each thread holds) and `queued` (the writers in line).
Writers go first. It has no code of its own: SRWLock implements it and CondVar is built on it.

### SRWLock - `compat/w2k_sync.c` 12-19, 50-223
One lock, any number of threads. `slot` is the SRWLOCK word; the fields of `W2K_SRW_STATE` are functions of the state
object, because two callers may allocate two of them. What runs under the gate is one action (`EnterExclusive`,
`EnterShared`, `TryExclusive`, `TryShared`, `ReleaseExclusive`, `ReleaseShared`); the read of the slot (`CallAcquire`),
the allocation, the `InterlockedCompareExchange` (`PublishSlot`) and `WaitForSingleObject` (`WaitEvent`) are steps of their
own, since other threads run between them. A thread that finds its event reset becomes "blocked"; `SetEvent` moves the
blocked threads to "reenter" at once, so that a later `ResetEvent` does not catch them. `Initialize` is
`W2KInitializeSRWLock` on an idle lock. Callers take the lock at most once and release what they took.

### CondVar - `compat/w2k_sync.c` 21-31, 85-104, 225-371
The list (`head`, `tail`, `next`, `isQueued`) is kept link by link, because removal from its middle is one of the things
that can go wrong. `frame` says whose waiter record is in scope. The lock is RWLock; a critical section is a lock held
exclusive. Failing or succeeding allocations and events, and timeouts, are choices. The callers follow the usual
monitor protocol, at its most demanding: a setter wakes once, each woken sleeper wakes the next.

### VEH - `compat/w2k_veh.c` 16-21, 264-338, 380-442
The circular list with its links (an unlinked entry keeps its stale ones), the reference counts, and the walk of
`call_vectored_handlers` split where it leaves `g_lock`: while a handler runs and while it frees a registration
(`Free`, then `Resume`). Handlers may add and remove handlers. `called` and `owed` are history variables. Installing the
dispatch hook and the failures before the list is touched change nothing the properties see and are left out, as is
the SID hook check, which shares no state with the list (SidHook has it).

### SidHook - `compat/w2k_veh.c` 20-262, 444-534, 555-572
The four import entries (static or delay-loaded, of the executable or of `chrome.dll`) that an image may have, and what each
points to. `ensure_chrome_sid_hook` has no lock, so the read of the flag (`Enter`), the capture of the original, each
patch and the store of the flag are steps of their own, and so are the hook's test of the original and its own capture of it
(`TestOriginal`, `ResolveOriginal`); `VirtualProtect` may refuse any patch. `repeated` is history: attach had patched
`chrome.dll`'s static entry before, or two threads were inside the function at once. `DelayResolved` is the delay
loader writing the entry it resolved, perhaps over a hook that was patched meanwhile. A conversion always passes "WD": the hook
must rewrite it, Windows 2000 would refuse it. `Lookup`, `FilePath` and `LoadByPath` are the three calls of
`W2KGetModuleHandleEx*`; other threads free the library between them and load it again.

### AddrInfo, Jobs and Bridges - `compat/w2k_s232.c`, `w2k_job.c`, `w2k_sync.c` 373-482
*AddrInfo* has `getaddrinfo` with its checks and parsers as operators on texts (sequences of digits, dots and letters), the
two loops that build the list one block at a time (`AppendResult`, `OutOfMemory`), `freeaddrinfo` and `inet_ntop`. What
`gethostbyname` answers is external. *Jobs* has both versions of `IsProcessInJob`: each query of the list is a step, and the job
changes between two of them (`JobChanges`). *Bridges* composes the two: a thread makes one call after the other.

### Installer, Roots and Setup - `sfx/w2k_sfx.c`, `certificates/source/w2kroots.c`, `INSTALL.cmd`, `VERIFY.cmd`
*Installer* is `WinMain` from the footer to the last box, with `cabinet_callback` and the filter of names; every step may
fail, and the program may be stopped at any step and run again over what it left. *Roots* goes through the folder one
certificate at a time with the counters of `process_directory`. *Setup* composes them over the folder they share, as a user would:
extract, install, verify, in any order and any number of times.

### BrowserTrace - the launcher, 601-683 and 986-994
The pipe holds `PipeSize` characters; a process with a pending write to a full pipe is blocked. `browser_log_reader_thread`
takes up to `ReadSize` characters at a time and goes through them as the code does, one by one, with the line buffer, the
category test, the event limit and the last unfinished line; one action is one `ReadFile` and the work on its bytes. The
reader or its log may fail to come into being at every start. A character is data the properties tell apart: one that
names a category, a plain one, a carriage return, a line end.

### MediaServer - the launcher, 706-859
The main thread, the server thread and the clients. Every place where one of the first two reads or changes what they
share without a lock (`g_server_stop`, `g_listen_socket`, `g_media_log`, the critical section) is a step of its own, so that a
stop may come between any two lines of the server. A request has one part or two (headers, body), delivered together or
apart; a record is written in three pieces. Client kinds: a post, one that is too long, one that stops sending, a
preflight, anything else. A connection waits in `queue`, the backlog, until `accept` returns it; its client may go or reset it
at any moment, there too. `accept` fails on a closed socket (`AcceptFails`) and may fail on the listening one (`AcceptBreaks`:
a client that reset its connection, no memory); every error leaves the loop for good. `late`, `lost` and `broken` are
history: the wait ended by its timeout; a write failed; `accept` failed on the listening socket.

### Session - the launcher, 134-262, 450-599, 861-1089
One launcher per element of `Session`, with the steps of `launch_browser_diagnostics` and all its exits, down to
`delete_directory_tree_with_retries` and the summary. A profile belongs to a process id, not to a session; process ids come
back after their owner is gone, files that a process has open cannot be deleted, the launcher may crash at any step. Two failures
nobody looks at are steps of their own kind: `delete_directory_tree` takes a profile whose attributes it cannot get for one that is
gone (`OverlookProfile`), and `append_text_file` gives up in silence (`WriteSummary` may leave `summary` "unwritten").

### PatchChain - `patches/*.py`
Each of the seventeen scripts is an action (`StartPE` and `VisitPE` for the walk over the tree, `Candidate12Pwrp` and
`Candidate12Chrome` for the two files of one script). A file is the set of edits it received. That is its bytes: the edits that
may come in either order (those of scripts 1 to 4) touch disjoint bytes and no checksum, and every later one is made on one
input only, or is the first (candidate 12 on `chrome.dll`). The SHA-256 constants become the sets that have these hashes; which set has which
hash is read from the `sha256_before` and `sha256_after` chain in `manifests/`, and `NeedsPE` from
`manifests/candidate-1-patches.json`. The assembly of the machine code, the addresses and the reports are abstracted. `write_bytes`
truncates and writes, so a killed script leaves a torn file, or a whole one and no report. In a torn file the tests
that look at bytes only may find anything; `SHA-256` tests fail. The order is the user's: any script, any time, a fresh
copy any time. `InstallSync` and `FreshCopy` are the user's own steps.

## 3. Runs

Every property of a passing run is broken by a mutant of a mapped definition.

| Run | Instance | Shows |
|---|---|---|
| `SRWLock` | 3 threads, fair, allocation succeeds | exclusion, the counters and events agree with the callers, readers never overtake a writer in line, RWLock is implemented, writers and (once writers cease) readers are served |
| `SRWLock_nomem` | 3 threads, allocation may fail | one state object, no negative count and no lost wakeup even then (`StateSurvivesFailure`) |
| `CondVar` | 3 sleepers, 1 setter, timeouts and failures, fair | the list, the result, the lock on return, no lost wakeup, all leave after one wake call each |
| `VEH` | 2 threads, 3 registrations, fair | ring, links that lead back to the head, and references (`RegistrationsSound`); each handler called once; none called after its removal; the one step that may touch freed memory; a removed registration is freed |
| `VEH_free` | 2 threads, 2 registrations | *violation*: the walk goes on from a freed registration |
| `SidHook` | 2 threads, 2 loads of a library, any imports, any refusal | the hook captures itself only in the two cases that repeat a patch, and the stub never; what a reported success means; handles are live |
| `Bridges` | every hint against texts at the limits of the parsers; a job of up to 4 processes, fair | blocks are freed once, lists and texts are right, an answer about a job was true at a moment of the call, the query ends |
| `BrowserTrace` | 2 processes, 5 characters, pipe of 2, reads of 3, lines of 4, 2 events, fair | no event lost or doubled at a cut or a limit (`EventsRetained`); only a reader that never started blocks the browser, and the trace is finished (`PipeDrains`) |
| `MediaServer` | 2 clients that may go or reset at any moment, a stop at any moment, fair | a stop neither cuts a record nor removes the lock under one, and 204 means logged once (`RequestsAreWhole`); answers fit requests; the server ends and the stop returns (`Stops`); who waits is served until the stop, a silent client or a failed `accept` (`Served`) |
| `Session` | 3 sessions, 2 process ids, 1 retry, crashes, fair | the summary tells whether anything is left and every leftover has a cause, but for the two silent failures (`LeftoversAreTold`); nobody deletes a running browser's profile; the summary is written |
| `Setup` | a package of the tool and 2 certificates, and cabinets of one file with every name of up to 4 characters | success means the whole package is there and nothing is launched otherwise; no name leads out of the folder; SUCCESS of the scripts is true of the certificates the tool found in the folder, which are all that are included only if the package is whole and the search was not cut short (`SuccessIsTrue`; see *Observed*) |
| `PatchChain` | all scripts, 2 kills | a file whose last script succeeded is the documented one; the documented order goes through; the only ways to a dead end |

Bounds. No counter is unbounded: every thread is in at most one call, output, retries and kills are bounded by
`MaxOutput`, `MaxTries`, `MaxCrashes`. Three threads give SRWLock a holder, a woken waiter and one that overtakes it; its
safety is proved for any number. Three sleepers put a waiter at the head, in the middle and at the tail of the list.
Three registrations give the walk a current, a next and a third to be removed or skipped; a registration is never
reused, so memory that was freed stays recognisable. Two threads in SidHook are one that patches and
one that patches, resolves or converts meanwhile; two loads are the least in which a handle can be of the wrong one. In Bridges
the job may hold one process more than the second capacity of either loop, so that each buffer grows, is filled exactly and is
given up; the hints are varied one at a time, which reaches every test of `getaddrinfo`, and the texts lie on both sides
of each limit (65535, 255, four parts, sixteen bytes). In Setup, names of four characters hold every shape the filter can tell apart (it
looks one character behind and two ahead). The sizes of BrowserTrace are the smallest in which a line is longer than
the buffer, a read ends inside a line, the pipe fills and the limit is passed. One retry of thirty shows both outcomes
of the loop; two process ids for three sessions force a reuse; the sessions are
numbered as they start, which leaves out no behaviour but for their names. Two kills leave two torn files, or a file torn after it was
mended by a fresh copy. `CHECK_DEADLOCK` is off where the system ends (CondVar, BrowserTrace, MediaServer, Session) and in SidHook, whose thread
stops when the hook has recursed until its stack overflowed.

Fairness (`FairSpec` of each module, `SessionFairSpec`, `TraceFairSpec`). The scheduler runs a thread that can run, and a critical section is granted in the
end. Beyond this: a holder of an SRW lock releases it some day; a handler returns; in BrowserTrace a write returns when the pipe
has room and a process that is not blocked ends some day; in MediaServer a client sends the rest of its request or goes,
except the silent ones, which hold the server for ever (the code sets no receive timeout; `Stops` and `Served` say so), and `accept` need not fail on an open socket (`AcceptBreaks`
is outside the fairness); in CondVar
the sleepers and the setter go through the monitor protocol to its end; in Session only the launcher's clean-up is fair, a
utility process may stay for ever and the silent failures need never come. In Bridges only the
querying thread is fair; processes may enter and leave the job for ever. Nothing is assumed of other calls, of timeouts, of failures or of the stop. `EverybodyServed` speaks of readers only
for the case that writers cease: the code prefers writers and may starve readers. PatchChain and Setup have no fairness: their order is
a user's. SidHook has none: every call ends unless its stack overflows, and nothing there waits.

### Finding
`VEH_free`: `call_vectored_handlers` frees a removed registration outside `g_lock` and continues from a node it saved
before; no reference keeps that node alive. `FaultsOnlyOnResume` of run `VEH` shows that no other step is exposed.

### Observed while modelling
What the properties and the models say of these is in brackets; none has a run of its own.

* With no memory for the state, `W2KAcquireSRWLockExclusive` returns without the lock (the call is VOID), and two threads may be
  inside at once. [`MutualExclusion` is stated, and proved, for allocations that succeed.]
* The wait for the media server has a timeout and its result is not looked at; the log may be closed while a record is
  being written and is then not the JSON Lines that `diagnostics/COLLECTED-DATA.txt` promises. [`RequestsAreWhole` shows that this and a failed
  write are the only ways.] The extension shows "Marker recorded locally" on any 204, in these two cases too.
* The profile directory is named after the process id and an existing one is taken; after a crash or an incomplete clean-up
  a later launcher with the same id starts in the old profile, where `docs/DIAGNOSTICS.md:37` and
  `diagnostics/COLLECTED-DATA.txt:59` say new. [`LeftoversAreTold` does not take their promise for granted: it says which
  earlier session such files can be of.]
* Any error of `accept` ends the monitor for the rest of the session, also one that concerns a single client; the summary goes on
  to say "available". [`Served` names it as one of three causes.]
* A thread that patches `chrome.dll`'s static entry between another's check and capture makes that one capture the hook; so does
  an entry that attach patched before. The next conversion then calls itself until the stack ends. [`CapturesItselfOnlyOnRepeat`
  says that no other way leads there, in particular none that has the calls one after the other.]
* `ensure_chrome_sid_hook` patches one of `chrome.dll`'s two entries, and a delay resolution under way writes over its patch; the flag
  stays set and nobody patches again. [`InstalledIsHooked`.]
* `INSTALL.cmd` says SUCCESS of every included root, but the tool goes by the folder: a partial extraction, or a search that
  `FindNextFile` ends early, hides some. [`SuccessIsTrue` states the condition.]
* A carriage return that arrives on a full line buffer leaves an extra empty line that is counted: `EventsRetained` speaks of the
  kept events, not of the line count.
* A body that arrives in one segment with its headers is not held against the limit of 32768.
* The result of the summary's append is not tested, and a profile whose attributes cannot be read counts as removed: a session may
  leave files behind and its summary say nothing, or "complete". [`LeftoversAreTold` names these two, `Silent`, and shows that there
  is no third.]
* Candidate 12 writes `pwrp_k32.dll` before it tests `chrome.dll`, and tests that one for a string. Run before candidate 9, or
  with a `chrome.dll` that was torn, it leaves files that no script of the chain accepts; `StuckExplained` says that
  these, and kills, are the only ways. A fresh copy is the way out, as the build guide says.
* The script for `p_cryptp.dll` tests two bytes; run again on a torn file it may report success. `FinishedIsDocumented` is
  therefore about the other four files; the table of final hashes in the build guide would tell.
* If the headers of `w2ksync.dll` need step 1 (`BridgeNeedsPE`), running that step again after the bridge was installed changes its
  hash, and candidate 12 refuses until it is installed again.

## 4. Proofs

`SRWLock_proofs.tla` proves for every finite set of threads:

* `TypeCorrect`, `OneObjectHolds`, `StateSurvivesFailureHolds`: without any assumption on allocation.
* `MutualExclusionHolds`, `StateAgrees`, `NoStrandedWaiterHolds`, `WriterPreferenceHolds`, `Refinement`: when
  allocation succeeds (`~AllocMayFail`; without memory the acquire calls return without the lock).

The argument. `ObjectInv` says who works on which object: a private object is fresh and not published, every other
call works on the published one; and that the writers in line are counted. It is inductive by itself. `LockInv` adds
that the holders are counted and a writer is alone (`HolderInv`), that the two events tell the state of the lock outside
the gate (`EventsTellState`), and that a thread sleeps only on an event that is reset (`SleepInv`). The properties are
not inductive without it: exclusion needs the counters, the absence of lost wakeups needs the events, and both need
that everybody works on one object. Each part of the invariant has a lemma with a step per action; holders entering and
leaving are lemmas on cardinality. Refinement maps every action to a step of RWLock or a stutter.

`Release_proofs.tla` is about the two halves of a release, the scripts that make the package (PatchChain) and the
installers that bring it to a machine (Setup). For any number of kills it proves:

* `FinishedIsDocumentedHolds`. The property is inductive once `tree` is known to be a function on the files: a step that changed a
  finished file would have to accept as input what is not the final contents, and the step that finishes one finds all
  but the last edit. One lemma covers the scripts that test a hash (its premise, the input is not final and the last
  script completes it, is checked for each script), others the byte tests, candidate 12 and the walk of step 1.
* `StuckExplainedHolds`. `StuckInv` says what any file can look like after any scripts in any order (`Near`): the first part
  of the chain, or one of the few mixtures that the byte tests admit, or torn, which takes a kill; and that the
  two files of candidate 12 have it both or neither unless the script is between them (`TwoFiles`). From each of these that is not
  a named dead end some script goes on.
* `DocumentedOrderGoesThroughHolds`. `OrderInv` says what every file holds while the scripts have been run in the documented order:
  `Held` is the part of the chain that concerns it, and while step 1 is under way, whether the walk has passed it
  (`WalkOnTheWay`). Then the script that is next finds its input and never refuses; a script out of order, or a kill, leaves the
  premise of the property.

And for any package, folder, store and names of any length:

* `SetupTypeCorrect`, `ExtractionIsSoundHolds`, `SuccessIsTrueHolds`: what setupapi has reported so far is in the folder
  (`ExtractedInv`), the store holds what the search came to without a failure (`CountInv`), and one program runs at a time, so
  that neither changes under the other (`TurnInv`).
* `StaysInsideHolds`. The code's filter looks at a character and its neighbours (`SafeName`), the property at whole components of
  a path and the depth it leads to (`Inside`). `NamesInv` says that every file the extractor has begun passed the
  filter; the rest is about names: a component ends before a separator or with the name (`ComponentEnds`), so that a component
  `..` would have been seen by the filter (`SafeNeverUp`) and no part of the path leads up.

`CondVar_proofs.tla` proves `ListWellFormedHolds`, `TrueIffWokenHolds`, `LockHeldOnReturnHolds` and `NoLostWakeupHolds` for any number of
sleepers. Its first part is about linked lists: `Reachable` is the least set that follows the links, a `Chain` has one
end and no node twice, and appending, or removing a node from the head, the middle or the tail, keeps a chain and
changes its set by that node. The second part uses these for the invariant `CondVarInv`: the list is a chain of exactly the
enlisted waiters, each in its frame (`ListInv`); who works under the lock holds it in its own mode and a writer is alone (`LockInv`);
a waiter is queued or woken, never both, and a signal is always a wakeup (`WakeInv`); who goes to sleep has seen the
condition false and who is about to wake has seen it true, and no call finds the slot empty while somebody is on the
list (`ReadyInv`). `NoLostWakeup` needs all of it: a setter excludes the sleepers by the lock, and what a wake takes off is
the head of a whole list.

`VEH_proofs.tla` proves for any threads and registrations, and handlers that add and remove handlers:

* `TypeCorrect`, `RegistrationsSoundHolds`, `FreedByOne` (what is handed to `HeapFree` is live, off the list and in one thread's hands);
* `EachCalledOnceHolds`, `RemovedNotCalledHolds`, `FaultsOnlyOnResumeHolds`: the latter two speak of steps.

What a walk has still before it is `From`, the least set that follows the links; since entries that left the list keep their
links, it is defined from any of them. The lemmas on lists say how `From` changes when a node is unlinked or put in. `VEHInv` adds
to the property that an entry that was never registered is nobody's successor (`RingInv`), that the list is what is
live and in nobody's hands to be freed (`HeapInv`), and that a dispatch has all it owes before it and all it has
called behind it (`WalkSound`). The links of an unlinked entry still lead back to the head (`LeadsBack`): without it, it is not clear
that the walk, and with it `g_lock`, is ever left. The references make a handler's entry stay on the list while it runs; so
the step from it is safe, and only `Resume`, which stands on no reference, may find freed memory.

`Launcher_proofs.tla` is about the three parts of the diagnostics launcher.

The media monitor: `TypeCorrect`, `RightAnswerHolds` and `RequestsAreWholeHolds` for any finite set of clients. `MediaInv` says that
the log and the lock outlive the server until the wait times out (`Outlived`), that what the server decided fits what was
sent (`Decided`), whose pieces are in the log (`Owned`), and, while nothing was late or lost, that the pieces are in
order, how far the last record is, and that each acknowledged post is there once (`Undisturbed`).

The sessions: `RunningKeepsProfileHolds` and `LeftoversAreToldHolds` for any sessions, process ids and number of retries. The
invariant: living sessions have different process ids, a profile holds only files of sessions with its process id
(`OwnersInv`), a session's files are there until its own clean-up, and the summary agrees with what is left unless one of the
two silent failures came between.

The event trace: `EventsRetainedHolds` for any processes, any text they write, reads, buffers and limits of any size. The
property counts pieces of the text by their line and their place in it; the reader counts when it cuts its buffer. `Scanned` is what
connects them: the column that was read to is a number of full buffers and what is in the buffer now; `hot` says whether the
piece in the buffer is among those that name a category, and `kept` is what is retained of the others. A
piece that is begun is never one of those finished (`PieceIsNew`, because along a line the column does not fall), so that none
is counted twice. Each kind of character has a lemma (`EndStep`, `FullStep`, `ReturnStep`, `PutStep`), and a read is an induction
over its characters (`ScanStep`), wherever it ends. What was read does not change when more is written (`SameText`); the reader
ends only when nobody holds the pipe and all was read (`TraceInv`).

`SidHook_proofs.tla` proves `CapturesItselfOnlyOnRepeatHolds`, `InstalledIsHookedHolds` and `HandleIsLiveHolds` for any number of
threads and loads. The delay loader writes back delay-loaded entries only, so that a patched static entry stays patched
(`StubsAreDelayed`); a thread that is about to raise the flag has patched (`FlagIsHooked`). While nothing is repeated one thread at
most is inside `ensure_chrome_sid_hook`, and none finds the static entry patched: whoever patched it raises the flag before
it leaves (`OnceOnly`).

`Bridges_proofs.tla` proves for any arguments, texts, host lists, processes and limits:

* `NothingLeaksHolds` and `AnswerOfTheMomentHolds`: only the loops hold a list under construction and only a call that
  succeeded has a result (`HeapInv`); the current answer is always among those that were true since the call began (`MomentInv`).
* `PortsAreRead`, `NodesAreRead` and `WrittenIsReadBack`, about the parsers and the writer. The reference definitions are the value
  of a text of digits (`Value`) and the four fields that three dots cut out of a text (`Quads`). A parser is a function on the
  positions of a text, and each lemma is an induction over them, as a least position that fails (`Induction` of `Positions`, from
  the library's theorems on well-founded relations). `NumberGrows` is why giving up at the first value that is too large is right.
  For `parse_ipv4`, `Reached` says what the scan holds inside a quad whose dots are given (`CutsAreRead`) and `Opened` which dots a
  scan that succeeds has passed (`CutsAreFound`).
* `ListIsCompleteHolds` and `TextReadsBackHolds`. `ResolverInv`: a call that passed the tests has a port for each variant, and the right
  one (`AskInv`); its addresses are the node's or the host's (`NodeInv`); the entries listed so far are those the two counters
  say, entry `i` for address `Rank(i)` and variant `Turn(i)` (`ListInv`).

The proofs assume what the modules' ASSUMEs state (finite sets, `None` and `NoPid` outside them, positive capacities), and nothing
of fairness.

Only model-checked: liveness and ENABLED (out of the prover's reach), and the violation. What recursive functions compute is
proved all the same: `Induction` of `Positions` speaks of a set of positions where the library's theorem takes a predicate.

## 5. Plan

Done: all modules and proofs above. What could follow: abstract specifications of what a session and the media log
promise, implemented by the detailed modules.

### Not modelled
* Terminal services (`compat/w2k_wts.c`): each of the nine functions looks up an export and forwards, or reports that there is no
  session. There is no state from one call to the next.
* The sanitizer (launcher 274-391): one pass over the characters. What makes it right is how its patterns overlap in the
  text, which an abstraction of the characters would leave out; MediaServer treats a sanitized body as one piece.
* The YouTube extension: its handlers run one at a time on one page and share only that page's timers. Its posts are
  the client `post` of MediaServer.
* The collector and the import and export tooling: sequential conversions of data into files.
* Two details inside modelled functions: the walk of `freeaddrinfo` along the chain is a count of its blocks (the chain is a sequence,
  which nobody else holds), and the RuntimeError of step 1 on an import name it does not expect (`VisitPE`), which cannot be raised:
  the script reads that name through `pefile` from the same bytes just before.
* The forwarding of the other Winsock exports, the counting mode of `W2KROOTS.EXE`, and the detaching of the handler
  bridge, which happens only when the process ends.
* The probes, manifests, prose and certificates.
