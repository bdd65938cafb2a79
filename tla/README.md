# Verification of pyFreenet

TLA+ models of pyFreenet, checked with TLC on small instances, with theorems
proved by TLAPS for all instances.  Every definition is translated from the
source; `PROJECT.json` maps each one to the lines it stands for, lists the runs
and their properties, a mutant of the code for each property, the hazards the
properties are for, the findings and the theorems.

    tlc -workers 2 -config FcpNode_transient.cfg MCFcpNode
    tlc -workers 2 -config SiteInsert_update.cfg MCSiteInsert
    tlc -workers 2 -config PutDir_jobs.cfg PutDir
    tlc -workers 2 -config MCManifestPlan_plan.cfg MCManifestPlan
    tlc -workers 2 -config StateFile_read.cfg StateFile
    for m in *_proofs.tla FcpNodeSteps.tla; do tlapm $m; done

## 1. The system

| part | source | state it keeps | operations | status |
|---|---|---|---|---|
| FCP connection | `fcp3/node.py` | `jobs` table, `clientReqQueue`, `running`, `nodeIsAlive`, `shutdownLock`, socket; per `JobTicket` a result and two locks | `_submitCmd`, `wait`, `waitTillReqSent`, `cancel`, `refreshPersistentRequests`, `shutdown`; the manager thread `_mgrThread` with `_on_rxMsg` and `_on_clientReq` | modelled: `FcpNode` |
| node operations | `fcp3/node.py` 349-1930 | none of their own, but for the tested directories | get, put, genkey, peers, plugin messages, configuration, persistent queue: format keywords, call `_submitCmd` | requests of `FcpNode` |
| putdir | `fcp3/node.py` 763-1131 | lists of waiting, running, done inserts | file-by-file scheduler, manifest | modelled: `PutDir`, `DirInsert` |
| testDDA | `fcp3/node.py` 1299-1365 | cache of tested directories | two-message handshake over files | not modelled |
| namesites | `fcp3/node.py` 1480-1735, `names.py` | local records, peers | add, remove, lookup | not modelled |
| site manager | `fcp3/sitemgr.py`, `freesitemgr` | one state file per site, the node's global queue | insert, reinsert, cancel, cleanup | modelled: `SiteInsert`, `ManifestPlan`, but for generated pages |
| state file parser | `fcp3/pseudopythonparser.py` | lines not parsed yet | `parse`, `readline` | modelled: `StateFile` |
| file system | `fcp3/freenetfs.py`, `freedisk` | table of file records, freedisks | cache, commit, mount | not modelled |
| chat client | `babcom_cli` | captcha watchers, timers, messages | watch, introduce, announce | the watchers: `CaptchaWatch` |
| node spawner | `freenet3/spawn.py` | ports, node folders | spawn, teardown | not modelled |
| front ends | `get.py put.py upload.py genkey.py invertkey.py redirect.py copyweb fcp*` | none | one node operation each | not modelled |
| proxies, bridges | `fproxyproxy.py xmlrpc.py fcp_to_*` | none | pass one call on | not modelled |
| XML mapping | `xmlobject.py` | a tree | DOM wrapper | not modelled |
| third party | `freenet_passlib_170`, `appdirs.py` | | | out of scope |

How the parts meet.  Client threads put `JobTicket`s into `clientReqQueue`; the
manager thread alone reads the socket, registers a job in `jobs` and sends its
command; the answer is put into the ticket and its lock released, on which the
clients poll.  Everything else is built on `_submitCmd`: the site manager keeps
its inserts on the *global queue of the node*, which outlives the program, and a
*state file*, which outlives it too; a run of `freesitemgr` must bring both
together, whatever stopped the run before.  The file system, the chat client and
putdir poll several asynchronous tickets at a time.

What is hard here: the interleavings of client threads and manager around two
locks per ticket, one table, one queue and three flags; a crash of the manager in
the middle of a resolution; messages that arrive late, twice or for nobody;
identifiers used twice; timeouts that race answers; the state file, the queue and
the user's directory changing independently of each other; failures of single
jobs of a larger insert; kills between two writes.  Section 6 has the hazards by
line with the properties for them.

## 2. Modules

    FcpMessages      what the dispatcher does with a message for a job
      FcpNode        threads, tickets, table, queue, crash, shutdown
        JobPromise     what a ticket promises its callers (abstract; instantiated)
        FcpNodeInv     the inductive invariants
          MCFcpNode    instances for TLC
          FcpNodeSteps   facts about sequences and frames of the steps
            FcpNode_proofs   theorems for all requests, nodes and failures
              FcpNodeTracked_proofs   theorems for orderly nodes, transient requests
    PutDir           putdir's loop over tickets of JobPromise (instantiated)
      DirInsert        what putdir promises (abstract; instantiated)
      PutDir_proofs    theorems
    SiteInsert       a freesite, its state file and the node's queue
      MCSiteInsert     instances for TLC
      SiteInsert_proofs  theorems on identifiers, state file and queue
        SitePublished_proofs  theorems on what the manifest shows
    ManifestPlan     which files go into the manifest, update after update
      MCManifestPlan   instance for TLC
      ManifestPlan_proofs  theorems
    StateFile        the reader of state files against their writer
      StateFile_proofs   theorems
    CaptchaWatch     the captcha watchers of the chat client

### FcpMessages and FcpNode

| code | model |
|---|---|
| `JobTicket` attributes | `job[t]` (identifier, command, keywords that matter, options), `result[t]`, `flags[t]` (attributes set by dispatch) |
| `lock`, `reqSentLock` | `lockHeld`, `sentHeld`: the tickets whose lock is taken |
| `node.jobs`, `clientReqQueue`, `running`, `nodeIsAlive`, `shutdownLock` | variables of these names |
| where `_mgrThread` is | `mpc`, with the ticket at hand, the result it delivers, where it goes on, and the list a crash is walking through |
| where a client thread is | `cpc[c]`, `cjob[c]`, and how its last call ended, `cret[c]` |
| the socket | `wire`: tickets whose command was sent in full |
| the node | `Receive(m)`: any message of `Messages` about a request it was sent, or that another connection made (`ForeignIds`); with `Orderly`, in the order FCP has |

A step is what a thread does between two points at which another thread can see
or disturb it.  `_submitCmd` is `BeginCall` (liveness check, new ticket) and
`Enqueue`; `wait()` is `SeeSent`, `SeeLock`, `Unlock` with the two timeouts, and
`getResult()` is `GetResult`, as the manager may run between the two;
`_putResult` is `PutResult` and `Release`, since a client may run between the two;
`_on_clientReq` is `TakeRequest` and `SendDone`; the except branch of `_mgrThread`
is `CollectWaiting`, `FailWaiting`, `WaitingFailed`, `FailQueued`, `QueueDrained`.
`_on_rxMsg` is `Receive` with the case analysis of `FcpMessages`: which ticket a
message is for (`JobFor` makes one for an unknown identifier), which result, which
flags, whether the table forgets the job, whether the dispatcher raises.
`IsPersistent` is what `isPersistent` says: any `Persistence` or `PersistenceType`
but "connection", "reboot" included.  It looks them up under names that the requests
the library makes do not have, so it is only true of requests that the node
announces for other connections.

Left out: times (a poll of a held lock may give up at any moment if
`TimeoutsFire`), what callbacks do apart from raising, bytes of messages (a
message arrives whole; the endless loop at node.py:2765 on a stream that ends is
not modelled), the hello exchange, logging.

`JobPromise` is the abstract specification: a ticket is made, later gets one
outcome, which only a kept job may change, and what a caller is given is the
outcome the ticket has.  A caller of a kept job may also be given a `RuntimeError`:
the code releases the lock of such a job once per result, under a waiter that is
about to release it itself, and the specification says no more than what holds.
Delivery is of an outcome some ticket has: it does not tie a caller to its ticket.

### SiteInsert

| code | model |
|---|---|
| the state file | `disk`: readable, missing (between unlink and rename) or unreadable; records and two flags |
| the `SiteState` object | `mem`, gone when the program ends |
| the global queue | `queue[n]`: none, running, done or failed, for each file and `__manifest`; the contents the jobs were given, `raw` and `manifest` |
| the directory | `edits`, `gone`: version of each file |
| the published site | `site` |
| `freesitemgr` | `command`, `pc`; `after` is where a save returns to |

`Load` starts a run with any command; `save()` is two steps, `Unlink` and
`Rename`, and a `KeyboardInterrupt` between them is swallowed and leaves no state
file (`SaveInterrupted`, at the saves of the constant `Interrupts`); the loops over
jobs and files are a step for each element, the removal of jobs from the queue
(`RemoveJob`) included; `Crash` ends the program at any step.  The user's `Edit` and `Delete` and the node's `JobDone`
and `JobFails` interleave with all of it.  `interrupted` is a history variable: a
kill, a cancellation, `--no-insert` or a cleanup of a failed manifest after which
the code promises less.

Which files are large is not modelled here: `LeftOut` and `TakenBack` are constant
operators, any functions of the contents that were scanned and of that of the index
page, which the code reads again when it plans (1482).  `LeftOut` are the files
without a place in the manifest, which are marked as changed if they have no CHK;
`TakenBack` those of them that go in after all, because there would be too many
redirects, which keep their mark.  That the plan is a function of the contents is
`SamePlan` of `ManifestPlan`.

A sitemap of the user's (`Sitemap`, where it is in `Files`) is a file like the
others, with one difference: `GenSitemapUri` gives it a CHK while it is still
embedded (1264-1272), and nothing computes that CHK again or inserts it.  When such a
file leaves the manifest, 1530 does not mark it and the manifest redirects to what it
was at first, if that was ever inserted.  It takes no file that goes back into the
manifest, as finding 2 does for the others: a growing index page is enough.  So
`UpToDateIsPublished` and `Converges` speak of the other files (`Pages`), while the
remaining properties and all theorems hold with a sitemap among the files.  The two
runs have none.

Left out: the sitemap that is generated where there is none, files uploaded from
disk by the node, edition numbers, MIME types, keys, the `insertingIndex` flag that
is never set, several sites.  Contents never come back, so equal versions mean equal
contents.  The state file gives back what was saved: names that its reader rewrites
are seen in `StateFile`.  Listing the global queue is taken to show it as it is.
Which tenth file is saved after is left open.

### PutDir and DirInsert

| code | model |
|---|---|
| `manifest`, `jobs`, `inserting`, `complete`, `total` of `putdir` | variables of these names; `inserting` and `complete` as the last round counted them |
| where the caller is | `pc`, with the file at hand in `cur` |
| `job.result` of a file's ticket | `outcome[f]`; `kept` are the tickets on the global queue, `delivered` what `job.wait()` handed over: the variables of `JobPromise` |
| `msgLines` | `entries`, the files named, and `bad`, those named with an exception |
| the manager thread, the node | `Send`, `Answer`, `ConnectionLost`, `FailWaiting` |

Between the two models stands `JobPromise`: `FcpNode` implements it, and the
tickets of `PutDir` are its variables, which change by its actions; that is how
`PutDir` is composed of them, and nothing that is checked.  Upwards,
`PutDir` implements `DirInsert` (`KeepsDirPromise`), which knows nothing of lists
and counts: at most `limit` inserts run, each file is inserted once, the manifest
comes last.  A launch refused because the file is gone or the connection lost is
one disjunct.  The files to insert are any, none included: what a caller's manifest
calls changed, or what `readdir` finds.  After the loss of the connection
`FailWaiting` puts the exception into every job of the table, kept ones that have
a result already as well.  Left out: the listing of the directory, MIME types,
`chkonly`, the fate of the manifest's own job.

### ManifestPlan

| code | model |
|---|---|
| records | `files`, `target`, `uri`, `changed`: the names with a record, with a target, with a CHK, in state "changed" |
| `recBySize`, `recByIndexAndSize` | the orders `Smaller` and `Before`; `left` is what the loop has not looked at |
| `totalsize`, `maxsize` | variables of these names |
| the manifest that was made | `named` |
| the directory | `disk`, `size`, `mentioned` |

`Scan`, `MarkSpecial`, `Consider` (once per file, in the order of the code),
`TakeBack` (the loop at 1535) and either `NoUpdate` or `Upload` and `MakeManifest`
are one run of update.  It is the division of `SiteInsert` with its sizes, here
with inserts that succeed and runs that are not cut short, so that what the next
plan makes of the records of the last is all there is to see.  History variables:
`forced`, the files taken back; `plan`, the last targets while nothing is edited;
`inserted`, whether a CHK was inserted or only computed.

### StateFile

The reader's attributes are variables of these names; the writer (`written`,
`variable`, `text`, `line`, `stack`) goes token by token through every well-nested
text and may end the line after each; the reader takes the line then (`EndLine`).
Of a text the brackets matter to the line machine, and of what is between them
what `jsonload` makes of it: "x" is text that is loaded as it was.  "(" is text that
one of the replacements of lines 62-73 changes, which are made in strings, too: "a
(1)" comes back as "a [1)", and the ends of strings, " True" or a lone " u" change
in the same way.  "'" is text that cannot be converted: the state files are JSON
and have none, but of the pretty-printed namesites file a string in single quotes
with a double quote in it breaks the loop at 89-99 (96-97 repeats the beginning of
the line).  Then `json.loads` fails on the whole value, or the loop raises an
`IndexError`; the model has the first, after which the reader takes in the rest of
the file and `parse` refuses it, while the second refuses it at once.  Scalars
(183-215) are taken as they are.

### CaptchaWatch

`captchasolutions` and `captchawatchers` are the attributes of `Babcom`; a
generator is the set of tasks it still has; `loop`, `at` and `upto` say where the
timer's loop is; `intro` is the thread that provides new CAPTCHAs.

## 3. Runs

All passing runs are exhaustive over their instance.

| run | question | instance |
|---|---|---|
| `transient` | are tickets safe when everything goes wrong? types, invariant, waiters find results, resolved jobs are gone, sent means sent, a crash fails who waits, results are final | 2 clients, 2 tickets, 3 identifiers; a direct get, a peer listing, WatchGlobal; sync and async calls; redirects, late messages, timeouts, failures |
| `sticky` | is the table right for jobs that stay in it, and do they keep `JobPromise`? | 2 clients, 2 tickets; a kept get, a global put, a persistent get of another connection |
| `shutdown` | does everyone get away? under fair scheduling | 2 clients, 2 tickets; a get, refreshPersistentRequests, shutdown from both, failures |
| `answered` | do calls come back, is the answer always matched, does a lock have one owner, does the manager survive? | 2 clients, 2 tickets, a direct get and one whose data go nowhere; an orderly node that answers, and announces and removes a persistent get of another connection |
| `site_update` | is the site consistent with state file and queue, and does updating converge? | index page and one file, two versions each; the file outgrows the manifest, or the index page leaves it no room; all commands, kills, a save interrupted before the end, failed files and manifests |
| `putdir_jobs` | does putdir's loop keep `DirInsert`, and end? | up to 3 files, `maxconcurrent` 2, both file-by-file modes, global or not; failing inserts, vanished files, a lost connection |
| `manifest_plan` | are the right files chosen, is a plan stable, is no file lost, how far may the manifest exceed its limit? | index page, activelink, sitemap, style sheet, picture, present or not, of two sizes, mentioned or not; 1 separate file |
| `state_file` | does the reader end each value where the writer does? | 1 scalar, 2 structures in any order, up to 6 tokens each, up to 3 on a line, texts that are rewritten or cannot be converted |
| `crash_waiters`, `site_moved_out`, `putdir_default`, `captcha_unwatched` | statements of comments and docstrings the code violates, section 5 | smallest instances that show it |

Why the bounds are enough.  Two tickets and two clients are the fewest that share
an identifier, a lock or the table, and every action mentions at most two tickets
(one at the manager's hand, one in the table) and two clients; the proofs need no
more and hold for all.  One identifier more than there are tickets lets a message
come for a job that is not there.  One separate and one embedded file are what the
site's steps tell apart; two versions make a stale CHK, and a file that crosses
the limit, possible.  Three files at two places
make putdir wait for a place, and for the last jobs; it looks at one job at a time.
For the manifest every class of precedence has a file and the sizes are such that
each limit is reached from both sides.  Six tokens nest brackets three deep and
close an inner one of the kind the reader waits for at the end of a line.  The mutants show that the interesting
cases are reached:
each property of a passing run is violated, in the same instance, by one change
in the code it is about.

`CHECK_DEADLOCK FALSE`: a pool of tickets is used up and the manager may be gone,
so the connection really stops; a state file lost between unlink and rename stops
the site; a state file ends.  Symmetry over clients and tickets is used in the runs without liveness
properties.

## 4. Fairness

`FcpNode`: weak fairness of the manager's own steps and of each client that is in
a call: threads are scheduled, polls end when the lock is free, `sendall` returns.
Nothing obliges a client to call, the node to send, a timeout to fire or the
connection to fail.  `AnsweredSpec` adds that the node answers (strong fairness,
for the manager reads only when it is polling and may be made to look for requests
in between); only `SyncCallReturns` needs it, and says so.

`SiteInsert`: weak fairness of the running program; `freesitemgr update` is called
again and again (strong, since other commands may run in between), which is what
`--cron` is for; every job of a file ends; a manifest that is tried for ever
succeeds some time (strong).  Where a file fails the state file cannot be read again,
and `Converges` promises nothing.  Editing, failing, killing and cancelling are never
obliged to happen.

`PutDir`: weak fairness of the program, of sending, of the first answer to each
insert and of the failing of jobs after a loss of the connection; losing it is
never obliged.  `CaptchaWatch`: weak fairness of the timer's loop and of the thread
that provides CAPTCHAs.  That somebody solves one is not assumed.

## 5. Findings

Each is a run in which TLC finds the violation; `PROJECT.json` quotes the comment.

1. `crash_waiters` - the crash branch gives every job its exception but leaves
   `reqSentLock` of unsent jobs held: their waiters go on polling (node.py:1976).
2. `site_moved_out` - a file that was separate, then embedded, then separate again
   keeps its first CHK (sitemgr.py:1530).  To a sitemap of the user's it happens as
   soon as it leaves the manifest (section 2).
3. `putdir_default` - not file by file, the list the manifest is made from stays
   empty: putdir inserts a manifest without files (node.py:1075).
4. `captcha_unwatched` - solutions are put into the list of what is watched before
   the watcher is made, so every watcher watches nothing (babcom_cli:448).

Met on the way, and in the models as they are, without a run of their own:

- Connection: a kept job that is resolved twice lets `wait()` raise `RuntimeError`
  (3043, 2965); `wait(timeout)` keeps `reqSentLock` (2918), so that the next one on
  that ticket raises `FCPSendTimeout` although the command was sent; a command that
  passed the liveness check may be queued after the crash branch drained the queue,
  and is never failed (2036); `isPersistent` looks for keywords the library does not
  set, so `cancel()` does nothing to jobs made here (2858); of a request of another
  connection it writes to the socket from the caller's thread, possibly while the
  manager sends, though the comment at 2111 says "we're the only one who will" (3019):
  the two writes overlap in the model (`CancelSent`), but it has no bytes they could
  mix up; of two concurrent calls of `shutdown()`
  one never returns (1901); two callers of `refreshPersistentRequests` both pass its
  check (1800).
- Site manager: after a cancellation that comes when the manifest has been made,
  update says "No update required" (sitemgr.py:752); a new insert removes file
  inserts that still run and does not repeat them (822); a failed insert puts an
  exception into the state file, which cannot be read any more (1072, 676).
- Manifest: the activelink's size replaces the running total (1471), and the
  activelink is taken whether it fits or not (1516); a file forced back into the
  manifest stays marked as changed, so that every update is a full one (1530, 1540);
  a sitemap with a computed CHK is redirected to without an insert (1266).
- putdir: one by one, a failed insert ends putdir (1052); of a caller's manifest the
  unchanged files are neither inserted nor named (what would have used their URIs,
  897-967, is dead code under `if 0:`); `put()` waits for ever when the
  connection is lost before its command is sent (1041).
- State files: a string with " (", "),", " True" and the like in it is not what was
  saved (pseudopythonparser.py:62-73), so a file "a (1).html" is a new one to every
  run; a pretty-printed string with a double quote makes the file unreadable (97).
- Chat client: `identityfrom` looks for a string in the bytes of the answer, so the
  loop would end at the first CAPTCHA it saw solved.

And read, but not modelled: `createindex` never runs
without an index page, since the plan fails first (sitemgr.py:1479); the tuple
`get()` returns is unpacked into two names (node.py:1712); the message of `parse`
adds a list to a string (pseudopythonparser.py:56); a string with " = [" is read as
a list (156).

## 6. Hazards

The full list with lines is in `PROJECT.json`.  By kind:

| hazard | properties |
|---|---|
| the answer races the registration of its job | `SentIsTracked`, `SyncCallReturns` |
| two steps of `_putResult` and the waiters around the lock | `WaiterHasResult`, `WaitersExclude`, `KeepsPromise` |
| entries of the table deleted by identifier | `TableMatchesTickets`, `ResolvedIsGone` |
| a crash between two steps, and what it owes to whom | `CrashFailsWaiting`, `CrashReachesWaiters`, `EnqueuedIsServed` |
| late and duplicate messages | `ResultIsFinal`, `ManagerSurvives` |
| locks that say "sent" | `SentIsOnWire` |
| shutdown against everything | `StoppedMeansStopped`, `ShutdownReturns` |
| identifiers left on the global queue | `NoCollision`, `SiteInv` |
| state file and queue disagree, nothing having been interrupted | `ResumeFindsManifest` |
| stale CHKs and files left out of the manifest | `UpToDateIsPublished`, `ManifestComplete` |
| edits while an insert runs, failed manifests | `Converges` |
| counting jobs that another thread resolves | `PutDirInv`, `KeepsDirPromise`, `PutDirEnds` |
| a result read twice, failures among many inserts | `BadEntriesAreKept`, `FailuresAreCarried` |
| a manifest made from the wrong list | `NamesEveryFile` |
| two limits that pull the plan apart | `WellChosen`, `LimitKept` |
| a plan that leaks into the next | `SamePlan`, `QuietUnlessForced`, `NothingLeftOut` |
| a value that seems to end within itself, or cannot be read | `InStep`, `KnowsTheEnd` |
| a list that means "watched" before anything is | `SolvedIsSeen` |

Hazards where the code does go wrong and no text promises otherwise have no property,
and a note that says so: a cancellation, a kill or a cleanup in the wrong moment, the
unreadable state file, files taken back into the manifest, the sitemap, the second
writer on the socket.  Properties of the same parts of the code exclude these cases.

## 7. What is proved

Every invariant a passing run checks is also a theorem, and so are all action properties
and refinements but the liveness ones.  The modules below hold for
all values of the constants that satisfy the assumption of the module they are
about (`ConstantsAssumption`, `SiteAssumption`, `PlanAssumption`, `FileAssumption`
and that of `PutDir`), which says that sets are what they are named for and bounds
are numbers; where a theorem needs more, its statement says `ASSUME`.

### The connection, for any requests, messages and failures (`FcpNode_proofs`)

- `Invariance`: `IInv` is an invariant.  The safety properties are not inductive:
  that a resolved ticket is gone needs that an unresolved one has exactly one place
  where the next thing will happen to it - with the client submitting it, in the
  queue, at the manager's hand, in the table or on the crash list.  `IInv` says
  that, in parts (`ManagerInv`, `TableInv`, `QueueInv`, `SubmitInv`, `LockInv`,
  `GoneInv`, `WireInv`, `CrashInv`), with one preservation lemma per part and one
  step per kind of step in it.
- `TypeCorrect`, `WaiterServed`, `WaitersAlone`, `ResolvedGone`, `SentOnWire`,
  `TableMatches`, `CrashFails`, `Stopped` follow from it; `ResultFinal` is an action
  property proved from it.
- `Refinement`: `Spec => KeepsPromise`.  The mapping takes a ticket's result as
  its outcome, the sticky tickets as kept, and what a client's last call returned as
  delivered.  Steps that write `result`, make a ticket or end a wait map to steps
  of `JobPromise`, all others to stutters.

### The connection, as this library uses it (`FcpNodeTracked_proofs`)

Here the identifiers matter, and what the node sends.  `OwnIds` are the identifiers
that belong to this connection alone: not `__global`, not used by other connections, of
requests for which `isPersistent` is false, and whose jobs no message about a removal
takes off the table.  The library also makes requests under `__global`, and it is told
of persistent ones; they may all be there, but the first theorem does not speak of
their answers.

- `OwnAnswerFindsTicket`, under `~SharedIds` (no identifier is given to two calls,
  other than `__global`): a request under one of `OwnIds` that was sent and not
  answered is in the table, whatever the other requests and messages are.  `AloneInv`
  says that no two tickets have one such identifier, so that nobody else's answer
  takes a job out of the table; `TrackInv`, that a ticket is registered from before
  its first byte on.
- `AnswerFindsTicket`, under `OwnRequests` (all requests are under `OwnIds`): then
  this is `SentIsTracked`.  It excludes `refreshPersistentRequests` and the listings
  of peers, which use `__global`, and every persistent request.
- `ManagerStays`, under `ProtocolKept`: no message makes the manager raise while the
  connection holds and callbacks return.  `ProtocolKept` says that the node sends what
  FCP lets it send, in its order, no identifier is given to two calls, and that
  messages that bring data (`DataFound`, `AllData`) are about requests under `OwnIds`
  that say where the data go (`ReturnType` or `Filename`, as `get()` does).  Requests
  under `__global`, persistent ones, and those of other connections, announced and
  removed, may go on beside them, but bring no data.  Excluded, because they do make it
  raise, are data for a job that is gone, which is what a late message is, data for
  the announced get of another connection that was cancelled, and data for requests
  without a place to put them.  `GetsOpen` is what the theorem rests on: the messages
  that assume a job or a get are sent while that job is there.

The run `answered` satisfies `ProtocolKept`, and all its own requests are under
`OwnIds`, so that TLC checks both properties there.

### putdir (`PutDir_proofs`)

- `PutDirInvariance`: `PutDirInv` is inductive.  A file is in one place
  (`PlaceInv`); the counts of a round stay on the safe side while the manager
  resolves jobs behind the loop's back (`CountInv`), which keeps the number of
  running inserts below the limit (`RunInv`); the list of entries is made of what is
  through (`ListInv`); the connection has only what was launched (`TicketInv`).
  Sets of jobs are counted, so the proofs rest on lemmas on the cardinality of the
  running and complete ones.
- `PutDirTypes`, `BadEntries`, `FailuresCarried` follow; `PutDirKeepsPromise` says
  that file by file putdir implements `DirInsert` - not as a whole, see the run
  `putdir_default`.

### The site (`SiteInsert_proofs`, `SitePublished_proofs`)

For any files, a sitemap among them or not, any `LeftOut` and `TakenBack`, and any of
`FileJobsFail`, `Cancels`, `Crashes`, `Interrupts`:

- `SiteInvariance`: `SiteInv` is an invariant.  Its parts: `SaveInv` (a save returns
  to a place that saves), `FreeInv` (between the clearing of the queue and the
  submission of a job its identifier is free), `ResumeInv` (memory and queue agree
  on the manifest unless an update is about to make a new one; disk and memory
  agree outside a save).
- `SiteTypeCorrect`, `IdentifiersFree`, `ResumeCorrect` follow from it.
- `EveryFileNamed`: a file that is separate and has no CHK is marked as changed from
  the plan to the manifest (`Marked`), and gets one.
- `NothingToDo`: when update says that there is nothing to do, the site shows what
  was scanned, of every file but the sitemap.  `PubInv` is the invariant: a record that
  is not to be inserted has the CHK of what it was scanned as (`Sound`, `Matched`), the
  last manifest made shows it (`Shown`), and what the state file says agrees with that
  (`SavedFit`), each unless an update was interrupted.  The theorem has the hypothesis
  `[][StaysOut]_vars`: no file that has a CHK is taken into the manifest.  It is
  needed, as finding 2 shows.  A condition on the contents of single files does not
  give it: how much room there is depends on all of them.

### The plan (`ManifestPlan_proofs`)

For any files, sizes, texts and limits:

- `FilesWellChosen`: the invariant `ChooseInv` says that the files looked at come
  before those left (`LoopOrder`), that where one was left out none of its class
  fits any more (`RoomGone`; here it matters that the order within a class is by
  size), and what was taken back and why (`TakenBack`).
- `NothingIsLeftOut`: what is separate without a CHK is marked as changed
  (`ChangedInv`), gets a CHK (`UploadInv`), and is named (`NamedInv`).
- `PlansRepeat`, `QuietRuns`: two runs of the loop are compared.  `Trace` is what
  the loop counted with at each file, as a function on files that starts at `Start`
  and goes on by `After`; `BuiltInv` says that one exists of the run so far, `KeptInv`
  that a run over an unedited directory has, file by file, the counts of the last
  one; and `OnePlan`, that of all sets of files to take back only one is as small
  as the limit asks for and holds the smallest.
- `LimitIsKept`: the running total is where the loop started and the sum of the
  sizes of the files taken in, the limit has moved by one redirect for each of them,
  and after each of them there was room for a redirect to every file (`CountInv`).
  That a sum over a set does not depend on the order it is taken in (`SumStep`,
  `SumWithout`) is proved from a smallest counterexample (`Smallest`), as the
  provers have no induction.

### The reader of state files (`StateFile_proofs`)

- `FileInvariance`: the brackets the reader counts are those the writer has open,
  the outermost is the first token of the value, and what closes it is its
  counterpart (`NestInv`); the reader has what was written up to the last end of a
  line (`UpToDate`), or it is stuck with a value it cannot convert (`Stuck`, `ReadInv`).
- `ReaderInStep` and `ReaderKnowsTheEnd` follow, for any nesting and lines of any
  length: what is loaded is what was written for the name, as `jsonload` rewrites it,
  and a file is refused just when a value in it cannot be converted.

### Only model-checked

- Liveness: `EnqueuedIsServed`, `ShutdownReturns`, `SyncCallReturns`, `Converges`,
  `PutDirEnds`.  They need fairness and ENABLED, which are outside the prover.

## 8. Plan

1. The safety parts of liveness properties: that a ticket that was enqueued always
   has a step that will serve it, as an invariant.
2. The manifest of `SiteInsert` as an instance of `ManifestPlan`: that `LeftOut` may
   be a function of the contents is `SamePlan`; the rest is to be composed.

## 9. Not modelled

- testDDA: two calls in sequence by one caller.  That two tests of one directory
  share an identifier is the case of equal identifiers in `FcpNode`; the cache is
  read and written in single steps.
- Namesites: a list, a file and a lookup that fails in a single step; there is no
  protocol to interleave.
- `freenetfs` and `freedisk`: written for Python 2.  The constructor of the file
  system calls `file()`, which Python 3 does not have, so there is no state of a
  mounted file system that the program as it is could be in.
- The persistent queue seen over several connections: what the node lists is any
  message of another connection in `FcpNode` (`ForeignIds`).
- Spawning a node: downloads, copies and processes in sequence.
- `xmlobject`, the proxies, bridges and command line front ends: one call each,
  passed on.  The rest of `babcom_cli`: plugin messages and prompts.
- The vendored `freenet_passlib_170` and `appdirs`, which are most of the lines of
  the repository, are third-party code.

Runs are kept to what asks a question of its own: when a component is added, its
passing run takes the place of the smallest violation run.
