# Verification of Remote File Explorer

Remote File Explorer is a VS Code extension that opens files on a server over
SSH/SFTP, FTP or an HTTP agent.  This directory holds TLA+ modules that model it,
TLC configurations that check them on small instances, and proofs of the type
invariants and the safety invariants of these runs for every instance.  Paths below are relative to the
repository (`src/src/...`).  `PROJECT.json` ties every definition to the lines it
models and every property to a mutation of the code that breaks it.

## 1. The system

JavaScript runs one callback at a time.  Everything that can go wrong lies
between two `await`s: a timer, a socket event, a user's command or another call
runs there, and what was read before may no longer be true.

| Component | State it keeps | Operations |
|---|---|---|
| `core/ConcurrencyController.ts` | `_activeCount`, `queue` | `enqueue`, `execute`, `dequeue` |
| `core/ConnectionManager.ts` (pool) | `activeAdapters`, `statusMap`, `reconnectTimers`, `reconnectAttempts`, `lastReconnectTime`, `reconnectingInProgress`, `reconnectBlocked`, `keepaliveInterval`, cached setting `autoReconnect` | `connect`, `disconnect`, `removeConnection`, `setAdapter`, `startReconnect`, `startKeepalive`, `performKeepaliveCheck`, `dispose` |
| `core/ConnectionManager.ts` (store) | `connections`, a JSON file, VS Code's secret storage | `loadConfigurations`, `saveConfiguration`, `addConnection`, `updateConnection`, `removeConnection`, `getConnection` |
| `core/LocalCacheManager.ts` | cached files and `.localhash` sidecars on the disk, `currentCacheSize`, `pathCache` | `readCache`, `writeCache`, `deleteCache`, `pruneCache`, `getCachePath` |
| `providers/RemoteFSProvider.ts` | one adapter, cached settings | `stat`, `readDirectory`, `readFile`, `writeFile`, `delete`, `rename`, `createDirectory`, `watch` |
| `commands/syncCommands.ts` | one adapter per connection | `syncFromRemote`, `syncToRemote` |
| `adapters/SSHAdapter.ts` | `client`, `sftp`, `connected`, `terminalOnly` | `connect`, `disconnect`, file operations, recursive `delete`, `search`, `createShell` |
| `adapters/FTPAdapter.ts` | `client`, `connected`, `dirListCache` | `connect`, `disconnect`, file operations over one client |
| `adapters/AgentAdapter.ts` | `connected`, the pool of sockets | `connect`, `disconnect`, `apiRequest` below every operation |
| `terminal/TerminalManager.ts` | `activeTerminals`, `closeListeners`, shells | `ensureConnected`, `openTerminal`, `dispose` |
| `providers/SidebarProvider.ts` | `adapters`, `dirCache`, `sortConfigs` | `getChildren`, `refresh`, `registerAdapter`, `setSortMode` |
| `extension.ts` | registered providers, sync handlers | activation, the handler of status events |
| `commands/`, `ui/`, `search/` | an open dialog; the count in the status bar | commands, dialogs, status bar, search |

**Interaction.**  The user's commands, the reconnect timers and the keepalive
loop call `connect()` and `disconnect()` of the manager, which creates an adapter
for each attempt and registers it when it succeeds.  The terminal manager makes
adapters of its own and registers them with `setAdapter()`.  Status changes are
emitted as events; the activation code answers `connected` by registering a file
provider, a sidebar adapter and a sync handler for the adapter registered at that
time.  The provider sends the adapter's operations through the concurrency
controller; the sync commands, the sidebar and the search call the adapter
directly.  Provider and sync commands share the local cache, without a lock.  The
tree keeps listings of its own above those the FTP adapter keeps.

**What is hard, and what must hold.**

* *Controller.*  A lost slot or a lost wake-up stalls every file operation.  The
  counter must equal the operations in flight, callers are served in order, and each
  is served.
* *Connection pool.*  Attempts overlap: a connect, a reconnect, a terminal, a
  timeout whose handshake still ends, a disconnect that waits up to 10 s.  The maps
  must agree, a connection the user closed must not be scheduled again, dead links
  must be retried once they are noticed, and the others must see a pool of connections.
* *Configuration store.*  The file must be whole whatever crashes or fails, a removed
  connection must not come back, and a saved password must not get lost.
* *Files.*  The cache is the only place a saved file exists until it is uploaded.
  Digests must describe the cached files, "already up to date" must be true, saved
  work must survive, the size limit must be kept, by age.
* *Activation, terminals.*  Handlers of events go on after an await, and a
  registration in their middle may throw: what is registered must fit together.
* *Listings.*  Two caches above each other, changes and late answers: what is shown
  must be recent and must not lack what the user has just done.
* *Adapters.*  Calls end although a server hangs, nothing is left open, what a
  recursive delete removes is what it was asked to, a write that is cut short is
  reported, and requests stay within their limits.

The complete list of hazards, with lines and properties, is in `PROJECT.json`.

## 2. Modules

| Module | Models |
|---|---|
| `BoundedPool` | what a concurrency limiter promises: a set of busy and a set of waiting callers |
| `ConcurrencyController` | `ConcurrencyController.ts`; implements `BoundedPool` |
| `ConnectionPool` | what the other components see of the connection manager: per id a status and an adapter, and the changes that may be announced |
| `ConnectionManager` | the pool of `ConnectionManager.ts`, with the outcomes of `doConnect`, `disconnect`, `isConnected` of `SSHAdapter.ts` and `ensureConnected` of `TerminalManager.ts`; implements `ConnectionPool` |
| `ConfigStore` | the configurations of `ConnectionManager.ts`: memory, file, secrets |
| `ConnectionDialog` | `ConnectionDialog.ts` and the commands that change configurations; extends `ConfigStore` |
| `TerminalManager` | `TerminalManager.ts` over `ConnectionPool` |
| `Extension` | the wiring of `extension.ts` and the status bar; composes `ConnectionPool` and `TerminalManager` |
| `LocalCacheManager` | the cached files, the sidecars and the size counter of `LocalCacheManager.ts`, one definition per stretch between two awaits |
| `RemoteFiles` | `RemoteFSProvider.ts` and `syncCommands.ts` over `LocalCacheManager`, which it extends |
| `PathCache` | the cache in `getCachePath()` |
| `FTPAdapter` | the session of `FTPAdapter.ts` and the listings it keeps |
| `SidebarProvider` | the listings of `SidebarProvider.ts`, with the commands of the menu and the provider's operations that change directories; extends `FTPAdapter` |
| `TreeOrder` | sort modes, order and limit of the rows in `SidebarProvider.ts` |
| `RemoteSearch` | `search()` and `parseSearchOutput()` of `SSHAdapter.ts`, with the search command |
| `SSHDelete` | the recursive `delete()` of `SSHAdapter.ts` |
| `SSHAdapter` | the session and the other operations of `SSHAdapter.ts` |
| `AgentAdapter` | `apiRequest()`, `connect()`, `disconnect()` and the private networks of `validateHost()` of `AgentAdapter.ts` |
| `...Proofs`, `ConnectionManagerRefinement` | the proofs about the module of that name; `PartsProofs` about the six modules of `MCParts` |
| `MC...` | the instances TLC checks; `MCParts` puts six modules that keep to themselves into one run |

### ConcurrencyController

`activeCount` and `queue` are the fields; `phase` is what became of each caller's
promise.  `Enqueue` is `enqueue()`, `Settle` the `finally` block of `execute()`
with the `dequeue()` it calls: synchronous code, hence one step each.  `Hanging`
operations may never settle.

### ConnectionManager and ConnectionPool

`conn[id]` holds the entries of all the manager's maps for one id.  `sess[s]` is
one attempt with the adapter it creates, for an adapter outlives the call (the
60 s race may end first) and its registration (`setAdapter()` overwrites it).
`keepalive` is the field `keepaliveInterval`, where `fired` is a timer that is over
and a field that is not null.  The synchronous parts (`StartReconnect`,
`EndDisconnect`, `Forget`, ...) are functions of the entries of one id, and
actions apply them: `UserConnect`/`TimerFires`/`OpenTerminal` start a call,
`LookupDone`/`LookupFails` end the lookup of the configuration, `ConnectOk`,
`ConnectFails`, `ConnectTimesOut`, `TerminalOk`, `TerminalFails` end the call,
`LateHandshake` is a handshake that ends after its call, `Drop` a dying link,
`Notice` the event of an SSH client that reports it (`SshIds`; an FTP or agent adapter has
none, and answers `isConnected()` from a flag that only its `disconnect()` resets), `UserDisconnect`, `Remove` and
`Dispose` begin and `CloseDone` ends a closing, `KeepaliveTick` and
`CooldownElapses` are the clock.

`ConnectionPool` keeps only status and registered adapter.  `Announced(id)` are
the pairs that may follow with a `statusChange` event, `TerminalOnly(id)` is
`setAdapter()`, `Forgotten` the end of a removal.  The manager maps to it by
projection; `Extension` and `TerminalManager` are built on it, so that what they
assume of the manager is what the manager is shown to do.

### ConfigStore and ConnectionDialog

`mem` is the map of configurations, `disk` the files of the two names, as inodes,
because a writer goes on writing into a file that another call has renamed;
`secrets` are the ids with a stored password.  A call is in one stage between
awaits: `reading` the secrets, `closing` the connection, storing the `secret`,
`mkdir`, `open`, `write`, `rename`, `cleanup`.  `Restart` kills the editor at any
of them.  A configuration is reduced to its mounted paths, their labels and
whether a password was given.  `acked`, `gone` and `promised` are histories that
serve the properties.  `ConnectionDialog` adds the one dialog that can be open: a
`draft` whose mounted-path objects are shared with the stored configuration
(`RelabelPath` changes both), and the commands of the sidebar.

### TerminalManager and Extension

`term[t]` is one call of `createTerminal()` with its pseudoterminal, and whether
its window is open.  `StatusChange` is the synchronous part of the handler,
together with the change of the pool that causes it; `pending` are the handlers
that await the configuration, `Resume` is the rest, in which
`registerFileSystemProvider()` throws if the scheme has been registered before.
`kind` tells which method opened the session of an adapter: `connect()`, after which an
SSH session may be without a file channel all the same, or `connectTerminalOnly()`.

### LocalCacheManager and RemoteFiles

`data` and `sidecar` are the files on the disk, `age` their order by modification
time, `counter` is `currentCacheSize`, `made` tells whether the cache directory of
`Dir` exists.  A content is a model value, and the digest of a content is the
content; a truncated file holds `Torn`.  `calls[c]` is a running operation: its
stage `pc` is the await it stands at.  `Begin`, `List`, `Prune`, `Open`, `Write`,
`Written` walk through `writeCache()`, and the operation that called it goes on
in `Written`; `Stat`, `UnlinkCached`, `UnlinkDigest` through `deleteCache()`.
`remote` is the server, `dirty` the text in the editors.  `OtherWrites`, `Type`
and `Restart` are the environment.  The history variable `saved` (what the user
saved and has not uploaded, replaced or deleted, and the cache has not pruned)
serves the properties alone.

### FTPAdapter and SidebarProvider

A listing kept has two ages: what its timestamp says, and how old what it says
about the server is; and it lacks a set of changes: calls that have changed the
directory since, or who has been told of such a change.  `Dirs` are paths as they are
written, not directories: a listing is kept under the path it was asked for, and a change
forgets the listing under what `path.posix.dirname()` makes of an entry's path.  What it
changes under other paths (`Others`: the same directory with a slash at its end, a
directory that is removed or moved and what is below it, ancestors that are made) is
forgotten by nothing; any set of them lacks a change made `elsewhere` from then on.  basic-ftp runs one task
at a time, and a second task closes the client (`Collide`); an SSH or agent
adapter (`kindOfAdapter`) runs calls side by side and keeps nothing.  `Expand`,
`ReadDirectory` and the commands start a call; `Submit` passes it to the library,
`Serve` is the server, `Arrive` and `Return` end it, `Refresh` is the button,
`Tick` the clock.  An FTP `delete()` lists the parent first.

### The parts of MCParts

* `PathCache`: the `Map` is the sequence of its keys in insertion order; `used` is
  the history of all keys by last use.
* `TreeOrder`: `SortConfig(path)` is the inheritance of sort modes, `Compared` the
  comparison, `DirectoryItems` the rows that are shown.  Every listing up to a bound is
  an initial state.
* `RemoteSearch`: from the command to the parsed lines; `ExecAnswers`, `Data`,
  `ProcessEnds`, `StreamCloses`, `Quiet` (the time of the timeout passes) and
  `SearchTimeout` come in any order.  `Data` has no end of its own: over `MaxOutput` a chunk
  is dropped, and starts the timeout again like any other.
* `SSHDelete`: one branch per entry; `ChildDone` and `ChildFails` are the callbacks
  by which branches join or fail.  `IsFolder` is the test of the mode's bit, which sockets
  and block devices (`Specials`) have too; `NotADirectory` is the server's answer to that.
* `AgentAdapter`: a call waits for one of the sockets of its pool, for the response,
  for its chunks.  `draining` counts the sockets on which the body of a redirect still comes
  in, for as long as the server likes.  `disconnect()` drops the pool, after which a request makes another.
* `SSHAdapter`: stages of `connect()`, `disconnect()` that races a timer and the close
  event, and operations as a request, the server's steps and the callback.

## 3. Runs

Passing runs:

| Run | Question | Bounds |
|---|---|---|
| `controller` | counter, order, refinement of the pool; is everybody served although one operation hangs? | five callers, two slots, one caller that may hang: three wait at a time, so that queue order matters |
| `manager` | do the maps agree in every interleaving, and is the manager a `ConnectionPool`? | an ssh and an ftp id that share the keepalive loop, two sessions, three attempts before the cooldown |
| `manager_live` | do attempts and cycles end, are dead ssh links noticed, and dead links retried? | one id, two sessions, three attempts |
| `files` | digests, the answer "up to date", pruning by age, and does saved work survive crashes and full disks? | two files of a directory, two contents, all operations one at a time, everything else interleaved with their stages |
| `files_concurrent` | does the same hold when two calls prune each other's files? | saves, pulls and deletes of different files, two at a time; one file in the directory, one outside |
| `extension` | do provider, sidebar, sync handlers, status bar and terminals fit together? | an ssh and an ftp connection, two adapters, two terminals, a secret storage that may reject |
| `config` | is the file whole, do removals and passwords last? | two connections with one path each, two labels of which the dialog misreads one, one call at a time and one dialog beside it, a crash |
| `tree` | how old is a listing the tree shows, and does it lack the user's own changes? | two directories, two calls, both kinds of adapter, all commands and operations, lifetimes of two ticks, calls of at most one; any set of other paths may be changed |
| `parts` | the six modules of `MCParts` | below |

`parts` chooses one of six parts in its first state: six keys on a path cache of four;
three paths in each other, two sort fields, up to three of four entries and two rows; five
matches (with colons in path and text), two of them kept and any number of chunks; a tree
of eleven entries with a directory in a directory, an empty one, a link to a directory
outside, an entry somebody adds, and a directory with a socket; three requests on two
sockets, two redirects, one chunk; one SFTP operation at a time on two names with two calls
of `disconnect()`, files of two blocks.

Why the bounds are enough: two sessions are the fewest in which a late or replaced session
meets a new one of the same id, and two ids the fewest in which closing one could disturb
the other; three attempts are those of the code; the safety properties of `manager` are
proved for any number of both (section 5).  Two files are enough for one call to prune what
another writes, and two contents for a digest to be wrong.  Files and sidecars of size 1
with a limit of 1 make pruning frequent; `MaxCounter` bounds the counter: no operation
starts beyond it.  Two terminals of one connection are the fewest that replace each other
in a map.  One crash may come at any step of any dialog, and what it leaves on the disk
meets all later operations.  Two calls of which one changes what the other lists are the
fewest in which an answer is late, and with lifetimes of two ticks and calls of one an
answer may come before and at the expiry of another listing; a call that lasts longer than
a lifetime, so that its listing is too old to be kept, is covered by the proofs alone.  Two
branches, one of them empty, are what a recursive delete can join too early.  Two redirects
and one chunk reach both limits and pass them.  The models end at their bounds or when
everything is closed, so deadlock is checked for the controller only.

What the passing runs leave out, on purpose: calls that concern the *same* cached file at
the same time (`Overlap`), for which the digests do not hold; `SidecarMatches` is not
claimed of a cache after a write that was cut short; `SavedIsKept` is about everything but
pruning, which removes saved work, for nothing in the code marks a file as not uploaded;
two saves of the configurations at a time, which is `config_whole`; listings on adapters
other than FTP in `TreeHasMenuChanges`, where a late answer does bring an old listing back;
and listings kept under another path of the directory that is changed, such as a mounted
path with a slash at its end, which nothing forgets and only `ListingIsRecent` bounds.
`DeadLinkIsNoticed` is about ssh connections: a dead FTP or agent connection stays
connected until the user disconnects.  `TerminalsAreNotWired` is about the method that
opened a session and no promise of a file channel.  `EverythingSettles` excuses a search
whose output never ends, and calls of an agent's once the endless bodies of redirects hold
all sockets; without either excuse TLC finds the call that waits for ever.
`FailsForAReason` excuses trees with a socket or a block device in them, which cannot be
deleted. `LinesAreUnderstood` is about paths without a colon and texts that do not start
with a short number and a colon.

The properties that relate more than one component or step are commented where they are
stated.  `TypeOK` of `files` and `parts` are checked in those runs and proved; the type
invariants of the other modules are proved and not run.

Runs that show where the code departs from what its comments or tests say; the quotation
and the explanation are under `findings`:

| Run | Violated | In short |
|---|---|---|
| `files_unsaved` | `UnsavedTextIsKept` | text typed during a pull is replaced without a question |
| `config_whole` | `FileIsWhole` | two saves share one temporary file: the "atomic" write is not atomic against another |
| `ssh_types` | `FilesAreFiles` | the mask for links shares a bit with regular files: every file is typed `symlink` |

Other places where the code goes wrong, or may surprise, are modelled step by step without
a run of their own, and are listed under `hazards` with a note: a second `connect()` next
to a running one; a reconnect in flight that undoes a disconnect; a connection removed
during its `connect()` that stays registered; `dispose()` that overlooks attempts in
flight; a terminal and a connect that leave two sessions; a second connection of one
protocol that is never browsable; the drifting size counter; a file cut short that is
served and uploaded; a stale prune list that removes a file just saved; an upload that
overwrites others' changes; FTP operations that close each other's client; listings under
another path that stay; FTP and agent links whose death is never noticed; a session without
a file channel that is wired all the same; redirect bodies and search output without end; a
directory with a socket in it that cannot be deleted, and a link whose directory is emptied
although the link stays.

## 4. Fairness

* *Controller.*  Every operation that is not in `Hanging` settles: the adapters'
  requests fail when their socket closes.  Nobody has to call.
* *Manager.*  Weak fairness of each attempt's next step (the race has a 60 s
  timeout, the lookup reads the secret storage), of `Notice` for ssh sessions alone (the
  client's keepalive packets fail on a dead socket, and its close event resets the flag;
  nothing does for the other protocols), of `CloseDone` (a 10 s timer bounds it), of the
  keepalive tick and the cooldown (clocks).  Strong fairness of `TimerFires`: a timer
  that is due fires, and only the bound on `Sessions` can disable it in between.
* *Parts.*  Timers fire: the timeout of a search, the timer of `disconnect()`, the idle
  timeout of a request.  Nothing is assumed of the server of a search, of a session or of an
  agent, which may hang at any point, or send a chunk in time again and again.  Strong
  fairness of `GetSocket`: the requests of an `http.Agent` queue for its sockets, and each
  gets one if they become free again and again.  A recursive delete has no timeout in the code:
  `DeleteSettles` assumes that the server answers or refuses every request.
* *Files, configurations, activation, tree.*  Safety only, no fairness.

## 5. Proofs

All proofs hold for every value of the constants under the modules' named
assumptions (finite sets of callers, sessions and connections, a positive limit).

* **`ConcurrencyControllerProofs`.**  `Correctness`: the counter is exact, no slot
  idles while a caller waits.  The invariant needs the queue to be free of duplicates
  and to hold exactly the callers in phase `queued`; then `Settle` moves one caller
  from the queue to the running set, whose cardinality is unchanged.
  `FirstComeFirstServed`: the action property `NoOvertaking` from the same invariant,
  since a newcomer starts only below the limit, where the queue is empty.
  `Refinement`: initial states and steps map to those of `BoundedPool`.
* **`ConnectionManagerProofs`.**  `Safety`: the type invariant, `ConnectedIsServed`,
  `NoStuckConnecting`, `KeepaliveNeverStalls`, `AdapterMatchesId`, `ProgressIsBacked`
  and `NoReconnectWhileBlocked`; `ConnectedHasAdapter` and `CyclesGoOn` single out two of
  them.  They are not inductive by themselves.  `IInv` adds
  that a registered adapter belongs to its id and that its call is over (so that a
  failing call never drops another's registration), that a session has a caller exactly
  while its call runs, and that an armed keepalive loop has a registered adapter to
  watch (so that a tick always arms it again).  The lemmas come in three
  layers: what each synchronous part does to the entries of one id; that changing one
  id's entries, or one session, keeps `IInv` under conditions on that id alone; and one
  lemma per action.
* **`ConnectionManagerRefinement`.**  `PoolRefinement`: the manager implements
  `ConnectionPool`.  A step of the manager changes several maps of one id, and the lemma of
  each action shows that status and adapter together move as the pool may move.  Besides
  `IInv` one more invariant is needed (`Unused`): an id that was not added yet has no
  adapter, and no call runs for it.
* **`ExtensionProofs`.**  `WiringSafety`, `TerminalSessionsAreNotWired`, `BarCountsOpenOnly`,
  `TerminalsAreTracked`: the type invariant and the four safety invariants
  of the run `extension`.  The strengthening says that a handler which awaits the
  configuration holds a session that `connect()` opened, and that a terminal nobody asked for
  has no window.  Such a session never becomes a terminal's, because only an unused one
  does; the count in the status bar stays right because a session leaves
  the pool only with an event, which recounts.
* **`ConnectionDialogProofs`.**  `FileStaysWhole`, `RemovedIsNeverBack`, `PromisesAreKept`
  and the type invariant, under the hypothesis `[]Serial`: at most one call of the store
  runs at a time.  The hypothesis is needed, and the code does not see to it: with two calls
  `FileIsWhole` is false, which is the finding of `config_whole`.  The run `config`
  has one call for the same reason.  Calls may still fail at each step, and the editor
  may be killed any number of times.  The invariant says what each stage of a save has
  reached: what of the memory it writes, that the temporary file is not the file, and what of
  the histories (acknowledged, removed, promised) has to be in the memory, in the secrets
  and in the file while a call is between two of them.
* **`RemoteFilesProofs`.**  `CacheIsTyped` holds of any calls.  `SavedStaysKept`,
  `DigestsMatch` and `UpToDateMeansSame` hold for any number of calls on different files,
  that is for the value `FALSE` of the constant `Overlap`, as in the runs: calls that
  overlap on one file do break them (section 8 and the hazards).  `OldestArePruned` holds
  while calls run alone, because a list that is out of date removes a file just written.
  Three invariants lie on top of each other: the shape of the state (`TypeInv`); what each
  call has done to its files at each stage (`FilesInv`): its own files are left alone by all others
  except prunes, which take content and digest apart in two steps; and the list of the
  prune (`PlanInv`).  The proof attempt showed that the history `saved` of the model gave a
  rename to a file that was pruned meanwhile the wrong value; `Written` has been corrected.
* **`SidebarProviderProofs`.**  `TreeIsRecent`, `TreeShowsCommands`,
  `AdapterKnowsOwnChanges` and the type invariant, for any directories, lifetimes and
  durations.  The invariant says of the FTP client that it runs the task of at most one
  call, and of each listing (of the adapter, of the tree, of a call that has its answer) that
  its age is at most that of what it says, and that, but for changes made under other paths,
  it lacks nothing but the change of a call in flight, which forgets the listing before it
  returns.
* **`PartsProofs`.**  Each part has a specification of its own (`PathSpec`, `OrderSpec`,
  ...), and the last section shows that a run of `MCParts` is one of each
  (`PartsAreTyped`: its type invariant).
  *Path cache* (`RecentlyUsedStay`, `PathCacheIsLimited`): the cache is the end of the
  sequence of all keys by last use, no key is in either twice; a hit moves a key from its
  place to the end of both.  With a limit of one, "half" is nothing and the cache would
  hold two keys: `PathCacheMax > 1` is assumed, the code's constant is 1000.
  *Order of the rows* (`DirectoriesStayReachable`): the comparison is a total preorder in every
  mode, with the index a total order; how many entries are not after an entry is an injection
  into as many places as there are entries, hence a bijection, and a directory's place is
  before that of each file.
  *Search* (`TimersEnd`, `LinesAreTakenApart`): the timer is armed only from `exec()` on and
  while the process it waits for has not closed its stream, also for a search that has
  rejected; what is kept of the output is no more than its limit.
  *Delete* (`OnlyTheTreeIsRemoved`, `DeletesFailForAReason`): whatever branch is active lies in
  the directory the target is or leads to, and what is unlinked is below it or is the target
  itself, a file; and as long as nothing is refused or added, and no socket or block device
  lies in the tree, a directory that waits, waits
  for exactly the children it still has, each of which is being removed, so that `rmdir()`
  meets an empty directory.  `DeleteIsTyped` needs a third count: disturbed or not, a directory
  waits for at least the children that are being removed.  `Ancestors` is written as
  a closure and not by recursion, and `TreeAssumption` says that no directory lies in itself.
  *Agent* (`RequestsStayConfined`): each of the two pools has at most as many requests and
  bodies of redirects on its sockets as it has sockets, only a response that is being read occupies memory, and none
  is over its limit; hence the bound on what all of them occupy together.
  *SSH session* (`SessionsEnd`, `WritesAreWhole`): `disconnect()` is called only after the
  attempt to connect has resolved, the session keeps its client until the first call
  resolves, and nothing is left of it afterwards; an operation that runs alone finds on
  the server what its own steps have put there.

Left to TLC:

* all liveness: `QueuedIsStarted`, `AttemptsMoveOn`, `DeadLinkIsNoticed`,
  `DeadLinkIsRetried`, `EverythingSettles`, since the prover handles neither `ENABLED` nor
  fairness;
* the three violated properties;
* what is beyond the hypotheses named above: the runs make the same restrictions, by
  `Overlap` and by bounds, so that a theorem says no less than a run does.

Every invariant a passing run checks is the subject of a theorem, and so are the refinements
and the action property `NoOvertaking`.

## 6. What is abstracted

* Time: an armed timer may fire; 5 minutes of cooldown are a flag; the back-off's
  delays are left out.  The lifetimes of listings are ticks.
* The queue of the controller only delays an adapter's call, which the file and the tree
  models allow anyway.
* Contents, names and paths are model values.  The file model has one directory, one level
  deep; it is renamed to a name outside the model.
* `fs.writeFile()` truncates, then fills; a sidecar is written in one step because an
  unfinished digest equals no other, like a missing one.
* A pull's refresh of the editor replaces and saves the text at once.  VS Code's
  `save()` of a document does not reject when the write fails.
* A line that a search prints is the sequence of its fields between colons, of which it
  matters whether they are numbers and how long they are.  An address is its first two
  octets.  The type of an entry is the top bits of its mode.
* A line that the limit of a search's output cuts in two, and informational HTTP responses,
  are left out.
* Of libraries (ssh2, basic-ftp, Node's http and fs, VS Code) what the code relies on is
  modelled and marked external in the map.

## 7. Not modelled

* `menuCommands.ts` forwards each menu entry to a command and keeps no state.
* Labels, icons, context values of the tree; texts and validation of dialogs; copying of
  paths and the display of properties: presentation only.
* `AgentAdapter`: the checks of host names and paths as text, the bodies of the
  requests, where a redirect leads.  What the model keeps of them is that they may refuse.
* `SearchEngine`: the builder of a command line and the deprecated parser are not used.
* `LocalCacheManager.clearConnectionCache` and `clearAllCache` are called by tests only;
  the listeners that refresh cached settings of the cache and the provider are left out,
  so that settings are constant.
* The remote path of a mounted path cannot change in `ConnectionDialog`, only its label.
* What a file transfer over FTP carries, and the mapping of a listing's entries.
* Input to a shell and the size of its window.
* `types.ts` and `IProtocolAdapter.ts` are declarations; the records are defined where they
  are kept.  `src/out` is compiled from `src/src` and is not mapped.  The tests are read as
  documentation.

## 8. Plan

Done: all components with state of their own, and a theorem for each invariant of a passing
run.  What remains, in order of importance:

1. Listings by directory instead of by path: which of the other paths a change reaches (the
   slash, links, what lies below) is any set so far.
2. Overlapping calls on one cached file: what still holds of a save that races a download.
3. `Extension` over `ConnectionManager` itself instead of `ConnectionPool`: by `PoolRefinement`
   the wiring holds of the real pool.
4. Theorems for overlapping saves of the configurations: what holds of the memory and the
   secrets (`RemovedStaysRemoved`, `PromisedIsKept`) does not need the file to be whole.
