# Specifications of the World of Pixels server

TLA+ models of the server in `src/`, the configurations that check them with
TLC, and the theorems about them that TLAPS proves. The server keeps worlds of
pixels that many players paint at once: one thread runs an event loop that
serves web sockets, HTTP requests, timers and the answers of a database, and a
pool of worker threads encodes images.

Paths below are those of the repository (`src/X.cpp`); `PROJECT.json` maps every
definition of the models to the lines it stands for.

## 1. The system

| Component | State | Operations | Its correctness |
|---|---|---|---|
| Connection admission: `ConnectionManager`, the `ConnectionProcessor`s, `ConnectionCounter`, `Client` | the list of pending connections, the position of each in the chain of processors, counts per address | `handleIncoming`, `handleAsync` and its callback, `handleEnd`, `handleFail`, `handleDisconnect`; kicks and the stop in `Server` | exact counts on every path; the limit of an address; a late answer never touches a dead socket; no check is skipped; everything ends |
| Sessions and users: `AuthManager`, `Session`, `User`, `UviasRank` | maps of weak pointers from tokens to sessions and from ids to users; the ranks | `getSession`, `loadSession` and its callback, `getUser`, `updateRank` | one live object per token and per id; no user with an old rank |
| Rank notifications: `Server::registerNotifs` | `AuthManager::ranks`, what is queued and on its way | `LISTEN`, loads, notifications, lost connections | no change is missed |
| Worlds: `WorldManager`, `World`, `Chunk`, `WorldStorage` | players; chunks with their pixels, protection, cache, two flags and a lock; files; requests for images | join, leave, paint, protect, view, unload, save, convert; the task of the worker and its callback | nothing painted is lost; caches and files are coherent; nothing is unloaded under a worker; every viewer is answered |
| Chunk geometry: `World::paint`, `Chunk::setPixel`, ... | the arrays of a chunk | cutting coordinates of 32 bits | pixels are independent, areas too |
| Bans: `BansManager` | a table, a flag, a file | ban, unban, reset, ask, stop, start | bans last as long as asked, over restarts |
| Legacy storage: `WorldStorage::maybeConvert`, `pchunks.bin` | the set of old clusters, their protections | conversion to images, load and save of the protections | a conversion loses nothing and overwrites nothing, over restarts and failures |
| Players: `Player`, the roster of `World`, the lists of `Session` | the players and ids of a world, the clients of a session; positions, updates to send | join, leave; move, chat, tick | the lists are exactly the admitted clients, told apart by ids that are given out again |
| Captcha and proxy checks | a state, a cache in a library | asynchronous checks | no check is skipped |
| REST endpoints, packets, configuration, `main` | none of their own | | |

How they interact. `Server` owns one of each. A web socket goes through
`ConnectionManager`; `SessionChecker` asks `AuthManager` for its session, at once
or through a query; `BanChecker` asks `BansManager`; at the end of the chain the
callback of `Server` gets the world from `WorldManager` and makes a `Client`,
whose `Player` joins the world, and whose destruction leaves it, and may unload
it. `GET worlds/x/view/...` calls `World::sendChunk`, which may queue a task for a
worker thread; the task's end is a callback in the event loop. Timers save all
worlds (15 minutes), unload old chunks (65 seconds) and kick idle clients. The
database notifies of changed ranks.

What is hard here: answers that come after what they are about has gone (a
socket, a player, a world); the painting of a chunk while it is encoded; three
copies of a chunk (memory, cache, file) and the flags that say which is behind;
weak pointers that expire between a query and its answer; notifications around
a reconnection; files that do not open. `PROJECT.json` lists these hazards with
the line where each bites and the property that watches it.

No packet handler is registered (`Server::registerPackets` is empty) and the
REST endpoint for bans is empty, so that nothing in `src/` calls `World::paint`,
`setAreaProtection`, `BansManager::ban`, `unban` or `resetBanlist` yet. They are
public operations of their classes and the models call them as such, with any
arguments.

## 2. The modules

| Module | Models | Extends or refines |
|---|---|---|
| `ConnectionManager` | the chain of processors, pending connections, the counter | refines `ConnectionSlots` |
| `Server` | clients, players, worlds in memory, sessions' clients, the timer of the counts | takes steps of `ConnectionManager` only (proved) |
| `AuthManager`, `RankSync` | sessions, users, ranks; the conversation that keeps the ranks | |
| `World` | the chunks of a world, their caches and encodings | refines `ChunkStore` |
| `WorldStorage` | the files of a world, one file operation at a time, with crashes and failures | refines `ChunkStore` |
| `ChunkGrid` | the arithmetic of coordinates, and what the conversion of an old cluster makes of them | refines `Canvas` |
| `BansManager` | bans and their file | |

`MCx` instantiates `x` for TLC, `xProofs` has its theorems.

### ConnectionManager, ConnectionSlots

`conn[c]` is a socket with its `IncomingConnection` or `Client`; `counter` is the
`ConnectionCounter`. One action is one callback of the event loop: the upgrade
(`RefuseUpgrade`, `HandleIncoming` with the whole synchronous chain), the answer
of a check (`AsyncDone`, which runs on to the next check or to the client),
`Disconnect`, `KickInactive`, `UnsafeStop`. `ws->close` calls the disconnection
handler before it returns; that is why `Rejected` marks the connection as
cancelled, as the comment in `handleAsync` says. The chain is a constant, so that
`MCConnectionManager` can give the deployed one and another with the captcha check
of `Server.cpp:111`, in `State::ALL`. Of the processors that look at the
request or at the ban list only the answer is kept: any set of them may refuse.

Two parts are abstracted. The session of a token is the token itself, alive while
a pending connection or a client has it (AuthManager has the objects). And the
count of an address is kept for all addresses, 0 standing for no entry.

`ConnectionSlots` is the promise to an address: a number of slots, each taken by
an attempt, kept until the socket is forgotten, and given back.

### Server

`Server` extends `ConnectionManager` with what its connections lead to. A step
of the pipeline that makes a client also loads its world, takes a player id,
and enters the player and the client in their lists (`Join`, the callback of
`onSocketChecked`); one that deletes clients takes them off the lists in the order
of the destructors and unloads the worlds that nobody needs (`Leave`). `Inserted`
and `Erased` are those of a `std::set` ordered by `Player::operator<`, that is, by
player ids: an id that were given out twice would lose a player. `Called` says
which steps call the function of the `ConnectionCounter`: `connected` and
`disconnected` do, `preCheck` does not, although it changes the count that is sent.
The timer is reset by every call, so that it may fire at any time after the last
one or, under steady traffic, never. `ClearTimers` is the stop, which clears it but
leaves its id set. An encoding keeps a world in memory (`QueueEncoding` is the view
endpoint, which refuses worlds that are not in memory).

### AuthManager, RankSync

In `AuthManager`, `Session` and `User` objects have identities, so that two
sessions of one token would be seen to be two; an object is alive while it is
reachable from a holder (a pending connection or a client), and the maps hold
identities that may have expired. A load is queued, run by the database, and
answered later (`Present`, `RunQuery`, `LoadFails`, `LoadSession`), and may be
cancelled (`CancelQuery`). `UpdateRank` includes the update of the users.

`RankSync` is the conversation with the database that feeds `updateRank`. The
database and its client library are external: queries are run in order, one at a
time, answers and notifications arrive in the order they were made, and a lost
connection loses what is on its way.

### World

One world. `mem[c]` is the `Chunk` at `c`, `png[c]` and `pxr[c]` its image file and
old cluster file, `task[c]` the encoding by a worker, `request[r]` an HTTP request,
`painted` the history of what was painted. Callbacks of the event loop are atomic;
`EncodePixel` and `EncodeEnd` are the worker, which reads the pixels one at a time
in any order, between the steps of the loop. The calls that a handler makes are
part of its action: the loading of a chunk converts its cluster file and may
evict others, whose destructors save or remove their files (`Keep`, `FileLeft`);
the callback of an encoding may unload the world (`SendEncoded`,
`TryUnloadWorld`).

Data is abstracted to what the properties tell apart: a few pixels, and one
protected area that covers them, absent or zero in the image when unprotected.
`OpenFailures` says where opening a file may fail, as the TO-DO of the repository
warns: at the view of an image, at the load of a chunk, or nowhere.

`Quiet(c)` says of a step that it does chunk `c` neither of two harms that the code
does nothing against: taking a file that does not open for one that is not there
when the chunk is loaded, and changing the chunk while a worker reads it
(`Chunk.cpp:118`, `World.cpp:326`). `QuietSpec` spares all chunks; every other
failure stays in it.

One thing the model made plain: `sendChunk` answers from the image file if there
is one, and a chunk read from a file has a cache that is not behind, so a worker
is needed only when a file was there and did not open. Without open failures no
image is ever encoded by a worker.

### WorldStorage

The same chunks as in World, without caches and workers, but with each file
operation a step of its own: a save or a conversion opens (and truncates) a file in
one step and writes it in another, the process may be killed in between, and a
call that opens, writes or removes a file, or lists the directory, may fail (a file
that opens is read to its end). What follows a failure is what the code does: a failed open of an image to read makes a blank chunk; a failed open
in a save leaves the timer and stops the server, which unloads every chunk on its
way out (`Stop`); in a destructor it is logged and the chunk dropped; a failed write is not
noticed; a failed removal is logged; a failed open of `pchunks.bin` throws in a
destructor and ends the process (`OpenProtections`). `op` is the operation in progress.

A start may fail in two more ways, neither of which stops it (`Load`). A `pchunks.bin`
that does not open is taken for none (`Storage.cpp:316`): the clusters of this process
have no protections. A kill, or a failed removal of the file, brings them back at the
next start; a stop removes the file (`RemoveProtections`) and makes the loss final,
as does the conversion of a cluster for that one. And a
directory that cannot be listed leaves the list of clusters empty (`Storage.cpp:45`):
their chunks seem never painted, what players make of them is saved beside the
cluster, and the next start converts the cluster over it. The model gives up every cluster
yet to be converted at such a start, whether its chunk is then painted or not. A chunk
that has an image is touched by neither.

`painted` is the history of what players made of a chunk, `saved` of what a crash
leaves of it. A content that a crash or a failed call destroyed is `Lost` in both,
by the step that destroyed it and for that one chunk only (for all unconverted ones if
the directory is not listed), so that the properties say
how far the damage reaches: a step that damaged another chunk, or the same one
without a crash or a failure, would violate them. A file that was not written out holds
`Torn`; what the PNG library does with one is not in the repository, and no property
relies on it. Clusters have the size of a chunk, as the assertion in `isChunkOnDisk`
demands.

### ChunkStore

What both promise: each chunk shows what was made of it (`shown`), and a copy of it
is kept that is brought up to date now and then (`kept`). `World` implements the part
where everything goes well (`UseSpec`): a paint, a protection, a save of some chunks,
each in one step, although behind it are a cache, two flags, two files and a worker.
`WorldStorage` implements all of it (`StoreSpec`): a failure costs one chunk, and a
restart brings back the copies, but for the one whose file was being written or, if
it was `pchunks.bin`, for protections that still had to be converted. Chunks that are
still as an older server left them (`old`: those with a cluster file) have less of a
promise: a start may find them without their protections (`StartBare`) or cost them
all (`Fail(old)`). A chunk that is changed is not old, and none becomes old
(`Renewed`).

### ChunkGrid, Canvas

The arithmetic that `World` leaves out: shifts, masks and the conversion to 16 bits
for coordinates of 32 bits. `Canvas` is a plane of pixels and protected squares,
without chunks; `ChunkGrid` implements it.

The plane may start in the format of an older server. `ClusterFile[k]` is the
cluster at `k`: a table of 32 by 32 regions, each missing or 16 by 16 pixels. The first
call that needs the chunk at `k` (a paint, a protection, a view, or `convertNext`)
makes an image of it (`Image`) and moves its areas from `pclust` to the protection
array (`Moved`, `Marks`). `PixelAt` and `Guarded` say what files and chunks together
show, and find a pixel of a cluster by its coordinates in the plane, not by the
image that the conversion makes: that both are the same is what has to hold.
A region is found through a missing or present entry; the bytes of the offsets
in the file are left out. An area of `pchunks.bin` whose chunk has no cluster is never applied by
the code and stays on the list, so that `Canvas` starts without it. Crashes within a
conversion are in WorldStorage.

### BansManager

The table, `bansChanged`, the file and the clock, in milliseconds. `Stop` is the
destructor, `Crash` the end of the process without it, or with a `bans.json` that does
not open for writing, which the destructor does not look at. `ExpiresOn` is the
arithmetic of the code: the seconds times 10000 and the time are summed in a u64,
which wraps, and kept in an i64, where a large sum is negative, and so endless. The width
is a constant (`Half`). `asked` is the history of what was asked for each address, and
`filed` what it was at the last stop: a crash takes back everything asked since.
`BannedWhileAsked` is about the requests whose sum fits a u64 (`Fits`); of the others
`LongestBanEndsAtOnce` says the worst. The clock does not go back.

## 3. What TLC checks

| Run | Instance | Shows |
|---|---|---|
| ConnDeployed | `Server`: 3 sockets, 2 addresses, limit 2, deployed chain, 2 worlds, 3 player ids | `CounterExact`, `LimitPerIp`, `TotalsAgree`, `RosterExact`, `WorldsInUse`, `StatsSettle`, and that the pipeline implements `ConnectionSlots` |
| ConnChecks | 3 sockets, limit 2, two asynchronous checks, the counter in second place | `CounterExact` when a refusal comes before the counter; `PendingAwaitsItsCheck`, `ClientIsChecked`, `OneVerdict`; liveness: `PendingEnds`, `StopEmpties` |
| WorldFiles | 2 chunks, room for 1, 2 players, 2 colors, any files, views and loads may fail to open, under `QuietSpec` | `NoLostPaint`, `CacheCoherent`, `FileCoherent`, and that the world implements `ChunkStore` |
| WorldEncode | 2 chunks, room for 1, 2 requests, views may fail to open | `TaskLocksChunk`, `LoadedWhileNeeded`, `WaitersHaveTask`; liveness: `WaitingEnds` |
| StorageCrash | 2 chunks, 2 images, any files and protections at the start, any number of kills, restarts and failures, of starts too | `ContentsSurvive`, `ConversionIsSafe`, and that the files implement `ChunkStore` |
| AuthObjects | 2 connections, 1 token, 2 ranks of 2 contents | `SessionsCached`, `UsersCached`, `RanksAgree` |
| RanksKept | 2 ranks, 2 changes of each, 2 losses | `RanksFollow`; liveness: `RanksConverge` |
| GridRefinement | pixels at the edges of the plane, of chunks and of areas; two old clusters with striped regions, a missing region and protected areas | `ImplementsCanvas` |
| BansKept | 2 addresses, a word of 17 bits, bans of 0, 1, 7 and 13 seconds, six times of the clock from 1 to 13 seconds | `FileCurrent`, `BannedWhileAsked` |

The bounds. In the pipeline sockets interact only through the counter, the
sessions, the worlds and the stop: one more socket than the limit shows every refusal,
also while the other address holds one, two players of one world and one of
another, and an id that is given back and given out again. In StorageCrash a chunk meets
another only through the operation in progress, the stop and `pchunks.bin`: with
two, one is always in the works while the other is in any state. With room for one
chunk, two chunks are enough for every load to evict another, also a locked one.
One pixel is enough in the runs that pass, since the properties compare whole
images; the bad interleaving of a paint and an encoding needs no more. Two
connections are enough for two loads of one token to cross; with a second token
of the same user TLC does not end within minutes, and the theorems cover it. A
ban of 1 second lasts 10, which the clock goes past; in a word of 17 bits the expiry
of one of 7 seconds is negative, and that of one of 13 wraps to a time that has passed
if it is made after the first second. The
proofs of section 4 are for all values.

`CHECK_DEADLOCK FALSE` stands where every attempt is used up in the end (the
sockets) or the bounded changes and losses are (RankSync).

Fairness. `AsyncDone` is weakly fair: a query or a captcha request is answered, if
only with an error; the libraries that do so are external, and the code sets no
timeout of its own, so a lost answer would keep its slot for ever. The worker and its
callback are weakly fair: the task buffer runs its queue. In RankSync, connecting,
running and receiving are fair, and the losses bounded: `RanksConverge` is about a
connection that holds in the end. Peers, players and timers are under no fairness.

Three runs find that the code does something else than the repository says.

- **WorldLostPaint** (`NoLostPaint`). A chunk is viewed, its file does not open,
  a worker encodes it; it is painted after the worker read the pixel; the callback
  of the encoding then calls `unsetCacheOutdatedFlag` (`World.cpp:326`), and the next
  save writes the cache without the paint. `Chunk.cpp:118` warns of the concurrent
  access.
- **WorldAbsent** (`AbsentIsBlank`). A chunk that was painted but not saved yet is
  answered with 204, which the comment at `World.cpp:273` reserves for chunks that
  do not exist.
- **BansSeconds** (`BannedOnlyWhileAsked`). The seconds of a ban are multiplied by
  10000 to get milliseconds (`BansManager.cpp:77`).

That expiries overflow, and that a start which does not see its files costs clusters
their protections or their contents, is no finding: no comment, doc or test of the repository says
otherwise. Both are in the models, and the properties name them as exceptions.

## 4. What is proved

The proofs hold for every value of the constants that satisfies the named
assumptions of each module: finite sets of sockets, chunks and pixels, a chain
that holds each processor once with the counter and the session check in it, a
limit that fits the type of the counter, coordinates of 32 bits.

- **ConnectionManagerProofs**: `TypeOK`, `CounterExact`, `LimitPerIp`,
  `ImplementsSlots`, `TotalsAgree`, `PendingAwaitsItsCheck`, `ClientIsChecked`,
  `OneVerdict`. The counter alone is not inductive: an answer must find a
  pending connection that waits for a check of the chain, and a session check
  that only queried a token that parses, or it would admit a client without a
  session (`PendingSane`). The counts are cardinalities of sets of sockets; the
  lemmas say how each step changes such a set by one element, or by a set of
  clients in the kick and the stop. The limit bounds the counts, which is what
  makes the arithmetic of the counter's type exact. The refinement reuses the same
  case split. For the checks, `CheckInv` says of every pending connection and client
  which processors it has passed and what verdict it got; a connection changes by one of
  a few `Moves`, whichever callback makes it, so that each property is proved
  once for the moves. Of the liveness properties two parts are within the prover's reach.
  `AnswersMoveOn`: what a connection may still have to wait for (`AnswersLeft`)
  never grows and shrinks with every answer. `NoEndWithoutSession`: whatever the
  chain, the last yes finds a session for the client to take over (`SessionsBehind`), so
  that the condition `r.session # NoSession` at the end of `HandleAsync` holds up
  nobody. What is left of `PendingEnds` is that answers come, which `Fairness` states.
- **ServerProofs**: `PipelineInServer`, that the composition takes only steps of the
  pipeline, so that all of the above holds in it; `ServerTypeOK`, `RosterExact`,
  `WorldsInUse`, `StatsSettle`. The invariant needs of the pipeline that a client
  is counted and what a step may do to the clients (`CheckInv`), and of the
  worlds that the ids of the players of a world differ (`Apart`), without which the
  set of players would lose one (`Inserted`) and the removal of one would take
  another (`Erased`).
- **WorldProofs**: `TypeOK`, `TaskLocksChunk`, `LoadedWhileNeeded`,
  `WaitersHaveTask`, whatever files fail to open. Together they are inductive: a
  chunk is not unloaded because it is locked, and it is locked because its task
  is in the map. And `NoLostPaint`, `CacheCoherent`, `FileCoherent`, `ImplementsStore`
  for `QuietSpec`, again whatever files fail to open. Neither harm can be left in, as
  WorldLostPaint shows for one of them and the hazards say of the other. But each stays where it
  was done: the invariant `PaintInv(Q)` is about any set `Q` of chunks that are
  spared (in memory without a cluster file, `Coherent` with the image file, followed
  by the worker that reads them: `Follows`), and `HarmIsLocal` takes a single chunk for
  it, with anything happening to the others. `OpenFilesAreQuiet` is the other end:
  if no file fails to open, `Spec` is `QuietSpec`, so that all of it holds of the code
  as it is.
- **WorldStorageProofs**: `TypeOK`, `ContentsSurvive`, `ConversionIsSafe`,
  `ImplementsStore`, for any number of chunks, with failing starts. The properties speak of what is shown
  now, which says nothing of what a kill would leave; the invariant says of every
  chunk that is not `Lost` where its content is (in memory, in the cluster and
  `pclust`, in the buffer of the conversion, in the image: `ContentKept`), that
  the files have what was saved of it, that a cluster being converted has left the
  list, and that on the way out of memory no chunk is forgotten (`OpOK`). While
  `pclust` has anything, what is shown and what was saved of a cluster agree; they differ after a
  start that could not open `pchunks.bin`, which leaves `pclust` empty for good (`InCluster`). A step leaves
  all chunks but one alone (`LeftAlone`), and the end of the process is one lemma
  for kills, failures and unloads (`EndInv`). The refinement (`StorageIsStore`) is the
  same case split once more: an operation on files does not show until it is over.
- **AuthManagerProofs**: `TypeOK`, `SessionsCached`, `UsersCached`, `RanksAgree`.
  `updateRank` reaches users through the cache, so `RanksAgree` needs `UsersCached`;
  both need that an entry, expired or not, is for an object of its key
  (`EntriesKeyed`).
- **RankSyncProofs**: `TypeOK`, `RanksFollow`. The invariant: until the server listens,
  LISTEN waits in the queue right before the load of all ranks; from then on the
  last thing it is told of a rank is right, or a query for it waits. And
  `RanksNeverGoBack`, an action property: a rank is never replaced by an older
  version of it. Answers and notifications arrive in order (`InOrder`), and no two
  answers are on their way (`OneAnswer`).
- **ChunkGridProofs**: `TypeOK`, `ImplementsCanvas`, for any clusters, regions and
  protected areas. Lemmas about division and
  remainder: the chunk and the place determine the pixel, the chunk and the cell
  the area, the area of a pixel lies in its chunk, the border refuses no
  pixel of 32 bits, and the region and the pixel in it that the conversion takes for a
  place are those of every pixel at that place. The invariant adds that only areas
  of the plane are marked as protected (`OnlyAreasProtected`).
- **BansManagerProofs**: `TypeOK`, `FileCurrent`, `BannedWhileAsked`, for any width of
  the word. The table in
  memory covers what was asked since the start, and the one in the file what had
  been asked at the last stop (`Covers`); `ExpiryFacts` is what the arithmetic of words
  comes to. `BansAreBounded` is the other direction, and the exact
  size of the flaw that BansSeconds shows: whoever is banned was asked to be, and while the
  expiry fits an i64 the ban ends ten times the asked seconds after it was made, or
  never if so asked; if it fits a u64 alone, it never ends. `LongestBanEndsAtOnce`: a ban
  of 2^64 - 1 seconds has an expiry ten seconds before it was made.

Left to TLC: the liveness properties (`PendingEnds`, `StopEmpties`, `WaitingEnds`,
`RanksConverge`), which are out of the prover's reach. Every other property of the
passing runs is a theorem. The runs that expect a violation have nothing to prove.

## 5. What is not modelled

- `convertNext`, which nothing calls yet, in World: WorldStorage and ChunkGrid have it.
- The bytes of the offsets in the table of a cluster file, and `props.txt`, which the `PropertyReader` of
  naga-utils reads and writes.
- A crash within the write of `bans.json`, or a write of it that fails after the file
  was opened: what the JSON library makes of half a file is not in the repository.
- A file that opens and cannot be read to its end.
- Players' positions, chat and updates: assignments and packets; the body of
  `sendUpdates` is commented out, so that `pixelUpdates` and `playersLeft` only grow.
- The proxy check, the captcha check in `State::GUESTS` (which reads the session of
  a connection that has none yet), and the order of the ban check in the chain:
  `Server.cpp:112` says that bans are checked after the session is obtained, and
  `handleIncoming` checks them before a session is loaded, but the check there today
  looks at the address only.
- `kickSession`, `reloadUser` and the handlers of `uv_kick` and `uv_user_del`, which
  do nothing: a session that was revoked stays accepted while a connection holds it.
- The `new_handler`, which unloads chunks within any allocation, and the order in which
  `Server` destroys its parts: a comment there asks what to do about it.
- The tick, whose updates are commented out.
- naga-utils and uWebSockets, whose sources are git submodules that are not in the
  repository.

## 6. Plan

Done: the pipeline, its composition with worlds, players and sessions, the life of
chunks and their files with crashes and failures, old clusters, sessions and ranks,
bans, the proofs of every safety property, and the refinements of `ConnectionSlots`,
`Canvas` and `ChunkStore` with their proofs.

Left, in this order:

1. Measures of progress for the worker (`WaitingEnds`) and for the conversation of
   RankSync (`RanksConverge`), as `AnswersMoveOn` is one for `PendingEnds`: what
   the liveness properties rest on and the prover can reach of them.
2. `AuthManager` in the place of the tokens of `Server`, so that the objects of a
   session and the connections that hold them are one model.
3. `World` in the place of the set `encoding` of `Server`: the requests for a view and
   their cancellation beside the clients that come and go.
4. The proxy check and the captcha check in `State::GUESTS`, once they are part of
   the chain of `Server.cpp:105-114` again, and the endings of the requests to their
   services.
5. Players' packets and `sendUpdates`, once they are registered: rate limits, the
   updates to send and their order, and the growth of `pixelUpdates`.
6. The destructors of `Server`, in their order, with tasks still queued.
