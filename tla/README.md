# A verification project for scene

TLA+ models of the parts of this repository whose correctness depends on the
order in which things happen, TLC runs over small instances of them, and TLAPS
proofs for all instances.

## The system

scene is a set of web applications that browse and play a demoscene archive.
Two of them, `apps/tracker` and `apps/party`, are a Rust (axum) backend over
SQLite and a directory tree, with a Svelte front end; both front ends share the
player in `packages/player`; `services/transcoder` converts pictures and texts.

| Part | State | Operations | Hard because |
| --- | --- | --- | --- |
| Decoding pipeline (`chiptune3.js`, `decoder.worker.js`, `chiptune3.worklet.js`) | generation counters on three threads, module, credit, queue, pause/end flags | play, stop, seek, pause; render, ack; flush, receive, process | three threads, four ports with no order between them, credit flow control |
| Player store and transport (`player.svelte.ts`, `transport-machine.ts`) | current track, queue index, transport state, pending decode, timers | play, next/prev, toggle, stop, eject, cue, engine events | fetches and awaits that outlive what they were started for; events without a generation |
| Queue planner (`queue.ts`) | none (pure) | plannedNext, plannedPrev, shuffledOrder | previous must undo next, also at the ends and under shuffle |
| SID worker (`sid/sid.worker.ts`) | as the decoder worker, plus the tune being opened | as the decoder worker, with an asynchronous reload | loads and stops during a reload |
| Sampler, pattern editor (`jam.ts`, `JamKeyboard.svelte`, `SampleWave.svelte`, `editor.svelte.ts`) | cache of samples, voices that sound and who holds them, edit mode, sequencer | jamNote, jamStop, auditions, enter and leave edit mode, seqPlay, seqStop | a note is two awaits away from its key; the song and the pattern share the output |
| Background route, wake lock (`background.ts`, `platform.ts`) | route of the output, wake lock | route, wake, pause element | browser callbacks |
| Tracker scan (`lib.rs`, `scan.rs`) | files index, progress, scanning flag | scan, HVSC reindex, boot scan, rescan request | several callers of one flag; the tree changes under the scan |
| Tracker routes (`routes.rs`, `db.rs`) | index, playlists, fetch progress | rename, delete, playlists, fetch-missing | a file step and a database step with the lock released between |
| Manifest store (`manifest.rs`) | manifest in memory and on disk | edit, undo, reload | reload against edits, write failures |
| Tracker front end with a backend (`scan-machine.ts`) | polled scan state, outcome | start, poll | polling against a flag others set |
| Tracker front end without one (`standalone/store.svelte.ts`) | rows and object URLs in memory, bytes in IndexedDB, catalogue in localStorage | add, remove, favourite, clear; restore, seed, parse | every gesture goes on after an await; the page may be closed at any of them |
| Party backend, transcoder | tree index, conversion cache | scan, convert | concurrent conversions of one file |

The main thread talks to the decoder worker and to the audio worklet by posted
messages; the worker and the worklet share a direct port; both post events back.
Front ends talk to the backends over HTTP; the backends' handlers share one
SQLite connection behind a mutex.

What makes each part correct: the pipeline plays what was asked for, gapless,
and never starves; the transport shows what the engine does; the queue index
names the track that sounds; the scanning flag is up exactly while a scan runs;
the index agrees with the tree once both are quiet; the manifest on disk is the
last edit accepted. `PROJECT.json` lists the hazards line by line.

## What is modelled

### PcmPipeline: the decoding pipeline

`PcmPipeline.tla` is one state machine for the wrapper, the worker, the worklet
and their ports.

| Model | Code |
| --- | --- |
| `Play`, `Stop`, `SetPos`, `PauseCall`, `DecodeSong` | methods of `ChiptuneJsPlayer` that post messages |
| `RenderChunk`, `RenderNothing` | one turn of the loop of `pump()` and `renderAndSend()` |
| `WorkerLoad`, `WorkerStop`, `WorkerSetPos`, `WorkerSetPosIgnored`, `WorkerDecodeSong` | cases of the worker's `onmessage` |
| `OnPcmAck` | the worker's handler of acks |
| `NodeFlush`, `NodePause` | the worklet's `onControl` |
| `DropPacket`, `TakeEof`, `TakeChunk` | the worklet's `onPcm` |
| `PlayPart`, `FinishChunk`, `RunDry` | one call of the worklet's `process()`: within a chunk, at its end, on an empty queue |
| `toWorker`, `toNode`, `pcm`, `acks` | the message ports, each FIFO |

A handler is one step, except that each turn of the worker's render loop is a
step of its own: the worklet may receive one chunk while the next is rendered.
No other handler of the worker runs until the loop ends (`~Pumping`).

Abstractions. A chunk is its generation, its song and its ordinal in the song.
A song renders `Length` chunks and then nothing (with repeat on it would never
end: a longer `Length`). A chunk is drained in `Quanta` calls of `process()`,
the last, shorter one of a song included. Seeking goes to a chunk boundary;
`setOrderRow` is `setPos` to another position. The
model starts where `onInitialized` fires, because the store loads nothing
before; requests that read samples or parse a file, and commands that change
tempo, pitch, mutes or the repeat count, touch none of this state. Volume and
routing follow the worklet. What the worker and the worklet report back is kept
in the history variables `heard` (positions) and `ends`; `asked` and `cut`
record what the main thread called.

`Causal` says whether a flush posted before a load has always arrived when the
first chunk decoded from it does. The two travel on different ports to the same
thread, and nothing in the platform orders them, so the safety properties are
checked and proved without it; what does depend on it is checked with it.

`PcmStream.tla` is what the pipeline promises a listener, with no threads: it
may go on only to later streams, each from the position asked for, gapless,
ended once its last chunk was heard, unless it was cut. `PcmPipeline` implements
it with `Causal` (`ImplementsStream`, `cur <- currentGen` and
`ended <- {g : ends[g] > 0}`). Without `Causal` it does not: `onPcm` drops every
packet of another generation, so a chunk that is ahead of its flush is dropped
too, unheard and never acked, and its credit is lost. That is why there are two
runs: the guarantees that survive any order, and those that need the flush to be
in time.

### Properties and runs

| Run | Module, config | Checks |
| --- | --- | --- |
| `pcm_any_order` | `MCPcmPipeline`, `PcmAnyOrder.cfg` | `TypeOK`; `CreditBound`: the credit is never overrun; `RightStream`: the queue is an unbroken run of the song asked for, and no end is reported twice |
| `pcm_in_order` | `MCPcmPipeline`, `PcmInOrder.cfg` | `NoCreditLost`: no credit leaks; `ImplementsStream`; `StreamEnds`: a song or seek left alone plays to its end |

Bounds: `MaxGen` = 2 generations and `MaxCalls` = 2 messages waiting at each of
the worker and the worklet. That is enough for a load to overtake a load, a seek
or a stop at either thread, for a stop to be followed by a seek of a module left
by `decodeSong`, and for acks and chunks of one generation to meet the next. A
song of 3 chunks with `Target` = 2 runs out of credit and is topped up by acks;
position 2 is a seek into it; the other file is rejected by the parser. `Quanta`
is 2 where chunks are drained in parts and 1 in the run with liveness. Files are
not symmetric (one does not parse), so no symmetry is used.

Fairness (`FairSpec`): weak fairness of the worker's loop and handlers and of
the worklet's handlers, an event loop and an audio callback that keep running;
none of the user. `StreamEnds` allows for a pause.

Each property of a passing run has a mutant, an operator of `PcmPipeline` marked
`Mutant:` with a plausible slip of that handler, under which TLC finds the
property violated.

### Playback: the player store and the transport

`Playback.tla` is the main thread's side: the store of `player.svelte.ts` with
the queue of `queue.ts` and the machine of `transport-machine.ts`, over an
engine reduced to the song it has.

| Model | Code |
| --- | --- |
| `Click`, `Cue`, `NextTrack`, `PrevTrack`, `Seek`, `Toggle`, `ToggleShuffle`, `Stop`, `Eject` | what the user does: `playInOrder`/`playRefs`, `cueInOrder`/`cueRefs`, `playNext`, ... |
| `jobs` | what goes on after an await: a track to resolve, `playTrack` waking the audio, `load()`'s fetch, the decode actor |
| `Resolved`, `ResolveFailed`, `Awake`, `Fetched`, `FetchFailed`, `Decoded` | the continuations, each run when its job is done, whatever has happened since |
| `Replace`, `Orphaned`, `Recreate`, `NeverUp` | the change to the engine of the other format, and the rebuild of a stalled one; the old engine's jobs go on, or never end |
| `Skip`, `DecodeTimeout`, `Watchdog` | timers: the skip after an error, the machine's limit on decoding, the resync after a freeze |
| `OnMetadata`, `OnLoadError`, `OnProgress`, `OnEnded` | handlers of the engine's events |
| `Takes` | the machine's transitions |
| `Sound`, `PlayOut`, `song`, `over`, `silent` | the engine: it reports while it sounds, and ends |
| `fromWorker`, `fromNode` | the ports of the worker and the worklet to the main thread |

Abstractions. The engine carries out calls as soon as they are made; that its
streams are the ones asked for is what `PcmPipeline` shows. A position is past
the thresholds or not (`far` stands for the ten seconds of `playPrev` and the one
second of `recreateEngine`). `loading` is left in the task that entered it, so it
is one with `playing`. What a track's file is (playable, rejected by the parser,
not to be had) is chosen once. An index of 0 is the code's -1 or null. Repeat
only keeps a song from ending, which none need do here. Left out: play counts,
prefetch, editing, and an engine that fails to come up.

| Run | Config | Checks |
| --- | --- | --- |
| `playback` | `Playback.cfg` | `TypeOK`; `NowPlaying`: what sounds is the track shown, under its own metadata, and what is shown as playing is loaded; `IndexNamesTrack`: the queue's index is that of the track shown; `GivesUp`: a queue nothing of which plays is given up |
| `playback_paused` | `PlaybackPaused.cfg` | violated: `PauseShown` |

The constant `Worlds` says in what surroundings the store works; `playback`
starts in any of three. `Orderly` is the party's front end, which holds its
tracks: requests are answered in the order they were made, nothing is cued after
the first gesture, the two lists are of the same length, and a file may be
corrupt but not missing. In `Mixed` one of two good tracks is for the SID engine.
In `Disorderly` tracks have to be resolved, answers overtake each other, cues
come at any time, one list is shorter, one track is a SID and no file can be
played; it is there for `GivesUp`, because one progress report resets the count of
failures, and a queue with a playable track has no reason to be given up.

The conditions of `Orderly` are conditions of the properties, not
simplifications. Without the first, a slow answer plays an older track under the
newer one's name (`load()` neither numbers nor aborts its fetches). Cueing does
not stop what sounds. In a shorter list the plan made for the old one may lead
out of it. With a missing file the track left for it sounds under its name. After
`eject`, a track still on its way is loaded with none shown, which the properties
leave out (`track # None`). `tidy` is another such condition: no engine was
replaced while something asked of it was still under way. The engines have one
set of handlers, so that the metadata of a module that was left for a SID while
it was being fetched are shown, and saved, as the SID's. In such a history
`playTrack` also hands its track to whichever engine there is when its awaits
end (the module engine then rejects a SID, and it is skipped), and the seek back
after a rebuild, which waits for the next metadata of any track, may be made in
another one. That happens in tidy histories as well, when the rebuilt track cannot
be loaded again: no metadata come, `resumeSeek` stays set, and the next track that
is picked starts at the position of the one that stalled (`player.svelte.ts:572`
says "seek back to where playback stalled"). Five gestures lead there. `NowPlaying`
therefore asks only of tracks that can be played that the seek be made in them; it
was checked with five gestures too.

Bounds: two tracks, three gestures, two jobs waiting and one event in each port.
That lets a track be picked or skipped to while the last one is still waking,
fetching, or failing, with an event of it still in the port, and a third gesture
undo or repeat it; both orders of a shuffle occur, and engines are changed back
and forth. The system stops when the user does, so deadlock is not checked.

Fairness (`FairSpec`, for `GivesUp`): while a promise is to settle, a timer to
fire or an event to be delivered, one of them does, whichever; no gesture is
fair, and neither is the end of a song.

The page puts the row that was clicked in its cache before it calls `playRefs`
(`playFromList`), so `Click` has nothing to resolve.

### What its violation shows

`PauseShown`. Neither `stop()` nor `load()` resets the worklet's pause flag. A
track picked while another is paused is shown as playing and stays silent;
pressing pause then makes it sound, shown as paused.

### SidWorker: the other decoder

`SidWorker.tla` extends `PcmPipeline`: the wrapper, the worklet and the ports are
the same, and `sid.worker.ts` takes the module decoder's place. What differs is
that the engine opens a tune, and seeks, across an await (`asks`): a load takes
its generation over at once (`SidLoad`), and the tune when it is open (`Opened`),
or fails (`NotOpened`). `pump()` is called at certain places only, so `pumping` is
a state of its own. libsidplayfp is external: it does calls of one kind in order,
and a tune never ends.

`sid_worker` checks that, once the worker has done what it was asked, it plays
the tune asked for last, or after a stop nothing, however openings met loads,
seeks and stops (`LastAskedPlays`), and that a tune left alone is heard for ever
(`HeardForEver`).

What they leave out, because the code does: while two openings overlap, the end
of the first renders its tune under the generation of the second, so `RightStream`
does not hold; and if the first fails after the second has been asked for, its
failure sets `eof`, which the second does not clear, so that it stays silent
until the next load or seek (`spoilt`).

Bounds: two tunes and a file that cannot be opened, two generations, two chunks
of credit, two messages; flushes overtake nothing (`Causal`). With three
generations, one message and one chunk both properties hold as well. Positions
and pauses are those of `PcmPipeline` and play no part here. Fairness: as for the
pipeline, and strong where a handler or the end of an await has to wait for the
pump: an event loop starves no port.

### ScanGate: the scanning flag and the page that polls it

`ScanGate.tla` is the `scanning` flag of the tracker backend (`ScanProgress`),
the tasks that raise it, the one database connection, the published outcome, and
the page: the scan machine of the front end with the actors of `bootBackend`.

| Model | Code |
| --- | --- |
| `Rescan`, `RescanFromPage`: `Claim` | `rescan_root`: a compare-exchange, 202 or 409 |
| `Raise`, `LockDb`, `Publish`, `UnlockDb`, `Lower` | the blocking task of `run_scan` and `run_hvsc_index`, in the order in which Rust drops what it holds |
| `StatusBusy`, `StatusIdle`, `StatusReply` | `GET /status`: the flag, then the connection, then `last_scan` |
| `StatusFails`, `LoadTracks`, `LoadFails` | the page's requests, which may fail |

A request that is given up is no action, because nothing it has started is
cancelled by that: the flag is lowered by the guard inside the task. The scan's
own steps are in `Library`; here it is one step, that ends well or not.

`scan_gate` checks that the flag is never up with nobody left to lower it
and, as long as all who raise it claim it, that it is up whenever a scan is
under way and scans exclude each other from the claim to the end
(`FlagMeansScan`); that a page which follows its rescan leaves only when that one
is over, and reads its outcome or that of a rescan accepted after it was over,
never an older one (`OutcomeBeforeIdle`, again as long as all claim; `since` is the
history of those accepted after); and that the page always comes to rest
(`PageSettles`). `ScanOthers.cfg` (two claimed rescans) is violated: `OwnOutcome`, that
what the page reads is its own rescan's. `/status` has one `last_scan` and no name
for whose it is, so another client's rescan that is accepted and over between two
polls of the page takes the place of the page's own.

The condition is real: the boot scan, the scan after a fetch and an HVSC reindex
raise the flag without asking whether it is up, and the first of two to end
lowers it for both. Bounds: two requests, a boot scan and an HVSC reindex, each
once. Fairness: what was claimed runs, a scan ends, timers fire, and a reply
that waits for the connection gets it in the end (strong fairness: the
connection is handed out in the order of asking).

### Library: the index against the disk

`Library.tla` is the `files` index of one root and the files themselves, with
the scan (`scan_into`) on one side and rename, delete and other hands on the
mount on the other. A scan holds the connection from its first read to its
commit but looks at the disk path by path (`Walk`, then `Resolve`, which stats
and hashes, in any order, as several workers do it). Requests touch the disk
without the connection and the index afterwards, with it: `RenameCheck`,
`RenameMove`, `RenameUpdate`; `DeleteFile`, `DeleteRow`. `Abort` is a client
that leaves while its request waits, `Outside` a file that comes, goes or
changes by other hands or by a fetch, `Unreadable` a file the mount fails to
list or to read, `Crash` an end of the process anywhere.

`SyncWhenCalm`: once a scan has run during which nothing was moved, changed or
unreadable, the index says what is on disk, and stays so whatever renames and
deletes follow. `calm` is the history that says so; a delete during a scan is
no disturbance, a rename is one, and has to be: a scan may see the file of a
rename at neither path and drop its row; the rename's UPDATE then finds none, and
the file is in no index until the next scan. The comment at `lib.rs:116`, by
which in-app renames keep the index in sync, overlooks that one.
`IdsKeepTheirFile` says what queues and pages rely on, which hold row ids across
scans: an id keeps its file, and none is given out twice. `MovesLoseNothing`: a
rename that nobody has met overwrites nothing, and when it updates the row its
file is still where it put it. `met` is a history of each request on its own: that
another request or another hand touched its source or its destination since it
looked. Scans, crashes, clients that leave and whatever goes on elsewhere are no
excuse. `LibraryRenames.cfg` shows what meeting does: `NeverOverwritten`, the comment
at `routes.rs:1029`, is violated by two renames to one place.

Contents stand for what hash, size and mtime tell apart; a row is its id and its
hash. Bounds: three paths, two contents, two requests, two scans, one fault: a
scan between the steps of two requests, and one that repairs after it. All paths
and requests are symmetric. `LibraryRenames.cfg` needs neither scan nor fault.

### Stores: what survives a restart

`Stores.tla` is the start of the backend, `Db::migrate` statement by statement
(each commits on its own), the reading of `library.json`, and then the edits of
it: `Take` to `Swap` under the mutex of `ManifestStore::update`, by way of a
temporary file, and `ReloadRead`, `ReloadSwap` without it. The process may end
between any two steps.

`stores` checks that a start on a database of any earlier version, cut off
anywhere but at one place, keeps the favourites where the next start looks for
them, and that what serves has all tables in their present shape
(`FavouritesKept`); that an acknowledged edit survives crashes, failed saves, other edits and reloads
(`EditsKept`); and that the backend comes up again (`ComesUp`).

The one place is between `DROP TABLE stats` and the `RENAME` (`stranded`). A start
after that finds no `stats`, so it does not migrate but creates an empty one, and
nothing reads `stats_migrating` again: the favourites and play counts are still in
the file and never served. `StoresFavourites.cfg` shows it: `FavouritesServed`, that
what serves has the favourites that were set, is violated after one crash.

Two more conditions are findings of the modelling. After a migration of `stats` cut
off between its first statement and its third, every start fails: `CREATE TABLE
stats_migrating` meets the table that was left. And a reload that has read the
file before an edit and replaces what is in memory after it takes that edit
back; `amiss` remembers it. A `library.json` that cannot be parsed counts as
empty, which the next edit makes true.

Bounds: one favourite, two albums of two states, two editors, two crashes, two
edits, one edit by hand. Fairness: the service is restarted and its start has
nothing to wait for.

### Assets: the party's derived files

`Assets.tla` is `api_asset` of the party backend with the ledger (`derived`),
the cache directory and the transcoder service, for one source file. Its key is
the content hash and the recipe of the configuration. On a miss the source is
read (`ReadSource`), converted (`Convert`; `Replies` is what the service can
say), written to `<key>.partial` (`Open`, `WriteEnd`), renamed and recorded.
Requests for one key do not know of each other. Around it: a full disk, clients
that leave, a file replaced on the mount, a scan, an edited configuration, a
purged cache, a crash.

`ServedIsRight`: what is served is whole and made from the bytes its hash names
by the recipe its key names, unless two requests have written it at once or
other bytes were read; and even then it ends right, unless a write was cut off.
`FailedForGood`: no passing failure is remembered.

The conditions are what the code leaves open: two misses of one key truncate
each other's `.partial`; the source is read by path after its hash was looked
up, and the scan keeps a hash while size and mtime are the same; and an ffmpeg
killed from outside is reported like one that rejects its input. `spoilt`,
`shared` and `cut` are the histories that name them.

Not modelled is the service's 400 for a multipart form it cannot read
(`main.rs:294-303`): its one client builds the form in memory with a library, and
where the upload breaks off nobody is left to read the reply; the client then sees
an error that may pass, which `Convert` has.

Bounds: two requests, two contents of the file, two recipes, two faults. Every
race of two requests is one of these, with any one thing or two from outside.

### Playlists: the lists and fetch-missing

`Playlists.tla` is the playlist tables with the routes that edit them, and
`run_fetch_missing`, one step for each await: `FetchRead`, then for every item
`Download`, `Have`, `Place`, `Write`, `Record`, then `FetchEnd` with its scan.
All files meet in one name, so that collisions happen.

`playlists` checks that what is added is shown last, whatever was reordered from
stale pages (`AddedLast`); that a write of a download, cut off or not, replaces a
file only under the name it chose, and only if no name was free or another wrote
there since it chose (`full` and `met`, of each download), that the md5 of what came
is noted on the item it was downloaded for and on no other, whatever has become of
it, and that what a fetch has fetched is present when it ends, unless meanwhile
files were replaced or taken away or the index named one that was gone (`clean`)
(`FetchIsSafe`); and that a fetch ends, whatever fails, so that the next is not
refused (`FetchEnds`).

The md5 that is noted is not verified: `db.rs:317-318` says the backend "verifies the
bytes' md5", but `run_fetch_missing` computes the one of the bytes that came and
writes it over the item's own. `PlaylistsMd5.cfg` (no faults) shows an item become
another module: `Md5Verified` is violated. A panic of the fetch's task, which would
leave the running flag up, is not modelled.

Bounds: one list, two items ever made, three kinds of item (with an md5, with an
md5 and a reference, with a reference and a name), two names for a file, two
contents, one fault. Items are fetched in any order, of which the code's, by
position, is one; the cap of a run and the pause between downloads are left out.
Fairness: downloads have a timeout and the connection is let go of.

### Standalone: the library without a backend

`Standalone.tla` is the store of the build that has no server: rows and object
URLs in memory, bytes in IndexedDB, the catalogue in localStorage.

| Model | Code |
| --- | --- |
| `Take`, `SetFavorite`, `RemoveTrack`, `Clear` | `addFiles`, `setFavorite`, `remove`, `clearAll`, up to their awaits |
| `asked` | what IndexedDB was asked, answered in that order |
| `Hashed`, `Landed` | the loop of `addEntries`: hash, look, store, make the row |
| `Removed`, `Cleared` | `remove` and `clearAll` from their awaits on |
| `NothingSaved`, `Restored`, `SeedFetched` | `rehydrate`, `seedDemoIfEmpty` |
| `ParsePending`, `ParseGot`, `Parsed` | `parsePending`, over the list as it is at each step |
| `Reload` | the page closed and opened, with any part of what was asked done |

`RowsSound`: no two rows share an id or their bytes, and a module is known as
loaded exactly while it is listed. `KeepsWhatItShould`: what was reported as added
and was stored stays stored from then on, with its favourite, whatever is closed
when, until the user removes it; and what was removed has not come back.
`HomeSettles`: the list is shown and the intake free again. `told` is the history of
what the user may rely on. It names two cases in which the code keeps less than it
reports. "unsaved": the `put` of a module failed, which `addEntries` swallows and
counts in "Added n modules" all the same (`store.svelte.ts:180`); it is listed and in
the catalogue until the page is opened again, and gone then. "dropped": the bytes of
a saved row are not there at an opening, or cannot be read that once
(`store.svelte.ts:366-372`); the row is not listed, and the next save of the
catalogue forgets it and its favourite. `StandaloneUnread.cfg` shows the second with
bytes that are there: `EvictedOnly`, after the comment at line 368, is violated.
`tidy` is the condition: `load()` restores and `addEntries` adds over one
counter and one list without knowing of each other, so files taken while the rows
come back get ids that are in use (the comment at `store.svelte.ts:57` promises
otherwise); of two removals at once, each with the place it looked up before its
await, the second drops the wrong row; and an intake that meets `clearAll` ends
half in each. A demo that was never seeded is seeded even after the user has
cleared the list, which the comment at line 336 does not expect; `Gone` says so.

Bounds: three modules, one of them the demo and one without metadata, two
removals, two gestures, one reload or failure of IndexedDB. Every pair of
gestures meets at every await, and every state they leave is reloaded from.
Fairness: IndexedDB answers and the demo's fetch ends. Left out: playlists,
renames, play counts, a second tab, a localStorage that is full.

### Sampler: notes, auditions and the sequencer

`Sampler.tla` is `jam.ts` with all who play it, next to the song. A note wakes
the audio, asks the worker for its sample unless that is cached, and sounds,
whatever has happened since. The engine carries out calls at once, as in
`Playback`, and the worker answers in the order it is asked from the module it
has then: the answer is settled when it is asked for (`Ask`).

| Model | Code |
| --- | --- |
| `Down`, `Up`, `Select` | `JamKeyboard`: `down`, `up`, its effect on the sample |
| `WaveDown`, `WaveUp` | the pointer on `SampleWave` |
| `OpenSamples`, `LeaveSamples` | the samples view and others in its place |
| `SongShown`, `Mounted`, `Unmount` | `SampleBrowser` on a change of `playback.song`: keyboard and waveform are there only with a song, and go with it |
| `EnterNote`, `AuditionOver` | `auditionNote` of the editor and its timer |
| `EnterEdit`, `LeaveEdit`, `SeqToggleOff`, `SeqPlay`, `SeqTick` | edit mode and the sequencer |
| `Awake`, `OnPcm` | `jamNote`, `sampleBuffer` and `seqPlay` after their awaits |
| `PlayTrack`, `Cue`, `Fetched`, `OnMeta`, `Ends`, `TogglePause`, `Stop` | as much of the store as they meet |

`CacheIsTracks`: a cached sample is one of the track shown, because `bufGen`
keeps late answers out. `VoicesAreHeld`: whatever sounds can be silenced by the
one who started it. A job and a voice say which keyboard or waveform they are of
(`mount` counts how often these have gone): a key that has gone with its keyboard
stops its note when it comes, a waveform that has gone has no handler left. `SongXorPattern`: the song and the pattern do not sound
together (the comment at `enterEdit`), and no graph of the sequencer is abandoned.

The histories name where the code does not keep that. `early`: a sample read
while the worker has no module or still another one is cached, as nothing or as
the other's, until the next `playTrack`; `cueTrack` does not reset the cache.
`quick`: a looped sample whose waveform is released before it sounds goes on
sounding, and so does the first of two presses that overlap (the keyboard looks
again after its await, `SampleWave` does not). Nor does it when it is gone: a note
it still waits for when the track changes or the view is left sounds with nobody to
release it, until another sample is selected or another song is loaded. The property
excepts these three notes by name.
`strayed`: edit mode left while `seqPlay` waits starts the loop afterwards, next
to the song; so does edit mode entered while a load is still coming, or with an
inverted pause. `overlap`: the second of two `seqPlay` abandons the graph and the
timer of the first.

Bounds: two tracks, two samples of which one is looped, two keys, two calls of
`seqPlay`, five gestures: a track started, a key or a pattern, a change of track
and one of edit mode, each before and after what the other waits for. Tracks,
keys and calls are symmetric. Left out: cursor and cells of the edit buffer,
octaves and levels, `jamOneShot`, a new engine, failures of the worker.

`SamplerSwitch.cfg` is violated: `PlaysSelected`, that what keys and waveform sound is
the sample selected. The effect that runs when the selection changes stops what
sounds (`JamKeyboard.svelte:179-180`), not a note of the waveform that is still
waited for, which then sounds as the old sample.

## Where code and comment differ

Each of these configurations checks what a comment of the code says, on the
smallest instance that shows it violated. `playback_paused` is a run of
`PROJECT.json`; the others stand beside the runs
(`tlc -config ScanOthers.cfg ScanGate` and so on). The properties of the passing
runs, and the theorems, say what holds all the same.

| Module, config | Instance | Violated | The comment |
| --- | --- | --- | --- |
| `MCPlayback`, `PlaybackPaused.cfg` | one track paused, another picked | `PauseShown` | `player.svelte.ts:305` "the transport can never show a state it isn't in" |
| `ScanGate`, `ScanOthers.cfg` | two rescans that claim the flag | `OwnOutcome` | `library.svelte.ts:200` "so a failure surfaces here instead" |
| `MCLibrary`, `LibraryRenames.cfg` | two renames, no scan, no fault | `NeverOverwritten` | `routes.rs:1029` "never overwrite an existing file" |
| `Stores`, `StoresFavourites.cfg` | one favourite, one crash, no edit | `FavouritesServed` | `db.rs:99-100` "real user data, so it is *migrated*, not dropped" |
| `MCPlaylists`, `PlaylistsMd5.cfg` | one fetch, no fault | `Md5Verified` | `db.rs:317-318` "verifies the bytes' md5" |
| `Standalone`, `StandaloneUnread.cfg` | no gesture, one failure of IndexedDB | `EvictedOnly` | `store.svelte.ts:368` "bytes evicted — drop the stale catalog row" |
| `MCSampler`, `SamplerSwitch.cfg` | three gestures | `PlaysSelected` | `JamKeyboard.svelte:179-180` "switching samples shouldn't leave the old (possibly looping) one playing" |

## What is proved

The theorems hold for all values of the constants that satisfy the assumptions of
the model's module (`ConstantsOK`, `GateAssumption`, ...): any songs, credit,
paths, albums, keys, any number of actors, and any bounds. TLC evaluates those
assumptions on every run. Each module `XProofs` extends `X`; `PipelineProofs` is
of `PcmPipeline` and of `SidWorker`, which extends it, and `ScanProofs` of
`ScanGate` and of `Library`. Of the assumptions of `SidWorker` only its own
theorems make use, and of those of `ScanGate` and `Library` only the theorems of
each.

| Module | Theorem | States |
| --- | --- | --- |
| `PipelineProofs` | `TypeCorrect`, `CreditBounded` | `TypeOK`, `CreditBound` |
| | `StreamIsRight`, `CreditIsNotLost` | `RightStream`, `NoCreditLost` |
| | `PipelineIsStream` | `ImplementsStream`: the refinement of `PcmStream`, with `Causal` |
| | `SidTypeCorrect`, `LastAskedIsPlayed` | `SidTypeOK`, `LastAskedPlays` |
| | `SidCreditBounded` | `SidCreditBound`, the first half of `CreditBound` |
| `ScanProofs` | `GateTypeCorrect`, `FlagHeld`, `RescanIsFollowed` | `GateTypeOK`, `FlagMeansScan`, `OutcomeBeforeIdle` |
| | `LibTypeCorrect`, `SyncKept` | `LibTypeOK`, `SyncWhenCalm` |
| | `IdsAreKept`, `NoFileIsLost` | the action properties `IdsKeepTheirFile`, `MovesLoseNothing` |
| `PlaylistsProofs` | `PlTypeCorrect` | `PlTypeOK` |
| | `AddedComesLast`, `FetchKeepsSafe` | the action properties `AddedLast`, `FetchIsSafe` |
| `StoresProofs` | `StoresTypeCorrect`, `FavouritesAreKept`, `EditsAreKept` | `StoresTypeOK`, `FavouritesKept`, `EditsKept` |
| `AssetsProofs` | `AssetsTypeCorrect`, `NeverGivenUp`, `ServedAsAsked` | `AssetsTypeOK`, `FailedForGood`, `ServedIsRight` |
| `PlaybackProofs` | `PlaybackTypeCorrect`, `IndexIsTracks`, `NowIsPlaying` | `TypeOK`, `IndexNamesTrack`, `NowPlaying` |
| | `IndexNeverMisnames` | what is left of `IndexNamesTrack` when the lists differ in length |
| | `PrevUndoesNext` | previous undoes next, in any queue and any shuffle |
| | `ShuffleIsPermutation`, `ShuffleVisitsAll` | a shuffle has every entry once, and plays each before any again |
| `SamplerProofs` | `JamTypeCorrect`, `CacheIsOfTrack` | `JamTypeOK`, `CacheIsTracks` |
| | `VoicesStayHeld`, `SongOrPattern` | `VoicesAreHeld`, `SongXorPattern` |
| `StandaloneProofs` | `HomeTypeCorrect` | `HomeTypeOK`, and what waits in IndexedDB's queue |
| | `RowsStaySound`, `KeptAsTold` | `RowsSound`, `KeepsWhatItShould` |

Every inductive invariant below was checked by TLC on the run's instance before
it was proved.

### The pipeline's credit

`CreditBound` is not inductive: a load must find nothing of its generation under
way, and the worker must have spent at least the credit that is out. `CreditInv`
adds that

* `GensAhead`: the generations still to be opened by the worker are increasing
  and newer than the one it has;
* `Fresh`: nothing is in transit of a generation it has not opened;
* `inflight <= Target`.

Opening a generation then starts from zero on both sides; rendering adds one to
both while `inflight < Target`; an ack of the current generation takes one from
both; the worklet only moves chunks on, drops them or turns them into acks
(`NothingNew`). `stop` forgets the credit, so the second half of `CreditBound`
is about a worker that is not stopped; acks still in transit make `inflight`
negative then, which the next load or seek resets. The lemmas `CountAppend` and
`CountTail` say how appending to and taking from a sequence changes a count.

`SidCreditBounded` has the same argument with a weaker account (`SidCredit`): a
tune that opens after a stop plays again in the generation the stop forgot, at
its end, so that `inflight` says what is on its way only while `eof` is not set.

### The pipeline's stream

`StreamIsRight` rests on `StreamInv`, in two halves that are proved one on the
other. `AskInv` is about what the wrapper asked for:

* `Asks`: the calls on their way carry what was asked for in their generation;
* `Believes`: a seek is posted for the song the wrapper believes loaded, and that
  is the song the worker plays, if any, once it has taken all that was posted
  before (`Follows`): a load or stop still waiting in between changes both alike;
* `Decodes`: what is rendered is the song asked for in the worker's generation,
  from where it was asked.

`Flow` follows the chunks: those on the pcm port are in order and the worker goes
on where they end (`Packs`, `InOrder`); once the worklet has begun a generation,
the port and the worker continue what it holds without a gap (`Gapless`, `Onward`);
its queue is one run that continues what was heard (`Queued`); and an
end-of-file mark is to come, on its way, taken or reported, but only one of these
(`Ends`). `Gapless` says nothing of a generation not begun: a chunk ahead of its
flush is dropped, and the stream then begins later, still unbroken.

With `Causal` it begins where it was asked (`Begins`, `Opening`), and a
generation whose mark was taken has its last chunk queued or heard (`Closing`).
`Over` says that nothing of it is left to come then, and `FlushAhead` that a
flush opens a later generation or silences one that was cut: together
(`WholeInv`) these make every step of the pipeline one of `PcmStream` or a
stutter. `PipelineIsStream` takes the steps one kind at a time: the main thread's
calls ask and cut (`MainRefines`), the worker's and the arrival of a chunk are
silent (`SilentRefines`), a flush moves on (`FlushRefines`), `process()` hears
and ends (`ProcessRefines`).

`CreditIsNotLost` needs that a second flush of a generation, which empties the
queue of it, comes from a `stop` that the worker has taken or will take before it
spends another credit there (`StopsWith`); `Spent` is the account itself, which
holds as soon as no stop waits.

### SidWorker

`LastAskedPlays` speaks of a worker that has nothing left to do. `Due` says it
before: which generation it will be in (`GenDue`), whether a stop reaches it last
(`StopDue`), and that the tune wished for is the last waiting to be loaded with no
stop behind it, or else the last being opened, or else the one that plays
(`SongDue`). That an opening which ends does not displace a later one is the order
of `asks`; that a failed one does is why `spoilt` is an exception. The assumption
`TunesOK`, that a tune the parser takes is not empty, is used by the types.

### The backends

`FlagHeld`: `FlagMeansScan` is inductive as it stands: each scan holds the flag
from claiming it to lowering it, and if all claim it nobody raises it while another
holds it. `RescanIsFollowed` adds that the
outcome published once the page's rescan is over is of that one or of one accepted
since, also while one of these has the flag and has published already (`Followed`).

`SyncKept`: between a request's two steps the disk is ahead of the index. `SyncInv`
says by how much: what a request knows of its files is still so unless it met
another (`OnDisk`, `Apart`), what the index says is so of every path no request is
at, and the row of a file that was moved either waits to follow or was seen to by a
scan (`CalmMeans`, `RowFollows`); and what an undisturbed scan has found is so, or
is being deleted (`ScanSees`). `IdsAreKept` needs only `IdsOnce`: ids in use differ
and are below the next one. `NoFileIsLost` needs `OnDisk` without the calm: what a
request that nobody met knows of its own two paths is so whatever happens elsewhere.

`FavouritesAreKept`: at every statement of the migration, `FavInv` says which table
holds the favourites, and when a second one is there, and `TablesInv` which shape each
table has by then; a crash at any point falls into a case of the next start, and the
one after DROP TABLE is the one in which the copy is never seen again. `EditsAreKept`: one editor at a time
(`OneEditor`, the write lock), who drafts from what is kept; and the file is what is
kept, or the draft that is being saved (`EditInv`). That there is a manifest to
start from needs a state other than absent (`StoresAssumption`).

`NeverGivenUp` needs that a request past reading its source has read the bytes its
key names, or the key is spoilt, and was rejected only for what ffmpeg cannot
convert (`Knows`). `ServedAsAsked` needs of each key that is not spoilt (`Tidy`)
that what is in its files is made of nothing else, that unless two shared it only
one is between converting and the end, and that a file is whole or being filled by
one who began it.

### Playlists

`Typed`: ids are given out in order, and with each at most one position is added
beyond those a page can count (`Made`), so that no position runs away and
`MAX(position) + 1` is behind all that is there (`Behind`, whence `AddedComesLast`).
The greatest position of a list exists because a set of numbers has a least one
(`LowestIs`, from the library's well-founded minimum).

`FetchKeepsSafe` has three parts, and a part of `FetchInv` for each. What waits to
be downloaded, and what is being downloaded, names an id that was given out, and if
there is still an item of that id it is the one that was missing (`Addressed`): ids
are never given out again, which is AUTOINCREMENT's doing, and no handler changes
an item's reference. A name that was chosen is free until another writes there, unless
none was (`Spared`). And what is noted, or about to be, is on disk, and in the index
unless this fetch wrote and its scan is still to come (`Stored`): the scan runs only
if something was written, so what was found already indexed must stay so. `clean` is
the history that no file was replaced or taken away, as in the property.

### Playback: the queue

The first three are of the planner alone, for a queue of any length.
`ShuffleIsPermutation`: a swap keeps every place there once (`SwapPermutes`), so
what `shuffledOrder` makes is a permutation, whatever its generator draws; all that
`PlaybackConstants` asks of `Orders` is that it can make them. By
`PrevUndoesNext` previous leads back from the entry planned next. A shuffle visits
no entry twice, so that `Place` finds the one position of an entry, and a step
forward and back around the ring of positions is none. `ShuffleVisitsAll` follows
next for ever, `walk[k]` being what plays after k of them: a stretch of the walk is
a stretch of the ring (`WalkIsAlong`), in which every position comes once. What is
carried along the naturals there is carried by a least counterexample (`LowestIs`),
for induction over them is out of the prover's reach. `PlaybackTypeCorrect` needs
of it that a plan stays within the longest list, also when the index is one of a
list that is gone (`RollTyped`, `PrevTyped`).

`IndexInv`: when the tracks are in memory no job is there to resolve one
(`InHand`), and where the index is within the queue it is at the track shown
(`Names`). That it is within is `InReach`, which with lists of different lengths a
plan can leave: hence the hypothesis `SameLength` of `IndexIsTracks`, while
`IndexNeverMisnames` has none. `IndexNamesTrack` alone is not inductive, for the
next step follows `planned`.

### Playback: what sounds

`NowPlaying` speaks of a player at rest. `NowInv` says it before. First what a
step means, whichever handler takes it (`Steps`): a track is started or cued, the
sound ends, something else passes, or an answer comes; `SameWork` says that the
wakes and fetches that wait are the same ones in the same order. Before the first
gesture nothing is under way (`Unbuilt`), what the engine holds can be played and
what is shown was asked for (`Engined`). Then, in a tidy history (`InOrder`):

* `Ours`, `LastAsked`: all that waits to be woken or fetched is for the engine
  there is, and the last of it is the track shown (`pending`, for after an eject
  none is);
* `Told`: what the worker reports is metadata of what can be played and an error
  of what cannot;
* `LoadedShown`, `PlayingLoaded`: with nothing left to wake or fetch, what is
  loaded is the track shown, its metadata are shown or last in the port, and what
  is shown as playing and can be played is loaded;
* `ResumeFirst`: a seek back waits for the first answer there will be, so that the
  metadata that release it are those of its track, if that can be played.

The answers do not say what they are of. The proof uses the order of the queue
instead, by the lemmas `JobsAppended` and `JobRemoved`: the first of a kind is
taken, the last one stays last, and when none is left it was the one taken. The
hypothesis `WorldsKeepOrder` asks of each world in which anything can be played
what the code needs: answers in the order of the requests, no missing file, cues
before the first gesture only. The lists may be of any lengths there, and the
tracks in memory or not. Worlds where nothing can be played satisfy it as they are,
and so do the three of `playback`.

### The sampler

The assumptions ask that samples are finitely many and that the names are distinct:
no track is `None` or `Unread`, no key is a call of `seqPlay`, and the waveform and
the audition are neither. `Null`, an answer from no module, may be anything.

`CacheIsOfTrack` follows what is on its way: before the first track nothing is
(`Begun`), and an answer of the generation there is now, which is the one that will
be cached, is of the track shown or of a sample the history has as read too early
(`FreshReads`). A new track makes every answer under way one of an earlier
generation; a cued one, which resets nothing, makes all samples early ones.

What waits is in two queues, of those who wait for audio and of answers, and a step
takes from one and adds to the other. `Waits` and `Asked` say for which jobs;
`Carries` says of a set of jobs the step does not concern that all that waits of it
has waited before, none of it twice. `VoiceInv` is `VoicesAreHeld` by its parts
(`KeyHeld`, `WaveHeld`, `EditHeld`) and two things more. The waveform there is, if it
was pressed without haste, waits for one voice at a time, with the pointer down and
none sounding (`Pressed`, `Once`, over `OfWave(mount)`): otherwise a second voice
would take the place of the one that is held. And nothing waits for a keyboard or a
waveform that is yet to come (`Past`): when the ones there are go with their song or
their view, the new waveform starts with nothing to wait for, whatever was asked of
the old one. A key needs nothing of the kind: it looks again after its await, and is
not held if its keyboard has gone.

`SongOrPattern` needs to know what a `seqPlay` still waits for. `Pending`: it waits
for audio once, or else once for each sample it still needs, so that it starts once.
`OneGraph`: if no two overlapped, one at a time is under way, and no graph is there
while it is. `Edited`: only edit mode has a pattern or a `seqPlay`, and there the
song is muted, or neither sounds nor is about to be loaded. `OfTrack` takes from
`CacheIsTracks` that what the sequencer sounds is of the track shown.

### Standalone

That the modules are finitely many (`StandaloneAssumption`) is used once, for
the rows saved at the start, which list each module once. Which answer an action takes is decided by
who asked, so the types need `QueueInv`: each caller but `clearAll` waits for one
request at most, it is of the kind and for the module that the caller's next step
expects, and what `clearAll` still waits for stands together, as many as it counts.
`FoldLeft` over the requests that a closing page still gets done is out of the
prover's reach; `StoredAfter` says the same by the last request of each module.

`RowsSound` is not inductive, for what goes wrong with the list goes wrong with a
request first. `SoundInv`, of a tidy history: no two rows of the list, nor of the
catalogue, share an id or their bytes, and a listed module without a URL is being
deleted (`Listed`, `Distinct`); bytes that wait to be stored are of a module not
listed, or about to leave the list (`Fresh`); a removal that waits finds its row
where it was, or no rows at all (`Placed`); no two removals overlap, and the user
takes in or removes nothing while the rows come back, and takes in nothing while
`clearAll` waits (`Alone`); and the rows yet to come back differ from those already
there (`Ahead`). That a new id is fresh is part of the types.

`KeptAsTold` stands on that. `Knows` says of each module what its history means:
one that the user may rely on is saved, stored, not being deleted, and listed or
still to come back, with its favourite; one that is gone is nowhere. `Shows`: one
that could not be stored is saved, and listed or still to come back. `Seeds` and
`Quiet`: the demo is fetched only if it was never seeded, and nothing is parsed
while rows come back. A reload needs one thing of the queue, that
no delete of a module relied on is in it: then any part of the queue leaves it
stored.

### What is only model-checked

`StreamEnds`, `HeardForEver`, `GivesUp`, `PageSettles`, `ComesUp`, `FetchEnds` and
`HomeSettles` are liveness under fairness, out of the prover's reach, as is
whatever needs ENABLED. Every other property of the runs that pass has its
theorem. `mulberry32`, which draws for the shuffle, is not modelled: that its
draws stay in range is taken from its last line, that they are fair is no claim
here.

## Plan

Modelled and checked: all the modules above. Proved: what the table above lists.

What is left is the background route and the wake lock, if the browser's media
element can be given a faithful external model.

## Not modelled

`PROJECT.json` gives the reason for each part. In short: visualisers, emulators
and vendored code keep no protocol with the rest; configuration and
authentication are read once; the catalogue parsers are text to records, and
will be modelled, if at all, as pure operators.

Most of what is left is code that draws (`NeonDrive.svelte`, `hifi-parts.ts`,
`Tunnel.svelte` and the like), that lays out pages, or that reads one text into
one record: its steps have no order that could go wrong. Of the parts modelled
partly, the components say what is left out.
