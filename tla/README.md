# A TLA+ development for gosaid

gosaid is a dictation daemon.  A global hotkey starts a recording, its release
(or a second press, or a time limit) ends it, and a pipeline transcribes the
recording, reshapes the text with a chat model, and pastes it into the focused
application through the clipboard.  A few commands beside it (`gosaid setup`,
`gosaid driver`, `gosaid model`) edit the configuration and download models.

The program is small, and almost everything difficult in it is concurrent:
hotkey dispatchers, cap timers, selection probes, pipelines, error recoveries,
audio callbacks and idle timers all run on goroutines or threads of their own,
meet in a few mutexes and atomics, and share the clipboard, the microphone and
two files with the rest of the machine.  Underneath runs a vendored inference
engine in C and C++, which plans the memory of each computation, runs it on
threads, transcribes in a loop of windows and retries, and decodes a chat token
by token.  These modules model both, from the sources under `src/internal`.  Line
numbers below are of those files; `ggml-alloc.c`, `ggml-cpu.c`, `whisper.cpp` and
`llama-*` are in the `cvendor/src` directories of `ggml`, `whisper` and `llama`.

## 1. Inventory

| Component | Source | State it keeps | Operations | Modelled by |
|---|---|---|---|---|
| Model cache | `drivers/modelcache.go`, `whisper_cpp.go`, `llama_cpp.go`, `whisper/`, `llama/` | entries by name: model, in-flight count, last use, timer | `acquire`, `preload`, `release`, `maybeUnload`, a model's own lock | `ModelCache`, `ModelLease`; proved in `LocalModelProofs` |
| Core | `daemon/core.go`, `state.go`, `statefile.go` | the daemon's state; its mirror in `state.json` | `Transition`, `TryStartRecording`, `recoverFromError`, `UpdateState` | `DaemonCore` |
| Dictation | `daemon/daemon.go`, `pipeline.go`, `hotkey/manager.go` | per hotkey: `captureLive`, `selCh`, `recording`, `stopTimer`; the active capture | `runHold`, `runToggle`, the cap callback, `OnTrigger`, `OnStop`, the probe goroutine, `Pipeline.Run` | `Dictation` (over `DaemonCore`); proved in `DictationProofs` |
| Audio capture | `audio/capture.go` | active flag, device, samples | `Start`, `Stop`, `Close`, `onRecv` | `Capturer` (over `DeviceChoice`); proved in `CapturerProofs` |
| Clipboard | `inject/` | the system's clipboard, borrowed | `injectPaste`, `captureSelection` | `Clipboard`; proved in `ClipboardProofs` |
| Reasoning filter | `daemon/reasoning.go`, `pipeline.go` | none | `stripReasoning`, the chat stages that call it | `Reasoning`, `ChatStage`; proved in `ChatProofs` |
| Daemon process | `daemon/daemon.go`, `pidfile*.go`, `statefile.go` | the PID file, the life of `state.json` | `Acquire`, `Release`, `InitStateFile`, `ClearStateFile`, start, exit, crash | `DaemonProcess`; proved in `DaemonProcessProofs` |
| Model files | `models/models.go` | `dest`, `dest.part` | `fetchToFile`, `Download`, `FetchModelFile` | `ModelFetch`, `ModelInstall`; proved in `ModelInstallProofs` |
| Configuration | `config/`, `setup/`, `cli/driver.go`, `cli/model.go`, `models/` | `config.json`, each command's copy of it | load, save, the wizard, endpoint add / configure / delete, model download, `gosaid mic` | `ConfigRules`, `ConfigCommands`, `ModelInstall`; proved in `ModelInstallProofs` |
| Computing a graph | `ggml-alloc.c`, `ggml-cpu.c` | the free lists and the plan of a graph; the thread pool: barrier, chunk counter, mutex, condition variable | `ggml_gallocr_reserve_n`, `ggml_gallocr_alloc_graph`, `ggml_graph_compute` | `GraphAlloc`, `Threadpool`, `GraphCompute`; proved in `GraphComputeProofs` |
| Transcribing | `whisper.cpp`, `whisper/whisper.go` | the whisper state: key-value cache, decoders, prompt history | `whisper_full` | `KVCache`, `Transcription`; proved in `LocalModelProofs` |
| Chatting | `llama/llama.go`, `llama-context.cpp`, `llama-batch.cpp`, `llama-kv-cache.cpp`, `llama-kv-cache-iswa.cpp`, `llama-graph.h` | a context: its key-value caches, micro-batches, output rows, the last graph | `Model.Chat`, `llama_decode` | `LlamaCache`, `Chat`; proved in `ChatProofs` |

How they meet:

* A hotkey's dispatcher calls its handlers directly.  `OnTrigger` calls the
  core, then the capturer, then starts the probe; `OnStop`, the probe and the
  cap callback compete for `captureLive`; the winner starts a pipeline or stops
  the capture.  The pipeline calls the capturer, the drivers and the injector
  in turn, and moves the core before each stage.
* The core calls its subscribers (sound, log, `state.json`) on the goroutine
  that made the transition, after it has released its lock.
* The drivers lease a model from the cache for one call; timers of the cache
  take idle models away.
* The driver calls `whisper_full` with the model's lock held.  Each batch of
  tokens it decodes is one graph, which the allocator places and a thread pool
  of its own computes.  The model and its whisper state outlive the call, as
  long as the cache keeps them.
* A chat makes a context of its own and frees it when it returns.  Each
  micro-batch of `llama_decode` is a graph, used again for the next one of the
  same shape.
* The injector and the probe both borrow the clipboard, around keystrokes that
  an application handles in its own time.
* Daemons of different launches, and commands in different terminals, share
  only files.

What makes each correct, and what is hard about it, is the list of hazards in
`PROJECT.json`; each names the source line where it bites and the properties
that would catch it.  In short:

* *Model cache*: no model freed under a caller, none leaked by two loads at
  once, no idle one forgotten.
* *Dictation*: each capture has exactly one stopper; a pipeline gets its own
  hotkey's audio; a state other than idle has somebody who will leave it.
* *Capture*: no old sound in a new recording, no microphone left open, no
  deadlock between a lock and a callback.
* *Clipboard*: the application pastes what was meant, the user gets back what
  was there.
* *Engine*: no two tensors that are still needed share memory, no thread runs
  ahead of what it reads, a computation and a transcription return, a window
  sees only its own history and its own attempt, a token of a chat attends to
  its own past.
* *Files*: one daemon at a time, its files say so; a model file is whole; no
  command loses what another part of the configuration holds.

## 2. Modules

Every action is what one goroutine, thread or process does between two accesses
to state that others can see: a lock that is released in the middle of a
function splits it into two actions, a lock that is held makes it one.
`PROJECT.json` maps each definition to its lines.

**ModelCache.**  `acquire` is `AcquireHit`, or `AcquireMiss` (the lock is
released), `LoadReturns` or `LoadFails`, and then `InsertFirst` or, if another
goroutine was faster, `InsertSecond`, which closes its own model.  `Release`
counts down and arms the timer.  `TimerFires` starts a callback, which skips
(`UnloadSkipped`), comes back later (`UnloadPostponed`) or removes the entry
(`UnloadRemoves`) and, without the lock, closes it (`CloseVictim`).  Time is
relative: `age` since the last use, `left` until the timer is due, moved by
`Tick`.  An entry and its model are one `Instance`.  A callback keeps the name
it was armed with, not the entry, as the closure in the code does.

**ModelLease** is what callers may rely on: names resident or not, users
leasing them; only an unleased name is evicted.  `ModelCache` implements it
with `resident <- residentNames, leases <- leasesOf`.

**DaemonCore** has `Transition` (under the lock) and `Publish` (the
subscribers, and for an error the recovery's timer) as two steps of the calling
goroutine, and the recovery's test and act as two more.

**Dictation** extends it.  `pc` has one place per step of a dispatcher, a cap
callback, a probe and a pipeline.  `live` is `captureLive`, `pressed` is the
toggle's `recording`.  Probes, caps, pipelines and recoveries come from finite
pools and return to them; a probe's channel is its identity.  Every stage of
the pipeline may fail; transcription may be empty; a pipeline that has a
channel waits for its probe's answer or for its 90 seconds.  `Take` keeps the
error return of `Capturer.Stop`, which no pipeline ever meets: that is what
`PipelineTakesOwnAudio` says.

**Capturer** makes `Capturer.mu` explicit, because what is called while it is
held is the question.  A device is `on`, `ending` (Uninit was called) or `off`;
Uninit returns when no callback is running; a callback needs the lock.
**DeviceChoice** is the loop inside `Start`: an arbitrary enumeration,
`orderPreference`, and one try after the other.

**Clipboard** has one step per access.  Keystrokes are posted to a queue that
the application empties; a copy keystroke copies the selection, if there is
one, a paste keystroke inserts the clipboard.  A user may copy at any step.
`Slow` says whether an application may handle a key after the daemon's delay.

**Reasoning** runs the three passes of `stripReasoning` over a sequence of
openers, closers and texts, against a definition of the answer that reads the
tags once, left to right.  **ChatStage** puts it behind `Chat`, as the chat stages
of the pipeline do: a stage `Asks`, `Waits` while `Chat` makes its steps, `Answers`
with a reply of no more tags and texts than it has tokens, which a full context
may have cut anywhere, and `Strips` it.

**DaemonProcess** follows launches through `Acquire` (read, truncate, write),
the life of `state.json`, and the deferred calls; any of them may be killed at
any step, and an old process's goroutines may still write `state.json` while it
ends.  Every file operation may fail: `AcquireFails` ends the process, while a
daemon whose `InitStateFile` or `UpdateState` fails serves all the same, without
the file, with a predecessor's or with an older state (`WriteStateFile`), and what
`ClearStateFile` or `Release` cannot remove stays.  The ghost `wrote` remembers
whose write of `state.json` has succeeded, and `left` that something was left
behind: by a kill, by a removal that failed, or by a write of the PID file that
did.  One failure is not modelled: a PID file that exists and cannot be read.

**ModelFetch** is one call of `fetchToFile`, request, blocks and rename, with
its deferred removal.  It gives paths and files different identities, since a
fetcher writes to a file it holds while a rename moves the path.  A response may
declare its length (`sized`): net/http then reports a body that ends early as an
error.  Without one it ends like any other, and since `fetchToFile` compares no
sizes, what was received is renamed and registered; the ghost `cut` holds the
files this has happened to.

**ConfigRules** is the configuration as a value and what the commands compute
from it: `Valid` for `config.Validate`, the model sources of the wizard, the
registration of a model, the reset.  **ConfigCommands** runs the commands in
terminals: each loads the file, works on its copy and replaces the file.
**ModelInstall** composes them with `ModelFetch`: the commands take the download
of one model block by block (`FetchBegins`, `Fetching`), go on when it returns
(`FetchReturns`), take their error paths when it fails (`FetchFails`), and may be
interrupted in the middle.  The other models arrive, or do not, in one step.

**GraphAlloc** plans a graph as `ggml_gallocr_alloc_graph_impl` does, one node
at a time: `AllocateNode` takes a parent's memory over in place or the best
fitting block of a chunk's free list, `UpdateParent` counts readers down and
frees what nobody reads any more, merging its neighbours.  `KeepPlan` keeps the
plan and the buffer; `AllocGraph` reuses them for a batch, or plans again when
`NeedsRealloc` says so.  A tensor is an operation, its sources, what it is a
view of, and its size in rows: one, or one for each token.  Two operations are
there for what the decoders do with them.  A `store` is `ggml_cpy` or
`ggml_set_rows` into the KV cache: a view of memory outside of the plan that
computes.  A `cast` is `ggml_cast`, which names itself as a source, so that it
reads itself once more than the others do while readers are counted.

**Threadpool** is a computation by the CPU backend, one step per atomic access:
the pool and its kickoff, a worker's polling, its wait on the condition
variable, the walk over the nodes, the chunks of a matrix product, the barrier's
two counters, and the end of the pool.  It knows a node only as a product with
its chunks, as rows that are dealt out beforehand, or as nothing to do.

**GraphCompute** puts the two together.  Memory remembers which tensor wrote
each row; every operation reads rows of its sources and writes rows of its own,
where the plan has put them.  A norm and the multiplication behind it are fused
when `Fusible` says so.  What is skipped is skipped by its operation (`Program`),
so a store is computed although it is a view.  Its rows are told apart from those
of the memory it writes to: `StoresRead` are the stores before a node into the
memory the node reads, through whatever view, and the node is to find all their
rows there.

**KVCache** has the operations on the cache of whisper's decoder, **Transcription**
the loop of `whisper_full_with_state` with gosaid's parameters (greedy sampling,
no time stamps, a fresh context for each call): language detection, prompt,
windows, temperatures, decoders that share the prompt's cells, their ranking,
the retry or the result.  What is sampled, and how likely it is, is a choice;
a token is known by the call and the window it comes from.  Each computation of
the engine may fail; when the cache cannot grow the state is gone (`CacheFails`).

**LlamaCache** is one of llama.cpp's caches, for one sequence: the position each
cell holds and the head of the search (`FindSlot`, `ApplyUbatch`, `SeqRm`,
`Prepare`, which places all micro-batches and takes them out again), and what is
read of it (`GetNKv`, `MaskRow`).  **Chat** is `Model.Chat` around it.  `Chat`,
`NoContext` and `NewContext` are what comes before its loop; `Decode` is
`llama_decode` up to its own loop: it cuts the batch and finds the cells;
`ProcessUbatch` or `UbatchFails` is one turn of that loop; `NextToken`,
`ReplyEnds` and `Cancelled` are the rest of `Chat`'s.  `memory` has a cache for the
full layers and, when the model has a sliding window, one for the others.
`kv_data` says whose keys and values a cell holds, `gf` the shape of the last
graph; a token is its place in the conversation, and which one is sampled is
data.  `Chat` holds the model's lock throughout, so there is one at a time.

`MC*.tla` adds to its module what only TLC needs: permutations for symmetry
and, for `MCDictation`, a view without `state.json`, which no step reads.

## 3. Runs

| Run | Instance | Shows |
|---|---|---|
| `model_cache` | 2 users, 1 name, 3 slots, 2 callbacks, unload after 1 tick | no held model is closed, an idle model has a timer or a callback on its way, each live model has one owner; it implements `ModelLease`; an idle model goes or is used again |
| `dictation_one_key` | one compose hotkey in hold mode, 2 probes, 2 pipelines, 2 recoveries | every capture has exactly one stopper, no busy state is orphaned, idle is quiet, a compose pipeline has its probe, no injection attempt stays open |
| `dictation_two_keys` | a hold and a toggle hotkey, 2 caps | both may pass the idle test, and still nobody takes or stops the other's capture, and no capture is stopped twice |
| `dictation_live` | one compose hotkey in hold mode, pools of one | the daemon returns to idle; since idle is quiet (`dictation_one_key`), every capture ends |
| `dictation_stuck` | one toggle hotkey, one cap; a user who presses whenever possible | *fails*: a capture that never ends (section 6) |
| `clipboard_safety` | 2 pastes, 2 probes, one at a time, 2 copies by the user | the user's clipboard comes back, the right text is pasted, the probe's answer is a selection |
| `capturer` | 2 goroutines, 2 captures, 2 buffers each, up to 3 microphones | recordings are fresh, no device is left on, the best microphone that opens is used, `Stop` returns |
| `daemon_process` | 3 launches one after the other, 3 PIDs, kills and file errors anywhere | one daemon serves, the PID file tells who does and so does `state.json` once written, an orderly end leaves neither, refusals are right |
| `model_install` | one terminal, 5 commands, 4 ids, 2 models and the shipped one, 2 shortcuts, 2 microphones; one model of 2 blocks, 2 files | what is registered is a whole file, if its response had a length, a valid file stays valid, nothing else is lost |
| `graph_compute` | every graph of 3 nodes, one of them perhaps a cast or a store, planned and computed for batches of 1 and 3 tokens, by 2 threads | live tensors lie apart, the free lists are exact, threads keep in step, no chunk is computed twice, every read finds what it means to read, a computation returns |
| `transcription` | 2 calls, 14 positions, 3 temperatures, 2 decoders, recordings of one to two windows, three prompts | positions and cells suffice, the cache holds each position once, history is this recording's, failed text is the last resort, a call returns |
| `chat` | prompts of 1 to 40 tokens, replies of up to 12, six models (trained for 7 or 60 positions; no window, windows and chunks of 3 and 5), any failure, replies of up to 7 tags and texts | each token attends to exactly its past through every reuse of a graph, and the next one is sampled from the last; the context suffices; exactly the answer of a reply is handed on |

Why these bounds.  The cache's races need two users of one name; the third slot
lets both load while the last model is still being closed, and the second
callback lets a late one meet a new timer.  Names do not interact in the code,
and the proofs are for any number of them.  In `dictation_one_key` the second
of each pool is what lets a probe, a pipeline or a recovery of one cycle live
into the next; a third would be two cycles late.  Two captures are what one
late buffer needs; two pastes and two probes, what one late keystroke or
restore needs.  Seven tags and texts hold every arrangement of two blocks and a
stray tag with text around them.  Three launches are a crash, its successor,
and the successor of an orderly end.  Five commands are a wizard after a
download, a change of the microphone and two changes of the endpoints.  Two
blocks make a file that is neither empty nor whole; the second file is the one
that a forced download writes beside the one in use.

Three nodes over an input and a weight are enough for a node that takes the
memory of another over in place, with a third that still reads it, directly or
through a view; for a block that is freed, merged and split; and for a fused
pair with a reader outside.  The weight is also the cache a store writes to: three
nodes are one that computes what is stored, the store, and a reader of the cache,
or a cast between a node and its reader.  One cast or store in a graph keeps the
number of graphs small; the proofs are for any number.  Two sizes of batch make
the plan larger than what is computed with it, or too small.  `MaxChunkSize`, `MaxChunks` and `Endless`
are small enough for a second chunk of the buffer, which in the code takes
gigabytes.  `ChunkFactor` is 1 instead of 4, so that a product has more chunks
than threads.  Two threads can overtake each other at a barrier; with three, and
batches of four tokens, the safety properties were checked once as well (2.5
million states, too long to keep as a run).

Fourteen positions (448 in the code) leave room for a history that is cut, an
initial prompt, and three sampled tokens: a decoder can end, run out and repeat
itself (`EntropyLen` 2 instead of 32).  Three temperatures, two of them below
the one from which history is left out, are one retry with history and one
without; two decoders (5 in the code) share a prompt.  The lengths are a
recording below a tenth of a second, one just over a window, one with a short
rest and one with a long one; the second call meets what the first has left.
`Pad` is 1 instead of 256: the cache then has not a cell more than the model
has positions, which is the hardest case.

For `chat`, cells are counted in fours instead of 256, a micro-batch has 8 tokens
instead of 512, and the slack of a mask is 1 instead of 32: as in the code, a
micro-batch is longer than the step in which the cells of a graph grow.  The
context of 38 (8,192) is no multiple of four, and the model trained for 7 tokens
has a context shorter than a micro-batch.  Prompts of 1 to 40 tokens are one to
five micro-batches with every rest, prompts that leave less room than a reply
takes, and prompts that do not fit.  Windows of 3 and 5 are shorter than a
micro-batch, so the rows of one differ; the conversation is long enough for old
cells to be hidden from all of it.

Deadlock checking is off where the system may stop: a bounded number of
launches, clipboard calls, recordings or commands, a capturer that was closed.
It is on for the cache, the dictations, the thread pool and the chat.

Safety runs of interchangeable pools use symmetry; no run with a liveness
property does.

## 4. Fairness

* `ModelCache!FairSpec`: the clock runs, a due timer starts a callback, a
  callback goes on.  Nothing is assumed of the users: one may hold a lease for
  ever.
* `Dictation!FairSpec`: goroutines go on, caps and recovery delays run out, a
  key that is down comes up.  No press is ever forced.  Where a step needs a
  member of a pool, fairness is strong: the code starts a goroutine without
  waiting for one, and the pools are only our bound.  That calls to drivers end
  is what the 90 second deadline of `OnStop` provides.  `EagerSpec`, used by
  `dictation_stuck` only, adds a user who presses when the dispatcher listens.
* `Capturer!FairSpec`: goroutines go on (weak), and a callback that waits for
  the lock gets it in the end (strong: Go's mutex hands over to a waiter that
  has waited for a millisecond).
* `GraphCompute!FairSpec`: each thread goes on (weak), whether it polls, spins,
  or waits for a mutex that is given back: operating systems schedule runnable
  threads.  A thread that sleeps on the condition variable is not runnable; that
  somebody wakes it is what the run shows.
* `Transcription!FairSpec`: the thread in `whisper_full` goes on (weak).  No call
  is forced, and nothing is assumed of what is sampled.

## 5. Proofs

TLAPS checks every theorem for all values of the constants that the assumptions
named in the modules admit.  A property of section 3 holds in a run for its
small instance; where a table below names it, it holds for every instance.
Where a theorem has a condition, the last column gives it, and section 6 shows
what happens without it.

### Model cache (`LocalModelProofs`, part 1)

For any finite set of users, any sets of names, instances and callbacks and any
`UnloadAfter \in Nat`:

| Theorem | Statement |
|---|---|
| `TypeCorrect` | `Spec => []TypeOK` |
| `NeverFreedUnderHolder` | `Spec => []HeldIsResident` |
| `InflightIsExact` | `Spec => []InflightCountsHolders` |
| `UnloadIsScheduled` | `Spec => []IdleIsScheduled` |
| `ModelsHaveOneOwner` | `Spec => []ModelsAreOwned` |
| `CacheImplementsLease` | `Spec => Lease!Spec` |

The assumptions are those of `ModelCache`: `Users` is finite (so that holders
can be counted), `UnloadAfter` is a natural number, and the two null values are
not members of what they stand beside.  No run checks
`InflightCountsHolders`: it is here for the proofs that follow, and TLC has
confirmed it.

That a held model is resident is not inductive.  A callback removes an entry
when its count is zero, so one needs that the count is the number of holders;
that is kept only if an entry, a model just loaded by a goroutine that has not
inserted it yet, and a model removed by a callback that has not closed it yet
are all different instances.  This is `Apart`, and
`SafeInv == TypeOK /\ Apart /\ HeldIsResident /\ InflightCountsHolders`.  The
schedule of unloads needs one more fact, that an entry's timer carries the
entry's name (`TimersMatch`): a callback that postpones re-arms the timer of
the entry it found by name.  `IInv` is all of it.  One lemma per action proves
`SafeInv'`; the schedule has lemmas for a step that leaves an entry alone and
for one that arms its timer.  `Apart` is half of `ModelsAreOwned`, no two
owners; the other half, that a live model has one (`NoneLost`), is inductive
beside it: a step that gives a model up hands it on or closes it.  The
refinement maps `AcquireHit`, `InsertFirst` and `InsertSecond` to `Lease`,
`Release` to `Return`, `UnloadRemoves` to `Evict`, and everything else to a
stutter; `HeldIsResident` is what makes an eviction's `leases[n] = {}` true.

### Transcription (`LocalModelProofs`, part 2)

For any size of the context above eight positions, any padding of the cache,
any number of decoders and temperatures, any recordings and any number of calls
(`TranscriptionAssumption`; the one bound with a reason, `n_text_ctx \div 2 > 4`,
is what leaves a token to sample):

| Theorem | Statement |
|---|---|
| `TranscriptionInvariant` | `WhisperSpec => []WhisperInv` |
| `PositionsAlwaysFit` | `WhisperSpec => []PositionsFit` |
| `TokensAttendTheirPast` | `WhisperSpec => []EachPositionOnce` |
| `HistoryIsOfThisCall` | `WhisperSpec => []HistoryWasSaid` |
| `FailedTextComesLast` | `WhisperSpec => FailedTextIsLastResort` |

`WhisperInv` is a conjunction of what the loop of `whisper_full` keeps.  The cells
in use are the first ones of the ring (`CellsInv`, `Dense`), at most one for
each token of the prompt and one for each decoder and token sampled; so the
search for a slot finds the cell behind them (`FindsTheEnd`), and that there is
room for it is arithmetic on the factor `n_decoders + 2` by which the code sizes
the cache (`CacheHasRoom`), once the cache is known to be sized for the decoders
at work (`SizeInv`).  Each
active decoder has one cell at every position below the next (`Once`): the
prompt's cells, which `whisper_kv_cache_seq_cp` shares out, and one for each batch
since, because a batch has one token for each active decoder (`ActiveEnumerated`)
and all of them are at one position (`OnceGoesOn`).  For language detection the
cache is as the call before has left it, and the removal of sequence 0 is what
makes the claim true.  `PromptInv` bounds the prompt by half the context and the
task's tokens, and keeps that it is a part of the history, in order; with
`SaidInv`, that history is of this call and is ordered, this gives the rest.  The
action property needs only that the best decoder is one that has not failed when
there is one.

This part and the one before share a module and nothing else: the specification
of `Transcription` has names of its own (`WhisperInit`, `WhisperNext`) for that
reason.

### Dictation (`DictationProofs`)

For any finite or infinite set of hotkeys, in either mode, with or without a
compose stage, and any pools of timers, probes, pipelines and recoveries:

| Theorem | Statement | Condition |
|---|---|---|
| `TypeCorrect` | `Spec => []TypeOK` | |
| `PipelinesTakeOwnAudio` | `Spec => []PipelineTakesOwnAudio` | |
| `StoppersAreAlone` | `Spec => []NoRivalStoppers` | |
| `BusyHasAWorker` | `Spec => []BusyIsAccountedFor` | |
| `AttemptsAreSettled` | `Spec => []AttemptIsSettled` | |
| `CapturesHaveOneStopper` | `Spec => []CaptureHasOneStopper` | no toggle hotkey |
| `ComposeHasProbe` | `Spec => []ComposeHasItsProbe` | compose hotkeys are hold hotkeys |
| `IdleMeansQuiet` | `Spec => []IdleIsQuiet` | one hotkey, in hold mode |

The heart is `StopInv`: the right to stop a capture is the `captureLive` flag of
its hotkey, or belongs to one goroutine between the swap that took the flag and
the `Capturer.Stop` that uses it up.  Swapping is atomic, and starting a pipeline
hands the right on, so it is never doubled: this needs nothing of the hotkeys'
modes, nor of the core's state, and gives the samples to the right pipeline.
`BusyInv` says why the state is not idle, and is kept by a case for each place a
goroutine leaves.  Of a recording it says, whichever way it comes about, that
somebody is to end it: the press of the hold hotkey whose capture it is waits for
its release, or a goroutine is about to stop it.  For a toggle hotkey's capture
that would be false (`dictation_stuck`), so there the theorem only says that the
capture is the reason.

That a capture always has a stopper is another matter, and false with a toggle
hotkey, where a press may clear the flag (section 6).  With hold hotkeys the
flag is up only between a press and its release (`LiveInPress`), so no press
clears it.  `HoldInv` adds that a press has started its probe before its release
stops it, which is where a compose pipeline's channel comes from.  `OneCycle` is
for one hotkey: one goroutine at most is busy with a cycle, beside recoveries
and probes that have lost, and the core's state is the one that goes with its
place (`StateOf`); so when the state is idle nobody records or processes.  With
two hotkeys two cycles can be under way, and the property is false.

### Audio capture (`CapturerProofs`)

For any number of goroutines, captures, buffers and microphones:

| Theorem | Statement | Condition |
|---|---|---|
| `MicrophonesAreClosed` | `Spec => []NoMicrophoneLeft` | |
| `RecordingsAreFresh` | `Spec => []RecordingIsFresh` | `~Overlap` |
| `BestIsOpened` | `Spec => BestDeviceOpened` | |

`DeviceInv` relates the lock, the device in the struct and the devices that
`Stop` has taken out of it: they are different ones, each `Stop` has its own
(`StopsOwnDevice`), and the one in the struct runs exactly while a capture is
active, or a `Close` waits for it (`DeviceRuns`).  `FreshInv` needs in addition
that a device which may still deliver is the active one when there is one
(`StartsClean`), which is what a start during the `Stop` before it breaks.

`BestDeviceOpened` rests on the order in which microphones are tried.  `pick` is a
loop, a recursive function of how many microphones it has looked at; each of its
values has exactly those that it takes, once and in the order of the enumeration
(`OrdersAscend`).  So the three passes, each without those taken before, try every
microphone, and a better one before a worse one (`BetterFirst`); what is better
than the one that opens has been tried.

### Clipboard (`ClipboardProofs`)

For any finite sets of pastes and probes and any number of copies by the user,
at any step, when `OneAtATime == MaxRunning = 1 /\ ~Slow`: the borrowers come one
after the other and the application handles a key within the daemon's delay.

| Theorem | Statement |
|---|---|
| `PastesInsertTheirText` | `Spec => []PasteInsertsText` |
| `AnswersAreSelections` | `Spec => []AnswerIsSelection` |
| `ClipboardComesBack` | `Spec => []UserGetsClipboardBack` |

`ClipInv` has five parts: types; `TurnInv`, the queue holds at most one key, of
the call that runs or the one that has just ended; `OwnInv`, between its write
and its key the clipboard is the call's own or a newer copy of the user;
`ResultInv`, results are right when there are any; and `BackInv`, what is owed to
the user is in the clipboard or in the hands of the call that runs, which will
put it back.  `BackInv` is about behaviours in which nothing else interferes
(`Undisturbed`), as the property is.

### Daemon process (`DaemonProcessProofs`)

For any number of launches and process ids, whatever is killed when:

| Theorem | Statement | Condition |
|---|---|---|
| `TypeCorrect` | `Spec => []TypeOK` | |
| `RefusalsAreJustified` | `Spec => RefusalMeansDaemon` | `~Reuse` |
| `OneDaemonServes` | `Spec => []OneDaemon` | `~TwoAtOnce` |
| `FilesAreReliable` | `Spec => []FilesTellWhoServes` | `~TwoAtOnce` |

Two daemons are kept apart by a file, which works if the file is its owner's
(`OwnersFile`), processes that are up have different PIDs (`PidsApart`), and
nobody starts between another one's reading and writing (`StartsAlone`); the
last is what `~TwoAtOnce` gives.  `state.json` is not so reliable, because a
daemon serves even if it cannot write it: `FilesTellWhoServes` claims of it that
it names the serving daemon from the first write that succeeds, never a daemon
that has yet to start (so a live PID in it is its writer's), and that it is gone
when all daemons have ended in order and their removals worked.  That PIDs are
given again does no harm here: a left-over file may make a start refuse, and never makes two succeed.

### Model files and configuration (`ModelInstallProofs`)

For any models, endpoints, hotkeys, microphones, files and blocks:

| Theorem | Statement | Condition |
|---|---|---|
| `ConfigsAreBacked` | `InstallSpec => []ConfigInv` | |
| `RegisteredFilesAreWhole` | `InstallSpec => []RegisteredIsComplete` | `OneTerminal` |
| `SavesLoseNothing` | `InstallSpec => NothingLost` | `OneTerminal` |
| `AcceptedStaysAccepted` | `InstallSpec => ValidStaysValid` | `OneTerminal` |

`ConfigInv` holds with any number of terminals: local models named in the file
or a command's copy have been downloaded, but for the shipped example's.  The
other three need one terminal at a time, because two downloads of one model
share a part file, and two commands overwrite each other's file.  With one,
`FileInv` says that the part file is the download's own and holds the blocks
written so far, so that what a rename puts in place is whole, or in `cut` when
its response had no length and ended early: the property excepts those, since
nothing in the code could tell them apart; `CopyInv`, that a
command's copy has all that the file has, but for the hotkey being set up and
for a setup from scratch; `NamesInv`, that endpoints have names.  The driver
manager does not check hotkeys when it saves: what it adds or configures breaks
none, what it deletes only those that use it, which is how the property is
stated.

### Computing a graph (`GraphComputeProofs`)

For any number of threads above one, any batches and any graphs of norms,
products, row selections, views, casts and stores into memory outside of the plan:

| Theorem | Statement |
|---|---|
| `PoolTypes` | `TPSpec => []TPTypeOK` |
| `NeverOutOfStep` | `TPSpec => []NodesInStep` |
| `NoChunkTwice` | `TPSpec => []ChunksOnce` |
| `ComputeImplementsPool` | `GraphCompute!Spec => TPSpec` |
| `GraphInStep`, `GraphChunksOnce` | the two invariants, for `GraphCompute!Spec` |
| `TensorsApart` | `Spec => []LiveApart` |
| `FreeListExact` | `Spec => []FreeListIsExact` |
| `ReadsStayFresh` | `Spec => []ReadsAreFresh` |

The assumptions are `ThreadAssumption` (one thread alone needs no barrier),
`ShapeAssumption` (a graph is a well-formed sequence of tensors, a batch a
positive number), `ChunkAssumption` (there is a chunk, and none is longer than
the last) and `EndlessAssumption` (the last chunk has room for the whole graph
with no row used twice: the code's comment calls it "virtually endless", and its
size is half of what an address can count).  A program of the pool is any sequence
of `ProgramNode`s; nothing is assumed of which nodes are fused or how many chunks
a product has.

`NodesInStep` is not inductive: it speaks of threads at work, and the barrier
moves threads that have not noticed yet.  So each thread gets a stage: the node
it works at, the barrier (a gate) behind a node, or the end.  A thread that was
let go (it spins, and the count it read is no longer `n_barrier_passed`), or a
worker that has not seen the kickoff, counts as being in the stage where that
will take it.  `InStep` says that all threads are in one stage or at the gate
behind it.  A step of one thread then goes to its gate or stays in its stage
(`Local`); only the kickoff and `PassBarrier` move all threads, at once.  That
all stand at the same gate when it opens is `BarrierInv`: the counter is the
number of the threads that wait (`CountIsExact`), so the thread that reads
`NThreads - 1` is the last and alone (`LastEnds`), and nobody passes between the
two accesses of a thread that enters (`EntersNow`).

`ChunksOnce` follows from the same stages: before a product's gate opens, thread
0 has set `current_chunk` to the number of threads and each thread holds the
chunk of its own number; behind it, all chunks that are held or computed are
below the counter, and those computed of other nodes are of earlier ones
(`ChunkInv`).  The refinement is short, since every step of `GraphCompute` is one
of the pool's, or plans, which leaves the pool alone; what needs an argument is
that the graph's program is one (`ProgramOfGraph`).

The plan of a graph has its own invariant, `PlanInv`; both properties are read off
it.  It has three parts, each of which needs the others.

* `Placed`: a row of a chunk is in exactly one free block, or belongs to exactly
  one allocated tensor (`Owns`), up to the chunk's end (`Whole`); free blocks are
  sorted, apart and not adjacent (`ChunksOK`); and the last chunk is untouched
  from some row on, which is why the best fit always finds a block.  Best fit,
  splitting, insertion, and merging with one neighbour or both keep it; memory
  taken over in place changes only the owner.
* `Counts` and `Kept`: a tensor's two counters are the numbers of the reads and
  the views that the planner has not passed yet (`Reads`, `Pending`, over the
  slots `Left` of a node and those behind it).  So a tensor loses its memory only
  when no node to come reads it, itself or through a view.
* `PlanOK`, what the finished plan must satisfy: rows that two tensors both have
  had are the second one's only after all readers of the first, or the second is
  the last reader and is computed on top of it row by row (`Overlaps`); a pair
  that may be fused ends on top of one of the product's sources (`PairsOnTop`).

`ReadsAreFresh` joins the two halves: what the pool does with the rows that the
plan has laid out.  Its invariant is `FreshInv`, of the parts above and four more.

* `AccountInv`: every chunk of a product is computed, held by a thread, or yet to
  be given out (`Accounts`).  `ChunksOnce` says that no chunk is computed twice;
  this says that none is left out, so a product that all threads have left is
  complete.  Rows are dealt out completely and apart by arithmetic (`RowsDealt`,
  `ChunksDealt`).
* `UseInv`: memory is given out only by a plan that was sound for some batch and
  whose places suffice for the batch at hand (`KeptFor`).  From it follows what is
  known of the places of this batch, whichever batch they were planned for
  (`Laid`): the rows are within the buffer, two tensors overlap only as
  `Overlaps` allows, and a fused pair ends where one of the product's sources is.
* `MemInv`, by the stages of the threads.  While nobody can write, memory holds,
  for every position `p` at which a thread is, all rows of the tensors before `p`
  that are still needed there (`Settled`).  While node `n` is computed, memory
  holds its rows that are done, and all rows that are still needed except those
  that the done ones have overwritten (`Underway`).  The tensors this is about
  (`Keepers`) are those with memory of the plan, and the stores, whose rows no
  other tensor ever takes over (`StoresApart`).
* `Converted`: behind the barrier of a product, every thread's share of `wdata` is
  from that product's second operand, not from an earlier one's.

A thread that reads while others write is covered by `ReadsThere`: a row that is
not done yet reads only rows that are not overwritten yet, because a tensor that
is written in the place of its source is laid on it row by row (`AlignedRows`,
and `FusedAligned` for a pair that is computed in one pass).  This is where it
matters that a norm has as many rows as its source, which `WellFormed` says of a
graph as `ggml_rms_norm_impl` makes it.

The planner's loops are folds.  A fold over a sequence is described by its
partial results (`f[0], ..., f[n]`, each from the one before), and the invariant
is carried along them: over the parents of a node, over the nodes, over the
blocks of a chunk.

### Chat (`ChatProofs`)

For any models, prompts and batch sizes, any reply, padding and slack of a mask:

| Theorem | Statement |
|---|---|
| `TokensAttend` | `StageSpec => []AttendsItsPast` |
| `ContextIsEnough` | `StageSpec => []ContextSuffices` |
| `MaskIsExact` | a copied row of the mask is the row of the token's own position |
| `StripsToTheAnswer` | `StageSpec => []OnlyTheAnswer` |

`MaskIsExact` is for every cache, micro-batch in order, slack and window of every
kind: the mask row of a token, which is copied from the first token's and worked
out anew only for the cells near it, shows exactly the cells the token's own
position may see.  The argument is that a cell further back than the window and
the slack is before both tokens and hidden from both or from neither
(`FarIsAlike`); for chunks, that a chunk begins less than a window before its
tokens (`ChunkStart`).  It is the part of `AttendsItsPast` that is about the
mask.

The rest is `ChatInv`: the tokens are in the cache in their order, the one at
position `p` in cell `p`, and the search for cells begins where they end
(`Filled`).  Nothing in `FindSlot`, which goes around a ring and would take the
cell of a token that is out of the window, says so; it follows because the
search begins at the first empty cell and what is left of the prompt and the
reply fits (`InContext`).  A batch is cut into runs of positions (`Bounds`,
`Piece`), so the cells that `Prepare` finds for the micro-batches are the runs
behind one another; placing them and taking them out again leaves the cache as
it was; and after each `ProcessUbatch` the cache is filled up to the end of that
micro-batch, and what is stored in a cell is the token it is thought to be
(`Stored`, `Placing`).  Then the cells of a row that are visible to a token are
exactly the numbers of the tokens it is to attend to, if the number of cells the
graph was built for is the one the cache now needs: that is what `CanReuse`
compares.  `ContextSuffices` follows from `InContext`, with the remark that a
failure other than a lack of cells may leave a micro-batch half way
(`NoneBeyond`).

The assumptions are `CacheAssumption` (a positive padding), `ChatAssumption`
(positive limits, prompts that are not empty, and a window behind every kind of
window) and `StageAssumption`.

`StripsToTheAnswer` is for replies of any length and shape.  While blocks are
removed, a frontier `f` moves from closer to closer: up to it, exactly what is
neither an opener nor inside a thought is left, and behind it, everything
(`BlocksRemoved`).  The next block begins at the first opener that has a closer
behind it, and since all closers between the frontier and it are lone ones, what
the regular expression takes is one thought as the reading from left to right
has it (`BlockStep`).  When no block is left, the openers that remain are
thoughts to the end of the reply (`ThoughtsAtTheEnd`), and closers are lone
(`ClosersAreLone`); the second pass cuts before the last of these, the third at
the first of those.

### What is only model-checked

* The liveness properties `IdleModelsGo`, `ReturnsToIdle`, `StopAlwaysReturns`,
  `ComputeReturns` and `TranscribeReturns`: they rest on fairness, whose ENABLED
  TLAPS does not support.
* The conditions' necessity: that a property fails without its condition is
  what TLC's counterexamples of section 6 show.

## 6. Disagreements between the code and what it says

One run expects a violation.

* `dictation_stuck`.  `toggle_max_seconds` is a "Safety cap" (`hotkey/manager.go:14`
  speaks of the cap's fire, `docs/configuration.md:190` of the cap).  The cap's
  callback clears `recording` before it calls `OnStop` (106-108).  A press in
  between starts `OnTrigger`, which clears `captureLive` (`daemon.go:173`) and is
  refused because the core is recording; `OnStop` then finds nothing live and
  returns (209).  The capture runs on, and no later press or cap ends it.

More were met while modelling.  They are stated in the modules, or are the other
value of a constant, and can be seen by adding the property to the run's
configuration or changing the constant:

| Where | How to see it | What happens |
|---|---|---|
| `core.go:86` | `TryStartMeansIdle`, two hold hotkeys | both get true; the second one's `Start` fails and its error covers the first one's recording |
| `core.go:57` | `MirrorIsCurrent` | two goroutines publish in the opposite order; `state.json` keeps the older state |
| `daemon.go:214` | `ComposeHasItsProbe`, one toggle compose hotkey and a late cap | the pipeline starts before the probe's channel is stored |
| `selection.go:89` | `clipboard_safety` with `Slow = TRUE` | a late copy keystroke replaces the restored clipboard |
| `paste.go:70` | `NewerCopySurvives` | a copy between the comparison and the restore is lost |
| `capture.go:41` | `CloseAlwaysReturns` | Close holds the lock its callback waits for |
| `capture.go:223` | `capturer` with `Overlap = TRUE` | the old device's last buffer lands in the new recording |
| `pidfile.go:27` | `daemon_process` with `TwoAtOnce = TRUE` | two launches read before either writes |
| `pidfile.go:23` | `daemon_process` with `Reuse = TRUE` | a left-over PID belongs to another process, or to the new daemon |
| `models.go:276` | `model_install` without `dest \in cut` in `DestIsWhole` | a response without `Content-Length` (279, 297 provide for it) that is cut short is renamed and registered |
| `models.go:262` | `model_install` with two terminals and three files | two downloads share one `.part`, and a registered model is not whole |
| `run.go:350` | `WizardResultSaves` in `model_install` | the design document calls a refusal at the end of the wizard "unreachable"; once `gosaid driver` has given the shipped `openai` endpoint a key, the wizard keeps the file, whose shipped local model was never downloaded, and `Validate` refuses it |
| `run.go:350` | `SetupKeepsEndpoints`, two terminals | setup overwrites what another command saved |
| `whisper.cpp:7155` | `CacheFails` of `Transcription` | a cache that cannot grow for more decoders frees the state the context still points to; gosaid keeps the context and uses it again |

So the passing runs say what holds when an application answers in time, daemons
are started one after the other, downloads and commands do not overlap.

## 7. Not modelled

* HTTP, audio samples, resampling, prompts, languages and vocabulary: data, of
  which only success or failure reaches the state above.
* Registration of hotkeys with the operating system, the terminal forms, the
  editor, `gosaid debug`, `gosaid vocab`, the restart offered by setup: one call
  each, no state that another component reads.
* Fields of a hotkey that validation does not read (its microphone, languages),
  and the syntax of `endpoint:model`.
* The 300 ms against which a stale probe of an earlier cycle is safe
  (`daemon.go:164-169`) are not assumed: a probe may be arbitrarily late, and the
  properties hold all the same.
* Of ggml: the kernels and their quantised formats for each processor, the
  other backends and the scheduler that splits a graph between them, the file
  format, the arithmetic.  They are functions of their inputs, most of them
  generated by repetition over types and instruction sets; what they read and
  write of a tensor's rows is in `GraphCompute`.  Of the cache it has what one
  graph stores and reads: what earlier graphs left there is the business of `KVCache`
  and `LlamaCache`, and two stores of one graph (keys and values, layer by layer)
  are taken to go to different cells.  Views that write to memory of the plan are
  left out (`WellFormed` says so): whisper's decoders make none, but some chat
  models do, those with recurrent or linear attention, with groups of experts or
  with a top-k mask (`llama-graph.cpp:1596`, 2522, `models/delta-net-base.cpp:262`).
  Atomic accesses are taken as
  sequentially consistent, although the chunk counter is relaxed: the barrier
  around its reset is not.  Pools that are kept, paused or aborted do not occur:
  gosaid passes none, and each computation makes its own.
* Of whisper.cpp: loading a model, the encoder, the sampling rules and scores;
  beam search, time stamps, voice activity detection, grammars and callbacks,
  which gosaid's parameters switch off.  The threads that sample for several
  decoders are one step, since each has its own decoder.
* Of llama.cpp: several sequences and streams, shifts of positions, recurrent
  and hybrid memories, ALiBi and two-dimensional positions, saved states,
  embeddings, adapters, encoders, backend sampling: a context of gosaid's uses
  none, but for models whose memory is recurrent or hybrid, which `Chat` does not
  cover.  A cache smaller than the context does not occur either, since the
  default parameters set `swa_full`; so `FindSlot` never has to take the cell of a
  token that is out of its window, and `ApplyUbatch` never purges, although both
  definitions say what would happen.  Loading a model, templates, vocabularies,
  Unicode tables, the samplers and the models' graphs are data.

The implementation counts some 223,000 lines of C and C++, nearly all of them
kernels, tables and model graphs as above; the part with control worth checking
is small, and these modules cover what of it gosaid runs.  A map of a third of
those lines would have to name lines that no definition stands for.

## 8. Plan

The order was: the cache with its proofs, because a model freed under a call is
a crash; the core and the dictation, which is the program; capture and
clipboard, which it shares with the machine; then processes, files and
configuration; then the engine underneath; then proofs of every component's
safety.  Left to do, in this order:

1. An abstract dictation (idle, recording, working, and who owns the microphone)
   that `Dictation` implements, the step-by-step part proved from `StopInv` and
   `OneCycle`; shutdown composed with the dictation.
2. `IdleIsQuiet` for several hotkeys, as what is true of them: an idle state with
   a capture belongs to the loser of a race for the core.
3. Fields of a hotkey that the wizard drops when it rebuilds one.
