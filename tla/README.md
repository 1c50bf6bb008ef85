# Verification of DiskMule

TLA+ models of DiskMule (a Rust inference runtime that keeps model weights on disk), TLC
configurations that check them on small instances, and TLAPS proofs. Paths like `runtime.rs:712`
mean `src/src/runtime.rs` in this tree. `PROJECT.json` maps every definition to the lines it models.

## 1. The system

A process holds one `RuntimeService`. A client (an HTTP request or the interactive chat) submits a
list of messages and gets a *ticket*. For each model there is one worker thread, which owns the
engine and up to `DISKMULE_MAX_SESSIONS` resident sessions; it takes jobs from a bounded queue,
renders and tokenises the messages, runs the model's generation loop and sends each piece of text
into the ticket's bounded channel. A session keeps the state the model computed for the tokens of
earlier turns, so that a longer conversation is not computed again. Routed experts of large models
are read from disk into a few slots.

    client --submit--> queue --> worker thread --> engine: session (tokens, KV/recurrent state, logits)
      ^                             |                         |
      |<-- bounded token channel ---+                         +--> expert cache --> disk
      +--- cancellation flag ------>|

### Components

| Component | State | Operations | Interacts by |
|---|---|---|---|
| Scheduler, `runtime.rs`, `generation.rs` | workers map, per worker queue, status, thread; per ticket channel and flag | submit, load, run, cancel, drop ticket, drop service | channels, shared flag and status, thread join |
| Resident sessions, `runtime.rs:789-880` | `last_used` of each session, a clock | reuse, create, evict | local to a worker |
| Gemma 4 session, `gemma4/cpu.rs`, `gemma4/metal.rs`, `metal.rs` | tokens, logits, KV ring per layer and its position | turn: reuse prefix, truncate, prefill, decode, roll back | called by the worker, calls the expert cache |
| GLM-5.2 session, `glm52/cpu.rs` | tokens, logits, latents, index keys, sparse selection and its history | as above, two nested rollbacks | as above |
| Qwen 3.5 session, `qwen35/cpu.rs` | tokens, logits, recurrent state, keys/values, position | as above, clears instead of rolling back | as above |
| Gemma expert cache, `expert.rs` | slots (label, bytes, pin, last use), counters, clock | `with_expert`, `acquire` | two reader threads per miss, the flag |
| GLM expert cache, `glm52/expert.rs` | slots, resident bytes, clock | `with_expert`, `acquire` | the flag |
| Streaming text, `drain_valid_utf8`, `decode` | pending bytes | append, drain, flush | between the loop and the ticket |
| Architecture boundary, `architecture.rs` | the loaded model | load, start a session, generate | sends every turn to the code of the model's family |
| Model catalog, `model.rs`, `config.rs` | registry file, managed directory | resolve, list, remove | file system, other processes |
| HTTP server, `server.rs` | a ticket per request, the body so far | connect, accept, line, answer, end, disconnect, drain | tickets, connections, signal |
| Chat, `chat.rs` | history, one ticket | line, Ctrl-C, `/clear` | tickets, terminal |
| Sampling, `runtime.rs` | random state | select | called by the loop |
| Tokenizers and templates, `glm52/tokenizer.rs`, `qwen35/tokenizer.rs`, `gemma4.rs` | vocabulary, merges, special tokens | build, encode, decode, render | called by a turn |
| Containers, `gguf.rs`, `safetensors.rs` | index, open files | parse, check, read a part | shared by reader threads |
| Bindings, `gemma4.rs`, `glm52.rs`, `qwen35.rs`, `glm52/quant.rs` | configuration, table of tensors | check, bind | called while loading |
| Kernels, `cpu.rs`, `metal.rs`, `metal/kernels.metal` | none | arithmetic | called by the sessions |
| Command line, `cli.rs`, `lib.rs` | none | wiring | |

### What is hard

* **Interleaving.** A client can cancel, stop reading or leave at any step of the worker; the
  service can be dropped while a worker loads, is blocked on a full channel or has jobs queued
  behind the current one.
* **Failure half way.** Loading fails; engine code panics; a forward pass fails after some layers
  appended their entry; one of two parallel reads into an expert slot fails.
* **State that outlives its reason.** Sessions survive turns that failed, that diverged from the
  cached tokens, or that were shorter; an expert slot survives a failed read.
* **Several stores.** `rm` changes a file and a registry in separate steps, without a lock, and may be
  killed between any two.
* **Order.** Jobs of a worker are served in order; eviction is by last use; pieces of a stream
  must add up to the answer although characters are split over tokens.
* **Limits.** Four limits are enforced in four places by three kinds of threads.
* **Files nobody wrote a test for.** Offsets and counts come from the file; what loading checks in one
  place the forward pass divides and slices by in another.
* **Text.** Special tokens, merges that cut characters and runs of blanks meet in one string, and a
  heap of merge candidates is never cleaned.

`PROJECT.json` lists these as hazards with their lines and the properties that cover them.

## 2. The modules

| Module | Models | How state and actions correspond |
|---|---|---|
| `SessionLru` | the residency map of a worker as operators | a pool is `last_used` of every session, 0 when not resident; `Touch` is the whole entry branch of `run_model_worker` |
| `SessionPool` | the sessions of one worker under all request sequences | `ReuseSession`, `Create`, `CreateFails`; `uses` is a history of who was served |
| `RuntimeService` | `generate_with_session`, `spawn_model_worker`, `run_model_worker`, tickets, `RuntimeServiceInner::drop` | `thread[m]` is the place of a worker's code between two points another thread can observe; `log[j]` is everything ever sent into a ticket's channel, `read[j]` what was received, so the channel holds the difference |
| `GenerationTicket` | abstract specification: what a client may rely on | pieces in order, then one end; closed without end only after a panic |
| `ExpertStore` | abstract specification of an expert cache | a call is served with the expert it asked for, or fails |
| `SlotLru` | choice of a victim slot, common to both caches | |
| `ExpertCache` | one layer of `ExpertCache` of `expert.rs` | `tag` is `slot.expert`, `gate` and `down` what the two buffers really hold, `Torn` when a read stopped half way |
| `GlmExpertCache` | `Glm52ExpertCache` | `tag`, `value`, `resident` bytes over several layers |
| `SessionTurn` | the variables of a turn that all families have, the checks of a request | `current` is the logits the next token is selected on, `made` what was generated |
| `KvTurn` | reuse of the longest common prefix, kept logits, the refusal for missing logits | shared by Gemma and GLM-5.2 |
| `GemmaSession` | turn control of both Gemma engines over the KV ring of `metal.rs` | an entry is the context it was computed from; attention that reads an entry of another context computes `Corrupt` |
| `GlmSession` | turn control, latent cache and sparse selection of GLM-5.2 | a selection is the context it was chosen from; `ForwardFails` stops between any two pushes |
| `QwenSession` | turn control over recurrent and full layers | a layer's state is the tokens it absorbed |
| `ModelSession` | the boundary of `architecture.rs`: a turn goes to the family of the loaded model | the three sessions as instances over one set of turn variables; declares which layers of a Qwen model are recurrent |
| `Utf8Stream` | how an answer becomes pieces; `from_utf8` and `from_utf8_lossy` (external) over classes of bytes | `Buffered`: `Drain` is `drain_valid_utf8` of GLM-5.2 and Qwen 3.5; otherwise every token is decoded alone, as Gemma does |
| `Clients` | `run_model` of `chat.rs`; `chat`, `streaming_response`, `non_streaming_response` and the shutdown of `server.rs` | a request is `reading` until the handler has all of it; behind a ticket stands `GenerationTicket`, instantiated over `held`, `pieces`, `end`, `closed`, `broken`; `dialogue` is the chat's history, `lines` and `text` a body so far |
| `ChatTemplate` | `render_chat` of the three families | a prompt is a sequence of code points and markers |
| `Characters` | UTF-8 and trimming (external) | a text is a sequence of code points |
| `ByteBpe` | the tokenizers of GLM-5.2 and Qwen 3.5 | `GlmFromRaw`, `QwenFromGguf` are the constructors, `PieceEnd` one round of `pretoken_ranges`, `MergeOnce` one merge |
| `ScoredSpm` | the tokenizer of Gemma | `PopOnce` is one iteration over the heap of `encode_spm` |
| `Tokenization` | a tokenizer built from a file and given texts of growing length | |
| `Sampler` | `Sampler::select` | `Weight` stands for the exponential: a natural number per logit; the random number is any needle |
| `Gguf` | `read_from_with_arrays` | one action per header, metadata entry, tensor entry and validation; numbers wrap at `Word` where the code checks for it; lengths of keys and names and their UTF-8 are left out |
| `SafeTensors` | `SafeTensorIndex::open` | one action per shard |
| `TensorReads` | `read_tensor_at`, `read_exact_at` by several threads | a byte is the position it was read from; short reads, signals, a file that shrinks |
| `GgufBinding`, `GlmBinding` | what the configuration and the tensor table must satisfy (`...Configured`, `...Bound`), and what each layer of the forward pass demands of them (`...LayerFails`) | a tensor is its shape and type; the widths of Qwen wrap at `SizeWord`, where nothing checks them |
| `ModelLoading` | open a model and compute a token layer by layer; write an integer matrix and find its layout again | `Stuck` compares each step of the pass with the tensors bound |
| `Catalog` | `discover` and `remove` of `model.rs`, as `rm` calls them | `registry`, `disk` and `quarantine` are what is stored; `managed` is the copy an invocation works on; one action per step that another process can see or that may fail; `KeepFails` is not of unix |
| `MC*` | the instances TLC checks | |
| `SessionLruProofs`, `RuntimeProofs`, `TicketProofs`, `ExpertCacheProofs`, `ModelSessionProofs` (with the pool), `ClientsProofs`, `ModelStoreProofs`, `TextProofs` | theorems and proofs (section 4) | |

`RuntimeService` extends `SessionLru`: the worker's residency map is the same operators in the
scheduler and in the pool. Both expert caches instantiate `ExpertStore` as what they implement;
`RuntimeService` implements `GenerationTicket`, and `Clients` is built on it, so what is shown of the
chat and of the server holds over the scheduler. Loading, tokens and reads meet only through data the
models abstract: `MCModelStore`, `MCTextPath` and `MCConversations` put such parts side by side in one
run (a behaviour belongs to one part, named by `part`), and are no claim about their interaction.

**Abstractions.** Numbers do not matter to any property, but what they were computed *from* does:
key/value entries, logits, recurrent states and selections are represented by the tokens they
depend on. This makes "as a session built from nothing would compute" a state predicate
(`SelectsOnHistory`). Once a wrong entry was read the models mark everything computed by that pass
as wrong in all layers, which is coarser than the code and only matters after a property failed.
Sampling, stop tokens and the token budget appear as a free choice of the next token and of the end.
Validation that changes no state, wording, profiling and metrics are left out. Jobs have one
`maximum_new_tokens`, a constant of `RuntimeService`.

## 3. What is checked

Every property of every passing run has a mutant in `PROJECT.json`: a plausible bug in a mapped
definition with which TLC finds the property violated.

| Run | Instance | Shows |
|---|---|---|
| `runtime_safety` | 2 models, 2 jobs, 2 sessions; one loaded model, one resident session, buffer 1, queue 2, 2 tokens; panics, dropped tickets, shutdown at any point | streams well formed, no silent close, shutdown drains, few late tokens, serial order, limits respected |
| `runtime_liveness` | 1 model, 2 jobs, every limit 1 | every ticket ends, shutdown returns, the ticket refinement; the full queue refuses |
| `expert_caches` | 3 experts of different sizes, 2 slots, 5 calls; GLM in 2 layers; failing and cancelled calls in both caches | GLM: labels, byte account, `ExpertStore`. Gemma: no leaked pin, LRU |
| `conversations` | sessions: 2 tokens, context 4; Gemma with 2 layers that never wrap; GLM full/shared/full with top-k 2; Qwen recurrent/recurrent/full. Pool: 4 sessions, limit 2, 6 requests. Clients: a chat of 3 turns, or a server with 2 requests, answers of 2 pieces | every token selected on its history, layers and tokens agree between turns, no Qwen turn and no shared GLM layer is left without what it needs; LRU; whole turns in the history, framed answers, no job without somebody who waits, the server drains |
| `text` | every text of 4 characters over alphabets with 2-byte letters, digits, quotes, blanks and newlines, through 15 tokenizer files of three families, valid and not; 3 logits of 4 values (one not finite) with top-k in {0, 1, 2, 5} and top-p in {1/2, 4/5, 1}; conversations of 3 messages; 9 byte strings as tokens | scanner and pattern agree; decoding inverts encoding; the heap merges greedily; draws come from the nucleus; prompts extend prompts; pieces add up to the text |
| `model_store` | catalog: 2 invocations, 3 names (one of Ollama), every registry of at most 2 entries over 4 paths to 2 files. Containers: files with up to 2 entries and every defect, words of 4096 and 256. Reads: 2 threads, a file of 5 bytes. Models of the three families: valid ones, and each with one tensor missing or spoiled and each configuration key varied. Matrices of 1 to 3 rows and 1 to 100 columns, or of columns around 256 and 768 | others are spared, files destroyed only when forgotten, errors put back; tensors of an accepted file lie apart and inside; an index names exactly what is there; positional reads are exact; an opened model computes a token; an integer matrix is read as it was written |

Runs that are expected to be violated (the findings of `PROJECT.json`):

| Run | Disagreement |
|---|---|
| `expert_cache_stale` | A failed read into a victim slot leaves the old label on new bytes (`expert.rs:211-219`), so a later hit computes with the wrong expert, against NOTES.md:365. In `expert_caches` the GLM cache, which commits a slot as a whole, keeps the promise. |
| `gemma_ring_rollback` | Truncating a wrapped ring does not restore overwritten entries (`metal.rs:271-277`); a reused session then differs from a rebuilt one, against README.md:122-124. |
| `gemma_missing_logits` | A prompt that is a proper prefix of the session is refused (`gemma4/cpu.rs:143-148`, and the same code in GLM-5.2), which a fresh session would serve. `conversations` shows that Qwen, which clears, has no such case. |
| `gemma_stream` | A character spelled with byte-fallback tokens is streamed as replacement characters (`gemma4/cpu.rs:196`), against CONTRIBUTING_MODELS.md:46-48. |
| `catalog_alias` | Entries that reach one file by different paths do not count as sharing it (`model.rs:300`), so removing one deletes the other's file, against README.md:92-95. |
| `unsupported_kind` | Gemma's tensors are checked for their shape only (`gemma4.rs:430-451`): a file with a type the kernels do not decode is opened, and its first turn fails, against README.md:197-198. `model_store` shows that Qwen and GLM check types when loading. |

### Bounds

* *Scheduler.* Two jobs on one worker give a running and a queued job, and jobs of two models give two
  workers competing for the one model slot; buffer 1 with two tokens gives a blocked send. A third job
  repeats the position of the second. A queue of 2 is never full with two jobs, a queue of 1
  (`runtime_liveness`) is. `MaxTokens` 2 is the smallest budget in which a piece can be withheld and
  joined to the next one.
* *Pools and caches.* Eviction compares two residents and one newcomer; the fourth session of
  the pool tells a wrong victim from a wrong count. `MaxRequests` and `MaxCalls` bound the histories; filling the
  cache takes two calls, and a violation of LRU order one hit, one eviction and one more call.
* *Sessions.* Two tokens tell equal from diverging prompts. `MaxContext` 4 with top-k 2 leaves turns on
  both sides of the point where GLM starts to select, room for a turn after a longer, shorter and
  diverging one, and in `gemma_ring_rollback` a ring that wraps. All prompts and budgets within the
  context are enumerated.
* *Text.* Four tokens of up to two bytes hold every way to split, interrupt and finish a character
  of three bytes. Four characters are a contraction with a letter behind it, a blank run before a word, a number cut after
  three digits, or a special token with text on both sides; merges of three symbols compete for the
  middle one. Three messages are a question, its answer and the next question, after a system message or none.
* *Clients.* Three turns are one cancelled, one answered and one that follows; two requests are one that
  leaves or dies while the other streams.
* *Catalog.* Two invocations give every overlap of the steps and every retry after a failure or a kill;
  two entries give doubled names, shared files, aliases and bystanders. The theorems of `ModelStoreProofs` need
  neither bound.
* *Containers.* Two tensors can overlap, touch, or lie in the wrong order; small words make sums and products
  wrap where 64 bits would. Two shards can hold each other's tensors. The smallest file that two reads can
  confuse has two tensors.
* *Models.* `GemmaLayers` and `Limits` replace the sizes of the released models; two or three layers hold one of
  each kind. Every check of the bindings is violated by some candidate, alone.
  `SizeWord` 128 is above every width of the valid candidates, so only the files made for it wrap.

`CHECK_DEADLOCK FALSE` is set where the system may really stop: all jobs used up, calls used up, or the
service gone, all invocations of `rm` over, a file accepted or refused. Sessions have no dead ends, but their run shares the
setting.

### Fairness

`FairSpec` assumes that worker threads and the joining thread keep running, and that a client that keeps
its ticket keeps receiving. `chat.rs:85-118` and `server.rs:250-330` do exactly that: they loop on `recv` until
a terminal event or drop the ticket. Nobody has to submit, cancel, drop a ticket or drop the service;
nothing is assumed about which of several runnable threads goes first (weak fairness only). A
worker that loads or computes is assumed to return, by success, error or panic.

`ConversationsFairness` is about the server: a request that is being read arrives or its client leaves (`Receive`), and an
open response goes on (`Respond`), which rests on `TicketEnds` of the scheduler
for the ticket and on the client for the connection. A client that keeps its connection and stops sending
or reading is outside this assumption: it blocks the graceful shutdown, and a reader that stops the worker too, on the
full channel; no timeout of `server.rs` ends it. The chat has no fairness: its user may stop at any prompt.

## 4. What is proved

For every value of the constants that satisfies the named assumptions of each module. Every invariant named here was
checked by TLC on the instance of its run before it was proved.

**Scheduler.**

* `SessionLruProofs`: lemmas about the residency map: finiteness, what eviction removes, that it makes room,
  that serving keeps the limit.
* The second half of `ModelSessionProofs`: `PoolIsBounded`, `PoolIsLru`, `PoolEvictsOnlyOldest`. "Whatever is resident was used
  after whatever is not" is not inductive, since the victim is chosen by `last_used` and not by the
  history. The invariant `PoolInv` ties the two: stamps are distinct and smaller stamps mean
  earlier uses.
* `RuntimeProofs`: `TypeCorrect`, `StreamsWellFormed`, `ClosesAnswered`, `ShutdownDrains`. The invariant `Inv` says which
  place of a worker thread holds a job (`ThreadsHold`), that a job is in at most one place and belongs
  to the worker that has it (`JobsPlaced`), that the stream of the current job holds exactly the
  pieces the loop counted (`StreamsOpen`), and that a job nobody owns was answered, left by its client,
  or lost to a panic (`Released`). Preservation is proved by kind of step: steps that move no job, take a
  job, send a piece, send an end, let go of a job.
* `TicketProofs`, over that `Inv`:
  * `LimitsHold`: models, queues, token buffers and resident sessions keep their limits together. A submission, an
    admission and a send each check one limit at the moment they use it; nothing else fills the place in between.
  * `FewTokensAfterCancel`: `LateInv` bounds the number of late pieces by the place of the worker: none while it
    decodes or sends, at most one before a forward pass (which it will not start) or the flush, so at most two after the flush.
  * `ServedInOrder`: `OrderInv` says that the queue of a worker is the end of what it accepted, that the job it
    holds is the one before, and that no job was accepted twice; so nobody owns a job before those.
  * `TicketsImplemented`: the refinement to `GenerationTicket`. `ReceivedInv` says that a client has received a beginning of
    the stream, and that nothing is sent once it saw the end; under the mapping of `View` each step of the scheduler is a step of the abstract ticket of one job or a
    stutter. It is a statement about safety: the abstract specification has no fairness.

**Sessions and expert caches.**

* `ModelSessionProofs`: `SelectionOnHistory`, `CoherentBetweenTurns`, `HeldTurnsAreServed`, `SessionTypes` for sessions of all
  three families. Common to them is where a turn stands (`Reading`, `Answering`): the tokens are a proper prefix of the
  prompt while it is read, then the prompt with what was generated; and that the prefix a failing turn goes back to is still
  there with its logits (`Returnable`). Each family adds how its state follows the tokens: `RingsFollow` (entry `i` of a KV ring is
  the first `i` tokens), `CachesFollow` (latents, index keys and selections of GLM-5.2, with the history of selections that a
  rollback restores), `LayersFollow` (every Qwen layer has absorbed exactly the tokens).
  All but `HeldTurnsAreServed` have the hypothesis `Unwrapped`: a Gemma session has rings as long as its context. The CPU engine
  always has; the Metal engine while its window covers the context. For a wrapped ring they are false, which is the
  finding `gemma_ring_rollback`. GLM-5.2 and Qwen sessions need no hypothesis.
* `ExpertCacheProofs`: `LabelsStayHonest` and `ImplementsStore` for GLM-5.2, the refinement to `ExpertStore`; the invariant
  adds what a call relies on between its steps: the slot it acquired holds the expert it wants. `PinsAreReleased` and
  `StreamedIsLru` for the streamed cache of Gemma: `StreamedInv` says that stamps are distinct and ordered as the calls that set
  them (`StampsFollowCalls`), also after reads that failed. That the streamed cache serves the expert asked for is not among
  them: it does not (`expert_cache_stale`). `AccountIsExact`: the byte account of GLM-5.2, which is added to and subtracted
  from, is the sum over the slots of all layers. A sum over a set is a fold in an order nobody fixes; `SumChanges` says by
  induction over the number of slots what it does when one slot changes, which is what a load adds and subtracts.

**Clients.** `ClientsProofs`: `JobsAttended` (`Attended`: an open ticket has a waiting reader, or was cancelled, or is closed),
`AnswersAreFramed` (`AllFramed`: what a body holds so far is what the ticket delivered, by the stage of the request),
`TurnsAreWhole` (`Talk`: by where the chat stands, the history is whole turns, or whole turns and one question).

**Models on disk.** `ModelStoreProofs`:

* `OthersAreSpared` and `AtMostOneRemover`, for any number of overlapping invocations and any
  registry. `SparesOthers` speaks of single steps; its invariant `Sparing` says that the registry and every copy
  of it that an invocation may still write hold all entries nobody asked to remove, and that an
  invocation past its checks found no other entry with its path. For `OneRemover`, `Inv` adds where the files
  are: an invocation between rename and deletion has its file in quarantine, and a removed file is nowhere.
* `RemovedStaysGone`, `ErrorsRestore` and `NothingDestroyedEarly` (but for `KeepFails`), whose properties are in parts about invocations that do not
  overlap. `OneByOne` adds that then an invocation's copy is the registry until it records (`Sequential`), that a recorded
  removal is out of the registry (`Forgotten`), and an account of everything that is missing (`Accounted`): quarantine is what
  running invocations hold, and files and entries that are gone are those of holders and completed removals.
* `ReadsAreExact`: what a reader has is the beginning of its request (`ReadsInv`), and no step of another reader, no signal and
  no shrinking file touches that as long as reads carry their position.
* `TensorsLieApart`: only neighbours in the order of offsets are compared; `NeighboursSuffice` shows that a sorted order makes
  this enough, `AlignsUp` that the data begins behind the index at a multiple of the alignment.
* `IndexIsComplete`, for any number of shards, tensors and index entries: an accepted checkpoint names every tensor once, in order, in the
  shard the weight map gives it to, and their bytes lie in the shards and apart. `Consistent` says this of what has been read so
  far; at the end, the weight map has no name that was not found (`Finish` compares sets of names).
* `OpenedRun`: an opened model computes a token, whatever its sizes: for each family a lemma derives every `Need` of
  a layer from what the binding checked, over the arithmetic of heads, groups and slices (`AcceptedRuns`). The exceptions are the cases
  of `Unpromised` (section 5 and the finding `unsupported_kind`); `model_store` opens models that need them.
* `LayoutsRecovered`, for every number of rows and columns: the numbers of bytes and of scales fit one number of rows
  and either bytes or half bytes (`OneFit`); group sizes that all divide the columns give different numbers of scales (`EqualGroups`).

**Text.** `TextProofs`:

* `StreamedText`, for every sequence of tokens and bytes: after whole characters the decoder starts anew (`DecodeConcat`,
  `LossyAfter`), so pieces decoded one by one add up; the invariant `Streaming` says that what was sent are whole characters and
  that what is pending begins with none. Its hypothesis is `Buffered`: GLM-5.2
  and Qwen 3.5 stream that way. For Gemma, which decodes each token alone, the statement is false (finding `gemma_stream`).
* `WithheldIsUnfinished`: while the bytes are valid, `drain_valid_utf8` holds back the bytes of the unfinished character and no
  others.
* `TurnsExtend`: every template of the three families renders the next turn as a continuation of this one, for conversations of any
  length. Trimming removes blanks at the ends only, which the proof needs of the answer that is rendered again.
* `SamplerDraws`, for every vocabulary, logits, weights and configuration: what `top_k` and `top_p` leave of the sorted candidates are
  the first ones (`TopKIsFirst`, `RetainedIsNucleus`), which are those the nucleus is defined by without a sort, and the needle falls on
  a candidate exactly when it lies between two cumulative weights (`NeedleFalls`), so each has the share its weight is.
* `ScannerIsPattern`, for every text: where the scanner `pretoken_ranges` cuts is the longest match of the first alternative of the
  pattern that matches. Each alternative is stated by positions (`Contracted`, `Wordy`, `Numeric`, `Marked2`, `Spaced`), and each
  branch of the scanner comes with the lemma that the alternatives before it match nothing where it is reached. Nothing is
  assumed of letters and numbers, which overlap in Unicode (`Ⅷ` is both): only that a space and newlines are whitespace.

**Assumptions.** Those in the modules' `ASSUME`s: markers are not members of the sets they mark, limits are positive, sets that
are counted are finite (among them the layers of the GLM cache), numbers read from a file or a header are natural, weight maps
name shards, characters are numbers. Some state what the code's types or other code gives:

* `GgufAssumption`: the product of a shape's dimensions is natural, true of unsigned numbers, but a fact about a fold.
* `GlmBindingAssumption`: the keys the configuration is checked for have bounds, the lower one positive, as in every call of `bounded`.
* `ModelLoadingAssumption`: the rotary pairs that turn are among those in `rope_freqs` of Gemma; keys of a Qwen configuration
  are natural, since they are read as unsigned; an integer matrix is written with a known group size.
* `SamplerAssumption`: weights are natural numbers, where the code has non-negative floating point; rounding of their sums is not modelled.

TLC evaluates the assumptions in each run.

**Induction and sorting.** The library's induction theorems take an operator as a parameter, which the provers cannot instantiate.
What is proved of recursive functions and folds (sums over slots, UTF-8 decoding, rendering) uses `SetInduction` instead: a *set*
of numbers that holds 0 and with each number the next one holds all. Sorts of the code are modelled as any order that is sorted
(`Orders` of `Gguf`, `Sorted` of `SafeTensors`, `Candidates` of `Sampler`): the sort routine is a library's, and ties may come in
any order.

**Only model-checked.**

* Liveness (`TicketEnds`, `ShutdownJoins`, `ServerDrains`): fairness and ENABLED are out of the prover's reach.
* `RoundTrip` depends on what the files hold: a vocabulary without a character of the text gives an unknown token, and
  the constructors do not check that there is none.
* `MergesAreGreedy` relates two iterations, one over a linked list with a heap of candidates, one over a sequence.

## 5. Not modelled

* The values of the kernels: floating point, block formats, and the Metal pipelines (`metal.rs`, `*/metal.rs`,
  `kernels.metal`) with their buffers and command queues. What they demand of shapes and types is in `GgufBinding`
  and `GlmBinding`, the KV ring in `GemmaSession`.
* Parsing of arguments, environment and JSON syntax; text encodings inside containers; mapping, page alignment and
  the two cache policies of reads.
* `run_gemma4_with_backend` of `chat.rs`, a loop over one session without the scheduler.
* The dense variant of a GLM-5.2 session without its indexer: the selection is always `None`. Its bindings are modelled.
* Inspection of models by the catalog (metadata, sizes, compatibility) and Ollama's manifests: they decide
  what `list` prints and what may be loaded, and change nothing. Power failure: the catalog's renames and
  deletions are taken to become durable in the order they are made.
* Recovery after a panic or a failed load: the code has none. A failed or panicked worker keeps its slot in
  the workers map for ever; `RuntimeService` shows it (`LoadFails`, `Panic` leave `Workers` as it is).

Behaviour the models have and no document speaks of, so that no run is about it: without `read_at` (`gguf.rs:947`) two
readers share one cursor and can get each other's bytes (`TensorReads`, `positional` false); an interrupted read of a
shard fails instead of being tried again (`safetensors.rs:797`); a Qwen model with `rope_dimensions` 0 and a GLM model whose first
layer is listed as `shared` are opened and fail in the first token, and so is a Qwen model whose widths overflow a word
(`qwen35.rs:188`, `240`; all in `Unpromised` of `ModelLoading`); where a quarantine name cannot be kept, which unix never meets,
the error deletes the model while the registry still has it (`KeepFails` of `Catalog`, `model.rs:781`); a GLM configuration
without `rope_parameters` is refused, since the derived default of the base is zero (`RopeTheta`); a group size that gives as
many scales as a smaller one is read as the first of the list (`LayoutRecovered`).

## 6. Plan

Done, in this order: `SessionLru` and its pool; the scheduler with its ticket and its proofs; the two expert
caches; the sessions of the three architectures; streamed text; the catalog; the two clients over the ticket;
containers and reads; bindings and the demands of the forward pass; tokenizers, templates and sampling.

1. Proofs: `MergesAreGreedy`; `RoundTrip` for vocabularies that hold every byte; the catalog with `list` beside `rm`.
2. `Catalog`: a process that holds a model loaded while `rm` removes it (README.md:92 and PLAN.md:77 against
   `lib.rs:134`); names that two sources share in `resolve_for_run`; `list` while `rm` runs.
3. The chat and the bounded queue together: interrupted turns that still occupy the worker until the next line
   is refused with `QueueFull`, which ends the chat (`chat.rs:76`).
4. The Metal engines' command buffers: when a buffer is reused while a submitted command still reads it.
