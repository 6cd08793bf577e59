# Verification of heliosdb-proxy-plugins

TLA+ modules, TLC configurations and TLAPS proofs for the plugins that
HeliosProxy runs as WebAssembly modules, and for the `helios-plugin` CLI that
packs them. Paths are relative to the repository, `src/` in `PROJECT.json`.
`PROJECT.json` maps every definition to the lines it models and lists the runs,
the deliberate bugs (mutants) that each property must catch, the findings, the
hazards and the theorems.

To run everything in this directory:

    tlc -config audit_serial.cfg MCAuditChain      # one run; see "Runs"
    tlapm AuditChainProofs.tla                     # one proof module

## 1. The system

### Components

| Component | State it keeps | Operations | Hard part |
|---|---|---|---|
| `abi` | bump pointer in the instance's memory | `alloc`, `dealloc`, `read_args`, `write_result`, `pack`; `kv_read`, `kv_write`, `kv_remove`, `sha256_digest_hex` (host imports) | i32 arithmetic, no bound on memory; a failed import looks like an absent key, or like nothing at all |
| `audit-chain` | keys `seq`, `tail_hash`, `record:<n>` | `post_query`; `verify_chain` for auditors | three dependent writes without a transaction; a read-modify-write over six host calls |
| `cost-governor` | keys `tenant:<t>:usage`, `tenant:<t>:budget` (seeded by an operator) | `pre_query`, `post_query` | a decision taken while other queries run; lost updates; failed reads counted as zero |
| `token-budget` | keys `agent:<a>:<m>:spend`, `...:budget` (seeded) | `pre_query`, `post_query` | as above; depends on attributes set by others; two pairs of ids may share a key |
| `ai-classifier` | keys `req:<id>:ai_traffic`, `agent_id`, `model_id` | `pre_query` | tags written where no other plugin reads, never deleted |
| `llm-guardrail` | none | `pre_query` | decides for itself what is AI traffic |
| `column-mask` | key `rules` (seeded) | `pre_query` | rules rewrite the text that later rules search |
| `residency-router` | keys `region_map`, `enforce` (seeded) | `route` | two reads that should be one |
| `pgvector-router` | none | `route` | text heuristics only |
| `cli`: artefacts | the output file; the wasm, signature and trust-root files of others | `pack`, `inspect`, `verify` | files that change between reads; partial writes; crashes |
| `cli`: timestamp | none | `epoch_to_ymdhms` | calendar arithmetic in loops |

### How they interact

The proxy (not in this repository) calls a plugin's exports: `pre_query` before
a query, `post_query` after it, `route` to choose a node. Each call runs in an
instance whose memory is dropped afterwards (`abi/src/lib.rs:371-374`), so the
only state that survives a call is the plugin's namespace of the host's
key-value store, reached by `kv_get`, `kv_set` and `kv_delete`: single keys, no
transactions, no compare-and-set. `kv_read` returns `None` for an absent key, for a
value over 8 KiB and for a host error alike; `kv_write` discards the status.
Plugins do not call each other, and their namespaces are separate. Whether the
proxy overlaps calls of one plugin is not said anywhere in the repository: it
is a parameter of the models (`MaxInstances`, `instances`).

Some plugins meet in one query all the same. `token-budget` must run after
`ai-classifier` (`token-budget/plugin.toml:11`), and the priorities of the manifests put
`llm-guardrail` (40) before `token-budget` (50): `AiPipeline` models that order. What `column-mask`
rewrites is the text the routers then search: `QueryPath` models that, taking it
that the proxy calls `route` on the rewritten text. Neither order is enforced
by code of this repository. The attributes `agent_id` and `model_id` which `token-budget`
reads come from the environment in the models, present or absent: the classifier cannot
set them (`ai-classifier/src/lib.rs:134-137`).

The CLI runs as separate processes that share only files: a build writes the
wasm, a signer writes the signature, `pack` reads both and writes the artefact,
`inspect` and `verify` read it.

### What makes each component correct

* audit-chain: the stored records form one chain from GENESIS, every returned
  call is in it, edits and losses show.
* cost-governor: nobody is charged for more than was used; no charge is lost; a
  budget is overrun only by what was in flight.
* artefacts: what unpacks is what one `pack` read; what verifies was signed by
  the named key; a refused call costs nothing.
* timestamp: the date is the date of the reading.
* abi: slots do not overlap, lie within memory and spare the module's own; the packed
  result is decoded to the same pointer and length.
* token-budget, ai-classifier, llm-guardrail: traffic tagged by the classifier is
  the traffic that is budgeted and guarded; tags belong to their request.
* column-mask: no column with an applicable rule leaves unmasked.
* residency-router: a decision rests on one configuration; nobody is blocked or
  sent to a node without a reason that was stored.
* pgvector-router: masking a query does not change where it goes.

## 2. Modules

| Module | Role |
|---|---|
| `AuditLog` | abstract: an append-only log, up to the first host failure |
| `AuditChain` | `audit-chain/src/lib.rs`, one step per host call |
| `AuditChainProofs` | theorems about `AuditChain` |
| `CostGovernor` | `cost-governor/src/lib.rs`, one step per host call |
| `CostGovernorProofs` | theorems about `CostGovernor` |
| `ArtefactStore` | abstract: a path with one whole artefact or none |
| `Artefact` | `cli/src/artefact.rs` and `manifest.rs`: pack, inspect, verify, and the programs that write their inputs |
| `ArtefactProofs` | theorems about `Artefact`, the refinement among them |
| `CivilTime` | `epoch_to_ymdhms`, one step per loop turn |
| `CivilTimeProofs` | theorems about `CivilTime` |
| `PluginAbi` | the macro and the marshalling helpers of `abi/src/lib.rs`, and the host's side of one call |
| `PluginAbiProofs` | theorems about `PluginAbi` |
| `TokenBudget` | `token-budget/src/lib.rs`, one step per host call; implements `CostGovernor` |
| `TokenBudgetProofs` | theorems about `TokenBudget`, the refinement among them |
| `AiPipeline` | `ai-classifier` and `llm-guardrail` in front of `TokenBudget` |
| `AiPipelineProofs` | theorems about `AiPipeline` |
| `ColumnMask` | `column-mask/src/lib.rs`, one step per rule |
| `Routing` | `residency-router/src/lib.rs`, one step per read, under an operator's updates; `classify` of `pgvector-router/src/lib.rs` |
| `QueryPath` | a query's way through `ColumnMask` and the routers |
| `QueryPathProofs` | theorems about `QueryPath`, `ColumnMask` and `Routing` |
| `MC*` | constants for TLC |

Definitions whose comment begins with "Bug:" are the mutants; nothing uses them.

### AuditChain

`pc[c]` is the next host call of call `c`; `lseq`, `lprev`, `lhash` are the
locals `seq`, `prev`, `hash` of `post_query`; `kvSeq`, `kvTail`, `records` are the
keys. `NextSeq`, `TailHash`, `HashRecord`, `WriteRecord`, `StoreTailHash`,
`StoreSeq` are the six host calls in the order of the code, `Reject` the early
return on a payload that does not parse. Each host call may fail, with the value
the code then substitutes: 0, GENESIS, `host-sha256-error`, or a write that
does not happen. `Trap` ends a call between two host calls. An envelope is the
name of its call: every field copied into a record is folded into `event`, as
they are only ever hashed and compared together. SHA-256 is free of collisions: the hash of a record is a
value that names the record. `seq` is not given its 64-bit bound: reaching it
takes 2^64 queries.

The inductive invariant `SerialInv` says how far the three keys may disagree in
the middle of a call: it follows the position of the one call in flight. Without it
`ChainIntact` is not inductive, as `StoreSeq` makes a record part of the
log that two earlier steps have written.

### CostGovernor

A connection carries one query at a time: `idle`, `pre_budget` (between the two
reads of `decide_pre_query`), `running`, `post_write` (between the read and the
write of `observe_post_query`). `seen` is the usage the hook read, `cost` what it
computed, `verdict` what `pre_query` answered. `charged` and `since` are history: the
cost of everything reported, and the time since the last charge. Costs are
integers in millionths of the unit, so that `ALPHA_PER_ROW` is 1 and
`BETA_PER_MS` 1000; the divisions by 64 and by 1000 drop remainders as the code's
do. The rounding of `f64` sums is not modelled. `Wait` lets time pass for a
tenant; no other action refers to time, because nothing in the code does.
A trap in `post_query` has the effect of its failed write; one in `pre_query`
changes nothing, and what the proxy then does with the query is not in this repository.
A budget is seeded before traffic and does not change (lines 21-24 of the source).

`SerialInv` has three parts: hooks do not overlap (`OneHook`); the usage a hook has
read is still what is stored, and that is the whole charge (`UsageCurrent`); and
charging every query let in at the highest cost stays within the bound
(`Covered`). `Covered` is what an admission decision must re-establish: `OvershootBounded`
follows from it but does not imply it.

### Artefact

The packer's steps are its reads and writes: `ReadWasm` (with the magic check),
`ReadSignature`, `Create` (which truncates), `WriteEntry` once per entry, `Finish`.
Every one has its failure, and `CrashReading` and `CrashWriting` kill the process
anywhere. A file is an archive: a sequence of entries and `readable`, whether
the end of the stream is there; gzip refuses a stream without it. When a write
fails, the `?` drops the tar builder and the gzip encoder, whose destructors try to
finish the archive; so the outcome of `WriteEntryFails` ranges over the entry being
absent, cut short or complete, and the archive being ended or not. A kill runs no
destructor. `Build` and `Sign` change the input files at any moment. `Unpack` is the
whole of `unpack`; `inspect` is `Unpack` evaluated in any state, `verify` takes a
snapshot with `Unpacked` and then visits the files of the trust root in any order.

External behaviour is taken from how the libraries are used: tar and gzip return
the entries written or an error; Ed25519 accepts exactly the signatures made with the key
over the bytes; SHA-256 is free of collisions. `ContentsAssumption` says the one thing more that is
needed of contents: a body that was cut short is not taken for a whole one, because the wasm's hash, the
manifest's parser or the signature's length gives it away. One `pack` at a time writes to a
path, and a reader's `fs::read` is one step.

An archive of another tool may hold entries twice, and the last one counts. `VerdictJustified` therefore says of whatever
`unpack` returns that the manifest's hash is that of the wasm returned with it: one of the foreign archives has a wasm that fits
its manifest and behind it one that does not, which a comparison made on the first would let through.

`ArtefactStore` is what `pack` promises of its path. `stored` is what a reader finds, which
`ImplementsArtefactStore` maps to `Unpack(out)`; `last` is what the last call that opened the output had
read, `status` how that call ended. `Open` empties the path, `Commit` puts the call's artefact there at once, `Abort`
leaves nothing, or that artefact with its signature, without it or with a part of it. No other step is
allowed to change what a reader finds. That a successful `pack` can be read back, and stays so (`PackedIsReadable`),
follows from this; it is stated for the reader and proved, and no run repeats it.

### CivilTime

The variables are those of the two loops; the divisions before the loops are
definitions over the argument. The reference `EpochSeconds` is written without loops,
from the count of leap years, so that the theorem compares two different
computations.

### PluginAbi

One call: the host asks for a slot (`AllocArgs`), writes the payload there (`WriteArgs`), the
hook answers with nothing (`ReturnEmpty`) or with a slot of its own (`Return`, `ReturnTraps`), the host
decodes (`DecodeNone`, `Decode`), frees and drops the store. `bump` is `__HELIOS_BUMP`; `memory` says
of each byte who wrote it last: a read of bytes that somebody else has
written is what the properties are about. `alloc` does no more than move the pointer in
wrapping i32 arithmetic, so the model has to say what the pointer can run
into: the end of linear memory, which the module's own allocator (`Grow`) moves up but `alloc`
does not, and the module's own data, stack and heap, which the
linker puts where it likes. `ProgramStart` is the first byte above `BumpStart` that belongs to the
module. A write over the module's memory ends in `corrupt`, after which nothing is claimed; one beyond the
end is refused by the host or traps (`failed`).

`RoomSuffices` is the one claim that can be made for a bump allocator without a check: what fits into
the gap is safe. With `ProgramStart = BumpStart` the gap is empty and the claim too: the doc's "we begin
allocating at 65 536 to avoid colliding with the data segment" (lines 352-354) holds only of modules
whose data end below 64 KiB, which nothing here ensures. The doc's "grows the WASM linear memory as needed"
(line 345) is said of an allocator that has no `memory.grow`.

### TokenBudget

The hooks are those of `cost-governor`, with two windows and a pair of ids in place of the
tenant. An id is the list of its parts between colons, and `Key` appends the parts of
the two: pairs share a key exactly when their ids joined by a colon are the same text. `due` is
history, per pair: what a pair's own queries cost.

`ImplementsCostGovernor` maps the keys to tenants, the day to both day and hour (a budget's hour has no
limit), and a query that has arrived but not been seen to an idle connection. The
"rolling window" of line 15 is never rolled, as in `cost-governor`; the finding is stated there.

### AiPipeline

`stage[q]` is the plugin that has the request on connection `q`. `ClassifierPreQuery` is
`pre_query` of the classifier up to its first write, `WriteTag` one write, in the order of the
code, after which it answers. `GuardrailBlocks` and `GuardrailContinues` are the guardrail's
`pre_query`, which calls no host function. From there the request is a query of `TokenBudget`.
A text is the set of known words in it. A statement has two sides: what
it does (`verb`, `reads`, `clauses`) and what the guardrail sees (`opens`, `from`, `has`), which differ as soon
as a comment precedes the verb, two tables are joined, or a word stands in a string. `Plain` statements are those
where they agree. `Forbidden` is what the guardrail's documentation has it reject (lines 6-9 of its source), rule by rule
and without a look at the code: in particular `Unfiltered`, the tenant rule, names no verb. `reads` are the tables whose
rows a statement selects, changes or removes.

`TaggedIsGuarded`, the documentation's promise, does not hold. `GuardrailGapsKnown` says how far it is from holding: a
forbidden statement reaches the budget under a stored tag only if the tag is that of another request with the same id
(`BorrowedTag`), or the classifier went by a marker in the text (`MarkedOnly`), or the text does not show what the
statement does (`~Plain`), or it is a write on a scoped table that has its WHERE and no `tenant_id` (`TenantOfWrite`).
The requests of the run bring each of the four about, alone: without any one of these disjuncts TLC refutes the property. They
are a DROP that does not declare itself, under the empty id that others share; a DROP with the marker behind it; a SELECT whose
second table is the large one; and a DELETE by id.

`tag` is the classifier's namespace; `came` is history, the requests classified under an id. An id that is
empty or comes again mixes tags of several requests, so `TagsOfOwnRequests` says
which request a tag must come from, and what must be there when there was only one.

### ColumnMask, Routing, QueryPath

A text is a sequence of tokens. `Lower`, `Within` and `Ends` say of the words what the searches of
the code tell apart: equal but for case, part of a word, end of a word. So a table is found
in a longer word, a function's call behind a longer name, and a column only as a word of its own.
A token `Wide` stands for a character of several bytes, at which `find_word` panics. `PassText` is the
text the tables are looked for in, that of the query as it came into this pass; columns and
calls are looked for in `out`, the text so far. `ComesAgain` gives the rewritten query to the plugin once more.
A read of the rules may fail, and then the query goes ahead unmasked, like one
without rules: that is what the code does, and no property claims otherwise.

`MaskedAtOnce` compares the loop with `Masked`, which replaces all columns in the original text at the same time.
`Masked` is written without a loop, token by token: `Marks` are the places of the query where a column is masked, every
mask puts six tokens in the place of one, and `Place` says where a token of the query is afterwards.
They agree if the rules are `Distinct` and the query calls none of the functions itself. `Distinct` names what rules
can do to each other: two of them share a column or a function, a function ends with another's name, a
column is called like a function, `AS` or a parenthesis, or a column ends with a function's name, so that a parenthesis
behind it looks like a call. They are what the proof uses: that no rule's search
finds what another rule has inserted.

In `Routing` the operator's `Store` may fall before, between or after the two reads.
`moments` is history: every pair of map and flag that was stored from the first read to the second. With `flagFirst`
the operator writes the flag before the map. `AnswerOfAMoment` holds for that order and fails for the other: a
call that reads the old map before both writes, and the new flag after both, blocks a
region that neither the old nor the new configuration blocks.
That and the 8 KiB limit, by which a map too large to read is an empty one, are worth telling operators. The limit is
what the doc of `kv_read` says (`abi/src/lib.rs:235-236`), so both properties take a map over it as an empty one and do not
say that it should not be so.

The pgvector-router looks for an operator and for `order by` anywhere in the text, within words too: `HoldsOperator`,
`EndsInOrder` and `StartsWithBy` are the words that matter, so that a table `preorder` with the alias `bylaw` is taken for an
ORDER BY, as in the code. Words of a text stand a single space apart.

The answers of the two routers to one query are kept side by side: which one counts is up to the proxy.

## 3. Runs

| Run | Instance | Shows |
|---|---|---|
| `audit_serial` | 4 calls, 1 instance, 1 failure | the chain is intact after every host call as long as nothing failed; every returned call is recorded; the plugin implements `AuditLog`; one failure cannot lose a record unseen; edits show |
| `audit_overlap` | 3 calls, 2 instances, no failure | expected violation: overlapping calls break the chain |
| `governor` | 2 connections, 1 tenant, 5 queries, 1 or 2 instances, 1 failure | no overcharge in any interleaving; with one instance no charge lost, and the overrun bounded, also after a failure |
| `governor_window` | 2 connections, 1 instance, no failure | expected violation: "retry in 60s" is not kept |
| `civil` | 4416 readings | conversion and reference agree; loops end |
| `artefact` | 2 packs, 2 changes of the inputs, 2 wasms, 2 keys, 2 trust-root files, 5 kinds of foreign archives for each key and pair of wasms | the path implements `ArtefactStore`; what unpacks is the last pack's; verdicts are justified |
| `abi` | a 7-bit word, 56 bytes of memory, every payload and result length | what gets through is intact; what fits into the gap gets through; wraparound is harmless |
| `ai` | 2 connections, 3 requests of 6 kinds, 1 or 2 instances, 1 failure of a tag write and 1 of the budget's calls | tags, guard and its four gaps, and budget of interleaved requests |
| `guard_tagged` | as `ai`, without the DELETE | expected violation: the guardrail does not look at tags |
| `path` | 7 queries, 7 lists of rules, 3 maps, 2 updates, failures of any read | rules in turn are rules at once; routing under updates; masking does not change the route |
| `mask_shared` | as `path`, with 2 columns that share a function | expected violation: the second column is not masked |
| `artefact_failed` | 1 pack, 1 change | expected violation: a failed pack leaves a manifest with the hash of an absent signature |

Bounds. Four calls allow a complete record before, two around and one after the
call that fails: the chain can break at its start, middle and end. Two
connections are enough for one query to be decided while another runs, and five
queries exhaust a budget, overrun it, lose the usage to a failed read and exhaust it
again; the two seeded budgets have the limits hit exactly and hit by a jump, in
each of the windows. Two changes of the input files are enough to sign one wasm and
rebuild another between the two reads of `pack`; two packs are enough for an old
artefact, an overwrite and a failure in it. Two files cover every order of a match, an
unreadable file and a file to skip. TLC's integers end in 2038; the inputs hold the
first and the last second of each day in and around 1970, 1972, 1999, 2000, 2024 and 2036.
Wasms, keys and trust-root files are symmetric in `artefact`: no constant or property names one, and the foreign archives
are those of all of them.

In `abi` seven bits are enough for a payload to fit into the gap, to reach the module's memory, to miss linear
memory, and to wrap when it is rounded up; the memory may grow three times, so that a result fits that
did not at first. In `ai` two connections let one request be tagged while another with its id is, and one be
decided while another runs; three requests use up a budget and are then refused; the pairs of ids hold two that
share a key and one whose ids have no colon. `path` has every rule before and after every other one it
could interfere with, twice the same rule, a list that is too large, and functions of which one ends with the other; two updates
are what it takes for the two reads to see a mixture of three configurations. `OperatorUpdates` is cut to the time in which
it matters: what was stored before the first read is what `RouteInit` ranges over. The
connections are symmetric in `ai`: no constant or property names one.

Deadlock is not checked in the runs of `AuditChain`, `CostGovernor`, `CivilTime`, `AiPipeline` and
`QueryPath`: calls, queries and conversions end. In `Artefact` `verify` can always be called
again, and in `PluginAbi` the host always starts the next call, so it is checked there.

Fairness appears in one place, the weak fairness of `CivilTime`: the steps are
those of straight-line sequential code, which nothing blocks. The plugins owe the
host no progress between its calls, and the CLI may be killed at any
step: their specifications state safety only.

## 4. Proofs

All theorems hold for every value of the constants that the named assumptions
allow: any number of calls, connections, tenants, budgets, failures, packs, any reading,
text, list of rules or archive.

* `AuditChainProofs`. `TypeCorrect`. Then, from `MaxInstances = 1`: `SerialCorrect`
  by induction, one step per host call; `ChainIsIntact` and `QueriesAreRecorded` from
  the invariant; `Refinement`: `StoreSeq` is the abstract `Record`, the first failure is
  `HostFault`, all other steps stutter; `TamperingIsEvident`: an edit changes the hash
  of its record and of no other, so exactly one link breaks.
  `LossIsAlwaysEvident` is about a store that one failure has damaged, of which `SerialInv` says nothing.
  `LossInv` lists what one failure leads to (`OneFault`): a store that is still `Healthy`; a call that starts the numbers
  again, as its read of `seq` failed (`Restarting`); a record that was not written although its hash is the
  tail (`LosingRecord`, then `LostRecord`); a `seq` behind its record (`LostSeq`); and, once a record has
  been stored on top of one of these, a `Scar`: a record that embeds the hash of no record before it, and which
  nobody writes again. A scar is a broken link of every export from then on (`ScarShows`), a lost record
  without successor is an end that does not fit (`LostRecordShows`), and in the other cases nothing is lost yet. The lemmas
  on `Export` find, for a record in a map with gaps, its place in the export, through `Smallest` and `Largest`.
* `CostGovernorProofs`. `TypeCorrect` and `NobodyIsOvercharged` for any number of
  instances and failures: a hook's copy of the usage is never above the charge, as the
  charge only grows. `SerialCorrect` by induction for one instance, and from it
  `NoChargeIsLost` and `OvershootIsBounded`. The hardest step is an admission: a query is
  let in when the usage is below the budget, and at most all other connections are
  in flight. `OvershootPerFaultHolds` needs a second invariant, `FaultInv`, because after a failure the stored usage is no longer
  the charge: it is short of it by at most one `Allowance` (the budget and a maximal query a connection) per failure. A
  failure can at worst set the stored usage back to zero; the charge is then still below one allowance for each earlier
  failure and one more, which is the one this failure adds.
* `ArtefactProofs`. `ArtefactInvariant` by induction. `TypeOK` and `CallInv` say where the packer
  is; `OutInv` gives the exact entries of the file at each step of a call, all of them after a success, and after
  a failure one of `Rests`, the beginnings of that list whose last entry may be cut short; `VerifyInv` says
  that what was unpacked is what was compared (`UnpackIsIntact`), and that no visited file of the trust root settles the verdict. `UnpackThree`, `UnpackTwo` and `UnpackLess` evaluate
  `unpack` on the files `OutInv` allows. `TypeCorrect`, `UnpackIsOfLastPack`, `VerdictsAreJustified` and
  `PackedStaysReadable` follow. `Refinement`: `Create` is `Open`, since a file without its end does not unpack;
  `Finish` is `Commit`; a failed write, a failed end and a kill are `Abort`; every other step leaves the file, or leaves it
  unreadable, and stutters.
* `CivilTimeProofs`. `LoopCorrect` by induction from two lemmas on the calendar: the
  closed form grows by the length of the year and of the month. `TypeCorrect` says that no subtraction
  of a loop goes below zero. `ConversionIsCorrect`
  adds that dividing by 60, 60 and 24 in turn loses nothing.
* `PluginAbiProofs`. For every width and layout. `UnpackPack`: unpacking inverts packing.
  `SlotsCorrect` is the induction: where both slots lie, and that neither has been written
  over. A slot that fits into memory cannot have wrapped, as memory ends below half the word. The
  properties follow from it; `RoomIsEnough` is proved
  by an induction of its own on top of `SlotsInv`.
* `TokenBudgetProofs`. `TypeCorrect`, then `Refinement`: one lemma per action maps it to an action
  of `CostGovernor` or to a stutter, for any number of instances and failures. With it the
  theorems of `CostGovernorProofs` hold of keys: `KeysAreChargedRightly` takes over that on overcharges and that on failures through
  `INSTANCE CostGovernorProofs WITH ...`, whose assumptions on constants are proved for the substituted
  ones. `PlainPairsAreCharged` adds that a pair of ids without colons shares its key with no other: a key of two parts can
  be split in one way only.
* `AiPipelineProofs`. `PipelineTypeCorrect`; `PipelineKeepsTheBudget`, as every step of the pipeline is a
  step of `TokenBudget` or none. Two invariants: `GuardInv`, by induction over the stages, says what the guardrail
  decided of each request, and `TagsInv` under which request each tag was written or is still to be. `TagsAreOfOwnRequests` follows
  from the second, `BlockedAreTagged` and `GuardrailGapsAreKnown` from both: a stored tag is the finding of some request of the id; if
  not of this one it is borrowed, and if of this one, `PlainStatements` says what the guardrail's look at a plain text misses.

* `QueryPathProofs`, for any texts, rules, maps and number of updates. `PathInvariant` is the induction, over three
  parts. `MaskInv` adds to the types that every wrap makes the text longer, which is why `changed` says whether it
  differs. `VectorInv`: the text so far routes like the query, as a wrap puts six words the router does not look
  for in the place of one (`WrapKeepsRoute`). Rules whose column or
  function ends with `order`, starts with `by` or holds an operator are the exception, which `NotRouterWords` names: an
  inserted word of that kind can make or break what the router looks for.
  `RouteInv`, with `BetweenReads`: the map that was read is that of a moment, and if
  the flag is written first and at most one update has written, of a moment with the flag of now. A second key of the
  same update leaves the flag alone, and a first key comes while no other update has written; that is the whole argument for
  the order. `NodeOf` and `FindWord` take the first of several places; that there is one for every sequence is
  `Smallest`, from the library's theorem on well-founded orders.

  `MasksAreAtOnce`, `SecondPassIsIdle` and `TrapsAreOnWideOnly` follow from `OnceInv`, an induction over the turns of the loop that
  needs none over the list: after any number of turns the text is the query with the rules `Done` so far applied at
  once, and no other rule's column or call has appeared or gone (`Applied`). One turn is `AppliedWrap` or `AppliedSkip`.
  `WrapAt` gives the wrapped text by index and `WrapOrigin` where each token of it comes from; from these `WrapFinds`,
  `WrapPanics` and `WrapCalls` say that a wrap moves what other rules find, without adding to it or hiding it, and
  `PlaceStep` that it moves the places of `Masked` likewise; `MaskedStep` puts the two together. In the second pass each rule finds
  its call or no column, so the text stays what the first pass made of it (`SecondPass`).

The assumption of one instance is the one the plugins need and do not enforce:
`audit_overlap` shows what happens without it. `ArtefactProofs`, `CivilTimeProofs`, `PluginAbiProofs`, the refinement of `TokenBudget`,
`AiPipelineProofs` and `QueryPathProofs` do not need it; in `CostGovernorProofs` and for `PlainPairsPayTheirOwn` it is the premise
`Serial` of the property.

Every invariant and every refinement that a passing run checks is also stated by a theorem. Model-checked only: `Terminates`,
which is a liveness property and so out of the prover's reach, and the five properties that a run refutes.

## 5. Findings

* `audit_overlap`: nothing in the plugin or the ABI keeps two `post_query` calls from
  overlapping, and two that do fork or overwrite the chain.
* `governor_window`: the "sliding window" is a running total; a tenant once blocked
  stays blocked.
* `artefact_failed`: a failed `pack` may leave an artefact that `inspect` accepts and whose
  manifest describes a signature it does not have.
* `guard_tagged`: the guardrail has two of the classifier's three heuristics and does not read
  its tags; a tagged statement passes.
* The tenant rule, a second finding about the guardrail: the documentation requires the `tenant_id` filter on scoped tables
  whatever the verb, the code asks only a SELECT for it. `DELETE FROM users WHERE id = 1` of declared AI traffic passes. There is no
  run of its own: `Forbidden` has the rule as documented, and the run `ai` shows that `GuardrailGapsKnown` holds with the
  disjunct `TenantOfWrite`; without the disjunct TLC refutes it with that DELETE.
* `mask_shared`: of two columns with the same mask function only the first is masked.

## 6. Not modelled, and what is left

The plan of the project was: the audit chain, the cost governor, artefacts and the timestamp; then the memory
protocol of the ABI, the AI plugins, the mask and the routers. All of it is modelled, and the abstract specifications
of the audit log, the budget and the store of artefacts are shown to be implemented. What a further step could add:

1. `LossIsEvident` stops at one failure because two can leave no trace: the writes of a record and of its tail hash both
   fail, in one call. Which pairs of failures stay evident is not stated.
2. An abstract specification of masking and routing as one step, which `QueryPath` implements.

Not modelled:

* the wire types: generated code without state. A payload that does not parse is an outcome of
  each hook.
* `plugin.toml` and build files: read by the proxy. Several manifests have `permissions = []` although the
  plugin uses the key-value store; whether that keeps it from working is up to the proxy's loader.
* argument parsing and printed text of the CLI.
* `kv_remove`: nothing calls it. That the classifier's keys pile up is a consequence, left to
  the proxy by its doc (`ai-classifier/src/lib.rs:19-21`).
* how a query gets its attributes, which hook calls overlap, what follows a trap in a hook, and which
  router's answer counts: the proxy.
