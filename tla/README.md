# A verification development for AAES-OS

This directory holds TLA+ models of the governed-execution core of this
repository, of the node, the memory, the boot and the orchestrator around it, the
TLC runs that check them on small instances, and theorems about
them that TLAPS proves for every instance. `PROJECT.json` lists, for every
definition that models code, the file and lines it stands for.

Paths below are relative to the repository's root; `packages/` is the copy that
is modelled (`aaes-os/packages/` repeats it).

## 1. Inventory

### The governed runtime and its ledgers

**Run ledger** (`packages/runledger/src/runStore.ts`). State: runs, spans,
invariant links, in memory. Operations: `startRun`, `endRun`, `startSpan`,
`endSpan`, `linkInvariant` and getters; each is synchronous and throws a coded
error instead of changing anything. Ids may come from the caller. Hard: the order
in which several clients open and close spans of one run, parents chosen freely,
the same link kept in two places. Correct when no run ends with an open span, an
ended run keeps its spans and their parents (links may still be added to them),
parents form a forest inside a run, both lists of links agree.

**Trace bus** (`packages/trace-bus/src/traceBus.ts`). State: listeners and a log.
`emit` pushes the event and calls the listeners in order; an exception of one of
them reaches whoever emitted. Hard: that exception, and listeners that unsubscribe
while an event is delivered.

**Fault journal, pattern ledger, invariant engine, governance hub**
(`packages/aaes-governance/src/`). The journal keeps faults and a recurrence count
per fault code and invariant, and feeds the process-wide pattern ledger; the
engine awaits each invariant in turn, emits `TRACE_INVARIANT`, records a fault and
emits `TRACE_FAULT`; a hub listens to the bus and counts the faults it sees in a
pattern ledger of its own. Hard: all of it is shared by concurrent runs, and the
two pattern ledgers hear of a fault on two ways. Correct when counts are ordinals
and each ledger counts exactly what its source shows.

**Output patches** (`packages/tri-core-protocol/src/`). State: a process-wide
patch ledger, each patch PROPOSED, APPROVED, DEPLOYED or REJECTED. The runtime asks
at each run which patches are deployed. Hard: the ledger changes between two awaits
of a run.

**Runtime** (`packages/ucr-runtime/src/`). `UCRRuntime.run` starts a run and a span,
awaits the plan, patches the output, awaits the invariants, ends span and run and
returns output, faults and status. Without patches an exception leaves the span
open and journals it as an orphan; with them `withSpanGuard` ends the span in a
`finally`. Hard: calls interleave at each await over shared ledgers; every emit
may throw, and so may the caller's payload, in `JSON.stringify` or `structuredClone`.
Correct when each caller gets the verdict of its own output, the ledger stays sound,
the returned flag tells whether the span was ended, and nothing happens in a call's
name once it has settled.

### Constitutional enforcement

**Enforcement node, CEN** (`packages/constitutional-enforcement-node/src/index.ts`).
State: a state store, a ledger of receipts, the ids seen, the tokens used.
`execute` evaluates a transition (shape, replay, capabilities, authority token,
invariants) and finishes it: store if allowed, remember id and token, write a
receipt. `evaluate`, `allow` and `deny` are public as well. Hard: decisions that are
acted on later, tokens that expire or are burnt by a refusal, an exception in the
middle of `finish`. Correct when an id is decided once, a token carries one
decision, store, memories and receipts agree.

**Transition validation pipeline** (`packages/transition-validation-pipeline/src/index.ts`).
A structural check in front of `execute`; it answers itself when the check fails.

### File ledgers

**Sovereignty ledger, law-of-laws ledger** (`packages/sovereignty-ledger/src/index.ts`,
`packages/meta-constitutional-calculus/src/index.ts`; the same code twice). State: the
entries an object holds in memory and one JSON file. An object reads the file when it
is made; `append` numbers and hashes an entry over the one before it, pushes it and
writes all entries to the file. Hard: a write that fails after the push, or after the
file was emptied; a process that ends; a second object on the same file; payloads JSON
does not bring back as they were. Correct when an entry `append` returned stays in
the readable file and in the memory of the object, no sequence is used twice and
the chain verifies.

### The Lawful Nova node

**Node** (`lawful-nova-shell/nova/node/`). State: files only, apart from a memory of
each trace's last event: `rate-limits.jsonl`, `continuity.jsonl`, `event-bus.jsonl`,
`substrate-events.jsonl`, one result file per submit and one receipt file per tool call.
Four calls are governed: `submit` and `replay` ask a model provider, `tool` a coding
tool, `verify` generates an earlier tool call again, and each goes through
`enforce_invariants`, which charges it to its caller (a verify to nobody's name). A
fifth, `POST /node/result`, asks the provider and appends its continuity event without
any governance. Hard: `submit` runs on worker threads, so its steps interleave with each
other and with the event loop; the limit is read, and its line appended, in two steps
with two readings of the clock; the process may end between any two file operations.
Correct when what a governed call executed was charged, an overrun of the limit is no
larger than the calls in flight, a result has its receipts, and the substrate log
follows the bus.

### Governed memory

**Governed memory** (`packages/governed-memory/src/`). State: a chain of intent
versions, authority tokens by id, execution spans. The facade's `recordTrace` asks the
governance engine whether the chain verifies, the version exists and the token is
live and bound to it; the `recordTrace` of the span manager, exported as well, compares
the bindings of the span only; `replay` asks all of it again of the recorded steps. Hard: the
ledgers change between the recording and the replay, tokens are issued again
under their id, chain, token ledger and span manager hand out the records they store.
Correct when a span gains steps of its own bindings only and while it is active,
and its replay depends on nothing but these bindings.

### Boot and law spine

**Trust root, attestation, law spine** (`packages/trust-root`,
`packages/ucr-attestation`, `packages/runtime-law-spine`). State: a root sealed once in
a process (any object, of which callers hold the reference), a registered handle, the
corridors a spine has quarantined; tokens are held by callers. `initializeRuntime` drops
the registration, boots, issues a token and registers it; `admit` answers requests to
corridors and quarantines anomalous ones at level 3. Hard: an initialisation that fails
half-way, tokens that expire, are altered, come from an earlier process or name
measurements that do not belong together. Correct when a registration names trust root,
corridors and spine of the root that is sealed now, and an anomalous corridor stays out.

### The v1 orchestrator

**Orchestrator** (`src/orchestrator.ts`, `src/engines`, `src/pipeline`, `src/governance`,
`src/storage`). State: rate buckets of the policy engine and the trace store. `handle`
runs a request through invariants, perception, deliberation, planning and the action
engine, and records each step in the trace the client named. Hard: requests
interleave at the await of the action engine, also under one trace id; a stage may
throw after others have recorded. Correct when the trace tells what the client was
answered, and the limit bounds what gets through in any stretch of time.

### Theta codec

**Codec** (`packages/theta-codec/src/index.ts`). Functions of their arguments: glyph
strings to Theta indices to base-14 digits and back, with fuzzy correction, then
bytes, a checksum, base32 text and BIP-39 indices. Hard: glyphs that stand for two
digits, indices that take turns, a 32-bit word out of which bits are shifted, a
threshold on a similarity. Correct when strict encoding is decoded to what was
encoded, default encoding to what its glyphs stand for, text keeps the bits of
payload and checksum, and a token is corrected only to the glyph it can mean.

`PROJECT.json` lists every component, also those that are not modelled (section
7), and every hazard at the line where it bites, with the properties that cover it
or the reason none does.

## 2. Modules

| module | models |
| --- | --- |
| `RunStore` | the methods of `RunStore` as operators on a store value: for each method the error it throws and the store it leaves |
| `RunLedger` | one store and any number of clients calling any method with any id (extends `RunStore`) |
| `FaultJournal` | journal, pattern ledger and patch ledger as operators (extends `RunStore` for the run ids) |
| `UCRRuntime` | concurrent calls of `run` composed with the store, the bus, the journal, both pattern ledgers and the patch ledger (extends `FaultJournal`, instantiates `ReplyBook`) |
| `ReplyBook` | abstract: what a caller of `run` is promised, with a record of faults for each call |
| `DecisionLog` | abstract: each id decided once, each token spent once |
| `EnforcementNode` | CEN and pipeline; instantiates `DecisionLog` |
| `FileLedger` | ledger objects, their processes and the file they share |
| `NodeGovernance` | the node's clock and rate limit log |
| `NodeEventLog` | the event bus file, its substrate twin and the memory of traces |
| `NovaNode` | the four calls of a node, threads, files and crashes (extends both) |
| `GovernedMemory` | intents, tokens, spans and replay |
| `TrustRoot` | measurements and the root sealed once |
| `LawSpine` | tokens, registration, initialisation, admission, restarts (extends `TrustRoot`) |
| `Orchestrator` | `handle` of concurrent requests, rate buckets, trace store |
| `ThetaCodec` | the codec's functions |
| `RunLedgerProofs`, `UCRRuntimeProofs`, `EnforcementNodeProofs`, `FileLedgerProofs`, `GovernedMemoryProofs`, `LawSpineProofs`, `NovaNodeProofs`, `OrchestratorProofs` | theorems (`UCRRuntimeProofs` extends `RunLedgerProofs` for the lemmas about the store) |
| the modules whose name begins with `MC` | the small instances |

**RunStore.** A run or span is `absent`, `open` or `ended` (a timestamp in the code).
`EndRunError(st, r)` is the code of the error `endRun` throws and `EndRun(st, r)` the
store afterwards, unchanged if it threw; likewise for the others. Using one operator
per method lets `UCRRuntime` run several methods in one step, as the code does
between two awaits, and lets one lemma per method serve both proofs. `RunLedger` calls
its variable `ledger` and its specification `LedgerSpec`, so that one module can extend
it and `UCRRuntime`.

**UCRRuntime.** JavaScript interrupts a call only at an `await`, so one action is the
code between two of them: `Begin` (call up to the await of the plan), `ResumePlan`
(patch the output, start the invariants), `ResumeShape`, `ResumeDeterminism` (after
each invariant), then for an unguarded runtime `Finish` or `CatchOrphan`, which run
to the return, and for a guarded one `CloseGuard` (the `finally`) and
`ResumeGuarded`. `Construct`, `PatchOp` and `ClearJournal` are what the rest of the
process may do in between. `FaultyEvents` names the event types on which a
listener may throw; each emit then has both outcomes, and a throw continues where
the code's `catch`, `finally` or rejection takes it. A payload is the set of its
traits: a volatile field, something `JSON.stringify` throws on, something
`structuredClone` throws on. An output is an object or not, with a volatile field at
its top or not, and the payload it echoes; this is all the two invariants and the two
patches look at. The determinism invariant throws on an output it cannot serialize,
`recordFault` after the push on a fault it cannot clone, and every later
`getByRun` of that run as well. The mode comes from the run index, the runtime's
counter or one the caller gives. (`sanitizeDeterminism` strips
the top level only, `DeterminismInvariant` looks everywhere: a volatile payload fails
on a patched runtime too.)

The runtime uses the `withSpanGuard` of its own package, on every runtime with
`enablePatches`, whether or not `PATCH_SPAN_BOUNDARY_001` is deployed; the patch
ledger of the model therefore holds the two patches that are looked up.

**ReplyBook.** A request is unasked, pending, told or refused; `record` holds the kinds of
fault found in its name, which only its own steps add to, and `held` the requests that
stand open. A reply tells the record as it is when the request is closed, or left open
with the orphan on record; `Forget` empties all records. The refinement takes the reply
from where a call waits and its result, the record from the faults `getByRun` finds
in the one shared journal, and `held` from the open runs of the one shared ledger.
So it says what no single property does: the journal in common works as one journal per
call, and reply, journal and run ledger change together.

**EnforcementNode.** `Reason` is the whole of `evaluate`, in the order of its checks.
`Finish` is `finish` with `createReceipt`: a missing id throws at `trim()` before
anything changed, an unhashable payload (one `JSON.stringify` throws on or returns
nothing for) throws after the store and both memories changed. `Expire` lets the
clock pass a token's expiry at any moment. There are two specifications: `GatedSpec`
(callers use `execute` and the pipeline) and `Spec` (also `evaluate`, `allow` and
`deny`, by several actors). Signature, capability and scope
checks and the node's invariants are Boolean fields of a transition. Receipts keep
what the properties need; the hash chain is left out.

**DecisionLog.** `decision` maps an id to open, refused or committed with a payload;
`spent` is the set of tokens presented so far; `evidence` pairs each recorded decision
in favour with the token that carried it. A commit needs an open id and a token
that is not spent. The refinement maps an id to committed when the store holds a
payload, to refused when it is only in the replay memory, `spent` to
`usedAuthorityTokens` and `evidence` to the ALLOW receipts (a commit whose receipt
could not be made leaves none, so the specification lets evidence be missing).

**FileLedger.** `append` is synchronous, hence one step; `writeFileSync` may fail before
it opens the file or after it has emptied it (`torn`: `JSON.parse` throws and no object
can be made), and the entry stays pushed. `Exit` ends the process of an object, between
two appends or at any point of one. A hash is everything that went into it, along a
chain a sequence. `Volatile` payloads come back from JSON as `Flat`. `SharedSpec` makes
any number of objects on the file, `ExclusiveSpec` one only when there is none.

**NovaNode.** A call is its trace, and `step` is where it waits. An action is one
file operation, one reading of the clock or one answer of a provider, because worker
threads interleave there and the process may end there; a handler that is a
coroutine never awaits once it has its body, so `MayEnter` lets one of them run at a
time, and `Threads` submits beside it. `Enforce` is the policy's own check and then
the first reading of the clock, `Count` reads clock and log again, `AppendCharge`
writes the line with the first time and goes where the handler goes. `write_text`
truncates and then fills (`torn`). `Crash` ends every call where it is; files stay,
the memory of traces is lost. An event is written to the bus (`Emit`), then to the
substrate log (`Mirror`).

**GovernedMemory.** Every call is synchronous, hence one action. An intent is its
version; a record a client has edited no longer has the hash it was stored with.
`SpanRecordTrace` is `recordTrace` of the span manager, `RecordTrace` that of the
facade, which validates first. `EditToken` and `EditSpan` are what a client may do to
the records it was handed; a span a client has changed is `edited`. A step carries the
version and token it refers to, and whether its content is empty: `recordTrace` takes an
empty content, `replay` calls it a drift.

**TrustRoot, LawSpine.** A measurement of four values is the four, so two roots have
the same one only when they are the same. `SealTrustRoot` takes any object, and
`EditTrustRoot` changes the sealed one, as whoever passed or got it may; only then
(`edited`) may a registration differ from it. `IssueAttestationToken` signs whatever trust
root, corridors and spine a caller names. `Alter` changes a token, and may sign it again. A time
that is no date (`Unparsed`) never expires. `Reason` is `admit` in the order of its
checks; `anomalous` and `admitted` are history.

**Orchestrator.** `handle` runs up to the one await (`Block`, `Throw` or `Plan`) and
from there to its end (`Finish`). A request is what the stages look at: is the actor
named, which scope, a request to bypass, an intent, are actor and trace id strings, can
the payload be printed; `inherited` is the name of a property that every object has.
`Deliberate` and `SelectBestPlan` are the planning of the code, with its scores and its
stable sort.

**ThetaCodec.** A character is a name and a glyph a sequence of characters. A number
of any size is its digits, and the word of the base32 encoder its 32 bits.

## 3. Runs

| run | shows | distinct states |
| --- | --- | --- |
| `run_ledger` | run ledger, 2 runs, 3 spans, 2 invariants, 2 links | 9 800 |
| `ucr_runtime` | verdicts under interleaving, payloads that throw, patch operations | 2 556 000 |
| `faulty_listeners` | soundness, finality and refinement when listeners throw | 377 000 |
| `enforcement` | decisions and tokens through `execute` and the pipeline, refinement | 54 000 |
| `lifecycle` | the same node with overtaken decisions | 286 000 |
| `exclusive_ledger` | one ledger object at a time, failed writes, restarts | 9 000 |
| `nova_node` | charges, receipts and events of a node that may crash | 713 000 |
| `governed_memory` | steps, bindings and replays | 112 000 |
| `orchestrator` | rate limit and traces of interleaved requests | 802 000 |
| `law_spine` | attested registrations, quarantine | 353 000 |
| `theta_codec` | the codec on every small input | 13 600 |
| `duplicate_commit` | a statement of the documents the code does not keep (section 6) | |

*Run ledger.* `EndedRunHasNoOpenSpan`, `ParentInSameRun`, `ParentsAreAcyclic`,
`LinksAgree` and the action property `EndedRunIsFrozen`. `MaxLinks` bounds the
links: two give both orders. Two runs are needed for a
foreign parent, three spans for a chain of parents with one more span open.

*Runtime.* `VerdictIsOwn`: the faults and the status a caller gets are those of its own
mode, payload and output, though the journal is shared: the orphan alone when its plan
or an invariant throws, else the faults of the invariants its output fails.
`OrphanMeansOpen`: the returned flag agrees with the ledger. `RecurrenceIsOrdinal`,
`HubCountsTraced`: counts agree with the journal and the trace. With listeners that
throw and a journal that is cleared: `ImplementsReplyBook`, the refinement of section 2,
`LedgerSound`, `ReturnedMeansSettled` (weaker than `OrphanMeansOpen`: a throw of a
listener on `TRACE_SPAN_END` makes the call report an orphan of a span that is ended,
with its run left open), `PatternsCountFaults` across a clear of the journal,
`TraceNests`, `SettledIsFinal`. Two calls on an unguarded runtime and one on a guarded
one make every pair of kinds interleave; the schedule gives the unguarded calls a
volatile output and a throw, the guarded call a string, and the run index -1 lets a call
of the first runtime run well; the payloads have one trait or, in the second run, none,
one or two, so that each path of the code is taken.

*Enforcement.* `MemoryCoversLedger` and `StoredHasReceipt` are checked in the
`lifecycle` run, under `Spec`; `DecidedOnce`, `TokenFirstUse`, `AllowedIsStored` and
`ImplementsDecisionLog` under `GatedSpec`. Two ids, two tokens each bound to one id,
an ordinary, another and an unhashable payload; the offered transitions fail each
check once and include a token used on the wrong id. `DecidedOnce` needs two calls
on one id, `TokenFirstUse` two calls with one token on different ids.

*File ledgers.* `ReturnedIsKept`: an entry `append` returned is in the file whenever it is
readable, and in the memory of the object there is, so that it is lost only with a torn
file that no object is left for (the next `append` of a live object writes the file
anew). It, `SequencesUnique` and `AppendOnly` hold while one object
at a time is made on a file, whatever fails; with two objects they do not (section 6).
`AlwaysChained` holds in any case (proved for `SharedSpec`): the file is always some
object's whole ledger. `MaxAppends` bounds the appends: four are one
before a failed write, the failed one, one after a restart and one more.

*Node.* `ResultIsBacked`, `ToolEvidence`: whatever was executed or written has the
evidence that stands before it in the code, wherever the process ended.
`GovernedRunsAreCharged`: a caller's executions by `submit`, `replay` and `tool` are no more
than its admitted charges, beside those of `POST /node/result`, which nothing charges;
the history variable `executed` is the one place that knows of both.
`OverrunBounded`: the limit is not exact, and the property says by how much it can
be missed: `InFlight` calls may all read the log before one of them writes, once
when the last slot is taken and once more by calls that took their time just before
the minute turned. `EventsMirrored`: twins are in the order of the bus, numbered
without a gap, and all there but one per crash. Two submits race each other behind a
tool call; the replay and the verify follow what they wrote. One caller and a limit
of one per minute, with two minutes, make every call compete; one crash is enough,
since all the files a second one would find are already those a first one leaves.
The sixth call, to `POST /node/result`, is made beside two others at most (`FewCalls`):
it shares only the continuity log and the provider with them.

*Governed memory.* `SpansKeepTheirBindings` is an action property: a span nobody edited
keeps its bindings and steps, gains steps of those bindings one by one and only while it
is active, and never comes back to life. `ReplayIsOfTheSpan`: the replay of such a
span, which looks at every recorded step, is decided by the bindings it was started
with, also when steps went past the governance. Two tokens and two versions, so that
a token can be bound to another version and a step can be foreign; one span, since no
call reads two; `MaxSteps` = 2, since each step is judged alone.

*Orchestrator.* `RateBounded`: two windows less one call, for every stretch of a window's
length. `TracesMatchAnswers`: a request's steps, picked out of a trace it may share,
are those of its answer. Four calls of one actor with a limit of two overfill a
window and begin the next; each id is shared by two or three requests, of which one
throws before its first step, one after some, one is refused, and the others complete.

*Law spine.* `RegisteredIsAttested` says of each of the three measurements a token names that
it is the sealed one; comparing the trust root alone would not give it, since a token
may name the parts of another root and a sealed object need not be coherent. Two
roots that share no measurement; two objects no boot builds (`Sealable`); trust roots a
caller names among the two that exist (`NamedHash`); one token, that may outlive a restart,
and a life of one tick, so that it can be valid, expired, altered and of another
process; three corridors, one unknown. No call reads both the registration and the
quarantine: the constraint `OneHalf` explores each while the other is at rest.
`AnomaliesStayOut`: quarantine is never lifted.

*Codec.* Every string of up to `MaxDigits` = 3 digits, `MaxBytes` = 8 bytes of three values
and `MaxChars` = 4 characters of five. Three digits make an index take its third
turn; eight bytes go through every phase of the base32 encoder and are two words of
entropy; four characters are two more than the longest glyph. `GlyphsRoundTrip`
compares the digits decoded, one by one, also in the default mode, where a compound
glyph stands for the digits 2 and 3. `TextKeepsValue` compares the text with RFC
4648 over all bits, and the indices with the bits of the payload followed by those of its
hash, over all hashes of four bits. `CorrectionIsSafe` compares with the cheapest of
all alignments; no two strings of four characters are exactly as similar as
the threshold 0.6 (that takes five), so at equality nothing is shown.

*Bounds.* `MaxPatchOps` and `MaxClears` bound what operators do to the patch ledger
and the journal (one of each is enough to change what a run reads between two of its
steps). `MaxResults` bounds the calls a node answers: three through `execute`, two
in the lifecycle run, where the two evaluations may be taken before, between or
after them; nothing a node keeps depends on more than two calls about one id or
one token.

*Deadlock.* Checked for the run ledger, governed memory and the law spine. The runtime
stops when all its calls have settled, the node when `MaxResults` calls are answered, a
file ledger when its file is torn and no object is left, the Nova node and the
orchestrator when all requests are answered and the clock is at its bound, an input of
the codec at its full length, so these runs do not check it.

*Fairness.* No specification states any, and no liveness property is stated. That a
governed run settles follows from the shape of `run`, in which every await is of a
promise that settles by itself and every throw reaches a `catch`, a `finally` or the
caller; a property of the model would say only that. A call of the Nova node may wait
for a provider without end, and nothing else waits.

## 4. Theorems

TLAPS proves, for all sets of runs, spans, transitions, tokens and payloads:

* `RunLedgerProofs`: the type invariant, `EndedRunHasNoOpenSpan`, `ParentInSameRun`,
  `ParentsAreAcyclic`, `EndedRunIsFrozen`, `LinksAgree`. The inductive invariant is
  `LedgerTypeOK` with `StoreInv`, three facts about a store: ended runs have no open
  span, every span's run was started, a parent exists in its child's run and an absent
  span has no parent. Each method preserves it by a lemma. The last two facts are there
  for the forest: a span gets a parent while no span can have it as a parent, hence a
  new edge closes no cycle. For the links, the invariant (`LinkInv`) adds that every
  entry of a span's list has its link and that a span never started has none, so
  `startSpan`, which writes an empty list, loses nothing.
* `UCRRuntimeProofs`, for any number of calls and runtimes and any set of events on
  which listeners throw: the type invariant, `LedgerSound`, `ReturnedMeansSettled`,
  `RecurrenceIsOrdinal`, `PatternsCountFaults`, `HubCountsTraced`, `TraceNests` and the
  action property `SettledIsFinal`. `StoreInv` alone does not tell that `endRun`
  succeeds or that a call's span exists; the invariant adds, for each call, what the
  place it waits at says of its run and span (`Phase`). One lemma per group of actions
  shows that a call moves its own phase and leaves the others' alone, since no two calls
  share a run or span. The counts of journal, patterns and hub hold because a step that
  records a fault adds one place to the set that is counted. `TraceInv` says which
  events a trace has at each phase, and where. Two theorems have a hypothesis.
  `OrphanMeansOpen` needs that no listener throws on `TRACE_SPAN_END` (else the span is
  ended and the call reports an orphan all the same); `VerdictIsOwn` that no listener
  throws at all, and it speaks of states before the first clear of the journal, as does
  the run: a fault cleared before the call returns is in no verdict. Payloads that throw
  are in both. Its invariant says which faults of the run the journal has at each phase
  of the call.
* `UCRRuntimeProofs`: `Spec => ImplementsReplyBook`, with no hypothesis on listeners or
  clears. A call's step is `Ask`, `Find`, `Close`, `Abandon`, `Refuse` or no change; a
  clear is `Forget`. Beyond `IInv` and the types it needs `NoOrphanYet`: a call that is
  pending has no orphan on record, so leaving it open is news. `RecordFault` adds one
  kind to the record of its run and leaves the others' as they are (`RecordFound`,
  `OthersKeepFound`), which is where the shared journal is taken apart.
* `EnforcementNodeProofs`, for callers of `execute` and the pipeline: `DecidedOnce`,
  `TokenFirstUse`, `AllowedIsStored`, which with the type invariant and
  `MemoryCoversLedger` are inductive, and `GatedSpec => ImplementsDecisionLog`. The
  heart is that an allowed transition is fresh: not seen, its token not used;
  `MemoryCoversLedger` turns this into a fact about earlier receipts.
* `EnforcementNodeProofs`, under the full lifecycle: the type invariant,
  `MemoryCoversLedger` and `StoredHasReceipt`. A decision acted on late is stale, and
  the proof needs what still holds of it (`DecisionHolds`): an ALLOW is of a well-formed
  transition, so a commit stores a payload under an id; a token found replayed is still
  used up, so `finish` may leave it out.

* `FileLedgerProofs`: for any number of objects on a file, the type invariant and
  `AlwaysChained`; for one at a time, `ReturnedIsKept` (file and memory of the live
  object), `SequencesUnique` and `AppendOnly`. The inductive invariant (`EInv`) relates
  the file and the returned entries to the memory of the one object: it has read all of
  the file, so what it writes extends it, and it holds every returned entry at its
  sequence, so the next one is larger. That a reread entry no longer changes carries
  this over a restart.

* `NovaNodeProofs`: the type invariant, `ResultIsBacked`, `ToolEvidence`,
  `GovernedRunsAreCharged`, `OverrunBounded` and `EventsMirrored`, for any number of
  calls, callers, threads and crashes. For what a result rests on, the invariant says of
  each step which entries the log already has and in which order; entries are never
  removed, so a crash keeps it. For the charges, the calls of a caller that were let
  through are at most its admitted charges (`Balanced`: one line and one verdict in the
  same step), and what a governed call executes is among them, before and after
  (`Paying`). For the limit, calls let through after the last slot of a minute was
  taken, or with a time before the minute turned, were in flight when it happened
  (`LimitInv`), and at most `InFlight` are at once. Twins (`BusInv`) are compared place
  by place: a twin points to an earlier event of the bus than the next twin does, and an
  event without one is being emitted or was lost to a crash.
* `GovernedMemoryProofs`: the type invariant, `ReplayIsOfTheSpan` and
  `SpansKeepTheirBindings`. The replay depends on the span alone because every step of a
  span nobody edited carries the span's own bindings, which is the inductive invariant.
* `LawSpineProofs`: the type invariant, `RegisteredIsAttested` and `AnomaliesStayOut`. A
  root is sealed once, so a registration still names the three measurements it was
  checked against, one by one, unless the sealed object was edited; at level 3 an
  anomalous corridor is quarantined, and quarantine is never lifted.
* `OrchestratorProofs`: the type invariant, `RateBounded`, `TracesMatchAnswers`. A
  stretch that takes in the latest call holds calls of the current window, at most the
  limit, and calls before its start, fewer than the limit, because such a stretch begins
  after the first call of the window before and misses it (`FirstIsMissed`): this is why
  the bound is two windows less one. For the traces, steps appended to a shared trace by
  others leave the places of a request's steps as they were, and its own go to the end
  of both lists (`Tells`); `StageOf` says how many of the six steps it has by now.

Assumptions are those of the modules: `Flat` is not volatile, calls have distinct spans,
absent-values lie outside their sets, tokens are bound to ids, the offered transitions
are typed; the orchestrator's limit and window are positive.

The type invariants of all state machines are proved, so no run repeats one.

Every property a passing run checks is stated by one of these theorems, but for
the codec's (`GlyphsRoundTrip`, `TextKeepsValue`, `CorrectionIsSafe`), which stay with
TLC: its functions are folds over sequences, and what they compute for every input
needs an induction the prover cannot instantiate. Liveness under fairness and `ENABLED`
are out of its reach; none is stated.

## 5. Abstractions

`getByRun` returns a list in journal order; the model keeps each fault under its place
in the journal, so the faults, their number and their order are those of the list.
Timestamps, generated ids, names, metadata, messages and hash chains are left out:
no guard reads them. Generated ids (`randomUUID`) are taken to be fresh. A payload's
traits do not change while a call runs.
Invariants given to a node are functions of the transition and do not throw. The
hub of the runtime model is subscribed before any listener that throws.

A line of a JSONL log is written whole or not at all; a line torn by a crash would make
every later reading of that log raise (`nova/node/ledger.py:29`) and stop the node. The
policy file of a node does not change while it runs. A trust root's hash is free of
collisions. Edits of an intent are of what its hash covers, not of its version or of the
link to the one before. The corridors of a law spine do not change, though
`RuntimeLawSpine` keeps the caller's definitions. `Capability` holds no empty string:
`find` in `admit` would return it as a missing capability and take it for none
(`runtime-law-spine/src/index.ts:87`). The probabilities of the codec and its random
choice are left out, and so are tokens named like a property every object inherits
(`constructor`), which `thetaLookup()[glyph]` finds.

## 6. Where code and documents differ

With a run that shows it:

* `docs/proof/platform/PROOF_2_4.md:7`: replay detection prevents an id from
  committing twice. It does through `execute`, where it is proved; two `evaluate`
  calls before the first `allow` defeat it (`duplicate_commit`).

Part of a model, without a run of its own:

* `withSpanGuard.ts:4` guarantees the end of the span; `spanStart` is called before the
  `try`, so a listener that throws there leaves it open (`faulty_listeners`, where
  `ReturnedMeansSettled` says what still holds).
* `docs/proof/platform/PROOF_2_1_CEN.md:11`: allowed transitions commit. `deny` accepts an
  evaluation that allows, writes an ALLOW receipt and commits nothing (`lifecycle`).
* `docs/runtime/Sovereign_Execution_Lawbook.md:5`: every terminal path writes a receipt.
  The pipeline's own refusal names the stage and writes none (`enforcement`).
* `docs/proof/platform/CEN_TVP_Integration.md:13`: nothing commits without an answer
  that says so. An unhashable payload is stored and the call throws (`enforcement`).
* `docs/runtime/Law_Of_Laws_Ledger.md:24`: the ledger is append-only. An append through a
  second object on the file removes what the first wrote (`SharedSpec`). The same
  line: the entry hash is a stable hash of the entry body. It is the hash of the body in
  memory; a `Date` or an undefined field in a payload is another one in the file.
* `lawful-nova-shell` `policy.yaml:9`: every governed request produces a continuity
  event. A vetoed submit leaves none (`nova_node`).
* `GET /node/verify` regenerates a tool call whatever `enforce_invariants` decides, and
  charges the call to nobody's name: the task it rebuilds has no caller (`nova_node`).
* `standards/theta-bip39/v0.1/formal_verification_plan.md` expects encoded digits back
  from decoding. In the default mode the digits 2 and 3 have the same encoding, a
  compound glyph; only strict mode keeps them apart (`theta_codec`, and
  `thetaCodec.test.ts:101` documents it).
* The facade validates a step before it records it. The span manager's own `recordTrace`,
  whose refusals are called `EXECUTION_UNGOVERNED` too, records one under a revoked or an
  unknown token; `governedMemory.test.ts:98` validates and records in two calls
  (`governed_memory`).
* `POST /node/result` asks the provider without `enforce_invariants`: no charge, no
  receipt, only an event (`nova_node`).
* The orchestrator answers `ok: true` although every action of the plan was denied or
  skipped; the answer's `results` say so (`orchestrator`).

## 7. Not modelled

* *Lawful Nova federation* (`mesh.py`, `consensus.py`, `federation.py`, `status.py`).
  Receiving gossip appends one line, and the mesh and the consensus are computed from
  the log at each request. Nobody in the repository calls `gossip_to_peers` or writes
  a handshake receipt, so when gossip is sent would be an invention of the model.
* *Patch provenance and proposals*. The provenance chain is not connected to the patch
  ledger, and a proposal is born DEPLOYED.
* *AAIS bus*. A check reads the freeze flag and sends in one synchronous call, and the
  bus keeps nothing else; no order of calls separates the two readings.
* *CRK-1* (`aaes-os/runtime/crk1`), used by the conformance tests only. A call runs without
  a pause up to the one write of a receipt or a fault under its run id, which replaces
  an earlier one.
* *Runtime v01* (`src/runtime/v01`), a demonstration: a synchronous gate that looks for one
  earlier event of the span before it appends the next.
* *Measuring and law packages* (`mri-instrument`, `nimf`, `omega-stress-harness`,
  `constitutional-evolution`, `invariant-registry`, `evidence-receipts`): floating-point
  scores and hashes of their arguments, without state over time.
* *Image studio* (a stateless server in front of providers), the Nova daemon and desktop,
  consoles, frontends, scripts, bindings
  and papers: providers, interfaces and glue. `aaes-os/packages` repeats `packages`.

In the modelled parts: the hub on the global pattern ledger and listeners that
unsubscribe during an emit; the receipt hash chain and the invariant DSL of the
enforcement node; the summaries the trace store is read for; evidence exports and
policy diffs of the Nova node, and the chat surfaces of `nova/api.py`, which serve providers
outside the node.
