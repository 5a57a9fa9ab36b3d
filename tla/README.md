# Verification of the VHEATM control plane

VHEATM (`src/src/vheatm_control`) is the local control plane of an audit
framework. It decides which gates an audit has to pass, keeps the audit's
session so that it can be resumed, lets tools run only under an approval, and
records where every claim comes from. This directory holds TLA+ models of its
stateful core, the TLC configurations that check them and the TLAPS proofs
about them.

Run everything from this directory: `tlc -workers 2 -config X.cfg M` for a run
of `PROJECT.json` (module `M`, configuration `X.cfg`), `tlapm M.tla` for the
proof modules.

## 1. Inventory

| Component | State it keeps | Operations | Talks to | Hard behaviour | Correct when |
|---|---|---|---|---|---|
| Session store (`session_store.py`) | SQLite tables `sessions`, `events`, `objects`; CAS files | `create_session`, `append_event`, `transition`, `attach_plan`, `resume`, `repair_check`, `put_object`, `get_object` | plans of the evaluator, transition table of the lifecycle | concurrent callers, crash between CAS rename and COMMIT, retries by idempotency key, unlocked reads in `resume` | journal replays; row and journal agree; no answered event is lost; plans only move forward |
| Lifecycle (`lifecycle.py`) | state and event list of an audit | `transition`, `to_document`, `from_document` | session store | a long walk of legal moves | only listed moves happen and a document replays |
| Tool broker (`tool_broker.py`) | ledger of used tokens, in memory or a directory | `evaluate`, `TokenLedger.consume` | sandbox, providers, analyzers | threads and processes presenting one token, restarts, wall clock set back, consume that fails half-way | a token allows one use; a decision tells the truth about it |
| Sandbox executor (`sandbox.py`) | none between calls; a subprocess during one | `run` | tool broker | commands that hang or flood, failures after the launch, clock set back | launches only what was allowed; ends; records match what happened |
| Provenance registry (`provenance.py`) | records and journal in memory, one file on disk | `add_source`, `add_validation_receipt`, `add_claim`, `load`, `save` | reports, release evidence | concurrent saves, failures around the rename, order of reading a document back | nothing saved is lost, references resolve, the journal is append-only, a saved file can be loaded |
| Activation language (`activation.py`) | compiled expressions (cache) | `compile_activation`, `evaluate` | evaluator, router | three-valued logic over partial contexts | a verdict never depends on an unresolved field |
| Evaluator and plan revision (`evaluator.py`) | chain of immutable plans | `evaluate_manifest`, `assert_plan_matches`, `revise_plan` | session store, router, execution | amendments in any order over many revisions | obligations never silently shrink |
| Module router (`module_router.py`) | none; reads registry, documents and instructions from disk | `validate_module_repository`, `load_and_route` | evaluator, execution | dependency closure, activation policies, two recursive graph searches, a repository edited between plan and routing | a module is selected with what it needs and only for a reason; searches are exact |
| Execution (`execution.py`) | run records, artefacts | `run_module`, `validate_module_run`, `derive_gate_results` | router, provenance, broker receipts | stale or foreign artefacts, several runs of a module, two validations against two contracts | a gate passes only on a validated run of the module that owns it; what is recorded is not refused later |
| Report validator (`report_validator.py`; the manifest validator is `validator.py`) | none | `validate_report_semantics`, `validate_report_file`, `derive_cycle_status` | execution, provenance, MCP server | cross references between documents, two callers with different arguments | what is accepted as complete is earned; an honest report is accepted |
| Independent judge (`judge.py`) | a child process and a queue | `build_blind_packet`, `run_independent_judge`, `resolve_hitl`, `sign_verdict`, `compare_verdicts` | providers, release evaluation | process joined before its queue is drained, timeout racing an answer, a child that dies in its reply, a reply the caller cannot handle, a judge revoked later | an accepted verdict was given completely; a call ends once, in a verdict, an escalation or an exception |
| Providers (`providers.py`, `provider_policy.py`) | allowlist file, ledger of network tokens | `run`, `verify_provider_run` | broker, judge, pilot | payload gone but reply lost, ledger that fails half-way, callers that die, allowlist edited meanwhile | runs tell truly what left; one token sends once |
| Release evaluation (`evaluation.py`) | none; reads evidence, keys, allowlist, bundle | `evaluate_release_gates`, `validate_release_report` | judge, qualification, supply chain, trust registry, pilot | missing, broken or contradictory evidence; keys of the wrong role | a gate passes only on verified evidence that meets its threshold |
| Pilot (`pilot.py`) | revisions its callers keep | `prepare_pilot`, `rollback_pilot`, `complete_pilot` | release evaluation, providers | stale reports, runs of other sessions, forks of revisions | a canary rests on evidence about the bundle on disk; a completed pilot on runs of its session whose provider is listed |
| Trust registry, signer (`trust_registry.py`, `signer_service.py`) | key documents; a socket | key resolution, `sign` | release evaluation | expiry, revocation, late answers | only current keys verify |
| Analyzers (`analyzers.py`, `structural_probe.py`, `python_linker.py`, `semantic_profiles.py`) | none | source analysis | provenance | none: pure functions over syntax trees | outputs bound to their inputs |
| Qualification (`qualification*.py`, `host_*.py`) | none | measurement harnesses | release evaluation | statistics over corpora | thresholds applied as frozen |
| Supply chain (`supply_chain*.py`, `bundle.py`) | none | digests and attestations | release evaluation | canonical hashing | digests bind the bytes |
| Capability ledgers (`capability_ledger.py`, `migration_capabilities.py`, `overlay_capabilities.py`) | none | document cross-checks | release | none | documents agree |
| Adapters and shared types (`mcp_server.py`, `init_cmd.py`, `doctor.py`, `policy.py`, `models.py`, `serialization.py`) | none | thin wrappers | all | none | - |

How they interact: the evaluator makes a plan for a bundle; the router turns
its gates into modules; execution runs them through providers and derives the
gates; the report validator derives everything again from the report; the
session store journals the cycle. Tools run through the broker, commands in the
sandbox and network requests in the providers, each on a token the broker's
ledger admits once. Judges, qualification, host and supply-chain evidence meet in
the release evaluation, and the pilot is prepared from its report.

`PROJECT.json` lists the hazards of the code line by line with the properties
that cover them. Those a reader may miss there, because nothing in the
repository says what should happen: a run is not bound to the plan it was made
for (`execution.py:27`); an old ready revision of a pilot can be completed after another was rolled back
(`pilot.py:169`); evidence is verified again as of the time of the report, however
late (`evaluation.py:697`); the allowlist is not read again between the broker's
answer and the payload (`providers.py:345`); `case_count` of a private receipt is
never compared with its `case_refs` (`qualification_private.py:129`); pilots,
provider runs and their receipts are not signed, so that anyone can write one; a
registry may give two roles one key, which only the evaluation of the evidence
refuses. The models let all of these happen. That an open escalation can be
resolved twice (`judge.py:409`) is outside them: `resolve_hitl` is not modelled.

## 2. Modules

| Module | What it is |
|---|---|
| `Lifecycle` | `ALLOWED_TRANSITIONS` of `lifecycle.py` and the test every user of it makes |
| `AuditJournal` | abstract specification: an append-only list of journal entries and what callers are told of it |
| `SessionStore` | `session_store.py`: one session, several callers, crashes |
| `MCSessionStore` | instances of it for TLC |
| `SessionStoreProofs` | proofs for any number of callers, plans, keys and events |
| `SingleUse` | abstract specification: what an approval token promises |
| `ApprovedExecution` | `SandboxExecutor.run` with `ToolBroker.evaluate` and the two ledgers, composed |
| `MCApprovedExecution` | instances for TLC |
| `ApprovedExecutionProofs` | proofs for any number of threads, processes, tokens, restarts and any clock |
| `ProvenanceRegistry` | `provenance.py`: registries in memory, the shared file, `save` under its lock |
| `MCProvenanceRegistry` | instances for TLC |
| `ProvenanceRegistryProofs` | proofs for any number of callers and records |
| `PlanRevision` | `evaluator.py` and the evaluation half of `activation.py`: plans, their revisions, three-valued verdicts |
| `MCPlanRevision` | the conditional gates of `manifests/vheatm-v17.yaml`, contexts and amendments for TLC |
| `PlanRevisionProofs` | proofs for any manifest, contexts and amendments and chains of any length |
| `ModuleRouter` | `module_router.py`: what makes a repository valid, and routing as a function of repository and gates |
| `RoutingSearch` | the loops of `module_router.py` step by step: the cycle search, the queue of dependencies, the search for an order |
| `MCRoutingSearch` | dependency graphs for TLC |
| `RoutingSearchProofs` | proofs for any repository, keys and gates |
| `ModuleExecution` | `execution.py`: records of runs, their validation, derivation of gate results |
| `AuditReport` | `report_validator.py`: what makes a report acceptable |
| `AuditCycle` | the four composed: plan, route, run, submit, while the repository is edited |
| `MCAuditCycle` | instances for TLC: three modules as in `modules/`, valid repositories, ten that break one rule each |
| `AuditCycleProofs` | proofs for any repository, provider and order of edits |
| `BoundedCall` | abstract specification: each call ends once, in a complete answer, an escalation or an exception |
| `JudgeVerdict` | the pure part of `judge.py`: packets, verdicts, signatures, agreement; used by `Judge` and `Qualification` |
| `Judge` | `run_independent_judge` with the child process, its queue and the policy file |
| `MCJudge`, `JudgeProofs` | instances for TLC; proofs for any packets, replies and size of the pipe |
| `ProviderCalls` | `providers.py`, `provider_policy.py` and the broker for requests of class network |
| `TrustRegistry`, `SupplyChain`, `Qualification` | verification of keys, of release artefacts, of measurements and judged populations |
| `ReleaseEvaluation` | `evaluation.py`: metrics from evidence, the sixteen gates, the report |
| `Release` | evaluation, pilots and provider calls composed, while bundle and allowlist are edited |
| `MCRelease` | instances for TLC |
| `ReleaseProofs` | proofs about provider calls, evaluation and pilots, for any evidence, registries, callers and crashes |

### Session store

`row`, `journal`, `objects` are the committed tables, `casFiles` the files in
the CAS directory, `tx` the one write transaction `BEGIN IMMEDIATE` admits,
`seen` the reads an unfinished `resume` has made, `reply` the last answer of
each caller. Everything a call reads and computes inside its transaction is one
step, because nobody else can write meanwhile; renaming the CAS file
(`WriteSnapshot`) is a step of its own because it survives a rollback, and so
is `Commit`. `resume` is three steps, one per SELECT that runs outside a
transaction. `Crash` ends a caller anywhere.

Abstractions: an event hash is the sequence of contents it covers, a CAS id is
the snapshot it is the digest of, so equality of digests is equality of what
they cover; timestamps and actors are left out; one session is modelled, since
no statement of the store touches two; a reply keeps, beside the event it returned,
the key, type and data the call asked with, which no code reads; the two keys of the
events table, number and idempotency key, are `Clashes`; callers do not forge `event_type`
`"plan_attached"` through `append_event`; a plan stands for its id and digest,
and `attach_plan`'s early reads of immutable columns are part of its
transaction. Tampering with the files is not modelled.

### Approved execution

`call[r]` is the call thread `r` is in and the stage it has reached, `spent`
the ledgers, `launched` every command ever started with the evidence it was
started on, `report` what the caller was told. `ConsumeMarker` is
`DirectoryTokenLedger.consume`: creating the marker with `O_EXCL` is atomic, and
the write after it may fail with the marker in place. `ConsumeLookup` and
`ConsumeAdd` are the two statements of `InMemoryTokenLedger.consume`. `SetClock`
sets the wall clock to anything at any time, which the three readings of a call
(start, evaluation, end) must survive. `Restart` kills a process: its calls, its
commands and its memory are gone, the directory is not.

The executor receives requests of class `execute`; a request stands for its
digest and a token for its signed claims. `Exits` is not fair: a command need not
end. `Stops` is the monotonic deadline, the output limit, or a reaping that
times out, in which case `run` raises.

### Provenance registry

`mem[c]` is the registry of caller `c`, `root[c]` the root hash it holds from
its last load or save, `file` the document on disk, `lock` the holder of the
file lock. `Add` is any of the three `add_*` methods with a new record: inserted
first, journalled second, an empty actor refused only by the second.
`SaveBegin` obtains the lock and examines the file; `SaveReplace` and
`SaveFails` end the call, the latter before the rename or after it. `Crash`
loses a registry and releases its lock.

Calls that raise without changing anything are not steps. A record's id covers
only part of it (`captured` in `MCProvenanceRegistry` is the same source at
another time, under the same id). The root hash is modelled by the records it
covers; it does not cover the journal. A caller of `load` may keep the registry or
only take note of its root hash. The file is not edited by hand, documents
without a journal are not read, and `fcntl` is available.

### Activation and plan revision

`plans` is the list of plans of one audit, each with its normalised context, its
active and undecided gates and its parent; any plan may be revised again, so
that lines of plans may fork. `draft` is the local state of a `revise_plan` call:
`Revise` checks the parent plan, each `MergeKey` is one turn of the loop of
`_merge_context`, in any order of the keys, and `Evaluate` is the rest:
the facts and findings are settled, the child plan is evaluated, and it is
refused when an active gate of the parent would not be active in it.
`normalize_context` is `Normalized`, `assert_plan_matches` is `Matches`, the DSL is
`Truth`: an expression is the sequence of its nodes, operands before what they are
operands of, `PartTruth` is `_evaluate_expression` on one node, `Truths` the
(recursive) function from the nodes to their three values.

Contexts are functions on the keys they have. All fourteen fields that
`_merge_context` calls immutable are in `Immutable`; the contexts of the run have
those that matter to an evaluation, the others being free text that is only
compared. The `amendments` list is left out. Contexts and amendments are assumed
valid against `schemas/audit-context.schema.json` (`ContextsAssumption`); of an
amendment the code does not check this before it merges it. An amendment that
upgrades a context to version 2 brings the fields version 2 requires. The schema
also gives that a ledger is finite and that no field of it is `unknown` as a whole
(`Known`); expressions are those `_validate_expression` lets through, over the fields
the manifest allows (`ExpressionsAssumption`, `FieldsAssumption`).
`ManifestAssumption` is what can be read off `manifests/vheatm-v17.yaml`: no
activation reads a field twice, and every `and` has an operand that compares a
setting with a default (`mode`), which no revision changes. Findings of
one ledger have different ids. A plan is known by its place in the list instead
of its digests.

### Audit cycle

`bundle` is the root of the repository on disk, which `EditRepository` changes at
any time; `Contents` gives the repository of each root. `plan` and `selection` are
what the caller last obtained, `runs` the records `run_module` returned, in any
order, of any attempts, kept across plans. `EvaluatePlan` binds a plan to the
bundle or, through the MCP tool, to none. `Route` needs a valid repository
(`RepositoryValid`) of the plan's root. `RunModule` calls a provider that answers
anything of `Outcomes` or raises, and keeps the record if `RunGood` holds.
`SubmitReport` offers reports a caller could write: with the derived results, with
records or modules left out, with a pass or a status that was not earned, overdue;
and keeps the first that is accepted by the command or by the MCP tool.

Abstractions: a digest is the revision of the file it covers
(`RevisionsAssumption`); an artefact, a run or a report is known by its content;
`Selected` is the least closed set the code computes by a worklist, `Acyclic` is
what `_find_cycle` looks for (`RoutingSearch` relates both to the loops); rules on the
form of documents are one flag; token estimates are given; the lifecycle log of a
report is not replayed, the report has the state it would replay to.

### Searches of the router

One `load_and_route` call, from the search for a cycle to the order of the result.
`stack` has the calls of the nested function `visit` that did not return yet, `rest[m]`
what the loop in `visit(m)` is still to visit, `todo` the same for the loop around
it; `visiting` and `visited` are the code's sets, called `temporary` and
`permanent` in the second search. `Visit` and `Place` are one turn of a loop with the
test at the head of `visit`, `Leave` is the return, `AddDependencies` one turn of the
queue. `ModuleRouter` says what the loops come to: `Acyclic`, `Selected`,
`RepositoryValid`. `AuditCycle` uses those.

Abstractions: a loop takes its elements in the code's order where the code sorts
(by id around the cycle search, by phase, priority and id in the second) and in any
order where it goes by the document or by a set. The conditions that need no
search are `DocumentsValid`; the code appends the issue of the cycle to those
it found before, and a repository with an issue of any kind is refused, so
`EndValidation` tests them after the search.

### Judge

`call` is the caller's place in `run_independent_judge` (starting, joining, checking,
reading), `child` the process, the part of its reply in the pipe (`written`), the
part still held by the feeder thread (`left`) and its exit code. `Spawns` or
`StartFails` is `process.start()`. `Joined` and `Deadline` end `join()`, `Look` and
`TimesOut` are `is_alive()`; the child may exit between the two. `FindsNothing`,
`Fails`, `Rejects`, `Concludes` are the ends of the call that return; `Raises` is an
exception that no clause of it takes: a reply that cannot be unpickled
(`judge.py:222`), the text of a provider's exception that cannot be encoded for the
digest of the escalation (`:197`), a label that no set can be asked for because it is
a list or an object (`:251`, where `_build_verdict` meets the decisions in turn and
may refuse an earlier one first). When the child died within its reply (`Torn`) no
action is left: the caller holds the writing end of the pipe and `get_nowait()`
waits. `Revoke` edits the policy at any time; `Sign` and `Accept` are what callers do
with outcomes. `sign_verdict` signs any dictionary of the right shape: so do the
holders of other keys in the model (`Drafts`), while the holder of `JudgeKey` is
assumed to sign only verdicts that calls returned. The provider decides nothing about
the size of the pipe: `PipeSize` units fit, a reply has any size.

### Providers, release, pilots

`call[c]` is the stage of a caller in `ExternalAnalyzerProvider.run`, `spent` the
ledger directory, `sent` everything that reached a provider, `runs` what callers were
handed back. The ledger may raise before or after its marker exists, the transport
before or after the payload left, a caller may die anywhere, and the allowlist may
be edited between any two steps. `reports`, `pilots` and `runs` are documents their
callers keep and may hand in again; none is signed, so that beside them callers may
hand in others of the same shape that nobody made (`OtherReports`, `OtherPilots`,
`OtherRuns`; together `KnownReports`, `KnownPilots`, `KnownRuns`). `Evaluate` is
`evaluate_release_gates` on a package of evidence, a registry or keys handed over, a
root and a time; its result is a function of these and of allowlist and bundle on
disk. `PrepareCanary` evaluates again as `prepare_pilot` does. `complete_pilot` is a
step for each of the two readings of the allowlist that it makes for each run:
`VerifyRun` is `verify_provider_run`, `CountRun` the rest of the loop; `Complete` is
what follows it, `Abandon` any of its refusals. Two things are history, which the
code does not keep: the evidence a canary was prepared on (`evidence`), so that the
properties of canaries speak of that very evidence and not of some package with the
same ids, and the allowlists in force during a completion (`seen`).

A document of evidence is a record of what its verification looks at, with its id
standing for its content, or malformed, as may be the lists of verdicts and packets; a signature is the key and key id it was made with.
Metrics are integers (thousandths, milliseconds). The thresholds are those of
`_RELEASE_RULES`, literally.

## 3. Runs

| Run | Shows | Bounds and why they are enough |
|---|---|---|
| `session_store` | journal, row, snapshots, answers, resume, plans and the refinement of `AuditJournal` hold; row and journal part only by a late repetition of `attach_plan` | 2 callers: every race here is between two; 4 events: creation, two plans or an attachment and two appends, so that a row can be rewound and run into the journal again; `MaxOrphans` 1 CAS file left by crashes; keys include the one `attach_plan` derives, so that calls repeat a key with the same request, another body or another target; staying, a legal and an illegal move |
| `session_reattach` | violation: late re-attachment rewinds the row | 4 events, with a legal walk of two moves |
| `approvals` | single launch, truth of records, the promise of tokens, directory ledger | 2 processes, 2 tokens (one for a request the controls refuse), clock 0..2 so that each token is early, valid and late, 2 calls: they may race, or one follows a restart |
| `approvals_memory` | the in-memory ledger keeps what decisions name; calls end | 2 threads of one process, clock 0..1, 2 calls |
| `provenance` | nothing is lost, the file grows, references resolve | 2 callers; a source in two versions of one id, a receipt, a claim it validates and a claim derived from that: every kind of reference; empty actors included |
| `provenance_lineage` | violation: a lineage against the order of ids cannot be loaded | 2 callers, a source, a claim and a claim derived from it whose id is before it |
| `replanning` | plans match, verdicts are exact, obligations are kept, what is decided stays decided | one gate of each form of condition in the manifest; 4 contexts (version 1, none, version 2 with facts given once and in both places), 10 amendments that agree, conflict, upgrade, or give a fact in another place; 3 plans, so that a revision is revised, or a plan twice |
| `audit_cycle` | a complete report is earned; records survive derivation; derived states are never refused; a selection is the least closed set that has what the plan asks for, with one owner of each active gate | 3 modules and 4 gates: a dependency, a module that asks for all its gates and one for any; a valid repository, two it is edited to (one new revision of a document and an instruction file, one in conflict and over budget), ten that break one rule each; 8 outcomes of a provider; 1 edit and 2 runs: what is stale is stale after one edit, and two runs are two attempts or two modules |
| `routing_search` | the cycle search is exact, what is refused is invalid and the reverse, the order is of the least closed selection, topological, and keeps to the keys but for dependencies, routing ends | every dependency graph of 3 modules of which one may depend on itself, so that cycles of each length start and end anywhere; the 64 graphs without a cycle of 4 modules along one order, with keys along it and against it; each set of gates; 5 repositories with another fault or with dependencies that are not loaded |
| `judge` | accepted verdicts were given completely, revoked judges get none accepted, calls implement `BoundedCall` and end | 2 good and 3 bad packets, 2 judges, a pipe of 2 units with replies of 1, 2 and 3: one fits, one fills, one overflows; a label that is a list, an error text that cannot be encoded, a reply that cannot be unpickled; 2 calls, so that a reply of one could reach the next; 2 keys and a verdict written by hand |
| `release` | a canary gets ready only on complete, current evidence that meets every threshold and was signed in role | one honest package and seven that differ in one respect; three registries and keys handed over; a report written by hand that claims all gates for the vulnerable package; 2 bundles, 2 edits, 2 times (the scan is fresh at one of them), a report and a pilot |
| `pilot` | runs tell what left, tokens are used once, completed pilots come from ready ones and rest on runs of their session, of which those the adapter made reached the provider | 2 callers, 2 requests of two sessions, 2 tokens, 2 calls that may race for one token, 1 edit of the allowlist, also within a completion; a report, a ready canary and a run that were written by hand; two pilot revisions |

On the instance of `replanning` the Python code was run on the same contexts and
amendments: it makes exactly the 314 histories of plans the model has.
Numbers are cut off at 4, above every threshold of the manifest.

Symmetry among callers is used where only safety is checked.

Fairness. `FairSpec` (executor): the steps of a call are weakly fair, because each
is either local or bounded by the monotonic deadline of
`_run_bounded_process`; `Exits` and new calls are not. `FairSpec` (judge): the
caller's own steps are weakly fair, among them `Deadline`, the timeout of `join()`;
nothing is assumed of the child. `Spec` (router searches): a routing is one call of
one thread that waits for nobody, so `Next` is weakly fair. No fairness is assumed of
the session store, where nothing is said of what must happen: an open transaction
waits for nobody.

Deadlock is not checked where the system may stop: bounded numbers of calls,
edits, runs and reports are used up.

## 4. Findings

Two runs show the code violate what the repository says of it; each is quoted
against its line in `PROJECT.json`, and both were reproduced by running the
Python code.

1. `session_reattach`: `attach_plan` repeated late rewinds the row.
2. `provenance_lineage`: some saved registries cannot be loaded.

Further disagreements are stated as definitions that no run checks. To see one,
add the definition to the configuration named; TLC then finds a behaviour.

| Definition | Configuration | What the code does |
|---|---|---|
| `AnswerAsAsked` (invariant) | `SessionStore.cfg` | an idempotency key reused with another target state is answered by the old event (`session_store.py:331`) |
| `NoFalseAlarm` (invariant) | `SessionStore.cfg` | `resume` or `repair_check` that overlaps an append may report a healthy session as damaged (`session_store.py:506`) |
| `SingleLaunch` (invariant) | `ApprovalsMemory.cfg` | `InMemoryTokenLedger.consume` looks up and adds in two statements: two threads may launch on one token (`tool_broker.py:125`) |
| `FactsKept` (invariant) | `PlanRevision.cfg` | a revision may count fewer mandatory findings, or lose a discovered fact, as long as no active gate is switched off by it (`evaluator.py:426`) |
| `ToolsEquivalent` (invariant) | `AuditCycle.cfg` | the MCP tool `vheatm_validate_report` accepts what the command refuses, since it passes neither bundle root nor canonical selection (`mcp_server.py:75`); the skill calls them equivalent |
| `BlockedNotComplete` (invariant) | `AuditCycle.cfg` | `completion_blocked` of a selection decides only the exit code of `vheatm-route`; a report on a selection in conflict or over its budget is accepted as complete, which `docs/module-system.md` excludes (`module_router.py:527`) |
| `FailureIsOutage` (action property) | `Judge.cfg` | the comment in `_judge_worker` (`judge.py:193`) has provider failures converted into typed outages; four of them end the call with an exception instead (`judge.py:251`, `:222`, `:197`, `:214`) |
| `CompletedPilotsHappened` (invariant) | `Pilot.cfg` | a pilot completes on runs that no adapter made, or from a ready revision that nobody prepared: `verify_provider_run` and `_require_current_pilot` compare a digest with the content it is of (`providers.py:215`, `pilot.py:45`) |
| `TimeoutMeansLate` (invariant) | `Judge.cfg` | a judge that answers at once with more than the pipe holds is reported as timed out: the caller joins the child before it reads (`judge.py:215`) |

Seen while modelling, without a definition of their own:

- `add_source`, `add_validation_receipt` and `add_claim` insert their record before
  `_append_journal` refuses an empty actor: the record stays without a journal
  entry, and a file saved with it cannot be loaded.
- A plan of the MCP tool `vheatm_evaluate` is bound to no bundle, so `vheatm_route`
  refuses it.
- `vheatm_route` with `include_instructions` always raises.
- A judge's child that dies in the middle of its reply leaves its caller waiting in
  `get_nowait()` for ever; `CallEnds` excepts this case (`Torn`).

## 5. Proofs

Assumptions are the named ASSUMEs on the constants, which every run evaluates.
Durability of the directory (`Durable`) is a hypothesis of the two theorems that
need it.

- `SessionStoreProofs`. `RowWithinJournal` is not inductive: whether the row is
  rewound depends on the transaction that is open, and whether a new event fits
  the journal depends on the primary key. `SoundInv` adds that an open
  transaction was computed from the current row (nobody else can write), that a
  fresh event's number is free and, as the key forbids anything else, one past
  the end of the journal, and that a repeated attachment names the journal's
  last plan event. From it: types, replay, row within journal, snapshots
  stored. `PlanStep` carries attach_plan's comparison to the COMMIT. `AnswerInv` says that an answer has
  the type and data of its request (`Matches`), `KeysOnce` that no key is journalled
  twice, and `Owed` what a caller will be told when its transaction commits and that
  the key of a fresh event is still unused; `JournalImplemented` then maps a COMMIT to `Record` or
  `Repeat`, everything else a caller sees to `Forget`, and the rest to stuttering.
  `SeenInv` is why `resume()` is right without a lock: the journal only grows, so a
  row read earlier either still is that of the journal or no longer replays. `PartOnlyByReattaching`
  is finding 1 from the other side: of all steps only the COMMIT of a repeated
  `attach_plan` for the current plan can part row and journal. `InStep` is the
  invariant such a call breaks: under `DisciplinedSpec`, without these calls, it gives
  `RowMatchesJournal`.
- `ApprovedExecutionProofs`. `TypeInv` carries that a call past its evaluation was
  verified on the clock it read. `ApprovedInv` adds that a call on its way to the
  launch has an accepted request. `HoldInv` says that a token held by such a
  call is in the ledger, held by no other call and used by no launch: the
  atomicity of `O_EXCL` makes it inductive, and single launch follows.
  `RecordInv` ties reports to launches through unique call numbers.
  `PromiseKept` maps `ConsumeMarker` to `Burn`, `Launch` to `Launch`, all else to
  stuttering.
- `ProvenanceRegistryProofs`. `SaverInv`: whoever holds the lock knew the records
  of the file and its registry extends the file. Nobody else replaces the file
  meanwhile, so it still holds at the rename; without it none of `NothingLost`,
  `FileGrows`, `SavesUpToDate` is inductive. `Closed` and `Once` give
  the references and the uniqueness of journal entries one registry at a time.
  `LoadableIfOrdered` states the exact condition under which saved files can be
  read back: finding 2 is one of its hypotheses failing, the half-done insertion
  of section 4 the other.
- `PlanRevisionProofs`. `ObligationsKept` relates plans any number of revisions
  apart. `PlansInv` says it of a plan and its parent (`DirectlyKept`), and it is
  transitive; a plan's line is the least set that holds the plan and the parent
  of each of its members, so the set of all plans whose obligations it keeps
  contains the line, without induction. `DraftInv` is the invariant of the merge
  loop: whatever was merged, the context of the parent is kept (`MergedKeeps`,
  key by key) and a version 2 context is complete when nothing is left.
  `PlanSound` adds that the `mode` and `context_mode` of a version 2 plan are those
  its other fields imply; without it normalisation could change them.
  `PlansAlwaysMatch` rests on `NormalizedTwice`.
  `VerdictsAlwaysExact` says that the three-valued DSL is exact: `true` or `false`
  when every completion of the unknown facts gives that, `unknown` when completions
  differ. It is an induction over the nodes of an expression. The library's
  induction theorems have operator parameters, which no backend can instantiate,
  so `LeastExists` derives from the well-foundedness of finite sets that a set of
  naturals has a least element, `PartsInduction` that a set closed under "all
  operands are in it" holds all nodes, and `TruthsDef` that `Truths` satisfies its
  equation. That a decided verdict is right (`CompletedTruth`) needs nothing; that
  an undecided one is open (`UndecidedOpen`) needs that the operands of a node read
  different fields (`ReadOnce`), so that completions of one can be combined with
  those of another (`Independent`). `DecidedAlwaysStays` needs more than
  monotonicity of the DSL, because a revision may also shrink a fact:
  `FalseStaysDecided` shows that a gate that was `false` does not become `unknown`
  because of the setting each `and` compares (`Guarded`), and `KnownInv` that
  revisions, merges and normalisation keep the facts `Known`.

- `AuditCycleProofs`. `CompleteIsEarned` needs no history: the step that accepts
  the report holds all it needs. `PassDecided` takes a derived pass apart into a
  counted run of one owner, `ActiveGateEarned` adds that the selection is the one
  routing gives and that a valid repository has one owner for a gate. `IInv` says
  that the selection is that of the plan's bundle, which was valid, and that each
  record was good by the contract of some bundle; equal revisions are equal
  documents, so `RunsSurviveDerivation` follows from `GoodWithMore` and
  `GoodByLess`: more known artefacts, or a contract that asks for less, refuse
  nothing. `SelectionJustified` is that `Selected` has what the plan asks for
  (`ChosenAsked`), is closed (`SelectedClosed`) and least (`SelectedLeast`): of a group
  of modules there for its own sake only, what is left without it would be closed
  too. That an active gate has one owner (`OneOwner`) is the rule on complete
  repositories. `HonestReportsStand` is proved for any plan, selection and records:
  the states derivation gives are those the validator allows under the plan.
- `RoutingSearchProofs`. Both searches have one invariant, `SearchInv`, of the graph
  they go through and the modules they start from. The stack is a path without
  repetitions (`StackInv`), so that meeting a node of it closes a walk
  (`CycleCloses`, `WalkCircular`). What a node on the stack depends on is still to
  be visited, was visited or is next on the stack, and what was visited is closed
  under dependencies (`RestInv`). So nothing visited before depends on the
  module that is left, and `NoCircle`, which says of every set of visited modules that
  it is not circular, is kept without induction on graphs. At the end all modules are
  visited. For the order, `PlacedInv` says
  that what has its place has what it depends on before it, `KeysInv` that whatever
  overtakes a module of a smaller key does so beneath a selected one (`Overtakes`);
  that the second search never raises (`NeverRaises`) needs that the repository was
  found `Acyclic` by the first. `RoutingNearsEnd` is the safety half of `Ends`:
  every step shrinks what is to be visited, left or settled (`Shrinks`), or ends a stage.
  Together the theorems justify `AuditCycle`, where
  routing is one step.
- `JudgeProofs`. A verdict is accepted long after its call ended; `ResultsSound` says
  of every outcome what its child was like when it was read, `SignedReturned` that
  nothing is signed with the judge's key but returned verdicts, which rests on the
  assumption about its holder, `ChildInv` that reading starts after the child's end and
  that what is in the pipe is a reply. `BoundedCallImplemented` maps each end of a call
  to `Answered`, `Escalated` or `Raised`, `Start` to `Ask` and all else to stuttering.
- `ReleaseProofs`. `ProviderInv` ties the stage of each
  call to ledger and transmissions: a call past the broker holds a token that is
  spent, on which nothing was sent before `Send`, and call numbers are unique;
  without that neither `RunsTellWhatLeft` nor `SentOnItsOwnToken` is inductive.
  `PilotInv` adds that ready revisions carry no runs and that documents are never
  withdrawn, `CompletionInv` what a completion under way has found of the runs it is
  past (`CompletionSound`); together they make `CompletedPilotsRest` inductive. The
  properties of canaries follow from the evaluation that `prepare_pilot` repeats
  (`CanaryPrepared`): a gate that passes has all its metrics (`PassingGate`),
  each metric comes from one family of evidence that verified (`MetricFrom`,
  `AllVerified`), and verification is signatures in role (`VerifiedIsSigned`),
  scope (`VerifiedIsAboutDisk`), time (`VerifiedIsInTime`) and judged
  population (`VerifiedTrialsJudged`).

Proved of the models though no run lists them: `SelectedAlwaysExact` (contained in
`OrderExact`), `RoutingNearsEnd`, `DisciplinedRowsMatch`, `SavesUpToDate` and
`JournalledOnce` of the provenance registry, `CompletionIsCurrent` of pilots,
`AgreementIsEquality` of verdicts, and the types of all modules
(`TypeCorrect`, one in each module of proofs).

Every invariant, action property and refinement of the passing runs is a theorem.
Only model-checked is liveness (`CallsEnd`, `CallEnds`, `Ends`):
fairness and ENABLED are outside what the proof system's backends handle.

## 6. Plan

Done: session store, approved execution, provenance registry, plan revision,
audit cycle, the router's searches, judge, providers, release evaluation and pilots.
Still open, in this order:

1. The read, write and memory classes of the tool broker.
2. The stand-alone `AuditLifecycle` object and the signing service's protocol.

## 7. Not modelled

Canonical JSON, digests and signatures are assumed collision-free and are modelled
by what they cover. Analyzers, the measurement harnesses of qualification
(`qualification_runner.py`, `host_qualification.py`), capability ledgers, the
manifest validator, `bundle.py` and the command-line helpers are pure data
processing or thin wrappers without interacting state. The signing service is
input and output around one signature; its outcome, a signature or none, is part of
`Judge`. `resolve_hitl` returns a resolved copy of the escalation it is given, which no
other function reads. Building of evidence, attestations, registries and SBOMs is left out: the
models start from documents as they are handed in and model how each is verified.
Tampering with files and platforms without `fcntl` are outside the models.
