# ValidatedWorld: TLA+ models and proofs

ValidatedWorld keeps the reasons behind a project as a graph of nodes and
reviewed edges. Every change is previewed, reviewed impact by impact, and only
then written to one HTML document (or to a SQLite file). These modules model
what tests of the program rarely reach: several processes, editors, I/O errors
and crashes around one document or database, long command sequences of a review
session, damaged requests and a response file that moves under its reader, and
the graph algorithms on every small graph, valid or not. Line numbers refer to
`src/src/validated_world/`.

## Inventory

| Component | State it keeps | Operations | What must be true | Here |
|---|---|---|---|---|
| managed publication: `document_store.py`, `file_publication.py` | `workspaces`, the memory snapshot, the document file | begin and close a workspace, write, publish, export, retry-export | no reviewed snapshot is lost; nothing unreviewed is overwritten; reports are true; one writer | `Publication` |
| scratch file: `scratch.py` | the hidden sibling, leases, `ResponseTransport` with its spool and anchor, `owners`, `recovering` | start and stop a host, record, record_recovery, staging, read_responses | only the lease holder changes the file; a recovery record survives every failed step; a reader gets complete records in order | `Publication`; readers in `FramedLog` |
| review session: `application.py` | `Session`: changes, dispositions, references, preview cursor, agent decision | begin, apply, patch, expand, preview, review, agent review, write, discard | nothing is written that was not reviewed as it now stands | `ReviewSession`; the analysis of a batch in `Impact` |
| review packets: `review_packets.py`, `planning.py` | ownership, per-packet results, cached items, pages seen | plan, refine, packet, export, result | a packet is judged on what it shows; the packets together show everything | `PacketReview`, `Packets`, `Impact` |
| graph rules: `validation.py`, `models.py`, `canonical.py` | none (pure) | validate, project operations, closures | validity is a scope tree; closures are complete; a batch does not depend on its order | `ReviewGraph`, on growing changes in `GraphChanges` |
| SQLite authority: `storage.py`, `memory_store.py` | one database file | initialize, load, write, backup | a write applies to the base it names or not at all; a load is of one commit | `SqliteStore` |
| reads: `queries.py`, `protocol.py` | cursors | scope, context, path, pages | nothing is left out without a word; each record is on one page | `Reads` (not search, health) |
| bulk and merge: `bulk.py`, `merge.py` | none (pure) | bulk chunks, three-way merge | a merge takes what either side changed; chunks compose | `ThreeWay` |
| rules: `rules.py` | none (pure) | views, rules, set and Boolean expressions | a verdict exactly when the rules say something; a graph condition means what its name says | `Rules`, `Conditions` |
| `cli.py`, `__init__.py`, `__main__.py` | one `Application` per process | parse, print, NDJSON loop | each request one response | the loop, in `FramedLog` |
| `skills/.../ndjson_log.py` | frames in progress | framed requests, polling | a request runs as sent or not at all | `FramedLog` |
| `document_format.py`, `html_project.py` | none | parse, render, write_stage | round trip | `write_stage` in `Publication` |
| `artifacts.py`, `templates.py`, `path_safety.py`, `eng/`, `packaging/`, `samples/` | none | scanning, layout, releases, data | | not modelled: I/O, text, tooling |

How they interact: the CLI (one command per process) or the NDJSON host (one
process, many commands) calls `Application`, which calls `ProjectFiles`. For an
HTML document `ProjectFiles` opens a workspace (the document lease, the scratch
lease unless the process owns a transport, a memory snapshot of the graph).
A reviewed write is applied in memory, made durable as a recovery record in the
scratch file, rendered as a candidate behind that record, moved over the
document, and moved over it once more without the record. Processes share
nothing but the two files and the leases; a lease is held by the operating
system for a process and is free when the process dies. For a SQLite authority
`Application` calls `ProjectStore`, whose calls share the database alone. A
session calls the graph rules to analyse its batch, and the rules to judge it;
its evidence is divided into packets. The framed log client feeds the NDJSON
loop, and any process may poll the response file.

## Modules

| Module | Stands for |
|---|---|
| `ReviewedDocument` | the abstract promise: a document with one version, an accepted snapshot that is owed, and `Publish`, possible only from the version the snapshot was reviewed against |
| `Publication`, `MCPublication`, `PublicationProofs` | workspaces, saves, publication, retries, leases, hosts, crashes; the refinement mapping to `ReviewedDocument`; theorems about the files and leases; theorems about reports and about the promise |
| `ReviewSession`, `MCReviewSession`, `ReviewSessionProofs` | one change session of a host with its clients; an instance; theorems |
| `PacketReview`, `MCPacketReview`, `PacketReviewProofs` | plan, pages, exports and results of a packet review; an instance; theorems |
| `SqliteStore`, `MCSqliteStore`, `SqliteStoreProofs` | calls of clients on SQLite databases; an instance; theorems |
| `FramedLog`, `MCFramedLog`, `FramedLogProofs` | framed requests over a faulty wire, the response file, its reader; an instance; theorems |
| `ReviewGraph`, `ReviewGraphProofs` | graphs, validation, projection and closures, as operators; what they compute, for every graph |
| `Impact`, `Packets`, `ThreeWay`, `Reads`, `Conditions`, `Rules` | the other pure algorithms on graphs, as operators |
| `GraphChanges`, `GraphChangesProofs`, `AnswerProofs` | a change that grows by patches beside someone else's graph, with what impact, packets, merges, bulk plans, reads and the graph conditions of rules must say of it; theorems about the change, and about the answers of reads, plans and conditions |
| `MCGraphs` | the graphs all of this is tried on, and the properties of the verdicts of rules |

`SqliteStore`, `Impact`, `ThreeWay`, `Reads` and `Conditions` use the graphs of
`ReviewGraph`, its `validate_graph` and `project_graph`; `Packets` uses the
analysis of `Impact`, `Rules` the conditions of `Conditions`, and `GraphChanges`
composes `Packets`, `ThreeWay`, `Reads` and `Conditions`.
`ReviewSession` takes what `Impact`
computes as constants, so what is shown of sessions holds for any analysis, and
`PacketReview` takes what `Packets` computes. Definitions whose comment begins
with "Mutant" are wrong on purpose: a property is worth its run only if putting
one of them in place of the definition it resembles makes TLC find it violated.

### Publication

State of `Publication` and the code it stands for:

| Variable | Code |
|---|---|
| `document` | the HTML file: which content, and whether a recovery prefix precedes it |
| `scratch` | the file `.name.tmp.html`: absent, owned (header), torn (a record in it was cut short) or bare (no header); the recovery snapshot it ends on, and the candidate behind the records |
| `documentLease`, `scratchLease` | `Lease(root, 'document')`, `Lease(root, 'scratch')` |
| `pc`, `op`, `target`, `seen` | the Python frame of a command in progress: where it is, what it publishes, the identity it read last |
| `workspace` | `ProjectFiles.workspaces[root]` |
| `host` | the process's `ResponseTransport`: live, spool, `recovery` |
| `reviewed` | `baseline` of the recovery data, and the graph the snapshot was edited from |
| `committed`, `published`, `outcome` | history only; no guard reads them |

A content is a number; equal numbers are equal bytes up to the recovery prefix.
A failing append has three outcomes, chosen by `IOFaults`: nothing written
(`refused`), a partial record (`torn`), everything written but fsync failed
(`unsynced`). Calls that release a lease or unlink a file the process owns do
not fail in the model except where an action says so.

Three constants are rules on the *environment*, not on the code. All are TRUE in
the `leases` run, whose properties need none of them:

* `ReuseUnpublished = FALSE`: a host keeps no second session or export going
  while it holds an unpublished snapshot. Run `reuse` shows what happens otherwise.
* `RetryRaces = FALSE`: nobody runs a command inside another process's
  `retry_export` between its read and its lease. The code does not exclude it:
  the record is read (249) before the lease is taken (257), and what is there is
  unlinked (263). With TRUE, `NoReviewedLoss` fails in the `recovery` run, and
  `BareCandidateIsPublished` fails as soon as two retries race with a host.
* `EditRaces = FALSE`: no editor saves between the last comparison of the
  document's bytes and the replacement. The code cannot exclude it (there is no
  compare-and-rename), and `NoLostUpdate` fails at once without it.

### ReviewSession

A session is an instance of `Session` in `Application.sessions`; a client sends
commands with the reference of the last response it looked at (`held`).

| Variable | Code |
|---|---|
| `edition` | the stored project, by how often it changed; stands for its state fingerprint |
| `active`, `session`, `base` | the entry in `Application.sessions`, its `session_id`, `base` |
| `operations`, `skip`, `dispositions`, `presented`, `supplemental` | the fields of the same names |
| `seen`, `decision`, `packets` | `preview_seen`, `agent_decision`, `packet_review` |
| `held`, `page` | clients: the reference, and the cursor it was given with a page |
| `judged`, `acknowledged`, `shown`, `outcome` | history only; no guard reads them |

What a batch affects, which context it needs and what evidence its nodes carry is
a function of the batch and the base graph (`Session._analyze`). Here it is a
constant, so every theorem or check about sessions holds for whatever analysis
the constants describe. A fingerprint is what it is a fingerprint of. The one
difference that matters is kept: `write` compares *how many* ordinals were
presented with how many there are (`Complete`), not which, and not their content.
The packet plan is one verdict here (`PacketResult`); `PacketReview` has the packets.

`Store` has four outcomes: saved; unpublished (the session ends, the document
does not change); the project changed but the session stays (another writer won
the race, or the transaction was committed and could not be read back); nothing
happened (busy or failed).

`PartialReviews` says whether a refused `change.review` may hold good items
before the refused one. They are recorded, and that is the finding below.

### PacketReview

`proposal` stands for the session's reference; changing it drops the plan, as
`apply`, `review` and `review_context` do.

| Variable | Code |
|---|---|
| `ownership` | `PacketReview.ownership`: which ordinals each packet owns; empty before there is a plan |
| `results`, `cached`, `seen` | `results`, `cached_items`, `seen` |
| `cursor` | clients: the page each would go on with, bound to plan, packet and items as the code's signature is |
| `delivered`, `blocked` | history only; no guard reads them |

A result is sent with a binding that names plan and items; a wrong binding is
refused and changes at most the cache (`Refused`). A position counts as presented
together with the items it is a position of, because the code keeps it under
their fingerprint: the same items made again find their old positions presented,
which is why the finding `terminal_block` needs no new reading. `Export` reads
all pages; `ExportFails` stops after some and restores what counted.

The evidence is divided by constants: `First` is the ownership a plan starts
with, and `OwnershipAssumption` says what `partition` does, that each ordinal is
in one packet. `Evidence` and `Owners` are there to say it. A part of a divided
packet gets a name that no packet has yet.

### SqliteStore

Each client is in one call, and each statement of a call outside a transaction
is a step: a load reads the project row, the nodes and the edges separately
(`storage.py:425`). A write loads and checks, then begins an immediate
transaction, compares the fingerprint again, executes the operations in the
order of the code (edges gone, nodes gone, nodes written, edges written), and
commits. Each of these four loops is one step on the set of its operations, which
is what its statements amount to: they name different rows, and the constraints
are deferred or looked at row by row. The statements are refused by the constraints of the schema: foreign
keys, primary keys and the unique scope parent. `initialize` and `backup` publish
a new file under a name that may be taken by then. SQLite itself is taken at its
word: one writer at a time, a statement sees one committed state, an uncommitted
transaction leaves nothing. `Abandon` is a failed check or statement, a lock not
given in time, or a crash.

### FramedLog

A request is sent as a begin frame, its fragments and an end frame with a
checksum. `Fault` loses, repeats or damages the frame in front. The engine takes
a frame when it has done with the request before; what a request makes it do is
a list of steps (`todo`): records that are appended in two pieces, so that a
reader may find half a line, and for a request that saves, the start and end of
a publication, between which the response file may move away (`Move`) and is
made again from the spool (`Close`). `Poll` is `read_responses`: it goes on at an
offset and reads whole lines only.

### The graph modules

IDs are numbers in their order; a graph maps the IDs of nodes and edges to
records. `ReviewGraph` has the index, `validate_graph`, `project_graph`, the
closures and operation batches; `Impact` the analysis of a batch
(`Session._analyze`), explanations, the review items and their division into
packets; `Packets` the context a packet shows; `ThreeWay` the merge and bulk
plans; `Reads` scope, context and path with depth limits, and pages; `Conditions`
what rules ask of the nodes and edges they select: reachability, cycles, a single
chain; `Rules` the rule language over parsed expressions. A loop of the code is a
recursive function on the state of the loop (`Lineage`, `Visited`,
`Explanations`, the traversals of `Reads`) or on its count (`Stages` of a
projection, `Checkpoints` of a bulk plan), so that it can be reasoned about. The
recursive function inside `_has_cycle` is such a loop too: its state is the path
of the calls in progress and the nodes done with. Only `Rules` declares recursive
operators, for its nested expressions.

`GraphChanges` is a state machine whose states are sessions with a proposed
graph: `Patch` applies a patch to the proposal, as `change.patch` does, and
`PatchTheirs` makes another graph of the same base for merges. So each invariant
is about every graph that patches lead to, including scope cycles, second
parents, nodes without a parent, an edge with the ID of a node, and views that
name each other. The properties compare with definitions of another kind: what a
traversal finds with the least closed set, validity with a tree, in which the
only set that holds the purpose and is closed under scope children is the set of
all nodes, paths with sequences
over all nodes, an acyclic graph with one that has no nonempty set each of whose
members has a successor in it.

## Runs

| Run | Checks | Shows |
|---|---|---|
| `leases` | `TypeOK`, `OneWriter`, `ScratchOnlyByHolder`, `ReportsTrue` | exclusion needs no rule on the environment, with every fault, race and reuse allowed; a save is reported written only when the document has held it, and unpublished only while the scratch file ends on its record, readable unless a record before it was cut short |
| `recovery` | `NoReviewedLoss`, `FailedNeverPublished`, `BareCandidateIsPublished`, `NoLostUpdate`, `PromiseKept`, `CommandsEnd`, `RetryPublishes` | under the three rules no reviewed work is lost and none is overwritten unseen, a candidate is never the only copy, the model implements `ReviewedDocument`, no lease order blocks a command for ever, and a retained snapshot that a retry can read is published in the end |
| `review` | `JudgementsStand`, `ContextStands`, `SavedAsReviewed`, `AgentSavedAsAllowed` | whatever two clients and another writer do in whatever order, what is saved was judged, acknowledged, presented and allowed as it is saved |
| `packets` | `JudgedAsShown`, `PresentedWasGiven`, `WholeReviewShown`, `BranchesStand` | in whatever order plans, refinements, pages, exports, failures and results come, a packet is judged only on what it shows now, and a complete review has shown everything |
| `sqlite` | `StoredIsSound`, `LoadsAreWhole`, `LegalBatchesApply`, `CommitsReplaceTheirBase` | each commit replaces exactly the base it was proposed for, no load mixes two commits, no constraint refuses a legal batch half way |
| `channel` | `RunAsSent`, `ReadInOrder`, `ResponsesArrive` | requests run as sent or not at all; a reader is given each response, those to damaged frames too, once and in order, through publications that move its file |
| `graphs` | twelve invariants of `GraphChanges`, two of `MCGraphs` | the algorithms agree with their reference definitions on every graph reached |
| `reuse`, `partial_review`, `stale_session`, `terminal_block`, `unread_record` | one property each, violated | the findings |

`PresentedWasGiven` and `LoadsAreWhole` are about reads that fail or straddle a
commit; `LegalBatchesApply` says of the order of statements what no test of a
batch that happens to be in order can; `BranchesStand` and `CommitsReplaceTheirBase`
relate a state to the one before.

### Bounds

`leases`: two plain processes and a host, which is what a race of two retries
around a host's transport needs, and `MaxVersion = 2`, a reviewed snapshot and
another one or an edit; `MaxFaults = 2` lets a record be cut short before the
next save is not published (2,751,809 states). `recovery`: one plain process and one
host meet in every pair of roles (host against command, retry against save, begin
against export); `MaxVersion = 3` allows two reviewed snapshots and an edit, or a
snapshot between two edits, which is what a stale baseline or an overwritten
recovery needs (269,392 states, with liveness); `MaxFaults = 1` puts one crash or
I/O error at every point. The theorems have none of these bounds.

`review`: two clients (alike, so symmetric), which is what a stale reference and
a decision overtaken by a change need; pages of four items, so that the six or
seven items of `edit` take two; one session and one change of the project.
Batches `edit` and `other` have node `b` in common with different evidence and
context `p` with different lineage, `broken` is invalid, and one registered
supplement is tried (651,436 states). A later session shares nothing with an
earlier one but the project.

`packets`: one client is enough, since what a request does depends on its
cursor and the review alone; pages of two items; two proposals, with two branches
and with one; up to four packets, so that a part can be divided again (38,152
states).

`sqlite`: two clients, which is what a lost update or a torn load needs, one
existing database and one free path; five batches, among them an exchange of two
scopes, an edge added before its node and a removal that leaves an edge dangling
(1,381,286 states, with symmetry).

`channel`: three requests sent, two faults, and fragments that are requests
themselves, so that a lost or repeated frame can make one request look like
another (369,580 states).

`graphs`: three changed entities on our side, one on theirs; four nodes and four
edges hold a scope cycle, a second parent, a diamond and an edge between two
branches (63,626 states).

### Fairness

`Publication!FairSpec`: a command that has begun is not suspended for ever (weak
fairness of its process's own steps, none of them a fault), because the code runs
to completion without waiting for input; and an operator who is told to retry
eventually does so when a retry is possible again and again (strong fairness of
`RetryRead`). Nothing is assumed of begins, edits, hosts or faults, and a crash is
always possible up to the bound. `FramedLog!Spec`: the engine goes on with the
frame or record at hand (it is a loop that waits for nothing else), and the reader
polls again, as the client script does; sending and faults are not fair.
`ReviewSession!FairSpec` assumes only that a client which wants its session gone
goes on fetching its reference and trying to discard; it is used for the
refutation of `SessionEnds`.

Deadlock is not checked where the system may rest: a closed host, a session
nobody asks anything of, a bound reached. In `leases` and `recovery` it is.

### Findings

1. `reuse` – `begin_workspace` looks for a retained recovery only without a
   transport (`document_store.py:199`), so a host overwrites the unpublished
   snapshot it keeps, against `docs/developer_testing.md:73-74` and
   `skills/validated-world/references/persistent-io.md:100-101`.
2. `partial_review` – `review` records dispositions one by one and raises at a bad
   item before it forgets what was presented (`application.py:582-597`): a
   proposal is saved whose dispositions were never shown as they are, against
   `docs/cli_usage.md:203-206` and
   `skills/validated-world/references/command-workflow.md:163-164`.
3. `stale_session` – once the project has changed, `discard` raises
   `stale-baseFingerprint` (523, 696) and `begin` refuses a second session (507),
   against `docs/cli_usage.md:200` and the advice in line 661.
4. `terminal_block` – a branch result recorded once more drops the synthesis
   result (`review_packets.py:171-176`) while its pages still count as presented,
   so a blocked synthesis can be allowed at once, against
   `skills/validated-world/references/packet-review.md:52-53`.
5. `unread_record` – a recovery record that is cut short stays in a live
   transport's file (`scratch.py:203-204`) and the next one is appended to its
   line. If that next save is not published, it is reported as retained, with the
   advice to retry (`document_store.py:236`), but `recovery_path` raises at the
   broken line, so no retry can read it, against `docs/cli_usage.md:69-72` and
   `docs/document_format.md:52-53`. The snapshot's bytes are there, which is all
   that `NoReviewedLoss` asks; `ReportsTrue` sets this case apart with
   `scratch.kind # "torn"`, and `RetainedIsReadable` does not.

Observed while modelling, without a run:

* A retry acts on a record it read before it had a lease (`document_store.py:249`,
  257, 263): `RetryRaces` above.
* When one side of a merge has turned an ID into the other kind (a node removed
  and an edge added under its ID, by two patches), its operations against the base
  name the ID twice and `project_graph` refuses them: the merge then conflicts,
  although the sides changed different entities. `MergeTakesBothSides` sets that
  case apart; it came to light in the proof.
* A failed fsync leaves a complete record of a save reported as failed
  (`scratch.py:304-306`), which a retry can publish. `FailedNeverPublished` is
  therefore checked with `refused` and `torn` appends; with `unsynced` it fails.
* A disposition `updated` of a node that is no longer directly changed survives
  when its evidence is equal (`application.py:84`; 585 would refuse it).
* `agent_write` does not look at a block recorded by `agent-review` once every
  packet allows (634-641).
* A rule that names a view which does not exist raises `KeyError` (`rules.py:341`),
  also in `project verify` and `change.begin`, where `docs/cli_usage.md:42-45` says
  that malformed expressions do not pass and such a baseline can be opened for
  repair. `EvaluateRules` answers `raised` for it. Raised while a batch is applied,
  it leaves the session with the new operations and the old analysis (551-554).
* A refinement without parts restarts the review of the same plan, and results
  bound to it before are valid bindings after it; they are refused until the
  packet is presented again (`WholeReviewShown`).
* `export_sql` loads and checks over one connection and dumps over another
  (`storage.py:308-316`); a commit in between is in the dump and was not checked.

## Proofs

All hold for every value of the constants that satisfies the assumptions of the
module concerned.

| Theorem | Statement | Extra assumption |
|---|---|---|
| `PublicationProofs!TypeCorrect` | `Spec => []TypeOK` | |
| `PublicationProofs!Exclusion` | `Spec => []OneWriter` | |
| `PublicationProofs!ScratchExclusive` | `Spec => ScratchOnlyByHolder` | |
| `PublicationProofs!ReviewedWorkSurvives` | `Spec => []NoReviewedLoss` | `ReuseUnpublished = FALSE`, `RetryRaces = FALSE` |
| `PublicationProofs!NoUpdateLost` | `Spec => NoLostUpdate` | `EditRaces = FALSE` |
| `PublicationProofs!ReportsHold` | `Spec => ReportsTrue` | |
| `PublicationProofs!FailedStaysOut` | `Spec => []FailedNeverPublished` | `"unsynced" \notin IOFaults` |
| `PublicationProofs!CandidateIsNoOnlyCopy` | `Spec => []BareCandidateIsPublished` | `ReuseUnpublished = FALSE`, `RetryRaces = FALSE` |
| `PublicationProofs!PublicationKeepsPromise` | `Spec => PromiseKept` (implements `ReviewedDocument`) | `ReuseUnpublished = FALSE`, `RetryRaces = FALSE`, `EditRaces = FALSE` |
| `PacketReviewProofs!PresentedIsGiven` | `Spec => []PresentedWasGiven` | `ItemsAreSequences` |
| `PacketReviewProofs!JudgedIsShown` | `Spec => []JudgedAsShown` | `ItemsAreSequences` |
| `PacketReviewProofs!BranchesKeepResults` | `Spec => BranchesStand` | `ItemsAreSequences` |
| `PacketReviewProofs!CompleteIsShown` | `Spec => []WholeReviewShown` | `ItemsAreSequences`, `ItemsShowOwned` |
| `ReviewSessionProofs!TypeCorrect` | `Spec => []TypeOK` | |
| `ReviewSessionProofs!JudgementsHold` | `Spec => []JudgementsStand` | |
| `ReviewSessionProofs!ContextHolds` | `Spec => []ContextStands` | |
| `ReviewSessionProofs!SavedAsReviewedHolds` | `Spec => SavedAsReviewed` | `PartialReviews = FALSE` |
| `ReviewSessionProofs!AgentSavedAsAllowedHolds` | `Spec => AgentSavedAsAllowed` | `PartialReviews = FALSE` |
| `SqliteStoreProofs!TransactionIsExact` | what the statements of a write make of a valid graph is what `project_graph` makes of it | the result is valid |
| `SqliteStoreProofs!StoredIsAlwaysSound` | `Spec => []StoredIsSound` | |
| `SqliteStoreProofs!LoadsAreAlwaysWhole` | `Spec => []LoadsAreWhole` | |
| `SqliteStoreProofs!LegalBatchesAlwaysApply` | `Spec => []LegalBatchesApply` | |
| `SqliteStoreProofs!CommitsAlwaysReplaceTheirBase` | `Spec => CommitsReplaceTheirBase` | |
| `FramedLogProofs!ReadsAreInOrder` | `Spec => []ReadInOrder` | |
| `FramedLogProofs!RunsAreAsSent` | `Spec => []RunAsSent` | |
| `ReviewGraphProofs!ProjectionIsExact` | `project_graph` gives the graph in which each named entity has its new value, or refuses, whatever the order | |
| `ReviewGraphProofs!ValidityIsATree` | `IsValid(g) <=> ScopeTree(g)` | finitely many entities |
| `GraphChangesProofs!DifferenceIsExact` | the operations between two graphs turn the first into the second, unless an ID changed its kind | |
| `GraphChangesProofs!OrderNeverMatters` | `Spec => []OrderDoesNotMatter` | |
| `GraphChangesProofs!MergesTakeBothSides` | `Spec => []MergeTakesBothSides` | |
| `GraphChangesProofs!AcceptanceIsAlwaysExact` | `Spec => []ValidIsScopeTree` | |
| `GraphChangesProofs!TraversalsAlwaysAgree` | `Spec => []ClosuresAgree` | |
| `GraphChangesProofs!ImpactAlwaysCovers` | `Spec => []ImpactCovers` | |
| `GraphChangesProofs!ExplanationsAlwaysHold` | `Spec => []ExplanationsHold` | |
| `GraphChangesProofs!PacketsAlwaysFollowScope` | `Spec => []PacketsFollowScope` | |
| `GraphChangesProofs!PacketsAlwaysShowContext` | `Spec => []PacketsShowContext` | |
| `AnswerProofs!ScopeReadsAreAlwaysComplete` | `Spec => []ScopeReadsAreComplete` | |
| `AnswerProofs!PathsAreAlwaysShortest` | `Spec => []PathsAreShortest` | |
| `AnswerProofs!ChunksAlwaysCompose` | `Spec => []ChunksCompose` | |
| `AnswerProofs!ConditionsAlwaysMatch` | `Spec => []ConditionsMatch` | |

`PublicationProofs`. `IInv` is `TypeOK` with three parts. `Leases` says who holds
which lease at which program point; without it exclusion is not inductive, because
nothing says that a process at `checking` holds the document lease. `Programs`
says which commands, targets and workspaces go with which program points.
`Shapes` says what the scratch file looks like at each point (for example that
between the two replacements it is absent). Each has one step lemma with one
case per action. `NoReviewedLoss` is then inductive together with `Owing` (the
process that owns an owed snapshot still points at it, and any transport that
owes it spools it) and `Histories` (numbers not yet used occur nowhere).
`NoLostUpdate` needs `Baselines`: the recorded baseline of a snapshot is the
content it was edited from, and past the last comparison the document still is
that baseline.

Reports and the promise, in `PublicationProofs`. A report is true because of what
is known of the snapshot a frame points at (`HInv`): while it is being recorded it is in no file and in no
other frame (`Unrecorded`); from there to the replacement the scratch file ends
on it and the document has not held it, and afterwards it has (`Retained`); a
document that equals a recovery record or a spool was published (`Recorded`).
`FInv` adds that what a record names is committed and never failed. For the
refinement, `QuietStep` shows which steps the promise cannot see: all but
`RecordRecovery`, `Install` and `Edit`. These are `Accept`, `Publish` and a
replacement by somebody else, because of `NoReviewedLoss`, `Baselines` (the
snapshot goes onto the version it was reviewed against) and `HInv` (a snapshot is
accepted once).

`PacketReviewProofs`. A result stands on what was given because a packet is
recorded only when as many positions of its items are presented as it has items.
That number means all of them only if positions are distinct and of these items
(`SeenOK`), and the items are today's only if the cache is what would be made now
(`CachedIsFresh`); a page starts where a cursor says (`CursorsOK`). With `TypeOK`,
`PresentedWasGiven` and `JudgedAsShown` these make the invariant. `Divided` (each
ordinal of the evidence in exactly one packet) is kept by refinements because the
parts of a packet divide it; with it, a complete review has shown everything.
Two hypotheses are about what `items()` returns and are no `ASSUME`s because they
range over all ownerships: the items of a packet are a sequence
(`ItemsAreSequences`) and among them is one for each ordinal it owns
(`ItemsShowOwned`).

`ReviewSessionProofs`. `IInv` is `TypeOK`, `JudgementsStand` and `ContextStands`;
it is split into counts, flags, judgements and requests, each with its step lemma.
It holds with `PartialReviews` either way: a refused request breaks nothing that
was judged, only what was shown. With `PartialReviews = FALSE`, `ApprovalStands`
is inductive too: what was shown at each position is the item there now, a plan
is of the evidence as it is now, and so is a decision. `CompleteIsAll` is the step
the code takes on trust: as many positions shown as there are items are all of
them, because they are positions of this review.

`SqliteStoreProofs`. The four loops of a write, taken in their order, never meet a
constraint when base and result are valid: what an edge needs is there before the
edge, and what is removed has lost its edges (`TransactionIsExact`). The invariant
is `FilesSound` (a committed database is a valid graph with its fingerprint),
`CallsSound` (a graph that a load has returned is the one its project row was the
fingerprint of, and a write past its checks proposes a valid graph that its batch
makes of its base) and `Isolated` (a transaction has its database to itself, and
it still is the base of the write).

`FramedLogProofs`. `Channel` says where the response file can be: it is the spool,
with half a line behind it while a record is appended, or during a publication
with the candidate behind it, or gone; and the reader has the responses of the
records up to its offset. `Framing` says what can be on the wire: no begin
frame behind an end frame, and end frames whose checksum is damaged or that of the
last request sent. So fragments that have their checksum are that request, and
what ran is a subsequence of what was sent; once the last request has run, nothing
is collected and no begin frame is on the way, so it does not run again.

`ReviewGraphProofs` and `GraphChangesProofs`. Induction is used as a set: `Least`
and `Induction` say of a *set* of numbers what induction says of a predicate, so
no operator is passed to a theorem. That is enough for functions on counts
(`ProjectionIsExact`), and for loops: `TailRecursion` shows that a function that
goes on with the next state of a loop is defined by the orbit of that state,
without supposing that the loop ends; termination is then proved from a finite
measure (`VisitedAre`, what `Visited` returns is the least closed set, without
repetition, on cyclic graphs too). `ValidIsTree` is the hard half of validity:
walks that all arrive at the purpose and one parent for each node leave no set
closed under children but all nodes; `TreeIsValid` counts the edges for the other
half. From then on a valid graph has its own induction principle, over the sets
closed under scope children, which the proofs about lineages, impact and packets
use. The invariant of `GraphChanges` is `GInv` (the graphs are projects and the
operations of the change lead from the base to the proposal), with the base valid
and the ends of edges numbers (`CInv`).

`AnswerProofs`. `LoopEnds` says of a set of loop states what a loop invariant and
a measure of two numbers, the second counting while the first stands still, say
of a loop: it ends, in its invariant.

* Scope: the search with a limit shows the part of a lineage or subtree within
  the limit, and has put something off exactly if that part is not all.
  Turning pages is a loop whose measure is what is left of the results.
* Paths: the search keeps its queue in the order of depth and has met every node
  that a walk shorter than the queue's front leads to, so the first path found is
  no longer than any, and an empty queue means that there is none or that the
  limit left something out. That a depth limit is reported, not taken for an
  absence, is the half a test would rarely reach.
* Chunks: the parts of a sorted plan follow each other to the last, and each
  checkpoint is the graph its part leads to.
* Conditions: the calls in progress form a path along selected edges, what is done
  with leads only to what is done with, and no cycle goes through it; so a search
  that ends without a loop has found every selected node free of cycles, and a
  node met twice on the path is one. Of nodes with degrees of at most one and no
  cycle, the longest run from the node nothing leads to takes in all nodes,
  because its end is the one node that leads nowhere and the edges are one fewer.
  The two directions of reachability agree because both are least closed sets.

TLC checked the invariants on the instances above before they were proved. Only
model-checked:

* `CommandsEnd`, `RetryPublishes` and `ResponsesArrive`, which need fairness;
* `VerdictsAreExplained` and `InconclusiveWhenUndefined`, which are about the
  recursive operators of `Rules`. Recursion over expressions is out of the
  provers' reach, unlike recursion over counts and the states of a loop.

Every other invariant and action property of a passing run is stated by a theorem.

## Plan

Modelled: publication, sessions, packets, the SQLite store, the framed log and
the graph algorithms. Left, in this order:

1. Packets inside `ReviewSession`: `PacketResult` there is the verdict
   `PacketReview!Complete`; a refinement between the two is not stated yet.
2. New files (`initialize`, `backup` of a document) in `Publication`.

## Not modelled

Parsing and rendering of HTML, SQL text and JSON (their results are abstract
contents); hashing (a fingerprint is its content, so collisions are excluded);
`initialize` and `backup` of an HTML document, which create a file that did not
exist; optional retention of a working database; identity checks against a
scratch file replaced by an outsider; the directory a review export writes;
search, its ranking and `health`, which filter and sort; attribute selectors of
rules and the parsing of rule text; the checks of a packet result against the
items it cites; unframed requests and the end of the input; templates, artifact
scans, path checks, release scripts, packaging and samples. Liveness stays with
TLC.
