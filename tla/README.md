# Verification of oci-fn-object-event-2-hw-table

TLA+ models, TLC runs and TLAPS proofs for the program in `src/`: OCI Events for
objects written to and removed from Object Storage buckets go through an OCI
Stream to *processors*, which store each message durably in MySQL and load the
object's CSV into one LIST partition of a mapped HeatWave table. A Flask UI
manages mappings, events rules, processors and the captured messages.

Contents: [components](#1-components), [modules](#2-modules-and-how-they-correspond-to-the-code),
[runs](#3-runs), [fairness](#4-fairness), [proofs](#5-proofs),
[findings](#6-where-code-and-documentation-disagree),
[what is not modelled](#7-not-modelled), [plan](#8-plan).

To check: `tlc -config MessageStore_single.cfg MCMessageStore.tla` (see the table
of runs for the others) and `tlapm MessageStoreProofs.tla`, and so on for each module
whose name ends in `Proofs`.

## 1. Components

| component | code | state it keeps | operations | interacts with |
|---|---|---|---|---|
| Stream capture and claiming | `processor/stream_processor.py`, `message_store.py`, `stream_client.py` | tables `stream_partition_checkpoint`, `stream_message_capture`, `stream_event_tx_log` | poll, capture, checkpoint, claim, complete, fail, recover leases | reads the stream, calls the loader |
| Operations on durable messages | `ui/.../stream_capture_service.py` | the capture table, archive tables and their registry | retry, archive, delete archived, drop an archive partition | same tables as the processors, no lock in common |
| Loader | `loader_core/event_processor.py`, `partition_loader.py` | `source_object_batches`, `target_batch_sequences`, target partitions, stage tables | create/update load, delete | called by processors, reads mappings and buckets |
| Mappings and events rules | `mapping_service.py`, `event_rule_service.py`, `mapping_routes.py` | `object_storage_mappings`; rules in OCI | add, edit, delete, reconcile a rule | the loader resolves mappings on every call |
| Orchestration | `orchestration_service.py`, `orchestration_routes.py` | container instances in OCI, `deployment_history` | create, list, delete a processor | decides which processors share a partition |
| Event transactions, stage cleanup | `event_tx_service.py` | none | views; drop stage tables left behind | stage tables of running loads |
| Settings | `settings_routes.py` | vault configuration, control and durable schema | initialise, reinitialise | recreates the tables of loader, capture and archive |
| Profiles, sessions | `profile_store.py`, `session_store.py` | a JSON file, files of private keys, a dictionary | save, delete, login, clear | all pages |
| CSV import | `import_service.py`, `csv_service.py` | uploaded files, import jobs in a session, target tables | inspect, review, create, load | creates what mappings name |
| Adapters and views | vault, registry, streaming, upload, flow | none | single calls | |

What makes the behaviour hard, and what correctness means in each part:

- **Capture.** Delivery is at least once: a processor can die between any two
  transactions, the cursor can expire, and after a redeployment two processors can
  serve one partition. The cursor must never pass a message that is not stored; a
  message must not be stored twice; the log must tell the truth about completion.
- **Claiming.** A lease may expire under a processor that is only slow. FIFO
  promises that messages start in order, yet a failed one waits and is overtaken.
- **Superseded loads.** The object of a create may be gone (404). The message may
  be completed without a load only if a later DELETE of the object is captured.
- **Loading.** A load takes seven transactions in three schemas, two loads of one
  object may overlap when the lease of 120 seconds ends, and MySQL's DDL commits by
  itself, releasing the row lock of a delete. Batch numbers must be unique per
  target, a load must not touch another object's rows, and readers must never go back
  to older rows.
- **Mappings and rules.** A mapping is a row in MySQL, its events rule an object in
  OCI, and a request changes one after the other without a transaction in common.
  Requests overlap and break off; a rule must never be taken for that of another
  mapping, and in quiet times there is exactly one rule per mapping that wants one.
- **Inside a load.** The object is read by range requests that name no version while it
  may be overwritten, and a pool of threads inserts batches, each in a transaction. The
  memory must stay bounded, a failure in any thread must keep the stage table out of the
  target, and nobody may insert into a table that is exchanged or dropped.
- **Deployments.** The list of instances is read, and later one is created; OCI may do what
  it answers with an error. One name must not be deployed twice, as two processors would
  then read one partition.
- **Operators.** The pages of the UI are served by threads of one process, and every page
  that changes something checks first and acts later, with files and with statements that
  commit by themselves: stage tables are dropped beside running loads, archive tables and
  their registry change separately, an import drops a table before it loads it, two changes
  of a profile share one temporary file.
- **Composition.** Retries reorder create, update and delete of one object; in the
  end the tables must show what the buckets hold.

`PROJECT.json` lists under "hazards" each such place with its line and the
properties that cover it.

## 2. Modules, and how they correspond to the code

| module | models | implements |
|---|---|---|
| `EventQueue` | abstract: an at-least-once queue, accepted in order, acknowledged after execution or because a later delete supersedes the load | |
| `MessageStore` | one stream partition, any number of processors, the operator | `EventQueue` (`ImplementsQueue`) |
| `PartitionLoader` | any number of concurrent loader calls on any events, mappings being edited | |
| `SourceTable` | abstract: what a reader of a target table sees of an object | |
| `StreamPipeline` | EXTENDS `PartitionLoader` with the capture table and one processor: the FIFO path from bucket to table | `SourceTable` (`ImplementsTable`) |
| `MappingRules` | any number of concurrent requests on mappings and their events rules | |
| `LoadPool` | what `PartitionLoader` takes as `OpenObject` and `FillStage`: range reader, batches, pool of writers | |
| `LoaderAdmin` | EXTENDS `PartitionLoader` with an operator's cleanup of stage tables and the lease of the messages | |
| `ProcessorDeployment` | the requests that deploy and delete processors, OCI's life of an instance, edited mappings | |
| `Requests` | the threads of the web process, shared by the next four | |
| `ProfileStore` | connection profiles and their private keys | |
| `TableImport` | uploads, import jobs, sessions and the imported table | |
| `ArchiveRegistry` | archive partitions of durable messages, reinitialization of the durable schema | |
| `WebConsole` | EXTENDS the three with sign-in and the end of the process | |
| `MessageStoreProofs`, `PartitionLoaderProofs`, `StreamPipelineProofs`, `LoaderAdminProofs`, `MappingRulesProofs`, `LoadPoolProofs`, `ProcessorDeploymentProofs`, `WebConsoleProofs` | theorems | |
| `MCMessageStore`, `MCPartitionLoader`, `MCStreamPipeline`, `MCMappingRules`, `MCLoadPool`, `MCLoaderAdmin`, `MCProcessorDeployment`, `MCWebConsole` | instances for TLC | |

How they compose: `StreamPipeline` puts the capture in front of the loader,
`LoaderAdmin` an operator beside it, `LoadPool` looks into two of its steps;
`MessageStore` with two processors is the question that `ProcessorDeployment` raises;
`WebConsole` runs the pages that share a process, its sessions and its threads.

Operators marked "Mutated" in a comment are wrong variants of the definition that
follows them. They are used by no specification: they document which slip of the
code each property would notice.

**MessageStore.** Every transaction is an action. `pc[p]` is the place of
processor `p` in `run_partition_once`: *poll* (before `read_messages`), *capture*
(inside `capture_batch`, `next[p]` the next message), *claim* (the checkpoint is
stored), *load* (the loader runs), then *loaded*, *missing* (404), *superseded*,
*failed*. A cursor is the number of messages it has passed; 0 is both "no row" and
TRIM_HORIZON. `capture` and `txLog` keep the columns on which the code decides.
The three clocks in play are reduced to one field `timer` per row (waiting, then
elapsed, at any moment): a lease may end while its processor still works, which
includes any drift or delay. `attempts` saturates at `MaxAttempts`; nothing
decides on it but the length of a delay. `Crash` can come after every transaction;
what a processor keeps in memory is lost. Ids are given in order of insertion, and
`received_at` follows them within a partition, so the `ORDER BY received_at, id`
is the order of ids. An undecodable message ends the processor, which starts
again, as the exception does in `main`.

**PartitionLoader.** A worker is one call of `process_cloud_event`; `pc[w]` follows
`_run_load` or `delete_event` from one transaction to the next. The steps of a
load: `AllocateRefused`/`AllocateReplay`/`AllocateAgain`/`AllocateNew` (the four
ways out of `allocate_or_get_batch`), `EnsurePartition`, `CreateStage`,
`OpenObject`, `FillStage`, `ObjectMissing` or `ObjectChanged`, `Exchange` or
`ExchangeFails`, `MarkActive`; the
except clause is `MarkError`, the finally clause `DropStage`. In `delete_event`
the implicit commit of DROP PARTITION splits the transaction: `DeleteRead`,
`DropPartition`, `MarkDeleted` are separate, and other workers may act in between.
A statement can raise before or after it took effect (`CallFails`, `LoadFails`,
`MarkErrorFails`, `DropStageFails`), and the process can die anywhere (`Crash`).
An InnoDB deadlock of two first creates is one of these failed calls. A version is
the number of the event that wrote it, as an eTag is never given twice. The object is
read as it is by then, which may be newer than the event, and it may be overwritten
while it is read: no range request names a version. Rows are therefore reduced to their
object, the version that answered the HEAD request (`OpenObject`) and the one that
answered the last range (`FillStage`); every row is of a version between these, which
`LoadPool` shows, range by range (`ExchangedVersions`).
`Retarget` is `MappingService.update_mapping` with another target.

**StreamPipeline.** The capture table is reduced to a status per message: that
rows are not skipped and are claimed one at a time in order is what `MessageStore`
shows for it. A reader of the table sees rows between `VisibleHead` and `Visible`, of one
version if the two are the same. `Claim` recovers abandoned messages and takes the oldest eligible
one; `Settle` is `complete`, `fail`, and the 404 rule with `has_later_delete`.

**MappingRules.** A worker is one request of `mapping_routes.py`; `pc[w]` is the next
statement or OCI call: *validate* (`exact_pattern_conflict`), *save* (`Insert` or
`Update`), then, as `_reconcile_rule` decides in `AfterSave`, *check*, *update* or
*create*, and *link* of `ensure_mapping_rule` and `set_event_rule`, or *find*,
*remove* and *unlink* of `delete_stream_rule` and what its callers do next.
`request[w]` is what the handler holds in its local variables, above all the rule
identifier it read at the start. Compartment, bucket and pattern are one scope, which
`ConditionOf` maps to the condition of a rule. A rule keeps its tag `mapping-id` when
it is deleted; its identifier is never given again. `update_mapping` reads and writes
in one transaction and is one step: a mapping deleted between the two has the same
outcome as one deleted right after. OCI goes on answering for a deleted rule for a while;
`get_rule` may find it or not, and updating or deleting it is an error. `disturbed` is a
history variable, the mappings on which two requests overlapped or one broke off; the code
has no such thing, and no guard reads it.

**LoadPool.** A block is a piece of the object with one row; a row is known by its block
and by the version that block was read from. `OpenObject` is the HEAD request, `OpenRange`
a GET of the next range, answered by whatever version the bucket has then (or by 404, 416),
`ReadBlock` and `ReadRaises` are `readinto` and the CSV reader. `Submit` puts a batch into
the pool's queue and waits if twice as many futures as threads are pending; `WaitFirst` and
`Drain` take results, which raises what an insert raised; `LeavePool` is the end of the
`with` block, which waits for all. The threads start, commit and fail on their own.

**LoaderAdmin.** `OpenView` is the first SELECT of a cleanup, whose read view decides what the
check sees; `ListNames` reads information_schema, which shows the present; each DROP is a
step. The message a worker executes is open until it returns or its lease lapses
(`MessageLapses`). `recorded` and `busy` are history. Stage tables are named after the
table without its database, hence `TableName`.

**ProcessorDeployment.** `pc[t]` is the next OCI call of a request. What only refuses a form
is left out, but for the partitions (`Fits`). `among`, in an instance, is history: how many
instances there were when its name was looked for.

**Requests, ProfileStore, TableImport, ArchiveRegistry, WebConsole.** A thread is idle or has
a request; `call[t]` is what the request holds in local variables, `pc[t]` its next file
operation or statement. A fault is an operation that raises (with its effect, where an
answer can be lost) or the end of the process, which keeps files and tables and loses
sessions. In `ProfileStore` the temporary file is one for all threads, as in `_save`. In
`TableImport` LOAD DATA and its commit are one step, since the statement holds the table
until then; DROP and CREATE commit by themselves. Rows are known by their file and primary
key; LOAD DATA LOCAL skips a row whose key is in the table, as it is without REPLACE. In
`ArchiveRegistry` the registry row and
the message behind it are one transaction; creating and dropping tables are not.
`overlapped`, `renamed`, `imported`, `overwritten`, `unsure` are history, which no guard reads.

## 3. Runs

| run | instance | properties | states |
|---|---|---|---|
| `store_single` | 1 processor, create x (its object is gone), delete x, junk, update y | `TypeOK` `OwnerHoldsRow` `CompletedIsFinal` `ImplementsQueue` `EventuallyCaptured` `EventuallyCompleted` | 16 thousand |
| `store_overlap` | 2 processors, create x, delete x | `NoMessageSkipped` `FirstAttemptsInOrder` `RecapturedOnlyIfArchived` `CompletedIsHandled` `TxLogTellsCompletion` | all |
| `store_replay` | 1 processor | `ReplayIsIdempotent`: violated | |
| `loader_parallel` | 2 workers, 2 objects, 2 mappings, 2 targets, 2 events, 1 edit, 1 fault | `TypeOK` `BatchesDistinct` `RowsInOwnPartition` | 1.2 million |
| `loader_admin` | 2 workers, 1 object, 1 target, 2 events, 1 fault, 1 cleanup | `OrphansNeedFaults` `CleanupSparesLoads` | 1.4 million |
| `loader_replay` | 1 worker | `ReplayIsNoOp`: violated | |
| `pipeline_fifo` | 1 processor, 2 objects, 3 events, 1 fault | `TornIsPending` `ActiveIsLoaded` `NoGhostRows` `SettledIsCurrent` `ImplementsTable` `EventuallyCurrent` `EventuallySettled` | 194 thousand |
| `pipeline_deleted` | 1 processor | `DeletedIsGone`: violated | |
| `rules_races` | 2 workers, 2 scopes, 2 streams, 2 mappings, 2 rules, 4 requests, 1 fault | `TypeOK` `RuleTagged` `OneManagedRule` `RuleFollowsMapping` | 416 thousand |
| `load_ranges` | 2 pool threads, 4 versions of 5, 6, 3 and 5 blocks, ranges of 2 blocks, batches of 1 row, 1 fault | `TypeOK` `BatchesBounded` `StageIsQuiet` `ExchangedWhole` `ExchangedVersions` `LoadEnds` | 124 thousand |
| `deployment_races` | 2 request threads, 2 names, streams of 1 and 2 partitions, 3 requests, 1 edit, 1 fault | `TypeOK` `NameDeployedOnce` `ModeFitsStream` | 767 thousand |
| `console` | 2 request threads, 2 profiles, 2 sessions, 2 uploads, one of them reviewed, 2 messages, 1 period, 3 requests, 1 fault | `ConsoleTypeOK` `KeysStored` `ImportedOnce` `RegistryHasTable` | 822 thousand |

What they show, and why the bounds suffice:

- `store_single` is the deployment the documentation asks for: FIFO, or disjoint
  assignments. Four captures for the two messages before the junk leave room for one that
  is archived and captured again; one fault is one crash, one expired cursor or
  one failed `complete`. The object of the create is gone for good, so that it can only be
  completed by its captured DELETE, after any number of retries by clock or operator.
  `EventuallyCompleted` says what it needs: neither of the two messages is archived, and no
  junk stops the processor before it claims.
- `store_overlap` is a replaced container that still runs. The properties of
  `store_single` do not hold there (a stale `fail` can undo the completion by the
  other processor); the listed ones do, since they rest on the unique key, on the
  order of commits and on the row lock of a claim. Two messages suffice for an
  order, two processors for an overlap, three captures for a replay. The two
  processors are interchangeable, hence the symmetry (no liveness is checked there).
- `loader_parallel` lets any two calls overlap, on any event at any time and again,
  so it needs no stream. Two events are two creates, a create and its replacement, or a
  create and its delete, each executed any number of times; two targets and one edit let a
  batch number travel to a table it was not drawn for; the fault is a failed statement or
  a crash. A lease that elapses already produces
  overlapping loads without a fault. The symmetry exchanges the
  workers, and the two objects together with their mappings. Readers may see an object
  go back to an older version here, when a load outlives its lease and
  exchanges after its successor: `ImplementsTable` is a property of one processor.
- `loader_admin` lets a statement of two overlapping calls fail, or a call die, and lets
  messages lapse, while one cleanup runs; two drop what one drops. Two events are a create
  and its replacement or its delete, executed any number of times, so that a load whose
  lease has ended meets its successor and the cleanup. What the page calls protected is
  `CleanupSparesLoads`; its exceptions are needed, each was met as a counterexample, the last
  two with two targets: a load that begins after the read view, a message that lapsed with a
  record that was overwritten, a table of the same name in another database, an edited mapping.
- `pipeline_fifo` has the retries, crashes and out-of-order executions of one
  processor. Three events of two objects include create-update-delete and
  create-delete-create of one object, and create-update of one with a create of the
  other. An object may be overwritten or deleted between its HEAD request and its last range,
  so mixed rows are exchanged: `ImplementsTable` says what readers may see of them,
  `TornIsPending` that it does not last, `SettledIsCurrent` and `EventuallyCurrent` that
  whole objects are what remains. `EventuallySettled` speaks of objects that are never
  deleted, with or without a fault, and excepts a create that a later load has overtaken: it
  is refused for as long as it is retried. `Healthy` in a property means that no fault was
  used: then the tables converge. After a fault, a record may be left LOADING, and a delete
  refuses it until another load of the object comes; the properties say so.
- `rules_races` makes four requests, two at a time: two mappings are added and two
  more requests meet, or one mapping is added, edited, edited again and deleted. Two
  rules are one per mapping, or one that is deleted and created again. `RuleTagged`
  holds under every overlap and fault; `OneManagedRule` and `RuleFollowsMapping` speak
  of the mappings that were not disturbed, whatever happened to the others, and the
  condition is needed: two edits at once can create two rules for one mapping, and a
  delete beside an edit can leave a rule behind. Workers and streams are
  interchangeable, and so are the scopes with their conditions.
- `load_ranges` has an object of three ranges. Five blocks in batches of one row are more
  than the four batches that may be pending; the versions grow, shrink below the position
  already read and grow again, one has another header, and one read or insert fails at any
  place. `ExchangedVersions` says what a torn read can be, since no request names a version.
- `deployment_races` lets two requests overlap and a third follow: the operator who tries
  again after a lost answer, a deletion of several instances, a mapping that is edited
  between. Three instances at most, one of them foreign at first.
- `console` runs any three requests, two at a time, of all pages: three change one profile
  file, drop and archive and reinitialize, or submit, clear and submit again. Of the two
  uploaded files one is reviewed at first, so three requests also review and load the other
  before, during or after its load. The files have the same two keys, one of which is in the
  table at first, so a load skips one row, two, or none (after a DROP by the other import, or
  in a table without a primary key). Only the threads are interchangeable. One period is
  enough for two operators to meet at a partition; the registry's rows are independent.
  The one fault is a failing operation, a lost answer or the end of the process.
- `CHECK_DEADLOCK FALSE` is set where a bound (captures, events, requests) can end the
  model's behaviour although the code would go on. In `load_ranges` nothing bounds the load,
  and deadlock is checked: no thread waits for one that waits for it.

## 4. Fairness

`MessageStore!Fairness`: OCI publishes the events of the bucket (`WF` of
`PublishEvent`), while nobody need ever send anything else to the stream; the main loop
polls without end (`WF` of the capture and
execution steps of each processor, also after a restart, as the container is
restarted); a delay or lease that runs ends (`WF` of `Elapse`); and a load that is
tried again and again succeeds, or meets the 404 of a vanished object, in the end
(`SF` of `LoadSucceeds`, `LoadMissing`): transient errors are transient. Nothing
is assumed of operators, and faults stop because their number is bounded.

`StreamPipeline!PipelineFairness`: the processor captures and works; delays and
leases end. A message gets its turn (`SF` of `Claim`): a failed message waits at
least two and up to 300 seconds, many polls, while the ones behind it are claimed
one per poll; the code has no such guarantee against loads that take longer than
every delay, and this is the assumption that they do not. Nobody must write or
remove objects.

`LoadPool!Fairness`: the loading thread and the threads of the pool go on when they can;
their requests and statements end, since both clients have timeouts. Which thread of the
pool runs is open.

`LoaderAdmin`, `ProcessorDeployment`, `MappingRules` and `WebConsole` state no fairness: an
operator may do nothing, and only safety is asked of them.

## 5. Proofs

Every safety property that a passing run checks is also proved: all invariants, the two
action properties and the two refinements. The theorems hold for every number of
processors, workers, threads, objects, mappings and targets, every stream and every bound.
They assume the named assumptions on the constants at the top of the modules: types; that
`NoObject`, `NoTarget` and their like are no objects or targets; that there is some stream
(`ProcessorDeployment`) and some session (`TableImport`), since the models name one for what
belongs to nobody yet. Two assumptions say more. `StreamPipeline` is the path of one
processor (`OneProcessor` there), and three theorems of `MessageStoreProofs` have that as a
hypothesis, which is written in their statements: with two they are false.

**MessageStoreProofs.** `TInv` is `TypeOK` with what a processor holds in each step
(`WorkersOK`: whoever executes has claimed an existing row; whoever captures has a
batch that the stream really holds) and what the ids mean (`RowsOK`: ids below
`nextId` are the inserted rows, each in the capture table or archived). It is needed
because the type of the checkpoint depends on the batch a processor read, and
actions address rows by ids kept in memory. `OrderInv` adds that rows are inserted
in offset order of first captures, and that a batch under way has everything before
it captured; with it, `SaveCheckpoint` cannot pass a gap: `SpecNoMessageSkipped`.
`AttemptInv` relates each row to its log entry and says that rows are attempted in
id order; `SpecTxLog` and `SpecFirstAttempts` follow from it and the order above.
`SpecRecaptured` rests on the unique key.

`CompletedIsHandled` speaks of completed rows only, so `HandledInv` adds what a processor is
about to complete (`JobsHandled`): it was executed, or a captured delete makes it pointless,
and neither is ever undone (`HandledStays`). It holds for any number of processors. The
other three need one. `OwnerHoldsRow` is inductive together with `TInv` and `AttemptInv`:
only the owner ends a row, operators and clocks change rows that are not PROCESSING, and
the next claim, which alone recovers a lease, is the owner's own. Then a `fail` can only
reach a row that is PROCESSING, which is `SpecCompletedIsFinal`. `SpecImplementsQueue` maps
the queue's accepted and acknowledged messages to the captured and completed ones;
`QueueInv` is what the invariants above say together, so that an insert is an `Accept` in
order (`OrderInv`), a completion an `Acknowledge` of what was handled (`HandledInv`), an
execution a `Deliver`, and crashes, expired cursors, retries and archiving are not seen by the
queue.

**PartitionLoaderProofs.** `TInv` is `TypeOK`, what a worker knows at each step, and
`RecordsOK`: the batch number of every record is below the next number of its
record's target. The last part makes `AllocateNew` draw a number nobody has, also
when the sequence row does not exist yet and the number is MAX + 1; an `Allocate`
that reuses a number after an edit only raises the other target's sequence.
`SpecBatchesDistinct` follows with two cases, a step that keeps all numbers and one
that draws a fresh one. `OwnInv` strengthens `RowsInOwnPartition`: until an edit,
targets are the initial ones, records and workers stay at home with the target of
their object's mapping, a load uses the number in its object's record, and stage
tables hold the object's own rows. `SpecOrphansNeedFaults` counts stage tables
against faults.

**StreamPipelineProofs.** `PipelineImplementsLoader` says that the pipeline only restricts
the loader, so its invariants carry over (`Base`, with no mapping edited). None of the
properties of a reader is inductive. `PInv` says what the one call under way knows:
`CallOK` (the steps fit the event), `FilledOK` (what a stage table is being filled with:
both versions were written, in this order, the first no older than the event, than what is
visible and than any event of the object captured so far), `LoadOK` (the record names the
event; after the exchange its partition has the rows), `DeleteOK` (a delete works on the
partition of the record); besides, `RowsWritten`, `BucketsOK` and `DeletedIsEmpty`. The heart
is `FilledOK`: a retry may be of an old event, but it reads the object as it is now, so even
the oldest row of an exchange is no older than the newest one seen before
(`SpecImplementsTable`, step by step), and rows come back after a delete only if the object
was written again. `SpecNoGhostRows` and `SpecTornIsPending` need one more step of induction,
`LastEventIsDone`: once the last event of an object is completed, no row older than that
event is visible; as nothing newer was written, what is visible is then of one version, the
last (`DoneIsWhole`). `SpecSettledIsCurrent` is about behaviours
without a fault and needs what only these keep (`HealthyInv`): partitions are there while a
record says so, deletes succeed at the first attempt and are not overtaken, and the last
write is shown once it is completed.

**LoaderAdminProofs.** The invariants of `PartitionLoader` hold beside the cleanup, because
a cleanup only takes stage tables (`Strips`). `CleanupSparesLoads` is about a step at the
end of the cleanup, its reason is at the beginning; `GuardInv` carries one to the other:
of the loads that were under way when the request read what blocks it, those of its target
are the ones that neither the capture table nor a record shows (`ViewShowsLoads`, which
needs `OwnInv`: the load, its record and its mapping agree on the target), and they stay
the only ones, since a lapsed message stays lapsed while its call runs and a record is
never given back to a load. `SpecAdminRowsInOwnPartition` says that loads that lose their
table do no harm to the target.

**MappingRulesProofs.** `RuleTagged` is not inductive: a request links the rule it
knows of long after it read or created it. `IInv` adds `RequestOK`, what a request
knows at each step (above all, that its rule carries the tag of its mapping, and that
its mapping has an id below the next one), and `LinksOK`, that mappings refer to rules
that exist or existed. Ids only grow and a rule keeps its tag (`Grows`), so a step of
one worker leaves what the others know true (`OtherRequests`); then each action is
checked for the worker that takes it.

For `OneManagedRule` and `RuleFollowsMapping`, `MInv` adds to `IInv`, for every mapping that
is not disturbed: at most one request works on it, what that request read of the mapping
and its rule is still so (`StepOK`, by step: how far the rule in OCI and the reference in the
mapping are apart), and if none does, the mapping is managed (`Managed`: its rule is the one it
refers to and follows it). A step of a request on another mapping changes neither this
mapping nor, by `RuleTagged`, its rules; that is why disturbed mappings do no harm to the
others.

**LoadPoolProofs.** None of the three properties is inductive. `PendingOK` says that a
future that is unfinished, or that failed and has not raised yet, is among those the load
still waits for, and that these are fewer than twice the threads whenever another batch is
read: `SpecBatchesBounded` follows by counting, `SpecStageIsQuiet` as the pool is only left
without unfinished futures. For `SpecExchangedWhole`, `IInv` adds `ReadOnce` (every block
that was read is in the batch being composed or in one future, and in no other),
`StageOK` (a block is in the stage once if its future is done and not at all before; what a
failed one left is unknown) and `ResultOK` (the load gets to the exchange only with all
blocks read and no result outstanding). At the exchange every future is therefore done,
for any sizes of ranges, batches and versions and however the object is overwritten.
`SpecExchangedVersions` needs the rows wherever they are, in the batch, in futures and in
the tables: `VInv` adds `ReadForward` (a later block is never of an older version, and every
version is one between the HEAD request and the range being read) and `TablesRead` (the
tables have nothing that was not read). The last block exchanged was read from a version that has
it, which is the last part of the property.

**ProcessorDeploymentProofs.** `NameDeployedOnce` follows from what a request remembers: the
number of instances when it looked for its name, and that none of those holds it (`CallsOK`). A
name is never taken again and a deleted instance stays deleted, so this is still so
when the instance is created, however long OCI takes and whoever else creates one
meanwhile. `ModeFitsStream` relates two instances; `InstancesFit` says of each what its
request validated against a number of partitions that never changes.

**WebConsoleProofs.** One thread runs any page, so the type of what it remembers depends on its
step: `Fits` lists, for each step, what the request knows there, and `TInv` is that with
the types of all parts. `RegistryHasTable` is inductive with the types. For `ImportedOnce`,
`LoadInv` follows a job from its inspection (`InspectedOnce`) to its end: its rows are in the
table only after the commit of the one request that loads it, and from then on that
request is at its end or the job is gone, so that no other one finds it (`LoadedOnce`). After
the commit every key of the file is in the table, from this file or another (`Complete`), and
stays there, since other loads only add rows, until a DROP, which makes the job overwritten.
For `KeysStored`,
`KeysInv` says that in the quiet times the property is about, one request changes
profiles, every SSH profile has the key of its own name, and the key a request will
remove at its end is one that no profile it writes uses (`ChangeOK`).

TLC finds the inductive invariants true on the instances of the runs as well (an MC module
that EXTENDS the module of the proofs can name them). Two assumptions came out of the
attempts: without any stream or any session the initial states of two models have no value for what belongs to nobody.

**Only model-checked.** Liveness (`EventuallyCaptured`, `EventuallyCompleted`,
`EventuallyCurrent`, `EventuallySettled`, `LoadEnds`, and the absence of deadlock in
`load_ranges`) is out of the prover's reach, as it needs fairness and ENABLED. That
`ImplementsQueue` and `ImplementsTable` are refinements of safety only, the abstract
specifications state no fairness. The three counterexamples of the next section are TLC's.

## 6. Where code and documentation disagree

Each is a run that TLC ends with a counterexample.

1. `store_replay` / `ReplayIsIdempotent`. The comment in `run_partition_once` and
   `docs/technical-architecture.md:137-139` call the replay from the trim horizon
   idempotent because of the unique key. Archiving deletes the row with its key: a
   completed and archived message is captured and executed again.
   (`docs/technical-details.md:364-367` warns of replays in general.)
2. `loader_replay` / `ReplayIsNoOp`. A replayed create of an ACTIVE object is meant
   to be a no-op; the flag `already_active` is never read, so the object is loaded
   again and, if it is gone, the ACTIVE record becomes ERROR with its rows in place.
3. `pipeline_deleted` / `DeletedIsGone`. `docs/technical-details.md:361-362` promises
   a DELETED record and no partition for a deleted object. A create that met the 404
   before the DELETE was captured is retried after it: the partition is added again,
   the record ends in ERROR, and all messages are COMPLETED. No rows come back
   (`NoGhostRows`).

What the log and the pages do not promise, though a reader may expect it, is in the notes of
the hazards: the transaction log goes on saying PROCESSING for a message whose lease was
recovered and FAILED for one the operator retries, and the page's "Active loads are
protected" has the exceptions that `CleanupSparesLoads` names; and an import never fails with
the "duplicate primary-key value" of `import_service.py:117-118`: LOAD DATA LOCAL skips such
rows, and the import is reported as done, with the number of rows that were added.

## 7. Not modelled

- Retention: the trim horizon of the stream stays at the first message. A message that OCI
  discards before a processor reads it is lost, whatever the program does; the properties of
  capture hold for messages that are still in the stream when they are polled.
- The loop over several partitions of one processor, schema migrations at startup, the
  checks of the target's definition and of a CSV's values.
- In the loader, a mapping changes only by its target: which mapping an object
  resolves to when mappings are added, deleted or overlap is not modelled.
- In the pages for mappings: the checks of a form's text, a stream that is not
  available, disabling a rule (a flag nothing reads), the target columns. That a
  new scope is not yet taken is modelled (`Validate`), but no property says that
  scopes are exclusive: concurrent requests, and requests that want no rule, can
  give two mappings the same scope.
- In orchestration: registry images and the database secret, each one call. Who may deploy
  which partitions is not restricted by the code, so `ProcessorDeployment` has no property
  that keeps two names from one partition; what happens then is in `store_overlap`.
- Reinitialising the control schema: batch numbers start again while the partitions of the
  targets remain. Any property would exclude exactly that request.
- What happens to an uploaded file that is refused, or whose session ends: it stays, as
  `Inspect` shows, and nothing reads it again.
- The settings file beside the profiles; the SSH tunnel; the inference of column types and
  the text of SQL statements, functions of one input.
- Views and downloads, adapters of OCI and Vault, shell scripts: input and output without
  state worth a model.

## 8. Plan

What is left to model, in this order: the choice of the most specific pattern and the
source key of a mapping that is deleted and added again, over `PartitionLoader`; `LoadPool`
as an implementation of `OpenObject` and `FillStage`, which so far `ExchangedVersions` only
justifies.

Theorems worth proving next: what follows from the abstract specifications alone
(`EventQueue`: what is acknowledged was accepted, in order; `SourceTable`: what is visible was
written), and through the refinements holds of the detailed ones.
