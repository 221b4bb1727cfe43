# Verification of adaptarr-server

adaptarr-server is the back end of Adaptarr!, a tool to edit textbooks
together: modules (documents) live in teams, are gathered in books, and change
only by going through an *editing process*, in which users who occupy *slots*
pass a *draft* from *step* to *step* until it is published. Users talk about
modules in live *conversations* and are told of what concerns them by
*events*, over a WebSocket and by mail.

This directory holds TLA+ modules translated from the Rust sources, the TLC
configurations that check them on small instances, and proofs, checked by
TLAPS, of every safety property the runs check. `PROJECT.json` ties every
definition to the lines it stands for, lists the hazards the properties are
for, and names for each property a mutation of the code it catches.

    tlc -workers 2 -config drafts_alone.cfg MCDrafts      # one run
    tlapm DraftsProofs.tla                                # one proof module

Paths below are relative to `src/crates/` unless they start with `doc/` or
`migrations/`, which are relative to `src/`.

## 1. Inventory

The server is one process: an actix-web server with several worker threads,
actors of the actix runtime beside it, and a PostgreSQL database that all of
them share. A request is served by one worker with a pooled connection. It
loads models (rows), checks the user's permissions, and calls operations of
the models, most of which open a transaction. PostgreSQL is left at READ
COMMITTED and nothing is read `FOR UPDATE`: **what a handler read before its
transaction may be stale in it.** That one fact is behind most of the hazards.

| Part | Code | State | Operations | Interacts with | What is hard | What makes it correct |
|---|---|---|---|---|---|---|
| Modules and drafts | `models/src/models/{module,draft,document}.rs`, `rest-api/src/{modules,drafts}.rs` | `documents`, `modules`, `module_versions`, `drafts`, `draft_slots` | create and replace a module, begin a process, advance and publish, cancel, write, delete files | events, processes, cross-references | handlers that work on a row loaded earlier; an upload that streams between check and write | no document serves twice, histories stay, published content stays, drafts follow links |
| Editing processes | `models/src/models/editing/`, `rest-api/src/process.rs` | process, version, step, slot, link, grant, role limit | validate and store a version, rename, limit slots to roles, fill slots | drafts, teams | a validation of twenty checks that stops at the first error; rows that name each other by id; versions created while drafts follow older ones | `validate` lets through what can be run to its end, and only that; rows read back as what was asked for; whoever loses a slot is told |
| Books | `models/src/models/{book,bookpart}.rs`, `rest-api/src/books.rs` | `books`, `book_parts`, ordered by an index in each group | create, delete, re-import, insert, move and delete parts | modules, importer | renumbering under a unique constraint; moves of parts read earlier; a cascade against a trigger | the parts form an ordered tree, edits leave other parts alone |
| Conversations | `conversations/src/`, `models/src/models/conversation/`, `rest-api/src/conversations.rs` | broker's listeners, each client's mailbox, `conversation_events` | connect, send, ask for history, notify the absent, disconnect | events | actors that answer each other later; order of responses; clients that vanish | nothing missed, right order, every request answered, entries freed |
| Events | `models/src/events/`, `rest-api/src/events.rs` | `events`, `EventManager`'s streams and `last_notify` | notify, stream, mark read, mail what is unread | all of the above, mail | failing rounds of mail; restarts; several streams of a user | streams without gaps; what stays unread is mailed, and not again and again |
| Sessions and passwords | `web/src/session.rs`, `pages/src/lib.rs`, `models/src/models/{user,password}.rs`, `rest-api/src/users.rs` | `sessions`, `password_reset_tokens`, a sealed cookie, what a request keeps of its session | log in and out, elevate, expire, change or reset a password | users, mail | requests that share a session overlap; a password changes under a login | a destroyed or expired session never comes back, nor does an elevation; old tokens are void |
| Users, invitations | `models/src/models/{user,invite}.rs`, `pages/src/lib.rs` | `users`, `invites` | invite, register, join, decline | teams, mail | one code used by two requests; an invitation used while it, its role or its team's members change | people join on the terms of an offer to them, which is then gone |
| Teams, roles, members | `models/src/models/{team,team_member,role}.rs`, `models/src/permissions.rs`, `rest-api/src/teams.rs` | `teams`, `team_members`, `roles` | create, change and delete roles, add, change and remove members | processes (role limits) | a role deleted while members and invitations name it; a member changed from what was loaded earlier | roles stay in their team, and where they are needed |
| File store | `models/src/models/{file,document}.rs`, `rest-api/src/drafts.rs`, `web/src/etag.rs` | files on disk named by their hash, `files`, `document_files` | store a stream, write and delete files of drafts, compare entity tags | drafts, resources, importer | two uploads of one content; a template written again in place; a crash; a lost update in spite of If-Match | what is referred to has a row, and a row's file is on disk, whole |
| Cross-references | `models/src/processing/xref_targets.rs` | `xref_targets`, `documents.xrefs_ready`, two mailboxes | process a document, process stale ones at the start | drafts, importer | a full mailbox, a roll-back after the message, errors and crashes between rows, one failure among many, a second upload, two workers | the rows stem from the indices processed, drafts have none, and what was sent or left is processed unless the database failed that call |
| Importer | `models/src/processing/import.rs` | one worker's queue | import modules and books from archives | modules, books, file store | bulk changes in one transaction; whose directory a file is in | documents have what the archive holds for them |
| Audit log | `models/src/audit.rs` | a thread-local actor, `audit_log` | record an operation | everything | the actor of one request seen by another | entries name who acted |
| Resources | `models/src/models/resource.rs`, `rest-api/src/resources.rs` | `resources` | create, rename, replace content | file store | conditions checked before the upload; a name that is null-safe only below the top | a tree, names unique in a directory |
| Mail, i18n | `mail/`, `i18n/` | a queue of mails | render and send | events, invitations | I/O | - |
| Server, command line, plumbing | `cli/`, `web/`, `macros/`, `error/`, `util/` | - | start, parse, extract, guard | everything | I/O | - |

`PROJECT.json` (`components`, `hazards`) has the same list with the status of
each part and the hazards line by line.

## 2. Plan

1. `Drafts` with `DocumentLifecycle`: modules, drafts, slots, versions of the
   process. *Done; everything is proved.*
2. `BookParts` with `Outline`: the outline of a book. *Done; everything is
   proved, the refinement of `Outline` included.*
3. `Conversations`: broker and clients. *Done; all safety proved.*
4. `Events`: EventManager, streams, mail. *Done; all safety proved.*
5. `Sessions`: the two ends of a request, elevation and expiry with a clock,
   passwords, reset tokens. *Done; everything is proved.*
6. `Structure` with `StructureCases`, and `Processes`: descriptions, their
   validation against a declarative reference, and the rows made of them.
   *Done; everything is proved, the work lists of `validate` included.*
7. `Accounts`: invitations, registration, teams, roles, members. *Done;
   everything is proved.*
8. `Files`: the file store, files of drafts under If-Match, imports,
   resources, crashes. *Done; everything is proved.*
9. `Xrefs`: the rows made of an index, mailboxes, worker, start. *Done; all safety
   proved, and the rows of an index for every index.*
10. Left: compositions, `Drafts` emitting into `Events`
    and `Conversations` notifying through it.

The modules are written to be proved about: parameters are CONSTANTS with a
named assumption, an operation is one action (cut only where what it read may
be stale, or where it waits), invariants are conjunctions of named parts, and
no module declares a RECURSIVE operator.

## 3. Modules and the code they stand for

### Drafts (`Drafts.tla`, `MCDrafts.tla`, `DocumentLifecycle.tla`)

The variables `documents`, `modules`, `versions`, `drafts`, `seats`, `limit`
and `role` are the tables `documents`, `modules`, `module_versions`, `drafts`,
`draft_slots`, `edit_process_slot_roles` and `team_members.role`. `serial` is
the sequence of `documents.id`. `requests` is what each worker thread holds in
its local variables; `notices` is what the last step told EventManager.

A handler is two actions: the one that loads the models and checks the
permission (`LoadModule`, `LoadForDelete`, `LoadForAdvance`, `LoadForWrite`,
`LoadForFill`), and the one that writes (`BeginProcess`, `DeleteDraft`,
`AdvanceDraft` and `FinishDraft`, `WriteDraft`, `FillSlot`). Advancing has a
third between them, `CheckSlot`, because `Draft::advance` looks the occupant
up in a statement of its own. Replacing a module counts its drafts in an
earlier statement (`CountDrafts`, `ReplaceModule`). `Fail(h)` is any error of
the database or the client: the request ends with nothing written.

`DocumentLifecycle` is the abstract specification: each document is unused,
then working or published at once; a working one is published or discarded; a
published one stays. `ImplementsLifecycle` maps the tables to it, and is both
checked and proved.

Abstractions: a document's title, index and files are one `Content`; the
structure of a process version is constant, as it is in the code once stored;
what `structure::validate` has established is the assumption
`ProcessAssumption`. `Draft::advance` is called with one link at most per pair
of step and slot, as the code looks it up by step, slot and target.

### Books (`BookParts.tla`, `MCBookParts.tla`, `Outline.tla`)

`parts` are the rows of `book_parts` of one book. Operators over row sets are
the statements of `bookpart.rs` (`MakeRoom`, `FillGap`, `CreateAt`,
`Reparent`), so that properties can speak about what *would* happen from a
state. A transaction takes effect at once, if `Allowed` (the foreign key and the
unique constraint, which is deferred to the commit; the index column does not overflow).
`LoadForMove` and `MovePart` are the two halves of `update_part`.
`Outline` is the abstract specification: an edit creates, inserts, drops,
replaces or moves, and reorders nothing else. It says so without indices:
`KeepsOrder` compares what is listed before what in two outlines, and
`ListedOnce` is what an outline always is. It is both checked and proved.

Abstractions: one book at a time (no operation touches two); titles left out;
whether a number stands for a module or a group is fixed; `MaxIndex` is the
greatest `i32`.

### Conversations (`Conversations.tla`, `MCConversations.tla`)

One conversation. `mailbox` and `listeners` belong to the Broker actor,
`status`, `inbox` and `requests` to the Client actors, `wire` is what each client has sent,
`log` is `conversation_events`. `Suspended` is what `ctx.wait` does: the client handles
neither frames nor events until its future is ready; `spawn` does not
suspend, and the answer may come at any time. The broker finds out that a
client is gone when a send fails (`failed`, `DropFailed`) or from its
`Disconnect`. `Walk` is the double iteration over two sorted lists that
decides who is to be notified: it stops among the members at the first not
before a listener's user (`StopsAt`), and goes on with the next listener of
another user (`NextUser`). The lists themselves are defined by rank
(`Ascending`, `ListeningUsers`).

Abstractions: the message format is reduced to valid or not; cookies are the
number of the request; pings, the `before` half of a history, and creating
conversations are left out. `MCConversations` also assumes (and TLC evaluates)
`WalkIsExact`: for every set of listeners over a small set of members the
double iteration yields the members without one.

### Events (`Events.tla`, `MCEvents.tla`)

`mailbox`, `job`, `streams` and `since` belong to EventManager (`since` is
`last_notify`, as a position in the table rather than a time), `status`, `inbox` and `sent`
to the Listener actors, `events` is the table. `job` is the message or the
round of mail the actor is in the middle of: an event is written for one
target at a time, mail is handed over for one user at a time, and either can
fail in between (`FailNotify`, `FailRound`). `Restart` loses all but the table.
`Capacity` bounds `try_send` only, as it does in actix.

Abstractions: contents and layout of events; a mail counts once handed to the
Mailer, whose own queue may still lose it.

### Sessions (`Sessions.tla`, `MCSessions.tla`)

`sessions` and `tokens` are the tables `sessions` and `password_reset_tokens`,
`nextSession` and `nextToken` their sequences, and `password` counts the
changes of `users.password`. `requests` is what a request carries: the copy of
its session that `before_request` put in the request's extensions, the session
its handler asked for, and the user whose password it is about to change.

A request is at least two actions, `Begin` (or `BeginWithout`) and `End`, with
the handler's between them: `Login`, `Elevate`, `Logout`, `RequestToken`, or a
change of password, which is cut in two (`LoadToken` or `CheckPassword`, then
`Change` or `RefuseChange`) because the token or the current password is looked
at before the transaction. `Tick` lets time pass anywhere. The `password` of a
row is not a column: it records which of the user's passwords the session or
the request for a token goes back to, so that properties can tell an old one
from a new one.

Abstractions: users are constant (accounts are made in `Accounts`); a cookie is the number of its session; the
check of a password succeeds (a failed one is a request that does nothing);
durations are small numbers with the order of those in the code.

### Editing processes (`Structure.tla`, `StructureCases.tla`, `Processes.tla`, `MCProcesses.tla`)

`Structure` is `editing/structure.rs` as operators on descriptions. `Validate`
runs the code's checks in their order and answers with the first error;
its two work lists (what is reached from the start; what leads to a final step)
are one recursive function over the number of pops, `Explore`. `Accepted` says the
same without an order and without work lists, of paths and of sets, and is
what `Validate` is compared with. `StructureCases` are the cases of the unit
test, evaluated as an assumption. Indices start at 1.

`Processes` has the seven tables below `edit_processes` as variables, with
ids in the order of insertion, and one action per handler of
`rest-api/src/process.rs`. Only creating a version is cut in two
(`LoadProcess`, `CreateVersion`), since it loads its process before it begins a
transaction. `Structure(v)` reads rows back as `get_structure` does; `InOrder`
lists rows as a query with an `order_by` does, and the orders of the queries are
the relations `ById`, `BySlot` and `BySlotAndTarget`. `asked`
and `answer` are ghosts: what a version was made from, and the last answer.
`Drafts` takes links and grants of a version as constants: that they do not
change once stored is `ReadsBack` here.

### Users, invitations and teams (`Accounts.tla`, `MCAccounts.tla`)

`teams`, `accounts`, `roles`, `members` and `invites` are tables; a user
stands for their email address. `requests` holds what each of the `Requests`
looked up (`Idle` when it is not under way), so that two of them may hold one
invitation and each act on it: an
invitation to be stored (`CreateInvitation` or `AddMember`, then
`StoreInvitation`), one to be used (`LoadInvite`, then `FulfilNew`,
`FulfilExisting` or `Decline`), a change of a member (`LoadMember`, then
`UpdateMember`, which writes permissions worked out from the member as
loaded). `AddUser` and `Enrol` are commands of the command line. Deleting and
changing roles, removing members, registering and expiry happen in between.
`stranded` is a ghost: invitations to register that were stored for somebody
who got an account after the request had looked.

Abstractions: names of users and teams, locales and the mails; what a role is
in a slot of a process is left to `Processes` and `Drafts`.

### Files, imports and resources (`Files.tla`, `MCFiles.tla`)

A content stands for its hash. `rows` is the table `files`, `disk` is what is
under the path of a content (nothing, `"partial"` or `"whole"`). Storing a
content is `LookUp`, `Place` (and `Fill`, where the code writes in place
rather than renaming a finished file), `Insert`; a request has a list of
contents to store and then does what it came for (`WriteFile`, `SetFile`,
`AddResource`, `AddModule`, `FinishImport`, `FinishCollection`). Requests that
run in one transaction keep their rows to themselves until the end, and an
insertion waits for a transaction that inserted the same. `If-Match` is looked
at in `BeginUpload` and `BeginUpdate`, before the payload is stored. `Crash`
ends all requests; the disk stays as it is. `overtaken` and `cut` are ghosts.

An archive is a sequence of entries with directories; `Imported` (the entries
that become files), `Picked` (entries in the order of the archive), `ModuleIn`
and `Loaded` (the modules of a collection that are there, one after the other)
are what the importer takes of them and in which order. Reading ZIP and XML is a library's.

Abstractions: MIME types; permissions (in `Drafts` and `Accounts`); deleting a
document leaves a tombstone, so that ids are not used again.

### Cross-references (`Xrefs.tla`, `MCXrefs.tla`)

`Rows` is `process_document`: an index is a sequence of elements with their
parents, `IterTree` the walk with an explicit stack, `Visit` the counters,
their resets and the context. Around it run two `TargetProcessor`s with a
worker each (`Processors`): the server starts the "first", to which nothing is ever
sent; the one in the registry, "registered", is started by the first message
(`Reaching`). Each worker begins with `process_stale`. `mailbox` belongs to the
registered one and is bounded for `try_send` only; `queue` and `worker` are
per processor. A document processed alone is not in a transaction: its rows
are inserted one by one (`InsertTarget`) and marked at the end (`MarkReady`), while
`process_stale` is one transaction that reads at one time (`BeginStale`) and
commits at another (`FinishStale`). What has no connection or meets an error of
the database is logged and forgotten: the message (`FailToTake`), the rest of a
document's rows (`FailDocument`), the whole of `process_stale` (`FailStale`).

Requests and imports are tasks with an identity (`underway`), which load a
module or a draft (`LoadModule`, `LoadDraft`) before they act. `Advance` and
`ReplaceModule` send before they `Commit`, and may be rolled back with the
server up (`Rollback`); a transaction that publishes keeps others of its module waiting
(`ModuleLocked`, `DraftLocked`). `Advance` goes by the module: the row of whatever
draft the module has goes, so a document may become an "orphan", and may still
be published by a request that had loaded it; one that was published before is
refused by the key of the module's history (`module_versions`), which a trigger
fills, before anything is sent. `BeginDraft` duplicates the document that was loaded,
which may be the module's no longer. `Crash` undoes what is not committed and
empties everything in memory; `Start` queues `process_stale`.

`TargetOf` is what `models/src/db/models.rs:363` and
`doc/api/modules.md:204` say of a target, from document order (`Precedes`) and
ancestors alone: a solution, commentary or subfigure has the exercise or figure
it is in as context and is counted from there on. The code carries one context
along and never resets the commentaries' counter, so it agrees only where
`OwnedAsExpected` holds; elsewhere `TargetsOf` asks for the right type and
description, and for a context and a number that are not out of bounds. A table is
what the rows of one document are: a function from elements, as `(document,
element)` is the key of `xref_targets`. What an index is, `IsIndex`, is the assumption
`TextsAssumption`. Ghosts of a document are the indices it was processed
with (`tried`), whether a publication that had sent it was undone (`undone`), and
whether it was written to after it had been loaded to be published (`late`);
`failed` lists what the workers failed to do.

Abstractions: the text of a description but for the element it is taken from;
a broken index is one that does not parse. Permissions, slots and steps of the
editing process are in `Drafts`.

## 4. What the runs check

| Run | Instance | What it shows |
|---|---|---|
| `drafts_overlap` | two modules, two workers, one user, four documents, one version of three steps | what holds *however* handlers overlap: no document serves twice, histories are sound, no draft rests at a final step, a published document settles; `Drafts` implements `DocumentLifecycle`; the inductive invariant of the proofs |
| `drafts_alone` | one module, one worker, two users, one role, two versions | what holds only when requests come one at a time: advancing follows a link, no orphaned document, no replacement under a draft, whoever is displaced is told |
| `stale_advance` | one module, two workers | the first of these fails as soon as two requests overlap |
| `autofill` | one module, one worker | automatic slots are never filled when a step is entered |
| `books` | two groups (one of them the root), two modules, two workers moving parts, index up to 2 | the rows stay sound, moves land where asked, only moving a part below itself loses parts, `BookParts` implements `Outline` |
| `conversations` | three members, two connections, two requests, three messages of which one is old | nothing recorded since the broker let a client in is missed, whoever was let in listens, responses in order, history meets live messages, the absent are notified, and, as liveness, requests are answered |
| `events` | two users, two streams of one of them, two events, one failing round, one restart | a stream is passed its user's events since it was registered with none left out, up to the newest one unless the user opened another; mail is repeated only after failures; and, as liveness, what stays unread is mailed |
| `sessions` | two users, one of whom may elevate, two requests, two sessions and a token ever made, two changes of each password, time up to 2 | an ended session stays ended and an elevation is never regained, whatever overlaps; a change of password voids the tokens; once nothing of an older password is left, none comes back |
| `processes` | some 16 000 descriptions (every graph of four steps with two links from a step at most, every choice of permissions in three steps, the cases of the unit test), two roles, two versions | `validate` answers as its reference does; rows of a version stay together, whatever is refused or rolled back, and read back in the shape asked for; a new version names its process but for overlapping renames |
| `accounts` | two teams, two people, one role, two invitations, two requests, one permission | members' and invitations' roles are there and of the right team; people join on the terms of an offer and use it up |
| `files` | two contents, one file beside the index, two requests, two documents, three resources, four archives, two collections, crashes | what is referred to can be read; resources are a tree with unique names; a condition is disregarded only when another upload came between; imports bring exactly what their archive holds |
| `xrefs` | some 1500 indices of four elements and five others, two tasks, three documents, a mailbox of one, one failure of a worker, crashes | rows stem from the indices processed, as the documents want them wherever the code does what they say; drafts have none but after an undone publication; and, as liveness, what was sent is processed, and what was left is after a start or a book's import, unless the database failed that call |

The bounds, and why they are enough. `MaxDocument` lets both modules be
created, begun and published, or one begun again, so every pair of handlers
overlaps with every change of the other's document. Two workers suffice
for the overlaps the code has: a handler's memory is compared with a table,
never with a third party's memory. Two versions of a process are enough to
have a draft that follows an old one. In `books`, two groups and two modules
are the least in which a part can be moved between groups, below itself, and
past a sibling, and `MaxIndex` is small enough to overflow. In
`conversations`, both connections are one user's, which is where addresses and
user ids part, and two members have none; two requests cover every pair of
kinds and of the flag that a response is required. In `events`, a mailbox of two
fills up. What a stream and a client hear is compared with all that was recorded
after the moment the manager or the broker took them in (`opened`, `connected`,
ghosts), so two events after it already tell a gap: the first is left out and the
second is passed. In
`sessions`, an elevated session is lowered after one tick without use and every
session is rejected at the second, whether used meanwhile or not (the two
limits of a normal session coincide; time up to 3, with a longer life than
inactivity, passes as well); two sessions are enough for one to replace another,
and a login, an elevation and a change of password to meet. Counters of failures and restarts are
bounds on the environment and are named as such where they are declared.

In `processes`, four steps are the least with a cycle that neither the start
nor the end is on, which is what an isolated part of a graph needs; the first
description may be any of all, later ones are four that differ in order, roles
and what the keys refuse (`Later`), and TLC goes on from states with two
versions or changes in all (`Explored`). In `accounts`, `Explored` keeps
members, invitations, requests and accounts at four together: enough for two
requests that hold one invitation, one of which declines it before the other
takes it up, for a role that is deleted under a request that is about to join
with it or to store it, and for an account made while an invitation to it is being stored. In
`files`, two requests storing one content are all that the unique path can
tell apart, and the archives (`MCArchives`, `MCCollections`) have an index at
the top, in a directory and missing, a name twice, a module below another and
one that is not there. In `xrefs`, one document may have any index; documents
that are also created, replaced, drafted, uploaded to and published have one
of two, or one that cannot be parsed. The indices have exercises, solutions,
figures and notes in every tree of three below the root, with and without ids; the
five others have subfigures, commentaries, two scopes, a note with a type and an id
twice. `Explored` counts a document that was not deleted as two, and a task, a
message, a failure and the pass of the first worker as one; six of these are enough for a draft
that is sent, rolled back and deleted, for one of two messages to fail, and for both
workers to meet in a document. A third document is followed when a request
deletes a second that was loaded before (which leaves an orphan).

The constraints `Explored` cut behaviours off, which bears on liveness in
`xrefs`: TLC checks the behaviours that stay within the bounds. Both liveness
properties are refuted within them by a mutation of the code (`mutants` in
`PROJECT.json`).

`CHECK_DEADLOCK FALSE` is said where the bounds let the system stop: in
`conversations`, when every connection is gone nothing more happens, as it is
in the server; in `processes`, `accounts`, `files` and `xrefs`, when the
bounds on rows are reached.

**Fairness.** In `Events`: `WF(Work)`, a handler that has begun is run to its
end; `SF(Receive)` and `SF(BeginRound)`, since messages and timer compete for
one actor and the runtime polls both; `WF(Forward(l))`, a listener's mailbox
is polled. Nothing is assumed of users or of restarts. In `Conversations`:
`WF(Broker)` and `WF` of each client actor; remotes owe nothing, they may
never speak or never close. In `Xrefs`: `WF(Forward)` and, for each processor,
`WF(Work(p))`, since actix delivers what is in a mailbox and a worker is a thread
that does nothing else. `Work(p)` is what succeeds; a failure (`Fail(p)`) is not
fair and not retried, and the liveness properties excuse the call that failed and
no other. Tasks may be abandoned, and the server need not be started. In
`Drafts`, `BookParts`, `Sessions`, `Processes`, `Accounts` and `Files` no
liveness is claimed: nothing in the server must happen unless a user asks for
it.

## 5. What is proved

`DraftsProofs` (from `BoundAssumption`, `NullAssumption`, `ProcessAssumption`;
for any number of modules, users, workers, documents and any processes):

- `Invariance`: `Spec => []DraftsInvariant`, and from it `TypeCorrect`,
  `Unshared`, `SoundHistories`, `NeverRestsAtTheEnd`, `SeatsGoWithDraft`;
- `Settling`: the action property that a published document without admitted
  writers never changes;
- `Implementation`: `Drafts` implements `DocumentLifecycle`;
- under `OneAtATime` (there is at most one worker; everything else is as
  before, modules are created and the team changes while a request is at work):
  `NothingOrphaned`, `DraftsFollowLinks`, `DraftsKeepTheirBase` and
  `DisplacedAreTold`. Without the hypothesis none of the four holds:
  `stale_advance` shows it of `AdvanceFollowsLink`. Their invariant is
  `AloneInvariant`, inductive on top of `DraftsInvariant`: what a request
  remembers is still so (its draft is there, at the step and with the document
  it was loaded with, the slot it checked is still its user's, the occupant it
  read still sits there, the module it counted no draft of has none), a draft's
  module exists, and every document is referenced.

The argument: a stale handler may write, but only with the identities it
remembers. `Allocated` says that nothing remembered or stored is an identity
still to be handed out, so a fresh document is nobody's. `ReferencesDisjoint`
says that what a module, its draft and the handlers at work on it remember is
disjoint from what any other module's do: it is the strengthening that makes
`DocumentsUnshared` inductive, since a handler may publish or delete what it
remembers long after it has read it. `RequestsSound` says which fields of a
request are filled in. `DeleteDocument` is guarded by the foreign keys, which is
what keeps a stale deletion from removing a published version. Each action has
a lemma of its own; quiet ones share `QuietStep`.

`BookPartsProofs` (from `BookAssumption`; for any finite set of parts, any
handlers and bounds): `PartsStaySound`, groups list distinct parts whose own
group is there; `MovesLandWhereAsked`, which also says that no two parts but
the moved one change order in any group; `OnlySuchMovesCutOff`, only moving a part
below itself takes parts out of the tree; `OutlineImplemented`, `BookParts`
implements `Outline`. The invariant adds to the types and `PartsSound` only
that the target of a move in progress is a group: the rows a request
remembers may be out of date, but no part changes from a group into a
module. The argument: what renumbering does to a group is described by
order alone (`MakeRoomShifts`, `FillGapShifts`, `ReparentMoves`), and lists
of a group before and after a step are compared by `SameOrder`. `Below` and
`CreateTree` are folds; `Iteration` and `BelowIsLeastClosed` say once what
a fold does and that the parts below some are the least closed set with them.

`EventsProofs` (from `EventsAssumption`; for any number of users, events,
listeners, failures and restarts):

- `MailedOnce`: an event is in one mail, and one more at most for each round
  that failed. The invariant counts separately: while an event is ahead of
  `last_notify` and not taken by the current round, only failed rounds have
  mailed it (`CountSound`), and a round only holds events between `last_notify`
  and its own end (`RoundSound`).
- `StreamsHaveNoGaps`: what a stream was passed are its user's events since it
  was registered, in order, and all of them for one that never had a rival.
  `Streaming` says it of what was
  sent and what waits in the mailbox together, ties the stretch's end to being
  the registered listener, and says what may be in the manager's mailbox: of a
  listener one registration at most, and only before it is answered
  (`MailboxSound`).

`ConversationsProofs` (from `ConversationAssumption`; for any members,
connections, requests and messages):

- `StaysListening`: a client that was let in is among the broker's listeners
  until it stops. It needs that one `Connect` at most is under way per client, and
  that the broker drops, by message or after a failed send, only clients that
  have stopped (`ConnectSound`, `DropSound`).
- `NothingIsMissed`: what a connection was sent and is about to be sent begins
  with the first message recorded after the broker let it in and leaves none
  out, and is all of them until it stops. `HeardSound` says that it is an
  ordered stretch, `Since` where the stretch begins and ends; both rest on
  `StaysListening`.
- `AbsentAreTold`: each new message is notified to exactly the members without
  a listener. Here `Walk` is proved to be exact for all sorted lists, with
  any number of connections of a user (`WalkIsExact`).
- `RespondsInOrder`: no request is responded to twice, and a response that was
  asked for comes before those to later requests.
- `HistoriesMeetLive`: a history begins with its reference event, and nothing is
  left out between one that has room for more and what is heard live,
  *provided that* `Wide - 1` is not in `After`: no client asks for 65535 events,
  with which `number_after + 1` overflows (section 6).

`SessionsXrefsProofs`, its first part (for any users, requests, sessions and durations):
`TypeCorrect`; `TokensVoided`; `OnlyFade`, a session that ended stays ended and
what is left of one is never raised, prolonged or given away; `CurrentForGood`,
once no session and no request goes back to an older password, no session
does again. All are preserved by each step from the type
invariant alone. What makes them hold is that the way out only updates
`last_used`, by an UPDATE that skips a row that is no more, and that new rows get new ids:
`SessionsUntouched` names the three kinds of step that write sessions at
all, and `DowngradedType`, `TouchType` and `DeleteType` say what each may do to a row.

`ProcessesProofs` (from the assumptions of `Processes`; for any descriptions,
roles, names and bounds): `ProcessesTypes`; `ProcessesConsistent`, every process
has a version and the rows of a version name only rows of the same version;
`DeleteIsRefused`; `VersionsNameProcess`; `VersionsReadBack`, what
`get_structure` reads of a version has the shape it was asked for, at any later
time; and `ValidateSound`, `validate` lets through what it should and nothing
else. The argument for the first three: ids are places in a table that only grows, so
rows that are there keep meaning what they meant, and a description that
`Validate` let through has its slots, targets and start within range, so that the
ids made of them are ids of the same version. Of `Validate` this takes only that
its checks of indices answered `Valid`. For
`VersionsReadBack` the invariant is `LayoutSound`: the slots of a version have
consecutive ids, and so have its steps, whence index and id determine each other;
its grants and links are those asked for, shifted by where its ids begin; and no
two links join the same steps, which makes the order of the query an order
(`LinksOrdered`). `InOrderIs` says of any finite ordered set that the list holds
each member once, at its rank. TLC finds no violation of `LayoutSound` within the bounds of
`processes`.

`ValidateSound` rests on a theorem about data alone, `ValidateAccepts`: for every
description, of any size, `Validate` answers `Valid` or one of its errors, and
`Valid` exactly when the description is `Accepted`. Each check is compared with the
conjunct of `Accepted` it stands for (`CheckedNames` to `AcceptingChecked`). The two
work lists are one theorem, `ExploreReaches`: on any graph, `Explore` finds the
least set that has the seeds and is closed under the edges. Its invariant
(`Explored`): whatever the nodes seen lead to was seen or is on the stack; both are
part of every such set; and the pops done and those still due are no more than the
seeds and the edges that leave what was seen, which is why as many pops as there
are seeds and edges empty the stack. Both searches, from the start along the links
and from the final steps against them, are then one statement about sets of steps
that no link leaves (`ReachableIs`, `UsableIs`), the second by taking complements.

`AccountsProofs` (from `PermissionsAssumption`, `NoRoleAssumption` and
`BoundsAssumption`; for any teams, users, roles, permissions and bounds):
`AccountsStaySound`, the inductive invariant; `RolesStay`; `OffersAreTakenUp`.
`RolesKept` alone is not inductive: that a deleted role is nobody's comes from
the foreign keys, but that a stored or used invitation is of a team that
exists, and for somebody who has the account it relies on, has to be known of
what requests remember (`RequestSound`) and of rows (`InviteSound`). An
invitation that a request loaded may be gone when the request uses it;
ids are not used again, so no other is deleted in its place. TLC finds no
violation of the invariant within the bounds of `accounts`. `OffersAreTakenUp` is
of any number of requests, several of which may hold one invitation.

`FilesProofs` (from the assumptions of `Files`; for any number of requests,
contents, names, archives and crashes): `FilesStayReadable`;
`ResourceTreeStaysSound`; `LossesOnlyByOverlap`; `ImportsKeepArchive`. The
invariant: what a request is there to keep waits to be stored or has a row, its own
or a committed one (`Gathered`); a row, and what is about to become one, has its
content on disk, whole, or is being filled by a request or was cut by a crash
(`DiskSound`); what a conditional update will replace is named by its condition
unless another write came between (`Unlost`); only requests in a transaction
have rows of their own, and the documents and resources they name are there (`Fits`).
That an import makes what its archive holds is then about the importer's own lists: `Unpacked`
and `Loaded` are shown to hold what the declarative `ImportKept` asks for.

`SessionsXrefsProofs`, its second part, shares nothing with the first but the file. It
is about `Xrefs` (from `CapacityAssumption`, `UploadsAssumption` and
`TextsAssumption`; for any indices, of any size and depth, any number of
documents, and any capacity):

- `TreeIsWalked`: `iter_tree` returns every element once, in document order. Between
  two of its steps (`Walked`): what was returned is in order; the lists on the stack
  are what is left of the children of one element each, a later list's after
  everything returned and before everything in an earlier list (`OutFirst`,
  `LaterFirst`); an element was returned or is below one that waits
  (`Pending`); and the number of steps, with what is on the stack, is twice the number
  of elements returned, which is why `2 * Len(index)` steps empty the stack.
  That `Precedes` is an order rests on `AncestorsChain` and on where two branches part
  (`OneBranch`, `BranchesApart`, `PrecedesOneWay`).
- `RowsAre`: of each element that can be a target, and of no other, `process_document`
  makes one row, and it is in `TargetsOf`. `Visited` says what the carried state
  stands for: the last target that is not owned, and how many targets of a name came
  since the one that resets it. `Made` puts that in terms of all the elements before
  one, and `MadeOfOwned` shows it to be `TargetOf` where `OwnedAsExpected` holds: nothing
  but owned elements between an element and its owner, so the last owner in the
  document is the one around it (`OwnerIs`, `ContextIs`, `CountedIs`).
- `XrefsInvariantHolds`, the inductive invariant, and from it `TargetsFollow` and
  `DraftsStayUnprocessed`. `TargetsFollowIndex` alone is not inductive: messages, a
  task that loaded a draft, and the workers all carry an index that may be old, so
  the invariant says of each that it is the document's unless that was written to too
  late (`Mail`, `TaskSound`, `WorkerSound`); the rows a worker in the middle of a
  document has left complete the document's table, if it was processed with no
  other index (`Completes`), which is what makes `MarkReady` right with two workers
  and with errors; and none of them names a draft but one that is being published or
  whose publication was undone (`Processable`). No step makes wrong what is on its way
  (`Kept`): a document leaves `Processable` at the end of a transaction only, and
  then it was published, deleted, or is marked as `undone`. Of an update over
  older rows, `Stems` is what stays: each column that the new row has no value for
  comes from some row of that element (`StemsUpdated`).

Three assumptions on constants were stated for these proofs, and TLC evaluates
them: a set of parts is finite; no value stands both for a missing reply and for
a reply; and an archive or collection has no empty index (`ArchivesAssumption`,
`CollectionsAssumption`), since an empty file is not XML and the import ends
with an error before anything is stored.

Folds and functions defined from one place to the next do call for induction.
The library's induction theorems have an operator parameter that no prover here can
instantiate, so `BookPartsProofs`, `ConversationsProofs`, `FilesProofs`, `ProcessesProofs` and
`SessionsXrefsProofs` first
derive from the well-foundedness of the naturals that a non-empty set of them has
a least member (`LeastNatural`), and state induction for a *set* of naturals
(`Induction`), which is first-order.

Only model-checked:

- liveness, which is out of the prover's reach: `RequestsAnswered` of
  `Conversations`, `UnreadIsMailed` of `Events`, `StaleAreProcessed` and
  `SentAreProcessed` of `Xrefs`;
- that `WalkIsExact` holds and `Validate` agrees with its reference on the instances of
  the runs is evaluated as well as proved; the cases of the unit test of `validate`
  (`StructureCases`) are only evaluated.

Every other property of a passing run is stated by a theorem. The two that a run
refutes, `AdvanceFollowsLink` under overlap and `AutofillOnEntry`, are not theorems;
the first is one for requests that come one at a time.

## 6. Where code and documentation part

Shown by a run that finds the violation (`findings` in `PROJECT.json`):

- `stale_advance`: `Draft::advance` looks the link up from the step it loaded
  (`models/src/models/draft.rs:332`), so two overlapping requests take a
  draft between steps no link joins.
- `autofill`: `Step::get_slot_seating` never yields an empty slot
  (`editing/step.rs:198`), so automatic slots stay empty.

Met while modelling, with no run of their own. Drafts:

- the write that ends an upload is not checked again (`rest-api/src/drafts.rs:294`),
  so it may change a document published meanwhile;
- overlapping requests also break `NoOrphanDocuments` (a stale `Draft::delete`
  leaves the document of a draft begun again, `draft.rs:165`), `DraftKeepsBase`
  (`module.rs:321` counts drafts in an earlier statement) and `DisplacedIsTold`
  (`slot.rs:281`); `assign_to_slot` fills a slot that is occupied
  (`editing/process.rs:163`); `begin_process` ignores role limits
  (`module.rs:268`, against `doc/api/processes.md:143`);
  `Draft::check_permission` looks at all of the user's drafts (`draft.rs:246`);
- EventManager is told inside the transaction, before it commits (`draft.rs:371`).

Editing processes:

- a process cannot be deleted once it has a version, and it always has one,
  since its foreign keys do not cascade (`DeleteIsRefused`, against
  `doc/api/processes.md:309`; the test that would, `tests/process.rs:175`, is
  ignored);
- two links between the same steps, a role or a permission named twice pass
  `validate` and are refused by a primary key, as an internal error, where
  `editing/mod.rs:15` speaks of a multidigraph; loops, which it also
  allows, are refused by `LoopedLink`;
- renaming accepts empty names; a limit of unknown roles lifts the limit; names of
  processes are unique across teams; `MissingRequiredPermission` is never
  produced; a version stored after a rename goes by the name it loaded.

Books and importer:

- nothing keeps a part from being moved below itself (`bookpart.rs:326`),
  although the answer is the contents "as a tree" (`rest-api/src/books.rs:284`);
- a part is created at a stored index, not a position (`bookpart.rs:229`),
  so once deletions have left a gap it lands beside the index asked for
  (`doc/api/books.md:220`);
- a second `index.cnxml` in a subdirectory of a module's archive is imported
  as an ordinary file, of a collection's it is skipped; one name in two
  subdirectories fails the import.

Conversations and events:

- one stream per user (`models/src/events/service.rs:298`, against
  `doc/api/events.md:56`): a second silences the first, and closing either
  forgets whichever is registered; `StreamHasNoGaps` claims the newest event only
  for streams that were their user's only one;
- `number_after + 1` overflows a `u16` (`conversations/src/broker.rs:369`): a
  client that asks for 65535 events gets at most the reference event. With
  `After = {3}` and `Wide = 4`, `HistoryMeetsLive` fails;
- server cookies set bit 15 where the comment speaks of the highest
  (`conversations/src/protocol.rs:37`); mentions neither grant nor notify;
- `doc/api/events.md` has the meaning of `unread` in `PUT /notifications`
  the wrong way round (`rest-api/src/events.rs:89`); an event marked unread
  again after its round is never mailed; a restart loses what was not mailed;
- a full mailbox loses the event (`service.rs:132`); a book deleted between two
  lookups makes `assert_exists` panic (`models/src/events/events.rs:322`).

Sessions, users and teams:

- `after_request` inserts a session without looking at its user again
  (`web/src/session.rs:241`), so one authenticated before a change of
  password is stored after it, against "Changing password invalidates all
  sessions" (`rest-api/src/users.rs:283`); this is why `CurrentStaysCurrent`
  waits until nothing goes back to an older password;
- elevation ends only after a time without use (`web/src/session.rs:146`), so a
  session kept busy stays elevated until it expires, where
  `models/src/db/models.rs:54` speaks of a short time;
- a role that is in use cannot be deleted, against "they will be unassigned
  first" (`models/src/models/role.rs:150`);
- `POST /users/invite` takes a role of any team; such an invitation can never be
  used. An invitation is stored before its locale is looked up, so the error of
  an unknown one leaves it there;
- registering deletes every invitation to the address, other teams' too; one
  that was loaded before it was declined or used is still taken up (so it
  serves twice when its user is removed from the team in between), and the
  request panics when its role is gone meanwhile;
- an invitation to register, stored while its addressee gets an account, can
  no longer be used by anyone (`stranded`); `CreateInviteError::UserExists` is
  never returned;
- `update_member` writes permissions worked out before its transaction, copies
  those of the member's role into the member's own, and does not mask what is
  asked for by what the request may give (`rest-api/src/teams.rs:390`, against
  `doc/api/teams.md:39`); removing a member leaves their seats in drafts.

Files and resources:

- of two uploads of one content that is not stored yet, the second to insert
  its row fails with an internal error (`models/src/models/file.rs:203`);
- `File::from_data` writes a template in place even when it is stored
  already: readers meanwhile see part of it, and a crash leaves it cut
  (`FilesReadable` names these two cases);
- `If-Match` is compared before the payload is read, so an update can be lost
  although it is there "to prevent lost update errors" (`web/src/etag.rs:142`)
  (`LostOnlyByOverlap` allows only that);
- an upload of the index to a draft deleted meanwhile answers 204 and writes
  nothing; the MIME type of a content is the one it was first uploaded with;
- a resource's parent may be a file, or another team's; names at the top may
  repeat, since their parent is null, against `doc/api/resources.md`; renaming to a
  name that is taken is an internal error.

Cross-references:

- the context of a target is the last exercise or figure with an id, not the
  element it is in (`xref_targets.rs:82`, against `doc/api/modules.md:204` and
  `models/src/db/models.rs:363`): one that comes after the end of an exercise, or after a figure
  inside it, has the wrong context; and a commentary's counter does not start
  over with its exercise (`xref_targets.rs:92`, against `models/src/db/models.rs:371`).
  `OwnedAsExpected` delimits where code and documents agree;
- `ImportModule` sends nothing, so the module waits for the next
  `process_stale`; a book's import, the registered processor's start or the
  server's is what runs it (`xref_targets.rs:131`);
- `Draft::advance` and `Module::replace` send the document before their
  transaction commits, which `xref_targets.rs:286` forbids: its targets may be inserted
  for a document whose publication is then rolled back, by an error with the server
  up or by a crash, and a draft with targets cannot be deleted
  (`DraftsUnprocessed` names this case);
- an update leaves a description and a context as they were when the new row
  has none (`TargetsFollowIndex` asks for exact rows only of documents that were
  processed with one index); a late upload leaves targets of the old
  index marked as ready (`late`);
- what a worker fails at is logged and forgotten, although documents are to have "their
  lists created or updated just after they are modified" (`xref_targets.rs:132`); and an
  error of the database in one document of `process_stale` aborts its one transaction,
  so the others' rows go with it although the error is caught and logged as that
  document's only (`xref_targets.rs:146`);
- `start_default` starts a second TargetProcessor beside the registry's, with a worker
  of its own, so two passes of `process_stale` may overlap.

## 7. Not modelled

- The audit log: a thread-local that requests set and clear; each entry is one
  insertion that nothing reads back.
- Mail transport, translations, the rendering of pages and of what an event
  says: I/O and layout. `Events` ends where a mail is handed over.
- The conversations' message format (`format.rs`) and cookies (`protocol.rs`):
  parsing without state; `Conversations` has valid and invalid messages.
- The command line but for the commands that change accounts, configuration,
  connection pools, parsing of requests and archives, generated code and
  macros: what reaches the modelled parts from them is an input of some action.
