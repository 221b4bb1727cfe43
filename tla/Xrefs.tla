------------------------------- MODULE Xrefs -------------------------------
(***************************************************************************)
(* Cross-reference targets: what process_document makes of an index        *)
(* (crates/models/src/processing/xref_targets.rs) and how documents come   *)
(* to be processed.  Requests that publish a document send it to           *)
(* TargetProcessor, whose mailbox may be full, some before the transaction *)
(* that publishes it commits or is rolled back; TargetProcessor forwards   *)
(* to its worker.  There are two of them, the one the server starts and    *)
(* the one in the registry of the system, which the first message starts;  *)
(* the worker of each begins with what was left unprocessed.  What fails   *)
(* for want of a connection or by an error of the database is logged and   *)
(* forgotten.                                                              *)
(***************************************************************************)
EXTENDS Naturals, FiniteSets, Sequences, SequencesExt

CONSTANTS Texts,        \* indices, numbered
          Uploads,      \* of what is uploaded: numbers and Broken
          Broken,       \* what does not parse
          None,         \* of an element: no id, no type; no text
          Tasks,        \* requests and imports that may be under way
          ProcessStale, \* the message
          Capacity,     \* of TargetProcessor's mailbox
          MaxDocuments, \* bound: documents ever created
          MaxErrors     \* bound: how often a worker fails

VARIABLES documents,  \* documents, by id
          targets,    \* the rows of xref_targets: by document and element
          running,    \* the processors that run, the first as long as the server
          underway,   \* what each task has loaded or done
          mailbox,    \* of the TargetProcessor in the registry
          queue,      \* of the worker of each processor
          worker,     \* what the worker of each processor is doing
          failed      \* ghost: what the workers failed to do

xrefsVars ==
    <<documents, targets, running, underway, mailbox, queue, worker, failed>>

Processors == {"first", "registered"}
Idle == [is |-> "idle"] \* of a task or a worker

ASSUME CapacityAssumption == Capacity \in Nat /\ MaxDocuments \in Nat /\ MaxErrors \in Nat
ASSUME UploadsAssumption ==
    Uploads \subseteq DOMAIN Texts \cup {Broken} /\ Broken \notin DOMAIN Texts
ASSUME MessagesAssumption == ProcessStale \notin Nat

-----------------------------------------------------------------------------
(***************************************************************************)
(* An index is a sequence of elements with a name, an id or None, a parent *)
(* that is before them, and the attribute type or None.  The first is the  *)
(* root, and children of an element are in the order of the sequence.      *)
(* Documents have the number of their index.                               *)
(***************************************************************************)
IsIndex(index) ==
    /\ DOMAIN index = 1..Len(index) /\ Len(index) \in Nat \ {0}
    /\ index[1].parent = 0
    /\ \A n \in 2..Len(index) : index[n].parent \in 1..(n - 1)

ASSUME TextsAssumption == LET texts == Texts IN \A i \in DOMAIN texts : IsIndex(texts[i])

Ascending(S) ==
    [k \in 1..Cardinality(S) |-> CHOOSE m \in S : Cardinality({l \in S : l <= m}) = k]
ChildrenOf(index, n) == {m \in DOMAIN index : index[m].parent = n}
Children(index, n) == Ascending(ChildrenOf(index, n))

\* iter_tree: a stack of what is left of the children of elements.
Step(index, work) ==
    LET rest == Front(work.stack)
        children == Last(work.stack)
    IN  IF work.stack = << >> THEN work
        ELSE IF children = << >> THEN [work EXCEPT !.stack = rest]
        ELSE [stack |-> rest \o <<Tail(children), Children(index, Head(children))>>,
              out |-> Append(work.out, Head(children))]
IterTree(index) ==
    LET work[k \in 0..2 * Len(index)] ==
            IF k = 0 THEN [stack |-> <<Children(index, 1)>>, out |-> <<1>>]
            ELSE LET before == work[k - 1] IN Step(index, before)
    IN  work[2 * Len(index)].out

Names == {"example", "solution", "commentary", "note", "figure", "subfigure",
          "table", "exercise"}
Owners == {"exercise", "figure"}
Owned == {"solution", "commentary", "subfigure"}

\* line_contex_text: the element whose text it is.
Lines == {"para", "title", "item", "caption", "emphasis", "sub", "sup", "link"}
LineText(index, n) ==
    LET line[k \in DOMAIN index] ==
            IF index[k].name \in Lines THEN k
            ELSE IF index[k].name \in {"math", "media", "image"} \/ Children(index, k) = << >>
            THEN None
            ELSE LET first == Children(index, k)[1] IN line[first]
    IN  line[n]

Description(index, n) ==
    LET OfChild(name) ==
            LET found == {m \in ChildrenOf(index, n) : index[m].name = name}
            IN  IF found = {} THEN None
                ELSE LineText(index, CHOOSE m \in found : \A k \in found : m <= k)
    IN  CASE index[n].name \in {"figure", "subfigure", "table"} -> OfChild("caption")
          [] index[n].name = "exercise" -> OfChild("problem")
          [] OTHER -> LineText(index, n)

Type(element) ==
    CASE element.name = "note" /\ element.type # None -> element.type
      [] element.name = "subfigure" -> "figure"
      [] OTHER -> element.name

Target(index, n, context, counter) ==
    [element |-> index[n].id, type |-> Type(index[n]), description |-> Description(index, n),
     context |-> context, counter |-> counter]
IsTarget(index, n) == index[n].id # None /\ index[n].name \in Names

\* Mutant of Reset: counters are never reset.
ResetNone(counters, name) == counters
Reset(counters, name) ==
    CASE name = "exercise" -> [counters EXCEPT !["solution"] = 0]
      [] name = "figure" -> [counters EXCEPT !["subfigure"] = 0]
      [] OTHER -> counters

\* The counters, the context and the rows when element n was looked at.
Visit(index, n, before) ==
    LET name == index[n].name
        counters == [Reset(before.counters, name) EXCEPT ![name] = @ + 1]
        context == IF name \in Owned THEN before.context ELSE None
    IN  IF ~IsTarget(index, n) THEN before
        ELSE [counters |-> counters,
              context |-> IF name \in Owners THEN index[n].id ELSE context,
              rows |-> Append(before.rows, Target(index, n, context, counters[name]))]

\* The rows that process_document inserts, in its order.
Rows(index) ==
    LET order == IterTree(index)
        visited[k \in 0..Len(order)] ==
            IF k = 0
            THEN [counters |-> [name \in Names |-> 0], context |-> None, rows |-> << >>]
            ELSE LET before == visited[k - 1] IN Visit(index, order[k], before)
    IN  visited[Len(order)].rows

RowsIn == LET texts == Texts IN [i \in DOMAIN texts |-> Rows(texts[i])]

\* An update leaves what is null in the new row as it was.
Update(old, new) ==
    [new EXCEPT !.description = IF @ = None THEN old.description ELSE @,
                !.context = IF @ = None THEN old.context ELSE @]
InsertRow(table, row) ==
    [element \in DOMAIN table \cup {row.element} |->
        IF element # row.element THEN table[element]
        ELSE IF element \in DOMAIN table THEN Update(table[element], row)
        ELSE row]
InsertRows(table, rows) ==
    LET inserted[k \in 0..Len(rows)] ==
            IF k = 0 THEN table
            ELSE LET before == inserted[k - 1] IN InsertRow(before, rows[k])
    IN  inserted[Len(rows)]

-----------------------------------------------------------------------------
(***************************************************************************)
(* Documents.  A "new" one belongs to a transaction that has not           *)
(* committed; "past" ones were replaced; an "orphan" was a draft's, and    *)
(* the row of the draft went without it.  Ghosts: the indices it was       *)
(* processed with, whether a publication that had sent it was undone, and  *)
(* whether it was written to after it had been loaded to be published.     *)
(***************************************************************************)
Document(index, module, is) ==
    [index |-> index, module |-> module, is |-> is, ready |-> FALSE,
     tried |-> {}, undone |-> FALSE, late |-> FALSE]
Unpublished == {"draft", "orphan"}

XrefsInit ==
    /\ \E index \in DOMAIN Texts \cup {Broken} : documents = <<Document(index, 1, "module")>>
    /\ targets = <<<< >>>>
    /\ running = {}
    /\ underway = [q \in Tasks |-> Idle]
    /\ mailbox = << >>
    /\ queue = [p \in Processors |-> << >>] /\ worker = [p \in Processors |-> Idle]
    /\ failed = << >>

Up == "first" \in running

NewDocument == Len(documents) + 1
Create(document) ==
    /\ NewDocument <= MaxDocuments
    /\ documents' = Append(documents, document)
    /\ targets' = Append(targets, << >>)

NewModule == 1 + Cardinality({documents[d].module : d \in DOMAIN documents})
DraftsOf(module) ==
    {d \in DOMAIN documents : documents[d].module = module /\ documents[d].is = "draft"}

\* Tasks start, go on and end.
Doing(is) == {q \in Tasks : underway[q].is = is}
Starts(task) ==
    \E q \in Doing("idle") :
        /\ Up
        /\ underway' = [underway EXCEPT ![q] = task]
GoesOn(q, task) == underway' = [underway EXCEPT ![q] = task]
Ends(q) == underway' = [underway EXCEPT ![q] = Idle]

\* A transaction that publishes holds the row of the module, and those of the
\* drafts it has ended.
Committing(d) == \E q \in Doing("commit") : underway[q].document = d
ModuleOf(q) == documents[underway[q].document].module
ModuleLocked(module) == \E q \in Doing("commit") : ModuleOf(q) = module
DraftLocked(module) ==
    \E q \in Doing("commit") : ModuleOf(q) = module /\ underway[q].ended # {}

Message(document, index) == [document |-> document, index |-> index]
\* The first message to the TargetProcessor in the registry starts it.
Reaching ==
    /\ running' = running \cup {"registered"}
    /\ queue' = IF "registered" \in running THEN queue
                ELSE [queue EXCEPT !["registered"] = Append(@, ProcessStale)]
    /\ UNCHANGED <<worker, failed>>
\* try_send gives up on a full mailbox, do_send does not look.
TrySend(message) ==
    /\ mailbox' = IF Len(mailbox) < Capacity THEN Append(mailbox, message) ELSE mailbox
    /\ Reaching
DoSend(message) == mailbox' = Append(mailbox, message) /\ Reaching
Unsent == UNCHANGED <<running, mailbox, queue, worker, failed>>

-----------------------------------------------------------------------------
(***************************************************************************)
(* Requests and imports.                                                   *)
(***************************************************************************)
\* POST /modules: the module, and then the message.
CreateModule ==
    \E index \in Uploads :
        /\ index # Broken
        /\ Create(Document(index, NewModule, "module"))
        /\ Starts([is |-> "create", document |-> NewDocument])
        /\ Unsent
SendModule ==
    \E q \in Doing("create") :
        /\ TrySend(Message(underway[q].document, documents[underway[q].document].index))
        /\ Ends(q)
        /\ UNCHANGED <<documents, targets>>

\* The Importer does one thing at a time.
ImporterFree ==
    /\ Doing("book") = {}
    /\ \A q \in Doing("commit") : documents[underway[q].document].is # "new"

\* ImportModule sends nothing.
ImportModule ==
    \E index \in Uploads :
        /\ Up /\ ImporterFree /\ index # Broken
        /\ Create(Document(index, NewModule, "module"))
        /\ UNCHANGED underway /\ Unsent

\* ImportBook and ReplaceBook: a module of the book's, and then ProcessStale.
ImportBook ==
    \E index \in Uploads :
        /\ ImporterFree /\ index # Broken
        /\ Create(Document(index, NewModule, "module"))
        /\ Starts([is |-> "book", document |-> NewDocument])
        /\ Unsent
SendStale ==
    \E q \in Doing("book") :
        /\ DoSend(ProcessStale)
        /\ Ends(q)
        /\ UNCHANGED <<documents, targets>>

\* ReplaceModule: Module::replace sends the document, and the Importer's
\* transaction commits after it.
ReplaceModule ==
    \E d \in DOMAIN documents, index \in Uploads :
        /\ ImporterFree /\ index # Broken
        /\ documents[d].is = "module"
        /\ DraftsOf(documents[d].module) = {} /\ ~ModuleLocked(documents[d].module)
        /\ Create(Document(index, documents[d].module, "new"))
        /\ TrySend(Message(NewDocument, index))
        /\ Starts([is |-> "commit", document |-> NewDocument, ended |-> {}])

\* Handlers load a module or a draft before they act.
LoadModule ==
    \E d \in DOMAIN documents :
        /\ documents[d].is = "module"
        /\ Starts([is |-> "begin", document |-> d])
        /\ UNCHANGED <<documents, targets>> /\ Unsent
LoadDraft ==
    \E d \in DOMAIN documents :
        /\ documents[d].is = "draft"
        /\ \/ Starts([is |-> "upload", document |-> d])
           \/ Starts([is |-> "delete", document |-> d])
           \/ Starts([is |-> "advance", document |-> d, index |-> documents[d].index])
        /\ UNCHANGED <<documents, targets>> /\ Unsent

\* Mutant of BeginDraft: the document is duplicated with what tells that it
\* was processed.
BeginDraftReady ==
    \E q \in Doing("begin") :
        LET loaded == documents[underway[q].document]
        IN  /\ ~DraftLocked(loaded.module)
            /\ Ends(q)
            /\ IF DraftsOf(loaded.module) = {}
               THEN Create([loaded EXCEPT !.is = "draft"])
               ELSE UNCHANGED <<documents, targets>>
            /\ Unsent

\* Module::begin_process: the document that was loaded is duplicated, which
\* may be the module's no longer.
BeginDraft ==
    \E q \in Doing("begin") :
        LET loaded == documents[underway[q].document]
        IN  /\ ~DraftLocked(loaded.module)
            /\ Ends(q)
            /\ IF DraftsOf(loaded.module) = {}
               THEN Create(Document(loaded.index, loaded.module, "draft"))
               ELSE UNCHANGED <<documents, targets>>
            /\ Unsent

\* Draft::write_file.
Upload ==
    \E q \in Doing("upload"), index \in Uploads :
        LET d == underway[q].document
            late == \/ documents[d].is \notin Unpublished \/ documents[d].undone
                    \/ \E r \in Doing("advance") \cup Doing("commit") : underway[r].document = d
        IN  /\ documents' = IF documents[d].is = "deleted" THEN documents
                            ELSE [documents EXCEPT ![d].index = index,
                                                   ![d].late = @ \/ late]
            /\ Ends(q)
            /\ UNCHANGED targets /\ Unsent

\* Draft::advance to a final step: the document as it was loaded is sent in
\* the transaction, which fails before that when the document is gone or the
\* history has it already.  The row of the draft goes, whichever its document.
Advance ==
    \E q \in Doing("advance") :
        LET d == underway[q].document
        IN  /\ ~ModuleLocked(documents[d].module)
            /\ IF documents[d].is \in Unpublished
               THEN /\ DoSend(Message(d, underway[q].index))
                    /\ GoesOn(q, [is |-> "commit", document |-> d,
                                  ended |-> DraftsOf(documents[d].module)])
               ELSE Ends(q) /\ Unsent
            /\ UNCHANGED <<documents, targets>>

\* Document d becomes its module's; the drafts that ended keep theirs.
Published(d, ended) ==
    [c \in DOMAIN documents |->
        IF c = d THEN [documents[c] EXCEPT !.is = "module"]
        ELSE IF documents[c].module = documents[d].module /\ documents[c].is = "module"
        THEN [documents[c] EXCEPT !.is = "past"]
        ELSE IF c \in ended /\ documents[c].is = "draft"
        THEN [documents[c] EXCEPT !.is = "orphan"]
        ELSE documents[c]]

\* A transaction commits ...
Commit ==
    \E q \in Doing("commit") :
        /\ documents' = Published(underway[q].document, underway[q].ended)
        /\ Ends(q)
        /\ UNCHANGED targets /\ Unsent

\* ... or is rolled back, by an error after the message was sent.
Undone(d) ==
    IF documents[d].is = "new" THEN [documents[d] EXCEPT !.is = "deleted"]
    ELSE [documents[d] EXCEPT !.undone = TRUE]
Rollback ==
    \E q \in Doing("commit") :
        /\ documents' = [documents EXCEPT ![underway[q].document] = Undone(underway[q].document)]
        /\ Ends(q)
        /\ UNCHANGED targets /\ Unsent

\* Draft::delete: the row of the draft goes, whichever its document, and the
\* document that was loaded, which fails when it has targets or was published.
DeleteDraft ==
    \E q \in Doing("delete") :
        LET d == underway[q].document
            module == documents[d].module
        IN  /\ ~DraftLocked(module) /\ ~Committing(d)
            /\ documents' =
                   IF documents[d].is \in {"module", "past"} \/ targets[d] # << >>
                   THEN documents
                   ELSE [c \in DOMAIN documents |->
                            IF c = d THEN [documents[c] EXCEPT !.is = "deleted"]
                            ELSE IF c \in DraftsOf(module)
                            THEN [documents[c] EXCEPT !.is = "orphan"]
                            ELSE documents[c]]
            /\ Ends(q)
            /\ UNCHANGED targets /\ Unsent

XrefsRequest ==
    \/ CreateModule \/ SendModule \/ ImportModule \/ ImportBook \/ SendStale
    \/ ReplaceModule \/ LoadModule \/ LoadDraft \/ BeginDraft \/ Upload
    \/ Advance \/ Commit \/ Rollback \/ DeleteDraft

-----------------------------------------------------------------------------
(***************************************************************************)
(* TargetProcessor and the workers.                                        *)
(***************************************************************************)
Exists(d) == documents[d].is \notin {"new", "deleted"}

Forward ==
    /\ mailbox # << >>
    /\ queue' = [queue EXCEPT !["registered"] = Append(@, Head(mailbox))]
    /\ mailbox' = Tail(mailbox)
    /\ UNCHANGED <<documents, targets, running, underway, worker, failed>>

Takes(p) ==
    /\ worker[p].is = "idle" /\ queue[p] # << >>
    /\ queue' = [queue EXCEPT ![p] = Tail(@)]
    /\ UNCHANGED <<documents, targets, running, underway, mailbox>>
Works(p, is) ==
    /\ worker[p].is = is
    /\ UNCHANGED <<running, underway, mailbox, queue>>
Becomes(p, work) == worker' = [worker EXCEPT ![p] = work]

\* Mutant of StaleDocuments: the first of them.
FirstStaleDocument ==
    {d \in DOMAIN documents : documents[d].is = "module" /\ ~documents[d].ready
        /\ \A c \in 1..(d - 1) : documents[c].is # "module" \/ documents[c].ready}
StaleDocuments ==
    {d \in DOMAIN documents : documents[d].is = "module" /\ ~documents[d].ready}

\* process_stale, one transaction: it reads the documents ...
BeginStale(p) ==
    /\ Takes(p) /\ Head(queue[p]) = ProcessStale
    /\ Becomes(p, [is |-> "stale",
                   indices |-> [d \in StaleDocuments |-> documents[d].index]])
    /\ UNCHANGED failed

\* ... and commits what came of those that could be read.
FinishStale(p) ==
    /\ Works(p, "stale")
    /\ LET indices == worker[p].indices
           Done(d) == d \in DOMAIN indices /\ indices[d] # Broken
       IN  /\ targets' = [d \in DOMAIN targets |->
                  IF Done(d) THEN InsertRows(targets[d], RowsIn[indices[d]])
                  ELSE targets[d]]
           /\ documents' = [d \in DOMAIN documents |->
                  IF Done(d) THEN [documents[d] EXCEPT !.ready = TRUE,
                                                       !.tried = @ \cup {indices[d]}]
                  ELSE documents[d]]
    /\ Becomes(p, Idle)
    /\ UNCHANGED failed

\* process_document outside of a transaction.  The file of a document that
\* is not committed may not be there either.
BeginDocument(p) ==
    /\ Takes(p) /\ Head(queue[p]) # ProcessStale
    /\ LET message == Head(queue[p])
       IN  \/ /\ message.index # Broken
              /\ Becomes(p, [is |-> "document", document |-> message.document,
                             index |-> message.index, rows |-> RowsIn[message.index]])
           \/ /\ message.index = Broken \/ ~Exists(message.document)
              /\ UNCHANGED worker
    /\ UNCHANGED failed

\* One row; an error, for a document that is not there, ends it.
InsertTarget(p) ==
    /\ Works(p, "document") /\ worker[p].rows # << >>
    /\ LET d == worker[p].document
       IN  IF Exists(d)
           THEN /\ targets' = [targets EXCEPT ![d] = InsertRow(@, Head(worker[p].rows))]
                /\ documents' = [documents EXCEPT ![d].tried = @ \cup {worker[p].index}]
                /\ Becomes(p, [worker[p] EXCEPT !.rows = Tail(@)])
           ELSE Becomes(p, Idle) /\ UNCHANGED <<documents, targets>>
    /\ UNCHANGED failed

\* Mutant of MarkReady: when the index is what it was.
MarkReadyUnchanged(p) ==
    /\ Works(p, "document") /\ worker[p].rows = << >>
    /\ LET d == worker[p].document
       IN  documents' = IF Exists(d) /\ documents[d].index = worker[p].index
                        THEN [documents EXCEPT ![d].ready = TRUE,
                                               ![d].tried = @ \cup {worker[p].index}]
                        ELSE documents
    /\ Becomes(p, Idle)
    /\ UNCHANGED <<targets, failed>>

MarkReady(p) ==
    /\ Works(p, "document") /\ worker[p].rows = << >>
    /\ LET d == worker[p].document
       IN  documents' = IF Exists(d)
                        THEN [documents EXCEPT ![d].ready = TRUE,
                                               ![d].tried = @ \cup {worker[p].index}]
                        ELSE documents
    /\ Becomes(p, Idle)
    /\ UNCHANGED <<targets, failed>>

Work(p) ==
    BeginStale(p) \/ FinishStale(p) \/ BeginDocument(p) \/ InsertTarget(p) \/ MarkReady(p)

\* There is no connection for a message, or an error of the database ends
\* what a worker does: process_stale is undone as a whole, of a document
\* those rows stay that were inserted.  Nothing tries again.
Fails(what) ==
    /\ Len(failed) < MaxErrors
    /\ failed' = Append(failed, IF what = ProcessStale THEN what ELSE what.document)
FailToTake(p) ==
    /\ Takes(p) /\ Fails(Head(queue[p]))
    /\ UNCHANGED worker
FailStale(p) ==
    /\ Works(p, "stale") /\ Fails(ProcessStale)
    /\ Becomes(p, Idle)
    /\ UNCHANGED <<documents, targets>>
FailDocument(p) ==
    /\ Works(p, "document") /\ Fails(worker[p])
    /\ Becomes(p, Idle)
    /\ UNCHANGED <<documents, targets>>
Fail(p) == FailToTake(p) \/ FailStale(p) \/ FailDocument(p)

-----------------------------------------------------------------------------
\* The worker of the first TargetProcessor runs process_stale when it is
\* started; nothing is ever sent to it.
Start ==
    /\ ~Up
    /\ running' = {"first"}
    /\ queue' = [queue EXCEPT !["first"] = <<ProcessStale>>]
    /\ UNCHANGED <<documents, targets, underway, mailbox, worker, failed>>

\* The server stops: what it had in memory is lost, transactions are undone.
Crash ==
    /\ Up
    /\ running' = {}
    /\ documents' = [d \in DOMAIN documents |->
           IF Committing(d) THEN Undone(d) ELSE documents[d]]
    /\ underway' = [q \in Tasks |-> Idle] /\ mailbox' = << >>
    /\ queue' = [p \in Processors |-> << >>] /\ worker' = [p \in Processors |-> Idle]
    /\ UNCHANGED <<targets, failed>>

XrefsNext ==
    \/ XrefsRequest \/ Forward \/ (\E p \in Processors : Work(p) \/ Fail(p))
    \/ Start \/ Crash

XrefsFairness ==
    WF_xrefsVars(Forward) /\ \A p \in Processors : WF_xrefsVars(Work(p))
XrefsSpec == XrefsInit /\ [][XrefsNext]_xrefsVars /\ XrefsFairness

-----------------------------------------------------------------------------
(***************************************************************************)
(* Properties.  What the target of an element should be (crates/models/    *)
(* src/db/models.rs:363, doc/api/modules.md:204): solutions, commentaries  *)
(* and subfigures have as context the exercise or figure they are in, and  *)
(* are counted from there on; others are counted from the start.  Precedes *)
(* is document order, in which ancestors come first and what is below an   *)
(* earlier child before what is below a later one.                         *)
(***************************************************************************)
Ancestors(index, n) ==
    LET upwards[k \in DOMAIN index] ==
            IF k = 1 THEN {1} ELSE {k} \cup upwards[index[k].parent]
    IN  upwards[n]
Precedes(index, m, n) ==
    \/ m # n /\ m \in Ancestors(index, n)
    \/ \E a \in Ancestors(index, m), b \in Ancestors(index, n) :
           a < b /\ a # 1 /\ index[a].parent = index[b].parent

\* The targets before an element, and the nearest one that may own it.
Before(index, n) == {m \in DOMAIN index : IsTarget(index, m) /\ Precedes(index, m, n)}
OwnersBefore(index, n) == {m \in Before(index, n) : index[m].name \in Owners}
OwnerOf(index, n) ==
    LET around == OwnersBefore(index, n) \cap Ancestors(index, n)
    IN  {o \in around : \A m \in around : m <= o}
AlikeBefore(index, n) == {m \in Before(index, n) : index[m].name = index[n].name}

TargetOf(index, n) ==
    LET owner == IF index[n].name \in Owned THEN OwnerOf(index, n) ELSE {}
    IN  Target(index, n,
               IF owner = {} THEN None ELSE index[CHOOSE o \in owner : TRUE].id,
               1 + Cardinality({m \in AlikeBefore(index, n) :
                   \A o \in owner : Precedes(index, o, m)}))

\* Where process_document agrees with that: solutions and commentaries that
\* are in exercises and subfigures in figures, with nothing but such between
\* them and their owners, and commentaries of the first exercise that has one.
OwnedAsExpected(index, n) ==
    \E o \in OwnerOf(index, n) :
        /\ index[o].name = IF index[n].name = "subfigure" THEN "figure" ELSE "exercise"
        /\ \A m \in Before(index, n) : Precedes(index, o, m) => index[m].name \in Owned
        /\ index[n].name = "commentary" =>
              \A m \in AlikeBefore(index, n) : Precedes(index, o, m)

\* Elsewhere the target has the right type and description, a context that is
\* before it if it has any, and a number that is not too large.
TargetsOf(index, n) ==
    IF index[n].name \in Owned => OwnedAsExpected(index, n) THEN {TargetOf(index, n)}
    ELSE {Target(index, n, context, counter) :
             context \in {None} \cup {index[m].id : m \in OwnersBefore(index, n)},
             counter \in 1..(1 + Cardinality(AlikeBefore(index, n)))}

Visible(index) == {n \in DOMAIN index : IsTarget(index, n)}
TargetsIn ==
    LET texts == Texts
    IN  [i \in DOMAIN texts |-> UNION {TargetsOf(texts[i], n) : n \in Visible(texts[i])}]
IdsIn ==
    LET texts == Texts
    IN  [i \in DOMAIN texts |-> {texts[i][n].id : n \in Visible(texts[i])}]
UniqueIds ==
    LET texts == Texts
    IN  {i \in DOMAIN texts : \A m, n \in Visible(texts[i]) :
            m # n => texts[i][m].id # texts[i][n].id}

\* Of an element's row the type and the number are a target's of an index the
\* document was processed with; so are description and context, or another
\* such index had them and this one has none.
Stems(row, indices) ==
    LET Alike == {target \in UNION {TargetsIn[i] : i \in indices} : target.element = row.element}
    IN  \E target \in Alike :
            /\ row.type = target.type /\ row.counter = target.counter
            /\ \/ row.description = target.description
               \/ target.description = None /\ \E t \in Alike : row.description = t.description
            /\ \/ row.context = target.context
               \/ target.context = None /\ \E t \in Alike : row.context = t.context

\* What a document has for targets stems from the indices it was processed
\* with, whatever was lost, repeated, cut off or rolled back.  When there was
\* only one, they are targets of that, and once the document is said to be
\* processed it has one for every element that can be one.  That one is its
\* index, unless somebody wrote to it after it was loaded to be published.
RowsOf(d) == {targets[d][element] : element \in DOMAIN targets[d]}
TargetsFollowIndex ==
    \A d \in DOMAIN documents :
        LET document == documents[d]
        IN  /\ \A row \in RowsOf(d) : Stems(row, document.tried)
            /\ \A i \in document.tried \cap UniqueIds : document.tried = {i} =>
                  /\ RowsOf(d) \subseteq TargetsIn[i]
                  /\ document.ready => DOMAIN targets[d] = IdsIn[i]
            /\ document.ready /\ ~document.late => document.tried = {document.index}

\* The document of a draft has no targets, which would keep it from being
\* deleted, and is not said to be processed, unless it is being published or
\* its publication was undone after it was sent, by an error or a crash.
DraftsUnprocessed ==
    \A d \in DOMAIN documents :
        documents[d].is \in Unpublished /\ (documents[d].ready \/ targets[d] # << >>) =>
            documents[d].undone \/ Committing(d)

Waiting == ToSet(mailbox) \cup UNION {ToSet(queue[p]) : p \in Processors}
Failures(what) == Cardinality({k \in DOMAIN failed : failed[k] = what})

\* "This function will be called each time the server starts to process such
\* documents" (xref_targets.rs:135): once it is to be called, at the start or
\* after a book was imported, every module that was not processed is, whatever
\* the others' indices, unless the server stops or the database fails a call.
IsStale(d) ==
    /\ d \in DOMAIN documents /\ documents[d].is = "module"
    /\ ~documents[d].ready /\ documents[d].index # Broken
StaleAreProcessed ==
    \A d \in 1..MaxDocuments, n \in 0..MaxErrors :
        (IsStale(d) /\ ProcessStale \in Waiting /\ Failures(ProcessStale) = n)
            ~> (~Up \/ ~IsStale(d) \/ Failures(ProcessStale) # n)

\* A document of a module that was sent is processed, even one that is
\* written to or replaced before its turn, unless the server stops or the
\* database fails in processing it: that it failed others does not matter.
IsSent(d) ==
    \E message \in Waiting \ {ProcessStale} :
        message.document = d /\ message.index # Broken /\ documents[d].is = "module"
SentAreProcessed ==
    \A d \in 1..MaxDocuments, n \in 0..MaxErrors :
        (IsSent(d) /\ Failures(d) = n)
            ~> (~Up \/ Failures(d) # n \/ (d \in DOMAIN documents /\ documents[d].ready))
=============================================================================
