------------------------------- MODULE Drafts -------------------------------
(***************************************************************************)
(* Modules, their published versions, and the drafts that take a module    *)
(* through an editing process (crates/models/src/models/{module,draft,     *)
(* document}.rs and models/editing/), driven by the HTTP handlers of       *)
(* crates/rest-api/src/{modules,drafts,process}.rs.                        *)
(*                                                                         *)
(* A handler runs on a worker thread with a connection of its own.  It     *)
(* loads its models, often waits (an upload, the next statement), and then *)
(* writes from what it loaded; PostgreSQL is left at READ COMMITTED and no *)
(* row is locked for reading.  So each handler is split where what it has  *)
(* read can become stale, `requests` holds what it remembers, and the      *)
(* write is guarded by nothing but the constraints of the tables.          *)
(***************************************************************************)
EXTENDS Naturals, Sequences, FiniteSets, Functions

CONSTANTS
    Module,      \* identities of modules; a draft has its module's identity
    User,        \* registered users
    Role,        \* roles of the team
    Content,     \* what a document can say (title, index and files together)
    Handler,     \* worker threads serving requests
    MaxDocument, \* bound: how many documents are ever created
    Null,        \* SQL's null: no row, no user, no document
    \* The versions of the editing process and their immutable structure:
    Version,     \* numbers of the versions of the process
    Step,        \* steps of all versions
    Slot,        \* slots of all versions
    Start,       \* [Version -> Step]: edit_process_versions.start
    SlotVersion, \* [Slot -> Version]: edit_process_slots.process
    Link,        \* rows of edit_process_links
    Grant,       \* rows of edit_process_step_slots
    Autofill     \* the slots with edit_process_slots.autofill

Permission == {"view", "edit", "propose-changes", "accept-changes"}
Part == {"index.cnxml", "file", "title"}
Doc == 1..MaxDocument

\* A step with no way out ends the process.
IsFinal(st) == \A l \in Link : l.from # st

ASSUME BoundAssumption == MaxDocument \in Nat

ASSUME NullAssumption ==
    /\ Null \notin Nat
    /\ \A S \in {Module, User, Role, Content, Step, Slot} : Null \notin S
    /\ Null \notin [document : Doc, step : Step]

\* What Structure::validate has established about every stored version.
ASSUME ProcessAssumption ==
    /\ Version \subseteq Nat /\ Version # {}
    /\ Start \in [Version -> Step]
    /\ SlotVersion \in [Slot -> Version]
    /\ Link \subseteq [from : Step, to : Step, slot : Slot]
    /\ Grant \subseteq [step : Step, slot : Slot, permission : Permission]
    /\ Autofill \subseteq Slot
    /\ \A v \in Version : ~IsFinal(Start[v])

VARIABLES
    documents, \* content of each row of documents, Null when there is no row
    serial,    \* the next value of documents.id
    modules,   \* modules.document, Null when the module does not exist
    versions,  \* module_versions of each module, in order of their timestamps
    drafts,    \* the row of drafts of each module, or Null
    seats,     \* draft_slots: the occupant of each slot in each draft, or Null
    current,   \* the newest version of the process
    role,      \* team_members.role of each user, Null without one
    limit,     \* edit_process_slot_roles: the roles a slot is limited to
    requests,  \* what each handler remembers of what it has read
    notices    \* what the last step told EventManager

vars == <<documents, serial, modules, versions, drafts, seats, current, role,
          limit, requests, notices>>

moduleVars == <<modules, versions>>
documentVars == <<documents, serial>>
teamVars == <<current, role, limit>>

Orx(S) == S \cup {Null}
Kind == {"idle", "begin", "delete", "advance", "checked", "write", "fill",
         "replace"}
Request == [kind : Kind, module : Orx(Module), user : Orx(User),
            document : Orx(Doc), step : Orx(Step), slot : Orx(Slot),
            version : Orx(Version), old : Orx(User)]
Notice == [kind : {"slot-filled", "slot-vacated", "draft-advanced",
                   "process-ended", "process-cancelled"},
           user : User, module : Module, slot : Orx(Slot)]

Idle == [kind |-> "idle", module |-> Null, user |-> Null, document |-> Null,
         step |-> Null, slot |-> Null, version |-> Null, old |-> Null]

TypeOK ==
    /\ documents \in [Doc -> Orx(Content)]
    /\ serial \in Nat \ {0}
    /\ modules \in [Module -> Orx(Doc)]
    /\ versions \in [Module -> Seq(Doc)]
    /\ drafts \in [Module -> Orx([document : Doc, step : Step])]
    /\ seats \in [Module -> [Slot -> Orx(User)]]
    /\ current \in Version
    /\ role \in [User -> Orx(Role)]
    /\ limit \in [Slot -> SUBSET Role]
    /\ requests \in [Handler -> Request]
    /\ notices \subseteq Notice

Vacant == [s \in Slot |-> Null]

Init ==
    /\ documents = [d \in Doc |-> Null]
    /\ serial = 1
    /\ modules = [m \in Module |-> Null]
    /\ versions = [m \in Module |-> <<>>]
    /\ drafts = [m \in Module |-> Null]
    /\ seats = [m \in Module |-> Vacant]
    /\ current \in Version
    /\ role \in [User -> Orx(Role)]
    /\ limit \in [Slot -> SUBSET Role]
    /\ requests = [h \in Handler |-> Idle]
    /\ notices = {}

-----------------------------------------------------------------------------
(* Queries *)

\* draft_slots rows of one draft for one user; by_id_and_user finds a draft
\* only through them.
Occupies(m, u) == \E s \in Slot : seats[m][s] = u
Members(m) == {u \in User : Occupies(m, u)}

\* Draft::check_permission: the join on draft_slots names the step and the
\* user, not the draft.
CheckPermission(u, st, p) ==
    \E g \in Grant :
        /\ g.step = st /\ g.permission = p
        /\ \E n \in Module : seats[n][g.slot] = u

\* check_upload_permissions for a file; update_draft and delete_file ask for
\* the edit permission whatever the part.
MayWrite(u, st, part) ==
    \/ CheckPermission(u, st, "edit")
    \/ /\ part = "index.cnxml"
       /\ \/ CheckPermission(u, st, "propose-changes")
          \/ CheckPermission(u, st, "accept-changes")

\* Slot::is_allowed_to_occupy.
IsAllowedToOccupy(s, u) == limit[s] = {} \/ role[u] \in limit[s]

\* Step::get_slot_seating: the filter on draft_slots.draft also drops the rows
\* the left join made for slots nobody occupies.
GetSlotSeating(m, st) ==
    {[slot |-> g.slot, user |-> seats[m][g.slot]] :
        g \in {x \in Grant : x.step = st /\ seats[m][x.slot] # Null}}

\* Slot::fill may pick any user who has a role some slot is limited to and
\* occupies some slot of some draft; fill_with then refuses a wrong role.
FillCandidates(s) ==
    {u \in User : /\ \E t \in Slot : role[u] \in limit[t]
                  /\ \E n \in Module : Occupies(n, u)
                  /\ IsAllowedToOccupy(s, u)}

\* The slots Draft::advance passes to Slot::fill that do not return at once:
\* none, for GetSlotSeating lists no slot without an occupant.
ToFill(m, st) ==
    {x.slot : x \in {y \in GetSlotSeating(m, st) :
                        y.user = Null /\ y.slot \in Autofill}}

\* The seats of draft m once Draft::advance has filled what step st lacks.
FilledSeats(m, st) ==
    {f \in [Slot -> Orx(User)] :
        \A s \in Slot : IF s \in ToFill(m, st) THEN f[s] \in FillCandidates(s)
                                               ELSE f[s] = seats[m][s]}

Tell(kind, m, users) ==
    {[kind |-> kind, user |-> u, module |-> m, slot |-> Null] : u \in users}
TellSlot(kind, m, s, u) ==
    {[kind |-> kind, user |-> u, module |-> m, slot |-> s]}

-----------------------------------------------------------------------------
(* Handlers *)

\* The handler h reads; nothing in the database changes.
Load(h, request) ==
    /\ requests[h].kind = "idle"
    /\ requests' = [requests EXCEPT ![h] = request]
    /\ notices' = {}
    /\ UNCHANGED <<documentVars, moduleVars, drafts, seats, teamVars>>

Finished(h) == requests' = [requests EXCEPT ![h] = Idle]

\* An error of any kind: the transaction is rolled back, or the payload of an
\* upload breaks off.
Fail(h) ==
    /\ requests[h].kind # "idle"
    /\ Finished(h)
    /\ notices' = {}
    /\ UNCHANGED <<documentVars, moduleVars, drafts, seats, teamVars>>

\* documents.id comes from a sequence; it is never used again.
InsertDocument(c) ==
    /\ serial \in Doc
    /\ documents' = [documents EXCEPT ![serial] = c]
    /\ serial' = serial + 1

\* Mutant: the history may list a document twice.
PublishDocumentAgain(m, d) ==
    /\ modules' = [modules EXCEPT ![m] = d]
    /\ versions' = [versions EXCEPT ![m] = Append(@, d)]

\* Mutant: the trigger keeps only the newest version.
PublishDocumentOnly(m, d) ==
    /\ d \notin Range(versions[m])
    /\ modules' = [modules EXCEPT ![m] = d]
    /\ versions' = [versions EXCEPT ![m] = <<d>>]

\* Updating modules.document fires update_module_history, whose insert fails
\* when the pair (module, document) is already in module_versions.
PublishDocument(m, d) ==
    /\ d \notin Range(versions[m])
    /\ modules' = [modules EXCEPT ![m] = d]
    /\ versions' = [versions EXCEPT ![m] = Append(@, d)]

\* Document::delete, after which the draft row still held by m is deleted too.
\* It fails when the document is the document of a module's version or of
\* another draft.  Mutants: without these foreign keys; forgotten altogether.
DeleteAnyDocument(m, d) == documents' = [documents EXCEPT ![d] = Null]
DeleteNoDocument(m, d) == UNCHANGED documents
DeleteDocument(m, d) ==
    /\ \A n \in Module : d \notin Range(versions[n])
    /\ \A n \in Module \ {m} : drafts[n] # Null => drafts[n].document # d
    /\ documents' = [documents EXCEPT ![d] = Null]

DeleteDraftRow(m) ==
    /\ drafts' = [drafts EXCEPT ![m] = Null]
    /\ seats' = [seats EXCEPT ![m] = Vacant]

CreateModule(m, c) ==
    /\ modules[m] = Null
    /\ InsertDocument(c)
    /\ PublishDocument(m, serial)
    /\ notices' = {}
    /\ UNCHANGED <<drafts, seats, teamVars, requests>>

LoadModule(h, m) ==
    /\ modules[m] # Null
    /\ Load(h, [Idle EXCEPT !.kind = "begin", !.module = m,
                            !.document = modules[m], !.version = current])

\* Mutant: the draft works on the module's own document.
StartDraftUncopied(r) ==
    /\ UNCHANGED <<documents, serial>>
    /\ drafts' = [drafts EXCEPT ![r.module] =
                    [document |-> r.document, step |-> Start[r.version]]]

\* duplicate_document copies the document the module had when it was loaded.
StartDraft(r) ==
    /\ InsertDocument(documents[r.document])
    /\ drafts' = [drafts EXCEPT ![r.module] =
                    [document |-> serial, step |-> Start[r.version]]]

\* Module::begin_process.  Only the key of drafts keeps a second draft out.
BeginProcess(h) ==
    LET r == requests[h] IN
    /\ r.kind = "begin"
    /\ drafts[r.module] = Null
    /\ \E f \in [Slot -> Orx(User)] :
        /\ \A s \in Slot : f[s] # Null => SlotVersion[s] = r.version
        /\ seats' = [seats EXCEPT ![r.module] = f]
        /\ notices' = UNION {TellSlot("slot-filled", r.module, s, f[s]) :
                                s \in {t \in Slot : f[t] # Null}}
    /\ StartDraft(r)
    /\ Finished(h)
    /\ UNCHANGED <<moduleVars, teamVars>>

\* Mutant: drafts are not counted.
CountNoDrafts(h, m) ==
    /\ modules[m] # Null
    /\ \A g \in Handler : requests[g].kind # "replace"
    /\ Load(h, [Idle EXCEPT !.kind = "replace", !.module = m])

\* Module::replace runs on the one Importer thread: it counts drafts ...
CountDrafts(h, m) ==
    /\ modules[m] # Null
    /\ \A g \in Handler : requests[g].kind # "replace"
    /\ drafts[m] = Null
    /\ Load(h, [Idle EXCEPT !.kind = "replace", !.module = m])

\* ... and in later statements creates the document and points the module at it.
ReplaceModule(h, c) ==
    LET r == requests[h] IN
    /\ r.kind = "replace"
    /\ InsertDocument(c)
    /\ PublishDocument(r.module, serial)
    /\ notices' = {}
    /\ Finished(h)
    /\ UNCHANGED <<drafts, seats, teamVars>>

LoadForDelete(h, m) ==
    /\ drafts[m] # Null
    /\ Load(h, [Idle EXCEPT !.kind = "delete", !.module = m,
                            !.document = drafts[m].document])

\* Draft::delete.  The draft is deleted by its key, the module's identity, the
\* document by the identity loaded earlier.
DeleteDraft(h) ==
    LET r == requests[h] IN
    /\ r.kind = "delete"
    /\ DeleteDocument(r.module, r.document)
    /\ DeleteDraftRow(r.module)
    /\ notices' = Tell("process-cancelled", r.module, Members(r.module))
    /\ Finished(h)
    /\ UNCHANGED <<serial, moduleVars, teamVars>>

LoadForAdvance(h, m, u) ==
    /\ drafts[m] # Null
    /\ Occupies(m, u)
    /\ Load(h, [Idle EXCEPT !.kind = "advance", !.module = m, !.user = u,
                            !.document = drafts[m].document,
                            !.step = drafts[m].step])

\* Draft::advance, first statement: the (user, slot) pair exists.
CheckSlot(h, s) ==
    LET r == requests[h] IN
    /\ r.kind = "advance"
    /\ seats[r.module][s] = r.user
    /\ requests' = [requests EXCEPT ![h].kind = "checked", ![h].slot = s]
    /\ notices' = {}
    /\ UNCHANGED <<documentVars, moduleVars, drafts, seats, teamVars>>

\* Mutant: any link of the slot.
UsableLinksOfSlot(r) == {l \in Link : l.slot = r.slot}

\* The link is looked up from the step the draft had when it was loaded.
UsableLinks(r) == {l \in Link : l.from = r.step /\ l.slot = r.slot}

\* Mutant: the step left is asked, not the one reached.
LeavesFinal(l) == IsFinal(l.from)
\* The link takes the draft to a final step.
EndsProcess(l) == IsFinal(l.to)

\* Draft::advance to a step that is not final.
AdvanceDraft(h, l) ==
    LET r == requests[h] IN
    /\ r.kind = "checked"
    /\ l \in UsableLinks(r)
    /\ ~EndsProcess(l)
    /\ drafts[r.module] # Null
    /\ \E f \in FilledSeats(r.module, l.to) :
            seats' = [seats EXCEPT ![r.module] = f]
    /\ drafts' = [drafts EXCEPT ![r.module].step = l.to]
    /\ notices' = Tell("draft-advanced", r.module,
                       {x.user : x \in GetSlotSeating(r.module, l.to)})
    /\ Finished(h)
    /\ UNCHANGED <<documentVars, moduleVars, teamVars>>

\* Draft::advance to a final step: the document becomes the module's newest
\* version and the draft is gone.
FinishDraft(h, l) ==
    LET r == requests[h] IN
    /\ r.kind = "checked"
    /\ l \in UsableLinks(r)
    /\ EndsProcess(l)
    /\ documents[r.document] # Null
    /\ PublishDocument(r.module, r.document)
    /\ DeleteDraftRow(r.module)
    /\ notices' = Tell("process-ended", r.module, Members(r.module))
    /\ Finished(h)
    /\ UNCHANGED <<documentVars, teamVars>>

\* Mutant: the module's document is written to.
LoadModuleForWrite(h, m, u, part) ==
    /\ drafts[m] # Null
    /\ Occupies(m, u)
    /\ MayWrite(u, drafts[m].step, part)
    /\ Load(h, [Idle EXCEPT !.kind = "write", !.module = m, !.user = u,
                            !.document = modules[m]])

\* update_file, update_draft and delete_file check first and write later; an
\* upload streams its payload in between.
LoadForWrite(h, m, u, part) ==
    /\ drafts[m] # Null
    /\ Occupies(m, u)
    /\ MayWrite(u, drafts[m].step, part)
    /\ Load(h, [Idle EXCEPT !.kind = "write", !.module = m, !.user = u,
                            !.document = drafts[m].document])

\* An update of a deleted document changes no row.
WriteDraft(h, c) ==
    LET r == requests[h] IN
    /\ r.kind = "write"
    /\ documents' = IF documents[r.document] = Null THEN documents
                    ELSE [documents EXCEPT ![r.document] = c]
    /\ notices' = {}
    /\ Finished(h)
    /\ UNCHANGED <<serial, moduleVars, drafts, seats, teamVars>>

\* assign_slot (a manager names the user) and assign_to_slot (the user takes a
\* slot): Slot::fill_with checks the role and reads the previous occupant ...
LoadForFill(h, m, s, u) ==
    /\ drafts[m] # Null
    /\ IsAllowedToOccupy(s, u)
    /\ Load(h, [Idle EXCEPT !.kind = "fill", !.module = m, !.slot = s,
                            !.user = u, !.old = seats[m][s]])

TellVacatedNever(r) == {}

TellVacated(r) ==
    IF r.old = Null THEN {} ELSE TellSlot("slot-vacated", r.module, r.slot, r.old)

\* ... then seats the new one and tells both, outside any transaction.
FillSlot(h) ==
    LET r == requests[h] IN
    /\ r.kind = "fill"
    /\ drafts[r.module] # Null
    /\ seats' = [seats EXCEPT ![r.module][r.slot] = r.user]
    /\ notices' = TellSlot("slot-filled", r.module, r.slot, r.user)
                  \cup TellVacated(r)
    /\ Finished(h)
    /\ UNCHANGED <<documentVars, moduleVars, drafts, teamVars>>

SetTeam == /\ notices' = {}
           /\ UNCHANGED <<documentVars, moduleVars, drafts, seats, requests>>

\* Team::add_member, TeamMember::set_role and TeamMember::delete; no seat is
\* touched.
SetRole(u, r) ==
    /\ r # role[u]
    /\ role' = [role EXCEPT ![u] = r]
    /\ SetTeam /\ UNCHANGED <<current, limit>>

\* Slot::set_role_limit; current occupants are not looked at again.
SetRoleLimit(s, roles) ==
    /\ roles # limit[s]
    /\ limit' = [limit EXCEPT ![s] = roles]
    /\ SetTeam /\ UNCHANGED <<current, role>>

\* Version::create: the newest version is the one new processes follow.
CreateVersion(v) ==
    /\ v > current
    /\ current' = v
    /\ SetTeam /\ UNCHANGED <<role, limit>>

HandlerStep(h) ==
    \/ Fail(h)
    \/ \E m \in Module : LoadModule(h, m)
    \/ BeginProcess(h)
    \/ \E m \in Module : CountDrafts(h, m)
    \/ \E c \in Content : ReplaceModule(h, c)
    \/ \E m \in Module : LoadForDelete(h, m)
    \/ DeleteDraft(h)
    \/ \E m \in Module, u \in User : LoadForAdvance(h, m, u)
    \/ \E s \in Slot : CheckSlot(h, s)
    \/ \E l \in Link : AdvanceDraft(h, l)
    \/ \E l \in Link : FinishDraft(h, l)
    \/ \E m \in Module, u \in User, p \in Part : LoadForWrite(h, m, u, p)
    \/ \E c \in Content : WriteDraft(h, c)
    \/ \E m \in Module, s \in Slot, u \in User : LoadForFill(h, m, s, u)
    \/ FillSlot(h)

Next ==
    \/ \E m \in Module, c \in Content : CreateModule(m, c)
    \/ \E h \in Handler : HandlerStep(h)
    \/ \E u \in User, r \in Orx(Role) : SetRole(u, r)
    \/ \E s \in Slot, roles \in SUBSET Role : SetRoleLimit(s, roles)
    \/ \E v \in Version : CreateVersion(v)

Spec == Init /\ [][Next]_vars

-----------------------------------------------------------------------------
(* Properties that hold however requests overlap *)

\* No document serves twice: a draft never works on a document that some
\* module has published, no two drafts work on the same one, and no document
\* is a version of two modules (drafts.document, module_versions).
DocumentsUnshared ==
    \A m, n \in Module :
        /\ drafts[m] # Null => drafts[m].document \notin Range(versions[n])
        /\ m # n =>
            /\ Range(versions[m]) \cap Range(versions[n]) = {}
            /\ (drafts[m] # Null /\ drafts[n] # Null)
                    => drafts[m].document # drafts[n].document

\* A module's document is the last of its versions, no version appears twice,
\* and whatever a module, its history or a draft references exists, whatever
\* stale handler deletes or publishes.
HistorySound ==
    \A m \in Module :
        /\ modules[m] # Null <=> versions[m] # <<>>
        /\ modules[m] # Null => modules[m] = versions[m][Len(versions[m])]
        /\ IsInjective(versions[m])
        /\ \A d \in Range(versions[m]) : documents[d] # Null
        /\ drafts[m] # Null => documents[drafts[m].document] # Null

\* A draft never rests at a final step: reaching one ends the process
\* (Draft::advance), and no process starts at one (StartIsFinal).
NeverAtFinalStep ==
    \A m \in Module : drafts[m] # Null => ~IsFinal(drafts[m].step)

\* Slots are occupied only in drafts that exist (draft_slots.draft cascades).
SeatsHaveDraft ==
    \A m \in Module : drafts[m] = Null => seats[m] = Vacant

\* The handlers that may yet write to document d.
Writers(d) ==
    {h \in Handler : requests[h].kind = "write" /\ requests[h].document = d}

\* Once a document is published and the last request that was admitted before
\* is over, it never changes again: no request is admitted to write to a
\* published document (update_file, update_draft, delete_file).
PublishedSettles ==
    [][\A m \in Module : \A d \in Range(versions[m]) :
            Writers(d) = {} =>
                (documents'[d] = documents[d] /\ Writers(d)' = {})]_vars

Published(d) == \E m \in Module : d \in Range(versions[m])

\* Where in its life document d is, in the terms of DocumentLifecycle.
Status(d) == IF d >= serial THEN "unused"
             ELSE IF Published(d) THEN "published"
             ELSE IF documents[d] = Null THEN "discarded" ELSE "working"

Lifecycle == INSTANCE DocumentLifecycle
                WITH Document <- Doc, status <- [d \in Doc |-> Status(d)]

\* The modules and drafts implement the life of a document: none returns from
\* being discarded, none is published twice, none is unpublished.
ImplementsLifecycle == Lifecycle!Spec

-----------------------------------------------------------------------------
(* Why they hold: what every handler may rely on in what it remembers *)

\* Identities are handed out in order; nothing references one still unused.
Allocated ==
    /\ \A d \in Doc : documents[d] # Null => d < serial
    /\ \A m \in Module :
        /\ \A d \in Range(versions[m]) : d < serial
        /\ drafts[m] # Null => drafts[m].document < serial
    /\ \A h \in Handler :
        requests[h].document # Null => requests[h].document < serial

\* The fields a handler has filled in; the module a process is begun for had
\* the remembered document at some time.
RequestSound(r) ==
    /\ (r.kind # "idle" \/ r.document # Null) => r.module # Null
    /\ r.kind \in {"begin", "delete", "advance", "checked", "write"}
            => r.document # Null
    /\ r.kind = "begin" => /\ r.version # Null
                           /\ r.document \in Range(versions[r.module])
    /\ r.kind = "fill" => r.slot # Null /\ r.user # Null

RequestsSound == \A h \in Handler : RequestSound(requests[h])

\* Every document that module m, its draft, or a handler at work on either
\* of them knows of.
References(m) ==
    Range(versions[m])
    \cup {d \in Doc : drafts[m] # Null /\ drafts[m].document = d}
    \cup {d \in Doc : \E h \in Handler :
                requests[h].module = m /\ requests[h].document = d}

ReferencesDisjoint ==
    \A m, n \in Module : m # n => References(m) \cap References(n) = {}

\* The inductive invariant.
DraftsInvariant ==
    /\ TypeOK
    /\ Allocated
    /\ RequestsSound
    /\ ReferencesDisjoint
    /\ DocumentsUnshared
    /\ HistorySound
    /\ NeverAtFinalStep
    /\ SeatsHaveDraft

-----------------------------------------------------------------------------
(* Properties that hold when requests do not overlap, and which of them an  *)
(* overlap breaks                                                            *)

\* A draft moves to another step only along a link from the step it is at,
\* whose slot is occupied (doc/api/drafts.md: bad-link).
AdvanceFollowsLink ==
    [][\A m \in Module :
        /\ drafts[m] # Null /\ drafts'[m] # Null
        /\ drafts'[m].step # drafts[m].step
        => \E l \in Link : /\ l.from = drafts[m].step
                           /\ l.to = drafts'[m].step
                           /\ seats[m][l.slot] # Null]_vars

\* Every document is a version of some module or the document of some draft:
\* cancelling a process discards its document (Draft::delete).
NoOrphanDocuments ==
    \A d \in Doc : documents[d] # Null =>
        \E m \in Module : \/ d \in Range(versions[m])
                           \/ (drafts[m] # Null /\ drafts[m].document = d)

\* While a module has a draft its contents are not replaced
\* (module:replace:has-draft).
DraftKeepsBase ==
    [][\A m \in Module :
        (drafts[m] # Null /\ drafts'[m] # Null) => modules'[m] = modules[m]]_vars

\* Whoever loses a slot is told: by slot-vacated, or by the end of the process.
DisplacedIsTold ==
    [][\A m \in Module, s \in Slot :
        /\ seats[m][s] # Null
        /\ seats'[m][s] # seats[m][s]
        => \E x \in notices' :
            /\ x.user = seats[m][s] /\ x.module = m
            /\ \/ (x.kind = "slot-vacated" /\ x.slot = s)
               \/ x.kind \in {"process-ended", "process-cancelled"}]_vars

-----------------------------------------------------------------------------
(* What the documentation promises and the code never does *)

\* When a draft enters a step, the system fills the step's empty automatic
\* slots, if anybody can take them.
AutofillOnEntry ==
    [][\A m \in Module :
        /\ drafts[m] # Null /\ drafts'[m] # Null
        /\ drafts'[m].step # drafts[m].step
        => \A g \in Grant :
            /\ g.step = drafts'[m].step /\ g.slot \in Autofill
            /\ FillCandidates(g.slot) # {}
            => seats'[m][g.slot] # Null]_vars

=============================================================================
