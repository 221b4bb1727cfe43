----------------------------- MODULE Processes -----------------------------
(***************************************************************************)
(* Editing processes as they are kept: the handlers of rest-api/src/       *)
(* process.rs and the tables below them (crates/models/src/models/editing/ *)
(* process.rs, version.rs, slot.rs, step.rs, link.rs).                     *)
(*                                                                         *)
(* A description (Structure) names slots and steps by index.  Creating a   *)
(* version turns it into rows that name each other by id, get_structure    *)
(* turns the rows back into a description.  A version is never changed     *)
(* afterwards, except for names and for the roles that may fill a slot.    *)
(*                                                                         *)
(* A row's id is its place in its table.  Each request runs in one         *)
(* transaction, but create_version loads its process before it begins      *)
(* one: other requests may rename the process in between.                  *)
(***************************************************************************)
EXTENDS Structure

CONSTANTS FirstAsked,  \* the descriptions asked for while there is no version
          LaterAsked,  \* the descriptions asked for later
          MaxVersions, \* bound: versions
          Roles,       \* the roles that exist
          RoleLists,   \* the sets of roles that slots are limited to
          NewNames,    \* the names that things are renamed to
          MaxLoaded    \* bound: requests that loaded a process and go on

VARIABLES processes,   \* edit_processes: the names, by id
          versions,    \* edit_process_versions
          slots,       \* edit_process_slots
          slotRoles,   \* edit_process_slot_roles
          steps,       \* edit_process_steps
          stepSlots,   \* edit_process_step_slots
          links,       \* edit_process_links
          loaded,      \* the processes create_version works with, as loaded
          asked,       \* ghost: the description each version was made from
          answer       \* the last description asked for, and the answer

tables == <<versions, slots, slotRoles, steps, stepSlots, links, asked>>
vars == <<processes, tables, loaded, answer>>

IsDescription(d) ==
    /\ DOMAIN d = {"name", "start", "slots", "steps"}
    /\ d.name \in STRING /\ d.start \in Nat
    /\ d.slots \in Seq([name : STRING, roles : Seq(STRING), autofill : BOOLEAN])
    /\ d.steps \in Seq([name : STRING,
                        slots : Seq([slot : Nat, permission : SlotPermission]),
                        links : Seq([name : STRING, to : Nat, slot : Nat])])

ASSUME FirstAssumption ==
    \A d \in FirstAsked : IsDescription(d)
ASSUME LaterAssumption ==
    /\ \A d \in LaterAsked : IsDescription(d)
    /\ MaxVersions \in Nat \ {0}
ASSUME RolesAssumption == Roles \subseteq STRING /\ RoleLists \subseteq SUBSET STRING
ASSUME NamesAssumption == NewNames \subseteq STRING
ASSUME MaxLoadedAssumption == MaxLoaded \in Nat

Done == "Done"
Duplicate == "Duplicate"
DuplicateName == "DuplicateName"
NotFound == "NotFound"
Database == "Database"

\* An answer, with the description that it is about, if any.
Answers(d, is) == answer' = [asked |-> {d}, is |-> is]
AnswersOnly(is) == answer' = [asked |-> {}, is |-> is]

Init ==
    /\ processes = << >>
    /\ versions = << >> /\ slots = << >> /\ steps = << >>
    /\ slotRoles = {} /\ stepSlots = {} /\ links = {}
    /\ loaded = {}
    /\ asked = << >>
    /\ answer = [asked |-> {}, is |-> Done]

AskedNow ==
    CASE versions = << >> -> FirstAsked
      [] Len(versions) \in 1..(MaxVersions - 1) -> LaterAsked
      [] OTHER -> {}

-----------------------------------------------------------------------------
(***************************************************************************)
(* Lookups.                                                                *)
(***************************************************************************)
VersionsOf(p) == {v \in DOMAIN versions : versions[v].process = p}
Current(p) == {v \in VersionsOf(p) : \A w \in VersionsOf(p) : w <= v}
SlotsOf(v) == {s \in DOMAIN slots : slots[s].process = v}
StepsOf(v) == {s \in DOMAIN steps : steps[s].process = v}
RolesOf(s) == {r.role : r \in {x \in slotRoles : x.slot = s}}
GrantsOf(step) == {g \in stepSlots : g.step = step}
LinksFrom(step) == {l \in links : l.from = step}

NameTaken(p, name) == \E q \in DOMAIN processes \ {p} : processes[q] = name

-----------------------------------------------------------------------------
(***************************************************************************)
(* From a description to rows and back.                                    *)
(***************************************************************************)
\* What validate lets through and the keys of the tables do not: a role
\* named twice or unknown, a permission granted twice to one slot, and two
\* links between the same steps.
Storable(d) ==
    /\ \A slot \in Range(d.slots) :
        IsInjective(slot.roles) /\ Range(slot.roles) \subseteq Roles
    /\ \A step \in Range(d.steps) :
        /\ IsInjective(step.slots)
        /\ IsInjective([k \in DOMAIN step.links |-> step.links[k].to])

\* The row of the step a new version starts with.  Its mutant takes the
\* first step for the start.
FirstOf(d) == Len(steps) + 1
StartOf(d) == Len(steps) + d.start

\* The rows of a new version of p, with the ids they are given.
Insert(p, d) ==
    LET v == Len(versions) + 1
        slot(i) == Len(slots) + i
        step(i) == Len(steps) + i
    IN
    /\ versions' = Append(versions, [process |-> p, start |-> StartOf(d)])
    /\ slots' = slots \o [i \in DOMAIN d.slots |->
                   [process |-> v, name |-> d.slots[i].name,
                    autofill |-> d.slots[i].autofill]]
    /\ slotRoles' = slotRoles \cup UNION {
           {[slot |-> slot(i), role |-> role] : role \in Range(d.slots[i].roles)} :
               i \in DOMAIN d.slots}
    /\ steps' = steps \o [i \in DOMAIN d.steps |->
                   [process |-> v, name |-> d.steps[i].name]]
    /\ stepSlots' = stepSlots \cup UNION {
           {[step |-> step(i), slot |-> slot(s.slot),
             permission |-> s.permission] : s \in Range(d.steps[i].slots)} :
               i \in DOMAIN d.steps}
    /\ links' = links \cup UNION {
           {[from |-> step(i), to |-> step(l.to), slot |-> slot(l.slot),
             name |-> l.name] : l \in Range(d.steps[i].links)} :
               i \in DOMAIN d.steps}
    /\ asked' = Append(asked, d)

\* Where an id is among the ids of a version: position(...).
Position(ids, id) == Cardinality({other \in ids : other <= id})

\* The rows S in the order in which a query lists them, which says of two rows
\* whether the first is not after the second: ids ascending; permissions by
\* slot (those of one slot, whose order the query leaves open, by
\* permission); links by slot and target.
InOrder(S, order) ==
    [k \in 1..Cardinality(S) |->
        CHOOSE row \in S : Cardinality({other \in S : <<other, row>> \in order}) = k]
ById(S) == {pair \in S \X S : pair[1] <= pair[2]}
Rank == [permission \in SlotPermission |->
            CHOOSE k \in 1..4 : <<View, Edit, Propose, Accept>>[k] = permission]
BySlot(S) ==
    {pair \in S \X S :
        \/ pair[1].slot < pair[2].slot
        \/ /\ pair[1].slot = pair[2].slot
           /\ Rank[pair[1].permission] <= Rank[pair[2].permission]}
BySlotAndTarget(S) ==
    {pair \in S \X S :
        \/ pair[1].slot < pair[2].slot
        \/ pair[1].slot = pair[2].slot /\ pair[1].to <= pair[2].to}

\* get_structure.
ReadSlot(id) == Slot(slots[id].name, SetToSeq(RolesOf(id)), slots[id].autofill)
ReadStep(v, id) ==
    LET granted == InOrder(GrantsOf(id), BySlot(GrantsOf(id)))
        leaving == InOrder(LinksFrom(id), BySlotAndTarget(LinksFrom(id)))
    IN  Step(steps[id].name,
             Listed([k \in DOMAIN granted |->
                 StepSlot(Position(SlotsOf(v), granted[k].slot),
                          granted[k].permission)]),
             Listed([k \in DOMAIN leaving |->
                 Link(leaving[k].name, Position(StepsOf(v), leaving[k].to),
                      Position(SlotsOf(v), leaving[k].slot))]))
Structure(v) ==
    LET slotIds == InOrder(SlotsOf(v), ById(SlotsOf(v)))
        stepIds == InOrder(StepsOf(v), ById(StepsOf(v)))
    IN  Process(processes[versions[v].process],
                Position(StepsOf(v), versions[v].start),
                Listed([i \in DOMAIN slotIds |-> ReadSlot(slotIds[i])]),
                Listed([i \in DOMAIN stepIds |-> ReadStep(v, stepIds[i])]))

-----------------------------------------------------------------------------
(***************************************************************************)
(* Creating processes and versions.                                        *)
(***************************************************************************)
\* Version::create, from its own transaction on; named is what the processes
\* are called with the version.
StoreVersion(p, d, named) ==
    IF ~Storable(d)
    THEN Answers(d, Database) /\ UNCHANGED <<processes, tables>>
    ELSE IF NameTaken(p, named[p])
    THEN Answers(d, Duplicate) /\ UNCHANGED <<processes, tables>>
    ELSE Answers(d, Done) /\ processes' = named /\ Insert(p, d)

\* Version::create: the description is validated first, and the process is
\* renamed when its name, as it was loaded, is not the description's.
CreateVersionIn(p, name, d) ==
    IF Validate(d) # Valid
    THEN Answers(d, Validate(d)) /\ UNCHANGED <<processes, tables>>
    ELSE StoreVersion(p, d, IF d.name = name THEN processes
                            ELSE [processes EXCEPT ![p] = d.name])

\* Mutant of CreateProcess: the process is kept when its description is not
\* valid.
CreateProcessUnvalidated ==
    \E d \in AskedNow :
        LET p == Len(processes) + 1
        IN  /\ IF Validate(d) # Valid
               THEN /\ Answers(d, Validate(d))
                    /\ processes' = Append(processes, d.name)
                    /\ UNCHANGED tables
               ELSE StoreVersion(p, d, Append(processes, d.name))
            /\ UNCHANGED loaded

\* POST /processes.  The row of the process is inserted, and its name found
\* to be taken, before the description is validated; when anything is wrong
\* the transaction takes the row back.
CreateProcess ==
    \E d \in AskedNow :
        LET p == Len(processes) + 1
        IN  /\ IF NameTaken(p, d.name)
               THEN Answers(d, Duplicate) /\ UNCHANGED <<processes, tables>>
               ELSE IF Validate(d) # Valid
               THEN Answers(d, Validate(d)) /\ UNCHANGED <<processes, tables>>
               ELSE StoreVersion(p, d, Append(processes, d.name))
            /\ UNCHANGED loaded

\* POST /processes/:id/versions, up to the handler: the process is loaded.
LoadProcess ==
    /\ Cardinality(loaded) < MaxLoaded /\ AskedNow # {}
    /\ \E p \in DOMAIN processes :
        loaded' = loaded \cup {[process |-> p, name |-> processes[p]]}
    /\ UNCHANGED <<processes, tables, answer>>

\* Mutant of CreateVersion: the process keeps its name.
CreateVersionUnnamed ==
    \E l \in loaded, d \in AskedNow :
        /\ CreateVersionIn(l.process, d.name, d)
        /\ loaded' = loaded \ {l}

CreateVersion ==
    \E l \in loaded, d \in AskedNow :
        /\ CreateVersionIn(l.process, l.name, d)
        /\ loaded' = loaded \ {l}

-----------------------------------------------------------------------------
(***************************************************************************)
(* Changing names and role limits.  A slot, a step or a link is found      *)
(* through a version of the process, the current one or one that the       *)
(* request names, and neither is found when it belongs to another.  An     *)
(* empty name is accepted.                                                 *)
(***************************************************************************)
Refuse(reason) == AnswersOnly(reason) /\ UNCHANGED <<processes, tables>>

\* PUT /processes/:id.
UpdateProcess ==
    \E p \in DOMAIN processes, name \in NewNames :
        /\ IF NameTaken(p, name)
           THEN Refuse(Database)
           ELSE /\ AnswersOnly(Done)
                /\ processes' = [processes EXCEPT ![p] = name]
                /\ UNCHANGED tables
        /\ UNCHANGED loaded

\* DELETE /processes/:id: versions refer to their process.
DeleteProcess ==
    \E p \in DOMAIN processes :
        /\ IF VersionsOf(p) # {}
           THEN Refuse(Database)
           ELSE /\ AnswersOnly(Done)
                /\ processes' = [q \in DOMAIN processes \ {p} |-> processes[q]]
                /\ UNCHANGED tables
        /\ UNCHANGED loaded

\* The slots with a new name and the roles with a new limit.  Role::by_ids
\* leaves out the roles that do not exist.
SetSlot(s, name, roles) ==
    /\ slots' = [slots EXCEPT ![s].name = name]
    /\ slotRoles' = {r \in slotRoles : r.slot # s} \cup
           {[slot |-> s, role |-> role] : role \in roles \cap Roles}

\* PUT on a slot.  What the request leaves out stays as it is.
ModifySlot(v) ==
    \E s \in DOMAIN slots :
        /\ IF s \notin SlotsOf(v)
           THEN Refuse(NotFound)
           ELSE \E name \in NewNames \cup {slots[s].name} :
                \E roles \in RoleLists \cup {RolesOf(s)} :
                    IF \E t \in SlotsOf(v) \ {s} : slots[t].name = name
                    THEN Refuse(DuplicateName)
                    ELSE /\ SetSlot(s, name, roles)
                         /\ AnswersOnly(Done)
                         /\ UNCHANGED <<processes, versions, steps, stepSlots,
                                        links, asked>>
        /\ UNCHANGED loaded

\* PUT on a step.
ModifyStep(v) ==
    \E s \in DOMAIN steps :
        /\ IF s \notin StepsOf(v)
           THEN Refuse(NotFound)
           ELSE \E name \in NewNames :
                    IF \E t \in StepsOf(v) \ {s} : steps[t].name = name
                    THEN Refuse(DuplicateName)
                    ELSE /\ steps' = [steps EXCEPT ![s].name = name]
                         /\ AnswersOnly(Done)
                         /\ UNCHANGED <<processes, versions, slots, slotRoles,
                                        stepSlots, links, asked>>
        /\ UNCHANGED loaded

SetLink(l, name) ==
    /\ links' = (links \ {l}) \cup {[l EXCEPT !.name = name]}
    /\ AnswersOnly(Done)
    /\ UNCHANGED <<processes, versions, slots, slotRoles, steps, stepSlots,
                   asked>>

\* PUT on a link, named by the step it leaves, its slot and its target.
ModifyLink(v) ==
    \E l \in links :
        /\ IF l.from \notin StepsOf(v)
           THEN Refuse(NotFound)
           ELSE \E name \in NewNames :
                    IF \E other \in LinksFrom(l.from) \ {l} : other.name = name
                    THEN Refuse(DuplicateName)
                    ELSE SetLink(l, name)
        /\ UNCHANGED loaded

\* PUT /processes/:id/slots/:slot, steps/:step and links/:slot/:target.
ModifySlotInProcess == \E p \in DOMAIN processes : \E v \in Current(p) : ModifySlot(v)
ModifyStepInProcess == \E p \in DOMAIN processes : \E v \in Current(p) : ModifyStep(v)
ModifyLinkInProcess == \E p \in DOMAIN processes : \E v \in Current(p) : ModifyLink(v)

\* The same under /processes/:id/versions/:version.
VersionNotFound(p, v) == v \notin VersionsOf(p) /\ Refuse(NotFound) /\ UNCHANGED loaded
ModifySlotInVersion ==
    \E p \in DOMAIN processes, v \in DOMAIN versions :
        VersionNotFound(p, v) \/ (v \in VersionsOf(p) /\ ModifySlot(v))
ModifyStepInVersion ==
    \E p \in DOMAIN processes, v \in DOMAIN versions :
        VersionNotFound(p, v) \/ (v \in VersionsOf(p) /\ ModifyStep(v))
ModifyLinkInVersion ==
    \E p \in DOMAIN processes, v \in DOMAIN versions :
        VersionNotFound(p, v) \/ (v \in VersionsOf(p) /\ ModifyLink(v))

Next ==
    \/ CreateProcess \/ LoadProcess \/ CreateVersion
    \/ UpdateProcess \/ DeleteProcess
    \/ ModifySlotInProcess \/ ModifyStepInProcess \/ ModifyLinkInProcess
    \/ ModifySlotInVersion \/ ModifyStepInVersion \/ ModifyLinkInVersion

Spec == Init /\ [][Next]_vars

-----------------------------------------------------------------------------
(***************************************************************************)
(* Properties.                                                             *)
(***************************************************************************)
\* validate, which stops at the first error of a dozen loops and work lists,
\* lets a description through exactly when it is one that should be: whatever
\* was answered, a description that became rows or was stopped only by their
\* keys is Accepted, and one that was called invalid is not.
ValidationSound ==
    \A d \in answer.asked :
        /\ answer.is \in {Done, Database} => Accepted(d)
        /\ answer.is \in ValidateStructureError => ~Accepted(d)

\* What the columns of the tables hold.
TypeOK ==
    /\ processes \in Seq(STRING)
    /\ versions \in Seq([process : Nat, start : Nat])
    /\ slots \in Seq([process : Nat, name : STRING, autofill : BOOLEAN])
    /\ slotRoles \subseteq [slot : Nat, role : STRING]
    /\ steps \in Seq([process : Nat, name : STRING])
    /\ stepSlots \subseteq [step : Nat, slot : Nat, permission : SlotPermission]
    /\ links \subseteq [from : Nat, to : Nat, slot : Nat, name : STRING]
    /\ loaded \subseteq [process : DOMAIN processes, name : STRING]

\* Every process has a current version, its start is one of its own steps,
\* and everything a step grants and every link that leaves it stays in the
\* version: get_current never comes back empty and get_structure never
\* panics over an inconsistent database, whatever was rolled back.
NoInconsistency ==
    /\ \A p \in DOMAIN processes : VersionsOf(p) # {}
    /\ \A v \in DOMAIN versions :
        /\ versions[v].process \in DOMAIN processes
        /\ versions[v].start \in StepsOf(v)
    /\ \A g \in stepSlots :
        g.step \in DOMAIN steps /\ g.slot \in SlotsOf(steps[g.step].process)
    /\ \A l \in links :
        /\ l.from \in DOMAIN steps
        /\ l.to \in StepsOf(steps[l.from].process)
        /\ l.slot \in SlotsOf(steps[l.from].process)

\* What a description says apart from names, role limits and the order in
\* which a step lists its permissions and links.
Shape(d) ==
    [start |-> d.start,
     slots |-> [i \in DOMAIN d.slots |-> d.slots[i].autofill],
     steps |-> [i \in DOMAIN d.steps |->
         [slots |-> Range(d.steps[i].slots),
          links |-> {[to |-> l.to, slot |-> l.slot] :
                         l \in Range(d.steps[i].links)}]]]

\* What get_structure reads back of a version, at any later time, has the
\* shape of the description it was created from, whatever was created or
\* modified since: drafts advance along the links that were asked for.
ReadsBack ==
    \A v \in DOMAIN versions : Shape(Structure(v)) = Shape(asked[v])

\* A step that creates a version leaves the process with the name its
\* description gives, unless the process was renamed after the request had
\* loaded it: then the rename is lost or kept, depending on the loaded name.
NewVersionNamesProcess ==
    [][Len(versions') > Len(versions) =>
        LET v == Len(versions')
            p == versions'[v].process
        IN  \/ processes'[p] = asked'[v].name
            \/ \E l \in loaded : /\ l.process = p
                                 /\ l.name = asked'[v].name
                                 /\ l.name # processes[p]]_vars
=============================================================================
