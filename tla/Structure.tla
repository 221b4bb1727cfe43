----------------------------- MODULE Structure -----------------------------
(***************************************************************************)
(* The description of an editing process, and validate, which decides      *)
(* whether it may become a version (crates/models/src/models/editing/      *)
(* structure.rs).                                                          *)
(*                                                                         *)
(* A description is data: slots, steps, and in each step the permissions   *)
(* it grants to slots and the links that leave it.  Slots and steps name   *)
(* each other by index; indices start at 1 here and at 0 in the code.      *)
(*                                                                         *)
(* validate stops at the first thing wrong.  Its answer here is the kind   *)
(* of that error (ValidateStructureError without the indices it reports).  *)
(* Accepted says, of paths and of sets, what a description should be, and  *)
(* is what validate's loops and work lists are compared with.              *)
(***************************************************************************)
EXTENDS Naturals, Sequences, FiniteSets, SequencesExt

View == "view"
Edit == "edit"
Propose == "propose_changes"
Accept == "accept_changes"
SlotPermission == {View, Edit, Propose, Accept}

\* The four records of a description, and the name nothing may have.
NoName == ""
StepSlot(slot, permission) == [slot |-> slot, permission |-> permission]
Link(name, to, slot) == [name |-> name, to |-> to, slot |-> slot]
Slot(name, roles, autofill) ==
    [name |-> name, roles |-> roles, autofill |-> autofill]
Step(name, stepSlots, links) ==
    [name |-> name, slots |-> stepSlots, links |-> links]
Process(name, start, slots, steps) ==
    [name |-> name, start |-> start, slots |-> slots, steps |-> steps]

\* The sequence that a function over 1..n is.  (TLC then computes its
\* elements once.)
Listed(f) == f \o << >>

\* The elements of s that are in S, in their order: a filter.
Among(s, S) ==
    FlattenSeq([k \in DOMAIN s |-> IF s[k] \in S THEN <<s[k]>> ELSE << >>])

-----------------------------------------------------------------------------
(***************************************************************************)
(* Answers.                                                                *)
(***************************************************************************)
Valid == "Valid"

NameError ==
    {"EmptyProcessName", "EmptySlotName", "DuplicateSlotName",
     "EmptyStepName", "DuplicateStepName", "EmptyLinkName",
     "DuplicateLinkName"}
IndexError ==
    {"InvalidStartStep", "InvalidStepSlot", "InvalidLinkTarget",
     "InvalidLinkSlot", "UnusableLink", "LoopedLink"}
GrantError == {"PermissionDuplication", "ConflictingPermissions"}
GraphError == {"UnreachableState", "StartIsFinal", "IsolatedStep"}
ChangesError ==
    {"ChangesProposeNoAccept", "ChangesAcceptNoPropose",
     "ChangesAcceptNotOnlyPropose"}
ValidateStructureError ==
    NameError \cup IndexError \cup GrantError \cup GraphError \cup ChangesError

\* What a check answers: its error when it is broken.
Check(broken, error) == IF broken THEN error ELSE Valid

\* The first error of two checks, and of a sequence of them.  The second is
\* only looked at when the first finds nothing wrong.
Else(first, second) == IF first # Valid THEN first ELSE second
FirstError(answers) ==
    LET wrong == {i \in DOMAIN answers : answers[i] # Valid}
    IN  IF wrong = {} THEN Valid ELSE answers[Min(wrong)]

-----------------------------------------------------------------------------
(***************************************************************************)
(* Names: none is empty, none repeats an earlier one.                      *)
(***************************************************************************)
RepeatsName(things, i) == \E j \in 1..(i - 1) : things[j].name = things[i].name

NameOf(things, i, empty, duplicate) ==
    Else(Check(things[i].name = NoName, empty),
         Check(RepeatsName(things, i), duplicate))

Names(things, empty, duplicate) ==
    FirstError([i \in DOMAIN things |-> NameOf(things, i, empty, duplicate)])

CheckNames(p) ==
    Else(Check(p.name = NoName, "EmptyProcessName"),
    Else(Names(p.slots, "EmptySlotName", "DuplicateSlotName"),
         FirstError([i \in DOMAIN p.steps |->
             Else(NameOf(p.steps, i, "EmptyStepName", "DuplicateStepName"),
                  Names(p.steps[i].links, "EmptyLinkName",
                        "DuplicateLinkName"))])))

-----------------------------------------------------------------------------
(***************************************************************************)
(* Indices: everything named exists, and whoever may follow a link sees    *)
(* the step it leaves.                                                     *)
(***************************************************************************)
CheckLink(p, i, link) ==
    Else(Check(link.to \notin DOMAIN p.steps, "InvalidLinkTarget"),
    Else(Check(link.slot \notin DOMAIN p.slots, "InvalidLinkSlot"),
    Else(Check(\A s \in Range(p.steps[i].slots) : s.slot # link.slot,
               "UnusableLink"),
         Check(link.to = i, "LoopedLink"))))

CheckIndices(p) ==
    Else(Check(p.start \notin DOMAIN p.steps, "InvalidStartStep"),
         FirstError([i \in DOMAIN p.steps |->
             Else(Check(\E s \in Range(p.steps[i].slots) :
                            s.slot \notin DOMAIN p.slots, "InvalidStepSlot"),
                  FirstError([k \in DOMAIN p.steps[i].links |->
                      CheckLink(p, i, p.steps[i].links[k])]))]))

-----------------------------------------------------------------------------
(***************************************************************************)
(* Permissions of one step.                                                *)
(***************************************************************************)
Grants(step, permission) ==
    {k \in DOMAIN step.slots : step.slots[k].permission = permission}

CheckGrants(step) ==
    LET has(permission) == Grants(step, permission) # {}
    IN  Else(Check(\E permission \in {Edit, Propose} :
                       Cardinality(Grants(step, permission)) > 1,
                   "PermissionDuplication"),
             Check(\/ has(Edit) /\ has(Propose)
                   \/ has(Edit) /\ has(Accept)
                   \/ has(Propose) /\ has(Accept),
                   "ConflictingPermissions"))

CheckPermissions(p) ==
    FirstError([i \in DOMAIN p.steps |-> CheckGrants(p.steps[i])])

-----------------------------------------------------------------------------
(***************************************************************************)
(* Reachability, with validate's work list: pop a node from the stack,     *)
(* skip it when it was seen, otherwise mark it and push its neighbours.    *)
(* Every node is expanded once, so that as many pops as there are seeds    *)
(* and edges empty the stack.                                              *)
(***************************************************************************)
Pop(work, next) ==
    LET node == Last(work.stack)
        rest == Front(work.stack)
    IN  IF node \in work.seen THEN [work EXCEPT !.stack = rest]
        ELSE [seen |-> work.seen \cup {node}, stack |-> rest \o next[node]]

Explore(seeds, next) ==
    LET pops == Len(seeds) + Len(FlattenSeq(next))
        work[n \in 0..pops] ==
            IF n = 0 THEN [seen |-> {}, stack |-> seeds]
            ELSE IF work[n - 1].stack = << >> THEN work[n - 1]
            ELSE Pop(work[n - 1], next)
    IN  work[pops].seen

Targets(p) ==
    Listed([i \in DOMAIN p.steps |->
        [k \in DOMAIN p.steps[i].links |-> p.steps[i].links[k].to]])

\* The steps links come from, once for every link.
Origins(p) ==
    Listed([j \in DOMAIN p.steps |->
        FlattenSeq([i \in DOMAIN p.steps |->
            FlattenSeq([k \in DOMAIN p.steps[i].links |->
                IF p.steps[i].links[k].to = j THEN <<i>> ELSE << >>])])])

\* Mutant of FinalSteps: the search starts at one of them.
FinalStep(p) ==
    LET i == SelectInSeq(p.steps, LAMBDA step : step.links = << >>)
    IN  IF i = 0 THEN << >> ELSE <<i>>

FinalSteps(p) ==
    Among([i \in DOMAIN p.steps |-> i],
          {i \in DOMAIN p.steps : p.steps[i].links = << >>})

CheckGraph(p) ==
    Else(Check(Explore(<<p.start>>, Targets(p)) # DOMAIN p.steps,
               "UnreachableState"),
    Else(Check(p.start \in Range(FinalSteps(p)), "StartIsFinal"),
         Check(Explore(FinalSteps(p), Origins(p)) # DOMAIN p.steps,
               "IsolatedStep")))

-----------------------------------------------------------------------------
(***************************************************************************)
(* Proposing and accepting changes.                                        *)
(***************************************************************************)
CheckProposing(p) ==
    FirstError([i \in DOMAIN p.steps |->
        Check(/\ Grants(p.steps[i], Propose) # {}
              /\ \A to \in Range(Targets(p)[i]) :
                     Grants(p.steps[to], Accept) = {},
              "ChangesProposeNoAccept")])

\* incoming counts links, by whether the step they leave proposes changes.
CheckAccepting(p) ==
    LET incoming(i, proposing) ==
            Among(Origins(p)[i],
                  {from \in DOMAIN p.steps :
                      Grants(p.steps[from], Propose) # {} <=> proposing})
    IN  FirstError([i \in DOMAIN p.steps |->
            IF Grants(p.steps[i], Accept) = {} THEN Valid
            ELSE Else(Check(Len(incoming(i, TRUE)) = 0,
                            "ChangesAcceptNoPropose"),
                      Check(Len(incoming(i, FALSE)) # 0,
                            "ChangesAcceptNotOnlyPropose"))])

Validate(p) ==
    Else(CheckNames(p),
    Else(CheckIndices(p),
    Else(CheckPermissions(p),
    Else(CheckGraph(p),
    Else(CheckProposing(p), CheckAccepting(p))))))

-----------------------------------------------------------------------------
(***************************************************************************)
(* What a description should be, said without an algorithm.                *)
(***************************************************************************)
Named(things) ==
    /\ NoName \notin {t.name : t \in Range(things)}
    /\ Cardinality({t.name : t \in Range(things)}) = Len(things)

Joined(p, i, j) == \E link \in Range(p.steps[i].links) : link.to = j

\* No link leads out of these steps.  Steps that cannot be left must hold a
\* final one; those that start work and cannot be left are all the steps.
NoWayOut(p, some) ==
    \A i \in some : \A link \in Range(p.steps[i].links) : link.to \in some

Connected(p) ==
    LET final == {i \in DOMAIN p.steps : p.steps[i].links = << >>}
    IN  \A some \in (SUBSET DOMAIN p.steps) \ {{}} :
            NoWayOut(p, some) => /\ some \cap final # {}
                                 /\ p.start \in some => some = DOMAIN p.steps

Accepted(p) ==
    LET does(i, permission) ==
            \E s \in Range(p.steps[i].slots) : s.permission = permission
    IN
    /\ p.name # NoName /\ Named(p.slots) /\ Named(p.steps)
    /\ p.start \in DOMAIN p.steps
    /\ p.steps[p.start].links # << >>
    /\ \A i \in DOMAIN p.steps :
        /\ Named(p.steps[i].links)
        /\ \A s \in Range(p.steps[i].slots) : s.slot \in DOMAIN p.slots
        /\ \A link \in Range(p.steps[i].links) :
            /\ link.to \in DOMAIN p.steps \ {i}
            /\ \E s \in Range(p.steps[i].slots) : s.slot = link.slot
        /\ Cardinality(Grants(p.steps[i], Edit)) <= 1
        /\ Cardinality(Grants(p.steps[i], Propose)) <= 1
        /\ Cardinality({x \in {Edit, Propose, Accept} : does(i, x)}) <= 1
    /\ Connected(p)
    /\ \A i \in DOMAIN p.steps : does(i, Propose) =>
        \E j \in DOMAIN p.steps : Joined(p, i, j) /\ does(j, Accept)
    /\ \A j \in DOMAIN p.steps : does(j, Accept) =>
        /\ \E i \in DOMAIN p.steps : Joined(p, i, j)
        /\ \A i \in DOMAIN p.steps : Joined(p, i, j) => does(i, Propose)
=============================================================================
