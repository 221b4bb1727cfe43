---------------------------- MODULE MCProcesses ----------------------------
(***************************************************************************)
(* Descriptions for TLC.  The first one asked for is any of thousands:     *)
(* every graph of four steps with up to two links from a step, every       *)
(* choice of permissions in three steps, and the cases of the unit test.   *)
(* Rows are kept, changed and added to for a few of them only.             *)
(***************************************************************************)
EXTENDS Processes, StructureCases

ASSUME CasesAgree ==
    \A case \in NameCases \cup ShapeCases :
        /\ Validate(case.process) = case.answer
        /\ Accepted(case.process) <=> case.answer = Valid

Numbered == <<"one", "two", "three", "four">>
OneSlot == <<Slot("Slot", << >>, FALSE)>>

\* A graph of steps, as the set of targets of each, and what each grants.
Graph(to, grants) ==
    Process("Process", 1, OneSlot,
        Listed([i \in DOMAIN to |->
            Step(Numbered[i],
                 <<StepSlot(1, View)>> \o
                     [k \in DOMAIN grants[i] |-> StepSlot(1, grants[i][k])],
                 LET target == SetToSeq(to[i])
                 IN  Listed([k \in DOMAIN target |->
                                Link(Numbered[k], target[k], 1)]))]))

Few(S) == {T \in SUBSET S : Cardinality(T) <= 2}
Graphs4 ==
    {Graph(to, [i \in 1..4 |-> << >>]) : to \in [1..4 -> Few(1..4)]}

SomeGrants ==
    {<< >>, <<Edit>>, <<Propose>>, <<Accept>>, <<Edit, Propose>>, <<Edit, Edit>>}
Topologies ==
    {<<{2}, {3}, {}>>, <<{2, 3}, {3}, {}>>, <<{2, 3}, {}, {}>>,
     <<{2}, {1, 3}, {}>>, <<{2, 3}, {3}, {2}>>, <<{2}, {3, 4}, {}>>}
Grants3 ==
    {Graph(to, grants) : to \in Topologies, grants \in [1..3 -> SomeGrants]}

Cases == {case.process : case \in NameCases \cup ShapeCases}

\* Two ways to the end, over one step or at once, for two slots.
TwoWays ==
    Process("Other", 2,
        <<Slot("Slot", <<"author">>, TRUE), Slot("End", << >>, FALSE)>>,
        <<Step("End", << >>, << >>),
          Step("Start", <<StepSlot(2, View), StepSlot(1, Edit)>>,
               <<Link("End", 3, 2), Link("Link", 1, 1)>>),
          Step("Middle", <<StepSlot(1, View)>>, <<Link("Link", 1, 1)>>)>>)

\* What validate accepts and the tables do not.
Parallel ==
    WithLink([Good EXCEPT !.slots = Append(@, Slot("Second", << >>, FALSE)),
                          !.steps[1].slots = Append(@, StepSlot(2, View))],
             1, Link("Another link", 2, 2))

Later == {Good, TwoWays, Parallel, [Good EXCEPT !.steps = << >>]}
Every == Graphs4 \cup Grants3 \cup Cases \cup Later
First == Every

\* Bounds: TLC goes on from states that keep rows of the few descriptions
\* only, and no more than MaxKept versions and changes of a name or a limit.
MaxKept == 2
Changed ==
    {<<"slot", s>> : s \in {s \in DOMAIN slots :
        slots[s].name \notin {t.name : t \in Range(asked[slots[s].process].slots)}}}
    \cup {<<"step", s>> : s \in {s \in DOMAIN steps :
        steps[s].name \notin {t.name : t \in Range(asked[steps[s].process].steps)}}}
    \cup {<<"link", l>> : l \in {l \in links :
        l.name \notin {k.name : k \in UNION {Range(t.links) :
                           t \in Range(asked[steps[l.from].process].steps)}}}}
    \cup {<<"role", r>> : r \in {r \in slotRoles : r.role = "editor"}}
Explored ==
    /\ Range(asked) \cup answer.asked \subseteq Later
    /\ Len(asked) + Cardinality(Changed) <= MaxKept
=============================================================================
