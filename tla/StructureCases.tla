--------------------------- MODULE StructureCases ---------------------------
(***************************************************************************)
(* The cases of the unit test `validation` (structure.rs), each with the   *)
(* answer the test expects, in the order of the test.  Validate of         *)
(* Structure must give the same answers.                                   *)
(***************************************************************************)
EXTENDS Structure

Good ==
    Process("Process", 1, <<Slot("Slot", << >>, FALSE)>>,
            <<Step("Start", <<StepSlot(1, Edit)>>, <<Link("Link", 2, 1)>>),
              Step("End", << >>, << >>)>>)

WithLink(p, i, link) ==
    [p EXCEPT !.steps[i].links = Append(@, link)]
WithStep(p, step) == [p EXCEPT !.steps = Append(@, step)]
WithGrant(p, i, grant) == [p EXCEPT !.steps[i].slots = Append(@, grant)]

\* The chain the test grows: a step that proposes changes, one that accepts
\* them, and a way past the first.
Proposing ==
    WithStep(WithLink(Good, 1, Link("To propose", 3, 1)),
             Step("Propose changes", <<StepSlot(1, Propose)>>,
                  <<Link("Link", 2, 1)>>))
Accepting ==
    WithStep(WithLink(Proposing, 3, Link("To accept", 4, 1)),
             Step("Accept changes", <<StepSlot(1, Accept)>>,
                  <<Link("Link", 2, 1)>>))
Bypassing == WithLink(Accepting, 1, Link("To accept", 4, 1))

Isolated ==
    WithLink(WithStep(WithStep(Good,
                 Step("Isolated A", <<StepSlot(1, View)>>,
                      <<Link("Link", 4, 1)>>)),
                 Step("Isolated B", <<StepSlot(1, View)>>,
                      <<Link("Link", 3, 1)>>)),
             1, Link("Another link", 3, 1))

Case(p, answer) == [process |-> p, answer |-> answer]

NameCases ==
    {Case(Good, Valid),
     Case([Good EXCEPT !.slots[1].name = NoName], "EmptySlotName"),
     Case([Good EXCEPT !.steps[1].name = NoName], "EmptyStepName"),
     Case([Good EXCEPT !.steps[1].links[1].name = NoName], "EmptyLinkName"),
     Case([Good EXCEPT !.slots = Append(@, Good.slots[1])],
          "DuplicateSlotName"),
     Case([Good EXCEPT !.steps[2].name = "Start"], "DuplicateStepName"),
     Case(WithLink(Good, 1, Link("Link", 2, 1)), "DuplicateLinkName"),
     Case([Good EXCEPT !.name = NoName], "EmptyProcessName")}

ShapeCases ==
    {Case([Good EXCEPT !.steps = << >>], "InvalidStartStep"),
     Case([Good EXCEPT !.steps = <<[Good.steps[1] EXCEPT !.links = << >>]>>],
          "StartIsFinal"),
     Case([Good EXCEPT !.steps[1].links = << >>], "UnreachableState"),
     Case([Good EXCEPT !.steps[1].links[1].slot = 4], "InvalidLinkSlot"),
     Case([Good EXCEPT !.steps[1].slots = << >>], "UnusableLink"),
     Case(WithLink(Good, 1, Link("Another link", 1, 1)), "LoopedLink"),
     Case(WithLink(Good, 1, Link("Another link", 4, 1)), "InvalidLinkTarget"),
     Case(WithGrant(Good, 1, StepSlot(4, View)), "InvalidStepSlot"),
     Case([WithGrant(Good, 1, StepSlot(2, Edit))
              EXCEPT !.slots = Append(@, Slot("Another", << >>, FALSE))],
          "PermissionDuplication"),
     Case(WithGrant(Good, 1, StepSlot(1, Propose)), "ConflictingPermissions"),
     Case([Good EXCEPT !.steps[1].slots[1].permission = Accept],
          "ChangesAcceptNoPropose"),
     Case(Proposing, "ChangesProposeNoAccept"),
     Case(Accepting, Valid),
     Case(Bypassing, "ChangesAcceptNotOnlyPropose"),
     Case(Isolated, "IsolatedStep")}
=============================================================================
