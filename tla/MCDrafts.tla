------------------------------ MODULE MCDrafts ------------------------------
(***************************************************************************)
(* Small editing processes for model checking Drafts.                      *)
(***************************************************************************)
EXTENDS Drafts, TLC

\* One version: an author proposes, a reviewer accepts or sends back, the
\* author proofreads.
OneVersion == {1}
OneStart == [v \in OneVersion |-> "write"]
Steps == {"write", "review", "proof", "done"}
Slots == {"author", "reviewer"}
SlotsOfOne == [s \in Slots |-> 1]
Links == {[from |-> "write",  to |-> "review", slot |-> "author"],
          [from |-> "review", to |-> "write",  slot |-> "reviewer"],
          [from |-> "review", to |-> "proof",  slot |-> "reviewer"],
          [from |-> "proof",  to |-> "done",   slot |-> "author"]}
Grants ==
    {[step |-> "write",  slot |-> "author",   permission |-> "propose-changes"],
     [step |-> "review", slot |-> "reviewer", permission |-> "accept-changes"],
     [step |-> "review", slot |-> "author",   permission |-> "view"],
     [step |-> "proof",  slot |-> "author",   permission |-> "edit"]}

\* A second version with a single editor, and the first one cut short.
TwoVersions == {1, 2}
TwoStarts == [v \in TwoVersions |-> IF v = 1 THEN "write" ELSE "edit"]
StepsOfTwo == {"write", "review", "edit", "done"}
SlotsOfTwo == ("author" :> 1) @@ ("reviewer" :> 1) @@ ("editor" :> 2)
SlotNamesOfTwo == {"author", "reviewer", "editor"}
LinksOfTwo ==
    {[from |-> "write",  to |-> "review", slot |-> "author"],
     [from |-> "review", to |-> "write",  slot |-> "reviewer"],
     [from |-> "review", to |-> "done",   slot |-> "reviewer"],
     [from |-> "edit",   to |-> "done",   slot |-> "editor"]}
GrantsOfTwo ==
    {[step |-> "write",  slot |-> "author",   permission |-> "propose-changes"],
     [step |-> "review", slot |-> "reviewer", permission |-> "accept-changes"],
     [step |-> "edit",   slot |-> "editor",   permission |-> "edit"]}

\* The author may leave the first step in two ways.
ForkLinks == {[from |-> "write",  to |-> "review", slot |-> "author"],
              [from |-> "write",  to |-> "proof",  slot |-> "author"],
              [from |-> "review", to |-> "done",   slot |-> "reviewer"],
              [from |-> "proof",  to |-> "done",   slot |-> "author"]}
ForkGrants ==
    {[step |-> "write",  slot |-> "author",   permission |-> "edit"],
     [step |-> "review", slot |-> "reviewer", permission |-> "edit"],
     [step |-> "proof",  slot |-> "author",   permission |-> "edit"]}

\* One slot: the author drafts, proofreads and may go back.
SoloSteps == {"write", "proof", "done"}
SoloSlots == {"author"}
SlotsOfSolo == [s \in SoloSlots |-> 1]
SoloLinks == {[from |-> "write", to |-> "proof", slot |-> "author"],
              [from |-> "proof", to |-> "write", slot |-> "author"],
              [from |-> "proof", to |-> "done",  slot |-> "author"]}
SoloGrants ==
    {[step |-> st, slot |-> "author", permission |-> "edit"] :
        st \in {"write", "proof"}}

HandlerSymmetry == Permutations(Handler)
ModuleAndHandlerSymmetry == HandlerSymmetry \cup Permutations(Module)
=============================================================================
