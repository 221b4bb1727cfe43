-------------------------- MODULE ProcessesProofs --------------------------
(***************************************************************************)
(* Proofs about Processes, for any descriptions.  What validate lets       *)
(* through names only slots and steps that the description has             *)
(* (IndicesFit); it follows that the rows of a version name only rows of   *)
(* the same version, and that this is inductive (NoInconsistency).  Where  *)
(* these rows are tells what is read back (ReadsBack).  That validate lets *)
(* through what it should, and nothing else, is about its loops and work   *)
(* lists, and comes last (ValidationSound).                                *)
(***************************************************************************)
EXTENDS Processes, FiniteSetTheorems, SequenceTheorems, WellFoundedInduction, TLAPS

(***************************************************************************)
(* Sets of naturals, and sets of indices, have a least member.             *)
(***************************************************************************)
LEMMA LeastNatural ==
  ASSUME NEW T \in SUBSET Nat, T # {}
  PROVE  \E n \in T : \A m \in T : n <= m
<1> DEFINE R == {ss \in Nat \X Nat : ss[1] < ss[2]}
<1>1. \E x \in T : \A y \in T : ~ (<<y, x>> \in R)
  <2>1. OpToRel(<, Nat) = R
    BY DEF OpToRel
  <2>2. IsWellFoundedOn(OpToRel(<, Nat), Nat)
    BY NatLessThanWellFounded, Zenon
  <2>3. IsWellFoundedOn(R, Nat)
    BY <2>1, <2>2, Zenon
  <2> HIDE DEF R
  <2> QED BY <2>3, WFMin
<1>2. \A x, y \in Nat : y < x => <<y, x>> \in R
  OBVIOUS
<1> HIDE DEF R
<1>3. PICK n \in T : \A m \in T : ~(<<m, n>> \in R)
  BY <1>1
<1>4. /\ n \in Nat
      /\ \A m \in T : m \in Nat /\ ~(m < n)
  BY <1>2, <1>3
<1>5. \A m \in T : n <= m
  BY <1>4
<1> QED BY <1>3, <1>5

LEMMA LeastOfSome ==
    ASSUME NEW n \in Nat, NEW some \in SUBSET (1..n), some # {}
    PROVE  Min(some) \in some
<1>1. some \in SUBSET Nat
  OBVIOUS
<1>2. \E i \in some : \A j \in some : i <= j
  BY <1>1, LeastNatural
<1> QED BY <1>2 DEF Min

-----------------------------------------------------------------------------
(***************************************************************************)
(* What the answer Valid says of the parts of a check, and that anything   *)
(* else is one of the errors.                                              *)
(***************************************************************************)
Answer == {Valid} \cup ValidateStructureError

LEMMA CheckIsValid ==
    ASSUME NEW broken \in BOOLEAN, NEW error \in ValidateStructureError
    PROVE  Check(broken, error) \in Answer /\ (Check(broken, error) = Valid <=> ~broken)
BY DEF Check, Valid, Answer, ValidateStructureError, NameError, IndexError,
       GrantError, GraphError, ChangesError

LEMMA ElseIsValid ==
    ASSUME NEW first, NEW second
    PROVE  /\ Else(first, second) = Valid <=> first = Valid /\ second = Valid
           /\ first \in Answer /\ second \in Answer => Else(first, second) \in Answer
BY DEF Else

LEMMA FirstErrorIsValid ==
    ASSUME NEW n \in Nat, NEW answers, DOMAIN answers = 1..n
    PROVE  /\ FirstError(answers) = Valid <=> \A i \in 1..n : answers[i] = Valid
           /\ (\A i \in 1..n : answers[i] \in Answer) => FirstError(answers) \in Answer
<1> DEFINE wrong == {i \in DOMAIN answers : answers[i] # Valid}
<1>1. CASE wrong = {}
  <2>1. FirstError(answers) = Valid
    BY <1>1 DEF FirstError
  <2> QED BY <1>1, <2>1 DEF Answer
<1>2. CASE wrong # {}
  <2>1. Min(wrong) \in wrong
    BY <1>2, LeastOfSome
  <2>2. FirstError(answers) = answers[Min(wrong)]
    BY <1>2 DEF FirstError
  <2> QED BY <2>1, <2>2
<1> QED BY <1>1, <1>2

\* What Version::create does with a description takes for granted.
IndicesFit(d) ==
    /\ d.start \in DOMAIN d.steps
    /\ \A i \in DOMAIN d.steps :
        /\ \A s \in Range(d.steps[i].slots) : s.slot \in DOMAIN d.slots
        /\ \A l \in Range(d.steps[i].links) :
            l.to \in DOMAIN d.steps /\ l.slot \in DOMAIN d.slots

\* What validate demands of a link.
LinkFits(d, i, l) ==
    /\ l.to \in DOMAIN d.steps /\ l.slot \in DOMAIN d.slots
    /\ \E s \in Range(d.steps[i].slots) : s.slot = l.slot
    /\ l.to # i

LEMMA LinkChecked ==
    ASSUME NEW d, NEW i, NEW l
    PROVE  /\ CheckLink(d, i, l) \in Answer
           /\ CheckLink(d, i, l) = Valid <=> LinkFits(d, i, l)
<1> DEFINE target == Check(l.to \notin DOMAIN d.steps, "InvalidLinkTarget")
           slot == Check(l.slot \notin DOMAIN d.slots, "InvalidLinkSlot")
           usable == Check(\A s \in Range(d.steps[i].slots) : s.slot # l.slot,
                           "UnusableLink")
           loop == Check(l.to = i, "LoopedLink")
<1>1. {"InvalidLinkTarget", "InvalidLinkSlot", "UnusableLink", "LoopedLink"}
          \subseteq ValidateStructureError
  BY DEF ValidateStructureError, IndexError
<1>2. /\ target \in Answer /\ slot \in Answer /\ usable \in Answer /\ loop \in Answer
      /\ target = Valid <=> l.to \in DOMAIN d.steps
      /\ slot = Valid <=> l.slot \in DOMAIN d.slots
      /\ usable = Valid <=> \E s \in Range(d.steps[i].slots) : s.slot = l.slot
      /\ loop = Valid <=> l.to # i
  BY <1>1, CheckIsValid
<1>3. CheckLink(d, i, l) = Else(target, Else(slot, Else(usable, loop)))
  BY DEF CheckLink
<1> HIDE DEF target, slot, usable, loop
<1>4. /\ Else(usable, loop) \in Answer
      /\ Else(usable, loop) = Valid <=> usable = Valid /\ loop = Valid
  BY <1>2, ElseIsValid
<1>5. /\ Else(slot, Else(usable, loop)) \in Answer
      /\ Else(slot, Else(usable, loop)) = Valid <=> slot = Valid /\ Else(usable, loop) = Valid
  BY <1>2, <1>4, ElseIsValid
<1>6. /\ CheckLink(d, i, l) \in Answer
      /\ CheckLink(d, i, l) = Valid <=>
             target = Valid /\ Else(slot, Else(usable, loop)) = Valid
  BY <1>2, <1>3, <1>5, ElseIsValid
<1> QED BY <1>2, <1>4, <1>5, <1>6 DEF LinkFits

\* The rows of a description are sequences.
LEMMA RowsOfDescription ==
    ASSUME NEW d, IsDescription(d)
    PROVE  /\ Len(d.steps) \in Nat /\ DOMAIN d.steps = 1..Len(d.steps)
           /\ Len(d.slots) \in Nat /\ DOMAIN d.slots = 1..Len(d.slots)
           /\ \A i \in DOMAIN d.steps :
                /\ Len(d.steps[i].slots) \in Nat
                /\ DOMAIN d.steps[i].slots = 1..Len(d.steps[i].slots)
                /\ Len(d.steps[i].links) \in Nat
                /\ DOMAIN d.steps[i].links = 1..Len(d.steps[i].links)
<1> DEFINE SlotRow == [name : STRING, roles : Seq(STRING), autofill : BOOLEAN]
           Granted == [slot : Nat, permission : SlotPermission]
           Leads == [name : STRING, to : Nat, slot : Nat]
           StepRow == [name : STRING, slots : Seq(Granted), links : Seq(Leads)]
<1>1. d.slots \in Seq(SlotRow) /\ d.steps \in Seq(StepRow)
  BY DEF IsDescription
<1> HIDE DEF SlotRow, Granted, Leads
<1>2. /\ Len(d.steps) \in Nat /\ DOMAIN d.steps = 1..Len(d.steps)
      /\ Len(d.slots) \in Nat /\ DOMAIN d.slots = 1..Len(d.slots)
      /\ \A i \in DOMAIN d.steps : d.steps[i] \in StepRow
  <2> HIDE DEF StepRow
  <2> QED BY <1>1
<1>3. \A i \in DOMAIN d.steps :
          d.steps[i].slots \in Seq(Granted) /\ d.steps[i].links \in Seq(Leads)
  BY <1>2
<1>4. \A S : \A rows \in Seq(S) : Len(rows) \in Nat /\ DOMAIN rows = 1..Len(rows)
  OBVIOUS
<1> QED BY <1>2, <1>3, <1>4

LEMMA IndicesChecked ==
    ASSUME NEW d, IsDescription(d)
    PROVE  /\ CheckIndices(d) \in Answer
           /\ CheckIndices(d) = Valid <=>
                /\ d.start \in DOMAIN d.steps
                /\ \A i \in DOMAIN d.steps :
                    /\ \A s \in Range(d.steps[i].slots) : s.slot \in DOMAIN d.slots
                    /\ \A l \in Range(d.steps[i].links) : LinkFits(d, i, l)
<1> DEFINE n == Len(d.steps)
           leaving(i) == d.steps[i].links
           ofLinks(i) == [k \in DOMAIN leaving(i) |-> CheckLink(d, i, leaving(i)[k])]
           ofSlots(i) == Check(\E s \in Range(d.steps[i].slots) :
                                   s.slot \notin DOMAIN d.slots, "InvalidStepSlot")
           ofStep == [i \in DOMAIN d.steps |->
                         Else(ofSlots(i), FirstError(ofLinks(i)))]
           begins == Check(d.start \notin DOMAIN d.steps, "InvalidStartStep")
<1>1. n \in Nat /\ DOMAIN d.steps = 1..n
  BY RowsOfDescription
<1>2. {"InvalidStartStep", "InvalidStepSlot"} \subseteq ValidateStructureError
  BY DEF ValidateStructureError, IndexError
<1>3. begins \in Answer /\ (begins = Valid <=> d.start \in DOMAIN d.steps)
  BY <1>2, CheckIsValid
<1>4. ASSUME NEW i \in DOMAIN d.steps
      PROVE  /\ ofStep[i] \in Answer
             /\ ofStep[i] = Valid <=>
                  /\ \A s \in Range(d.steps[i].slots) : s.slot \in DOMAIN d.slots
                  /\ \A l \in Range(d.steps[i].links) : LinkFits(d, i, l)
  <2>1. /\ ofSlots(i) \in Answer
        /\ ofSlots(i) = Valid <=> \A s \in Range(d.steps[i].slots) : s.slot \in DOMAIN d.slots
    BY <1>2, CheckIsValid
  <2> DEFINE m == Len(leaving(i))  f == ofLinks(i)
  <2>2. m \in Nat /\ DOMAIN leaving(i) = 1..m
    BY RowsOfDescription
  <2>3. DOMAIN f = 1..m
    BY <2>2
  <2>4. \A k \in 1..m : /\ f[k] \in Answer
                        /\ f[k] = Valid <=> LinkFits(d, i, leaving(i)[k])
    BY <2>2, LinkChecked
  <2> HIDE DEF m, f
  <2>5. /\ FirstError(f) \in Answer
        /\ FirstError(f) = Valid <=> \A k \in 1..m : LinkFits(d, i, leaving(i)[k])
    BY <2>2, <2>3, <2>4, FirstErrorIsValid
  <2>6. (\A k \in 1..m : LinkFits(d, i, leaving(i)[k])) <=>
            \A l \in Range(d.steps[i].links) : LinkFits(d, i, l)
    BY <2>2 DEF Range
  <2> DEFINE whole == Else(ofSlots(i), FirstError(f))
  <2>7. ofStep[i] = whole
    BY DEF f
  <2> HIDE DEF ofSlots, ofStep
  <2>8. whole \in Answer /\ (whole = Valid <=> ofSlots(i) = Valid /\ FirstError(f) = Valid)
    BY <2>1, <2>5, ElseIsValid
  <2> HIDE DEF whole
  <2> QED BY <2>1, <2>5, <2>6, <2>7, <2>8
<1>5. CheckIndices(d) = Else(begins, FirstError(ofStep))
  BY DEF CheckIndices
<1>6. DOMAIN ofStep = 1..n
  BY <1>1
<1> HIDE DEF begins, ofStep, n
<1>7. /\ FirstError(ofStep) \in Answer
      /\ FirstError(ofStep) = Valid <=> \A i \in DOMAIN d.steps : ofStep[i] = Valid
  BY <1>1, <1>4, <1>6, FirstErrorIsValid
<1>8. /\ CheckIndices(d) \in Answer
      /\ CheckIndices(d) = Valid <=> begins = Valid /\ FirstError(ofStep) = Valid
  BY <1>3, <1>5, <1>7, ElseIsValid
<1> QED BY <1>3, <1>4, <1>7, <1>8

LEMMA ValidIndicesFit ==
    ASSUME NEW d, IsDescription(d), Validate(d) = Valid
    PROVE  IndicesFit(d)
<1>1. CheckIndices(d) = Valid
  BY ElseIsValid DEF Validate
<1> QED BY <1>1, IndicesChecked DEF IndicesFit, LinkFits

-----------------------------------------------------------------------------
(***************************************************************************)
(* The rows of a new version.                                              *)
(***************************************************************************)
ProcessesInvariant == TypeOK /\ NoInconsistency

\* What the next step sees of the tables: rows are only added or renamed.
LEMMA AskedIsDescription ==
    ASSUME NEW d \in AskedNow
    PROVE  IsDescription(d)
BY FirstAssumption, LaterAssumption DEF AskedNow

LEMMA DescriptionTypes ==
    ASSUME NEW d, IsDescription(d)
    PROVE  /\ d.start \in Nat
           /\ Len(d.slots) \in Nat /\ DOMAIN d.slots = 1..Len(d.slots)
           /\ Len(d.steps) \in Nat /\ DOMAIN d.steps = 1..Len(d.steps)
           /\ \A i \in DOMAIN d.slots :
                /\ d.slots[i].name \in STRING /\ d.slots[i].autofill \in BOOLEAN
                /\ \A role \in Range(d.slots[i].roles) : role \in STRING
           /\ \A i \in DOMAIN d.steps :
                /\ d.steps[i].name \in STRING
                /\ \A s \in Range(d.steps[i].slots) :
                    s.slot \in Nat /\ s.permission \in SlotPermission
                /\ \A l \in Range(d.steps[i].links) :
                    l.name \in STRING /\ l.to \in Nat /\ l.slot \in Nat
<1> DEFINE SlotRow == [name : STRING, roles : Seq(STRING), autofill : BOOLEAN]
           Granted == [slot : Nat, permission : SlotPermission]
           Leads == [name : STRING, to : Nat, slot : Nat]
           StepRow == [name : STRING, slots : Seq(Granted), links : Seq(Leads)]
<1>1. d.start \in Nat /\ d.slots \in Seq(SlotRow) /\ d.steps \in Seq(StepRow)
  BY DEF IsDescription
<1>2. /\ Len(d.slots) \in Nat /\ DOMAIN d.slots = 1..Len(d.slots)
      /\ Len(d.steps) \in Nat /\ DOMAIN d.steps = 1..Len(d.steps)
      /\ \A i \in DOMAIN d.slots : d.slots[i] \in SlotRow
      /\ \A i \in DOMAIN d.steps : d.steps[i] \in StepRow
  <2> HIDE DEF SlotRow, StepRow
  <2> QED BY <1>1
<1>3. \A S : \A rows \in Seq(S) : Range(rows) \subseteq S
  BY DEF Range
<1>4. ASSUME NEW i \in DOMAIN d.slots
      PROVE  /\ d.slots[i].name \in STRING /\ d.slots[i].autofill \in BOOLEAN
             /\ \A role \in Range(d.slots[i].roles) : role \in STRING
  <2>1. /\ d.slots[i].name \in STRING /\ d.slots[i].autofill \in BOOLEAN
        /\ d.slots[i].roles \in Seq(STRING)
    BY <1>2
  <2> QED BY <1>3, <2>1
<1>5. ASSUME NEW i \in DOMAIN d.steps
      PROVE  /\ d.steps[i].name \in STRING
             /\ \A s \in Range(d.steps[i].slots) :
                    s.slot \in Nat /\ s.permission \in SlotPermission
             /\ \A l \in Range(d.steps[i].links) :
                    l.name \in STRING /\ l.to \in Nat /\ l.slot \in Nat
  <2>1. /\ d.steps[i].name \in STRING /\ d.steps[i].slots \in Seq(Granted)
        /\ d.steps[i].links \in Seq(Leads)
    <3> HIDE DEF Granted, Leads
    <3> QED BY <1>2
  <2>2. Range(d.steps[i].slots) \subseteq Granted
    <3> HIDE DEF Granted
    <3> QED BY <1>3, <2>1
  <2>3. Range(d.steps[i].links) \subseteq Leads
    <3> HIDE DEF Leads
    <3> QED BY <1>3, <2>1
  <2> QED BY <2>1, <2>2, <2>3
<1> QED BY <1>1, <1>2, <1>4, <1>5

\* Rows are put at the end of a table: those there stay where they are.
LEMMA RowsAdd ==
    ASSUME NEW Row, NEW rows \in Seq(Row), NEW n \in Nat, NEW more \in [1..n -> Row],
           NEW after, after = rows \o more
    PROVE  /\ after \in Seq(Row)
           /\ DOMAIN rows \subseteq DOMAIN after
           /\ \A i \in DOMAIN rows : after[i] = rows[i]
           /\ \A i \in 1..n : Len(rows) + i \in DOMAIN after /\ after[Len(rows) + i] = more[i]
<1>1. more \in Seq(Row) /\ Len(more) = n
  OBVIOUS
<1>2. /\ Len(rows) \in Nat /\ DOMAIN rows = 1..Len(rows)
      /\ after \in Seq(Row) /\ Len(after) = Len(rows) + n
      /\ \A i \in 1..(Len(rows) + n) :
            after[i] = IF i <= Len(rows) THEN rows[i] ELSE more[i - Len(rows)]
  BY <1>1, ConcatProperties, SMTT(30)
<1>3. DOMAIN after = 1..(Len(rows) + n)
  BY <1>2
<1>4. ASSUME NEW i \in 1..n
      PROVE  Len(rows) + i \in DOMAIN after /\ after[Len(rows) + i] = more[i]
  <2>1. Len(rows) + i \in 1..(Len(rows) + n) /\ ~(Len(rows) + i <= Len(rows))
        /\ (Len(rows) + i) - Len(rows) = i
    BY <1>2
  <2> QED BY <1>2, <1>3, <2>1
<1>5. DOMAIN rows \subseteq DOMAIN after /\ \A i \in DOMAIN rows : after[i] = rows[i]
  BY <1>2, <1>3
<1> QED BY <1>2, <1>4, <1>5

LEMMA InsertPreserves ==
    ASSUME ProcessesInvariant, NEW d, IsDescription(d), IndicesFit(d), Storable(d),
           NEW p \in Nat, processes' \in Seq(STRING),
           DOMAIN processes' = DOMAIN processes \cup {p},
           loaded' \subseteq loaded, Insert(p, d)
    PROVE  ProcessesInvariant'
<1> DEFINE v == Len(versions) + 1
           slot(i) == Len(slots) + i
           step(i) == Len(steps) + i
           SlotRow == [process : Nat, name : STRING, autofill : BOOLEAN]
           StepRow == [process : Nat, name : STRING]
           newSlots == [i \in DOMAIN d.slots |->
                           [process |-> v, name |-> d.slots[i].name,
                            autofill |-> d.slots[i].autofill]]
           newSteps == [i \in DOMAIN d.steps |->
                           [process |-> v, name |-> d.steps[i].name]]
<1>1. /\ versions \in Seq([process : Nat, start : Nat])
      /\ slots \in Seq(SlotRow) /\ steps \in Seq(StepRow)
  BY DEF ProcessesInvariant, TypeOK
<1>2. /\ Len(versions) \in Nat /\ Len(slots) \in Nat /\ Len(steps) \in Nat
      /\ v \in Nat
  <2> HIDE DEF SlotRow, StepRow
  <2> QED BY <1>1
<1>4. /\ versions' = Append(versions, [process |-> p, start |-> Len(steps) + d.start])
      /\ slots' = slots \o newSlots /\ steps' = steps \o newSteps
  BY DEF Insert, StartOf
<1>6. newSlots \in [1..Len(d.slots) -> SlotRow]
  BY <1>2, DescriptionTypes
<1>7. newSteps \in [1..Len(d.steps) -> StepRow]
  BY <1>2, DescriptionTypes
<1>8. /\ slots' \in Seq(SlotRow)
      /\ DOMAIN slots \subseteq DOMAIN slots'
      /\ \A s \in DOMAIN slots : slots'[s].process = slots[s].process
      /\ \A i \in DOMAIN d.slots :
            slot(i) \in DOMAIN slots' /\ slots'[slot(i)].process = v
  <2>1. \A i \in DOMAIN d.slots : i \in 1..Len(d.slots) /\ newSlots[i].process = v
    BY DescriptionTypes
  <2>2. Len(d.slots) \in Nat
    BY DescriptionTypes
  <2> HIDE DEF SlotRow, newSlots
  <2>3. /\ slots' \in Seq(SlotRow)
        /\ DOMAIN slots \subseteq DOMAIN slots'
        /\ \A s \in DOMAIN slots : slots'[s] = slots[s]
        /\ \A i \in 1..Len(d.slots) : /\ slot(i) \in DOMAIN slots'
                                      /\ slots'[slot(i)] = newSlots[i]
    <3> DEFINE n == Len(d.slots)
               after == slots'
    <3>1. slots \in Seq(SlotRow) /\ n \in Nat /\ newSlots \in [1..n -> SlotRow]
      BY <1>1, <1>6, <2>2
    <3>2. after = slots \o newSlots
      BY <1>4
    <3> HIDE DEF n, after
    <3>3. /\ after \in Seq(SlotRow)
          /\ DOMAIN slots \subseteq DOMAIN after
          /\ \A s \in DOMAIN slots : after[s] = slots[s]
          /\ \A i \in 1..n : /\ Len(slots) + i \in DOMAIN after
                            /\ after[Len(slots) + i] = newSlots[i]
      BY <3>1, <3>2, RowsAdd
    <3> QED BY <3>3 DEF n, after
  <2> QED BY <2>1, <2>3
<1>9. /\ steps' \in Seq(StepRow)
      /\ DOMAIN steps \subseteq DOMAIN steps'
      /\ \A s \in DOMAIN steps : steps'[s].process = steps[s].process
      /\ \A i \in DOMAIN d.steps :
            step(i) \in DOMAIN steps' /\ steps'[step(i)].process = v
  <2>1. \A i \in DOMAIN d.steps : i \in 1..Len(d.steps) /\ newSteps[i].process = v
    BY DescriptionTypes
  <2>2. Len(d.steps) \in Nat
    BY DescriptionTypes
  <2> HIDE DEF StepRow, newSteps
  <2>3. /\ steps' \in Seq(StepRow)
        /\ DOMAIN steps \subseteq DOMAIN steps'
        /\ \A s \in DOMAIN steps : steps'[s] = steps[s]
        /\ \A i \in 1..Len(d.steps) : /\ step(i) \in DOMAIN steps'
                                      /\ steps'[step(i)] = newSteps[i]
    <3> DEFINE n == Len(d.steps)
               after == steps'
    <3>1. steps \in Seq(StepRow) /\ n \in Nat /\ newSteps \in [1..n -> StepRow]
      BY <1>1, <1>7, <2>2
    <3>2. after = steps \o newSteps
      BY <1>4
    <3> HIDE DEF n, after
    <3>3. /\ after \in Seq(StepRow)
          /\ DOMAIN steps \subseteq DOMAIN after
          /\ \A s \in DOMAIN steps : after[s] = steps[s]
          /\ \A i \in 1..n : /\ Len(steps) + i \in DOMAIN after
                            /\ after[Len(steps) + i] = newSteps[i]
      BY <3>1, <3>2, RowsAdd
    <3> QED BY <3>3 DEF n, after
  <2> QED BY <2>1, <2>3
<1>10. /\ versions' \in Seq([process : Nat, start : Nat])
       /\ DOMAIN versions' = DOMAIN versions \cup {v}
       /\ \A w \in DOMAIN versions : versions'[w] = versions[w]
       /\ versions'[v] = [process |-> p, start |-> step(d.start)]
  <2>1. Len(steps) + d.start \in Nat
    BY <1>2, DescriptionTypes
  <2>2. [process |-> p, start |-> step(d.start)] \in [process : Nat, start : Nat]
    BY <2>1
  <2> DEFINE VersionRow == [process : Nat, start : Nat]
             row == [process |-> p, start |-> step(d.start)]
  <2>3. versions \in Seq(VersionRow) /\ row \in VersionRow
    BY <1>1, <2>2
  <2>4. versions' = Append(versions, row)
    BY <1>4
  <2> HIDE DEF VersionRow, row
  <2>5. /\ versions' \in Seq(VersionRow)
        /\ DOMAIN versions' = DOMAIN versions \cup {v}
        /\ \A w \in DOMAIN versions : versions'[w] = versions[w]
        /\ versions'[v] = row
    BY <1>2, <2>3, <2>4
  <2> QED BY <2>5 DEF VersionRow, row
<1>11. TypeOK'
  <2>1. slotRoles' \subseteq [slot : Nat, role : STRING]
    <3>1. ASSUME NEW i \in DOMAIN d.slots, NEW role \in Range(d.slots[i].roles)
          PROVE  [slot |-> slot(i), role |-> role] \in [slot : Nat, role : STRING]
      BY <1>2, DescriptionTypes
    <3>2. slotRoles' = slotRoles \cup UNION {
              {[slot |-> slot(i), role |-> role] : role \in Range(d.slots[i].roles)} :
                  i \in DOMAIN d.slots}
      BY DEF Insert
    <3>3. slotRoles \subseteq [slot : Nat, role : STRING]
      BY DEF ProcessesInvariant, TypeOK
    <3> QED BY <3>1, <3>2, <3>3
  <2>2. ASSUME NEW g \in stepSlots'
        PROVE  g \in [step : Nat, slot : Nat, permission : SlotPermission]
    <3>1. CASE g \in stepSlots
      BY <3>1 DEF ProcessesInvariant, TypeOK
    <3>2. CASE g \notin stepSlots
      <4>1. PICK i \in DOMAIN d.steps : \E s \in Range(d.steps[i].slots) :
                g = [step |-> step(i), slot |-> slot(s.slot), permission |-> s.permission]
        BY <3>2 DEF Insert
      <4> QED BY <1>2, <4>1, DescriptionTypes
    <3> QED BY <3>1, <3>2
  <2>3. ASSUME NEW l \in links'
        PROVE  l \in [from : Nat, to : Nat, slot : Nat, name : STRING]
    <3>1. CASE l \in links
      BY <3>1 DEF ProcessesInvariant, TypeOK
    <3>2. CASE l \notin links
      <4>1. PICK i \in DOMAIN d.steps : \E k \in Range(d.steps[i].links) :
                l = [from |-> step(i), to |-> step(k.to), slot |-> slot(k.slot),
                     name |-> k.name]
        BY <3>2 DEF Insert
      <4>2. PICK k \in Range(d.steps[i].links) :
                l = [from |-> step(i), to |-> step(k.to), slot |-> slot(k.slot),
                     name |-> k.name]
        BY <4>1
      <4>3. i \in Nat /\ k.to \in Nat /\ k.slot \in Nat /\ k.name \in STRING
        BY DescriptionTypes
      <4>4. step(i) \in Nat /\ step(k.to) \in Nat /\ slot(k.slot) \in Nat
        BY <1>2, <4>3, SMTT(30)
      <4> HIDE DEF step, slot
      <4> QED BY <4>2, <4>3, <4>4
    <3> QED BY <3>1, <3>2
  <2>4. loaded' \subseteq [process : DOMAIN processes', name : STRING]
    <3>1. loaded \subseteq [process : DOMAIN processes, name : STRING]
      BY DEF ProcessesInvariant, TypeOK
    <3> QED BY <3>1
  <2> QED BY <1>8, <1>9, <1>10, <2>1, <2>2, <2>3, <2>4 DEF TypeOK
<1>12. \A q \in DOMAIN processes' : VersionsOf(q)' # {}
  BY <1>10 DEF ProcessesInvariant, NoInconsistency, VersionsOf
<1>13. ASSUME NEW w \in DOMAIN versions'
       PROVE  versions'[w].process \in DOMAIN processes' /\ versions'[w].start \in StepsOf(w)'
  <2>1. CASE w = v
    BY <1>9, <1>10, <2>1 DEF StepsOf, IndicesFit
  <2>2. CASE w \in DOMAIN versions
    <3>1. /\ versions[w].process \in DOMAIN processes
          /\ versions[w].start \in DOMAIN steps
          /\ steps[versions[w].start].process = w
      BY <2>2 DEF ProcessesInvariant, NoInconsistency, StepsOf
    <3>2. versions'[w] = versions[w]
      BY <1>10, <2>2
    <3> QED BY <1>9, <3>1, <3>2 DEF StepsOf
  <2> QED BY <1>10, <2>1, <2>2
<1>14. ASSUME NEW g \in stepSlots'
       PROVE  g.step \in DOMAIN steps' /\ g.slot \in SlotsOf(steps[g.step].process)'
  <2>1. CASE g \in stepSlots
    <3>1. /\ g.step \in DOMAIN steps /\ g.slot \in DOMAIN slots
          /\ slots[g.slot].process = steps[g.step].process
      BY <2>1 DEF ProcessesInvariant, NoInconsistency, SlotsOf
    <3> QED BY <1>8, <1>9, <3>1 DEF SlotsOf
  <2>2. CASE g \notin stepSlots
    <3>1. PICK i \in DOMAIN d.steps : \E s \in Range(d.steps[i].slots) :
              g = [step |-> step(i), slot |-> slot(s.slot), permission |-> s.permission]
      BY <2>2 DEF Insert
    <3>2. PICK s \in Range(d.steps[i].slots) :
              g = [step |-> step(i), slot |-> slot(s.slot), permission |-> s.permission]
      BY <3>1
    <3>3. s.slot \in DOMAIN d.slots
      BY DEF IndicesFit
    <3> QED BY <1>8, <1>9, <3>2, <3>3 DEF SlotsOf
  <2> QED BY <2>1, <2>2
<1>15. ASSUME NEW l \in links'
       PROVE  /\ l.from \in DOMAIN steps'
              /\ l.to \in StepsOf(steps[l.from].process)'
              /\ l.slot \in SlotsOf(steps[l.from].process)'
  <2>1. CASE l \in links
    <3>1. /\ l.from \in DOMAIN steps /\ l.to \in DOMAIN steps /\ l.slot \in DOMAIN slots
          /\ steps[l.to].process = steps[l.from].process
          /\ slots[l.slot].process = steps[l.from].process
      BY <2>1 DEF ProcessesInvariant, NoInconsistency, SlotsOf, StepsOf
    <3> QED BY <1>8, <1>9, <3>1 DEF SlotsOf, StepsOf
  <2>2. CASE l \notin links
    <3>1. PICK i \in DOMAIN d.steps : \E k \in Range(d.steps[i].links) :
              l = [from |-> step(i), to |-> step(k.to), slot |-> slot(k.slot),
                   name |-> k.name]
      BY <2>2 DEF Insert
    <3>2. PICK k \in Range(d.steps[i].links) :
              l = [from |-> step(i), to |-> step(k.to), slot |-> slot(k.slot),
                   name |-> k.name]
      BY <3>1
    <3>3. k.to \in DOMAIN d.steps /\ k.slot \in DOMAIN d.slots
      BY DEF IndicesFit
    <3> QED BY <1>8, <1>9, <3>2, <3>3 DEF SlotsOf, StepsOf
  <2> QED BY <2>1, <2>2
<1> QED BY <1>11, <1>12, <1>13, <1>14, <1>15 DEF ProcessesInvariant, NoInconsistency

-----------------------------------------------------------------------------
(***************************************************************************)
(* The invariant.                                                          *)
(***************************************************************************)
LEMMA InitInvariant == Init => ProcessesInvariant
<1> SUFFICES ASSUME Init PROVE ProcessesInvariant
  OBVIOUS
<1>1. \A Row : << >> \in Seq(Row)
  OBVIOUS
<1>2. /\ processes \in Seq(STRING)
      /\ versions \in Seq([process : Nat, start : Nat])
      /\ slots \in Seq([process : Nat, name : STRING, autofill : BOOLEAN])
      /\ steps \in Seq([process : Nat, name : STRING])
  BY <1>1, Zenon DEF Init
<1>3. /\ slotRoles = {} /\ stepSlots = {} /\ links = {} /\ loaded = {}
      /\ DOMAIN processes = {} /\ DOMAIN versions = {}
  BY DEF Init
<1>4. TypeOK
  BY <1>2, <1>3 DEF TypeOK
<1>5. NoInconsistency
  BY <1>3 DEF NoInconsistency
<1> QED BY <1>4, <1>5 DEF ProcessesInvariant

\* The tables stay as they are, and so does what NoInconsistency says.
LEMMA SameTables ==
    ASSUME ProcessesInvariant, UNCHANGED <<processes, tables>>,
           loaded' \in SUBSET [process : DOMAIN processes, name : STRING]
    PROVE  ProcessesInvariant'
<1>1. UNCHANGED <<processes, versions, slots, slotRoles, steps, stepSlots, links>>
  BY DEF tables
<1>2. TypeOK'
  BY <1>1 DEF ProcessesInvariant, TypeOK
<1>3. NoInconsistency'
  BY <1>1 DEF ProcessesInvariant, NoInconsistency, VersionsOf, StepsOf, SlotsOf
<1> QED BY <1>2, <1>3 DEF ProcessesInvariant

LEMMA StoreVersionPreserves ==
    ASSUME ProcessesInvariant, NEW d \in AskedNow, Validate(d) = Valid,
           NEW p \in Nat, NEW named \in Seq(STRING),
           DOMAIN named = DOMAIN processes \cup {p},
           loaded' \subseteq loaded, StoreVersion(p, d, named)
    PROVE  ProcessesInvariant'
<1>1. IsDescription(d) /\ IndicesFit(d)
  BY AskedIsDescription, ValidIndicesFit
<1>2. CASE Storable(d) /\ processes' = named /\ Insert(p, d)
  BY <1>1, <1>2, InsertPreserves
<1>3. CASE UNCHANGED <<processes, tables>>
  <2>1. loaded' \in SUBSET [process : DOMAIN processes, name : STRING]
    BY DEF ProcessesInvariant, TypeOK
  <2> QED BY <1>3, <2>1, SameTables
<1> QED BY <1>2, <1>3 DEF StoreVersion

LEMMA CreateProcessPreserves ==
    ASSUME ProcessesInvariant, CreateProcess
    PROVE  ProcessesInvariant'
<1>1. /\ processes \in Seq(STRING) /\ Len(processes) \in Nat
      /\ loaded' = loaded
      /\ loaded' \in SUBSET [process : DOMAIN processes, name : STRING]
  BY DEF ProcessesInvariant, TypeOK, CreateProcess
<1>2. PICK d \in AskedNow :
          \/ UNCHANGED <<processes, tables>>
          \/ /\ Validate(d) = Valid
             /\ StoreVersion(Len(processes) + 1, d, Append(processes, d.name))
  BY DEF CreateProcess
<1>3. CASE UNCHANGED <<processes, tables>>
  BY <1>1, <1>3, SameTables
<1>4. CASE /\ Validate(d) = Valid
           /\ StoreVersion(Len(processes) + 1, d, Append(processes, d.name))
  <2> DEFINE p == Len(processes) + 1
             named == Append(processes, d.name)
  <2>1. d.name \in STRING
    BY AskedIsDescription DEF IsDescription
  <2>2. /\ p \in Nat /\ named \in Seq(STRING)
        /\ DOMAIN named = DOMAIN processes \cup {p}
    BY <1>1, <2>1
  <2> HIDE DEF p, named
  <2>3. Validate(d) = Valid /\ StoreVersion(p, d, named)
    BY <1>4 DEF p, named
  <2> QED BY <1>1, <2>2, <2>3, StoreVersionPreserves
<1> QED BY <1>2, <1>3, <1>4

LEMMA CreateVersionPreserves ==
    ASSUME ProcessesInvariant, CreateVersion
    PROVE  ProcessesInvariant'
<1>1. PICK l \in loaded, d \in AskedNow :
          CreateVersionIn(l.process, l.name, d) /\ loaded' = loaded \ {l}
  BY DEF CreateVersion
<1>2. /\ processes \in Seq(STRING)
      /\ l.process \in DOMAIN processes
      /\ loaded' \in SUBSET [process : DOMAIN processes, name : STRING]
  BY <1>1 DEF ProcessesInvariant, TypeOK
<1>3. CASE UNCHANGED <<processes, tables>>
  BY <1>2, <1>3, SameTables
<1>4. CASE Validate(d) = Valid
  <2> DEFINE named == IF d.name = l.name THEN processes
                      ELSE [processes EXCEPT ![l.process] = d.name]
  <2>1. d.name \in STRING
    BY AskedIsDescription DEF IsDescription
  <2>a. named \in Seq(STRING) /\ DOMAIN named = DOMAIN processes
    <3>1. CASE d.name = l.name
      BY <1>2, <3>1
    <3>2. CASE d.name # l.name
      BY <1>2, <2>1, <3>2
    <3> QED BY <3>1, <3>2
  <2>2. /\ l.process \in Nat /\ named \in Seq(STRING)
        /\ DOMAIN named = DOMAIN processes \cup {l.process}
    <3> HIDE DEF named
    <3>1. l.process \in Nat
      BY <1>2
    <3> QED BY <1>2, <2>a, <3>1
  <2>3. StoreVersion(l.process, d, named)
    BY <1>1, <1>4 DEF CreateVersionIn
  <2> HIDE DEF named
  <2> QED BY <1>1, <1>4, <2>2, <2>3, StoreVersionPreserves
<1> QED BY <1>1, <1>3, <1>4 DEF CreateVersionIn

\* Changing names and limits leaves every id where it is.
LEMMA RenamePreserves ==
    ASSUME ProcessesInvariant, TypeOK',
           DOMAIN processes' = DOMAIN processes, UNCHANGED versions,
           DOMAIN slots' = DOMAIN slots, DOMAIN steps' = DOMAIN steps,
           \A s \in DOMAIN slots : slots'[s].process = slots[s].process,
           \A s \in DOMAIN steps : steps'[s].process = steps[s].process,
           UNCHANGED stepSlots,
           \A l \in links' : \E k \in links :
               l.from = k.from /\ l.to = k.to /\ l.slot = k.slot
    PROVE  ProcessesInvariant'
<1>1. \A v : /\ VersionsOf(v)' = VersionsOf(v) /\ SlotsOf(v)' = SlotsOf(v)
             /\ StepsOf(v)' = StepsOf(v)
  BY DEF VersionsOf, SlotsOf, StepsOf
<1>2. NoInconsistency
  BY DEF ProcessesInvariant
<1>3. \A p \in DOMAIN processes' : VersionsOf(p)' # {}
  BY <1>1, <1>2 DEF NoInconsistency
<1>4. \A v \in DOMAIN versions' :
          versions'[v].process \in DOMAIN processes' /\ versions'[v].start \in StepsOf(v)'
  BY <1>1, <1>2 DEF NoInconsistency
<1>5. ASSUME NEW g \in stepSlots'
      PROVE  g.step \in DOMAIN steps' /\ g.slot \in SlotsOf(steps[g.step].process)'
  <2>1. g.step \in DOMAIN steps /\ g.slot \in SlotsOf(steps[g.step].process)
    BY <1>2 DEF NoInconsistency
  <2> QED BY <2>1 DEF SlotsOf
<1>6. ASSUME NEW l \in links'
      PROVE  /\ l.from \in DOMAIN steps'
             /\ l.to \in StepsOf(steps[l.from].process)'
             /\ l.slot \in SlotsOf(steps[l.from].process)'
  <2>1. PICK k \in links : l.from = k.from /\ l.to = k.to /\ l.slot = k.slot
    OBVIOUS
  <2>2. /\ k.from \in DOMAIN steps
        /\ k.to \in StepsOf(steps[k.from].process)
        /\ k.slot \in SlotsOf(steps[k.from].process)
    BY <1>2 DEF NoInconsistency
  <2> QED BY <2>1, <2>2 DEF SlotsOf, StepsOf
<1> QED BY <1>3, <1>4, <1>5, <1>6 DEF ProcessesInvariant, NoInconsistency

LEMMA LoadProcessPreserves ==
    ASSUME ProcessesInvariant, LoadProcess
    PROVE  ProcessesInvariant'
<1>1. PICK p \in DOMAIN processes :
          loaded' = loaded \cup {[process |-> p, name |-> processes[p]]}
  BY DEF LoadProcess
<1>2. processes[p] \in STRING
  BY DEF ProcessesInvariant, TypeOK
<1>3. loaded' \in SUBSET [process : DOMAIN processes, name : STRING]
  BY <1>1, <1>2 DEF ProcessesInvariant, TypeOK
<1>4. UNCHANGED <<processes, tables>>
  BY DEF LoadProcess
<1> QED BY <1>3, <1>4, SameTables

LEMMA RefusePreserves ==
    ASSUME ProcessesInvariant, NEW reason, Refuse(reason), UNCHANGED loaded
    PROVE  ProcessesInvariant'
<1>1. loaded' \in SUBSET [process : DOMAIN processes, name : STRING]
  BY DEF ProcessesInvariant, TypeOK
<1> QED BY <1>1, SameTables DEF Refuse

LEMMA UpdateProcessPreserves ==
    ASSUME ProcessesInvariant, UpdateProcess
    PROVE  ProcessesInvariant'
<1>1. PICK p \in DOMAIN processes, name \in NewNames :
          \/ Refuse(Database)
          \/ processes' = [processes EXCEPT ![p] = name] /\ UNCHANGED tables
  BY DEF UpdateProcess
<1>2. UNCHANGED loaded
  BY DEF UpdateProcess
<1>3. CASE Refuse(Database)
  BY <1>2, <1>3, RefusePreserves
<1>4. CASE processes' = [processes EXCEPT ![p] = name] /\ UNCHANGED tables
  <2>1. name \in STRING /\ processes \in Seq(STRING)
    BY NamesAssumption DEF ProcessesInvariant, TypeOK
  <2>2. processes' \in Seq(STRING) /\ DOMAIN processes' = DOMAIN processes
    BY <1>4, <2>1
  <2>3. TypeOK'
    BY <1>2, <1>4, <2>2 DEF ProcessesInvariant, TypeOK, tables
  <2> QED BY <1>4, <2>2, <2>3, RenamePreserves DEF tables
<1> QED BY <1>1, <1>3, <1>4

\* A process has versions as long as it is there: none is ever deleted.
LEMMA DeleteProcessPreserves ==
    ASSUME ProcessesInvariant, DeleteProcess
    PROVE  ProcessesInvariant'
<1>1. Refuse(Database) /\ UNCHANGED loaded
  BY DEF DeleteProcess, ProcessesInvariant, NoInconsistency
<1> QED BY <1>1, RefusePreserves

\* Replacing the name of one row.
LEMMA RowRenamed ==
    ASSUME NEW Row, NEW rows \in Seq(Row), NEW s \in DOMAIN rows, NEW row \in Row
    PROVE  /\ [rows EXCEPT ![s] = row] \in Seq(Row)
           /\ DOMAIN [rows EXCEPT ![s] = row] = DOMAIN rows
BY SMT

LEMMA ModifySlotPreserves ==
    ASSUME ProcessesInvariant, NEW v, ModifySlot(v)
    PROVE  ProcessesInvariant'
<1>1. UNCHANGED loaded
  BY DEF ModifySlot
<1>2. CASE \E reason : Refuse(reason)
  BY <1>1, <1>2, RefusePreserves
<1>3. CASE \E s \in DOMAIN slots :
              \E name \in NewNames \cup {slots[s].name} :
              \E roles \in RoleLists \cup {RolesOf(s)} :
                /\ SetSlot(s, name, roles)
                /\ UNCHANGED <<processes, versions, steps, stepSlots, links, asked>>
  <2>1. PICK s \in DOMAIN slots :
              \E name \in NewNames \cup {slots[s].name} :
              \E roles \in RoleLists \cup {RolesOf(s)} :
                /\ SetSlot(s, name, roles)
                /\ UNCHANGED <<processes, versions, steps, stepSlots, links, asked>>
    BY <1>3
  <2>2. PICK name \in NewNames \cup {slots[s].name},
             roles \in RoleLists \cup {RolesOf(s)} :
                /\ SetSlot(s, name, roles)
                /\ UNCHANGED <<processes, versions, steps, stepSlots, links, asked>>
    BY <2>1
  <2> DEFINE SlotRow == [process : Nat, name : STRING, autofill : BOOLEAN]
             row == [slots[s] EXCEPT !.name = name]
  <2>3. slots \in Seq(SlotRow)
    BY DEF ProcessesInvariant, TypeOK
  <2>4. slots[s] \in SlotRow /\ s \in Nat
    <3> HIDE DEF SlotRow
    <3> QED BY <2>3
  <2>5. name \in STRING
    BY <2>4, NamesAssumption
  <2>6. row \in SlotRow /\ row.process = slots[s].process
    BY <2>4, <2>5
  <2>7. slots' = [slots EXCEPT ![s] = row]
    BY <2>2 DEF SetSlot
  <2>8. /\ slots' \in Seq(SlotRow) /\ DOMAIN slots' = DOMAIN slots
        /\ \A t \in DOMAIN slots : slots'[t].process = slots[t].process
    <3> HIDE DEF SlotRow, row
    <3>1. slots' \in Seq(SlotRow) /\ DOMAIN slots' = DOMAIN slots
      BY <2>3, <2>6, <2>7, RowRenamed
    <3>2. \A t \in DOMAIN slots : slots'[t] = IF t = s THEN row ELSE slots[t]
      BY <2>7
    <3> QED BY <2>6, <3>1, <3>2
  <2>9. slotRoles' \subseteq [slot : Nat, role : STRING]
    BY <2>2, <2>4, RolesAssumption DEF SetSlot, ProcessesInvariant, TypeOK
  <2>10. TypeOK'
    BY <1>1, <2>2, <2>8, <2>9 DEF ProcessesInvariant, TypeOK
  <2> QED BY <2>2, <2>8, <2>10, RenamePreserves
<1> QED BY <1>2, <1>3 DEF ModifySlot

LEMMA ModifyStepPreserves ==
    ASSUME ProcessesInvariant, NEW v, ModifyStep(v)
    PROVE  ProcessesInvariant'
<1>1. UNCHANGED loaded
  BY DEF ModifyStep
<1>2. CASE \E reason : Refuse(reason)
  BY <1>1, <1>2, RefusePreserves
<1>3. CASE \E s \in DOMAIN steps, name \in NewNames :
              /\ steps' = [steps EXCEPT ![s].name = name]
              /\ UNCHANGED <<processes, versions, slots, slotRoles, stepSlots, links, asked>>
  <2>1. PICK s \in DOMAIN steps, name \in NewNames :
              /\ steps' = [steps EXCEPT ![s].name = name]
              /\ UNCHANGED <<processes, versions, slots, slotRoles, stepSlots, links, asked>>
    BY <1>3
  <2> DEFINE StepRow == [process : Nat, name : STRING]
             row == [steps[s] EXCEPT !.name = name]
  <2>2. steps \in Seq(StepRow)
    BY DEF ProcessesInvariant, TypeOK
  <2>3. steps[s] \in StepRow
    <3> HIDE DEF StepRow
    <3> QED BY <2>2
  <2>4. row \in StepRow /\ row.process = steps[s].process
    BY <2>3, NamesAssumption
  <2>5. steps' = [steps EXCEPT ![s] = row]
    BY <2>1
  <2>6. /\ steps' \in Seq(StepRow) /\ DOMAIN steps' = DOMAIN steps
        /\ \A t \in DOMAIN steps : steps'[t].process = steps[t].process
    <3> HIDE DEF StepRow, row
    <3>1. steps' \in Seq(StepRow) /\ DOMAIN steps' = DOMAIN steps
      BY <2>2, <2>4, <2>5, RowRenamed
    <3>2. \A t \in DOMAIN steps : steps'[t] = IF t = s THEN row ELSE steps[t]
      BY <2>5
    <3> QED BY <2>4, <3>1, <3>2
  <2>7. TypeOK'
    BY <1>1, <2>1, <2>6 DEF ProcessesInvariant, TypeOK
  <2> QED BY <2>1, <2>6, <2>7, RenamePreserves
<1> QED BY <1>2, <1>3 DEF ModifyStep

LEMMA ModifyLinkPreserves ==
    ASSUME ProcessesInvariant, NEW v, ModifyLink(v)
    PROVE  ProcessesInvariant'
<1>1. UNCHANGED loaded
  BY DEF ModifyLink
<1>2. CASE \E reason : Refuse(reason)
  BY <1>1, <1>2, RefusePreserves
<1>3. CASE \E l \in links, name \in NewNames : SetLink(l, name)
  <2>1. PICK l \in links, name \in NewNames : SetLink(l, name)
    BY <1>3
  <2>2. name \in STRING /\ links \subseteq [from : Nat, to : Nat, slot : Nat, name : STRING]
    BY NamesAssumption DEF ProcessesInvariant, TypeOK
  <2>3. [l EXCEPT !.name = name] \in [from : Nat, to : Nat, slot : Nat, name : STRING]
    BY <2>2
  <2>4. TypeOK'
    BY <1>1, <2>1, <2>2, <2>3 DEF ProcessesInvariant, TypeOK, SetLink
  <2>5. \A k \in links' : \E j \in links :
            k.from = j.from /\ k.to = j.to /\ k.slot = j.slot
    <3>1. LET k == [l EXCEPT !.name = name]
          IN  k.from = l.from /\ k.to = l.to /\ k.slot = l.slot
      BY <2>2
    <3> QED BY <2>1, <3>1 DEF SetLink
  <2> QED BY <2>1, <2>4, <2>5, RenamePreserves DEF SetLink
<1> QED BY <1>2, <1>3 DEF ModifyLink

LEMMA StepPreserves == ProcessesInvariant /\ [Next]_vars => ProcessesInvariant'
<1> SUFFICES ASSUME ProcessesInvariant, [Next]_vars PROVE ProcessesInvariant'
  OBVIOUS
<1>1. CASE UNCHANGED vars
  <2>1. loaded' \in SUBSET [process : DOMAIN processes, name : STRING]
    BY <1>1 DEF vars, ProcessesInvariant, TypeOK
  <2> QED BY <1>1, <2>1, SameTables DEF vars
<1>2. ASSUME NEW v, ModifySlot(v) \/ ModifyStep(v) \/ ModifyLink(v)
      PROVE  ProcessesInvariant'
  BY <1>2, ModifySlotPreserves, ModifyStepPreserves, ModifyLinkPreserves
<1>3. ASSUME NEW p, NEW v, VersionNotFound(p, v) PROVE ProcessesInvariant'
  BY <1>3, RefusePreserves DEF VersionNotFound
<1>4. CASE ModifySlotInProcess \/ ModifyStepInProcess \/ ModifyLinkInProcess
  BY <1>2, <1>4 DEF ModifySlotInProcess, ModifyStepInProcess, ModifyLinkInProcess
<1>5. CASE ModifySlotInVersion \/ ModifyStepInVersion \/ ModifyLinkInVersion
  BY <1>2, <1>3, <1>5
  DEF ModifySlotInVersion, ModifyStepInVersion, ModifyLinkInVersion
<1> QED BY <1>1, <1>4, <1>5, CreateProcessPreserves, LoadProcessPreserves,
           CreateVersionPreserves, UpdateProcessPreserves, DeleteProcessPreserves DEF Next

LEMMA Invariance == Spec => []ProcessesInvariant
BY InitInvariant, StepPreserves, PTL DEF Spec

-----------------------------------------------------------------------------
(***************************************************************************)
(* Results.                                                                *)
(***************************************************************************)
\* The columns hold what they should, for any descriptions.
THEOREM ProcessesTypes == Spec => []TypeOK
<1>1. ProcessesInvariant => TypeOK
  BY DEF ProcessesInvariant
<1> QED BY <1>1, Invariance, PTL

\* Whatever descriptions are asked for, in whatever order versions are made,
\* refused and renamed: every process has a version, and the rows of a
\* version name only rows of the same version.
THEOREM ProcessesConsistent == Spec => []NoInconsistency
<1>1. ProcessesInvariant => NoInconsistency
  BY DEF ProcessesInvariant
<1> QED BY <1>1, Invariance, PTL

\* DELETE /processes/:id never deletes anything: in every state that the
\* invariant allows, the request is refused.
THEOREM DeleteIsRefused == ProcessesInvariant /\ DeleteProcess => Refuse(Database)
BY DEF DeleteProcess, ProcessesInvariant, NoInconsistency


-----------------------------------------------------------------------------
(***************************************************************************)
(* What a process is called once a version of it is stored.                *)
(***************************************************************************)
LEMMA StoresOne ==
    ASSUME ProcessesInvariant, NEW p, NEW d, NEW named, StoreVersion(p, d, named),
           Len(versions') > Len(versions)
    PROVE  /\ Len(versions') = Len(versions) + 1 /\ processes' = named
           /\ versions'[Len(versions')].process = p
           /\ asked' = Append(asked, d)
<1> DEFINE row == [process |-> p, start |-> StartOf(d)]
<1>1. Len(versions) \in Nat
  <2> DEFINE Rows == [process : Nat, start : Nat]
  <2>1. versions \in Seq(Rows)
    BY DEF ProcessesInvariant, TypeOK
  <2> HIDE DEF Rows
  <2> QED BY <2>1
<1>2. versions' # versions
  BY <1>1
<1>3. Insert(p, d) /\ processes' = named
  BY <1>2 DEF StoreVersion, tables
<1>4. versions' = Append(versions, row) /\ asked' = Append(asked, d)
  BY <1>3 DEF Insert
<1>5. row.process = p
  OBVIOUS
<1> HIDE DEF row
<1>6. versions' = versions \o <<row>>
  BY <1>4
<1>7. Len(versions') = Len(versions) + 1 /\ versions'[Len(versions) + 1] = row
  <2>1. versions \in Seq(Range(versions) \cup {row})
    <3> DEFINE Rows == [process : Nat, start : Nat]
    <3>1. versions \in Seq(Rows)
      BY DEF ProcessesInvariant, TypeOK
    <3> HIDE DEF Rows
    <3> QED BY <3>1 DEF Range
  <2>2. row \in Range(versions) \cup {row}
    OBVIOUS
  <2> DEFINE Held == Range(versions) \cup {row}
  <2> HIDE DEF Held
  <2>3. versions \in Seq(Held) /\ row \in Held
    BY <2>1, <2>2 DEF Held
  <2> QED BY <1>4, <2>3, AppendProperties
<1> QED BY <1>3, <1>4, <1>5, <1>7


-----------------------------------------------------------------------------
(***************************************************************************)
(* The order in which rows are read.                                       *)
(***************************************************************************)
IsOrder(R, S) ==
    /\ \A a, b \in S : <<a, b>> \in R \/ <<b, a>> \in R
    /\ \A a, b \in S : <<a, b>> \in R /\ <<b, a>> \in R => a = b
    /\ \A a, b, c \in S : <<a, b>> \in R /\ <<b, c>> \in R => <<a, c>> \in R

UpTo(R, S, b) == {a \in S : <<a, b>> \in R}

\* In an ordered finite set, as many members as there are numbers up to its
\* size stand at those places, each at one.
LEMMA PlacesAre ==
    ASSUME NEW S, IsFiniteSet(S), NEW R, IsOrder(R, S)
    PROVE  /\ Cardinality(S) \in Nat
           /\ \A b \in S : /\ IsFiniteSet(UpTo(R, S, b))
                           /\ Cardinality(UpTo(R, S, b)) \in 1..Cardinality(S)
           /\ \A a, b \in S : Cardinality(UpTo(R, S, a)) = Cardinality(UpTo(R, S, b)) => a = b
           /\ \A k \in 1..Cardinality(S) : \E b \in S : Cardinality(UpTo(R, S, b)) = k
<1> DEFINE C == Cardinality(S)
           place == [b \in S |-> Cardinality(UpTo(R, S, b))]
<1>1. C \in Nat
  BY FS_CardinalityType
<1>2. ASSUME NEW b \in S
      PROVE  IsFiniteSet(UpTo(R, S, b)) /\ Cardinality(UpTo(R, S, b)) \in 1..C
  <2>1. UpTo(R, S, b) \in SUBSET S /\ b \in UpTo(R, S, b)
    BY DEF UpTo, IsOrder
  <2>2. IsFiniteSet(UpTo(R, S, b)) /\ Cardinality(UpTo(R, S, b)) <= C
    BY <2>1, FS_Subset
  <2>3. Cardinality(UpTo(R, S, b)) \in Nat /\ Cardinality(UpTo(R, S, b)) # 0
    BY <2>1, <2>2, FS_CardinalityType, FS_EmptySet
  <2> QED BY <1>1, <2>2, <2>3
<1>3. ASSUME NEW a \in S, NEW b \in S, a # b, <<a, b>> \in R
      PROVE  Cardinality(UpTo(R, S, a)) # Cardinality(UpTo(R, S, b))
  <2>1. /\ UpTo(R, S, a) \in SUBSET UpTo(R, S, b)
        /\ b \in UpTo(R, S, b) /\ b \notin UpTo(R, S, a)
    <3>1. \A x \in S : <<x, a>> \in R => <<x, b>> \in R
      BY <1>3 DEF IsOrder
    <3>2. <<b, b>> \in R /\ <<b, a>> \notin R
      BY <1>3 DEF IsOrder
    <3> QED BY <3>1, <3>2 DEF UpTo
  <2>2. IsFiniteSet(UpTo(R, S, b))
    BY <1>2
  <2>3. Cardinality(UpTo(R, S, b)) = Cardinality(UpTo(R, S, a)) => UpTo(R, S, b) = UpTo(R, S, a)
    BY <2>1, <2>2, FS_Subset
  <2> QED BY <2>1, <2>3
<1>4. ASSUME NEW a \in S, NEW b \in S, Cardinality(UpTo(R, S, a)) = Cardinality(UpTo(R, S, b))
      PROVE  a = b
  <2>1. <<a, b>> \in R \/ <<b, a>> \in R
    BY DEF IsOrder
  <2> QED BY <1>3, <1>4, <2>1
<1>5. place \in Injection(S, 1..C)
  <2>1. place \in [S -> 1..C]
    BY <1>2
  <2>2. \A a, b \in S : place[a] = place[b] => a = b
    BY <1>4
  <2> HIDE DEF place
  <2> QED BY <2>1, <2>2 DEF Injection, IsInjective
<1>6. IsFiniteSet(1..C) /\ Cardinality(1..C) = C
  BY <1>1, FS_Interval
<1>7. place \in Surjection(S, 1..C)
  <2> HIDE DEF place
  <2> QED BY <1>5, <1>6, FS_Injection DEF C
<1>8. ASSUME NEW k \in 1..C PROVE \E b \in S : Cardinality(UpTo(R, S, b)) = k
  <2>1. \E b \in S : place[b] = k
    <3> HIDE DEF place
    <3> QED BY <1>7 DEF Surjection
  <2> QED BY <2>1
<1> QED BY <1>1, <1>2, <1>4, <1>8

\* A list in order has every member of the set at its place.
LEMMA InOrderIs ==
    ASSUME NEW S, IsFiniteSet(S), NEW R, IsOrder(R, S), NEW s, s = InOrder(S, R)
    PROVE  /\ s \in [1..Cardinality(S) -> S] /\ DOMAIN s = 1..Cardinality(S)
           /\ \A k \in 1..Cardinality(S) : Cardinality(UpTo(R, S, s[k])) = k
           /\ \A b \in S : s[Cardinality(UpTo(R, S, b))] = b
           /\ \A b \in S : \E k \in DOMAIN s : s[k] = b
<1>1. s = [k \in 1..Cardinality(S) |-> CHOOSE b \in S : Cardinality(UpTo(R, S, b)) = k]
  BY DEF InOrder, UpTo
<1>2. \A k \in 1..Cardinality(S) : s[k] \in S /\ Cardinality(UpTo(R, S, s[k])) = k
  <2> SUFFICES ASSUME NEW k \in 1..Cardinality(S)
               PROVE  s[k] \in S /\ Cardinality(UpTo(R, S, s[k])) = k
    OBVIOUS
  <2>1. \E b \in S : Cardinality(UpTo(R, S, b)) = k
    BY PlacesAre
  <2>2. s[k] = CHOOSE b \in S : Cardinality(UpTo(R, S, b)) = k
    BY <1>1
  <2> QED BY <2>1, <2>2
<1>3. s \in [1..Cardinality(S) -> S] /\ DOMAIN s = 1..Cardinality(S)
  BY <1>1, <1>2
<1>4. ASSUME NEW b \in S
      PROVE  /\ Cardinality(UpTo(R, S, b)) \in DOMAIN s
             /\ s[Cardinality(UpTo(R, S, b))] = b
  <2>1. Cardinality(UpTo(R, S, b)) \in 1..Cardinality(S)
    BY PlacesAre
  <2>2. /\ s[Cardinality(UpTo(R, S, b))] \in S
        /\ Cardinality(UpTo(R, S, s[Cardinality(UpTo(R, S, b))])) = Cardinality(UpTo(R, S, b))
    BY <1>2, <2>1
  <2> QED BY <1>3, <2>1, <2>2, PlacesAre
<1> QED BY <1>2, <1>3, <1>4

\* Ids that follow each other.
LEMMA PositionsAre ==
    ASSUME NEW a \in Nat, NEW n \in Nat, NEW ids, ids = (a + 1)..(a + n)
    PROVE  /\ IsFiniteSet(ids) /\ Cardinality(ids) = n
           /\ \A i \in 1..n : Position(ids, a + i) = i
           /\ InOrder(ids, ById(ids)) = [i \in 1..n |-> a + i]
<1>1. IsFiniteSet(ids) /\ Cardinality(ids) = n
  BY FS_Interval
<1>2. ASSUME NEW i \in 1..n PROVE Position(ids, a + i) = i
  <2>1. {other \in ids : other <= a + i} = (a + 1)..(a + i)
    OBVIOUS
  <2>2. Cardinality((a + 1)..(a + i)) = i
    BY FS_Interval
  <2> QED BY <2>1, <2>2 DEF Position
<1>3. \A x, y \in ids : <<x, y>> \in ById(ids) <=> x <= y
  BY DEF ById
<1>4. IsOrder(ById(ids), ids)
  BY <1>3 DEF IsOrder
<1>5. \A i \in 1..n : a + i \in ids /\ Cardinality(UpTo(ById(ids), ids, a + i)) = i
  <2> SUFFICES ASSUME NEW i \in 1..n
               PROVE  a + i \in ids /\ Cardinality(UpTo(ById(ids), ids, a + i)) = i
    OBVIOUS
  <2>1. a + i \in ids
    OBVIOUS
  <2>2. UpTo(ById(ids), ids, a + i) = {other \in ids : other <= a + i}
    BY <1>3, <2>1 DEF UpTo
  <2> QED BY <1>2, <2>1, <2>2 DEF Position
<1> DEFINE s == InOrder(ids, ById(ids))
<1>6. /\ s \in [1..n -> ids]
      /\ \A b \in ids : s[Cardinality(UpTo(ById(ids), ids, b))] = b
  <2> HIDE DEF s
  <2> QED BY <1>1, <1>4, InOrderIs, SMTT(30) DEF s
<1> HIDE DEF s
<1>7. \A i \in 1..n : s[i] = a + i
  BY <1>5, <1>6
<1> QED BY <1>1, <1>2, <1>6, <1>7 DEF s


-----------------------------------------------------------------------------
(***************************************************************************)
(* Where the rows of a version are: its slots follow each other from one   *)
(* id on and its steps from another, which is what turns indices into ids. *)
(***************************************************************************)
Fitting == {d \in FirstAsked \cup LaterAsked : IsDescription(d) /\ IndicesFit(d)}
Ends(L) == {[from |-> l.from, to |-> l.to, slot |-> l.slot] : l \in L}

GrantRows(d, i, a, b) ==
    {[step |-> b + i, slot |-> a + s.slot, permission |-> s.permission] :
        s \in Range(d.steps[i].slots)}
LinkEnds(d, i, a, b) ==
    {[from |-> b + i, to |-> b + l.to, slot |-> a + l.slot] :
        l \in Range(d.steps[i].links)}

LaidOut(v, a, b) ==
    /\ SlotsOf(v) = (a + 1)..(a + Len(asked[v].slots))
    /\ StepsOf(v) = (b + 1)..(b + Len(asked[v].steps))
    /\ versions[v].start = b + asked[v].start
    /\ \A i \in DOMAIN asked[v].slots : slots[a + i].autofill = asked[v].slots[i].autofill
    /\ \A i \in DOMAIN asked[v].steps :
        /\ GrantsOf(b + i) = GrantRows(asked[v], i, a, b)
        /\ Ends(LinksFrom(b + i)) = LinkEnds(asked[v], i, a, b)

\* One row for each pair of steps that is linked.
LinksDiffer == \A k, l \in links : k.from = l.from /\ k.to = l.to => k = l

LayoutSound ==
    /\ asked \in Seq(Fitting) /\ Len(asked) = Len(versions)
    /\ \A s \in DOMAIN slots : slots[s].process \in DOMAIN versions
    /\ \A s \in DOMAIN steps : steps[s].process \in DOMAIN versions
    /\ LinksDiffer
    /\ \A v \in DOMAIN versions : \E a, b \in Nat : LaidOut(v, a, b)

LEMMA AskedFor ==
    ASSUME ProcessesInvariant, LayoutSound
    PROVE  /\ Len(versions) \in Nat /\ DOMAIN versions = 1..Len(versions)
           /\ DOMAIN asked = DOMAIN versions
           /\ \A v \in DOMAIN versions : asked[v] \in Fitting
<1>1. Len(versions) \in Nat /\ DOMAIN versions = 1..Len(versions)
  <2> DEFINE Rows == [process : Nat, start : Nat]
  <2>1. versions \in Seq(Rows)
    BY DEF ProcessesInvariant, TypeOK
  <2> HIDE DEF Rows
  <2> QED BY <2>1
<1>2. DOMAIN asked = 1..Len(asked) /\ \A v \in DOMAIN asked : asked[v] \in Fitting
  BY DEF LayoutSound
<1> QED BY <1>1, <1>2 DEF LayoutSound

LEMMA FittingIs ==
    ASSUME NEW d \in Fitting
    PROVE  /\ IsDescription(d) /\ IndicesFit(d)
           /\ Len(d.slots) \in Nat /\ DOMAIN d.slots = 1..Len(d.slots)
           /\ Len(d.steps) \in Nat /\ DOMAIN d.steps = 1..Len(d.steps)
BY DescriptionTypes DEF Fitting

\* Names and the roles that may fill a slot do not matter to it.
LEMMA LayoutStays ==
    ASSUME ProcessesInvariant, LayoutSound, UNCHANGED <<versions, asked, stepSlots>>,
           DOMAIN slots' = DOMAIN slots, DOMAIN steps' = DOMAIN steps,
           \A s \in DOMAIN slots : slots'[s].process = slots[s].process
                                   /\ slots'[s].autofill = slots[s].autofill,
           \A s \in DOMAIN steps : steps'[s].process = steps[s].process,
           LinksDiffer', \A i : Ends(LinksFrom(i))' = Ends(LinksFrom(i))
    PROVE  LayoutSound'
<1>1. \A v : SlotsOf(v)' = SlotsOf(v) /\ StepsOf(v)' = StepsOf(v)
  BY DEF SlotsOf, StepsOf
<1>2. \A i : GrantsOf(i)' = GrantsOf(i)
  BY DEF GrantsOf
<1>3. ASSUME NEW v \in DOMAIN versions, NEW a \in Nat, NEW b \in Nat, LaidOut(v, a, b)
      PROVE  LaidOut(v, a, b)'
  <2>1. ASSUME NEW i \in DOMAIN asked[v].slots
        PROVE  slots'[a + i].autofill = asked[v].slots[i].autofill
    <3> DEFINE n == Len(asked[v].slots)
    <3>1. asked[v] \in Fitting
      BY AskedFor
    <3>2. n \in Nat /\ i \in 1..n
      BY <3>1, FittingIs
    <3>3. SlotsOf(v) = (a + 1)..(a + n)
      BY <1>3 DEF LaidOut
    <3>4. SlotsOf(v) \subseteq DOMAIN slots
      BY DEF SlotsOf
    <3> HIDE DEF n
    <3>5. a + i \in DOMAIN slots
      BY <3>2, <3>3, <3>4
    <3>6. slots[a + i].autofill = asked[v].slots[i].autofill
      BY <1>3 DEF LaidOut
    <3> QED BY <3>5, <3>6
  <2> QED BY <1>1, <1>2, <1>3, <2>1 DEF LaidOut
<1>4. \A v \in DOMAIN versions' : \E a, b \in Nat : LaidOut(v, a, b)'
  BY <1>3 DEF LayoutSound
<1> QED BY <1>4 DEF LayoutSound

\* Rows of a new owner behind all others take nothing from the others.
OwnedBy(k, rows, S, after, n) ==
    /\ S \in Nat /\ n \in Nat /\ k \in Nat
    /\ DOMAIN rows = 1..S /\ DOMAIN after = 1..(S + n)
    /\ \A s \in 1..S : after[s] = rows[s] /\ rows[s].process \in 1..k
    /\ \A i \in 1..n : after[S + i].process = k + 1
LEMMA OwnersAre ==
    ASSUME NEW S, NEW n, NEW k, NEW rows, NEW after, OwnedBy(k, rows, S, after, n)
    PROVE  /\ \A s \in DOMAIN after : after[s].process \in 1..(k + 1)
           /\ \A w \in 1..k : {s \in DOMAIN after : after[s].process = w}
                               = {s \in DOMAIN rows : rows[s].process = w}
           /\ {s \in DOMAIN after : after[s].process = k + 1} = (S + 1)..(S + n)
<1> USE DEF OwnedBy
<1>1. ASSUME NEW s \in 1..(S + n), s \notin 1..S
      PROVE  s \in (S + 1)..(S + n) /\ after[s].process = k + 1
  <2>1. s - S \in 1..n /\ S + (s - S) = s /\ s \in (S + 1)..(S + n)
    BY <1>1
  <2>2. after[S + (s - S)].process = k + 1
    BY <2>1
  <2> QED BY <2>1, <2>2
<1>2. \A s \in 1..S : s \in 1..(S + n) /\ after[s].process # k + 1
                     /\ s \notin (S + 1)..(S + n) /\ after[s].process \in 1..(k + 1)
  OBVIOUS
<1>3. (S + 1)..(S + n) \subseteq 1..(S + n) /\ k + 1 \in 1..(k + 1) /\ k + 1 \notin 1..k
  OBVIOUS
<1>4. \A s \in (S + 1)..(S + n) : s \notin 1..S /\ s \in 1..(S + n)
  OBVIOUS
<1> QED BY <1>1, <1>2, <1>3, <1>4

\* A version that is added is laid out behind all others.
LEMMA LayoutAdds ==
    ASSUME ProcessesInvariant, LayoutSound, NEW d \in Fitting, Storable(d), NEW p \in Nat,
           Insert(p, d)
    PROVE  LayoutSound'
<1> DEFINE n == Len(d.slots)
           m == Len(d.steps)
<1>1. /\ IsDescription(d) /\ IndicesFit(d)
      /\ n \in Nat /\ DOMAIN d.slots = 1..n /\ m \in Nat /\ DOMAIN d.steps = 1..m
  BY FittingIs
<1>2. /\ Len(versions) \in Nat /\ DOMAIN versions = 1..Len(versions)
      /\ DOMAIN asked = DOMAIN versions
  BY AskedFor
<1>a. /\ Len(slots) \in Nat /\ DOMAIN slots = 1..Len(slots)
      /\ Len(steps) \in Nat /\ DOMAIN steps = 1..Len(steps)
  <2> DEFINE SlotRows == [process : Nat, name : STRING, autofill : BOOLEAN]
             StepRows == [process : Nat, name : STRING]
  <2>1. slots \in Seq(SlotRows) /\ steps \in Seq(StepRows)
    BY DEF ProcessesInvariant, TypeOK
  <2> HIDE DEF SlotRows, StepRows
  <2> QED BY <2>1
<1>b. \E v, S, T \in Nat : v = Len(versions) + 1 /\ S = Len(slots) /\ T = Len(steps)
  <2>1. Len(versions) + 1 \in Nat
    BY <1>2
  <2> WITNESS Len(versions) + 1 \in Nat, Len(slots) \in Nat, Len(steps) \in Nat
  <2> QED OBVIOUS
<1>c. PICK v, S, T \in Nat : v = Len(versions) + 1 /\ S = Len(slots) /\ T = Len(steps)
  BY <1>b
<1>3. /\ S \in Nat /\ DOMAIN slots = 1..S /\ T \in Nat /\ DOMAIN steps = 1..T
  BY <1>a, <1>c
<1>4. /\ DOMAIN versions' = 1..v /\ versions'[v].start = T + d.start
      /\ \A w \in DOMAIN versions : versions'[w] = versions[w]
  <2> DEFINE Rows == [process : Nat, start : Nat]
             row == [process |-> p, start |-> T + d.start]
  <2>1. versions' = Append(versions, row)
    BY <1>c DEF Insert, StartOf
  <2>2. versions \in Seq([process : Nat, start : Nat])
    BY DEF ProcessesInvariant, TypeOK
  <2>3. versions \in Seq(Rows) /\ row \in Rows
    BY <1>1, <1>3, <2>2, DescriptionTypes
  <2>4. row.start = T + d.start
    OBVIOUS
  <2> HIDE DEF Rows, row
  <2>5. /\ Len(versions') = Len(versions) + 1 /\ DOMAIN versions' = 1..(Len(versions) + 1)
        /\ \A w \in 1..Len(versions) : versions'[w] = versions[w]
        /\ versions'[Len(versions) + 1] = row
    BY <1>2, <2>1, <2>3
  <2> QED BY <1>2, <1>c, <2>4, <2>5
<1>5. /\ asked' \in Seq(Fitting) /\ Len(asked') = v /\ asked'[v] = d
      /\ \A w \in DOMAIN versions : asked'[w] = asked[w]
  <2>1. asked' = Append(asked, d) /\ asked \in Seq(Fitting) /\ Len(asked) = Len(versions)
    BY DEF Insert, LayoutSound
  <2>2. /\ asked' \in Seq(Fitting) /\ Len(asked') = Len(asked) + 1
        /\ asked'[Len(asked) + 1] = d /\ \A w \in 1..Len(asked) : asked'[w] = asked[w]
    BY <2>1
  <2> QED BY <1>2, <1>c, <2>1, <2>2
<1>6. /\ DOMAIN slots' = 1..(S + n)
      /\ \A s \in DOMAIN slots : slots'[s] = slots[s]
      /\ \A i \in 1..n : slots'[S + i].process = v
                         /\ slots'[S + i].autofill = d.slots[i].autofill
  <2> DEFINE Rows == [process : Nat, name : STRING, autofill : BOOLEAN]
             new == [i \in DOMAIN d.slots |->
                           [process |-> v, name |-> d.slots[i].name,
                            autofill |-> d.slots[i].autofill]]
             after == slots'
  <2>1. slots \in Seq(Rows) /\ after = slots \o new
    BY <1>c DEF ProcessesInvariant, TypeOK, Insert
  <2>2. new \in [1..n -> Rows]
    BY <1>1, DescriptionTypes
  <2>3. \A i \in 1..n : new[i].process = v /\ new[i].autofill = d.slots[i].autofill
    BY <1>1
  <2> HIDE DEF Rows, new, after, n
  <2>4. /\ DOMAIN after = 1..(Len(slots) + n)
        /\ \A i \in 1..n : after[Len(slots) + i] = new[i]
        /\ \A i \in DOMAIN slots : after[i] = slots[i]
    <3>1. new \in Seq(Rows) /\ Len(new) = n
      BY <1>1, <2>2
    <3>2. /\ after \in Seq(Rows) /\ Len(after) = Len(slots) + n
          /\ \A i \in 1..(Len(slots) + n) :
                after[i] = IF i <= Len(slots) THEN slots[i] ELSE new[i - Len(slots)]
      BY <2>1, <3>1, ConcatProperties
    <3>3. Len(slots) \in Nat /\ DOMAIN slots = 1..Len(slots) /\ n \in Nat
      BY <1>1, <1>a
    <3>4. \A i \in 1..n : /\ Len(slots) + i \in 1..(Len(slots) + n)
                           /\ ~(Len(slots) + i <= Len(slots)) /\ (Len(slots) + i) - Len(slots) = i
      BY <3>3
    <3>5. \A i \in 1..n : after[Len(slots) + i] = new[i]
      BY <3>2, <3>4
    <3>6. \A i \in DOMAIN slots : i \in 1..(Len(slots) + n) /\ i <= Len(slots)
      BY <3>3
    <3> QED BY <3>2, <3>5, <3>6
  <2> QED BY <1>c, <2>3, <2>4 DEF after
<1>7. /\ DOMAIN steps' = 1..(T + m)
      /\ \A s \in DOMAIN steps : steps'[s] = steps[s]
      /\ \A i \in 1..m : steps'[T + i].process = v
  <2> DEFINE Rows == [process : Nat, name : STRING]
             new == [i \in DOMAIN d.steps |->
                           [process |-> v, name |-> d.steps[i].name]]
             after == steps'
  <2>1. steps \in Seq(Rows) /\ after = steps \o new
    BY <1>c DEF ProcessesInvariant, TypeOK, Insert
  <2>2. new \in [1..m -> Rows]
    BY <1>1, DescriptionTypes
  <2>3. \A i \in 1..m : new[i].process = v
    BY <1>1
  <2> HIDE DEF Rows, new, after, m
  <2>4. /\ DOMAIN after = 1..(Len(steps) + m)
        /\ \A i \in 1..m : after[Len(steps) + i] = new[i]
        /\ \A i \in DOMAIN steps : after[i] = steps[i]
    <3>1. new \in Seq(Rows) /\ Len(new) = m
      BY <1>1, <2>2
    <3>2. /\ after \in Seq(Rows) /\ Len(after) = Len(steps) + m
          /\ \A i \in 1..(Len(steps) + m) :
                after[i] = IF i <= Len(steps) THEN steps[i] ELSE new[i - Len(steps)]
      BY <2>1, <3>1, ConcatProperties
    <3>3. Len(steps) \in Nat /\ DOMAIN steps = 1..Len(steps) /\ m \in Nat
      BY <1>1, <1>a
    <3>4. \A i \in 1..m : /\ Len(steps) + i \in 1..(Len(steps) + m)
                           /\ ~(Len(steps) + i <= Len(steps)) /\ (Len(steps) + i) - Len(steps) = i
      BY <3>3
    <3>5. \A i \in 1..m : after[Len(steps) + i] = new[i]
      BY <3>2, <3>4
    <3>6. \A i \in DOMAIN steps : i \in 1..(Len(steps) + m) /\ i <= Len(steps)
      BY <3>3
    <3> QED BY <3>2, <3>5, <3>6
  <2> QED BY <1>c, <2>3, <2>4 DEF after
<1>8. /\ \A i \in 1..T : GrantsOf(i)' = GrantsOf(i)
      /\ \A i \in 1..m : GrantsOf(T + i)' = GrantRows(d, i, S, T)
  <2>1. stepSlots' = stepSlots \cup UNION {GrantRows(d, k, S, T) : k \in DOMAIN d.steps}
    BY <1>c DEF Insert, GrantRows
  <2>2. \A k : \A g \in GrantRows(d, k, S, T) : g.step = T + k
    BY DEF GrantRows
  <2>3. \A g \in stepSlots : g.step \in 1..T
    BY <1>3 DEF ProcessesInvariant, NoInconsistency
  <2>4. ASSUME NEW i \in 1..T PROVE GrantsOf(i)' = GrantsOf(i)
    <3>1. \A k \in DOMAIN d.steps : T + k # i
      BY <1>1, <1>3
    <3> QED BY <2>1, <2>2, <3>1 DEF GrantsOf
  <2>5. ASSUME NEW i \in 1..m PROVE GrantsOf(T + i)' = GrantRows(d, i, S, T)
    <3>1. T + i \notin 1..T /\ i \in DOMAIN d.steps
          /\ \A k \in DOMAIN d.steps : T + k = T + i => k = i
      BY <1>1, <1>3
    <3>2. ASSUME NEW g \in stepSlots', g.step = T + i PROVE g \in GrantRows(d, i, S, T)
      <4>1. g \notin stepSlots
        BY <2>3, <3>1, <3>2
      <4>2. PICK k \in DOMAIN d.steps : g \in GrantRows(d, k, S, T)
        BY <2>1, <4>1
      <4> QED BY <2>2, <3>1, <3>2, <4>2
    <3>3. \A g \in GrantRows(d, i, S, T) : g \in stepSlots' /\ g.step = T + i
      BY <2>1, <2>2, <3>1
    <3>4. PICK id \in Nat : id = T + i
      BY <1>3
    <3> QED BY <3>2, <3>3, <3>4 DEF GrantsOf
  <2> QED BY <2>4, <2>5
<1>9. /\ \A i \in 1..T : Ends(LinksFrom(i))' = Ends(LinksFrom(i))
      /\ \A i \in 1..m : Ends(LinksFrom(T + i))' = LinkEnds(d, i, S, T)
      /\ LinksDiffer'
  <2> DEFINE new(k) == {[from |-> T + k, to |-> T + l.to, slot |-> S + l.slot,
                         name |-> l.name] : l \in Range(d.steps[k].links)}
  <2>1. links' = links \cup UNION {new(k) : k \in DOMAIN d.steps}
    BY <1>c DEF Insert
  <2>2. \A k : \A l \in new(k) : l.from = T + k
    OBVIOUS
  <2>3. \A l \in links : l.from \in 1..T
    BY <1>3 DEF ProcessesInvariant, NoInconsistency
  <2>4. ASSUME NEW k PROVE Ends(new(k)) = LinkEnds(d, k, S, T)
    <3> DEFINE end(l) == [from |-> T + k, to |-> T + l.to, slot |-> S + l.slot]
    <3>1. ASSUME NEW l \in Range(d.steps[k].links) PROVE end(l) \in Ends(new(k))
      <4> DEFINE row == [from |-> T + k, to |-> T + l.to, slot |-> S + l.slot, name |-> l.name]
      <4>1. row \in new(k)
        OBVIOUS
      <4>2. end(l) = [from |-> row.from, to |-> row.to, slot |-> row.slot]
        OBVIOUS
      <4> HIDE DEF new, row, end
      <4> QED BY <4>1, <4>2 DEF Ends
    <3>2. ASSUME NEW e \in Ends(new(k)) PROVE e \in LinkEnds(d, k, S, T)
      <4>1. PICK row \in new(k) : e = [from |-> row.from, to |-> row.to, slot |-> row.slot]
        BY DEF Ends
      <4>2. PICK l \in Range(d.steps[k].links) :
                row = [from |-> T + k, to |-> T + l.to, slot |-> S + l.slot, name |-> l.name]
        OBVIOUS
      <4>3. e = end(l)
        BY <4>1, <4>2
      <4> QED BY <4>3 DEF LinkEnds
    <3> QED BY <3>1, <3>2 DEF LinkEnds
  <2>5. ASSUME NEW k \in DOMAIN d.steps, NEW x \in new(k), NEW y \in new(k), x.to = y.to
        PROVE  x = y
    <3>1. PICK e \in Range(d.steps[k].links) :
              x = [from |-> T + k, to |-> T + e.to, slot |-> S + e.slot, name |-> e.name]
      OBVIOUS
    <3>2. PICK f \in Range(d.steps[k].links) :
              y = [from |-> T + k, to |-> T + f.to, slot |-> S + f.slot, name |-> f.name]
      OBVIOUS
    <3>3. e.to \in Nat /\ f.to \in Nat
      BY <1>1, DescriptionTypes
    <3>4. e.to = f.to
      BY <1>3, <2>5, <3>1, <3>2, <3>3
    <3>5. PICK i \in DOMAIN d.steps[k].links : e = d.steps[k].links[i]
      BY DEF Range
    <3>6. PICK j \in DOMAIN d.steps[k].links : f = d.steps[k].links[j]
      BY DEF Range
    <3>7. d.steps[k] \in Range(d.steps)
      BY DEF Range
    <3>8. IsInjective([h \in DOMAIN d.steps[k].links |-> d.steps[k].links[h].to])
      BY <3>7 DEF Storable
    <3>9. i = j
      BY <3>4, <3>5, <3>6, <3>8 DEF IsInjective
    <3> QED BY <3>1, <3>2, <3>5, <3>6, <3>9
  <2> HIDE DEF new
  <2>6. ASSUME NEW i \in 1..T PROVE LinksFrom(i)' = LinksFrom(i)
    <3>1. \A k \in DOMAIN d.steps : T + k # i
      BY <1>1, <1>3
    <3> QED BY <2>1, <2>2, <3>1 DEF LinksFrom
  <2>7. ASSUME NEW i \in 1..m PROVE LinksFrom(T + i)' = new(i)
    <3>1. T + i \notin 1..T /\ i \in DOMAIN d.steps
          /\ \A k \in DOMAIN d.steps : T + k = T + i => k = i
      BY <1>1, <1>3
    <3>2. ASSUME NEW l \in links', l.from = T + i PROVE l \in new(i)
      <4>1. l \notin links
        BY <2>3, <3>1, <3>2
      <4>2. PICK k \in DOMAIN d.steps : l \in new(k)
        BY <2>1, <4>1
      <4> QED BY <2>2, <3>1, <3>2, <4>2
    <3>3. \A l \in new(i) : l \in links' /\ l.from = T + i
      BY <2>1, <2>2, <3>1
    <3> QED BY <3>2, <3>3 DEF LinksFrom
  <2>8. ASSUME NEW k \in links', NEW l \in links', k.from = l.from, k.to = l.to
        PROVE  k = l
    <3>1. CASE k \in links /\ l \in links
      BY <2>8, <3>1 DEF LayoutSound, LinksDiffer
    <3>2. CASE k \notin links
      <4>1. PICK i \in DOMAIN d.steps : k \in new(i)
        BY <2>1, <3>2
      <4>2. k.from = T + i /\ i \in 1..m
        BY <1>1, <2>2, <4>1
      <4>3. l \in LinksFrom(T + i)'
        BY <2>8, <4>2 DEF LinksFrom
      <4>4. l \in new(i)
        BY <2>7, <4>2, <4>3
      <4> QED BY <2>5, <2>8, <4>1, <4>4
    <3>3. CASE l \notin links
      <4>1. PICK i \in DOMAIN d.steps : l \in new(i)
        BY <2>1, <3>3
      <4>2. l.from = T + i /\ i \in 1..m
        BY <1>1, <2>2, <4>1
      <4>3. k \in LinksFrom(T + i)'
        BY <2>8, <4>2 DEF LinksFrom
      <4>4. k \in new(i)
        BY <2>7, <4>2, <4>3
      <4> QED BY <2>5, <2>8, <4>1, <4>4
    <3> QED BY <3>1, <3>2, <3>3
  <2>9. /\ \A i \in 1..T : Ends(LinksFrom(i))' = Ends(LinksFrom(i))
        /\ \A i \in 1..m : Ends(LinksFrom(T + i))' = LinkEnds(d, i, S, T)
    BY <2>4, <2>6, <2>7 DEF Ends
  <2> QED BY <2>8, <2>9 DEF LinksDiffer
<1>10. /\ \A s \in DOMAIN slots' : slots'[s].process \in DOMAIN versions'
       /\ \A w \in DOMAIN versions : SlotsOf(w)' = SlotsOf(w)
       /\ SlotsOf(v)' = (S + 1)..(S + n)
  <2>1. \A s \in 1..S : slots'[s] = slots[s] /\ slots[s].process \in 1..Len(versions)
    BY <1>2, <1>3, <1>6 DEF LayoutSound
  <2> DEFINE after == slots'  k == Len(versions)
  <2>2. OwnedBy(k, slots, S, after, n)
    BY <1>1, <1>2, <1>3, <1>6, <1>c, <2>1 DEF OwnedBy
  <2> HIDE DEF after, k, n
  <2>3. /\ \A s \in DOMAIN after : after[s].process \in 1..(k + 1)
        /\ \A w \in 1..k : {s \in DOMAIN after : after[s].process = w}
                            = {s \in DOMAIN slots : slots[s].process = w}
        /\ {s \in DOMAIN after : after[s].process = k + 1} = (S + 1)..(S + n)
    BY <2>2, OwnersAre
  <2>4. v = k + 1 /\ DOMAIN versions = 1..k /\ DOMAIN versions' = 1..(k + 1)
    BY <1>2, <1>4, <1>c DEF k
  <2>5. \A w : SlotsOf(w)' = {s \in DOMAIN after : after[s].process = w}
    BY DEF SlotsOf, after
  <2> QED BY <2>3, <2>4, <2>5 DEF SlotsOf, after
<1>11. /\ \A s \in DOMAIN steps' : steps'[s].process \in DOMAIN versions'
       /\ \A w \in DOMAIN versions : StepsOf(w)' = StepsOf(w)
       /\ StepsOf(v)' = (T + 1)..(T + m)
  <2>1. \A s \in 1..T : steps'[s] = steps[s] /\ steps[s].process \in 1..Len(versions)
    BY <1>2, <1>3, <1>7 DEF LayoutSound
  <2> DEFINE after == steps'  k == Len(versions)
  <2>2. OwnedBy(k, steps, T, after, m)
    BY <1>1, <1>2, <1>3, <1>7, <1>c, <2>1 DEF OwnedBy
  <2> HIDE DEF after, k, m
  <2>3. /\ \A s \in DOMAIN after : after[s].process \in 1..(k + 1)
        /\ \A w \in 1..k : {s \in DOMAIN after : after[s].process = w}
                            = {s \in DOMAIN steps : steps[s].process = w}
        /\ {s \in DOMAIN after : after[s].process = k + 1} = (T + 1)..(T + m)
    BY <2>2, OwnersAre
  <2>4. v = k + 1 /\ DOMAIN versions = 1..k /\ DOMAIN versions' = 1..(k + 1)
    BY <1>2, <1>4, <1>c DEF k
  <2>5. \A w : StepsOf(w)' = {s \in DOMAIN after : after[s].process = w}
    BY DEF StepsOf, after
  <2> QED BY <2>3, <2>4, <2>5 DEF StepsOf, after
<1>12. ASSUME NEW w \in DOMAIN versions, NEW a \in Nat, NEW b \in Nat, LaidOut(w, a, b)
       PROVE  LaidOut(w, a, b)'
  <2>1. asked[w] \in Fitting /\ asked'[w] = asked[w] /\ versions'[w] = versions[w]
    BY <1>4, <1>5, AskedFor
  <2> DEFINE k == Len(asked[w].slots)  l == Len(asked[w].steps)
  <2>2. /\ k \in Nat /\ DOMAIN asked[w].slots = 1..k
        /\ l \in Nat /\ DOMAIN asked[w].steps = 1..l
    BY <2>1, FittingIs
  <2>3. SlotsOf(w) = (a + 1)..(a + k) /\ StepsOf(w) = (b + 1)..(b + l)
    BY <1>12 DEF LaidOut
  <2>4. SlotsOf(w) \subseteq 1..S /\ StepsOf(w) \subseteq 1..T
    BY <1>3 DEF SlotsOf, StepsOf
  <2> HIDE DEF k, l
  <2>a. /\ \A i \in 1..k : a + i \in (a + 1)..(a + k)
        /\ \A i \in 1..l : b + i \in (b + 1)..(b + l)
    BY <2>2
  <2>5. \A i \in 1..k : a + i \in 1..S
    BY <2>3, <2>4, <2>a
  <2>6. \A i \in 1..l : b + i \in 1..T
    BY <2>3, <2>4, <2>a
  <2>7. \A i \in DOMAIN asked[w].slots : slots'[a + i].autofill = asked[w].slots[i].autofill
    BY <1>3, <1>6, <1>12, <2>2, <2>5 DEF LaidOut
  <2>8. \A i \in DOMAIN asked[w].steps :
            /\ GrantsOf(b + i)' = GrantRows(asked[w], i, a, b)
            /\ Ends(LinksFrom(b + i))' = LinkEnds(asked[w], i, a, b)
    BY <1>8, <1>9, <1>12, <2>2, <2>6 DEF LaidOut
  <2>9. SlotsOf(w)' = SlotsOf(w) /\ StepsOf(w)' = StepsOf(w)
    BY <1>10, <1>11
  <2> QED BY <1>12, <2>1, <2>7, <2>8, <2>9 DEF LaidOut
<1>13. LaidOut(v, S, T)'
  <2>1. /\ asked'[v] = d /\ versions'[v].start = T + d.start
        /\ \A i \in DOMAIN d.slots : slots'[S + i].autofill = d.slots[i].autofill
        /\ \A i \in DOMAIN d.steps :
            /\ GrantsOf(T + i)' = GrantRows(d, i, S, T)
            /\ Ends(LinksFrom(T + i))' = LinkEnds(d, i, S, T)
    BY <1>1, <1>4, <1>5, <1>6, <1>8, <1>9
  <2>2. SlotsOf(v)' = (S + 1)..(S + Len(d.slots)) /\ StepsOf(v)' = (T + 1)..(T + Len(d.steps))
    BY <1>10, <1>11
  <2>3. /\ asked'[v].slots = d.slots /\ asked'[v].steps = d.steps
        /\ asked'[v].start = d.start
    BY <2>1
  <2> QED BY <2>1, <2>2, <2>3 DEF LaidOut
<1>14. \A w \in DOMAIN versions' : \E a, b \in Nat : LaidOut(w, a, b)'
  <2>1. \A w \in DOMAIN versions : \E a, b \in Nat : LaidOut(w, a, b)
    BY DEF LayoutSound
  <2>2. DOMAIN versions' = DOMAIN versions \cup {v}
    BY <1>2, <1>4, <1>c
  <2> QED BY <1>12, <1>13, <2>1, <2>2
<1> QED BY <1>4, <1>5, <1>9, <1>10, <1>11, <1>14 DEF LayoutSound


LEMMA LayoutSame ==
    ASSUME ProcessesInvariant, LayoutSound, UNCHANGED tables
    PROVE  LayoutSound'
<1>1. UNCHANGED <<versions, slots, steps, stepSlots, links, asked>>
  BY DEF tables
<1>2. LinksDiffer'
  BY <1>1 DEF LayoutSound, LinksDiffer
<1>3. \A i : Ends(LinksFrom(i))' = Ends(LinksFrom(i))
  BY <1>1 DEF Ends, LinksFrom
<1> QED BY <1>1, <1>2, <1>3, LayoutStays

LEMMA StoreVersionLaysOut ==
    ASSUME ProcessesInvariant, LayoutSound, NEW d \in AskedNow, Validate(d) = Valid,
           NEW p \in Nat, NEW named, StoreVersion(p, d, named)
    PROVE  LayoutSound'
<1>1. d \in Fitting
  <2>1. d \in FirstAsked \cup LaterAsked
    BY DEF AskedNow
  <2> QED BY <2>1, AskedIsDescription, ValidIndicesFit DEF Fitting
<1>2. CASE UNCHANGED tables
  BY <1>2, LayoutSame
<1>3. CASE Storable(d) /\ Insert(p, d)
  BY <1>1, <1>3, LayoutAdds
<1> QED BY <1>2, <1>3 DEF StoreVersion

LEMMA CreateLaysOut ==
    ASSUME ProcessesInvariant, LayoutSound, CreateProcess \/ CreateVersion
    PROVE  LayoutSound'
<1>1. Len(processes) + 1 \in Nat /\ \A l \in loaded : l.process \in Nat
  BY DEF ProcessesInvariant, TypeOK
<1>2. CASE UNCHANGED tables
  BY <1>2, LayoutSame
<1>3. CASE \E d \in AskedNow : \E p \in Nat : \E named :
              Validate(d) = Valid /\ StoreVersion(p, d, named)
  BY <1>3, StoreVersionLaysOut
<1>4. CASE CreateProcess
  BY <1>1, <1>2, <1>3, <1>4 DEF CreateProcess
<1>5. CASE CreateVersion
  BY <1>1, <1>2, <1>3, <1>5 DEF CreateVersion, CreateVersionIn
<1> QED BY <1>4, <1>5

LEMMA ModifySlotKeepsLayout ==
    ASSUME ProcessesInvariant, LayoutSound, NEW v, ModifySlot(v)
    PROVE  LayoutSound'
<1>1. CASE UNCHANGED tables
  BY <1>1, LayoutSame
<1>2. CASE \E s \in DOMAIN slots : \E name : \E roles :
              /\ SetSlot(s, name, roles)
              /\ UNCHANGED <<processes, versions, steps, stepSlots, links, asked>>
  <2>a. PICK s \in DOMAIN slots : \E name, roles :
              /\ SetSlot(s, name, roles)
              /\ UNCHANGED <<processes, versions, steps, stepSlots, links, asked>>
    BY <1>2
  <2>1. PICK name, roles :
              /\ SetSlot(s, name, roles)
              /\ UNCHANGED <<processes, versions, steps, stepSlots, links, asked>>
    BY <2>a
  <2>2. \A t \in DOMAIN slots : slots[t] \in [process : Nat, name : STRING, autofill : BOOLEAN]
    <3> DEFINE Rows == [process : Nat, name : STRING, autofill : BOOLEAN]
    <3>1. slots \in Seq(Rows)
      BY DEF ProcessesInvariant, TypeOK
    <3> HIDE DEF Rows
    <3>2. \A t \in DOMAIN slots : slots[t] \in Rows
      BY <3>1
    <3> QED BY <3>2 DEF Rows
  <2>3. /\ DOMAIN slots' = DOMAIN slots
        /\ \A t \in DOMAIN slots : slots'[t].process = slots[t].process
                                   /\ slots'[t].autofill = slots[t].autofill
    BY <2>1, <2>2 DEF SetSlot
  <2>4. LinksDiffer' /\ \A i : Ends(LinksFrom(i))' = Ends(LinksFrom(i))
    BY <2>1 DEF LayoutSound, LinksDiffer, Ends, LinksFrom
  <2> QED BY <2>1, <2>3, <2>4, LayoutStays
<1> QED BY <1>1, <1>2 DEF ModifySlot, Refuse

LEMMA ModifyStepKeepsLayout ==
    ASSUME ProcessesInvariant, LayoutSound, NEW v, ModifyStep(v)
    PROVE  LayoutSound'
<1>1. CASE UNCHANGED tables
  BY <1>1, LayoutSame
<1>2. CASE \E s \in DOMAIN steps : \E name :
              /\ steps' = [steps EXCEPT ![s].name = name]
              /\ UNCHANGED <<processes, versions, slots, slotRoles, stepSlots, links, asked>>
  <2>a. PICK s \in DOMAIN steps : \E name :
              /\ steps' = [steps EXCEPT ![s].name = name]
              /\ UNCHANGED <<processes, versions, slots, slotRoles, stepSlots, links, asked>>
    BY <1>2
  <2>1. PICK name :
              /\ steps' = [steps EXCEPT ![s].name = name]
              /\ UNCHANGED <<processes, versions, slots, slotRoles, stepSlots, links, asked>>
    BY <2>a
  <2>2. \A t \in DOMAIN steps : steps[t] \in [process : Nat, name : STRING]
    <3> DEFINE Rows == [process : Nat, name : STRING]
    <3>1. steps \in Seq(Rows)
      BY DEF ProcessesInvariant, TypeOK
    <3> HIDE DEF Rows
    <3>2. \A t \in DOMAIN steps : steps[t] \in Rows
      BY <3>1
    <3> QED BY <3>2 DEF Rows
  <2>3. /\ DOMAIN steps' = DOMAIN steps
        /\ \A t \in DOMAIN steps : steps'[t].process = steps[t].process
    BY <2>1, <2>2
  <2>4. LinksDiffer' /\ \A i : Ends(LinksFrom(i))' = Ends(LinksFrom(i))
    BY <2>1 DEF LayoutSound, LinksDiffer, Ends, LinksFrom
  <2> QED BY <2>1, <2>3, <2>4, LayoutStays
<1> QED BY <1>1, <1>2 DEF ModifyStep, Refuse

LEMMA ModifyLinkKeepsLayout ==
    ASSUME ProcessesInvariant, LayoutSound, NEW v, ModifyLink(v)
    PROVE  LayoutSound'
<1>1. CASE UNCHANGED tables
  BY <1>1, LayoutSame
<1>2. CASE \E l \in links : \E name : SetLink(l, name)
  <2>a. PICK l \in links : \E name : SetLink(l, name)
    BY <1>2
  <2>1. PICK name : SetLink(l, name)
    BY <2>a
  <2>2. l \in [from : Nat, to : Nat, slot : Nat, name : STRING]
    BY DEF ProcessesInvariant, TypeOK
  <2>3. PICK m : m = [l EXCEPT !.name = name]
    OBVIOUS
  <2>4. m.from = l.from /\ m.to = l.to /\ m.slot = l.slot
    BY <2>2, <2>3
  <2>5. links' = (links \ {l}) \cup {m}
    BY <2>1, <2>3 DEF SetLink
  <2>6. LinksDiffer'
    <3>1. LinksDiffer
      BY DEF LayoutSound
    <3> QED BY <2>4, <2>5, <3>1 DEF LinksDiffer
  <2>7. \A i : Ends(LinksFrom(i))' = Ends(LinksFrom(i))
    <3> SUFFICES ASSUME NEW i PROVE Ends(LinksFrom(i))' = Ends(LinksFrom(i))
      OBVIOUS
    <3>1. ASSUME NEW e \in Ends(LinksFrom(i)) PROVE e \in Ends(LinksFrom(i))'
      <4>1. PICK k \in LinksFrom(i) : e = [from |-> k.from, to |-> k.to, slot |-> k.slot]
        BY DEF Ends
      <4>2. CASE k = l
        BY <2>4, <2>5, <4>1, <4>2 DEF Ends, LinksFrom
      <4>3. CASE k # l
        BY <2>5, <4>1, <4>3 DEF Ends, LinksFrom
      <4> QED BY <4>2, <4>3
    <3>2. ASSUME NEW e \in Ends(LinksFrom(i))' PROVE e \in Ends(LinksFrom(i))
      <4>1. PICK k \in LinksFrom(i)' : e = [from |-> k.from, to |-> k.to, slot |-> k.slot]
        BY DEF Ends
      <4>2. CASE k = m
        BY <2>4, <4>1, <4>2 DEF Ends, LinksFrom
      <4>3. CASE k # m
        BY <2>5, <4>1, <4>3 DEF Ends, LinksFrom
      <4> QED BY <4>2, <4>3
    <3> QED BY <3>1, <3>2
  <2> QED BY <2>1, <2>6, <2>7, LayoutStays DEF SetLink
<1> QED BY <1>1, <1>2 DEF ModifyLink, Refuse

LEMMA LayoutStep == ProcessesInvariant /\ LayoutSound /\ [Next]_vars => LayoutSound'
<1> SUFFICES ASSUME ProcessesInvariant, LayoutSound, [Next]_vars PROVE LayoutSound'
  OBVIOUS
<1>1. CASE UNCHANGED tables
  BY <1>1, LayoutSame
<1>2. ASSUME NEW v, ModifySlot(v) \/ ModifyStep(v) \/ ModifyLink(v)
      PROVE  LayoutSound'
  BY <1>2, ModifySlotKeepsLayout, ModifyStepKeepsLayout, ModifyLinkKeepsLayout
<1>3. CASE ModifySlotInProcess \/ ModifyStepInProcess \/ ModifyLinkInProcess
  BY <1>2, <1>3 DEF ModifySlotInProcess, ModifyStepInProcess, ModifyLinkInProcess
<1>4. CASE ModifySlotInVersion \/ ModifyStepInVersion \/ ModifyLinkInVersion
  <2>1. ASSUME NEW p, NEW v, VersionNotFound(p, v) PROVE LayoutSound'
    BY <1>1, <2>1 DEF VersionNotFound, Refuse
  <2> QED BY <1>2, <1>4, <2>1
      DEF ModifySlotInVersion, ModifyStepInVersion, ModifyLinkInVersion
<1>5. CASE UNCHANGED vars
  BY <1>1, <1>5 DEF vars
<1>6. CASE LoadProcess \/ UpdateProcess \/ DeleteProcess
  BY <1>1, <1>6 DEF LoadProcess, UpdateProcess, DeleteProcess, Refuse
<1> QED BY <1>3, <1>4, <1>5, <1>6, CreateLaysOut DEF Next

LEMMA LayoutInit == Init => LayoutSound
<1> SUFFICES ASSUME Init PROVE LayoutSound
  OBVIOUS
<1>1. /\ asked = << >> /\ versions = << >> /\ slots = << >> /\ steps = << >> /\ links = {}
  BY DEF Init
<1>2. /\ asked \in Seq(Fitting) /\ Len(asked) = Len(versions)
      /\ DOMAIN slots = {} /\ DOMAIN steps = {} /\ DOMAIN versions = {}
  BY <1>1
<1> QED BY <1>1, <1>2 DEF LayoutSound, LinksDiffer

LEMMA Layout == Spec => [](ProcessesInvariant /\ LayoutSound)
BY InitInvariant, LayoutInit, StepPreserves, LayoutStep, PTL DEF Spec


-----------------------------------------------------------------------------
(***************************************************************************)
(* What get_structure reads back.                                          *)
(***************************************************************************)
LEMMA ListedIs ==
    ASSUME NEW n \in Nat, NEW f, DOMAIN f = 1..n, f = [i \in 1..n |-> f[i]]
    PROVE  Listed(f) = f
<1> DEFINE S == {f[i] : i \in 1..n}
<1>1. f \in [1..n -> S]
  OBVIOUS
<1> HIDE DEF S
<1>2. f \in Seq(S)
  BY <1>1
<1>3. f \o << >> = f
  BY <1>2, ConcatEmptySeq
<1> QED BY <1>3 DEF Listed

LEMMA ImageFinite ==
    ASSUME NEW S, IsFiniteSet(S), NEW f, DOMAIN f = S
    PROVE  IsFiniteSet({f[x] : x \in S})
<1> DEFINE T == {f[x] : x \in S}
           g == [x \in S |-> f[x]]
<1>1. g \in Surjection(S, T)
  BY DEF Surjection
<1> HIDE DEF T, g
<1>2. IsFiniteSet(T)
  BY <1>1, FS_Surjection
<1> QED BY <1>2 DEF T

LEMMA RankIs ==
    /\ \A p \in SlotPermission : Rank[p] \in 1..4
    /\ \A p, q \in SlotPermission : Rank[p] = Rank[q] => p = q
<1> DEFINE list == <<View, Edit, Propose, Accept>>
<1>1. ASSUME NEW p \in SlotPermission PROVE Rank[p] \in 1..4 /\ list[Rank[p]] = p
  <2>1. Rank[p] = CHOOSE k \in 1..4 : list[k] = p
    BY DEF Rank
  <2>2. \E k \in 1..4 : list[k] = p
    <3>1. 1 \in 1..4 /\ 2 \in 1..4 /\ 3 \in 1..4 /\ 4 \in 1..4
      OBVIOUS
    <3>2. list[1] = View /\ list[2] = Edit /\ list[3] = Propose /\ list[4] = Accept
      OBVIOUS
    <3> HIDE DEF list
    <3> QED BY <3>1, <3>2 DEF SlotPermission
  <2> HIDE DEF list
  <2> QED BY <2>1, <2>2
<1> HIDE DEF list
<1> QED BY <1>1

LEMMA GrantsOrdered ==
    ASSUME NEW S, NEW id, S \subseteq [step : {id}, slot : Nat, permission : SlotPermission]
    PROVE  IsOrder(BySlot(S), S)
<1> DEFINE R == BySlot(S)
<1>1. ASSUME NEW x \in S, NEW y \in S
      PROVE  <<x, y>> \in R <=> \/ x.slot < y.slot
                                \/ /\ x.slot = y.slot
                                   /\ Rank[x.permission] <= Rank[y.permission]
  BY DEF BySlot
<1>2. \A x \in S : /\ x.slot \in Int /\ Rank[x.permission] \in Int
                   /\ x.permission \in SlotPermission
                   /\ x = [step |-> id, slot |-> x.slot, permission |-> x.permission]
  BY RankIs
<1>3. \A x, y \in S : x.slot = y.slot /\ Rank[x.permission] = Rank[y.permission] => x = y
  BY <1>2, RankIs
<1> HIDE DEF R
<1>4. ASSUME NEW x \in S, NEW y \in S PROVE <<x, y>> \in R \/ <<y, x>> \in R
  <2>1. /\ x.slot < y.slot \/ y.slot < x.slot \/ x.slot = y.slot
        /\ Rank[x.permission] <= Rank[y.permission] \/ Rank[y.permission] <= Rank[x.permission]
    BY <1>2
  <2> QED BY <1>1, <2>1
<1>5. \A x, y \in S : <<x, y>> \in R /\ <<y, x>> \in R => x = y
  BY <1>1, <1>2, <1>3
<1>6. \A x, y, z \in S : <<x, y>> \in R /\ <<y, z>> \in R => <<x, z>> \in R
  BY <1>1, <1>2
<1> QED BY <1>4, <1>5, <1>6 DEF IsOrder, R

LEMMA LinksOrdered ==
    ASSUME NEW S, \A x \in S : x.slot \in Int /\ x.to \in Int,
           \A x, y \in S : x.to = y.to => x = y
    PROVE  IsOrder(BySlotAndTarget(S), S)
<1> DEFINE R == BySlotAndTarget(S)
<1>1. ASSUME NEW x \in S, NEW y \in S
      PROVE  <<x, y>> \in R <=> \/ x.slot < y.slot
                                \/ x.slot = y.slot /\ x.to <= y.to
  BY DEF BySlotAndTarget
<1> HIDE DEF R
<1>4. ASSUME NEW x \in S, NEW y \in S PROVE <<x, y>> \in R \/ <<y, x>> \in R
  <2>1. /\ x.slot < y.slot \/ y.slot < x.slot \/ x.slot = y.slot
        /\ x.to <= y.to \/ y.to <= x.to
    OBVIOUS
  <2> QED BY <1>1, <2>1
<1>5. \A x, y \in S : <<x, y>> \in R /\ <<y, x>> \in R => x = y
  BY <1>1
<1>6. \A x, y, z \in S : <<x, y>> \in R /\ <<y, z>> \in R => <<x, z>> \in R
  BY <1>1
<1> QED BY <1>4, <1>5, <1>6 DEF IsOrder, R

\* The permissions and the links of a step are sequences of such records.
LEMMA StepIs ==
    ASSUME NEW d, IsDescription(d), NEW i \in DOMAIN d.steps
    PROVE  /\ IsFiniteSet(DOMAIN d.steps[i].slots) /\ IsFiniteSet(DOMAIN d.steps[i].links)
           /\ Range(d.steps[i].slots) \subseteq [slot : Nat, permission : SlotPermission]
           /\ Range(d.steps[i].links) \subseteq [name : STRING, to : Nat, slot : Nat]
<1> DEFINE Granted == [slot : Nat, permission : SlotPermission]
           Leads == [name : STRING, to : Nat, slot : Nat]
           StepRow == [name : STRING, slots : Seq(Granted), links : Seq(Leads)]
<1>1. d.steps \in Seq(StepRow)
  BY DEF IsDescription
<1> HIDE DEF Granted, Leads
<1>2. d.steps[i] \in StepRow
  <2> HIDE DEF StepRow
  <2> QED BY <1>1
<1>3. d.steps[i].slots \in Seq(Granted) /\ d.steps[i].links \in Seq(Leads)
  BY <1>2
<1>4. \A S : \A rows \in Seq(S) : Range(rows) \subseteq S
  BY DEF Range
<1>5. \A S : \A rows \in Seq(S) : IsFiniteSet(DOMAIN rows)
  <2>1. \A S : \A rows \in Seq(S) : Len(rows) \in Nat /\ DOMAIN rows = 1..Len(rows)
    OBVIOUS
  <2>2. \A n \in Nat : IsFiniteSet(1..n)
    BY FS_Interval
  <2> QED BY <2>1, <2>2
<1>6. IsFiniteSet(DOMAIN d.steps[i].slots) /\ IsFiniteSet(DOMAIN d.steps[i].links)
  BY <1>3, <1>5
<1>7. Range(d.steps[i].slots) \subseteq Granted /\ Range(d.steps[i].links) \subseteq Leads
  BY <1>3, <1>4
<1> QED BY <1>6, <1>7 DEF Granted, Leads

\* A row of permissions, read back, is the permission it was made from; all
\* of a step's are read, and no other.
LEMMA GrantsReadBack ==
    ASSUME ProcessesInvariant, LayoutSound, NEW v \in DOMAIN versions,
           NEW a \in Nat, NEW b \in Nat, LaidOut(v, a, b), NEW d, d = asked[v],
           NEW i \in DOMAIN d.steps
    PROVE  Range(ReadStep(v, b + i).slots) = Range(d.steps[i].slots)
<1> DEFINE S == GrantsOf(b + i)
           granted == InOrder(S, BySlot(S))
           read(row) == StepSlot(Position(SlotsOf(v), row.slot), row.permission)
           f == [k \in DOMAIN granted |-> read(granted[k])]
           n == Len(d.slots)
<1>1. d \in Fitting
  BY AskedFor
<1>2. /\ IsDescription(d) /\ IndicesFit(d) /\ n \in Nat /\ DOMAIN d.slots = 1..n
      /\ i \in Nat
  BY <1>1, FittingIs
<1>3. S = GrantRows(d, i, a, b) /\ SlotsOf(v) = (a + 1)..(a + n)
  BY DEF LaidOut
<1>4. \A s \in Range(d.steps[i].slots) :
          /\ s.slot \in 1..n /\ s.permission \in SlotPermission
          /\ s = StepSlot(s.slot, s.permission)
  <2>1. \A s \in Range(d.steps[i].slots) : s \in [slot : Nat, permission : SlotPermission]
    BY <1>2, StepIs
  <2>2. \A s \in Range(d.steps[i].slots) : s.slot \in 1..n
    BY <1>2 DEF IndicesFit
  <2> QED BY <2>1, <2>2 DEF StepSlot
<1>5. IsFiniteSet(S)
  <2> DEFINE D == DOMAIN d.steps[i].slots
             g == [k \in D |-> [step |-> b + i, slot |-> a + d.steps[i].slots[k].slot,
                                permission |-> d.steps[i].slots[k].permission]]
  <2>1. IsFiniteSet(D) /\ DOMAIN g = D
    BY <1>2, StepIs
  <2>2. S = {g[k] : k \in D}
    <3>1. ASSUME NEW r \in S PROVE \E k \in D : r = g[k]
      <4>1. PICK s \in Range(d.steps[i].slots) :
                r = [step |-> b + i, slot |-> a + s.slot, permission |-> s.permission]
        BY <1>3 DEF GrantRows
      <4>2. PICK k \in D : s = d.steps[i].slots[k]
        BY DEF Range
      <4> QED BY <4>1, <4>2
    <3>2. ASSUME NEW k \in D PROVE g[k] \in S
      <4>1. d.steps[i].slots[k] \in Range(d.steps[i].slots)
        BY DEF Range
      <4> QED BY <1>3, <4>1 DEF GrantRows
    <3> HIDE DEF S, D, g
    <3> QED BY <3>1, <3>2
  <2> HIDE DEF D, g, S
  <2> QED BY <2>1, <2>2, ImageFinite
<1>6. IsOrder(BySlot(S), S)
  <2>1. S \subseteq [step : {b + i}, slot : Nat, permission : SlotPermission]
    <3>1. stepSlots \subseteq [step : Nat, slot : Nat, permission : SlotPermission]
      BY DEF ProcessesInvariant, TypeOK
    <3> QED BY <3>1 DEF GrantsOf
  <2> HIDE DEF S
  <2> QED BY <2>1, GrantsOrdered
<1>7. /\ DOMAIN granted = 1..Cardinality(S) /\ Cardinality(S) \in Nat
      /\ \A k \in DOMAIN granted : granted[k] \in S
      /\ \A row \in S : \E k \in DOMAIN granted : granted[k] = row
  <2> HIDE DEF S, granted
  <2> QED BY <1>5, <1>6, InOrderIs, FS_CardinalityType DEF granted
<1>8. ReadStep(v, b + i).slots = f
  <2>1. ReadStep(v, b + i).slots = Listed(f)
    BY DEF ReadStep, Step
  <2> DEFINE C == Cardinality(S)
  <2>2. C \in Nat /\ DOMAIN f = 1..C /\ f = [k \in 1..C |-> f[k]]
    <3> HIDE DEF granted, S, read
    <3> QED BY <1>7
  <2> HIDE DEF C, f
  <2>3. Listed(f) = f
    BY <2>2, ListedIs
  <2> QED BY <2>1, <2>3
<1>9. \A s \in Range(d.steps[i].slots) : Position(SlotsOf(v), a + s.slot) = s.slot
  BY <1>2, <1>3, <1>4, PositionsAre
<1> DEFINE row(s) == [step |-> b + i, slot |-> a + s.slot, permission |-> s.permission]
<1>10. \A s \in Range(d.steps[i].slots) : row(s) \in S /\ read(row(s)) = s
  BY <1>3, <1>4, <1>9 DEF GrantRows
<1>11. \A r \in S : \E s \in Range(d.steps[i].slots) : r = row(s)
  BY <1>3 DEF GrantRows
<1> HIDE DEF S, granted, read, row
<1>12. ASSUME NEW s \in Range(d.steps[i].slots) PROVE s \in Range(f)
  <2>1. PICK k \in DOMAIN granted : granted[k] = row(s)
    BY <1>7, <1>10
  <2>2. f[k] = s
    BY <1>10, <2>1
  <2> QED BY <2>2 DEF Range
<1>13. ASSUME NEW x \in Range(f) PROVE x \in Range(d.steps[i].slots)
  <2>1. PICK k \in DOMAIN granted : x = read(granted[k])
    BY DEF Range
  <2>2. PICK s \in Range(d.steps[i].slots) : granted[k] = row(s)
    BY <1>7, <1>11, <2>1
  <2> QED BY <1>10, <2>1, <2>2
<1> QED BY <1>8, <1>12, <1>13

\* Where links lead and whose they are, whatever they are called.
WhereTo(leading) == {[to |-> l.to, slot |-> l.slot] : l \in Range(leading)}

\* So it is with the rows of links, but for their names.
LEMMA LinksReadBack ==
    ASSUME ProcessesInvariant, LayoutSound, NEW v \in DOMAIN versions,
           NEW a \in Nat, NEW b \in Nat, LaidOut(v, a, b), NEW d, d = asked[v],
           NEW i \in DOMAIN d.steps
    PROVE  WhereTo(ReadStep(v, b + i).links) = WhereTo(d.steps[i].links)
<1> DEFINE L == LinksFrom(b + i)
           leaving == InOrder(L, BySlotAndTarget(L))
           read(row) == Link(row.name, Position(StepsOf(v), row.to), Position(SlotsOf(v), row.slot))
           f == [k \in DOMAIN leaving |-> read(leaving[k])]
           n == Len(d.slots)
           m == Len(d.steps)
<1>1. d \in Fitting
  BY AskedFor
<1>2. /\ IsDescription(d) /\ IndicesFit(d) /\ n \in Nat /\ DOMAIN d.slots = 1..n
      /\ m \in Nat /\ DOMAIN d.steps = 1..m /\ i \in Nat
  BY <1>1, FittingIs
<1>3. /\ Ends(L) = LinkEnds(d, i, a, b) /\ SlotsOf(v) = (a + 1)..(a + n)
      /\ StepsOf(v) = (b + 1)..(b + m)
  BY DEF LaidOut
<1>4. \A l \in Range(d.steps[i].links) : l.slot \in 1..n /\ l.to \in 1..m
  BY <1>2 DEF IndicesFit
<1>5. /\ \A l \in L : l.from = b + i /\ l.slot \in Int /\ l.to \in Int
      /\ \A k, l \in L : k.to = l.to => k = l
  <2>1. links \subseteq [from : Nat, to : Nat, slot : Nat, name : STRING]
    BY DEF ProcessesInvariant, TypeOK
  <2>2. LinksDiffer
    BY DEF LayoutSound
  <2> QED BY <2>1, <2>2 DEF LinksFrom, LinksDiffer
<1>6. \A row \in L : \E l \in Range(d.steps[i].links) :
          row.to = b + l.to /\ row.slot = a + l.slot
  <2> SUFFICES ASSUME NEW row \in L
               PROVE  \E l \in Range(d.steps[i].links) : row.to = b + l.to /\ row.slot = a + l.slot
    OBVIOUS
  <2>1. [from |-> row.from, to |-> row.to, slot |-> row.slot] \in LinkEnds(d, i, a, b)
    BY <1>3 DEF Ends
  <2>2. PICK l \in Range(d.steps[i].links) :
            [from |-> row.from, to |-> row.to, slot |-> row.slot]
                = [from |-> b + i, to |-> b + l.to, slot |-> a + l.slot]
    BY <2>1 DEF LinkEnds
  <2> QED BY <2>2
<1>7. \A l \in Range(d.steps[i].links) : \E row \in L : row.to = b + l.to /\ row.slot = a + l.slot
  <2> SUFFICES ASSUME NEW l \in Range(d.steps[i].links)
               PROVE  \E row \in L : row.to = b + l.to /\ row.slot = a + l.slot
    OBVIOUS
  <2>1. [from |-> b + i, to |-> b + l.to, slot |-> a + l.slot] \in Ends(L)
    BY <1>3 DEF LinkEnds
  <2>2. PICK row \in L : [from |-> b + i, to |-> b + l.to, slot |-> a + l.slot]
                            = [from |-> row.from, to |-> row.to, slot |-> row.slot]
    BY <2>1 DEF Ends
  <2> QED BY <2>2
<1>8. IsFiniteSet(L)
  <2> DEFINE D == DOMAIN d.steps[i].links
             g == [k \in D |-> CHOOSE row \in L : row.to = b + d.steps[i].links[k].to]
             T == {g[k] : k \in D}
  <2>1. IsFiniteSet(D) /\ DOMAIN g = D
    BY <1>2, StepIs
  <2>2. ASSUME NEW row \in L PROVE row \in T
    <3>1. PICK l \in Range(d.steps[i].links) : row.to = b + l.to
      BY <1>6
    <3>2. PICK k \in D : l = d.steps[i].links[k]
      BY DEF Range
    <3>3. g[k] = CHOOSE other \in L : other.to = b + l.to
      BY <3>2
    <3>4. g[k] \in L /\ g[k].to = row.to
      BY <3>1, <3>3
    <3> HIDE DEF L, g
    <3>5. g[k] = row
      BY <1>5, <3>4
    <3> QED BY <3>5
  <2>3. IsFiniteSet(T)
    <3> HIDE DEF D, g
    <3> QED BY <2>1, ImageFinite
  <2>4. L \subseteq T
    BY <2>2
  <2> HIDE DEF L, T
  <2> QED BY <2>3, <2>4, FS_Subset
<1>9. /\ DOMAIN leaving = 1..Cardinality(L) /\ Cardinality(L) \in Nat
      /\ \A k \in DOMAIN leaving : leaving[k] \in L
      /\ \A row \in L : \E k \in DOMAIN leaving : leaving[k] = row
  <2> HIDE DEF L, leaving
  <2>1. IsOrder(BySlotAndTarget(L), L)
    BY <1>5, LinksOrdered
  <2> QED BY <1>8, <2>1, InOrderIs, FS_CardinalityType DEF leaving
<1>10. ReadStep(v, b + i).links = f
  <2>1. ReadStep(v, b + i).links = Listed(f)
    BY DEF ReadStep, Step
  <2> DEFINE C == Cardinality(L)
  <2>2. C \in Nat /\ DOMAIN f = 1..C /\ f = [k \in 1..C |-> f[k]]
    <3> HIDE DEF leaving, L, read
    <3> QED BY <1>9
  <2> HIDE DEF C, f
  <2>3. Listed(f) = f
    BY <2>2, ListedIs
  <2> QED BY <2>1, <2>3
<1>11. ASSUME NEW row \in L, NEW l \in Range(d.steps[i].links),
              row.to = b + l.to, row.slot = a + l.slot
       PROVE  read(row).to = l.to /\ read(row).slot = l.slot
  <2>1. Position(StepsOf(v), b + l.to) = l.to /\ Position(SlotsOf(v), a + l.slot) = l.slot
    BY <1>2, <1>3, <1>4, PositionsAre
  <2> QED BY <1>11, <2>1 DEF Link
<1> HIDE DEF L, leaving, read
<1>12. ASSUME NEW l \in Range(d.steps[i].links)
       PROVE  \E x \in Range(f) : x.to = l.to /\ x.slot = l.slot
  <2>1. PICK row \in L : row.to = b + l.to /\ row.slot = a + l.slot
    BY <1>7
  <2>2. PICK k \in DOMAIN leaving : leaving[k] = row
    BY <1>9
  <2>3. f[k] = read(row) /\ f[k] \in Range(f)
    BY <2>2 DEF Range
  <2> QED BY <1>11, <2>1, <2>3
<1>13. ASSUME NEW x \in Range(f)
       PROVE  \E l \in Range(d.steps[i].links) : x.to = l.to /\ x.slot = l.slot
  <2>1. PICK k \in DOMAIN leaving : x = read(leaving[k])
    BY DEF Range
  <2>2. PICK l \in Range(d.steps[i].links) :
            leaving[k].to = b + l.to /\ leaving[k].slot = a + l.slot
    BY <1>6, <1>9
  <2> QED BY <1>9, <1>11, <2>1, <2>2
<1> HIDE DEF f
<1> QED BY <1>10, <1>12, <1>13 DEF WhereTo

\* The description of a version, as get_structure gives it.
LEMMA StructureReadsBack ==
    ASSUME ProcessesInvariant, LayoutSound, NEW v \in DOMAIN versions
    PROVE  Shape(Structure(v)) = Shape(asked[v])
<1>1. PICK a \in Nat, b \in Nat : LaidOut(v, a, b)
  BY DEF LayoutSound
<1>2. PICK d \in Fitting : d = asked[v]
  BY AskedFor
<1> DEFINE n == Len(d.slots)
           m == Len(d.steps)
           slotIds == InOrder(SlotsOf(v), ById(SlotsOf(v)))
           stepIds == InOrder(StepsOf(v), ById(StepsOf(v)))
           f == [i \in DOMAIN slotIds |-> ReadSlot(slotIds[i])]
           g == [i \in DOMAIN stepIds |-> ReadStep(v, stepIds[i])]
<1>3. /\ IsDescription(d) /\ IndicesFit(d) /\ n \in Nat /\ DOMAIN d.slots = 1..n
      /\ m \in Nat /\ DOMAIN d.steps = 1..m
  BY FittingIs
<1>4. /\ SlotsOf(v) = (a + 1)..(a + n) /\ StepsOf(v) = (b + 1)..(b + m)
      /\ versions[v].start = b + d.start
      /\ \A i \in 1..n : slots[a + i].autofill = d.slots[i].autofill
  BY <1>1, <1>2, <1>3 DEF LaidOut
<1>5. slotIds = [i \in 1..n |-> a + i] /\ stepIds = [i \in 1..m |-> b + i]
  BY <1>3, <1>4, PositionsAre
<1>6. Position(StepsOf(v), versions[v].start) = d.start
  <2>1. d.start \in 1..m
    BY <1>3 DEF IndicesFit
  <2> HIDE DEF m
  <2>2. \A i \in 1..m : Position(StepsOf(v), b + i) = i
    BY <1>3, <1>4, PositionsAre
  <2> QED BY <1>4, <2>1, <2>2
<1>7. Listed(f) = f /\ Listed(g) = g /\ DOMAIN f = 1..n /\ DOMAIN g = 1..m
  <2>1. /\ DOMAIN f = 1..n /\ f = [i \in 1..n |-> f[i]]
        /\ DOMAIN g = 1..m /\ g = [i \in 1..m |-> g[i]]
    BY <1>5
  <2> HIDE DEF f, g, n, m
  <2> QED BY <1>3, <2>1, ListedIs
<1> DEFINE e == Structure(v)
<1>8. e.start = d.start /\ e.slots = f /\ e.steps = g
  BY <1>6, <1>7 DEF Structure, Process
<1>9. \A i \in 1..n : f[i].autofill = d.slots[i].autofill
  BY <1>4, <1>5 DEF ReadSlot, Slot
<1>10. ASSUME NEW i \in 1..m
       PROVE  /\ Range(g[i].slots) = Range(d.steps[i].slots)
              /\ WhereTo(g[i].links) = WhereTo(d.steps[i].links)
  <2>1. i \in DOMAIN d.steps /\ g[i] = ReadStep(v, b + i)
    BY <1>3, <1>5
  <2> HIDE DEF g
  <2>2. Range(ReadStep(v, b + i).slots) = Range(d.steps[i].slots)
    BY <1>1, <1>2, <2>1, GrantsReadBack
  <2>3. WhereTo(ReadStep(v, b + i).links) = WhereTo(d.steps[i].links)
    BY <1>1, <1>2, <2>1, LinksReadBack
  <2> QED BY <2>1, <2>2, <2>3
<1> HIDE DEF e, f, g, n, m
<1>11. Shape(e) = Shape(d)
  BY <1>3, <1>7, <1>8, <1>9, <1>10 DEF Shape, WhereTo
<1> QED BY <1>2, <1>11 DEF e

\* Whatever was created, refused, renamed or limited since, a version reads
\* back in the shape it was asked for.
THEOREM VersionsReadBack == Spec => []ReadsBack
<1>1. ProcessesInvariant /\ LayoutSound => ReadsBack
  BY StructureReadsBack DEF ReadsBack
<1> QED BY <1>1, Layout, PTL

\* A version gives its process its name, but for renames that the request
\* could not see.
THEOREM VersionsNameProcess == Spec => NewVersionNamesProcess
<1> DEFINE Body == Len(versions') > Len(versions) =>
        LET v == Len(versions')
            p == versions'[v].process
        IN  \/ processes'[p] = asked'[v].name
            \/ \E l \in loaded : /\ l.process = p
                                 /\ l.name = asked'[v].name
                                 /\ l.name # processes[p]
<1>1. ASSUME ProcessesInvariant, LayoutSound, [Next]_vars PROVE Body
  <2>1. UNCHANGED versions => Body
    <3>1. Len(versions) \in Nat
      BY <1>1, AskedFor
    <3> QED BY <3>1
  <2>2. ASSUME NEW p, NEW d, NEW named, StoreVersion(p, d, named),
               Len(versions') > Len(versions)
        PROVE  /\ processes' = named /\ versions'[Len(versions')].process = p
               /\ asked'[Len(versions')] = d
    <3>1. /\ Len(versions') = Len(versions) + 1 /\ processes' = named
          /\ versions'[Len(versions')].process = p /\ asked' = Append(asked, d)
      BY <1>1, <2>2, StoresOne
    <3>2. asked \in Seq(Fitting) /\ Len(asked) = Len(versions)
      BY <1>1 DEF LayoutSound
    <3>3. asked'[Len(asked) + 1] = d
      <4> DEFINE Held == Fitting \cup {d}
      <4>1. asked \in Seq(Held) /\ d \in Held
        BY <3>2
      <4> HIDE DEF Held
      <4> QED BY <3>1, <4>1, AppendProperties
    <3> QED BY <3>1, <3>2, <3>3
  <2>3. ASSUME CreateProcess, Len(versions') > Len(versions)
        PROVE  processes'[versions'[Len(versions')].process] = asked'[Len(versions')].name
    <3>1. ~UNCHANGED versions
      <4>1. Len(versions) \in Nat
        BY <1>1, AskedFor
      <4> QED BY <2>3, <4>1
    <3>2. PICK d \in AskedNow :
              StoreVersion(Len(processes) + 1, d, Append(processes, d.name))
      BY <2>3, <3>1 DEF CreateProcess, tables
    <3>3. /\ processes' = Append(processes, d.name)
          /\ versions'[Len(versions')].process = Len(processes) + 1
          /\ asked'[Len(versions')] = d
      BY <2>2, <2>3, <3>2
    <3>4. processes'[Len(processes) + 1] = d.name
      <4> DEFINE Held == STRING \cup {d.name}
      <4>1. processes \in Seq(Held) /\ d.name \in Held
        BY <1>1 DEF ProcessesInvariant, TypeOK
      <4> HIDE DEF Held
      <4> QED BY <3>3, <4>1, AppendProperties
    <3> QED BY <3>3, <3>4
  <2>4. ASSUME CreateVersion, Len(versions') > Len(versions)
        PROVE  LET p == versions'[Len(versions')].process
               IN  \/ processes'[p] = asked'[Len(versions')].name
                   \/ \E l \in loaded : /\ l.process = p
                                        /\ l.name = asked'[Len(versions')].name
                                        /\ l.name # processes[p]
    <3>1. ~UNCHANGED versions
      <4>1. Len(versions) \in Nat
        BY <1>1, AskedFor
      <4> QED BY <2>4, <4>1
    <3>2. PICK l \in loaded, d \in AskedNow :
              StoreVersion(l.process, d, IF d.name = l.name THEN processes
                                         ELSE [processes EXCEPT ![l.process] = d.name])
      BY <2>4, <3>1 DEF CreateVersion, CreateVersionIn, tables
    <3>3. /\ processes' = IF d.name = l.name THEN processes
                          ELSE [processes EXCEPT ![l.process] = d.name]
          /\ versions'[Len(versions')].process = l.process
          /\ asked'[Len(versions')] = d
      BY <2>2, <2>4, <3>2
    <3>4. processes \in Seq(STRING) /\ l.process \in DOMAIN processes
      BY <1>1 DEF ProcessesInvariant, TypeOK
    <3>5. \/ processes'[l.process] = d.name
          \/ d.name = l.name /\ l.name # processes[l.process]
      BY <3>3, <3>4
    <3> QED BY <3>3, <3>5
  <2>5. Next => UNCHANGED versions \/ CreateProcess \/ CreateVersion
    BY DEF Next, LoadProcess, UpdateProcess, DeleteProcess,
           ModifySlotInProcess, ModifyStepInProcess, ModifyLinkInProcess,
           ModifySlotInVersion, ModifyStepInVersion, ModifyLinkInVersion,
           VersionNotFound, ModifySlot, ModifyStep, ModifyLink, SetLink, SetSlot,
           Refuse, tables
  <2>6. CASE UNCHANGED versions
    BY <2>1, <2>6
  <2>7. CASE CreateProcess
    BY <2>3, <2>7
  <2>8. CASE CreateVersion
    BY <2>4, <2>8
  <2> QED BY <1>1, <2>5, <2>6, <2>7, <2>8 DEF vars, tables
<1>2. ProcessesInvariant /\ LayoutSound /\ [Next]_vars => [Body]_vars
  BY <1>1
<1> HIDE DEF Body
<1>3. Spec => [][Body]_vars
  BY <1>2, Layout, PTL DEF Spec
<1> QED BY <1>3 DEF Body, NewVersionNamesProcess

-----------------------------------------------------------------------------
(***************************************************************************)
(* What validate lets through is Accepted, and nothing else is.  First,    *)
(* induction, stated for a set of naturals, and functions that are defined *)
(* from one place to the next.                                             *)
(***************************************************************************)
\* What holds of 0 and of k whenever of k - 1 holds up to n.
LEMMA Induction ==
  ASSUME NEW n \in Nat, NEW S, 0 \in S,
         \A k \in 1..n : k - 1 \in S => k \in S
  PROVE  0..n \subseteq S
<1> SUFFICES ASSUME (0..n) \ S # {} PROVE FALSE
  OBVIOUS
<1> DEFINE T == (0..n) \ S
<1>1. T \in SUBSET Nat /\ T # {}
  OBVIOUS
<1> HIDE DEF T
<1>2. PICK k \in T : \A m \in T : k <= m
  BY <1>1, LeastNatural
<1>3. k \in 1..n /\ k \notin S
  BY <1>2 DEF T
<1>4. k - 1 \in T
  BY <1>3 DEF T
<1>5. ~(k <= k - 1)
  BY <1>3
<1> QED BY <1>2, <1>4, <1>5

\* A function on 0..n is defined by its start and its steps.
Advances(n, T) == [1..n -> [T -> T]]
IsIterated(f, n, T, start, step) ==
    /\ f \in [0..n -> T]
    /\ f[0] = start
    /\ \A k \in 1..n : f[k] = step[k][f[k - 1]]

LEMMA Iteration ==
  ASSUME NEW n \in Nat, NEW T, NEW start \in T, NEW step, step \in Advances(n, T)
  PROVE  \E f : IsIterated(f, n, T, start, step)
<1> USE DEF Advances
<1> DEFINE Good(m) == \E f \in [0..m -> T] :
                f[0] = start /\ \A k \in 1..m : f[k] = step[k][f[k - 1]]
           S == {m \in 0..n : Good(m)}
<1>1. 0 \in S
  <2> DEFINE f == [k \in 0..0 |-> start]
  <2>1. f \in [0..0 -> T] /\ f[0] = start /\ \A k \in 1..0 : f[k] = step[k][f[k - 1]]
    OBVIOUS
  <2> HIDE DEF f
  <2>2. Good(0)
    BY <2>1
  <2> HIDE DEF Good
  <2> QED BY <2>2
<1>2. ASSUME NEW m \in 1..n, m - 1 \in S
      PROVE  m \in S
  <2>1. PICK f \in [0..(m - 1) -> T] :
            f[0] = start /\ \A k \in 1..(m - 1) : f[k] = step[k][f[k - 1]]
    BY <1>2
  <2> DEFINE g == [k \in 0..m |-> IF k = m THEN step[m][f[m - 1]] ELSE f[k]]
  <2>2. f[m - 1] \in T /\ step[m] \in [T -> T]
    BY <2>1
  <2>3. step[m][f[m - 1]] \in T
    BY <2>2
  <2>4. g \in [0..m -> T]
    BY <2>1, <2>3
  <2>5. g[0] = start
    BY <2>1
  <2>6. ASSUME NEW k \in 1..m PROVE g[k] = step[k][g[k - 1]]
    <3>1. k - 1 \in 0..(m - 1) /\ g[k - 1] = f[k - 1]
      OBVIOUS
    <3>2. CASE k = m
      <4>1. g[m] = step[m][f[m - 1]]
        OBVIOUS
      <4> HIDE DEF g
      <4> QED BY <3>1, <3>2, <4>1
    <3>3. CASE k # m
      <4>1. g[k] = f[k] /\ k \in 1..(m - 1)
        BY <3>3
      <4> HIDE DEF g
      <4> QED BY <2>1, <3>1, <4>1
    <3> QED BY <3>2, <3>3
  <2> HIDE DEF g
  <2>7. Good(m)
    BY <2>4, <2>5, <2>6
  <2> HIDE DEF Good
  <2> QED BY <2>7
<1> HIDE DEF S
<1>3. 0..n \subseteq S
  BY <1>1, <1>2, Induction
<1>4. n \in S
  BY <1>3
<1> QED BY <1>4 DEF S, IsIterated

-----------------------------------------------------------------------------
(***************************************************************************)
(* FlattenSeq: what it holds, and how much.                                *)
(***************************************************************************)
PlacesIn(lists, S) == UNION {{i} \X DOMAIN lists[i] : i \in S}
IsConcat(z, x, y) == z = x \o y

LEMMA ConcatHolds ==
    ASSUME NEW E, NEW x \in Seq(E), NEW y \in Seq(E), NEW z, IsConcat(z, x, y)
    PROVE  /\ z \in Seq(E) /\ Len(z) = Len(x) + Len(y)
           /\ Range(z) = Range(x) \cup Range(y)
<1>1. /\ z \in Seq(E) /\ Len(z) = Len(x) + Len(y)
      /\ \A i \in 1..Len(x) : z[i] = x[i]
      /\ \A i \in 1..Len(y) : z[Len(x) + i] = y[i]
      /\ \A i \in 1..Len(z) : i \in 1..Len(x) \/ i - Len(x) \in 1..Len(y)
  BY DEF IsConcat
<1>2. DOMAIN z = 1..Len(z) /\ DOMAIN x = 1..Len(x) /\ DOMAIN y = 1..Len(y)
  BY <1>1
<1>3. Len(x) \in Nat /\ Len(y) \in Nat
  OBVIOUS
<1>4. ASSUME NEW i \in 1..Len(z) PROVE z[i] \in Range(x) \cup Range(y)
  <2>1. CASE i \in 1..Len(x)
    BY <1>1, <1>2, <2>1 DEF Range
  <2>2. CASE i - Len(x) \in 1..Len(y)
    <3>1. z[Len(x) + (i - Len(x))] = y[i - Len(x)] /\ Len(x) + (i - Len(x)) = i
      BY <1>1, <1>3, <2>2
    <3> QED BY <1>2, <2>2, <3>1 DEF Range
  <2> QED BY <1>1, <2>1, <2>2
<1>5. \A i \in 1..Len(x) : x[i] \in Range(z)
  <2>1. \A i \in 1..Len(x) : i \in 1..Len(z) /\ z[i] = x[i]
    BY <1>1, <1>3
  <2> QED BY <1>2, <2>1 DEF Range
<1>6. \A i \in 1..Len(y) : y[i] \in Range(z)
  <2>1. \A i \in 1..Len(y) : Len(x) + i \in 1..Len(z) /\ z[Len(x) + i] = y[i]
    BY <1>1, <1>3
  <2> QED BY <1>2, <2>1 DEF Range
<1>7. /\ \A e \in Range(z) : \E i \in 1..Len(z) : e = z[i]
      /\ \A e \in Range(x) : \E i \in 1..Len(x) : e = x[i]
      /\ \A e \in Range(y) : \E i \in 1..Len(y) : e = y[i]
  <2>1. \A f : \A n : DOMAIN f = 1..n => \A e \in Range(f) : \E i \in 1..n : e = f[i]
    BY DEF Range
  <2> QED BY <1>2, <2>1
<1>8. Range(z) = Range(x) \cup Range(y)
  <2>1. Range(z) \subseteq Range(x) \cup Range(y)
    BY <1>4, <1>7
  <2>2. Range(x) \subseteq Range(z) /\ Range(y) \subseteq Range(z)
    BY <1>5, <1>6, <1>7
  <2> QED BY <2>1, <2>2
<1> QED BY <1>1, <1>8

\* The first k of the lists, one after the other.
LEMMA FlattenedUpTo ==
    ASSUME NEW E, NEW lists \in Seq(Seq(E)), Len(lists) # 0
    PROVE  \E h : /\ FlattenSeq(lists) = h[Len(lists)]
                  /\ h[1] = lists[1]
                  /\ \A k \in 2..Len(lists) : IsConcat(h[k], h[k - 1], lists[k])
<1> DEFINE C == Len(lists)
           empty == << >>
           step == [k \in 1..C |-> [Q \in Seq(E) |-> Q \o lists[k]]]
           IsMade(g) == g = [i \in 1..C |->
                IF i = 1 THEN lists[i] ELSE g[i - 1] \o lists[i]]
<1>1. C \in Nat /\ C # 0 /\ \A k \in 1..C : lists[k] \in Seq(E)
  OBVIOUS
<1>2. empty \in Seq(E)
  OBVIOUS
<1> HIDE DEF C, empty
<1>3. step \in Advances(C, Seq(E))
  <2>1. \A k \in 1..C : \A Q \in Seq(E) : Q \o lists[k] \in Seq(E)
    BY <1>1
  <2> QED BY <2>1 DEF Advances
<1>4. \A k \in 1..C, Q \in Seq(E) : step[k][Q] = Q \o lists[k]
  OBVIOUS
<1> HIDE DEF step
<1>5. PICK f : IsIterated(f, C, Seq(E), empty, step)
  BY <1>1, <1>2, <1>3, Iteration
<1>6. ASSUME NEW k \in 1..C PROVE f[k] = f[k - 1] \o lists[k] /\ f[k] \in Seq(E)
  <2>1. k - 1 \in 0..C /\ k \in 0..C
    BY <1>1
  <2>2. f[k - 1] \in Seq(E) /\ f[k] \in Seq(E)
    BY <1>5, <2>1 DEF IsIterated
  <2> QED BY <1>4, <1>5, <2>2 DEF IsIterated
<1>7. f[1] = lists[1]
  <2>1. PICK k \in 1..C : k = 1
    BY <1>1
  <2>2. f[k] = f[k - 1] \o lists[k]
    BY <1>6
  <2>3. f[k - 1] = empty
    <3>1. k - 1 = 0
      BY <2>1
    <3> QED BY <1>5, <3>1 DEF IsIterated
  <2>4. lists[k] \in Seq(E) /\ empty \o lists[k] = lists[k]
    BY <1>1, ConcatEmptySeq DEF empty
  <2> QED BY <2>1, <2>2, <2>3, <2>4
<1> DEFINE g == [i \in 1..C |-> f[i]]
<1>8. IsMade(g)
  <2>1. ASSUME NEW i \in 1..C
        PROVE  g[i] = IF i = 1 THEN lists[i] ELSE g[i - 1] \o lists[i]
    <3>1. CASE i = 1
      BY <1>7, <3>1
    <3>2. CASE i # 1
      <4>1. i - 1 \in 1..C
        BY <1>1, <3>2
      <4>2. g[i] = f[i] /\ g[i - 1] = f[i - 1]
        BY <4>1
      <4> HIDE DEF g
      <4> QED BY <1>6, <3>2, <4>2
    <3> QED BY <3>1, <3>2
  <2>2. g = [i \in 1..C |-> g[i]]
    OBVIOUS
  <2> HIDE DEF g
  <2>3. g = [i \in 1..C |-> IF i = 1 THEN lists[i] ELSE g[i - 1] \o lists[i]]
    BY <2>1, <2>2
  <2> QED BY <2>3
<1> HIDE DEF g
<1> DEFINE h == CHOOSE u : IsMade(u)
<1>9. IsMade(h)
  BY <1>8, Zenon
<1>10. FlattenSeq(lists) = h[C]
  BY <1>1 DEF FlattenSeq, C
<1>11. h = [i \in 1..C |-> IF i = 1 THEN lists[i] ELSE h[i - 1] \o lists[i]]
  BY <1>9
<1> HIDE DEF h, IsMade
<1>12. h[1] = lists[1]
  BY <1>1, <1>11
<1>13. ASSUME NEW k \in 2..C PROVE IsConcat(h[k], h[k - 1], lists[k])
  <2>1. k \in 1..C /\ k # 1
    BY <1>1
  <2> QED BY <1>11, <2>1 DEF IsConcat
<1> QED BY <1>10, <1>12, <1>13 DEF C

LEMMA PlacesFinite ==
    ASSUME NEW E, NEW lists \in Seq(Seq(E)), NEW S \in SUBSET DOMAIN lists
    PROVE  IsFiniteSet(PlacesIn(lists, S)) /\ Cardinality(PlacesIn(lists, S)) \in Nat
<1> DEFINE f == [i \in S |-> {i} \X DOMAIN lists[i]]
           places == {f[i] : i \in S}
<1>1. IsFiniteSet(S)
  BY FS_Interval, FS_Subset, 1 \in Int, Len(lists) \in Int, DOMAIN lists = 1..Len(lists)
<1>2. ASSUME NEW i \in S PROVE IsFiniteSet(f[i])
  <2>1. lists[i] \in Seq(E)
    OBVIOUS
  <2>2. DOMAIN lists[i] = 1..Len(lists[i]) /\ Len(lists[i]) \in Int
    BY <2>1
  <2>3. IsFiniteSet(DOMAIN lists[i])
    BY <2>2, FS_Interval, 1 \in Int
  <2>4. IsFiniteSet({i} \X DOMAIN lists[i])
    BY <2>3, FS_Singleton, FS_Product
  <2> QED BY <2>4
<1>3. PlacesIn(lists, S) = UNION places
  <2>1. places = {{i} \X DOMAIN lists[i] : i \in S}
    OBVIOUS
  <2> HIDE DEF places
  <2> QED BY <2>1 DEF PlacesIn
<1>4. DOMAIN f = S
  OBVIOUS
<1> HIDE DEF f
<1>5. IsFiniteSet(places)
  BY <1>1, <1>4, ImageFinite
<1>6. IsFiniteSet(UNION places)
  <2>1. \A T \in places : IsFiniteSet(T)
    BY <1>2
  <2> HIDE DEF places
  <2> QED BY <1>5, <2>1, FS_UNION
<1> QED BY <1>3, <1>6, FS_CardinalityType

LEMMA PlacesAdd ==
    ASSUME NEW E, NEW lists \in Seq(Seq(E)), NEW S \in SUBSET DOMAIN lists,
           NEW i \in DOMAIN lists, i \notin S
    PROVE  /\ Len(lists[i]) \in Nat
           /\ Cardinality(PlacesIn(lists, S \cup {i}))
                  = Cardinality(PlacesIn(lists, S)) + Len(lists[i])
<1> DEFINE A == PlacesIn(lists, S)  B == {i} \X DOMAIN lists[i]
<1>1. PlacesIn(lists, S \cup {i}) = A \cup B
  BY DEF PlacesIn
<1>2. A \cap B = {}
  BY DEF PlacesIn
<1>3. IsFiniteSet(A) /\ Cardinality(A) \in Nat
  BY PlacesFinite
<1>4. lists[i] \in Seq(E)
  OBVIOUS
<1>5. DOMAIN lists[i] = 1..Len(lists[i]) /\ Len(lists[i]) \in Nat
  BY <1>4
<1>6. IsFiniteSet(B) /\ Cardinality(B) = Len(lists[i])
  <2> DEFINE n == Len(lists[i])
  <2>1. n \in Nat /\ n \in Int
    BY <1>5
  <2> HIDE DEF n
  <2>2. IsFiniteSet(1..n) /\ Cardinality(1..n) = IF 1 > n THEN 0 ELSE n - 1 + 1
    BY <2>1, FS_Interval, 1 \in Int
  <2>3. Cardinality(1..n) = n
    BY <2>1, <2>2
  <2>4. IsFiniteSet({i}) /\ Cardinality({i}) = 1
    BY FS_Singleton
  <2>5. /\ IsFiniteSet({i} \X (1..n))
        /\ Cardinality({i} \X (1..n)) = Cardinality({i}) * Cardinality(1..n)
    BY <2>2, <2>4, FS_Product
  <2>6. 1 * n = n
    BY <2>1
  <2> QED BY <1>5, <2>3, <2>4, <2>5, <2>6 DEF n
<1> HIDE DEF A, B
<1>7. Cardinality(A \cup B) = Cardinality(A) + Cardinality(B) - Cardinality(A \cap B)
  BY <1>3, <1>6, FS_Union
<1>8. Cardinality(A \cap B) = 0
  BY <1>2, FS_EmptySet, Zenon
<1>9. Cardinality(A \cup B) = Cardinality(A) + Len(lists[i])
  BY <1>3, <1>5, <1>6, <1>7, <1>8
<1> QED BY <1>1, <1>5, <1>9 DEF A

LEMMA FlattenIs ==
    ASSUME NEW E, NEW lists \in Seq(Seq(E))
    PROVE  /\ FlattenSeq(lists) \in Seq(E)
           /\ Range(FlattenSeq(lists)) = UNION {Range(lists[i]) : i \in DOMAIN lists}
           /\ Len(FlattenSeq(lists)) = Cardinality(PlacesIn(lists, DOMAIN lists))
<1> DEFINE C == Len(lists)
<1>1. C \in Nat /\ DOMAIN lists = 1..C
  OBVIOUS
<1>2. CASE C = 0
  <2>1. FlattenSeq(lists) = lists /\ lists = << >>
    BY <1>2 DEF FlattenSeq
  <2>2. DOMAIN lists = {}
    BY <1>1, <1>2
  <2>3. PlacesIn(lists, DOMAIN lists) = {} /\ Range(lists) = {}
    BY <2>2 DEF PlacesIn, Range
  <2> QED BY <2>1, <2>2, <2>3, FS_EmptySet
<1>3. CASE C # 0
  <2>1. PICK h : /\ FlattenSeq(lists) = h[C] /\ h[1] = lists[1]
                 /\ \A k \in 2..C : IsConcat(h[k], h[k - 1], lists[k])
    BY <1>3, FlattenedUpTo
  <2> HIDE DEF C
  <2> DEFINE Elements(k) == UNION {Range(lists[i]) : i \in 1..k}
             upTo(k) == /\ h[k] \in Seq(E)
                        /\ Range(h[k]) = Elements(k)
                        /\ Len(h[k]) = Cardinality(PlacesIn(lists, 1..k))
             T == {k \in 0..C : k = 0 \/ upTo(k)}
  <2>2. \A k \in 1..C : lists[k] \in Seq(E)
    BY <1>1
  <2>3. ASSUME NEW k \in 1..C
        PROVE  /\ 1..k = (1..(k - 1)) \cup {k} /\ k \notin 1..(k - 1)
               /\ Cardinality(PlacesIn(lists, 1..k)) =
                      Cardinality(PlacesIn(lists, 1..(k - 1))) + Len(lists[k])
               /\ Elements(k) = Elements(k - 1) \cup Range(lists[k])
    <3>1. /\ 1..k = (1..(k - 1)) \cup {k} /\ k \notin 1..(k - 1)
          /\ 1..(k - 1) \in SUBSET (1..C)
      BY <1>1
    <3>2. Cardinality(PlacesIn(lists, (1..(k - 1)) \cup {k})) =
              Cardinality(PlacesIn(lists, 1..(k - 1))) + Len(lists[k])
      BY <1>1, <3>1, PlacesAdd
    <3>3. Elements(k) = Elements(k - 1) \cup Range(lists[k])
      <4> DEFINE Of(S) == UNION {Range(lists[i]) : i \in S}
      <4>1. Of((1..(k - 1)) \cup {k}) = Of(1..(k - 1)) \cup Range(lists[k])
        OBVIOUS
      <4>2. Of(1..k) = Of(1..(k - 1)) \cup Range(lists[k])
        <5> HIDE DEF Of
        <5> QED BY <3>1, <4>1
      <4> QED BY <4>2
    <3>4. Cardinality(PlacesIn(lists, 1..k)) =
              Cardinality(PlacesIn(lists, 1..(k - 1))) + Len(lists[k])
      <4> DEFINE Much(S) == Cardinality(PlacesIn(lists, S))
      <4>1. Much((1..(k - 1)) \cup {k}) = Much(1..(k - 1)) + Len(lists[k])
        BY <3>2
      <4>2. Much(1..k) = Much(1..(k - 1)) + Len(lists[k])
        <5> HIDE DEF Much
        <5> QED BY <3>1, <4>1
      <4> QED BY <4>2
    <3> HIDE DEF Elements
    <3> QED BY <3>1, <3>3, <3>4
  <2>4. 1 \in T
    <3>1. PICK k \in 1..C : k = 1
      BY <1>1, <1>3
    <3>2. 1..(k - 1) = {}
      BY <3>1
    <3>3. Cardinality(PlacesIn(lists, 1..(k - 1))) = 0
      <4>1. PlacesIn(lists, 1..(k - 1)) = {}
        BY <3>2 DEF PlacesIn
      <4> QED BY <4>1, FS_EmptySet, Zenon
    <3>4. Elements(k - 1) = {}
      BY <3>2
    <3>5. h[k] = lists[k] /\ lists[k] \in Seq(E)
      BY <2>1, <2>2, <3>1
    <3>6. Len(lists[k]) \in Nat
      BY <3>5
    <3>7. upTo(k)
      <4> HIDE DEF Elements
      <4> DEFINE low == Cardinality(PlacesIn(lists, 1..(k - 1)))
                 high == Cardinality(PlacesIn(lists, 1..k))
      <4>1. high = low + Len(lists[k]) /\ low = 0
        BY <2>3, <3>3
      <4> HIDE DEF low, high
      <4>2. high = Len(lists[k])
        BY <4>1, <3>6
      <4>3. Elements(k) = Range(lists[k])
        <5>1. Elements(k) = Elements(k - 1) \cup Range(lists[k])
          BY <2>3
        <5>2. \A A, B, R : A = B \cup R /\ B = {} => A = R
          OBVIOUS
        <5> HIDE DEF low, high
        <5> QED BY <3>4, <5>1, <5>2, Zenon
      <4> QED BY <3>5, <4>2, <4>3 DEF high
    <3> HIDE DEF upTo
    <3>8. k \in 0..C
      BY <1>1
    <3> QED BY <3>1, <3>7, <3>8
  <2>5. ASSUME NEW k \in 1..C, k - 1 \in T PROVE k \in T
    <3>1. CASE k = 1
      BY <2>4, <3>1
    <3>2. CASE k # 1
      <4>1. k \in 2..C /\ k \in 0..C
        BY <1>1, <3>2
      <4>2. upTo(k - 1)
        <5>1. k - 1 # 0
          BY <3>2
        <5> HIDE DEF upTo
        <5> QED BY <2>5, <5>1
      <4> DEFINE x == h[k - 1]  y == lists[k]  z == h[k]
                 low == Cardinality(PlacesIn(lists, 1..(k - 1)))
                 high == Cardinality(PlacesIn(lists, 1..k))
      <4>3. IsConcat(z, x, y) /\ y \in Seq(E) /\ x \in Seq(E)
        BY <2>1, <2>2, <4>1, <4>2
      <4>4. /\ Len(x) = low /\ high = low + Len(y)
            /\ Range(x) = Elements(k - 1) /\ Elements(k) = Elements(k - 1) \cup Range(y)
        <5> HIDE DEF Elements
        <5> QED BY <2>3, <4>2
      <4>5. /\ z \in Seq(E) /\ Len(z) = Len(x) + Len(y)
            /\ Range(z) = Range(x) \cup Range(y)
        <5> HIDE DEF x, y, z
        <5> QED BY <4>3, ConcatHolds
      <4>6. /\ z \in Seq(E) /\ Len(z) = high /\ Range(z) = Elements(k)
        <5> HIDE DEF x, y, z, low, high, Elements
        <5> QED BY <4>4, <4>5
      <4>7. upTo(k)
        <5> HIDE DEF Elements
        <5> QED BY <4>6
      <4> HIDE DEF upTo
      <4> QED BY <4>1, <4>7
    <3> QED BY <3>1, <3>2
  <2>6. 0 \in T
    BY <1>1
  <2> HIDE DEF T
  <2>7. 0..C \subseteq T
    BY <1>1, <2>5, <2>6, Induction
  <2>8. C \in 0..C
    BY <1>1
  <2>9. upTo(C)
    BY <1>3, <2>7, <2>8 DEF T
  <2> QED BY <1>1, <2>1, <2>9
<1> QED BY <1>2, <1>3

\* A filter keeps the elements of S.
LEMMA AmongIs ==
    ASSUME NEW E, NEW s \in Seq(E), NEW S
    PROVE  Among(s, S) \in Seq(E) /\ Range(Among(s, S)) = Range(s) \cap S
<1> DEFINE lists == [k \in DOMAIN s |-> IF s[k] \in S THEN <<s[k]>> ELSE << >>]
<1>1. Len(s) \in Nat /\ DOMAIN s = 1..Len(s) /\ \A k \in DOMAIN s : s[k] \in E
  OBVIOUS
<1>2. ASSUME NEW k \in DOMAIN s
      PROVE  lists[k] \in Seq(E) /\ Range(lists[k]) = {s[k]} \cap S
  <2>1. CASE s[k] \in S
    <3>1. lists[k] = <<s[k]>>
      BY <2>1
    <3>2. Range(<<s[k]>>) = {s[k]} /\ <<s[k]>> \in Seq(E)
      BY <1>1 DEF Range
    <3> HIDE DEF lists
    <3> QED BY <2>1, <3>1, <3>2
  <2>2. CASE s[k] \notin S
    <3>1. lists[k] = << >>
      BY <2>2
    <3>2. Range(<< >>) = {} /\ << >> \in Seq(E)
      BY DEF Range
    <3> HIDE DEF lists
    <3> QED BY <2>2, <3>1, <3>2
  <2> QED BY <2>1, <2>2
<1>3. DOMAIN lists = 1..Len(s)
  BY <1>1
<1>4. Among(s, S) = FlattenSeq(lists) /\ lists = [k \in DOMAIN s |-> lists[k]]
  BY DEF Among
<1> HIDE DEF lists
<1>5. lists \in Seq(Seq(E))
  <2>1. \A k \in 1..Len(s) : lists[k] \in Seq(E)
    BY <1>1, <1>2
  <2>2. lists = [k \in 1..Len(s) |-> lists[k]]
    BY <1>1, <1>4
  <2> QED BY <1>1, <2>1, <2>2
<1>6. /\ FlattenSeq(lists) \in Seq(E)
      /\ Range(FlattenSeq(lists)) = UNION {Range(lists[i]) : i \in DOMAIN lists}
  BY <1>5, FlattenIs
<1>7. UNION {Range(lists[i]) : i \in DOMAIN lists} = Range(s) \cap S
  BY <1>1, <1>2, <1>3 DEF Range
<1> QED BY <1>4, <1>6, <1>7

-----------------------------------------------------------------------------
(***************************************************************************)
(* The work list.  What was seen and what is on the stack is never more    *)
(* than what is reached from the seeds, and has every neighbour of what    *)
(* was seen; every pop takes one of the seeds or one of the edges that     *)
(* leave what was seen, so that the stack is empty at the end.             *)
(***************************************************************************)
Closed(next, S) == \A i \in S : Range(next[i]) \subseteq S

Work(n) == [seen : SUBSET (1..n), stack : Seq(1..n)]
Worked(next, w) == IF w.stack = << >> THEN w ELSE Pop(w, next)

\* node is taken from the stack and rest stays.
Popped(w, next, node, rest) ==
    /\ Range(w.stack) = Range(rest) \cup {node}
    /\ Len(w.stack) = Len(rest) + 1
    /\ node \in w.seen => Pop(w, next) = [seen |-> w.seen, stack |-> rest]
    /\ node \notin w.seen =>
        \E more : /\ IsConcat(more, rest, next[node])
                  /\ Pop(w, next) = [seen |-> w.seen \cup {node}, stack |-> more]

LEMMA PopIs ==
    ASSUME NEW n \in Nat, NEW next \in Seq(Seq(1..n)), Len(next) = n,
           NEW w \in Work(n), w.stack # << >>
    PROVE  \E node \in 1..n, rest \in Seq(1..n) : Popped(w, next, node, rest)
<1> DEFINE s == w.stack  node == Last(s)  rest == Front(s)
<1>1. w.seen \in SUBSET (1..n) /\ s \in Seq(1..n) /\ w = [seen |-> w.seen, stack |-> s]
  BY DEF Work
<1>2. Len(s) \in Nat /\ Len(s) # 0 /\ DOMAIN s = 1..Len(s)
  BY <1>1
<1>3. node = s[Len(s)] /\ node \in 1..n
  BY <1>1, <1>2 DEF Last
<1>4. /\ rest \in Seq(1..n) /\ Len(rest) = Len(s) - 1
      /\ \A i \in 1..(Len(s) - 1) : rest[i] = s[i]
  <2> HIDE DEF s
  <2> QED BY <1>1, <1>2 DEF Front
<1>5. Range(s) = Range(rest) \cup {node}
  <2>1. DOMAIN rest = 1..(Len(s) - 1)
    BY <1>4
  <2>2. \A i \in 1..Len(s) : i = Len(s) \/ i \in 1..(Len(s) - 1)
    BY <1>2
  <2>3. Len(s) \in 1..Len(s) /\ \A i \in 1..(Len(s) - 1) : i \in 1..Len(s)
    BY <1>2
  <2> HIDE DEF s, node, rest
  <2>4. Range(s) \subseteq Range(rest) \cup {node}
    BY <1>2, <1>3, <1>4, <2>1, <2>2 DEF Range
  <2>5. Range(rest) \subseteq Range(s) /\ node \in Range(s)
    BY <1>2, <1>3, <1>4, <2>1, <2>3 DEF Range
  <2> QED BY <2>4, <2>5
<1>6. node \in w.seen => Pop(w, next) = [seen |-> w.seen, stack |-> rest]
  <2>1. node \in w.seen => Pop(w, next) = [w EXCEPT !.stack = rest]
    BY DEF Pop
  <2> HIDE DEF node, rest, s
  <2> QED BY <1>1, <2>1
<1>7. ASSUME node \notin w.seen
      PROVE  \E more : /\ IsConcat(more, rest, next[node])
                       /\ Pop(w, next) = [seen |-> w.seen \cup {node}, stack |-> more]
  <2>1. Pop(w, next) = [seen |-> w.seen \cup {node}, stack |-> rest \o next[node]]
    BY <1>7 DEF Pop
  <2> HIDE DEF node, rest, s
  <2> QED BY <2>1 DEF IsConcat
<1>8. Len(s) = Len(rest) + 1
  <2>1. Len(rest) \in Nat
    BY <1>4
  <2> HIDE DEF rest, s
  <2> QED BY <1>2, <1>4, <2>1
<1> HIDE DEF node, rest, s
<1>9. Popped(w, next, node, rest)
  BY <1>5, <1>6, <1>7, <1>8 DEF Popped, s
<1> QED BY <1>3, <1>4, <1>9

\* The work after k pops.
Explored(seeds, next, n, k, w) ==
    /\ w \in Work(n)
    /\ Range(seeds) \subseteq w.seen \cup Range(w.stack)
    /\ \A i \in w.seen : Range(next[i]) \subseteq w.seen \cup Range(w.stack)
    /\ \A S \in SUBSET (1..n) :
        Range(seeds) \subseteq S /\ Closed(next, S) =>
            w.seen \subseteq S /\ Range(w.stack) \subseteq S
    /\ \/ w.stack = << >>
       \/ k + Len(w.stack) <= Len(seeds) + Cardinality(PlacesIn(next, w.seen))

LEMMA PopExplores ==
    ASSUME NEW n \in Nat, NEW next \in Seq(Seq(1..n)), Len(next) = n,
           NEW seeds \in Seq(1..n), NEW k \in Nat, NEW w,
           Explored(seeds, next, n, k, w)
    PROVE  Explored(seeds, next, n, k + 1, Worked(next, w))
<1>0. /\ w \in Work(n) /\ w.seen \in SUBSET (1..n) /\ w.stack \in Seq(1..n)
      /\ \A i \in 1..n : next[i] \in Seq(1..n)
      /\ DOMAIN next = 1..n
  BY DEF Explored, Work
<1>1. CASE w.stack = << >>
  <2>1. Worked(next, w) = w
    BY <1>1 DEF Worked
  <2> QED BY <1>1, <2>1 DEF Explored
<1>2. CASE w.stack # << >>
  <2>a. PICK node \in 1..n, rest \in Seq(1..n) : Popped(w, next, node, rest)
    BY <1>0, <1>2, PopIs
  <2>1. /\ Range(w.stack) = Range(rest) \cup {node}
        /\ Len(w.stack) = Len(rest) + 1
        /\ node \in w.seen => Pop(w, next) = [seen |-> w.seen, stack |-> rest]
        /\ node \notin w.seen =>
            \E more : /\ IsConcat(more, rest, next[node])
                      /\ Pop(w, next) = [seen |-> w.seen \cup {node}, stack |-> more]
    BY <2>a DEF Popped
  <2>2. Worked(next, w) = Pop(w, next)
    BY <1>2 DEF Worked
  <2>3. k + Len(w.stack) <= Len(seeds) + Cardinality(PlacesIn(next, w.seen))
    BY <1>2 DEF Explored
  <2>4. /\ Len(rest) \in Nat /\ Len(seeds) \in Nat
        /\ Cardinality(PlacesIn(next, w.seen)) \in Nat
    BY <1>0, PlacesFinite
  <2>5. CASE node \in w.seen
    <3> DEFINE x == [seen |-> w.seen, stack |-> rest]
    <3>1. Worked(next, w) = x /\ x.seen = w.seen /\ x.stack = rest
      BY <2>1, <2>2, <2>5
    <3>2. x \in Work(n)
      BY <1>0 DEF Work
    <3> HIDE DEF x
    <3>3. (k + 1) + Len(x.stack) <= Len(seeds) + Cardinality(PlacesIn(next, x.seen))
      BY <2>1, <2>3, <2>4, <3>1
    <3>4. x.seen \cup Range(x.stack) = w.seen \cup Range(w.stack)
      BY <2>1, <2>5, <3>1
    <3> QED BY <2>1, <3>1, <3>2, <3>3, <3>4 DEF Explored
  <2>6. CASE node \notin w.seen
    <3>1. PICK more : /\ IsConcat(more, rest, next[node])
                      /\ Pop(w, next) = [seen |-> w.seen \cup {node}, stack |-> more]
      BY <2>1, <2>6
    <3> DEFINE x == [seen |-> w.seen \cup {node}, stack |-> more]
               y == next[node]
    <3>2. Worked(next, w) = x /\ x.seen = w.seen \cup {node} /\ x.stack = more
      BY <2>2, <3>1
    <3>3. y \in Seq(1..n) /\ IsConcat(more, rest, y)
      BY <1>0, <3>1
    <3>4. /\ more \in Seq(1..n) /\ Len(more) = Len(rest) + Len(y)
          /\ Range(more) = Range(rest) \cup Range(y)
      <4> HIDE DEF y, x
      <4> QED BY <3>3, ConcatHolds
    <3>5. x \in Work(n)
      BY <1>0, <3>4 DEF Work
    <3>6. /\ Len(y) \in Nat
          /\ Cardinality(PlacesIn(next, w.seen \cup {node})) =
                 Cardinality(PlacesIn(next, w.seen)) + Len(y)
      BY <1>0, <2>6, PlacesAdd
    <3> HIDE DEF x
    <3>7. (k + 1) + Len(x.stack) <= Len(seeds) + Cardinality(PlacesIn(next, x.seen))
      <4> DEFINE m == Cardinality(PlacesIn(next, w.seen))
                 u == Cardinality(PlacesIn(next, w.seen \cup {node}))
                 ly == Len(y)  lr == Len(rest)  lm == Len(more)  ls == Len(seeds)
                 lw == Len(w.stack)
      <4>1. /\ k + lw <= ls + m /\ lw = lr + 1 /\ u = m + ly /\ lm = lr + ly
            /\ m \in Nat /\ ly \in Nat /\ lr \in Nat /\ ls \in Nat
        BY <2>1, <2>3, <2>4, <3>4, <3>6
      <4> HIDE DEF m, u, ly, lr, lm, ls, lw, y
      <4>2. (k + 1) + lm <= ls + u
        BY <4>1
      <4> QED BY <3>2, <4>2 DEF lm, ls, u
    <3>8. x.seen \cup Range(x.stack) = w.seen \cup Range(w.stack) \cup Range(y)
      BY <2>1, <3>2, <3>4
    <3>9. Range(seeds) \subseteq x.seen \cup Range(x.stack)
      BY <3>8 DEF Explored
    <3>10. \A i \in x.seen : Range(next[i]) \subseteq x.seen \cup Range(x.stack)
      BY <3>2, <3>8 DEF Explored
    <3>11. ASSUME NEW S \in SUBSET (1..n), Range(seeds) \subseteq S, Closed(next, S)
           PROVE  x.seen \subseteq S /\ Range(x.stack) \subseteq S
      <4>1. w.seen \subseteq S /\ Range(w.stack) \subseteq S
        BY <3>11 DEF Explored
      <4>2. node \in S
        BY <2>1, <4>1
      <4>3. Range(y) \subseteq S
        BY <3>11, <4>2 DEF Closed
      <4> HIDE DEF y
      <4> QED BY <3>8, <4>1, <4>3
    <3> QED BY <3>2, <3>5, <3>7, <3>9, <3>10, <3>11 DEF Explored
  <2> QED BY <2>5, <2>6
<1> QED BY <1>1, <1>2

\* Explore, validate's work list, finds the least set of nodes that has the
\* seeds and the neighbours of its members, for any graph.
THEOREM ExploreReaches ==
    ASSUME NEW n \in Nat, NEW next \in Seq(Seq(1..n)), Len(next) = n,
           NEW seeds \in Seq(1..n)
    PROVE  /\ Explore(seeds, next) \subseteq 1..n
           /\ Range(seeds) \subseteq Explore(seeds, next)
           /\ Closed(next, Explore(seeds, next))
           /\ \A S \in SUBSET (1..n) :
                Range(seeds) \subseteq S /\ Closed(next, S) => Explore(seeds, next) \subseteq S
<1> DEFINE pops == Len(seeds) + Len(FlattenSeq(next))
           start == [seen |-> {}, stack |-> seeds]
           step == [k \in 1..pops |-> [w \in Work(n) |-> Worked(next, w)]]
           IsWork(f) == f = [k \in 0..pops |->
               IF k = 0 THEN [seen |-> {}, stack |-> seeds]
               ELSE IF f[k - 1].stack = << >> THEN f[k - 1]
               ELSE Pop(f[k - 1], next)]
<1>1. /\ Len(seeds) \in Nat
      /\ FlattenSeq(next) \in Seq(1..n)
      /\ Len(FlattenSeq(next)) = Cardinality(PlacesIn(next, DOMAIN next))
      /\ DOMAIN next = 1..n
  BY FlattenIs
<1>2. pops \in Nat
  BY <1>1
<1>3. start \in Work(n)
  BY DEF Work
<1> HIDE DEF start
<1>4. \A w \in Work(n) : Worked(next, w) \in Work(n)
  <2> SUFFICES ASSUME NEW w \in Work(n) PROVE Worked(next, w) \in Work(n)
    OBVIOUS
  <2>1. CASE w.stack = << >>
    BY <2>1 DEF Worked
  <2>2. CASE w.stack # << >>
    <3>a. PICK node \in 1..n, rest \in Seq(1..n) : Popped(w, next, node, rest)
      BY <2>2, PopIs
    <3>1. /\ node \in w.seen => Pop(w, next) = [seen |-> w.seen, stack |-> rest]
          /\ node \notin w.seen =>
                \E more : /\ IsConcat(more, rest, next[node])
                          /\ Pop(w, next) = [seen |-> w.seen \cup {node}, stack |-> more]
      BY <3>a DEF Popped
    <3>2. w.seen \in SUBSET (1..n) /\ next[node] \in Seq(1..n)
      BY <1>1 DEF Work
    <3>3. \A more : IsConcat(more, rest, next[node]) => more \in Seq(1..n)
      BY <3>2, ConcatHolds
    <3>4. Worked(next, w) = Pop(w, next)
      BY <2>2 DEF Worked
    <3> QED BY <3>1, <3>2, <3>3, <3>4 DEF Work
  <2> QED BY <2>1, <2>2
<1>5. step \in Advances(pops, Work(n))
  BY <1>4 DEF Advances
<1>6. \A k \in 1..pops : \A w \in Work(n) : step[k][w] = Worked(next, w)
  OBVIOUS
<1>7. Explore(seeds, next) = (CHOOSE f : IsWork(f))[pops].seen
  BY DEF Explore
<1> HIDE DEF step, pops
<1>8. PICK f : IsIterated(f, pops, Work(n), start, step)
  BY <1>2, <1>3, <1>5, Iteration
<1>9. /\ f \in [0..pops -> Work(n)] /\ f[0] = start
      /\ \A k \in 1..pops : f[k] = Worked(next, f[k - 1])
  <2>1. \A k \in 1..pops : k - 1 \in 0..pops
    BY <1>2
  <2> QED BY <1>6, <1>8, <2>1 DEF IsIterated
<1>10. IsWork(f)
  <2>1. ASSUME NEW k \in 0..pops
        PROVE  f[k] = IF k = 0 THEN [seen |-> {}, stack |-> seeds]
                      ELSE IF f[k - 1].stack = << >> THEN f[k - 1]
                      ELSE Pop(f[k - 1], next)
    <3>1. CASE k = 0
      BY <1>9, <3>1 DEF start
    <3>2. CASE k # 0
      <4>1. k \in 1..pops
        BY <1>2, <3>2
      <4> QED BY <1>9, <3>2, <4>1 DEF Worked
    <3> QED BY <3>1, <3>2
  <2>2. f = [k \in 0..pops |-> f[k]]
    BY <1>9
  <2> QED BY <2>1, <2>2
<1> DEFINE g == CHOOSE u : IsWork(u)
<1>11. IsWork(g)
  BY <1>10, Zenon
<1>12. /\ \A k \in 1..pops : g[k] = Worked(next, g[k - 1])
       /\ g[0] = start /\ Explore(seeds, next) = g[pops].seen
  <2>1. g = [k \in 0..pops |->
               IF k = 0 THEN [seen |-> {}, stack |-> seeds]
               ELSE IF g[k - 1].stack = << >> THEN g[k - 1]
               ELSE Pop(g[k - 1], next)]
    BY <1>11
  <2>2. Explore(seeds, next) = g[pops].seen
    BY <1>7
  <2> HIDE DEF g, IsWork
  <2>3. 0 \in 0..pops /\ \A k \in 1..pops : k \in 0..pops /\ k # 0
    BY <1>2
  <2> QED BY <2>1, <2>2, <2>3 DEF Worked, start
<1> HIDE DEF g, IsWork
<1> DEFINE Reached == {k \in 0..pops : Explored(seeds, next, n, k, g[k])}
<1>13. 0 \in Reached
  <2>1. Explored(seeds, next, n, 0, start)
    <3>1. start.seen = {} /\ start.stack = seeds
      BY DEF start
    <3>2. Cardinality(PlacesIn(next, {})) = 0
      <4>1. PlacesIn(next, {}) = {}
        BY DEF PlacesIn
      <4> QED BY <4>1, FS_EmptySet, Zenon
    <3>3. 0 + Len(seeds) <= Len(seeds) + Cardinality(PlacesIn(next, {}))
      BY <1>1, <3>2
    <3> QED BY <1>3, <3>1, <3>3 DEF Explored
  <2> QED BY <1>2, <1>12, <2>1
<1>14. ASSUME NEW k \in 1..pops, k - 1 \in Reached PROVE k \in Reached
  <2>1. k - 1 \in Nat /\ (k - 1) + 1 = k /\ k \in 0..pops
    BY <1>2
  <2>2. Explored(seeds, next, n, k - 1, g[k - 1])
    BY <1>14
  <2>3. Explored(seeds, next, n, (k - 1) + 1, Worked(next, g[k - 1]))
    BY <2>1, <2>2, PopExplores
  <2>4. Explored(seeds, next, n, k, g[k])
    BY <1>12, <2>1, <2>3
  <2> QED BY <2>1, <2>4
<1> HIDE DEF Reached
<1>15. 0..pops \subseteq Reached
  BY <1>2, <1>13, <1>14, Induction
<1>16. Explored(seeds, next, n, pops, g[pops])
  <2>1. pops \in 0..pops
    BY <1>2
  <2> QED BY <1>15, <2>1 DEF Reached
<1> DEFINE w == g[pops]
<1>17. w \in Work(n) /\ w.seen \in SUBSET (1..n) /\ w.stack \in Seq(1..n)
  BY <1>16 DEF Explored, Work
<1>18. w.stack = << >>
  <2>1. SUFFICES ASSUME w.stack # << >> PROVE FALSE
    OBVIOUS
  <2> DEFINE some == PlacesIn(next, w.seen)  all == PlacesIn(next, DOMAIN next)
  <2>2. pops + Len(w.stack) <= Len(seeds) + Cardinality(some)
    BY <1>16, <2>1 DEF Explored
  <2>3. some \subseteq all
    BY <1>1, <1>17 DEF PlacesIn
  <2>4. IsFiniteSet(all) /\ Cardinality(all) \in Nat /\ Cardinality(some) \in Nat
    BY <1>1, <1>17, PlacesFinite
  <2> HIDE DEF some
  <2>5. Cardinality(some) <= Cardinality(all)
    BY <2>3, <2>4, FS_Subset
  <2>6. Len(w.stack) \in Nat /\ Len(w.stack) # 0
    BY <1>17, <2>1
  <2>7. pops = Len(seeds) + Cardinality(all)
    BY <1>1 DEF pops
  <2> HIDE DEF all, w
  <2> QED BY <1>1, <2>2, <2>4, <2>5, <2>6, <2>7
<1>19. Range(w.stack) = {}
  BY <1>18 DEF Range
<1>20. /\ Range(seeds) \subseteq w.seen
       /\ \A i \in w.seen : Range(next[i]) \subseteq w.seen
       /\ \A S \in SUBSET (1..n) :
            Range(seeds) \subseteq S /\ Closed(next, S) => w.seen \subseteq S
  <2> HIDE DEF w
  <2> QED BY <1>16, <1>19 DEF Explored, w
<1> DEFINE found == w.seen
<1>21. Explore(seeds, next) = found
  BY <1>12
<1>22. /\ found \subseteq 1..n /\ Range(seeds) \subseteq found
       /\ Closed(next, found)
       /\ \A S \in SUBSET (1..n) :
            Range(seeds) \subseteq S /\ Closed(next, S) => found \subseteq S
  BY <1>17, <1>20 DEF Closed
<1> HIDE DEF found
<1> QED BY <1>21, <1>22

-----------------------------------------------------------------------------
(***************************************************************************)
(* The graph of a description, and what validate's two searches find in    *)
(* it.                                                                     *)
(***************************************************************************)
Final(d) == {i \in DOMAIN d.steps : d.steps[i].links = << >>}

LEMMA FunctionIsList ==
    ASSUME NEW n \in Nat, NEW E, NEW f \in [1..n -> E]
    PROVE  f \in Seq(E) /\ Len(f) = n
OBVIOUS

\* A sequence of sequences is one when each of its elements is.
LEMMA ListsAre ==
    ASSUME NEW n \in Nat, NEW E, NEW lists, lists = [i \in 1..n |-> lists[i]],
           \A i \in 1..n : lists[i] \in Seq(E)
    PROVE  lists \in Seq(Seq(E)) /\ Len(lists) = n /\ DOMAIN lists = 1..n
<1> DEFINE F == Seq(E)
<1>1. lists \in [1..n -> F]
  OBVIOUS
<1> HIDE DEF F
<1>2. lists \in Seq(F) /\ Len(lists) = n /\ DOMAIN lists = 1..n
  BY <1>1
<1> QED BY <1>2 DEF F

LEMMA TargetsAre ==
    ASSUME NEW d, IsDescription(d), IndicesFit(d)
    PROVE  /\ Targets(d) \in Seq(Seq(1..Len(d.steps))) /\ Len(Targets(d)) = Len(d.steps)
           /\ \A i \in DOMAIN d.steps :
                Range(Targets(d)[i]) = {j \in DOMAIN d.steps : Joined(d, i, j)}
<1> DEFINE n == Len(d.steps)
           f == [i \in DOMAIN d.steps |->
                    [k \in DOMAIN d.steps[i].links |-> d.steps[i].links[k].to]]
<1>1. n \in Nat /\ DOMAIN d.steps = 1..n
  BY RowsOfDescription
<1>2. ASSUME NEW i \in 1..n
      PROVE  /\ f[i] \in Seq(1..n)
             /\ Range(f[i]) = {j \in DOMAIN d.steps : Joined(d, i, j)}
  <2> DEFINE g == [k \in DOMAIN d.steps[i].links |-> d.steps[i].links[k].to]
             m == Len(d.steps[i].links)
  <2>1. f[i] = g
    BY <1>1
  <2>2. m \in Nat /\ DOMAIN d.steps[i].links = 1..m
    BY <1>1, RowsOfDescription
  <2>3. \A k \in 1..m : d.steps[i].links[k].to \in 1..n
    BY <1>1, <2>2 DEF IndicesFit, Range
  <2> HIDE DEF m, n
  <2>4. g \in [1..m -> 1..n]
    BY <2>2, <2>3
  <2>5. g \in Seq(1..n)
    <3> HIDE DEF g
    <3> QED BY <2>2, <2>4, FunctionIsList
  <2>6. Range(g) = {j \in DOMAIN d.steps : Joined(d, i, j)}
    BY <1>1, <2>2, <2>3 DEF Range, Joined
  <2> QED BY <2>1, <2>5, <2>6
<1>3. DOMAIN f = 1..n /\ f = [i \in 1..n |-> f[i]]
  BY <1>1
<1>4. Targets(d) = Listed(f)
  BY DEF Targets
<1> HIDE DEF f, n
<1>5. Targets(d) = f
  BY <1>1, <1>3, <1>4, ListedIs
<1>6. f \in Seq(Seq(1..n)) /\ Len(f) = n
  BY <1>1, <1>2, <1>3, ListsAre
<1>7. \A i \in DOMAIN d.steps : Range(f[i]) = {j \in DOMAIN d.steps : Joined(d, i, j)}
  BY <1>1, <1>2
<1> QED BY <1>5, <1>6, <1>7 DEF n

LEMMA OriginsAre ==
    ASSUME NEW d, IsDescription(d)
    PROVE  /\ Origins(d) \in Seq(Seq(1..Len(d.steps))) /\ Len(Origins(d)) = Len(d.steps)
           /\ \A j \in DOMAIN d.steps :
                Range(Origins(d)[j]) = {i \in DOMAIN d.steps : Joined(d, i, j)}
<1> DEFINE n == Len(d.steps)
           once(i, j) == [k \in DOMAIN d.steps[i].links |->
                             IF d.steps[i].links[k].to = j THEN <<i>> ELSE << >>]
           from(j) == [i \in DOMAIN d.steps |-> FlattenSeq(once(i, j))]
           f == [j \in DOMAIN d.steps |-> FlattenSeq(from(j))]
<1>1. n \in Nat /\ DOMAIN d.steps = 1..n
  BY RowsOfDescription
<1>2. ASSUME NEW i \in 1..n, NEW j \in 1..n
      PROVE  /\ FlattenSeq(once(i, j)) \in Seq(1..n)
             /\ Range(FlattenSeq(once(i, j))) = {x \in {i} : Joined(d, i, j)}
  <2> DEFINE m == Len(d.steps[i].links)  lists == once(i, j)
  <2>1. m \in Nat /\ DOMAIN d.steps[i].links = 1..m
    BY <1>1, RowsOfDescription
  <2>2. \A k \in 1..m : lists[k] = IF d.steps[i].links[k].to = j THEN <<i>> ELSE << >>
    BY <2>1
  <2>3. lists = [k \in 1..m |-> lists[k]]
    BY <2>1
  <2>4. <<i>> \in Seq(1..n) /\ Range(<<i>>) = {i} /\ << >> \in Seq(1..n) /\ Range(<< >>) = {}
    BY DEF Range
  <2> HIDE DEF lists, m, n
  <2>5. \A k \in 1..m : lists[k] \in Seq(1..n)
    BY <2>2, <2>4
  <2>6. lists \in Seq(Seq(1..n)) /\ DOMAIN lists = 1..m
    BY <2>1, <2>3, <2>5, ListsAre
  <2>7. /\ FlattenSeq(lists) \in Seq(1..n)
        /\ Range(FlattenSeq(lists)) = UNION {Range(lists[k]) : k \in 1..m}
    BY <2>6, FlattenIs
  <2>8. Joined(d, i, j) <=> \E k \in 1..m : d.steps[i].links[k].to = j
    BY <2>1 DEF Joined, Range
  <2>9. UNION {Range(lists[k]) : k \in 1..m} = {x \in {i} : Joined(d, i, j)}
    <3>1. \A k \in 1..m : Range(lists[k]) = {x \in {i} : d.steps[i].links[k].to = j}
      BY <2>2, <2>4
    <3> QED BY <2>8, <3>1
  <2> QED BY <2>7, <2>9 DEF lists
<1>3. ASSUME NEW j \in 1..n
      PROVE  /\ f[j] \in Seq(1..n)
             /\ Range(f[j]) = {i \in 1..n : Joined(d, i, j)}
  <2> DEFINE lists == from(j)
  <2>1. \A i \in 1..n : lists[i] = FlattenSeq(once(i, j))
    BY <1>1
  <2>2. lists = [i \in 1..n |-> lists[i]]
    BY <1>1
  <2>3. f[j] = FlattenSeq(lists)
    BY <1>1
  <2> HIDE DEF lists, n, once, f
  <2>4. \A i \in 1..n : /\ lists[i] \in Seq(1..n)
                        /\ Range(lists[i]) = {x \in {i} : Joined(d, i, j)}
    BY <1>2, <2>1
  <2>5. lists \in Seq(Seq(1..n)) /\ DOMAIN lists = 1..n
    BY <1>1, <2>2, <2>4, ListsAre
  <2>6. /\ FlattenSeq(lists) \in Seq(1..n)
        /\ Range(FlattenSeq(lists)) = UNION {Range(lists[i]) : i \in 1..n}
    BY <2>5, FlattenIs
  <2>7. UNION {Range(lists[i]) : i \in 1..n} = {i \in 1..n : Joined(d, i, j)}
    <3>1. \A i \in 1..n : \A x : x \in Range(lists[i]) <=> x = i /\ Joined(d, i, j)
      BY <2>4
    <3> QED BY <3>1
  <2> QED BY <2>3, <2>6, <2>7
<1>4. DOMAIN f = 1..n /\ f = [j \in 1..n |-> f[j]]
  BY <1>1
<1>5. Origins(d) = Listed(f)
  BY DEF Origins
<1> HIDE DEF f, n
<1>6. Origins(d) = f
  BY <1>1, <1>4, <1>5, ListedIs
<1>7. f \in Seq(Seq(1..n)) /\ Len(f) = n
  BY <1>1, <1>3, <1>4, ListsAre
<1>8. \A j \in DOMAIN d.steps : Range(f[j]) = {i \in DOMAIN d.steps : Joined(d, i, j)}
  BY <1>1, <1>3
<1> QED BY <1>6, <1>7, <1>8 DEF n

LEMMA FinalStepsAre ==
    ASSUME NEW d, IsDescription(d)
    PROVE  /\ FinalSteps(d) \in Seq(1..Len(d.steps))
           /\ Range(FinalSteps(d)) = Final(d)
<1> DEFINE n == Len(d.steps)
           all == [i \in DOMAIN d.steps |-> i]
<1>1. n \in Nat /\ DOMAIN d.steps = 1..n
  BY RowsOfDescription
<1>2. all \in Seq(1..n) /\ Range(all) = 1..n
  <2>1. all \in [1..n -> 1..n] /\ Range(all) = 1..n
    BY <1>1 DEF Range
  <2> HIDE DEF all, n
  <2> QED BY <1>1, <2>1
<1>3. FinalSteps(d) = Among(all, Final(d))
  BY DEF FinalSteps, Final
<1> HIDE DEF all, n
<1>4. FinalSteps(d) \in Seq(1..n) /\ Range(FinalSteps(d)) = (1..n) \cap Final(d)
  <2>1. /\ Among(all, Final(d)) \in Seq(1..n)
        /\ Range(Among(all, Final(d))) = Range(all) \cap Final(d)
    BY <1>2, AmongIs
  <2> QED BY <1>2, <1>3, <2>1, Zenon
<1>5. Final(d) \subseteq 1..n
  BY <1>1 DEF Final
<1> QED BY <1>4, <1>5 DEF n

\* Every step is reached from the start: a set with the start that cannot
\* be left has every step.
LEMMA ReachableIs ==
    ASSUME NEW d, IsDescription(d), IndicesFit(d)
    PROVE  Explore(<<d.start>>, Targets(d)) = DOMAIN d.steps <=>
            \A some \in SUBSET DOMAIN d.steps :
                NoWayOut(d, some) /\ d.start \in some => some = DOMAIN d.steps
<1> DEFINE n == Len(d.steps)  next == Targets(d)  seeds == <<d.start>>
           found == Explore(seeds, next)
<1>1. n \in Nat /\ DOMAIN d.steps = 1..n /\ d.start \in 1..n
  BY RowsOfDescription DEF IndicesFit
<1>2. seeds \in Seq(1..n) /\ Range(seeds) = {d.start}
  BY <1>1 DEF Range
<1>3. next \in Seq(Seq(1..n)) /\ Len(next) = n
  BY TargetsAre
<1>4. ASSUME NEW some \in SUBSET (1..n) PROVE Closed(next, some) <=> NoWayOut(d, some)
  <2>1. \A i \in some : Range(next[i]) = {j \in 1..n : Joined(d, i, j)}
    BY <1>1, TargetsAre
  <2>2. \A i \in some : \A link \in Range(d.steps[i].links) : link.to \in 1..n
    BY <1>1 DEF IndicesFit
  <2> HIDE DEF n, next
  <2> QED BY <2>1, <2>2 DEF Closed, NoWayOut, Joined
<1> HIDE DEF seeds, next, n
<1>5. /\ found \in SUBSET (1..n) /\ Range(seeds) \subseteq found /\ Closed(next, found)
      /\ \A S \in SUBSET (1..n) :
            Range(seeds) \subseteq S /\ Closed(next, S) => found \subseteq S
  BY <1>1, <1>2, <1>3, ExploreReaches
<1> HIDE DEF found
<1>6. NoWayOut(d, found) /\ d.start \in found
  BY <1>2, <1>4, <1>5
<1>7. ASSUME found = 1..n, NEW some \in SUBSET (1..n), NoWayOut(d, some), d.start \in some
      PROVE  some = 1..n
  BY <1>2, <1>4, <1>5, <1>7
<1>8. ASSUME \A some \in SUBSET (1..n) : NoWayOut(d, some) /\ d.start \in some => some = 1..n
      PROVE  found = 1..n
  BY <1>5, <1>6, <1>8
<1>9. found = 1..n <=> \A some \in SUBSET (1..n) :
            NoWayOut(d, some) /\ d.start \in some => some = 1..n
  BY <1>7, <1>8
<1> QED BY <1>1, <1>9 DEF found, seeds, next

\* Every step leads to a final one: no set without one cannot be left.
LEMMA UsableIs ==
    ASSUME NEW d, IsDescription(d), IndicesFit(d)
    PROVE  Explore(FinalSteps(d), Origins(d)) = DOMAIN d.steps <=>
            \A some \in (SUBSET DOMAIN d.steps) \ {{}} :
                NoWayOut(d, some) => some \cap Final(d) # {}
<1> DEFINE n == Len(d.steps)  next == Origins(d)  seeds == FinalSteps(d)
           found == Explore(seeds, next)
<1>1. n \in Nat /\ DOMAIN d.steps = 1..n
  BY RowsOfDescription
<1>2. seeds \in Seq(1..n) /\ Range(seeds) = Final(d) /\ Final(d) \subseteq 1..n
  BY <1>1, FinalStepsAre DEF Final
<1>3. next \in Seq(Seq(1..n)) /\ Len(next) = n
  BY OriginsAre
<1>4. ASSUME NEW some \in SUBSET (1..n)
      PROVE  Closed(next, (1..n) \ some) <=> NoWayOut(d, some)
  <2>1. \A j \in 1..n : Range(next[j]) = {i \in 1..n : Joined(d, i, j)}
    BY <1>1, OriginsAre
  <2>2. \A i \in some : \A link \in Range(d.steps[i].links) : link.to \in 1..n
    BY <1>1 DEF IndicesFit
  <2> HIDE DEF n, next
  <2>3. ASSUME Closed(next, (1..n) \ some), NEW i \in some,
               NEW link \in Range(d.steps[i].links)
        PROVE  link.to \in some
    <3>1. SUFFICES ASSUME link.to \notin some PROVE FALSE
      OBVIOUS
    <3>2. link.to \in (1..n) \ some
      BY <2>2, <3>1
    <3>3. i \in Range(next[link.to])
      BY <2>1, <3>2 DEF Joined
    <3> QED BY <2>3, <3>2, <3>3 DEF Closed
  <2>4. ASSUME NoWayOut(d, some), NEW j \in (1..n) \ some, NEW i \in Range(next[j])
        PROVE  i \in (1..n) \ some
    BY <2>1, <2>4 DEF NoWayOut, Joined
  <2> QED BY <2>3, <2>4 DEF Closed, NoWayOut
<1> HIDE DEF seeds, next, n
<1>5. /\ found \in SUBSET (1..n) /\ Range(seeds) \subseteq found /\ Closed(next, found)
      /\ \A S \in SUBSET (1..n) :
            Range(seeds) \subseteq S /\ Closed(next, S) => found \subseteq S
  BY <1>1, <1>2, <1>3, ExploreReaches
<1> HIDE DEF found
<1>6. ASSUME found = 1..n, NEW some \in SUBSET (1..n), some # {}, NoWayOut(d, some)
      PROVE  some \cap Final(d) # {}
  <2>1. SUFFICES ASSUME some \cap Final(d) = {} PROVE FALSE
    OBVIOUS
  <2> DEFINE rest == (1..n) \ some
  <2>2. rest \in SUBSET (1..n) /\ Closed(next, rest)
    BY <1>4, <1>6
  <2>3. Range(seeds) \subseteq rest
    BY <1>2, <2>1
  <2>4. found \subseteq rest
    <3> HIDE DEF rest
    <3> QED BY <1>5, <2>2, <2>3
  <2> QED BY <1>6, <2>4
<1>7. ASSUME \A some \in (SUBSET (1..n)) \ {{}} : NoWayOut(d, some) => some \cap Final(d) # {}
      PROVE  found = 1..n
  <2> DEFINE some == (1..n) \ found
  <2>1. (1..n) \ some = found /\ some \in SUBSET (1..n)
    BY <1>5
  <2>2. some \cap Final(d) = {}
    BY <1>2, <1>5
  <2> HIDE DEF some
  <2>3. NoWayOut(d, some)
    BY <1>4, <1>5, <2>1
  <2>4. some = {}
    BY <1>7, <2>1, <2>2, <2>3
  <2> QED BY <1>5, <2>4 DEF some
<1>8. found = 1..n <=> \A some \in (SUBSET (1..n)) \ {{}} :
            NoWayOut(d, some) => some \cap Final(d) # {}
  BY <1>6, <1>7
<1> QED BY <1>1, <1>8 DEF found, seeds, next

LEMMA GraphChecked ==
    ASSUME NEW d, IsDescription(d), IndicesFit(d)
    PROVE  /\ CheckGraph(d) \in Answer
           /\ CheckGraph(d) = Valid <=> d.steps[d.start].links # << >> /\ Connected(d)
<1> DEFINE reach == Explore(<<d.start>>, Targets(d))
           back == Explore(FinalSteps(d), Origins(d))
           unreachable == Check(reach # DOMAIN d.steps, "UnreachableState")
           ends == Check(d.start \in Range(FinalSteps(d)), "StartIsFinal")
           isolated == Check(back # DOMAIN d.steps, "IsolatedStep")
<1>1. {"UnreachableState", "StartIsFinal", "IsolatedStep"} \subseteq ValidateStructureError
  BY DEF ValidateStructureError, GraphError
<1>2. /\ unreachable \in Answer
      /\ unreachable = Valid <=> reach = DOMAIN d.steps
  BY <1>1, CheckIsValid
<1>3. /\ ends \in Answer
      /\ ends = Valid <=> d.start \notin Final(d)
  <2>1. Range(FinalSteps(d)) = Final(d)
    BY FinalStepsAre
  <2> DEFINE final == d.start \in Range(FinalSteps(d))
  <2>2. final \in BOOLEAN
    OBVIOUS
  <2>3. final <=> d.start \in Final(d)
    BY <2>1
  <2>4. ends = Check(final, "StartIsFinal")
    OBVIOUS
  <2> HIDE DEF final
  <2>5. ends \in Answer /\ (ends = Valid <=> ~final)
    BY <1>1, <2>2, <2>4, CheckIsValid
  <2> HIDE DEF ends
  <2> QED BY <2>3, <2>5
<1>4. /\ isolated \in Answer
      /\ isolated = Valid <=> back = DOMAIN d.steps
  BY <1>1, CheckIsValid
<1>a. CheckGraph(d) = Else(unreachable, Else(ends, isolated))
  BY DEF CheckGraph
<1> HIDE DEF unreachable, ends, isolated
<1>b. /\ Else(ends, isolated) \in Answer
      /\ Else(ends, isolated) = Valid <=> ends = Valid /\ isolated = Valid
  BY <1>3, <1>4, ElseIsValid
<1>c. /\ CheckGraph(d) \in Answer
      /\ CheckGraph(d) = Valid <=>
            reach = DOMAIN d.steps /\ d.start \notin Final(d) /\ back = DOMAIN d.steps
  BY <1>2, <1>3, <1>4, <1>a, <1>b, ElseIsValid
<1>5. d.start \in Final(d) <=> d.steps[d.start].links = << >>
  BY DEF Final, IndicesFit
<1> DEFINE Reachable == \A some \in SUBSET DOMAIN d.steps :
                NoWayOut(d, some) /\ d.start \in some => some = DOMAIN d.steps
           Usable == \A some \in (SUBSET DOMAIN d.steps) \ {{}} :
                NoWayOut(d, some) => some \cap Final(d) # {}
<1>6. (reach = DOMAIN d.steps <=> Reachable) /\ (back = DOMAIN d.steps <=> Usable)
  BY ReachableIs, UsableIs
<1> HIDE DEF reach, back
<1>7. Connected(d) <=> Reachable /\ Usable
  BY DEF Connected, Final
<1> HIDE DEF Reachable, Usable
<1> QED BY <1>5, <1>6, <1>7, <1>c


-----------------------------------------------------------------------------
(***************************************************************************)
(* Names, permissions, and the proposing and accepting of changes.         *)
(***************************************************************************)
LEMMA NameChecked ==
    ASSUME NEW things, NEW i, NEW empty \in ValidateStructureError,
           NEW duplicate \in ValidateStructureError
    PROVE  /\ NameOf(things, i, empty, duplicate) \in Answer
           /\ NameOf(things, i, empty, duplicate) = Valid <=>
                  things[i].name # NoName /\ ~RepeatsName(things, i)
<1> DEFINE none == Check(things[i].name = NoName, empty)
           again == Check(RepeatsName(things, i), duplicate)
<1>1. none \in Answer /\ (none = Valid <=> things[i].name # NoName)
  BY CheckIsValid
<1>2. again \in Answer /\ (again = Valid <=> ~RepeatsName(things, i))
  <2>1. RepeatsName(things, i) \in BOOLEAN
    BY DEF RepeatsName
  <2> QED BY <2>1, CheckIsValid
<1>3. NameOf(things, i, empty, duplicate) = Else(none, again)
  BY DEF NameOf
<1> HIDE DEF none, again
<1> QED BY <1>1, <1>2, <1>3, ElseIsValid

\* No name repeats an earlier one when there are as many as things.
LEMMA NamedIs ==
    ASSUME NEW things, NEW n \in Nat, DOMAIN things = 1..n, Len(things) = n
    PROVE  Named(things) <=>
            \A i \in 1..n : things[i].name # NoName /\ ~RepeatsName(things, i)
<1> DEFINE names == {t.name : t \in Range(things)}
           f == [i \in 1..n |-> things[i].name]
<1>1. names = {things[i].name : i \in 1..n}
  BY DEF Range
<1>2. f \in Surjection(1..n, names)
  BY <1>1 DEF Surjection
<1>3. IsFiniteSet(1..n) /\ Cardinality(1..n) = n
  <2>1. IsFiniteSet(1..n) /\ Cardinality(1..n) = IF 1 > n THEN 0 ELSE n - 1 + 1
    BY FS_Interval, 1 \in Int, n \in Int
  <2> QED BY <2>1
<1>4. NoName \notin names <=> \A i \in 1..n : things[i].name # NoName
  BY <1>1
<1>5. \A i \in 1..n : f[i] = things[i].name
  OBVIOUS
<1> HIDE DEF names, f
<1>6. Cardinality(names) = n <=> f \in Injection(1..n, names)
  BY <1>2, <1>3, FS_Surjection
<1>7. f \in Injection(1..n, names) <=> \A i, j \in 1..n : f[i] = f[j] => i = j
  BY <1>2 DEF Injection, Surjection, IsInjective
<1>8. (\A i, j \in 1..n : f[i] = f[j] => i = j) <=> \A i \in 1..n : ~RepeatsName(things, i)
  <2>1. ASSUME \A i, j \in 1..n : f[i] = f[j] => i = j, NEW i \in 1..n,
               NEW j \in 1..(i - 1), things[j].name = things[i].name
        PROVE  FALSE
    <3>1. j \in 1..n /\ j # i
      OBVIOUS
    <3> QED BY <1>5, <2>1, <3>1
  <2>2. ASSUME \A i \in 1..n : ~RepeatsName(things, i), NEW i \in 1..n, NEW j \in 1..n,
               f[i] = f[j], i # j
        PROVE  FALSE
    <3>1. i \in 1..(j - 1) \/ j \in 1..(i - 1)
      BY <2>2
    <3>2. things[i].name = things[j].name
      BY <1>5, <2>2
    <3> QED BY <2>2, <3>1, <3>2 DEF RepeatsName
  <2> QED BY <2>1, <2>2 DEF RepeatsName
<1>9. Named(things) <=> NoName \notin names /\ Cardinality(names) = n
  BY DEF Named, names
<1> QED BY <1>4, <1>6, <1>7, <1>8, <1>9

LEMMA NamesChecked ==
    ASSUME NEW things, NEW n \in Nat, DOMAIN things = 1..n, Len(things) = n,
           NEW empty \in ValidateStructureError, NEW duplicate \in ValidateStructureError
    PROVE  /\ Names(things, empty, duplicate) \in Answer
           /\ Names(things, empty, duplicate) = Valid <=> Named(things)
<1> DEFINE f == [i \in DOMAIN things |-> NameOf(things, i, empty, duplicate)]
<1>1. Names(things, empty, duplicate) = FirstError(f)
  BY DEF Names
<1>2. DOMAIN f = 1..n
  OBVIOUS
<1>3. ASSUME NEW i \in 1..n
      PROVE  /\ f[i] \in Answer
             /\ f[i] = Valid <=> things[i].name # NoName /\ ~RepeatsName(things, i)
  BY NameChecked
<1> HIDE DEF f
<1>4. FirstError(f) \in Answer /\ (FirstError(f) = Valid <=> \A i \in 1..n : f[i] = Valid)
  BY <1>2, <1>3, FirstErrorIsValid
<1> QED BY <1>1, <1>3, <1>4, NamedIs

LEMMA CheckedNames ==
    ASSUME NEW d, IsDescription(d)
    PROVE  /\ CheckNames(d) \in Answer
           /\ CheckNames(d) = Valid <=>
                /\ d.name # NoName /\ Named(d.slots) /\ Named(d.steps)
                /\ \A i \in DOMAIN d.steps : Named(d.steps[i].links)
<1> DEFINE n == Len(d.steps)
           none == Check(d.name = NoName, "EmptyProcessName")
           ofSlots == Names(d.slots, "EmptySlotName", "DuplicateSlotName")
           of(i) == NameOf(d.steps, i, "EmptyStepName", "DuplicateStepName")
           leaving(i) == Names(d.steps[i].links, "EmptyLinkName", "DuplicateLinkName")
           f == [i \in DOMAIN d.steps |-> Else(of(i), leaving(i))]
<1>1. {"EmptyProcessName", "EmptySlotName", "DuplicateSlotName", "EmptyStepName",
       "DuplicateStepName", "EmptyLinkName", "DuplicateLinkName"}
          \subseteq ValidateStructureError
  BY DEF ValidateStructureError, NameError
<1>2. n \in Nat /\ DOMAIN d.steps = 1..n
  BY RowsOfDescription
<1>3. none \in Answer /\ (none = Valid <=> d.name # NoName)
  BY <1>1, CheckIsValid
<1>4. ofSlots \in Answer /\ (ofSlots = Valid <=> Named(d.slots))
  BY <1>1, RowsOfDescription, NamesChecked
<1>5. ASSUME NEW i \in 1..n
      PROVE  /\ f[i] \in Answer
             /\ f[i] = Valid <=>
                  /\ d.steps[i].name # NoName /\ ~RepeatsName(d.steps, i)
                  /\ Named(d.steps[i].links)
  <2>1. /\ of(i) \in Answer
        /\ of(i) = Valid <=> d.steps[i].name # NoName /\ ~RepeatsName(d.steps, i)
    BY <1>1, NameChecked
  <2>2. leaving(i) \in Answer /\ (leaving(i) = Valid <=> Named(d.steps[i].links))
    BY <1>1, <1>2, RowsOfDescription, NamesChecked
  <2>3. f[i] = Else(of(i), leaving(i))
    BY <1>2
  <2> HIDE DEF of, leaving, f
  <2>4. f[i] \in Answer /\ (f[i] = Valid <=> of(i) = Valid /\ leaving(i) = Valid)
    BY <2>1, <2>2, <2>3, ElseIsValid
  <2> QED BY <2>1, <2>2, <2>4
<1>6. CheckNames(d) = Else(none, Else(ofSlots, FirstError(f)))
  BY DEF CheckNames
<1>7. DOMAIN f = 1..n
  BY <1>2
<1> HIDE DEF none, ofSlots, f
<1>8. FirstError(f) \in Answer /\ (FirstError(f) = Valid <=> \A i \in 1..n : f[i] = Valid)
  BY <1>2, <1>5, <1>7, FirstErrorIsValid
<1>9. Named(d.steps) <=>
            \A i \in 1..n : d.steps[i].name # NoName /\ ~RepeatsName(d.steps, i)
  BY <1>2, NamedIs
<1>10. /\ Else(ofSlots, FirstError(f)) \in Answer
       /\ Else(ofSlots, FirstError(f)) = Valid <=> ofSlots = Valid /\ FirstError(f) = Valid
  BY <1>4, <1>8, ElseIsValid
<1>11. /\ CheckNames(d) \in Answer
       /\ CheckNames(d) = Valid <=> none = Valid /\ Else(ofSlots, FirstError(f)) = Valid
  BY <1>3, <1>6, <1>10, ElseIsValid
<1> HIDE DEF n
<1> QED BY <1>2, <1>3, <1>4, <1>5, <1>8, <1>9, <1>10, <1>11

LEMMA AtMostOne ==
    ASSUME NEW S, IsFiniteSet(S)
    PROVE  /\ Cardinality(S) \in Nat
           /\ Cardinality(S) <= 1 <=> \A x, y \in S : x = y
<1>1. Cardinality(S) \in Nat
  BY FS_CardinalityType
<1>2. CASE S = {}
  <2>1. Cardinality(S) = 0
    BY <1>2, FS_EmptySet
  <2> QED BY <1>2, <2>1
<1>3. CASE S # {}
  <2>1. Cardinality(S) # 0
    BY <1>3, FS_EmptySet
  <2>2. Cardinality(S) = 1 <=> \E x : S = {x}
    BY FS_Singleton
  <2>3. (\E x : S = {x}) <=> \A x, y \in S : x = y
    BY <1>3
  <2>4. Cardinality(S) <= 1 <=> Cardinality(S) = 1
    BY <1>1, <2>1
  <2> QED BY <1>1, <2>2, <2>3, <2>4, Zenon
<1> QED BY <1>1, <1>2, <1>3

\* Whether a step grants a permission.
Does(d, i, permission) == \E s \in Range(d.steps[i].slots) : s.permission = permission

LEMMA GrantsAre ==
    ASSUME NEW d, IsDescription(d), NEW i \in DOMAIN d.steps, NEW permission
    PROVE  /\ IsFiniteSet(Grants(d.steps[i], permission))
           /\ Grants(d.steps[i], permission) # {} <=> Does(d, i, permission)
<1>1. IsFiniteSet(DOMAIN d.steps[i].slots)
  BY StepIs
<1>2. Grants(d.steps[i], permission) \subseteq DOMAIN d.steps[i].slots
  BY DEF Grants
<1>3. Grants(d.steps[i], permission) # {} <=> Does(d, i, permission)
  BY DEF Grants, Does, Range
<1> QED BY <1>1, <1>2, <1>3, FS_Subset

LEMMA GrantsChecked ==
    ASSUME NEW d, IsDescription(d), NEW i \in DOMAIN d.steps
    PROVE  /\ CheckGrants(d.steps[i]) \in Answer
           /\ CheckGrants(d.steps[i]) = Valid <=>
                /\ Cardinality(Grants(d.steps[i], Edit)) <= 1
                /\ Cardinality(Grants(d.steps[i], Propose)) <= 1
                /\ Cardinality({x \in {Edit, Propose, Accept} : Does(d, i, x)}) <= 1
<1> DEFINE many(x) == Cardinality(Grants(d.steps[i], x)) > 1
           does(x) == Grants(d.steps[i], x) # {}
           twice == Check(\E x \in {Edit, Propose} : many(x), "PermissionDuplication")
           mixed == Check(\/ does(Edit) /\ does(Propose)
                          \/ does(Edit) /\ does(Accept)
                          \/ does(Propose) /\ does(Accept), "ConflictingPermissions")
           granted == {x \in {Edit, Propose, Accept} : Does(d, i, x)}
<1>1. {"PermissionDuplication", "ConflictingPermissions"} \subseteq ValidateStructureError
  BY DEF ValidateStructureError, GrantError
<1>2. \A x : /\ ~many(x) <=> Cardinality(Grants(d.steps[i], x)) <= 1
             /\ does(x) <=> Does(d, i, x)
  <2>1. \A x : /\ Cardinality(Grants(d.steps[i], x)) \in Nat
               /\ does(x) <=> Does(d, i, x)
    BY GrantsAre, FS_CardinalityType
  <2> QED BY <2>1
<1>3. /\ twice \in Answer
      /\ twice = Valid <=> ~many(Edit) /\ ~many(Propose)
  BY <1>1, CheckIsValid
<1>4. /\ mixed \in Answer
      /\ mixed = Valid <=> ~(\/ does(Edit) /\ does(Propose)
                             \/ does(Edit) /\ does(Accept)
                             \/ does(Propose) /\ does(Accept))
  <2>1. (\/ does(Edit) /\ does(Propose)
         \/ does(Edit) /\ does(Accept)
         \/ does(Propose) /\ does(Accept)) \in BOOLEAN
    OBVIOUS
  <2> QED BY <1>1, <2>1, CheckIsValid
<1>5. CheckGrants(d.steps[i]) = Else(twice, mixed)
  BY DEF CheckGrants
<1> HIDE DEF twice, mixed, many, does
<1>6. /\ CheckGrants(d.steps[i]) \in Answer
      /\ CheckGrants(d.steps[i]) = Valid <=> twice = Valid /\ mixed = Valid
  BY <1>3, <1>4, <1>5, ElseIsValid
<1>7. Cardinality(granted) <= 1 <=>
         ~(\/ does(Edit) /\ does(Propose)
           \/ does(Edit) /\ does(Accept)
           \/ does(Propose) /\ does(Accept))
  <2>1. IsFiniteSet(granted)
    <3>1. IsFiniteSet({Edit}) /\ IsFiniteSet({Edit, Propose}) /\ IsFiniteSet({Edit, Propose, Accept})
      <4>1. IsFiniteSet({Edit})
        BY FS_Singleton
      <4>2. IsFiniteSet({Edit} \cup {Propose})
        BY <4>1, FS_AddElement
      <4>3. IsFiniteSet(({Edit} \cup {Propose}) \cup {Accept})
        BY <4>2, FS_AddElement
      <4>4. {Edit, Propose, Accept} = ({Edit} \cup {Propose}) \cup {Accept}
            /\ {Edit, Propose} = {Edit} \cup {Propose}
        OBVIOUS
      <4> QED BY <4>1, <4>2, <4>3, <4>4
    <3> QED BY <3>1, FS_Subset
  <2>2. Cardinality(granted) <= 1 <=> \A x, y \in granted : x = y
    BY <2>1, AtMostOne
  <2>3. Edit # Propose /\ Edit # Accept /\ Propose # Accept
    BY DEF Edit, Propose, Accept
  <2>4. (\A x, y \in granted : x = y) <=>
         ~(\/ Does(d, i, Edit) /\ Does(d, i, Propose)
           \/ Does(d, i, Edit) /\ Does(d, i, Accept)
           \/ Does(d, i, Propose) /\ Does(d, i, Accept))
    BY <2>3
  <2> HIDE DEF granted
  <2> QED BY <1>2, <2>2, <2>4
<1> HIDE DEF granted
<1>8. CheckGrants(d.steps[i]) = Valid <=>
            /\ Cardinality(Grants(d.steps[i], Edit)) <= 1
            /\ Cardinality(Grants(d.steps[i], Propose)) <= 1
            /\ Cardinality(granted) <= 1
  BY <1>2, <1>3, <1>4, <1>6, <1>7
<1> QED BY <1>6, <1>8 DEF granted

LEMMA PermissionsChecked ==
    ASSUME NEW d, IsDescription(d)
    PROVE  /\ CheckPermissions(d) \in Answer
           /\ CheckPermissions(d) = Valid <=>
                \A i \in DOMAIN d.steps :
                    /\ Cardinality(Grants(d.steps[i], Edit)) <= 1
                    /\ Cardinality(Grants(d.steps[i], Propose)) <= 1
                    /\ Cardinality({x \in {Edit, Propose, Accept} : Does(d, i, x)}) <= 1
<1> DEFINE n == Len(d.steps)
           f == [i \in DOMAIN d.steps |-> CheckGrants(d.steps[i])]
           Fine(i) == /\ Cardinality(Grants(d.steps[i], Edit)) <= 1
                      /\ Cardinality(Grants(d.steps[i], Propose)) <= 1
                      /\ Cardinality({x \in {Edit, Propose, Accept} : Does(d, i, x)}) <= 1
<1>1. n \in Nat /\ DOMAIN d.steps = 1..n
  BY RowsOfDescription
<1>2. \A i \in DOMAIN d.steps : f[i] \in Answer /\ (f[i] = Valid <=> Fine(i))
  BY GrantsChecked
<1>3. DOMAIN f = 1..n /\ CheckPermissions(d) = FirstError(f)
  BY <1>1 DEF CheckPermissions
<1> HIDE DEF f, n, Fine
<1>4. FirstError(f) \in Answer /\ (FirstError(f) = Valid <=> \A i \in 1..n : f[i] = Valid)
  BY <1>1, <1>2, <1>3, FirstErrorIsValid
<1>5. /\ CheckPermissions(d) \in Answer
      /\ CheckPermissions(d) = Valid <=> \A i \in DOMAIN d.steps : Fine(i)
  BY <1>1, <1>2, <1>3, <1>4
<1> QED BY <1>5 DEF Fine

LEMMA ProposingChecked ==
    ASSUME NEW d, IsDescription(d), IndicesFit(d)
    PROVE  /\ CheckProposing(d) \in Answer
           /\ CheckProposing(d) = Valid <=>
                \A i \in DOMAIN d.steps : Does(d, i, Propose) =>
                    \E j \in DOMAIN d.steps : Joined(d, i, j) /\ Does(d, j, Accept)
<1> DEFINE n == Len(d.steps)
           stuck(i) == /\ Grants(d.steps[i], Propose) # {}
                       /\ \A to \in Range(Targets(d)[i]) : Grants(d.steps[to], Accept) = {}
           f == [i \in DOMAIN d.steps |-> Check(stuck(i), "ChangesProposeNoAccept")]
           Fine(i) == Does(d, i, Propose) =>
                        \E j \in DOMAIN d.steps : Joined(d, i, j) /\ Does(d, j, Accept)
<1>1. n \in Nat /\ DOMAIN d.steps = 1..n
  BY RowsOfDescription
<1>2. "ChangesProposeNoAccept" \in ValidateStructureError
  BY DEF ValidateStructureError, ChangesError
<1>3. ASSUME NEW i \in DOMAIN d.steps
      PROVE  f[i] \in Answer /\ (f[i] = Valid <=> Fine(i))
  <2>1. Range(Targets(d)[i]) = {j \in DOMAIN d.steps : Joined(d, i, j)}
    BY TargetsAre
  <2>2. Grants(d.steps[i], Propose) # {} <=> Does(d, i, Propose)
    BY GrantsAre
  <2>3. \A j \in DOMAIN d.steps : Grants(d.steps[j], Accept) # {} <=> Does(d, j, Accept)
    BY GrantsAre
  <2>4. stuck(i) <=> ~Fine(i)
    BY <2>1, <2>2, <2>3
  <2>5. stuck(i) \in BOOLEAN /\ f[i] = Check(stuck(i), "ChangesProposeNoAccept")
    OBVIOUS
  <2> HIDE DEF stuck, f, Fine
  <2>6. f[i] \in Answer /\ (f[i] = Valid <=> ~stuck(i))
    BY <1>2, <2>5, CheckIsValid
  <2> QED BY <2>4, <2>6
<1>4. DOMAIN f = 1..n /\ CheckProposing(d) = FirstError(f)
  BY <1>1 DEF CheckProposing
<1> HIDE DEF f, n, Fine
<1>5. FirstError(f) \in Answer /\ (FirstError(f) = Valid <=> \A i \in 1..n : f[i] = Valid)
  BY <1>1, <1>3, <1>4, FirstErrorIsValid
<1>6. /\ CheckProposing(d) \in Answer
      /\ CheckProposing(d) = Valid <=> \A i \in DOMAIN d.steps : Fine(i)
  BY <1>1, <1>3, <1>4, <1>5
<1> QED BY <1>6 DEF Fine

LEMMA AcceptingChecked ==
    ASSUME NEW d, IsDescription(d)
    PROVE  /\ CheckAccepting(d) \in Answer
           /\ CheckAccepting(d) = Valid <=>
                \A j \in DOMAIN d.steps : Does(d, j, Accept) =>
                    /\ \E i \in DOMAIN d.steps : Joined(d, i, j)
                    /\ \A i \in DOMAIN d.steps : Joined(d, i, j) => Does(d, i, Propose)
<1> DEFINE n == Len(d.steps)
           from(proposing) == {i \in DOMAIN d.steps :
                                  Grants(d.steps[i], Propose) # {} <=> proposing}
           incoming(j, proposing) == Among(Origins(d)[j], from(proposing))
           none(j) == Check(Len(incoming(j, TRUE)) = 0, "ChangesAcceptNoPropose")
           others(j) == Check(Len(incoming(j, FALSE)) # 0, "ChangesAcceptNotOnlyPropose")
           f == [j \in DOMAIN d.steps |->
                    IF Grants(d.steps[j], Accept) = {} THEN Valid
                    ELSE Else(none(j), others(j))]
           Fine(j) == Does(d, j, Accept) =>
                        /\ \E i \in DOMAIN d.steps : Joined(d, i, j)
                        /\ \A i \in DOMAIN d.steps : Joined(d, i, j) => Does(d, i, Propose)
<1>1. n \in Nat /\ DOMAIN d.steps = 1..n
  BY RowsOfDescription
<1>2. {"ChangesAcceptNoPropose", "ChangesAcceptNotOnlyPropose"} \subseteq ValidateStructureError
  BY DEF ValidateStructureError, ChangesError
<1>3. ASSUME NEW s \in Seq(1..n) PROVE Len(s) = 0 <=> Range(s) = {}
  <2>1. Len(s) \in Nat /\ DOMAIN s = 1..Len(s)
    OBVIOUS
  <2>2. Range(s) = {} <=> DOMAIN s = {}
    BY DEF Range
  <2>3. \A m \in Nat : 1..m = {} <=> m = 0
    <3>1. \A m \in Nat : m # 0 => 1 \in 1..m
      OBVIOUS
    <3> QED BY <3>1
  <2> QED BY <2>1, <2>2, <2>3
<1>4. ASSUME NEW j \in DOMAIN d.steps
      PROVE  f[j] \in Answer /\ (f[j] = Valid <=> Fine(j))
  <2>1. /\ Origins(d)[j] \in Seq(1..n)
        /\ Range(Origins(d)[j]) = {i \in DOMAIN d.steps : Joined(d, i, j)}
    <3> DEFINE lists == Origins(d)
    <3>1. /\ lists \in Seq(Seq(1..n)) /\ Len(lists) = n
          /\ Range(lists[j]) = {i \in DOMAIN d.steps : Joined(d, i, j)}
      BY OriginsAre
    <3> HIDE DEF lists, n
    <3>2. lists[j] \in Seq(1..n)
      BY <1>1, <3>1
    <3> QED BY <3>1, <3>2 DEF lists
  <2>2. \A i \in DOMAIN d.steps : Grants(d.steps[i], Propose) # {} <=> Does(d, i, Propose)
    BY GrantsAre
  <2>3. ASSUME NEW proposing \in BOOLEAN
        PROVE  Len(incoming(j, proposing)) = 0 <=>
                  \A i \in DOMAIN d.steps :
                      Joined(d, i, j) => ~(Does(d, i, Propose) <=> proposing)
    <3> DEFINE s == Origins(d)[j]  S == from(proposing)
    <3>1. s \in Seq(1..n) /\ Range(s) = {i \in DOMAIN d.steps : Joined(d, i, j)}
      BY <2>1
    <3>2. S = {i \in DOMAIN d.steps : Does(d, i, Propose) <=> proposing}
      BY <2>2
    <3> HIDE DEF s, S, n
    <3>3. Among(s, S) \in Seq(1..n) /\ Range(Among(s, S)) = Range(s) \cap S
      BY <3>1, AmongIs
    <3>4. Len(Among(s, S)) = 0 <=> Range(s) \cap S = {}
      BY <1>3, <3>3
    <3>5. Range(s) \cap S = {} <=> \A i \in DOMAIN d.steps :
                      Joined(d, i, j) => ~(Does(d, i, Propose) <=> proposing)
      BY <3>1, <3>2
    <3> QED BY <3>4, <3>5 DEF s, S
  <2>4. /\ none(j) \in Answer
        /\ none(j) = Valid <=> \E i \in DOMAIN d.steps : Joined(d, i, j) /\ Does(d, i, Propose)
    <3> DEFINE empty == Len(incoming(j, TRUE)) = 0
    <3>1. empty <=> ~\E i \in DOMAIN d.steps : Joined(d, i, j) /\ Does(d, i, Propose)
      BY <2>3
    <3>2. empty \in BOOLEAN /\ none(j) = Check(empty, "ChangesAcceptNoPropose")
      OBVIOUS
    <3> HIDE DEF empty, none
    <3>3. none(j) \in Answer /\ (none(j) = Valid <=> ~empty)
      BY <1>2, <3>2, CheckIsValid
    <3> QED BY <3>1, <3>3
  <2>5. /\ others(j) \in Answer
        /\ others(j) = Valid <=> \A i \in DOMAIN d.steps : Joined(d, i, j) => Does(d, i, Propose)
    <3> DEFINE some == Len(incoming(j, FALSE)) # 0
    <3>1. some <=> ~\A i \in DOMAIN d.steps : Joined(d, i, j) => Does(d, i, Propose)
      BY <2>3
    <3>2. some \in BOOLEAN /\ others(j) = Check(some, "ChangesAcceptNotOnlyPropose")
      OBVIOUS
    <3> HIDE DEF some, others
    <3>3. others(j) \in Answer /\ (others(j) = Valid <=> ~some)
      BY <1>2, <3>2, CheckIsValid
    <3> QED BY <3>1, <3>3
  <2>6. Grants(d.steps[j], Accept) # {} <=> Does(d, j, Accept)
    BY GrantsAre
  <2>7. f[j] = IF Grants(d.steps[j], Accept) = {} THEN Valid ELSE Else(none(j), others(j))
    OBVIOUS
  <2> HIDE DEF none, others, f
  <2>8. /\ Else(none(j), others(j)) \in Answer
        /\ Else(none(j), others(j)) = Valid <=> none(j) = Valid /\ others(j) = Valid
    BY <2>4, <2>5, ElseIsValid
  <2>9. CASE Grants(d.steps[j], Accept) = {}
    BY <2>6, <2>7, <2>9 DEF Answer
  <2>10. CASE Grants(d.steps[j], Accept) # {}
    BY <2>4, <2>5, <2>6, <2>7, <2>8, <2>10
  <2> QED BY <2>9, <2>10
<1>5. DOMAIN f = 1..n /\ CheckAccepting(d) = FirstError(f)
  BY <1>1 DEF CheckAccepting
<1> HIDE DEF f, n, Fine
<1>6. FirstError(f) \in Answer /\ (FirstError(f) = Valid <=> \A i \in 1..n : f[i] = Valid)
  BY <1>1, <1>4, <1>5, FirstErrorIsValid
<1>7. /\ CheckAccepting(d) \in Answer
      /\ CheckAccepting(d) = Valid <=> \A j \in DOMAIN d.steps : Fine(j)
  BY <1>1, <1>4, <1>5, <1>6
<1> QED BY <1>7 DEF Fine

-----------------------------------------------------------------------------
(***************************************************************************)
(* validate lets through what is Accepted and nothing else.                *)
(***************************************************************************)
\* For every description, of any size, validate answers Valid or one of its
\* errors, and answers Valid exactly when the description is Accepted.
THEOREM ValidateAccepts ==
    ASSUME NEW d, IsDescription(d)
    PROVE  Validate(d) \in Answer /\ (Validate(d) = Valid <=> Accepted(d))
<1> DEFINE named == CheckNames(d)  indexed == CheckIndices(d)
           granted == CheckPermissions(d)  joined == CheckGraph(d)
           proposing == CheckProposing(d)  accepting == CheckAccepting(d)
           NamesFine == /\ d.name # NoName /\ Named(d.slots) /\ Named(d.steps)
                     /\ \A i \in DOMAIN d.steps : Named(d.steps[i].links)
           IndicesFine == /\ d.start \in DOMAIN d.steps
                       /\ \A i \in DOMAIN d.steps :
                           /\ \A s \in Range(d.steps[i].slots) : s.slot \in DOMAIN d.slots
                           /\ \A l \in Range(d.steps[i].links) : LinkFits(d, i, l)
           GrantsFine == \A i \in DOMAIN d.steps :
                    /\ Cardinality(Grants(d.steps[i], Edit)) <= 1
                    /\ Cardinality(Grants(d.steps[i], Propose)) <= 1
                    /\ Cardinality({x \in {Edit, Propose, Accept} : Does(d, i, x)}) <= 1
           GraphFine == d.steps[d.start].links # << >> /\ Connected(d)
           ProposingFine == \A i \in DOMAIN d.steps : Does(d, i, Propose) =>
                    \E j \in DOMAIN d.steps : Joined(d, i, j) /\ Does(d, j, Accept)
           AcceptingFine == \A j \in DOMAIN d.steps : Does(d, j, Accept) =>
                    /\ \E i \in DOMAIN d.steps : Joined(d, i, j)
                    /\ \A i \in DOMAIN d.steps : Joined(d, i, j) => Does(d, i, Propose)
<1>1. /\ named \in Answer /\ (named = Valid <=> NamesFine)
      /\ indexed \in Answer /\ (indexed = Valid <=> IndicesFine)
      /\ granted \in Answer /\ (granted = Valid <=> GrantsFine)
      /\ accepting \in Answer /\ (accepting = Valid <=> AcceptingFine)
  BY CheckedNames, IndicesChecked, PermissionsChecked, AcceptingChecked
<1>2. IndicesFine => IndicesFit(d)
  BY DEF IndicesFit, LinkFits
<1>3. IndicesFine => /\ joined \in Answer /\ (joined = Valid <=> GraphFine)
                  /\ proposing \in Answer /\ (proposing = Valid <=> ProposingFine)
  BY <1>2, GraphChecked, ProposingChecked
<1>4. Validate(d) = Else(named, Else(indexed, Else(granted,
                        Else(joined, Else(proposing, accepting)))))
  BY DEF Validate
<1>5. Accepted(d) <=> NamesFine /\ IndicesFine /\ GrantsFine /\ GraphFine /\ ProposingFine /\ AcceptingFine
  <2> DEFINE Fits(i, l) == /\ l.to \in DOMAIN d.steps \ {i}
                           /\ \E s \in Range(d.steps[i].slots) : s.slot = l.slot
             Few(i) == Cardinality({x \in {Edit, Propose, Accept} : Does(d, i, x)}) <= 1
             Seen(i) == \A s \in Range(d.steps[i].slots) : s.slot \in DOMAIN d.slots
  <2>1. Accepted(d) <=>
            /\ d.name # NoName /\ Named(d.slots) /\ Named(d.steps)
            /\ d.start \in DOMAIN d.steps
            /\ d.steps[d.start].links # << >>
            /\ \A i \in DOMAIN d.steps :
                /\ Named(d.steps[i].links)
                /\ Seen(i)
                /\ \A l \in Range(d.steps[i].links) : Fits(i, l)
                /\ Cardinality(Grants(d.steps[i], Edit)) <= 1
                /\ Cardinality(Grants(d.steps[i], Propose)) <= 1
                /\ Few(i)
            /\ Connected(d) /\ ProposingFine /\ AcceptingFine
    BY DEF Accepted, Does
  <2>2. \A i \in DOMAIN d.steps : Seen(i) =>
            \A l \in Range(d.steps[i].links) : Fits(i, l) <=> LinkFits(d, i, l)
    BY DEF LinkFits
  <2>3. IndicesFine <=> /\ d.start \in DOMAIN d.steps
                     /\ \A i \in DOMAIN d.steps :
                          Seen(i) /\ \A l \in Range(d.steps[i].links) : Fits(i, l)
    BY <2>2
  <2> HIDE DEF Fits, Few, Seen, ProposingFine, AcceptingFine, IndicesFine
  <2>4. GrantsFine <=> \A i \in DOMAIN d.steps :
                    /\ Cardinality(Grants(d.steps[i], Edit)) <= 1
                    /\ Cardinality(Grants(d.steps[i], Propose)) <= 1
                    /\ Few(i)
    BY DEF Few
  <2> HIDE DEF GrantsFine
  <2> QED BY <2>1, <2>3, <2>4
<1> HIDE DEF named, indexed, granted, joined, proposing, accepting,
             NamesFine, IndicesFine, GrantsFine, GraphFine, ProposingFine, AcceptingFine
<1>6. CASE IndicesFine
  <2>1. Validate(d) = Valid <=>
            /\ named = Valid /\ indexed = Valid /\ granted = Valid
            /\ joined = Valid /\ proposing = Valid /\ accepting = Valid
    BY <1>4 DEF Else
  <2>2. Validate(d) \in {named, indexed, granted, joined, proposing, accepting}
    BY <1>4 DEF Else
  <2> QED BY <1>1, <1>3, <1>5, <1>6, <2>1, <2>2
<1>7. CASE ~IndicesFine
  <2>1. Validate(d) \in {named, indexed} /\ Validate(d) # Valid
    BY <1>1, <1>4, <1>7 DEF Else
  <2> QED BY <1>1, <1>5, <1>7, <2>1
<1> QED BY <1>6, <1>7

LEMMA AnswersDiffer ==
    /\ {Done, Database, Duplicate} \cap ValidateStructureError = {}
    /\ Done # Duplicate /\ Database # Duplicate
BY DEF Done, Database, Duplicate, ValidateStructureError, NameError, IndexError,
       GrantError, GraphError, ChangesError

\* What is answered about a description agrees with what it is.
AnswerAgrees(d, is) ==
    /\ is \in {Done, Database} => Accepted(d)
    /\ is \in ValidateStructureError => ~Accepted(d)

LEMMA CreateAgrees ==
    ASSUME NEW d, IsDescription(d), NEW p, NEW named,
           \/ Answers(d, Duplicate)
           \/ Validate(d) # Valid /\ Answers(d, Validate(d))
           \/ Validate(d) = Valid /\ StoreVersion(p, d, named)
    PROVE  ValidationSound'
<1>1. PICK is : Answers(d, is) /\ AnswerAgrees(d, is)
  <2>1. CASE Answers(d, Duplicate)
    BY <2>1, AnswersDiffer DEF AnswerAgrees
  <2>2. CASE Validate(d) # Valid /\ Answers(d, Validate(d))
    BY <2>2, ValidateAccepts, AnswersDiffer DEF AnswerAgrees, Answer
  <2>3. CASE Validate(d) = Valid /\ StoreVersion(p, d, named)
    <3>1. \E is \in {Done, Database, Duplicate} : Answers(d, is)
      BY <2>3 DEF StoreVersion
    <3> QED BY <2>3, <3>1, ValidateAccepts, AnswersDiffer DEF AnswerAgrees
  <2> QED BY <2>1, <2>2, <2>3
<1>2. answer'.asked = {d} /\ answer'.is = is
  BY <1>1 DEF Answers
<1> QED BY <1>1, <1>2 DEF ValidationSound, AnswerAgrees

\* An answer is about a description that is valid, or says what is wrong
\* with it: validate, with its loops and its work lists, is exactly what
\* Accepted says of sets of steps.
THEOREM ValidateSound == Spec => []ValidationSound
<1>1. Init => ValidationSound
  BY DEF Init, ValidationSound
<1>2. ASSUME ValidationSound, [Next]_vars PROVE ValidationSound'
  <2>1. CASE CreateProcess
    <3>1. PICK d \in AskedNow :
            LET p == Len(processes) + 1
            IN  IF NameTaken(p, d.name)
                THEN Answers(d, Duplicate) /\ UNCHANGED <<processes, tables>>
                ELSE IF Validate(d) # Valid
                THEN Answers(d, Validate(d)) /\ UNCHANGED <<processes, tables>>
                ELSE StoreVersion(p, d, Append(processes, d.name))
      BY <2>1 DEF CreateProcess
    <3> QED BY <3>1, AskedIsDescription, CreateAgrees
  <2>2. CASE CreateVersion
    <3>1. PICK l \in loaded, d \in AskedNow : CreateVersionIn(l.process, l.name, d)
      BY <2>2 DEF CreateVersion
    <3> QED BY <3>1, AskedIsDescription, CreateAgrees DEF CreateVersionIn
  <2>3. ASSUME NEW is, AnswersOnly(is) PROVE ValidationSound'
    <3>1. answer'.asked = {}
      BY <2>3 DEF AnswersOnly
    <3> QED BY <3>1 DEF ValidationSound
  <2>4. ASSUME UNCHANGED answer PROVE ValidationSound'
    BY <1>2, <2>4 DEF ValidationSound
  <2>5. Next => \/ CreateProcess \/ CreateVersion \/ UNCHANGED answer
                \/ \E is : AnswersOnly(is)
    BY DEF Next, LoadProcess, UpdateProcess, DeleteProcess,
           ModifySlotInProcess, ModifyStepInProcess, ModifyLinkInProcess,
           ModifySlotInVersion, ModifyStepInVersion, ModifyLinkInVersion,
           VersionNotFound, ModifySlot, ModifyStep, ModifyLink, SetLink, Refuse
  <2> QED BY <1>2, <2>1, <2>2, <2>3, <2>4, <2>5 DEF vars
<1> QED BY <1>1, <1>2, PTL DEF Spec
=============================================================================
