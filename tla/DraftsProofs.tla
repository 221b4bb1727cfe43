---------------------------- MODULE DraftsProofs ----------------------------
(***************************************************************************)
(* Proofs about Drafts, for every number of modules, users, handlers and   *)
(* documents, and every editing process.                                   *)
(***************************************************************************)
EXTENDS Drafts, TLAPS

-----------------------------------------------------------------------------
(* Types *)

LEMMA IdleType == Idle \in Request
BY DEF Idle, Request, Orx, Kind

LEMMA VacantType == Vacant \in [Slot -> Orx(User)]
BY DEF Vacant, Orx

LEMMA TellSlotType ==
  ASSUME NEW kind \in {"slot-filled", "slot-vacated"}, NEW m \in Module,
         NEW s \in Slot, NEW u \in User
  PROVE  TellSlot(kind, m, s, u) \subseteq Notice
BY DEF TellSlot, Notice, Orx

LEMMA TellType ==
  ASSUME NEW kind \in {"draft-advanced", "process-ended", "process-cancelled"},
         NEW m \in Module, NEW users \in SUBSET User
  PROVE  Tell(kind, m, users) \subseteq Notice
BY DEF Tell, Notice, Orx

LEMMA InitTypeOK == Init => TypeOK
<1>. USE DEF Orx
<1>1. SUFFICES ASSUME Init PROVE TypeOK
  OBVIOUS
<1>2. versions \in [Module -> Seq(Doc)]
  BY <1>1 DEF Init
<1>3. seats \in [Module -> [Slot -> Orx(User)]]
  BY <1>1, VacantType DEF Init
<1>4. requests \in [Handler -> Request]
  BY <1>1, IdleType DEF Init
<1>. QED  BY <1>1, <1>2, <1>3, <1>4 DEF Init, TypeOK

LEMMA LoadTypeOK ==
  ASSUME TypeOK, NEW h \in Handler, NEW r \in Request, Load(h, r)
  PROVE  TypeOK'
BY DEF TypeOK, Load, documentVars, moduleVars, teamVars

LEMMA FinishedType ==
  ASSUME TypeOK, NEW h \in Handler, Finished(h)
  PROVE  requests' \in [Handler -> Request]
BY IdleType DEF TypeOK, Finished

LEMMA InsertDocumentType ==
  ASSUME TypeOK, NEW c \in Content, InsertDocument(c)
  PROVE  documents' \in [Doc -> Orx(Content)] /\ serial' \in Nat \ {0}
BY DEF TypeOK, InsertDocument, Doc, Orx

LEMMA PublishDocumentType ==
  ASSUME TypeOK, NEW m \in Module, NEW d \in Doc, PublishDocument(m, d)
  PROVE  modules' \in [Module -> Orx(Doc)] /\ versions' \in [Module -> Seq(Doc)]
<1>1. Append(versions[m], d) \in Seq(Doc)
  BY DEF TypeOK
<1>. QED  BY <1>1 DEF TypeOK, PublishDocument, Orx

LEMMA DeleteDraftRowType ==
  ASSUME TypeOK, NEW m \in Module, DeleteDraftRow(m)
  PROVE  /\ drafts' \in [Module -> Orx([document : Doc, step : Step])]
         /\ seats' \in [Module -> [Slot -> Orx(User)]]
BY VacantType DEF TypeOK, DeleteDraftRow, Orx

LEMMA MembersType == ASSUME NEW m \in Module PROVE Members(m) \subseteq User
BY DEF Members

LEMMA FilledSeatsType ==
  ASSUME NEW m \in Module, NEW st, NEW f \in FilledSeats(m, st)
  PROVE  f \in [Slot -> Orx(User)]
BY DEF FilledSeats

LEMMA SeatingType ==
  ASSUME TypeOK, NEW m \in Module, NEW st
  PROVE  {x.user : x \in GetSlotSeating(m, st)} \subseteq User
BY ProcessAssumption DEF GetSlotSeating, TypeOK, Orx

\* What a request that is not idle knows has the type of what it was read from.
LEMMA RequestTypes ==
  ASSUME TypeOK, RequestsSound, NEW h \in Handler
  PROVE  /\ requests[h] \in Request
         /\ requests[h].kind # "idle" => requests[h].module \in Module
         /\ requests[h].kind \in {"begin", "delete", "advance", "checked", "write"}
                => requests[h].document \in Doc
         /\ requests[h].kind = "begin" =>
                /\ requests[h].version \in Version
                /\ requests[h].document \in Range(versions[requests[h].module])
         /\ requests[h].kind = "fill" =>
                requests[h].slot \in Slot /\ requests[h].user \in User
         /\ requests[h].old \in Orx(User)
<1>1. requests[h] \in Request
  BY DEF TypeOK
<1>. QED  BY <1>1 DEF RequestsSound, RequestSound, Request, Orx

LEMMA HandlerTypeOK ==
  ASSUME TypeOK, RequestsSound, NEW h \in Handler, HandlerStep(h)
  PROVE  TypeOK'
<1>. USE DEF documentVars, moduleVars, teamVars
<1>. DEFINE r == requests[h]
<1>0. r \in Request /\ Idle \in Request
  BY RequestTypes, IdleType
<1>1. CASE Fail(h)
  BY <1>1, FinishedType DEF Fail, TypeOK
<1>2. ASSUME NEW m \in Module, LoadModule(h, m)
      PROVE  TypeOK'
  <2>1. [Idle EXCEPT !.kind = "begin", !.module = m, !.document = modules[m],
                     !.version = current] \in Request
    BY <1>0 DEF TypeOK, Request, Orx, Kind
  <2>. QED  BY <1>2, <2>1, LoadTypeOK DEF LoadModule
<1>3. CASE BeginProcess(h)
  <2>1. PICK f \in [Slot -> Orx(User)] :
            /\ seats' = [seats EXCEPT ![r.module] = f]
            /\ notices' = UNION {TellSlot("slot-filled", r.module, s, f[s]) :
                                s \in {t \in Slot : f[t] # Null}}
    BY <1>3 DEF BeginProcess, StartDraft
  <2>2. r.module \in Module /\ r.document \in Doc /\ r.version \in Version
    BY <1>3, RequestTypes DEF BeginProcess, StartDraft
  <2>3. notices' \subseteq Notice
    BY <2>1, <2>2, TellSlotType DEF Orx
  <2>4. documents' \in [Doc -> Orx(Content)] /\ serial' \in Nat \ {0}
    BY <1>3, <2>2 DEF BeginProcess, StartDraft, InsertDocument, TypeOK, Doc
  <2>5. serial \in Doc /\ Start[r.version] \in Step
    BY <1>3, <2>2, ProcessAssumption DEF BeginProcess, StartDraft, InsertDocument
  <2>6. drafts' \in [Module -> Orx([document : Doc, step : Step])]
    BY <1>3, <2>2, <2>5 DEF BeginProcess, StartDraft, TypeOK, Orx
  <2>. QED
    BY <1>3, <2>1, <2>2, <2>3, <2>4, <2>6, FinishedType DEF BeginProcess, StartDraft, TypeOK
<1>4. ASSUME NEW m \in Module, CountDrafts(h, m)
      PROVE  TypeOK'
  <2>1. [Idle EXCEPT !.kind = "replace", !.module = m] \in Request
    BY DEF Idle, Request, Orx, Kind
  <2>. QED  BY <1>4, <2>1, LoadTypeOK DEF CountDrafts
<1>5. ASSUME NEW c \in Content, ReplaceModule(h, c)
      PROVE  TypeOK'
  <2>1. r.module \in Module /\ serial \in Doc
    BY <1>5, RequestTypes DEF ReplaceModule, InsertDocument
  <2>. QED
    BY <1>5, <2>1, InsertDocumentType, PublishDocumentType, FinishedType
    DEF ReplaceModule, TypeOK
<1>6. ASSUME NEW m \in Module, LoadForDelete(h, m)
      PROVE  TypeOK'
  <2>1. [Idle EXCEPT !.kind = "delete", !.module = m,
                     !.document = drafts[m].document] \in Request
    BY <1>0, <1>6 DEF LoadForDelete, TypeOK, Request, Orx, Kind
  <2>. QED  BY <1>6, <2>1, LoadTypeOK DEF LoadForDelete
<1>7. CASE DeleteDraft(h)
  <2>1. r.module \in Module /\ r.document \in Doc
    BY <1>7, RequestTypes DEF DeleteDraft, DeleteDocument
  <2>2. notices' \subseteq Notice
    BY <1>7, <2>1, TellType, MembersType DEF DeleteDraft, DeleteDocument
  <2>. QED
    BY <1>7, <2>1, <2>2, DeleteDraftRowType, FinishedType
    DEF DeleteDraft, DeleteDocument, TypeOK, Orx
<1>8. ASSUME NEW m \in Module, NEW u \in User, LoadForAdvance(h, m, u)
      PROVE  TypeOK'
  <2>1. [Idle EXCEPT !.kind = "advance", !.module = m, !.user = u,
                     !.document = drafts[m].document,
                     !.step = drafts[m].step] \in Request
    BY <1>0, <1>8 DEF LoadForAdvance, TypeOK, Request, Orx, Kind
  <2>. QED  BY <1>8, <2>1, LoadTypeOK DEF LoadForAdvance
<1>9. ASSUME NEW s \in Slot, CheckSlot(h, s)
      PROVE  TypeOK'
  <2>1. [r EXCEPT !.kind = "checked", !.slot = s] \in Request
    BY <1>0 DEF Request, Orx, Kind
  <2>. QED  BY <1>9, <2>1 DEF CheckSlot, TypeOK
<1>10. ASSUME NEW l \in Link, AdvanceDraft(h, l)
       PROVE  TypeOK'
  <2>1. r.module \in Module /\ l.to \in Step
    BY <1>10, RequestTypes, ProcessAssumption DEF AdvanceDraft, EndsProcess
  <2>2. seats' \in [Module -> [Slot -> Orx(User)]]
    BY <1>10, <2>1, FilledSeatsType DEF AdvanceDraft, EndsProcess, TypeOK
  <2>3. drafts' \in [Module -> Orx([document : Doc, step : Step])]
    BY <1>10, <2>1 DEF AdvanceDraft, EndsProcess, TypeOK, Orx
  <2>4. notices' \subseteq Notice
    BY <1>10, <2>1, TellType, SeatingType DEF AdvanceDraft, EndsProcess
  <2>. QED
    BY <1>10, <2>2, <2>3, <2>4, FinishedType DEF AdvanceDraft, EndsProcess, TypeOK
<1>11. ASSUME NEW l \in Link, FinishDraft(h, l)
       PROVE  TypeOK'
  <2>1. r.module \in Module /\ r.document \in Doc
    BY <1>11, RequestTypes DEF FinishDraft, EndsProcess
  <2>2. notices' \subseteq Notice
    BY <1>11, <2>1, TellType, MembersType DEF FinishDraft, EndsProcess
  <2>. QED
    BY <1>11, <2>1, <2>2, PublishDocumentType, DeleteDraftRowType, FinishedType
    DEF FinishDraft, EndsProcess, TypeOK
<1>12. ASSUME NEW m \in Module, NEW u \in User, NEW p \in Part,
              LoadForWrite(h, m, u, p)
       PROVE  TypeOK'
  <2>1. [Idle EXCEPT !.kind = "write", !.module = m, !.user = u,
                     !.document = drafts[m].document] \in Request
    BY <1>0, <1>12 DEF LoadForWrite, TypeOK, Request, Orx, Kind
  <2>. QED  BY <1>12, <2>1, LoadTypeOK DEF LoadForWrite
<1>13. ASSUME NEW c \in Content, WriteDraft(h, c)
       PROVE  TypeOK'
  BY <1>13, FinishedType DEF WriteDraft, TypeOK, Orx
<1>14. ASSUME NEW m \in Module, NEW s \in Slot, NEW u \in User,
              LoadForFill(h, m, s, u)
       PROVE  TypeOK'
  <2>1. seats[m][s] \in Orx(User)
    BY DEF TypeOK
  <2>2. [Idle EXCEPT !.kind = "fill", !.module = m, !.slot = s, !.user = u,
                     !.old = seats[m][s]] \in Request
    BY <2>1 DEF Idle, Request, Orx, Kind
  <2>. QED  BY <1>14, <2>2, LoadTypeOK DEF LoadForFill
<1>15. CASE FillSlot(h)
  <2>1. /\ r.module \in Module /\ r.slot \in Slot /\ r.user \in User
        /\ r.old \in Orx(User)
    BY <1>15, RequestTypes DEF FillSlot, TellVacated
  <2>2. notices' \subseteq Notice
    BY <1>15, <2>1, TellSlotType DEF FillSlot, TellVacated, Orx
  <2>. QED  BY <1>15, <2>1, <2>2, FinishedType DEF FillSlot, TellVacated, TypeOK, Orx
<1>. QED
  BY <1>1, <1>2, <1>3, <1>4, <1>5, <1>6, <1>7, <1>8, <1>9, <1>10, <1>11, <1>12,
     <1>13, <1>14, <1>15 DEF HandlerStep

LEMMA NextTypeOK ==
  ASSUME TypeOK, RequestsSound, [Next]_vars
  PROVE  TypeOK'
<1>. USE DEF documentVars, moduleVars, teamVars
<1>1. ASSUME NEW m \in Module, NEW c \in Content, CreateModule(m, c)
      PROVE  TypeOK'
  <2>1. serial \in Doc
    BY <1>1 DEF CreateModule, InsertDocument
  <2>. QED
    BY <1>1, <2>1, InsertDocumentType, PublishDocumentType
    DEF CreateModule, TypeOK
<1>2. ASSUME NEW h \in Handler, HandlerStep(h)
      PROVE  TypeOK'
  BY <1>2, HandlerTypeOK
<1>3. ASSUME NEW u \in User, NEW r \in Orx(Role), SetRole(u, r)
      PROVE  TypeOK'
  BY <1>3 DEF SetRole, SetTeam, TypeOK
<1>4. ASSUME NEW s \in Slot, NEW roles \in SUBSET Role, SetRoleLimit(s, roles)
      PROVE  TypeOK'
  BY <1>4 DEF SetRoleLimit, SetTeam, TypeOK
<1>5. ASSUME NEW v \in Version, CreateVersion(v)
      PROVE  TypeOK'
  BY <1>5 DEF CreateVersion, SetTeam, TypeOK
<1>6. CASE UNCHANGED vars
  BY <1>6 DEF vars, TypeOK
<1>. QED  BY <1>1, <1>2, <1>3, <1>4, <1>5, <1>6 DEF Next

-----------------------------------------------------------------------------
(* Documents and who knows of them *)

LEMMA RangeAppend ==
  ASSUME NEW S, NEW s \in Seq(S), NEW d \in S
  PROVE  Range(Append(s, d)) = Range(s) \cup {d}
<1>1. DOMAIN Append(s, d) = DOMAIN s \cup {Len(s) + 1}
  OBVIOUS
<1>2. \A i \in DOMAIN s : Append(s, d)[i] = s[i]
  OBVIOUS
<1>3. Append(s, d)[Len(s) + 1] = d
  OBVIOUS
<1>. QED  BY <1>1, <1>2, <1>3 DEF Range

LEMMA SeqLast ==
  ASSUME NEW S, NEW s \in Seq(S), s # <<>>
  PROVE  s[Len(s)] \in Range(s)
BY DEF Range

\* A new version is appended; the other modules' are untouched.
LEMMA PublishDocumentEffect ==
  ASSUME TypeOK, NEW m \in Module, NEW d \in Doc, PublishDocument(m, d)
  PROVE  /\ Range(versions'[m]) = Range(versions[m]) \cup {d}
         /\ \A n \in Module \ {m} : /\ versions'[n] = versions[n]
                                    /\ modules'[n] = modules[n]
         /\ modules'[m] = d
         /\ versions'[m] = Append(versions[m], d)
<1>1. versions[m] \in Seq(Doc)
  BY DEF TypeOK
<1>2. versions'[m] = Append(versions[m], d)
  BY DEF PublishDocument, TypeOK
<1>. QED  BY <1>1, <1>2, RangeAppend DEF PublishDocument, TypeOK

LEMMA VersionsAreDocuments ==
  ASSUME TypeOK, NEW m \in Module
  PROVE  Range(versions[m]) \subseteq Doc
BY DEF TypeOK, Range

LEMMA SerialIsFresh ==
  ASSUME TypeOK, Allocated, NEW m \in Module
  PROVE  serial \notin References(m)
<1>1. ASSUME NEW h \in Handler
      PROVE  requests[h].document # serial
  <2>1. serial \in Nat /\ serial # Null
    BY NullAssumption DEF TypeOK
  <2>2. requests[h].document \in Orx(Doc)
    BY DEF TypeOK, Request
  <2>. QED  BY <2>1, <2>2 DEF Allocated, Orx, Doc
<1>2. drafts[m] # Null => drafts[m].document # serial
  BY DEF TypeOK, Allocated
<1>3. serial \notin Range(versions[m])
  BY DEF TypeOK, Allocated
<1>. QED  BY <1>1, <1>2, <1>3 DEF References

LEMMA ReferencesShrink ==
  ASSUME ReferencesDisjoint, \A m \in Module : References(m)' \subseteq References(m)
  PROVE  ReferencesDisjoint'
BY DEF ReferencesDisjoint

LEMMA ReferencesGrow ==
  ASSUME TypeOK, Allocated, ReferencesDisjoint, NEW k \in Module,
         References(k)' \subseteq References(k) \cup {serial},
         \A m \in Module \ {k} : References(m)' \subseteq References(m)
  PROVE  ReferencesDisjoint'
BY SerialIsFresh DEF ReferencesDisjoint

\* What DocumentsUnshared says of two modules follows from their references
\* being disjoint; of one module it is this.
OwnDocument ==
    \A m \in Module :
        drafts[m] # Null => drafts[m].document \notin Range(versions[m])

LEMMA UnsharedFromReferences ==
  ASSUME TypeOK', ReferencesDisjoint', OwnDocument'
  PROVE  DocumentsUnshared'
<1>. SUFFICES ASSUME NEW m \in Module, NEW n \in Module
     PROVE /\ drafts'[m] # Null => drafts'[m].document \notin Range(versions'[n])
           /\ m # n =>
                /\ Range(versions'[m]) \cap Range(versions'[n]) = {}
                /\ (drafts'[m] # Null /\ drafts'[n] # Null)
                        => drafts'[m].document # drafts'[n].document
  BY DEF DocumentsUnshared
<1>1. /\ drafts'[m] # Null => drafts'[m].document \in References(m)'
      /\ drafts'[n] # Null => drafts'[n].document \in References(n)'
  BY DEF TypeOK, References, Orx
<1>2. /\ Range(versions'[m]) \subseteq References(m)'
      /\ Range(versions'[n]) \subseteq References(n)'
  BY DEF References
<1>. QED  BY <1>1, <1>2 DEF OwnDocument, ReferencesDisjoint

LEMMA OwnDocumentHolds == ASSUME DocumentsUnshared PROVE OwnDocument
BY DEF DocumentsUnshared, OwnDocument

LEMMA ReferencesAllocated ==
  ASSUME TypeOK, Allocated, NEW m \in Module, NEW d \in References(m)
  PROVE  d \in Doc /\ d < serial
<1>1. CASE d \in Range(versions[m])
  BY <1>1, VersionsAreDocuments DEF Allocated
<1>2. CASE d \in Doc /\ drafts[m] # Null /\ drafts[m].document = d
  BY <1>2 DEF Allocated
<1>3. CASE d \in Doc /\ \E h \in Handler : requests[h].document = d
  BY <1>3, NullAssumption DEF Allocated, Doc
<1>. QED  BY <1>1, <1>2, <1>3 DEF References

\* A step that changes no document, version or draft, and after which every
\* handler knows no more than was known of its module before.
LEMMA QuietStep ==
  ASSUME DraftsInvariant, TypeOK',
         UNCHANGED <<documents, serial, modules, versions, drafts>>,
         \A m \in Module : drafts[m] = Null => seats'[m] = seats[m],
         \A h \in Handler :
            /\ RequestSound(requests[h])'
            /\ requests'[h].document # Null =>
                /\ requests'[h].module \in Module
                /\ requests'[h].document \in References(requests'[h].module)
  PROVE  DraftsInvariant'
<1>. USE DEF DraftsInvariant
<1>1. Allocated'
  BY ReferencesAllocated DEF Allocated
<1>2. RequestsSound'
  BY DEF RequestsSound
<1>3. ReferencesDisjoint'
  <2>1. ASSUME NEW m \in Module PROVE References(m)' \subseteq References(m)
    BY NullAssumption DEF References, Doc
  <2>. QED  BY <2>1, ReferencesShrink
<1>4. DocumentsUnshared' /\ HistorySound' /\ NeverAtFinalStep'
  BY DEF DocumentsUnshared, HistorySound, NeverAtFinalStep
<1>5. SeatsHaveDraft'
  BY DEF SeatsHaveDraft
<1>. QED  BY <1>1, <1>2, <1>3, <1>4, <1>5

LEMMA RememberedIsReferenced ==
  ASSUME TypeOK, RequestsSound, NEW h \in Handler, requests[h].document # Null
  PROVE  /\ requests[h].module \in Module
         /\ requests[h].document \in References(requests[h].module)
<1>1. requests[h] \in Request
  BY DEF TypeOK
<1>. QED  BY <1>1 DEF RequestsSound, RequestSound, References, Request, Orx

-----------------------------------------------------------------------------
(* Every handler's step preserves DraftsInvariant *)

LEMMA IdleSound == RequestSound(Idle)' /\ Idle.document = Null
BY DEF Idle, RequestSound

\* A handler that only reads may remember a document its module references.
LEMMA LoadPreserves ==
  ASSUME DraftsInvariant, TypeOK', NEW h \in Handler, NEW r \in Request,
         NEW m \in Module, r.module = m, RequestSound(r),
         r.document # Null => r.document \in References(m),
         Load(h, r)
  PROVE  DraftsInvariant'
<1>1. \A g \in Handler : requests'[g] = IF g = h THEN r ELSE requests[g]
  BY DEF Load, DraftsInvariant, TypeOK
<1>2. RequestSound(r)' /\ \A g \in Handler : RequestSound(requests[g])'
  BY <1>1 DEF DraftsInvariant, RequestsSound, RequestSound, Load, moduleVars
<1>. QED
  BY <1>1, <1>2, QuietStep, RememberedIsReferenced
  DEF DraftsInvariant, Load, documentVars, moduleVars

\* Once a handler has finished, the others remember what they did before.
LEMMA FinishedRequests ==
  ASSUME TypeOK, RequestsSound, NEW h \in Handler, Finished(h),
         \A m \in Module : Range(versions[m]) \subseteq Range(versions'[m])
  PROVE  /\ RequestsSound'
         /\ \A g \in Handler : requests'[g].document # Null =>
                g # h /\ requests'[g] = requests[g]
<1>1. \A g \in Handler : requests'[g] = IF g = h THEN Idle ELSE requests[g]
  BY DEF Finished, TypeOK
<1>2. \A g \in Handler : requests[g].module \in Orx(Module)
  BY DEF TypeOK, Request
<1>. QED  BY <1>1, <1>2, IdleSound DEF RequestsSound, RequestSound, Orx

LEMMA FailPreserves ==
  ASSUME DraftsInvariant, TypeOK', NEW h \in Handler, Fail(h)
  PROVE  DraftsInvariant'
<1>. USE DEF DraftsInvariant, Fail, documentVars, moduleVars
<1>1. \A g \in Handler : RequestSound(requests[g])'
  BY FinishedRequests DEF RequestsSound
<1>. QED  BY <1>1, FinishedRequests, RememberedIsReferenced, QuietStep

LEMMA FillSlotPreserves ==
  ASSUME DraftsInvariant, TypeOK', NEW h \in Handler, FillSlot(h)
  PROVE  DraftsInvariant'
<1>. USE DEF DraftsInvariant, FillSlot, TellVacated, documentVars, moduleVars
<1>1. \A g \in Handler : RequestSound(requests[g])'
  BY FinishedRequests DEF RequestsSound
<1>2. \A m \in Module : drafts[m] = Null => seats'[m] = seats[m]
  BY DEF TypeOK
<1>. QED  BY <1>1, <1>2, FinishedRequests, RememberedIsReferenced, QuietStep

LEMMA CheckSlotPreserves ==
  ASSUME DraftsInvariant, TypeOK', NEW h \in Handler, NEW s \in Slot,
         CheckSlot(h, s)
  PROVE  DraftsInvariant'
<1>. USE DEF DraftsInvariant, CheckSlot, documentVars, moduleVars
<1>. DEFINE q == [requests[h] EXCEPT !.kind = "checked", !.slot = s]
<1>1. requests[h] \in Request
  BY DEF TypeOK
<1>2. /\ requests'[h] = q
      /\ \A g \in Handler \ {h} : requests'[g] = requests[g]
  BY DEF TypeOK
<1>3. /\ q.document = requests[h].document /\ q.module = requests[h].module
      /\ q.kind = "checked"
  BY <1>1 DEF Request
<1>4. \A g \in Handler : /\ requests'[g].document = requests[g].document
                         /\ requests'[g].module = requests[g].module
  BY <1>2, <1>3
<1>5. RequestSound(requests[h])'
  BY <1>2, <1>3, ZenonT(60) DEF RequestsSound, RequestSound
<1>6. \A g \in Handler \ {h} : RequestSound(requests[g])'
  BY <1>2, ZenonT(60) DEF RequestsSound, RequestSound
<1>. QED  BY <1>4, <1>5, <1>6, RememberedIsReferenced, QuietStep

\* The steps that touch the team only.
LEMMA TeamPreserves ==
  ASSUME DraftsInvariant, TypeOK', SetTeam
  PROVE  DraftsInvariant'
<1>. USE DEF DraftsInvariant, SetTeam, documentVars, moduleVars
<1>1. \A g \in Handler : RequestSound(requests[g])'
  BY DEF RequestsSound, RequestSound
<1>. QED  BY <1>1, RememberedIsReferenced, QuietStep

LEMMA WriteDraftPreserves ==
  ASSUME DraftsInvariant, TypeOK', NEW h \in Handler, NEW c \in Content,
         WriteDraft(h, c)
  PROVE  DraftsInvariant'
<1>. USE DEF DraftsInvariant, WriteDraft, moduleVars
<1>1. /\ RequestsSound'
      /\ \A g \in Handler : requests'[g].document # Null =>
             g # h /\ requests'[g] = requests[g]
  BY FinishedRequests
<1>2. \A d \in Doc : documents'[d] # Null <=> documents[d] # Null
  BY NullAssumption DEF TypeOK
<1>3. Allocated'
  BY <1>1, <1>2 DEF Allocated
<1>4. \A m \in Module : References(m)' \subseteq References(m)
  BY <1>1, NullAssumption DEF References, Doc
<1>5. ReferencesDisjoint'
  BY <1>4, ReferencesShrink
<1>6. HistorySound'
  BY <1>2, VersionsAreDocuments, NullAssumption
  DEF HistorySound, TypeOK, Orx
<1>7. DocumentsUnshared' /\ NeverAtFinalStep' /\ SeatsHaveDraft'
  BY DEF DocumentsUnshared, NeverAtFinalStep, SeatsHaveDraft
<1>. QED  BY <1>1, <1>3, <1>5, <1>6, <1>7

LEMMA AdvanceDraftPreserves ==
  ASSUME DraftsInvariant, TypeOK', NEW h \in Handler, NEW l \in Link,
         AdvanceDraft(h, l)
  PROVE  DraftsInvariant'
<1>. USE DEF DraftsInvariant, AdvanceDraft, EndsProcess, moduleVars, documentVars
<1>. DEFINE k == requests[h].module
<1>1. /\ RequestsSound'
      /\ \A g \in Handler : requests'[g].document # Null =>
             g # h /\ requests'[g] = requests[g]
  BY FinishedRequests
<1>2. k \in Module
  BY RequestTypes
<1>3. /\ drafts'[k] # Null /\ drafts[k] # Null
      /\ drafts'[k].document = drafts[k].document
      /\ drafts'[k].step = l.to
      /\ \A m \in Module \ {k} : drafts'[m] = drafts[m]
  <2>1. drafts[k] \in [document : Doc, step : Step] /\ l.to \in Step
    BY <1>2, ProcessAssumption DEF TypeOK, Orx
  <2>2. /\ drafts'[k] = [drafts[k] EXCEPT !.step = l.to]
        /\ \A m \in Module \ {k} : drafts'[m] = drafts[m]
    BY <1>2 DEF TypeOK
  <2>3. drafts'[k] \in [document : Doc, step : Step]
    BY <2>1, <2>2
  <2>. QED  BY <2>1, <2>2, <2>3, NullAssumption
<1>4. \A m \in Module : /\ drafts'[m] # Null <=> drafts[m] # Null
                        /\ drafts[m] # Null =>
                               drafts'[m].document = drafts[m].document
  BY <1>3
<1>5. Allocated'
  BY <1>1, <1>4 DEF Allocated
<1>6. \A m \in Module : References(m)' \subseteq References(m)
  BY <1>1, <1>4, NullAssumption DEF References, Doc
<1>7. ReferencesDisjoint'
  BY <1>6, ReferencesShrink
<1>8. DocumentsUnshared'
  BY <1>4 DEF DocumentsUnshared
<1>9. HistorySound'
  BY <1>4 DEF HistorySound
<1>10. NeverAtFinalStep'
  BY <1>3 DEF NeverAtFinalStep
<1>11. SeatsHaveDraft'
  BY <1>2, <1>3 DEF SeatsHaveDraft, TypeOK
<1>. QED  BY <1>1, <1>5, <1>7, <1>8, <1>9, <1>10, <1>11

LEMMA DeleteDraftPreserves ==
  ASSUME DraftsInvariant, TypeOK', NEW h \in Handler, DeleteDraft(h)
  PROVE  DraftsInvariant'
<1>. USE DEF DraftsInvariant, DeleteDraft, DeleteDocument, moduleVars
<1>. DEFINE k == requests[h].module
            gone == requests[h].document
<1>1. /\ RequestsSound'
      /\ \A g \in Handler : requests'[g].document # Null =>
             g # h /\ requests'[g] = requests[g]
  BY FinishedRequests
<1>2. k \in Module /\ gone \in Doc
  BY RequestTypes
<1>3. /\ drafts'[k] = Null /\ seats'[k] = Vacant
      /\ \A m \in Module \ {k} : drafts'[m] = drafts[m] /\ seats'[m] = seats[m]
  BY <1>2 DEF DeleteDraftRow, TypeOK
<1>4. \A d \in Doc : documents'[d] = IF d = gone THEN Null ELSE documents[d]
  BY <1>2 DEF TypeOK
<1>5. Allocated'
  BY <1>1, <1>3, <1>4 DEF Allocated
<1>6. \A m \in Module : References(m)' \subseteq References(m)
  BY <1>1, <1>3, NullAssumption DEF References, Doc
<1>7. ReferencesDisjoint'
  BY <1>6, ReferencesShrink
<1>8. DocumentsUnshared'
  BY <1>3 DEF DocumentsUnshared
<1>9. HistorySound'
  <2>1. ASSUME NEW m \in Module, NEW d \in Range(versions[m])
        PROVE  documents'[d] # Null
    BY <1>4, VersionsAreDocuments DEF HistorySound
  <2>2. ASSUME NEW m \in Module, drafts'[m] # Null
        PROVE  documents'[drafts'[m].document] # Null
    <3>1. m # k /\ drafts'[m] = drafts[m]
      BY <1>3, <2>2
    <3>2. drafts[m].document \in Doc \ {gone}
      BY <2>2, <3>1 DEF TypeOK, Orx
    <3>. QED  BY <1>4, <2>2, <3>1, <3>2 DEF HistorySound
  <2>. QED  BY <2>1, <2>2 DEF HistorySound
<1>10. NeverAtFinalStep' /\ SeatsHaveDraft'
  BY <1>3 DEF NeverAtFinalStep, SeatsHaveDraft, Vacant
<1>. QED  BY <1>1, <1>5, <1>7, <1>8, <1>9, <1>10

\* Giving a module a version it has not had keeps the histories sound.
LEMMA PublishDocumentHistory ==
  ASSUME TypeOK, TypeOK', HistorySound, NEW k \in Module, NEW d \in Doc,
         PublishDocument(k, d), documents'[d] # Null,
         \A e \in Doc : documents[e] # Null => documents'[e] # Null
  PROVE  \A m \in Module :
            /\ modules'[m] # Null <=> versions'[m] # <<>>
            /\ modules'[m] # Null => modules'[m] = versions'[m][Len(versions'[m])]
            /\ IsInjective(versions'[m])
            /\ \A e \in Range(versions'[m]) : documents'[e] # Null
<1>1. ASSUME NEW m \in Module, m # k
      PROVE  /\ modules'[m] # Null <=> versions'[m] # <<>>
             /\ modules'[m] # Null => modules'[m] = versions'[m][Len(versions'[m])]
             /\ IsInjective(versions'[m])
             /\ \A e \in Range(versions'[m]) : documents'[e] # Null
  BY <1>1, PublishDocumentEffect, VersionsAreDocuments DEF HistorySound
<1>2. versions[k] \in Seq(Doc) /\ IsInjective(versions[k])
  BY DEF TypeOK, HistorySound
<1>3. /\ versions'[k] = Append(versions[k], d) /\ modules'[k] = d
      /\ d \notin Range(versions[k])
  BY PublishDocumentEffect DEF PublishDocument
<1>4. /\ modules'[k] # Null /\ versions'[k] # <<>>
      /\ modules'[k] = versions'[k][Len(versions'[k])]
  BY <1>2, <1>3, NullAssumption, SMTT(30) DEF Doc
<1>5. IsInjective(versions'[k])
  <2>1. \A i \in 1..Len(versions[k]) : versions[k][i] # d
    BY <1>2, <1>3 DEF Range
  <2>. QED  BY <1>2, <1>3, <2>1 DEF IsInjective
<1>6. \A e \in Range(versions'[k]) : documents'[e] # Null
  BY PublishDocumentEffect, VersionsAreDocuments DEF HistorySound
<1>. QED  BY <1>1, <1>4, <1>5, <1>6

LEMMA FinishDraftPreserves ==
  ASSUME DraftsInvariant, TypeOK', NEW h \in Handler, NEW l \in Link,
         FinishDraft(h, l)
  PROVE  DraftsInvariant'
<1>. USE DEF DraftsInvariant, FinishDraft, EndsProcess, documentVars
<1>. DEFINE k == requests[h].module
            d == requests[h].document
<1>1. k \in Module /\ d \in Doc /\ d \in References(k) /\ d < serial
  <2>1. k \in Module /\ d \in Doc
    BY RequestTypes
  <2>. QED  BY <2>1, NullAssumption, RememberedIsReferenced, ReferencesAllocated
            DEF Doc
<1>2. /\ versions'[k] = Append(versions[k], d)
      /\ Range(versions'[k]) = Range(versions[k]) \cup {d}
      /\ \A m \in Module \ {k} : versions'[m] = versions[m]
  BY <1>1, PublishDocumentEffect
<1>3. /\ RequestsSound'
      /\ \A g \in Handler : requests'[g].document # Null =>
             g # h /\ requests'[g] = requests[g]
  BY <1>2, FinishedRequests
<1>4. /\ drafts'[k] = Null /\ seats'[k] = Vacant
      /\ \A m \in Module \ {k} : drafts'[m] = drafts[m] /\ seats'[m] = seats[m]
  BY <1>1 DEF DeleteDraftRow, TypeOK
<1>5. Allocated'
  <2>1. \A m \in Module : \A e \in Range(versions'[m]) : e < serial
    BY <1>1, <1>2 DEF Allocated
  <2>2. \A m \in Module : drafts'[m] # Null => drafts'[m].document < serial
    BY <1>4 DEF Allocated
  <2>3. \A g \in Handler :
            requests'[g].document # Null => requests'[g].document < serial
    BY <1>3 DEF Allocated
  <2>. QED  BY <2>1, <2>2, <2>3 DEF Allocated
<1>6. ASSUME NEW m \in Module
      PROVE  References(m)' \subseteq References(m)
  <2>1. Range(versions'[m]) \subseteq References(m)
    BY <1>1, <1>2 DEF References
  <2>2. ASSUME NEW e \in Doc, drafts'[m] # Null, drafts'[m].document = e
        PROVE  e \in References(m)
    BY <1>4, <2>2 DEF References
  <2>3. ASSUME NEW e \in Doc, NEW g \in Handler, requests'[g].module = m,
               requests'[g].document = e
        PROVE  e \in References(m)
    BY <1>3, <2>3, NullAssumption DEF References, Doc
  <2>. QED  BY <2>1, <2>2, <2>3 DEF References
<1>7. ReferencesDisjoint'
  BY <1>6, ReferencesShrink
<1>8. OwnDocument'
  BY <1>2, <1>4, OwnDocumentHolds DEF OwnDocument
<1>9. DocumentsUnshared'
  BY <1>7, <1>8, UnsharedFromReferences
<1>10. HistorySound'
  BY <1>1, <1>4, PublishDocumentHistory DEF HistorySound
<1>11. NeverAtFinalStep' /\ SeatsHaveDraft'
  BY <1>4 DEF NeverAtFinalStep, SeatsHaveDraft, Vacant
<1>. QED  BY <1>3, <1>5, <1>7, <1>9, <1>10, <1>11

\* A new document takes the identity `serial`, which nothing has referenced.
LEMMA InsertDocumentEffect ==
  ASSUME TypeOK, Allocated, NEW c \in Content, InsertDocument(c)
  PROVE  /\ serial \in Doc /\ serial' = serial + 1
         /\ documents[serial] = Null /\ documents'[serial] # Null
         /\ \A d \in Doc : d # serial => documents'[d] = documents[d]
         /\ \A d \in Doc : documents[d] # Null => documents'[d] # Null
BY NullAssumption DEF InsertDocument, TypeOK, Allocated, Doc

LEMMA BeginProcessPreserves ==
  ASSUME DraftsInvariant, TypeOK', NEW h \in Handler, BeginProcess(h)
  PROVE  DraftsInvariant'
<1>. USE DEF DraftsInvariant, BeginProcess, StartDraft, moduleVars
<1>. DEFINE r == requests[h]
            k == requests[h].module
<1>1. /\ k \in Module /\ r.document \in Range(versions[k]) /\ r.document \in Doc
      /\ r.version \in Version
  BY RequestTypes
<1>2. documents[r.document] \in Content
  BY <1>1 DEF HistorySound, TypeOK, Orx
<1>3. /\ serial \in Doc /\ serial' = serial + 1
      /\ documents[serial] = Null /\ documents'[serial] # Null
      /\ \A d \in Doc : d # serial => documents'[d] = documents[d]
      /\ \A d \in Doc : documents[d] # Null => documents'[d] # Null
  BY <1>2, InsertDocumentEffect
<1>4. /\ RequestsSound'
      /\ \A g \in Handler : requests'[g].document # Null =>
             g # h /\ requests'[g] = requests[g]
  BY FinishedRequests
<1>5. /\ drafts'[k] = [document |-> serial, step |-> Start[r.version]]
      /\ drafts'[k] # Null
      /\ \A m \in Module \ {k} : drafts'[m] = drafts[m] /\ seats'[m] = seats[m]
  <2>1. Start[r.version] \in Step
    BY <1>1, ProcessAssumption
  <2>. QED  BY <1>1, <1>3, <2>1, NullAssumption DEF TypeOK
<1>6. Allocated'
  <2>1. \A d \in Doc : documents'[d] # Null => d < serial'
    BY <1>3 DEF Allocated, Doc
  <2>2. \A m \in Module : \A e \in Range(versions'[m]) : e < serial'
    BY <1>3, VersionsAreDocuments DEF Allocated, Doc
  <2>3. ASSUME NEW m \in Module, drafts'[m] # Null
        PROVE  drafts'[m].document < serial'
    <3>1. CASE m = k
      BY <1>3, <1>5, <3>1 DEF Doc
    <3>2. CASE m # k
      BY <1>3, <1>5, <2>3, <3>2 DEF Allocated, TypeOK, Orx, Doc
    <3>. QED  BY <3>1, <3>2
  <2>4. ASSUME NEW g \in Handler, requests'[g].document # Null
        PROVE  requests'[g].document < serial'
    <3>1. requests[g].document \in Doc
      BY <1>4, <2>4 DEF TypeOK, Request, Orx
    <3>. QED  BY <1>3, <1>4, <2>4, <3>1 DEF Allocated, Doc
  <2>. QED  BY <2>1, <2>2, <2>3, <2>4 DEF Allocated
<1>7. ReferencesDisjoint'
  <2>1. ASSUME NEW m \in Module, NEW e \in References(m)'
        PROVE  e \in References(m) \/ (m = k /\ e = serial)
    <3>1. CASE e \in Range(versions'[m])
      BY <3>1 DEF References
    <3>2. CASE e \in Doc /\ drafts'[m] # Null /\ drafts'[m].document = e
      BY <1>5, <3>2 DEF References
    <3>3. ASSUME NEW g \in Handler, e \in Doc, requests'[g].module = m,
                 requests'[g].document = e
          PROVE  e \in References(m)
      BY <1>4, <3>3, NullAssumption DEF References, Doc
    <3>. QED  BY <2>1, <3>1, <3>2, <3>3 DEF References
  <2>. QED  BY <1>1, <2>1, ReferencesGrow
<1>8. OwnDocument'
  <2>1. serial \notin Range(versions[k])
    BY <1>1, SerialIsFresh DEF References
  <2>. QED  BY <1>5, <2>1, OwnDocumentHolds DEF OwnDocument
<1>9. DocumentsUnshared'
  BY <1>7, <1>8, UnsharedFromReferences
<1>10. HistorySound'
  <2>1. ASSUME NEW m \in Module, NEW e \in Range(versions[m])
        PROVE  documents'[e] # Null
    BY <1>3, VersionsAreDocuments DEF HistorySound
  <2>2. ASSUME NEW m \in Module, drafts'[m] # Null
        PROVE  documents'[drafts'[m].document] # Null
    <3>1. CASE m = k
      BY <1>3, <1>5, <3>1
    <3>2. CASE m # k
      <4>1. drafts[m].document \in Doc
        BY <1>5, <2>2, <3>2 DEF TypeOK, Orx
      <4>. QED  BY <1>3, <1>5, <2>2, <3>2, <4>1 DEF HistorySound
    <3>. QED  BY <3>1, <3>2
  <2>. QED  BY <2>1, <2>2 DEF HistorySound
<1>11. NeverAtFinalStep'
  <2>1. drafts'[k].step = Start[r.version]
    BY <1>5
  <2>2. ~IsFinal(Start[r.version])
    BY <1>1, ProcessAssumption DEF IsFinal
  <2>. QED  BY <1>5, <2>1, <2>2 DEF NeverAtFinalStep
<1>12. SeatsHaveDraft'
  BY <1>5 DEF SeatsHaveDraft, Vacant
<1>. QED  BY <1>4, <1>6, <1>7, <1>9, <1>10, <1>11, <1>12

\* A module is given a document just created: by CreateModule, ReplaceModule.
LEMMA NewVersionPreserves ==
  ASSUME DraftsInvariant, TypeOK', NEW k \in Module, NEW c \in Content,
         InsertDocument(c), PublishDocument(k, serial),
         UNCHANGED <<drafts, seats>>, RequestsSound',
         \A g \in Handler : requests'[g].document # Null =>
                                requests'[g] = requests[g]
  PROVE  DraftsInvariant'
<1>. USE DEF DraftsInvariant
<1>1. /\ serial \in Doc /\ serial' = serial + 1
      /\ documents[serial] = Null /\ documents'[serial] # Null
      /\ \A d \in Doc : d # serial => documents'[d] = documents[d]
      /\ \A d \in Doc : documents[d] # Null => documents'[d] # Null
  BY InsertDocumentEffect
<1>2. /\ Range(versions'[k]) = Range(versions[k]) \cup {serial}
      /\ \A m \in Module \ {k} : versions'[m] = versions[m]
  BY <1>1, PublishDocumentEffect
<1>3. Allocated'
  <2>1. \A d \in Doc : documents'[d] # Null => d < serial'
    BY <1>1 DEF Allocated, Doc
  <2>2. ASSUME NEW m \in Module, NEW e \in Range(versions'[m])
        PROVE  e < serial'
    BY <1>1, <1>2, VersionsAreDocuments DEF Allocated, Doc
  <2>3. \A m \in Module : drafts'[m] # Null => drafts'[m].document < serial'
    BY <1>1 DEF Allocated, TypeOK, Orx, Doc
  <2>4. ASSUME NEW g \in Handler, requests'[g].document # Null
        PROVE  requests'[g].document < serial'
    <3>1. requests[g].document \in Doc
      BY <2>4 DEF TypeOK, Request, Orx
    <3>. QED  BY <1>1, <2>4, <3>1 DEF Allocated, Doc
  <2>. QED  BY <2>1, <2>2, <2>3, <2>4 DEF Allocated
<1>4. ReferencesDisjoint'
  <2>1. ASSUME NEW m \in Module, NEW e \in References(m)'
        PROVE  e \in References(m) \/ (m = k /\ e = serial)
    <3>1. CASE e \in Range(versions'[m])
      BY <1>2, <3>1 DEF References
    <3>2. CASE e \in Doc /\ drafts'[m] # Null /\ drafts'[m].document = e
      BY <3>2 DEF References
    <3>3. ASSUME NEW g \in Handler, e \in Doc, requests'[g].module = m,
                 requests'[g].document = e
          PROVE  e \in References(m)
      BY <3>3, NullAssumption DEF References, Doc
    <3>. QED  BY <2>1, <3>1, <3>2, <3>3 DEF References
  <2>. QED  BY <2>1, ReferencesGrow
<1>5. OwnDocument'
  <2>1. drafts[k] # Null => drafts[k].document # serial
    BY <1>1 DEF Allocated, TypeOK, Orx, Doc
  <2>. QED  BY <1>2, <2>1, OwnDocumentHolds DEF OwnDocument
<1>6. DocumentsUnshared'
  BY <1>4, <1>5, UnsharedFromReferences
<1>7. HistorySound'
  <2>1. ASSUME NEW m \in Module, drafts'[m] # Null
        PROVE  documents'[drafts'[m].document] # Null
    <3>1. drafts[m].document \in Doc
      BY <2>1 DEF TypeOK, Orx
    <3>. QED  BY <1>1, <2>1, <3>1 DEF HistorySound
  <2>. QED  BY <1>1, <2>1, PublishDocumentHistory DEF HistorySound
<1>8. NeverAtFinalStep' /\ SeatsHaveDraft'
  BY DEF NeverAtFinalStep, SeatsHaveDraft, Vacant
<1>. QED  BY <1>3, <1>4, <1>6, <1>7, <1>8

LEMMA CreateModulePreserves ==
  ASSUME DraftsInvariant, TypeOK', NEW m \in Module, NEW c \in Content,
         CreateModule(m, c)
  PROVE  DraftsInvariant'
<1>. USE DEF DraftsInvariant, CreateModule
<1>1. serial \in Doc
  BY DEF InsertDocument
<1>2. \A n \in Module : Range(versions[n]) \subseteq Range(versions'[n])
  BY <1>1, PublishDocumentEffect
<1>3. \A g \in Handler : requests[g].module \in Orx(Module)
  BY DEF TypeOK, Request
<1>4. RequestsSound'
  BY <1>2, <1>3 DEF RequestsSound, RequestSound, Orx
<1>. QED  BY <1>4, NewVersionPreserves

LEMMA ReplaceModulePreserves ==
  ASSUME DraftsInvariant, TypeOK', NEW h \in Handler, NEW c \in Content,
         ReplaceModule(h, c)
  PROVE  DraftsInvariant'
<1>. USE DEF DraftsInvariant, ReplaceModule
<1>1. serial \in Doc /\ requests[h].module \in Module
  BY RequestTypes DEF InsertDocument
<1>2. \A n \in Module : Range(versions[n]) \subseteq Range(versions'[n])
  BY <1>1, PublishDocumentEffect, SMTT(30)
<1>3. /\ RequestsSound'
      /\ \A g \in Handler : requests'[g].document # Null =>
             g # h /\ requests'[g] = requests[g]
  BY <1>2, FinishedRequests
<1>. QED  BY <1>1, <1>3, NewVersionPreserves

\* A draft's document is one its module references.
LEMMA DraftIsReferenced ==
  ASSUME TypeOK, NEW m \in Module, drafts[m] # Null
  PROVE  drafts[m].document \in References(m) /\ drafts[m].document \in Doc
BY DEF TypeOK, References, Orx

LEMMA ReadingPreserves ==
  ASSUME DraftsInvariant, TypeOK', NEW h \in Handler, NEW m \in Module,
         \/ LoadModule(h, m)
         \/ CountDrafts(h, m)
         \/ LoadForDelete(h, m)
         \/ \E u \in User : LoadForAdvance(h, m, u)
         \/ \E u \in User, p \in Part : LoadForWrite(h, m, u, p)
         \/ \E s \in Slot, u \in User : LoadForFill(h, m, s, u)
  PROVE  DraftsInvariant'
<1>. USE DEF DraftsInvariant
<1>1. m # Null
  BY NullAssumption
<1>2. requests'[h] \in Request
  BY DEF TypeOK
<1>3. CASE LoadModule(h, m)
  <2>. DEFINE r == [Idle EXCEPT !.kind = "begin", !.module = m,
                                !.document = modules[m], !.version = current]
  <2>1. r = requests'[h] /\ Load(h, r)
    BY <1>3 DEF LoadModule, Load, TypeOK
  <2>2. modules[m] \in Range(versions[m])
    BY <1>3, SeqLast DEF LoadModule, HistorySound, TypeOK
  <2>3. /\ r.kind = "begin" /\ r.module = m /\ r.document = modules[m]
        /\ r.version = current
    BY DEF Idle
  <2>4. current # Null /\ modules[m] # Null
    BY <1>3, NullAssumption, ProcessAssumption DEF LoadModule, TypeOK
  <2>5. RequestSound(r) /\ r.document \in References(m)
    BY <1>1, <2>2, <2>3, <2>4 DEF RequestSound, References
  <2>. HIDE DEF r
  <2>. QED  BY <1>2, <2>1, <2>3, <2>5, LoadPreserves
<1>4. CASE CountDrafts(h, m)
  <2>. DEFINE r == [Idle EXCEPT !.kind = "replace", !.module = m]
  <2>1. r = requests'[h] /\ Load(h, r)
    BY <1>4 DEF CountDrafts, Load, TypeOK
  <2>2. r.kind = "replace" /\ r.module = m /\ r.document = Null
    BY DEF Idle
  <2>3. RequestSound(r)
    BY <1>1, <2>2 DEF RequestSound
  <2>. HIDE DEF r
  <2>. QED  BY <1>2, <2>1, <2>2, <2>3, LoadPreserves
<1>5. CASE LoadForDelete(h, m)
  <2>. DEFINE r == [Idle EXCEPT !.kind = "delete", !.module = m,
                                !.document = drafts[m].document]
  <2>1. r = requests'[h] /\ Load(h, r)
    BY <1>5 DEF LoadForDelete, Load, TypeOK
  <2>2. r.kind = "delete" /\ r.module = m /\ r.document = drafts[m].document
    BY DEF Idle
  <2>. HIDE DEF r
  <2>3. drafts[m] # Null
    BY <1>5 DEF LoadForDelete
  <2>4. drafts[m].document \in References(m) /\ drafts[m].document # Null
    BY <2>3, DraftIsReferenced, NullAssumption DEF Doc
  <2>5. RequestSound(r)
    BY <1>1, <2>2, <2>4 DEF RequestSound
  <2>. QED  BY <1>2, <2>1, <2>2, <2>4, <2>5, LoadPreserves
<1>6. ASSUME NEW u \in User, LoadForAdvance(h, m, u)
      PROVE  DraftsInvariant'
  <2>. DEFINE r == [Idle EXCEPT !.kind = "advance", !.module = m, !.user = u,
                                !.document = drafts[m].document,
                                !.step = drafts[m].step]
  <2>1. r = requests'[h] /\ Load(h, r)
    BY <1>6 DEF LoadForAdvance, Load, TypeOK
  <2>2. r.kind = "advance" /\ r.module = m /\ r.document = drafts[m].document
    BY DEF Idle
  <2>. HIDE DEF r
  <2>3. drafts[m] # Null
    BY <1>6 DEF LoadForAdvance
  <2>4. drafts[m].document \in References(m) /\ drafts[m].document # Null
    BY <2>3, DraftIsReferenced, NullAssumption DEF Doc
  <2>5. RequestSound(r)
    BY <1>1, <2>2, <2>4 DEF RequestSound
  <2>. QED  BY <1>2, <2>1, <2>2, <2>4, <2>5, LoadPreserves
<1>7. ASSUME NEW u \in User, NEW p \in Part, LoadForWrite(h, m, u, p)
      PROVE  DraftsInvariant'
  <2>. DEFINE r == [Idle EXCEPT !.kind = "write", !.module = m, !.user = u,
                                !.document = drafts[m].document]
  <2>1. r = requests'[h] /\ Load(h, r)
    BY <1>7 DEF LoadForWrite, Load, TypeOK
  <2>2. r.kind = "write" /\ r.module = m /\ r.document = drafts[m].document
    BY DEF Idle
  <2>. HIDE DEF r
  <2>3. drafts[m] # Null
    BY <1>7 DEF LoadForWrite
  <2>4. drafts[m].document \in References(m) /\ drafts[m].document # Null
    BY <2>3, DraftIsReferenced, NullAssumption DEF Doc
  <2>5. RequestSound(r)
    BY <1>1, <2>2, <2>4 DEF RequestSound
  <2>. QED  BY <1>2, <2>1, <2>2, <2>4, <2>5, LoadPreserves
<1>8. ASSUME NEW s \in Slot, NEW u \in User,
             LoadForFill(h, m, s, u)
      PROVE  DraftsInvariant'
  <2>. DEFINE r == [Idle EXCEPT !.kind = "fill", !.module = m, !.slot = s,
                                !.user = u, !.old = seats[m][s]]
  <2>1. r = requests'[h] /\ Load(h, r)
    BY <1>8 DEF LoadForFill, Load, TypeOK
  <2>2. /\ r.kind = "fill" /\ r.module = m /\ r.document = Null
        /\ r.slot = s /\ r.user = u
    BY DEF Idle
  <2>3. RequestSound(r)
    BY <1>1, <2>2, NullAssumption DEF RequestSound
  <2>. HIDE DEF r
  <2>. QED  BY <1>2, <2>1, <2>2, <2>3, LoadPreserves
<1>. QED  BY <1>3, <1>4, <1>5, <1>6, <1>7, <1>8

LEMMA InitInvariant == Init => DraftsInvariant
<1>. SUFFICES ASSUME Init PROVE DraftsInvariant
  OBVIOUS
<1>1. TypeOK
  BY InitTypeOK
<1>2. /\ \A m \in Module : /\ versions[m] = <<>> /\ drafts[m] = Null
                           /\ modules[m] = Null /\ seats[m] = Vacant
      /\ \A d \in Doc : documents[d] = Null
      /\ \A h \in Handler : requests[h] = Idle
  BY DEF Init
<1>3. Idle.kind = "idle" /\ Idle.document = Null
  BY DEF Idle
<1>4. \A m \in Module : Range(versions[m]) = {}
  BY <1>2 DEF Range
<1>5. \A m \in Module : References(m) = {}
  BY <1>2, <1>3, <1>4, NullAssumption DEF References, Doc
<1>6. Allocated
  BY <1>2, <1>3, <1>4 DEF Allocated
<1>7. RequestsSound
  BY <1>2, <1>3 DEF RequestsSound, RequestSound
<1>8. ReferencesDisjoint
  BY <1>5 DEF ReferencesDisjoint
<1>9. DocumentsUnshared
  BY <1>2, <1>4 DEF DocumentsUnshared
<1>10. HistorySound
  BY <1>2, <1>4 DEF HistorySound, IsInjective
<1>11. NeverAtFinalStep /\ SeatsHaveDraft
  BY <1>2 DEF NeverAtFinalStep, SeatsHaveDraft
<1>. QED
  BY <1>1, <1>6, <1>7, <1>8, <1>9, <1>10, <1>11 DEF DraftsInvariant

LEMMA StutterPreserves ==
  ASSUME DraftsInvariant, UNCHANGED vars
  PROVE  DraftsInvariant'
<1>1. TypeOK'
  BY DEF vars, DraftsInvariant, TypeOK
<1>2. \A g \in Handler : RequestSound(requests[g])'
  BY DEF vars, DraftsInvariant, RequestsSound, RequestSound
<1>. QED
  BY <1>1, <1>2, RememberedIsReferenced, QuietStep DEF vars, DraftsInvariant

LEMMA NextInvariant ==
  ASSUME DraftsInvariant, [Next]_vars
  PROVE  DraftsInvariant'
<1>1. TypeOK'
  BY NextTypeOK DEF DraftsInvariant
<1>2. ASSUME NEW h \in Handler, HandlerStep(h)
      PROVE  DraftsInvariant'
  BY <1>1, <1>2, FailPreserves, ReadingPreserves, BeginProcessPreserves,
     ReplaceModulePreserves, DeleteDraftPreserves, CheckSlotPreserves,
     AdvanceDraftPreserves, FinishDraftPreserves, WriteDraftPreserves,
     FillSlotPreserves
  DEF HandlerStep
<1>3. ASSUME NEW m \in Module, NEW c \in Content, CreateModule(m, c)
      PROVE  DraftsInvariant'
  BY <1>1, <1>3, CreateModulePreserves
<1>4. ASSUME SetTeam PROVE DraftsInvariant'
  BY <1>1, <1>4, TeamPreserves
<1>. QED
  BY <1>2, <1>3, <1>4, StutterPreserves DEF Next, SetRole, SetRoleLimit, CreateVersion

-----------------------------------------------------------------------------
(* The theorems *)

\* The inductive invariant holds of every behaviour of Drafts.
THEOREM Invariance == Spec => []DraftsInvariant
<1>. QED  BY InitInvariant, NextInvariant, PTL DEF Spec

\* The state of modules, drafts, seats, team and handlers is well-typed.
THEOREM TypeCorrect == Spec => []TypeOK
<1>1. DraftsInvariant => TypeOK
  BY DEF DraftsInvariant
<1>. QED  BY <1>1, Invariance, PTL

\* However requests overlap, no document serves twice: drafts.document and
\* module_versions never share one.
THEOREM Unshared == Spec => []DocumentsUnshared
<1>1. DraftsInvariant => DocumentsUnshared
  BY DEF DraftsInvariant
<1>. QED  BY <1>1, Invariance, PTL

\* A module's document is the last of its distinct versions, and no module,
\* history or draft is left with a document that was deleted.
THEOREM SoundHistories == Spec => []HistorySound
<1>1. DraftsInvariant => HistorySound
  BY DEF DraftsInvariant
<1>. QED  BY <1>1, Invariance, PTL

\* A stale Draft::advance never leaves a draft at a final step.
THEOREM NeverRestsAtTheEnd == Spec => []NeverAtFinalStep
<1>1. DraftsInvariant => NeverAtFinalStep
  BY DEF DraftsInvariant
<1>. QED  BY <1>1, Invariance, PTL

\* No seat outlives its draft, even when Slot::fill_with writes late.
THEOREM SeatsGoWithDraft == Spec => []SeatsHaveDraft
<1>1. DraftsInvariant => SeatsHaveDraft
  BY DEF DraftsInvariant
<1>. QED  BY <1>1, Invariance, PTL

\* One step of PublishedSettles.
LEMMA SettledStep ==
  ASSUME DraftsInvariant, [Next]_vars, NEW m \in Module,
         NEW d \in Range(versions[m]), Writers(d) = {}
  PROVE  documents'[d] = documents[d] /\ Writers(d)' = {}
<1>. USE DEF DraftsInvariant, documentVars, moduleVars, teamVars
<1>1. d \in Doc /\ d # serial
  <2>1. d \in Doc
    BY VersionsAreDocuments
  <2>2. d < serial /\ serial \in Nat
    BY DEF Allocated, TypeOK
  <2>. QED  BY <2>1, <2>2
<1>2. \A g \in Handler : ~(requests[g].kind = "write" /\ requests[g].document = d)
  BY DEF Writers
<1>3. SUFFICES
        /\ documents'[d] = documents[d]
        /\ \A g \in Handler :
            requests'[g].kind = "write" =>
                requests'[g].document # d \/ requests'[g] = requests[g]
  BY <1>2 DEF Writers
<1>4. ASSUME NEW h \in Handler, Finished(h), NEW g \in Handler
      PROVE  requests'[g].kind = "write" => requests'[g] = requests[g]
  BY <1>4 DEF Finished, Idle, TypeOK
<1>5. ASSUME NEW c, InsertDocument(c)
      PROVE  documents'[d] = documents[d]
  BY <1>1, <1>5 DEF InsertDocument, TypeOK
<1>6. ASSUME NEW h \in Handler, NEW r, Load(h, r),
             r.kind = "write" => r.document # d, NEW g \in Handler
      PROVE  /\ documents'[d] = documents[d]
             /\ requests'[g].kind = "write" =>
                    requests'[g].document # d \/ requests'[g] = requests[g]
  BY <1>6 DEF Load, TypeOK
<1>7. ASSUME NEW n \in Module, NEW c \in Content, CreateModule(n, c)
      PROVE  documents'[d] = documents[d] /\ requests' = requests
  BY <1>5, <1>7 DEF CreateModule
<1>8. ASSUME NEW h \in Handler, HandlerStep(h)
      PROVE  /\ documents'[d] = documents[d]
             /\ \A g \in Handler :
                 requests'[g].kind = "write" =>
                     requests'[g].document # d \/ requests'[g] = requests[g]
  <2>1. CASE Fail(h)
    BY <2>1, <1>4 DEF Fail
  <2>2. CASE BeginProcess(h)
    BY <2>2, <1>4, <1>5 DEF BeginProcess, StartDraft
  <2>3. CASE \E c \in Content : ReplaceModule(h, c)
    BY <2>3, <1>4, <1>5 DEF ReplaceModule
  <2>4. CASE DeleteDraft(h)
    BY <2>4, <1>4 DEF DeleteDraft, DeleteDocument, TypeOK
  <2>5. CASE \E s \in Slot : CheckSlot(h, s)
    <3>1. requests[h] \in Request
      BY DEF TypeOK
    <3>2. requests'[h].kind = "checked"
      BY <2>5, <3>1 DEF CheckSlot, TypeOK, Request
    <3>. QED  BY <2>5, <3>2 DEF CheckSlot, TypeOK
  <2>6. CASE \E l \in Link : AdvanceDraft(h, l) \/ FinishDraft(h, l)
    BY <2>6, <1>4 DEF AdvanceDraft, FinishDraft
  <2>7. CASE \E c \in Content : WriteDraft(h, c)
    BY <2>7, <1>1, <1>2, <1>4 DEF WriteDraft, TypeOK
  <2>8. CASE FillSlot(h)
    BY <2>8, <1>4 DEF FillSlot, TellVacated
  <2>9. CASE \E n \in Module : LoadModule(h, n)
    BY <2>9, <1>6 DEF LoadModule, Idle
  <2>10. CASE \E n \in Module : CountDrafts(h, n)
    BY <2>10, <1>6 DEF CountDrafts, Idle
  <2>11. CASE \E n \in Module : LoadForDelete(h, n)
    BY <2>11, <1>6 DEF LoadForDelete, Idle
  <2>12. CASE \E n \in Module, u \in User : LoadForAdvance(h, n, u)
    BY <2>12, <1>6 DEF LoadForAdvance, Idle
  <2>13. CASE \E n \in Module, u \in User, p \in Part : LoadForWrite(h, n, u, p)
    <3>1. PICK n \in Module, u \in User, p \in Part : LoadForWrite(h, n, u, p)
      BY <2>13
    <3>2. drafts[n].document # d
      BY <3>1 DEF LoadForWrite, DocumentsUnshared
    <3>. QED  BY <3>1, <3>2, <1>6 DEF LoadForWrite, Idle
  <2>14. CASE \E n \in Module, s \in Slot, u \in User : LoadForFill(h, n, s, u)
    BY <2>14, <1>6 DEF LoadForFill, Idle
  <2>. QED
    BY <1>8, <2>1, <2>2, <2>3, <2>4, <2>5, <2>6, <2>7, <2>8, <2>9, <2>10,
       <2>11, <2>12, <2>13, <2>14 DEF HandlerStep
<1>9. ASSUME SetTeam PROVE UNCHANGED <<documents, requests>>
  BY <1>9 DEF SetTeam
<1>10. CASE UNCHANGED vars
  BY <1>10 DEF vars
<1>. QED
  BY <1>7, <1>8, <1>9, <1>10 DEF Next, SetRole, SetRoleLimit, CreateVersion

\* Once the last admitted write to a published document is over it never
\* changes again, whatever the handlers of rest-api/src/drafts.rs do.
THEOREM Settling == Spec => PublishedSettles
<1>1. DraftsInvariant /\ [Next]_vars =>
        [\A m \in Module : \A d \in Range(versions[m]) :
            Writers(d) = {} =>
                (documents'[d] = documents[d] /\ Writers(d)' = {})]_vars
  BY SettledStep
<1>. QED  BY <1>1, Invariance, PTL DEF Spec, PublishedSettles

-----------------------------------------------------------------------------
(* Drafts implements DocumentLifecycle *)

LEMMA StatusType ==
  ASSUME NEW d \in Doc
  PROVE  Status(d) \in {"unused", "published", "discarded", "working"}
BY DEF Status

\* A published document has been created, so Status says "published" of it.
LEMMA PublishedStatus ==
  ASSUME TypeOK, Allocated, NEW d \in Doc, Published(d)
  PROVE  d < serial /\ Status(d) = "published"
<1>1. d < serial
  BY DEF Allocated, Published
<1>. QED  BY <1>1 DEF Status, TypeOK, Doc

\* The life of one document moves on when the step's own document does.
LEMMA MoveOne ==
  ASSUME NEW d \in Doc, NEW from, NEW to,
         Status(d) = from, Status(d)' = to,
         \A e \in Doc \ {d} : Status(e)' = Status(e)
  PROVE  Lifecycle!Move(d, from, to)
BY DEF Lifecycle!Move

\* What a step does to documents and versions, and so to the lives of documents.
LEMMA SameLives ==
  ASSUME UNCHANGED serial,
         \A d \in Doc : /\ Published(d)' <=> Published(d)
                        /\ documents'[d] = Null <=> documents[d] = Null
  PROVE  UNCHANGED [d \in Doc |-> Status(d)]
BY DEF Status

LEMMA NewLife ==
  ASSUME TypeOK, Allocated, NEW c \in Content, InsertDocument(c),
         \A d \in Doc \ {serial} : Published(d)' <=> Published(d)
  PROVE  Lifecycle!Next
<1>1. /\ serial \in Doc /\ serial' = serial + 1
      /\ documents'[serial] # Null
      /\ \A d \in Doc : d # serial => documents'[d] = documents[d]
  BY InsertDocumentEffect
<1>2. PICK d \in Doc : d = serial
  BY <1>1
<1>3. Status(d) = "unused"
  BY <1>2 DEF Status, Doc
<1>4. Status(d)' = IF Published(d)' THEN "published" ELSE "working"
  BY <1>1, <1>2 DEF Status, Doc
<1>5. \A e \in Doc \ {d} : Status(e)' = Status(e)
  BY <1>1, <1>2 DEF Status, Doc
<1>6. Lifecycle!Begin(d) \/ Lifecycle!CreatePublished(d)
  BY <1>3, <1>4, <1>5, MoveOne DEF Lifecycle!Begin, Lifecycle!CreatePublished
<1>. QED  BY <1>6 DEF Lifecycle!Next

LEMMA LifecycleStep ==
  ASSUME DraftsInvariant, [Next]_vars
  PROVE  Lifecycle!Next \/ UNCHANGED [d \in Doc |-> Status(d)]
<1>. USE DEF DraftsInvariant, documentVars, moduleVars, teamVars
<1>. DEFINE Same == UNCHANGED [d \in Doc |-> Status(d)]
<1>1. ASSUME UNCHANGED <<documents, serial, versions>>
      PROVE  Same
  BY <1>1, SameLives DEF Published
<1>2. ASSUME NEW k \in Module, NEW c \in Content, InsertDocument(c),
             PublishDocument(k, serial)
      PROVE  Lifecycle!Next
  <2>1. serial \in Doc
    BY <1>2 DEF InsertDocument
  <2>2. /\ Range(versions'[k]) = Range(versions[k]) \cup {serial}
        /\ \A n \in Module \ {k} : versions'[n] = versions[n]
    BY <1>2, <2>1, PublishDocumentEffect
  <2>3. \A d \in Doc \ {serial} : Published(d)' <=> Published(d)
    BY <2>2 DEF Published
  <2>. QED  BY <1>2, <2>3, NewLife
<1>3. ASSUME NEW h \in Handler, BeginProcess(h)
      PROVE  Lifecycle!Next
  <2>1. documents[requests[h].document] \in Content
    BY <1>3, RequestTypes DEF BeginProcess, StartDraft, HistorySound, TypeOK, Orx
  <2>. QED  BY <1>3, <2>1, NewLife DEF BeginProcess, StartDraft, Published
<1>4. ASSUME NEW h \in Handler, DeleteDraft(h)
      PROVE  Lifecycle!Next \/ Same
  <2>1. PICK d \in Doc : d = requests[h].document
    BY <1>4, RequestTypes DEF DeleteDraft, DeleteDocument
  <2>2. ~Published(d) /\ d < serial
    BY <1>4, <2>1, NullAssumption DEF DeleteDraft, DeleteDocument, Published, Allocated, Doc
  <2>3. UNCHANGED serial /\ \A e \in Doc : Published(e)' <=> Published(e)
    BY <1>4 DEF DeleteDraft, DeleteDocument, Published
  <2>4. \A e \in Doc : documents'[e] = IF e = d THEN Null ELSE documents[e]
    BY <1>4, <2>1 DEF DeleteDraft, DeleteDocument, TypeOK
  <2>5. CASE documents[d] = Null
    BY <2>3, <2>4, <2>5, SameLives
  <2>6. CASE documents[d] # Null
    <3>1. Status(d) = "working" /\ Status(d)' = "discarded"
      BY <2>2, <2>3, <2>4, <2>6 DEF Status, TypeOK, Doc
    <3>2. \A e \in Doc \ {d} : Status(e)' = Status(e)
      BY <2>3, <2>4 DEF Status
    <3>. QED  BY <3>1, <3>2, MoveOne DEF Lifecycle!Next, Lifecycle!Discard
  <2>. QED  BY <2>5, <2>6
<1>5. ASSUME NEW h \in Handler, NEW l \in Link, FinishDraft(h, l)
      PROVE  Lifecycle!Next
  <2>. DEFINE k == requests[h].module
  <2>1. PICK d \in Doc : d = requests[h].document
    BY <1>5, RequestTypes DEF FinishDraft, EndsProcess
  <2>2. k \in Module /\ d \in References(k)
    BY <1>5, <2>1, RequestTypes, RememberedIsReferenced, NullAssumption
    DEF FinishDraft, EndsProcess, Doc
  <2>3. d \notin Range(versions[k])
    BY <1>5, <2>1 DEF FinishDraft, EndsProcess, PublishDocument
  <2>4. ~Published(d) /\ d < serial /\ documents[d] # Null
    <3>1. \A n \in Module \ {k} : d \notin Range(versions[n])
      BY <2>2 DEF ReferencesDisjoint, References
    <3>. QED
      BY <1>5, <2>1, <2>2, <2>3, <3>1, ReferencesAllocated DEF FinishDraft, EndsProcess, Published
  <2>5. /\ Range(versions'[k]) = Range(versions[k]) \cup {d}
        /\ \A n \in Module \ {k} : versions'[n] = versions[n]
        /\ UNCHANGED <<serial, documents>>
    BY <1>5, <2>1, <2>2, PublishDocumentEffect DEF FinishDraft, EndsProcess
  <2>6. /\ Published(d)'
        /\ \A e \in Doc \ {d} : Published(e)' <=> Published(e)
    BY <2>2, <2>5 DEF Published
  <2>7. Status(d) = "working" /\ Status(d)' = "published"
    BY <2>4, <2>5, <2>6 DEF Status, TypeOK, Doc
  <2>8. \A e \in Doc \ {d} : Status(e)' = Status(e)
    BY <2>5, <2>6 DEF Status
  <2>. QED  BY <2>7, <2>8, MoveOne DEF Lifecycle!Next, Lifecycle!Publish
<1>6. ASSUME NEW h \in Handler, NEW c \in Content, WriteDraft(h, c)
      PROVE  Same
  <2>1. \A e \in Doc : documents'[e] = Null <=> documents[e] = Null
    BY <1>6, NullAssumption DEF WriteDraft, TypeOK
  <2>. QED  BY <1>6, <2>1, SameLives DEF WriteDraft, Published
<1>7. ASSUME NEW h \in Handler, HandlerStep(h)
      PROVE  Lifecycle!Next \/ Same
  BY <1>1, <1>2, <1>3, <1>4, <1>5, <1>6, <1>7, RequestTypes
  DEF HandlerStep, Load, Fail, LoadModule, CountDrafts, ReplaceModule,
      LoadForDelete, LoadForAdvance, CheckSlot, AdvanceDraft, EndsProcess, LoadForWrite,
      LoadForFill, FillSlot, TellVacated
<1>8. ASSUME NEW n \in Module, NEW c \in Content, CreateModule(n, c)
      PROVE  Lifecycle!Next
  BY <1>2, <1>8 DEF CreateModule
<1>. QED
  BY <1>1, <1>7, <1>8
  DEF Next, SetRole, SetRoleLimit, CreateVersion, SetTeam, vars

\* The handlers of modules and drafts implement the life of a document:
\* discarded documents stay discarded, published ones stay published.
THEOREM Implementation == Spec => ImplementsLifecycle
<1>1. Init => Lifecycle!Init
  BY DEF Init, Lifecycle!Init, Status, Doc, Published, Range
<1>2. DraftsInvariant /\ [Next]_vars =>
            [Lifecycle!Next]_([d \in Doc |-> Status(d)])
  BY LifecycleStep
<1>. QED  BY <1>1, <1>2, Invariance, PTL DEF Spec, Lifecycle!Spec, ImplementsLifecycle


-----------------------------------------------------------------------------
(***************************************************************************)
(* One request at a time.  What a handler remembers is then still so when  *)
(* it writes: nobody else can have changed it.                             *)
(***************************************************************************)
OneAtATime == \A g, h \in Handler : g = h

Referenced(d) ==
    \E m \in Module : \/ d \in Range(versions[m])
                      \/ drafts[m] # Null /\ drafts[m].document = d

RequestCurrent(r) ==
    /\ r.kind = "replace" => drafts[r.module] = Null
    /\ r.kind \in {"delete", "advance", "checked", "write"}
            => drafts[r.module] # Null /\ drafts[r.module].document = r.document
    /\ r.kind \in {"advance", "checked"}
            => drafts[r.module].step = r.step /\ r.user # Null
    /\ r.kind = "checked" => seats[r.module][r.slot] = r.user
    /\ r.kind = "fill" => seats[r.module][r.slot] = r.old

AloneInvariant ==
    /\ \A h \in Handler : RequestCurrent(requests[h])
    /\ \A m \in Module : drafts[m] # Null => modules[m] # Null
    /\ NoOrphanDocuments

LEMMA InitAlone == Init => AloneInvariant
<1>. SUFFICES ASSUME Init PROVE AloneInvariant
  OBVIOUS
<1>1. \A h \in Handler : RequestCurrent(requests[h])
  BY DEF Init, Idle, RequestCurrent
<1>2. \A m \in Module : drafts[m] = Null
  BY DEF Init
<1>3. NoOrphanDocuments
  BY DEF Init, NoOrphanDocuments
<1>. QED  BY <1>1, <1>2, <1>3 DEF AloneInvariant

\* A request that is over remembers nothing.
LEMMA FinishedIsCurrent ==
  ASSUME TypeOK, OneAtATime, NEW h \in Handler, Finished(h)
  PROVE  \A g \in Handler : RequestCurrent(requests[g])'
<1>1. \A g \in Handler : requests'[g] = Idle
  BY DEF TypeOK, Finished, OneAtATime
<1>2. Idle.kind = "idle"
  BY DEF Idle
<1>. QED  BY <1>1, <1>2 DEF RequestCurrent

\* Only what a request remembers changes.
LEMMA RememberingAlone ==
  ASSUME AloneInvariant, UNCHANGED <<documentVars, moduleVars, drafts>>,
         \A g \in Handler : RequestCurrent(requests[g])'
  PROVE  AloneInvariant'
<1>1. NoOrphanDocuments'
  BY DEF AloneInvariant, NoOrphanDocuments, documentVars, moduleVars
<1>. QED  BY <1>1 DEF AloneInvariant, moduleVars

LEMMA LoadAlone ==
  ASSUME TypeOK, OneAtATime, AloneInvariant, NEW h \in Handler, NEW r, Load(h, r),
         RequestCurrent(r)
  PROVE  AloneInvariant'
<1>1. \A g \in Handler : requests'[g] = r
  BY DEF TypeOK, Load, OneAtATime
<1>2. drafts' = drafts /\ seats' = seats
  BY DEF Load
<1>3. \A g \in Handler : RequestCurrent(requests[g])'
  BY <1>1, <1>2 DEF RequestCurrent
<1>. QED  BY <1>3, RememberingAlone DEF Load

LEMMA ReadingAlone ==
  ASSUME DraftsInvariant, OneAtATime, AloneInvariant, NEW h \in Handler,
         NEW m \in Module,
         \/ LoadModule(h, m) \/ CountDrafts(h, m) \/ LoadForDelete(h, m)
         \/ \E u \in User : LoadForAdvance(h, m, u)
         \/ \E u \in User, p \in Part : LoadForWrite(h, m, u, p)
         \/ \E s \in Slot, u \in User : LoadForFill(h, m, s, u)
  PROVE  AloneInvariant'
<1>0. TypeOK
  BY DEF DraftsInvariant
<1>1. CASE LoadModule(h, m)
  <2>1. PICK r : r = [Idle EXCEPT !.kind = "begin", !.module = m,
                                  !.document = modules[m], !.version = current]
    OBVIOUS
  <2>2. Load(h, r) /\ r.kind = "begin"
    BY <1>1, <2>1 DEF LoadModule, Idle
  <2>. QED  BY <1>0, <2>2, LoadAlone DEF RequestCurrent
<1>2. CASE CountDrafts(h, m)
  <2>1. PICK r : r = [Idle EXCEPT !.kind = "replace", !.module = m]
    OBVIOUS
  <2>2. Load(h, r) /\ r.kind = "replace" /\ drafts[r.module] = Null
    BY <1>2, <2>1 DEF CountDrafts, Idle
  <2>. QED  BY <1>0, <2>2, LoadAlone DEF RequestCurrent
<1>3. CASE LoadForDelete(h, m)
  <2>1. PICK r : r = [Idle EXCEPT !.kind = "delete", !.module = m,
                                  !.document = drafts[m].document]
    OBVIOUS
  <2>2. /\ Load(h, r) /\ r.kind = "delete"
        /\ drafts[r.module] # Null /\ r.document = drafts[r.module].document
    BY <1>3, <2>1 DEF LoadForDelete, Idle
  <2>. QED  BY <1>0, <2>2, LoadAlone DEF RequestCurrent
<1>4. ASSUME NEW u \in User, LoadForAdvance(h, m, u)
      PROVE  AloneInvariant'
  <2>1. PICK r : r = [Idle EXCEPT !.kind = "advance", !.module = m, !.user = u,
                                  !.document = drafts[m].document,
                                  !.step = drafts[m].step]
    OBVIOUS
  <2>2. /\ Load(h, r) /\ r.kind = "advance" /\ r.user = u
        /\ drafts[r.module] # Null /\ r.document = drafts[r.module].document
        /\ r.step = drafts[r.module].step
    BY <1>4, <2>1 DEF LoadForAdvance, Idle
  <2>. QED  BY <1>0, <2>2, LoadAlone, NullAssumption DEF RequestCurrent
<1>5. ASSUME NEW u \in User, NEW p \in Part, LoadForWrite(h, m, u, p)
      PROVE  AloneInvariant'
  <2>1. PICK r : r = [Idle EXCEPT !.kind = "write", !.module = m, !.user = u,
                                  !.document = drafts[m].document]
    OBVIOUS
  <2>2. /\ Load(h, r) /\ r.kind = "write"
        /\ drafts[r.module] # Null /\ r.document = drafts[r.module].document
    BY <1>5, <2>1 DEF LoadForWrite, Idle
  <2>. QED  BY <1>0, <2>2, LoadAlone DEF RequestCurrent
<1>6. ASSUME NEW s \in Slot, NEW u \in User, LoadForFill(h, m, s, u)
      PROVE  AloneInvariant'
  <2>1. PICK r : r = [Idle EXCEPT !.kind = "fill", !.module = m, !.slot = s,
                                  !.user = u, !.old = seats[m][s]]
    OBVIOUS
  <2>2. Load(h, r) /\ r.kind = "fill" /\ r.old = seats[r.module][r.slot]
    BY <1>6, <2>1 DEF LoadForFill, Idle
  <2>. QED  BY <1>0, <2>2, LoadAlone DEF RequestCurrent
<1>. QED  BY <1>1, <1>2, <1>3, <1>4, <1>5, <1>6

LEMMA CheckSlotAlone ==
  ASSUME DraftsInvariant, OneAtATime, AloneInvariant, NEW h \in Handler, NEW s \in Slot,
         CheckSlot(h, s)
  PROVE  AloneInvariant'
<1>1. requests[h] \in Request
  BY DEF DraftsInvariant, TypeOK
<1>2. PICK r \in Request : r = requests[h]
  BY <1>1
<1>3. RequestCurrent(r) /\ r.kind = "advance" /\ seats[r.module][s] = r.user
  BY <1>2 DEF AloneInvariant, CheckSlot
<1>4. PICK q : q = [r EXCEPT !.kind = "checked", !.slot = s]
  OBVIOUS
<1>5. /\ q.kind = "checked" /\ q.slot = s /\ q.module = r.module /\ q.user = r.user
      /\ q.document = r.document /\ q.step = r.step
  BY <1>4 DEF Request
<1>6. \A g \in Handler : requests'[g] = q
  BY <1>2, <1>4 DEF DraftsInvariant, TypeOK, CheckSlot, OneAtATime
<1>7. drafts' = drafts /\ seats' = seats
  BY DEF CheckSlot
<1>8. RequestCurrent(q)
  BY <1>3, <1>5 DEF RequestCurrent
<1>9. \A g \in Handler : RequestCurrent(requests[g])'
  BY <1>6, <1>7, <1>8 DEF RequestCurrent
<1>. QED  BY <1>9, RememberingAlone DEF CheckSlot

\* Every document that is left is referenced.
LEMMA WritingAlone ==
  ASSUME \A g \in Handler : RequestCurrent(requests[g])',
         \A m \in Module : drafts'[m] # Null => modules'[m] # Null,
         \A d \in Doc : documents'[d] # Null => Referenced(d)'
  PROVE  AloneInvariant'
<1>1. NoOrphanDocuments'
  BY DEF NoOrphanDocuments, Referenced
<1>. QED  BY <1>1 DEF AloneInvariant

\* A new version of a module that has, or gets, no other document.
LEMMA NewVersionAlone ==
  ASSUME DraftsInvariant, AloneInvariant, NEW k \in Module, NEW c \in Content,
         InsertDocument(c), PublishDocument(k, serial), UNCHANGED drafts,
         \A g \in Handler : RequestCurrent(requests[g])'
  PROVE  AloneInvariant'
<1>. USE DEF DraftsInvariant
<1>1. serial \in Doc /\ \A d \in Doc : d # serial => documents'[d] = documents[d]
  BY InsertDocumentEffect
<1>2. /\ \A n \in Module : Range(versions[n]) \subseteq Range(versions'[n])
      /\ serial \in Range(versions'[k]) /\ modules'[k] = serial
      /\ \A n \in Module \ {k} : modules'[n] = modules[n]
  BY <1>1, PublishDocumentEffect
<1>3. \A n \in Module : drafts'[n] # Null => modules'[n] # Null
  BY <1>1, <1>2, NullAssumption DEF AloneInvariant, Doc
<1>4. ASSUME NEW d \in Doc, documents'[d] # Null
      PROVE  Referenced(d)'
  <2>1. CASE d = serial
    BY <1>2, <2>1 DEF Referenced
  <2>2. CASE d # serial
    <3>1. Referenced(d)
      BY <1>1, <1>4, <2>2 DEF AloneInvariant, NoOrphanDocuments, Referenced
    <3>. QED  BY <1>2, <3>1 DEF Referenced
  <2>. QED  BY <2>1, <2>2
<1>. QED  BY <1>3, <1>4, WritingAlone

LEMMA CreateModuleAlone ==
  ASSUME DraftsInvariant, AloneInvariant, NEW m \in Module, NEW c \in Content,
         CreateModule(m, c)
  PROVE  AloneInvariant'
<1>1. \A g \in Handler : RequestCurrent(requests[g])'
  BY DEF AloneInvariant, CreateModule, RequestCurrent
<1>. QED  BY <1>1, NewVersionAlone DEF CreateModule

LEMMA ReplaceModuleAlone ==
  ASSUME DraftsInvariant, OneAtATime, AloneInvariant, NEW h \in Handler,
         NEW c \in Content, ReplaceModule(h, c)
  PROVE  AloneInvariant'
<1>1. requests[h].module \in Module
  BY RequestTypes DEF DraftsInvariant, ReplaceModule
<1>2. \A g \in Handler : RequestCurrent(requests[g])'
  BY FinishedIsCurrent DEF DraftsInvariant, ReplaceModule
<1>. QED  BY <1>1, <1>2, NewVersionAlone DEF ReplaceModule

LEMMA BeginProcessAlone ==
  ASSUME DraftsInvariant, OneAtATime, AloneInvariant, NEW h \in Handler,
         BeginProcess(h)
  PROVE  AloneInvariant'
<1>. USE DEF DraftsInvariant
<1>1. PICK r \in Request : r = requests[h]
  BY RequestTypes
<1>2. /\ r.module \in Module /\ r.document \in Range(versions[r.module])
      /\ drafts[r.module] = Null /\ StartDraft(r) /\ Finished(h)
      /\ UNCHANGED moduleVars
  BY <1>1, RequestTypes DEF BeginProcess
<1>3. documents[r.document] \in Content
  BY <1>2, VersionsAreDocuments DEF HistorySound, TypeOK, Orx
<1>4. serial \in Doc /\ \A d \in Doc : d # serial => documents'[d] = documents[d]
  BY <1>2, <1>3, InsertDocumentEffect DEF StartDraft
<1>5. /\ drafts'[r.module] # Null /\ drafts'[r.module].document = serial
      /\ \A n \in Module \ {r.module} : drafts'[n] = drafts[n]
  <2>1. drafts'[r.module] = [document |-> serial, step |-> Start[r.version]]
    BY <1>2 DEF StartDraft, TypeOK
  <2>2. r.version \in Version
    BY <1>1, RequestTypes DEF BeginProcess
  <2>3. Start[r.version] \in Step
    BY <2>2, ProcessAssumption
  <2>4. drafts'[r.module] \in [document : Doc, step : Step]
    BY <1>4, <2>1, <2>3
  <2>. QED  BY <1>2, <2>1, <2>4, NullAssumption DEF StartDraft, TypeOK
<1>6. \A n \in Module : drafts'[n] # Null => modules'[n] # Null
  <2>1. versions[r.module] # <<>>
    BY <1>2 DEF Range
  <2>2. modules[r.module] # Null
    BY <1>2, <2>1 DEF HistorySound
  <2>. QED  BY <1>2, <1>5, <2>2 DEF AloneInvariant, moduleVars
<1>7. ASSUME NEW d \in Doc, documents'[d] # Null
      PROVE  Referenced(d)'
  <2>1. CASE d = serial
    BY <1>2, <1>5, <2>1 DEF Referenced
  <2>2. CASE d # serial
    <3>1. Referenced(d)
      BY <1>4, <1>7, <2>2 DEF AloneInvariant, NoOrphanDocuments, Referenced
    <3>. QED  BY <1>2, <1>5, <3>1 DEF Referenced, moduleVars
  <2>. QED  BY <2>1, <2>2
<1>8. \A g \in Handler : RequestCurrent(requests[g])'
  BY <1>2, FinishedIsCurrent
<1>. QED  BY <1>6, <1>7, <1>8, WritingAlone

\* The document deleted is the one the draft still has: nothing is left of it.
LEMMA DeleteDraftAlone ==
  ASSUME DraftsInvariant, OneAtATime, AloneInvariant, NEW h \in Handler,
         DeleteDraft(h)
  PROVE  AloneInvariant'
<1>. USE DEF DraftsInvariant
<1>1. PICK r \in Request : r = requests[h]
  BY RequestTypes
<1>2. /\ r.module \in Module /\ r.document \in Doc
      /\ drafts[r.module] # Null /\ drafts[r.module].document = r.document
  BY <1>1, RequestTypes DEF DeleteDraft, AloneInvariant, RequestCurrent
<1>3. /\ \A d \in Doc : documents'[d] = IF d = r.document THEN Null ELSE documents[d]
      /\ \A n \in Module :
            drafts'[n] = IF n = r.module THEN Null ELSE drafts[n]
      /\ UNCHANGED moduleVars
  BY <1>1, <1>2 DEF DeleteDraft, DeleteDocument, DeleteDraftRow, TypeOK
<1>4. \A n \in Module : drafts'[n] # Null => modules'[n] # Null
  BY <1>3 DEF AloneInvariant, moduleVars
<1>5. ASSUME NEW d \in Doc, documents'[d] # Null
      PROVE  Referenced(d)'
  <2>1. Referenced(d) /\ d # r.document
    BY <1>3, <1>5 DEF AloneInvariant, NoOrphanDocuments, Referenced
  <2>. QED  BY <1>2, <1>3, <2>1 DEF Referenced, moduleVars
<1>6. \A g \in Handler : RequestCurrent(requests[g])'
  BY FinishedIsCurrent DEF DeleteDraft
<1>. QED  BY <1>4, <1>5, <1>6, WritingAlone

LEMMA AdvanceDraftAlone ==
  ASSUME DraftsInvariant, OneAtATime, AloneInvariant, NEW h \in Handler,
         NEW l \in Link, AdvanceDraft(h, l)
  PROVE  AloneInvariant'
<1>. USE DEF DraftsInvariant
<1>1. PICK k \in Module : k = requests[h].module
  BY RequestTypes DEF AdvanceDraft
<1>2. /\ drafts[k] # Null /\ drafts' = [drafts EXCEPT ![k].step = l.to]
      /\ UNCHANGED <<documents, modules, versions>>
  BY <1>1 DEF AdvanceDraft, documentVars, moduleVars
<1>3. drafts[k] \in [document : Doc, step : Step]
  BY <1>2 DEF TypeOK, Orx
<1>4. /\ drafts'[k] # Null => drafts'[k].document = drafts[k].document
      /\ drafts'[k] # Null
      /\ \A n \in Module \ {k} : drafts'[n] = drafts[n]
  <2>1. drafts'[k] = [drafts[k] EXCEPT !.step = l.to]
    BY <1>2 DEF TypeOK
  <2>2. drafts'[k] \in [document : Doc, step : Step]
    BY <1>3, <2>1, ProcessAssumption
  <2>. QED  BY <1>2, <1>3, <2>1, <2>2, NullAssumption DEF TypeOK
<1>5. \A n \in Module : drafts'[n] # Null => modules'[n] # Null
  BY <1>2, <1>4 DEF AloneInvariant
<1>6. ASSUME NEW d \in Doc, documents'[d] # Null
      PROVE  Referenced(d)'
  <2>1. Referenced(d)
    BY <1>2, <1>6 DEF AloneInvariant, NoOrphanDocuments, Referenced
  <2>. QED  BY <1>2, <1>4, <2>1 DEF Referenced
<1>7. \A g \in Handler : RequestCurrent(requests[g])'
  BY FinishedIsCurrent DEF AdvanceDraft
<1>. QED  BY <1>5, <1>6, <1>7, WritingAlone

\* The document published is the one the draft had.
LEMMA FinishDraftAlone ==
  ASSUME DraftsInvariant, OneAtATime, AloneInvariant, NEW h \in Handler,
         NEW l \in Link, FinishDraft(h, l)
  PROVE  AloneInvariant'
<1>. USE DEF DraftsInvariant
<1>1. PICK r \in Request : r = requests[h]
  BY RequestTypes
<1>2. /\ r.module \in Module /\ r.document \in Doc
      /\ drafts[r.module] # Null /\ drafts[r.module].document = r.document
  BY <1>1, RequestTypes DEF FinishDraft, AloneInvariant, RequestCurrent
<1>3. /\ Range(versions'[r.module]) = Range(versions[r.module]) \cup {r.document}
      /\ \A n \in Module \ {r.module} : /\ versions'[n] = versions[n]
                                        /\ modules'[n] = modules[n]
  BY <1>1, <1>2, PublishDocumentEffect DEF FinishDraft
<1>4. /\ \A n \in Module :
            drafts'[n] = IF n = r.module THEN Null ELSE drafts[n]
      /\ UNCHANGED documents
  BY <1>1, <1>2 DEF FinishDraft, DeleteDraftRow, TypeOK, documentVars
<1>5. \A n \in Module : drafts'[n] # Null => modules'[n] # Null
  BY <1>3, <1>4 DEF AloneInvariant
<1>6. ASSUME NEW d \in Doc, documents'[d] # Null
      PROVE  Referenced(d)'
  <2>1. Referenced(d)
    BY <1>4, <1>6 DEF AloneInvariant, NoOrphanDocuments, Referenced
  <2>. QED  BY <1>2, <1>3, <1>4, <2>1 DEF Referenced
<1>7. \A g \in Handler : RequestCurrent(requests[g])'
  BY FinishedIsCurrent DEF FinishDraft
<1>. QED  BY <1>5, <1>6, <1>7, WritingAlone

LEMMA WriteDraftAlone ==
  ASSUME DraftsInvariant, OneAtATime, AloneInvariant, NEW h \in Handler,
         NEW c \in Content, WriteDraft(h, c)
  PROVE  AloneInvariant'
<1>1. UNCHANGED <<modules, versions, drafts>>
  BY DEF WriteDraft, moduleVars
<1>2. \A d \in Doc : documents'[d] # Null => documents[d] # Null
  BY DEF WriteDraft, DraftsInvariant, TypeOK
<1>3. \A d \in Doc : documents'[d] # Null => Referenced(d)'
  BY <1>1, <1>2 DEF AloneInvariant, NoOrphanDocuments, Referenced
<1>4. \A g \in Handler : RequestCurrent(requests[g])'
  BY FinishedIsCurrent DEF DraftsInvariant, WriteDraft
<1>. QED  BY <1>1, <1>3, <1>4, WritingAlone DEF AloneInvariant

LEMMA FailOrFillAlone ==
  ASSUME DraftsInvariant, OneAtATime, AloneInvariant, NEW h \in Handler,
         Fail(h) \/ FillSlot(h)
  PROVE  AloneInvariant'
<1>1. Finished(h) /\ UNCHANGED <<documentVars, moduleVars, drafts>>
  BY DEF Fail, FillSlot
<1>. QED  BY <1>1, FinishedIsCurrent, RememberingAlone DEF DraftsInvariant

LEMMA NobodyActsAlone ==
  ASSUME AloneInvariant,
         UNCHANGED <<documents, serial, modules, versions, drafts, seats, requests>>
  PROVE  AloneInvariant'
<1>1. \A g \in Handler : RequestCurrent(requests[g])'
  BY DEF AloneInvariant, RequestCurrent
<1>. QED  BY <1>1, RememberingAlone DEF documentVars, moduleVars

LEMMA NextAlone ==
  ASSUME DraftsInvariant, OneAtATime, AloneInvariant, [Next]_vars
  PROVE  AloneInvariant'
<1>1. ASSUME NEW h \in Handler, HandlerStep(h)
      PROVE  AloneInvariant'
  BY <1>1, FailOrFillAlone, ReadingAlone, BeginProcessAlone, ReplaceModuleAlone,
     DeleteDraftAlone, CheckSlotAlone, AdvanceDraftAlone, FinishDraftAlone,
     WriteDraftAlone
  DEF HandlerStep
<1>2. CASE SetTeam \/ UNCHANGED vars
  BY <1>2, NobodyActsAlone DEF SetTeam, vars, documentVars, moduleVars
<1>. QED
  BY <1>1, <1>2, CreateModuleAlone DEF Next, SetRole, SetRoleLimit, CreateVersion

\* With one request at a time, what a request remembers stays so.
THEOREM AloneStaysCurrent == ASSUME OneAtATime PROVE Spec => []AloneInvariant
<1>1. DraftsInvariant /\ AloneInvariant /\ [Next]_vars => AloneInvariant'
  BY NextAlone
<1>. QED  BY <1>1, InitAlone, Invariance, PTL DEF Spec

\* With one request at a time, cancelling a process (Draft::delete) and every
\* other handler leaves no document that neither a module nor a draft has.
THEOREM NothingOrphaned == ASSUME OneAtATime PROVE Spec => []NoOrphanDocuments
<1>1. AloneInvariant => NoOrphanDocuments
  BY DEF AloneInvariant
<1>. QED  BY <1>1, AloneStaysCurrent, PTL

\* The handlers that write to drafts, seats or modules; the rest only read,
\* fail, write to a document or change the team.
LEMMA OnlyTheseMove ==
  ASSUME [Next]_vars
  PROVE  \/ UNCHANGED <<modules, drafts, seats>>
         \/ \E m \in Module, c \in Content : CreateModule(m, c)
         \/ \E h \in Handler :
              \/ BeginProcess(h) \/ DeleteDraft(h) \/ FillSlot(h)
              \/ \E c \in Content : ReplaceModule(h, c)
              \/ \E l \in Link : AdvanceDraft(h, l) \/ FinishDraft(h, l)
<1>. DEFINE Still == UNCHANGED <<modules, drafts, seats>>
<1>1. ASSUME NEW h \in Handler, NEW r, Load(h, r) PROVE Still
  BY <1>1 DEF Load, moduleVars
<1>2. ASSUME NEW h \in Handler, NEW m \in Module,
             \/ LoadModule(h, m) \/ CountDrafts(h, m) \/ LoadForDelete(h, m)
             \/ \E u \in User : LoadForAdvance(h, m, u)
             \/ \E u \in User, p \in Part : LoadForWrite(h, m, u, p)
             \/ \E s \in Slot, u \in User : LoadForFill(h, m, s, u)
      PROVE  Still
  BY <1>1, <1>2 DEF LoadModule, CountDrafts, LoadForDelete, LoadForAdvance,
                    LoadForWrite, LoadForFill
<1>3. ASSUME NEW h \in Handler,
             \/ Fail(h)
             \/ \E s \in Slot : CheckSlot(h, s)
             \/ \E c \in Content : WriteDraft(h, c)
      PROVE  Still
  BY <1>3 DEF Fail, CheckSlot, WriteDraft, moduleVars
<1>4. CASE SetTeam \/ UNCHANGED vars
  BY <1>4 DEF SetTeam, vars, moduleVars
<1>. QED
  BY <1>2, <1>3, <1>4 DEF Next, HandlerStep, SetRole, SetRoleLimit, CreateVersion

\* One step of DraftKeepsBase.
LEMMA BaseIsKept ==
  ASSUME DraftsInvariant, AloneInvariant, [Next]_vars, NEW m \in Module,
         drafts[m] # Null, drafts'[m] # Null
  PROVE  modules'[m] = modules[m]
<1>. USE DEF DraftsInvariant
<1>1. ASSUME NEW k \in Module, NEW d \in Doc, PublishDocument(k, d), k # m
      PROVE  modules'[m] = modules[m]
  BY <1>1, PublishDocumentEffect
<1>2. ASSUME NEW k \in Module, NEW c \in Content, CreateModule(k, c)
      PROVE  modules'[m] = modules[m]
  <2>1. k # m /\ serial \in Doc
    BY <1>2 DEF CreateModule, InsertDocument, AloneInvariant
  <2>. QED  BY <1>1, <1>2, <2>1 DEF CreateModule
<1>3. ASSUME NEW h \in Handler, NEW c \in Content, ReplaceModule(h, c)
      PROVE  modules'[m] = modules[m]
  <2>1. PICK k \in Module : k = requests[h].module
    BY <1>3, RequestTypes DEF ReplaceModule
  <2>2. k # m /\ serial \in Doc
    BY <1>3, <2>1 DEF ReplaceModule, InsertDocument, AloneInvariant, RequestCurrent
  <2>. QED  BY <1>1, <1>3, <2>1, <2>2 DEF ReplaceModule
<1>4. ASSUME NEW h \in Handler, NEW l \in Link, FinishDraft(h, l)
      PROVE  modules'[m] = modules[m]
  <2>1. PICK k \in Module : k = requests[h].module
    BY <1>4, RequestTypes DEF FinishDraft
  <2>2. k # m
    BY <1>4, <2>1 DEF FinishDraft, DeleteDraftRow, TypeOK
  <2>3. requests[h].document \in Doc
    BY <1>4, RequestTypes DEF FinishDraft
  <2>. QED  BY <1>1, <1>4, <2>1, <2>2, <2>3 DEF FinishDraft
<1>5. ASSUME NEW h \in Handler, NEW l \in Link,
             BeginProcess(h) \/ DeleteDraft(h) \/ FillSlot(h) \/ AdvanceDraft(h, l)
      PROVE  modules'[m] = modules[m]
  BY <1>5 DEF BeginProcess, DeleteDraft, FillSlot, AdvanceDraft, moduleVars
<1>6. ASSUME NEW h \in Handler, BeginProcess(h) \/ DeleteDraft(h) \/ FillSlot(h)
      PROVE  modules'[m] = modules[m]
  BY <1>6 DEF BeginProcess, DeleteDraft, FillSlot, moduleVars
<1>. QED  BY <1>2, <1>3, <1>4, <1>5, <1>6, OnlyTheseMove

\* With one request at a time, a module that has a draft keeps its contents:
\* what Module::replace counted is still so when it writes.
THEOREM DraftsKeepTheirBase == ASSUME OneAtATime PROVE Spec => DraftKeepsBase
<1>1. DraftsInvariant /\ AloneInvariant /\ [Next]_vars =>
        [\A m \in Module :
            (drafts[m] # Null /\ drafts'[m] # Null)
                => modules'[m] = modules[m]]_vars
  BY BaseIsKept
<1>. QED  BY <1>1, Invariance, AloneStaysCurrent, PTL DEF Spec, DraftKeepsBase

\* One step of AdvanceFollowsLink.
LEMMA LinkIsFollowed ==
  ASSUME DraftsInvariant, AloneInvariant, [Next]_vars, NEW m \in Module,
         drafts[m] # Null, drafts'[m] # Null, drafts'[m].step # drafts[m].step
  PROVE  \E l \in Link : /\ l.from = drafts[m].step
                         /\ l.to = drafts'[m].step
                         /\ seats[m][l.slot] # Null
<1>. USE DEF DraftsInvariant
<1>1. PICK h \in Handler : \/ BeginProcess(h) \/ DeleteDraft(h)
                           \/ \E l \in Link : AdvanceDraft(h, l) \/ FinishDraft(h, l)
  BY OnlyTheseMove DEF CreateModule, ReplaceModule, FillSlot
<1>2. PICK r \in Request : r = requests[h]
  BY RequestTypes
<1>3. r.module \in Module /\ RequestCurrent(r)
  BY <1>1, <1>2, RequestTypes
  DEF BeginProcess, DeleteDraft, AdvanceDraft, FinishDraft, AloneInvariant
<1>4. CASE BeginProcess(h)
  BY <1>2, <1>3, <1>4 DEF BeginProcess, StartDraft, TypeOK
<1>5. CASE DeleteDraft(h) \/ \E l \in Link : FinishDraft(h, l)
  BY <1>2, <1>3, <1>5 DEF DeleteDraft, FinishDraft, DeleteDraftRow, TypeOK
<1>6. ASSUME NEW l \in Link, AdvanceDraft(h, l)
      PROVE  l.from = drafts[m].step /\ l.to = drafts'[m].step /\ seats[m][l.slot] # Null
  <2>1. r.module = m
    BY <1>2, <1>3, <1>6 DEF AdvanceDraft, TypeOK
  <2>2. drafts[m] \in [document : Doc, step : Step]
    BY DEF TypeOK, Orx
  <2>3. drafts'[m] = [drafts[m] EXCEPT !.step = l.to]
    BY <1>2, <1>6, <2>1 DEF AdvanceDraft, TypeOK
  <2>4. drafts'[m].step = l.to
    BY <2>2, <2>3
  <2>5. l.from = r.step /\ l.slot = r.slot
    BY <1>2, <1>6 DEF AdvanceDraft, UsableLinks
  <2>6. r.kind = "checked"
    BY <1>2, <1>6 DEF AdvanceDraft
  <2>. QED  BY <1>3, <2>1, <2>4, <2>5, <2>6 DEF RequestCurrent
<1>. QED  BY <1>1, <1>4, <1>5, <1>6

\* With one request at a time, a draft moves only along a link from the step it
\* is at, whose slot somebody holds (Draft::advance).
THEOREM DraftsFollowLinks == ASSUME OneAtATime PROVE Spec => AdvanceFollowsLink
<1>1. DraftsInvariant /\ AloneInvariant /\ [Next]_vars =>
        [\A m \in Module :
            /\ drafts[m] # Null /\ drafts'[m] # Null
            /\ drafts'[m].step # drafts[m].step
            => \E l \in Link : /\ l.from = drafts[m].step
                               /\ l.to = drafts'[m].step
                               /\ seats[m][l.slot] # Null]_vars
  BY LinkIsFollowed
<1>. QED  BY <1>1, Invariance, AloneStaysCurrent, PTL DEF Spec, AdvanceFollowsLink

\* What DisplacedIsTold asks of a step that takes slot s of draft m from u.
Told(m, s, u) ==
    \E x \in notices' :
        /\ x.user = u /\ x.module = m
        /\ \/ (x.kind = "slot-vacated" /\ x.slot = s)
           \/ x.kind \in {"process-ended", "process-cancelled"}

\* Members who lose their draft are told how it ended.
LEMMA MembersAreTold ==
  ASSUME NEW m \in Module, NEW s \in Slot, seats[m][s] \in User,
         NEW kind \in {"process-ended", "process-cancelled"},
         notices' = Tell(kind, m, Members(m))
  PROVE  Told(m, s, seats[m][s])
<1>1. seats[m][s] \in Members(m)
  BY DEF Members, Occupies
<1>2. [kind |-> kind, user |-> seats[m][s], module |-> m, slot |-> Null] \in notices'
  BY <1>1 DEF Tell
<1>. QED  BY <1>2 DEF Told

\* One step of DisplacedIsTold.
LEMMA DisplacedStep ==
  ASSUME DraftsInvariant, AloneInvariant, [Next]_vars, NEW m \in Module,
         NEW s \in Slot, seats[m][s] # Null, seats'[m][s] # seats[m][s]
  PROVE  Told(m, s, seats[m][s])
<1>. USE DEF DraftsInvariant
<1>1. PICK h \in Handler : \/ BeginProcess(h) \/ DeleteDraft(h) \/ FillSlot(h)
                           \/ \E l \in Link : AdvanceDraft(h, l) \/ FinishDraft(h, l)
  BY OnlyTheseMove DEF CreateModule, ReplaceModule
<1>2. PICK r \in Request : r = requests[h]
  BY RequestTypes
<1>3. r.module \in Module /\ RequestCurrent(r)
  BY <1>1, <1>2, RequestTypes
  DEF BeginProcess, DeleteDraft, FillSlot, AdvanceDraft, FinishDraft, AloneInvariant
<1>4. seats[m][s] \in User
  BY DEF TypeOK, Orx
<1>5. CASE BeginProcess(h)
  <2>1. seats[r.module] = Vacant
    BY <1>2, <1>3, <1>5 DEF BeginProcess, SeatsHaveDraft
  <2>2. r.module # m
    BY <2>1 DEF Vacant
  <2>. QED  BY <1>2, <1>3, <1>5, <2>2 DEF BeginProcess, TypeOK
<1>6. CASE DeleteDraft(h) \/ \E l \in Link : FinishDraft(h, l)
  <2>1. r.module = m
    BY <1>2, <1>3, <1>6 DEF DeleteDraft, FinishDraft, DeleteDraftRow, TypeOK
  <2>. QED  BY <1>2, <1>4, <1>6, <2>1, MembersAreTold DEF DeleteDraft, FinishDraft
<1>7. ASSUME NEW l \in Link, AdvanceDraft(h, l)
      PROVE  seats'[m][s] = seats[m][s]
  <2>1. PICK f \in FilledSeats(r.module, l.to) :
            seats' = [seats EXCEPT ![r.module] = f]
    BY <1>2, <1>7 DEF AdvanceDraft
  <2>2. s \notin ToFill(m, l.to)
    BY DEF ToFill, GetSlotSeating
  <2>. QED  BY <1>3, <2>1, <2>2 DEF FilledSeats, TypeOK
<1>8. CASE FillSlot(h)
  <2>1. /\ r.kind = "fill" /\ r.slot \in Slot
        /\ seats' = [seats EXCEPT ![r.module][r.slot] = r.user]
        /\ TellVacated(r) \subseteq notices'
    BY <1>2, <1>8, RequestTypes DEF FillSlot
  <2>2. r.module = m /\ r.slot = s
    BY <1>3, <2>1 DEF TypeOK
  <2>3. r.old = seats[m][s]
    BY <1>3, <2>1, <2>2 DEF RequestCurrent
  <2>4. [kind |-> "slot-vacated", user |-> seats[m][s], module |-> m, slot |-> s]
            \in notices'
    BY <2>1, <2>2, <2>3 DEF TellVacated, TellSlot
  <2>. QED  BY <2>4 DEF Told
<1>. QED  BY <1>1, <1>5, <1>6, <1>7, <1>8

\* With one request at a time, whoever loses a slot is told: the occupant that
\* Slot::fill_with read is the one it displaces.
THEOREM DisplacedAreTold == ASSUME OneAtATime PROVE Spec => DisplacedIsTold
<1>1. DraftsInvariant /\ AloneInvariant /\ [Next]_vars =>
        [\A m \in Module, s \in Slot :
            /\ seats[m][s] # Null
            /\ seats'[m][s] # seats[m][s]
            => \E x \in notices' :
                /\ x.user = seats[m][s] /\ x.module = m
                /\ \/ (x.kind = "slot-vacated" /\ x.slot = s)
                   \/ x.kind \in {"process-ended", "process-cancelled"}]_vars
  BY DisplacedStep DEF Told
<1>. QED  BY <1>1, Invariance, AloneStaysCurrent, PTL DEF Spec, DisplacedIsTold
=============================================================================
