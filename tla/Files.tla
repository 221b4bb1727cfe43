------------------------------- MODULE Files -------------------------------
(***************************************************************************)
(* The file store (crates/models/src/models/file.rs) and what refers to    *)
(* it: the files of documents (document.rs, draft.rs) with the uploads of  *)
(* drafts (rest-api/src/drafts.rs, web/src/etag.rs), modules made from a   *)
(* template (rest-api/src/modules.rs) or an archive (processing/import.rs) *)
(* and resources (models/src/models/resource.rs, rest-api/src/resources.rs)*)
(*                                                                         *)
(* A content stands for its hash: a row of files and a path on disk belong *)
(* to a content.  Storing one takes several steps, which overlap with      *)
(* those of other requests and with a crash of the server.  Permissions    *)
(* and the life of drafts are those of Drafts and Accounts.                *)
(***************************************************************************)
EXTENDS Naturals, FiniteSets, Functions, SequencesExt

CONSTANTS Contents,
          Templates,    \* the contents of new modules
          Names,        \* names of files other than the index
          Archives,     \* what is imported: sequences of entries
          Collections,  \* imported books: archives with their modules
          Empty,        \* the content of a directory or an empty file
          ResourceNames,
          Root,         \* the parent of a resource at the top
          NoFile,       \* in place of a directory's content
          AnyTag,       \* If-Match: * or no such header
          Requests,     \* requests that may be under way at a time
          MaxDocuments, \* bound: documents ever created
          MaxResources  \* bound: resources ever created

VARIABLES rows,       \* the contents that have a row in files
          disk,       \* what is under the path of a content
          documents,  \* documents, by id
          resources,  \* resources, by id
          requests,   \* where each request is
          cut         \* ghost: contents whose writer a crash cut off

vars == <<rows, disk, documents, resources, requests, cut>>

Index == "index.cnxml"
Idle == [at |-> "idle"]  \* of a request: not under way
ASSUME NamesAssumption == Index \notin Names
ASSUME TemplatesAssumption == Templates \subseteq Contents
ASSUME NoFileAssumption == NoFile \notin Contents /\ Empty \notin Contents
ASSUME RootAssumption == Root \notin Nat
ASSUME AnyTagAssumption == \A tags \in SUBSET Contents : tags # AnyTag
ASSUME BoundsAssumption == MaxDocuments \in Nat /\ MaxResources \in Nat

Init ==
    /\ rows = {} /\ disk = << >>
    /\ documents = << >> /\ resources = << >>
    /\ requests = [q \in Requests |-> Idle]
    /\ cut = {}

-----------------------------------------------------------------------------
(***************************************************************************)
(* Archives.  An entry has a directory, the sequence of its names, a name  *)
(* and a content.  Of a module's, the first index decides which directory  *)
(* is the module's; of a collection's, modules are the directories that    *)
(* its table names, in the order in which they are loaded.                 *)
(***************************************************************************)
SkipFiles == {"index.cnxml.html", "index_auto_generated.cnxml"}

Entries == [dir : Seq(STRING), name : STRING, content : Contents \cup {Empty}]

Indices(archive) == {i \in DOMAIN archive : archive[i].name = Index}
IndexOf(archive) == CHOOSE i \in Indices(archive) : \A j \in Indices(archive) : i <= j

\* Mutant of Imported: entries of every directory.
ImportedAnywhere(archive) ==
    {i \in DOMAIN archive \ {IndexOf(archive)} :
        archive[i].content # Empty /\ archive[i].name \notin SkipFiles}

\* Importer::process_module_zip: what is below the index's directory goes
\* into one document.
Imported(archive) ==
    {i \in DOMAIN archive \ {IndexOf(archive)} :
        /\ archive[i].content # Empty
        /\ IsPrefix(archive[IndexOf(archive)].dir, archive[i].dir)
        /\ archive[i].name \notin SkipFiles}

\* The entries at the positions in S, in their order.
Ascending(S) ==
    [k \in 1..Cardinality(S) |->
        CHOOSE i \in S : Cardinality({j \in S : j <= i}) = k]
Picked(archive, S) == [k \in 1..Cardinality(S) |-> archive[Ascending(S)[k]]]

\* The archive that process_module_zip would make the same module of as
\* load_collection_module makes of a directory, where every index is skipped.
IndexIn(archive, dir) == {i \in DOMAIN archive : archive[i].dir = dir /\ archive[i].name = Index}
FilesIn(archive, dir) ==
    {i \in DOMAIN archive : IsPrefix(dir, archive[i].dir) /\ archive[i].name # Index}
ModuleIn(archive, dir) ==
    Picked(archive, IndexIn(archive, dir)) \o Picked(archive, FilesIn(archive, dir))
ModulesIn(collection) ==
    [m \in DOMAIN collection.modules |-> ModuleIn(collection.archive, collection.modules[m])]
IsMissing(collection, m) == IndexIn(collection.archive, collection.modules[m]) = {}

\* What the store is given, in order: the index first.
Unpacked(archive) ==
    LET files == Picked(archive, Imported(archive))
    IN  <<archive[IndexOf(archive)].content>> \o [k \in DOMAIN files |-> files[k].content]

\* A document has one file of a name.
NamesRepeat(archive) ==
    \E i, j \in Imported(archive) : i # j /\ archive[i].name = archive[j].name

DocumentOf(archive) ==
    [index |-> archive[IndexOf(archive)].content,
     files |-> [n \in {archive[i].name : i \in Imported(archive)} |->
                   archive[CHOOSE i \in Imported(archive) : archive[i].name = n].content],
     is |-> "module"]

\* Loading a collection stops at a module without an index or with a name
\* twice.
CanCreate(collection, m) ==
    ~IsMissing(collection, m) /\ ~NamesRepeat(ModulesIn(collection)[m])
IsLoaded(collection, m) ==
    ~IsMissing(collection, m) /\ \A k \in 1..(m - 1) : CanCreate(collection, k)
Loaded(collection) ==
    LET upTo[m \in 0..Len(collection.modules)] ==
            IF m = 0 THEN << >>
            ELSE upTo[m - 1] \o IF IsLoaded(collection, m)
                                 THEN Unpacked(ModulesIn(collection)[m]) ELSE << >>
    IN  upTo[Len(collection.modules)]

\* An index that is empty is no document and is refused as it is read.
ASSUME ArchivesAssumption ==
    /\ Archives \subseteq Seq(Entries)
    /\ \A a \in Archives : Indices(a) # {} => a[IndexOf(a)].content # Empty
ASSUME CollectionsAssumption ==
    \A c \in Collections :
        /\ c.archive \in Seq(Entries) /\ c.modules \in Seq(Seq(STRING))
        /\ \A m \in DOMAIN c.modules : \A i \in IndexIn(c.archive, c.modules[m]) :
                c.archive[i].content # Empty

-----------------------------------------------------------------------------
(***************************************************************************)
(* Requests.  stores is what they have yet to store; of a request in a     *)
(* transaction, rows is what it has inserted and others do not see.        *)
(***************************************************************************)
Active == {q \in Requests : requests[q] # Idle}
With(f, key, value) == [k \in DOMAIN f \cup {key} |-> IF k = key THEN value ELSE f[k]]

Request(is, stores, args) ==
    [is |-> is, stores |-> stores, at |-> "look", rows |-> {},
     args |-> args, overtaken |-> FALSE]

Begin(is, stores, args) ==
    \E q \in Requests \ Active :
        /\ requests' = [requests EXCEPT ![q] = Request(is, stores, args)]
        /\ UNCHANGED <<rows, disk, documents, resources, cut>>

\* Those whose steps are one transaction.
InTransaction(r) == r.is \in {"import", "collection", "add"}

\* If-Match: any version, or those the tags name; weak tags match nothing.
Conditions == {AnyTag} \cup {{c} : c \in Contents} \cup {{}}

\* Mutant of Matches: the tags are not looked at.
MatchesAlways(condition, content) == TRUE

Matches(condition, content) == condition = AnyTag \/ content \in condition

FileOf(d, name) == IF name = Index THEN documents[d].index ELSE documents[d].files[name]
FilesOf(d) == {Index} \cup DOMAIN documents[d].files

\* PUT /drafts/:id/files/:name.  With a condition there must be a file.
BeginUpload ==
    \E d \in DOMAIN documents, n \in Names \cup {Index}, c \in Contents, m \in Conditions :
        /\ documents[d].is = "draft"
        /\ m # AnyTag => n \in FilesOf(d) /\ Matches(m, FileOf(d, n))
        /\ Begin("upload", <<c>>, [file |-> <<d, n>>, content |-> c, condition |-> m])

\* PUT /resources/:id/content.
BeginUpdate ==
    \E f \in DOMAIN resources, c \in Contents, m \in Conditions :
        /\ resources[f].file # NoFile
        /\ m # AnyTag => Matches(m, resources[f].file)
        /\ Begin("update", <<c>>, [file |-> f, content |-> c, condition |-> m])

\* POST /resources, of a file; nothing asks that the parent be a directory.
BeginAddResource ==
    \E n \in ResourceNames, p \in DOMAIN resources \cup {Root}, c \in Contents :
        Begin("add", <<c>>, [name |-> n, parent |-> p, file |-> c])

\* POST /modules.
BeginModule == \E c \in Templates : Begin("module", <<c>>, [content |-> c])

\* POST /modules with an archive.  The one worker takes one at a time; an
\* archive without an index is refused.
BeginImport ==
    \E a \in Archives :
        /\ Indices(a) # {}
        /\ \A q \in Active : requests[q].is \notin {"import", "collection"}
        /\ Begin("import", Unpacked(a), [archive |-> a])

\* POST /books with a collection.
BeginCollection ==
    \E c \in Collections :
        /\ \A q \in Active : requests[q].is \notin {"import", "collection"}
        /\ Begin("collection", Loaded(c), [collection |-> c])

-----------------------------------------------------------------------------
(***************************************************************************)
(* The store.                                                              *)
(***************************************************************************)
At(q, is) == requests[q] # Idle /\ requests[q].at = is /\ requests[q].stores # << >>
Content(q) == Head(requests[q].stores)
Stored(r) == [r EXCEPT !.stores = Tail(r.stores), !.at = "look"]

\* Mutant of LookUp: a file under the path will do.
LookUpOnDisk ==
    \E q \in Requests :
        /\ At(q, "look")
        /\ requests' = [requests EXCEPT ![q] =
               IF Content(q) \in DOMAIN disk THEN Stored(@)
               ELSE [@ EXCEPT !.at = "place"]]
        /\ UNCHANGED <<rows, disk, documents, resources, cut>>

\* Is there a row with this hash?
LookUp ==
    \E q \in Requests :
        /\ At(q, "look")
        /\ requests' = [requests EXCEPT ![q] =
               IF Content(q) \in rows \cup requests[q].rows THEN Stored(@)
               ELSE [@ EXCEPT !.at = "place"]]
        /\ UNCHANGED <<rows, disk, documents, resources, cut>>

\* from_file_with_hash renames a finished temporary file; from_data creates
\* the file, which empties one that is there, ...
Place ==
    \E q \in Requests :
        /\ At(q, "place")
        /\ LET inPlace == requests[q].is = "module"
           IN  /\ disk' = With(disk, Content(q), IF inPlace THEN "partial" ELSE "whole")
               /\ requests' = [requests EXCEPT ![q].at =
                                   IF inPlace THEN "fill" ELSE "insert"]
        /\ UNCHANGED <<rows, documents, resources, cut>>

\* ... and writes it.
Fill ==
    \E q \in Requests :
        /\ At(q, "fill")
        /\ disk' = With(disk, Content(q), "whole")
        /\ cut' = cut \ {Content(q)}
        /\ requests' = [requests EXCEPT ![q].at = "insert"]
        /\ UNCHANGED <<rows, documents, resources>>

\* The path is unique: an insertion waits for a transaction that has
\* inserted it and fails, with its request, when it is there.
Insert ==
    \E q \in Requests :
        LET r == requests[q]
            c == Content(q)
        IN  /\ At(q, "insert")
            /\ \A p \in Active \ {q} : c \notin requests[p].rows
            /\ requests' = [requests EXCEPT ![q] =
                   IF c \in rows THEN Idle
                   ELSE IF InTransaction(r)
                   THEN [Stored(r) EXCEPT !.rows = @ \cup {c}]
                   ELSE Stored(r)]
            /\ rows' = IF InTransaction(r) THEN rows ELSE rows \cup {c}
            /\ UNCHANGED <<disk, documents, resources, cut>>

-----------------------------------------------------------------------------
(***************************************************************************)
(* What requests do with what they have stored.                            *)
(***************************************************************************)
Ready(q, is) == requests[q] # Idle /\ requests[q].is = is /\ requests[q].stores = << >>

\* Request q ends.
End(q) == requests' = [requests EXCEPT ![q] = Idle]

\* Request q ends, having written a file that others are to write as well.
Rivals(q) ==
    {p \in Active \ {q} : requests[p].is = requests[q].is
                          /\ requests[p].args.file = requests[q].args.file}
EndWriting(q) ==
    requests' = [p \in Requests |->
        CASE p = q -> Idle
          [] p \in Rivals(q) -> [requests[p] EXCEPT !.overtaken = TRUE]
          [] OTHER -> requests[p]]

\* Draft::write_file.  When the draft is gone nothing is written.
WriteFile ==
    \E q \in Requests :
        LET args == requests[q].args
            d == args.file[1]
            n == args.file[2]
        IN  /\ Ready(q, "upload")
            /\ documents' =
                   IF documents[d].is = "deleted" THEN documents
                   ELSE IF n = Index THEN [documents EXCEPT ![d].index = args.content]
                   ELSE [documents EXCEPT ![d].files = With(@, n, args.content)]
            /\ EndWriting(q)
            /\ UNCHANGED <<rows, disk, resources, cut>>

\* Resource::set_file.
SetFile ==
    \E q \in Requests :
        /\ Ready(q, "update")
        /\ resources' = [resources EXCEPT ![requests[q].args.file].file =
                             requests[q].args.content]
        /\ EndWriting(q)
        /\ UNCHANGED <<rows, disk, documents, cut>>

\* Names are unique in a directory, but not at the top, where the parent
\* is null.
Taken(name, parent, r) ==
    parent # Root /\ \E other \in DOMAIN resources \ {r} :
        resources[other].parent = parent /\ resources[other].name = name

NewResource == Cardinality(DOMAIN resources) + 1
CreateResource(args) ==
    resources' = With(resources, NewResource, args)

\* Resource::create: a name that is taken undoes the transaction, and the
\* row of the file with it.
AddResource ==
    \E q \in Requests :
        LET args == requests[q].args
        IN  /\ Ready(q, "add") /\ NewResource <= MaxResources
            /\ IF Taken(args.name, args.parent, NewResource)
               THEN UNCHANGED <<resources, rows>>
               ELSE CreateResource(args) /\ rows' = rows \cup requests[q].rows
            /\ End(q)
            /\ UNCHANGED <<disk, documents, cut>>

\* POST /resources without a file.
AddDirectory ==
    \E n \in ResourceNames, p \in DOMAIN resources \cup {Root} :
        /\ NewResource <= MaxResources /\ ~Taken(n, p, NewResource)
        /\ CreateResource([name |-> n, parent |-> p, file |-> NoFile])
        /\ UNCHANGED <<rows, disk, documents, requests, cut>>

\* Mutant of Rename: the name may be taken.
RenameAnyway ==
    \E r \in DOMAIN resources, n \in ResourceNames :
        /\ resources' = [resources EXCEPT ![r].name = n]
        /\ UNCHANGED <<rows, disk, documents, requests, cut>>

\* PUT /resources/:id.
Rename ==
    \E r \in DOMAIN resources, n \in ResourceNames :
        /\ ~Taken(n, resources[r].parent, r)
        /\ resources' = [resources EXCEPT ![r].name = n]
        /\ UNCHANGED <<rows, disk, documents, requests, cut>>

NewDocument == 1 + Cardinality(DOMAIN documents)
CreateDocuments(new) ==
    /\ NewDocument + Len(new) - 1 <= MaxDocuments
    /\ documents' = [d \in 1..(NewDocument + Len(new) - 1) |->
           IF d < NewDocument THEN documents[d] ELSE new[d - NewDocument + 1]]
CreateDocument(document) == CreateDocuments(<<document>>)

\* Module::create, for a new module.
AddModule ==
    \E q \in Requests :
        /\ Ready(q, "module")
        /\ CreateDocument([index |-> requests[q].args.content, files |-> << >>,
                           is |-> "module"])
        /\ End(q)
        /\ UNCHANGED <<rows, disk, resources, cut>>

\* Importer::create_module: the transaction commits.
FinishImport ==
    \E q \in Requests :
        LET archive == requests[q].args.archive
        IN  /\ Ready(q, "import")
            /\ IF NamesRepeat(archive) THEN UNCHANGED <<documents, rows>>
               ELSE CreateDocument(DocumentOf(archive)) /\ rows' = rows \cup requests[q].rows
            /\ End(q)
            /\ UNCHANGED <<disk, resources, cut>>

\* Importer::load_collection_zip, in the transaction of create_book.
FinishCollection ==
    \E q \in Requests :
        LET collection == requests[q].args.collection
            modules == ModulesIn(collection)
        IN  /\ Ready(q, "collection")
            /\ IF \E m \in DOMAIN modules : ~CanCreate(collection, m)
               THEN UNCHANGED <<documents, rows>>
               ELSE /\ CreateDocuments([m \in DOMAIN modules |-> DocumentOf(modules[m])])
                    /\ rows' = rows \cup requests[q].rows
            /\ End(q)
            /\ UNCHANGED <<disk, resources, cut>>

\* The document of a new draft, with duplicate_document.
BeginDraft ==
    \E d \in DOMAIN documents :
        /\ documents[d].is = "module"
        /\ CreateDocument([documents[d] EXCEPT !.is = "draft"])
        /\ UNCHANGED <<rows, disk, resources, requests, cut>>

\* DELETE /drafts/:id/files/:name.  A name that no row has, as that of the
\* index has none, deletes nothing.
DeleteFile ==
    \E d \in DOMAIN documents : \E n \in DOMAIN documents[d].files :
        /\ documents[d].is = "draft"
        /\ documents' = [documents EXCEPT ![d].files = Restrict(@, DOMAIN @ \ {n})]
        /\ UNCHANGED <<rows, disk, resources, requests, cut>>

\* DELETE /drafts/:id: the document goes too.
DeleteDraft ==
    \E d \in DOMAIN documents :
        /\ documents[d].is = "draft"
        /\ documents' = [documents EXCEPT ![d].is = "deleted"]
        /\ UNCHANGED <<rows, disk, resources, requests, cut>>

\* The server stops; open transactions are rolled back.
Crash ==
    /\ Active # {}
    /\ requests' = [q \in Requests |-> Idle]
    /\ cut' = cut \cup {Content(q) : q \in {p \in Active : At(p, "fill")}}
    /\ UNCHANGED <<rows, disk, documents, resources>>

Next ==
    \/ BeginUpload \/ BeginUpdate \/ BeginAddResource \/ BeginModule \/ BeginImport
    \/ BeginCollection
    \/ LookUp \/ Place \/ Fill \/ Insert
    \/ WriteFile \/ SetFile \/ AddResource \/ AddModule \/ FinishImport \/ FinishCollection
    \/ AddDirectory \/ Rename \/ BeginDraft \/ DeleteFile \/ DeleteDraft \/ Crash

Spec == Init /\ [][Next]_vars

-----------------------------------------------------------------------------
(***************************************************************************)
(* Properties.                                                             *)
(***************************************************************************)
Kept(d) == {documents[d].index} \cup {documents[d].files[n] : n \in DOMAIN documents[d].files}
Live == {d \in DOMAIN documents : documents[d].is # "deleted"}
Stocked == {r \in DOMAIN resources : resources[r].file # NoFile}
Held == (UNION {Kept(d) : d \in Live}) \cup {resources[r].file : r \in Stocked}

\* Whatever a document or a resource holds has a row, and whatever has a row
\* is whole on disk, although contents are looked up, placed and inserted by
\* overlapping requests, some of which fail or are rolled back: only a new
\* module whose template is stored already leaves it incomplete, while it
\* writes the file again or when the server stops meanwhile.
FilesReadable ==
    /\ Held \subseteq rows
    /\ \A c \in rows : c \in DOMAIN disk
                       /\ (disk[c] = "whole" \/ c \in cut
                           \/ \E q \in Active : At(q, "fill") /\ Content(q) = c)

\* An upload with If-Match replaces a version that its tags name, unless
\* another upload to the file ended between its check and its write
\* (web/src/etag.rs: "to prevent lost update errors").
Replaced(q) ==
    LET args == requests[q].args
    IN  IF requests[q].is = "update" THEN {resources[args.file].file}
        ELSE IF args.file[2] \in FilesOf(args.file[1])
        THEN {FileOf(args.file[1], args.file[2])} ELSE {}
LostOnlyByOverlap ==
    [][\A q \in Active :
        requests'[q] = Idle /\ requests[q].is \in {"upload", "update"}
            /\ <<documents, resources>>' # <<documents, resources>>
            /\ requests[q].args.condition # AnyTag =>
                requests[q].overtaken
                    \/ Replaced(q) \subseteq requests[q].args.condition]_vars

\* The document of an import has every file of its archive that is below the
\* index's directory, but for empty and generated ones, under its name, and
\* no other; so have the documents of a collection's modules, but for other
\* modules' indices.
Below(archive, dir) ==
    {e \in ToSet(archive) :
        /\ e.content # Empty /\ e.name \notin SkipFiles
        /\ Len(e.dir) >= Len(dir) /\ SubSeq(e.dir, 1, Len(dir)) = dir}
IsMadeOf(document, entries) ==
    {<<Index, document.index>>} \cup {<<n, document.files[n]>> : n \in DOMAIN document.files}
        = {<<e.name, e.content>> : e \in entries}
ImportKept(q) ==
    LET args == requests[q].args
    IN  /\ requests[q].is = "import" =>
             IsMadeOf(documents'[NewDocument],
                      Below(args.archive, args.archive[IndexOf(args.archive)].dir))
        /\ requests[q].is = "collection" =>
             \A m \in DOMAIN args.collection.modules :
                 LET dir == args.collection.modules[m]
                 IN  IsMadeOf(documents'[NewDocument + m - 1],
                         {e \in Below(args.collection.archive, dir) :
                             e.name = Index => e.dir = dir})
ImportKeepsArchive ==
    [][\A q \in Active :
        requests'[q] = Idle /\ documents' # documents => ImportKept(q)]_vars

\* Directories hold no two resources of one name, and following the parents
\* leads to the top.
ResourceTreeSound ==
    \A r \in DOMAIN resources :
        LET parent == resources[r].parent
        IN  /\ parent # Root => parent \in DOMAIN resources /\ parent < r
            /\ ~Taken(resources[r].name, parent, r)
=============================================================================
