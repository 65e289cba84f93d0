----------------------------- MODULE Deliverables -----------------------------
(* Deliverables of one representative: the owner saves them over pinned         *)
(* artifacts, bundles are packed into a stored archive that is kept with the    *)
(* row, owner and public download them, artifacts are pinned and unpinned.      *)
(* Every route handler runs deliverables.ts (or compute.ts for the artifacts)   *)
(* statement by statement, several at a time, and any statement may throw.      *)
(* Artifact contents never change, so an archive is its deliverable and the     *)
(* artifacts in it: that is also what its cache key, hence its object key, says.*)
EXTENDS Integers, Sequences, FiniteSets, SequencesExt

CONSTANTS Artifacts,     \* Artifact rows of the representative
          Size,          \* Artifact.sizeBytes
          MaxBytes,      \* maxDeliverableBundleBytes
          MaxItems,      \* maxDeliverableBundleItems
          KindOf, NewerThan, \* Artifact.kind, and the order of createdAt and id
          Ids,           \* identifiers of deliverables
          Requests,      \* handlers running at once
          Bodies,        \* bodies the clients send
          PresetKeys,    \* packaging presets the owner may start from
          None,          \* null, or a field the body leaves out
          MaxRequests, MaxFaults

ASSUME BoundsAssumption == /\ MaxRequests \in Nat /\ MaxFaults \in Nat
                           /\ MaxBytes \in Nat /\ MaxItems \in Nat
                           /\ Size \in [Artifacts -> Nat] /\ IsFiniteSet(Artifacts)
VARIABLES deliverables, \* Deliverable rows, None while there is none
          artifacts,    \* Artifact rows
          objects,      \* archives in the object store
          entries,      \* ARTIFACT_EGRESS ledger entries, by what they note
          request,      \* the handlers' locals
          served,       \* history: what the public was answered with
          published,    \* history: what each deliverable offered while public
          torn,         \* history: saved while packed, or not to the end
          raced,        \* history: artifacts unpinned while a save took them
          started, faults
vars == <<deliverables, artifacts, objects, entries, request, served, published,
          torn, raced, started, faults>>
-------------------------------------------------------------------------------
Visibilities == {"owner_only", "public_material"}
Sources == {"artifact", "external_link", "bundle"}
Content == Artifacts \cup Seq(Artifacts)
Archive == [of: Ids, items: Seq(Artifacts)]

Shape == [visibility: Visibilities, source: Sources,
          artifact: Artifacts \cup {None}, link: BOOLEAN, items: Seq(Artifacts)]
Row == [visibility: Visibilities, source: Sources, artifact: Artifacts \cup {None},
        link: BOOLEAN, items: Seq(Artifacts), archive: Archive \cup {None},
        downloads: Nat]

(* null is no row, no artifact, no identifier and no archive.                   *)
ASSUME NullAssumption == /\ None \notin Row /\ None \notin Archive
                         /\ None \notin Artifacts /\ None \notin Ids

(* A body may leave any field out.  The schemas' defaults fill visibility and   *)
(* items: zod 4 applies them inside partial() too, so in an update as well.     *)
Body == [visibility: Visibilities \cup {None}, source: Sources \cup {None},
         artifact: Artifacts \cup {None}, link: BOOLEAN,
         items: Seq(Artifacts) \cup {None}]
ASSUME BodiesAssumption == Bodies \subseteq Body
Parsed(body) ==
    [body EXCEPT !.visibility = IF @ = None THEN "owner_only" ELSE @,
                 !.items = IF @ = None THEN <<>> ELSE @]

WellFormed(fields) ==
    /\ Len(fields.items) <= MaxItems
    /\ fields.source = "artifact" => fields.artifact # None
    /\ fields.source = "external_link" => fields.link
    /\ fields.source = "bundle" => fields.items # <<>>

(* resolveNextDeliverableShape: what the body gives, else what the row has.     *)
NextShape(row, body) ==
    LET given == Parsed(body)
    IN [visibility |-> given.visibility,
        source |-> IF given.source = None /\ row # None THEN row.source ELSE given.source,
        artifact |-> IF given.artifact = None /\ row # None THEN row.artifact
                                                          ELSE given.artifact,
        link |-> given.link \/ (row # None /\ row.link),
        items |-> given.items]

Accepted(row, body) ==
    /\ WellFormed(Parsed(body))
    /\ NextShape(row, body).source # None
    /\ WellFormed(NextShape(row, body))

Bytes(items) == FoldLeft(LAMBDA sum, a : sum + Size[a], 0, items)

(* resolveDeliverableArtifactBinding of a bundle.                               *)
Packable(items) ==
    /\ Cardinality(ToSet(items)) = Len(items)
    /\ \A a \in ToSet(items) : artifacts[a].pinned
    /\ Bytes(items) <= MaxBytes

(* deliverable-insights.ts: what a packaging preset offers to put in.           *)
Presets ==
    [deck |-> [visibility |-> "public_material", source |-> "bundle", most |-> 4,
               prefers |-> <<"screenshot", "json", "stdout">>],
     package |-> [visibility |-> "owner_only", source |-> "bundle", most |-> 6,
                  prefers |-> <<"screenshot", "json", "stdout", "file", "archive", "trace">>],
     case_study |-> [visibility |-> "public_material", source |-> "bundle", most |-> 5,
                     prefers |-> <<"screenshot", "json", "stdout">>],
     download_pack |-> [visibility |-> "public_material", source |-> "bundle", most |-> 8,
                        prefers |-> <<"archive", "file", "screenshot", "json", "stdout">>],
     generated_document |-> [visibility |-> "owner_only", source |-> "artifact", most |-> 3,
                             prefers |-> <<"file", "archive", "json", "stdout">>]]
ASSUME PresetsAssumption == PresetKeys \subseteq DOMAIN Presets
Rank(key, a) ==
    LET prefers == Presets[key].prefers
        places == {i \in DOMAIN prefers : prefers[i] = KindOf[a]}
    IN IF places = {} THEN Len(prefers) + 2 ELSE CHOOSE i \in places : TRUE
Before(key, a, b) == \/ Rank(key, a) < Rank(key, b)
                     \/ Rank(key, a) = Rank(key, b) /\ NewerThan[a][b]
PresetItems(key) ==
    LET pinned == {a \in Artifacts : artifacts[a].pinned}
        size == IF Cardinality(pinned) < Presets[key].most THEN Cardinality(pinned)
                                                           ELSE Presets[key].most
    IN {items \in [1..size -> pinned] :
          /\ \A i, j \in 1..size : i < j => Before(key, items[i], items[j])
          /\ \A a \in pinned \ ToSet(items), i \in 1..size : Before(key, items[i], a)}
PresetBody(key, items) ==
    LET single == Presets[key].source = "artifact" /\ items # <<>>
    IN [visibility |-> Presets[key].visibility,
        source |-> IF single THEN "artifact" ELSE "bundle",
        artifact |-> IF single THEN items[1] ELSE None,
        link |-> FALSE, items |-> IF single THEN <<>> ELSE items]
-------------------------------------------------------------------------------
(* The handlers' locals.                                                        *)
Idle == [op |-> "none"]
Save == [op: {"save"}, step: {"bind", "pin", "persist", "write", "record"},
         target: Ids \cup {None}, shape: Shape]
Download == [op: {"download"}, step: {"write", "record", "count"}, target: Ids,
             public: BOOLEAN, content: Content, settled: BOOLEAN,
             due: SUBSET {"deliverable", "entry"}, failed: BOOLEAN]
Pin == [op: {"pin"}, artifact: Artifacts, pinned: BOOLEAN]

Born == {d \in Ids : deliverables[d] # None}
At(q, op, step) == request[q].op = op /\ request[q].step = step
Building(d) == \E q \in Requests : /\ request[q].op \in {"save", "download"}
                                   /\ request[q].step \in {"write", "record"}
                                   /\ request[q].target = d

Takes(shape) == CASE shape.source = "artifact" -> {shape.artifact}
                  [] shape.source = "bundle" -> ToSet(shape.items)
                  [] OTHER -> {}
Uses(row) == (IF row.artifact = None THEN {} ELSE {row.artifact}) \cup ToSet(row.items)
Unpinning(a) == \E q \in Requests : /\ request[q].op = "pin"
                                    /\ request[q].artifact = a
                                    /\ ~request[q].pinned
Saving(a) == \E q \in Requests : /\ request[q].op = "save"
                                 /\ a \in Takes(request[q].shape)

\* A bundle that has an archive keeps it.
Repacks_Once(row, shape) == /\ shape.source = "bundle"
                            /\ row = None \/ row.archive = None

(* Whether a save ends in ensurePersistedDeliverablePackage.                    *)
Repacks(row, shape) == shape.source = "bundle"

(* What a public row offers.                                                    *)
Offer(shape) == CASE shape.source = "artifact" -> {shape.artifact}
                  [] shape.source = "bundle" -> {shape.items}
                  [] OTHER -> {}

(* The archive a handler is building.                                           *)
Packed(q) == [of |-> request[q].target,
              items |-> IF request[q].op = "save" THEN request[q].shape.items
                                                  ELSE request[q].content]

Begin(q, locals) == /\ request[q] = Idle /\ started < MaxRequests
                    /\ started' = started + 1
                    /\ request' = [request EXCEPT ![q] = locals]
Goes(q, step) == request' = [request EXCEPT ![q].step = step]
Ends(q) == request' = [request EXCEPT ![q] = Idle]
-------------------------------------------------------------------------------
Init == /\ deliverables = [d \in Ids |-> None]
        /\ artifacts \in [Artifacts -> [pinned: BOOLEAN, downloads: {0}]]
        /\ objects = {}
        /\ entries = [note \in ({"download", "via"} \X Artifacts) \cup ({"bundle"} \X Ids) |-> 0]
        /\ request = [q \in Requests |-> Idle]
        /\ served = {}
        /\ published = [d \in Ids |-> {}]
        /\ torn = {} /\ raced = {} /\ started = 0 /\ faults = 0

(* upsertRepresentativeDeliverable: the row is read, the body is parsed over it.*)
BeginSave(q, target, body) ==
    LET row == IF target = None THEN None ELSE deliverables[target]
        shape == NextShape(row, body)
    IN /\ target # None => row # None
       /\ Accepted(row, body)
       /\ Begin(q, [op |-> "save", step |-> "bind", target |-> target, shape |-> shape])
       /\ raced' = raced \cup {a \in Takes(shape) : Unpinning(a)}
       /\ UNCHANGED <<deliverables, artifacts, objects, entries, served, published,
                      torn, faults>>

(* The artifacts it stands on are looked at; what cannot be packed is refused.  *)
Bind(q) ==
    /\ At(q, "save", "bind")
    /\ LET shape == request[q].shape
       IN CASE shape.source = "external_link" -> Goes(q, "persist")
            [] shape.source = "artifact" ->
                 Goes(q, IF artifacts[shape.artifact].pinned THEN "persist" ELSE "pin")
            [] shape.source = "bundle" ->
                 IF Packable(shape.items) THEN Goes(q, "persist") ELSE Ends(q)
    /\ UNCHANGED <<deliverables, artifacts, objects, entries, served, published,
                   torn, raced, started, faults>>

PinLinked(q) ==
    /\ At(q, "save", "pin")
    /\ artifacts' = [artifacts EXCEPT ![request[q].shape.artifact].pinned = TRUE]
    /\ Goes(q, "persist")
    /\ UNCHANGED <<deliverables, objects, entries, served, published, torn, raced,
                   started, faults>>

(* deliverable.update or create.  An update to a bundle leaves the archive's    *)
(* columns as they are until the new archive is recorded.                       *)
Persist(q) ==
    /\ At(q, "save", "persist")
    /\ \E d \in IF request[q].target = None THEN Ids \ Born ELSE {request[q].target} :
         LET shape == request[q].shape
             old == deliverables[d]
             bundle == shape.source = "bundle"
         IN /\ deliverables' = [deliverables EXCEPT ![d] =
                 [visibility |-> shape.visibility, source |-> shape.source,
                  artifact |-> IF shape.source = "artifact" THEN shape.artifact ELSE None,
                  link |-> shape.source = "external_link",
                  items |-> IF bundle THEN shape.items ELSE <<>>,
                  archive |-> IF bundle /\ old # None THEN old.archive ELSE None,
                  downloads |-> IF old = None THEN 0 ELSE old.downloads]]
            /\ published' = IF shape.visibility = "public_material"
                            THEN [published EXCEPT ![d] = @ \cup Offer(shape)]
                            ELSE published
            /\ torn' = IF Building(d) THEN torn \cup {d} ELSE torn \ {d}
            /\ IF Repacks(old, shape)
               THEN request' = [request EXCEPT ![q].step = "write", ![q].target = d]
               ELSE Ends(q)
    /\ UNCHANGED <<artifacts, objects, entries, served, raced, started, faults>>

(* ensurePersistedDeliverablePackage and readPersistedDeliverablePackage: the    *)
(* archive is put together and stored, then recorded with the row.              *)
WriteArchive(q) ==
    /\ At(q, "save", "write") \/ At(q, "download", "write")
    /\ objects' = objects \cup {Packed(q)}
    /\ Goes(q, "record")
    /\ UNCHANGED <<deliverables, artifacts, entries, served, published, torn, raced,
                   started, faults>>

RecordArchive(q) ==
    /\ At(q, "save", "record") \/ At(q, "download", "record")
    /\ deliverables' = [deliverables EXCEPT ![request[q].target].archive = Packed(q)]
    /\ IF request[q].op = "save" THEN Ends(q) ELSE Goes(q, "count")
    /\ UNCHANGED <<artifacts, objects, entries, served, published, torn, raced,
                   started, faults>>

\* publicOnly is forgotten.
Visible_Always(row, public) == TRUE

(* getRepresentativeDeliverableDownload.  A link is not downloaded; a bundle    *)
(* without an archive gets one from the items the row had when it was read.     *)
Visible(row, public) == public => row.visibility = "public_material"

BeginDownload(q, d, public) ==
    LET row == deliverables[d]
    IN /\ row # None /\ Visible(row, public) /\ row.source # "external_link"
       /\ row.source = "bundle" /\ row.archive # None => row.archive \in objects
       /\ Begin(q, [op |-> "download", target |-> d, public |-> public,
                    step |-> IF row.source = "bundle" /\ row.archive = None
                             THEN "write" ELSE "count",
                    content |-> CASE row.source = "artifact" -> row.artifact
                                  [] row.source = "bundle" /\ row.archive = None -> row.items
                                  [] OTHER -> row.archive.items,
                    settled |-> d \notin torn /\ ~Building(d),
                    due |-> {"deliverable", "entry"}, failed |-> FALSE])
       /\ UNCHANGED <<deliverables, artifacts, objects, entries, served, published,
                      torn, raced, faults>>

(* Promise.all of recordDeliverableDownload and recordArtifactDownload, or of   *)
(* the former and the bundle's ledger entry; the answer goes out after both.    *)
Answered(q, due, failed) ==
    IF due # {} THEN request' = [request EXCEPT ![q].due = due, ![q].failed = failed]
                ELSE Ends(q)
Answers(q, due) ==
    served' = IF due = {} /\ ~request[q].failed /\ request[q].public
              THEN served \cup {[deliverable |-> request[q].target,
                                content |-> request[q].content,
                                settled |-> request[q].settled]}
              ELSE served

CountDeliverable(q) ==
    /\ At(q, "download", "count") /\ "deliverable" \in request[q].due
    /\ deliverables' = [deliverables EXCEPT ![request[q].target].downloads = @ + 1]
    /\ Answered(q, request[q].due \ {"deliverable"}, request[q].failed)
    /\ Answers(q, request[q].due \ {"deliverable"})
    /\ UNCHANGED <<artifacts, objects, entries, published, torn, raced, started, faults>>

\* An artifact's download is booked by the deliverable's counter alone.
BookEntry_BundlesOnly(q) ==
    LET content == request[q].content
    IN /\ At(q, "download", "count") /\ "entry" \in request[q].due
       /\ entries' = IF content \in Artifacts THEN entries
                     ELSE [entries EXCEPT ![<<"bundle", request[q].target>>] = @ + 1]
       /\ artifacts' = artifacts
       /\ Answered(q, request[q].due \ {"entry"}, request[q].failed)
       /\ Answers(q, request[q].due \ {"entry"})
       /\ UNCHANGED <<deliverables, objects, published, torn, raced, started, faults>>

BookEntry(q) ==
    LET content == request[q].content
    IN /\ At(q, "download", "count") /\ "entry" \in request[q].due
       /\ entries' = [entries EXCEPT ![IF content \in Artifacts
                                       THEN <<"via", content>>
                                       ELSE <<"bundle", request[q].target>>] = @ + 1]
       /\ artifacts' = IF content \in Artifacts
                       THEN [artifacts EXCEPT ![content].downloads = @ + 1] ELSE artifacts
       /\ Answered(q, request[q].due \ {"entry"}, request[q].failed)
       /\ Answers(q, request[q].due \ {"entry"})
       /\ UNCHANGED <<deliverables, objects, published, torn, raced, started, faults>>

(* getRepresentativeComputeArtifactDownload: counted and booked together.       *)
FetchArtifact(a) ==
    /\ started < MaxRequests /\ started' = started + 1
    /\ artifacts' = [artifacts EXCEPT ![a].downloads = @ + 1]
    /\ entries' = [entries EXCEPT ![<<"download", a>>] = @ + 1]
    /\ UNCHANGED <<deliverables, objects, request, served, published, torn, raced, faults>>

\* A bundle's items do not count.
Referenced_Linked(a) == \E d \in Born : a = deliverables[d].artifact

(* updateRepresentativeComputeArtifact: an artifact a deliverable refers to is  *)
(* not unpinned, and the row is written an await after that was looked at.      *)
Referenced(a) == \E d \in Born : a \in Uses(deliverables[d])

BeginPin(q, a, pinned) ==
    /\ ~pinned => ~Referenced(a)
    /\ Begin(q, [op |-> "pin", artifact |-> a, pinned |-> pinned])
    /\ raced' = IF ~pinned /\ Saving(a) THEN raced \cup {a} ELSE raced
    /\ UNCHANGED <<deliverables, artifacts, objects, entries, served, published, torn,
                   faults>>

UpdatePin(q) ==
    /\ request[q].op = "pin"
    /\ artifacts' = [artifacts EXCEPT ![request[q].artifact].pinned = request[q].pinned]
    /\ Ends(q)
    /\ UNCHANGED <<deliverables, objects, entries, served, published, torn, raced,
                   started, faults>>

(* A statement throws: the handler answers 400 or 500 and what it did stays     *)
(* done.  One of two recordings that throws lets the other one finish.          *)
Fail(q) ==
    /\ request[q] # Idle /\ faults < MaxFaults
    /\ faults' = faults + 1
    /\ IF At(q, "download", "count")
       THEN \E part \in request[q].due :
                Answered(q, request[q].due \ {part}, TRUE)
       ELSE Ends(q)
    /\ torn' = IF At(q, "save", "write") \/ At(q, "save", "record")
               THEN torn \cup {request[q].target} ELSE torn
    /\ UNCHANGED <<deliverables, artifacts, objects, entries, served, published, raced,
                   started>>

Next ==
    \/ \E q \in Requests :
        \/ \E target \in Born \cup {None} :
               \/ \E body \in Bodies : BeginSave(q, target, body)
               \/ \E key \in PresetKeys : \E items \in PresetItems(key) :
                      BeginSave(q, target, PresetBody(key, items))
        \/ Bind(q) \/ PinLinked(q) \/ Persist(q)
        \/ WriteArchive(q) \/ RecordArchive(q)
        \/ \E d \in Ids, public \in BOOLEAN : BeginDownload(q, d, public)
        \/ CountDeliverable(q) \/ BookEntry(q)
        \/ \E a \in Artifacts, pinned \in BOOLEAN : BeginPin(q, a, pinned)
        \/ UpdatePin(q) \/ Fail(q)
    \/ \E a \in Artifacts : FetchArtifact(a)

Spec == Init /\ [][Next]_vars
-------------------------------------------------------------------------------
(* deliverable-insights.ts: packageHealth.stalePackageCount.                    *)
StaleArchives == {d \in Born : /\ deliverables[d].source = "bundle"
                               /\ deliverables[d].archive = None}

(* Every variable keeps to its type.                                            *)
TypeOK ==
    /\ DOMAIN deliverables = Ids
    /\ \A d \in Born : deliverables[d] \in Row
    /\ artifacts \in [Artifacts -> [pinned: BOOLEAN, downloads: Nat]]
    /\ objects \subseteq Archive
    /\ \A note \in DOMAIN entries : entries[note] \in Nat
    /\ \A q \in Requests : request[q] \in {Idle} \cup Save \cup Download \cup Pin
    /\ \A s \in served : s.deliverable \in Ids /\ s.content \in Content
    /\ torn \subseteq Ids /\ raced \subseteq Artifacts
    /\ started \in 0..MaxRequests /\ faults \in 0..MaxFaults

(* An artifact some deliverable refers to stays pinned, unless it was unpinned  *)
(* while a save that takes it was under way.                                    *)
ReferencedStayPinned ==
    \A d \in Born : \A a \in Uses(deliverables[d]) : artifacts[a].pinned \/ a \in raced

(* A recorded archive is in the store; and a bundle whose last save ran to its  *)
(* end with no other archive of it being built is either counted as stale or    *)
(* its archive holds just its items: no count shows the other bundles' state.   *)
ArchivesAreCurrent ==
    \A d \in Born :
        /\ deliverables[d].archive # None => deliverables[d].archive \in objects
        /\ deliverables[d].source = "bundle" /\ d \notin torn /\ ~Building(d)
              => /\ d \notin StaleArchives
                 /\ deliverables[d].archive = [of |-> d, items |-> deliverables[d].items]

(* The public is answered only with what the deliverable offered while it was   *)
(* public, when nothing was being packed as the row was read.                   *)
PublicGetsPublished ==
    \A s \in served : s.settled => s.content \in published[s.deliverable]

(* As many units as the counts of f add up to.                                  *)
Units(f) == UNION {{x} \X (1..f[x]) : x \in DOMAIN f}
Counted == [d \in Born |-> deliverables[d].downloads]
Booked == [note \in {n \in DOMAIN entries : n[1] # "download"} |-> entries[note]]

(* Downloads the rows count and those the ledger charges for differ by no more  *)
(* than the recordings under way and those that threw.                          *)
DownloadsAreBooked ==
    LET halfway == Cardinality({q \in Requests : At(q, "download", "count")
                                                 /\ Cardinality(request[q].due) = 1})
        most == halfway + faults
    IN Cardinality(Units(Counted)) - Cardinality(Units(Booked)) \in -most..most
===============================================================================
