-------------------------- MODULE Deliverables_proofs --------------------------
(* Proofs about Deliverables, for any number of artifacts, deliverables and     *)
(* handlers at once: what a deliverable refers to stays pinned, an archive is   *)
(* what its row says, the public is answered with what was published, and every *)
(* counted download is booked.                                                  *)
(*                                                                              *)
(* The invariant says what each handler may count on at each await although the *)
(* others run on: that the artifacts it will refer to are pinned, that the      *)
(* archive it builds is the one its row asks for, that what it will answer with *)
(* was published; and for the books, that what the rows count beyond the        *)
(* ledger, the recordings under way apart, is owed to statements that threw.    *)
EXTENDS Deliverables, FiniteSetTheorems, FunctionTheorems, TLAPS

Locals == {Idle} \cup Save \cup Download \cup Pin

(* What a handler's locals say, whatever the rows are.                          *)
WellTaken(shape) == shape.source = "artifact" => shape.artifact \in Artifacts
Builds(e) == e.op \in {"save", "download"} /\ e.step \in {"write", "record"}
LocalsKnow(e, born) ==
    /\ e.op \in {"save", "download"} /\ e.target # None => e.target \in born
    /\ e.op = "save" =>
         /\ WellTaken(e.shape)
         /\ e.step \in {"write", "record"} => e.target # None /\ e.shape.source = "bundle"
         /\ e.step = "pin" => e.shape.source = "artifact"
    /\ e.op = "download" /\ e.step \in {"write", "record"} => e.content \in Seq(Artifacts)

Types ==
    /\ deliverables \in [Ids -> {None} \cup Row]
    /\ \A d \in Born : WellTaken(deliverables[d])
    /\ artifacts \in [Artifacts -> [pinned: BOOLEAN, downloads: Nat]]
    /\ objects \subseteq Archive
    /\ \A note \in DOMAIN entries : entries[note] \in Nat
    /\ request \in [Requests -> Locals]
    /\ \A q \in Requests : LocalsKnow(request[q], Born)
    /\ \A s \in served : s.deliverable \in Ids /\ s.content \in Content
    /\ published \in [Ids -> SUBSET Content]
    /\ torn \subseteq Ids /\ raced \subseteq Artifacts
    /\ started \in 0..MaxRequests /\ faults \in 0..MaxFaults

(* Whatever a row or a save about to write one takes is pinned; and no unpin    *)
(* that goes against one is under way unnoticed.                                *)
Free(a) == artifacts[a].pinned \/ a \in raced
Pins ==
    /\ \A d \in Born : \A a \in Uses(deliverables[d]) : Free(a)
    /\ \A q \in Requests :
          At(q, "save", "persist") => \A a \in Takes(request[q].shape) : Free(a)
    /\ \A a \in Artifacts : Unpinning(a) /\ (Referenced(a) \/ Saving(a)) => a \in raced

(* A bundle that is not torn has its archive, or the save that makes it; and    *)
(* whoever packs it packs what the row says.                                    *)
Holds(e) == IF e.op = "save" THEN e.shape.items ELSE e.content
Current(d) == [of |-> d, items |-> deliverables[d].items]
SaveBuilds(d) == \E q \in Requests :
    request[q].op = "save" /\ Builds(request[q]) /\ request[q].target = d
Packs ==
    /\ \A d \in Born : deliverables[d].archive # None => deliverables[d].archive \in objects
    /\ \A q \in Requests :
          Builds(request[q]) /\ request[q].step = "record" => Packed(q) \in objects
    /\ \A d \in Born \ torn : deliverables[d].source = "bundle" =>
          /\ \A q \in Requests : Builds(request[q]) /\ request[q].target = d
                                    => Holds(request[q]) = deliverables[d].items
          /\ deliverables[d].archive = Current(d) \/ SaveBuilds(d)

(* What a public row offers was published, and so was what is being answered.   *)
Offers ==
    /\ \A d \in Born : deliverables[d].visibility = "public_material"
          => Offer(deliverables[d]) \subseteq published[d]
    /\ \A q \in Requests : request[q].op = "download" /\ request[q].public /\ request[q].settled
          => request[q].content \in published[request[q].target]
    /\ PublicGetsPublished

IInv == Types /\ Pins /\ Packs /\ Offers
-------------------------------------------------------------------------------
(* The handlers' locals.                                                        *)
USE BoundsAssumption, NullAssumption, BodiesAssumption, PresetsAssumption

LEMMA KindsOfLocals ==
    ASSUME NEW e \in Locals
    PROVE  /\ e.op \in {"none", "save", "download", "pin"}
           /\ e.op = "none" => e = Idle
           /\ e.op = "save" => e \in Save
           /\ e.op = "download" => e \in Download
           /\ e.op = "pin" => e \in Pin
BY DEF Locals, Idle, Save, Download, Pin

(* What a save is made from.                                                    *)
LEMMA OffersAreArtifacts ==
    ASSUME NEW key \in PresetKeys, NEW items \in PresetItems(key)
    PROVE  items \in Seq(Artifacts)
<1> DEFINE pinned == {a \in Artifacts : artifacts[a].pinned}
           size == IF Cardinality(pinned) < Presets[key].most THEN Cardinality(pinned)
                                                              ELSE Presets[key].most
<1>1. pinned \subseteq Artifacts /\ Cardinality(pinned) \in Nat
    BY FS_Subset, FS_CardinalityType
<1>2. Presets[key].most \in Nat
    BY DEF Presets
<1>3. size \in Nat
    BY <1>1, <1>2
<1>4. items \in [1..size -> pinned]
    BY DEF PresetItems
<1> HIDE DEF size, pinned
<1> QED
    BY <1>1, <1>3, <1>4

LEMMA PresetsAreBodies ==
    ASSUME NEW key \in PresetKeys, NEW items \in PresetItems(key)
    PROVE  PresetBody(key, items) \in Body
<1>1. items \in Seq(Artifacts)
    BY OffersAreArtifacts
<1>2. Presets[key].visibility \in Visibilities
    BY DEF Presets, Visibilities
<1>3. items # <<>> => items[1] \in Artifacts
    BY <1>1
<1> QED
    BY <1>1, <1>2, <1>3 DEF PresetBody, Body, Sources

LEMMA ShapesAreTyped ==
    ASSUME NEW row \in {None} \cup Row, NEW body \in Body, Accepted(row, body)
    PROVE  NextShape(row, body) \in Shape /\ WellTaken(NextShape(row, body))
<1> DEFINE given == Parsed(body)
           shape == NextShape(row, body)
<1>1. /\ given.visibility \in Visibilities /\ given.items \in Seq(Artifacts)
      /\ given.source \in Sources \cup {None} /\ given.artifact \in Artifacts \cup {None}
      /\ given.link \in BOOLEAN
    <2>1. "owner_only" \in Visibilities /\ <<>> \in Seq(Artifacts)
        BY DEF Visibilities
    <2> QED
        BY <2>1 DEF Parsed, Body
<1>2. shape.source # None /\ WellFormed(shape)
    BY DEF Accepted
<1>3. row # None => /\ row.source \in Sources /\ row.artifact \in Artifacts \cup {None}
                    /\ row.link \in BOOLEAN
    BY DEF Row
<1> HIDE DEF given
<1>4. shape = [visibility |-> given.visibility,
               source |-> IF given.source = None /\ row # None THEN row.source ELSE given.source,
               artifact |-> IF given.artifact = None /\ row # None THEN row.artifact
                                                                   ELSE given.artifact,
               link |-> given.link \/ (row # None /\ row.link),
               items |-> given.items]
    BY DEF NextShape, given
<1> HIDE DEF shape
<1>5. shape.source \in Sources /\ shape.artifact \in Artifacts \cup {None}
    BY <1>1, <1>2, <1>3, <1>4
<1>6. (given.link \/ (row # None /\ row.link)) \in BOOLEAN
    OBVIOUS
<1>7. shape \in Shape
    BY <1>1, <1>4, <1>5, <1>6 DEF Shape
<1>8. WellTaken(shape)
    BY <1>2, <1>5 DEF WellFormed, WellTaken
<1> QED
    BY <1>7, <1>8 DEF shape

-------------------------------------------------------------------------------
(* What most steps leave as it is, and what that keeps.                         *)
Turns(q, f) == request' = [request EXCEPT ![q] = f]

SameRow(row, next) ==
    /\ row = None <=> next = None
    /\ row # None => /\ next.visibility = row.visibility /\ next.source = row.source
                     /\ next.artifact = row.artifact /\ next.items = row.items
RowsKept == \A d \in Ids : SameRow(deliverables[d], deliverables'[d])
ArchivesKept == \A d \in Born : deliverables'[d].archive = deliverables[d].archive

(* No row is lost and no count changes: a new row begins with none.             *)
CountsKept ==
    /\ Born \subseteq Born'
    /\ \A d \in Born' : deliverables'[d].downloads = IF d \in Born THEN deliverables[d].downloads
                                                                  ELSE 0

LEMMA KeptRows ==
    ASSUME RowsKept
    PROVE  /\ Born' = Born
           /\ \A d \in Born : /\ Uses(deliverables'[d]) = Uses(deliverables[d])
                              /\ Offer(deliverables'[d]) = Offer(deliverables[d])
BY DEF RowsKept, SameRow, Born, Uses, Offer

LEMMA RowsUnchanged ==
    ASSUME UNCHANGED deliverables
    PROVE  RowsKept /\ ArchivesKept /\ Born' = Born
BY DEF RowsKept, ArchivesKept, SameRow, Born

LEMMA RequestTypes ==
    ASSUME Types, NEW q \in Requests, NEW f \in Locals, Turns(q, f), Born \subseteq Born',
           LocalsKnow(f, Born')
    PROVE  /\ request' \in [Requests -> Locals]
           /\ \A p \in Requests : LocalsKnow(request'[p], Born')
           /\ request'[q] = f /\ \A p \in Requests : p # q => request'[p] = request[p]
<1>1. request \in [Requests -> Locals] /\ \A p \in Requests : LocalsKnow(request[p], Born)
    BY DEF Types
<1>2. /\ request' \in [Requests -> Locals]
      /\ request'[q] = f /\ \A p \in Requests : p # q => request'[p] = request[p]
    BY <1>1 DEF Turns
<1>3. ASSUME NEW p \in Requests PROVE LocalsKnow(request'[p], Born')
    <2>1. CASE p = q
        BY <1>2, <2>1
    <2>2. CASE p # q
        <3>1. LocalsKnow(request[p], Born)
            BY <1>1
        <3> QED
            BY <1>2, <2>2, <3>1 DEF LocalsKnow
    <2> QED
        BY <2>1, <2>2
<1> QED
    BY <1>2, <1>3

(* A save goes on with what it took, and an unpin was there before.             *)
PinsFollow(e, f) ==
    /\ f.op = "save" => /\ e.op = "save" /\ f.shape = e.shape
                        /\ f.step = "persist" => \/ e.step = "persist"
                                                 \/ \A a \in Takes(f.shape) : Free(a)'
    /\ f.op = "pin" => f = e

LEMMA PinsKept ==
    ASSUME Pins, RowsKept,
           \A a \in Artifacts : artifacts[a].pinned => artifacts'[a].pinned,
           raced \subseteq raced',
           \A d \in Born : Uses(deliverables[d]) \subseteq Artifacts,
           \A p \in Requests : request[p].op = "save" => Takes(request[p].shape) \subseteq Artifacts,
           \A p \in Requests : PinsFollow(request[p], request'[p])
    PROVE  Pins'
<1>1. \A a \in Artifacts : Free(a) => Free(a)'
    BY DEF Free
<1>2. \A d \in Born' : \A a \in Uses(deliverables'[d]) : Free(a)'
    BY <1>1, KeptRows DEF Pins
<1>3. ASSUME NEW q \in Requests, At(q, "save", "persist")', NEW a \in Takes(request'[q].shape)
      PROVE  Free(a)'
    <2>1. /\ request[q].op = "save" /\ request'[q].shape = request[q].shape
          /\ request[q].step = "persist" \/ Free(a)'
        BY <1>3 DEF PinsFollow, At
    <2>2. CASE request[q].step = "persist"
        <3>1. Free(a) /\ a \in Artifacts
            BY <1>3, <2>1, <2>2 DEF Pins, At
        <3> QED
            BY <1>1, <3>1
    <2> QED
        BY <2>1, <2>2
<1>4. ASSUME NEW a \in Artifacts, Unpinning(a)', Referenced(a)' \/ Saving(a)'
      PROVE  a \in raced'
    <2>1. Unpinning(a)
        BY <1>4 DEF PinsFollow, Unpinning
    <2>2. Referenced(a)' => Referenced(a)
        BY KeptRows DEF Referenced
    <2>3. Saving(a)' => Saving(a)
        BY DEF Saving, PinsFollow
    <2> QED
        BY <1>4, <2>1, <2>2, <2>3 DEF Pins
<1> QED
    BY <1>2, <1>3, <1>4 DEF Pins

(* Who packs was packing the same, and a save that packed goes on or is torn.   *)
PacksFollow(e, f) ==
    /\ Builds(f) => /\ Builds(e) /\ f.target = e.target /\ Holds(f) = Holds(e)
                    /\ f.step = "record" =>
                          \/ e.step = "record"
                          \/ [of |-> f.target, items |-> Holds(f)] \in objects'
    /\ e.op = "save" /\ Builds(e) => \/ f.op = "save" /\ Builds(f) /\ f.target = e.target
                                     \/ e.target \in torn'

LEMMA PackedIs ==
    ASSUME NEW q \in Requests
    PROVE  Packed(q) = [of |-> request[q].target, items |-> Holds(request[q])]
BY DEF Packed, Holds

LEMMA PacksKept ==
    ASSUME Packs, RowsKept, ArchivesKept, objects \subseteq objects', torn \subseteq torn',
           \A p \in Requests : PacksFollow(request[p], request'[p])
    PROVE  Packs'
<1>0. Born' = Born /\ \A d \in Born : /\ deliverables'[d].archive = deliverables[d].archive
                                      /\ deliverables'[d].source = deliverables[d].source
                                      /\ deliverables'[d].items = deliverables[d].items
    BY KeptRows DEF RowsKept, ArchivesKept, SameRow, Born
<1>1. \A d \in Born' : deliverables'[d].archive # None => deliverables'[d].archive \in objects'
    BY <1>0 DEF Packs
<1>2. ASSUME NEW q \in Requests, Builds(request'[q]), request'[q].step = "record"
      PROVE  Packed(q)' \in objects'
    <2>1. Packed(q)' = [of |-> request'[q].target, items |-> Holds(request'[q])]
        BY DEF Packed, Holds
    <2>2. /\ Builds(request[q]) /\ request'[q].target = request[q].target
          /\ Holds(request'[q]) = Holds(request[q])
          /\ request[q].step = "record" \/ Packed(q)' \in objects'
        BY <1>2, <2>1 DEF PacksFollow
    <2>3. CASE request[q].step = "record"
        <3>1. Packed(q) \in objects
            BY <2>2, <2>3 DEF Packs
        <3> QED
            BY <2>1, <2>2, <3>1, PackedIs
    <2> QED
        BY <2>2, <2>3
<1>3. ASSUME NEW d \in Born' \ torn', deliverables'[d].source = "bundle"
      PROVE  /\ \A q \in Requests : Builds(request'[q]) /\ request'[q].target = d
                                       => Holds(request'[q]) = deliverables'[d].items
             /\ deliverables'[d].archive = Current(d)' \/ SaveBuilds(d)'
    <2>1. d \in Born \ torn /\ deliverables[d].source = "bundle"
        BY <1>0, <1>3
    <2>2. ASSUME NEW q \in Requests, Builds(request'[q]), request'[q].target = d
          PROVE  Holds(request'[q]) = deliverables'[d].items
        <3>1. Builds(request[q]) /\ request[q].target = d /\ Holds(request'[q]) = Holds(request[q])
            BY <2>2 DEF PacksFollow
        <3> QED
            BY <1>0, <2>1, <3>1 DEF Packs
    <2>3. ASSUME deliverables[d].archive = Current(d)
          PROVE  deliverables'[d].archive = Current(d)'
        BY <1>0, <2>1, <2>3 DEF Current
    <2>4. ASSUME NEW q \in Requests, request[q].op = "save", Builds(request[q]),
                 request[q].target = d
          PROVE  SaveBuilds(d)'
        <3>1. request'[q].op = "save" /\ Builds(request'[q]) /\ request'[q].target = d
            BY <1>3, <2>4 DEF PacksFollow
        <3> QED
            BY <3>1 DEF SaveBuilds
    <2>5. deliverables[d].archive = Current(d) \/ SaveBuilds(d)
        BY <2>1 DEF Packs
    <2>6. SaveBuilds(d) => SaveBuilds(d)'
        BY <2>4 DEF SaveBuilds
    <2>7. deliverables'[d].archive = Current(d)' \/ SaveBuilds(d)'
        BY <2>3, <2>5, <2>6
    <2> QED
        BY <2>2, <2>7
<1> QED
    BY <1>1, <1>2, <1>3 DEF Packs

(* A download goes on with what it read, and answers with it.                   *)
OffersFollow(e, f) ==
    f.op = "download" => /\ e.op = "download" /\ f.target = e.target /\ f.content = e.content
                         /\ f.public = e.public /\ f.settled = e.settled
AnsweredBy(s, e) ==
    /\ e.op = "download" /\ e.public
    /\ s = [deliverable |-> e.target, content |-> e.content, settled |-> e.settled]

LEMMA OffersKept ==
    ASSUME Offers, RowsKept, \A d \in Ids : published[d] \subseteq published'[d],
           \A p \in Requests : OffersFollow(request[p], request'[p]),
           \A p \in Requests : request[p].op = "download" => request[p].target \in Ids,
           \A s \in served : s.deliverable \in Ids,
           \A s \in served' : s \in served \/ \E p \in Requests : AnsweredBy(s, request[p])
    PROVE  Offers'
<1>1. \A d \in Born' : deliverables'[d].visibility = "public_material"
          => Offer(deliverables'[d]) \subseteq published'[d]
    <2> SUFFICES ASSUME NEW d \in Born', deliverables'[d].visibility = "public_material"
                 PROVE  Offer(deliverables'[d]) \subseteq published'[d]
        OBVIOUS
    <2>1. d \in Born /\ d \in Ids /\ Offer(deliverables'[d]) = Offer(deliverables[d])
        BY KeptRows DEF Born
    <2>2. deliverables[d].visibility = "public_material"
        BY <2>1 DEF RowsKept, SameRow, Born
    <2> QED
        BY <2>1, <2>2 DEF Offers
<1>2. \A q \in Requests : request'[q].op = "download" /\ request'[q].public /\ request'[q].settled
          => request'[q].content \in published'[request'[q].target]
    BY DEF Offers, OffersFollow
<1>3. ASSUME NEW s \in served', s.settled PROVE s.content \in published'[s.deliverable]
    <2>1. CASE s \in served
        BY <1>3, <2>1 DEF Offers, PublicGetsPublished
    <2>2. ASSUME NEW p \in Requests, AnsweredBy(s, request[p])
          PROVE  s.content \in published'[s.deliverable]
        BY <1>3, <2>2 DEF Offers, AnsweredBy
    <2> QED
        BY <2>1, <2>2
<1> QED
    BY <1>1, <1>2, <1>3 DEF Offers, PublicGetsPublished

-------------------------------------------------------------------------------
LEMMA Taken ==
    ASSUME Types
    PROVE  /\ \A d \in Born : Uses(deliverables[d]) \subseteq Artifacts
           /\ \A p \in Requests : request[p].op = "save"
                 => request[p] \in Save /\ Takes(request[p].shape) \subseteq Artifacts
           /\ \A p \in Requests : request[p].op = "download"
                 => request[p] \in Download /\ request[p].target \in Born
           /\ \A p \in Requests : request[p].op = "pin" => request[p] \in Pin
           /\ \A s \in served : s.deliverable \in Ids
<1>1. ASSUME NEW d \in Born PROVE Uses(deliverables[d]) \subseteq Artifacts
    <2>1. /\ deliverables[d].artifact \in Artifacts \cup {None}
          /\ deliverables[d].items \in Seq(Artifacts)
        BY DEF Types, Born, Row
    <2>2. ToSet(deliverables[d].items) \subseteq Artifacts
        BY <2>1 DEF ToSet
    <2> QED
        BY <2>1, <2>2 DEF Uses
<1>2. ASSUME NEW p \in Requests
      PROVE  /\ request[p].op = "save"
                   => request[p] \in Save /\ Takes(request[p].shape) \subseteq Artifacts
             /\ request[p].op = "download"
                   => request[p] \in Download /\ request[p].target \in Born
             /\ request[p].op = "pin" => request[p] \in Pin
    <2>1. request[p] \in Locals /\ LocalsKnow(request[p], Born)
        BY DEF Types
    <2>2. ASSUME request[p].op = "save" PROVE Takes(request[p].shape) \subseteq Artifacts
        <3>1. request[p] \in Save
            BY <2>1, <2>2, KindsOfLocals
        <3>2. request[p].shape.items \in Seq(Artifacts) /\ WellTaken(request[p].shape)
            BY <2>1, <2>2, <3>1 DEF Save, Shape, LocalsKnow
        <3>3. ToSet(request[p].shape.items) \subseteq Artifacts
            BY <3>2 DEF ToSet
        <3> QED
            BY <3>2, <3>3 DEF Takes, WellTaken
    <2>3. request[p].op = "download" => request[p] \in Download
        BY <2>1, KindsOfLocals
    <2>4. ASSUME request[p].op = "download" PROVE request[p].target \in Born
        BY <2>1, <2>3, <2>4 DEF Download, LocalsKnow
    <2> QED
        BY <2>1, <2>2, <2>3, <2>4, KindsOfLocals
<1> QED
    BY <1>1, <1>2 DEF Types

Follows(e, f) == f = e \/ (PinsFollow(e, f) /\ PacksFollow(e, f) /\ OffersFollow(e, f))

LEMMA AllKept ==
    ASSUME IInv, Types', RowsKept, ArchivesKept,
           \A a \in Artifacts : artifacts[a].pinned => artifacts'[a].pinned,
           raced \subseteq raced', objects \subseteq objects', torn \subseteq torn',
           \A d \in Ids : published[d] \subseteq published'[d],
           \A p \in Requests : Follows(request[p], request'[p]),
           \A s \in served' : s \in served \/ \E p \in Requests : AnsweredBy(s, request[p])
    PROVE  IInv'
<1>1. \A p \in Requests : /\ PinsFollow(request[p], request'[p])
                          /\ PacksFollow(request[p], request'[p])
                          /\ OffersFollow(request[p], request'[p])
    BY DEF Follows, PinsFollow, PacksFollow, OffersFollow
<1>2. Pins'
    BY <1>1, Taken, PinsKept DEF IInv
<1>3. Packs'
    BY <1>1, PacksKept DEF IInv
<1>4. Offers'
    <2>1. \A p \in Requests : request[p].op = "download" => request[p].target \in Ids
        BY Taken DEF IInv, Born
    <2> QED
        BY <1>1, <2>1, Taken, OffersKept DEF IInv
<1> QED
    BY <1>2, <1>3, <1>4 DEF IInv

LEMMA IdleFollows ==
    ASSUME NEW e, e.op = "save" /\ Builds(e) => e.target \in torn'
    PROVE  Follows(e, Idle)
<1>1. Idle.op = "none"
    BY DEF Idle
<1> QED
    BY <1>1 DEF Follows, PinsFollow, PacksFollow, OffersFollow, Builds

LEMMA IdleIsLocal ==
    Idle \in Locals /\ Idle.op = "none" /\ \A born : LocalsKnow(Idle, born)
BY DEF Locals, Idle, LocalsKnow

(* The steps of a save.                                                         *)
LEMMA BindIInv ==
    ASSUME IInv, NEW q \in Requests, Bind(q) PROVE IInv'
<1> DEFINE e == request[q]
<1>1. /\ UNCHANGED <<deliverables, artifacts, objects, entries, served, published,
                     torn, raced, started, faults>>
      /\ e.op = "save" /\ e.step = "bind"
    BY DEF Bind, At
<1>2. e \in Save /\ request \in [Requests -> Locals] /\ LocalsKnow(e, Born)
    BY <1>1, Taken DEF IInv, Types
<1>3. e.shape.source \in Sources
    BY <1>2 DEF Save, Shape
<1> DEFINE g(step) == [e EXCEPT !.step = step]
<1>4. \/ Turns(q, Idle)
      \/ e.shape.source = "artifact" /\ Turns(q, g("pin"))
      \/ (\A a \in Takes(e.shape) : Free(a)) /\ Turns(q, g("persist"))
    <2>1. CASE e.shape.source = "external_link"
        <3>1. Goes(q, "persist")
            BY <2>1 DEF Bind
        <3>2. Takes(e.shape) = {}
            BY <2>1 DEF Takes
        <3> QED
            BY <3>1, <3>2 DEF Goes, Turns
    <2>2. CASE e.shape.source = "artifact"
        <3>1. Goes(q, IF artifacts[e.shape.artifact].pinned THEN "persist" ELSE "pin")
            BY <2>2 DEF Bind
        <3>2. Takes(e.shape) = {e.shape.artifact}
            BY <2>2 DEF Takes
        <3>3. CASE artifacts[e.shape.artifact].pinned
            BY <3>1, <3>2, <3>3 DEF Goes, Turns, Free
        <3>4. CASE ~artifacts[e.shape.artifact].pinned
            BY <2>2, <3>1, <3>4 DEF Goes, Turns
        <3> QED
            BY <3>3, <3>4
    <2>3. CASE e.shape.source = "bundle"
        <3>1. IF Packable(e.shape.items) THEN Goes(q, "persist") ELSE Ends(q)
            BY <2>3 DEF Bind
        <3>2. Takes(e.shape) = ToSet(e.shape.items)
            BY <2>3 DEF Takes
        <3>3. CASE Packable(e.shape.items)
            BY <3>1, <3>2, <3>3 DEF Goes, Turns, Free, Packable
        <3>4. CASE ~Packable(e.shape.items)
            BY <3>1, <3>4 DEF Ends, Turns
        <3> QED
            BY <3>3, <3>4
    <2> QED
        BY <1>3, <2>1, <2>2, <2>3 DEF Sources
<1>5. PICK f : /\ Turns(q, f) /\ f \in Locals /\ LocalsKnow(f, Born)
               /\ f.op = "save" => /\ f.shape = e.shape /\ f.step \in {"pin", "persist"}
                                   /\ f.step = "persist" => \A a \in Takes(f.shape) : Free(a)
               /\ f.op \in {"none", "save"}
    <2>1. CASE Turns(q, Idle)
        BY <2>1, IdleIsLocal
    <2>2. ASSUME NEW step \in {"pin", "persist"}, Turns(q, g(step)),
                 step = "pin" => e.shape.source = "artifact",
                 step = "persist" => \A a \in Takes(e.shape) : Free(a)
          PROVE  \E f : /\ Turns(q, f) /\ f \in Locals /\ LocalsKnow(f, Born)
                        /\ f.op = "save" => /\ f.shape = e.shape /\ f.step \in {"pin", "persist"}
                                            /\ f.step = "persist" => \A a \in Takes(f.shape) : Free(a)
                        /\ f.op \in {"none", "save"}
        <3> DEFINE f == g(step)
        <3>0. f = [e EXCEPT !.step = step]
              /\ step \in {"bind", "pin", "persist", "write", "record"}
            OBVIOUS
        <3> HIDE DEF f
        <3>1. f \in Save /\ f.op = "save" /\ f.step = step /\ f.target = e.target
              /\ f.shape = e.shape
            BY <1>2, <3>0 DEF Save
        <3>2. LocalsKnow(f, Born)
            BY <1>1, <1>2, <2>2, <3>1 DEF LocalsKnow
        <3>3. Turns(q, f)
            BY <2>2 DEF f
        <3> QED
            BY <2>2, <3>1, <3>2, <3>3 DEF Locals
    <2> QED
        BY <1>4, <2>1, <2>2
<1>6. /\ request' \in [Requests -> Locals] /\ request'[q] = f
      /\ \A p \in Requests : LocalsKnow(request'[p], Born')
      /\ \A p \in Requests : p # q => request'[p] = request[p]
    BY <1>1, <1>5, RowsUnchanged, RequestTypes DEF IInv
<1>7. Types'
    BY <1>1, <1>6, RowsUnchanged DEF IInv, Types
<1>8. Follows(e, f)
    BY <1>1, <1>5 DEF Follows, PinsFollow, PacksFollow, OffersFollow, Builds, Free
<1>9. \A p \in Requests : Follows(request[p], request'[p])
    BY <1>6, <1>8 DEF Follows
<1> QED
    BY <1>1, <1>7, <1>9, RowsUnchanged, AllKept

LEMMA PinLinkedIInv ==
    ASSUME IInv, NEW q \in Requests, PinLinked(q) PROVE IInv'
<1> DEFINE e == request[q]
           f == [e EXCEPT !.step = "persist"]
           a == e.shape.artifact
<1>1. /\ UNCHANGED <<deliverables, objects, entries, served, published, torn, raced,
                     started, faults>>
      /\ e.op = "save" /\ e.step = "pin" /\ Turns(q, f)
      /\ artifacts' = [artifacts EXCEPT ![a].pinned = TRUE]
    BY DEF PinLinked, At, Goes, Turns
<1>2. e \in Save /\ request \in [Requests -> Locals] /\ LocalsKnow(e, Born)
      /\ artifacts \in [Artifacts -> [pinned: BOOLEAN, downloads: Nat]]
    BY <1>1, Taken DEF IInv, Types
<1>3. e.shape.source = "artifact" /\ a \in Artifacts /\ Takes(e.shape) = {a}
    BY <1>1, <1>2 DEF LocalsKnow, WellTaken, Takes
<1>4. f \in Save /\ f.op = "save" /\ f.step = "persist" /\ f.target = e.target
      /\ f.shape = e.shape
    BY <1>2 DEF Save
<1> HIDE DEF f
<1>5. f \in Locals /\ LocalsKnow(f, Born)
    BY <1>1, <1>2, <1>4 DEF Locals, LocalsKnow
<1>6. /\ request' \in [Requests -> Locals] /\ request'[q] = f
      /\ \A p \in Requests : LocalsKnow(request'[p], Born')
      /\ \A p \in Requests : p # q => request'[p] = request[p]
    BY <1>1, <1>5, RowsUnchanged, RequestTypes DEF IInv
<1>7. /\ artifacts' \in [Artifacts -> [pinned: BOOLEAN, downloads: Nat]]
      /\ artifacts'[a].pinned = TRUE
      /\ \A b \in Artifacts : artifacts[b].pinned => artifacts'[b].pinned
    BY <1>1, <1>2, <1>3
<1>8. Types'
    BY <1>1, <1>6, <1>7, RowsUnchanged DEF IInv, Types
<1>9. Follows(e, f)
    BY <1>1, <1>3, <1>4, <1>7 DEF Follows, PinsFollow, PacksFollow, OffersFollow, Builds, Free
<1>10. \A p \in Requests : Follows(request[p], request'[p])
    BY <1>6, <1>9 DEF Follows
<1> QED
    BY <1>1, <1>7, <1>8, <1>10, RowsUnchanged, AllKept

(* An archive is stored by whoever packs it.                                    *)
LEMMA PackedIsArchive ==
    ASSUME Types, NEW q \in Requests, Builds(request[q])
    PROVE  Packed(q) \in Archive /\ request[q].target \in Born
<1>1. LocalsKnow(request[q], Born)
    BY DEF Types
<1>2. ASSUME request[q].op = "save"
      PROVE  request[q].shape.items \in Seq(Artifacts) /\ request[q].target \in Born
    <2>1. request[q] \in Save
        BY <1>2, Taken
    <2> QED
        BY <1>1, <1>2, <2>1 DEF Save, Shape, LocalsKnow, Builds
<1>3. ASSUME request[q].op = "download"
      PROVE  request[q].content \in Seq(Artifacts) /\ request[q].target \in Born
    BY <1>1, <1>3, Taken DEF LocalsKnow, Builds
<1> QED
    BY <1>2, <1>3 DEF Packed, Archive, Builds, Born

LEMMA WriteArchiveIInv ==
    ASSUME IInv, NEW q \in Requests, WriteArchive(q) PROVE IInv'
<1> DEFINE e == request[q]
           f == [e EXCEPT !.step = "record"]
<1>1. /\ UNCHANGED <<deliverables, artifacts, entries, served, published, torn, raced,
                     started, faults>>
      /\ e.op \in {"save", "download"} /\ e.step = "write" /\ Turns(q, f)
      /\ objects' = objects \cup {Packed(q)}
    BY DEF WriteArchive, At, Goes, Turns
<1>2. e \in Save \cup Download /\ request \in [Requests -> Locals] /\ LocalsKnow(e, Born)
    BY <1>1, Taken DEF IInv, Types
<1>3. Builds(e) /\ Packed(q) \in Archive
    BY <1>1, PackedIsArchive DEF Builds, IInv
<1>4. /\ f \in Save \cup Download /\ f.op = e.op /\ f.step = "record" /\ f.target = e.target
      /\ f.op = "save" => f.shape = e.shape
      /\ f.op = "download" => /\ f.content = e.content /\ f.public = e.public
                              /\ f.settled = e.settled
    <2>1. CASE e \in Save
        BY <2>1 DEF Save
    <2>2. CASE e \in Download
        BY <2>2 DEF Download
    <2> QED
        BY <1>2, <2>1, <2>2
<1> HIDE DEF f
<1>5. f \in Locals /\ LocalsKnow(f, Born)
    BY <1>1, <1>2, <1>4 DEF Locals, LocalsKnow
<1>6. /\ request' \in [Requests -> Locals] /\ request'[q] = f
      /\ \A p \in Requests : LocalsKnow(request'[p], Born')
      /\ \A p \in Requests : p # q => request'[p] = request[p]
    BY <1>1, <1>5, RowsUnchanged, RequestTypes DEF IInv
<1>7. Types'
    <2>1. objects' \subseteq Archive
        BY <1>1, <1>3 DEF IInv, Types
    <2> QED
        BY <1>1, <1>6, <2>1, RowsUnchanged DEF IInv, Types
<1>8. Follows(e, f)
    <2>1. Builds(f) /\ Holds(f) = Holds(e)
        BY <1>1, <1>4 DEF Builds, Holds
    <2>2. [of |-> f.target, items |-> Holds(f)] \in objects'
        BY <1>1, <1>4, <2>1, PackedIs
    <2>3. PinsFollow(e, f)
        BY <1>1, <1>4 DEF PinsFollow
    <2>4. PacksFollow(e, f)
        BY <1>3, <1>4, <2>1, <2>2 DEF PacksFollow
    <2>5. OffersFollow(e, f)
        BY <1>4 DEF OffersFollow
    <2> QED
        BY <2>3, <2>4, <2>5 DEF Follows
<1>9. \A p \in Requests : Follows(request[p], request'[p])
    BY <1>6, <1>8 DEF Follows
<1> QED
    BY <1>1, <1>7, <1>9, RowsUnchanged, AllKept

LEMMA RecordArchiveIInv ==
    ASSUME IInv, NEW q \in Requests, RecordArchive(q) PROVE IInv' /\ CountsKept
<1> DEFINE e == request[q]
           d == e.target
           f == IF e.op = "save" THEN Idle ELSE [e EXCEPT !.step = "count"]
<1>1. /\ UNCHANGED <<artifacts, objects, entries, served, published, torn, raced,
                     started, faults>>
      /\ e.op \in {"save", "download"} /\ e.step = "record" /\ Turns(q, f)
      /\ deliverables' = [deliverables EXCEPT ![d].archive = Packed(q)]
    BY DEF RecordArchive, At, Goes, Ends, Turns
<1>2. /\ e \in Save \cup Download /\ request \in [Requests -> Locals] /\ LocalsKnow(e, Born)
      /\ deliverables \in [Ids -> {None} \cup Row]
    BY <1>1, Taken DEF IInv, Types
<1>3. Builds(e) /\ Packed(q) \in Archive /\ d \in Born /\ Packed(q) \in objects
    BY <1>1, PackedIsArchive DEF Builds, IInv, Packs
<1>4. f \in Locals /\ LocalsKnow(f, Born) /\ f.op \in {"none", "download"} /\ ~Builds(f)
      /\ (f.op = "download" => /\ e.op = "download" /\ f.target = e.target
                               /\ f.content = e.content /\ f.public = e.public
                               /\ f.settled = e.settled)
    <2>1. CASE e.op = "save"
        BY <2>1, IdleIsLocal DEF Builds
    <2>2. CASE e.op = "download"
        <3>1. e \in Download
            BY <1>2, <2>2 DEF Save
        <3>2. /\ f \in Download /\ f.op = "download" /\ f.step = "count" /\ f.target = e.target
              /\ f.content = e.content /\ f.public = e.public /\ f.settled = e.settled
            BY <2>2, <3>1 DEF Download
        <3> HIDE DEF f
        <3> QED
            BY <1>2, <2>2, <3>2 DEF Locals, LocalsKnow, Builds
    <2> QED
        BY <1>1, <2>1, <2>2
<1> HIDE DEF f
<1>5. /\ deliverables' \in [Ids -> {None} \cup Row] /\ RowsKept
      /\ deliverables'[d].archive = Packed(q)
      /\ deliverables'[d].downloads = deliverables[d].downloads
      /\ \A c \in Born : c # d => deliverables'[c] = deliverables[c]
    <2>1. deliverables[d] \in Row /\ d \in Ids
        BY <1>2, <1>3 DEF Born
    <2> DEFINE row == [deliverables[d] EXCEPT !.archive = Packed(q)]
    <2>2. /\ row \in Row /\ row.archive = Packed(q) /\ SameRow(deliverables[d], row)
          /\ row.downloads = deliverables[d].downloads
        BY <1>3, <2>1 DEF Row, SameRow
    <2>3. deliverables' = [deliverables EXCEPT ![d] = row]
        BY <1>1
    <2> HIDE DEF row
    <2>4. deliverables'[d] = row /\ \A c \in Ids : c # d => deliverables'[c] = deliverables[c]
        BY <1>2, <2>1, <2>3
    <2> QED
        BY <1>2, <2>1, <2>2, <2>3, <2>4 DEF RowsKept, SameRow, Born
<1>6. Born' = Born
    BY <1>5, KeptRows
<1>7. /\ request' \in [Requests -> Locals] /\ request'[q] = f
      /\ \A p \in Requests : LocalsKnow(request'[p], Born')
      /\ \A p \in Requests : p # q => request'[p] = request[p]
    BY <1>1, <1>4, <1>6, RequestTypes DEF IInv
<1>8. Types'
    <2>1. \A c \in Born' : WellTaken(deliverables'[c])
        BY <1>5, <1>6 DEF IInv, Types, RowsKept, SameRow, WellTaken, Born
    <2> QED
        BY <1>1, <1>5, <1>7, <2>1 DEF IInv, Types
<1>9. Pins'
    <2>1. \A p \in Requests : PinsFollow(request[p], request'[p])
        BY <1>4, <1>7 DEF PinsFollow
    <2> QED
        BY <1>1, <1>5, <2>1, Taken, PinsKept DEF IInv
<1>10. Offers'
    <2>1. \A p \in Requests : OffersFollow(request[p], request'[p])
        BY <1>4, <1>7 DEF OffersFollow
    <2>2. \A p \in Requests : request[p].op = "download" => request[p].target \in Ids
        BY Taken DEF IInv, Born
    <2> QED
        BY <1>1, <1>5, <2>1, <2>2, Taken, OffersKept DEF IInv
<1>11. Packs'
    <2>1. \A c \in Born' : deliverables'[c].archive # None => deliverables'[c].archive \in objects'
        BY <1>1, <1>3, <1>5, <1>6 DEF IInv, Packs
    <2>2. ASSUME NEW p \in Requests, Builds(request'[p])
          PROVE  /\ p # q /\ request'[p] = request[p] /\ Packed(p)' = Packed(p)
        BY <1>4, <1>7, <2>2 DEF Packed
    <2>3. \A p \in Requests : Builds(request'[p]) /\ request'[p].step = "record"
                                 => Packed(p)' \in objects'
        BY <1>1, <2>2 DEF IInv, Packs
    <2>4. ASSUME NEW c \in Born' \ torn', deliverables'[c].source = "bundle"
          PROVE  /\ \A p \in Requests : Builds(request'[p]) /\ request'[p].target = c
                                           => Holds(request'[p]) = deliverables'[c].items
                 /\ deliverables'[c].archive = Current(c)' \/ SaveBuilds(c)'
        <3>1. /\ c \in Born \ torn /\ deliverables[c].source = "bundle"
              /\ deliverables'[c].items = deliverables[c].items
            BY <1>1, <1>5, <1>6, <2>4 DEF RowsKept, SameRow, Born
        <3>2. \A p \in Requests : Builds(request[p]) /\ request[p].target = c
                                     => Holds(request[p]) = deliverables[c].items
            BY <3>1 DEF IInv, Packs
        <3>3. \A p \in Requests : Builds(request'[p]) /\ request'[p].target = c
                                     => Holds(request'[p]) = deliverables'[c].items
            BY <2>2, <3>1, <3>2
        <3>4. ASSUME c = d PROVE deliverables'[c].archive = Current(c)'
            <4>1. Holds(e) = deliverables[c].items
                BY <1>3, <3>2, <3>4
            <4>2. Packed(q) = [of |-> c, items |-> deliverables'[c].items]
                BY <3>1, <3>4, <4>1, PackedIs
            <4> QED
                BY <1>5, <3>4, <4>2 DEF Current
        <3>5. ASSUME c # d PROVE deliverables'[c].archive = Current(c)' \/ SaveBuilds(c)'
            <4>1. deliverables[c].archive = Current(c) \/ SaveBuilds(c)
                BY <3>1 DEF IInv, Packs
            <4>2. deliverables'[c] = deliverables[c] /\ Current(c)' = Current(c)
                BY <1>5, <3>1, <3>5 DEF Current
            <4>3. SaveBuilds(c) => SaveBuilds(c)'
                BY <1>7, <3>5 DEF SaveBuilds
            <4> QED
                BY <4>1, <4>2, <4>3
        <3> QED
            BY <3>3, <3>4, <3>5
    <2> QED
        BY <2>1, <2>3, <2>4 DEF Packs
<1>12. CountsKept
    BY <1>5, <1>6 DEF CountsKept
<1> QED
    BY <1>8, <1>9, <1>10, <1>11, <1>12 DEF IInv

(* The steps of a download.                                                     *)
LEMMA AnsweredGoes ==
    ASSUME Types, NEW q \in Requests, At(q, "download", "count"),
           NEW due \in SUBSET {"deliverable", "entry"}, NEW failed \in BOOLEAN,
           Answered(q, due, failed)
    PROVE  \E f : /\ Turns(q, f) /\ f \in Locals /\ LocalsKnow(f, Born)
                  /\ Follows(request[q], f)
<1> DEFINE e == request[q]
           f == [e EXCEPT !.due = due, !.failed = failed]
<1>1. e \in Download /\ LocalsKnow(e, Born) /\ e.op = "download" /\ e.step = "count"
      /\ request \in [Requests -> Locals]
    BY Taken DEF At, Types
<1>2. CASE due # {}
    <2>1. Turns(q, f)
        BY <1>1, <1>2 DEF Answered, Turns
    <2>2. /\ f \in Download /\ f.op = "download" /\ f.step = "count" /\ f.target = e.target
          /\ f.content = e.content /\ f.public = e.public /\ f.settled = e.settled
        BY <1>1 DEF Download
    <2> HIDE DEF f
    <2>3. f \in Locals /\ LocalsKnow(f, Born)
        BY <1>1, <2>2 DEF Locals, LocalsKnow
    <2>4. Follows(e, f)
        BY <1>1, <2>2 DEF Follows, PinsFollow, PacksFollow, OffersFollow, Builds
    <2> QED
        BY <2>1, <2>3, <2>4
<1>3. CASE due = {}
    <2>1. Turns(q, Idle)
        BY <1>3 DEF Answered, Ends, Turns
    <2>2. Follows(e, Idle)
        BY <1>1, IdleFollows
    <2> QED
        BY <2>1, <2>2, IdleIsLocal
<1> QED
    BY <1>2, <1>3

LEMMA AnswersKnow ==
    ASSUME Types, NEW q \in Requests, At(q, "download", "count"), NEW due, Answers(q, due)
    PROVE  /\ \A s \in served' : s \in served \/ AnsweredBy(s, request[q])
           /\ \A s \in served' : s.deliverable \in Ids /\ s.content \in Content
<1> DEFINE e == request[q]
           s == [deliverable |-> e.target, content |-> e.content, settled |-> e.settled]
<1>1. e \in Download /\ e.op = "download"
    BY Taken DEF At
<1>2. e.target \in Ids /\ e.content \in Content
    BY <1>1 DEF Download
<1>3. served' = served \/ (e.public /\ served' = served \cup {s})
    BY DEF Answers
<1>4. s.deliverable \in Ids /\ s.content \in Content /\ (e.public => AnsweredBy(s, e))
    BY <1>1, <1>2 DEF AnsweredBy
<1> HIDE DEF s
<1> QED
    BY <1>3, <1>4 DEF Types

LEMMA CountDeliverableIInv ==
    ASSUME IInv, NEW q \in Requests, CountDeliverable(q) PROVE IInv' /\ Born' = Born
<1> DEFINE e == request[q]
           d == e.target
<1>1. /\ UNCHANGED <<artifacts, objects, entries, published, torn, raced, started, faults>>
      /\ At(q, "download", "count")
      /\ Answered(q, e.due \ {"deliverable"}, e.failed)
      /\ Answers(q, e.due \ {"deliverable"})
      /\ deliverables' = [deliverables EXCEPT ![d].downloads = @ + 1]
    BY DEF CountDeliverable
<1>2. /\ e \in Download /\ d \in Born /\ e.due \in SUBSET {"deliverable", "entry"}
      /\ e.failed \in BOOLEAN /\ deliverables \in [Ids -> {None} \cup Row] /\ Types
    <2>1. e \in Download /\ d \in Born
        BY <1>1, Taken DEF At, IInv
    <2> QED
        BY <2>1 DEF Download, IInv, Types
<1>3. PICK f : Turns(q, f) /\ f \in Locals /\ LocalsKnow(f, Born) /\ Follows(e, f)
    <2>1. e.due \ {"deliverable"} \in SUBSET {"deliverable", "entry"}
        BY <1>2
    <2> QED
        BY <1>1, <1>2, <2>1, AnsweredGoes
<1>4. /\ deliverables' \in [Ids -> {None} \cup Row] /\ RowsKept /\ ArchivesKept
    <2>1. deliverables[d] \in Row /\ d \in Ids
        BY <1>2 DEF Born
    <2> DEFINE row == [deliverables[d] EXCEPT !.downloads = @ + 1]
    <2>2. deliverables[d].downloads + 1 \in Nat
        BY <2>1 DEF Row
    <2>3. /\ row \in Row /\ SameRow(deliverables[d], row)
          /\ row.archive = deliverables[d].archive
        BY <2>1, <2>2 DEF Row, SameRow
    <2>4. deliverables' = [deliverables EXCEPT ![d] = row]
        BY <1>1
    <2> HIDE DEF row
    <2>5. deliverables'[d] = row /\ \A c \in Ids : c # d => deliverables'[c] = deliverables[c]
        BY <1>2, <2>1, <2>4
    <2> QED
        BY <1>2, <2>1, <2>3, <2>4, <2>5 DEF RowsKept, ArchivesKept, SameRow, Born
<1>5. Born' = Born
    BY <1>4, KeptRows
<1>6. /\ request' \in [Requests -> Locals] /\ request'[q] = f
      /\ \A p \in Requests : LocalsKnow(request'[p], Born')
      /\ \A p \in Requests : p # q => request'[p] = request[p]
    BY <1>2, <1>3, <1>5, RequestTypes
<1>7. /\ \A s \in served' : s \in served \/ AnsweredBy(s, e)
      /\ \A s \in served' : s.deliverable \in Ids /\ s.content \in Content
    BY <1>1, <1>2, AnswersKnow
<1>8. Types'
    <2>1. \A c \in Born' : WellTaken(deliverables'[c])
        BY <1>2, <1>4, <1>5 DEF Types, RowsKept, SameRow, WellTaken, Born
    <2> QED
        BY <1>1, <1>2, <1>4, <1>6, <1>7, <2>1 DEF Types
<1>9. \A p \in Requests : Follows(request[p], request'[p])
    BY <1>3, <1>6 DEF Follows
<1> QED
    BY <1>1, <1>4, <1>5, <1>7, <1>8, <1>9, AllKept

LEMMA BookEntryIInv ==
    ASSUME IInv, NEW q \in Requests, BookEntry(q) PROVE IInv'
<1> DEFINE e == request[q]
           a == e.content
           note == IF a \in Artifacts THEN <<"via", a>> ELSE <<"bundle", e.target>>
<1>1. /\ UNCHANGED <<deliverables, objects, published, torn, raced, started, faults>>
      /\ At(q, "download", "count")
      /\ Answered(q, e.due \ {"entry"}, e.failed)
      /\ Answers(q, e.due \ {"entry"})
      /\ entries' = [entries EXCEPT ![note] = @ + 1]
      /\ artifacts' = IF a \in Artifacts
                      THEN [artifacts EXCEPT ![a].downloads = @ + 1] ELSE artifacts
    BY DEF BookEntry
<1>2. /\ e \in Download /\ e.due \in SUBSET {"deliverable", "entry"}
      /\ e.failed \in BOOLEAN /\ Types
    <2>1. e \in Download
        BY <1>1, Taken DEF At, IInv
    <2> QED
        BY <2>1 DEF Download, IInv
<1>3. PICK f : Turns(q, f) /\ f \in Locals /\ LocalsKnow(f, Born) /\ Follows(e, f)
    <2>1. e.due \ {"entry"} \in SUBSET {"deliverable", "entry"}
        BY <1>2
    <2> QED
        BY <1>1, <1>2, <2>1, AnsweredGoes
<1>4. /\ request' \in [Requests -> Locals] /\ request'[q] = f
      /\ \A p \in Requests : LocalsKnow(request'[p], Born')
      /\ \A p \in Requests : p # q => request'[p] = request[p]
    BY <1>1, <1>2, <1>3, RowsUnchanged, RequestTypes
<1>5. /\ \A s \in served' : s \in served \/ AnsweredBy(s, e)
      /\ \A s \in served' : s.deliverable \in Ids /\ s.content \in Content
    BY <1>1, <1>2, AnswersKnow
<1>6. /\ artifacts' \in [Artifacts -> [pinned: BOOLEAN, downloads: Nat]]
      /\ \A b \in Artifacts : artifacts'[b].pinned = artifacts[b].pinned
    BY <1>1, <1>2 DEF Types
<1>7. \A n \in DOMAIN entries' : entries'[n] \in Nat
    <2> HIDE DEF note
    <2> QED
        BY <1>1, <1>2 DEF Types
<1>8. Types'
    BY <1>1, <1>2, <1>4, <1>5, <1>6, <1>7, RowsUnchanged DEF Types
<1>9. \A p \in Requests : Follows(request[p], request'[p])
    BY <1>3, <1>4 DEF Follows
<1> QED
    BY <1>1, <1>5, <1>6, <1>8, <1>9, RowsUnchanged, AllKept

LEMMA FetchArtifactIInv ==
    ASSUME IInv, NEW a \in Artifacts, FetchArtifact(a) PROVE IInv'
<1>1. /\ UNCHANGED <<deliverables, objects, request, served, published, torn, raced, faults>>
      /\ artifacts' = [artifacts EXCEPT ![a].downloads = @ + 1]
      /\ entries' = [entries EXCEPT ![<<"download", a>>] = @ + 1]
      /\ started < MaxRequests /\ started' = started + 1
    BY DEF FetchArtifact
<1>2. /\ artifacts' \in [Artifacts -> [pinned: BOOLEAN, downloads: Nat]]
      /\ \A b \in Artifacts : artifacts'[b].pinned = artifacts[b].pinned
    BY <1>1 DEF IInv, Types
<1>3. \A n \in DOMAIN entries' : entries'[n] \in Nat
    <2> DEFINE note == <<"download", a>>
    <2>1. entries' = [entries EXCEPT ![note] = @ + 1]
        BY <1>1
    <2> HIDE DEF note
    <2> QED
        BY <2>1 DEF IInv, Types
<1>4. started' \in 0..MaxRequests
    BY <1>1 DEF IInv, Types
<1>5. Types'
    BY <1>1, <1>2, <1>3, <1>4, RowsUnchanged, SMTT(30) DEF IInv, Types
<1>6. \A p \in Requests : Follows(request[p], request'[p])
    BY <1>1 DEF Follows
<1> QED
    BY <1>1, <1>2, <1>5, <1>6, RowsUnchanged, AllKept

LEMMA BeginDownloadIInv ==
    ASSUME IInv, NEW q \in Requests, NEW d \in Ids, NEW public \in BOOLEAN,
           BeginDownload(q, d, public)
    PROVE  IInv'
<1> DEFINE row == deliverables[d]
           packs == row.source = "bundle" /\ row.archive = None
           step == IF packs THEN "write" ELSE "count"
           content == CASE row.source = "artifact" -> row.artifact
                        [] row.source = "bundle" /\ row.archive = None -> row.items
                        [] OTHER -> row.archive.items
           settled == d \notin torn /\ ~Building(d)
           f == [op |-> "download", target |-> d, public |-> public, step |-> step,
                 content |-> content, settled |-> settled,
                 due |-> {"deliverable", "entry"}, failed |-> FALSE]
<1>1. /\ UNCHANGED <<deliverables, artifacts, objects, entries, served, published,
                     torn, raced, faults>>
      /\ row # None /\ Visible(row, public) /\ row.source # "external_link"
    BY DEF BeginDownload
<1>2. request[q] = Idle /\ started < MaxRequests /\ started' = started + 1 /\ Turns(q, f)
    BY DEF BeginDownload, Begin, Turns
<1>3. row \in Row /\ d \in Born /\ WellTaken(row)
    BY <1>1 DEF IInv, Types, Born
<1>4. /\ row.source \in {"artifact", "bundle"}
      /\ row.items \in Seq(Artifacts)
      /\ row.archive # None => row.archive \in Archive
    BY <1>1, <1>3 DEF Row, Sources
<1>5. /\ packs => content = row.items
      /\ row.source = "artifact" => content = row.artifact /\ ~packs
      /\ row.source = "bundle" /\ ~packs => content = row.archive.items /\ row.archive # None
    BY <1>4
<1>6. content \in Content
    <2>1. row.source = "artifact" => row.artifact \in Artifacts
        BY <1>3 DEF WellTaken
    <2>2. row.archive # None => row.archive.items \in Seq(Artifacts)
        BY <1>4 DEF Archive
    <2> HIDE DEF content
    <2> QED
        BY <1>4, <1>5, <2>1, <2>2 DEF Content
<1>7. packs => content \in Seq(Artifacts)
    BY <1>4, <1>5
<1>8. step \in {"write", "count"} /\ settled \in BOOLEAN /\ (step = "write" <=> packs)
    OBVIOUS
<1>9. ASSUME public, settled PROVE content \in published[d]
    <2>1. Offer(row) \subseteq published[d]
        BY <1>1, <1>3, <1>9 DEF IInv, Offers, Visible
    <2>2. CASE row.source = "artifact"
        BY <1>5, <2>1, <2>2 DEF Offer
    <2>3. CASE row.source = "bundle"
        <3>1. ~SaveBuilds(d)
            BY <1>9 DEF SaveBuilds, Building, Builds
        <3>2. row.archive = Current(d)
            BY <1>3, <1>9, <2>3, <3>1 DEF IInv, Packs
        <3>3. content = row.items
            <4>1. row.archive # None => row.archive.items = row.items
                BY <3>2 DEF Current
            <4> QED
                BY <1>5, <2>3, <4>1
        <3>4. Offer(row) = {row.items}
            BY <2>3 DEF Offer
        <3> QED
            BY <2>1, <3>3, <3>4
    <2> QED
        BY <1>4, <2>2, <2>3
<1> HIDE DEF content, settled, step, packs
<1>10. /\ f \in Download /\ f.op = "download" /\ f.target = d /\ f.step = step
       /\ f.public = public /\ f.content = content /\ f.settled = settled
    BY <1>6, <1>8 DEF Download
<1> HIDE DEF f
<1>11. f \in Locals /\ LocalsKnow(f, Born)
    BY <1>3, <1>7, <1>8, <1>10 DEF Locals, LocalsKnow
<1>12. /\ request' \in [Requests -> Locals] /\ request'[q] = f
       /\ \A p \in Requests : LocalsKnow(request'[p], Born')
       /\ \A p \in Requests : p # q => request'[p] = request[p]
    BY <1>1, <1>2, <1>11, RowsUnchanged, RequestTypes DEF IInv
<1>13. Types'
    <2>1. started' \in 0..MaxRequests
        BY <1>2 DEF IInv, Types
    <2> QED
        BY <1>1, <1>12, <2>1, RowsUnchanged DEF IInv, Types
<1>14. Pins'
    <2>1. \A p \in Requests : PinsFollow(request[p], request'[p])
        BY <1>10, <1>12 DEF PinsFollow
    <2> QED
        BY <1>1, <2>1, RowsUnchanged, Taken, PinsKept DEF IInv
<1>15. Offers'
    <2>1. \A c \in Born' : deliverables'[c].visibility = "public_material"
             => Offer(deliverables'[c]) \subseteq published'[c]
        BY <1>1, RowsUnchanged DEF IInv, Offers
    <2>2. ASSUME NEW p \in Requests, request'[p].op = "download", request'[p].public,
                 request'[p].settled
          PROVE  request'[p].content \in published'[request'[p].target]
        <3>1. CASE p = q
            BY <1>1, <1>9, <1>10, <1>12, <2>2, <3>1
        <3>2. CASE p # q
            BY <1>1, <1>12, <2>2, <3>2 DEF IInv, Offers
        <3> QED
            BY <3>1, <3>2
    <2>3. PublicGetsPublished'
        BY <1>1 DEF IInv, Offers, PublicGetsPublished
    <2> QED
        BY <2>1, <2>2, <2>3 DEF Offers
<1>16. Packs'
    <2>1. Born' = Born /\ ~(Builds(f) /\ f.step = "record")
        BY <1>1, <1>8, <1>10, RowsUnchanged
    <2>2. \A c \in Born' : deliverables'[c].archive # None => deliverables'[c].archive \in objects'
        BY <1>1, <2>1 DEF IInv, Packs
    <2>3. ASSUME NEW p \in Requests, Builds(request'[p]), request'[p].step = "record"
          PROVE  Packed(p)' \in objects'
        <3>1. p # q /\ request'[p] = request[p]
            BY <1>12, <2>1, <2>3
        <3>2. Packed(p) \in objects
            BY <2>3, <3>1 DEF IInv, Packs
        <3>3. Packed(p)' = Packed(p)
            BY <3>1 DEF Packed
        <3> QED
            BY <1>1, <3>2, <3>3
    <2>4. ASSUME NEW c \in Born' \ torn', deliverables'[c].source = "bundle"
          PROVE  /\ \A p \in Requests : Builds(request'[p]) /\ request'[p].target = c
                                           => Holds(request'[p]) = deliverables'[c].items
                 /\ deliverables'[c].archive = Current(c)' \/ SaveBuilds(c)'
        <3>1. c \in Born \ torn /\ deliverables[c].source = "bundle"
            BY <1>1, <2>1, <2>4
        <3>2. ASSUME NEW p \in Requests, Builds(request'[p]), request'[p].target = c
              PROVE  Holds(request'[p]) = deliverables'[c].items
            <4>1. CASE p = q
                <5>1. c = d /\ packs /\ Holds(f) = content
                    BY <1>8, <1>10, <1>12, <3>2, <4>1 DEF Builds, Holds
                <5> QED
                    BY <1>1, <1>5, <1>12, <4>1, <5>1
            <4>2. CASE p # q
                BY <1>1, <1>12, <3>1, <3>2, <4>2 DEF IInv, Packs
            <4> QED
                BY <4>1, <4>2
        <3>3. deliverables[c].archive = Current(c) \/ SaveBuilds(c)
            BY <3>1 DEF IInv, Packs
        <3>4. Current(c)' = Current(c)
            BY <1>1 DEF Current
        <3>5. SaveBuilds(c) => SaveBuilds(c)'
            <4>1. request[q].op = "none"
                BY <1>2, IdleIsLocal
            <4> QED
                BY <1>12, <4>1 DEF SaveBuilds
        <3>6. deliverables'[c].archive = Current(c)' \/ SaveBuilds(c)'
            BY <1>1, <3>3, <3>4, <3>5
        <3> QED
            BY <3>2, <3>6
    <2> QED
        BY <2>2, <2>3, <2>4 DEF Packs
<1> QED
    BY <1>13, <1>14, <1>15, <1>16 DEF IInv

(* A pin is looked at, and written an await later.                              *)
LEMMA BeginPinIInv ==
    ASSUME IInv, NEW q \in Requests, NEW a \in Artifacts, NEW pinned \in BOOLEAN,
           BeginPin(q, a, pinned)
    PROVE  IInv'
<1> DEFINE f == [op |-> "pin", artifact |-> a, pinned |-> pinned]
<1>1. /\ UNCHANGED <<deliverables, artifacts, objects, entries, served, published, torn,
                     faults>>
      /\ ~pinned => ~Referenced(a)
      /\ raced' = IF ~pinned /\ Saving(a) THEN raced \cup {a} ELSE raced
      /\ request[q] = Idle /\ started < MaxRequests /\ started' = started + 1 /\ Turns(q, f)
    BY DEF BeginPin, Begin, Turns
<1>2. f \in Pin /\ f.op = "pin" /\ f.artifact = a /\ f.pinned = pinned
    BY DEF Pin
<1> HIDE DEF f
<1>3. f \in Locals /\ LocalsKnow(f, Born) /\ ~Builds(f)
    BY <1>2 DEF Locals, LocalsKnow, Builds
<1>4. /\ request' \in [Requests -> Locals] /\ request'[q] = f
      /\ \A p \in Requests : LocalsKnow(request'[p], Born')
      /\ \A p \in Requests : p # q => request'[p] = request[p]
    BY <1>1, <1>3, RowsUnchanged, RequestTypes DEF IInv
<1>5. Types'
    <2>1. started' \in 0..MaxRequests /\ raced' \subseteq Artifacts
        BY <1>1 DEF IInv, Types
    <2> QED
        BY <1>1, <1>4, <2>1, RowsUnchanged DEF IInv, Types
<1>6. request[q].op = "none"
    BY <1>1, IdleIsLocal
<1>7. Pins'
    <2>1. \A b : Free(b) => Free(b)'
        BY <1>1 DEF Free
    <2>2. \A d \in Born' : \A b \in Uses(deliverables'[d]) : Free(b)'
        BY <1>1, <2>1, RowsUnchanged DEF IInv, Pins
    <2>3. ASSUME NEW p \in Requests, At(p, "save", "persist")', NEW b \in Takes(request'[p].shape)
          PROVE  Free(b)'
        <3>1. p # q /\ request'[p] = request[p] /\ At(p, "save", "persist")
            BY <1>2, <1>4, <2>3 DEF At
        <3> QED
            BY <2>1, <2>3, <3>1 DEF IInv, Pins
    <2>4. ASSUME NEW b \in Artifacts, Unpinning(b)', Referenced(b)' \/ Saving(b)'
          PROVE  b \in raced'
        <3>1. (Referenced(b)' => Referenced(b)) /\ (Saving(b)' => Saving(b))
            BY <1>1, <1>2, <1>4, RowsUnchanged DEF Referenced, Saving
        <3>2. Unpinning(b) \/ (b = a /\ ~pinned)
            BY <1>2, <1>4, <2>4 DEF Unpinning
        <3>3. CASE Unpinning(b)
            BY <1>1, <2>4, <3>1, <3>3 DEF IInv, Pins
        <3>4. CASE b = a /\ ~pinned
            BY <1>1, <2>4, <3>1, <3>4
        <3> QED
            BY <3>2, <3>3, <3>4
    <2> QED
        BY <2>2, <2>3, <2>4 DEF Pins
<1>8. \A p \in Requests : /\ PacksFollow(request[p], request'[p])
                          /\ OffersFollow(request[p], request'[p])
    <2>1. PacksFollow(request[q], f) /\ OffersFollow(request[q], f)
        BY <1>2, <1>3, <1>6 DEF PacksFollow, OffersFollow
    <2> QED
        BY <1>4, <2>1 DEF PacksFollow, OffersFollow
<1>9. Packs' /\ Offers'
    <2>1. \A p \in Requests : request[p].op = "download" => request[p].target \in Ids
        BY Taken DEF IInv, Born
    <2>2. Packs'
        BY <1>1, <1>8, RowsUnchanged, PacksKept DEF IInv
    <2>3. Offers'
        BY <1>1, <1>8, <2>1, Taken, RowsUnchanged, OffersKept DEF IInv
    <2> QED
        BY <2>2, <2>3
<1> QED
    BY <1>5, <1>7, <1>9 DEF IInv

LEMMA UpdatePinIInv ==
    ASSUME IInv, NEW q \in Requests, UpdatePin(q) PROVE IInv'
<1> DEFINE e == request[q]
           a == e.artifact
<1>1. /\ UNCHANGED <<deliverables, objects, entries, served, published, torn, raced,
                     started, faults>>
      /\ e.op = "pin" /\ Turns(q, Idle)
      /\ artifacts' = [artifacts EXCEPT ![a].pinned = e.pinned]
    BY DEF UpdatePin, Ends, Turns
<1>2. /\ e \in Pin /\ a \in Artifacts /\ e.pinned \in BOOLEAN
      /\ artifacts \in [Artifacts -> [pinned: BOOLEAN, downloads: Nat]]
    <2>1. e \in Pin
        BY <1>1, Taken DEF IInv
    <2> QED
        BY <2>1 DEF Pin, IInv, Types
<1>3. /\ request' \in [Requests -> Locals] /\ request'[q] = Idle
      /\ \A p \in Requests : LocalsKnow(request'[p], Born')
      /\ \A p \in Requests : p # q => request'[p] = request[p]
    BY <1>1, IdleIsLocal, RowsUnchanged, RequestTypes DEF IInv
<1>4. /\ artifacts' \in [Artifacts -> [pinned: BOOLEAN, downloads: Nat]]
      /\ artifacts'[a].pinned = e.pinned
      /\ \A b \in Artifacts : b # a => artifacts'[b].pinned = artifacts[b].pinned
    BY <1>1, <1>2
<1>5. Types'
    BY <1>1, <1>3, <1>4, RowsUnchanged DEF IInv, Types
<1>6. Idle.op = "none"
    BY IdleIsLocal
<1>7. Pins'
    <2>1. ASSUME NEW b \in Artifacts, Free(b), Referenced(b) \/ Saving(b)
          PROVE  Free(b)'
        <3>1. CASE b = a /\ ~e.pinned
            <4>1. Unpinning(b)
                BY <1>1, <3>1 DEF Unpinning
            <4> QED
                BY <1>1, <2>1, <4>1 DEF IInv, Pins, Free
        <3>2. CASE ~(b = a /\ ~e.pinned)
            BY <1>1, <1>2, <1>4, <2>1, <3>2 DEF Free
        <3> QED
            BY <3>1, <3>2
    <2>2. ASSUME NEW d \in Born', NEW b \in Uses(deliverables'[d])
          PROVE  Free(b)'
        <3>1. d \in Born /\ b \in Uses(deliverables[d]) /\ b \in Artifacts
            BY <1>1, <2>2, RowsUnchanged, Taken DEF IInv
        <3>2. Referenced(b) /\ Free(b)
            BY <3>1 DEF Referenced, IInv, Pins
        <3> QED
            BY <2>1, <3>1, <3>2
    <2>3. ASSUME NEW p \in Requests, At(p, "save", "persist")', NEW b \in Takes(request'[p].shape)
          PROVE  Free(b)'
        <3>1. request'[p] = request[p] /\ At(p, "save", "persist")
            BY <1>3, <1>6, <2>3 DEF At
        <3>2. b \in Artifacts /\ Free(b) /\ Saving(b)
            BY <2>3, <3>1, Taken DEF IInv, Pins, At, Saving
        <3> QED
            BY <2>1, <3>2
    <2>4. ASSUME NEW b \in Artifacts, Unpinning(b)', Referenced(b)' \/ Saving(b)'
          PROVE  b \in raced'
        <3>1. (Referenced(b)' => Referenced(b)) /\ (Saving(b)' => Saving(b))
            BY <1>1, <1>3, <1>6, RowsUnchanged DEF Referenced, Saving
        <3>2. Unpinning(b)
            BY <1>3, <1>6, <2>4 DEF Unpinning
        <3> QED
            BY <1>1, <2>4, <3>1, <3>2 DEF IInv, Pins
    <2> QED
        BY <2>2, <2>3, <2>4 DEF Pins
<1>8. \A p \in Requests : /\ PacksFollow(request[p], request'[p])
                          /\ OffersFollow(request[p], request'[p])
    BY <1>1, <1>3, <1>6 DEF PacksFollow, OffersFollow, Builds
<1>9. Packs' /\ Offers'
    <2>1. \A p \in Requests : request[p].op = "download" => request[p].target \in Ids
        BY Taken DEF IInv, Born
    <2>2. Packs'
        BY <1>1, <1>8, RowsUnchanged, PacksKept DEF IInv
    <2>3. Offers'
        BY <1>1, <1>8, <2>1, Taken, RowsUnchanged, OffersKept DEF IInv
    <2> QED
        BY <2>2, <2>3
<1> QED
    BY <1>5, <1>7, <1>9 DEF IInv

(* A handler throws.                                                            *)
LEMMA FailIInv ==
    ASSUME IInv, NEW q \in Requests, Fail(q) PROVE IInv'
<1> DEFINE e == request[q]
           breaks == At(q, "save", "write") \/ At(q, "save", "record")
<1>1. /\ UNCHANGED <<deliverables, artifacts, objects, entries, served, published, raced,
                     started>>
      /\ e # Idle /\ faults < MaxFaults /\ faults' = faults + 1
      /\ torn' = IF breaks THEN torn \cup {e.target} ELSE torn
    BY DEF Fail
<1>2. PICK f : Turns(q, f) /\ f \in Locals /\ LocalsKnow(f, Born) /\ Follows(e, f)
    <2>1. CASE At(q, "download", "count")
        <3>1. PICK part \in e.due : Answered(q, e.due \ {part}, TRUE)
            BY <2>1 DEF Fail
        <3>2. e.due \ {part} \in SUBSET {"deliverable", "entry"}
            BY <2>1, Taken DEF At, IInv, Download
        <3> QED
            BY <2>1, <3>1, <3>2, AnsweredGoes DEF IInv
    <2>2. CASE ~At(q, "download", "count")
        <3>1. Turns(q, Idle)
            BY <2>2 DEF Fail, Ends, Turns
        <3>2. e.op = "save" /\ Builds(e) => e.target \in torn'
            BY <1>1 DEF Builds, At
        <3>3. Follows(e, Idle)
            BY <3>2, IdleFollows
        <3> QED
            BY <3>1, <3>3, IdleIsLocal
    <2> QED
        BY <2>1, <2>2
<1>3. /\ request' \in [Requests -> Locals] /\ request'[q] = f
      /\ \A p \in Requests : LocalsKnow(request'[p], Born')
      /\ \A p \in Requests : p # q => request'[p] = request[p]
    BY <1>1, <1>2, RowsUnchanged, RequestTypes DEF IInv
<1>4. Types'
    <2>1. faults' \in 0..MaxFaults
        BY <1>1 DEF IInv, Types
    <2>2. breaks => e.target \in Ids
        <3>1. LocalsKnow(e, Born)
            BY DEF IInv, Types
        <3> QED
            BY <3>1 DEF At, LocalsKnow, Born
    <2>3. torn' \subseteq Ids
        BY <1>1, <2>2 DEF IInv, Types
    <2> QED
        BY <1>1, <1>3, <2>1, <2>3, RowsUnchanged DEF IInv, Types
<1>5. \A p \in Requests : Follows(request[p], request'[p])
    BY <1>2, <1>3 DEF Follows
<1>6. torn \subseteq torn'
    BY <1>1
<1> QED
    BY <1>1, <1>4, <1>5, <1>6, RowsUnchanged, AllKept

(* A save begins, and writes its row.                                           *)
LEMMA BeginSaveIInv ==
    ASSUME IInv, NEW q \in Requests, NEW target \in Born \cup {None}, NEW body \in Body,
           BeginSave(q, target, body)
    PROVE  IInv'
<1> DEFINE row == IF target = None THEN None ELSE deliverables[target]
           shape == NextShape(row, body)
           f == [op |-> "save", step |-> "bind", target |-> target, shape |-> shape]
<1>1. /\ UNCHANGED <<deliverables, artifacts, objects, entries, served, published,
                     torn, faults>>
      /\ Accepted(row, body)
      /\ request[q] = Idle /\ started < MaxRequests /\ started' = started + 1 /\ Turns(q, f)
      /\ raced' = raced \cup {a \in Takes(shape) : Unpinning(a)}
    BY DEF BeginSave, Begin, Turns
<1>2. row \in {None} \cup Row
    BY DEF IInv, Types, Born
<1> HIDE DEF row
<1>3. shape \in Shape /\ WellTaken(shape)
    BY <1>1, <1>2, ShapesAreTyped
<1> HIDE DEF shape
<1>4. f \in Save /\ f.op = "save" /\ f.step = "bind" /\ f.target = target /\ f.shape = shape
    BY <1>3 DEF Save, Born
<1> HIDE DEF f
<1>5. f \in Locals /\ LocalsKnow(f, Born) /\ ~Builds(f)
    BY <1>3, <1>4 DEF Locals, LocalsKnow, Builds
<1>6. /\ request' \in [Requests -> Locals] /\ request'[q] = f
      /\ \A p \in Requests : LocalsKnow(request'[p], Born')
      /\ \A p \in Requests : p # q => request'[p] = request[p]
    BY <1>1, <1>5, RowsUnchanged, RequestTypes DEF IInv
<1>7. Types'
    <2>1. started' \in 0..MaxRequests
        BY <1>1 DEF IInv, Types
    <2>2. Takes(shape) \subseteq Artifacts
        <3>1. ToSet(shape.items) \subseteq Artifacts
            BY <1>3 DEF Shape, ToSet
        <3> QED
            BY <1>3, <3>1 DEF Takes, WellTaken
    <2>3. raced' \subseteq Artifacts
        BY <1>1, <2>2 DEF IInv, Types
    <2> QED
        BY <1>1, <1>6, <2>1, <2>3, RowsUnchanged DEF IInv, Types
<1>8. request[q].op = "none"
    BY <1>1, IdleIsLocal
<1>9. Pins'
    <2>1. \A b : Free(b) => Free(b)'
        BY <1>1 DEF Free
    <2>2. \A d \in Born' : \A b \in Uses(deliverables'[d]) : Free(b)'
        BY <1>1, <2>1, RowsUnchanged DEF IInv, Pins
    <2>3. ASSUME NEW p \in Requests, At(p, "save", "persist")', NEW b \in Takes(request'[p].shape)
          PROVE  Free(b)'
        <3>1. p # q /\ request'[p] = request[p] /\ At(p, "save", "persist")
            BY <1>4, <1>6, <2>3 DEF At
        <3> QED
            BY <2>1, <2>3, <3>1 DEF IInv, Pins
    <2>4. ASSUME NEW b \in Artifacts, Unpinning(b)', Referenced(b)' \/ Saving(b)'
          PROVE  b \in raced'
        <3>1. Unpinning(b) /\ (Referenced(b)' => Referenced(b))
            BY <1>1, <1>4, <1>6, <2>4, RowsUnchanged DEF Referenced, Unpinning
        <3>2. Saving(b)' => Saving(b) \/ b \in Takes(shape)
            BY <1>4, <1>6 DEF Saving
        <3> QED
            BY <1>1, <2>4, <3>1, <3>2 DEF IInv, Pins
    <2> QED
        BY <2>2, <2>3, <2>4 DEF Pins
<1>10. \A p \in Requests : /\ PacksFollow(request[p], request'[p])
                           /\ OffersFollow(request[p], request'[p])
    <2>1. PacksFollow(request[q], f) /\ OffersFollow(request[q], f)
        BY <1>4, <1>5, <1>8 DEF PacksFollow, OffersFollow
    <2> QED
        BY <1>6, <2>1 DEF PacksFollow, OffersFollow
<1>11. Packs' /\ Offers'
    <2>1. \A p \in Requests : request[p].op = "download" => request[p].target \in Ids
        BY Taken DEF IInv, Born
    <2>2. Packs'
        BY <1>1, <1>10, RowsUnchanged, PacksKept DEF IInv
    <2>3. Offers'
        BY <1>1, <1>10, <2>1, Taken, RowsUnchanged, OffersKept DEF IInv
    <2> QED
        BY <2>2, <2>3
<1> QED
    BY <1>7, <1>9, <1>11 DEF IInv

LEMMA PersistIInv ==
    ASSUME IInv, NEW q \in Requests, Persist(q) PROVE IInv' /\ CountsKept
<1> DEFINE e == request[q]
           shape == e.shape
           bundle == shape.source = "bundle"
<1>1. PICK d \in IF e.target = None THEN Ids \ Born ELSE {e.target} :
         LET old == deliverables[d]
         IN /\ deliverables' = [deliverables EXCEPT ![d] =
                 [visibility |-> shape.visibility, source |-> shape.source,
                  artifact |-> IF shape.source = "artifact" THEN shape.artifact ELSE None,
                  link |-> shape.source = "external_link",
                  items |-> IF bundle THEN shape.items ELSE <<>>,
                  archive |-> IF bundle /\ old # None THEN old.archive ELSE None,
                  downloads |-> IF old = None THEN 0 ELSE old.downloads]]
            /\ published' = IF shape.visibility = "public_material"
                            THEN [published EXCEPT ![d] = @ \cup Offer(shape)]
                            ELSE published
            /\ torn' = IF Building(d) THEN torn \cup {d} ELSE torn \ {d}
            /\ IF Repacks(old, shape)
               THEN request' = [request EXCEPT ![q].step = "write", ![q].target = d]
               ELSE Ends(q)
    BY DEF Persist
<1>2. /\ UNCHANGED <<artifacts, objects, entries, served, raced, started, faults>>
      /\ e.op = "save" /\ e.step = "persist"
    BY DEF Persist, At
<1>3. /\ e \in Save /\ LocalsKnow(e, Born) /\ request \in [Requests -> Locals]
      /\ deliverables \in [Ids -> {None} \cup Row] /\ published \in [Ids -> SUBSET Content]
    BY <1>2, Taken DEF IInv, Types
<1>4. shape \in Shape /\ WellTaken(shape) /\ d \in Ids /\ (e.target # None => d = e.target)
    BY <1>2, <1>3 DEF Save, LocalsKnow, Born
<1> DEFINE old == deliverables[d]
           artifact == IF shape.source = "artifact" THEN shape.artifact ELSE None
           link == shape.source = "external_link"
           items == IF bundle THEN shape.items ELSE <<>>
           archive == IF bundle /\ old # None THEN old.archive ELSE None
           downloads == IF old = None THEN 0 ELSE old.downloads
           row == [visibility |-> shape.visibility, source |-> shape.source,
                   artifact |-> artifact, link |-> link, items |-> items,
                   archive |-> archive, downloads |-> downloads]
           f == IF bundle THEN [e EXCEPT !.step = "write", !.target = d] ELSE Idle
<1>5. /\ shape.visibility \in Visibilities /\ shape.source \in Sources
      /\ shape.items \in Seq(Artifacts) /\ shape.artifact \in Artifacts \cup {None}
    BY <1>4 DEF Shape
<1>6. /\ artifact \in Artifacts \cup {None} /\ link \in BOOLEAN /\ items \in Seq(Artifacts)
      /\ archive \in Archive \cup {None} /\ downloads \in Nat
      /\ shape.source = "artifact" => artifact = shape.artifact /\ artifact \in Artifacts
      /\ shape.source # "artifact" => artifact = None
      /\ bundle => items = shape.items
      /\ ~bundle => items = <<>>
      /\ archive # None => bundle /\ old # None /\ archive = old.archive
    <2>1. old # None => old.archive \in Archive \cup {None} /\ old.downloads \in Nat
        BY <1>3, <1>4 DEF Row
    <2> QED
        BY <1>4, <1>5, <2>1 DEF WellTaken
<1>7. deliverables' = [deliverables EXCEPT ![d] = row] /\ Turns(q, f)
    BY <1>1 DEF Repacks, Ends, Turns
<1> HIDE DEF artifact, link, items, archive, downloads
<1>8. /\ row \in Row /\ row # None /\ row.visibility = shape.visibility
      /\ row.source = shape.source /\ row.artifact = artifact /\ row.items = items
      /\ row.archive = archive
    <2>1. row \in Row
        BY <1>5, <1>6 DEF Row
    <2> QED
        BY <2>1
<1> HIDE DEF row
<1>9. /\ deliverables' \in [Ids -> {None} \cup Row] /\ deliverables'[d] = row
      /\ \A c \in Ids : c # d => deliverables'[c] = deliverables[c]
      /\ Born' = Born \cup {d} /\ d \in Born'
    <2>1. /\ deliverables' \in [Ids -> {None} \cup Row] /\ deliverables'[d] = row
          /\ \A c \in Ids : c # d => deliverables'[c] = deliverables[c]
        BY <1>3, <1>4, <1>7, <1>8
    <2> QED
        BY <1>4, <1>8, <2>1 DEF Born
<1>10. /\ f \in Locals /\ f.op \in {"none", "save"}
       /\ f.op = "save" => /\ bundle /\ f.step = "write" /\ f.target = d /\ f.shape = shape
       /\ bundle => f.op = "save"
    <2>1. CASE bundle
        <3>1. /\ f \in Save /\ f.op = "save" /\ f.step = "write" /\ f.target = d
              /\ f.shape = shape
            BY <1>3, <1>4, <2>1 DEF Save
        <3> QED
            BY <2>1, <3>1 DEF Locals
    <2>2. CASE ~bundle
        BY <2>2, IdleIsLocal
    <2> QED
        BY <2>1, <2>2
<1> HIDE DEF f
<1>11. LocalsKnow(f, Born')
    BY <1>4, <1>9, <1>10 DEF LocalsKnow
<1>12. /\ request' \in [Requests -> Locals] /\ request'[q] = f
       /\ \A p \in Requests : LocalsKnow(request'[p], Born')
       /\ \A p \in Requests : p # q => request'[p] = request[p]
    BY <1>7, <1>9, <1>10, <1>11, RequestTypes DEF IInv
<1>13. Offer(row) = Offer(shape) /\ Offer(shape) \subseteq Content
    BY <1>4, <1>5, <1>6, <1>8 DEF Offer, Content, WellTaken
<1>14. /\ published' \in [Ids -> SUBSET Content]
       /\ \A c \in Ids : published[c] \subseteq published'[c]
       /\ shape.visibility = "public_material" => Offer(shape) \subseteq published'[d]
    BY <1>1, <1>3, <1>4, <1>13
<1>15. torn' = IF Building(d) THEN torn \cup {d} ELSE torn \ {d}
    BY <1>1
<1>16. Types'
    <2>1. \A c \in Born' : WellTaken(deliverables'[c])
        BY <1>6, <1>8, <1>9 DEF IInv, Types, WellTaken, Born
    <2>2. torn' \subseteq Ids
        BY <1>4, <1>15 DEF IInv, Types
    <2> QED
        BY <1>2, <1>9, <1>12, <1>14, <2>1, <2>2 DEF IInv, Types
<1>17. Pins'
    <2>1. Uses(row) \subseteq Takes(shape)
        <3>1. ToSet(items) \subseteq Takes(shape)
            BY <1>6 DEF Takes, ToSet
        <3>2. artifact # None => artifact \in Takes(shape)
            BY <1>6 DEF Takes
        <3> QED
            BY <1>8, <3>1, <3>2 DEF Uses
    <2>2. \A b : Free(b) => Free(b)'
        BY <1>2 DEF Free
    <2>3. \A b \in Takes(shape) : Free(b) /\ Saving(b)
        BY <1>2 DEF IInv, Pins, At, Saving
    <2>4. \A c \in Born' : \A b \in Uses(deliverables'[c]) : Free(b)'
        BY <1>9, <2>1, <2>2, <2>3 DEF IInv, Pins, Born
    <2>5. ASSUME NEW p \in Requests, At(p, "save", "persist")', NEW b \in Takes(request'[p].shape)
          PROVE  Free(b)'
        <3>1. p # q /\ request'[p] = request[p] /\ At(p, "save", "persist")
            BY <1>10, <1>12, <2>5 DEF At
        <3> QED
            BY <2>2, <2>5, <3>1 DEF IInv, Pins
    <2>6. ASSUME NEW b \in Artifacts, Unpinning(b)', Referenced(b)' \/ Saving(b)'
          PROVE  b \in raced'
        <3>1. Unpinning(b)
            BY <1>10, <1>12, <2>6 DEF Unpinning
        <3>2. Saving(b)' => Saving(b)
            BY <1>2, <1>10, <1>12 DEF Saving
        <3>3. Referenced(b)' => Referenced(b) \/ Saving(b)
            BY <1>9, <2>1, <2>3 DEF Referenced, Born
        <3> QED
            BY <1>2, <2>6, <3>1, <3>2, <3>3 DEF IInv, Pins
    <2> QED
        BY <2>4, <2>5, <2>6 DEF Pins
<1>18. Packs'
    <2>1. \A c \in Born' : deliverables'[c].archive # None => deliverables'[c].archive \in objects'
        BY <1>2, <1>4, <1>6, <1>8, <1>9 DEF IInv, Packs, Born
    <2>2. ASSUME NEW p \in Requests, Builds(request'[p]), request'[p].step = "record"
          PROVE  Packed(p)' \in objects'
        <3>1. p # q /\ request'[p] = request[p]
            BY <1>10, <1>12, <2>2 DEF Builds
        <3>2. Packed(p) \in objects
            BY <2>2, <3>1 DEF IInv, Packs
        <3>3. Packed(p)' = Packed(p)
            BY <3>1 DEF Packed
        <3> QED
            BY <1>2, <3>2, <3>3
    <2>3. ASSUME NEW c \in Born' \ torn', deliverables'[c].source = "bundle"
          PROVE  /\ \A p \in Requests : Builds(request'[p]) /\ request'[p].target = c
                                           => Holds(request'[p]) = deliverables'[c].items
                 /\ deliverables'[c].archive = Current(c)' \/ SaveBuilds(c)'
        <3>1. CASE c = d
            <4>1. ~Building(d) /\ bundle
                BY <1>8, <1>9, <1>15, <2>3, <3>1
            <4>2. SaveBuilds(c)'
                BY <1>10, <1>12, <3>1, <4>1 DEF SaveBuilds, Builds
            <4>3. ASSUME NEW p \in Requests, Builds(request'[p]), request'[p].target = c
                  PROVE  Holds(request'[p]) = deliverables'[c].items
                <5>1. p = q
                    BY <1>12, <3>1, <4>1, <4>3 DEF Building, Builds
                <5> QED
                    BY <1>6, <1>8, <1>9, <1>10, <1>12, <3>1, <4>1, <5>1 DEF Holds
            <4> QED
                BY <4>2, <4>3
        <3>2. CASE c # d
            <4>1. c \in Born \ torn /\ deliverables'[c] = deliverables[c]
                BY <1>9, <1>15, <2>3, <3>2 DEF Born
            <4>2. ASSUME NEW p \in Requests, Builds(request'[p]), request'[p].target = c
                  PROVE  Holds(request'[p]) = deliverables'[c].items
                <5>1. p # q /\ request'[p] = request[p]
                    BY <1>10, <1>12, <3>2, <4>2 DEF Builds
                <5> QED
                    BY <2>3, <4>1, <4>2, <5>1 DEF IInv, Packs
            <4>3. deliverables[c].archive = Current(c) \/ SaveBuilds(c)
                BY <2>3, <4>1 DEF IInv, Packs
            <4>4. Current(c)' = Current(c)
                BY <4>1 DEF Current
            <4>5. SaveBuilds(c) => SaveBuilds(c)'
                BY <1>2, <1>12 DEF SaveBuilds, Builds
            <4>6. deliverables'[c].archive = Current(c)' \/ SaveBuilds(c)'
                BY <4>1, <4>3, <4>4, <4>5
            <4> QED
                BY <4>2, <4>6
        <3> QED
            BY <3>1, <3>2
    <2> QED
        BY <2>1, <2>2, <2>3 DEF Packs
<1>19. Offers'
    <2>1. \A c \in Born' : deliverables'[c].visibility = "public_material"
             => Offer(deliverables'[c]) \subseteq published'[c]
        <3> SUFFICES ASSUME NEW c \in Born', deliverables'[c].visibility = "public_material"
                     PROVE  Offer(deliverables'[c]) \subseteq published'[c]
            OBVIOUS
        <3>1. CASE c = d
            BY <1>8, <1>9, <1>13, <1>14, <3>1
        <3>2. CASE c # d
            <4>1. c \in Born /\ c \in Ids /\ deliverables'[c] = deliverables[c]
                BY <1>9, <3>2 DEF Born
            <4>2. Offer(deliverables[c]) \subseteq published[c]
                BY <4>1 DEF IInv, Offers
            <4> QED
                BY <1>14, <4>1, <4>2
        <3> QED
            BY <3>1, <3>2
    <2>2. ASSUME NEW p \in Requests, request'[p].op = "download", request'[p].public,
                 request'[p].settled
          PROVE  request'[p].content \in published'[request'[p].target]
        <3>1. p # q /\ request'[p] = request[p]
            BY <1>10, <1>12, <2>2
        <3>2. request[p].target \in Ids
            BY <2>2, <3>1, Taken DEF IInv, Born
        <3> QED
            BY <1>14, <2>2, <3>1, <3>2 DEF IInv, Offers
    <2>3. \A s \in served' : s.settled => s.content \in published'[s.deliverable]
        BY <1>2, <1>14, Taken DEF IInv, Offers, PublicGetsPublished
    <2> QED
        BY <2>1, <2>2, <2>3 DEF Offers, PublicGetsPublished
<1>20. CountsKept
    <2>1. row.downloads = IF d \in Born THEN deliverables[d].downloads ELSE 0
        BY <1>4 DEF row, downloads, Born
    <2>2. \A c \in Ids : c # d => deliverables'[c] = deliverables[c]
        BY <1>9
    <2> QED
        BY <1>9, <2>1, <2>2 DEF CountsKept, Born
<1> QED
    BY <1>16, <1>17, <1>18, <1>19, <1>20 DEF IInv

-------------------------------------------------------------------------------
(* The invariant.                                                               *)
LEMMA InitIInv ==
    ASSUME Init PROVE IInv
<1>1. /\ deliverables = [d \in Ids |-> None] /\ Born = {}
      /\ request = [q \in Requests |-> Idle] /\ served = {}
    BY DEF Init, Born
<1>2. \A q \in Requests : request[q] = Idle /\ request[q].op = "none"
    BY <1>1, IdleIsLocal
<1>3. Types
    <2>1. artifacts \in [Artifacts -> [pinned: BOOLEAN, downloads: Nat]]
        BY DEF Init
    <2>2. \A note \in DOMAIN entries : entries[note] \in Nat
        BY DEF Init
    <2>3. /\ objects \subseteq Archive /\ published \in [Ids -> SUBSET Content]
          /\ torn \subseteq Ids /\ raced \subseteq Artifacts
          /\ started \in 0..MaxRequests /\ faults \in 0..MaxFaults
        BY DEF Init
    <2>4. request \in [Requests -> Locals] /\ \A q \in Requests : LocalsKnow(request[q], Born)
        BY <1>1, IdleIsLocal
    <2> QED
        BY <1>1, <2>1, <2>2, <2>3, <2>4 DEF Types
<1>4. Pins
    BY <1>1, <1>2 DEF Pins, At, Unpinning
<1>5. Packs /\ Offers
    BY <1>1, <1>2 DEF Packs, Offers, PublicGetsPublished, Builds
<1> QED
    BY <1>3, <1>4, <1>5 DEF IInv

LEMMA UnchangedIInv ==
    ASSUME IInv, UNCHANGED vars PROVE IInv'
<1>1. /\ UNCHANGED <<deliverables, artifacts, objects, entries, request, served,
                     published, torn, raced, started, faults>>
    BY DEF vars
<1>2. Types'
    BY <1>1, RowsUnchanged DEF IInv, Types
<1>3. \A p \in Requests : Follows(request[p], request'[p])
    BY <1>1 DEF Follows, PinsFollow, PacksFollow, OffersFollow
<1> QED
    BY <1>1, <1>2, <1>3, RowsUnchanged, AllKept

LEMMA NextIInv ==
    ASSUME IInv, [Next]_vars PROVE IInv'
<1>1. ASSUME NEW q \in Requests, NEW target \in Born \cup {None}, NEW body \in Bodies,
             BeginSave(q, target, body)
      PROVE  IInv'
    BY <1>1, BeginSaveIInv
<1>2. ASSUME NEW q \in Requests, NEW target \in Born \cup {None}, NEW key \in PresetKeys,
             NEW items \in PresetItems(key), BeginSave(q, target, PresetBody(key, items))
      PROVE  IInv'
    <2>1. PresetBody(key, items) \in Body
        BY PresetsAreBodies
    <2> QED
        BY <1>2, <2>1, BeginSaveIInv
<1>3. ASSUME NEW q \in Requests,
             Bind(q) \/ PinLinked(q) \/ Persist(q) \/ WriteArchive(q) \/ RecordArchive(q)
      PROVE  IInv'
    BY <1>3, BindIInv, PinLinkedIInv, PersistIInv, WriteArchiveIInv, RecordArchiveIInv
<1>4. ASSUME NEW q \in Requests, NEW d \in Ids, NEW public \in BOOLEAN,
             BeginDownload(q, d, public)
      PROVE  IInv'
    BY <1>4, BeginDownloadIInv
<1>5. ASSUME NEW q \in Requests, CountDeliverable(q) \/ BookEntry(q)
      PROVE  IInv'
    BY <1>5, CountDeliverableIInv, BookEntryIInv
<1>6. ASSUME NEW q \in Requests, NEW a \in Artifacts, NEW pinned \in BOOLEAN,
             BeginPin(q, a, pinned)
      PROVE  IInv'
    BY <1>6, BeginPinIInv
<1>7. ASSUME NEW q \in Requests, UpdatePin(q) \/ Fail(q)
      PROVE  IInv'
    BY <1>7, UpdatePinIInv, FailIInv
<1>8. ASSUME NEW a \in Artifacts, FetchArtifact(a)
      PROVE  IInv'
    BY <1>8, FetchArtifactIInv
<1>9. CASE UNCHANGED vars
    BY <1>9, UnchangedIInv
<1> QED
    BY <1>1, <1>2, <1>3, <1>4, <1>5, <1>6, <1>7, <1>8, <1>9 DEF Next

(* What every handler may count on holds in every state.                        *)
THEOREM InvariantHolds == Spec => []IInv
<1>1. Init => IInv
    BY InitIInv
<1>2. IInv /\ [Next]_vars => IInv'
    BY NextIInv
<1> QED
    BY <1>1, <1>2, PTL DEF Spec
-------------------------------------------------------------------------------
(* Every variable keeps to the values the columns and locals it stands for have. *)
THEOREM TypeCorrect == Spec => []TypeOK
<1>1. IInv => TypeOK
    BY DEF IInv, Types, TypeOK, Locals, Born
<1> QED
    BY <1>1, InvariantHolds, PTL

(* However many saves, pins and unpins overlap, an artifact some deliverable    *)
(* refers to stays pinned, unless the check of an unpin and a save that takes   *)
(* the artifact crossed (updateRepresentativeComputeArtifact).                  *)
THEOREM ReferencesArePinned == Spec => []ReferencedStayPinned
<1>1. IInv => ReferencedStayPinned
    BY DEF IInv, Pins, Free, ReferencedStayPinned
<1> QED
    BY <1>1, InvariantHolds, PTL

(* Once no save of a bundle is under way, its archive is what its row says.     *)
LEMMA SettledIsCurrent ==
    ASSUME IInv, NEW d \in Born \ torn, deliverables[d].source = "bundle", ~Building(d)
    PROVE  deliverables[d].archive = [of |-> d, items |-> deliverables[d].items]
<1>1. ~SaveBuilds(d)
    BY DEF SaveBuilds, Builds, Building
<1> QED
    BY <1>1 DEF IInv, Packs, Current

(* A bundle whose last save came to its end is not stale: its archive holds     *)
(* what its row says, and it is in the store (ensurePersistedDeliverablePackage). *)
THEOREM ArchivesFollowTheirRows == Spec => []ArchivesAreCurrent
<1>1. ASSUME IInv, NEW d \in Born, deliverables[d].archive # None
      PROVE  deliverables[d].archive \in objects
    BY <1>1 DEF IInv, Packs
<1>2. ASSUME IInv, NEW d \in Born, deliverables[d].source = "bundle", d \notin torn,
             ~Building(d)
      PROVE  /\ d \notin StaleArchives
             /\ deliverables[d].archive = [of |-> d, items |-> deliverables[d].items]
    <2>1. deliverables[d].archive = [of |-> d, items |-> deliverables[d].items]
        BY <1>2, SettledIsCurrent
    <2>2. d \in Ids /\ deliverables[d].items \in Seq(Artifacts)
        BY <1>2 DEF IInv, Types, Born, Row
    <2>3. [of |-> d, items |-> deliverables[d].items] \in Archive
        BY <2>2 DEF Archive
    <2>4. deliverables[d].archive # None
        BY <2>1, <2>3
    <2> QED
        BY <2>1, <2>4 DEF StaleArchives
<1>3. IInv => ArchivesAreCurrent
    BY <1>1, <1>2 DEF ArchivesAreCurrent
<1> QED
    BY <1>3, InvariantHolds, PTL

(* Whatever the owner edits while a download is under way, the public is        *)
(* answered with what the deliverable offered while it was public, as long as   *)
(* nothing was being packed when its row was read                               *)
(* (getRepresentativeDeliverableDownload).                                      *)
THEOREM ThePublicGetsWhatWasPublished == Spec => []PublicGetsPublished
<1>1. IInv => PublicGetsPublished
    BY DEF IInv, Offers
<1> QED
    BY <1>1, InvariantHolds, PTL

-------------------------------------------------------------------------------
(* Downloads and their ledger entries.  A download whose recordings are under   *)
(* way has none behind it, both, or one; and one of them may have thrown.       *)
Notes == ({"download", "via"} \X Artifacts) \cup ({"bundle"} \X Ids)
Both == {"deliverable", "entry"}
Kind(e) == IF e.op # "download" \/ e.step # "count" THEN "none"
           ELSE IF e.failed THEN "limping"
           ELSE IF e.due = {"entry"} THEN "ahead"
           ELSE IF e.due = {"deliverable"} THEN "behind" ELSE "whole"
Those(k) == {q \in Requests : Kind(request[q]) = k}
Many(k) == Cardinality(Those(k))
Tracked == {"limping", "ahead", "behind"}

(* What a download still has to record.                                         *)
DueKnown(e) == e.op = "download" =>
    /\ e.due # {}
    /\ e.step # "count" => e.due = Both /\ ~e.failed
    /\ e.failed => e.due # Both

(* What the rows count beyond the ledger, apart from the recordings under way,  *)
(* is owed to statements that threw.                                            *)
Gap == Cardinality(Units(Counted)) - Cardinality(Units(Booked)) - Many("ahead") + Many("behind")
Finite == /\ IsFiniteSet(Units(Counted)) /\ IsFiniteSet(Units(Booked))
          /\ \A k \in Tracked : IsFiniteSet(Those(k))
Balanced == Gap + Many("limping") <= faults /\ Many("limping") - Gap <= faults
Books == /\ entries \in [Notes -> Nat]
         /\ \A q \in Requests : DueKnown(request[q])
         /\ Finite /\ Balanced

(* One more is one more unit.                                                   *)
LEMMA OneMoreUnit ==
    ASSUME NEW S, NEW f \in [S -> Nat], NEW x \in S, IsFiniteSet(Units(f)),
           NEW g, g = [f EXCEPT ![x] = @ + 1]
    PROVE  /\ IsFiniteSet(Units(g))
           /\ Cardinality(Units(g)) = Cardinality(Units(f)) + 1
<1> DEFINE u == <<x, f[x] + 1>>
<1>1. f[x] \in Nat /\ g[x] = f[x] + 1 /\ \A y \in S : y # x => g[y] = f[y]
    OBVIOUS
<1>2. DOMAIN f = S /\ DOMAIN g = S
    OBVIOUS
<1>3. ASSUME NEW y \in S
      PROVE  {y} \X (1..g[y]) = IF y = x THEN ({y} \X (1..f[y])) \cup {u}
                                         ELSE {y} \X (1..f[y])
    <2>1. CASE y = x
        <3>1. 1..g[x] = (1..f[x]) \cup {f[x] + 1}
            BY <1>1
        <3> QED
            BY <2>1, <3>1
    <2>2. CASE y # x
        BY <1>1, <2>2
    <2> QED
        BY <2>1, <2>2
<1>4. u \notin Units(f)
    <2> SUFFICES ASSUME NEW y \in S, u \in {y} \X (1..f[y]) PROVE FALSE
        BY <1>2 DEF Units
    <2>1. y = x /\ f[x] + 1 \in 1..f[x]
        OBVIOUS
    <2> QED
        BY <1>1, <2>1
<1>5. Units(g) = Units(f) \cup {u}
    <2> HIDE DEF u
    <2> QED
        BY <1>2, <1>3 DEF Units
<1> HIDE DEF u
<1>6. /\ IsFiniteSet(Units(f) \cup {u})
      /\ Cardinality(Units(f) \cup {u}) = Cardinality(Units(f)) + 1
    BY <1>4, FS_AddElement
<1> QED
    BY <1>5, <1>6

(* What a handler's step does to the tracked ones.                              *)
One(k, e) == IF Kind(e) = k THEN 1 ELSE 0
LEMMA OneTurns ==
    ASSUME Types, Finite, NEW q \in Requests, NEW f, Turns(q, f), NEW k \in Tracked
    PROVE  /\ IsFiniteSet(Those(k)) /\ IsFiniteSet(Those(k)')
           /\ Many(k) \in Nat /\ Many(k)' \in Nat
           /\ Many(k)' = Many(k) + One(k, f) - One(k, request[q])
<1>1. request'[q] = f /\ \A p \in Requests : p # q => request'[p] = request[p]
    BY DEF Types, Turns
<1>2. IsFiniteSet(Those(k)) /\ Many(k) \in Nat
    BY FS_CardinalityType DEF Finite, Many
<1>3. Those(k)' = IF Kind(f) = k THEN Those(k) \cup {q} ELSE Those(k) \ {q}
    BY <1>1 DEF Those
<1>4. q \in Those(k) <=> Kind(request[q]) = k
    BY DEF Those
<1>5. IsFiniteSet(Those(k)')
    BY <1>2, <1>3, FS_AddElement, FS_RemoveElement
<1>6. Many(k)' \in Nat
    BY <1>5, FS_CardinalityType DEF Many
<1>7. Many(k)' = Cardinality(Those(k)')
    BY DEF Many
<1>8. CASE Kind(f) = k
    <2>1. Cardinality(Those(k) \cup {q}) = IF q \in Those(k) THEN Many(k) ELSE Many(k) + 1
        BY <1>2, FS_AddElement DEF Many
    <2> QED
        BY <1>2, <1>3, <1>4, <1>5, <1>6, <1>7, <1>8, <2>1 DEF One
<1>9. CASE Kind(f) # k
    <2>1. Cardinality(Those(k) \ {q}) = IF q \in Those(k) THEN Many(k) - 1 ELSE Many(k)
        BY <1>2, FS_RemoveElement DEF Many
    <2> QED
        BY <1>2, <1>3, <1>4, <1>5, <1>6, <1>7, <1>9, <2>1 DEF One
<1> QED
    BY <1>2, <1>5, <1>6, <1>8, <1>9

(* What one step adds to the counts, the ledger and the faults must make up for *)
(* what it changes of its download.                                             *)
Owes(e) == One("ahead", e) - One("behind", e)
LEMMA BooksTurn ==
    ASSUME Types, Types', Books, NEW q \in Requests, NEW f, Turns(q, f), DueKnown(f),
           entries' \in [Notes -> Nat],
           IsFiniteSet(Units(Counted)'), IsFiniteSet(Units(Booked)'),
           NEW c \in {0, 1}, Cardinality(Units(Counted)') = Cardinality(Units(Counted)) + c,
           NEW b \in {0, 1}, Cardinality(Units(Booked)') = Cardinality(Units(Booked)) + b,
           NEW n \in {0, 1}, faults' = faults + n,
           LET gap == c - b - (Owes(f) - Owes(request[q]))
               limps == One("limping", f) - One("limping", request[q])
           IN gap + limps <= n /\ limps - gap <= n
    PROVE  Books'
<1> DEFINE e == request[q]
<1>1. \A p \in Requests : DueKnown(request'[p])
    BY DEF Types, Turns, Books
<1>2. Finite
    BY DEF Books
<1>3. \A k \in Tracked : /\ IsFiniteSet(Those(k)) /\ IsFiniteSet(Those(k)')
                         /\ Many(k) \in Nat /\ Many(k)' \in Nat
                         /\ Many(k)' = Many(k) + One(k, f) - One(k, e)
    BY <1>2, OneTurns
<1>4. Finite'
    BY <1>3 DEF Finite
<1>5. /\ Cardinality(Units(Counted)) \in Nat /\ Cardinality(Units(Booked)) \in Nat
    BY <1>2, FS_CardinalityType DEF Finite
<1>6. \A k : One(k, e) \in {0, 1} /\ One(k, f) \in {0, 1}
    BY DEF One
<1>7. faults \in Nat
    BY DEF Types
<1>8. /\ Many("ahead")' = Many("ahead") + One("ahead", f) - One("ahead", e)
      /\ Many("behind")' = Many("behind") + One("behind", f) - One("behind", e)
      /\ Many("limping")' = Many("limping") + One("limping", f) - One("limping", e)
      /\ Many("ahead") \in Nat /\ Many("behind") \in Nat /\ Many("limping") \in Nat
    BY <1>3 DEF Tracked
<1>9. Gap' = Gap + c - b - (Owes(f) - Owes(e))
    BY <1>5, <1>6, <1>8 DEF Gap, Owes
<1>10. Gap \in Int
    BY <1>5, <1>8 DEF Gap
<1>11. Balanced'
    <2> DEFINE gap == c - b - (Owes(f) - Owes(e))
               limps == One("limping", f) - One("limping", e)
    <2>1. Gap' = Gap + gap /\ Many("limping")' = Many("limping") + limps
          /\ gap \in Int /\ limps \in Int /\ gap + limps <= n /\ limps - gap <= n
        BY <1>6, <1>8, <1>9, <1>10 DEF Owes
    <2>2. Gap + Many("limping") <= faults /\ Many("limping") - Gap <= faults
        BY DEF Books, Balanced
    <2> HIDE DEF gap, limps
    <2>3. Gap' + Many("limping")' <= faults' /\ Many("limping")' - Gap' <= faults'
        BY <1>7, <1>8, <1>10, <2>1, <2>2
    <2> QED
        BY <2>3 DEF Balanced
<1> QED
    BY <1>1, <1>4, <1>11 DEF Books

(* Steps that record nothing.                                                   *)
LEMMA StillCounted ==
    ASSUME CountsKept
    PROVE  Units(Counted)' = Units(Counted)
<1>1. DOMAIN Counted = Born /\ DOMAIN Counted' = Born'
    BY DEF Counted
<1>2. \A d \in Born' : Counted'[d] = IF d \in Born THEN Counted[d] ELSE 0
    BY DEF CountsKept, Counted
<1>3. Born \subseteq Born' /\ 1..0 = {}
    BY DEF CountsKept
<1> QED
    BY <1>1, <1>2, <1>3 DEF Units

LEMMA QuietBooks ==
    ASSUME IInv, IInv', Books, NEW q \in Requests, NEW f, Turns(q, f), DueKnown(f),
           Kind(request[q]) = "none", Kind(f) \in {"none", "whole"}, UNCHANGED entries,
           Units(Counted)' = Units(Counted), NEW n \in {0, 1}, faults' = faults + n
    PROVE  Books'
<1>1. Units(Booked)' = Units(Booked)
    BY DEF Booked, Units
<1>2. Types /\ Types' /\ entries' \in [Notes -> Nat] /\ Finite
    BY DEF IInv, Books
<1>3. /\ IsFiniteSet(Units(Counted)) /\ Cardinality(Units(Counted)) \in Nat
      /\ IsFiniteSet(Units(Booked)) /\ Cardinality(Units(Booked)) \in Nat
    BY <1>2, FS_CardinalityType DEF Finite
<1>4. \A k \in Tracked : One(k, f) = 0 /\ One(k, request[q]) = 0
    BY DEF One, Tracked
<1>5. Owes(f) = 0 /\ Owes(request[q]) = 0
    BY <1>4 DEF Owes, Tracked
<1>6. One("limping", f) = 0 /\ One("limping", request[q]) = 0
    BY <1>4 DEF Tracked
<1>7. LET gap == 0 - 0 - (Owes(f) - Owes(request[q]))
          limps == One("limping", f) - One("limping", request[q])
      IN gap + limps <= n /\ limps - gap <= n
    BY <1>5, <1>6
<1> QED
    BY <1>1, <1>2, <1>3, <1>7, BooksTurn

LEMMA OnlyDownloadsCount ==
    /\ Kind(Idle) = "none" /\ DueKnown(Idle)
    /\ \A e : e.op # "download" => Kind(e) = "none" /\ DueKnown(e)
    /\ \A e : e.op = "download" /\ e.step # "count" => Kind(e) = "none"
    /\ \A e : e.op = "download" /\ e.step = "count" /\ e.due = Both /\ ~e.failed
                 => Kind(e) = "whole" /\ DueKnown(e)
BY DEF Kind, DueKnown, Idle, Both

LEMMA SaveBooks ==
    ASSUME IInv, IInv', Books, NEW q \in Requests, NEW target, NEW body,
           BeginSave(q, target, body)
    PROVE  Books'
<1> DEFINE f == [op |-> "save", step |-> "bind", target |-> target,
                 shape |-> NextShape(IF target = None THEN None ELSE deliverables[target], body)]
<1>1. /\ request[q] = Idle /\ Turns(q, f) /\ UNCHANGED <<deliverables, entries, faults>>
    BY DEF BeginSave, Begin, Turns
<1>2. f.op # "download"
    OBVIOUS
<1> HIDE DEF f
<1>3. Units(Counted)' = Units(Counted) /\ faults' = faults + 0
    BY <1>1 DEF Counted, Born, IInv, Types
<1> QED
    BY <1>1, <1>2, <1>3, OnlyDownloadsCount, QuietBooks

LEMMA SaverBooks ==
    ASSUME IInv, IInv', Books, NEW q \in Requests, Bind(q) \/ PinLinked(q)
    PROVE  Books'
<1>1. /\ request[q].op = "save" /\ UNCHANGED <<deliverables, entries, faults>>
      /\ \/ Turns(q, Idle)
         \/ \E step \in {"persist", "pin"} : Turns(q, [request[q] EXCEPT !.step = step])
    <2>1. CASE PinLinked(q)
        BY <2>1 DEF PinLinked, Goes, Turns, At
    <2>2. CASE Bind(q)
        <3>1. request[q].op = "save" /\ UNCHANGED <<deliverables, entries, faults>>
            BY <2>2 DEF Bind, At
        <3>2. request[q].shape.source \in Sources
            BY <3>1, Taken DEF IInv, Save, Shape
        <3>3. Ends(q) \/ \E step \in {"persist", "pin"} : Goes(q, step)
            BY <2>2, <3>2 DEF Bind, Sources
        <3> QED
            BY <3>1, <3>3 DEF Ends, Goes, Turns
    <2> QED
        BY <2>1, <2>2
<1>2. PICK f : Turns(q, f) /\ f.op # "download"
    <2>1. request[q] \in Save
        BY <1>1, Taken DEF IInv
    <2>2. \A step : [request[q] EXCEPT !.step = step].op = "save"
        BY <1>1, <2>1 DEF Save
    <2>3. Idle.op # "download"
        BY DEF Idle
    <2> QED
        BY <1>1, <2>2, <2>3
<1>3. Units(Counted)' = Units(Counted) /\ faults' = faults + 0
    BY <1>1 DEF Counted, Born, IInv, Types
<1> QED
    BY <1>1, <1>2, <1>3, OnlyDownloadsCount, QuietBooks

LEMMA PersistBooks ==
    ASSUME IInv, IInv', Books, NEW q \in Requests, Persist(q)
    PROVE  Books'
<1>1. request[q].op = "save" /\ request[q] \in Save
    BY Taken DEF Persist, At, IInv
<1>2. PICK f : Turns(q, f) /\ f.op # "download"
    <2>1. \/ request' = [request EXCEPT ![q] = Idle]
          \/ \E d : request' = [request EXCEPT ![q].step = "write", ![q].target = d]
        BY DEF Persist, Ends
    <2>2. CASE request' = [request EXCEPT ![q] = Idle]
        <3>1. Turns(q, Idle)
            BY <2>2 DEF Turns
        <3> QED
            BY <3>1 DEF Idle
    <2>3. ASSUME NEW d, request' = [request EXCEPT ![q].step = "write", ![q].target = d]
          PROVE  \E f : Turns(q, f) /\ f.op # "download"
        <3> DEFINE f == [request[q] EXCEPT !.step = "write", !.target = d]
        <3>1. Turns(q, f)
            BY <2>3 DEF Turns
        <3>2. f.op = "save"
            BY <1>1 DEF Save
        <3> QED
            BY <3>1, <3>2
    <2> QED
        BY <2>1, <2>2, <2>3
<1>3. Units(Counted)' = Units(Counted)
    BY PersistIInv, StillCounted
<1>4. UNCHANGED entries /\ faults' = faults + 0
    BY DEF Persist, IInv, Types
<1> QED
    BY <1>1, <1>2, <1>3, <1>4, OnlyDownloadsCount, QuietBooks

LEMMA ArchiveBooks ==
    ASSUME IInv, IInv', Books, NEW q \in Requests, WriteArchive(q) \/ RecordArchive(q)
    PROVE  Books'
<1> DEFINE e == request[q]
<1>1. /\ UNCHANGED <<entries, faults>>
      /\ e.op \in {"save", "download"} /\ e.step \in {"write", "record"}
      /\ \/ Turns(q, Idle)
         \/ \E step \in {"record", "count"} : Turns(q, [e EXCEPT !.step = step])
                                              /\ (step = "count" => e.op = "download")
    BY DEF WriteArchive, RecordArchive, At, Goes, Ends, Turns
<1>2. e \in Save \cup Download /\ DueKnown(e)
    BY <1>1, Taken DEF IInv, Books
<1>3. PICK f : Turns(q, f) /\ DueKnown(f) /\ Kind(f) \in {"none", "whole"}
    <2>1. ASSUME NEW step \in {"record", "count"}, Turns(q, [e EXCEPT !.step = step]),
                 step = "count" => e.op = "download"
          PROVE  \E f : Turns(q, f) /\ DueKnown(f) /\ Kind(f) \in {"none", "whole"}
        <3> DEFINE f == [e EXCEPT !.step = step]
        <3>1. /\ f.op = e.op /\ f.step = step
              /\ e.op = "download" => f.due = e.due /\ f.failed = e.failed
            BY <1>1, <1>2 DEF Save, Download
        <3> HIDE DEF f
        <3>2. e.op = "download" => e.due = Both /\ ~e.failed /\ e.due # {}
            BY <1>1, <1>2 DEF DueKnown
        <3>3. DueKnown(f) /\ Kind(f) \in {"none", "whole"}
            BY <2>1, <3>1, <3>2, OnlyDownloadsCount DEF DueKnown
        <3> QED
            BY <2>1, <3>3 DEF f
    <2> QED
        BY <1>1, <2>1, OnlyDownloadsCount
<1>4. Units(Counted)' = Units(Counted)
    <2>1. CASE WriteArchive(q)
        BY <2>1 DEF WriteArchive, Counted, Born
    <2>2. CASE RecordArchive(q)
        BY <2>2, RecordArchiveIInv, StillCounted
    <2> QED
        BY <2>1, <2>2
<1>5. Kind(e) = "none" /\ faults' = faults + 0
    BY <1>1, OnlyDownloadsCount DEF IInv, Types, Kind
<1> QED
    BY <1>1, <1>3, <1>4, <1>5, QuietBooks

LEMMA BeginDownloadBooks ==
    ASSUME IInv, IInv', Books, NEW q \in Requests, NEW d, NEW public,
           BeginDownload(q, d, public)
    PROVE  Books'
<1>1. PICK f : /\ Turns(q, f) /\ request[q] = Idle
               /\ f.op = "download" /\ f.due = Both /\ f.failed = FALSE
    <2>1. PICK step, content, settled :
            /\ request[q] = Idle
            /\ request' = [request EXCEPT ![q] =
                 [op |-> "download", target |-> d, public |-> public, step |-> step,
                  content |-> content, settled |-> settled, due |-> Both, failed |-> FALSE]]
        BY DEF BeginDownload, Begin, Both
    <2> DEFINE f == [op |-> "download", target |-> d, public |-> public, step |-> step,
                     content |-> content, settled |-> settled, due |-> Both, failed |-> FALSE]
    <2>2. Turns(q, f)
        BY <2>1 DEF Turns
    <2>3. f.op = "download" /\ f.due = Both /\ f.failed = FALSE
        OBVIOUS
    <2> QED
        BY <2>1, <2>2, <2>3
<1>2. DueKnown(f) /\ Kind(f) \in {"none", "whole"}
    BY <1>1 DEF DueKnown, Kind, Both
<1>3. Units(Counted)' = Units(Counted) /\ faults' = faults + 0 /\ UNCHANGED entries
    BY DEF BeginDownload, Counted, Born, IInv, Types
<1> QED
    BY <1>1, <1>2, <1>3, OnlyDownloadsCount, QuietBooks

LEMMA PinBooks ==
    ASSUME IInv, IInv', Books, NEW q \in Requests,
           (\E a, pinned : BeginPin(q, a, pinned)) \/ UpdatePin(q)
    PROVE  Books'
<1>1. PICK f : Turns(q, f) /\ request[q].op # "download" /\ f.op # "download"
    <2>1. Idle.op # "download"
        BY DEF Idle
    <2>2. CASE UpdatePin(q)
        BY <2>1, <2>2 DEF UpdatePin, Ends, Turns
    <2>3. ASSUME NEW a, NEW pinned, BeginPin(q, a, pinned)
          PROVE  \E f : Turns(q, f) /\ request[q].op # "download" /\ f.op # "download"
        <3> DEFINE f == [op |-> "pin", artifact |-> a, pinned |-> pinned]
        <3>1. Turns(q, f) /\ request[q] = Idle
            BY <2>3 DEF BeginPin, Begin, Turns
        <3>2. f.op # "download"
            OBVIOUS
        <3> QED
            BY <2>1, <3>1, <3>2
    <2> QED
        BY <2>2, <2>3
<1>2. UNCHANGED <<deliverables, entries, faults>>
    BY DEF BeginPin, UpdatePin
<1>3. Units(Counted)' = Units(Counted) /\ faults' = faults + 0
    BY <1>2 DEF Counted, Born, IInv, Types
<1> QED
    BY <1>1, <1>2, <1>3, OnlyDownloadsCount, QuietBooks

(* The recordings.                                                              *)
KindOfRest(due, failed) ==
    IF due = {} THEN "none" ELSE IF failed THEN "limping"
    ELSE IF due = {"entry"} THEN "ahead" ELSE IF due = {"deliverable"} THEN "behind" ELSE "whole"

LEMMA AnsweredTurns ==
    ASSUME Types, NEW q \in Requests, At(q, "download", "count"),
           NEW due \in SUBSET Both, NEW failed \in BOOLEAN, failed => due # Both,
           Answered(q, due, failed)
    PROVE  \E f : Turns(q, f) /\ DueKnown(f) /\ Kind(f) = KindOfRest(due, failed)
<1> DEFINE e == request[q]
           f == [e EXCEPT !.due = due, !.failed = failed]
<1>1. e \in Download /\ e.op = "download" /\ e.step = "count"
    BY Taken DEF At
<1>2. CASE due # {}
    <2>1. Turns(q, f)
        BY <1>2 DEF Answered, Turns
    <2>2. f.op = "download" /\ f.step = "count" /\ f.due = due /\ f.failed = failed
        BY <1>1 DEF Download
    <2> HIDE DEF f
    <2> QED
        BY <1>2, <2>1, <2>2 DEF DueKnown, Kind, KindOfRest
<1>3. CASE due = {}
    BY <1>3, OnlyDownloadsCount DEF Answered, Ends, Turns, KindOfRest
<1> QED
    BY <1>2, <1>3

LEMMA KindsAreDue ==
    ASSUME Types, Books, NEW q \in Requests, At(q, "download", "count")
    PROVE  /\ request[q].due \in SUBSET Both /\ request[q].failed \in BOOLEAN
           /\ request[q].failed => request[q].due # Both
           /\ Kind(request[q]) = KindOfRest(request[q].due, request[q].failed)
           /\ request[q].due \in {{"entry"}, {"deliverable"}, Both}
<1>1. request[q] \in Download /\ DueKnown(request[q])
    BY Taken DEF At, Books
<1>2. request[q].due \in SUBSET Both /\ request[q].due # {} /\ request[q].failed \in BOOLEAN
    BY <1>1 DEF Download, Both, DueKnown, At
<1>3. request[q].due \in {{"entry"}, {"deliverable"}, Both}
    BY <1>2 DEF Both
<1> QED
    BY <1>1, <1>2, <1>3 DEF DueKnown, Kind, KindOfRest, At

LEMMA CountBooks ==
    ASSUME IInv, IInv', Books, NEW q \in Requests, CountDeliverable(q)
    PROVE  Books'
<1> DEFINE e == request[q]
           d == e.target
           due == e.due \ {"deliverable"}
<1>1. /\ At(q, "download", "count") /\ "deliverable" \in e.due
      /\ deliverables' = [deliverables EXCEPT ![d].downloads = @ + 1]
      /\ Answered(q, due, e.failed) /\ UNCHANGED <<entries, faults>>
    BY DEF CountDeliverable
<1>2. Types /\ Types' /\ Finite /\ d \in Born /\ entries' \in [Notes -> Nat]
    BY <1>1, Taken DEF IInv, Books, At
<1>3. /\ e.due \in {{"deliverable"}, Both} /\ e.failed \in BOOLEAN /\ (e.failed => e.due # Both)
      /\ Kind(e) = KindOfRest(e.due, e.failed)
    <2>1. "deliverable" \notin {"entry"}
        OBVIOUS
    <2> QED
        BY <1>1, <1>2, <2>1, KindsAreDue
<1>4. due \in SUBSET Both /\ due # Both /\ (e.due = Both => due = {"entry"})
      /\ (e.due = {"deliverable"} => due = {})
    BY <1>3 DEF Both
<1> HIDE DEF due
<1>5. PICK f : Turns(q, f) /\ DueKnown(f) /\ Kind(f) = KindOfRest(due, e.failed)
    BY <1>1, <1>2, <1>3, <1>4, AnsweredTurns
<1>6. /\ IsFiniteSet(Units(Counted)') /\ Cardinality(Units(Counted)') = Cardinality(Units(Counted)) + 1
    <2>1. deliverables \in [Ids -> {None} \cup Row] /\ deliverables' \in [Ids -> {None} \cup Row]
        BY <1>2 DEF Types
    <2>2. d \in Ids /\ deliverables[d] \in Row
        BY <1>2, <2>1 DEF Born
    <2>3. /\ deliverables'[d] = [deliverables[d] EXCEPT !.downloads = @ + 1]
          /\ \A c \in Ids : c # d => deliverables'[c] = deliverables[c]
        BY <1>1, <2>1, <2>2
    <2>4. deliverables'[d].downloads = deliverables[d].downloads + 1
        BY <2>2, <2>3 DEF Row
    <2>5. Born' = Born
        BY CountDeliverableIInv
    <2>6. Counted \in [Born -> Nat]
        BY <2>1 DEF Counted, Born, Row
    <2>7. Counted' = [Counted EXCEPT ![d] = @ + 1]
        BY <1>2, <2>3, <2>4, <2>5 DEF Counted, Born
    <2>8. Units(Counted)' = Units(Counted')
        BY DEF Units
    <2> QED
        BY <1>2, <2>6, <2>7, <2>8, OneMoreUnit DEF Finite
<1>7. IsFiniteSet(Units(Booked)') /\ Cardinality(Units(Booked)') = Cardinality(Units(Booked)) + 0
    BY <1>1, <1>2, FS_CardinalityType DEF Booked, Units, Finite
<1>8. faults' = faults + 0
    BY <1>1, <1>2 DEF Types
<1>9. LET gap == 1 - 0 - (Owes(f) - Owes(e))
          limps == One("limping", f) - One("limping", e)
      IN gap + limps <= 0 /\ limps - gap <= 0
    BY <1>3, <1>4, <1>5 DEF KindOfRest, Owes, One, Both
<1> QED
    BY <1>2, <1>5, <1>6, <1>7, <1>8, <1>9, BooksTurn

LEMMA BookBooks ==
    ASSUME IInv, IInv', Books, NEW q \in Requests, BookEntry(q)
    PROVE  Books'
<1> DEFINE e == request[q]
           due == e.due \ {"entry"}
           note == IF e.content \in Artifacts THEN <<"via", e.content>> ELSE <<"bundle", e.target>>
<1>1. /\ At(q, "download", "count") /\ "entry" \in e.due
      /\ entries' = [entries EXCEPT ![note] = @ + 1]
      /\ Answered(q, due, e.failed) /\ UNCHANGED <<deliverables, faults>>
    BY DEF BookEntry
<1>2. Types /\ Types' /\ Finite /\ e \in Download /\ entries \in [Notes -> Nat]
    BY <1>1, Taken DEF IInv, Books, At
<1>3. /\ e.due \in {{"entry"}, Both} /\ e.failed \in BOOLEAN /\ (e.failed => e.due # Both)
      /\ Kind(e) = KindOfRest(e.due, e.failed)
    <2>1. "entry" \notin {"deliverable"}
        OBVIOUS
    <2> QED
        BY <1>1, <1>2, <2>1, KindsAreDue
<1>4. due \in SUBSET Both /\ due # Both /\ (e.due = Both => due = {"deliverable"})
      /\ (e.due = {"entry"} => due = {})
    BY <1>3 DEF Both
<1>5. note \in Notes /\ note[1] # "download"
    BY <1>2 DEF Download, Notes
<1> HIDE DEF due, note
<1>6. PICK f : Turns(q, f) /\ DueKnown(f) /\ Kind(f) = KindOfRest(due, e.failed)
    BY <1>1, <1>2, <1>3, <1>4, AnsweredTurns
<1>7. entries' \in [Notes -> Nat]
    BY <1>1, <1>2, <1>5
<1>8. /\ IsFiniteSet(Units(Booked)') /\ Cardinality(Units(Booked)') = Cardinality(Units(Booked)) + 1
    <2> DEFINE S == {n \in Notes : n[1] # "download"}
    <2>1. Booked = [n \in S |-> entries[n]] /\ Booked' = [n \in S |-> entries'[n]]
        BY <1>2, <1>7 DEF Booked
    <2>2. Booked \in [S -> Nat] /\ note \in S
        BY <1>2, <1>5, <2>1
    <2>3. Booked' = [Booked EXCEPT ![note] = @ + 1]
        BY <1>1, <1>2, <2>1, <2>2
    <2> HIDE DEF S
    <2>4. Units(Booked)' = Units(Booked')
        BY DEF Units
    <2> QED
        BY <1>2, <2>2, <2>3, <2>4, OneMoreUnit DEF Finite
<1>9. IsFiniteSet(Units(Counted)') /\ Cardinality(Units(Counted)') = Cardinality(Units(Counted)) + 0
    BY <1>1, <1>2, FS_CardinalityType DEF Counted, Born, Units, Finite
<1>10. faults' = faults + 0
    BY <1>1, <1>2 DEF Types
<1>11. LET gap == 0 - 1 - (Owes(f) - Owes(e))
           limps == One("limping", f) - One("limping", e)
       IN gap + limps <= 0 /\ limps - gap <= 0
    BY <1>3, <1>4, <1>6 DEF KindOfRest, Owes, One, Both
<1> QED
    BY <1>2, <1>6, <1>7, <1>8, <1>9, <1>10, <1>11, BooksTurn

(* A recording that throws is a fault; so is any other statement that does.     *)
LEMMA FailBooks ==
    ASSUME IInv, IInv', Books, NEW q \in Requests, Fail(q)
    PROVE  Books'
<1> DEFINE e == request[q]
<1>1. UNCHANGED <<deliverables, entries>> /\ faults' = faults + 1
    BY DEF Fail
<1>2. Types /\ Types' /\ Finite /\ entries' \in [Notes -> Nat]
    BY <1>1 DEF IInv, Books
<1>3. CASE ~At(q, "download", "count")
    <2>1. Turns(q, Idle) /\ Kind(e) = "none"
        BY <1>3 DEF Fail, Ends, Turns, At, Kind
    <2>2. Units(Counted)' = Units(Counted)
        BY <1>1 DEF Counted, Born
    <2> QED
        BY <1>1, <2>1, <2>2, OnlyDownloadsCount, QuietBooks
<1>4. CASE At(q, "download", "count")
    <2>1. PICK part \in e.due : Answered(q, e.due \ {part}, TRUE)
        BY <1>4 DEF Fail
    <2> DEFINE due == e.due \ {part}
    <2>2. /\ e.due \in {{"entry"}, {"deliverable"}, Both} /\ e.failed \in BOOLEAN
          /\ (e.failed => e.due # Both) /\ Kind(e) = KindOfRest(e.due, e.failed)
        BY <1>2, <1>4, KindsAreDue
    <2>3. /\ due \in SUBSET Both /\ due # Both
          /\ e.due # Both => due = {}
          /\ e.due = Both => due # {}
        BY <2>2 DEF Both
    <2> HIDE DEF due
    <2>4. PICK f : Turns(q, f) /\ DueKnown(f) /\ Kind(f) = KindOfRest(due, TRUE)
        BY <1>2, <1>4, <2>1, <2>3, AnsweredTurns DEF due
    <2>5. LET gap == 0 - 0 - (Owes(f) - Owes(e))
              limps == One("limping", f) - One("limping", e)
          IN gap + limps <= 1 /\ limps - gap <= 1
        <3>1. CASE e.due = Both
            <4>1. Kind(e) = "whole" /\ Kind(f) = "limping"
                BY <2>2, <2>3, <2>4, <3>1 DEF KindOfRest, Both
            <4> QED
                BY <4>1 DEF Owes, One
        <3>2. CASE e.due # Both
            <4>1. Kind(f) = "none" /\ Kind(e) \in {"limping", "ahead", "behind"}
                BY <2>2, <2>3, <2>4, <3>2 DEF KindOfRest
            <4> QED
                BY <4>1 DEF Owes, One
        <3> QED
            BY <3>1, <3>2
    <2>6. /\ IsFiniteSet(Units(Counted)') /\ IsFiniteSet(Units(Booked)')
          /\ Cardinality(Units(Counted)') = Cardinality(Units(Counted)) + 0
          /\ Cardinality(Units(Booked)') = Cardinality(Units(Booked)) + 0
        BY <1>1, <1>2, FS_CardinalityType DEF Counted, Booked, Born, Units, Finite
    <2> QED
        BY <1>1, <1>2, <2>4, <2>5, <2>6, BooksTurn
<1> QED
    BY <1>3, <1>4

(* What leaves the handlers alone and books no deliverable.                     *)
LEMMA OtherBooks ==
    ASSUME IInv, Books, UNCHANGED <<deliverables, request, faults>>,
           \/ UNCHANGED entries
           \/ \E a \in Artifacts : entries' = [entries EXCEPT ![<<"download", a>>] = @ + 1]
    PROVE  Books'
<1>1. entries \in [Notes -> Nat]
    BY DEF Books
<1>2. entries' \in [Notes -> Nat] /\ \A n \in Notes : n[1] # "download" => entries'[n] = entries[n]
    <2>1. CASE UNCHANGED entries
        BY <1>1, <2>1
    <2>2. ASSUME NEW a \in Artifacts, entries' = [entries EXCEPT ![<<"download", a>>] = @ + 1]
          PROVE  /\ entries' \in [Notes -> Nat]
                 /\ \A n \in Notes : n[1] # "download" => entries'[n] = entries[n]
        <3>1. <<"download", a>> \in Notes /\ <<"download", a>>[1] = "download"
            BY DEF Notes
        <3> QED
            BY <1>1, <2>2, <3>1
    <2> QED
        BY <2>1, <2>2
<1>3. Booked' = Booked
    BY <1>1, <1>2 DEF Booked
<1>4. Counted' = Counted
    BY DEF Counted, Born
<1>5. Units(Booked)' = Units(Booked) /\ Units(Counted)' = Units(Counted)
    BY <1>3, <1>4 DEF Units
<1>6. \A k : Those(k)' = Those(k) /\ Many(k)' = Many(k)
    BY DEF Those, Many
<1> QED
    BY <1>2, <1>5, <1>6 DEF Books, Finite, Balanced, Gap

LEMMA InitBooks == Init => Books
<1> SUFFICES ASSUME Init PROVE Books
    OBVIOUS
<1>1. entries \in [Notes -> Nat]
    BY DEF Init, Notes
<1>2. \A q \in Requests : DueKnown(request[q]) /\ Kind(request[q]) = "none"
    BY OnlyDownloadsCount DEF Init
<1>3. \A k \in Tracked : Those(k) = {}
    BY <1>2 DEF Those, Tracked
<1>4. Units(Counted) = {} /\ Units(Booked) = {}
    <2>1. Born = {} /\ 1..0 = {}
        BY DEF Init, Born
    <2>2. \A n \in DOMAIN entries : entries[n] = 0
        BY DEF Init
    <2> QED
        BY <2>1, <2>2 DEF Units, Counted, Booked
<1>5. Finite
    BY <1>3, <1>4, FS_EmptySet DEF Finite
<1>6. Many("ahead") = 0 /\ Many("behind") = 0 /\ Many("limping") = 0
    BY <1>3, FS_EmptySet DEF Many, Tracked
<1>7. Gap = 0
    BY <1>4, <1>6, FS_EmptySet DEF Gap
<1>8. Balanced
    BY <1>6, <1>7 DEF Balanced, Init
<1> QED
    BY <1>1, <1>2, <1>5, <1>8 DEF Books

LEMMA NextBooks ==
    ASSUME IInv, Books, [Next]_vars PROVE Books'
<1>0. IInv'
    BY NextIInv
<1>1. ASSUME NEW q \in Requests, NEW target, NEW body, BeginSave(q, target, body)
      PROVE  Books'
    BY <1>0, <1>1, SaveBooks
<1>2. ASSUME NEW q \in Requests,
             Bind(q) \/ PinLinked(q) \/ Persist(q) \/ WriteArchive(q) \/ RecordArchive(q)
      PROVE  Books'
    BY <1>0, <1>2, SaverBooks, PersistBooks, ArchiveBooks
<1>3. ASSUME NEW q \in Requests, NEW d, NEW public, BeginDownload(q, d, public)
      PROVE  Books'
    BY <1>0, <1>3, BeginDownloadBooks
<1>4. ASSUME NEW q \in Requests, CountDeliverable(q) \/ BookEntry(q) \/ Fail(q)
      PROVE  Books'
    BY <1>0, <1>4, CountBooks, BookBooks, FailBooks
<1>5. ASSUME NEW q \in Requests, (\E a, pinned : BeginPin(q, a, pinned)) \/ UpdatePin(q)
      PROVE  Books'
    BY <1>0, <1>5, PinBooks
<1>6. ASSUME NEW a \in Artifacts, FetchArtifact(a)
      PROVE  Books'
    BY <1>6, OtherBooks DEF FetchArtifact
<1>7. CASE UNCHANGED vars
    BY <1>7, OtherBooks DEF vars
<1> QED
    BY <1>1, <1>2, <1>3, <1>4, <1>5, <1>6, <1>7 DEF Next

(* Both recordings of a download are made or accounted for: what the rows count *)
(* and what the ledger charges for differ by no more than what is under way or  *)
(* threw, although Promise.all lets one fail alone.                             *)
THEOREM CountsAreBooked == Spec => []DownloadsAreBooked
<1>1. ASSUME IInv, Books PROVE DownloadsAreBooked
    <2> DEFINE half == {q \in Requests : At(q, "download", "count")
                                        /\ Cardinality(request[q].due) = 1}
    <2>1. Finite /\ Balanced /\ faults \in Nat
        BY <1>1 DEF Books, IInv, Types
    <2>2. /\ \A k \in Tracked : IsFiniteSet(Those(k)) /\ Many(k) \in Nat
          /\ Cardinality(Units(Counted)) \in Nat /\ Cardinality(Units(Booked)) \in Nat
        BY <2>1, FS_CardinalityType DEF Finite, Many
    <2>3. ASSUME NEW q \in half
          PROVE  Kind(request[q]) \in Tracked
        <3>1. At(q, "download", "count") /\ q \in Requests
            OBVIOUS
        <3>2. Cardinality(Both) # 1
            <4>1. IsFiniteSet({"deliverable"} \cup {"entry"})
                BY FS_Singleton, FS_AddElement
            <4>2. Both = {"deliverable"} \cup {"entry"} /\ ~\E x : Both = {x}
                BY DEF Both
            <4> QED
                BY <4>1, <4>2, FS_Singleton
        <3>3. request[q].due # Both
            BY <3>2
        <3>4. /\ request[q].due \in {{"entry"}, {"deliverable"}, Both}
              /\ Kind(request[q]) = KindOfRest(request[q].due, request[q].failed)
            BY <1>1, <3>1, KindsAreDue DEF IInv
        <3> QED
            BY <3>3, <3>4 DEF KindOfRest, Tracked
    <2>4. \A q \in Requests : Kind(request[q]) \in {"ahead", "behind"} => q \in half
        <3> SUFFICES ASSUME NEW q \in Requests, Kind(request[q]) \in {"ahead", "behind"}
                     PROVE  q \in half
            OBVIOUS
        <3>1. At(q, "download", "count") /\ request[q].due \in {{"entry"}, {"deliverable"}}
            BY DEF Kind, At
        <3> QED
            BY <3>1, FS_Singleton
    <2>5. IsFiniteSet(half) /\ Many("ahead") + Many("behind") <= Cardinality(half)
        <3>1. half \subseteq (Those("ahead") \cup Those("behind")) \cup Those("limping")
            BY <2>3 DEF Those, Tracked
        <3>2. Those("ahead") \cup Those("behind") \subseteq half
            BY <2>4 DEF Those
        <3>3. Those("ahead") \cap Those("behind") = {}
            BY DEF Those
        <3> HIDE DEF half
        <3>4. /\ IsFiniteSet(Those("ahead")) /\ IsFiniteSet(Those("behind"))
              /\ IsFiniteSet(Those("limping"))
            BY <2>2 DEF Tracked
        <3>5. /\ IsFiniteSet(Those("ahead") \cup Those("behind"))
              /\ Cardinality(Those("ahead") \cup Those("behind")) =
                   Many("ahead") + Many("behind") - 0
            BY <3>3, <3>4, FS_Union, FS_EmptySet DEF Many
        <3>6. IsFiniteSet(half)
            BY <3>1, <3>4, <3>5, FS_Union, FS_Subset
        <3>7. Cardinality(Those("ahead") \cup Those("behind")) <= Cardinality(half)
            BY <3>2, <3>6, FS_Subset
        <3> QED
            BY <2>2, <3>5, <3>6, <3>7 DEF Tracked
    <2>6. Many("ahead") \in Nat /\ Many("behind") \in Nat /\ Many("limping") \in Nat
        BY <2>2 DEF Tracked
    <2>7. Cardinality(half) \in Nat
        BY <2>5, FS_CardinalityType
    <2> HIDE DEF half
    <2>8. Cardinality(Units(Counted)) - Cardinality(Units(Booked))
            \in -(Cardinality(half) + faults)..(Cardinality(half) + faults)
        BY <2>1, <2>2, <2>5, <2>6, <2>7 DEF Balanced, Gap
    <2> QED
        BY <2>8 DEF DownloadsAreBooked, half
<1>2. IInv /\ Books /\ [Next]_vars => Books'
    BY NextBooks
<1>3. IInv /\ Books => DownloadsAreBooked
    BY <1>1
<1> QED
    BY <1>2, <1>3, InitBooks, InvariantHolds, PTL DEF Spec
================================================================================
