------------------------- MODULE DashboardPanels -------------------------
(***************************************************************************)
(* The owner's dashboard as the browser runs it (apps/web/app/dashboard):  *)
(* one page with a panel for the chosen view and representative, and the   *)
(* API routes its buttons and refreshes call.                              *)
(*                                                                         *)
(* A click starts a chain of awaits: the request, what the route commits,  *)
(* the refresh's own requests, and only then the panel's new state.  The   *)
(* links that choose another representative re-render the page around the *)
(* SAME mounted panel, so that the chain goes on and sets the state of a   *)
(* panel that is now about somebody else; a link to another view mounts a  *)
(* new panel and the old chain's answers go nowhere.                       *)
(*                                                                         *)
(* What the owner types is a Text: the representative whose stored text it *)
(* goes back to, and how often it was edited since.  What the owner moves *)
(* is a Row: an approval, an artifact, a pack, by the id the page shows.   *)
(***************************************************************************)
EXTENDS Naturals, FiniteSets

CONSTANTS
    Representatives,    \* the slugs of the directory
    NoOne,              \* the representative of what was never loaded
    MaxMoves,           \* bound: what the owner edits, chooses and starts
    MaxEdits,           \* bound: the edits of one text
    MaxDisturbances     \* bound: links followed, calls failed, changes by others

ASSUME PanelsAssumption ==
    /\ NoOne \notin Representatives
    /\ Representatives # {} /\ IsFiniteSet(Representatives)
    /\ {MaxMoves, MaxEdits, MaxDisturbances} \subseteq Nat

(***************************************************************************)
(* What the views show: the answers of the routes they fetch, each with    *)
(* the texts it can edit and the rows it can act on.                       *)
(***************************************************************************)
Views == {"overview", "setup", "skills", "compute", "memory"}

PartsOf == [overview |-> {"inbox"}, setup |-> {"identity", "memory"}, skills |-> {"packs"},
            compute |-> {"settings", "files"}, memory |-> {"recall"}]

FormsOf == [inbox |-> {}, identity |-> {"setup"}, memory |-> {"memory"}, packs |-> {},
            settings |-> {"overlays", "governance"}, files |-> {}, recall |-> {}]

Parts == DOMAIN FormsOf
Forms == UNION {FormsOf[p] : p \in Parts}
Names == {"handoff", "resources", "pack", "binding", "approval", "artifact1", "artifact2", "deliverable"}

Text == [of : Representatives, n : 0..MaxEdits]
NoText == [of |-> NoOne, n |-> 0]
Row == [of : Representatives, name : Names]
NoRow == [of |-> NoOne, name |-> ""]

ArtifactNames == {"artifact1", "artifact2"}
Artifacts == {a \in Row : a.name \in ArtifactNames}
Age == [artifact1 |-> 2, artifact2 |-> 1]

StatesOf(name) ==
    CASE name = "handoff" -> {"open", "reviewing", "accepted", "declined", "closed"}
      [] name = "resources" -> {"never", "synced", "failed"}
      [] name = "pack" -> {"available", "off", "on"}
      [] name = "binding" -> {"absent", "saved"}
      [] name = "approval" -> {"pending", "approved", "rejected", "expired"}
      [] name = "deliverable" -> {"absent", "artifact", "bundle", "link"}
      [] OTHER -> {"absent", "loose", "pinned"}

VARIABLES
    db,         \* per representative: its texts, its rows, what its deliverable holds
    panel,      \* the mounted panel's state
    flights,    \* the chains of awaits under way
    moves, disturbances,        \* how often, up to the bounds
    served,     \* the moves whose operation the server committed
    calm        \* since the panel's last load nothing overlapped and nobody else wrote

vars == <<db, panel, flights, moves, disturbances, served, calm>>

(***************************************************************************)
(* What a route answers with: its part of the representative's data at the *)
(* moment it reads.  (The code lists the newest 50 artifacts; here all.)   *)
(***************************************************************************)
Stored(r) == {x \in ArtifactNames : db[r].rows[x] # "absent"}

Pinned(r) == {x \in Stored(r) : db[r].rows[x] = "pinned"}

Told(r, p, names) ==
    [of    |-> r,
     texts |-> [f \in FormsOf[p] |-> db[r].texts[f]],
     rows  |-> [x \in names |-> db[r].rows[x]],
     items |-> {}, pinned |-> {}]

Overview(r) == Told(r, "inbox", {"handoff"})
Setup(r) == Told(r, "identity", {})
Memory(r) == Told(r, "memory", {"resources"})
SkillPacks(r) == Told(r, "packs", {"pack"})
Compute(r) == Told(r, "settings", {"binding"})
Recall(r) == Told(r, "recall", {"resources"})

\* The approvals, artifacts, deliverables and presets; a preset takes what is pinned.
Files(r) ==
    [Told(r, "files", {"approval", "deliverable"} \cup Stored(r)) EXCEPT
       !.items = db[r].items,
       !.pinned = {[of |-> r, name |-> x] : x \in Pinned(r)}]

Answer(r, p) ==
    CASE p = "inbox" -> Overview(r)
      [] p = "identity" -> Setup(r)
      [] p = "memory" -> Memory(r)
      [] p = "packs" -> SkillPacks(r)
      [] p = "settings" -> Compute(r)
      [] p = "files" -> Files(r)
      [] p = "recall" -> Recall(r)

Unloaded == [of |-> NoOne, texts |-> [f \in {} |-> NoText], rows |-> [x \in {} |-> ""], items |-> {},
             pinned |-> {}]

(***************************************************************************)
(* The panel's state.  The composer is the deliverable form, editing says  *)
(* that the binding form holds a stored binding, busy is the busyKey.      *)
(***************************************************************************)
NoKey == [op |-> "", row |-> NoRow, to |-> ""]
NewDeliverable == [row |-> NoRow, source |-> "artifact", items |-> {}]
NoDetail == [row |-> NoRow, state |-> ""]

Mounted(v, r) ==
    [view |-> v, slug |-> r,
     shown |-> [p \in PartsOf[v] |-> Unloaded],
     drafts |-> [f \in UNION {FormsOf[p] : p \in PartsOf[v]} |-> NoText],
     selected |-> NoRow, detail |-> NoDetail, composer |-> NewDeliverable, editing |-> FALSE,
     busy |-> NoKey, message |-> 0, failed |-> FALSE]

IsShown(p) == p \in PartsOf[panel.view] /\ panel.shown[p].of # NoOne

ShownRow(p, name) == [of |-> panel.shown[p].of, name |-> name]

ShowsArtifacts(pn) ==
    IF pn.view # "compute" THEN {}
    ELSE {[of |-> pn.shown["files"].of, name |-> x] : x \in ArtifactNames \cap DOMAIN pn.shown["files"].rows}

ShowsPinned(pn) == {a \in ShowsArtifacts(pn) : pn.shown["files"].rows[a.name] = "pinned"}

(***************************************************************************)
(* The effects of a render: the selection falls back to the first artifact *)
(* listed; a changed list of pinned artifacts prunes the composer.         *)
(***************************************************************************)
Newest(as) == CHOOSE a \in as : \A b \in as : Age[a.name] <= Age[b.name]

Reselected(pn) ==
    LET as == ShowsArtifacts(pn)
    IN  [pn EXCEPT !.selected = IF as = {} THEN NoRow ELSE IF @ \in as THEN @ ELSE Newest(as),
                   !.detail = IF as = {} THEN NoDetail ELSE @]

Pruned(pn) ==
    IF ShowsPinned(pn) = ShowsPinned(panel) \/ pn.composer.source # "bundle" THEN pn
    ELSE [pn EXCEPT !.composer.items = @ \cap ShowsPinned(pn)]

(***************************************************************************)
(* The chains.  A flight is the click's operation and what it captured; it *)
(* is sent, then refused or done, and done it reads the parts it refreshes.*)
(* A load of the panel and the fetch of an artifact's detail are flights   *)
(* that have nothing to commit.                                            *)
(***************************************************************************)
Flight(id, op, slug, parts) ==
    [id |-> id, op |-> op, slug |-> slug, row |-> NoRow, to |-> "", text |-> NoText, items |-> {},
     parts |-> parts, at |-> IF id = 0 THEN "done" ELSE "sent", live |-> TRUE,
     got |-> [p \in {} |-> Unloaded]]

Loads(v, r) ==
    IF v = "setup" THEN {Flight(0, "load", r, {p}) : p \in PartsOf[v]}
    ELSE {Flight(0, "load", r, PartsOf[v])}

Fetch(pn) == {[Flight(0, "detail", pn.slug, {}) EXCEPT !.row = pn.selected]}

Chains(fs) == {f \in fs : f.op # "detail"}

Uncancelled(fs) == Chains(fs)

Refetched(pn, fs) ==
    IF pn.selected = panel.selected /\ pn.slug = panel.slug THEN fs
    ELSE Uncancelled(fs) \cup IF pn.selected = NoRow THEN {} ELSE Fetch(pn)

Renders(pn, fs) ==
    LET next == Reselected(Pruned(pn))
    IN  /\ panel' = next
        /\ flights' = Refetched(next, fs)

TypeOK ==
    /\ \A r \in Representatives :
          /\ db[r].texts \in [Forms -> Text]
          /\ \A x \in Names : db[r].rows[x] \in StatesOf(x)
          /\ db[r].items \subseteq Artifacts
          /\ db[r].rows["deliverable"] \in {"artifact", "bundle"} <=> db[r].items # {}
    /\ panel.view \in Views /\ panel.slug \in Representatives
    /\ panel.selected \in ShowsArtifacts(panel) \cup {NoRow}
    /\ DOMAIN panel.shown = PartsOf[panel.view]
    /\ \A p \in DOMAIN panel.shown : \A f \in FormsOf[p] :
          (panel.drafts[f] = NoText) <=> (panel.shown[p] = Unloaded)
    /\ \A f \in flights : f.at \in {"sent", "done", "refused", "unread"} /\ DOMAIN f.got \subseteq f.parts
    /\ served \subseteq 1..moves /\ calm \in BOOLEAN

\* What an owner may find: a representative with two artifacts, and one in use; each
\* has an owner of its own, as creating a representative makes it.
Starts ==
    LET first == [handoff |-> "open", resources |-> "never", pack |-> "available", binding |-> "absent",
                  approval |-> "pending", artifact1 |-> "pinned", artifact2 |-> "loose",
                  deliverable |-> "absent"]
    IN  {first,
         [first EXCEPT !.handoff = "reviewing", !.resources = "synced", !.pack = "off", !.binding = "saved",
                       !.artifact2 = "absent", !.deliverable = "bundle"]}

Init ==
    /\ \E start \in Starts :
          db = [r \in Representatives |->
                  [texts |-> [f \in Forms |-> [of |-> r, n |-> 0]],
                   rows |-> start,
                   items |-> IF start.deliverable = "absent" THEN {}
                             ELSE {[of |-> r, name |-> "artifact1"]}]]
    /\ \E v \in Views, r \in Representatives : panel = Mounted(v, r) /\ flights = Loads(v, r)
    /\ moves = 0 /\ disturbances = 0
    /\ served = {}
    /\ calm = TRUE

(***************************************************************************)
(* The links.  Another representative: the panel stays mounted, what it    *)
(* shows and what was typed stays until the load has answered, the forms   *)
(* of a binding and of a deliverable are emptied, and chains go on.        *)
(***************************************************************************)
SwitchRepresentative(r) ==
    LET next == [panel EXCEPT !.slug = r, !.composer = NewDeliverable, !.editing = FALSE,
                              !.failed = @ /\ panel.view # "compute"]
    IN  /\ disturbances < MaxDisturbances
        /\ r # panel.slug
        /\ Renders(next, flights \cup Loads(panel.view, r))
        /\ calm' = (Chains(flights) = {})
        /\ disturbances' = disturbances + 1
        /\ UNCHANGED <<db, moves, served>>

\* Another view: a new panel; a request on its way is still served.
SwitchView(v) ==
    LET sent == {f \in flights : f.at = "sent"}
    IN  /\ disturbances < MaxDisturbances
        /\ v # panel.view
        /\ panel' = Mounted(v, panel.slug)
        /\ flights' = {[f EXCEPT !.live = FALSE] : f \in sent} \cup Loads(v, panel.slug)
        /\ calm' = (sent = {})
        /\ disturbances' = disturbances + 1
        /\ UNCHANGED <<db, moves, served>>

(***************************************************************************)
(* What the owner types and chooses.                                       *)
(***************************************************************************)
Types(f) ==
    /\ f \in DOMAIN panel.drafts
    /\ panel.drafts[f] # NoText
    /\ panel.drafts[f].n < MaxEdits
    /\ moves < MaxMoves
    /\ moves' = moves + 1
    /\ panel' = [panel EXCEPT !.drafts[f].n = @ + 1]
    /\ UNCHANGED <<db, flights, disturbances, served, calm>>

EditSetup == Types("setup")
EditMemory == Types("memory")
EditOverlays == Types("overlays")
EditGovernance == Types("governance")

Chooses(pn) ==
    /\ IsShown("files")
    /\ pn # panel
    /\ moves < MaxMoves
    /\ moves' = moves + 1
    /\ Renders(pn, flights)
    /\ UNCHANGED <<db, disturbances, served, calm>>

Select == \E a \in ShowsArtifacts(panel) : Chooses([panel EXCEPT !.selected = a])

StartEditDeliverable ==
    LET rows == panel.shown["files"].rows
        items == panel.shown["files"].items
    IN  /\ IsShown("files")
        /\ rows["deliverable"] # "absent"
        /\ Chooses([panel EXCEPT
                      !.composer = [row |-> ShownRow("files", "deliverable"), source |-> rows["deliverable"],
                                    items |-> IF rows["deliverable"] = "bundle" THEN items ELSE {}],
                      !.selected = IF rows["deliverable"] = "artifact" THEN CHOOSE a \in items : TRUE ELSE @,
                      !.message = 0, !.failed = FALSE])

PrepareDeliverable ==
    /\ panel.detail # NoDetail
    /\ Chooses([panel EXCEPT !.composer = NewDeliverable])

ApplyPreset ==
    LET pinned == panel.shown["files"].pinned
    IN  /\ IsShown("files")
        /\ \/ Chooses([panel EXCEPT !.composer = [NewDeliverable EXCEPT !.source = "bundle", !.items = pinned],
                                   !.selected = NoRow, !.message = 0, !.failed = FALSE])
           \/ \E a \in pinned :
                 Chooses([panel EXCEPT !.composer = NewDeliverable, !.selected = a,
                                       !.message = 0, !.failed = FALSE])

ChooseSource ==
    \E s \in {"artifact", "bundle", "link"} :
        Chooses([panel EXCEPT
                  !.composer.source = s,
                  !.composer.items = IF s = "bundle" /\ @ = {} THEN ShowsPinned(panel) ELSE @])

ToggleItem ==
    /\ panel.composer.source = "bundle"
    /\ \E a \in ShowsPinned(panel) :
          Chooses([panel EXCEPT !.composer.items = IF a \in @ THEN @ \ {a} ELSE @ \cup {a}])

StartEditBinding ==
    /\ IsShown("settings")
    /\ panel.shown["settings"].rows["binding"] = "saved"
    /\ ~panel.editing
    /\ moves < MaxMoves
    /\ moves' = moves + 1
    /\ panel' = [panel EXCEPT !.editing = TRUE, !.message = 0, !.failed = FALSE]
    /\ UNCHANGED <<db, flights, disturbances, served, calm>>

(***************************************************************************)
(* The buttons.  One busyKey says which button is at work: another one's   *)
(* click replaces it, and the first button is enabled again while its      *)
(* request is under way.  Saving the setup sets no key at all.             *)
(***************************************************************************)
Key(op, row, to) == [op |-> op, row |-> row, to |-> to]

Click(key, flight) ==
    /\ moves < MaxMoves
    /\ panel.busy # key \/ key = NoKey
    /\ Renders([panel EXCEPT !.busy = IF key = NoKey THEN @ ELSE key, !.message = 0, !.failed = FALSE],
               flights \cup {flight})
    /\ moves' = moves + 1
    /\ calm' = (calm /\ Chains(flights) = {})
    /\ UNCHANGED <<db, disturbances, served>>

NewFlightOfSettings(op, parts) == Flight(moves + 1, op, panel.slug, parts \ {"files"})

NewFlight(op, parts) == Flight(moves + 1, op, panel.slug, parts)

Save(f, p, key) ==
    /\ IsShown(p)
    /\ Click(key, [NewFlight(f, IF panel.view = "setup" THEN {p} ELSE PartsOf[panel.view])
                     EXCEPT !.text = panel.drafts[f]])

SaveSetup == Save("setup", "identity", NoKey)
SaveMemory == Save("memory", "memory", Key("memory", NoRow, ""))
SaveOverlays == Save("overlays", "settings", Key("overlays", NoRow, ""))
SaveGovernance == Save("governance", "settings", Key("governance", NoRow, ""))

\* The setup's sync button, and the memory view's two: one route.
Sync ==
    \/ /\ IsShown("memory")
       /\ Click(Key("sync", NoRow, ""), NewFlight("sync", {"memory"}))
    \/ /\ IsShown("recall")
       /\ \E trigger \in {"manual", "retry"} :
             Click(Key("sync", NoRow, trigger), NewFlight("sync", {"recall"}))

Act(op, row, to, key) ==
    Click(key, [NewFlight(op, PartsOf[panel.view]) EXCEPT !.row = row, !.to = to])

NextStatuses == [open |-> {"reviewing", "accepted", "declined"}, reviewing |-> {"accepted", "closed"},
                 accepted |-> {"closed"}, declined |-> {}, closed |-> {}]

ChangeStatus ==
    LET row == ShownRow("inbox", "handoff")
    IN  /\ IsShown("inbox")
        /\ \E to \in NextStatuses[panel.shown["inbox"].rows["handoff"]] :
              Act("handoff", row, to, Key("handoff", row, to))

Install ==
    LET row == [of |-> panel.slug, name |-> "pack"]
    IN  /\ IsShown("packs")
        /\ panel.shown["packs"].rows["pack"] = "available"
        /\ Act("install", row, "off", Key("install", row, ""))

TogglePack ==
    LET row == ShownRow("packs", "pack")
    IN  /\ IsShown("packs")
        /\ panel.shown["packs"].rows["pack"] # "available"
        /\ Act("pack", row, IF panel.shown["packs"].rows["pack"] = "on" THEN "off" ELSE "on",
               Key("pack", row, ""))

Resolve ==
    LET row == ShownRow("files", "approval")
    IN  /\ IsShown("files")
        /\ panel.shown["files"].rows["approval"] = "pending"
        /\ \E to \in {"approved", "rejected"} : Act("approval", row, to, Key("approval", row, to))

\* The run stores its trace as a new artifact of the session's representative.
RunNative ==
    LET trace == ShownRow("settings", "artifact2")
    IN  /\ IsShown("settings")
        /\ Act("native", trace, "loose", Key("native", NoRow, ""))

SaveBinding ==
    LET row == IF panel.editing THEN ShownRow("settings", "binding")
               ELSE [of |-> panel.slug, name |-> "binding"]
    IN  /\ IsShown("settings")
        /\ Act("binding", row, IF panel.editing THEN "update" ELSE "create", Key("binding", NoRow, ""))

TogglePin ==
    LET row == panel.detail.row
    IN  /\ IsShown("files")
        /\ panel.detail # NoDetail
        /\ Act("pin", row, IF panel.detail.state = "pinned" THEN "loose" ELSE "pinned", Key("pin", row, ""))

\* Bound: one deliverable per representative, so no second create.
SaveDeliverable ==
    LET form == panel.composer
        creates == {f \in flights : f.op = "deliverable"}
    IN  /\ IsShown("files")
        /\ form.source = "artifact" => panel.selected # NoRow
        /\ form.source = "bundle" => form.items # {} /\ ShowsPinned(panel) # {}
        /\ form.row = NoRow => creates = {} /\ db[panel.slug].rows["deliverable"] = "absent"
        /\ Click(Key("deliverable", NoRow, ""),
                 [NewFlight("deliverable", PartsOf["compute"]) EXCEPT
                    !.row = IF form.row = NoRow THEN [of |-> panel.slug, name |-> "deliverable"] ELSE form.row,
                    !.to = form.source,
                    !.items = CASE form.source = "artifact" -> {panel.selected}
                                [] form.source = "bundle" -> form.items
                                [] OTHER -> {}])

(***************************************************************************)
(* The routes.  Each resolves the slug of its path, looks the row up among *)
(* that representative's and writes; its outcome is the representative's   *)
(* data afterwards, or none when it refuses.  Texts are written as they    *)
(* come, whoever they were loaded from.                                    *)
(***************************************************************************)
When(accepted, next) == IF accepted THEN {next} ELSE {}

IsTheirsAlways(f) == TRUE

IsTheirs(f) == f.row.of = f.slug

\* Saving the setup puts the owner's overlays back to their defaults, and syncs the
\* resources where that is enabled; a sync that fails is no error of the save.
PatchSetup(f, mine) ==
    {[mine EXCEPT !.texts["setup"] = f.text, !.texts["overlays"] = [of |-> f.slug, n |-> 0],
                  !.rows["resources"] = status] :
       status \in {mine.rows["resources"], "synced", "failed"}}
PatchMemory(f, mine) == {[mine EXCEPT !.texts["memory"] = f.text]}
PatchOverlays(f, mine) == {[mine EXCEPT !.texts["overlays"] = f.text]}
PatchGovernance(f, mine) == {[mine EXCEPT !.texts["governance"] = f.text]}

\* A sync that is disabled or lacks credentials ends as one that succeeded: without an error.
PostSync(mine) == {[mine EXCEPT !.rows["resources"] = "synced"]}

PatchHandoff(f, mine) == When(IsTheirs(f), [mine EXCEPT !.rows["handoff"] = f.to])

\* Installing what is installed keeps whether it is enabled.
PostSkillPack(mine) == {[mine EXCEPT !.rows["pack"] = IF @ = "available" THEN "off" ELSE @]}
PatchSkillPack(f, mine) == When(IsTheirs(f), [mine EXCEPT !.rows["pack"] = f.to])

PatchApproval(f, mine) ==
    When(IsTheirs(f) /\ mine.rows["approval"] = "pending", [mine EXCEPT !.rows["approval"] = f.to])

PostNative(f, mine) ==
    When(IsTheirs(f), [mine EXCEPT !.rows["artifact2"] = IF @ = "absent" THEN "loose" ELSE @])

PostBinding(mine) == When(mine.rows["binding"] = "absent", [mine EXCEPT !.rows["binding"] = "saved"])
PatchBinding(f, mine) == When(IsTheirs(f), mine)

\* An artifact that a deliverable refers to stays pinned.
PatchArtifact(f, mine) ==
    When(IsTheirs(f) /\ (f.to = "loose" => f.row \notin mine.items), [mine EXCEPT !.rows[f.row.name] = f.to])

\* A bundle takes pinned artifacts, an artifact is pinned with its deliverable.
PutDeliverable(f, mine) ==
    LET takes == {[of |-> f.slug, name |-> x] :
                    x \in {y \in ArtifactNames : mine.rows[y] = "pinned" \/ (f.to = "artifact" /\ mine.rows[y] = "loose")}}
        rows == [x \in Names |-> IF x = "deliverable" THEN f.to
                                 ELSE IF [of |-> f.slug, name |-> x] \in f.items THEN "pinned"
                                 ELSE mine.rows[x]]
    IN  When(IsTheirs(f) /\ f.items \subseteq takes, [mine EXCEPT !.items = f.items, !.rows = rows])

Outcomes(f, mine) ==
    CASE f.op = "setup" -> PatchSetup(f, mine)
      [] f.op = "memory" -> PatchMemory(f, mine)
      [] f.op = "overlays" -> PatchOverlays(f, mine)
      [] f.op = "governance" -> PatchGovernance(f, mine)
      [] f.op = "sync" -> PostSync(mine)
      [] f.op = "handoff" -> PatchHandoff(f, mine)
      [] f.op = "install" -> PostSkillPack(mine)
      [] f.op = "pack" -> PatchSkillPack(f, mine)
      [] f.op = "approval" -> PatchApproval(f, mine)
      [] f.op = "native" -> PostNative(f, mine)
      [] f.op = "binding" -> IF f.to = "create" THEN PostBinding(mine) ELSE PatchBinding(f, mine)
      [] f.op = "pin" -> PatchArtifact(f, mine)
      [] f.op = "deliverable" -> PutDeliverable(f, mine)

\* A dead flight's answer has nowhere to go.
AnsweredUnchecked(f, at) ==
    (flights \ {f}) \cup IF f.live THEN {[f EXCEPT !.at = IF @ = "sent" THEN "done" ELSE at]} ELSE {}

Answered(f, at) == (flights \ {f}) \cup IF f.live THEN {[f EXCEPT !.at = at]} ELSE {}

Serve(f) ==
    /\ f \in flights /\ f.at = "sent"
    /\ IF Outcomes(f, db[f.slug]) # {}
       THEN /\ \E at \in {"done", "refused"} :
                 /\ flights' = Answered(f, at)
                 /\ disturbances' = disturbances + (IF at = "done" THEN 0 ELSE 1)
                 /\ calm' = (calm /\ at = "done")
            /\ disturbances' <= MaxDisturbances
            /\ \E next \in Outcomes(f, db[f.slug]) : db' = [db EXCEPT ![f.slug] = next]
            /\ served' = served \cup {f.id}
       ELSE /\ flights' = Answered(f, "refused")
            /\ UNCHANGED <<db, served, disturbances, calm>>
    /\ UNCHANGED <<panel, moves>>

\* A sync that fails is stored as failed before its route refuses.
SyncFails(f) ==
    /\ f \in flights /\ f.at = "sent" /\ f.op = "sync"
    /\ disturbances < MaxDisturbances
    /\ db' = [db EXCEPT ![f.slug].rows["resources"] = "failed"]
    /\ flights' = Answered(f, "refused")
    /\ disturbances' = disturbances + 1
    /\ UNCHANGED <<panel, moves, served, calm>>

\* The request fails before anything is committed.
Fail(f) ==
    /\ f \in flights /\ f.at = "sent"
    /\ disturbances < MaxDisturbances
    /\ flights' = Answered(f, "refused")
    /\ disturbances' = disturbances + 1
    /\ UNCHANGED <<db, panel, moves, served, calm>>

(***************************************************************************)
(* The refresh reads each of its parts at a moment of its own, or fails.   *)
(***************************************************************************)
Read(f, p) ==
    /\ f \in flights /\ f.op # "detail" /\ f.at = "done"
    /\ p \in f.parts \ DOMAIN f.got
    /\ flights' = (flights \ {f}) \cup {[f EXCEPT !.got = [q \in DOMAIN @ \cup {p} |->
                                            IF q = p THEN Answer(f.slug, p) ELSE @[q]]]}
    /\ UNCHANGED <<db, panel, moves, disturbances, served, calm>>

LoseRead(f) ==
    /\ f \in flights /\ f.op # "detail" /\ f.at = "done" /\ DOMAIN f.got # f.parts
    /\ disturbances < MaxDisturbances
    /\ flights' = (flights \ {f}) \cup {[f EXCEPT !.at = "unread"]}
    /\ disturbances' = disturbances + 1
    /\ calm' = FALSE
    /\ UNCHANGED <<db, panel, moves, served>>

(***************************************************************************)
(* What the chain does to the panel when it is through: the new snapshot,  *)
(* with it the forms' texts anew, the busyKey freed, the message shown.    *)
(* The compute and the memory view's refreshes keep their failure to       *)
(* themselves, and the message follows all the same.                       *)
(***************************************************************************)
Finished(pn, f) ==
    IF f.op = "load" THEN pn
    ELSE [pn EXCEPT !.busy = IF f.op = "setup" THEN @ ELSE NoKey, !.message = f.id,
                    !.composer = IF f.op = "deliverable" THEN NewDeliverable ELSE @,
                    !.editing = @ /\ f.op # "binding",
                    !.selected = IF f.op = "native" THEN f.row ELSE @]

Shown(pn, f) ==
    [pn EXCEPT !.shown = [p \in DOMAIN @ |-> IF p \in f.parts THEN f.got[p] ELSE @[p]],
               !.drafts = [t \in DOMAIN @ |->
                             IF \E p \in f.parts : t \in FormsOf[p]
                             THEN f.got[CHOOSE p \in f.parts : t \in FormsOf[p]].texts[t] ELSE @[t]],
               !.failed = @ /\ panel.view = "compute"]

Show(f) ==
    /\ f \in flights /\ f.op # "detail" /\ f.at = "done"
    /\ DOMAIN f.got = f.parts
    /\ Renders(Finished(Shown(panel, f), f), flights \ {f})
    /\ UNCHANGED <<db, moves, disturbances, served, calm>>

Report(f) ==
    LET quietly == f.at = "unread" /\ panel.view \in {"compute", "memory"}
        next == [panel EXCEPT !.failed = TRUE]
    IN  /\ f \in flights /\ f.at \in {"refused", "unread"}
        /\ Renders(IF quietly THEN Finished(next, f)
                   ELSE [next EXCEPT !.busy = IF f.op \in {"load", "setup"} THEN @ ELSE NoKey],
                   flights \ {f})
        /\ UNCHANGED <<db, moves, disturbances, served, calm>>

\* The chosen artifact's detail, asked for under the slug of the panel.
ShowDetail(f) ==
    /\ f \in flights /\ f.op = "detail"
    /\ flights' = flights \ {f}
    /\ panel' = IF f.row.of = f.slug
                THEN [panel EXCEPT !.detail = [row |-> f.row, state |-> db[f.slug].rows[f.row.name]]]
                ELSE [panel EXCEPT !.failed = TRUE]
    /\ UNCHANGED <<db, moves, disturbances, served, calm>>

\* Meanwhile the bot stores an artifact, or an approval expires.
Happens(r) ==
    /\ disturbances < MaxDisturbances
    /\ \/ /\ db[r].rows["artifact2"] = "absent"
          /\ db' = [db EXCEPT ![r].rows["artifact2"] = "loose"]
       \/ /\ db[r].rows["approval"] = "pending"
          /\ db' = [db EXCEPT ![r].rows["approval"] = "expired"]
    /\ disturbances' = disturbances + 1
    /\ calm' = FALSE
    /\ UNCHANGED <<panel, flights, moves, served>>

Edits == EditSetup \/ EditMemory \/ EditOverlays \/ EditGovernance

Buttons ==
    \/ SaveSetup \/ SaveMemory \/ SaveOverlays \/ SaveGovernance \/ Sync
    \/ ChangeStatus \/ Install \/ TogglePack
    \/ Resolve \/ RunNative \/ SaveBinding \/ TogglePin \/ SaveDeliverable

Choices ==
    \/ Select \/ StartEditDeliverable \/ PrepareDeliverable \/ ApplyPreset
    \/ ChooseSource \/ ToggleItem \/ StartEditBinding

Next ==
    \/ \E r \in Representatives : SwitchRepresentative(r) \/ Happens(r)
    \/ \E v \in Views : SwitchView(v)
    \/ Edits \/ Choices \/ Buttons
    \/ \E f \in flights :
          \/ Serve(f) \/ SyncFails(f) \/ Fail(f) \/ LoseRead(f) \/ Show(f) \/ Report(f) \/ ShowDetail(f)
          \/ \E p \in f.parts : Read(f, p)

Spec == Init /\ [][Next]_vars

(***************************************************************************)
(* What the dashboard promises.                                            *)
(***************************************************************************)
\* A click acts on the representative the panel is for: whatever an owner
\* clicked between two panels, a row changes only by a request under the slug
\* of the representative it belongs to (the routes' findFirst with slug).
RowsStayWithTheirRepresentative ==
    [][\A r \in Representatives :
          db'[r].rows # db[r].rows =>
             \/ flights' = flights
             \/ \E f \in flights : f \notin flights' /\ f.slug = r
                                   /\ (f.row = NoRow \/ f.row.of = r)]_vars

\* The message that something was saved is shown only for what was committed,
\* however many chains ended meanwhile (the response.ok checks).
MessageMeansDone == panel.message # 0 => panel.message \in served

\* The status of the last sync may be another one than the panel shows: the setup
\* view's save writes it and shows the setup only, and a sync that fails writes it
\* and is refused.
StatusMayLag(p) == p = "memory" \/ (p = "recall" /\ db[panel.slug].rows["resources"] = "failed")

\* A panel whose chains have all ended, none of them over another, no refresh
\* lost and nobody else writing, shows what is stored for its representative,
\* the status of a sync apart, and the texts in its forms are that
\* representative's own.  Clicks that were refused leave it so.
QuietPanelsAreCurrent ==
    calm /\ Chains(flights) = {} =>
        \A p \in DOMAIN panel.shown :
           LET now == Answer(panel.slug, p) IN
           /\ \/ panel.shown[p] = now
              \/ StatusMayLag(p) /\ panel.shown[p].of = now.of /\ panel.shown[p].texts = now.texts
           /\ \A t \in FormsOf[p] : panel.drafts[t].of = db[panel.slug].texts[t].of

=============================================================================
