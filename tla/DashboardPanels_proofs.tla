----------------------- MODULE DashboardPanels_proofs -----------------------
(***************************************************************************)
(* Proofs about DashboardPanels, for any number of representatives, edits, *)
(* clicks and disturbances: a click changes rows of nobody but its own     *)
(* representative, a message means that something was committed, and a     *)
(* panel at rest shows what is stored.                                     *)
(*                                                                         *)
(* The invariant says what a chain of awaits may count on although the     *)
(* owner goes on clicking, the links re-render the page around it and the  *)
(* data changes: what it asked for is well formed, what it has read is an  *)
(* answer of a route, and, as long as nothing overlaps, what it has not    *)
(* shown yet is all that the panel does not show (Quiet).                  *)
(***************************************************************************)
EXTENDS DashboardPanels, TLAPS

Sources == {"artifact", "bundle", "link"}
Saves == {"setup", "memory", "overlays", "governance"}
Ops == {"load", "detail", "sync", "handoff", "install", "pack", "approval", "native", "binding",
        "pin", "deliverable"} \cup Saves

\* The rows a route's answer always has.
Always == [inbox |-> {"handoff"}, identity |-> {}, memory |-> {"resources"}, packs |-> {"pack"},
           settings |-> {"binding"}, files |-> {"approval", "deliverable"},
           recall |-> {"resources"}]

\* A deliverable has items exactly if it is an artifact's or a bundle.
Fits(rows, items) == rows["deliverable"] \in {"artifact", "bundle"} <=> items # {}

States == UNION {StatesOf(x) : x \in Names}

\* What is stored for a representative.
IsData(d) ==
    /\ d \in [texts : [Forms -> Text], rows : [Names -> States], items : SUBSET Artifacts]
    /\ \A x \in Names : d.rows[x] \in StatesOf(x)
    /\ Fits(d.rows, d.items)

\* What a route answers with for a part.
IsAnswer(s, p) ==
    /\ s.of \in Representatives
    /\ s.texts \in [FormsOf[p] -> Text]
    /\ Always[p] \subseteq DOMAIN s.rows /\ DOMAIN s.rows \subseteq Names
    /\ \A x \in DOMAIN s.rows : s.rows[x] \in StatesOf(x)
    /\ s.items \subseteq Artifacts /\ s.pinned \subseteq Artifacts
    /\ p = "files" => Fits(s.rows, s.items)

PanelFields == {"view", "slug", "shown", "drafts", "selected", "detail", "composer", "editing",
                "busy", "message", "failed"}

Composers == [row : Row \cup {NoRow}, source : Sources, items : SUBSET Artifacts]

FormsIn(view) == UNION {FormsOf[p] : p \in PartsOf[view]}

\* The state of a panel that may be rendered.
IsPanel(pn) ==
    /\ DOMAIN pn = PanelFields
    /\ pn.view \in Views /\ pn.slug \in Representatives
    /\ DOMAIN pn.shown = PartsOf[pn.view] /\ DOMAIN pn.drafts = FormsIn(pn.view)
    /\ \A p \in PartsOf[pn.view] :
          \/ pn.shown[p] = Unloaded /\ \A t \in FormsOf[p] : pn.drafts[t] = NoText
          \/ IsAnswer(pn.shown[p], p) /\ \A t \in FormsOf[p] : pn.drafts[t] \in Text
    /\ pn.selected \in Artifacts \cup {NoRow}
    /\ pn.detail = NoDetail \/ pn.detail.row \in Artifacts
    /\ pn.composer \in Composers

FlightFields == {"id", "op", "slug", "row", "to", "text", "items", "parts", "at", "live", "got"}

\* What the panel had to send for each operation.
WellAsked(f) ==
    /\ f.op \in Saves => f.text \in Text
    /\ f.op \in {"setup", "sync"} => f.row = NoRow
    /\ f.op = "handoff" => f.to \in StatesOf("handoff")
    /\ f.op = "install" => f.row.of = f.slug
    /\ f.op = "pack" => f.to \in {"off", "on"}
    /\ f.op = "approval" => f.to \in {"approved", "rejected"}
    /\ f.op = "native" => f.row \in Artifacts /\ f.row.name = "artifact2"
    /\ f.op = "binding" /\ f.to = "create" => f.row.of = f.slug
    /\ f.op = "pin" => f.row \in Artifacts /\ f.to \in {"loose", "pinned"}
    /\ f.op = "deliverable" =>
         f.to \in Sources /\ f.items \subseteq Artifacts /\ (f.to \in {"artifact", "bundle"} <=> f.items # {})

\* What a chain refreshes in the view it was started in: all, except that the
\* setup view's buttons refresh the part they belong to.
IsClick(f) == f.op \notin {"load", "detail"}
IsPartial(f, view) == view = "setup" /\ f.op \in {"setup", "memory", "sync"}
Refreshes(f, view) ==
    /\ f.op = "load" => f.parts \subseteq PartsOf[view]
    /\ f.op = "detail" => f.parts = {}
    /\ IsPartial(f, view) => f.parts = IF f.op = "setup" THEN {"identity"} ELSE {"memory"}
    /\ IsClick(f) /\ ~IsPartial(f, view) => f.parts = PartsOf[view]

IsFlight(f) ==
    /\ DOMAIN f = FlightFields
    /\ f.op \in Ops /\ f.slug \in Representatives
    /\ f.at \in {"sent", "done", "refused", "unread"} /\ f.live \in BOOLEAN
    /\ f.parts \subseteq Parts
    /\ f.op = "load" => f.at \in {"done", "unread"}
    /\ f.op = "detail" => f.at = "done" /\ f.row \in Artifacts
    /\ f.at = "sent" \/ f.live
    /\ f.at \in {"sent", "refused"} => DOMAIN f.got = {}
    /\ DOMAIN f.got \subseteq f.parts /\ \A p \in DOMAIN f.got : IsAnswer(f.got[p], p)
    /\ WellAsked(f)

\* A click's chain carries the click's number; once it was answered with
\* success, its operation is committed; and while its panel is mounted it
\* refreshes parts of that panel.
Known(f, view, done, n) ==
    /\ IsClick(f) => f.id \in 1..n
    /\ IsClick(f) /\ f.at \in {"done", "unread"} => f.id \in done
    /\ f.live => Refreshes(f, view)

WellStored ==
    /\ db \in [Representatives -> [texts : [Forms -> Text], rows : [Names -> States], items : SUBSET Artifacts]]
    /\ \A r \in Representatives : IsData(db[r])

WellFormed ==
    /\ WellStored
    /\ IsPanel(panel)
    /\ panel.selected \in ShowsArtifacts(panel) \cup {NoRow}
    /\ \A f \in flights : IsFlight(f) /\ Known(f, panel.view, served, moves)
    /\ moves \in Nat /\ served \subseteq 1..moves /\ calm \in BOOLEAN

\* A part as it is stored, but for the status of a sync that the panel was not told,
\* and texts of the representative they are stored for.
MayLag(r, p) == p = "memory" \/ (p = "recall" /\ db[r].rows["resources"] = "failed")

Current(pn, p) ==
    /\ \/ pn.shown[p] = Answer(pn.slug, p)
       \/ /\ MayLag(pn.slug, p)
          /\ pn.shown[p].of = Answer(pn.slug, p).of /\ pn.shown[p].texts = Answer(pn.slug, p).texts
    /\ \A t \in FormsOf[p] : pn.drafts[t].of = db[pn.slug].texts[t].of

\* A part that a chain will show again.
Awaited(fs, p) == \E f \in Chains(fs) : f.at = "done" /\ p \in f.parts

\* The chains are the panel's own, one that has not been answered is alone, what
\* they have read is stored still, and what they are not to show is shown.
AtPeace(pn, fs) ==
    /\ \A f \in Chains(fs) :
          /\ f.live /\ f.slug = pn.slug /\ f.at # "unread"
          /\ f.at # "done" => Chains(fs) = {f}
          /\ \A p \in DOMAIN f.got : f.got[p] = Answer(pn.slug, p)
    /\ \A p \in PartsOf[pn.view] : Current(pn, p) \/ Awaited(fs, p)

Quiet == calm => AtPeace(panel, flights)

IInv == WellFormed /\ MessageMeansDone /\ Quiet

-------------------------------------------------------------------------------
(* The views, their parts and their forms.                                 *)

LEMMA PartsAre ==
    /\ Parts = {"inbox", "identity", "memory", "packs", "settings", "files", "recall"}
    /\ Forms = {"setup", "memory", "overlays", "governance"}
    /\ \A p \in Parts : FormsOf[p] \subseteq Forms
    /\ \A p, q \in Parts : \A t \in FormsOf[p] \cap FormsOf[q] : p = q
BY SMTT(30) DEF Parts, Forms, FormsOf

LEMMA ViewsAre ==
    /\ \A v \in Views : PartsOf[v] \subseteq Parts
    /\ \A v \in Views, p \in Parts : p \in PartsOf[v] <=>
         \/ v = "overview" /\ p = "inbox"
         \/ v = "setup" /\ p \in {"identity", "memory"}
         \/ v = "skills" /\ p = "packs"
         \/ v = "compute" /\ p \in {"settings", "files"}
         \/ v = "memory" /\ p = "recall"
BY PartsAre DEF Views, PartsOf

LEMMA NothingIsNobodys ==
    /\ NoText \notin Text /\ NoRow \notin Row
    /\ \A s, p : IsAnswer(s, p) => s # Unloaded
<1>1. NoText \notin Text
    BY PanelsAssumption DEF NoText, Text
<1>2. NoRow \notin Row
    BY PanelsAssumption DEF NoRow, Row
<1>3. \A s, p : IsAnswer(s, p) => s # Unloaded
    <2>1. Unloaded.of = NoOne
        BY DEF Unloaded
    <2> QED
        BY <2>1, PanelsAssumption DEF IsAnswer
<1> QED
    BY <1>1, <1>2, <1>3

LEMMA StatesAre ==
    /\ StatesOf("handoff") = {"open", "reviewing", "accepted", "declined", "closed"}
    /\ StatesOf("resources") = {"never", "synced", "failed"}
    /\ StatesOf("pack") = {"available", "off", "on"}
    /\ StatesOf("binding") = {"absent", "saved"}
    /\ StatesOf("approval") = {"pending", "approved", "rejected", "expired"}
    /\ StatesOf("deliverable") = {"absent", "artifact", "bundle", "link"}
    /\ \A x \in ArtifactNames : StatesOf(x) = {"absent", "loose", "pinned"}
BY DEF StatesOf, ArtifactNames

(* A route answers with an answer, of the representative it was asked about. *)
LEMMA AnswersAre ==
    ASSUME NEW r \in Representatives, IsData(db[r]), NEW p \in Parts
    PROVE  IsAnswer(Answer(r, p), p) /\ Answer(r, p).of = r
<1> DEFINE d == db[r]
<1>1. /\ \A x \in Names : d.rows[x] \in StatesOf(x)
      /\ \A t \in FormsOf[p] : d.texts[t] \in Text
      /\ d.items \subseteq Artifacts
    BY PartsAre DEF IsData
<1>2. Stored(r) \subseteq ArtifactNames /\ ArtifactNames \subseteq Names
    BY DEF Stored, ArtifactNames, Names
<1>3. ASSUME NEW names, names \subseteq Names
      PROVE  LET s == Told(r, p, names) IN
             /\ s.of = r /\ s.texts \in [FormsOf[p] -> Text] /\ DOMAIN s.rows = names
             /\ \A x \in names : s.rows[x] \in StatesOf(x)
             /\ s.items = {} /\ s.pinned = {}
    BY <1>1, <1>3 DEF Told
<1>4. CASE p # "files"
  <2>1. PICK names \in SUBSET Names : Answer(r, p) = Told(r, p, names) /\ Always[p] \subseteq names
    BY <1>4, PartsAre DEF Answer, Overview, Setup, Memory, SkillPacks, Compute, Recall, Always, Names
  <2> QED
    BY <1>3, <1>4, <2>1 DEF IsAnswer
<1>5. CASE p = "files"
  <2> DEFINE names == {"approval", "deliverable"} \cup Stored(r)
             told == Told(r, "files", names)
             pins == {[of |-> r, name |-> x] : x \in Pinned(r)}
  <2>1. names \subseteq Names
    BY <1>2 DEF Names
  <2>2. pins \subseteq Artifacts
    BY <1>2 DEF Pinned, Artifacts, Row
  <2>3. Answer(r, p) = [told EXCEPT !.items = d.items, !.pinned = pins]
    BY <1>5 DEF Answer, Files
  <2>4. told.rows["deliverable"] = d.rows["deliverable"]
    BY DEF Told
  <2>5. LET s == Answer(r, p) IN
        /\ s.of = told.of /\ s.texts = told.texts /\ s.rows = told.rows
        /\ s.items = d.items /\ s.pinned = pins
    BY <2>3 DEF Told
  <2>6. /\ told.of = r /\ told.texts \in [FormsOf[p] -> Text] /\ DOMAIN told.rows = names
        /\ \A x \in names : told.rows[x] \in StatesOf(x)
    BY <1>3, <1>5, <2>1
  <2>7. Fits(told.rows, d.items)
    BY <2>4 DEF IsData, Fits
  <2> HIDE DEF told, pins
  <2> QED
    BY <1>1, <1>5, <2>1, <2>2, <2>5, <2>6, <2>7 DEF IsAnswer, Always, Fits
<1> QED
    BY <1>4, <1>5

-------------------------------------------------------------------------------
(* Renders.                                                                *)

\* The artifacts a panel lists are one representative's.
LEMMA ListedArtifacts ==
    ASSUME NEW pn, IsPanel(pn)
    PROVE  /\ ShowsArtifacts(pn) \subseteq Artifacts
           /\ \A a, b \in ShowsArtifacts(pn) : a.of = b.of
           /\ ShowsPinned(pn) \subseteq ShowsArtifacts(pn)
<1>1. CASE pn.view # "compute"
    BY <1>1 DEF ShowsArtifacts, ShowsPinned
<1>2. CASE pn.view = "compute"
  <2> DEFINE s == pn.shown["files"]
  <2>1. "files" \in PartsOf[pn.view]
    BY <1>2 DEF PartsOf
  <2>2. ASSUME s = Unloaded PROVE ShowsArtifacts(pn) = {}
    BY <1>2, <2>2 DEF Unloaded, ShowsArtifacts
  <2>3. ASSUME IsAnswer(s, "files") PROVE ShowsArtifacts(pn) \subseteq Artifacts
    BY <1>2, <2>3 DEF IsAnswer, ShowsArtifacts, ArtifactNames, Names, Artifacts, Row
  <2> QED
    BY <1>2, <2>1, <2>2, <2>3 DEF IsPanel, ShowsArtifacts, ShowsPinned
<1> QED
    BY <1>1, <1>2

LEMMA NewestIsListed ==
    ASSUME NEW as, as \subseteq Artifacts, as # {}
    PROVE  Newest(as) \in as
<1>1. Age["artifact1"] = 2 /\ Age["artifact2"] = 1
    BY DEF Age
<1>2. \A a \in as : a.name = "artifact1" \/ a.name = "artifact2"
    BY DEF Artifacts, ArtifactNames
<1>3. \A a \in as : Age[a.name] = 1 \/ Age[a.name] = 2
    BY <1>1, <1>2
<1>4. \E a \in as : \A b \in as : Age[a.name] <= Age[b.name]
  <2>0. 1 <= 1 /\ 1 <= 2 /\ 2 <= 2
    OBVIOUS
  <2>1. CASE \E a \in as : Age[a.name] = 1
    <3>1. PICK a \in as : Age[a.name] = 1
      BY <2>1
    <3>2. \A b \in as : Age[a.name] <= Age[b.name]
      BY <1>3, <2>0, <3>1, Zenon
    <3> QED
      BY <3>2
  <2>2. CASE \A a \in as : Age[a.name] = 2
    BY <2>0, <2>2, Zenon
  <2> QED
    BY <1>3, <2>1, <2>2
<1> QED
    BY <1>4 DEF Newest

\* What a render leaves of the state it is given.
SameContent(next, pn) ==
    /\ next.view = pn.view /\ next.slug = pn.slug /\ next.shown = pn.shown
    /\ next.drafts = pn.drafts
SameButChoices(next, pn) ==
    SameContent(next, pn) /\ next.message = pn.message /\ next.failed = pn.failed

LEMMA PrunedPanel ==
    ASSUME NEW pn, IsPanel(pn)
    PROVE  LET next == Pruned(pn) IN
           /\ IsPanel(next) /\ SameButChoices(next, pn)
           /\ next.selected = pn.selected /\ next.detail = pn.detail
<1> DEFINE items == pn.composer.items \cap ShowsPinned(pn)
           pruned == [pn EXCEPT !.composer.items = items]
<1>1. Pruned(pn) \in {pn, pruned}
    BY DEF Pruned
<1>2. /\ DOMAIN pruned = PanelFields
      /\ pruned.view = pn.view /\ pruned.slug = pn.slug /\ pruned.shown = pn.shown
      /\ pruned.drafts = pn.drafts /\ pruned.message = pn.message /\ pruned.failed = pn.failed
      /\ pruned.selected = pn.selected /\ pruned.detail = pn.detail
      /\ pruned.composer = [pn.composer EXCEPT !.items = items]
    BY DEF IsPanel, PanelFields
<1>3. items \subseteq Artifacts
    BY DEF IsPanel, Composers
<1>4. pruned.composer \in Composers
    BY <1>2, <1>3 DEF IsPanel, Composers
<1>5. IsPanel(pruned)
    BY <1>2, <1>4 DEF IsPanel
<1> HIDE DEF pruned
<1> QED
    BY <1>1, <1>2, <1>5 DEF SameButChoices, SameContent

\* The panel a render ends with: what it has chosen is listed.
LEMMA RenderedPanel ==
    ASSUME NEW pn, IsPanel(pn)
    PROVE  LET next == Reselected(Pruned(pn)) IN
           /\ IsPanel(next) /\ SameButChoices(next, pn)
           /\ next.selected \in ShowsArtifacts(next) \cup {NoRow}
<1> DEFINE q == Pruned(pn)
           as == ShowsArtifacts(q)
           selected == IF as = {} THEN NoRow ELSE IF q.selected \in as THEN q.selected ELSE Newest(as)
           detail == IF as = {} THEN NoDetail ELSE q.detail
           next == [q EXCEPT !.selected = selected, !.detail = detail]
<1>1. IsPanel(q) /\ SameButChoices(q, pn)
    BY PrunedPanel
<1>2. Reselected(q) = next
    BY DEF Reselected
<1> HIDE DEF q
<1>3. /\ DOMAIN next = PanelFields
      /\ next.view = q.view /\ next.slug = q.slug /\ next.shown = q.shown
      /\ next.drafts = q.drafts /\ next.message = q.message /\ next.failed = q.failed
      /\ next.selected = selected /\ next.detail = detail /\ next.composer = q.composer
    BY <1>1 DEF IsPanel, PanelFields
<1>4. selected \in as \cup {NoRow} /\ as \subseteq Artifacts
    BY <1>1, ListedArtifacts, NewestIsListed
<1>5. detail = NoDetail \/ detail.row \in Artifacts
    BY <1>1 DEF IsPanel
<1> HIDE DEF next, selected, detail
<1>6. IsPanel(next)
    BY <1>1, <1>3, <1>4, <1>5 DEF IsPanel
<1>7. ShowsArtifacts(next) = as
    BY <1>3 DEF ShowsArtifacts
<1> QED
    BY <1>1, <1>2, <1>3, <1>4, <1>6, <1>7 DEF SameButChoices, SameContent, q

-------------------------------------------------------------------------------
(* The chains a step begins.                                               *)

LEMMA LoadsAre ==
    ASSUME NEW v \in Views, NEW r \in Representatives, NEW done, NEW n
    PROVE  /\ \A f \in Loads(v, r) :
                /\ IsFlight(f) /\ Known(f, v, done, n)
                /\ f.op = "load" /\ f.at = "done" /\ f.live /\ f.slug = r /\ DOMAIN f.got = {}
           /\ \A p \in PartsOf[v] : \E f \in Loads(v, r) : p \in f.parts
<1>1. ASSUME NEW f \in Loads(v, r)
      PROVE  \E parts \in SUBSET PartsOf[v] : f = Flight(0, "load", r, parts)
    BY DEF Loads
<1>2. ASSUME NEW parts \in SUBSET PartsOf[v]
      PROVE  LET f == Flight(0, "load", r, parts) IN
             /\ IsFlight(f) /\ Known(f, v, done, n)
             /\ f.op = "load" /\ f.at = "done" /\ f.live /\ f.slug = r /\ DOMAIN f.got = {}
             /\ f.parts = parts
  <2> DEFINE f == Flight(0, "load", r, parts)
  <2>1. /\ DOMAIN f = FlightFields /\ DOMAIN f.got = {}
        /\ f.op = "load" /\ f.slug = r /\ f.parts = parts /\ f.live = TRUE /\ f.at = "done"
    BY DEF Flight, FlightFields
  <2>2. parts \subseteq Parts
    BY ViewsAre
  <2> HIDE DEF f
  <2>3. IsFlight(f) /\ Known(f, v, done, n)
    BY <2>1, <2>2 DEF IsFlight, Known, Refreshes, IsClick, IsPartial, WellAsked, Ops, Saves
  <2> QED
    BY <2>1, <2>3 DEF f
<1>3. ASSUME NEW p \in PartsOf[v] PROVE \E f \in Loads(v, r) : p \in f.parts
  <2>1. CASE v = "setup"
    <3>1. Flight(0, "load", r, {p}) \in Loads(v, r)
      BY <2>1 DEF Loads
    <3>2. Flight(0, "load", r, {p}).parts = {p}
      BY DEF Flight
    <3> QED
      BY <3>1, <3>2
  <2>2. CASE v # "setup"
    <3>1. Flight(0, "load", r, PartsOf[v]) \in Loads(v, r)
      BY <2>2 DEF Loads
    <3>2. Flight(0, "load", r, PartsOf[v]).parts = PartsOf[v]
      BY DEF Flight
    <3> QED
      BY <3>1, <3>2
  <2> QED
    BY <2>1, <2>2
<1> QED
    BY <1>1, <1>2, <1>3

LEMMA FetchesAre ==
    ASSUME NEW pn, IsPanel(pn), pn.selected \in Artifacts, NEW f \in Fetch(pn),
           NEW view, NEW done, NEW n
    PROVE  IsFlight(f) /\ Known(f, view, done, n) /\ f.op = "detail"
<1> DEFINE g == Flight(0, "detail", pn.slug, {})
<1>1. f = [g EXCEPT !.row = pn.selected]
    BY DEF Fetch
<1>2. /\ DOMAIN g = FlightFields /\ DOMAIN g.got = {}
      /\ g.op = "detail" /\ g.slug = pn.slug /\ g.parts = {} /\ g.live = TRUE /\ g.at = "done"
    BY DEF Flight, FlightFields
<1> HIDE DEF g
<1>3. /\ DOMAIN f = FlightFields /\ DOMAIN f.got = {}
      /\ f.op = "detail" /\ f.slug = pn.slug /\ f.parts = {} /\ f.live = TRUE /\ f.at = "done"
      /\ f.row = pn.selected
    BY <1>1, <1>2 DEF FlightFields
<1>4. f.slug \in Representatives
    BY <1>3 DEF IsPanel
<1> QED
    BY <1>3, <1>4 DEF IsFlight, Known, Refreshes, IsClick, IsPartial, WellAsked, Ops, Saves

\* A render begins at most the fetch of a detail.
LEMMA RenderedFlights ==
    ASSUME NEW pn, IsPanel(pn), NEW fs, NEW view, NEW done, NEW n,
           pn.selected \in Artifacts \cup {NoRow}
    PROVE  /\ Chains(Refetched(pn, fs)) = Chains(fs)
           /\ \A f \in Refetched(pn, fs) : f \in fs \/ (IsFlight(f) /\ Known(f, view, done, n))
<1>1. pn.selected = NoRow \/ pn.selected \in Artifacts
    OBVIOUS
<1>2. ASSUME pn.selected # NoRow, NEW f \in Fetch(pn)
      PROVE  IsFlight(f) /\ Known(f, view, done, n) /\ f.op = "detail"
    BY <1>1, <1>2, FetchesAre
<1> QED
    BY <1>2 DEF Refetched, Uncancelled, Chains

-------------------------------------------------------------------------------
(* What a render keeps.                                                    *)

LEMMA AnswersStay ==
    ASSUME UNCHANGED db, NEW r, NEW p
    PROVE  Answer(r, p)' = Answer(r, p)
BY DEF Answer, Overview, Setup, Memory, SkillPacks, Compute, Recall, Files, Told, Stored, Pinned

\* Peace is about the chains and what is shown.
LEMMA PeaceStays ==
    ASSUME UNCHANGED db, NEW pn, NEW next, SameButChoices(next, pn),
           NEW fs, NEW gs, Chains(gs) = Chains(fs), AtPeace(pn, fs)
    PROVE  AtPeace(next, gs)'
<1>1. \A r, p : Answer(r, p)' = Answer(r, p)
    BY AnswersStay
<1>2. \A p : Current(pn, p) => Current(next, p)'
    BY <1>1 DEF Current, MayLag, SameButChoices, SameContent
<1>3. \A p : Awaited(fs, p) => Awaited(gs, p)
    BY DEF Awaited
<1> QED
    BY <1>1, <1>2, <1>3 DEF AtPeace, SameButChoices, SameContent

LEMMA RenderStep ==
    ASSUME NEW pn, NEW fs, IsPanel(pn), Renders(pn, fs),
           \A f \in fs : IsFlight(f) /\ Known(f, pn.view, served', moves'),
           WellStored', moves' \in Nat, served' \subseteq 1..moves', calm' \in BOOLEAN,
           pn.message # 0 => pn.message \in served'
    PROVE  WellFormed' /\ MessageMeansDone'
<1> DEFINE next == Reselected(Pruned(pn))
<1>1. panel' = next /\ flights' = Refetched(next, fs)
    BY DEF Renders
<1>2. /\ IsPanel(next) /\ SameButChoices(next, pn)
      /\ next.selected \in ShowsArtifacts(next) \cup {NoRow}
    BY RenderedPanel
<1>3. next.selected \in Artifacts \cup {NoRow}
    BY <1>2 DEF IsPanel
<1>4. \A f \in Refetched(next, fs) :
         f \in fs \/ (IsFlight(f) /\ Known(f, pn.view, served', moves'))
    BY <1>2, <1>3, RenderedFlights
<1> HIDE DEF next
<1> QED
    BY <1>1, <1>2, <1>4 DEF WellFormed, MessageMeansDone, SameButChoices, SameContent

LEMMA RenderQuiet ==
    ASSUME NEW pn, NEW fs, IsPanel(pn), Renders(pn, fs), UNCHANGED db, AtPeace(pn, fs)
    PROVE  AtPeace(panel, flights)'
<1>1. PICK next, gs : /\ next = Reselected(Pruned(pn)) /\ gs = Refetched(next, fs)
                      /\ panel' = next /\ flights' = gs
    BY DEF Renders
<1>2. IsPanel(next) /\ SameButChoices(next, pn)
    BY <1>1, RenderedPanel
<1>3. Chains(gs) = Chains(fs)
    BY <1>1, <1>2, RenderedFlights DEF IsPanel
<1>4. AtPeace(next, gs)'
    BY <1>2, <1>3, PeaceStays
<1> QED
    BY <1>1, <1>4 DEF AtPeace, Current, Awaited

-------------------------------------------------------------------------------
(* Every step keeps the invariant.  First the initial states and the links. *)

LEMMA MountedPanel ==
    ASSUME NEW v \in Views, NEW r \in Representatives
    PROVE  LET pn == Mounted(v, r) IN
           /\ IsPanel(pn) /\ pn.view = v /\ pn.slug = r
           /\ pn.selected = NoRow /\ pn.message = 0
<1> DEFINE pn == Mounted(v, r)
<1>1. /\ DOMAIN pn = PanelFields /\ pn.view = v /\ pn.slug = r
      /\ pn.shown = [p \in PartsOf[v] |-> Unloaded]
      /\ pn.drafts = [f \in FormsIn(v) |-> NoText]
      /\ pn.selected = NoRow /\ pn.detail = NoDetail /\ pn.composer = NewDeliverable
      /\ pn.message = 0
    BY DEF Mounted, PanelFields, FormsIn
<1>2. NewDeliverable \in Composers
    BY DEF NewDeliverable, Composers, Sources
<1> HIDE DEF pn
<1>3. IsPanel(pn)
    BY <1>1, <1>2 DEF IsPanel, FormsIn
<1> QED
    BY <1>1, <1>3 DEF pn

LEMMA StartsAre ==
    ASSUME NEW start \in Starts, NEW r \in Representatives
    PROVE  IsData([texts |-> [f \in Forms |-> [of |-> r, n |-> 0]],
                   rows |-> start,
                   items |-> IF start.deliverable = "absent" THEN {}
                             ELSE {[of |-> r, name |-> "artifact1"]}])
<1> DEFINE first == [handoff |-> "open", resources |-> "never", pack |-> "available",
                     binding |-> "absent", approval |-> "pending", artifact1 |-> "pinned",
                     artifact2 |-> "loose", deliverable |-> "absent"]
           other == [handoff |-> "reviewing", resources |-> "synced", pack |-> "off",
                     binding |-> "saved", approval |-> "pending", artifact1 |-> "pinned",
                     artifact2 |-> "absent", deliverable |-> "bundle"]
<1>1. start = first \/ start = other
    BY DEF Starts
<1>2. start \in [Names -> States] /\ \A x \in Names : start[x] \in StatesOf(x)
  <2>1. DOMAIN start = Names /\ start = [x \in Names |-> start[x]]
    BY <1>1 DEF Names
  <2>2. /\ start.handoff \in {"open", "reviewing"} /\ start.resources \in {"never", "synced"}
        /\ start.pack \in {"available", "off"} /\ start.binding \in {"absent", "saved"}
        /\ start.approval = "pending" /\ start.artifact1 = "pinned"
        /\ start.artifact2 \in {"loose", "absent"} /\ start.deliverable \in {"absent", "bundle"}
    BY <1>1
  <2> HIDE DEF first, other
  <2>3. /\ StatesOf("artifact1") = {"absent", "loose", "pinned"}
        /\ StatesOf("artifact2") = {"absent", "loose", "pinned"}
    BY StatesAre DEF ArtifactNames
  <2>4. ASSUME NEW x \in Names PROVE start[x] \in StatesOf(x)
    <3>1. \/ x = "handoff" \/ x = "resources" \/ x = "pack" \/ x = "binding"
          \/ x = "approval" \/ x = "artifact1" \/ x = "artifact2" \/ x = "deliverable"
      BY DEF Names
    <3>2. CASE x = "artifact1" \/ x = "artifact2"
      BY <2>2, <2>3, <3>2
    <3>3. CASE x # "artifact1" /\ x # "artifact2"
      BY <2>2, <3>1, <3>3, StatesAre
    <3> QED
      BY <3>2, <3>3
  <2> QED
    BY <2>1, <2>4 DEF States
<1>3. [of |-> r, name |-> "artifact1"] \in Artifacts
    BY DEF Artifacts, ArtifactNames, Row, Names
<1>4. start["deliverable"] \in {"absent", "bundle"}
    BY <1>1
<1>5. [f \in Forms |-> [of |-> r, n |-> 0]] \in [Forms -> Text]
    BY PanelsAssumption DEF Text
<1> QED
    BY <1>2, <1>3, <1>4, <1>5 DEF IsData, Fits

LEMMA InitIInv == Init => IInv
<1> SUFFICES ASSUME Init PROVE IInv
    OBVIOUS
<1>1. PICK start \in Starts :
        db = [r \in Representatives |->
                [texts |-> [f \in Forms |-> [of |-> r, n |-> 0]],
                 rows |-> start,
                 items |-> IF start.deliverable = "absent" THEN {}
                           ELSE {[of |-> r, name |-> "artifact1"]}]]
    BY DEF Init
<1>2. PICK v \in Views, r \in Representatives : panel = Mounted(v, r) /\ flights = Loads(v, r)
    BY DEF Init
<1>3. moves = 0 /\ served = {} /\ calm = TRUE
    BY DEF Init
<1>4. \A s \in Representatives : IsData(db[s])
    BY <1>1, StartsAre
<1>5. WellStored
    BY <1>1, <1>4 DEF WellStored, IsData
<1>6. /\ IsPanel(panel) /\ panel.view = v /\ panel.slug = r
      /\ panel.selected = NoRow /\ panel.message = 0
    BY <1>2, MountedPanel
<1>7. /\ \A f \in flights :
           /\ IsFlight(f) /\ Known(f, v, served, moves)
           /\ f.op = "load" /\ f.at = "done" /\ f.live /\ f.slug = r /\ DOMAIN f.got = {}
      /\ \A p \in PartsOf[v] : \E f \in flights : p \in f.parts
    BY <1>2, LoadsAre
<1>8. WellFormed
    BY <1>3, <1>5, <1>6, <1>7 DEF WellFormed
<1>9. Quiet
    BY <1>6, <1>7 DEF Quiet, AtPeace, Chains, Awaited
<1> QED
    BY <1>6, <1>8, <1>9 DEF IInv, MessageMeansDone

LEMMA SwitchRepresentativeIInv ==
    ASSUME IInv, NEW r \in Representatives, SwitchRepresentative(r)
    PROVE  IInv'
<1> DEFINE next == [panel EXCEPT !.slug = r, !.composer = NewDeliverable, !.editing = FALSE,
                                 !.failed = @ /\ panel.view # "compute"]
           fs == flights \cup Loads(panel.view, r)
<1>1. /\ Renders(next, fs) /\ calm' = (Chains(flights) = {})
      /\ UNCHANGED <<db, moves, served>>
    BY DEF SwitchRepresentative
<1>2. WellFormed /\ MessageMeansDone
    BY DEF IInv
<1>3. /\ DOMAIN next = PanelFields
      /\ next.view = panel.view /\ next.slug = r /\ next.shown = panel.shown
      /\ next.drafts = panel.drafts /\ next.selected = panel.selected
      /\ next.detail = panel.detail /\ next.composer = NewDeliverable
      /\ next.message = panel.message
    BY <1>2 DEF WellFormed, IsPanel, PanelFields
<1>4. NewDeliverable \in Composers
    BY DEF NewDeliverable, Composers, Sources
<1> HIDE DEF next
<1>5. IsPanel(next)
    BY <1>2, <1>3, <1>4 DEF WellFormed, IsPanel
<1>6. PICK v \in Views : v = panel.view
    BY <1>2 DEF WellFormed, IsPanel
<1>7. /\ \A f \in Loads(panel.view, r) :
           /\ IsFlight(f) /\ Known(f, panel.view, served, moves)
           /\ f.op = "load" /\ f.at = "done" /\ f.live /\ f.slug = r /\ DOMAIN f.got = {}
      /\ \A p \in PartsOf[panel.view] : \E f \in Loads(panel.view, r) : p \in f.parts
  <2>1. /\ \A f \in Loads(v, r) :
             /\ IsFlight(f) /\ Known(f, v, served, moves)
             /\ f.op = "load" /\ f.at = "done" /\ f.live /\ f.slug = r /\ DOMAIN f.got = {}
        /\ \A p \in PartsOf[v] : \E f \in Loads(v, r) : p \in f.parts
    BY LoadsAre
  <2> QED
    BY <1>6, <2>1
<1>8. \A f \in fs : IsFlight(f) /\ Known(f, next.view, served', moves')
    BY <1>1, <1>2, <1>3, <1>7 DEF WellFormed
<1>9. WellStored' /\ moves' \in Nat /\ served' \subseteq 1..moves' /\ calm' \in BOOLEAN
    BY <1>1, <1>2 DEF WellFormed, WellStored
<1>10. next.message # 0 => next.message \in served'
    BY <1>1, <1>2, <1>3 DEF MessageMeansDone
<1>11. WellFormed' /\ MessageMeansDone'
    BY <1>1, <1>5, <1>8, <1>9, <1>10, RenderStep
<1>12. ASSUME Chains(flights) = {} PROVE AtPeace(next, fs)
  <2>1. Chains(fs) = Loads(panel.view, r)
    BY <1>7, <1>12 DEF Chains
  <2> QED
    BY <1>3, <1>7, <2>1 DEF AtPeace, Awaited
<1>13. Quiet'
    BY <1>1, <1>5, <1>12, RenderQuiet DEF Quiet
<1> QED
    BY <1>11, <1>13 DEF IInv

LEMMA SwitchViewIInv ==
    ASSUME IInv, NEW v \in Views, SwitchView(v)
    PROVE  IInv'
<1> DEFINE sent == {f \in flights : f.at = "sent"}
           loads == Loads(v, panel.slug)
           dead == {[f EXCEPT !.live = FALSE] : f \in sent}
<1>1. /\ panel' = Mounted(v, panel.slug) /\ flights' = dead \cup loads /\ calm' = (sent = {})
      /\ UNCHANGED <<db, moves, served>>
    BY DEF SwitchView
<1>2. WellFormed /\ panel.slug \in Representatives
    BY DEF IInv, WellFormed, IsPanel
<1>3. /\ IsPanel(panel') /\ panel'.view = v /\ panel'.slug = panel.slug
      /\ panel'.selected = NoRow /\ panel'.message = 0
    BY <1>1, <1>2, MountedPanel
<1>4. /\ \A f \in loads :
           /\ IsFlight(f) /\ Known(f, v, served, moves)
           /\ f.op = "load" /\ f.at = "done" /\ f.live /\ f.slug = panel.slug /\ DOMAIN f.got = {}
      /\ \A p \in PartsOf[v] : \E f \in loads : p \in f.parts
    BY <1>2, LoadsAre
<1>5. ASSUME NEW g \in dead PROVE IsFlight(g) /\ Known(g, v, served, moves)
  <2>1. PICK f \in sent : g = [f EXCEPT !.live = FALSE]
    OBVIOUS
  <2>2. IsFlight(f) /\ Known(f, panel.view, served, moves) /\ f.at = "sent"
    BY <1>2 DEF WellFormed
  <2>3. /\ DOMAIN g = FlightFields /\ g.live = FALSE
        /\ g.id = f.id /\ g.op = f.op /\ g.slug = f.slug /\ g.row = f.row /\ g.to = f.to
        /\ g.text = f.text /\ g.items = f.items /\ g.parts = f.parts /\ g.at = f.at
        /\ g.got = f.got
    BY <2>1, <2>2 DEF IsFlight, FlightFields
  <2> QED
    BY <2>2, <2>3 DEF IsFlight, Known, IsClick, WellAsked
<1>6. WellFormed'
    BY <1>1, <1>2, <1>3, <1>4, <1>5 DEF WellFormed, WellStored
<1>7. ASSUME sent = {} PROVE AtPeace(panel, flights)'
  <2>1. flights' = loads
    BY <1>1, <1>7
  <2> QED
    BY <1>3, <1>4, <2>1 DEF AtPeace, Awaited, Chains
<1> QED
    BY <1>1, <1>3, <1>6, <1>7 DEF IInv, Quiet, MessageMeansDone

-------------------------------------------------------------------------------
(* What the owner types and chooses.                                       *)

LEMMA MovesOn ==
    ASSUME NEW f, NEW view, NEW done, NEW n \in Nat, Known(f, view, done, n)
    PROVE  Known(f, view, done, n + 1)
<1>1. 1..n \subseteq 1..(n + 1)
    OBVIOUS
<1> QED
    BY <1>1 DEF Known

LEMMA PeaceOfContent ==
    ASSUME NEW pn, NEW next, SameContent(next, pn), NEW fs, AtPeace(pn, fs)
    PROVE  AtPeace(next, fs)
<1>1. \A p : Current(pn, p) => Current(next, p)
    BY DEF Current, SameContent
<1> QED
    BY <1>1 DEF AtPeace, SameContent

\* A part that is shown has been answered.
LEMMA ShownParts ==
    ASSUME NEW p, IsPanel(panel), IsShown(p)
    PROVE  /\ p \in PartsOf[panel.view] /\ IsAnswer(panel.shown[p], p)
           /\ \A t \in FormsOf[p] : t \in FormsIn(panel.view) /\ panel.drafts[t] \in Text
<1>1. p \in PartsOf[panel.view] /\ panel.shown[p] # Unloaded
    BY DEF IsShown, Unloaded
<1> QED
    BY <1>1 DEF IsPanel, FormsIn

LEMMA TypesIInv ==
    ASSUME IInv, NEW f, Types(f)
    PROVE  IInv'
<1> DEFINE typed == [panel.drafts[f] EXCEPT !.n = @ + 1]
<1>1. WellFormed /\ MessageMeansDone /\ Quiet /\ IsPanel(panel) /\ moves \in Nat
    BY DEF IInv, WellFormed
<1>2. /\ f \in FormsIn(panel.view) /\ panel.drafts[f] # NoText /\ panel.drafts[f].n < MaxEdits
      /\ moves' = moves + 1 /\ panel' = [panel EXCEPT !.drafts[f].n = @ + 1]
      /\ UNCHANGED <<db, flights, disturbances, served, calm>>
    BY <1>1 DEF Types, IsPanel
<1>3. PICK p \in PartsOf[panel.view] : f \in FormsOf[p]
    BY <1>2 DEF FormsIn
<1>4. IsAnswer(panel.shown[p], p) /\ panel.drafts[f] \in Text
    BY <1>1, <1>2, <1>3 DEF IsPanel
<1>5. typed \in Text /\ typed.of = panel.drafts[f].of
    BY <1>2, <1>4, PanelsAssumption DEF Text
<1>6. /\ DOMAIN panel' = PanelFields
      /\ panel'.view = panel.view /\ panel'.slug = panel.slug /\ panel'.shown = panel.shown
      /\ panel'.selected = panel.selected /\ panel'.detail = panel.detail
      /\ panel'.composer = panel.composer /\ panel'.message = panel.message
      /\ panel'.drafts = [panel.drafts EXCEPT ![f] = typed]
    BY <1>1, <1>2 DEF IsPanel, PanelFields
<1> HIDE DEF typed
<1>7. /\ DOMAIN panel'.drafts = FormsIn(panel.view) /\ panel'.drafts[f] = typed
      /\ \A t \in FormsIn(panel.view) : t # f => panel'.drafts[t] = panel.drafts[t]
    BY <1>1, <1>2, <1>6 DEF IsPanel
<1>8. \A q \in PartsOf[panel.view] : f \in FormsOf[q] => q = p
    <2>1. panel.view \in Views
        BY <1>1 DEF IsPanel
    <2>2. PartsOf[panel.view] \subseteq Parts
        BY <2>1, ViewsAre
    <2> QED
        BY <1>3, <2>2, PartsAre
<1>9. IsPanel(panel')
    <2>1. ASSUME NEW q \in PartsOf[panel.view]
          PROVE  \/ panel'.shown[q] = Unloaded /\ \A t \in FormsOf[q] : panel'.drafts[t] = NoText
                 \/ IsAnswer(panel'.shown[q], q) /\ \A t \in FormsOf[q] : panel'.drafts[t] \in Text
        <3>1. \A t \in FormsOf[q] : t \in FormsIn(panel.view)
            BY DEF FormsIn
        <3>2. CASE q = p
            BY <1>1, <1>3, <1>4, <1>5, <1>6, <1>7, <3>1, <3>2, NothingIsNobodys DEF IsPanel
        <3>3. CASE q # p
            BY <1>1, <1>6, <1>7, <1>8, <3>1, <3>3 DEF IsPanel
        <3> QED
            BY <3>2, <3>3
    <2> QED
        BY <1>1, <1>6, <1>7, <2>1 DEF IsPanel
<1>10. ShowsArtifacts(panel') = ShowsArtifacts(panel)
    BY <1>6 DEF ShowsArtifacts
<1>11. \A g \in flights : IsFlight(g) /\ Known(g, panel.view, served, moves')
    BY <1>1, <1>2, MovesOn DEF WellFormed
<1>12. WellFormed'
    <2>1. moves' \in Nat /\ served' \subseteq 1..moves' /\ calm' \in BOOLEAN /\ WellStored'
        BY <1>1, <1>2 DEF WellFormed, WellStored
    <2> QED
        BY <1>1, <1>2, <1>6, <1>9, <1>10, <1>11, <2>1 DEF WellFormed
<1>13. ASSUME AtPeace(panel, flights) PROVE AtPeace(panel, flights)'
    <2>1. \A r, q : Answer(r, q)' = Answer(r, q)
        BY <1>2, AnswersStay
    <2>2. \A q \in PartsOf[panel.view] : Current(panel, q) => Current(panel, q)'
        <3> SUFFICES ASSUME NEW q \in PartsOf[panel.view], Current(panel, q)
                     PROVE  Current(panel, q)'
            OBVIOUS
        <3>1. \A t \in FormsOf[q] : t \in FormsIn(panel.view)
            BY DEF FormsIn
        <3>2. \A t \in FormsOf[q] : panel'.drafts[t].of = panel.drafts[t].of
            BY <1>5, <1>7, <3>1
        <3> QED
            BY <1>2, <1>6, <2>1, <3>2 DEF Current, MayLag
    <2> QED
        BY <1>2, <1>6, <1>13, <2>1, <2>2 DEF AtPeace, Awaited
<1> QED
    BY <1>1, <1>2, <1>6, <1>12, <1>13 DEF IInv, Quiet, MessageMeansDone

\* A choice: the panel may differ in what is chosen, and a message goes.
LEMMA ChoosesIInv ==
    ASSUME IInv, NEW pn, IsPanel(pn), SameContent(pn, panel), pn.message \in {panel.message, 0},
           Chooses(pn)
    PROVE  IInv'
<1>1. /\ Renders(pn, flights) /\ moves' = moves + 1
      /\ UNCHANGED <<db, disturbances, served, calm>>
    BY DEF Chooses
<1>2. WellFormed /\ MessageMeansDone /\ Quiet
    BY DEF IInv
<1>3. \A f \in flights : IsFlight(f) /\ Known(f, pn.view, served', moves')
    BY <1>1, <1>2, MovesOn DEF WellFormed, SameContent
<1>4. WellStored' /\ moves' \in Nat /\ served' \subseteq 1..moves' /\ calm' \in BOOLEAN
    BY <1>1, <1>2 DEF WellFormed, WellStored
<1>5. pn.message # 0 => pn.message \in served'
    BY <1>1, <1>2 DEF MessageMeansDone
<1>6. WellFormed' /\ MessageMeansDone'
    BY <1>1, <1>3, <1>4, <1>5, RenderStep
<1>7. AtPeace(panel, flights) => AtPeace(panel, flights)'
    BY <1>1, PeaceOfContent, RenderQuiet
<1> QED
    BY <1>1, <1>2, <1>6, <1>7 DEF IInv, Quiet

\* Which panels a choice may lead to.
LEMMA ChosenPanel ==
    ASSUME IsPanel(panel), NEW pn, DOMAIN pn = PanelFields, SameContent(pn, panel),
           pn.selected \in Artifacts \cup {NoRow}, pn.detail = panel.detail,
           pn.composer \in Composers
    PROVE  IsPanel(pn)
BY DEF IsPanel, SameContent

\* The panel after each kind of choice.
LEMMA ChoicePanels ==
    ASSUME IsPanel(panel), NEW a \in Artifacts \cup {NoRow}, NEW form \in Composers
    PROVE  /\ LET pn == [panel EXCEPT !.selected = a] IN IsPanel(pn) /\ SameContent(pn, panel)
                 /\ pn.message = panel.message
           /\ LET pn == [panel EXCEPT !.composer = form] IN IsPanel(pn) /\ SameContent(pn, panel)
                 /\ pn.message = panel.message
           /\ LET pn == [panel EXCEPT !.composer = form, !.selected = a, !.message = 0,
                                      !.failed = FALSE]
              IN IsPanel(pn) /\ SameContent(pn, panel) /\ pn.message = 0
<1>1. panel.selected \in Artifacts \cup {NoRow} /\ panel.composer \in Composers
    BY DEF IsPanel
<1>2. LET pn == [panel EXCEPT !.selected = a] IN
      IsPanel(pn) /\ SameContent(pn, panel) /\ pn.message = panel.message
    <2> DEFINE pn == [panel EXCEPT !.selected = a]
    <2>1. /\ DOMAIN pn = PanelFields /\ SameContent(pn, panel) /\ pn.message = panel.message
          /\ pn.selected = a /\ pn.detail = panel.detail /\ pn.composer = panel.composer
        BY DEF IsPanel, PanelFields, SameContent
    <2>2. IsPanel(pn)
        <3> HIDE DEF pn
        <3> QED
            BY <1>1, <2>1, ChosenPanel
    <2> QED
        BY <2>1, <2>2
<1>3. LET pn == [panel EXCEPT !.composer = form] IN
      IsPanel(pn) /\ SameContent(pn, panel) /\ pn.message = panel.message
    <2> DEFINE pn == [panel EXCEPT !.composer = form]
    <2>1. /\ DOMAIN pn = PanelFields /\ SameContent(pn, panel) /\ pn.message = panel.message
          /\ pn.selected = panel.selected /\ pn.detail = panel.detail /\ pn.composer = form
        BY DEF IsPanel, PanelFields, SameContent
    <2>2. IsPanel(pn)
        <3> HIDE DEF pn
        <3> QED
            BY <1>1, <2>1, ChosenPanel
    <2> QED
        BY <2>1, <2>2
<1>4. LET pn == [panel EXCEPT !.composer = form, !.selected = a, !.message = 0, !.failed = FALSE]
      IN IsPanel(pn) /\ SameContent(pn, panel) /\ pn.message = 0
    <2> DEFINE pn == [panel EXCEPT !.composer = form, !.selected = a, !.message = 0, !.failed = FALSE]
    <2>1. /\ DOMAIN pn = PanelFields /\ SameContent(pn, panel) /\ pn.message = 0
          /\ pn.selected = a /\ pn.detail = panel.detail /\ pn.composer = form
        BY DEF IsPanel, PanelFields, SameContent
    <2>2. IsPanel(pn)
        <3> HIDE DEF pn
        <3> QED
            BY <2>1, ChosenPanel
    <2> QED
        BY <2>1, <2>2
<1> QED
    BY <1>2, <1>3, <1>4

LEMMA ChoicesIInv ==
    ASSUME IInv, Choices
    PROVE  IInv'
<1>1. IsPanel(panel)
    BY DEF IInv, WellFormed
<1>2. /\ panel.composer \in Composers /\ NewDeliverable \in Composers
      /\ panel.selected \in Artifacts \cup {NoRow} /\ NoRow \in Artifacts \cup {NoRow}
    BY <1>1 DEF IsPanel, NewDeliverable, Composers, Sources
<1>3. ShowsArtifacts(panel) \subseteq Artifacts /\ ShowsPinned(panel) \subseteq Artifacts
    BY <1>1, ListedArtifacts
<1>4. ASSUME IsShown("files") PROVE IsAnswer(panel.shown["files"], "files")
    BY <1>1, <1>4, ShownParts
<1>5. ASSUME NEW form \in Composers, Chooses([panel EXCEPT !.composer = form]) PROVE IInv'
    <2> DEFINE pn == [panel EXCEPT !.composer = form]
    <2>1. IsPanel(pn) /\ SameContent(pn, panel) /\ pn.message = panel.message
        BY <1>1, <1>2, ChoicePanels
    <2> QED
        BY <1>5, <2>1, ChoosesIInv
<1>6. ASSUME NEW form \in Composers, NEW a \in Artifacts \cup {NoRow},
             Chooses([panel EXCEPT !.composer = form, !.selected = a, !.message = 0,
                                   !.failed = FALSE])
      PROVE  IInv'
    <2> DEFINE pn == [panel EXCEPT !.composer = form, !.selected = a, !.message = 0,
                                   !.failed = FALSE]
    <2>1. IsPanel(pn) /\ SameContent(pn, panel) /\ pn.message = 0
        BY <1>1, ChoicePanels
    <2> QED
        BY <1>6, <2>1, ChoosesIInv
<1>7. CASE Select
    <2>1. PICK a \in ShowsArtifacts(panel) : Chooses([panel EXCEPT !.selected = a])
        BY <1>7 DEF Select
    <2> DEFINE pn == [panel EXCEPT !.selected = a]
    <2>2. IsPanel(pn) /\ SameContent(pn, panel) /\ pn.message = panel.message
        BY <1>1, <1>2, <1>3, ChoicePanels
    <2> QED
        BY <2>1, <2>2, ChoosesIInv
<1>8. CASE StartEditDeliverable
    <2> DEFINE s == panel.shown["files"]
               source == s.rows["deliverable"]
               form == [row |-> ShownRow("files", "deliverable"), source |-> source,
                        items |-> IF source = "bundle" THEN s.items ELSE {}]
               a == IF source = "artifact" THEN CHOOSE x \in s.items : TRUE ELSE panel.selected
    <2>1. /\ IsShown("files") /\ source # "absent"
          /\ Chooses([panel EXCEPT !.composer = form, !.selected = a, !.message = 0,
                                   !.failed = FALSE])
        BY <1>8 DEF StartEditDeliverable
    <2>2. /\ s.of \in Representatives /\ "deliverable" \in DOMAIN s.rows
          /\ source \in StatesOf("deliverable") /\ s.items \subseteq Artifacts
          /\ (source \in {"artifact", "bundle"} <=> s.items # {})
        BY <1>4, <2>1 DEF IsAnswer, Always, Fits
    <2>3. source \in Sources
        BY <2>1, <2>2, StatesAre DEF Sources
    <2>4. ShownRow("files", "deliverable") \in Row
        BY <2>2 DEF ShownRow, Row, Names
    <2>5. form \in Composers
        BY <2>2, <2>3, <2>4 DEF Composers
    <2>6. a \in Artifacts \cup {NoRow}
        BY <1>2, <2>2
    <2> HIDE DEF form, a
    <2> QED
        BY <1>6, <2>1, <2>5, <2>6
<1>9. CASE PrepareDeliverable
    BY <1>2, <1>5, <1>9 DEF PrepareDeliverable
<1>10. CASE ApplyPreset
    <2> DEFINE pinned == panel.shown["files"].pinned
               form == [NewDeliverable EXCEPT !.source = "bundle", !.items = pinned]
    <2>1. pinned \subseteq Artifacts
        BY <1>4, <1>10 DEF ApplyPreset, IsAnswer
    <2>2. form \in Composers
        BY <2>1 DEF NewDeliverable, Composers, Sources
    <2>3. \/ Chooses([panel EXCEPT !.composer = form, !.selected = NoRow, !.message = 0,
                                   !.failed = FALSE])
          \/ \E a \in pinned : Chooses([panel EXCEPT !.composer = NewDeliverable, !.selected = a,
                                                     !.message = 0, !.failed = FALSE])
        BY <1>10 DEF ApplyPreset
    <2> HIDE DEF form
    <2> QED
        BY <1>2, <1>6, <2>1, <2>2, <2>3
<1>11. CASE ChooseSource
    <2>1. PICK source \in Sources :
            Chooses([panel EXCEPT
                       !.composer.source = source,
                       !.composer.items = IF source = "bundle" /\ @ = {} THEN ShowsPinned(panel)
                                          ELSE @])
        BY <1>11 DEF ChooseSource, Sources
    <2> DEFINE items == IF source = "bundle" /\ panel.composer.items = {} THEN ShowsPinned(panel)
                        ELSE panel.composer.items
               form == [panel.composer EXCEPT !.source = source, !.items = items]
    <2>2. form \in Composers
        BY <1>2, <1>3 DEF Composers
    <2>3. Chooses([panel EXCEPT !.composer = form])
        BY <1>1, <1>2, <2>1 DEF IsPanel, PanelFields, Composers
    <2> HIDE DEF form
    <2> QED
        BY <1>5, <2>2, <2>3
<1>12. CASE ToggleItem
    <2>1. PICK a \in ShowsPinned(panel) :
            Chooses([panel EXCEPT !.composer.items = IF a \in @ THEN @ \ {a} ELSE @ \cup {a}])
        BY <1>12 DEF ToggleItem
    <2> DEFINE items == IF a \in panel.composer.items THEN panel.composer.items \ {a}
                        ELSE panel.composer.items \cup {a}
               form == [panel.composer EXCEPT !.items = items]
    <2>2. form \in Composers
        BY <1>2, <1>3 DEF Composers
    <2>3. Chooses([panel EXCEPT !.composer = form])
        BY <1>1, <1>2, <2>1 DEF IsPanel, PanelFields, Composers
    <2> HIDE DEF form
    <2> QED
        BY <1>5, <2>2, <2>3
<1>13. CASE StartEditBinding
    <2>1. /\ moves' = moves + 1 /\ UNCHANGED <<db, flights, disturbances, served, calm>>
          /\ panel' = [panel EXCEPT !.editing = TRUE, !.message = 0, !.failed = FALSE]
        BY <1>13 DEF StartEditBinding
    <2>2. /\ DOMAIN panel' = PanelFields /\ SameContent(panel', panel) /\ panel'.message = 0
          /\ panel'.selected = panel.selected /\ panel'.detail = panel.detail
          /\ panel'.composer = panel.composer
        BY <1>1, <2>1 DEF IsPanel, PanelFields, SameContent
    <2>3. IsPanel(panel') /\ ShowsArtifacts(panel') = ShowsArtifacts(panel)
        BY <1>1, <1>2, <2>2 DEF IsPanel, SameContent, ShowsArtifacts
    <2>4. WellFormed'
        BY <2>1, <2>2, <2>3, MovesOn DEF IInv, WellFormed, WellStored, SameContent
    <2>5. AtPeace(panel, flights) => AtPeace(panel, flights)'
        <3>1. \A r, q : Answer(r, q)' = Answer(r, q)
            BY <2>1, AnswersStay
        <3> QED
            BY <2>1, <2>2, <3>1 DEF AtPeace, Current, MayLag, Awaited, SameContent
    <2> QED
        BY <2>1, <2>2, <2>4, <2>5 DEF IInv, MessageMeansDone, Quiet
<1> QED
    BY <1>7, <1>8, <1>9, <1>10, <1>11, <1>12, <1>13 DEF Choices

-------------------------------------------------------------------------------
(* The buttons.                                                            *)

\* A click that sends a well formed request of its own.
LEMMA ClickIInv ==
    ASSUME IInv, NEW key, NEW f, Click(key, f),
           DOMAIN f = FlightFields, f.id = moves + 1, f.op \in Ops, IsClick(f),
           f.slug = panel.slug, f.parts \subseteq Parts, f.at = "sent", f.live = TRUE,
           DOMAIN f.got = {}, WellAsked(f), Refreshes(f, panel.view)
    PROVE  IInv'
<1> DEFINE busy == IF key = NoKey THEN panel.busy ELSE key
           pn == [panel EXCEPT !.busy = busy, !.message = 0, !.failed = FALSE]
           fs == flights \cup {f}
<1>1. WellFormed /\ IsPanel(panel) /\ moves \in Nat
    BY DEF IInv, WellFormed
<1>2. /\ Renders(pn, fs) /\ moves' = moves + 1 /\ calm' = (calm /\ Chains(flights) = {})
      /\ UNCHANGED <<db, disturbances, served>>
    BY DEF Click
<1>3. /\ DOMAIN pn = PanelFields /\ SameContent(pn, panel) /\ pn.message = 0
      /\ pn.selected = panel.selected /\ pn.detail = panel.detail /\ pn.composer = panel.composer
    BY <1>1 DEF IsPanel, PanelFields, SameContent
<1> HIDE DEF pn
<1>4. IsPanel(pn)
    BY <1>1, <1>3 DEF IsPanel, SameContent
<1>5. IsFlight(f)
    BY <1>1 DEF IsFlight, IsClick, IsPanel
<1>6. Known(f, pn.view, served', moves')
    <2>1. moves + 1 \in 1..(moves + 1)
        BY <1>1
    <2> QED
        BY <1>2, <1>3, <2>1 DEF Known, SameContent
<1>7. \A g \in flights : IsFlight(g) /\ Known(g, pn.view, served', moves')
    BY <1>1, <1>2, <1>3, MovesOn DEF WellFormed, SameContent
<1>8. WellStored' /\ moves' \in Nat /\ served' \subseteq 1..moves' /\ calm' \in BOOLEAN
    BY <1>1, <1>2 DEF WellFormed, WellStored
<1>9. WellFormed' /\ MessageMeansDone'
    BY <1>2, <1>3, <1>4, <1>5, <1>6, <1>7, <1>8, RenderStep
<1>10. ASSUME calm, Chains(flights) = {} PROVE AtPeace(pn, fs)
    <2>1. AtPeace(panel, flights)
        BY <1>10 DEF IInv, Quiet
    <2>2. \A p \in PartsOf[pn.view] : Current(pn, p)
        BY <1>3, <1>10, <2>1 DEF AtPeace, Awaited, Current, SameContent
    <2>3. Chains(fs) = {f}
        BY <1>10 DEF Chains, IsClick
    <2> QED
        BY <1>3, <2>2, <2>3 DEF AtPeace, SameContent
<1> QED
    BY <1>2, <1>4, <1>9, <1>10, RenderQuiet DEF IInv, Quiet

\* The buttons that act on a row, or start a run.
LEMMA ActIInv ==
    ASSUME IInv, NEW op \in Ops, op \notin {"load", "detail", "setup", "memory", "sync"},
           NEW row, NEW to, NEW key, Act(op, row, to, key),
           \A f : f.op = op /\ f.row = row /\ f.to = to /\ f.slug = panel.slug => WellAsked(f)
    PROVE  IInv'
<1> DEFINE parts == PartsOf[panel.view]
           f == NewFlight(op, parts)
           g == [f EXCEPT !.row = row, !.to = to]
<1>1. moves \in Nat /\ parts \subseteq Parts
    BY ViewsAre DEF IInv, WellFormed, IsPanel
<1>2. /\ DOMAIN f = FlightFields /\ DOMAIN f.got = {}
      /\ f.id = moves + 1 /\ f.op = op /\ f.slug = panel.slug /\ f.parts = parts
      /\ f.row = NoRow /\ f.live = TRUE /\ f.at = "sent"
    BY <1>1 DEF NewFlight, Flight, FlightFields
<1> HIDE DEF f
<1>3. /\ DOMAIN g = FlightFields /\ DOMAIN g.got = {}
      /\ g.id = moves + 1 /\ g.op = op /\ g.slug = panel.slug /\ g.parts = parts
      /\ g.row = row /\ g.to = to /\ g.live = TRUE /\ g.at = "sent"
    BY <1>2 DEF FlightFields
<1>4. Click(key, g)
    BY DEF Act, f
<1> HIDE DEF g
<1>5. WellAsked(g) /\ IsClick(g) /\ Refreshes(g, panel.view)
    BY <1>3 DEF IsClick, Refreshes, IsPartial
<1> QED
    BY <1>1, <1>3, <1>4, <1>5, ClickIInv

LEMMA SaveIInv ==
    ASSUME IInv, NEW f \in Saves, NEW p, NEW key, Save(f, p, key),
           \/ f = "setup" /\ p = "identity"
           \/ f = "memory" /\ p = "memory"
           \/ f \in {"overlays", "governance"} /\ p = "settings"
    PROVE  IInv'
<1> DEFINE parts == IF panel.view = "setup" THEN {p} ELSE PartsOf[panel.view]
           h == NewFlight(f, parts)
           g == [h EXCEPT !.text = panel.drafts[f]]
<1>1. IsPanel(panel) /\ moves \in Nat /\ IsShown(p) /\ Click(key, g)
    BY DEF IInv, WellFormed, Save
<1>2. p \in PartsOf[panel.view] /\ f \in FormsOf[p]
    BY <1>1, ShownParts DEF FormsOf
<1>3. panel.drafts[f] \in Text
    BY <1>1, <1>2, ShownParts
<1>4. panel.view \in Views /\ PartsOf[panel.view] \subseteq Parts
    BY <1>1, ViewsAre DEF IsPanel
<1>5. parts \subseteq Parts
    BY <1>2, <1>4
<1>6. p = "settings" => panel.view # "setup"
    BY <1>2, <1>4, ViewsAre
<1> HIDE DEF parts
<1>7. /\ DOMAIN h = FlightFields /\ DOMAIN h.got = {}
      /\ h.id = moves + 1 /\ h.op = f /\ h.slug = panel.slug /\ h.parts = parts
      /\ h.row = NoRow /\ h.live = TRUE /\ h.at = "sent"
    <2>1. moves + 1 # 0
        BY <1>1
    <2> QED
        BY <2>1 DEF NewFlight, Flight, FlightFields
<1> HIDE DEF h
<1>8. /\ DOMAIN g = FlightFields /\ DOMAIN g.got = {}
      /\ g.id = moves + 1 /\ g.op = f /\ g.slug = panel.slug /\ g.parts = parts
      /\ g.text = panel.drafts[f] /\ g.row = NoRow /\ g.live = TRUE /\ g.at = "sent"
    BY <1>7 DEF FlightFields
<1> HIDE DEF g
<1>9. WellAsked(g)
    BY <1>3, <1>8 DEF WellAsked, Saves
<1>10. g.op \in Ops /\ IsClick(g) /\ Refreshes(g, panel.view)
    BY <1>6, <1>8 DEF parts, IsClick, Refreshes, IsPartial, Ops, Saves
<1> QED
    BY <1>1, <1>5, <1>8, <1>9, <1>10, ClickIInv

LEMMA SyncIInv ==
    ASSUME IInv, Sync
    PROVE  IInv'
<1>1. IsPanel(panel) /\ moves \in Nat /\ panel.view \in Views
    BY DEF IInv, WellFormed, IsPanel
<1>2. ASSUME NEW p \in {"memory", "recall"}, IsShown(p), NEW key, Click(key, NewFlight("sync", {p}))
      PROVE  IInv'
    <2> DEFINE f == NewFlight("sync", {p})
    <2>1. p \in PartsOf[panel.view]
        BY <1>1, <1>2, ShownParts
    <2>2. p = "memory" <=> panel.view = "setup"
        BY <1>1, <2>1, ViewsAre, PartsAre
    <2>3. p = "recall" => PartsOf[panel.view] = {p}
        BY <1>1, <2>1, ViewsAre, PartsAre DEF PartsOf, Views
    <2>4. /\ DOMAIN f = FlightFields /\ DOMAIN f.got = {}
          /\ f.id = moves + 1 /\ f.op = "sync" /\ f.slug = panel.slug /\ f.parts = {p}
          /\ f.row = NoRow /\ f.live = TRUE /\ f.at = "sent"
        BY <1>1 DEF NewFlight, Flight, FlightFields
    <2> HIDE DEF f
    <2>5. f.op \in Ops /\ IsClick(f) /\ Refreshes(f, panel.view) /\ WellAsked(f)
        BY <2>2, <2>3, <2>4 DEF IsClick, Refreshes, IsPartial, WellAsked, Ops, Saves
    <2>6. f.parts \subseteq Parts
        BY <2>4, PartsAre
    <2> QED
        BY <1>2, <2>4, <2>5, <2>6, ClickIInv DEF f
<1> QED
    BY <1>2 DEF Sync

LEMMA SaveDeliverableIInv ==
    ASSUME IInv, SaveDeliverable
    PROVE  IInv'
<1> DEFINE form == panel.composer
           row == IF form.row = NoRow THEN [of |-> panel.slug, name |-> "deliverable"] ELSE form.row
           items == CASE form.source = "artifact" -> {panel.selected}
                      [] form.source = "bundle" -> form.items
                      [] OTHER -> {}
           h == NewFlight("deliverable", PartsOf["compute"])
           g == [h EXCEPT !.row = row, !.to = form.source, !.items = items]
<1>1. /\ IsShown("files") /\ Click(Key("deliverable", NoRow, ""), g)
      /\ form.source = "artifact" => panel.selected # NoRow
      /\ form.source = "bundle" => form.items # {}
    BY DEF SaveDeliverable
<1>2. /\ IsPanel(panel) /\ moves \in Nat /\ panel.view \in Views
      /\ panel.selected \in Artifacts \cup {NoRow} /\ form \in Composers
    BY DEF IInv, WellFormed, IsPanel
<1>3. panel.view = "compute"
    BY <1>1, <1>2, ShownParts, ViewsAre, PartsAre
<1>4. items \subseteq Artifacts /\ (form.source \in {"artifact", "bundle"} <=> items # {})
    <2>1. form.source \in Sources /\ form.items \subseteq Artifacts
        BY <1>2 DEF Composers
    <2>2. CASE form.source = "artifact"
        BY <1>1, <1>2, <2>2
    <2>3. CASE form.source = "bundle"
        BY <1>1, <2>1, <2>3
    <2>4. CASE form.source = "link"
        BY <2>4
    <2> QED
        BY <2>1, <2>2, <2>3, <2>4 DEF Sources
<1>5. form.source \in Sources
    BY <1>2 DEF Composers
<1> HIDE DEF row, items
<1>6. /\ DOMAIN h = FlightFields /\ DOMAIN h.got = {}
      /\ h.id = moves + 1 /\ h.op = "deliverable" /\ h.slug = panel.slug
      /\ h.parts = PartsOf["compute"] /\ h.live = TRUE /\ h.at = "sent"
    BY <1>2 DEF NewFlight, Flight, FlightFields
<1> HIDE DEF h
<1>7. /\ DOMAIN g = FlightFields /\ DOMAIN g.got = {}
      /\ g.id = moves + 1 /\ g.op = "deliverable" /\ g.slug = panel.slug
      /\ g.parts = PartsOf["compute"] /\ g.live = TRUE /\ g.at = "sent"
      /\ g.to = form.source /\ g.items = items
    BY <1>6 DEF FlightFields
<1> HIDE DEF g
<1>8. WellAsked(g)
    BY <1>4, <1>5, <1>7 DEF WellAsked, Saves
<1>9. g.op \in Ops /\ IsClick(g) /\ Refreshes(g, panel.view)
    BY <1>3, <1>7 DEF IsClick, Refreshes, IsPartial, Ops
<1>10. g.parts \subseteq Parts
    BY <1>2, <1>3, <1>7, ViewsAre
<1> QED
    BY <1>1, <1>7, <1>8, <1>9, <1>10, ClickIInv

LEMMA ButtonsIInv ==
    ASSUME IInv, Buttons
    PROVE  IInv'
<1>1. IsPanel(panel) /\ panel.slug \in Representatives
    BY DEF IInv, WellFormed, IsPanel
<1>2. /\ IsShown("inbox") => IsAnswer(panel.shown["inbox"], "inbox")
      /\ IsShown("settings") => IsAnswer(panel.shown["settings"], "settings")
    BY <1>1, ShownParts
<1> USE DEF Ops, Saves
<1>3. CASE SaveSetup \/ SaveMemory \/ SaveOverlays \/ SaveGovernance
    <2>1. /\ "setup" \in Saves /\ "memory" \in Saves
          /\ "overlays" \in Saves /\ "governance" \in Saves
        OBVIOUS
    <2> HIDE DEF Saves
    <2>2. CASE SaveSetup
        BY <2>1, <2>2, SaveIInv DEF SaveSetup
    <2>3. CASE SaveMemory
        BY <2>1, <2>3, SaveIInv DEF SaveMemory
    <2>4. CASE SaveOverlays
        BY <2>1, <2>4, SaveIInv DEF SaveOverlays
    <2>5. CASE SaveGovernance
        BY <2>1, <2>5, SaveIInv DEF SaveGovernance
    <2> QED
        BY <1>3, <2>2, <2>3, <2>4, <2>5
<1>4. CASE Sync
    BY <1>4, SyncIInv
<1>5. CASE ChangeStatus
    <2> DEFINE row == ShownRow("inbox", "handoff")
    <2>1. PICK to \in NextStatuses[panel.shown["inbox"].rows["handoff"]] :
            IsShown("inbox") /\ Act("handoff", row, to, Key("handoff", row, to))
        BY <1>5 DEF ChangeStatus
    <2>2. panel.shown["inbox"].rows["handoff"] \in StatesOf("handoff")
        BY <1>2, <2>1 DEF IsAnswer, Always
    <2>3. to \in StatesOf("handoff")
        BY <2>2, StatesAre DEF NextStatuses
    <2>4. \A f : f.op = "handoff" /\ f.to = to => WellAsked(f)
        BY <2>3 DEF WellAsked
    <2> QED
        BY <2>1, <2>4, ActIInv
<1>6. CASE Install
    <2> DEFINE row == [of |-> panel.slug, name |-> "pack"]
    <2>1. Act("install", row, "off", Key("install", row, ""))
        BY <1>6 DEF Install
    <2>2. \A f : f.op = "install" /\ f.row = row /\ f.slug = panel.slug => WellAsked(f)
        BY DEF WellAsked
    <2> QED
        BY <2>1, <2>2, ActIInv
<1>7. CASE TogglePack
    <2> DEFINE row == ShownRow("packs", "pack")
    <2>1. PICK to \in {"on", "off"} : Act("pack", row, to, Key("pack", row, ""))
        BY <1>7 DEF TogglePack
    <2>2. \A f : f.op = "pack" /\ f.to = to => WellAsked(f)
        BY DEF WellAsked
    <2> QED
        BY <2>1, <2>2, ActIInv
<1>8. CASE Resolve
    <2> DEFINE row == ShownRow("files", "approval")
    <2>1. PICK to \in {"approved", "rejected"} : Act("approval", row, to, Key("approval", row, to))
        BY <1>8 DEF Resolve
    <2>2. \A f : f.op = "approval" /\ f.to = to => WellAsked(f)
        BY DEF WellAsked
    <2> QED
        BY <2>1, <2>2, ActIInv
<1>9. CASE RunNative
    <2> DEFINE trace == ShownRow("settings", "artifact2")
    <2>1. IsShown("settings") /\ Act("native", trace, "loose", Key("native", NoRow, ""))
        BY <1>9 DEF RunNative
    <2>2. trace \in Artifacts /\ trace.name = "artifact2"
        BY <1>2, <2>1 DEF IsAnswer, ShownRow, Artifacts, ArtifactNames, Row, Names
    <2>3. \A f : f.op = "native" /\ f.row = trace => WellAsked(f)
        BY <2>2 DEF WellAsked
    <2> QED
        BY <2>1, <2>3, ActIInv
<1>10. CASE SaveBinding
    <2> DEFINE row == IF panel.editing THEN ShownRow("settings", "binding")
                      ELSE [of |-> panel.slug, name |-> "binding"]
               to == IF panel.editing THEN "update" ELSE "create"
    <2>1. Act("binding", row, to, Key("binding", NoRow, ""))
        BY <1>10 DEF SaveBinding
    <2>2. to = "create" => row.of = panel.slug
        OBVIOUS
    <2> HIDE DEF row, to
    <2>3. \A f : f.op = "binding" /\ f.row = row /\ f.to = to /\ f.slug = panel.slug => WellAsked(f)
        BY <2>2 DEF WellAsked
    <2> QED
        BY <2>1, <2>3, ActIInv
<1>11. CASE TogglePin
    <2> DEFINE row == panel.detail.row
    <2>1. PICK to \in {"loose", "pinned"} : /\ panel.detail # NoDetail
                                            /\ Act("pin", row, to, Key("pin", row, ""))
        BY <1>11 DEF TogglePin
    <2>2. row \in Artifacts
        BY <1>1, <2>1 DEF IsPanel
    <2>3. \A f : f.op = "pin" /\ f.row = row /\ f.to = to => WellAsked(f)
        BY <2>2 DEF WellAsked
    <2> QED
        BY <2>1, <2>3, ActIInv
<1>12. CASE SaveDeliverable
    BY <1>12, SaveDeliverableIInv
<1> QED
    BY <1>3, <1>4, <1>5, <1>6, <1>7, <1>8, <1>9, <1>10, <1>11, <1>12 DEF Buttons

-------------------------------------------------------------------------------
(* The routes.                                                             *)

LEMMA TextPut ==
    ASSUME NEW mine, IsData(mine), NEW t \in Forms, NEW text \in Text
    PROVE  LET next == [mine EXCEPT !.texts[t] = text] IN
           /\ IsData(next) /\ next.rows = mine.rows /\ next.items = mine.items
           /\ \A u \in Forms \ {t} : next.texts[u] = mine.texts[u]
<1> DEFINE next == [mine EXCEPT !.texts[t] = text]
<1>1. /\ next \in [texts : [Forms -> Text], rows : [Names -> States], items : SUBSET Artifacts]
      /\ next.rows = mine.rows /\ next.items = mine.items
      /\ \A u \in Forms \ {t} : next.texts[u] = mine.texts[u]
    BY DEF IsData
<1> HIDE DEF next
<1>2. IsData(next)
    BY <1>1 DEF IsData
<1> QED
    BY <1>1, <1>2 DEF next

LEMMA RowPut ==
    ASSUME NEW mine, IsData(mine), NEW x \in Names, x # "deliverable", NEW state \in StatesOf(x)
    PROVE  LET next == [mine EXCEPT !.rows[x] = state] IN
           IsData(next) /\ next.texts = mine.texts /\ next.items = mine.items
<1> DEFINE next == [mine EXCEPT !.rows[x] = state]
<1>1. state \in States
    BY DEF States
<1>2. /\ next \in [texts : [Forms -> Text], rows : [Names -> States], items : SUBSET Artifacts]
      /\ next.texts = mine.texts /\ next.items = mine.items
      /\ next.rows[x] = state /\ \A y \in Names \ {x} : next.rows[y] = mine.rows[y]
    BY <1>1 DEF IsData
<1>3. "deliverable" \in Names
    BY DEF Names
<1> HIDE DEF next
<1>4. IsData(next)
    BY <1>2, <1>3 DEF IsData, Fits
<1> QED
    BY <1>2, <1>4 DEF next

\* A row is moved only under its own slug; texts are written by their own form, the
\* overlays by the setup's too; the form of the memory moves no row.
IsMove(f, mine, next) ==
    /\ IsData(next)
    /\ next.rows # mine.rows => f.row = NoRow \/ f.row.of = f.slug
    /\ \A t \in Forms \ {f.op} : t = "overlays" \/ next.texts[t] = mine.texts[t]
    /\ f.op = "memory" => next.rows = mine.rows

LEMMA DeliverablePut ==
    ASSUME NEW f, WellAsked(f), f.op = "deliverable", NEW mine, IsData(mine),
           NEW next \in PutDeliverable(f, mine)
    PROVE  IsMove(f, mine, next)
<1> DEFINE rows == [x \in Names |-> IF x = "deliverable" THEN f.to
                                    ELSE IF [of |-> f.slug, name |-> x] \in f.items THEN "pinned"
                                    ELSE mine.rows[x]]
<1>1. IsTheirs(f) /\ next = [mine EXCEPT !.items = f.items, !.rows = rows]
    BY DEF PutDeliverable, When
<1>2. /\ f.to \in Sources /\ f.items \subseteq Artifacts
      /\ (f.to \in {"artifact", "bundle"} <=> f.items # {})
    BY DEF WellAsked
<1>3. ASSUME NEW x \in Names PROVE rows[x] \in StatesOf(x)
  <2>1. CASE x = "deliverable"
    BY <1>2, <2>1, StatesAre DEF Sources
  <2>2. CASE x # "deliverable" /\ [of |-> f.slug, name |-> x] \in f.items
    <3>1. x \in ArtifactNames
      BY <1>2, <2>2 DEF Artifacts
    <3> QED
      BY <2>2, <3>1, StatesAre
  <2>3. CASE x # "deliverable" /\ [of |-> f.slug, name |-> x] \notin f.items
    BY <2>3 DEF IsData
  <2> QED
    BY <2>1, <2>2, <2>3
<1>4. rows \in [Names -> States] /\ rows["deliverable"] = f.to
    BY <1>3 DEF States, Names
<1> HIDE DEF rows
<1>5. /\ next \in [texts : [Forms -> Text], rows : [Names -> States], items : SUBSET Artifacts]
      /\ next.texts = mine.texts /\ next.items = f.items /\ next.rows = rows
    BY <1>1, <1>2, <1>4 DEF IsData
<1>6. IsData(next)
    BY <1>2, <1>3, <1>4, <1>5 DEF IsData, Fits
<1> QED
    BY <1>1, <1>5, <1>6 DEF IsMove, IsTheirs

LEMMA OutcomesAre ==
    ASSUME NEW f, WellAsked(f), f.slug \in Representatives, f.op \in Ops, IsClick(f), NEW mine, IsData(mine),
           NEW next \in Outcomes(f, mine)
    PROVE  IsMove(f, mine, next)
<1>1. mine.texts \in [Forms -> Text] /\ \A x \in Names : mine.rows[x] \in StatesOf(x)
    BY DEF IsData
<1>2. ASSUME NEW t \in Saves, f.op = t, next = [mine EXCEPT !.texts[t] = f.text]
      PROVE  IsMove(f, mine, next)
  <2>1. t \in Forms /\ f.text \in Text
    BY <1>2, PartsAre DEF WellAsked, Saves
  <2> QED
    BY <1>2, <2>1, TextPut DEF IsMove
<1>3. ASSUME NEW x \in Names, x # "deliverable", NEW state \in StatesOf(x),
             next = [mine EXCEPT !.rows[x] = state],
             f.row = NoRow \/ f.row.of = f.slug, f.op \notin Saves
      PROVE  IsMove(f, mine, next)
  <2>1. IsData(next) /\ next.texts = mine.texts
    BY <1>3, RowPut
  <2> QED
    BY <1>3, <2>1 DEF IsMove, Saves
<1>4. CASE f.op = "setup"
  <2> DEFINE defaults == [of |-> f.slug, n |-> 0]
             put(status) == [mine EXCEPT !.texts["setup"] = f.text, !.texts["overlays"] = defaults,
                                         !.rows["resources"] = status]
  <2>1. PICK status \in {mine.rows["resources"], "synced", "failed"} : next = put(status)
    BY <1>4 DEF Outcomes, PatchSetup
  <2>2. f.text \in Text /\ f.row = NoRow /\ {"setup", "overlays"} \subseteq Forms
    BY <1>4, PartsAre DEF WellAsked, Saves
  <2>3. defaults \in Text
    BY PanelsAssumption DEF Text
  <2>4. "resources" \in Names /\ status \in StatesOf("resources")
    BY <1>1, <2>1, StatesAre DEF Names
  <2> DEFINE first == [mine EXCEPT !.texts["setup"] = f.text]
             second == [first EXCEPT !.texts["overlays"] = defaults]
  <2>5. IsData(first) /\ \A u \in Forms \ {"setup"} : first.texts[u] = mine.texts[u]
    BY <2>2, TextPut
  <2>6. next = [second EXCEPT !.rows["resources"] = status]
    BY <2>1 DEF IsData
  <2> HIDE DEF first, defaults
  <2>7. IsData(second) /\ \A u \in Forms \ {"overlays"} : second.texts[u] = first.texts[u]
    BY <2>2, <2>3, <2>5, TextPut
  <2> HIDE DEF second
  <2>8. IsData(next) /\ next.texts = second.texts
    BY <2>4, <2>6, <2>7, RowPut
  <2> QED
    BY <1>4, <2>2, <2>5, <2>7, <2>8 DEF IsMove
<1>5. CASE f.op = "memory"
    BY <1>2, <1>5 DEF Outcomes, PatchMemory, Saves
<1>6. CASE f.op = "overlays"
    BY <1>2, <1>6 DEF Outcomes, PatchOverlays, Saves
<1>7. CASE f.op = "governance"
    BY <1>2, <1>7 DEF Outcomes, PatchGovernance, Saves
<1>8. CASE f.op = "sync"
  <2>1. next = [mine EXCEPT !.rows["resources"] = "synced"] /\ f.row = NoRow
    BY <1>8 DEF Outcomes, PostSync, WellAsked
  <2>2. "resources" \in Names /\ "synced" \in StatesOf("resources") /\ f.op \notin Saves
    BY <1>8, StatesAre DEF Names, Saves
  <2> QED
    BY <1>3, <2>1, <2>2
<1>9. CASE f.op = "handoff"
  <2>1. next = [mine EXCEPT !.rows["handoff"] = f.to] /\ f.row.of = f.slug
    BY <1>9 DEF Outcomes, PatchHandoff, When, IsTheirs
  <2>2. "handoff" \in Names /\ f.to \in StatesOf("handoff") /\ f.op \notin Saves
    BY <1>9 DEF Names, Saves, WellAsked
  <2> QED
    BY <1>3, <2>1, <2>2
<1>10. CASE f.op = "install"
  <2> DEFINE state == IF mine.rows["pack"] = "available" THEN "off" ELSE mine.rows["pack"]
  <2>1. next = [mine EXCEPT !.rows["pack"] = state] /\ f.row.of = f.slug
    BY <1>10 DEF Outcomes, PostSkillPack, WellAsked
  <2>2. "pack" \in Names /\ state \in StatesOf("pack") /\ f.op \notin Saves
    BY <1>1, <1>10, StatesAre DEF Names, Saves
  <2> HIDE DEF state
  <2> QED
    BY <1>3, <2>1, <2>2
<1>11. CASE f.op = "pack"
  <2>1. next = [mine EXCEPT !.rows["pack"] = f.to] /\ f.row.of = f.slug
    BY <1>11 DEF Outcomes, PatchSkillPack, When, IsTheirs
  <2>2. "pack" \in Names /\ f.to \in StatesOf("pack") /\ f.op \notin Saves
    BY <1>11, StatesAre DEF Names, Saves, WellAsked
  <2> QED
    BY <1>3, <2>1, <2>2
<1>12. CASE f.op = "approval"
  <2>1. next = [mine EXCEPT !.rows["approval"] = f.to] /\ f.row.of = f.slug
    BY <1>12 DEF Outcomes, PatchApproval, When, IsTheirs
  <2>2. "approval" \in Names /\ f.to \in StatesOf("approval") /\ f.op \notin Saves
    BY <1>12, StatesAre DEF Names, Saves, WellAsked
  <2> QED
    BY <1>3, <2>1, <2>2
<1>13. CASE f.op = "native"
  <2> DEFINE state == IF mine.rows["artifact2"] = "absent" THEN "loose" ELSE mine.rows["artifact2"]
  <2>1. next = [mine EXCEPT !.rows["artifact2"] = state] /\ f.row.of = f.slug
    BY <1>13 DEF Outcomes, PostNative, When, IsTheirs
  <2>2. "artifact2" \in Names /\ state \in StatesOf("artifact2") /\ f.op \notin Saves
    BY <1>1, <1>13, StatesAre DEF Names, Saves, ArtifactNames
  <2> HIDE DEF state
  <2> QED
    BY <1>3, <2>1, <2>2
<1>14. CASE f.op = "binding"
  <2>1. CASE f.to = "create"
    <3>1. next = [mine EXCEPT !.rows["binding"] = "saved"] /\ f.row.of = f.slug
      BY <1>14, <2>1 DEF Outcomes, PostBinding, When, WellAsked
    <3>2. "binding" \in Names /\ "saved" \in StatesOf("binding") /\ f.op \notin Saves
      BY <1>14, StatesAre DEF Names, Saves
    <3> QED
      BY <1>3, <3>1, <3>2
  <2>2. CASE f.to # "create"
    <3>1. next = mine
      BY <1>14, <2>2 DEF Outcomes, PatchBinding, When
    <3> QED
      BY <3>1 DEF IsMove
  <2> QED
    BY <2>1, <2>2
<1>15. CASE f.op = "pin"
  <2> DEFINE x == f.row.name
  <2>1. next = [mine EXCEPT !.rows[x] = f.to] /\ f.row.of = f.slug
    BY <1>15 DEF Outcomes, PatchArtifact, When, IsTheirs
  <2>2. f.row \in Artifacts /\ f.to \in {"loose", "pinned"} /\ f.op \notin Saves
    BY <1>15 DEF WellAsked, Saves
  <2>3. x \in ArtifactNames
    BY <2>2 DEF Artifacts
  <2>4. x \in Names /\ x # "deliverable"
    BY <2>3 DEF ArtifactNames, Names
  <2>5. f.to \in StatesOf(x)
    BY <2>2, <2>3, StatesAre
  <2> QED
    BY <1>3, <2>1, <2>2, <2>4, <2>5
<1>16. CASE f.op = "deliverable"
  <2>1. next \in PutDeliverable(f, mine)
    BY <1>16 DEF Outcomes
  <2> QED
    BY <1>16, <2>1, DeliverablePut
<1> QED
    BY <1>4, <1>5, <1>6, <1>7, <1>8, <1>9, <1>10, <1>11, <1>12, <1>13, <1>14, <1>15, <1>16
    DEF IsClick, Ops, Saves

\* What is committed grows.
LEMMA CommitsOn ==
    ASSUME NEW f, NEW view, NEW done, NEW more, done \subseteq more, NEW n, Known(f, view, done, n)
    PROVE  Known(f, view, more, n)
BY DEF Known

\* The answer to a request reaches the chain of a mounted panel.
LEMMA AnsweredFlight ==
    ASSUME NEW f, IsFlight(f), f.at = "sent", f.live, NEW at \in {"done", "refused"},
           NEW view, NEW done, NEW n, Known(f, view, done, n), at = "done" => f.id \in done
    PROVE  LET g == [f EXCEPT !.at = at] IN
           /\ IsFlight(g) /\ Known(g, view, done, n) /\ IsClick(g) /\ g.live
           /\ g.op = f.op /\ g.slug = f.slug /\ g.parts = f.parts /\ g.at = at
           /\ DOMAIN g.got = {}
<1> DEFINE g == [f EXCEPT !.at = at]
<1>1. /\ DOMAIN g = FlightFields /\ g.live = f.live
      /\ g.id = f.id /\ g.op = f.op /\ g.slug = f.slug /\ g.row = f.row /\ g.to = f.to
      /\ g.text = f.text /\ g.items = f.items /\ g.parts = f.parts /\ g.at = at
      /\ g.got = f.got
    BY DEF IsFlight, FlightFields
<1>2. IsClick(f) /\ DOMAIN f.got = {} /\ WellAsked(f) /\ f.live = TRUE
    BY DEF IsFlight, IsClick
<1> HIDE DEF g
<1>3. IsClick(g) /\ WellAsked(g)
    BY <1>1, <1>2 DEF IsClick, WellAsked
<1>4. IsFlight(g)
    BY <1>1, <1>2, <1>3 DEF IsFlight, IsClick
<1>5. Known(g, view, done, n)
    BY <1>1, <1>2 DEF Known, IsClick, Refreshes, IsPartial
<1> QED
    BY <1>1, <1>2, <1>3, <1>4, <1>5 DEF g

\* An answered request, and what it committed.
LEMMA AnsweredWellFormed ==
    ASSUME WellFormed, NEW f \in flights, f.at = "sent", NEW at \in {"done", "refused"},
           flights' = Answered(f, at), UNCHANGED <<panel, moves>>, WellStored', calm' \in BOOLEAN,
           served \subseteq served', served' \subseteq served \cup {f.id},
           at = "done" => f.id \in served'
    PROVE  WellFormed'
<1>1. IsFlight(f) /\ Known(f, panel.view, served, moves)
    BY DEF WellFormed
<1>2. \A g \in flights : IsFlight(g) /\ Known(g, panel.view, served', moves)
    BY CommitsOn DEF WellFormed
<1>3. ASSUME f.live PROVE LET g == [f EXCEPT !.at = at] IN
                          IsFlight(g) /\ Known(g, panel.view, served', moves)
    BY <1>1, <1>2, <1>3, AnsweredFlight
<1>4. \A g \in flights' : IsFlight(g) /\ Known(g, panel.view, served', moves)
    BY <1>2, <1>3 DEF Answered
<1>5. f.id \in 1..moves
    BY <1>1 DEF Known, IsClick, IsFlight
<1> QED
    BY <1>4, <1>5 DEF WellFormed

\* The chain of a panel in peace that has just been answered is its only one.
LEMMA AnsweredAlone ==
    ASSUME WellFormed, AtPeace(panel, flights), NEW f \in flights, f.at = "sent",
           NEW at \in {"done", "refused"}
    PROVE  LET g == [f EXCEPT !.at = at] IN
           /\ Chains(Answered(f, at)) = {g}
           /\ g.live /\ g.slug = panel.slug /\ g.at = at /\ DOMAIN g.got = {} /\ g.parts = f.parts
           /\ f.slug = panel.slug /\ IsClick(f) /\ Refreshes(f, panel.view)
           /\ \A p \in PartsOf[panel.view] : Current(panel, p)
<1> DEFINE g == [f EXCEPT !.at = at]
<1>1. IsFlight(f) /\ Known(f, panel.view, served, moves)
    BY DEF WellFormed
<1>2. IsClick(f) /\ f \in Chains(flights)
    BY <1>1 DEF IsFlight, IsClick, Chains
<1>3. f.live /\ f.slug = panel.slug /\ Chains(flights) = {f}
    BY <1>2 DEF AtPeace
<1>4. /\ g.op = f.op /\ g.live /\ g.slug = f.slug /\ g.at = at /\ DOMAIN g.got = {}
      /\ g.parts = f.parts
    BY <1>1, <1>3 DEF IsFlight, FlightFields
<1> HIDE DEF g
<1>5. Answered(f, at) = (flights \ {f}) \cup {g}
    BY <1>3 DEF Answered, g
<1>6. Chains(Answered(f, at)) = {g}
    BY <1>2, <1>3, <1>4, <1>5 DEF Chains, IsClick
<1>7. Refreshes(f, panel.view)
    BY <1>1, <1>3 DEF Known
<1>8. \A p \in PartsOf[panel.view] : Current(panel, p)
    BY <1>3 DEF AtPeace, Awaited
<1> QED
    BY <1>2, <1>3, <1>4, <1>6, <1>7, <1>8 DEF g

\* A part that the request's chain will not refresh is not changed by it.
LEMMA OtherParts ==
    ASSUME NEW f, Refreshes(f, panel.view), IsClick(f), f.slug = panel.slug,
           panel.view \in Views, panel.slug \in Representatives, WellStored,
           NEW next, IsMove(f, db[f.slug], next), db' = [db EXCEPT ![f.slug] = next],
           UNCHANGED panel, NEW p \in PartsOf[panel.view] \ f.parts, Current(panel, p)
    PROVE  Current(panel, p)'
<1> DEFINE r == panel.slug
<1>1. IsPartial(f, panel.view)
    BY DEF Refreshes
<1>2. /\ f.op \in {"setup", "memory", "sync"}
      /\ f.parts = IF f.op = "setup" THEN {"identity"} ELSE {"memory"}
      /\ p \in {"identity", "memory"}
    BY <1>1 DEF IsPartial, Refreshes, PartsOf
<1>3. db'[r] = next
    BY DEF WellStored
<1>4. CASE f.op = "setup"
  <2>1. p = "memory" /\ FormsOf[p] = {"memory"}
    BY <1>2, <1>4 DEF FormsOf
  <2>2. next.texts["memory"] = db[r].texts["memory"]
    BY <1>4, PartsAre DEF IsMove
  <2>3. Answer(r, p).of' = Answer(r, p).of /\ Answer(r, p).texts' = Answer(r, p).texts
    BY <1>3, <2>1, <2>2 DEF Answer, Memory, Told
  <2> QED
    BY <1>3, <2>1, <2>2, <2>3 DEF Current, MayLag
<1>5. CASE f.op # "setup"
  <2>1. p = "identity" /\ FormsOf[p] = {"setup"}
    BY <1>2, <1>5 DEF FormsOf
  <2>2. next.texts["setup"] = db[r].texts["setup"]
    BY <1>5, PartsAre DEF IsMove
  <2>3. Answer(r, p)' = Answer(r, p)
    BY <1>3, <2>1, <2>2 DEF Answer, Setup, Told
  <2> QED
    BY <1>3, <2>1, <2>2, <2>3 DEF Current, MayLag
<1> QED
    BY <1>4, <1>5

LEMMA RefusedInPeace ==
    ASSUME WellFormed, AtPeace(panel, flights), NEW f \in flights, f.at = "sent",
           flights' = Answered(f, "refused"), UNCHANGED <<db, panel>>
    PROVE  AtPeace(panel, flights)'
<1> DEFINE g == [f EXCEPT !.at = "refused"]
<1>1. /\ Chains(flights') = {g}
      /\ g.live /\ g.slug = panel.slug /\ g.at = "refused" /\ DOMAIN g.got = {}
      /\ \A p \in PartsOf[panel.view] : Current(panel, p)
    BY AnsweredAlone
<1>2. \A p \in PartsOf[panel.view] : Current(panel, p)'
    BY <1>1, AnswersStay DEF Current, MayLag
<1> HIDE DEF g
<1> QED
    BY <1>1, <1>2 DEF AtPeace, Chains

LEMMA ServeIInv ==
    ASSUME IInv, NEW f, Serve(f)
    PROVE  IInv'
<1> DEFINE mine == db[f.slug]
<1>1. /\ f \in flights /\ f.at = "sent" /\ UNCHANGED <<panel, moves>>
      /\ WellFormed /\ MessageMeansDone /\ Quiet
    BY DEF Serve, IInv
<1>2. IsFlight(f) /\ panel.view \in Views /\ panel.slug \in Representatives /\ calm \in BOOLEAN
    BY <1>1 DEF WellFormed, IsPanel
<1>3. WellAsked(f) /\ f.op \in Ops /\ IsClick(f) /\ f.slug \in Representatives /\ IsData(mine)
    BY <1>1, <1>2 DEF IsFlight, IsClick, WellFormed, WellStored
<1>4. CASE Outcomes(f, mine) # {}
  <2>1. PICK at \in {"done", "refused"} : flights' = Answered(f, at) /\ calm' = (calm /\ at = "done")
    BY <1>4 DEF Serve
  <2>2. PICK next \in Outcomes(f, mine) : db' = [db EXCEPT ![f.slug] = next]
    BY <1>4 DEF Serve
  <2>3. served' = served \cup {f.id}
    BY <1>4 DEF Serve
  <2>4. IsMove(f, mine, next)
    BY <1>3, OutcomesAre
  <2>5. WellStored'
    <3>1. \A r \in Representatives : IsData(db'[r])
      BY <1>1, <1>3, <2>2, <2>4 DEF WellFormed, WellStored, IsMove
    <3>2. db' \in [Representatives -> [texts : [Forms -> Text], rows : [Names -> States],
                                       items : SUBSET Artifacts]]
      BY <1>1, <2>2, <2>4 DEF WellFormed, WellStored, IsMove, IsData
    <3> QED
      BY <3>1, <3>2 DEF WellStored
  <2>6. calm' \in BOOLEAN
    BY <2>1
  <2>7. WellFormed'
    BY <1>1, <2>1, <2>3, <2>5, <2>6, AnsweredWellFormed
  <2>8. MessageMeansDone'
    BY <1>1, <2>3 DEF MessageMeansDone
  <2>9. ASSUME calm' PROVE AtPeace(panel, flights)'
    <3> DEFINE g == [f EXCEPT !.at = "done"]
    <3>1. at = "done" /\ AtPeace(panel, flights)
      BY <1>1, <1>2, <2>1, <2>9 DEF Quiet
    <3>2. /\ Chains(flights') = {g}
          /\ g.live /\ g.slug = panel.slug /\ g.at = "done" /\ DOMAIN g.got = {} /\ g.parts = f.parts
          /\ f.slug = panel.slug /\ Refreshes(f, panel.view)
          /\ \A p \in PartsOf[panel.view] : Current(panel, p)
      BY <1>1, <2>1, <3>1, AnsweredAlone
    <3>3. ASSUME NEW p \in PartsOf[panel.view], p \notin f.parts PROVE Current(panel, p)'
      BY <1>1, <1>2, <1>3, <2>2, <2>4, <3>2, <3>3, OtherParts DEF WellFormed
    <3> HIDE DEF g
    <3> QED
      BY <1>1, <3>2, <3>3 DEF AtPeace, Awaited, Chains
  <2> QED
    BY <2>7, <2>8, <2>9 DEF IInv, Quiet
<1>5. CASE Outcomes(f, mine) = {}
  <2>1. flights' = Answered(f, "refused") /\ UNCHANGED <<db, served, calm>>
    BY <1>5 DEF Serve
  <2>2. WellStored' /\ calm' \in BOOLEAN
    BY <1>1, <1>2, <2>1 DEF WellFormed, WellStored
  <2>3. WellFormed'
    BY <1>1, <2>1, <2>2, AnsweredWellFormed
  <2>4. AtPeace(panel, flights) => AtPeace(panel, flights)'
    BY <1>1, <2>1, RefusedInPeace
  <2> QED
    BY <1>1, <2>1, <2>3, <2>4 DEF IInv, Quiet, MessageMeansDone
<1> QED
    BY <1>4, <1>5

LEMMA FailIInv ==
    ASSUME IInv, NEW f, Fail(f)
    PROVE  IInv'
<1>1. /\ f \in flights /\ f.at = "sent" /\ WellFormed /\ MessageMeansDone /\ Quiet
      /\ flights' = Answered(f, "refused") /\ UNCHANGED <<db, panel, moves, served, calm>>
    BY DEF Fail, IInv
<1>2. WellStored' /\ calm' \in BOOLEAN
    BY <1>1 DEF WellFormed, WellStored
<1>3. WellFormed'
    BY <1>1, <1>2, AnsweredWellFormed
<1>4. AtPeace(panel, flights) => AtPeace(panel, flights)'
    BY <1>1, RefusedInPeace
<1> QED
    BY <1>1, <1>3, <1>4 DEF IInv, Quiet, MessageMeansDone

LEMMA SyncFailsIInv ==
    ASSUME IInv, NEW f, SyncFails(f)
    PROVE  IInv'
<1> DEFINE r == f.slug
<1>1. /\ f \in flights /\ f.at = "sent" /\ WellFormed /\ MessageMeansDone /\ Quiet
      /\ flights' = Answered(f, "refused") /\ UNCHANGED <<panel, moves, served, calm>>
    BY DEF SyncFails, IInv
<1>2. WellStored /\ r \in Representatives /\ calm \in BOOLEAN /\ IsPanel(panel)
    BY <1>1 DEF WellFormed, IsFlight
<1>3. db' = [db EXCEPT ![r] = [db[r] EXCEPT !.rows["resources"] = "failed"]]
    BY DEF SyncFails
<1>4. /\ "resources" \in Names /\ "failed" \in StatesOf("resources")
    BY StatesAre DEF Names
<1> DEFINE next == [db[r] EXCEPT !.rows["resources"] = "failed"]
<1>5. /\ IsData(next) /\ next.texts = db[r].texts /\ next.items = db[r].items
      /\ next.rows["resources"] = "failed"
      /\ \A x \in Names \ {"resources"} : next.rows[x] = db[r].rows[x]
  <2>1. IsData(db[r]) /\ "resources" # "deliverable"
    BY <1>2 DEF WellStored
  <2>2. IsData(next) /\ next.texts = db[r].texts /\ next.items = db[r].items
    BY <1>4, <2>1, RowPut
  <2> QED
    BY <1>4, <2>1, <2>2 DEF IsData
<1> HIDE DEF next
<1>6. db' = [db EXCEPT ![r] = next]
    BY <1>3 DEF next
<1>7. WellStored'
  <2>1. \A s \in Representatives : IsData(db'[s])
    BY <1>2, <1>5, <1>6 DEF WellStored
  <2>2. db' \in [Representatives -> [texts : [Forms -> Text], rows : [Names -> States],
                                     items : SUBSET Artifacts]]
    BY <1>2, <1>5, <1>6 DEF WellStored, IsData
  <2> QED
    BY <2>1, <2>2 DEF WellStored
<1>8. WellFormed'
    BY <1>1, <1>2, <1>7, AnsweredWellFormed
<1>9. ASSUME AtPeace(panel, flights) PROVE AtPeace(panel, flights)'
  <2> DEFINE g == [f EXCEPT !.at = "refused"]
  <2>1. /\ Chains(flights') = {g}
        /\ g.live /\ g.slug = panel.slug /\ g.at = "refused" /\ DOMAIN g.got = {}
        /\ r = panel.slug /\ Refreshes(f, panel.view) /\ IsClick(f)
        /\ \A p \in PartsOf[panel.view] : Current(panel, p)
    BY <1>1, <1>9, AnsweredAlone
  <2>2. db'[r] = next
    BY <1>2, <1>6 DEF WellStored
  <2> HIDE DEF g
  <2>3. ASSUME NEW p \in PartsOf[panel.view] PROVE Current(panel, p)'
    <3>1. Current(panel, p)
      BY <2>1
    <3>2. p \in Parts /\ FormsOf[p] \subseteq Forms
      BY <1>2, ViewsAre, PartsAre DEF IsPanel, Forms
    <3>3. CASE p \in {"memory", "recall"}
      <4>1. Answer(r, p).of' = Answer(r, p).of /\ Answer(r, p).texts' = Answer(r, p).texts
        BY <1>5, <2>2, <3>3 DEF Answer, Memory, Recall, Told
      <4>2. MayLag(r, p)'
        BY <1>5, <2>2, <3>3 DEF MayLag
      <4> QED
        BY <1>1, <1>5, <2>1, <2>2, <3>1, <4>1, <4>2 DEF Current
    <3>4. CASE p \notin {"memory", "recall"}
      <4>1. p \in {"inbox", "identity", "packs", "settings", "files"}
        BY <3>2, <3>4 DEF Parts, FormsOf
      <4>2. ArtifactNames \subseteq Names \ {"resources"}
        BY DEF ArtifactNames, Names
      <4>3. Stored(r)' = Stored(r) /\ Pinned(r)' = Pinned(r) /\ Stored(r) \subseteq ArtifactNames
        BY <1>5, <2>2, <4>2 DEF Stored, Pinned
      <4>5. ASSUME p = "files" PROVE Answer(r, p)' = Answer(r, p)
        <5> DEFINE told == {"approval", "deliverable"} \cup Stored(r)
        <5>1. told' = told /\ \A x \in told : db'[r].rows[x] = db[r].rows[x]
          BY <1>5, <2>2, <4>2, <4>3 DEF Names
        <5>2. [x \in told |-> db[r].rows[x]]' = [x \in told |-> db[r].rows[x]]
          BY <5>1
        <5>3. Told(r, "files", told)' = Told(r, "files", told)
          BY <1>5, <2>2, <5>2 DEF Told
        <5>4. {[of |-> r, name |-> x] : x \in Pinned(r)}' = {[of |-> r, name |-> x] : x \in Pinned(r)}
          BY <4>3
        <5>5. db'[r].items = db[r].items
          BY <1>5, <2>2
        <5> DEFINE mine == Told(r, "files", told)
        <5>6. Files(r) = [mine EXCEPT !.items = db[r].items,
                                      !.pinned = {[of |-> r, name |-> x] : x \in Pinned(r)}]
          BY DEF Files
        <5>7. Files(r)' = [mine EXCEPT !.items = db[r].items,
                                       !.pinned = {[of |-> r, name |-> x] : x \in Pinned(r)}]'
          BY DEF Files
        <5> HIDE DEF mine
        <5>8. Files(r)' = Files(r)
          BY <5>3, <5>4, <5>5, <5>6, <5>7 DEF mine
        <5> QED
          BY <4>5, <5>8 DEF Answer
      <4>6. ASSUME p # "files" PROVE Answer(r, p)' = Answer(r, p)
        <5>1. /\ Told(r, "inbox", {"handoff"})' = Told(r, "inbox", {"handoff"})
              /\ Told(r, "identity", {})' = Told(r, "identity", {})
          BY <1>5, <2>2 DEF Told, Names
        <5>2. /\ Told(r, "packs", {"pack"})' = Told(r, "packs", {"pack"})
              /\ Told(r, "settings", {"binding"})' = Told(r, "settings", {"binding"})
          BY <1>5, <2>2 DEF Told, Names
        <5> QED
          BY <4>1, <4>6, <5>1, <5>2 DEF Answer, Overview, Setup, SkillPacks, Compute
      <4>7. Answer(r, p)' = Answer(r, p)
        BY <4>5, <4>6
      <4> QED
        BY <1>1, <1>5, <2>1, <2>2, <3>1, <3>4, <4>7 DEF Current, MayLag
    <3> QED
      BY <3>3, <3>4
  <2> QED
    BY <1>1, <2>1, <2>3 DEF AtPeace, Chains
<1> QED
    BY <1>1, <1>8, <1>9 DEF IInv, Quiet, MessageMeansDone

-------------------------------------------------------------------------------
(* The refreshes.                                                          *)

\* A part more has been read.
LEMMA ReadFlight ==
    ASSUME WellStored, NEW f, IsFlight(f), f.op # "detail", f.at = "done",
           NEW p \in f.parts \ DOMAIN f.got,
           NEW view, NEW done, NEW n, Known(f, view, done, n)
    PROVE  LET g == [f EXCEPT !.got = [q \in DOMAIN @ \cup {p} |->
                                         IF q = p THEN Answer(f.slug, p) ELSE @[q]]] IN
           /\ IsFlight(g) /\ Known(g, view, done, n)
           /\ g.op = f.op /\ g.slug = f.slug /\ g.parts = f.parts /\ g.at = f.at /\ g.live = f.live
           /\ DOMAIN g.got = DOMAIN f.got \cup {p} /\ g.got[p] = Answer(f.slug, p)
           /\ \A q \in DOMAIN f.got : g.got[q] = f.got[q]
<1> DEFINE got == [q \in DOMAIN f.got \cup {p} |-> IF q = p THEN Answer(f.slug, p) ELSE f.got[q]]
           g == [f EXCEPT !.got = got]
<1>1. /\ DOMAIN g = FlightFields /\ g.live = f.live
      /\ g.id = f.id /\ g.op = f.op /\ g.slug = f.slug /\ g.row = f.row /\ g.to = f.to
      /\ g.text = f.text /\ g.items = f.items /\ g.parts = f.parts /\ g.at = f.at
      /\ g.got = got
    BY DEF IsFlight, FlightFields
<1>2. /\ DOMAIN got = DOMAIN f.got \cup {p} /\ got[p] = Answer(f.slug, p)
      /\ \A q \in DOMAIN f.got : got[q] = f.got[q]
    OBVIOUS
<1>3. f.slug \in Representatives /\ IsData(db[f.slug]) /\ p \in Parts
    BY DEF IsFlight, WellStored
<1>4. IsAnswer(got[p], p)
    BY <1>2, <1>3, AnswersAre
<1> HIDE DEF got, g
<1>5. IsFlight(g)
    BY <1>1, <1>2, <1>4 DEF IsFlight, WellAsked
<1>6. Known(g, view, done, n)
    BY <1>1 DEF Known, IsClick, Refreshes, IsPartial
<1> QED
    BY <1>1, <1>2, <1>5, <1>6 DEF g, got

LEMMA ReadIInv ==
    ASSUME IInv, NEW f, NEW p, Read(f, p)
    PROVE  IInv'
<1> DEFINE g == [f EXCEPT !.got = [q \in DOMAIN @ \cup {p} |->
                                     IF q = p THEN Answer(f.slug, p) ELSE @[q]]]
<1>1. /\ f \in flights /\ f.op # "detail" /\ f.at = "done" /\ p \in f.parts \ DOMAIN f.got
      /\ flights' = (flights \ {f}) \cup {g}
      /\ UNCHANGED <<db, panel, moves, disturbances, served, calm>>
    BY DEF Read
<1>2. WellFormed /\ MessageMeansDone /\ Quiet
    BY DEF IInv
<1>3. IsFlight(f) /\ Known(f, panel.view, served, moves) /\ WellStored
    BY <1>1, <1>2 DEF WellFormed
<1>4. /\ IsFlight(g) /\ Known(g, panel.view, served, moves)
      /\ g.op = f.op /\ g.slug = f.slug /\ g.parts = f.parts /\ g.at = f.at /\ g.live = f.live
      /\ DOMAIN g.got = DOMAIN f.got \cup {p} /\ g.got[p] = Answer(f.slug, p)
      /\ \A q \in DOMAIN f.got : g.got[q] = f.got[q]
    BY <1>1, <1>3, ReadFlight
<1> HIDE DEF g
<1>5. WellFormed'
    BY <1>1, <1>2, <1>4 DEF WellFormed, WellStored
<1>6. ASSUME AtPeace(panel, flights) PROVE AtPeace(panel, flights)'
  <2>1. f \in Chains(flights) /\ f.live /\ f.slug = panel.slug
    BY <1>1, <1>6 DEF AtPeace, Chains
  <2>2. Chains(flights') = (Chains(flights) \ {f}) \cup {g}
    BY <1>1, <1>4 DEF Chains
  <2>3. \A h \in Chains(flights) : h.at = "done"
    BY <1>1, <1>6, <2>1 DEF AtPeace
  <2>4. \A r, q : Answer(r, q)' = Answer(r, q)
    BY <1>1, AnswersStay
  <2>5. \A q \in DOMAIN g.got : g.got[q] = Answer(panel.slug, q)
    BY <1>4, <1>6, <2>1 DEF AtPeace
  <2>6. \A h \in Chains(flights') :
          h.live /\ h.slug = panel.slug /\ h.at = "done"
          /\ \A q \in DOMAIN h.got : h.got[q] = Answer(panel.slug, q)
    BY <1>1, <1>4, <1>6, <2>1, <2>2, <2>3, <2>5 DEF AtPeace
  <2>7. \A q : Awaited(flights, q) => Awaited(flights', q)
    BY <1>1, <1>4, <2>2 DEF Awaited
  <2>8. \A q : Current(panel, q) => Current(panel, q)'
    BY <1>1, <2>4 DEF Current, MayLag
  <2>9. \A q \in PartsOf[panel.view] : Current(panel, q)' \/ Awaited(flights', q)
    BY <1>6, <2>7, <2>8 DEF AtPeace
  <2> QED
    BY <1>1, <2>4, <2>6, <2>9 DEF AtPeace, Awaited, Chains
<1> QED
    BY <1>1, <1>2, <1>5, <1>6 DEF IInv, Quiet, MessageMeansDone

LEMMA LoseReadIInv ==
    ASSUME IInv, NEW f, LoseRead(f)
    PROVE  IInv'
<1> DEFINE g == [f EXCEPT !.at = "unread"]
<1>1. /\ f \in flights /\ f.op # "detail" /\ f.at = "done"
      /\ flights' = (flights \ {f}) \cup {g} /\ calm' = FALSE
      /\ UNCHANGED <<db, panel, moves, served>>
    BY DEF LoseRead
<1>2. WellFormed /\ MessageMeansDone
    BY DEF IInv
<1>3. IsFlight(f) /\ Known(f, panel.view, served, moves)
    BY <1>1, <1>2 DEF WellFormed
<1>4. /\ DOMAIN g = FlightFields /\ g.live = f.live
      /\ g.id = f.id /\ g.op = f.op /\ g.slug = f.slug /\ g.row = f.row /\ g.to = f.to
      /\ g.text = f.text /\ g.items = f.items /\ g.parts = f.parts /\ g.at = "unread"
      /\ g.got = f.got
    BY <1>3 DEF IsFlight, FlightFields
<1> HIDE DEF g
<1>5. IsFlight(g)
    BY <1>1, <1>3, <1>4 DEF IsFlight, WellAsked
<1>6. Known(g, panel.view, served, moves)
    BY <1>1, <1>3, <1>4 DEF Known, IsClick, Refreshes, IsPartial
<1>7. WellFormed'
    BY <1>1, <1>2, <1>5, <1>6 DEF WellFormed, WellStored
<1> QED
    BY <1>1, <1>2, <1>7 DEF IInv, Quiet, MessageMeansDone

-------------------------------------------------------------------------------
(* What the chains show.                                                   *)

\* An answer holds the texts that are stored.
LEMMA AnsweredTexts ==
    ASSUME NEW r, NEW p \in Parts, NEW t \in FormsOf[p]
    PROVE  Answer(r, p).texts[t] = db[r].texts[t]
BY PartsAre DEF Answer, Overview, Setup, Memory, SkillPacks, Compute, Recall, Files, Told, FormsOf

\* A mounted panel's chain refreshes parts of the panel.
LEMMA RefreshedParts ==
    ASSUME NEW view, NEW f, IsFlight(f), f.op # "detail", Refreshes(f, view)
    PROVE  f.parts \subseteq PartsOf[view]
BY DEF Refreshes, IsClick, IsPartial, PartsOf

\* The panel with a chain's answers: the parts it read, and the forms in them.
LEMMA ShownPanel ==
    ASSUME IsPanel(panel), NEW f, IsFlight(f), f.op # "detail", DOMAIN f.got = f.parts,
           f.parts \subseteq PartsOf[panel.view]
    PROVE  LET pn == Shown(panel, f) IN
           /\ IsPanel(pn) /\ pn.view = panel.view /\ pn.slug = panel.slug
           /\ pn.message = panel.message
           /\ \A p \in f.parts :
                /\ pn.shown[p] = f.got[p]
                /\ \A t \in FormsOf[p] : pn.drafts[t] = f.got[p].texts[t]
           /\ \A p \in PartsOf[panel.view] \ f.parts :
                /\ pn.shown[p] = panel.shown[p]
                /\ \A t \in FormsOf[p] : pn.drafts[t] = panel.drafts[t]
<1> DEFINE shown == [p \in DOMAIN panel.shown |-> IF p \in f.parts THEN f.got[p] ELSE panel.shown[p]]
           drafts == [t \in DOMAIN panel.drafts |->
                        IF \E p \in f.parts : t \in FormsOf[p]
                        THEN f.got[CHOOSE p \in f.parts : t \in FormsOf[p]].texts[t]
                        ELSE panel.drafts[t]]
           pn == Shown(panel, f)
<1>1. /\ DOMAIN pn = PanelFields
      /\ pn.view = panel.view /\ pn.slug = panel.slug /\ pn.shown = shown /\ pn.drafts = drafts
      /\ pn.selected = panel.selected /\ pn.detail = panel.detail
      /\ pn.composer = panel.composer /\ pn.message = panel.message
    BY DEF IsPanel, PanelFields, Shown
<1>2. /\ DOMAIN shown = PartsOf[panel.view] /\ DOMAIN drafts = FormsIn(panel.view)
      /\ \A p \in PartsOf[panel.view] :
           shown[p] = IF p \in f.parts THEN f.got[p] ELSE panel.shown[p]
    BY DEF IsPanel
<1>3. PartsOf[panel.view] \subseteq Parts
    BY ViewsAre DEF IsPanel
<1>4. \A p \in PartsOf[panel.view] : \A t \in FormsOf[p] : t \in FormsIn(panel.view)
    BY DEF FormsIn
<1>5. ASSUME NEW p \in f.parts, NEW t \in FormsOf[p] PROVE drafts[t] = f.got[p].texts[t]
  <2>1. \A q \in f.parts : t \in FormsOf[q] => q = p
    BY <1>3, <1>5, PartsAre
  <2>2. (CHOOSE q \in f.parts : t \in FormsOf[q]) = p
    BY <2>1
  <2>3. t \in DOMAIN panel.drafts
    BY <1>4 DEF IsPanel
  <2> QED
    BY <2>2, <2>3
<1>6. ASSUME NEW p \in PartsOf[panel.view] \ f.parts, NEW t \in FormsOf[p]
      PROVE  drafts[t] = panel.drafts[t]
  <2>1. ~\E q \in f.parts : t \in FormsOf[q]
    BY <1>3, PartsAre
  <2>2. t \in DOMAIN panel.drafts
    BY <1>4 DEF IsPanel
  <2> QED
    BY <2>1, <2>2
<1> HIDE DEF shown, drafts, pn
<1>7. ASSUME NEW p \in PartsOf[panel.view]
      PROVE  \/ shown[p] = Unloaded /\ \A t \in FormsOf[p] : drafts[t] = NoText
             \/ IsAnswer(shown[p], p) /\ \A t \in FormsOf[p] : drafts[t] \in Text
  <2>1. CASE p \in f.parts
    <3>1. IsAnswer(f.got[p], p) /\ shown[p] = f.got[p]
      BY <1>2, <2>1 DEF IsFlight
    <3>2. \A t \in FormsOf[p] : drafts[t] \in Text
      BY <1>5, <2>1, <3>1 DEF IsAnswer
    <3> QED
      BY <3>1, <3>2
  <2>2. CASE p \notin f.parts
    BY <1>2, <1>6, <2>2 DEF IsPanel
  <2> QED
    BY <2>1, <2>2
<1>8. IsPanel(pn)
    BY <1>1, <1>2, <1>7 DEF IsPanel
<1> QED
    BY <1>1, <1>2, <1>5, <1>6, <1>8 DEF pn

\* What a click's success does to the panel besides: its message is the click's.
LEMMA FinishedPanel ==
    ASSUME NEW pn, IsPanel(pn), NEW f, IsFlight(f), f.op # "detail", f.at \in {"done", "unread"},
           NEW view, NEW done, NEW n, Known(f, view, done, n)
    PROVE  LET next == Finished(pn, f) IN
           /\ IsPanel(next) /\ SameContent(next, pn)
           /\ next.message = pn.message \/ next.message \in done
<1>1. CASE f.op = "load"
    BY <1>1 DEF Finished, SameContent
<1>2. CASE f.op # "load"
  <2> DEFINE busy == IF f.op = "setup" THEN pn.busy ELSE NoKey
             form == IF f.op = "deliverable" THEN NewDeliverable ELSE pn.composer
             editing == pn.editing /\ f.op # "binding"
             selected == IF f.op = "native" THEN f.row ELSE pn.selected
             next == [pn EXCEPT !.busy = busy, !.message = f.id, !.composer = form,
                                !.editing = editing, !.selected = selected]
  <2>1. Finished(pn, f) = next
    BY <1>2 DEF Finished
  <2>2. form \in Composers
    BY DEF IsPanel, NewDeliverable, Composers, Sources
  <2>3. selected \in Artifacts \cup {NoRow}
    BY DEF IsPanel, IsFlight, WellAsked
  <2>4. f.id \in done
    BY <1>2 DEF Known, IsClick
  <2> HIDE DEF busy, form, editing, selected
  <2>5. /\ DOMAIN next = PanelFields /\ SameContent(next, pn)
        /\ next.selected = selected /\ next.detail = pn.detail
        /\ next.composer = form /\ next.message = f.id
    BY DEF IsPanel, PanelFields, SameContent
  <2> HIDE DEF next
  <2>6. IsPanel(next)
    BY <2>2, <2>3, <2>5 DEF IsPanel, SameContent
  <2> QED
    BY <2>1, <2>4, <2>5, <2>6
<1> QED
    BY <1>1, <1>2

LEMMA ShowIInv ==
    ASSUME IInv, NEW f, Show(f)
    PROVE  IInv'
<1> DEFINE pn == Shown(panel, f)
           next == Finished(pn, f)
           fs == flights \ {f}
<1>1. /\ f \in flights /\ f.op # "detail" /\ f.at = "done" /\ DOMAIN f.got = f.parts
      /\ Renders(next, fs) /\ UNCHANGED <<db, moves, disturbances, served, calm>>
    BY DEF Show
<1>2. WellFormed /\ MessageMeansDone /\ Quiet /\ IsPanel(panel)
    BY DEF IInv, WellFormed
<1>3. IsFlight(f) /\ Known(f, panel.view, served, moves)
    BY <1>1, <1>2 DEF WellFormed
<1>4. f.parts \subseteq PartsOf[panel.view]
    BY <1>1, <1>3, RefreshedParts DEF Known, IsFlight
<1>5. /\ IsPanel(pn) /\ pn.view = panel.view /\ pn.slug = panel.slug /\ pn.message = panel.message
      /\ \A p \in f.parts :
           pn.shown[p] = f.got[p] /\ \A t \in FormsOf[p] : pn.drafts[t] = f.got[p].texts[t]
      /\ \A p \in PartsOf[panel.view] \ f.parts :
           pn.shown[p] = panel.shown[p] /\ \A t \in FormsOf[p] : pn.drafts[t] = panel.drafts[t]
    BY <1>1, <1>2, <1>3, <1>4, ShownPanel
<1> HIDE DEF pn
<1>6. /\ IsPanel(next) /\ SameContent(next, pn)
      /\ next.message = pn.message \/ next.message \in served
    BY <1>1, <1>3, <1>5, FinishedPanel
<1> HIDE DEF next
<1>7. \A g \in fs : IsFlight(g) /\ Known(g, next.view, served', moves')
    BY <1>1, <1>2, <1>5, <1>6 DEF WellFormed, SameContent
<1>8. WellStored' /\ moves' \in Nat /\ served' \subseteq 1..moves' /\ calm' \in BOOLEAN
    BY <1>1, <1>2 DEF WellFormed, WellStored
<1>9. next.message # 0 => next.message \in served'
    BY <1>1, <1>2, <1>5, <1>6 DEF MessageMeansDone
<1>10. WellFormed' /\ MessageMeansDone'
    BY <1>1, <1>6, <1>7, <1>8, <1>9, RenderStep
<1>11. ASSUME AtPeace(panel, flights) PROVE AtPeace(next, fs)
  <2>1. f \in Chains(flights)
    BY <1>1 DEF Chains
  <2>2. \A g \in Chains(flights) : g.at = "done"
    BY <1>1, <1>11, <2>1 DEF AtPeace
  <2>3. Chains(fs) = Chains(flights) \ {f}
    BY DEF Chains
  <2>4. ASSUME NEW p \in f.parts PROVE Current(pn, p)
    <3>1. pn.shown[p] = Answer(panel.slug, p)
      BY <1>1, <1>5, <1>11, <2>1 DEF AtPeace
    <3>2. p \in Parts
      BY <1>3 DEF IsFlight
    <3>3. \A t \in FormsOf[p] : pn.drafts[t] = db[panel.slug].texts[t]
      BY <1>5, <3>1, <3>2, AnsweredTexts
    <3> QED
      BY <1>5, <3>1, <3>3 DEF Current
  <2>5. ASSUME NEW p \in PartsOf[panel.view] \ f.parts PROVE Current(pn, p) \/ Awaited(fs, p)
    <3>1. CASE Current(panel, p)
      BY <1>5, <3>1 DEF Current
    <3>2. CASE Awaited(flights, p)
      BY <2>3, <3>2 DEF Awaited
    <3> QED
      BY <1>11, <3>1, <3>2 DEF AtPeace
  <2>6. AtPeace(pn, fs)
    <3>1. \A g \in Chains(fs) :
            /\ g.live /\ g.slug = pn.slug /\ g.at = "done"
            /\ \A p \in DOMAIN g.got : g.got[p] = Answer(pn.slug, p)
      BY <1>5, <1>11, <2>2, <2>3 DEF AtPeace
    <3> QED
      BY <1>5, <2>4, <2>5, <3>1 DEF AtPeace
  <2> QED
    BY <1>6, <2>6, PeaceOfContent
<1>12. Quiet'
    BY <1>1, <1>2, <1>6, <1>11, RenderQuiet DEF Quiet
<1> QED
    BY <1>10, <1>12 DEF IInv

LEMMA ReportIInv ==
    ASSUME IInv, NEW f, Report(f)
    PROVE  IInv'
<1> DEFINE quietly == f.at = "unread" /\ panel.view \in {"compute", "memory"}
           marked == [panel EXCEPT !.failed = TRUE]
           busy == IF f.op \in {"load", "setup"} THEN panel.busy ELSE NoKey
           freed == [marked EXCEPT !.busy = busy]
           pn == IF quietly THEN Finished(marked, f) ELSE freed
           fs == flights \ {f}
<1>1. WellFormed /\ MessageMeansDone /\ Quiet /\ IsPanel(panel)
    BY DEF IInv, WellFormed
<1>2. /\ f \in flights /\ f.at \in {"refused", "unread"}
      /\ UNCHANGED <<db, moves, disturbances, served, calm>>
    BY DEF Report
<1>3. /\ DOMAIN marked = PanelFields /\ SameContent(marked, panel)
      /\ marked.selected = panel.selected /\ marked.detail = panel.detail
      /\ marked.composer = panel.composer /\ marked.message = panel.message
      /\ marked.busy = panel.busy
    BY <1>1 DEF IsPanel, PanelFields, SameContent
<1>4. Renders(pn, fs)
    BY <1>3 DEF Report
<1> HIDE DEF marked, busy
<1>5. /\ DOMAIN freed = PanelFields /\ SameContent(freed, panel)
      /\ freed.selected = panel.selected /\ freed.detail = panel.detail
      /\ freed.composer = panel.composer /\ freed.message = panel.message
    BY <1>3 DEF PanelFields, SameContent
<1> HIDE DEF freed
<1>6. IsPanel(marked) /\ IsPanel(freed)
    BY <1>1, <1>3, <1>5 DEF IsPanel, SameContent
<1>7. IsFlight(f) /\ Known(f, panel.view, served, moves) /\ f.op # "detail"
    BY <1>1, <1>2 DEF WellFormed, IsFlight
<1>8. /\ IsPanel(pn) /\ SameContent(pn, panel)
      /\ pn.message = panel.message \/ pn.message \in served
  <2>1. CASE quietly
    <3>1. /\ IsPanel(Finished(marked, f)) /\ SameContent(Finished(marked, f), marked)
          /\ Finished(marked, f).message = marked.message \/ Finished(marked, f).message \in served
      BY <1>6, <1>7, <2>1, FinishedPanel
    <3> QED
      BY <1>3, <2>1, <3>1 DEF SameContent
  <2>2. CASE ~quietly
    BY <1>5, <1>6, <2>2
  <2> QED
    BY <2>1, <2>2
<1> HIDE DEF pn
<1>9. \A g \in fs : IsFlight(g) /\ Known(g, pn.view, served', moves')
    BY <1>1, <1>2, <1>8 DEF WellFormed, SameContent
<1>10. WellStored' /\ moves' \in Nat /\ served' \subseteq 1..moves' /\ calm' \in BOOLEAN
    BY <1>1, <1>2 DEF WellFormed, WellStored
<1>11. pn.message # 0 => pn.message \in served'
    BY <1>1, <1>2, <1>8 DEF MessageMeansDone
<1>12. WellFormed' /\ MessageMeansDone'
    BY <1>4, <1>8, <1>9, <1>10, <1>11, RenderStep
<1>13. ASSUME AtPeace(panel, flights) PROVE AtPeace(pn, fs)
  <2>1. f \in Chains(flights)
    BY <1>2, <1>7 DEF Chains
  <2>2. Chains(flights) = {f} /\ f.at # "done"
    BY <1>2, <1>13, <2>1 DEF AtPeace
  <2>3. Chains(fs) = {}
    BY <2>2 DEF Chains
  <2>4. AtPeace(panel, fs)
    BY <1>13, <2>2, <2>3 DEF AtPeace, Awaited
  <2> QED
    BY <1>8, <2>4, PeaceOfContent
<1>14. Quiet'
    BY <1>1, <1>2, <1>4, <1>8, <1>13, RenderQuiet DEF Quiet
<1> QED
    BY <1>12, <1>14 DEF IInv

LEMMA ShowDetailIInv ==
    ASSUME IInv, NEW f, ShowDetail(f)
    PROVE  IInv'
<1> DEFINE told == [row |-> f.row, state |-> db[f.slug].rows[f.row.name]]
           fs == flights \ {f}
<1>1. WellFormed /\ MessageMeansDone /\ Quiet /\ IsPanel(panel)
    BY DEF IInv, WellFormed
<1>2. /\ f \in flights /\ f.op = "detail" /\ flights' = fs
      /\ panel' = [panel EXCEPT !.detail = told] \/ panel' = [panel EXCEPT !.failed = TRUE]
      /\ UNCHANGED <<db, moves, disturbances, served, calm>>
    BY DEF ShowDetail
<1>3. f.row \in Artifacts
    BY <1>1, <1>2 DEF WellFormed, IsFlight
<1>4. /\ DOMAIN panel' = PanelFields
      /\ panel'.selected = panel.selected /\ panel'.composer = panel.composer
      /\ panel'.detail = panel.detail \/ panel'.detail = told
    BY <1>1, <1>2 DEF IsPanel, PanelFields, SameButChoices, SameContent
<1>5. SameContent(panel', panel) /\ panel'.message = panel.message
    BY <1>1, <1>2 DEF IsPanel, PanelFields, SameContent
<1>6. IsPanel(panel')
    BY <1>1, <1>3, <1>4, <1>5 DEF IsPanel, SameContent
<1>7. ShowsArtifacts(panel') = ShowsArtifacts(panel)
    BY <1>5 DEF ShowsArtifacts, SameContent
<1>8. WellFormed'
    BY <1>1, <1>2, <1>4, <1>5, <1>6, <1>7 DEF WellFormed, WellStored, SameContent
<1>9. ASSUME AtPeace(panel, flights) PROVE AtPeace(panel, flights)'
  <2>1. Chains(flights') = Chains(flights)
    BY <1>2 DEF Chains
  <2>2. \A r, q : Answer(r, q)' = Answer(r, q)
    BY <1>2, AnswersStay
  <2>3. \A q : Current(panel, q) => Current(panel, q)'
    BY <1>2, <1>5, <2>2 DEF Current, MayLag, SameContent
  <2> QED
    BY <1>5, <1>9, <2>1, <2>2, <2>3 DEF AtPeace, Awaited, Chains, SameContent
<1> QED
    BY <1>1, <1>2, <1>5, <1>8, <1>9 DEF IInv, Quiet, MessageMeansDone

LEMMA HappensIInv ==
    ASSUME IInv, NEW r \in Representatives, Happens(r)
    PROVE  IInv'
<1>1. WellFormed /\ MessageMeansDone /\ WellStored
    BY DEF IInv, WellFormed
<1>2. calm' = FALSE /\ UNCHANGED <<panel, flights, moves, served>>
    BY DEF Happens
<1>3. ASSUME NEW x \in Names, x # "deliverable", NEW state \in StatesOf(x),
             db' = [db EXCEPT ![r].rows[x] = state]
      PROVE  WellStored'
  <2> DEFINE next == [db[r] EXCEPT !.rows[x] = state]
  <2>1. IsData(next)
    BY <1>1, <1>3, RowPut DEF WellStored
  <2>2. db' = [db EXCEPT ![r] = next]
    BY <1>3
  <2> HIDE DEF next
  <2>3. \A s \in Representatives : IsData(db'[s])
    BY <1>1, <2>1, <2>2 DEF WellStored
  <2>4. db' \in [Representatives -> [texts : [Forms -> Text], rows : [Names -> States],
                                     items : SUBSET Artifacts]]
    BY <1>1, <2>1, <2>2 DEF WellStored, IsData
  <2> QED
    BY <2>3, <2>4 DEF WellStored
<1>4. WellStored'
  <2>1. /\ "artifact2" \in Names /\ "loose" \in StatesOf("artifact2")
        /\ "approval" \in Names /\ "expired" \in StatesOf("approval")
    BY StatesAre DEF Names, ArtifactNames
  <2>2. CASE db' = [db EXCEPT ![r].rows["artifact2"] = "loose"]
    BY <1>3, <2>1, <2>2
  <2>3. CASE db' = [db EXCEPT ![r].rows["approval"] = "expired"]
    BY <1>3, <2>1, <2>3
  <2> QED
    BY <2>2, <2>3 DEF Happens
<1>5. WellFormed'
    BY <1>1, <1>2, <1>4 DEF WellFormed
<1> QED
    BY <1>1, <1>2, <1>5 DEF IInv, Quiet, MessageMeansDone

LEMMA NextIInv == IInv /\ [Next]_vars => IInv'
<1> SUFFICES ASSUME IInv, [Next]_vars PROVE IInv'
    OBVIOUS
<1>1. CASE UNCHANGED vars
  <2>1. UNCHANGED <<db, panel, flights, moves, served, calm>>
    BY <1>1 DEF vars
  <2>2. \A r, p : Answer(r, p)' = Answer(r, p)
    BY <2>1, AnswersStay
  <2>3. \A p : Current(panel, p) => Current(panel, p)'
    BY <2>1, <2>2 DEF Current, MayLag
  <2>4. AtPeace(panel, flights) => AtPeace(panel, flights)'
    BY <2>1, <2>2, <2>3 DEF AtPeace, Awaited, Chains
  <2>5. WellFormed'
    BY <2>1 DEF IInv, WellFormed, WellStored, ShowsArtifacts
  <2> QED
    BY <2>1, <2>4, <2>5 DEF IInv, Quiet, MessageMeansDone
<1>2. ASSUME NEW r \in Representatives, SwitchRepresentative(r) PROVE IInv'
    BY <1>2, SwitchRepresentativeIInv
<1>3. ASSUME NEW r \in Representatives, Happens(r) PROVE IInv'
    BY <1>3, HappensIInv
<1>4. ASSUME NEW v \in Views, SwitchView(v) PROVE IInv'
    BY <1>4, SwitchViewIInv
<1>5. CASE Edits
    BY <1>5, TypesIInv DEF Edits, EditSetup, EditMemory, EditOverlays, EditGovernance
<1>6. CASE Choices
    BY <1>6, ChoicesIInv
<1>7. CASE Buttons
    BY <1>7, ButtonsIInv
<1>8. ASSUME NEW f \in flights, Serve(f) PROVE IInv'
    BY <1>8, ServeIInv
<1>9. ASSUME NEW f \in flights, Fail(f) PROVE IInv'
    BY <1>9, FailIInv
<1>10. ASSUME NEW f \in flights, LoseRead(f) PROVE IInv'
    BY <1>10, LoseReadIInv
<1>11. ASSUME NEW f \in flights, Show(f) PROVE IInv'
    BY <1>11, ShowIInv
<1>12. ASSUME NEW f \in flights, Report(f) PROVE IInv'
    BY <1>12, ReportIInv
<1>13. ASSUME NEW f \in flights, ShowDetail(f) PROVE IInv'
    BY <1>13, ShowDetailIInv
<1>14. ASSUME NEW f \in flights, NEW p \in f.parts, Read(f, p) PROVE IInv'
    BY <1>14, ReadIInv
<1>15. ASSUME NEW f \in flights, SyncFails(f) PROVE IInv'
    BY <1>15, SyncFailsIInv
<1> QED
    BY <1>1, <1>2, <1>3, <1>4, <1>5, <1>6, <1>7, <1>8, <1>9, <1>10, <1>11, <1>12, <1>13, <1>14,
       <1>15
    DEF Next

\* The invariant holds in every state the dashboard reaches, however many
\* representatives, edits, clicks, lost calls and changes by others there are.
THEOREM InvariantHolds == Spec => []IInv
<1>1. Init => IInv
    BY InitIInv
<1>2. IInv /\ [Next]_vars => IInv'
    BY NextIInv
<1> QED
    BY <1>1, <1>2, PTL DEF Spec

-------------------------------------------------------------------------------
(* The properties.                                                         *)

LEMMA WellFormedTypes == WellFormed => TypeOK
<1> SUFFICES ASSUME WellFormed PROVE TypeOK
    OBVIOUS
<1>1. ASSUME NEW r \in Representatives
      PROVE  /\ db[r].texts \in [Forms -> Text]
             /\ \A x \in Names : db[r].rows[x] \in StatesOf(x)
             /\ db[r].items \subseteq Artifacts
             /\ db[r].rows["deliverable"] \in {"artifact", "bundle"} <=> db[r].items # {}
    BY DEF WellFormed, WellStored, IsData, Fits
<1>2. /\ panel.view \in Views /\ panel.slug \in Representatives
      /\ panel.selected \in ShowsArtifacts(panel) \cup {NoRow}
      /\ DOMAIN panel.shown = PartsOf[panel.view]
    BY DEF WellFormed, IsPanel
<1>3. ASSUME NEW p \in PartsOf[panel.view], NEW f \in FormsOf[p]
      PROVE  (panel.drafts[f] = NoText) <=> (panel.shown[p] = Unloaded)
    BY NothingIsNobodys DEF WellFormed, IsPanel
<1>4. \A f \in flights : f.at \in {"sent", "done", "refused", "unread"} /\ DOMAIN f.got \subseteq f.parts
    BY DEF WellFormed, IsFlight
<1> QED
    BY <1>1, <1>2, <1>3, <1>4 DEF TypeOK, WellFormed

\* Types: what is stored stays data the schema admits (a deliverable has items
\* exactly if it is an artifact's or a bundle, deliverables.ts), the selection is
\* an artifact that is listed, and a form holds a text exactly if its part was
\* loaded, however old the answers are that arrive.
THEOREM TypeCorrect == Spec => []TypeOK
<1>1. IInv => TypeOK
    BY WellFormedTypes DEF IInv
<1> QED
    BY <1>1, InvariantHolds, PTL

\* A message that something was saved is shown only for a click whose operation
\* the server committed: the panel sets it after response.ok only, and a refresh
\* that is lost afterwards does not take the commit back.
THEOREM MessagesMeanDone == Spec => []MessageMeansDone
<1>1. IInv => MessageMeansDone
    BY DEF IInv
<1> QED
    BY <1>1, InvariantHolds, PTL

\* A panel whose chains have all ended, none of them over another, with no refresh
\* lost and nobody else writing, shows what is stored for its representative.  The
\* setup view is why this is not plain: its buttons refresh one part of two, so that
\* a save of the setup leaves the status of the sync it ran unshown.
THEOREM QuietPanelsShowWhatIsStored == Spec => []QuietPanelsAreCurrent
<1>1. IInv => QuietPanelsAreCurrent
  <2> SUFFICES ASSUME IInv, calm, Chains(flights) = {}, NEW p \in DOMAIN panel.shown
               PROVE  LET now == Answer(panel.slug, p) IN
                      /\ \/ panel.shown[p] = now
                         \/ /\ StatusMayLag(p)
                            /\ panel.shown[p].of = now.of /\ panel.shown[p].texts = now.texts
                      /\ \A t \in FormsOf[p] : panel.drafts[t].of = db[panel.slug].texts[t].of
    BY DEF QuietPanelsAreCurrent
  <2>1. p \in PartsOf[panel.view]
    BY DEF IInv, WellFormed, IsPanel
  <2>2. ~Awaited(flights, p)
    BY DEF Awaited
  <2>3. Current(panel, p)
    BY <2>1, <2>2 DEF IInv, Quiet, AtPeace
  <2> QED
    BY <2>3 DEF Current, MayLag, StatusMayLag
<1> QED
    BY <1>1, InvariantHolds, PTL

\* A step that serves a request moves rows of the request's representative only.
LEMMA ServedRows ==
    ASSUME IInv, NEW f, Serve(f), NEW r \in Representatives, db'[r].rows # db[r].rows
    PROVE  \E g \in flights : g \notin flights' /\ g.slug = r /\ (g.row = NoRow \/ g.row.of = r)
<1> DEFINE mine == db[f.slug]
<1>1. f \in flights /\ f.at = "sent" /\ WellStored /\ IsFlight(f)
    BY DEF Serve, IInv, WellFormed
<1>2. WellAsked(f) /\ f.op \in Ops /\ IsClick(f) /\ f.slug \in Representatives /\ IsData(mine)
    BY <1>1 DEF IsFlight, IsClick, WellStored
<1>3. PICK next \in Outcomes(f, mine) : db' = [db EXCEPT ![f.slug] = next]
    BY DEF Serve
<1>4. PICK at \in {"done", "refused"} : flights' = Answered(f, at)
    BY <1>3 DEF Serve
<1>5. IsMove(f, mine, next)
    BY <1>2, <1>3, OutcomesAre
<1>6. f.slug = r /\ next.rows # mine.rows
    BY <1>1, <1>3 DEF WellStored
<1>7. f.row = NoRow \/ f.row.of = r
    BY <1>5, <1>6 DEF IsMove
<1>8. [f EXCEPT !.at = at] # f
    BY <1>1, <1>4 DEF IsFlight, FlightFields
<1>9. f \notin flights'
    BY <1>4, <1>8 DEF Answered
<1> QED
    BY <1>1, <1>6, <1>7, <1>9

\* A click acts on the representative its panel was for when it was clicked: every
\* change of a row is the bot's own, or is made by a request under the slug of the
\* representative the row belongs to, whatever links were followed meanwhile (the
\* routes look the row up among the representative's of the path).
THEOREM RowsStay == Spec => RowsStayWithTheirRepresentative
<1>1. IInv /\ [Next]_vars =>
        [\A r \in Representatives :
           db'[r].rows # db[r].rows =>
              \/ flights' = flights
              \/ \E f \in flights : f \notin flights' /\ f.slug = r
                                    /\ (f.row = NoRow \/ f.row.of = r)]_vars
  <2> SUFFICES ASSUME IInv, Next, NEW r \in Representatives, db'[r].rows # db[r].rows,
                      flights' # flights
               PROVE  \E f \in flights : f \notin flights' /\ f.slug = r
                                         /\ (f.row = NoRow \/ f.row.of = r)
    OBVIOUS
  <2>1. ASSUME db' = db PROVE FALSE
    BY <2>1
  <2>2. \A s \in Representatives : ~SwitchRepresentative(s)
    BY <2>1 DEF SwitchRepresentative
  <2>3. \A s \in Representatives : ~Happens(s)
    BY DEF Happens
  <2>4. \A v \in Views : ~SwitchView(v)
    BY <2>1 DEF SwitchView
  <2>5. ~Edits
    BY <2>1 DEF Edits, EditSetup, EditMemory, EditOverlays, EditGovernance, Types
  <2>6. \A pn : ~Chooses(pn)
    BY <2>1 DEF Chooses
  <2>7. ~Choices
    BY <2>1, <2>6 DEF Choices, Select, StartEditDeliverable, PrepareDeliverable, ApplyPreset,
                      ChooseSource, ToggleItem, StartEditBinding
  <2>8. \A key, f : ~Click(key, f)
    BY <2>1 DEF Click
  <2>9. ~Buttons
    BY <2>8 DEF Buttons, SaveSetup, SaveMemory, SaveOverlays, SaveGovernance, Save, Sync,
                ChangeStatus, Install, TogglePack, Resolve, RunNative, SaveBinding, TogglePin,
                SaveDeliverable, Act
  <2>10. \A f \in flights : ~(Fail(f) \/ LoseRead(f) \/ Show(f) \/ Report(f) \/ ShowDetail(f))
    BY <2>1 DEF Fail, LoseRead, Show, Report, ShowDetail
  <2>11. \A f \in flights : \A p \in f.parts : ~Read(f, p)
    BY <2>1 DEF Read
  <2>12. PICK f \in flights : Serve(f) \/ SyncFails(f)
    BY <2>2, <2>3, <2>4, <2>5, <2>7, <2>9, <2>10, <2>11 DEF Next
  <2>13. CASE SyncFails(f)
    <3>1. /\ f.at = "sent" /\ f.op = "sync" /\ flights' = Answered(f, "refused")
          /\ db' = [db EXCEPT ![f.slug].rows["resources"] = "failed"]
      BY <2>13 DEF SyncFails
    <3>2. IsFlight(f) /\ WellStored
      BY DEF IInv, WellFormed
    <3>3. f.slug = r /\ f.row = NoRow
      BY <3>1, <3>2 DEF IsFlight, WellAsked, WellStored
    <3>4. f \notin flights'
      BY <3>1, <3>2 DEF Answered, IsFlight, FlightFields
    <3> QED
      BY <3>3, <3>4
  <2> QED
    BY <2>12, <2>13, ServedRows
<1> QED
    BY <1>1, InvariantHolds, PTL DEF Spec, RowsStayWithTheirRepresentative
===============================================================================
