--------------------------- MODULE StatusPagesApi ---------------------------
(***************************************************************************)
(* Status pages: internal/api/statuspages.go over internal/store.  Create  *)
(* and update write the page in one transaction and its monitors in the    *)
(* next; update and publish write the whole row they read before.  The     *)
(* public page is looked up by slug, across orgs.                          *)
(***************************************************************************)
EXTENDS MonitorsApi

CONSTANTS
  PageInputs,    \* request bodies: [name, slug, theme, accent, logo, shown]
  PageCaps,      \* plan -> status page cap, injected into the server
  MaxPages       \* bound: pages ever created

ASSUME PagesAssumption ==
  /\ MaxPages \in Nat
  /\ \A q \in Plans : PageCaps[q] \in Nat
  /\ \A q, r \in Plans : Rank(q) <= Rank(r) => PageCaps[q] <= PageCaps[r]
  /\ \A in \in PageInputs : in.shown \in Seq(Int)

VARIABLES
  pages,         \* status_pages: id -> [org, slug, theme, published]
  entries,       \* status_page_monitors: page -> monitor ids by sort_order
  pageSeq        \* ids handed out so far

pageVars == <<pages, entries, pageSeq>>

PagesInit == pages = << >> /\ entries = << >> /\ pageSeq = 0

statusPageCap(o) == PageCaps[orgPlan(o)]
CountStatusPages(o) == Cardinality(WithOrg(pages, o))

\* A slug is lower case, so lower(slug) is the slug; it is unique over all orgs.
slugOK(slug) == slug \notin {"", "long", "Bad_Slug"}
pageErrors(in) ==
  \/ in.name \in {"blank", "long"}
  \/ ~ slugOK(in.slug)
  \/ in.theme \notin {"", "light", "dark"}
  \/ in.accent = "long" \/ in.logo = "long"
  \/ ~ NoDuplicates(in.shown)
  \/ \E i \in 1..Len(in.shown) : in.shown[i] <= 0

statusPageFromInput(o, in) ==
  [org |-> o, slug |-> in.slug, theme |-> IF in.theme = "" THEN "light" ELSE in.theme,
   published |-> FALSE]

SlugTaken(slug, id) == \E j \in DOMAIN pages \ {id} : pages[j].slug = slug

\* Pool_X is the store method X: one transaction bound to the org.
Pool_GetStatusPage(o, id) == IF id \in WithOrg(pages, o) THEN pages[id] ELSE None
Pool_CreateStatusPage(sp) ==
  /\ pageSeq' = pageSeq + 1
  /\ pages' = Put(pages, pageSeq', sp)
  /\ entries' = Put(entries, pageSeq', << >>)
Pool_UpdateStatusPage(id, sp) == pages' = Put(pages, id, sp)
Pool_DeleteStatusPage(o, id) ==
  LET gone == {id} \cap WithOrg(pages, o) IN
  /\ pages' = Drop(pages, gone) /\ entries' = Drop(entries, gone)

canStatusPage(p, manage) ==
  CanInOrg(p, IF manage THEN "manage_status_pages" ELSE "view_monitoring")

ListStatusPages(c, p) ==
  /\ Request(c) /\ canStatusPage(p, FALSE)
  /\ Reply(c, 200, {})
  /\ UNCHANGED pageVars

GetStatusPage(c, p, id) ==
  /\ Request(c) /\ canStatusPage(p, FALSE)
  /\ Reply(c, IF Pool_GetStatusPage(p.org, id) # None THEN 200 ELSE 404, {})
  /\ UNCHANGED pageVars

\* Mutant: the number of pages is not compared with the plan's cap.
NoPageCap(o) == FALSE
PageCapReached(o) == CountStatusPages(o) >= statusPageCap(o)

CreateStatusPage(c, p, in) ==
  /\ Request(c) /\ canStatusPage(p, TRUE)
  /\ IF pageErrors(in) THEN Reply(c, 422, {})
     ELSE IF PageCapReached(p.org) THEN Reply(c, 402, {})
     ELSE Hold(c, [op |-> "insertPage", sp |-> statusPageFromInput(p.org, in), shown |-> in.shown])
  /\ UNCHANGED pageVars

InsertPage(c) ==
  /\ Resume(c, "insertPage") /\ pageSeq < MaxPages
  /\ IF SlugTaken(req[c].sp.slug, 0)
     THEN Reply(c, 422, {}) /\ UNCHANGED pageVars
     ELSE /\ Pool_CreateStatusPage(req[c].sp)
          /\ Hold(c, [op |-> "setMonitors", id |-> pageSeq', org |-> req[c].sp.org,
                      shown |-> req[c].shown, code |-> 201])

\* The row an update writes: the input, with the publish state read before.
UpdateStatusPage(c, p, id, in) ==
  /\ Request(c) /\ canStatusPage(p, TRUE)
  /\ LET old == Pool_GetStatusPage(p.org, id) IN
     IF old = None THEN Reply(c, 404, {})
     ELSE IF pageErrors(in) THEN Reply(c, 422, {})
     ELSE Hold(c, [op |-> "writePage", id |-> id, shown |-> in.shown,
                   sp |-> [statusPageFromInput(p.org, in) EXCEPT !.published = old.published]])
  /\ UNCHANGED pageVars

WritePage(c) ==
  LET id == req[c].id IN
  /\ Resume(c, "writePage")
  /\ IF id \notin WithOrg(pages, req[c].sp.org) THEN Reply(c, 404, {}) /\ UNCHANGED pages
     ELSE IF SlugTaken(req[c].sp.slug, id) THEN Reply(c, 422, {}) /\ UNCHANGED pages
     ELSE /\ Pool_UpdateStatusPage(id, req[c].sp)
          /\ Hold(c, [op |-> "setMonitors", id |-> id, org |-> req[c].sp.org,
                      shown |-> req[c].shown, code |-> 200])
  /\ UNCHANGED <<entries, pageSeq>>

\* Mutant: the monitors are taken without looking whose they are.
AnyMonitor(o, shown) == \A i \in 1..Len(shown) : shown[i] \in DOMAIN monitors
InOrg(o, shown) == \A i \in 1..Len(shown) : shown[i] \in WithOrg(monitors, o)

\* One transaction: the page exists, the monitors are the org's, then replace.
\* A refusal leaves the page that the step before wrote.
SetStatusPageMonitors(c) ==
  /\ Resume(c, "setMonitors")
  /\ IF req[c].id \in WithOrg(pages, req[c].org) /\ InOrg(req[c].org, req[c].shown)
     THEN entries' = [entries EXCEPT ![req[c].id] = req[c].shown] /\ Reply(c, req[c].code, {})
     ELSE Reply(c, 422, {}) /\ UNCHANGED entries
  /\ UNCHANGED <<pages, pageSeq>>

PublishStatusPage(c, p, id, on) ==
  /\ Request(c) /\ canStatusPage(p, TRUE)
  /\ IF Pool_GetStatusPage(p.org, id) = None THEN Reply(c, 404, {})
     ELSE Hold(c, [op |-> "flipPage", id |-> id, sp |-> [pages[id] EXCEPT !.published = on]])
  /\ UNCHANGED pageVars

\* The whole row, as it was read; a slug taken meanwhile is an error too.
FlipPage(c) ==
  LET id == req[c].id IN
  /\ Resume(c, "flipPage")
  /\ IF id \in WithOrg(pages, req[c].sp.org) /\ ~ SlugTaken(req[c].sp.slug, id)
     THEN Pool_UpdateStatusPage(id, req[c].sp) /\ Reply(c, 200, {})
     ELSE Reply(c, 500, {}) /\ UNCHANGED pages
  /\ UNCHANGED <<entries, pageSeq>>

DeleteStatusPage(c, p, id) ==
  /\ Request(c) /\ canStatusPage(p, TRUE)
  /\ Pool_DeleteStatusPage(p.org, id)
  /\ Reply(c, 204, {})
  /\ UNCHANGED pageSeq

\* ON DELETE CASCADE from monitors to status_page_monitors.
CascadeMonitors(gone) ==
  /\ entries' = [id \in DOMAIN entries |->
                  Drop(entries[id], {i \in DOMAIN entries[id] : entries[id][i] \in gone})]
  /\ UNCHANGED <<pages, pageSeq>>

DerivePublicStatus(s) ==
  CASE s = "down" -> "down" [] s = "disabled" -> "hidden" [] OTHER -> "operational"

DeriveBanner(statuses) ==
  LET visible == {i \in DOMAIN statuses : statuses[i] # "hidden"}
      down    == {i \in visible : statuses[i] = "down"} IN
  CASE down = {}      -> "operational"
    [] down = visible -> "major"
    [] OTHER          -> "partial"

publicStatus(m) == DerivePublicStatus(DeriveStatus(monitors[m].enabled, live[m]))

\* What the public page of id shows: the rest of a list keeps its order.
publicStatusPageDTO(id) ==
  LET rows     == entries[id]
      statuses == [i \in DOMAIN rows |-> publicStatus(rows[i])] IN
  [monitors |-> Drop(rows, {i \in DOMAIN rows : statuses[i] = "hidden"}),
   banner   |-> DeriveBanner(statuses)]

\* No principal: only a published page resolves.
GetPublicStatusPage(c, slug) ==
  /\ Request(c)
  /\ Reply(c, IF \E id \in DOMAIN pages : pages[id].published /\ pages[id].slug = slug
              THEN 200 ELSE 404, {})
  /\ UNCHANGED pageVars
=============================================================================
