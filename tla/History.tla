------------------------------ MODULE History -------------------------------
(***************************************************************************)
(* What the api shows of the past, and what an operator may do to it: the  *)
(* lists of check results and incidents, read page by page, an incident    *)
(* with its notes, and the manual close (internal/api/incidents.go and     *)
(* monitors.go, internal/store/incidents.go and monitors.go).  Every page  *)
(* is a request of its own, so rows arrive, incidents end and monitors go  *)
(* between two pages; an incident and its notes are two transactions.      *)
(***************************************************************************)
EXTENDS Authz, Integers, Sequences, FiniteSets

CONSTANTS
  Null,            \* SQL NULL, no cursor, no request
  Garbled,         \* a cursor that does not parse
  End,             \* no next page
  Pages,           \* requests that read lists
  Desks,           \* requests on one incident
  Staff,           \* principals, in ActorRecord
  OrgOf,           \* monitor -> org
  CheckRegions,
  Ranges,          \* lengths of the result ranges: 24h, 7d and 90d in the code
  PageSize,        \* defaultResultsLimit, 100 in the code
  MaxClock, MaxRows, MaxIncidents, MaxNotes   \* bounds: the clock, rows of each table

ASSUME HistoryAssumption ==
  /\ Ranges \subseteq Nat \ {0} /\ PageSize \in Nat \ {0}
  /\ {MaxClock, MaxRows, MaxIncidents, MaxNotes} \subseteq Nat
  /\ {Null, Garbled, End} \cap Nat = {} /\ End \notin {Null, Garbled}

Sites == DOMAIN OrgOf

VARIABLES
  now,             \* the clock
  results,         \* check_results: id -> [mon, region, at]
  incs,            \* incidents: id -> [mon, at, ended, reason, by]
  notes,           \* incident_annotations: id -> [inc, by]
  gone,            \* monitors deleted, their rows with them
  walk,            \* reader of a list -> the pages it was given
  desk             \* reader of an incident -> the request and its answer

tables   == <<results, incs, notes, gone>>
histVars == <<now, tables, walk, desk>>

HistoryInit ==
  /\ now = 0 /\ results = << >> /\ incs = << >> /\ notes = << >> /\ gone = {}
  /\ walk = [r \in Pages |-> Null] /\ desk = [d \in Desks |-> Null]

-----------------------------------------------------------------------------
(* The pipeline and the monitors api, as far as the tables see them. *)

Tick == now < MaxClock /\ now' = now + 1 /\ UNCHANGED <<tables, walk, desk>>

\* A result is stored some time after its check ran; a second one with the same
\* key is the first one.
UpsertCheckResult(m, region, at) ==
  /\ Len(results) < MaxRows /\ at \in now - 1 .. now /\ m \notin gone
  /\ LET row == [mon |-> m, region |-> region, at |-> at] IN
     /\ \A k \in DOMAIN results : results[k] # row
     /\ results' = Append(results, row)
  /\ UNCHANGED <<now, incs, notes, gone, walk, desk>>

OpenOf(m) == {i \in DOMAIN incs : incs[i].mon = m /\ incs[i].ended = Null}

\* The alerting service opens and closes; an incident begins at the time of the
\* first failure.
ApplyAlertDecision(m, at) ==
  /\ m \notin gone /\ at \in now - 1 .. now
  /\ \/ /\ OpenOf(m) = {} /\ Len(incs) < MaxIncidents
        /\ incs' = Append(incs, [mon |-> m, at |-> at, ended |-> Null, reason |-> Null, by |-> Null])
     \/ \E i \in OpenOf(m) :
          incs' = [incs EXCEPT ![i].ended = at, ![i].reason = "recovered"]
  /\ UNCHANGED <<now, results, notes, gone, walk, desk>>

DeleteMonitor(m) ==
  /\ m \notin gone /\ gone' = gone \cup {m}
  /\ UNCHANGED <<now, results, incs, notes, walk, desk>>

-----------------------------------------------------------------------------
(* Lists: "results" and "monitor" of one monitor, "org" of the caller's org. *)

Table(list) == IF list = "results" THEN results ELSE incs

\* parseTimeCursor: what does not parse is no cursor at all.
parseTimeCursor(c) == IF c = Garbled THEN Null ELSE c
rangeSince(range) == now - range

\* The WHERE clauses without the cursor: org and monitor; region and range of
\* results; open incidents only, if asked for.
Matching(w) ==
  LET rows == Table(w.list) IN
  {i \in DOMAIN rows :
     /\ rows[i].mon \notin gone /\ OrgOf[rows[i].mon] = w.org
     /\ w.list # "org" => rows[i].mon = w.mon
     /\ w.list = "results" => /\ rows[i].at >= rangeSince(w.range)
                              /\ w.region # Null => rows[i].region = w.region
     /\ w.list = "org" /\ w.open => rows[i].ended = Null}

Before(w) == LET c == parseTimeCursor(w.cursor) IN
             {i \in Matching(w) : c = Null \/ Table(w.list)[i].at < c}

\* ORDER BY time DESC LIMIT: which of several rows of one time come first is
\* left open, but for ListOrgIncidents, which orders them by id.
Newer(list, i, j) ==
  LET rows == Table(list) IN
  \/ rows[i].at > rows[j].at
  \/ rows[i].at = rows[j].at /\ (list = "org" => i > j)
Limited(w) ==
  {page \in SUBSET Before(w) :
     /\ Cardinality(page) = IF Cardinality(Before(w)) < PageSize
                            THEN Cardinality(Before(w)) ELSE PageSize
     /\ \A i \in page, j \in Before(w) \ page : Newer(w.list, i, j)}

Oldest(list, page) ==
  CHOOSE t \in {Table(list)[i].at : i \in page} : \A i \in page : t <= Table(list)[i].at

\* Mutant: the cursor lies beyond the row, so the row comes again.
inclusive(list, page) == Oldest(list, page) + 1
nextTimeCursor(list, page) == Oldest(list, page)

NextCursor(list, page) ==
  IF Cardinality(page) = PageSize THEN nextTimeCursor(list, page) ELSE End

\* ListResults, ListMonitorIncidents and ListIncidents: one page.  A walk
\* follows the cursors; a list is empty when the monitor is another org's.
GetPage(r, p, w) ==
  /\ CanInOrg(p, "view_monitoring")
  /\ \E page \in Limited(w) :
       walk' = [walk EXCEPT ![r] = [w EXCEPT !.pages = Append(@, page),
                                             !.cursor = NextCursor(w.list, page)]]
  /\ UNCHANGED <<now, tables, desk>>

NewWalk(p, list, m, region, range, open, cursor) ==
  LET w == [org |-> p.org, list |-> list, mon |-> m, region |-> region, range |-> range,
            open |-> open, cursor |-> cursor, pages |-> << >>, owed |-> {}]
  IN  [w EXCEPT !.owed = Matching(w)]

ListResults(r, p, m, region, range, c) ==
  walk[r] = Null /\ GetPage(r, p, NewWalk(p, "results", m, region, range, FALSE, c))
ListMonitorIncidents(r, p, m, c) ==
  walk[r] = Null /\ GetPage(r, p, NewWalk(p, "monitor", m, Null, 0, FALSE, c))
ListIncidents(r, p, open, c) ==
  walk[r] = Null /\ GetPage(r, p, NewWalk(p, "org", Null, Null, 0, open, c))
NextPage(r, p) ==
  walk[r] # Null /\ walk[r].cursor # End /\ walk[r].org = p.org /\ GetPage(r, p, walk[r])

-----------------------------------------------------------------------------
(* One incident *)

Found(p, i) == i \in DOMAIN incs /\ incs[i].mon \notin gone /\ OrgOf[incs[i].mon] = p.org

NotesOf(i) == {k \in DOMAIN notes : notes[k].inc = i /\ incs[i].mon \notin gone}

\* An API key acts for no user.
userOf(p) == IF p.kind = "api_key" THEN Null ELSE p.user

\* The note is trimmed, must not be empty and not too long.
AddIncidentAnnotation(p, i, note) ==
  /\ Len(notes) < MaxNotes
  /\ CanInOrg(p, "view_monitoring") /\ note = "text" /\ Found(p, i)
  /\ notes' = Append(notes, [inc |-> i, by |-> userOf(p)])
  /\ UNCHANGED <<now, results, incs, gone, walk, desk>>

\* The row that the first transaction of a request read, or wrote.
HaveRow(d, i, row) ==
  desk' = [desk EXCEPT ![d] = [inc |-> i, row |-> row, known |-> NotesOf(i), shown |-> Null]]

GetIncident(d, p, i) ==
  /\ desk[d] = Null /\ CanInOrg(p, "view_monitoring") /\ Found(p, i)
  /\ HaveRow(d, i, incs[i])
  /\ UNCHANGED <<now, tables, walk>>

\* Mutant: the row is not looked at, and the update of an ended one changes nothing.
endedToo(i) == TRUE
closable(i) == incs[i].ended = Null

Ended(i, p) == [incs[i] EXCEPT !.ended = now, !.reason = "manual", !.by = userOf(p)]

\* ManualCloseIncident locks the row; a second close answers 409.
CloseIncident(d, p, i) ==
  /\ desk[d] = Null /\ CanInOrg(p, "close_incident") /\ Found(p, i)
  /\ closable(i)
  /\ HaveRow(d, i, Ended(i, p))
  /\ incs' = IF incs[i].ended = Null THEN [incs EXCEPT ![i] = Ended(i, p)] ELSE incs
  /\ UNCHANGED <<now, results, notes, gone, walk>>

\* ListIncidentAnnotations, the second transaction, and incidentDetailDTO.
ListIncidentAnnotations(d) ==
  /\ desk[d] # Null /\ desk[d].shown = Null
  /\ desk' = [desk EXCEPT ![d].shown = NotesOf(desk[d].inc)]
  /\ UNCHANGED <<now, tables, walk>>

\* It may fail: an error, although the close has happened.
DetailFails(d) ==
  /\ desk[d] # Null /\ desk[d].shown = Null
  /\ desk' = [desk EXCEPT ![d] = Null]
  /\ UNCHANGED <<now, tables, walk>>

Deletes == \E m \in Sites : DeleteMonitor(m)
Alerts  == \E m \in Sites, at \in 0..MaxClock : ApplyAlertDecision(m, at)

\* Three kinds of request, which see different tables; only the lists go by time.
ResultsNext ==
  \/ Tick \/ Deletes
  \/ \E m \in Sites, region \in CheckRegions, at \in 0..MaxClock : UpsertCheckResult(m, region, at)
  \/ \E r \in Pages :
       \/ \E p \in Staff : NextPage(r, p)
       \/ \E p \in Staff, c \in {Null, Garbled}, m \in Sites,
            region \in CheckRegions \cup {Null}, range \in Ranges :
            ListResults(r, p, m, region, range, c)
IncidentsNext ==
  \/ Tick \/ Deletes \/ Alerts
  \/ \E r \in Pages :
       \/ \E p \in Staff : NextPage(r, p)
       \/ \E p \in Staff, c \in {Null, Garbled} :
            \/ \E m \in Sites : ListMonitorIncidents(r, p, m, c)
            \/ \E open \in BOOLEAN : ListIncidents(r, p, open, c)
DeskNext ==
  \/ Deletes \/ Alerts
  \/ \E p \in Staff, i \in DOMAIN incs :
       \/ \E note \in {"text", "blank", "long"} : AddIncidentAnnotation(p, i, note)
       \/ \E d \in Desks : GetIncident(d, p, i) \/ CloseIncident(d, p, i)
  \/ \E d \in Desks : ListIncidentAnnotations(d) \/ DetailFails(d)

-----------------------------------------------------------------------------
(* Correctness. *)

\* Rows with the time of a full page's last row: the cursor is a time, so what
\* of them did not fit is skipped.
Tied(w) ==
  {i \in w.owed : \E k \in DOMAIN w.pages :
     /\ Cardinality(w.pages[k]) = PageSize
     /\ Table(w.list)[i].at = Oldest(w.list, w.pages[k])}

\* Who follows the cursors of a list to its end has been shown every row once
\* that was there when it began, whatever arrived, ended or aged meanwhile and
\* however late; except rows that no longer match, and ties.
ListedOnce ==
  \A r \in Pages : walk[r] # Null =>
    LET w == walk[r] IN
    /\ \A k, l \in DOMAIN w.pages : k # l => w.pages[k] \cap w.pages[l] = {}
    /\ w.cursor = End =>
         w.owed \ UNION {w.pages[k] : k \in DOMAIN w.pages}
           \subseteq Tied(w) \cup (DOMAIN Table(w.list) \ Matching(w))

\* The answer to a request on one incident, put together from two
\* transactions, holds: a close reported as done is the one that is stored and
\* keeps its author, whichever closes and recoveries raced; an end once shown
\* stays; and every note that was there when the request came is shown, unless
\* the monitor is gone.
AnswersHold ==
  \A d \in Desks : desk[d] # Null =>
    LET a == desk[d] IN
    /\ a.row.ended # Null => incs[a.inc] = a.row
    /\ a.shown # Null /\ incs[a.inc].mon \notin gone => a.known \subseteq a.shown
=============================================================================
