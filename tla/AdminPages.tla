----------------------------- MODULE AdminPages -----------------------------
(***************************************************************************)
(* The administrators' pages: each shows rows it fetched for a query of    *)
(* its own, fetches again when the query changes, when it is told to and   *)
(* after its actions, and puts whatever answer arrives on the screen.      *)
(* Answers may overtake each other.  A function made in one render keeps   *)
(* the query of that render.  Two pages have a panel of details, fetched   *)
(* apart, and the support page edits its rows in place.                    *)
(***************************************************************************)
EXTENDS Integers, Sequences, FiniteSets, SequencesExt

CONSTANTS
    Filters, LastPage,
    Subjects,     \* users or tickets a row stands for
    MaxPageAsks   \* bound on what the administrator does

ASSUME PageAssumption == LastPage \in Nat \ {0} /\ MaxPageAsks \in Nat

\* What each page does: filter and page its rows, reset the page with the filter,
\* fetch after an action, open details.
Plain == [name |-> "plain", filters |-> FALSE, pages |-> FALSE, resets |-> FALSE, acts |-> FALSE, details |-> FALSE]
UsersView == [Plain EXCEPT !.name = "users", !.filters = TRUE, !.pages = TRUE, !.acts = TRUE, !.details = TRUE]
TicketsView ==
    [Plain EXCEPT !.name = "tickets", !.filters = TRUE, !.pages = TRUE, !.resets = TRUE, !.acts = TRUE, !.details = TRUE]
OffersView == [Plain EXCEPT !.name = "offers", !.filters = TRUE, !.acts = TRUE]
AnalyticsView == [Plain EXCEPT !.name = "analytics", !.filters = TRUE]
DashboardView == [Plain EXCEPT !.name = "dashboard", !.acts = TRUE]
FinanceView == [Plain EXCEPT !.name = "finance", !.acts = TRUE]
MinersView == [Plain EXCEPT !.name = "miners", !.acts = TRUE]
BackupsView == [Plain EXCEPT !.name = "backups", !.acts = TRUE]
LogsView == [Plain EXCEPT !.name = "logs"]
MetricsView == [Plain EXCEPT !.name = "metrics"]
BannersView == [Plain EXCEPT !.name = "banners", !.acts = TRUE]
BroadcastView == [Plain EXCEPT !.name = "broadcast", !.acts = TRUE]
TransparencyView == [Plain EXCEPT !.name = "transparency", !.acts = TRUE]
CreatorsView == [Plain EXCEPT !.name = "creators", !.acts = TRUE]
OfferMinersView == [Plain EXCEPT !.name = "offer miners", !.acts = TRUE]
SupportView == [Plain EXCEPT !.name = "support"]

Views == {UsersView, TicketsView, OffersView, AnalyticsView, DashboardView, FinanceView, MinersView,
          BackupsView, LogsView, MetricsView, BannersView, BroadcastView, TransparencyView, CreatorsView,
          OfferMinersView, SupportView}

VARIABLES
    view,
    query,        \* filter and page chosen
    pageRows,         \* what is on the screen: the query and the version it answers
    fetches,      \* fetches on their way, in the order they were sent; version 0 is not answered yet
    version,      \* of the server's data
    acting,       \* the action under way, with the query of the render it was started in
    mine,         \* history: the version the page's last action made
    selected,     \* subject whose details are shown
    prefill,      \* ticket whose claimed amount stands in the field
    logsOf,       \* user whose log is shown
    panelFetches, \* details and logs on their way
    approved,     \* history: tickets approved, with the ticket the amount came from
    overtaken, fetchFailed, movedOn, panelsCrossed,
                  \* history: an answer overtook another; a fetch failed; the query, or the
                  \* rows, changed under an action; a panel was opened under another's fetch
    pageAsks

listVars == <<query, pageRows, fetches, acting, mine, overtaken, fetchFailed, movedOn>>
panelVars == <<selected, prefill, logsOf, panelFetches, approved, panelsCrossed>>
pageVars == <<view, version, pageAsks, listVars, panelVars>>

Nothing == "none"
Fetch(q) == [query |-> q, version |-> 0]
NoAction == [on |-> FALSE, query |-> [filter |-> Nothing, page |-> 1], rows |-> 0]

\* Mounting the page sends the first fetch.
PageInit ==
    /\ view \in Views
    /\ \E f \in Filters : query = [filter |-> f, page |-> 1]
    /\ pageRows = [query |-> query, version |-> 0]
    /\ fetches = <<Fetch(query)>>
    /\ version = 1
    /\ acting = NoAction
    /\ mine = 0
    /\ selected = Nothing /\ prefill = Nothing /\ logsOf = Nothing
    /\ panelFetches = {} /\ approved = {}
    /\ overtaken = FALSE /\ fetchFailed = FALSE /\ movedOn = FALSE /\ panelsCrossed = FALSE
    /\ pageAsks = 0

AskPage == pageAsks < MaxPageAsks /\ pageAsks' = pageAsks + 1

\* The effect on the query sends a fetch for the new one.
ChangeQuery(q) ==
    /\ AskPage
    /\ q # query
    /\ query' = q
    /\ fetches' = Append(fetches, Fetch(q))
    /\ movedOn' = (movedOn \/ acting.on)
    /\ UNCHANGED <<view, version, pageRows, acting, mine, overtaken, fetchFailed, panelVars>>

ChooseFilter(f) ==
    view.filters /\ ChangeQuery([filter |-> f, page |-> IF view.resets THEN 1 ELSE query.page])

TurnPage(p) == view.pages /\ ChangeQuery([query EXCEPT !.page = p])

\* handleSearch: a fetch for the query as it was, then the effect's for the first page.
SubmitSearch ==
    LET first == [query EXCEPT !.page = 1]
    IN  /\ view.name = "users"
        /\ AskPage
        /\ query' = first
        /\ fetches' = fetches \o <<Fetch(query)>> \o (IF first = query THEN <<>> ELSE <<Fetch(first)>>)
        /\ movedOn' = (movedOn \/ (acting.on /\ first # query))
        /\ UNCHANGED <<view, version, pageRows, acting, mine, overtaken, fetchFailed, panelVars>>

\* The button, or the interval of the metrics page.
Refresh ==
    /\ AskPage
    /\ fetches' = Append(fetches, Fetch(query))
    /\ UNCHANGED <<view, version, query, pageRows, acting, mine, overtaken, fetchFailed, movedOn, panelVars>>

Answer(i) ==
    /\ fetches[i].version = 0
    /\ fetches' = [fetches EXCEPT ![i].version = version]
    /\ overtaken' = (overtaken \/ \E j \in 1..(i - 1) : fetches[j].version = 0)
    /\ UNCHANGED <<view, version, pageAsks, query, pageRows, acting, mine, fetchFailed, movedOn, panelVars>>

Arrive(i) ==
    /\ fetches[i].version # 0
    /\ pageRows' = fetches[i]
    /\ fetches' = RemoveAt(fetches, i)
    /\ overtaken' = (overtaken \/ i # 1)
    /\ movedOn' = (movedOn \/ (view.name = "support" /\ acting.on))
    /\ UNCHANGED <<view, version, pageAsks, query, acting, mine, fetchFailed, panelVars>>

\* The rows stay; a toast says so.
FailFetch(i) ==
    /\ fetches' = RemoveAt(fetches, i)
    /\ fetchFailed' = TRUE
    /\ UNCHANGED <<view, version, pageAsks, query, pageRows, acting, mine, overtaken, movedOn, panelVars>>

\* A ban, a removal, an approval: one at a time, from the render on the screen.
StartAction ==
    /\ view.acts \/ view.name = "support"
    /\ ~acting.on
    /\ pageRows.version # 0
    /\ AskPage
    /\ acting' = [on |-> TRUE, query |-> query, rows |-> pageRows.version]
    /\ UNCHANGED <<view, version, query, pageRows, fetches, mine, overtaken, fetchFailed, movedOn, panelVars>>

\* When the server has acted, the page fetches with the query of that render.
FinishAction ==
    /\ acting.on /\ view.acts
    /\ version' = version + 1
    /\ mine' = version + 1
    /\ acting' = NoAction
    /\ fetches' = Append(fetches, Fetch(acting.query))
    /\ UNCHANGED <<view, pageAsks, query, pageRows, overtaken, fetchFailed, movedOn, panelVars>>

\* The support page maps over the rows it had when the action started.
FinishReply ==
    /\ acting.on /\ view.name = "support"
    /\ pageRows' = [pageRows EXCEPT !.version = acting.rows]
    /\ acting' = NoAction
    /\ version' = version + 1
    /\ UNCHANGED <<view, pageAsks, query, fetches, mine, overtaken, fetchFailed, movedOn, panelVars>>

FailAction ==
    /\ acting.on
    /\ acting' = NoAction
    /\ UNCHANGED <<view, version, pageAsks, query, pageRows, fetches, mine, overtaken, fetchFailed, movedOn, panelVars>>

OthersAct ==
    /\ AskPage
    /\ version' = version + 1
    /\ UNCHANGED <<view, listVars, panelVars>>

-----------------------------------------------------------------------------
(* Panels of details                                                        *)

\* The amount the user claimed is put in the field at once, the details arrive later.
OpenTicketRow(s) ==
    /\ view.name = "tickets"
    /\ AskPage
    /\ selected' = Nothing
    /\ prefill' = s
    /\ panelFetches' = panelFetches \cup {[kind |-> "details", of |-> s]}
    /\ panelsCrossed' = (panelsCrossed \/ panelFetches # {})
    /\ UNCHANGED <<view, version, listVars, logsOf, approved>>

OpenUserKeepingLogs(s) ==
    /\ view.name = "users"
    /\ AskPage
    /\ panelFetches' = panelFetches \cup {[kind |-> "details", of |-> s]}
    /\ panelsCrossed' = (panelsCrossed \/ panelFetches # {})
    /\ UNCHANGED <<view, version, listVars, logsOf, selected, prefill, approved>>

\* The panel of the user before stays until the answer; its log is emptied.
OpenUser(s) ==
    /\ view.name = "users"
    /\ AskPage
    /\ logsOf' = Nothing
    /\ panelFetches' = panelFetches \cup {[kind |-> "details", of |-> s]}
    /\ panelsCrossed' = (panelsCrossed \/ panelFetches # {})
    /\ UNCHANGED <<view, version, listVars, selected, prefill, approved>>

OpenUserLogs ==
    /\ view.name = "users" /\ selected # Nothing
    /\ AskPage
    /\ panelFetches' = panelFetches \cup {[kind |-> "logs", of |-> selected]}
    /\ panelsCrossed' = (panelsCrossed \/ panelFetches # {})
    /\ UNCHANGED <<view, version, listVars, selected, prefill, logsOf, approved>>

PanelArrives(f) ==
    /\ panelFetches' = panelFetches \ {f}
    /\ selected' = IF f.kind = "details" THEN f.of ELSE selected
    /\ logsOf' = IF f.kind = "logs" THEN f.of ELSE logsOf
    /\ UNCHANGED <<view, version, pageAsks, listVars, prefill, approved, panelsCrossed>>

\* handleApprove credits the ticket shown with the amount in the field.
ApproveTicket ==
    /\ view.name = "tickets" /\ selected # Nothing
    /\ AskPage
    /\ approved' = approved \cup {<<selected, prefill>>}
    /\ selected' = Nothing
    /\ version' = version + 1
    /\ mine' = version + 1
    /\ fetches' = Append(fetches, Fetch(query))
    /\ UNCHANGED <<view, query, pageRows, acting, overtaken, fetchFailed, movedOn, prefill, logsOf, panelFetches, panelsCrossed>>

PageNext ==
    \/ \E f \in Filters : ChooseFilter(f)
    \/ \E p \in 1..LastPage : TurnPage(p)
    \/ SubmitSearch \/ Refresh \/ OthersAct
    \/ \E i \in DOMAIN fetches : Answer(i) \/ Arrive(i) \/ FailFetch(i)
    \/ StartAction \/ FinishAction \/ FinishReply \/ FailAction
    \/ \E s \in Subjects : OpenTicketRow(s) \/ OpenUser(s)
    \/ OpenUserLogs \/ ApproveTicket
    \/ \E f \in panelFetches : PanelArrives(f)

PageSpec == PageInit /\ [][PageNext]_pageVars

-----------------------------------------------------------------------------
(* Rows are of versions there have been, panels of subjects there are.      *)
PageTypeOK ==
    /\ view \in Views /\ query \in [filter : Filters, page : 1..LastPage]
    /\ pageRows \in [query : [filter : Filters, page : 1..LastPage], version : 0..version]
    /\ {selected, prefill, logsOf} \subseteq Subjects \cup {Nothing}
    /\ mine \in 0..version

(* With no fetch on its way, the rows are of the query the page shows and   *)
(* of a version that has the page's last action, unless answers overtook    *)
(* each other, one failed, or the query changed under an action.            *)
RowsMatchQuery ==
    fetches = <<>> /\ ~acting.on /\ ~overtaken /\ ~fetchFailed /\ ~movedOn =>
        pageRows.query = query /\ pageRows.version >= mine

(* Rows are never replaced by older ones, unless answers overtook each      *)
(* other or a list arrived on the support page under a reply.               *)
RowsStepForward == [][~overtaken' /\ ~movedOn => pageRows'.version >= pageRows.version]_pageVars

(* An administrator who approves what the panel shows credits the amount of *)
(* that ticket, unless another ticket was opened under its fetch.           *)
ApprovedItsAmount == \A a \in approved : panelsCrossed \/ a[1] = a[2]

(* A log on the screen is the log of the user on the screen, unless panels  *)
(* were opened under each other's fetches.                                  *)
LogsAreTheUsers == panelsCrossed \/ logsOf \in {Nothing, selected}

(* Answers may arrive in any order: the rows shown are those of the query   *)
(* shown, an approval carries the amount of the ticket it approves, and the *)
(* logs shown are the opened user's, but for the crossings each part names. *)
PagesSafe ==
    /\ PageTypeOK /\ RowsMatchQuery /\ ApprovedItsAmount /\ LogsAreTheUsers
=============================================================================
