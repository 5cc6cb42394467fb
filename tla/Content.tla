------------------------------ MODULE Content ------------------------------
(***************************************************************************)
(* What administrators publish: broadcast popups, banners, offer event     *)
(* windows, transparency entries and creators.  A page holds the copy it   *)
(* last listed; its forms and toggles send values taken from that copy,    *)
(* and the handlers write what they are sent.  Times are hours: a form     *)
(* shows the UTC digits of an instant, and whoever parses the digits does  *)
(* it in the zone of the machine it runs on.                               *)
(***************************************************************************)
EXTENDS Integers, FiniteSets, Sequences, FiniteSetsExt

CONSTANTS
    Editors,      \* administrators, each with a page
    Readers,      \* users
    Zones,        \* hours from UTC
    Typed,        \* digits an administrator may type
    MaxBroadcasts,
    MaxContentAsks \* bound on the requests of the pages

ASSUME ContentAssumption ==
    /\ Zones \subseteq Int /\ Typed \subseteq Nat /\ {MaxBroadcasts, MaxContentAsks} \subseteq Nat

VARIABLES
    serverZone, browserZone,
    broadcasts,   \* broadcast_messages, in order of creation
    seen,         \* broadcast_message_views
    popup,        \* the message each user is shown, or 0
    editorCall,   \* handler of each page's request under way
    banner,       \* a row of dashboard_banners
    offerWindow,  \* startsAt and endsAt of an offer event
    entry,        \* a row of transparency_entries
    creator,      \* isCreator and youtubeUrl of a user
    copy,         \* what each page listed last
    editsCrossed, \* history: two broadcast requests were under way together
    onlyActive,   \* history: the message the last request to end made the active one, or 0
    typedWindows, \* history: windows that were typed, as the instants they stood for
    contentAsks

contentVars == <<serverZone, browserZone, broadcasts, seen, popup, editorCall, banner, offerWindow, entry,
                 creator, copy, editsCrossed, onlyActive, typedWindows, contentAsks>>
broadcastVars == <<broadcasts, seen, popup, editorCall, editsCrossed, onlyActive>>
zones == <<serverZone, browserZone>>

Absent == [live |-> FALSE, startsAt |-> 0, endsAt |-> 0, active |-> FALSE]
NoEdit == [pc |-> "idle", id |-> 0, active |-> FALSE]
ExpenseCategories == {"infrastructure", "misc"}
IncomeCategories == {"revenue", "other"}
NotSet == "null"

Listed == [banner |-> banner, offer |-> offerWindow, entry |-> entry, creator |-> creator]

ContentInit ==
    /\ serverZone \in Zones /\ browserZone \in Zones
    /\ broadcasts = <<>> /\ seen = {}
    /\ popup = [u \in Readers |-> 0]
    /\ editorCall = [a \in Editors |-> NoEdit]
    /\ banner = Absent
    /\ offerWindow = [startsAt |-> 0, endsAt |-> 1]
    /\ entry = [type |-> "expense", category |-> "misc", income |-> NotSet]
    /\ creator = [isCreator |-> FALSE, url |-> NotSet]
    /\ copy = [a \in Editors |-> Listed]
    /\ editsCrossed = FALSE /\ onlyActive = 0
    /\ typedWindows = {<<0, 1>>}
    /\ contentAsks = 0

AskContent == contentAsks < MaxContentAsks /\ contentAsks' = contentAsks + 1

-----------------------------------------------------------------------------
(* Broadcasts: an activation deactivates the others, then writes its row.   *)

Live == {i \in DOMAIN broadcasts : broadcasts[i].live}
Active == {i \in Live : broadcasts[i].active}

AskBroadcast(a, id, active) ==
    /\ editorCall[a].pc = "idle"
    /\ AskContent
    /\ editorCall' = [editorCall EXCEPT ![a] =
          [pc |-> IF active THEN "deactivate" ELSE "write", id |-> id, active |-> active]]
    /\ editsCrossed' = (editsCrossed \/ \E b \in Editors : editorCall[b].pc # "idle")
    /\ UNCHANGED <<zones, broadcasts, seen, popup, banner, offerWindow, entry, creator, copy, onlyActive, typedWindows>>

\* Id 0 stands for the row to be created.
PostBroadcast(a, active) == Len(broadcasts) < MaxBroadcasts /\ AskBroadcast(a, 0, active)
PatchBroadcast(a, id, active) == id \in DOMAIN broadcasts /\ AskBroadcast(a, id, active)

LeaveOthers(a) ==
    /\ editorCall[a].pc = "deactivate"
    /\ editorCall' = [editorCall EXCEPT ![a].pc = "write"]
    /\ UNCHANGED <<zones, broadcasts, seen, popup, banner, offerWindow, entry, creator, copy, editsCrossed,
                   onlyActive, typedWindows, contentAsks>>

Deactivate(a) ==
    /\ editorCall[a].pc = "deactivate"
    /\ broadcasts' = [i \in DOMAIN broadcasts |->
                        IF i = editorCall[a].id THEN broadcasts[i] ELSE [broadcasts[i] EXCEPT !.active = FALSE]]
    /\ editorCall' = [editorCall EXCEPT ![a].pc = "write"]
    /\ onlyActive' = IF onlyActive = editorCall[a].id THEN onlyActive ELSE 0
    /\ UNCHANGED <<zones, seen, popup, banner, offerWindow, entry, creator, copy, editsCrossed, typedWindows, contentAsks>>

\* The creation appends; an update of a row that was deleted meanwhile throws.
WriteBroadcast(a) ==
    LET c == editorCall[a]
        id == IF c.id = 0 THEN Len(broadcasts) + 1 ELSE c.id
    IN  /\ c.pc = "write"
        /\ c.id = 0 => Len(broadcasts) < MaxBroadcasts
        /\ editorCall' = [editorCall EXCEPT ![a] = NoEdit]
        /\ broadcasts' = IF c.id = 0 THEN Append(broadcasts, [live |-> TRUE, active |-> c.active])
                         ELSE IF id \in Live THEN [broadcasts EXCEPT ![id].active = c.active] ELSE broadcasts
        /\ onlyActive' = IF c.id # 0 /\ id \notin Live THEN onlyActive
                         ELSE IF c.active THEN id ELSE IF onlyActive = id THEN 0 ELSE onlyActive
        /\ UNCHANGED <<zones, seen, popup, banner, offerWindow, entry, creator, copy, editsCrossed, typedWindows, contentAsks>>

\* The views go with the row.
RemoveBroadcast(a, id) ==
    /\ editorCall[a].pc = "idle"
    /\ AskContent
    /\ id \in Live
    /\ broadcasts' = [broadcasts EXCEPT ![id] = [live |-> FALSE, active |-> FALSE]]
    /\ seen' = {s \in seen : s[2] # id}
    /\ onlyActive' = IF onlyActive = id THEN 0 ELSE onlyActive
    /\ UNCHANGED <<zones, popup, editorCall, banner, offerWindow, entry, creator, copy, editsCrossed, typedWindows>>

\* GET /active: the newest active message without a view of this user.
ShowPopup(u) ==
    LET unseen == {i \in Active : <<u, i>> \notin seen}
    IN  /\ popup' = [popup EXCEPT ![u] = IF unseen = {} THEN 0 ELSE Max(unseen)]
        /\ UNCHANGED <<zones, broadcasts, seen, editorCall, banner, offerWindow, entry, creator, copy, editsCrossed,
                       onlyActive, typedWindows, contentAsks>>

\* The upsert throws when the message is gone.
DismissPopup(u) ==
    /\ popup[u] # 0
    /\ seen' = IF popup[u] \in Live THEN seen \cup {<<u, popup[u]>>} ELSE seen
    /\ popup' = [popup EXCEPT ![u] = 0]
    /\ UNCHANGED <<zones, broadcasts, editorCall, banner, offerWindow, entry, creator, copy, editsCrossed,
                   onlyActive, typedWindows, contentAsks>>

-----------------------------------------------------------------------------
(* Pages: load, and the forms filled from what was loaded.                  *)

LoadPage(a) ==
    /\ copy' = [copy EXCEPT ![a] = Listed]
    /\ UNCHANGED <<zones, broadcastVars, banner, offerWindow, entry, creator, typedWindows, contentAsks>>

Digits(instant, zone) == instant + zone
ParseInZone(digits, zone) == digits - zone

\* Both forms show toISOString, the digits in UTC.
BannerForm(listed) == [listed EXCEPT !.startsAt = Digits(@, 0), !.endsAt = Digits(@, 0)]
EventForm(listed) == [listed EXCEPT !.startsAt = Digits(@, 0), !.endsAt = Digits(@, 0)]

\* new Date(digits), in the handlers of banners: the digits come without a zone.
StoreBanner(sent) == [sent EXCEPT !.startsAt = ParseInZone(@, serverZone), !.endsAt = ParseInZone(@, serverZone)]

CreateBanner(s, e) ==
    LET stored == StoreBanner([live |-> TRUE, startsAt |-> s, endsAt |-> e, active |-> TRUE])
    IN  /\ AskContent
        /\ ~banner.live
        /\ banner' = stored
        /\ typedWindows' = typedWindows \cup {<<stored.startsAt, stored.endsAt>>}
        /\ UNCHANGED <<zones, broadcastVars, offerWindow, entry, creator, copy>>

\* The title was edited: every field of the form is sent.
SaveBanner(a) ==
    /\ AskContent
    /\ copy[a].banner.live /\ banner.live
    /\ banner' = StoreBanner(BannerForm(copy[a].banner))
    /\ UNCHANGED <<zones, broadcastVars, offerWindow, entry, creator, copy, typedWindows>>

\* The row is sent back as it was listed, with full instants.
ToggleBanner(a) ==
    /\ AskContent
    /\ copy[a].banner.live /\ banner.live
    /\ banner' = [copy[a].banner EXCEPT !.active = ~@]
    /\ UNCHANGED <<zones, broadcastVars, offerWindow, entry, creator, copy, typedWindows>>

DeleteBanner ==
    /\ AskContent
    /\ banner.live
    /\ banner' = Absent
    /\ UNCHANGED <<zones, broadcastVars, offerWindow, entry, creator, copy, typedWindows>>

\* The page of offer events parses the digits itself, in the zone of the browser ...
EventSent(form) ==
    [form EXCEPT !.startsAt = ParseInZone(@, browserZone), !.endsAt = ParseInZone(@, browserZone)]

\* ... and the handler refuses a window that does not end after it starts.
StoreEvent(sent) ==
    /\ AskContent
    /\ sent.startsAt < sent.endsAt
    /\ offerWindow' = sent
    /\ UNCHANGED <<zones, broadcastVars, banner, entry, creator, copy>>

SaveEvent(a) == StoreEvent(EventSent(EventForm(copy[a].offer))) /\ UNCHANGED typedWindows

RetypeEvent(s, e) ==
    LET sent == EventSent([startsAt |-> s, endsAt |-> e])
    IN  StoreEvent(sent) /\ typedWindows' = typedWindows \cup {<<sent.startsAt, sent.endsAt>>}

CreateEntry(type, category, income) ==
    /\ AskContent
    /\ entry' = [type |-> type,
                 category |-> IF type = "expense" THEN category ELSE "misc",
                 income |-> IF type = "income" THEN income ELSE NotSet]
    /\ UNCHANGED <<zones, broadcastVars, banner, offerWindow, creator, copy, typedWindows>>

\* openEdit fills what the row lacks.
EntryForm(listed) == [listed EXCEPT !.income = IF @ = NotSet THEN "revenue" ELSE @]

\* adminUpdate writes the fields that are sent, one by one.
StoreEntry(sent) == entry' = sent

\* The type may be changed in the form; both categories are sent, whatever the type.
SaveEntry(a, type) ==
    /\ AskContent
    /\ StoreEntry([EntryForm(copy[a].entry) EXCEPT !.type = type])
    /\ UNCHANGED <<zones, broadcastVars, banner, offerWindow, creator, copy, typedWindows>>

UpsertCreator(url) ==
    /\ AskContent
    /\ creator' = [isCreator |-> TRUE, url |-> url]
    /\ UNCHANGED <<zones, broadcastVars, banner, offerWindow, entry, copy, typedWindows>>

RemoveCreator ==
    /\ AskContent
    /\ creator' = [isCreator |-> FALSE, url |-> NotSet]
    /\ UNCHANGED <<zones, broadcastVars, banner, offerWindow, entry, copy, typedWindows>>

ContentNext ==
    \/ \E a \in Editors :
         \/ Deactivate(a) \/ WriteBroadcast(a) \/ LoadPage(a)
         \/ SaveBanner(a) \/ ToggleBanner(a) \/ SaveEvent(a)
         \/ \E active \in BOOLEAN :
              PostBroadcast(a, active) \/ \E id \in DOMAIN broadcasts : PatchBroadcast(a, id, active)
         \/ \E id \in DOMAIN broadcasts : RemoveBroadcast(a, id)
         \/ \E type \in {"expense", "income"} : SaveEntry(a, type)
    \/ \E u \in Readers : ShowPopup(u) \/ DismissPopup(u)
    \/ \E s, e \in Typed : CreateBanner(s, e) \/ RetypeEvent(s, e)
    \/ DeleteBanner
    \/ \E type \in {"expense", "income"}, c \in ExpenseCategories, i \in IncomeCategories : CreateEntry(type, c, i)
    \/ \E url \in {NotSet, "channel"} : UpsertCreator(url)
    \/ RemoveCreator

ContentSpec == ContentInit /\ [][ContentNext]_contentVars

-----------------------------------------------------------------------------
(* Views are of messages that are there and of users who have them.         *)
ContentTypeOK ==
    /\ \A i \in DOMAIN broadcasts : broadcasts[i] \in [live : BOOLEAN, active : BOOLEAN]
    /\ seen \subseteq Readers \X Live
    /\ popup \in [Readers -> 0..Len(broadcasts)]
    /\ {banner.startsAt, banner.endsAt, offerWindow.startsAt, offerWindow.endsAt} \subseteq Int
    /\ creator.isCreator \in BOOLEAN

(* "Activating deactivates all others": unless two requests about messages  *)
(* crossed, the message made active last is the active one and the only one.*)
OneActive ==
    ~editsCrossed /\ (\A a \in Editors : editorCall[a].pc = "idle") =>
        Active = IF onlyActive = 0 THEN {} ELSE {onlyActive}

(* However often a form is saved, and from however old a copy, a window is  *)
(* as long as one that somebody typed; where the digits are read in UTC it  *)
(* is one that somebody typed, and elsewhere each save may have moved it.   *)
WindowsKeepTheirLength ==
    \A w \in {offerWindow} \cup (IF banner.live THEN {banner} ELSE {}) :
        /\ \E t \in typedWindows : w.endsAt - w.startsAt = t[2] - t[1]
        /\ serverZone = 0 /\ browserZone = 0 => <<w.startsAt, w.endsAt>> \in typedWindows

(* The label an entry is listed under, getCatLabel, is one of its type's    *)
(* categories, after creations, edits from old copies and changes of type.  *)
EntriesAreLabelled ==
    IF entry.type = "income" THEN entry.income \in IncomeCategories ELSE entry.category \in ExpenseCategories

(* A user with a channel is a creator: edits and removals by administrators *)
(* who do not see each other leave the two columns consistent.              *)
ChannelsAreCreators == creator.url # NotSet => creator.isCreator

(* One broadcast is active unless two were published together, a window     *)
(* keeps the length it was given in any pair of time zones, and lists agree *)
(* with the rows they are made of.                                          *)
ContentSafe ==
    /\ ContentTypeOK /\ OneActive /\ WindowsKeepTheirLength
    /\ EntriesAreLabelled /\ ChannelsAreCreators
=============================================================================
