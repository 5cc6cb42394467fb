--------------------------- MODULE DepositTickets ---------------------------
(***************************************************************************)
(* Deposit tickets: a user whose deposit was not recognised opens a        *)
(* ticket, administrators look at it (which analyses it on chain), credit  *)
(* or reject it from their page.  Every handler reads the row, decides,    *)
(* and writes later: another handler may write in between.  The page keeps *)
(* the last ticket that was answered and the amount of the last that was   *)
(* asked for.                                                              *)
(***************************************************************************)
EXTENDS Integers, FiniteSets

CONSTANTS
    TicketUsers,
    Tickets,     \* ids of tickets
    Transfers,   \* hashes a user may name
    NoTransfer,
    NoTicket,
    Openers,     \* createTicket calls in flight together
    Desks,       \* administrators' pages
    DeskCalls,   \* administrators' calls in flight together
    MaxOpen,     \* MAX_TICKETS_OPEN
    MaxDeskCalls, \* bound on the calls administrators make
    MaxTicketFaults

ASSUME TicketAssumption ==
    /\ IsFiniteSet(Tickets) /\ IsFiniteSet(DeskCalls)
    /\ NoTransfer \notin Transfers
    /\ NoTicket \notin Tickets
    /\ MaxOpen \in Nat /\ MaxDeskCalls \in Nat /\ MaxTicketFaults \in Nat

VARIABLES
    ticket,      \* deposit_tickets
    ticketCredits,     \* completed deposits made for a ticket, and whose amounts
    told,        \* how many of them the engine's copy of the balance has
    opening,     \* createTicket calls
    desk,        \* what an administrator's page shows
    deskCall,    \* adminGetTicket, adminApproveTicket, adminRejectTicket calls
    overlapped,  \* history: tickets on which two administrators' calls overlapped
    crowded,     \* history: users two of whose createTicket calls overlapped
    deskCalls,   \* calls so far
    ticketFaults

ticketVars == <<ticket, ticketCredits, told, opening, desk, deskCall, overlapped, crowded, deskCalls, ticketFaults>>

Absent == [status |-> "absent", user |-> "nobody", hash |-> NoTransfer]
IdleOpening == [pc |-> "idle", user |-> "nobody", hash |-> NoTransfer]
BlankDesk == [selected |-> NoTicket, status |-> "absent", form |-> NoTicket,
              submitting |-> FALSE, crossed |-> FALSE]
IdleDeskCall == [pc |-> "idle", desk |-> "none", ticket |-> NoTicket, status |-> "absent", form |-> NoTicket]

TicketInit ==
    /\ ticket = [t \in Tickets |-> Absent]
    /\ ticketCredits = [t \in Tickets |-> [times |-> 0, amounts |-> {}]]
    /\ told = [t \in Tickets |-> 0]
    /\ opening = [c \in Openers |-> IdleOpening]
    /\ desk = [d \in Desks |-> BlankDesk]
    /\ deskCall = [k \in DeskCalls |-> IdleDeskCall]
    /\ overlapped = {}
    /\ crowded = {}
    /\ deskCalls = 0
    /\ ticketFaults = 0

Unresolved == {"open", "analyzing"}
Resolved == {"approved", "credited"}

-----------------------------------------------------------------------------
(* createTicket: a count, a look for the same hash, and the insertion.      *)

OpenTickets(u) == {t \in Tickets : ticket[t].user = u /\ ticket[t].status \in Unresolved}
SameHash(u, h) == {t \in Tickets : ticket[t].user = u /\ ticket[t].hash = h}

Busy(u) == \E c \in Openers : opening[c].pc # "idle" /\ opening[c].user = u

StartOpening(c, u, h) ==
    /\ opening[c].pc = "idle"
    /\ Cardinality(OpenTickets(u)) < MaxOpen
    /\ opening' = [opening EXCEPT ![c] = [pc |-> IF h = NoTransfer THEN "create" ELSE "duplicate",
                                          user |-> u, hash |-> h]]
    /\ crowded' = IF Busy(u) THEN crowded \cup {u} ELSE crowded
    /\ UNCHANGED <<ticket, ticketCredits, told, desk, deskCall, overlapped, deskCalls, ticketFaults>>

LookForDuplicate(c) ==
    LET o == opening[c]
    IN  /\ o.pc = "duplicate"
        /\ opening' = [opening EXCEPT ![c] = IF SameHash(o.user, o.hash) = {}
                                               THEN [o EXCEPT !.pc = "create"] ELSE IdleOpening]
        /\ UNCHANGED <<ticket, ticketCredits, told, desk, deskCall, overlapped, crowded, deskCalls, ticketFaults>>

CreateTicket(c, t) ==
    /\ opening[c].pc = "create"
    /\ ticket[t] = Absent
    /\ ticket' = [ticket EXCEPT ![t] = [status |-> "open", user |-> opening[c].user,
                                        hash |-> opening[c].hash]]
    /\ opening' = [opening EXCEPT ![c] = IdleOpening]
    /\ UNCHANGED <<ticketCredits, told, desk, deskCall, overlapped, crowded, deskCalls, ticketFaults>>

-----------------------------------------------------------------------------
(* An administrator's call begins at the page.                              *)

DeskAsks(k, pc, d, t, form) ==
    /\ deskCalls < MaxDeskCalls
    /\ deskCalls' = deskCalls + 1
    /\ deskCall[k].pc = "idle"
    /\ deskCall' = [deskCall EXCEPT ![k] = [pc |-> pc, desk |-> d, ticket |-> t,
                                            status |-> "absent", form |-> form]]

AsksDetail(k, d) == deskCall[k].desk = d /\ deskCall[k].pc \in {"get", "analyze", "show"}

\* openTicket: the form takes the listed amount at once, the ticket comes later.
OpenDetail(d, k, t) ==
    /\ ticket[t] # Absent
    /\ DeskAsks(k, "get", d, t, NoTicket)
    /\ desk' = [desk EXCEPT ![d] = [@ EXCEPT
                   !.selected = NoTicket, !.form = t,
                   !.crossed = desk[d].crossed \/ \E other \in DeskCalls : AsksDetail(other, d)]]
    /\ UNCHANGED <<ticket, ticketCredits, told, opening, overlapped, crowded, ticketFaults>>

\* The buttons show for a ticket that was unresolved when it was fetched.
Actionable(d) ==
    /\ desk[d].selected # NoTicket
    /\ desk[d].status \in Unresolved
    /\ ~desk[d].submitting

HandleApprove(d, k) ==
    /\ Actionable(d)
    /\ desk[d].form # NoTicket
    /\ DeskAsks(k, "approve", d, desk[d].selected, desk[d].form)
    /\ desk' = [desk EXCEPT ![d].submitting = TRUE]
    /\ UNCHANGED <<ticket, ticketCredits, told, opening, overlapped, crowded, ticketFaults>>

HandleReject(d, k) ==
    /\ Actionable(d)
    /\ DeskAsks(k, "reject", d, desk[d].selected, NoTicket)
    /\ desk' = [desk EXCEPT ![d].submitting = TRUE]
    /\ UNCHANGED <<ticket, ticketCredits, told, opening, overlapped, crowded, ticketFaults>>

-----------------------------------------------------------------------------
(* The handlers: each reads the ticket, and writes it in a later step.      *)

Writing(k, t) == deskCall[k].ticket = t /\ deskCall[k].pc \in {"analyze", "credit", "deny"}

\* A handler's read, after which it will write if it stays on this path.
ReadsTicket(k, from, writes, pc, otherwise) ==
    LET t == deskCall[k].ticket
    IN  /\ deskCall[k].pc = from
        /\ deskCall' = [deskCall EXCEPT ![k].status = ticket[t].status,
                                        ![k].pc = IF writes THEN pc ELSE otherwise]
        /\ overlapped' = IF writes /\ \E other \in DeskCalls : Writing(other, t)
                           THEN overlapped \cup {t} ELSE overlapped
        /\ UNCHANGED <<ticket, ticketCredits, told, opening, desk, crowded, deskCalls, ticketFaults>>

ReadDetail(k) ==
    ReadsTicket(k, "get", ticket[deskCall[k].ticket].status \in Unresolved, "analyze", "show")

ReadForApprovalLoosely(k) ==
    ReadsTicket(k, "approve", ticket[deskCall[k].ticket].status # "approved", "credit", "refused")

\* A rejected ticket may still be approved.
ReadForApproval(k) ==
    ReadsTicket(k, "approve", ticket[deskCall[k].ticket].status \notin Resolved, "credit", "refused")

ReadForRejection(k) ==
    ReadsTicket(k, "reject", ticket[deskCall[k].ticket].status \notin Resolved \cup {"rejected"},
                "deny", "refused")

\* analyzeOnChain has answered, seconds later.
Analyze(k) ==
    /\ deskCall[k].pc = "analyze"
    /\ ticket' = [ticket EXCEPT ![deskCall[k].ticket].status = "analyzing"]
    /\ deskCall' = [deskCall EXCEPT ![k].pc = "show"]
    /\ UNCHANGED <<ticketCredits, told, opening, desk, overlapped, crowded, deskCalls, ticketFaults>>

\* The transaction of adminApproveTicket.
CreditTicket(k) ==
    LET t == deskCall[k].ticket
    IN  /\ deskCall[k].pc = "credit"
        /\ ticket' = [ticket EXCEPT ![t].status = "credited"]
        /\ ticketCredits' = [ticketCredits EXCEPT ![t] = [times |-> @.times + 1,
                                              amounts |-> @.amounts \cup {deskCall[k].form}]]
        /\ deskCall' = [deskCall EXCEPT ![k].pc = "tell"]
        /\ UNCHANGED <<told, opening, desk, overlapped, crowded, deskCalls, ticketFaults>>

\* applyUserBalanceDelta
TellEngine(k) ==
    /\ deskCall[k].pc = "tell"
    /\ told' = [told EXCEPT ![deskCall[k].ticket] = @ + 1]
    /\ deskCall' = [deskCall EXCEPT ![k].pc = "done"]
    /\ UNCHANGED <<ticket, ticketCredits, opening, desk, overlapped, crowded, deskCalls, ticketFaults>>

Deny(k) ==
    /\ deskCall[k].pc = "deny"
    /\ ticket' = [ticket EXCEPT ![deskCall[k].ticket].status = "rejected"]
    /\ deskCall' = [deskCall EXCEPT ![k].pc = "done"]
    /\ UNCHANGED <<ticketCredits, told, opening, desk, overlapped, crowded, deskCalls, ticketFaults>>

\* The page takes whatever ticket is answered.
Show(k) ==
    /\ deskCall[k].pc = "show"
    /\ desk' = [desk EXCEPT ![deskCall[k].desk].selected = deskCall[k].ticket,
                            ![deskCall[k].desk].status = deskCall[k].status]
    /\ deskCall' = [deskCall EXCEPT ![k] = IdleDeskCall]
    /\ UNCHANGED <<ticket, ticketCredits, told, opening, overlapped, crowded, deskCalls, ticketFaults>>

Done(k) ==
    /\ deskCall[k].pc = "done"
    /\ desk' = [desk EXCEPT ![deskCall[k].desk].selected = NoTicket,
                            ![deskCall[k].desk].submitting = FALSE]
    /\ deskCall' = [deskCall EXCEPT ![k] = IdleDeskCall]
    /\ UNCHANGED <<ticket, ticketCredits, told, opening, overlapped, crowded, deskCalls, ticketFaults>>

Refused(k) ==
    /\ deskCall[k].pc = "refused"
    /\ desk' = [desk EXCEPT ![deskCall[k].desk].submitting = FALSE]
    /\ deskCall' = [deskCall EXCEPT ![k] = IdleDeskCall]
    /\ UNCHANGED <<ticket, ticketCredits, told, opening, overlapped, crowded, deskCalls, ticketFaults>>

TicketFault == ticketFaults < MaxTicketFaults /\ ticketFaults' = ticketFaults + 1

\* A database call throws before anything is written; the page shows an error.
DeskCallThrows(k) ==
    /\ TicketFault
    /\ deskCall[k].pc \in {"get", "approve", "reject", "analyze", "credit", "deny"}
    /\ deskCall' = [deskCall EXCEPT ![k].pc = "refused"]
    /\ UNCHANGED <<ticket, ticketCredits, told, opening, desk, overlapped, crowded, deskCalls>>

\* Calls are lost with the process; the engine starts from the database.
TicketRestart ==
    /\ TicketFault
    /\ opening' = [c \in Openers |-> IdleOpening]
    /\ deskCall' = [k \in DeskCalls |-> IdleDeskCall]
    /\ desk' = [d \in Desks |-> [desk[d] EXCEPT !.submitting = FALSE]]
    /\ told' = [t \in Tickets |-> ticketCredits[t].times]
    /\ UNCHANGED <<ticket, ticketCredits, overlapped, crowded, deskCalls>>

OpeningStep(c) ==
    \/ \E u \in TicketUsers, h \in Transfers \cup {NoTransfer} : StartOpening(c, u, h)
    \/ LookForDuplicate(c)
    \/ \E t \in Tickets : CreateTicket(c, t)

DeskStep(d, k) ==
    \/ \E t \in Tickets : OpenDetail(d, k, t)
    \/ HandleApprove(d, k)
    \/ HandleReject(d, k)

DeskCallStep(k) ==
    \/ ReadDetail(k) \/ ReadForApproval(k) \/ ReadForRejection(k)
    \/ Analyze(k) \/ CreditTicket(k) \/ TellEngine(k) \/ Deny(k)
    \/ Show(k) \/ Done(k) \/ Refused(k)
    \/ DeskCallThrows(k)

TicketNext ==
    \/ \E c \in Openers : OpeningStep(c)
    \/ \E d \in Desks, k \in DeskCalls : DeskStep(d, k)
    \/ \E k \in DeskCalls : DeskCallStep(k)
    \/ TicketRestart

TicketSpec == TicketInit /\ [][TicketNext]_ticketVars

-----------------------------------------------------------------------------
TicketStatus == {"absent", "open", "analyzing", "credited", "rejected"}
CallPc == {"idle", "get", "analyze", "show", "approve", "credit", "tell", "reject", "deny",
           "done", "refused"}

(* Every row, call and page holds values of its kind.                       *)
TicketTypeOK ==
    /\ ticket \in [Tickets -> [status : TicketStatus, user : TicketUsers \cup {"nobody"},
                               hash : Transfers \cup {NoTransfer}]]
    /\ ticketCredits \in [Tickets -> [times : Nat, amounts : SUBSET Tickets]]
    /\ told \in [Tickets -> Nat]
    /\ opening \in [Openers -> [pc : {"idle", "duplicate", "create"},
                                user : TicketUsers \cup {"nobody"}, hash : Transfers \cup {NoTransfer}]]
    /\ desk \in [Desks -> [selected : Tickets \cup {NoTicket}, status : TicketStatus,
                           form : Tickets \cup {NoTicket}, submitting : BOOLEAN, crossed : BOOLEAN]]
    /\ deskCall \in [DeskCalls -> [pc : CallPc, desk : Desks \cup {"none"},
                                   ticket : Tickets \cup {NoTicket}, status : TicketStatus,
                                   form : Tickets \cup {NoTicket}]]
    /\ overlapped \in SUBSET Tickets
    /\ crowded \in SUBSET TicketUsers
    /\ deskCalls \in Nat
    /\ ticketFaults \in Nat

(* A ticket is credited at most once as long as no two administrators'      *)
(* calls were between their read and their write of it together: errors,    *)
(* restarts, stale pages and repeated clicks are all refused.               *)
TicketCreditedOnce == \A t \in Tickets : t \notin overlapped => ticketCredits[t].times <= 1

(* A credited ticket stays credited, and no ticket returns to the queue     *)
(* once resolved, unless such calls overlapped on it.                       *)
TicketStaysResolved ==
    [][\A t \in Tickets : t \notin overlapped' =>
         /\ ticket[t].status = "credited" => ticket'[t].status = "credited"
         /\ ticket[t].status = "rejected" => ticket'[t].status \in {"rejected", "credited"}]_ticketVars

(* A user whose requests do not overlap never has more than MaxOpen tickets *)
(* under way, apart from tickets that overlapping administrators' calls put *)
(* back, nor two tickets for one transfer, resolved ones included.          *)
TicketsWithinLimit ==
    \A u \in TicketUsers \ crowded :
        /\ Cardinality(OpenTickets(u) \ overlapped) <= MaxOpen
        /\ \A h \in Transfers : Cardinality(SameHash(u, h)) <= 1

(* What is credited for a ticket is the amount the page took from it: the   *)
(* page mixes two tickets only when one was opened while the other was      *)
(* still being fetched.                                                     *)
CreditIsForItsTicket ==
    \A t \in Tickets : ticketCredits[t].amounts \subseteq {t} \/ \E d \in Desks : desk[d].crossed

(* The engine's copy of the balance has every credit, but for those of      *)
(* calls that have committed and are about to pass it on.                   *)
EngineToldOfCredits ==
    \A t \in Tickets :
        told[t] + Cardinality({k \in DeskCalls : deskCall[k].ticket = t /\ deskCall[k].pc = "tell"})
            = ticketCredits[t].times

(* A ticket is credited once, with its own amount, and the engine hears of  *)
(* it, unless the calls on it overlapped; a user has at most MaxOpen open   *)
(* tickets unless two were opened together.                                 *)
TicketsSafe ==
    /\ TicketTypeOK /\ TicketCreditedOnce /\ TicketsWithinLimit
    /\ CreditIsForItsTicket /\ EngineToldOfCredits
=============================================================================
