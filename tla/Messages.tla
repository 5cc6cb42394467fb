------------------------------ MODULE Messages ------------------------------
(***************************************************************************)
(* What users and administrators write to each other: the public chat,     *)
(* private messages with their notifications, and support tickets with     *)
(* their threads.  A handler makes several statements, one after another,  *)
(* and only the administrator's reply puts two of them in a transaction.   *)
(* Rows are numbered as they are created, which is also their order in     *)
(* createdAt.                                                              *)
(***************************************************************************)
EXTENDS Integers, FiniteSets, Sequences, SequencesExt, FiniteSetsExt

CONSTANTS
    Talkers,      \* users
    TalkCalls,    \* requests in flight together
    PageSize,     \* take: 50
    NoticePage,   \* take: 20
    MaxWritten,   \* bound on the rows of each kind
    MaxTalks      \* bound on the requests

ASSUME TalkAssumption ==
    /\ "admin" \notin Talkers
    /\ {PageSize, NoticePage, MaxWritten, MaxTalks} \subseteq Nat

Visitor == "visitor"  \* a ticket opened without an account

VARIABLES
    chat,         \* chat_messages: who wrote, and the row it answers or 0
    private,      \* private_messages
    notice,       \* notifications
    support,      \* support_messages, each with its thread of replies
    talkCall,
    listed,       \* history: private messages returned to each user
    late,         \* history: private messages that arrived while their receiver was reading
    listings,     \* history: answers of getConversations, with the rows there were at the start
    opened,       \* history: tickets an administrator was shown
    unannounced,  \* history: private messages whose notification failed
    talks

messageVars == <<chat, private, notice, support, talkCall, listed, late, listings, opened, unannounced, talks>>

NoTalk == [pc |-> "idle", user |-> Visitor, with |-> Visitor, row |-> 0, found |-> {}]

MessageInit ==
    /\ chat = <<>> /\ private = <<>> /\ notice = <<>> /\ support = <<>>
    /\ talkCall = [k \in TalkCalls |-> NoTalk]
    /\ listed = [u \in Talkers |-> {}]
    /\ late = {} /\ listings = {} /\ opened = {} /\ unannounced = {}
    /\ talks = 0

AskTalk(k) == talkCall[k].pc = "idle" /\ talks < MaxTalks /\ talks' = talks + 1
TalkGoes(k, call) == talkCall' = [talkCall EXCEPT ![k] = call]

\* Positions of the rows of a table that satisfy a condition.
Rows(table, Of(_)) == {i \in DOMAIN table : Of(table[i])}
Oldest(S, n) == {i \in S : Cardinality({j \in S : j < i}) < n}
Newest(S, n) == {i \in S : Cardinality({j \in S : j > i}) < n}

-----------------------------------------------------------------------------
(* The public chat                                                          *)

\* replyTo is a foreign key: the insertion throws when the row is not there.
SendMessage(k, u) ==
    /\ AskTalk(k)
    /\ Len(chat) < MaxWritten
    /\ \E reply \in 0..Len(chat) : chat' = Append(chat, [by |-> u, reply |-> reply])
    /\ UNCHANGED <<private, notice, support, talkCall, listed, late, listings, opened, unannounced>>

ChatPage == Newest(DOMAIN chat, PageSize)

-----------------------------------------------------------------------------
(* Private messages                                                         *)

SendPrivateMessage(k, u, v) ==
    /\ AskTalk(k)
    /\ u # v
    /\ Len(private) < MaxWritten
    /\ private' = Append(private, [from |-> u, to |-> v, read |-> FALSE])
    /\ late' = IF \E c \in TalkCalls : talkCall[c].pc = "read" /\ talkCall[c].user = v /\ talkCall[c].with = u
               THEN late \cup {Len(private')} ELSE late
    /\ TalkGoes(k, [NoTalk EXCEPT !.pc = "notify", !.user = u, !.with = v, !.row = Len(private')])
    /\ UNCHANGED <<chat, notice, support, listed, listings, opened, unannounced>>

\* createNotification logs its own failure and returns.
NotifyReceiver(k) ==
    LET c == talkCall[k]
    IN  /\ c.pc = "notify"
        /\ TalkGoes(k, NoTalk)
        /\ \/ /\ notice' = Append(notice, [user |-> c.with, about |-> c.row, read |-> FALSE])
              /\ UNCHANGED unannounced
           \/ /\ unannounced' = unannounced \cup {c.row}
              /\ UNCHANGED notice
        /\ UNCHANGED <<chat, private, support, listed, late, listings, opened, talks>>

Conversation(u, v) == Rows(private, LAMBDA m : {m.from, m.to} = {u, v})

\* getPrivateMessages returns the oldest rows of the conversation ...
ListPrivate(k, u, v) ==
    /\ AskTalk(k)
    /\ u # v
    /\ listed' = [listed EXCEPT ![u] = @ \cup Oldest(Conversation(u, v), PageSize)]
    /\ TalkGoes(k, [NoTalk EXCEPT !.pc = "read", !.user = u, !.with = v])
    /\ UNCHANGED <<chat, private, notice, support, late, listings, opened, unannounced>>

\* ... and marks every unread row from that user.
MarkPrivate(k) ==
    LET c == talkCall[k]
    IN  /\ c.pc = "read"
        /\ private' = [i \in DOMAIN private |->
                         IF private[i].from = c.with /\ private[i].to = c.user
                         THEN [private[i] EXCEPT !.read = TRUE] ELSE private[i]]
        /\ TalkGoes(k, NoTalk)
        /\ UNCHANGED <<chat, notice, support, listed, late, listings, opened, unannounced, talks>>

Sent(u) == Rows(private, LAMBDA m : m.from = u)
Received(u) == Rows(private, LAMBDA m : m.to = u)

\* getConversations reads the rows the user sent, then those the user received.
ListSent(k, u) ==
    /\ AskTalk(k)
    /\ TalkGoes(k, [NoTalk EXCEPT !.pc = "received", !.user = u, !.row = Len(private), !.found = Sent(u)])
    /\ UNCHANGED <<chat, private, notice, support, listed, late, listings, opened, unannounced>>

Other(u, i) == IF private[i].from = u THEN private[i].to ELSE private[i].from

\* One entry for each partner, at the time of the newest row.
Entries(u, S) == {[with |-> v, at |-> Max({i \in S : Other(u, i) = v})] : v \in {Other(u, i) : i \in S}}

ListReceived(k) ==
    LET c == talkCall[k]
    IN  /\ c.pc = "received"
        /\ listings' = listings \cup
             {[user |-> c.user, since |-> c.row, entries |-> Entries(c.user, c.found \cup Received(c.user))]}
        /\ TalkGoes(k, NoTalk)
        /\ UNCHANGED <<chat, private, notice, support, listed, late, opened, unannounced, talks>>

-----------------------------------------------------------------------------
(* Notifications                                                            *)

NoticesOf(u) == Newest(Rows(notice, LAMBDA n : n.user = u), NoticePage)

\* One of the page, or all of them.
MarkAsRead(k, u) ==
    /\ AskTalk(k)
    /\ \E marked \in {{i} : i \in NoticesOf(u)} \cup {Rows(notice, LAMBDA n : n.user = u)} :
         notice' = [i \in DOMAIN notice |->
                      IF i \in marked THEN [notice[i] EXCEPT !.read = TRUE] ELSE notice[i]]
    /\ UNCHANGED <<chat, private, support, talkCall, listed, late, listings, opened, unannounced>>

-----------------------------------------------------------------------------
(* Support tickets                                                          *)

CreateTicket(k, u) ==
    /\ AskTalk(k)
    /\ Len(support) < MaxWritten
    /\ support' = Append(support, [user |-> u, read |-> FALSE, replied |-> FALSE, thread |-> <<>>])
    /\ UNCHANGED <<chat, private, notice, talkCall, listed, late, listings, opened, unannounced>>

\* The row is read and compared with the user before the reply is written.
UserReplies(k, u, t) ==
    /\ AskTalk(k)
    /\ support[t].user = u
    /\ Len(support[t].thread) < MaxWritten
    /\ support' = [support EXCEPT ![t].thread = Append(@, u)]
    /\ UNCHANGED <<chat, private, notice, talkCall, listed, late, listings, opened, unannounced>>

\* adminSupportController.getMessage: the ticket is read, and marked if it was not.
OpenTicket(k, t) ==
    /\ AskTalk(k)
    /\ opened' = opened \cup {t}
    /\ IF support[t].read THEN UNCHANGED talkCall
       ELSE TalkGoes(k, [NoTalk EXCEPT !.pc = "mark", !.row = t])
    /\ UNCHANGED <<chat, private, notice, support, listed, late, listings, unannounced>>

\* The whole row is written back, as it was read.
MarkTicketAsFound(k) ==
    /\ talkCall[k].pc = "mark"
    /\ support' = [support EXCEPT ![talkCall[k].row].read = TRUE, ![talkCall[k].row].replied = FALSE]
    /\ TalkGoes(k, NoTalk)
    /\ UNCHANGED <<chat, private, notice, listed, late, listings, opened, unannounced, talks>>

MarkTicket(k) ==
    /\ talkCall[k].pc = "mark"
    /\ support' = [support EXCEPT ![talkCall[k].row].read = TRUE]
    /\ TalkGoes(k, NoTalk)
    /\ UNCHANGED <<chat, private, notice, listed, late, listings, opened, unannounced, talks>>

\* The reply and the mark, in one transaction; the ticket need not have been opened.
AdminReplies(k, t) ==
    /\ AskTalk(k)
    /\ Len(support[t].thread) < MaxWritten
    /\ support' = [support EXCEPT ![t].thread = Append(@, "admin"), ![t].replied = TRUE]
    /\ UNCHANGED <<chat, private, notice, talkCall, listed, late, listings, opened, unannounced>>

\* Requests under way end where they are; a row whose notification was to come has none.
MessageRestart ==
    /\ talkCall' = [k \in TalkCalls |-> NoTalk]
    /\ unannounced' = unannounced \cup {talkCall[k].row : k \in {c \in TalkCalls : talkCall[c].pc = "notify"}}
    /\ UNCHANGED <<chat, private, notice, support, listed, late, listings, opened, talks>>

MessageNext ==
    \/ \E k \in TalkCalls :
         \/ NotifyReceiver(k) \/ MarkPrivate(k) \/ ListReceived(k) \/ MarkTicket(k)
         \/ \E u \in Talkers : SendMessage(k, u) \/ ListSent(k, u) \/ MarkAsRead(k, u)
         \/ \E u, v \in Talkers : SendPrivateMessage(k, u, v) \/ ListPrivate(k, u, v)
         \/ \E u \in Talkers \cup {Visitor} : CreateTicket(k, u)
         \/ \E t \in DOMAIN support :
              OpenTicket(k, t) \/ AdminReplies(k, t) \/ \E u \in Talkers : UserReplies(k, u, t)
    \/ MessageRestart

MessageSpec == MessageInit /\ [][MessageNext]_messageVars

-----------------------------------------------------------------------------
(* The tables hold rows of their kinds, and replies and notifications refer *)
(* to rows that are there.                                                  *)
MessageTypeOK ==
    /\ \A i \in DOMAIN chat : chat[i].by \in Talkers /\ chat[i].reply \in 0..(i - 1)
    /\ \A i \in DOMAIN private : private[i] \in [from : Talkers, to : Talkers, read : BOOLEAN]
    /\ \A i \in DOMAIN notice : notice[i] \in [user : Talkers, about : DOMAIN private, read : BOOLEAN]
    /\ \A i \in DOMAIN support : support[i].user \in Talkers \cup {Visitor}
    /\ ChatPage \subseteq DOMAIN chat

(* A private message is marked as read only after it was returned to its    *)
(* receiver, unless it arrived between the list and the mark or lies past   *)
(* the page, where the handler never shows it.                              *)
ReadWasShown ==
    \A i \in DOMAIN private :
        LET m == private[i]
        IN  m.read => \/ i \in listed[m.to] \cup late
                      \/ i \notin Oldest(Conversation(m.from, m.to), PageSize)

(* A private message whose request is over has exactly one notification,    *)
(* for its receiver, unless its creation failed or the server stopped.      *)
MessageIsAnnounced ==
    \A i \in DOMAIN private :
        \/ i \in unannounced
        \/ \E k \in TalkCalls : talkCall[k].pc = "notify" /\ talkCall[k].row = i
        \/ /\ Cardinality(Rows(notice, LAMBDA n : n.about = i)) = 1
           /\ Rows(notice, LAMBDA n : n.about = i /\ n.user = private[i].to) # {}

(* A list of conversations, made of two reads, names every partner there    *)
(* was when it began, at a time no earlier than their newest message then.  *)
ListingIsComplete ==
    \A l \in listings : \A i \in 1..l.since :
        l.user \in {private[i].from, private[i].to} =>
            \E e \in l.entries : e.with = Other(l.user, i) /\ e.at >= i

(* A ticket counts as replied exactly when an administrator's reply is in   *)
(* its thread, whatever marks and users' replies came between.              *)
RepliedHasReply ==
    \A t \in DOMAIN support : support[t].replied <=> "admin" \in ToSet(support[t].thread)

(* A ticket is marked as read only after an administrator was shown it: an  *)
(* answer alone does not mark it.                                           *)
ReadTicketWasOpened == \A t \in DOMAIN support : support[t].read => t \in opened

(* What is marked as read was shown, every message is announced once, a     *)
(* listing misses no partner, and a ticket counts as replied exactly when   *)
(* it was, but for the failures and crossings the parts name.               *)
MessagesSafe ==
    /\ MessageTypeOK /\ ReadWasShown /\ MessageIsAnnounced
    /\ ListingIsComplete /\ RepliedHasReply /\ ReadTicketWasOpened
=============================================================================
