----------------------------- MODULE WatchTime ------------------------------
(***************************************************************************)
(* Time watched, and what it buys one user (no statement reads another     *)
(* user's rows): heartbeats of the two kinds of page share one time stamp  *)
(* and add to two balances of seconds, from which video claims and         *)
(* graphics cards are paid.  A request checks in some statements and       *)
(* writes in a later one; both claims then read the hash rate anew and     *)
(* assign it to the engine, and so does a move of a card's machine into a  *)
(* rack or out of it; a timer deletes what has expired.                    *)
(***************************************************************************)
EXTENDS Integers, FiniteSets

CONSTANTS
    WatchCalls,  \* requests in flight together
    Cards,       \* ids of auto_mining_gpus
    BeatGap,     \* the eight seconds between heartbeats
    BeatSeconds, \* the ten seconds one brings
    VideoPrice,  \* the sixty seconds a video claim costs
    CardPrice,   \* the three hundred seconds a card costs
    CardGap,     \* the five minutes between two cards
    PowerLife,   \* how long a claim mines, and the window of the limits
    VideoLimit,  \* claims DAILY_LIMIT_HASH admits
    CardLimit,   \* DAILY_LIMIT
    MaxWatchTime, \* bound on the clock
    MaxWatchAsks, \* bound on the requests
    MaxWatchCrossedAsks \* bound on them once two were in flight together

ASSUME WatchAssumption ==
    /\ IsFiniteSet(Cards) /\ "none" \notin Cards
    /\ BeatGap \in Nat /\ BeatSeconds \in Nat /\ VideoPrice \in Nat /\ CardPrice \in Nat
    /\ CardGap \in Nat /\ PowerLife \in Nat /\ VideoLimit \in Nat /\ CardLimit \in Nat
    /\ MaxWatchTime \in Nat
    /\ MaxWatchAsks \in Nat /\ MaxWatchCrossedAsks \in Nat

VARIABLES
    watchTime,
    lastBeat,     \* users.lastHeartbeatAt, 0: null
    seconds,      \* users.ytSecondsBalance and autoMiningSecondsBalance
    videos,       \* youtube_watch_history
    videoPower,   \* youtube_watch_powers
    card,         \* auto_mining_gpus
    cardItem,     \* the machine a claimed card brought: in the inventory, with or without a term, or in a rack
    engineRate,   \* the rate the engine has for the user, in claims
    watchCall,
    beats,        \* history: times of the heartbeats that were counted
    cardClaims,   \* history: how often each card was claimed
    syncMissed,   \* history: the last read or assignment of the rate threw
    watchCrossed, \* history: two requests were in flight together
    watchAsks

watchVars == <<watchTime, lastBeat, seconds, videos, videoPower, card, cardItem, engineRate, watchCall,
               beats, cardClaims, syncMissed, watchCrossed, watchAsks>>

WatchIdle == [pc |-> "idle", kind |-> "youtube", card |-> "none", now |-> 0, total |-> 0, id |-> 0]
Unreleased == [state |-> "none", releasedAt |-> 0, claimedAt |-> 0]

WatchInit ==
    /\ watchTime = 1
    /\ lastBeat = 0
    /\ seconds = [kind \in {"youtube", "auto-mining"} |-> 0]
    /\ videos = {} /\ videoPower = {}
    /\ card = [g \in Cards |-> Unreleased]
    /\ cardItem = [g \in Cards |-> "none"]
    /\ engineRate = 0
    /\ watchCall = [k \in WatchCalls |-> WatchIdle]
    /\ beats = {}
    /\ cardClaims = [g \in Cards |-> 0]
    /\ syncMissed = FALSE
    /\ watchCrossed = FALSE
    /\ watchAsks = 0

\* What is younger than PowerLife: what mines, and what counts against a limit.
Young(at) == at + PowerLife > watchTime
ClaimedLately == {g \in Cards : card[g].state = "claimed" /\ Young(card[g].claimedAt)}
VideosLately == {v \in videos : Young(v.at)}

\* syncUserBaseHashRate: racks, video powers and claimed cards are summed up.
HashRate == Cardinality({g \in Cards : cardItem[g] = "rack"})
          + Cardinality({v \in videoPower : Young(v.at)})
          + Cardinality(ClaimedLately)

WatchTick ==
    /\ watchTime < MaxWatchTime
    /\ watchTime' = watchTime + 1
    /\ UNCHANGED <<lastBeat, seconds, videos, videoPower, card, cardItem, engineRate, watchCall, beats,
                   cardClaims, syncMissed, watchCrossed, watchAsks>>

\* A request begins; every one but a claim of a video looks at the clock now.
Arrives(k, pc, kind, g) ==
    /\ watchCall[k].pc = "idle"
    /\ watchCrossed' = (watchCrossed \/ \E other \in WatchCalls : watchCall[other].pc # "idle")
    /\ watchAsks < IF watchCrossed' THEN MaxWatchCrossedAsks ELSE MaxWatchAsks
    /\ watchAsks' = watchAsks + 1
    /\ watchCall' = [watchCall EXCEPT ![k] = [WatchIdle EXCEPT !.pc = pc, !.kind = kind, !.card = g,
                                                               !.now = watchTime, !.id = watchAsks']]
    /\ UNCHANGED <<watchTime, lastBeat, seconds, videos, videoPower, card, engineRate, beats, cardClaims,
                   syncMissed>>

AskWatch(k, pc, kind, g) == Arrives(k, pc, kind, g) /\ UNCHANGED cardItem

\* A statement that only reads: the request goes on, or ends without a trace.
Judge(k, from, passes, to) ==
    /\ watchCall[k].pc = from
    /\ watchCall' = [watchCall EXCEPT ![k] = IF passes THEN [@ EXCEPT !.pc = to] ELSE WatchIdle]
    /\ UNCHANGED <<watchTime, lastBeat, seconds, videos, videoPower, card, cardItem, engineRate, beats,
                   cardClaims, syncMissed, watchCrossed, watchAsks>>

-----------------------------------------------------------------------------
(* processHeartbeat                                                         *)

Throttled(k) == lastBeat # 0 /\ watchCall[k].now - lastBeat < BeatGap
NotThrottledAcross(k) == ~(watchCall[k].kind = "youtube" /\ Throttled(k))
NotThrottled(k) == ~Throttled(k)
ReadBeat(k) == Judge(k, "beat", NotThrottled(k), "count")

CountBeat(k) ==
    LET c == watchCall[k]
    IN  /\ c.pc = "count"
        /\ lastBeat' = c.now
        /\ seconds' = [seconds EXCEPT ![c.kind] = @ + BeatSeconds]
        /\ beats' = beats \cup {c.now}
        /\ watchCall' = [watchCall EXCEPT ![k] = WatchIdle]
        /\ UNCHANGED <<watchTime, videos, videoPower, card, cardItem, engineRate, cardClaims, syncMissed,
                       watchCrossed, watchAsks>>

-----------------------------------------------------------------------------
(* claimReward of the video page                                            *)

ReadVideoSeconds(k) == Judge(k, "video", seconds["youtube"] >= VideoPrice, "videoLimit")
ReadVideoLimit(k) == Judge(k, "videoLimit", Cardinality(VideosLately) < VideoLimit, "buyVideo")

BuyVideo(k) ==
    LET power == {[id |-> watchCall[k].id, at |-> watchTime]}
    IN  /\ watchCall[k].pc = "buyVideo"
        /\ videoPower' = videoPower \cup power
        /\ videos' = videos \cup power
        /\ seconds' = [seconds EXCEPT !["youtube"] = @ - VideoPrice]
        /\ watchCall' = [watchCall EXCEPT ![k].pc = "sync"]
        /\ UNCHANGED <<watchTime, lastBeat, card, cardItem, engineRate, beats, cardClaims, syncMissed,
                       watchCrossed, watchAsks>>

-----------------------------------------------------------------------------
(* getAvailableGPUsHandler: a card is released when none is free, the last  *)
(* is old enough and the seconds are there.                                 *)

FreeCards == {g \in Cards : card[g].state = "free"}

FindFree(k) == Judge(k, "free", FreeCards = {}, "last")
ReadLast(k) ==
    Judge(k, "last", \A g \in Cards : card[g].state # "none" => card[g].releasedAt + CardGap <= watchTime,
          "releaseSeconds")
ReadReleaseSeconds(k) == Judge(k, "releaseSeconds", seconds["auto-mining"] >= CardPrice, "release")

\* autoMiningGpu.create, for the reward that is active.
Release(k, g) ==
    /\ watchCall[k].pc = "release"
    /\ card[g].state = "none"
    /\ card' = [card EXCEPT ![g] = [state |-> "free", releasedAt |-> watchTime, claimedAt |-> 0]]
    /\ watchCall' = [watchCall EXCEPT ![k] = WatchIdle]
    /\ UNCHANGED <<watchTime, lastBeat, seconds, videos, videoPower, cardItem, engineRate, beats,
                   cardClaims, syncMissed, watchCrossed, watchAsks>>

-----------------------------------------------------------------------------
(* claimGPUHandler                                                          *)

FindCard(k) == Judge(k, "card", card[watchCall[k].card].state = "free", "cardLimit")
ReadCardLimit(k) == Judge(k, "cardLimit", Cardinality(ClaimedLately) < CardLimit, "cardSeconds")
ReadCardSeconds(k) == Judge(k, "cardSeconds", seconds["auto-mining"] >= CardPrice, "buyCard")

BuyCard(k) ==
    LET g == watchCall[k].card
    IN  /\ watchCall[k].pc = "buyCard"
        /\ card' = [card EXCEPT ![g].state = "claimed", ![g].claimedAt = watchCall[k].now]
        /\ cardItem' = [cardItem EXCEPT ![g] = "timed"]
        /\ cardClaims' = [cardClaims EXCEPT ![g] = @ + 1]
        /\ seconds' = [seconds EXCEPT !["auto-mining"] = @ - CardPrice]
        /\ watchCall' = [watchCall EXCEPT ![k].pc = "sync"]
        /\ UNCHANGED <<watchTime, lastBeat, videos, videoPower, engineRate, beats, syncMissed, watchCrossed,
                       watchAsks>>

-----------------------------------------------------------------------------
(* Both claims end by reading the rate and assigning it to the engine.      *)

Sync(k) ==
    /\ watchCall[k].pc = "sync"
    /\ watchCall' = [watchCall EXCEPT ![k].pc = "assign", ![k].total = HashRate]
    /\ UNCHANGED <<watchTime, lastBeat, seconds, videos, videoPower, card, cardItem, engineRate, beats,
                   cardClaims, syncMissed, watchCrossed, watchAsks>>

Assign(k) ==
    /\ watchCall[k].pc = "assign"
    /\ engineRate' = watchCall[k].total
    /\ syncMissed' = FALSE
    /\ watchCall' = [watchCall EXCEPT ![k] = WatchIdle]
    /\ UNCHANGED <<watchTime, lastBeat, seconds, videos, videoPower, card, cardItem, beats, cardClaims,
                   watchCrossed, watchAsks>>

\* A request installs the card's machine or takes it out again; a rack has no term, nor
\* has the item that comes back from one.  Once committed it ends as a claim does.
MoveMachine(k, g) ==
    /\ Arrives(k, "sync", "auto-mining", g)
    /\ \/ cardItem[g] \in {"timed", "lasting"} /\ cardItem' = [cardItem EXCEPT ![g] = "rack"]
       \/ cardItem[g] = "rack" /\ cardItem' = [cardItem EXCEPT ![g] = "lasting"]

\* The timer of gamePowerCleanup.
CleanUp ==
    LET over == {g \in Cards : cardItem[g] = "timed" /\ ~Young(card[g].claimedAt)}
    IN  /\ over # {} \/ \E v \in videoPower : ~Young(v.at)
        /\ cardItem' = [g \in Cards |-> IF g \in over THEN "none" ELSE cardItem[g]]
        /\ videoPower' = {v \in videoPower : Young(v.at)}
        /\ UNCHANGED <<watchTime, lastBeat, seconds, videos, card, engineRate, watchCall, beats, cardClaims,
                       syncMissed, watchCrossed, watchAsks>>

\* A statement throws: what has committed stays, though the engine may not be told of it.
WatchThrows(k) ==
    /\ watchCall[k].pc # "idle"
    /\ watchCall' = [watchCall EXCEPT ![k] = WatchIdle]
    /\ syncMissed' = (syncMissed \/ watchCall[k].pc \in {"sync", "assign"})
    /\ UNCHANGED <<watchTime, lastBeat, seconds, videos, videoPower, card, cardItem, engineRate, beats,
                   cardClaims, watchCrossed, watchAsks>>

\* The process stops and starts; the engine loads the rate when the miner joins.
WatchRestart ==
    /\ \E k \in WatchCalls : watchCall[k].pc # "idle"
    /\ watchCall' = [k \in WatchCalls |-> WatchIdle]
    /\ engineRate' = HashRate
    /\ syncMissed' = FALSE
    /\ UNCHANGED <<watchTime, lastBeat, seconds, videos, videoPower, card, cardItem, beats, cardClaims,
                   watchCrossed, watchAsks>>

WatchStep(k) ==
    \/ \E kind \in DOMAIN seconds : AskWatch(k, "beat", kind, "none")
    \/ AskWatch(k, "video", "youtube", "none")
    \/ AskWatch(k, "free", "auto-mining", "none")
    \/ \E g \in Cards : card[g].state # "none" /\ AskWatch(k, "card", "auto-mining", g)
    \/ \E g \in Cards : MoveMachine(k, g)
    \/ ReadBeat(k) \/ CountBeat(k)
    \/ ReadVideoSeconds(k) \/ ReadVideoLimit(k) \/ BuyVideo(k)
    \/ FindFree(k) \/ ReadLast(k) \/ ReadReleaseSeconds(k) \/ \E g \in Cards : Release(k, g)
    \/ FindCard(k) \/ ReadCardLimit(k) \/ ReadCardSeconds(k) \/ BuyCard(k)
    \/ Sync(k) \/ Assign(k) \/ WatchThrows(k)

WatchNext ==
    \/ WatchTick \/ CleanUp \/ WatchRestart
    \/ \E k \in WatchCalls : WatchStep(k)

WatchSpec == WatchInit /\ [][WatchNext]_watchVars

-----------------------------------------------------------------------------
WatchPc == {"idle", "beat", "count", "video", "videoLimit", "buyVideo", "free", "last", "releaseSeconds",
            "release", "card", "cardLimit", "cardSeconds", "buyCard", "sync", "assign"}

(* Rows, balances and requests hold values of their kind.                   *)
WatchTypeOK ==
    /\ watchTime \in Nat /\ lastBeat \in Nat /\ engineRate \in Nat /\ watchAsks \in Nat
    /\ seconds \in [{"youtube", "auto-mining"} -> Int]
    /\ videos \in SUBSET [id : Nat, at : Nat]
    /\ videoPower \in SUBSET [id : Nat, at : Nat]
    /\ card \in [Cards -> [state : {"none", "free", "claimed"}, releasedAt : Nat, claimedAt : Nat]]
    /\ cardItem \in [Cards -> {"none", "timed", "lasting", "rack"}]
    /\ watchCall \in [WatchCalls -> [pc : WatchPc, kind : {"youtube", "auto-mining"}, now : Nat,
                                     card : Cards \cup {"none"}, total : Nat, id : Nat]]
    /\ beats \in SUBSET Nat
    /\ cardClaims \in [Cards -> Nat]
    /\ syncMissed \in BOOLEAN /\ watchCrossed \in BOOLEAN

(* The seconds of both balances together never exceed what the clock allows *)
(* at one heartbeat a gap, though two kinds of page send them, unless       *)
(* requests were in flight together.                                        *)
BeatsApart ==
    ~watchCrossed => \A s \in beats : \A t \in beats \ {s} : s - t >= BeatGap \/ t - s >= BeatGap

(* Nothing is bought with seconds that are not there, unless requests were  *)
(* in flight together.                                                      *)
SecondsCoverClaims == ~watchCrossed => \A kind \in DOMAIN seconds : seconds[kind] >= 0

(* One card waits at a time and each is claimed once, unless requests were  *)
(* in flight together.                                                      *)
CardsOneAtATime ==
    ~watchCrossed => Cardinality(FreeCards) <= 1 /\ \A g \in Cards : cardClaims[g] <= 1

(* In any PowerLife no more is claimed than the limits admit, unless        *)
(* requests were in flight together.                                        *)
ClaimsWithinLimits ==
    ~watchCrossed => Cardinality(VideosLately) <= VideoLimit /\ Cardinality(ClaimedLately) <= CardLimit

(* The engine mines with every claim and machine that mines, once the       *)
(* request has passed the rate on, unless that last step threw (nothing     *)
(* repeats it) or requests were in flight together (the older of two totals *)
(* may be assigned last).                                                   *)
RateIncludesClaims ==
    \/ watchCrossed \/ syncMissed
    \/ \E k \in WatchCalls : watchCall[k].pc \in {"sync", "assign"}
    \/ engineRate >= HashRate

(* Watched seconds are earned apart and cover what was claimed, within the  *)
(* limits of a day, and the rate mined with includes the claims.            *)
WatchSafe ==
    /\ WatchTypeOK /\ BeatsApart /\ SecondsCoverClaims /\ CardsOneAtATime
    /\ ClaimsWithinLimits /\ RateIncludesClaims
=============================================================================
