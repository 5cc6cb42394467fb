---------------------------- MODULE Play_proofs -----------------------------
(***************************************************************************)
(* The rewarded actions: the faucet, the shortlink, the watched seconds    *)
(* and the games, each with its own state and its own theorem, for any     *)
(* constants; and the match board, of any size and with any symbols, which *)
(* cells fall on in columns and moves leave full and without three in line.*)
(***************************************************************************)
EXTENDS MCPlay, Sums, FiniteSetTheorems, TLAPS

-----------------------------------------------------------------------------
(* Claims of the faucet are a cooldown apart, for any number of requests.    *)

\* A request past its cooldown has a day of the clock; one past the partner's page has
\* a visit that had lasted long enough when the claim began.
VisitJudged ==
    /\ faucetTime <= MaxFaucetTime
    /\ \A k \in FaucetCalls :
            LET c == faucetCall[k]
            IN  /\ c.now <= faucetTime
                /\ c.pc \in {"visit", "grant"} => c.day <= DayOf(faucetTime)
                /\ c.pc = "grant" => c.visit > 0 /\ c.visit + PartnerWait <= c.now

\* While no two requests were in flight together there is one at most, ...
LoneFaucetCall ==
    faucetCrossed \/ \A k, other \in FaucetCalls :
        faucetCall[k].pc = "idle" \/ faucetCall[other].pc = "idle" \/ k = other

\* ... what it read of the row is still so, and what it was judged by too, ...
RowReadStands ==
    faucetCrossed \/ \A k \in FaucetCalls :
        LET c == faucetCall[k]
        IN  /\ c.pc \in {"normalize", "visit", "grant"} => c.row = faucetRow
            /\ c.pc \in {"visit", "grant"} => /\ CooledDown(k, c.row)
                                              /\ c.row.exists => c.row.day = c.day
            /\ c.pc = "grant" => c.visit > c.row.claimedAt

\* ... and the row has the last of the claims and the last of their days.
RowIsLastGrant ==
    faucetCrossed \/ /\ \A g \in grants : g.at <= faucetRow.claimedAt /\ g.day <= faucetRow.day
                     /\ faucetRow.exists \/ grants = {}
                     /\ faucetRow.day <= DayOf(faucetTime)

FaucetInv ==
    /\ FaucetSafe /\ IsFiniteSet(grants)
    /\ VisitJudged /\ LoneFaucetCall /\ RowReadStands /\ RowIsLastGrant

LEMMA DaysFollow ==
    ASSUME NEW t \in Nat, NEW s \in Nat, t <= s
    PROVE  DayOf(t) \in Nat /\ DayOf(s) \in Nat /\ DayOf(t) <= DayOf(s)
<1>1. DayLength \in Nat \ {0}
    BY FaucetAssumption
<1>2. (t \div DayLength) \in Nat /\ (s \div DayLength) \in Nat
    BY <1>1
<1>3. (t \div DayLength) <= (s \div DayLength)
    BY <1>1
<1> QED
    BY <1>2, <1>3 DEF DayOf

LEMMA FaucetDayIsNat == \A t \in Nat : DayOf(t) \in Nat
BY DaysFollow

FaucetRequests == [pc : {"idle", "read", "normalize", "visit", "grant"},
                   claims : BOOLEAN, now : Nat, row : FaucetRows, day : Nat, visit : Nat]

LEMMA FaucetKinds ==
    ASSUME FaucetTypeOK
    PROVE  /\ faucetTime \in Nat /\ DayOf(faucetTime) \in Nat /\ faucetRow \in FaucetRows
           /\ faucetCall \in [FaucetCalls -> FaucetRequests]
           /\ grants \subseteq [at : Nat, visit : Nat, day : Nat]
           /\ faucetCrossed \in BOOLEAN
BY FaucetDayIsNat DEF FaucetTypeOK, FaucetRequests

\* What happens to requests alone leaves the rest of the types as they were.
LEMMA FaucetRequestTyped ==
    ASSUME FaucetTypeOK, faucetRow' \in FaucetRows, NEW k \in FaucetCalls, NEW c \in FaucetRequests,
           faucetCall' = [faucetCall EXCEPT ![k] = c],
           UNCHANGED <<faucetTime, visits, rewardOn>>,
           grants' \subseteq [at : Nat, visit : Nat, day : Nat],
           faucetAsks' \in Nat, faucetCrossed' \in BOOLEAN
    PROVE  FaucetTypeOK'
BY DEF FaucetTypeOK, FaucetRequests

LEMMA FaucetIdleTyped == FaucetIdle \in FaucetRequests /\ FaucetIdle.pc = "idle" /\ FaucetIdle.now = 0
BY DEF FaucetIdle, NoRow, FaucetRows, FaucetRequests

LEMMA FaucetInitially == FaucetInit => FaucetInv
<1> SUFFICES ASSUME FaucetInit PROVE FaucetInv
    OBVIOUS
<1>1. FaucetTypeOK
    BY DEF FaucetInit, FaucetTypeOK, FaucetIdle, NoRow, FaucetRows
<1>2. ClaimsApart /\ VisitedLongEnough
    BY DEF FaucetInit, ClaimsApart, VisitedLongEnough
<1>3. {g \in grants : g.day = faucetRow.day} = {} /\ IsFiniteSet(grants)
    BY FS_EmptySet DEF FaucetInit
<1>4. FaucetCountsToday
    BY <1>3, FS_EmptySet DEF FaucetInit, FaucetCountsToday, NoRow
<1>5. VisitJudged /\ LoneFaucetCall /\ RowReadStands
    BY FaucetAssumption DEF FaucetInit, VisitJudged, LoneFaucetCall, RowReadStands, FaucetIdle
<1>6. RowIsLastGrant
    BY FaucetDayIsNat DEF FaucetInit, RowIsLastGrant, NoRow
<1> QED
    BY <1>1, <1>2, <1>3, <1>4, <1>5, <1>6 DEF FaucetInv, FaucetSafe

\* A step that leaves the row, the grants and the marks alone and gives at most one
\* request a new position, which needs no more than it had.
LEMMA FaucetTickKeeps == ASSUME FaucetInv, FaucetTick PROVE FaucetInv'
<1> USE FaucetAssumption DEF FaucetInv, FaucetSafe
<1>1. FaucetTypeOK'
    BY DEF FaucetTick, FaucetTypeOK
<1>2. DayOf(faucetTime) \in Nat /\ DayOf(faucetTime)' \in Nat /\ DayOf(faucetTime) <= DayOf(faucetTime)'
    BY DaysFollow DEF FaucetTick, FaucetTypeOK
<1>3. ClaimsApart' /\ FaucetCountsToday' /\ VisitedLongEnough' /\ IsFiniteSet(grants)' /\ LoneFaucetCall'
    BY DEF FaucetTick, ClaimsApart, FaucetCountsToday, VisitedLongEnough, LoneFaucetCall
<1>4. VisitJudged'
    BY <1>2 DEF FaucetTick, VisitJudged, FaucetTypeOK, FaucetRows
<1>5. RowReadStands'
    BY DEF FaucetTick, RowReadStands, CooledDown
<1>6. RowIsLastGrant'
    BY <1>2 DEF FaucetTick, RowIsLastGrant, FaucetTypeOK, FaucetRows
<1> QED
    BY <1>1, <1>3, <1>4, <1>5, <1>6

LEMMA FaucetWorldKeeps == ASSUME FaucetInv, SwitchReward \/ StartPartnerVisit PROVE FaucetInv'
<1> USE FaucetAssumption DEF FaucetInv, FaucetSafe
<1>1. FaucetTypeOK'
    BY DEF SwitchReward, StartPartnerVisit, FaucetTypeOK
<1>2. UNCHANGED <<faucetTime, faucetRow, faucetCall, grants, faucetCrossed>>
    BY DEF SwitchReward, StartPartnerVisit
<1>3. ClaimsApart' /\ FaucetCountsToday' /\ VisitedLongEnough' /\ IsFiniteSet(grants)' /\ LoneFaucetCall'
    BY <1>2 DEF ClaimsApart, FaucetCountsToday, VisitedLongEnough, LoneFaucetCall
<1>4. VisitJudged' /\ RowReadStands' /\ RowIsLastGrant'
    BY <1>2 DEF VisitJudged, RowReadStands, RowIsLastGrant, CooledDown
<1> QED
    BY <1>1, <1>3, <1>4

LEMMA AskFaucetKeeps ==
    ASSUME FaucetInv, NEW k \in FaucetCalls, NEW claims \in BOOLEAN, AskFaucet(k, claims)
    PROVE  FaucetInv'
<1> USE FaucetAssumption DEF FaucetInv, FaucetSafe
<1> DEFINE asked == [FaucetIdle EXCEPT !.pc = "read", !.claims = claims,
                                       !.now = IF claims THEN faucetTime ELSE 0]
<1>0. /\ asked.pc = "read" /\ asked.now <= faucetTime
      /\ faucetCall' = [faucetCall EXCEPT ![k] = asked]
      /\ faucetCrossed' = (faucetCrossed \/ \E other \in FaucetCalls : faucetCall[other].pc # "idle")
      /\ UNCHANGED <<faucetTime, faucetRow, visits, grants, rewardOn>>
      /\ faucetAsks' = faucetAsks + 1
    BY DEF AskFaucet, FaucetIdle, FaucetTypeOK
<1>t. asked \in FaucetRequests
    BY FaucetKinds DEF FaucetIdle, NoRow, FaucetRows, FaucetRequests
<1> HIDE DEF asked
<1>1. FaucetTypeOK'
    <2>1. faucetAsks' \in Nat /\ faucetCrossed' \in BOOLEAN
        BY <1>0 DEF FaucetTypeOK
    <2> QED
        BY <2>1, <1>0, <1>t, FaucetKinds, FaucetRequestTyped
<1>2. faucetCall'[k] = asked /\ \A other \in FaucetCalls \ {k} : faucetCall'[other] = faucetCall[other]
    BY <1>0, FaucetKinds
<1>3. ClaimsApart' /\ FaucetCountsToday' /\ VisitedLongEnough' /\ IsFiniteSet(grants)'
    BY <1>0 DEF ClaimsApart, FaucetCountsToday, VisitedLongEnough
<1>4. LoneFaucetCall'
    BY <1>0, <1>2 DEF LoneFaucetCall
<1>5. VisitJudged'
    BY <1>0, <1>2 DEF VisitJudged
<1>6. RowReadStands'
    BY <1>0, <1>2 DEF RowReadStands, CooledDown
<1>7. RowIsLastGrant'
    BY <1>0 DEF RowIsLastGrant
<1> QED
    BY <1>1, <1>3, <1>4, <1>5, <1>6, <1>7

\* A request that reads, is refused, or throws.
LEMMA FaucetReadsKeep ==
    ASSUME FaucetInv, NEW k \in FaucetCalls, ReadFaucetRow(k) \/ ReadVisit(k) \/ FaucetThrows(k)
    PROVE  FaucetInv'
<1> USE FaucetAssumption DEF FaucetInv, FaucetSafe
<1>0. /\ faucetCall' = [faucetCall EXCEPT ![k] = faucetCall'[k]]
      /\ UNCHANGED <<faucetTime, faucetRow, visits, grants, rewardOn, faucetCrossed, faucetAsks>>
      /\ faucetCall[k].pc # "idle"
    BY DEF ReadFaucetRow, ReadVisit, FaucetThrows, FaucetTypeOK
<1>1. \A other \in FaucetCalls \ {k} : faucetCall'[other] = faucetCall[other]
    BY <1>0 DEF FaucetTypeOK
<1>2. \/ faucetCall'[k] = FaucetIdle
      \/ /\ faucetCall[k].pc = "read"
         /\ faucetCall'[k] = [faucetCall[k] EXCEPT !.pc = "normalize", !.row = faucetRow]
      \/ /\ faucetCall[k].pc = "visit" /\ PartnerReady(k)
         /\ faucetCall'[k] = [faucetCall[k] EXCEPT !.pc = "grant", !.visit = visits[faucetCall[k].day]]
    BY DEF ReadFaucetRow, ReadVisit, FaucetThrows, FaucetTypeOK
<1>3. faucetCall[k].pc = "visit" => visits[faucetCall[k].day] \in Nat
    <2> SUFFICES ASSUME faucetCall[k].pc = "visit" PROVE visits[faucetCall[k].day] \in Nat
        OBVIOUS
    <2>1. DayOf(faucetTime) <= DayOf(MaxFaucetTime) /\ DayOf(MaxFaucetTime) \in Nat
        BY DaysFollow, FaucetKinds DEF VisitJudged
    <2>2. faucetCall[k].day \in Nat /\ faucetCall[k].day <= DayOf(faucetTime)
        BY FaucetKinds DEF VisitJudged, FaucetRequests
    <2>3. faucetCall[k].day \in FaucetDays
        BY <2>1, <2>2, FaucetKinds DEF FaucetDays
    <2> QED
        BY <2>3 DEF FaucetTypeOK
<1>4. faucetCall'[k] \in FaucetRequests
    BY <1>2, <1>3, FaucetKinds, FaucetIdleTyped DEF FaucetRequests
<1>5. FaucetTypeOK'
    BY <1>0, <1>4, FaucetKinds, FaucetRequestTyped DEF FaucetTypeOK
<1>6. ClaimsApart' /\ FaucetCountsToday' /\ VisitedLongEnough' /\ IsFiniteSet(grants)' /\ RowIsLastGrant'
    BY <1>0 DEF ClaimsApart, FaucetCountsToday, VisitedLongEnough, RowIsLastGrant
<1>7. LoneFaucetCall'
    BY <1>0, <1>1 DEF LoneFaucetCall
<1>8. faucetCall[k] \in FaucetRequests
    BY FaucetKinds
<1>9. /\ faucetCall'[k].now <= faucetTime
      /\ faucetCall'[k].pc \in {"visit", "grant"} => faucetCall'[k].day <= DayOf(faucetTime)
      /\ faucetCall'[k].pc = "grant" => /\ faucetCall'[k].visit > 0
                                        /\ faucetCall'[k].visit + PartnerWait <= faucetCall'[k].now
      /\ faucetCall'[k].pc \in {"normalize", "visit", "grant"} /\ ~faucetCrossed
            => faucetCall'[k].row = faucetRow
      /\ faucetCall'[k].pc \in {"visit", "grant"} /\ ~faucetCrossed =>
            /\ faucetRow.claimedAt = 0 \/ faucetCall'[k].now >= faucetRow.claimedAt + Cooldown
            /\ faucetRow.exists => faucetRow.day = faucetCall'[k].day
      /\ faucetCall'[k].pc = "grant" /\ ~faucetCrossed => faucetCall'[k].visit > faucetRow.claimedAt
    <2>1. CASE faucetCall'[k] = FaucetIdle
        BY <2>1, FaucetIdleTyped, FaucetKinds
    <2>2. CASE /\ faucetCall[k].pc = "read"
               /\ faucetCall'[k] = [faucetCall[k] EXCEPT !.pc = "normalize", !.row = faucetRow]
        BY <2>2, <1>8 DEF VisitJudged, FaucetRequests
    <2>3. CASE /\ faucetCall[k].pc = "visit" /\ PartnerReady(k)
               /\ faucetCall'[k] = [faucetCall[k] EXCEPT !.pc = "grant", !.visit = visits[faucetCall[k].day]]
        BY <2>3, <1>3, <1>8 DEF VisitJudged, RowReadStands, CooledDown, PartnerReady, FaucetRequests
    <2> QED
        BY <2>1, <2>2, <2>3, <1>2
<1>10. VisitJudged'
    BY <1>0, <1>1, <1>9 DEF VisitJudged
<1>11. RowReadStands'
    BY <1>0, <1>1, <1>9 DEF RowReadStands, CooledDown
<1> QED
    BY <1>5, <1>6, <1>7, <1>10, <1>11

LEMMA NormalizeKeeps == ASSUME FaucetInv, NEW k \in FaucetCalls, Normalize(k) PROVE FaucetInv'
<1> USE FaucetAssumption DEF FaucetInv, FaucetSafe
<1> DEFINE c == faucetCall[k]
           today == DayOf(faucetTime)
           stale == c.row.exists /\ c.row.day # today
           row == IF stale THEN faucetRow' ELSE c.row
<1>k. /\ c \in FaucetRequests /\ faucetRow \in FaucetRows /\ today \in Nat /\ faucetTime \in Nat
      /\ c.row \in FaucetRows /\ c.now \in Nat /\ faucetCrossed \in BOOLEAN
      /\ grants \subseteq [at : Nat, visit : Nat, day : Nat]
    BY FaucetKinds DEF FaucetRequests
<1>0. /\ c.pc = "normalize"
      /\ faucetRow' = IF stale THEN [faucetRow EXCEPT !.total = 0, !.day = today] ELSE faucetRow
      /\ faucetCall' = [faucetCall EXCEPT ![k] = AfterNormalize(k, row, today)]
      /\ UNCHANGED <<faucetTime, visits, grants, faucetCrossed, rewardOn, faucetAsks>>
    BY DEF Normalize
<1>2. faucetRow' \in FaucetRows /\ row \in FaucetRows
    BY <1>0, <1>k DEF FaucetRows
<1>3. /\ \A other \in FaucetCalls \ {k} : faucetCall'[other] = faucetCall[other]
      /\ faucetCall'[k] = AfterNormalize(k, row, today)
      /\ \/ faucetCall'[k] = FaucetIdle
         \/ /\ CooledDown(k, row)
            /\ faucetCall'[k] = [c EXCEPT !.pc = "visit", !.row = row, !.day = today]
    BY <1>0, FaucetKinds DEF AfterNormalize
<1>8. faucetCrossed \/ c.row = faucetRow
    BY <1>0 DEF RowReadStands
<1>9. faucetCrossed \/ /\ faucetRow' = row /\ row.claimedAt = faucetRow.claimedAt
                       /\ row.exists = faucetRow.exists /\ (row.exists => row.day = today)
                       /\ faucetRow.day <= row.day /\ row.day <= today
    <2> SUFFICES ASSUME ~faucetCrossed
                 PROVE  /\ faucetRow' = row /\ row.claimedAt = faucetRow.claimedAt
                        /\ row.exists = faucetRow.exists /\ (row.exists => row.day = today)
                        /\ faucetRow.day <= row.day /\ row.day <= today
        OBVIOUS
    <2>1. c.row = faucetRow /\ faucetRow.day <= today /\ faucetRow.day \in Nat
        BY <1>8, <1>k DEF RowIsLastGrant, FaucetRows
    <2>2. CASE stale
        <3>1. row = [faucetRow EXCEPT !.total = 0, !.day = today]
            BY <2>2, <1>0
        <3>2. faucetRow' = row
            BY <2>2
        <3>3. row.claimedAt = faucetRow.claimedAt /\ row.exists = faucetRow.exists /\ row.day = today
            BY <3>1, <1>k DEF FaucetRows
        <3> HIDE DEF row
        <3> QED
            BY <3>2, <3>3, <2>1, <1>k
    <2>3. CASE ~stale
        <3>1. row = faucetRow /\ faucetRow' = faucetRow
            BY <2>3, <2>1, <1>0
        <3>2. faucetRow.exists => faucetRow.day = today
            BY <2>3, <2>1
        <3> HIDE DEF row
        <3> QED
            BY <3>1, <3>2, <2>1, <1>k
    <2> QED
        BY <2>2, <2>3
<1>13. FaucetCountsToday'
    <2>1. CASE faucetCrossed \/ ~stale
        BY <2>1, <1>0 DEF FaucetCountsToday
    <2>2. CASE ~faucetCrossed /\ stale
        <3>1. faucetRow.day < today
            BY <2>2, <1>k, <1>8 DEF RowIsLastGrant, FaucetRows
        <3>2. {g \in grants : g.day = today} = {}
            BY <2>2, <3>1, <1>k DEF RowIsLastGrant, FaucetRows
        <3>3. faucetRow'.day = today /\ faucetRow'.total = 0 /\ grants' = grants
            BY <2>2, <1>0, <1>k DEF FaucetRows
        <3> QED
            BY <3>2, <3>3, FS_EmptySet DEF FaucetCountsToday
    <2> QED
        BY <2>1, <2>2
<1> HIDE DEF row, stale
<1>4. /\ AfterNormalize(k, row, today) \in FaucetRequests
      /\ faucetCall'[k].now <= faucetTime
      /\ faucetCall'[k].pc \in {"idle", "visit"}
      /\ faucetCall'[k].pc = "visit" => /\ faucetCall'[k].row = row /\ faucetCall'[k].day = today
                                        /\ row.claimedAt = 0 \/ faucetCall'[k].now >= row.claimedAt + Cooldown
    <2>1. CASE faucetCall'[k] = FaucetIdle
        BY <2>1, <1>3, <1>k, FaucetIdleTyped
    <2>2. CASE CooledDown(k, row) /\ faucetCall'[k] = [c EXCEPT !.pc = "visit", !.row = row, !.day = today]
        <3>1. c.now <= faucetTime
            BY DEF VisitJudged
        <3>2. /\ faucetCall'[k] \in FaucetRequests
              /\ faucetCall'[k].now = c.now /\ faucetCall'[k].pc = "visit"
              /\ faucetCall'[k].row = row /\ faucetCall'[k].day = today
            BY <2>2, <1>2, <1>k DEF FaucetRequests
        <3>3. row.claimedAt = 0 \/ c.now >= row.claimedAt + Cooldown
            BY <2>2 DEF CooledDown
        <3> QED
            BY <3>1, <3>2, <3>3, <1>3
    <2> QED
        BY <2>1, <2>2, <1>3
<1>t. FaucetTypeOK'
    BY <1>0, <1>2, <1>4, <1>k, FaucetRequestTyped DEF FaucetTypeOK
<1>5. ClaimsApart' /\ VisitedLongEnough' /\ IsFiniteSet(grants)'
    BY <1>0 DEF ClaimsApart, VisitedLongEnough
<1>6. LoneFaucetCall'
    BY <1>0, <1>3 DEF LoneFaucetCall
<1>7. VisitJudged'
    BY <1>0, <1>k, <1>3, <1>4 DEF VisitJudged
<1>11. RowIsLastGrant'
    <2> SUFFICES ASSUME ~faucetCrossed PROVE RowIsLastGrant'
        BY <1>0 DEF RowIsLastGrant
    <2>1. \A g \in grants : g.at \in Nat /\ g.day \in Nat
        BY <1>k
    <2>2. /\ faucetRow.day \in Nat /\ row.day \in Nat
        BY <1>2, <1>k DEF FaucetRows
    <2> QED
        BY <2>1, <2>2, <1>0, <1>k, <1>9 DEF RowIsLastGrant
<1>12. RowReadStands'
    <2> SUFFICES ASSUME ~faucetCrossed PROVE RowReadStands'
        BY <1>0 DEF RowReadStands
    <2>1. \A other \in FaucetCalls \ {k} : faucetCall'[other].pc = "idle"
        BY <1>0, <1>3 DEF LoneFaucetCall
    <2> QED
        BY <2>1, <1>0, <1>4, <1>9 DEF RowReadStands, CooledDown
<1> QED
    BY <1>t, <1>5, <1>6, <1>7, <1>11, <1>12, <1>13

LEMMA GrantKeeps == ASSUME FaucetInv, NEW k \in FaucetCalls, Grant(k) PROVE FaucetInv'
<1> USE FaucetAssumption DEF FaucetInv, FaucetSafe
<1> DEFINE c == faucetCall[k]
           grant == [at |-> c.now, visit |-> c.visit, day |-> c.day]
<1>0. /\ c.pc = "grant" /\ c \in [pc : {"idle", "read", "normalize", "visit", "grant"},
                          claims : BOOLEAN, now : Nat, row : FaucetRows, day : Nat, visit : Nat]
      /\ faucetRow' = [exists |-> TRUE, claimedAt |-> c.now, total |-> faucetRow.total + 1, day |-> c.day]
      /\ grants' = grants \cup {grant}
      /\ faucetCall' = [faucetCall EXCEPT ![k] = FaucetIdle]
      /\ UNCHANGED <<faucetTime, visits, faucetCrossed, rewardOn, faucetAsks>>
    BY DEF Grant, FaucetTypeOK
<1>1. faucetRow \in FaucetRows /\ faucetTime \in Nat /\ grants \subseteq [at : Nat, visit : Nat, day : Nat]
      /\ DayOf(faucetTime) \in Nat
    BY FaucetDayIsNat DEF FaucetTypeOK
<1>2. grant \in [at : Nat, visit : Nat, day : Nat]
    BY <1>0
<1>3. FaucetTypeOK'
    BY <1>0, <1>1, <1>2 DEF FaucetTypeOK, FaucetIdle, NoRow, FaucetRows
<1>4. \A other \in FaucetCalls : faucetCall'[other] = IF other = k THEN FaucetIdle ELSE faucetCall[other]
    BY <1>0 DEF FaucetTypeOK
<1>5. LoneFaucetCall'
    BY <1>0, <1>4 DEF LoneFaucetCall, FaucetIdle
<1>6. VisitJudged'
    BY <1>0, <1>1, <1>4 DEF VisitJudged, FaucetIdle
<1>7. VisitedLongEnough'
    BY <1>0 DEF VisitedLongEnough, VisitJudged
<1>8. IsFiniteSet(grants)'
    BY <1>0, FS_AddElement
<1>9. RowReadStands'
    BY <1>0, <1>4 DEF RowReadStands, LoneFaucetCall, FaucetIdle
<1>10. faucetCrossed \/ /\ \A g \in grants : c.now >= g.at + Cooldown /\ c.visit > g.at /\ g.day <= c.day
                        /\ faucetRow.exists => faucetRow.day = c.day
                        /\ faucetRow.exists \/ grants = {}
    <2> SUFFICES ASSUME ~faucetCrossed
                 PROVE  /\ \A g \in grants : c.now >= g.at + Cooldown /\ c.visit > g.at /\ g.day <= c.day
                        /\ faucetRow.exists => faucetRow.day = c.day
                        /\ faucetRow.exists \/ grants = {}
        OBVIOUS
    <2>1. /\ c.row = faucetRow /\ c.visit > faucetRow.claimedAt
          /\ faucetRow.claimedAt = 0 \/ c.now >= faucetRow.claimedAt + Cooldown
          /\ faucetRow.exists => faucetRow.day = c.day
        BY <1>0 DEF RowReadStands, CooledDown
    <2>2. faucetRow.exists \/ grants = {}
        BY DEF RowIsLastGrant
    <2>3. \A g \in grants : /\ g.at <= faucetRow.claimedAt /\ g.day <= faucetRow.day
                            /\ g.at > 0
        BY <1>1 DEF RowIsLastGrant, VisitedLongEnough
    <2> QED
        BY <2>1, <2>2, <2>3, <1>0, <1>1 DEF FaucetRows
<1>11. ClaimsApart'
    <2> SUFFICES ASSUME ~faucetCrossed, NEW g \in grants', NEW h \in grants' \ {g}
                 PROVE  \/ g.at >= h.at + Cooldown /\ g.visit > h.at
                        \/ h.at >= g.at + Cooldown /\ h.visit > g.at
        BY <1>0 DEF ClaimsApart
    <2>1. CASE g \in grants /\ h \in grants
        BY <2>1 DEF ClaimsApart
    <2>2. CASE g = grant
        BY <2>2, <1>0, <1>10
    <2>3. CASE h = grant
        BY <2>3, <1>0, <1>10
    <2> QED
        BY <2>1, <2>2, <2>3, <1>0
<1>12. RowIsLastGrant'
    BY <1>0, <1>1, <1>2, <1>10 DEF RowIsLastGrant, VisitJudged
<1>13. FaucetCountsToday'
    <2> SUFFICES ASSUME ~faucetCrossed
                 PROVE  faucetRow.total + 1 = Cardinality({g \in grants' : g.day = c.day})
        BY <1>0 DEF FaucetCountsToday
    <2> DEFINE before == {g \in grants : g.day = c.day}
    <2>1. {g \in grants' : g.day = c.day} = before \cup {grant}
        BY <1>0
    <2>2. grant \notin grants
        BY <1>0, <1>1, <1>10
    <2>3. IsFiniteSet(before)
        <3>1. before \subseteq grants
            OBVIOUS
        <3> QED
            BY <3>1, FS_Subset
    <2>4. faucetRow.total = Cardinality(before) /\ grant \notin before
        <3>1. CASE faucetRow.exists
            <4>1. faucetRow.day = c.day
                BY <3>1, <1>10
            <4>2. before = {g \in grants : g.day = faucetRow.day}
                BY <4>1
            <4> HIDE DEF before
            <4>3. faucetRow.total = Cardinality(before)
                BY <4>2 DEF FaucetCountsToday
            <4>4. grant \notin before
                BY <2>2 DEF before
            <4> QED
                BY <4>3, <4>4
        <3>2. CASE ~faucetRow.exists
            <4>1. before = {} /\ {g \in grants : g.day = faucetRow.day} = {}
                BY <3>2, <1>10
            <4> QED
                BY <4>1, <2>2 DEF FaucetCountsToday
        <3> QED
            BY <3>1, <3>2, <2>2
    <2> HIDE DEF before, grant
    <2>5. Cardinality(before \cup {grant}) = Cardinality(before) + 1
        BY <2>3, <2>4, FS_AddElement
    <2> QED
        BY <2>1, <2>4, <2>5
<1> QED
    BY <1>3, <1>5, <1>6, <1>7, <1>8, <1>9, <1>11, <1>12, <1>13

(* FaucetSafe for any cooldown, wait and length of a day, and any number of  *)
(* requests: a claim follows a visit that lasted, and unless requests        *)
(* overlapped claims are a cooldown apart and counted under their day.       *)
THEOREM FaucetHolds == FaucetSpec => []FaucetSafe
<1>1. FaucetInit => FaucetInv
    BY FaucetInitially
<1>2. FaucetInv /\ [FaucetNext]_faucetVars => FaucetInv'
    <2> SUFFICES ASSUME FaucetInv, [FaucetNext]_faucetVars PROVE FaucetInv'
        OBVIOUS
    <2>1. CASE FaucetTick
        BY <2>1, FaucetTickKeeps
    <2>2. CASE SwitchReward \/ StartPartnerVisit
        BY <2>2, FaucetWorldKeeps
    <2>3. ASSUME NEW k \in FaucetCalls, FaucetStep(k) PROVE FaucetInv'
        BY <2>3, AskFaucetKeeps, FaucetReadsKeep, NormalizeKeeps, GrantKeeps DEF FaucetStep
    <2>4. CASE UNCHANGED faucetVars
        BY <2>4 DEF faucetVars, FaucetInv, FaucetSafe, FaucetTypeOK, ClaimsApart, FaucetCountsToday,
                    VisitedLongEnough, VisitJudged, LoneFaucetCall, RowReadStands, RowIsLastGrant, CooledDown
    <2> QED
        BY <2>1, <2>2, <2>3, <2>4 DEF FaucetNext
<1>3. FaucetInv => FaucetSafe
    BY DEF FaucetInv
<1> QED
    BY <1>1, <1>2, <1>3, PTL DEF FaucetSpec

-----------------------------------------------------------------------------
(* A run of the shortlink takes its time and there is one a day, for any     *)
(* number of pages and requests.                                             *)

LinkRequests ==
    [pc : {"idle", "status", "start", "step", "resetStatus", "resetStart", "resetStep",
           "begin", "check", "advance"},
     page : LinkPages \cup {"none"}, step : Nat, taken : Nat, token : Nat, row : LinkRows,
     now : Nat, started : Nat]
PageStates == [taken : Nat, token : Nat, startedAt : Nat]
RunsOfLink == [day : Nat, steps : Nat, started : Nat, ended : Nat]
LinkDayOf(t) == t \div LinkDay

\* A token is made once: none is held that has yet to be made.
TokensMade ==
    /\ linkRow.token <= linkTokens
    /\ \A p \in LinkPages : linkPage[p].token <= linkTokens
    /\ \A k \in LinkCalls : linkCall[k].token <= linkTokens /\ linkCall[k].row.token <= linkTokens

\* Where the token of a row is the one a page or a request has, the steps accepted so far
\* have taken their time since the run was started, ...
Timed(row, taken, token, started) ==
    token # 0 /\ row.token = token => row.stepAt - started >= taken * StepWait
WalkTimed(row) ==
    /\ \A p \in LinkPages : Timed(row, linkPage[p].taken, linkPage[p].token, linkPage[p].startedAt)
    /\ \A k \in LinkCalls : Timed(row, linkCall[k].taken, linkCall[k].token, linkCall[k].started)

\* ... in the row as it is and as any request has read it.
StepsTimed == WalkTimed(linkRow) /\ \A k \in LinkCalls : WalkTimed(linkCall[k].row)

\* A request for a step has a token, and one that was checked passed the check.
StepsHaveTokens ==
    \A k \in LinkCalls :
        LET c == linkCall[k]
        IN  /\ c.now <= linkTime
            /\ c.pc \in {"step", "resetStep", "check", "advance"} => c.token # 0
            /\ c.pc = "advance" => TokenMatches(c) /\ SlowEnough(c)

\* While no two requests were in flight together there is one at most, ...
LoneLinkCall ==
    linkCrossed \/ \A k, other \in LinkCalls :
        linkCall[k].pc = "idle" \/ linkCall[other].pc = "idle" \/ k = other

\* ... what it goes by is still so, ...
LinkReadStands ==
    linkCrossed \/ \A k \in LinkCalls :
        LET c == linkCall[k]
        IN  /\ c.pc \in {"resetStatus", "resetStart", "resetStep"} =>
                  c.row.runs = linkRow.runs /\ c.row.completed = linkRow.completed
            /\ c.pc \in {"resetStep", "check", "advance"} =>
                  c.row.token = linkRow.token /\ c.row.stepAt = linkRow.stepAt
            /\ c.pc = "begin" => linkRow.runs = 0

\* ... and a user who may start has run on earlier days only, as had one with a token
\* by the day of its last step.
DaysDone ==
    linkCrossed \/
        /\ linkRow.stepAt <= linkTime
        /\ linkRow.runs = 0 => \A r \in linkRuns : r.day < LinkDayOf(linkTime)
        /\ linkRow.runs > 0 => \A r \in linkRuns : r.ended <= linkRow.completed
        /\ linkRow.token # 0 => \A r \in linkRuns : r.day < LinkDayOf(linkRow.stepAt)

DaysAreOfEnds == \A r \in linkRuns : r.day = LinkDayOf(r.ended)

LinkInv ==
    /\ LinkSafe /\ TokensMade /\ StepsTimed /\ StepsHaveTokens
    /\ LoneLinkCall /\ LinkReadStands /\ DaysDone /\ DaysAreOfEnds

LEMMA LinkDaysFollow ==
    ASSUME NEW t \in Nat, NEW s \in Nat, t <= s
    PROVE  LinkDayOf(t) \in Nat /\ LinkDayOf(s) \in Nat /\ LinkDayOf(t) <= LinkDayOf(s)
<1>1. LinkDay \in Nat \ {0}
    BY LinkAssumption
<1>2. (t \div LinkDay) \in Nat /\ (s \div LinkDay) \in Nat
    BY <1>1
<1>3. (t \div LinkDay) <= (s \div LinkDay)
    BY <1>1
<1> QED
    BY <1>2, <1>3 DEF LinkDayOf

LEMMA BeforeMidnight ==
    ASSUME NEW t \in Nat, linkTime \in Nat, t < LinkMidnight
    PROVE  LinkDayOf(t) < LinkDayOf(linkTime)
<1>1. LinkDay \in Nat \ {0}
    BY LinkAssumption
<1>2. PICK d \in Nat : d = (linkTime \div LinkDay)
    BY <1>1
<1>3. t < d * LinkDay
    BY <1>2 DEF LinkMidnight
<1>4. (t \div LinkDay) < d
    BY <1>1, <1>2, <1>3
<1> QED
    BY <1>2, <1>4 DEF LinkDayOf

LEMMA LinkKinds ==
    ASSUME LinkTypeOK
    PROVE  /\ linkTime \in Nat /\ linkMachines \in Nat /\ linkTokens \in Nat /\ linkAsks \in Nat
           /\ linkRow \in LinkRows /\ linkReward \in BOOLEAN /\ linkCrossed \in BOOLEAN
           /\ linkPage \in [LinkPages -> PageStates]
           /\ linkCall \in [LinkCalls -> LinkRequests]
           /\ linkRuns \subseteq RunsOfLink
           /\ StepWait \in Nat
BY LinkAssumption DEF LinkTypeOK, LinkRequests, PageStates, RunsOfLink

LEMMA LinkTyped ==
    ASSUME linkTime \in Nat, linkMachines \in Nat, linkTokens \in Nat, linkAsks \in Nat,
           linkRow \in LinkRows, linkReward \in BOOLEAN, linkCrossed \in BOOLEAN,
           linkPage \in [LinkPages -> PageStates],
           linkCall \in [LinkCalls -> LinkRequests],
           linkRuns \subseteq RunsOfLink
    PROVE  LinkTypeOK
BY DEF LinkTypeOK, LinkRequests, PageStates, RunsOfLink

LEMMA LinkIdleTyped ==
    /\ LinkIdle \in LinkRequests /\ LinkIdle.pc = "idle" /\ LinkIdle.token = 0 /\ LinkIdle.now = 0
    /\ LinkIdle.row.token = 0
BY DEF LinkIdle, NoLink, LinkRows, LinkRequests, TotalSteps

LEMMA BlankTyped == BlankPage \in PageStates /\ BlankPage.token = 0
BY DEF BlankPage, PageStates, TotalSteps

LEMMA LinkInitially == LinkInit => LinkInv
<1> SUFFICES ASSUME LinkInit PROVE LinkInv
    OBVIOUS
<1> USE LinkAssumption
<1>1. StepWait \in Nat /\ FirstEnd \in Nat /\ FirstEnd - 1 = 3 * StepWait /\ FirstEnd > 0
    BY DEF FirstEnd, TotalSteps
<1>2. LinkDayOf(FirstEnd) \in Nat
    BY <1>1, LinkDaysFollow
<1>3. /\ NoLink \in LinkRows /\ NoLink.token = 0 /\ NoLink.stepAt = 0 /\ NoLink.runs = 0
    BY DEF NoLink, LinkRows, TotalSteps
<1> DEFINE ranOnce == [NoLink EXCEPT !.exists = TRUE, !.runs = 1, !.completed = FirstEnd, !.stepAt = FirstEnd]
<1>r. /\ ranOnce \in LinkRows /\ ranOnce.runs = 1 /\ ranOnce.completed = FirstEnd
      /\ ranOnce.token = 0 /\ ranOnce.stepAt = FirstEnd
    <2>1. ranOnce \in LinkRows
        BY <1>1, <1>3 DEF LinkRows
    <2>2. /\ ranOnce.runs = 1 /\ ranOnce.completed = FirstEnd
          /\ ranOnce.token = 0 /\ ranOnce.stepAt = FirstEnd
        BY <1>3 DEF LinkRows
    <2> QED
        BY <2>1, <2>2
<1>4. \/ linkTime = 1 /\ linkRow = NoLink /\ linkMachines = 0 /\ linkTokens = 0 /\ linkRuns = {}
      \/ /\ linkTime = FirstEnd
         /\ linkRow = ranOnce
         /\ linkMachines = 1 /\ linkTokens = 3
         /\ linkRuns = {[day |-> LinkDayOf(FirstEnd), steps |-> 3, started |-> 1, ended |-> FirstEnd]}
    BY DEF LinkInit, TotalSteps, LinkDayOf
<1> HIDE DEF ranOnce
<1>5. /\ linkPage = [p \in LinkPages |-> BlankPage] /\ linkCall = [k \in LinkCalls |-> LinkIdle]
      /\ linkCrossed = FALSE /\ linkAsks = 0 /\ linkReward \in BOOLEAN
    BY DEF LinkInit
<1>6. /\ linkRow \in LinkRows /\ linkRow.token = 0 /\ linkTime \in Nat /\ linkTokens \in Nat
      /\ linkMachines \in Nat /\ linkRow.stepAt <= linkTime /\ linkRuns \subseteq RunsOfLink
    <2> HIDE DEF FirstEnd
    <2>1. CASE linkTime = 1 /\ linkRow = NoLink /\ linkMachines = 0 /\ linkTokens = 0 /\ linkRuns = {}
        BY <2>1, <1>3
    <2>2. CASE /\ linkTime = FirstEnd
               /\ linkRow = ranOnce
               /\ linkMachines = 1 /\ linkTokens = 3
               /\ linkRuns = {[day |-> LinkDayOf(FirstEnd), steps |-> 3, started |-> 1, ended |-> FirstEnd]}
        <3>1. linkRow.token = 0 /\ linkRow.stepAt = FirstEnd
            BY <2>2, <1>r
        <3>2. linkRow \in LinkRows /\ linkRuns \subseteq RunsOfLink
            BY <2>2, <1>1, <1>2, <1>r DEF LinkRows, TotalSteps, RunsOfLink
        <3> QED
            BY <3>1, <3>2, <2>2, <1>1
    <2> QED
        BY <2>1, <2>2, <1>4
<1>7. LinkTypeOK
    BY <1>5, <1>6, LinkTyped, LinkIdleTyped, BlankTyped
<1>8. OneRunADay /\ RunsAreTimed /\ RunCountsWithMachine /\ DaysAreOfEnds /\ DaysDone
    <2>1. CASE linkTime = 1 /\ linkRow = NoLink /\ linkMachines = 0 /\ linkTokens = 0 /\ linkRuns = {}
        BY <2>1, <1>3 DEF OneRunADay, RunsAreTimed, RunCountsWithMachine, DaysAreOfEnds, DaysDone
    <2>2. CASE /\ linkTime = FirstEnd
               /\ linkRow = ranOnce
               /\ linkMachines = 1 /\ linkTokens = 3
               /\ linkRuns = {[day |-> LinkDayOf(FirstEnd), steps |-> 3, started |-> 1, ended |-> FirstEnd]}
        <3>1. OneRunADay
            BY <2>2 DEF OneRunADay
        <3>2. RunsAreTimed
            BY <2>2, <1>1 DEF RunsAreTimed, TotalSteps
        <3>3. RunCountsWithMachine /\ DaysAreOfEnds
            BY <2>2, <1>r DEF RunCountsWithMachine, DaysAreOfEnds
        <3>4. DaysDone
            BY <2>2, <1>1, <1>r DEF DaysDone
        <3> QED
            BY <3>1, <3>2, <3>3, <3>4
    <2> QED
        BY <2>1, <2>2, <1>4
<1>9. TokensMade /\ StepsTimed /\ StepsHaveTokens /\ LoneLinkCall /\ LinkReadStands
    BY <1>5, <1>6, LinkIdleTyped, BlankTyped
       DEF TokensMade, StepsTimed, WalkTimed, Timed, StepsHaveTokens, LoneLinkCall, LinkReadStands
<1> QED
    BY <1>7, <1>8, <1>9 DEF LinkInv, LinkSafe

LEMMA LinkTickKeeps == ASSUME LinkInv, LinkTick PROVE LinkInv'
<1> USE DEF LinkInv, LinkSafe
<1>0. /\ linkTime' = linkTime + 1 /\ linkTime \in Nat
      /\ UNCHANGED <<linkRow, linkMachines, linkReward, linkPage, linkCall, linkTokens, linkRuns,
                     linkCrossed, linkAsks>>
    BY DEF LinkTick, LinkTypeOK
<1>1. LinkTypeOK'
    BY <1>0 DEF LinkTypeOK
<1>2. OneRunADay' /\ RunsAreTimed' /\ RunCountsWithMachine' /\ DaysAreOfEnds' /\ TokensMade'
    BY <1>0 DEF OneRunADay, RunsAreTimed, RunCountsWithMachine, DaysAreOfEnds, TokensMade
<1>3. StepsTimed' /\ LoneLinkCall' /\ LinkReadStands'
    BY <1>0 DEF StepsTimed, WalkTimed, Timed, LoneLinkCall, LinkReadStands
<1>4. StepsHaveTokens'
    BY <1>0, LinkKinds DEF StepsHaveTokens, TokenMatches, SlowEnough, LinkRequests
<1>5. LinkDayOf(linkTime) \in Nat /\ LinkDayOf(linkTime') \in Nat /\ LinkDayOf(linkTime) <= LinkDayOf(linkTime')
    BY <1>0, LinkDaysFollow
<1>6. \A r \in linkRuns : r.day \in Nat
    BY LinkKinds DEF RunsOfLink
<1>7. linkRow.stepAt \in Nat
    BY LinkKinds DEF LinkRows
<1>8. DaysDone'
    BY <1>0, <1>5, <1>6, <1>7 DEF DaysDone
<1> QED
    BY <1>1, <1>2, <1>3, <1>4, <1>8

LEMMA AskLinkKeeps ==
    ASSUME LinkInv, NEW k \in LinkCalls, NEW request \in LinkRequests, AskLink(k, request),
           request.now <= linkTime, request.row.token = 0,
           \/ request.pc \in {"status", "start"} /\ request.token = 0
           \/ /\ request.pc = "step" /\ request.token # 0
              /\ \E p \in LinkPages :
                    /\ request.taken = linkPage[p].taken /\ request.token = linkPage[p].token
                    /\ request.started = linkPage[p].startedAt
    PROVE  LinkInv'
<1> USE DEF LinkInv, LinkSafe
<1>0. /\ linkCrossed' = (linkCrossed \/ \E other \in LinkCalls : linkCall[other].pc # "idle")
      /\ linkAsks' = linkAsks + 1 /\ linkCall[k].pc = "idle"
      /\ linkCall' = [linkCall EXCEPT ![k] = request]
      /\ UNCHANGED <<linkTime, linkRow, linkMachines, linkReward, linkPage, linkTokens, linkRuns>>
    BY DEF AskLink
<1>1. \A other \in LinkCalls : linkCall'[other] = IF other = k THEN request ELSE linkCall[other]
    BY <1>0, LinkKinds
<1>2. LinkTypeOK'
    <2>1. linkAsks' \in Nat /\ linkCrossed' \in BOOLEAN /\ linkCall' \in [LinkCalls -> LinkRequests]
        BY <1>0, LinkKinds
    <2> QED
        BY <2>1, <1>0, LinkKinds DEF LinkTypeOK, LinkRequests, PageStates, RunsOfLink
<1>3. OneRunADay' /\ RunsAreTimed' /\ RunCountsWithMachine' /\ DaysAreOfEnds' /\ DaysDone'
    BY <1>0 DEF OneRunADay, RunsAreTimed, RunCountsWithMachine, DaysAreOfEnds, DaysDone
<1>4. TokensMade'
    BY <1>0, <1>1, LinkKinds DEF TokensMade
<1>5. StepsHaveTokens'
    <2>1. ASSUME NEW other \in LinkCalls \ {k} PROVE linkCall'[other] = linkCall[other]
        BY <1>1
    <2>2. linkCall'[k] = request /\ request.pc # "advance" /\ (request.pc = "step" => request.token # 0)
        BY <1>1
    <2>3. request.pc \notin {"resetStep", "check", "advance"}
        OBVIOUS
    <2> QED
        <3>2. ASSUME NEW other \in LinkCalls
              PROVE  /\ linkCall'[other].now <= linkTime'
                     /\ linkCall'[other].pc \in {"step", "resetStep", "check", "advance"}
                           => linkCall'[other].token # 0
                     /\ linkCall'[other].pc = "advance"
                           => TokenMatches(linkCall'[other]) /\ SlowEnough(linkCall'[other])
            <4>1. CASE other = k
                BY <4>1, <2>2, <2>3, <1>0
            <4>2. CASE other # k
                BY <4>2, <2>1, <1>0 DEF StepsHaveTokens
            <4> QED
                BY <4>1, <4>2
        <3> QED
            BY <3>2 DEF StepsHaveTokens, TokenMatches, SlowEnough
<1>6. LoneLinkCall' /\ LinkReadStands'
    <2> SUFFICES ASSUME ~linkCrossed' PROVE LoneLinkCall' /\ LinkReadStands'
        BY DEF LoneLinkCall, LinkReadStands
    <2>1. \A other \in LinkCalls : other # k => linkCall'[other].pc = "idle"
        BY <1>0, <1>1
    <2>2. linkCall'[k].pc \in {"status", "start", "step"}
        BY <1>1
    <2>3. LoneLinkCall'
        BY <2>1 DEF LoneLinkCall
    <2>4. LinkReadStands'
        BY <2>1, <2>2 DEF LinkReadStands
    <2> QED
        BY <2>3, <2>4
<1>7. StepsTimed'
    <2>1. ASSUME NEW row, WalkTimed(row) PROVE WalkTimed(row)'
        BY <2>1, <1>0, <1>1 DEF WalkTimed, Timed
    <2>2. WalkTimed(request.row)'
        BY DEF WalkTimed, Timed
    <2> QED
        BY <2>1, <2>2, <1>0, <1>1 DEF StepsTimed
<1> QED
    BY <1>2, <1>3, <1>4, <1>5, <1>6, <1>7

\* A request reads, is refused, or throws: it goes by nothing that is not so, and the
\* row loses its runs at most.
LEMMA RequestMoves ==
    ASSUME LinkInv, NEW k \in LinkCalls, NEW request \in LinkRequests,
           linkCall[k].pc # "idle",
           linkCall' = [linkCall EXCEPT ![k] = request],
           linkRow' \in LinkRows, linkRow'.token = linkRow.token, linkRow'.stepAt = linkRow.stepAt,
           linkRow'.completed = linkRow.completed,
           \/ linkRow'.runs = linkRow.runs
           \/ /\ linkRow'.runs = 0
              /\ linkCrossed \/ \A r \in linkRuns : r.day < LinkDayOf(linkTime),
           linkPage' \in [LinkPages -> PageStates],
           \A p \in LinkPages : linkPage'[p] = linkPage[p] \/ linkPage'[p] = BlankPage,
           UNCHANGED <<linkTime, linkMachines, linkReward, linkTokens, linkRuns, linkCrossed, linkAsks>>,
           \/ request.token = 0
           \/ /\ request.token = linkCall[k].token /\ request.taken = linkCall[k].taken
              /\ request.started = linkCall[k].started,
           request.row.token = 0 \/ request.row = linkRow \/ request.row = linkCall[k].row,
           request.now <= linkTime,
           request.pc \notin {"start", "status", "step"},
           request.pc \in {"resetStep", "check", "advance"} => request.token # 0,
           request.pc = "advance" => TokenMatches(request) /\ SlowEnough(request),
           linkCrossed \/
               /\ request.pc \in {"resetStatus", "resetStart", "resetStep"} =>
                      request.row.runs = linkRow'.runs /\ request.row.completed = linkRow.completed
               /\ request.pc \in {"resetStep", "check", "advance"} =>
                      request.row.token = linkRow.token /\ request.row.stepAt = linkRow.stepAt
               /\ request.pc = "begin" => linkRow'.runs = 0
    PROVE  LinkInv'
<1> USE DEF LinkInv, LinkSafe
<1>1. \A other \in LinkCalls : linkCall'[other] = IF other = k THEN request ELSE linkCall[other]
    BY LinkKinds
<1>2. LinkTypeOK'
    <2>1. linkCall' \in [LinkCalls -> LinkRequests]
        BY LinkKinds
    <2> QED
        BY <2>1, LinkKinds DEF LinkTypeOK, LinkRequests, PageStates, RunsOfLink
<1>3. OneRunADay' /\ RunsAreTimed' /\ DaysAreOfEnds'
    BY DEF OneRunADay, RunsAreTimed, DaysAreOfEnds
<1>4. RunCountsWithMachine'
    BY DEF RunCountsWithMachine
<1>5. TokensMade'
    <2>1. request.token <= linkTokens /\ request.row.token <= linkTokens
        BY LinkKinds DEF TokensMade, LinkRequests
    <2>2. \A p \in LinkPages : linkPage'[p].token <= linkTokens
        BY LinkKinds, BlankTyped DEF TokensMade
    <2> QED
        BY <2>1, <2>2, <1>1 DEF TokensMade
<1>6. StepsHaveTokens'
    <2>2. ASSUME NEW other \in LinkCalls
          PROVE  /\ linkCall'[other].now <= linkTime'
                 /\ linkCall'[other].pc \in {"step", "resetStep", "check", "advance"}
                       => linkCall'[other].token # 0
                 /\ linkCall'[other].pc = "advance"
                       => TokenMatches(linkCall'[other]) /\ SlowEnough(linkCall'[other])
        <3>1. CASE other = k
            BY <3>1, <1>1
        <3>2. CASE other # k
            BY <3>2, <1>1 DEF StepsHaveTokens
        <3> QED
            BY <3>1, <3>2
    <2> QED
        BY <2>2 DEF StepsHaveTokens, TokenMatches, SlowEnough
<1>7. LoneLinkCall' /\ LinkReadStands'
    <2> SUFFICES ASSUME ~linkCrossed PROVE LoneLinkCall' /\ LinkReadStands'
        BY DEF LoneLinkCall, LinkReadStands
    <2>1. \A other \in LinkCalls : other # k => linkCall'[other].pc = "idle"
        BY <1>1 DEF LoneLinkCall
    <2>2. LoneLinkCall'
        BY <2>1 DEF LoneLinkCall
    <2>3. linkCall'[k] = request
        BY <1>1
    <2>4. LinkReadStands'
        BY <2>1, <2>3 DEF LinkReadStands
    <2> QED
        BY <2>2, <2>4
<1>8. StepsTimed'
    <2>1. ASSUME NEW row, WalkTimed(row) PROVE WalkTimed(row)'
        BY <2>1, <1>1, BlankTyped DEF WalkTimed, Timed
    <2>2. WalkTimed(linkRow)'
        BY <1>1, BlankTyped DEF WalkTimed, Timed, StepsTimed
    <2>3. WalkTimed(request.row)'
        <3>1. CASE request.row.token = 0
            BY <3>1 DEF WalkTimed, Timed
        <3>2. CASE request.row = linkRow \/ request.row = linkCall[k].row
            BY <3>2, <2>1 DEF StepsTimed
        <3> QED
            BY <3>1, <3>2
    <2> QED
        BY <2>1, <2>2, <2>3, <1>1 DEF StepsTimed
<1>9. DaysDone'
    BY DEF DaysDone
<1> QED
    BY <1>2, <1>3, <1>4, <1>5, <1>6, <1>7, <1>8, <1>9

LEMMA RequestEnds ==
    ASSUME LinkInv, NEW k \in LinkCalls, linkCall[k].pc # "idle",
           linkCall' = [linkCall EXCEPT ![k] = LinkIdle],
           linkRow' \in LinkRows, linkRow'.token = linkRow.token, linkRow'.stepAt = linkRow.stepAt,
           linkRow'.completed = linkRow.completed,
           \/ linkRow'.runs = linkRow.runs
           \/ /\ linkRow'.runs = 0
              /\ linkCrossed \/ \A r \in linkRuns : r.day < LinkDayOf(linkTime),
           linkPage' \in [LinkPages -> PageStates],
           \A p \in LinkPages : linkPage'[p] = linkPage[p] \/ linkPage'[p] = BlankPage,
           UNCHANGED <<linkTime, linkMachines, linkReward, linkTokens, linkRuns, linkCrossed, linkAsks>>
    PROVE  LinkInv'
<1> DEFINE request == LinkIdle
<1>1. /\ request \in LinkRequests /\ request.pc = "idle" /\ request.token = 0 /\ request.now = 0
      /\ request.row.token = 0 /\ linkCall' = [linkCall EXCEPT ![k] = request]
    BY LinkIdleTyped
<1>2. 0 <= linkTime
    BY LinkKinds DEF LinkInv, LinkSafe
<1>3. /\ request.pc \notin {"start", "status", "step", "resetStatus", "resetStart", "resetStep",
                          "check", "advance", "begin"}
      /\ request.now <= linkTime
    BY <1>1, <1>2
<1> HIDE DEF request
<1> QED
    BY <1>1, <1>3, RequestMoves

LEMMA ReadLinkKeeps == ASSUME LinkInv, NEW k \in LinkCalls, ReadLink(k) PROVE LinkInv'
<1> DEFINE c == linkCall[k]
           request == IF c.pc = "step" /\ linkRow.token = 0 THEN LinkIdle
                      ELSE [c EXCEPT !.row = linkRow,
                             !.pc = CASE c.pc = "status" -> "resetStatus" [] c.pc = "start" -> "resetStart"
                                      [] OTHER -> "resetStep"]
<1>1. c \in LinkRequests /\ linkRow \in LinkRows /\ linkPage \in [LinkPages -> PageStates]
    BY LinkKinds DEF LinkInv, LinkSafe
<1>2. /\ c.pc \in {"status", "start", "step"}
      /\ linkRow' = IF c.pc = "status" THEN [linkRow EXCEPT !.exists = TRUE] ELSE linkRow
      /\ linkCall' = [linkCall EXCEPT ![k] = request]
      /\ UNCHANGED <<linkTime, linkMachines, linkReward, linkPage, linkTokens, linkRuns,
                     linkCrossed, linkAsks>>
    BY DEF ReadLink
<1>3. /\ linkRow' \in LinkRows /\ linkRow'.token = linkRow.token /\ linkRow'.stepAt = linkRow.stepAt
      /\ linkRow'.completed = linkRow.completed /\ linkRow'.runs = linkRow.runs
    BY <1>1, <1>2 DEF LinkRows
<1>4. c.now <= linkTime /\ 0 <= linkTime /\ (c.pc = "step" => c.token # 0)
    BY LinkKinds DEF LinkInv, LinkSafe, StepsHaveTokens
<1>5. CASE c.pc = "step" /\ linkRow.token = 0
    <2>1. request = LinkIdle
        BY <1>5
    <2> HIDE DEF request
    <2> QED
        BY <2>1, <1>1, <1>2, <1>3, <1>4, RequestEnds
<1>6. CASE ~(c.pc = "step" /\ linkRow.token = 0)
    <2>1. /\ request \in LinkRequests /\ request.row = linkRow /\ request.token = c.token
          /\ request.taken = c.taken /\ request.started = c.started /\ request.now = c.now
          /\ request.pc \in {"resetStatus", "resetStart", "resetStep"}
          /\ request.pc = "resetStep" => c.pc = "step"
        BY <1>1, <1>2, <1>6 DEF LinkRequests
    <2> HIDE DEF request
    <2> QED
        BY <2>1, <1>1, <1>2, <1>3, <1>4, RequestMoves
<1> QED
    BY <1>5, <1>6

LEMMA ResetLinkKeeps == ASSUME LinkInv, NEW k \in LinkCalls, ResetLink(k) PROVE LinkInv'
<1> DEFINE c == linkCall[k]
           old == RunsAreOld(c.row)
           runs == IF old THEN 0 ELSE c.row.runs
           tooOften == runs >= MaxDailyRuns
           request == IF c.pc = "resetStatus" \/ tooOften THEN LinkIdle
                      ELSE [c EXCEPT !.pc = IF c.pc = "resetStart" THEN "begin" ELSE "check"]
<1>1. /\ c \in LinkRequests /\ linkRow \in LinkRows /\ linkPage \in [LinkPages -> PageStates]
      /\ c.row \in LinkRows /\ linkTime \in Nat /\ linkRuns \subseteq RunsOfLink
    BY LinkKinds DEF LinkInv, LinkSafe, LinkRequests
<1>2. /\ c.pc \in {"resetStatus", "resetStart", "resetStep"}
      /\ linkRow' = IF old THEN [linkRow EXCEPT !.runs = 0] ELSE linkRow
      /\ linkCall' = [linkCall EXCEPT ![k] = request]
      /\ UNCHANGED <<linkTime, linkMachines, linkReward, linkPage, linkTokens, linkRuns,
                     linkCrossed, linkAsks>>
    BY DEF ResetLink
<1>3. /\ linkRow' \in LinkRows /\ linkRow'.token = linkRow.token /\ linkRow'.stepAt = linkRow.stepAt
      /\ linkRow'.completed = linkRow.completed
      /\ IF old THEN linkRow'.runs = 0 ELSE linkRow'.runs = linkRow.runs
    BY <1>1, <1>2 DEF LinkRows
<1>4. c.now <= linkTime /\ 0 <= linkTime /\ (c.pc = "resetStep" => c.token # 0)
    BY <1>1 DEF LinkInv, StepsHaveTokens
<1>5. linkCrossed \/ /\ c.row.runs = linkRow.runs /\ c.row.completed = linkRow.completed
                     /\ c.pc = "resetStep" => c.row.token = linkRow.token /\ c.row.stepAt = linkRow.stepAt
    BY <1>2 DEF LinkInv, LinkReadStands
<1>6. old => linkCrossed \/ \A r \in linkRuns : r.day < LinkDayOf(linkTime)
    <2> SUFFICES ASSUME old, ~linkCrossed, NEW r \in linkRuns PROVE r.day < LinkDayOf(linkTime)
        OBVIOUS
    <2>1. /\ linkRow.runs > 0 /\ linkRow.completed < LinkMidnight /\ linkRow.completed \in Nat
          /\ r.ended \in Nat
        BY <1>1, <1>5 DEF RunsAreOld, LinkRows, RunsOfLink
    <2>2. r.ended <= linkRow.completed /\ r.day = LinkDayOf(r.ended)
        BY <2>1 DEF LinkInv, DaysDone, DaysAreOfEnds
    <2>3. LinkDayOf(linkRow.completed) < LinkDayOf(linkTime)
        BY <2>1, <1>1, BeforeMidnight
    <2>4. LinkDayOf(r.ended) \in Nat /\ LinkDayOf(linkRow.completed) \in Nat /\ LinkDayOf(linkTime) \in Nat
          /\ LinkDayOf(r.ended) <= LinkDayOf(linkRow.completed)
        BY <2>1, <2>2, <1>1, LinkDaysFollow
    <2> QED
        BY <2>2, <2>3, <2>4
<1>7. CASE c.pc = "resetStatus" \/ tooOften
    <2>1. request = LinkIdle
        BY <1>7
    <2> HIDE DEF request, old, runs
    <2> QED
        BY <2>1, <1>1, <1>2, <1>3, <1>4, <1>6, RequestEnds
<1>8. CASE ~(c.pc = "resetStatus" \/ tooOften)
    <2>1. /\ request \in LinkRequests /\ request.row = c.row /\ request.token = c.token
          /\ request.taken = c.taken /\ request.started = c.started /\ request.now = c.now
          /\ request.pc \in {"begin", "check"}
          /\ request.pc = "check" => c.pc = "resetStep"
        BY <1>1, <1>2, <1>8 DEF LinkRequests
    <2>2. runs = 0
        BY <1>1, <1>8 DEF LinkRows, MaxDailyRuns
    <2>3. linkCrossed \/ linkRow'.runs = 0
        BY <2>2, <1>3, <1>5
    <2> HIDE DEF request, old, runs
    <2> QED
        BY <2>1, <2>3, <1>1, <1>2, <1>3, <1>4, <1>5, <1>6, RequestMoves
<1> QED
    BY <1>7, <1>8

LEMMA CheckStepKeeps == ASSUME LinkInv, NEW k \in LinkCalls, CheckStep(k) PROVE LinkInv'
<1> DEFINE c == linkCall[k]
           clean == TokenMatches(c) /\ SlowEnough(c)
           request == IF clean THEN [c EXCEPT !.pc = "advance"] ELSE LinkIdle
<1>1. /\ c \in LinkRequests /\ linkRow \in LinkRows /\ linkPage \in [LinkPages -> PageStates]
      /\ linkTime \in Nat
    BY LinkKinds DEF LinkInv, LinkSafe
<1>2. /\ c.pc = "check"
      /\ linkCall' = [linkCall EXCEPT ![k] = request]
      /\ linkPage' = IF clean THEN linkPage ELSE [linkPage EXCEPT ![c.page] = BlankPage]
      /\ UNCHANGED <<linkTime, linkRow, linkMachines, linkReward, linkTokens, linkRuns,
                     linkCrossed, linkAsks>>
    BY DEF CheckStep
<1>3. /\ linkPage' \in [LinkPages -> PageStates]
      /\ \A p \in LinkPages : linkPage'[p] = linkPage[p] \/ linkPage'[p] = BlankPage
    BY <1>1, <1>2, BlankTyped
<1>4. c.now <= linkTime /\ 0 <= linkTime /\ c.token # 0
    BY <1>1, <1>2 DEF LinkInv, StepsHaveTokens
<1>5. linkCrossed \/ (c.row.token = linkRow.token /\ c.row.stepAt = linkRow.stepAt)
    BY <1>2 DEF LinkInv, LinkReadStands
<1>6. CASE clean
    <2>1. /\ request \in LinkRequests /\ request.row = c.row /\ request.token = c.token
          /\ request.taken = c.taken /\ request.started = c.started /\ request.now = c.now
          /\ request.pc = "advance"
        BY <1>1, <1>6 DEF LinkRequests
    <2>2. TokenMatches(request) /\ SlowEnough(request)
        BY <2>1, <1>6 DEF TokenMatches, SlowEnough
    <2> HIDE DEF request, clean
    <2> QED
        BY <2>1, <2>2, <1>1, <1>2, <1>3, <1>4, <1>5, RequestMoves
<1>7. CASE ~clean
    <2>1. request = LinkIdle
        BY <1>7
    <2> HIDE DEF request, clean
    <2> QED
        BY <2>1, <1>1, <1>2, <1>3, <1>4, RequestEnds
<1> QED
    BY <1>6, <1>7

\* The row takes a new token and the page that asked walks on with it, in time.
LEMMA RowMovesOn ==
    ASSUME LinkInv, NEW k \in LinkCalls, linkCall[k].pc # "idle", NEW page,
           NEW at \in Nat, NEW started \in Nat, NEW taken \in Nat,
           at <= linkTime, at - started >= taken * StepWait,
           linkCrossed \/ \A r \in linkRuns : r.day < LinkDayOf(at),
           linkTokens' = linkTokens + 1,
           linkRow' \in LinkRows, linkRow'.token = linkTokens', linkRow'.stepAt = at,
           linkRow'.runs = linkRow.runs, linkRow'.completed = linkRow.completed,
           linkPage' = [linkPage EXCEPT ![page] = [taken |-> taken, token |-> linkTokens', startedAt |-> started]],
           linkCall' = [linkCall EXCEPT ![k] = LinkIdle],
           UNCHANGED <<linkTime, linkMachines, linkReward, linkRuns, linkCrossed, linkAsks>>
    PROVE  LinkInv'
<1> USE DEF LinkInv, LinkSafe
<1> DEFINE walks == [taken |-> taken, token |-> linkTokens', startedAt |-> started]
<1>0. /\ linkTokens \in Nat /\ linkTokens' \in Nat /\ StepWait \in Nat
      /\ linkPage \in [LinkPages -> PageStates] /\ linkCall \in [LinkCalls -> LinkRequests]
      /\ linkRow \in LinkRows
    BY LinkKinds
<1>1. \A other \in LinkCalls : linkCall'[other] = IF other = k THEN LinkIdle ELSE linkCall[other]
    BY <1>0
<1>2. /\ \A p \in LinkPages : linkPage'[p] = linkPage[p] \/ linkPage'[p] = walks
      /\ walks.taken = taken /\ walks.token = linkTokens + 1 /\ walks.startedAt = started
      /\ walks \in PageStates
    BY <1>0 DEF PageStates, TotalSteps
<1>3. LinkTypeOK'
    <2>1. linkCall' \in [LinkCalls -> LinkRequests] /\ linkPage' \in [LinkPages -> PageStates]
        BY <1>0, <1>2, LinkIdleTyped
    <2> QED
        BY <2>1, <1>0, LinkKinds DEF LinkTypeOK, LinkRequests, PageStates, RunsOfLink
<1> HIDE DEF walks
<1>4. OneRunADay' /\ RunsAreTimed' /\ DaysAreOfEnds' /\ RunCountsWithMachine'
    BY DEF OneRunADay, RunsAreTimed, DaysAreOfEnds, RunCountsWithMachine
<1>5. /\ linkRow.token <= linkTokens /\ \A p \in LinkPages : linkPage[p].token <= linkTokens
      /\ \A other \in LinkCalls : linkCall[other].token <= linkTokens /\ linkCall[other].row.token <= linkTokens
      /\ \A other \in LinkCalls : linkCall[other].token \in Nat /\ linkCall[other].row.token \in Nat
      /\ \A p \in LinkPages : linkPage[p].token \in Nat
    BY <1>0 DEF TokensMade, LinkRequests, LinkRows, PageStates
<1>6. /\ \A other \in LinkCalls : linkCall'[other].token <= linkTokens /\ linkCall'[other].row.token <= linkTokens
      /\ \A p \in LinkPages : linkPage'[p] # walks => linkPage'[p].token <= linkTokens
    BY <1>0, <1>1, <1>2, <1>5, LinkIdleTyped
<1>7. TokensMade'
    <2>1. \A p \in LinkPages : linkPage'[p].token <= linkTokens'
        BY <1>0, <1>2, <1>5
    <2>2. \A other \in LinkCalls :
              linkCall'[other].token <= linkTokens' /\ linkCall'[other].row.token <= linkTokens'
        <3> SUFFICES ASSUME NEW other \in LinkCalls
                     PROVE  linkCall'[other].token <= linkTokens' /\ linkCall'[other].row.token <= linkTokens'
            OBVIOUS
        <3>1. linkCall'[other].token \in Nat /\ linkCall'[other].row.token \in Nat
            BY <1>1, <1>5, LinkIdleTyped
        <3> QED
            BY <3>1, <1>0, <1>6
    <2>3. linkRow'.token <= linkTokens'
        BY <1>0
    <2> QED
        BY <2>1, <2>2, <2>3 DEF TokensMade
<1>8. StepsHaveTokens'
    <2>2. ASSUME NEW other \in LinkCalls
          PROVE  /\ linkCall'[other].now <= linkTime'
                 /\ linkCall'[other].pc \in {"step", "resetStep", "check", "advance"}
                       => linkCall'[other].token # 0
                 /\ linkCall'[other].pc = "advance"
                       => TokenMatches(linkCall'[other]) /\ SlowEnough(linkCall'[other])
        <3>1. CASE other = k
            BY <3>1, <1>1, LinkIdleTyped, LinkKinds
        <3>2. CASE other # k
            BY <3>2, <1>1 DEF StepsHaveTokens
        <3> QED
            BY <3>1, <3>2
    <2> QED
        BY <2>2 DEF StepsHaveTokens, TokenMatches, SlowEnough
<1>9. LoneLinkCall' /\ LinkReadStands'
    <2> SUFFICES ASSUME ~linkCrossed PROVE LoneLinkCall' /\ LinkReadStands'
        BY DEF LoneLinkCall, LinkReadStands
    <2>1. \A other \in LinkCalls : linkCall'[other].pc = "idle"
        BY <1>1, LinkIdleTyped DEF LoneLinkCall
    <2> QED
        BY <2>1 DEF LoneLinkCall, LinkReadStands
<1>10. StepsTimed'
    <2> DEFINE later(row) ==
                  /\ \A p \in LinkPages :
                        Timed(row, linkPage'[p].taken, linkPage'[p].token, linkPage'[p].startedAt)
                  /\ \A other \in LinkCalls :
                        Timed(row, linkCall'[other].taken, linkCall'[other].token, linkCall'[other].started)
    <2>1. ASSUME NEW row, WalkTimed(row), row.token <= linkTokens, row.token \in Nat PROVE later(row)
        BY <2>1, <1>0, <1>1, <1>2, LinkIdleTyped DEF WalkTimed, Timed
    <2>2. later(linkRow')
        <3>1. ASSUME NEW p \in LinkPages
              PROVE  Timed(linkRow', linkPage'[p].taken, linkPage'[p].token, linkPage'[p].startedAt)
            <4>1. CASE linkPage'[p] = walks
                BY <4>1, <1>2 DEF Timed
            <4>2. CASE linkPage'[p] # walks
                BY <4>2, <1>0, <1>2, <1>5, <1>6 DEF Timed
            <4> QED
                BY <4>1, <4>2
        <3>2. ASSUME NEW other \in LinkCalls
              PROVE  Timed(linkRow', linkCall'[other].taken, linkCall'[other].token, linkCall'[other].started)
            <4>1. linkCall'[other].token \in Nat
                BY <1>1, <1>5, LinkIdleTyped
            <4> QED
                BY <4>1, <1>0, <1>6 DEF Timed
        <3> QED
            BY <3>1, <3>2
    <2>3. later(LinkIdle.row)
        BY LinkIdleTyped DEF Timed
    <2>4. ASSUME NEW other \in LinkCalls PROVE later(linkCall'[other].row)
        <3>1. WalkTimed(linkCall[other].row)
            BY DEF StepsTimed
        <3>2. later(linkCall[other].row)
            BY <3>1, <2>1, <1>5
        <3> HIDE DEF later
        <3> QED
            BY <3>2, <2>3, <1>1
    <2> QED
        BY <2>2, <2>4 DEF StepsTimed, WalkTimed, Timed
<1>11. DaysDone'
    BY DEF DaysDone
<1> QED
    BY <1>3, <1>4, <1>7, <1>8, <1>9, <1>10, <1>11

LEMMA BeginRunKeeps == ASSUME LinkInv, NEW k \in LinkCalls, BeginRun(k) PROVE LinkInv'
<1> DEFINE c == linkCall[k]
<1>1. /\ c \in LinkRequests /\ linkRow \in LinkRows /\ linkTime \in Nat /\ linkTokens \in Nat
      /\ StepWait \in Nat
    BY LinkKinds DEF LinkInv, LinkSafe
<1>2. /\ c.pc = "begin"
      /\ linkTokens' = linkTokens + 1
      /\ linkRow' = [linkRow EXCEPT !.exists = TRUE, !.step = 0, !.token = linkTokens', !.stepAt = linkTime]
      /\ linkPage' = [linkPage EXCEPT ![c.page] = [taken |-> 0, token |-> linkTokens', startedAt |-> linkTime]]
      /\ linkCall' = [linkCall EXCEPT ![k] = LinkIdle]
      /\ UNCHANGED <<linkTime, linkMachines, linkReward, linkRuns, linkCrossed, linkAsks>>
    BY DEF BeginRun
<1>3. /\ linkRow' \in LinkRows /\ linkRow'.token = linkTokens' /\ linkRow'.stepAt = linkTime
      /\ linkRow'.runs = linkRow.runs /\ linkRow'.completed = linkRow.completed
    <2>1. linkTokens' \in Nat /\ 0 \in Nat
        BY <1>1, <1>2
    <2>2. linkRow' \in LinkRows
        BY <2>1, <1>1, <1>2 DEF LinkRows
    <2>3. linkRow'.token = linkTokens' /\ linkRow'.stepAt = linkTime
        BY <2>1, <1>1, <1>2 DEF LinkRows
    <2>4. linkRow'.runs = linkRow.runs /\ linkRow'.completed = linkRow.completed
        BY <2>1, <1>1, <1>2 DEF LinkRows
    <2> QED
        BY <2>2, <2>3, <2>4
<1>4. linkCrossed \/ \A r \in linkRuns : r.day < LinkDayOf(linkTime)
    BY <1>2 DEF LinkInv, LinkReadStands, DaysDone
<1>5. linkTime - linkTime >= 0 * StepWait /\ 0 \in Nat /\ linkTime <= linkTime
    BY <1>1
<1> QED
    BY <1>1, <1>2, <1>3, <1>4, <1>5, RowMovesOn

\* What a checked step may count on: its time, and, alone, that its day is a new one.
LEMMA CheckedStep ==
    ASSUME LinkInv, NEW k \in LinkCalls, linkCall[k].pc = "advance"
    PROVE  LET c == linkCall[k]
           IN  /\ c \in LinkRequests /\ c.now <= linkTime
               /\ c.now - c.started >= (c.taken + 1) * StepWait
               /\ linkCrossed \/ \A r \in linkRuns : r.day < LinkDayOf(c.now)
<1> USE DEF LinkInv, LinkSafe
<1> DEFINE c == linkCall[k]
<1>1. /\ c \in LinkRequests /\ c.now \in Nat /\ c.started \in Nat /\ c.taken \in Nat
      /\ c.row.stepAt \in Nat /\ StepWait \in Nat /\ linkTime \in Nat
      /\ linkRuns \subseteq RunsOfLink
    BY LinkKinds DEF LinkRequests, LinkRows
<1>2. /\ c.now <= linkTime /\ c.token # 0
      /\ c.row.token = c.token /\ c.now - c.row.stepAt >= StepWait
    BY DEF StepsHaveTokens, TokenMatches, SlowEnough
<1>3. c.row.stepAt - c.started >= c.taken * StepWait
    <2>1. Timed(c.row, c.taken, c.token, c.started)
        BY DEF StepsTimed, WalkTimed
    <2> QED
        BY <2>1, <1>2 DEF Timed
<1>5. c.now - c.started >= (c.taken + 1) * StepWait
    <2>1. (c.taken + 1) * StepWait = c.taken * StepWait + StepWait /\ c.taken * StepWait \in Int
        BY <1>1
    <2> QED
        BY <2>1, <1>1, <1>2, <1>3
<1>6. linkCrossed \/ \A r \in linkRuns : r.day < LinkDayOf(c.now)
    <2> SUFFICES ASSUME ~linkCrossed, NEW r \in linkRuns PROVE r.day < LinkDayOf(c.now)
        OBVIOUS
    <2>1. linkRow.token = c.row.token /\ linkRow.stepAt = c.row.stepAt
        BY DEF LinkReadStands
    <2>2. r.day < LinkDayOf(c.row.stepAt) /\ r.day \in Nat
        BY <2>1, <1>1, <1>2 DEF DaysDone, RunsOfLink
    <2>3. c.row.stepAt <= c.now
        BY <1>1, <1>2
    <2>4. LinkDayOf(c.row.stepAt) \in Nat /\ LinkDayOf(c.now) \in Nat /\ LinkDayOf(c.row.stepAt) <= LinkDayOf(c.now)
        BY <2>3, <1>1, LinkDaysFollow
    <2> QED
        BY <2>2, <2>4
<1> QED
    BY <1>1, <1>2, <1>5, <1>6

LEMMA AdvanceKeeps == ASSUME LinkInv, NEW k \in LinkCalls, Advance(k) PROVE LinkInv'
<1> DEFINE c == linkCall[k]
<1>1. /\ linkRow \in LinkRows /\ linkTime \in Nat /\ linkTokens \in Nat /\ StepWait \in Nat
    BY LinkKinds DEF LinkInv, LinkSafe
<1>2. /\ c.pc = "advance" /\ c.step # TotalSteps
      /\ linkTokens' = linkTokens + 1
      /\ linkRow' = [linkRow EXCEPT !.step = c.step + 1, !.token = linkTokens', !.stepAt = c.now]
      /\ linkPage' = [linkPage EXCEPT ![c.page] = [taken |-> c.taken + 1, token |-> linkTokens',
                                                  startedAt |-> c.started]]
      /\ linkCall' = [linkCall EXCEPT ![k] = LinkIdle]
      /\ UNCHANGED <<linkTime, linkMachines, linkReward, linkRuns, linkCrossed, linkAsks>>
    BY DEF Advance
<1>3. /\ c \in LinkRequests /\ c.now <= linkTime
      /\ c.now - c.started >= (c.taken + 1) * StepWait
      /\ linkCrossed \/ \A r \in linkRuns : r.day < LinkDayOf(c.now)
    BY <1>2, CheckedStep
<1>4. c.now \in Nat /\ c.started \in Nat /\ c.step \in Nat /\ c.taken \in Nat
    BY <1>3 DEF LinkRequests
<1>5. /\ linkRow' \in LinkRows /\ linkRow'.token = linkTokens' /\ linkRow'.stepAt = c.now
      /\ linkRow'.runs = linkRow.runs /\ linkRow'.completed = linkRow.completed
    <2>1. linkTokens' \in Nat /\ c.step + 1 \in Nat
        BY <1>1, <1>2, <1>4
    <2>2. linkRow' \in LinkRows
        BY <2>1, <1>1, <1>2, <1>4 DEF LinkRows
    <2>3. linkRow'.token = linkTokens' /\ linkRow'.stepAt = c.now
        BY <2>1, <1>1, <1>2 DEF LinkRows
    <2>4. linkRow'.runs = linkRow.runs /\ linkRow'.completed = linkRow.completed
        BY <2>1, <1>1, <1>2 DEF LinkRows
    <2> QED
        BY <2>2, <2>3, <2>4
<1> DEFINE next == c.taken + 1
<1>6. next \in Nat /\ c.now - c.started >= next * StepWait
    BY <1>3, <1>4
<1>7. linkPage' = [linkPage EXCEPT ![c.page] = [taken |-> next, token |-> linkTokens', startedAt |-> c.started]]
    BY <1>2
<1>8. /\ c.pc # "idle" /\ linkTokens' = linkTokens + 1
      /\ linkCall' = [linkCall EXCEPT ![k] = LinkIdle]
      /\ UNCHANGED <<linkTime, linkMachines, linkReward, linkRuns, linkCrossed, linkAsks>>
    BY <1>2
<1> DEFINE at == c.now
           started == c.started
           page == c.page
<1>9. /\ at \in Nat /\ started \in Nat /\ at <= linkTime /\ at - started >= next * StepWait
      /\ linkCrossed \/ \A r \in linkRuns : r.day < LinkDayOf(at)
      /\ linkRow' \in LinkRows /\ linkRow'.token = linkTokens' /\ linkRow'.stepAt = at
      /\ linkRow'.runs = linkRow.runs /\ linkRow'.completed = linkRow.completed
      /\ linkPage' = [linkPage EXCEPT ![page] = [taken |-> next, token |-> linkTokens', startedAt |-> started]]
    BY <1>3, <1>4, <1>5, <1>6, <1>7
<1> HIDE DEF next, at, started, page
<1> QED
    BY <1>6, <1>8, <1>9, RowMovesOn

LEMMA FinishRunKeeps == ASSUME LinkInv, NEW k \in LinkCalls, FinishRun(k) PROVE LinkInv'
<1> DEFINE c == linkCall[k]
           run == [day |-> LinkDayOf(c.now), steps |-> c.taken + 1, started |-> c.started, ended |-> c.now]
<1>1. /\ linkRow \in LinkRows /\ linkTime \in Nat /\ linkTokens \in Nat /\ StepWait \in Nat
      /\ linkMachines \in Nat /\ linkRuns \subseteq RunsOfLink
      /\ linkPage \in [LinkPages -> PageStates] /\ linkCall \in [LinkCalls -> LinkRequests]
    BY LinkKinds DEF LinkInv, LinkSafe
<1>2. /\ c.pc = "advance" /\ c.step = TotalSteps
      /\ linkCall' = [linkCall EXCEPT ![k] = LinkIdle]
      /\ UNCHANGED <<linkTime, linkReward, linkTokens, linkCrossed, linkAsks>>
    BY DEF FinishRun
<1>3. /\ c \in LinkRequests /\ c.now <= linkTime
      /\ c.now - c.started >= (c.taken + 1) * StepWait
      /\ linkCrossed \/ \A r \in linkRuns : r.day < LinkDayOf(c.now)
    BY <1>2, CheckedStep
<1>4. c.now \in Nat /\ c.started \in Nat /\ c.taken \in Nat /\ LinkDayOf(c.now) \in Nat /\ LinkDayOf(linkTime) \in Nat
    BY <1>1, <1>3, LinkDaysFollow DEF LinkRequests
<1>5. CASE ~linkReward
    <2>1. UNCHANGED <<linkTime, linkRow, linkMachines, linkReward, linkPage, linkTokens, linkRuns,
                      linkCrossed, linkAsks>>
        BY <1>2, <1>5 DEF FinishRun
    <2> QED
        BY <2>1, <1>1, <1>2, RequestEnds
<1>6. CASE linkReward
    <2>1. /\ linkRow' = [linkRow EXCEPT !.step = 0, !.runs = @ + 1, !.completed = c.now,
                                       !.token = 0, !.stepAt = c.now]
          /\ linkMachines' = linkMachines + 1
          /\ linkRuns' = linkRuns \cup {run}
          /\ linkPage' = [linkPage EXCEPT ![c.page] = BlankPage]
        BY <1>6 DEF FinishRun, LinkDayOf
    <2>2. /\ linkRow' \in LinkRows /\ linkRow'.token = 0 /\ linkRow'.stepAt = c.now
          /\ linkRow'.completed = c.now /\ linkRow'.runs = linkRow.runs + 1 /\ linkRow.runs \in Nat
        <3>1. 0 \in Nat /\ linkRow.runs + 1 \in Nat /\ linkRow.runs \in Nat
            BY <1>1 DEF TotalSteps, LinkRows
        <3>2. linkRow' \in LinkRows
            BY <3>1, <2>1, <1>1, <1>4 DEF LinkRows
        <3>3. /\ linkRow'.token = 0 /\ linkRow'.stepAt = c.now
              /\ linkRow'.completed = c.now /\ linkRow'.runs = linkRow.runs + 1
            BY <2>1, <1>1 DEF LinkRows
        <3> QED
            BY <3>1, <3>2, <3>3
    <2>3. run \in RunsOfLink /\ run.day = LinkDayOf(c.now) /\ run.ended = c.now /\ run.started = c.started
          /\ run.steps = c.taken + 1
        BY <1>4 DEF RunsOfLink
    <2> HIDE DEF run
    <2>4. /\ \A p \in LinkPages : linkPage'[p] = linkPage[p] \/ linkPage'[p] = BlankPage
          /\ \A other \in LinkCalls : linkCall'[other] = IF other = k THEN LinkIdle ELSE linkCall[other]
        BY <2>1, <1>1, <1>2
    <2>5. LinkTypeOK'
        <3>1. linkCall' \in [LinkCalls -> LinkRequests]
            BY <1>1, <1>2, LinkIdleTyped
        <3>2. linkPage' \in [LinkPages -> PageStates]
            BY <2>1, <1>1, BlankTyped
        <3>3. linkRuns' \subseteq RunsOfLink /\ linkMachines' \in Nat
            BY <2>1, <2>3, <1>1
        <3> QED
            BY <3>1, <3>2, <3>3, <2>2, <1>2, LinkKinds DEF LinkTypeOK, LinkRequests, PageStates, RunsOfLink, LinkInv, LinkSafe
    <2>6. DaysAreOfEnds' /\ RunsAreTimed'
        BY <2>1, <2>3, <1>3, <1>4 DEF DaysAreOfEnds, RunsAreTimed, LinkInv, LinkSafe
    <2>7. RunCountsWithMachine'
        <3>1. run \in linkRuns' /\ run.ended = linkRow'.completed
            BY <2>1, <2>2, <2>3
        <3> QED
            BY <3>1, <2>1, <1>1 DEF RunCountsWithMachine
    <2>8. OneRunADay'
        <3> SUFFICES ASSUME ~linkCrossed, NEW a \in linkRuns', NEW b \in linkRuns' \ {a} PROVE a.day # b.day
            BY <1>2 DEF OneRunADay
        <3>1. \A r \in linkRuns : r.day # run.day
            <4> SUFFICES ASSUME NEW r \in linkRuns PROVE r.day # run.day
                OBVIOUS
            <4>1. r.day \in Nat /\ r.day < LinkDayOf(c.now)
                BY <1>1, <1>3 DEF RunsOfLink
            <4> QED
                BY <4>1, <2>3, <1>4
        <3>2. CASE a \in linkRuns /\ b \in linkRuns
            BY <3>2 DEF LinkInv, LinkSafe, OneRunADay
        <3>3. CASE a = run \/ b = run
            BY <3>1, <3>3, <2>1
        <3> QED
            BY <3>2, <3>3, <2>1
    <2>9. DaysDone'
        <3> SUFFICES ASSUME ~linkCrossed PROVE DaysDone'
            BY <1>2 DEF DaysDone
        <3>1. \A r \in linkRuns' : r.ended <= c.now
            <4> SUFFICES ASSUME NEW r \in linkRuns PROVE r.ended <= c.now
                BY <2>1, <2>3, <1>4
            <4>1. r.ended \in Nat /\ r.day = LinkDayOf(r.ended) /\ r.day < LinkDayOf(c.now) /\ r.day \in Nat
                BY <1>1, <1>3 DEF RunsOfLink, LinkInv, DaysAreOfEnds
            <4>2. CASE c.now <= r.ended
                <5>1. LinkDayOf(c.now) <= LinkDayOf(r.ended)
                    BY <4>1, <4>2, <1>4, LinkDaysFollow
                <5> QED
                    BY <5>1, <4>1, <1>4
            <4> QED
                BY <4>1, <4>2, <1>4
        <3> QED
            BY <3>1, <2>2, <1>2, <1>3 DEF DaysDone
    <2>10. LoneLinkCall' /\ LinkReadStands'
        <3> SUFFICES ASSUME ~linkCrossed PROVE LoneLinkCall' /\ LinkReadStands'
            BY <1>2 DEF LoneLinkCall, LinkReadStands
        <3>1. \A other \in LinkCalls : linkCall'[other].pc = "idle"
            BY <2>4, <1>2, LinkIdleTyped DEF LoneLinkCall, LinkInv
        <3> QED
            BY <3>1 DEF LoneLinkCall, LinkReadStands
    <2>11. TokensMade'
        BY <2>2, <2>4, <1>1, <1>2, BlankTyped, LinkIdleTyped DEF TokensMade, LinkInv
    <2>12. StepsHaveTokens'
        <3>2. ASSUME NEW other \in LinkCalls
              PROVE  /\ linkCall'[other].now <= linkTime'
                     /\ linkCall'[other].pc \in {"step", "resetStep", "check", "advance"}
                           => linkCall'[other].token # 0
                     /\ linkCall'[other].pc = "advance"
                           => TokenMatches(linkCall'[other]) /\ SlowEnough(linkCall'[other])
            <4>1. CASE other = k
                BY <4>1, <2>4, <1>1, <1>2, LinkIdleTyped
            <4>2. CASE other # k
                BY <4>2, <2>4, <1>2 DEF StepsHaveTokens, LinkInv
            <4> QED
                BY <4>1, <4>2
        <3> QED
            BY <3>2 DEF StepsHaveTokens, TokenMatches, SlowEnough
    <2>13. StepsTimed'
        <3> DEFINE later(row) ==
                  /\ \A p \in LinkPages :
                        Timed(row, linkPage'[p].taken, linkPage'[p].token, linkPage'[p].startedAt)
                  /\ \A other \in LinkCalls :
                        Timed(row, linkCall'[other].taken, linkCall'[other].token, linkCall'[other].started)
        <3>1. ASSUME NEW row, WalkTimed(row) PROVE later(row)
            BY <3>1, <2>4, BlankTyped, LinkIdleTyped DEF WalkTimed, Timed
        <3>2. later(linkRow') /\ later(LinkIdle.row)
            BY <2>2, LinkIdleTyped DEF Timed
        <3>3. ASSUME NEW other \in LinkCalls PROVE later(linkCall'[other].row)
            <4>1. later(linkCall[other].row)
                BY <3>1 DEF StepsTimed, LinkInv
            <4> HIDE DEF later
            <4> QED
                BY <4>1, <3>2, <2>4
        <3> QED
            BY <3>2, <3>3 DEF StepsTimed, WalkTimed, Timed
    <2> QED
        BY <2>5, <2>6, <2>7, <2>8, <2>9, <2>10, <2>11, <2>12, <2>13 DEF LinkInv, LinkSafe
<1> QED
    BY <1>1, <1>5, <1>6

LEMMA LinkStepKeeps == ASSUME LinkInv, NEW k \in LinkCalls, LinkStep(k) PROVE LinkInv'
<1>1. linkTime \in Nat /\ linkPage \in [LinkPages -> PageStates]
    BY LinkKinds DEF LinkInv, LinkSafe
<1>2. CASE AskStatus(k)
    <2> DEFINE request == [LinkIdle EXCEPT !.pc = "status"]
    <2>1. /\ request \in LinkRequests /\ request.pc = "status" /\ request.token = 0 /\ request.row.token = 0
          /\ request.now = 0 /\ AskLink(k, request)
        BY <1>2, LinkIdleTyped DEF AskStatus, LinkRequests
    <2> HIDE DEF request
    <2> QED
        BY <2>1, <1>1, AskLinkKeeps
<1>3. ASSUME NEW p \in LinkPages, AskStart(k, p) PROVE LinkInv'
    <2> DEFINE request == [LinkIdle EXCEPT !.pc = "start", !.page = p]
    <2>1. /\ request \in LinkRequests /\ request.pc = "start" /\ request.token = 0 /\ request.row.token = 0
          /\ request.now = 0 /\ AskLink(k, request)
        BY <1>3, LinkIdleTyped DEF AskStart, LinkRequests
    <2> HIDE DEF request
    <2> QED
        BY <2>1, <1>1, AskLinkKeeps
<1>4. ASSUME NEW p \in LinkPages, NEW n \in StepNumbers, AskStep(k, p, n) PROVE LinkInv'
    <2> DEFINE request == [LinkIdle EXCEPT !.pc = "step", !.page = p, !.step = n, !.now = linkTime,
                                         !.token = linkPage[p].token, !.taken = linkPage[p].taken,
                                         !.started = linkPage[p].startedAt]
    <2>1. /\ linkPage[p].taken \in Nat /\ linkPage[p].token \in Nat /\ linkPage[p].startedAt \in Nat
          /\ linkPage[p].token # 0 /\ n \in Nat
        BY <1>1, <1>4, LinkAssumption DEF PageStates, AskStep
    <2>2. request \in LinkRequests
        BY <2>1, <1>1, LinkIdleTyped DEF LinkRequests
    <2>3. /\ request.pc = "step" /\ request.taken = linkPage[p].taken /\ request.token = linkPage[p].token
          /\ request.started = linkPage[p].startedAt /\ request.now = linkTime /\ request.row.token = 0
          /\ AskLink(k, request)
        BY <1>4, LinkIdleTyped DEF AskStep, LinkRequests
    <2> HIDE DEF request
    <2> QED
        BY <2>1, <2>2, <2>3, <1>1, AskLinkKeeps
<1>5. CASE LinkThrows(k)
    <2>1. linkRow \in LinkRows
        BY LinkKinds DEF LinkInv, LinkSafe
    <2> QED
        BY <2>1, <1>1, <1>5, RequestEnds DEF LinkThrows
<1> QED
    BY <1>2, <1>3, <1>4, <1>5, ReadLinkKeeps, ResetLinkKeeps, BeginRunKeeps, CheckStepKeeps,
       AdvanceKeeps, FinishRunKeeps DEF LinkStep

(* LinkSafe for any waits and days, any number of pages and requests and any *)
(* step numbers sent: a run takes a wait for every step accepted since its   *)
(* token was made and counts only with its machine, however requests         *)
(* overlap, and there is one a day unless they do.                           *)
THEOREM LinkHolds == LinkSpec => []LinkSafe
<1>1. LinkInit => LinkInv
    BY LinkInitially
<1>2. LinkInv /\ [LinkNext]_linkVars => LinkInv'
    <2> SUFFICES ASSUME LinkInv, [LinkNext]_linkVars PROVE LinkInv'
        OBVIOUS
    <2>1. CASE LinkTick
        BY <2>1, LinkTickKeeps
    <2>2. ASSUME NEW k \in LinkCalls, LinkStep(k) PROVE LinkInv'
        BY <2>2, LinkStepKeeps
    <2>3. CASE UNCHANGED linkVars
        BY <2>3 DEF linkVars, LinkInv, LinkSafe, LinkTypeOK, OneRunADay, RunsAreTimed, RunCountsWithMachine,
                    TokensMade, StepsTimed, WalkTimed, Timed, StepsHaveTokens, TokenMatches, SlowEnough,
                    LoneLinkCall, LinkReadStands, DaysDone, DaysAreOfEnds
    <2> QED
        BY <2>1, <2>2, <2>3 DEF LinkNext
<1>3. LinkInv => LinkSafe
    BY DEF LinkInv
<1> QED
    BY <1>1, <1>2, <1>3, PTL DEF LinkSpec

-----------------------------------------------------------------------------
(* What is watched, claimed and mined, for any number of cards and requests. *)

WatchRequests == [pc : WatchPc, kind : {"youtube", "auto-mining"}, now : Nat,
                  card : Cards \cup {"none"}, total : Nat, id : Nat]
CardStates == [state : {"none", "free", "claimed"}, releasedAt : Nat, claimedAt : Nat]
Watched == [id : Nat, at : Nat]

RackCards == {g \in Cards : cardItem[g] = "rack"}
LiveVideoPower == {v \in videoPower : Young(v.at)}

\* A request past its beginning has looked at the clock, and one about a card is about
\* one that was released.
RequestsLook ==
    /\ watchTime > 0
    /\ \A k \in WatchCalls :
          LET c == watchCall[k]
          IN  /\ c.pc # "idle" => c.now > 0
              /\ c.pc \in {"card", "cardLimit", "cardSeconds", "buyCard"} => c.card \in Cards

\* While no two requests were in flight together there is one at most, ...
LoneWatchCall ==
    watchCrossed \/ \A k, other \in WatchCalls :
        watchCall[k].pc = "idle" \/ watchCall[other].pc = "idle" \/ k = other

\* ... what it has found is still so, ...
Stands(c) ==
    /\ c.pc = "count" => lastBeat = 0 \/ c.now - lastBeat >= BeatGap
    /\ c.pc \in {"videoLimit", "buyVideo"} => seconds["youtube"] >= VideoPrice
    /\ c.pc = "buyVideo" => Cardinality(VideosLately) < VideoLimit
    /\ c.pc \in {"last", "releaseSeconds", "release"} => FreeCards = {}
    /\ c.pc \in {"cardLimit", "cardSeconds", "buyCard"} => card[c.card].state = "free"
    /\ c.pc \in {"cardSeconds", "buyCard"} => Cardinality(ClaimedLately) < CardLimit
    /\ c.pc = "buyCard" => seconds["auto-mining"] >= CardPrice
    /\ c.pc = "assign" => c.total >= HashRate
FindingsStand == watchCrossed \/ \A k \in WatchCalls : Stands(watchCall[k])

\* ... the last heartbeat is the one remembered, and a card not claimed was never.
LastBeatKnown == watchCrossed \/ \A b \in beats : b > 0 /\ b <= lastBeat
UnclaimedAsYet == watchCrossed \/ \A g \in Cards : card[g].state # "claimed" => cardClaims[g] = 0

WatchInv ==
    /\ WatchSafe /\ IsFiniteSet(videos) /\ IsFiniteSet(videoPower)
    /\ RequestsLook /\ LoneWatchCall /\ FindingsStand /\ LastBeatKnown /\ UnclaimedAsYet

LEMMA WatchKinds ==
    ASSUME WatchTypeOK
    PROVE  /\ watchTime \in Nat /\ lastBeat \in Nat /\ engineRate \in Nat /\ watchAsks \in Nat
           /\ seconds \in [{"youtube", "auto-mining"} -> Int]
           /\ videos \subseteq Watched /\ videoPower \subseteq Watched
           /\ card \in [Cards -> CardStates]
           /\ cardItem \in [Cards -> {"none", "timed", "lasting", "rack"}]
           /\ watchCall \in [WatchCalls -> WatchRequests]
           /\ beats \subseteq Nat /\ cardClaims \in [Cards -> Nat]
           /\ syncMissed \in BOOLEAN /\ watchCrossed \in BOOLEAN
BY DEF WatchTypeOK, WatchRequests, CardStates, Watched

LEMMA WatchTyped ==
    ASSUME watchTime \in Nat, lastBeat \in Nat, engineRate \in Nat, watchAsks \in Nat,
           seconds \in [{"youtube", "auto-mining"} -> Int],
           videos \subseteq Watched, videoPower \subseteq Watched,
           card \in [Cards -> CardStates],
           cardItem \in [Cards -> {"none", "timed", "lasting", "rack"}],
           watchCall \in [WatchCalls -> WatchRequests],
           beats \subseteq Nat, cardClaims \in [Cards -> Nat],
           syncMissed \in BOOLEAN, watchCrossed \in BOOLEAN
    PROVE  WatchTypeOK
BY DEF WatchTypeOK, WatchRequests, CardStates, Watched

LEMMA WatchIdleTyped == WatchIdle \in WatchRequests /\ WatchIdle.pc = "idle"
BY DEF WatchIdle, WatchRequests, WatchPc

\* The sets that are counted are finite, and fewer members make no greater number.
LEMMA RateCounts ==
    ASSUME IsFiniteSet(videoPower), IsFiniteSet(videos)
    PROVE  /\ IsFiniteSet(RackCards) /\ IsFiniteSet(LiveVideoPower) /\ IsFiniteSet(ClaimedLately)
           /\ IsFiniteSet(VideosLately)
           /\ Cardinality(RackCards) \in Nat /\ Cardinality(LiveVideoPower) \in Nat
           /\ Cardinality(ClaimedLately) \in Nat /\ Cardinality(VideosLately) \in Nat
           /\ HashRate = Cardinality(RackCards) + Cardinality(LiveVideoPower) + Cardinality(ClaimedLately)
           /\ HashRate \in Nat
<1>1. RackCards \subseteq Cards /\ ClaimedLately \subseteq Cards /\ LiveVideoPower \subseteq videoPower
      /\ VideosLately \subseteq videos
    BY DEF RackCards, ClaimedLately, LiveVideoPower, VideosLately
<1>2. /\ IsFiniteSet(RackCards) /\ IsFiniteSet(LiveVideoPower) /\ IsFiniteSet(ClaimedLately)
      /\ IsFiniteSet(VideosLately)
    BY <1>1, FS_Subset, WatchAssumption
<1>3. /\ Cardinality(RackCards) \in Nat /\ Cardinality(LiveVideoPower) \in Nat
      /\ Cardinality(ClaimedLately) \in Nat /\ Cardinality(VideosLately) \in Nat
    BY <1>2, FS_CardinalityType
<1>4. HashRate = Cardinality(RackCards) + Cardinality(LiveVideoPower) + Cardinality(ClaimedLately)
    BY DEF HashRate, RackCards, LiveVideoPower
<1> QED
    BY <1>2, <1>3, <1>4

LEMMA RateShrinks ==
    ASSUME IsFiniteSet(videoPower), IsFiniteSet(videos), IsFiniteSet(videoPower'), IsFiniteSet(videos'),
           RackCards' \subseteq RackCards, LiveVideoPower' \subseteq LiveVideoPower,
           ClaimedLately' \subseteq ClaimedLately
    PROVE  HashRate' \in Nat /\ HashRate \in Nat /\ HashRate' <= HashRate
<1>1. /\ Cardinality(RackCards') <= Cardinality(RackCards)
      /\ Cardinality(LiveVideoPower') <= Cardinality(LiveVideoPower)
      /\ Cardinality(ClaimedLately') <= Cardinality(ClaimedLately)
    BY RateCounts, FS_Subset
<1>2. RackCards' \subseteq Cards /\ ClaimedLately' \subseteq Cards /\ LiveVideoPower' \subseteq videoPower'
    BY DEF RackCards, ClaimedLately, LiveVideoPower
<1>3. /\ Cardinality(RackCards') \in Nat /\ Cardinality(LiveVideoPower') \in Nat
      /\ Cardinality(ClaimedLately') \in Nat
    BY <1>2, FS_Subset, FS_CardinalityType, WatchAssumption
<1>4. HashRate' = Cardinality(RackCards') + Cardinality(LiveVideoPower') + Cardinality(ClaimedLately')
    BY DEF HashRate, RackCards, LiveVideoPower
<1> QED
    BY <1>1, <1>3, <1>4, RateCounts

\* One more member counts for one at most.
LEMMA OneMore ==
    ASSUME NEW S, IsFiniteSet(S), NEW x
    PROVE  /\ IsFiniteSet(S \cup {x}) /\ Cardinality(S) \in Nat
           /\ Cardinality(S \cup {x}) \in Nat /\ Cardinality(S \cup {x}) <= Cardinality(S) + 1
<1>1. Cardinality(S) \in Nat
    BY FS_CardinalityType
<1>2. IsFiniteSet(S \cup {x}) /\ (Cardinality(S \cup {x}) = Cardinality(S) \/ Cardinality(S \cup {x}) = Cardinality(S) + 1)
    <2>1. CASE x \in S
        BY <2>1, FS_AddElement
    <2>2. CASE x \notin S
        BY <2>2, FS_AddElement
    <2> QED
        BY <2>1, <2>2
<1> QED
    BY <1>1, <1>2

LEMMA WatchInitially == WatchInit => WatchInv
<1> SUFFICES ASSUME WatchInit PROVE WatchInv
    OBVIOUS
<1> USE DEF WatchInit
<1>1. WatchTypeOK
    <2>1. Unreleased \in CardStates /\ 1 \in Nat /\ 0 \in Nat /\ 0 \in Int
        BY DEF Unreleased, CardStates
    <2> QED
        BY <2>1, WatchTyped, WatchIdleTyped DEF Watched
<1>2. IsFiniteSet(videos) /\ IsFiniteSet(videoPower)
    BY FS_EmptySet
<1>3. FreeCards = {} /\ ClaimedLately = {} /\ RackCards = {} /\ LiveVideoPower = {} /\ VideosLately = {}
    BY DEF FreeCards, ClaimedLately, RackCards, LiveVideoPower, VideosLately, Unreleased
<1>4. Cardinality({}) = 0
    BY FS_EmptySet
<1>5. HashRate = 0
    BY <1>2, <1>3, <1>4, RateCounts
<1>6. BeatsApart /\ SecondsCoverClaims /\ RequestsLook /\ LoneWatchCall /\ LastBeatKnown
    BY WatchIdleTyped DEF BeatsApart, SecondsCoverClaims, RequestsLook, LoneWatchCall, LastBeatKnown
<1>7. CardsOneAtATime /\ ClaimsWithinLimits /\ RateIncludesClaims /\ UnclaimedAsYet
    BY <1>3, <1>4, <1>5, WatchAssumption
       DEF CardsOneAtATime, ClaimsWithinLimits, RateIncludesClaims, UnclaimedAsYet
<1>8. FindingsStand
    BY WatchIdleTyped DEF FindingsStand, Stands
<1> QED
    BY <1>1, <1>2, <1>6, <1>7, <1>8 DEF WatchInv, WatchSafe

WatchRows == <<watchTime, lastBeat, seconds, videos, videoPower, card, cardItem, engineRate, beats, cardClaims>>

\* A request that only reads goes on with what it found, or ends.
LEMMA WatchRequestMoves ==
    ASSUME WatchInv, NEW k \in WatchCalls, watchCall[k].pc # "idle", NEW request \in WatchRequests,
           watchCall' = [watchCall EXCEPT ![k] = request],
           UNCHANGED WatchRows, UNCHANGED <<watchCrossed, watchAsks>>,
           syncMissed' \in BOOLEAN, syncMissed => syncMissed',
           request.pc # "idle" => request.now = watchCall[k].now,
           request.pc \in {"card", "cardLimit", "cardSeconds", "buyCard"} => request.card \in Cards,
           watchCrossed \/ Stands(request),
           watchCall[k].pc \in {"sync", "assign"} => request.pc \in {"sync", "assign"} \/ syncMissed'
    PROVE  WatchInv'
<1> USE DEF WatchInv, WatchSafe, WatchRows
<1>1. \A other \in WatchCalls : watchCall'[other] = IF other = k THEN request ELSE watchCall[other]
    BY WatchKinds
<1>2. WatchTypeOK'
    <2>1. watchCall' \in [WatchCalls -> WatchRequests]
        BY WatchKinds
    <2> QED
        BY <2>1, WatchKinds DEF WatchTypeOK, WatchRequests, CardStates, Watched
<1>3. HashRate' = HashRate /\ FreeCards' = FreeCards /\ ClaimedLately' = ClaimedLately
      /\ VideosLately' = VideosLately
    BY DEF HashRate, FreeCards, ClaimedLately, VideosLately, Young
<1>4. BeatsApart' /\ SecondsCoverClaims' /\ LastBeatKnown' /\ UnclaimedAsYet'
    BY DEF BeatsApart, SecondsCoverClaims, LastBeatKnown, UnclaimedAsYet
<1>5. CardsOneAtATime' /\ ClaimsWithinLimits'
    BY <1>3 DEF CardsOneAtATime, ClaimsWithinLimits
<1>6. RateIncludesClaims'
    BY <1>1, <1>3 DEF RateIncludesClaims
<1>7. RequestsLook'
    BY <1>1 DEF RequestsLook
<1>8. LoneWatchCall'
    BY <1>1 DEF LoneWatchCall
<1>9. FindingsStand'
    <2> SUFFICES ASSUME ~watchCrossed, NEW other \in WatchCalls PROVE Stands(watchCall[other])'
        BY DEF FindingsStand
    <2>1. Stands(watchCall'[other])
        BY <1>1 DEF FindingsStand
    <2> QED
        BY <2>1, <1>3 DEF Stands
<1> QED
    BY <1>2, <1>4, <1>5, <1>6, <1>7, <1>8, <1>9

\* A request ends, or writes and goes on to pass the rate on: what others found is as it was,
\* for alone there are no others.
LEMMA WatchWriterAlone ==
    ASSUME WatchInv, NEW k \in WatchCalls, watchCall[k].pc # "idle", NEW request \in WatchRequests,
           watchCall' = [watchCall EXCEPT ![k] = request], UNCHANGED watchCrossed,
           UNCHANGED watchTime, request.pc \in {"idle", "sync"}, request.pc # "idle" => request.now = watchCall[k].now
    PROVE  /\ \A other \in WatchCalls : watchCall'[other] = IF other = k THEN request ELSE watchCall[other]
           /\ LoneWatchCall' /\ FindingsStand' /\ RequestsLook'
           /\ ~watchCrossed => \A other \in WatchCalls : other # k => watchCall'[other].pc = "idle"
           /\ watchCall' \in [WatchCalls -> WatchRequests]
<1> USE DEF WatchInv, WatchSafe
<1>1. \A other \in WatchCalls : watchCall'[other] = IF other = k THEN request ELSE watchCall[other]
    BY WatchKinds
<1>2. ~watchCrossed => \A other \in WatchCalls : other # k => watchCall'[other].pc = "idle"
    BY <1>1 DEF LoneWatchCall
<1>3. LoneWatchCall'
    BY <1>1 DEF LoneWatchCall
<1>4. FindingsStand'
    BY <1>1, <1>2 DEF FindingsStand, Stands
<1>5. RequestsLook'
    BY <1>1 DEF RequestsLook
<1>6. watchCall' \in [WatchCalls -> WatchRequests]
    BY WatchKinds
<1> QED
    BY <1>1, <1>2, <1>3, <1>4, <1>5, <1>6

LEMMA WatchTickKeeps == ASSUME WatchInv, WatchTick PROVE WatchInv'
<1> USE DEF WatchInv, WatchSafe
<1>0. /\ watchTime' = watchTime + 1 /\ watchTime \in Nat
      /\ UNCHANGED <<lastBeat, seconds, videos, videoPower, card, cardItem, engineRate, watchCall, beats,
                     cardClaims, syncMissed, watchCrossed, watchAsks>>
    BY DEF WatchTick, WatchTypeOK
<1>1. WatchTypeOK'
    BY <1>0 DEF WatchTypeOK
<1>2. /\ \A g \in Cards : card[g].claimedAt \in Nat
      /\ \A v \in videos : v.at \in Nat /\ \A v2 \in videoPower : v2.at \in Nat
      /\ PowerLife \in Nat
    BY WatchKinds, WatchAssumption DEF CardStates, Watched
<1>3. \A v \in videoPower : v.at \in Nat
    BY WatchKinds DEF Watched
<1>4. /\ ClaimedLately' \subseteq ClaimedLately /\ VideosLately' \subseteq VideosLately
      /\ LiveVideoPower' \subseteq LiveVideoPower /\ RackCards' = RackCards /\ FreeCards' = FreeCards
    BY <1>0, <1>2, <1>3 DEF ClaimedLately, VideosLately, LiveVideoPower, RackCards, FreeCards, Young
<1>5. IsFiniteSet(videos') /\ IsFiniteSet(videoPower')
    BY <1>0
<1>6. HashRate' \in Nat /\ HashRate \in Nat /\ HashRate' <= HashRate
    BY <1>4, <1>5, RateShrinks
<1>7. /\ Cardinality(ClaimedLately') <= Cardinality(ClaimedLately)
      /\ Cardinality(VideosLately') <= Cardinality(VideosLately)
    BY <1>4, RateCounts, FS_Subset
<1>8. /\ Cardinality(ClaimedLately') \in Nat /\ Cardinality(VideosLately') \in Nat
      /\ Cardinality(ClaimedLately) \in Nat /\ Cardinality(VideosLately) \in Nat
    BY <1>4, RateCounts, FS_Subset, FS_CardinalityType
<1>9. BeatsApart' /\ SecondsCoverClaims' /\ LastBeatKnown' /\ UnclaimedAsYet' /\ LoneWatchCall'
    BY <1>0 DEF BeatsApart, SecondsCoverClaims, LastBeatKnown, UnclaimedAsYet, LoneWatchCall
<1>10. CardsOneAtATime' /\ ClaimsWithinLimits'
    BY <1>0, <1>4, <1>7, <1>8, WatchAssumption DEF CardsOneAtATime, ClaimsWithinLimits
<1>11. RateIncludesClaims'
    BY <1>0, <1>6, WatchKinds DEF RateIncludesClaims
<1>12. RequestsLook'
    BY <1>0 DEF RequestsLook
<1>13. FindingsStand'
    <2> SUFFICES ASSUME ~watchCrossed, NEW k \in WatchCalls PROVE Stands(watchCall[k])'
        BY <1>0 DEF FindingsStand
    <2>1. Stands(watchCall[k]) /\ watchCall[k].total \in Nat
        BY WatchKinds DEF FindingsStand, WatchRequests
    <2> QED
        BY <2>1, <1>0, <1>4, <1>6, <1>7, <1>8, WatchAssumption DEF Stands
<1> QED
    BY <1>1, <1>5, <1>9, <1>10, <1>11, <1>12, <1>13

LEMMA CleanUpKeeps == ASSUME WatchInv, CleanUp PROVE WatchInv'
<1> USE DEF WatchInv, WatchSafe
<1> DEFINE over == {g \in Cards : cardItem[g] = "timed" /\ ~Young(card[g].claimedAt)}
<1>0. /\ cardItem' = [g \in Cards |-> IF g \in over THEN "none" ELSE cardItem[g]]
      /\ videoPower' = {v \in videoPower : Young(v.at)}
      /\ UNCHANGED <<watchTime, lastBeat, seconds, videos, card, engineRate, watchCall, beats, cardClaims, syncMissed,
                     watchCrossed, watchAsks>>
    BY DEF CleanUp
<1>1. WatchTypeOK'
    <2>1. cardItem' \in [Cards -> {"none", "timed", "lasting", "rack"}] /\ videoPower' \subseteq Watched
        BY <1>0, WatchKinds
    <2> QED
        BY <2>1, <1>0, WatchKinds DEF WatchTypeOK, WatchRequests, CardStates, Watched
<1>2. IsFiniteSet(videos') /\ IsFiniteSet(videoPower')
    <2>1. videoPower' \subseteq videoPower
        BY <1>0
    <2> QED
        BY <2>1, <1>0, FS_Subset
<1>3. /\ ClaimedLately' = ClaimedLately /\ VideosLately' = VideosLately /\ FreeCards' = FreeCards
      /\ LiveVideoPower' \subseteq LiveVideoPower /\ RackCards' \subseteq RackCards
    BY <1>0 DEF ClaimedLately, VideosLately, LiveVideoPower, RackCards, FreeCards, Young
<1>4. HashRate' \in Nat /\ HashRate \in Nat /\ HashRate' <= HashRate
    BY <1>2, <1>3, RateShrinks
<1>5. BeatsApart' /\ SecondsCoverClaims' /\ LastBeatKnown' /\ UnclaimedAsYet' /\ LoneWatchCall' /\ RequestsLook'
    BY <1>0 DEF BeatsApart, SecondsCoverClaims, LastBeatKnown, UnclaimedAsYet, LoneWatchCall, RequestsLook
<1>6. CardsOneAtATime' /\ ClaimsWithinLimits'
    BY <1>0, <1>3 DEF CardsOneAtATime, ClaimsWithinLimits
<1>7. RateIncludesClaims'
    BY <1>0, <1>4, WatchKinds DEF RateIncludesClaims
<1>8. FindingsStand'
    <2> SUFFICES ASSUME ~watchCrossed, NEW k \in WatchCalls PROVE Stands(watchCall[k])'
        BY <1>0 DEF FindingsStand
    <2>1. Stands(watchCall[k]) /\ watchCall[k].total \in Nat
        BY WatchKinds DEF FindingsStand, WatchRequests
    <2> QED
        BY <2>1, <1>0, <1>3, <1>4 DEF Stands
<1> QED
    BY <1>1, <1>2, <1>5, <1>6, <1>7, <1>8

LEMMA WatchRestartKeeps == ASSUME WatchInv, WatchRestart PROVE WatchInv'
<1> USE DEF WatchInv, WatchSafe
<1>0. /\ watchCall' = [k \in WatchCalls |-> WatchIdle]
      /\ engineRate' = HashRate /\ syncMissed' = FALSE
      /\ UNCHANGED <<watchTime, lastBeat, seconds, videos, videoPower, card, cardItem, beats, cardClaims,
                     watchCrossed, watchAsks>>
    BY DEF WatchRestart
<1>1. HashRate' = HashRate /\ FreeCards' = FreeCards /\ ClaimedLately' = ClaimedLately
      /\ VideosLately' = VideosLately /\ HashRate \in Nat
    BY <1>0, RateCounts DEF HashRate, FreeCards, ClaimedLately, VideosLately, Young
<1>2. WatchTypeOK'
    <2>1. watchCall' \in [WatchCalls -> WatchRequests] /\ engineRate' \in Nat
        BY <1>0, <1>1, WatchIdleTyped
    <2> QED
        BY <2>1, <1>0, WatchKinds DEF WatchTypeOK, WatchRequests, CardStates, Watched
<1>3. BeatsApart' /\ SecondsCoverClaims' /\ LastBeatKnown' /\ UnclaimedAsYet'
    BY <1>0 DEF BeatsApart, SecondsCoverClaims, LastBeatKnown, UnclaimedAsYet
<1>4. CardsOneAtATime' /\ ClaimsWithinLimits'
    BY <1>0, <1>1 DEF CardsOneAtATime, ClaimsWithinLimits
<1>5. RateIncludesClaims'
    BY <1>0, <1>1 DEF RateIncludesClaims
<1>6. LoneWatchCall' /\ RequestsLook' /\ FindingsStand'
    BY <1>0, WatchIdleTyped DEF LoneWatchCall, RequestsLook, FindingsStand, Stands
<1>7. IsFiniteSet(videos') /\ IsFiniteSet(videoPower')
    BY <1>0
<1> QED
    BY <1>2, <1>3, <1>4, <1>5, <1>6, <1>7

\* A request that begins disturbs nothing but, where it moves a machine, the rate.
LEMMA ArrivalKeeps ==
    ASSUME WatchInv, NEW k \in WatchCalls, NEW pc \in {"beat", "video", "free", "card", "sync"},
           NEW kind \in {"youtube", "auto-mining"}, NEW g \in Cards \cup {"none"},
           pc = "card" => g \in Cards, Arrives(k, pc, kind, g),
           cardItem' \in [Cards -> {"none", "timed", "lasting", "rack"}],
           cardItem' = cardItem \/ pc = "sync"
    PROVE  WatchInv'
<1> USE DEF WatchInv, WatchSafe
<1> DEFINE request == [WatchIdle EXCEPT !.pc = pc, !.kind = kind, !.card = g, !.now = watchTime, !.id = watchAsks']
<1>0. /\ watchCrossed' = (watchCrossed \/ \E other \in WatchCalls : watchCall[other].pc # "idle")
      /\ watchAsks' = watchAsks + 1 /\ watchCall[k].pc = "idle"
      /\ watchCall' = [watchCall EXCEPT ![k] = request]
      /\ UNCHANGED <<watchTime, lastBeat, seconds, videos, videoPower, card, engineRate, beats, cardClaims,
                     syncMissed>>
    BY DEF Arrives
<1>1. watchAsks' \in Nat /\ watchTime \in Nat /\ watchTime > 0 /\ watchCrossed' \in BOOLEAN
    BY <1>0, WatchKinds DEF RequestsLook
<1>2. request \in WatchRequests /\ request.pc = pc /\ request.now = watchTime /\ request.card = g
    BY <1>1, WatchIdleTyped DEF WatchRequests, WatchPc
<1> HIDE DEF request
<1>3. \A other \in WatchCalls : watchCall'[other] = IF other = k THEN request ELSE watchCall[other]
    BY <1>0, WatchKinds
<1>4. WatchTypeOK'
    <2>1. watchCall' \in [WatchCalls -> WatchRequests]
        BY <1>0, <1>2, WatchKinds
    <2> QED
        BY <2>1, <1>0, <1>1, WatchKinds DEF WatchTypeOK, WatchRequests, CardStates, Watched
<1>5. FreeCards' = FreeCards /\ ClaimedLately' = ClaimedLately /\ VideosLately' = VideosLately
    BY <1>0 DEF FreeCards, ClaimedLately, VideosLately, Young
<1>6. BeatsApart' /\ SecondsCoverClaims' /\ LastBeatKnown' /\ UnclaimedAsYet'
    BY <1>0 DEF BeatsApart, SecondsCoverClaims, LastBeatKnown, UnclaimedAsYet
<1>7. CardsOneAtATime' /\ ClaimsWithinLimits'
    BY <1>0, <1>5 DEF CardsOneAtATime, ClaimsWithinLimits
<1>8. RateIncludesClaims'
    <2>1. CASE cardItem' = cardItem
        <3>1. HashRate' = HashRate
            BY <2>1, <1>0, <1>5 DEF HashRate, Young
        <3> QED
            BY <3>1, <1>0, <1>3 DEF RateIncludesClaims
    <2>2. CASE pc = "sync"
        BY <2>2, <1>2, <1>3 DEF RateIncludesClaims
    <2> QED
        BY <2>1, <2>2
<1>9. RequestsLook'
    BY <1>0, <1>1, <1>2, <1>3 DEF RequestsLook
<1>10. LoneWatchCall' /\ FindingsStand'
    <2> SUFFICES ASSUME ~watchCrossed' PROVE LoneWatchCall' /\ FindingsStand'
        BY DEF LoneWatchCall, FindingsStand
    <2>1. \A other \in WatchCalls : other # k => watchCall'[other].pc = "idle"
        BY <1>0, <1>3
    <2>2. watchCall'[k].pc \in {"beat", "video", "free", "card", "sync"}
        BY <1>2, <1>3
    <2>3. LoneWatchCall'
        BY <2>1 DEF LoneWatchCall
    <2>4. FindingsStand'
        BY <2>1, <2>2 DEF FindingsStand, Stands
    <2> QED
        BY <2>3, <2>4
<1>11. IsFiniteSet(videos') /\ IsFiniteSet(videoPower')
    BY <1>0
<1> QED
    BY <1>4, <1>6, <1>7, <1>8, <1>9, <1>10, <1>11

LEMMA AskWatchKeeps ==
    ASSUME WatchInv, NEW k \in WatchCalls, NEW pc \in {"beat", "video", "free", "card"},
           NEW kind \in {"youtube", "auto-mining"}, NEW g \in Cards \cup {"none"},
           pc = "card" => g \in Cards, AskWatch(k, pc, kind, g)
    PROVE  WatchInv'
<1>1. Arrives(k, pc, kind, g) /\ cardItem' = cardItem
    BY DEF AskWatch
<1>2. cardItem' \in [Cards -> {"none", "timed", "lasting", "rack"}]
    BY <1>1, WatchKinds DEF WatchInv, WatchSafe
<1> QED
    BY <1>1, <1>2, ArrivalKeeps

LEMMA MoveMachineKeeps ==
    ASSUME WatchInv, NEW k \in WatchCalls, NEW g \in Cards, MoveMachine(k, g) PROVE WatchInv'
<1>1. /\ Arrives(k, "sync", "auto-mining", g)
      /\ cardItem' = [cardItem EXCEPT ![g] = "rack"] \/ cardItem' = [cardItem EXCEPT ![g] = "lasting"]
    BY DEF MoveMachine
<1>2. cardItem' \in [Cards -> {"none", "timed", "lasting", "rack"}]
    BY <1>1, WatchKinds DEF WatchInv, WatchSafe
<1> QED
    BY <1>1, <1>2, ArrivalKeeps

\* Each judgment leaves the request with what the next step goes by.
LEMMA JudgeKeeps ==
    ASSUME WatchInv, NEW k \in WatchCalls, NEW from \in WatchPc \ {"idle", "sync", "assign"},
           NEW passes \in BOOLEAN, NEW to \in WatchPc, Judge(k, from, passes, to),
           to \in {"cardLimit", "cardSeconds", "buyCard"} => from \in {"card", "cardLimit", "cardSeconds"},
           to # "card",
           passes => watchCrossed \/ Stands([watchCall[k] EXCEPT !.pc = to])
    PROVE  WatchInv'
<1> DEFINE request == IF passes THEN [watchCall[k] EXCEPT !.pc = to] ELSE WatchIdle
<1>0. /\ watchCall[k].pc = from
      /\ watchCall' = [watchCall EXCEPT ![k] = request]
      /\ UNCHANGED WatchRows /\ UNCHANGED <<syncMissed, watchCrossed, watchAsks>>
    BY DEF Judge, WatchRows
<1>1. watchCall[k] \in WatchRequests
    BY WatchKinds DEF WatchInv, WatchSafe
<1>2. /\ request \in WatchRequests /\ request.pc \in {"idle", to}
      /\ request.pc # "idle" => request.now = watchCall[k].now /\ request.card = watchCall[k].card
    BY <1>1, WatchIdleTyped DEF WatchRequests
<1>3. request.pc \in {"card", "cardLimit", "cardSeconds", "buyCard"} => request.card \in Cards
    BY <1>0, <1>2 DEF WatchInv, RequestsLook
<1>4. watchCrossed \/ Stands(request)
    <2>1. CASE passes
        BY <2>1
    <2>2. CASE ~passes
        BY <2>2, WatchIdleTyped DEF Stands
    <2> QED
        BY <2>1, <2>2
<1>5. watchCall[k].pc \notin {"idle", "sync", "assign"}
    BY <1>0
<1>6. syncMissed' \in BOOLEAN /\ (syncMissed => syncMissed')
    BY <1>0, WatchKinds DEF WatchInv, WatchSafe
<1> HIDE DEF request
<1> QED
    BY <1>0, <1>2, <1>3, <1>4, <1>5, <1>6, WatchRequestMoves

LEMMA JudgmentsKeep ==
    ASSUME WatchInv, NEW k \in WatchCalls,
           \/ ReadBeat(k) \/ ReadVideoSeconds(k) \/ ReadVideoLimit(k)
           \/ FindFree(k) \/ ReadLast(k) \/ ReadReleaseSeconds(k)
           \/ FindCard(k) \/ ReadCardLimit(k) \/ ReadCardSeconds(k)
    PROVE  WatchInv'
<1> DEFINE c == watchCall[k]
           to(pc) == [c EXCEPT !.pc = pc]
<1>1. /\ c \in WatchRequests
      /\ \A pc \in WatchPc : /\ to(pc).pc = pc /\ to(pc).now = c.now /\ to(pc).card = c.card
                              /\ to(pc).total = c.total
    BY WatchKinds DEF WatchInv, WatchSafe, WatchRequests
<1>2. watchCrossed \/ Stands(c)
    BY DEF WatchInv, FindingsStand
<1> HIDE DEF to
<1>3. CASE ReadBeat(k)
    <2>1. NotThrottled(k) => watchCrossed \/ Stands(to("count"))
        <3>1. NotThrottled(k) => lastBeat = 0 \/ c.now - lastBeat >= BeatGap
            BY <1>1, WatchKinds, WatchAssumption DEF NotThrottled, Throttled, WatchInv, WatchSafe, WatchRequests
        <3> QED
            BY <3>1, <1>1 DEF Stands, WatchPc
    <2>2. Judge(k, "beat", NotThrottled(k), "count") /\ NotThrottled(k) \in BOOLEAN
        BY <1>3 DEF ReadBeat, NotThrottled
    <2> QED
        BY <2>1, <2>2, JudgeKeeps DEF WatchPc, to
<1>4. CASE ReadVideoSeconds(k)
    <2> DEFINE passes == seconds["youtube"] >= VideoPrice
    <2>1. c.pc = "video" /\ Judge(k, "video", passes, "videoLimit") /\ passes \in BOOLEAN
        BY <1>4 DEF ReadVideoSeconds, Judge
    <2>2. passes => watchCrossed \/ Stands(to("videoLimit"))
        BY <2>1, <1>1, <1>2 DEF Stands, WatchPc
    <2> HIDE DEF passes
    <2> QED
        BY <2>1, <2>2, JudgeKeeps DEF WatchPc, to
<1>5. CASE ReadVideoLimit(k)
    <2> DEFINE passes == Cardinality(VideosLately) < VideoLimit
    <2>1. c.pc = "videoLimit" /\ Judge(k, "videoLimit", passes, "buyVideo") /\ passes \in BOOLEAN
        BY <1>5 DEF ReadVideoLimit, Judge
    <2>2. passes => watchCrossed \/ Stands(to("buyVideo"))
        BY <2>1, <1>1, <1>2 DEF Stands, WatchPc
    <2> HIDE DEF passes
    <2> QED
        BY <2>1, <2>2, JudgeKeeps DEF WatchPc, to
<1>6. CASE FindFree(k)
    <2> DEFINE passes == FreeCards = {}
    <2>1. c.pc = "free" /\ Judge(k, "free", passes, "last") /\ passes \in BOOLEAN
        BY <1>6 DEF FindFree, Judge
    <2>2. passes => watchCrossed \/ Stands(to("last"))
        BY <2>1, <1>1, <1>2 DEF Stands, WatchPc
    <2> HIDE DEF passes
    <2> QED
        BY <2>1, <2>2, JudgeKeeps DEF WatchPc, to
<1>7. CASE ReadLast(k)
    <2> DEFINE passes == (\A g \in Cards : card[g].state # "none" => card[g].releasedAt + CardGap <= watchTime)
    <2>1. c.pc = "last" /\ Judge(k, "last", passes, "releaseSeconds") /\ passes \in BOOLEAN
        BY <1>7 DEF ReadLast, Judge
    <2>2. passes => watchCrossed \/ Stands(to("releaseSeconds"))
        BY <2>1, <1>1, <1>2 DEF Stands, WatchPc
    <2> HIDE DEF passes
    <2> QED
        BY <2>1, <2>2, JudgeKeeps DEF WatchPc, to
<1>8. CASE ReadReleaseSeconds(k)
    <2> DEFINE passes == seconds["auto-mining"] >= CardPrice
    <2>1. c.pc = "releaseSeconds" /\ Judge(k, "releaseSeconds", passes, "release") /\ passes \in BOOLEAN
        BY <1>8 DEF ReadReleaseSeconds, Judge
    <2>2. passes => watchCrossed \/ Stands(to("release"))
        BY <2>1, <1>1, <1>2 DEF Stands, WatchPc
    <2> HIDE DEF passes
    <2> QED
        BY <2>1, <2>2, JudgeKeeps DEF WatchPc, to
<1>9. CASE FindCard(k)
    <2> DEFINE passes == card[watchCall[k].card].state = "free"
    <2>1. c.pc = "card" /\ Judge(k, "card", passes, "cardLimit") /\ passes \in BOOLEAN
        BY <1>9 DEF FindCard, Judge
    <2>2. passes => watchCrossed \/ Stands(to("cardLimit"))
        BY <2>1, <1>1, <1>2 DEF Stands, WatchPc
    <2> HIDE DEF passes
    <2> QED
        BY <2>1, <2>2, JudgeKeeps DEF WatchPc, to
<1>10. CASE ReadCardLimit(k)
    <2> DEFINE passes == Cardinality(ClaimedLately) < CardLimit
    <2>1. c.pc = "cardLimit" /\ Judge(k, "cardLimit", passes, "cardSeconds") /\ passes \in BOOLEAN
        BY <1>10 DEF ReadCardLimit, Judge
    <2>2. passes => watchCrossed \/ Stands(to("cardSeconds"))
        BY <2>1, <1>1, <1>2 DEF Stands, WatchPc
    <2> HIDE DEF passes
    <2> QED
        BY <2>1, <2>2, JudgeKeeps DEF WatchPc, to
<1>11. CASE ReadCardSeconds(k)
    <2> DEFINE passes == seconds["auto-mining"] >= CardPrice
    <2>1. c.pc = "cardSeconds" /\ Judge(k, "cardSeconds", passes, "buyCard") /\ passes \in BOOLEAN
        BY <1>11 DEF ReadCardSeconds, Judge
    <2>2. passes => watchCrossed \/ Stands(to("buyCard"))
        BY <2>1, <1>1, <1>2 DEF Stands, WatchPc
    <2> HIDE DEF passes
    <2> QED
        BY <2>1, <2>2, JudgeKeeps DEF WatchPc, to
<1> QED
    BY <1>3, <1>4, <1>5, <1>6, <1>7, <1>8, <1>9, <1>10, <1>11

LEMMA CountBeatKeeps == ASSUME WatchInv, NEW k \in WatchCalls, CountBeat(k) PROVE WatchInv'
<1> USE DEF WatchInv, WatchSafe
<1> DEFINE c == watchCall[k]
<1>0. /\ c.pc = "count"
      /\ lastBeat' = c.now
      /\ seconds' = [seconds EXCEPT ![c.kind] = @ + BeatSeconds]
      /\ beats' = beats \cup {c.now}
      /\ watchCall' = [watchCall EXCEPT ![k] = WatchIdle]
      /\ UNCHANGED <<watchTime, videos, videoPower, card, cardItem, engineRate, cardClaims, syncMissed, watchCrossed,
                     watchAsks>>
    BY DEF CountBeat
<1>1. /\ c \in WatchRequests /\ c.now \in Nat /\ c.kind \in {"youtube", "auto-mining"} /\ c.now > 0
      /\ seconds \in [{"youtube", "auto-mining"} -> Int] /\ BeatSeconds \in Nat /\ BeatGap \in Nat
      /\ beats \subseteq Nat /\ lastBeat \in Nat
    BY <1>0, WatchKinds, WatchAssumption DEF WatchRequests, RequestsLook
<1>2. /\ \A other \in WatchCalls : watchCall'[other] = IF other = k THEN WatchIdle ELSE watchCall[other]
      /\ LoneWatchCall' /\ FindingsStand' /\ RequestsLook'
      /\ watchCall' \in [WatchCalls -> WatchRequests]
    <2> DEFINE request == WatchIdle
    <2>1. request \in WatchRequests /\ request.pc = "idle" /\ watchCall' = [watchCall EXCEPT ![k] = request]
        BY <1>0, WatchIdleTyped
    <2>2. c.pc # "idle" /\ UNCHANGED watchCrossed /\ UNCHANGED watchTime
        BY <1>0
    <2> HIDE DEF request
    <2>3. /\ \A other \in WatchCalls : watchCall'[other] = IF other = k THEN request ELSE watchCall[other]
          /\ LoneWatchCall' /\ FindingsStand' /\ RequestsLook'
          /\ watchCall' \in [WatchCalls -> WatchRequests]
        BY <2>1, <2>2, WatchWriterAlone
    <2> QED
        BY <2>3 DEF request
<1>3. WatchTypeOK'
    <2>1. seconds[c.kind] + BeatSeconds \in Int /\ c.now \in Nat
        BY <1>1
    <2>2. seconds' = [seconds EXCEPT ![c.kind] = seconds[c.kind] + BeatSeconds]
        BY <1>0
    <2>3. seconds' \in [{"youtube", "auto-mining"} -> Int]
        BY <2>1, <2>2, <1>1
    <2>4. beats' \subseteq Nat /\ lastBeat' \in Nat
        BY <2>1, <1>0, <1>1
    <2> QED
        BY <2>3, <2>4, <1>0, <1>2, WatchKinds DEF WatchTypeOK, WatchRequests, CardStates, Watched
<1>4. HashRate' = HashRate /\ FreeCards' = FreeCards /\ ClaimedLately' = ClaimedLately
      /\ VideosLately' = VideosLately
    BY <1>0 DEF HashRate, FreeCards, ClaimedLately, VideosLately, Young
<1>5. watchCrossed \/ lastBeat = 0 \/ c.now - lastBeat >= BeatGap
    BY <1>0 DEF FindingsStand, Stands
<1>6. BeatsApart'
    <2> SUFFICES ASSUME ~watchCrossed, NEW s \in beats', NEW t \in beats' \ {s}
                 PROVE  s - t >= BeatGap \/ t - s >= BeatGap
        BY <1>0 DEF BeatsApart
    <2>1. ASSUME NEW b \in beats PROVE c.now - b >= BeatGap
        <3>1. b > 0 /\ b <= lastBeat /\ b \in Nat
            BY <1>1 DEF LastBeatKnown
        <3>2. c.now - lastBeat >= BeatGap
            BY <3>1, <1>1, <1>5
        <3> HIDE DEF c
        <3> QED
            BY <3>1, <3>2, <1>1
    <2>2. CASE s \in beats /\ t \in beats
        BY <2>2 DEF BeatsApart
    <2> QED
        BY <2>1, <2>2, <1>0
<1>7. LastBeatKnown'
    <2> SUFFICES ASSUME ~watchCrossed, NEW b \in beats' PROVE b > 0 /\ b <= lastBeat'
        BY <1>0 DEF LastBeatKnown
    <2>1. CASE b \in beats
        BY <2>1, <1>0, <1>1, <1>5 DEF LastBeatKnown
    <2>2. CASE b = c.now
        BY <2>2, <1>0, <1>1
    <2> QED
        BY <2>1, <2>2, <1>0
<1>8. SecondsCoverClaims'
    <2>1. \A kind \in {"youtube", "auto-mining"} : seconds'[kind] >= seconds[kind] /\ seconds[kind] \in Int
          /\ seconds'[kind] \in Int
        BY <1>0, <1>1
    <2> QED
        BY <2>1, <1>0, <1>1 DEF SecondsCoverClaims
<1>9. UnclaimedAsYet' /\ CardsOneAtATime' /\ ClaimsWithinLimits'
    BY <1>0, <1>4 DEF UnclaimedAsYet, CardsOneAtATime, ClaimsWithinLimits
<1>10. RateIncludesClaims'
    BY <1>0, <1>2, <1>4 DEF RateIncludesClaims
<1>11. IsFiniteSet(videos') /\ IsFiniteSet(videoPower')
    BY <1>0
<1> QED
    BY <1>2, <1>3, <1>6, <1>7, <1>8, <1>9, <1>10, <1>11

LEMMA BuyVideoKeeps == ASSUME WatchInv, NEW k \in WatchCalls, BuyVideo(k) PROVE WatchInv'
<1> USE DEF WatchInv, WatchSafe
<1> DEFINE c == watchCall[k]
           bought == [id |-> c.id, at |-> watchTime]
           request == [c EXCEPT !.pc = "sync"]
<1>0. /\ c.pc = "buyVideo"
      /\ videoPower' = videoPower \cup {bought}
      /\ videos' = videos \cup {bought}
      /\ seconds' = [seconds EXCEPT !["youtube"] = seconds["youtube"] - VideoPrice]
      /\ watchCall' = [watchCall EXCEPT ![k] = request]
      /\ UNCHANGED <<watchTime, lastBeat, card, cardItem, engineRate, beats, cardClaims, syncMissed, watchCrossed,
                     watchAsks>>
    BY DEF BuyVideo
<1>1. /\ c \in WatchRequests /\ bought \in Watched /\ bought.at = watchTime /\ watchTime \in Nat
      /\ seconds \in [{"youtube", "auto-mining"} -> Int] /\ VideoPrice \in Nat /\ VideoLimit \in Nat
    BY WatchKinds, WatchAssumption DEF WatchRequests, Watched
<1>2. request \in WatchRequests /\ request.pc = "sync" /\ request.now = c.now
    BY <1>1 DEF WatchRequests, WatchPc
<1> HIDE DEF request, bought
<1>3. /\ \A other \in WatchCalls : watchCall'[other] = IF other = k THEN request ELSE watchCall[other]
      /\ LoneWatchCall' /\ FindingsStand' /\ RequestsLook'
      /\ watchCall' \in [WatchCalls -> WatchRequests]
    <2>1. c.pc # "idle" /\ UNCHANGED watchCrossed /\ UNCHANGED watchTime
        BY <1>0
    <2> QED
        BY <2>1, <1>0, <1>2, WatchWriterAlone
<1>4. WatchTypeOK'
    <2>1. seconds' \in [{"youtube", "auto-mining"} -> Int]
        BY <1>0, <1>1
    <2>2. videos' \subseteq Watched /\ videoPower' \subseteq Watched
        BY <1>0, <1>1, WatchKinds
    <2> QED
        BY <2>1, <2>2, <1>0, <1>3, WatchKinds DEF WatchTypeOK, WatchRequests, CardStates, Watched
<1>5. IsFiniteSet(videos') /\ IsFiniteSet(videoPower')
    BY <1>0, FS_AddElement
<1>6. watchCrossed \/ (seconds["youtube"] >= VideoPrice /\ Cardinality(VideosLately) < VideoLimit)
    BY <1>0 DEF FindingsStand, Stands
<1>7. SecondsCoverClaims'
    BY <1>0, <1>1, <1>6 DEF SecondsCoverClaims
<1>8. FreeCards' = FreeCards /\ ClaimedLately' = ClaimedLately
    BY <1>0 DEF FreeCards, ClaimedLately, Young
<1>9. BeatsApart' /\ LastBeatKnown' /\ UnclaimedAsYet' /\ CardsOneAtATime'
    BY <1>0, <1>8 DEF BeatsApart, LastBeatKnown, UnclaimedAsYet, CardsOneAtATime
<1>10. ClaimsWithinLimits'
    <2> SUFFICES ASSUME ~watchCrossed PROVE Cardinality(VideosLately') <= VideoLimit
        BY <1>0, <1>8 DEF ClaimsWithinLimits
    <2>1. VideosLately' \subseteq VideosLately \cup {bought}
        BY <1>0 DEF VideosLately, Young
    <2>2. /\ IsFiniteSet(VideosLately \cup {bought})
          /\ Cardinality(VideosLately \cup {bought}) <= Cardinality(VideosLately) + 1
          /\ Cardinality(VideosLately) \in Nat
        <3>1. IsFiniteSet(VideosLately)
            BY RateCounts
        <3> QED
            BY <3>1, OneMore
    <2>3. /\ Cardinality(VideosLately') <= Cardinality(VideosLately \cup {bought})
          /\ Cardinality(VideosLately') \in Nat /\ Cardinality(VideosLately \cup {bought}) \in Nat
        BY <2>1, <2>2, FS_Subset, FS_CardinalityType
    <2> QED
        BY <2>2, <2>3, <1>1, <1>6
<1>11. RateIncludesClaims'
    BY <1>2, <1>3 DEF RateIncludesClaims
<1> QED
    BY <1>3, <1>4, <1>5, <1>7, <1>9, <1>10, <1>11

LEMMA ReleaseKeeps == ASSUME WatchInv, NEW k \in WatchCalls, NEW g \in Cards, Release(k, g) PROVE WatchInv'
<1> USE DEF WatchInv, WatchSafe
<1> DEFINE c == watchCall[k]
           released == [state |-> "free", releasedAt |-> watchTime, claimedAt |-> 0]
           request == WatchIdle
<1>0. /\ c.pc = "release" /\ card[g].state = "none"
      /\ card' = [card EXCEPT ![g] = released]
      /\ watchCall' = [watchCall EXCEPT ![k] = request]
      /\ UNCHANGED <<watchTime, lastBeat, seconds, videos, videoPower, cardItem, engineRate, beats, cardClaims, syncMissed,
                     watchCrossed, watchAsks>>
    BY DEF Release
<1>1. request \in WatchRequests /\ request.pc = "idle"
    BY WatchIdleTyped
<1>2. released \in CardStates /\ released.state = "free" /\ card \in [Cards -> CardStates]
    BY WatchKinds DEF CardStates
<1> HIDE DEF request, released
<1>3. /\ \A other \in WatchCalls : watchCall'[other] = IF other = k THEN request ELSE watchCall[other]
      /\ LoneWatchCall' /\ FindingsStand' /\ RequestsLook'
      /\ watchCall' \in [WatchCalls -> WatchRequests]
    <2>1. c.pc # "idle" /\ UNCHANGED watchCrossed /\ UNCHANGED watchTime
        BY <1>0
    <2> QED
        BY <2>1, <1>0, <1>1, WatchWriterAlone
<1>4. WatchTypeOK'
    <2>1. card' \in [Cards -> CardStates]
        BY <1>0, <1>2
    <2> QED
        BY <2>1, <1>0, <1>3, WatchKinds DEF WatchTypeOK, WatchRequests, CardStates, Watched
<1>5. \A h \in Cards : card'[h] = IF h = g THEN released ELSE card[h]
    BY <1>0, <1>2
<1>6. /\ ClaimedLately' = ClaimedLately /\ VideosLately' = VideosLately /\ RackCards' = RackCards
      /\ LiveVideoPower' = LiveVideoPower
    BY <1>0, <1>2, <1>5 DEF ClaimedLately, VideosLately, RackCards, LiveVideoPower, Young
<1>7. HashRate' = HashRate
    BY <1>6 DEF HashRate, RackCards, LiveVideoPower
<1>8. BeatsApart' /\ SecondsCoverClaims' /\ LastBeatKnown'
    BY <1>0 DEF BeatsApart, SecondsCoverClaims, LastBeatKnown
<1>9. UnclaimedAsYet'
    BY <1>0, <1>2, <1>5 DEF UnclaimedAsYet
<1>10. CardsOneAtATime'
    <2> SUFFICES ASSUME ~watchCrossed PROVE Cardinality(FreeCards') <= 1
        BY <1>0 DEF CardsOneAtATime
    <2>1. FreeCards = {}
        BY <1>0 DEF FindingsStand, Stands
    <2>2. FreeCards' = {g}
        BY <2>1, <1>2, <1>5 DEF FreeCards
    <2>3. Cardinality({g}) = 1
        BY FS_Singleton
    <2> QED
        BY <2>2, <2>3
<1>11. ClaimsWithinLimits' /\ RateIncludesClaims'
    BY <1>0, <1>3, <1>6, <1>7 DEF ClaimsWithinLimits, RateIncludesClaims
<1>12. IsFiniteSet(videos') /\ IsFiniteSet(videoPower')
    BY <1>0
<1> QED
    BY <1>3, <1>4, <1>8, <1>9, <1>10, <1>11, <1>12

LEMMA BuyCardKeeps == ASSUME WatchInv, NEW k \in WatchCalls, BuyCard(k) PROVE WatchInv'
<1> USE DEF WatchInv, WatchSafe
<1> DEFINE c == watchCall[k]
           g == c.card
           claimed == [card[g] EXCEPT !.state = "claimed", !.claimedAt = c.now]
           request == [c EXCEPT !.pc = "sync"]
<1>0. /\ c.pc = "buyCard"
      /\ card' = [card EXCEPT ![g] = claimed]
      /\ cardItem' = [cardItem EXCEPT ![g] = "timed"]
      /\ cardClaims' = [cardClaims EXCEPT ![g] = cardClaims[g] + 1]
      /\ seconds' = [seconds EXCEPT !["auto-mining"] = seconds["auto-mining"] - CardPrice]
      /\ watchCall' = [watchCall EXCEPT ![k] = request]
      /\ UNCHANGED <<watchTime, lastBeat, videos, videoPower, engineRate, beats, syncMissed, watchCrossed, watchAsks>>
    BY DEF BuyCard
<1>1. /\ c \in WatchRequests /\ g \in Cards /\ c.now \in Nat /\ card \in [Cards -> CardStates]
      /\ cardClaims \in [Cards -> Nat] /\ CardPrice \in Nat /\ CardLimit \in Nat
      /\ seconds \in [{"youtube", "auto-mining"} -> Int]
      /\ cardItem \in [Cards -> {"none", "timed", "lasting", "rack"}]
    BY <1>0, WatchKinds, WatchAssumption DEF WatchRequests, RequestsLook
<1>2. /\ request \in WatchRequests /\ request.pc = "sync" /\ request.now = c.now
      /\ claimed \in CardStates /\ claimed.state = "claimed"
    BY <1>1 DEF WatchRequests, WatchPc, CardStates
<1> HIDE DEF request, claimed
<1>3. /\ \A other \in WatchCalls : watchCall'[other] = IF other = k THEN request ELSE watchCall[other]
      /\ LoneWatchCall' /\ FindingsStand' /\ RequestsLook'
      /\ watchCall' \in [WatchCalls -> WatchRequests]
    <2>1. c.pc # "idle" /\ UNCHANGED watchCrossed /\ UNCHANGED watchTime
        BY <1>0
    <2> QED
        BY <2>1, <1>0, <1>2, WatchWriterAlone
<1>4. WatchTypeOK'
    <2>1. seconds' \in [{"youtube", "auto-mining"} -> Int]
        BY <1>0, <1>1
    <2>2. card' \in [Cards -> CardStates] /\ cardItem' \in [Cards -> {"none", "timed", "lasting", "rack"}]
        BY <1>0, <1>1, <1>2
    <2>3. cardClaims' \in [Cards -> Nat]
        BY <1>0, <1>1
    <2> QED
        BY <2>1, <2>2, <2>3, <1>0, <1>3, WatchKinds DEF WatchTypeOK, WatchRequests, CardStates, Watched
<1>5. /\ \A h \in Cards : card'[h] = IF h = g THEN claimed ELSE card[h]
      /\ \A h \in Cards : cardClaims'[h] = IF h = g THEN cardClaims[g] + 1 ELSE cardClaims[h]
    BY <1>0, <1>1
<1>6. watchCrossed \/ /\ card[g].state = "free" /\ Cardinality(ClaimedLately) < CardLimit
                      /\ seconds["auto-mining"] >= CardPrice
    BY <1>0 DEF FindingsStand, Stands
<1>7. SecondsCoverClaims'
    BY <1>0, <1>1, <1>6 DEF SecondsCoverClaims
<1>8. VideosLately' = VideosLately
    BY <1>0 DEF VideosLately, Young
<1>9. BeatsApart' /\ LastBeatKnown'
    BY <1>0 DEF BeatsApart, LastBeatKnown
<1>10. UnclaimedAsYet'
    BY <1>0, <1>2, <1>5 DEF UnclaimedAsYet
<1>11. CardsOneAtATime'
    <2> SUFFICES ASSUME ~watchCrossed
                 PROVE  Cardinality(FreeCards') <= 1 /\ \A h \in Cards : cardClaims'[h] <= 1
        BY <1>0 DEF CardsOneAtATime
    <2>1. FreeCards' \subseteq FreeCards
        BY <1>2, <1>5 DEF FreeCards
    <2>2. FreeCards \subseteq Cards
        BY DEF FreeCards
    <2>3. IsFiniteSet(FreeCards) /\ IsFiniteSet(FreeCards') /\ Cardinality(FreeCards') <= Cardinality(FreeCards)
        BY <2>1, <2>2, FS_Subset, WatchAssumption
    <2>4. Cardinality(FreeCards) \in Nat /\ Cardinality(FreeCards') \in Nat
        BY <2>3, FS_CardinalityType
    <2>5. cardClaims[g] = 0
        BY <1>1, <1>6 DEF UnclaimedAsYet
    <2>6. \A h \in Cards : cardClaims'[h] <= 1
        BY <2>5, <1>1, <1>5 DEF CardsOneAtATime
    <2> QED
        BY <2>3, <2>4, <2>6 DEF CardsOneAtATime
<1>12. ClaimsWithinLimits'
    <2> SUFFICES ASSUME ~watchCrossed PROVE Cardinality(ClaimedLately') <= CardLimit
        BY <1>0, <1>8 DEF ClaimsWithinLimits
    <2>1. ClaimedLately' \subseteq ClaimedLately \cup {g}
        BY <1>0, <1>5 DEF ClaimedLately, Young
    <2>2. /\ IsFiniteSet(ClaimedLately \cup {g})
          /\ Cardinality(ClaimedLately \cup {g}) <= Cardinality(ClaimedLately) + 1
          /\ Cardinality(ClaimedLately) \in Nat
        <3>1. IsFiniteSet(ClaimedLately)
            BY RateCounts
        <3> QED
            BY <3>1, OneMore
    <2>3. /\ Cardinality(ClaimedLately') <= Cardinality(ClaimedLately \cup {g})
          /\ Cardinality(ClaimedLately') \in Nat /\ Cardinality(ClaimedLately \cup {g}) \in Nat
        BY <2>1, <2>2, FS_Subset, FS_CardinalityType
    <2> QED
        BY <2>2, <2>3, <1>1, <1>6
<1>13. RateIncludesClaims'
    BY <1>2, <1>3 DEF RateIncludesClaims
<1>14. IsFiniteSet(videos') /\ IsFiniteSet(videoPower')
    BY <1>0
<1> QED
    BY <1>3, <1>4, <1>7, <1>9, <1>10, <1>11, <1>12, <1>13, <1>14

LEMMA SyncKeeps == ASSUME WatchInv, NEW k \in WatchCalls, Sync(k) PROVE WatchInv'
<1> USE DEF WatchInv, WatchSafe
<1> DEFINE c == watchCall[k]
           request == [c EXCEPT !.pc = "assign", !.total = HashRate]
<1>1. /\ c.pc = "sync" /\ watchCall' = [watchCall EXCEPT ![k] = request]
      /\ UNCHANGED WatchRows /\ UNCHANGED <<syncMissed, watchCrossed, watchAsks>>
    BY DEF Sync, WatchRows
<1>2. c \in WatchRequests /\ HashRate \in Nat
    BY WatchKinds, RateCounts
<1>3. request \in WatchRequests /\ request.pc = "assign" /\ request.now = c.now /\ request.total = HashRate
    BY <1>2 DEF WatchRequests, WatchPc
<1> HIDE DEF request
<1>4. Stands(request)
    BY <1>2, <1>3 DEF Stands
<1>5. syncMissed' \in BOOLEAN /\ (syncMissed => syncMissed')
    BY <1>1, WatchKinds
<1> QED
    BY <1>1, <1>3, <1>4, <1>5, WatchRequestMoves

LEMMA WatchThrowsKeeps == ASSUME WatchInv, NEW k \in WatchCalls, WatchThrows(k) PROVE WatchInv'
<1> DEFINE request == WatchIdle
<1>1. /\ watchCall[k].pc # "idle"
      /\ watchCall' = [watchCall EXCEPT ![k] = request]
      /\ syncMissed' = (syncMissed \/ watchCall[k].pc \in {"sync", "assign"})
      /\ UNCHANGED WatchRows /\ UNCHANGED <<watchCrossed, watchAsks>>
    BY DEF WatchThrows, WatchRows
<1>2. request \in WatchRequests /\ request.pc = "idle"
    BY WatchIdleTyped
<1> HIDE DEF request
<1>3. Stands(request)
    BY <1>2 DEF Stands
<1>4. syncMissed' \in BOOLEAN
    BY <1>1
<1> QED
    BY <1>1, <1>2, <1>3, <1>4, WatchRequestMoves

LEMMA AssignKeeps == ASSUME WatchInv, NEW k \in WatchCalls, Assign(k) PROVE WatchInv'
<1> USE DEF WatchInv, WatchSafe
<1> DEFINE c == watchCall[k]
           request == WatchIdle
<1>0. /\ c.pc = "assign" /\ engineRate' = c.total /\ syncMissed' = FALSE
      /\ watchCall' = [watchCall EXCEPT ![k] = request]
      /\ UNCHANGED <<watchTime, lastBeat, seconds, videos, videoPower, card, cardItem, beats, cardClaims,
                     watchCrossed, watchAsks>>
    BY DEF Assign
<1>1. request \in WatchRequests /\ request.pc = "idle" /\ c.total \in Nat
    BY WatchIdleTyped, WatchKinds DEF WatchRequests
<1> HIDE DEF request
<1>2. /\ \A other \in WatchCalls : watchCall'[other] = IF other = k THEN request ELSE watchCall[other]
      /\ LoneWatchCall' /\ FindingsStand' /\ RequestsLook'
      /\ watchCall' \in [WatchCalls -> WatchRequests]
    <2>1. c.pc # "idle" /\ UNCHANGED watchCrossed /\ UNCHANGED watchTime
        BY <1>0
    <2> QED
        BY <2>1, <1>0, <1>1, WatchWriterAlone
<1>3. WatchTypeOK'
    BY <1>0, <1>1, <1>2, WatchKinds DEF WatchTypeOK, WatchRequests, CardStates, Watched
<1>4. HashRate' = HashRate /\ FreeCards' = FreeCards /\ ClaimedLately' = ClaimedLately
      /\ VideosLately' = VideosLately
    BY <1>0 DEF HashRate, FreeCards, ClaimedLately, VideosLately, Young
<1>5. BeatsApart' /\ SecondsCoverClaims' /\ LastBeatKnown' /\ UnclaimedAsYet'
    BY <1>0 DEF BeatsApart, SecondsCoverClaims, LastBeatKnown, UnclaimedAsYet
<1>6. CardsOneAtATime' /\ ClaimsWithinLimits'
    BY <1>0, <1>4 DEF CardsOneAtATime, ClaimsWithinLimits
<1>7. RateIncludesClaims'
    <2>1. watchCrossed \/ c.total >= HashRate
        BY <1>0 DEF FindingsStand, Stands
    <2> QED
        BY <2>1, <1>0, <1>4 DEF RateIncludesClaims
<1>8. IsFiniteSet(videos') /\ IsFiniteSet(videoPower')
    BY <1>0
<1> QED
    BY <1>2, <1>3, <1>5, <1>6, <1>7, <1>8

LEMMA WatchStutters == ASSUME WatchInv, UNCHANGED watchVars PROVE WatchInv'
<1> USE DEF watchVars, WatchInv, WatchSafe
<1>1. WatchTypeOK' /\ BeatsApart' /\ SecondsCoverClaims' /\ LastBeatKnown' /\ UnclaimedAsYet'
    BY DEF WatchTypeOK, BeatsApart, SecondsCoverClaims, LastBeatKnown, UnclaimedAsYet
<1>2. HashRate' = HashRate /\ FreeCards' = FreeCards /\ ClaimedLately' = ClaimedLately
      /\ VideosLately' = VideosLately
    BY DEF HashRate, FreeCards, ClaimedLately, VideosLately, Young
<1>3. CardsOneAtATime' /\ ClaimsWithinLimits' /\ RateIncludesClaims'
    BY <1>2 DEF CardsOneAtATime, ClaimsWithinLimits, RateIncludesClaims
<1>4. RequestsLook' /\ LoneWatchCall'
    BY DEF RequestsLook, LoneWatchCall
<1>5. FindingsStand'
    BY <1>2 DEF FindingsStand, Stands
<1> QED
    BY <1>1, <1>3, <1>4, <1>5

LEMMA WatchStepKeeps == ASSUME WatchInv, NEW k \in WatchCalls, WatchStep(k) PROVE WatchInv'
<1>1. DOMAIN seconds = {"youtube", "auto-mining"}
    BY WatchKinds DEF WatchInv, WatchSafe
<1>2. CASE \E kind \in DOMAIN seconds : AskWatch(k, "beat", kind, "none")
    BY <1>1, <1>2, AskWatchKeeps
<1>3. CASE AskWatch(k, "video", "youtube", "none")
    BY <1>3, AskWatchKeeps
<1>4. CASE AskWatch(k, "free", "auto-mining", "none")
    BY <1>4, AskWatchKeeps
<1>5. CASE \E g \in Cards : card[g].state # "none" /\ AskWatch(k, "card", "auto-mining", g)
    BY <1>5, AskWatchKeeps
<1>6. CASE \/ ReadBeat(k) \/ ReadVideoSeconds(k) \/ ReadVideoLimit(k)
           \/ FindFree(k) \/ ReadLast(k) \/ ReadReleaseSeconds(k)
           \/ FindCard(k) \/ ReadCardLimit(k) \/ ReadCardSeconds(k)
    BY <1>6, JudgmentsKeep
<1>7. CASE CountBeat(k) \/ BuyVideo(k) \/ BuyCard(k)
    BY <1>7, CountBeatKeeps, BuyVideoKeeps, BuyCardKeeps
<1>8. CASE \E g \in Cards : Release(k, g)
    BY <1>8, ReleaseKeeps
<1>9. CASE \E g \in Cards : MoveMachine(k, g)
    BY <1>9, MoveMachineKeeps
<1>10. CASE Sync(k) \/ Assign(k) \/ WatchThrows(k)
    BY <1>10, SyncKeeps, AssignKeeps, WatchThrowsKeeps
<1> QED
    BY <1>2, <1>3, <1>4, <1>5, <1>6, <1>7, <1>8, <1>9, <1>10 DEF WatchStep

(* WatchSafe for any prices, gaps and limits and any number of cards and     *)
(* requests: watched seconds are earned apart and cover what was claimed,    *)
(* within the limits of a day, and the rate mined with includes the claims   *)
(* and the machines, unless requests were in flight together or the step     *)
(* that passes the rate on threw after the commit.                           *)
THEOREM WatchHolds == WatchSpec => []WatchSafe
<1>1. WatchInit => WatchInv
    BY WatchInitially
<1>2. WatchInv /\ [WatchNext]_watchVars => WatchInv'
    <2> SUFFICES ASSUME WatchInv, [WatchNext]_watchVars PROVE WatchInv'
        OBVIOUS
    <2>1. CASE WatchTick \/ CleanUp \/ WatchRestart
        BY <2>1, WatchTickKeeps, CleanUpKeeps, WatchRestartKeeps
    <2>2. CASE \E k \in WatchCalls : WatchStep(k)
        BY <2>2, WatchStepKeeps
    <2>3. CASE UNCHANGED watchVars
        BY <2>3, WatchStutters
    <2> QED
        BY <2>1, <2>2, <2>3 DEF WatchNext
<1>3. WatchInv => WatchSafe
    BY DEF WatchInv
<1> QED
    BY <1>1, <1>2, <1>3, PTL DEF WatchSpec

-----------------------------------------------------------------------------
(* The games, for any connections, players, games and finishes in flight.    *)

Times == 1 .. MaxGameTime + LongPower + ShortPower
GameCallRows == [pc : {"idle", "upsert", "checkin", "power", "sync", "tell"}, socket : Sockets \cup {NoGame},
                 game : GameNames \cup {NoGame}, expires : Nat, total : Nat]

GamesTyped ==
    /\ GameTypeOK /\ powers \in [Players -> [Times -> Nat]]
    /\ gameCall \in [GameCalls -> GameCallRows]
    /\ \A k \in GameCalls : gameCall[k].pc = "power" => gameCall[k].expires \in Times

\* A start whose row is awaited has its connection, unless one was closed meanwhile.
StartsAreOpen ==
    leftEarly \/ \A k \in GameCalls : gameCall[k].pc = "upsert" => socket[gameCall[k].socket] = "open"

InSession(s, u, g) == PlayerOf(s) = u /\ gameSession[s].game = g
InStart(k, u, g) == gameCall[k].pc = "upsert" /\ PlayerOf(gameCall[k].socket) = u /\ gameCall[k].game = g

(* A player who never starts a game twice over has it once, and every game   *)
(* under way has its cooldown behind it.                                     *)
PlaysApart ==
    sessionsCrossed \/ \A u \in Players, g \in GameNames \ {NoGame} :
        /\ \A s, t \in Sockets : InSession(s, u, g) /\ InSession(t, u, g) => s = t
        /\ \A j, k \in GameCalls : InStart(j, u, g) /\ InStart(k, u, g) => j = k
        /\ \A s \in Sockets, k \in GameCalls : ~(InSession(s, u, g) /\ InStart(k, u, g))
        /\ (\E s \in Sockets : InSession(s, u, g)) \/ (\E k \in GameCalls : InStart(k, u, g)) => Cooled(u, g)

RewardOf(k, u) == gameCall[k].pc \in Rewarding /\ PlayerOf(gameCall[k].socket) = u
Telling(k, u) == gameCall[k].pc \in {"sync", "tell"} /\ PlayerOf(gameCall[k].socket) = u

(* While no two rewards of a player overlap: there is one at most, what it   *)
(* is about to tell counts the player's powers, and so does the engine if    *)
(* nothing is about to be told.                                              *)
RateHeld ==
    rateMissed \/ \A u \in Players :
        /\ \A j, k \in GameCalls : RewardOf(j, u) /\ RewardOf(k, u) => j = k
        /\ \A k \in GameCalls : RewardOf(k, u) /\ gameCall[k].pc = "tell" => gameCall[k].total >= LivePowers(u)
        /\ (\A k \in GameCalls : ~Telling(k, u)) => gameRate[u] >= LivePowers(u)

GameInv == GamesTyped /\ RewardsApart /\ SessionsAreOpen /\ StartsAreOpen /\ PlaysApart /\ RateHeld

LEMMA GameNumbers ==
    /\ Goal \in Nat /\ Goal > 0 /\ GameCooldown \in Nat /\ MinPlay \in Nat /\ LongPower \in Nat /\ ShortPower \in Nat
    /\ MaxPowers \in Nat /\ MaxGameTime \in Nat /\ MaxGameTime > 0 /\ MaxGameAsks \in Nat
BY GameAssumption

LEMMA GameParts ==
    ASSUME GamesTyped
    PROVE  /\ gameTime \in Nat /\ gameTime >= 1 /\ gameTime <= MaxGameTime
           /\ socket \in [Sockets -> {"open", "closed"}]
           /\ gameSession \in [Sockets -> [game : GameNames \cup {NoGame}, start : Nat, score : 0 .. Goal - 1]]
           /\ lastFinish \in [Players -> [GameNames -> Nat]] /\ gameRate \in [Players -> Nat]
           /\ gameCall \in [GameCalls -> GameCallRows] /\ powers \in [Players -> [Times -> Nat]]
           /\ \A k \in GameCalls : gameCall[k].pc # "idle" =>
                  /\ gameCall[k].socket \in Sockets /\ gameCall[k].game \in GameNames
                  /\ PlayerOf(gameCall[k].socket) \in Players
           /\ \A s \in Sockets : PlayerOf(s) \in Players
<1>1. gameTime \in 1 .. MaxGameTime /\ MaxGameTime \in Nat
    BY GameNumbers DEF GamesTyped, GameTypeOK
<1>2. gameTime \in Nat /\ gameTime >= 1 /\ gameTime <= MaxGameTime
    BY <1>1
<1>3. \A s \in Sockets : PlayerOf(s) \in Players
    BY DEF Players
<1> QED BY <1>2, <1>3 DEF GamesTyped, GameTypeOK

LEMMA NoGameCallTyped == NoGameCall \in GameCallRows /\ NoGameCall.pc = "idle"
BY DEF NoGameCall, GameCallRows

LEMMA TimesFinite == \A m \in Nat : IsFiniteSet({t \in Times : t > m})
<1>1. 1 \in Int /\ MaxGameTime + LongPower + ShortPower \in Int
    BY GameNumbers
<1>2. IsFiniteSet(Times)
    BY <1>1, FS_Interval DEF Times
<1> QED BY <1>2, FS_Subset

LEMMA LiveIs ==
    ASSUME NEW u \in Players, powers \in [Players -> [Times -> Nat]]
    PROVE  LivePowers(u) = SumFunctionOnSet(powers[u], {t \in Times : t > gameTime})
BY DEF LivePowers

(* The powers held are a number, and no more a moment later.                 *)
LEMMA LiveTyped ==
    ASSUME GamesTyped, NEW u \in Players
    PROVE  LivePowers(u) \in Nat
<1>1. IsFiniteSet({t \in Times : t > gameTime}) /\ powers \in [Players -> [Times -> Nat]]
    BY GameParts, TimesFinite
<1>2. \A t \in {t \in Times : t > gameTime} : powers[u][t] \in Nat
    BY <1>1
<1> QED BY <1>1, <1>2, SumNat, LiveIs

LEMMA LivePasses ==
    ASSUME GamesTyped, NEW u \in Players, gameTime' = gameTime + 1, powers' = powers
    PROVE  LivePowers(u)' <= LivePowers(u)
<1> DEFINE S == {t \in Times : t > gameTime}
           T == {t \in Times : t > gameTime + 1}
           F == powers[u]
<1>0. gameTime \in Nat /\ gameTime + 1 \in Nat /\ powers \in [Players -> [Times -> Nat]]
    BY GameParts
<1>1. IsFiniteSet(S) /\ IsFiniteSet(T)
    BY <1>0, TimesFinite
<1>2. \A t \in S : F[t] \in Nat
    BY <1>0
<1>3. \A t \in Times : t > gameTime <=> (t > gameTime + 1 \/ t = gameTime + 1)
    <2>1. \A t \in Times : t \in Int
        BY DEF Times
    <2> QED BY <1>0, <2>1
<1>4. LivePowers(u) = SumFunctionOnSet(F, S) /\ LivePowers(u)' = SumFunctionOnSet(F, T)
    <2>1. LivePowers(u)' = SumFunctionOnSet(powers'[u], {t \in DOMAIN powers'[u] : t > gameTime'})
        BY DEF LivePowers
    <2> QED BY <1>0, <2>1, LiveIs
<1>5. CASE gameTime + 1 \in Times
    <2>0. ~(gameTime + 1 > gameTime + 1)
        BY <1>0
    <2>1. T = S \ {gameTime + 1} /\ gameTime + 1 \in S
        BY <1>3, <1>5, <2>0
    <2> HIDE DEF S, T
    <2>2. SumFunctionOnSet(F, S) = F[gameTime + 1] + SumFunctionOnSet(F, T)
        BY <1>1, <1>2, <2>1, SumTypedAndTaken
    <2>3. SumFunctionOnSet(F, T) \in Nat
        BY <1>1, <1>2, <2>1, SumNat
    <2>4. F[gameTime + 1] \in Nat
        BY <1>2, <2>1
    <2> HIDE DEF F
    <2> QED BY <1>4, <2>2, <2>3, <2>4
<1>6. CASE gameTime + 1 \notin Times
    <2>1. T = S
        BY <1>3, <1>6
    <2>2. LivePowers(u) \in Nat
        BY LiveTyped
    <2> HIDE DEF S, T, F
    <2> QED BY <1>4, <2>1, <2>2
<1> QED BY <1>5, <1>6

LEMMA LiveStays ==
    ASSUME NEW u, UNCHANGED gameTime, powers'[u] = powers[u]
    PROVE  LivePowers(u)' = LivePowers(u)
BY DEF LivePowers

LEMMA GamesStart == ASSUME GameInit PROVE GameInv
<1>1. /\ gameCall \in [GameCalls -> GameCallRows] /\ \A k \in GameCalls : gameCall[k] = NoGameCall /\ gameCall[k].pc = "idle"
      /\ powers \in [Players -> [Times -> Nat]]
    BY NoGameCallTyped DEF GameInit, Times
<1>2. /\ \A s \in Sockets : gameSession[s] = NoSession /\ NoSession.game = NoGame
      /\ gameTime = 1 /\ gameAsks = 0
    BY DEF GameInit, NoSession
<1>3. GamesTyped
    <2>1. gameTime \in 1 .. MaxGameTime /\ gameAsks \in 0 .. MaxGameAsks
        BY <1>2, GameNumbers
    <2>2. 0 \in 0 .. Goal - 1
        BY GameNumbers
    <2>3. gameSession \in [Sockets -> [game : GameNames \cup {NoGame}, start : Nat, score : 0 .. Goal - 1]]
        BY <2>2 DEF GameInit, NoSession
    <2>4. \A u \in Players : \A t \in DOMAIN powers[u] : powers[u][t] \in Nat
        BY <1>1
    <2>5. GameTypeOK
        BY <1>1, <2>1, <2>3, <2>4 DEF GameInit, GameTypeOK
    <2> QED BY <1>1, <2>5 DEF GamesTyped
<1>4. RewardsApart /\ SessionsAreOpen /\ StartsAreOpen
    BY <1>1, <1>2 DEF GameInit, RewardsApart, SessionsAreOpen, StartsAreOpen
<1>5. PlaysApart
    BY <1>1, <1>2 DEF PlaysApart, InSession, InStart
<1>6. RateHeld
    <2>1. ASSUME NEW u \in Players PROVE gameRate[u] >= LivePowers(u)
        <3>1. \A t \in {t \in Times : t > gameTime} : powers[u][t] = 0
            BY <2>1 DEF GameInit, Times
        <3>2. LivePowers(u) = 0
            BY <1>1, <1>2, <2>1, <3>1, TimesFinite, SumZero, LiveIs
        <3> QED BY <2>1, <3>2 DEF GameInit
    <2> QED BY <1>1, <2>1 DEF RateHeld, RewardOf, Rewarding
<1> QED BY <1>3, <1>4, <1>5, <1>6 DEF GameInv

(* Where a player's one reward has got to, the engine and the player's powers *)
(* go together.                                                              *)
LEMMA RateFollows ==
    ASSUME GameInv, NEW k \in GameCalls, NEW call \in GameCallRows,
           gameCall[k].pc # "idle", gameCall' = [gameCall EXCEPT ![k] = call], gameTime' = gameTime,
           rateMissed => rateMissed',
           \/ call = NoGameCall
           \/ call.socket = gameCall[k].socket /\ gameCall[k].pc \in Rewarding /\ call.pc \in Rewarding,
           ~rateMissed' =>
               /\ \A u \in Players : \/ RewardOf(k, u)
                                     \/ gameRate'[u] = gameRate[u] /\ powers'[u] = powers[u]
               /\ \A u \in Players : RewardOf(k, u) =>
                      /\ call.pc = "tell" => call.total >= LivePowers(u)'
                      /\ call.pc \notin {"sync", "tell"} => gameRate'[u] >= LivePowers(u)'
    PROVE  RateHeld'
<1> SUFFICES ASSUME ~rateMissed', NEW u \in Players
             PROVE  /\ \A i, j \in GameCalls : RewardOf(i, u)' /\ RewardOf(j, u)' => i = j
                    /\ \A j \in GameCalls : RewardOf(j, u)' /\ gameCall'[j].pc = "tell" =>
                           gameCall'[j].total >= LivePowers(u)'
                    /\ (\A j \in GameCalls : ~Telling(j, u)') => gameRate'[u] >= LivePowers(u)'
    BY DEF RateHeld
<1>0. /\ gameCall \in [GameCalls -> GameCallRows] /\ RateHeld /\ ~rateMissed
      /\ NoGameCall.pc = "idle"
    BY GameParts, NoGameCallTyped DEF GameInv
<1>1. \A j \in GameCalls : gameCall'[j] = IF j = k THEN call ELSE gameCall[j]
    BY <1>0
<1>2. /\ \A i, j \in GameCalls : RewardOf(i, u) /\ RewardOf(j, u) => i = j
      /\ \A j \in GameCalls : RewardOf(j, u) /\ gameCall[j].pc = "tell" => gameCall[j].total >= LivePowers(u)
      /\ (\A j \in GameCalls : ~Telling(j, u)) => gameRate[u] >= LivePowers(u)
    BY <1>0 DEF RateHeld
<1>3. \A j \in GameCalls : /\ RewardOf(j, u)' => RewardOf(j, u)
                           /\ j # k => (RewardOf(j, u)' <=> RewardOf(j, u)) /\ (Telling(j, u)' <=> Telling(j, u))
    BY <1>0, <1>1 DEF RewardOf, Telling, Rewarding
<1>4. \A i, j \in GameCalls : RewardOf(i, u)' /\ RewardOf(j, u)' => i = j
    BY <1>2, <1>3
<1>5. CASE RewardOf(k, u)
    <2>1. \A j \in GameCalls : RewardOf(j, u)' => j = k
        BY <1>2, <1>3, <1>5
    <2>2. \A j \in GameCalls : Telling(j, u)' => j = k
        BY <2>1 DEF Telling, RewardOf, Rewarding
    <2>3. Telling(k, u)' <=> call.pc \in {"sync", "tell"}
        <3>1. call.pc \in {"sync", "tell"} => call.socket = gameCall[k].socket
            BY <1>0
        <3> QED BY <1>1, <1>5, <3>1 DEF Telling, RewardOf
    <2>4. /\ call.pc = "tell" => call.total >= LivePowers(u)'
          /\ call.pc \notin {"sync", "tell"} => gameRate'[u] >= LivePowers(u)'
        BY <1>5
    <2>5. \A j \in GameCalls : RewardOf(j, u)' /\ gameCall'[j].pc = "tell" => gameCall'[j].total >= LivePowers(u)'
        BY <1>1, <2>1, <2>4
    <2>6. (\A j \in GameCalls : ~Telling(j, u)') => gameRate'[u] >= LivePowers(u)'
        BY <2>3, <2>4
    <2> QED BY <1>4, <2>5, <2>6
<1>6. CASE ~RewardOf(k, u)
    <2>1. gameRate'[u] = gameRate[u] /\ LivePowers(u)' = LivePowers(u)
        BY <1>6, LiveStays
    <2>2. ~RewardOf(k, u)' /\ ~Telling(k, u) /\ ~Telling(k, u)'
        BY <1>3, <1>6 DEF Telling, RewardOf, Rewarding
    <2>3. \A j \in GameCalls : RewardOf(j, u)' /\ gameCall'[j].pc = "tell" => gameCall'[j].total >= LivePowers(u)'
        BY <1>1, <1>2, <1>3, <2>1, <2>2
    <2>4. (\A j \in GameCalls : ~Telling(j, u)') => gameRate'[u] >= LivePowers(u)'
        BY <1>2, <1>3, <2>1, <2>2
    <2> QED BY <1>4, <2>3, <2>4
<1> QED BY <1>5, <1>6

(* A reward that moves on, or a call that ends.                              *)
LEMMA RewardMoves ==
    ASSUME GameInv, NEW k \in GameCalls, NEW call \in GameCallRows,
           gameCall' = [gameCall EXCEPT ![k] = call],
           UNCHANGED <<gameTime, socket, gameSession, lastFinish, tooQuick, gameRest>>,
           powers' \in [Players -> [Times -> Nat]], gameRate' \in [Players -> Nat], rateMissed' \in BOOLEAN,
           \/ call = NoGameCall
           \/ /\ call.socket = gameCall[k].socket /\ call.game = gameCall[k].game
              /\ gameCall[k].pc \in Rewarding /\ call.pc \in Rewarding,
           call.pc = "power" => call.expires \in Times,
           RateHeld'
    PROVE  GameInv'
<1>0. GamesTyped /\ GameTypeOK /\ gameCall \in [GameCalls -> GameCallRows] /\ NoGameCall.pc = "idle"
    BY GameParts, NoGameCallTyped DEF GameInv, GamesTyped
<1>1. \A j \in GameCalls : gameCall'[j] = IF j = k THEN call ELSE gameCall[j]
    BY <1>0
<1>2. UNCHANGED <<gameTime, socket, gameSession, lastFinish, tooQuick, paused, checkedIn, sessionsCrossed, leftEarly, gameAsks>>
    BY DEF gameRest
<1>3. call.pc # "idle" => call.socket \in Sockets /\ call.game \in GameNames /\ call.pc \in Rewarding
    BY <1>0 DEF GameTypeOK, Rewarding
<1>4. GamesTyped'
    <2>1. gameCall' \in [GameCalls -> GameCallRows]
        BY <1>0
    <2>2. \A u \in Players : \A t \in DOMAIN powers'[u] : powers'[u][t] \in Nat
        OBVIOUS
    <2>3. \A j \in GameCalls :
              /\ gameCall'[j].pc \in {"idle", "upsert", "checkin", "power", "sync", "tell"}
              /\ gameCall'[j].pc # "idle" => gameCall'[j].socket \in Sockets /\ gameCall'[j].game \in GameNames
        BY <1>0, <1>1, <1>3 DEF GameTypeOK, GameCallRows
    <2>4. GameTypeOK'
        BY <1>0, <1>2, <2>2, <2>3 DEF GameTypeOK
    <2>5. \A j \in GameCalls : gameCall'[j].pc = "power" => gameCall'[j].expires \in Times
        BY <1>0, <1>1 DEF GamesTyped
    <2> QED BY <2>1, <2>4, <2>5 DEF GamesTyped, Times
<1>5. call.pc # "upsert"
    BY <1>3 DEF Rewarding
<1>6. RewardsApart' /\ SessionsAreOpen' /\ StartsAreOpen'
    BY <1>1, <1>2, <1>5 DEF GameInv, RewardsApart, SessionsAreOpen, StartsAreOpen
<1>7. PlaysApart'
    <2>1. \A j \in GameCalls : \A u, g : InStart(j, u, g)' => InStart(j, u, g)
        BY <1>1, <1>5 DEF InStart
    <2>2. \A s \in Sockets : \A u, g : InSession(s, u, g)' <=> InSession(s, u, g)
        BY <1>2 DEF InSession
    <2>3. \A u, g : Cooled(u, g)' <=> Cooled(u, g)
        BY <1>2 DEF Cooled
    <2> QED BY <1>2, <2>1, <2>2, <2>3 DEF GameInv, PlaysApart
<1> QED BY <1>4, <1>6, <1>7 DEF GameInv

(* A reward before it is synchronised leaves the engine right.               *)
LEMMA RateRight ==
    ASSUME GameInv, ~rateMissed, NEW k \in GameCalls, NEW u \in Players, RewardOf(k, u)
    PROVE  /\ gameCall[k].pc \notin {"sync", "tell"} => gameRate[u] >= LivePowers(u)
           /\ gameCall[k].pc = "tell" => gameCall[k].total >= LivePowers(u)
<1>1. /\ \A i, j \in GameCalls : RewardOf(i, u) /\ RewardOf(j, u) => i = j
      /\ \A j \in GameCalls : RewardOf(j, u) /\ gameCall[j].pc = "tell" => gameCall[j].total >= LivePowers(u)
      /\ (\A j \in GameCalls : ~Telling(j, u)) => gameRate[u] >= LivePowers(u)
    BY DEF GameInv, RateHeld
<1>2. \A j \in GameCalls : Telling(j, u) => RewardOf(j, u) /\ gameCall[j].pc \in {"sync", "tell"}
    BY DEF Telling, RewardOf, Rewarding
<1> QED BY <1>1, <1>2

LEMMA RewardRead ==
    ASSUME GameInv, NEW k \in GameCalls, ReadCheckin(k)
    PROVE  GameInv'
<1> DEFINE c == gameCall[k]
           days == IF PlayerOf(c.socket) \in checkedIn THEN LongPower ELSE ShortPower
           call == [c EXCEPT !.pc = "power", !.expires = gameTime + days]
<1>0. /\ c.pc = "checkin" /\ gameCall' = [gameCall EXCEPT ![k] = call]
      /\ UNCHANGED <<gameTime, socket, gameSession, lastFinish, powers, gameRate, tooQuick, rateMissed, gameRest>>
    BY DEF ReadCheckin
<1>1. /\ c \in GameCallRows /\ powers \in [Players -> [Times -> Nat]] /\ gameRate \in [Players -> Nat]
      /\ gameTime \in Nat /\ gameTime >= 1 /\ gameTime <= MaxGameTime /\ rateMissed \in BOOLEAN
    BY GameParts DEF GameInv, GamesTyped, GameTypeOK
<1>2. gameTime + days \in Times
    <2>1. days \in Nat /\ days <= LongPower + ShortPower /\ MaxGameTime \in Nat /\ LongPower \in Nat /\ ShortPower \in Nat
        BY GameNumbers
    <2> HIDE DEF days
    <2>2. gameTime + days \in Int /\ 1 <= gameTime + days /\ gameTime + days <= MaxGameTime + LongPower + ShortPower
        BY <1>1, <2>1
    <2> QED BY <2>1, <2>2 DEF Times
<1>3. gameTime + days \in Nat
    <2>1. days \in Nat
        BY GameNumbers
    <2> QED BY <1>1, <2>1
<1> HIDE DEF days
<1>4. /\ call \in GameCallRows /\ call.pc = "power" /\ call.expires = gameTime + days
      /\ call.socket = c.socket /\ call.game = c.game
    BY <1>1, <1>3 DEF GameCallRows
<1> HIDE DEF call
<1>5. c.pc \in Rewarding /\ call.pc \in Rewarding
    BY <1>0, <1>4 DEF Rewarding
<1>6. \A u \in Players : powers'[u] = powers[u] /\ gameRate'[u] = gameRate[u] /\ LivePowers(u)' = LivePowers(u)
    BY <1>0, LiveStays
<1>7. RateHeld'
    <2>1. \A u \in Players : ~rateMissed' /\ RewardOf(k, u) => gameRate'[u] >= LivePowers(u)'
        BY <1>0, <1>6, RateRight
    <2> QED BY <1>0, <1>4, <1>5, <1>6, <2>1, RateFollows
<1> QED BY <1>0, <1>1, <1>2, <1>4, <1>5, <1>7, RewardMoves

LEMMA PowerGranted ==
    ASSUME GameInv, NEW k \in GameCalls, GrantPower(k)
    PROVE  GameInv'
<1> DEFINE c == gameCall[k]
           call == [c EXCEPT !.pc = "sync"]
           w == PlayerOf(c.socket)
<1>0. /\ c.pc = "power" /\ gameCall' = [gameCall EXCEPT ![k].pc = "sync"]
      /\ powers' = [powers EXCEPT ![w][c.expires] = powers[w][c.expires] + 1]
      /\ UNCHANGED <<gameTime, socket, gameSession, lastFinish, gameRate, tooQuick, rateMissed, gameRest>>
    BY DEF GrantPower
<1>1. /\ c \in GameCallRows /\ powers \in [Players -> [Times -> Nat]] /\ gameRate \in [Players -> Nat]
      /\ rateMissed \in BOOLEAN /\ gameCall \in [GameCalls -> GameCallRows]
    BY GameParts DEF GameInv, GamesTyped, GameTypeOK
<1>2. c.expires \in Times /\ w \in Players
    BY <1>0, GameParts DEF GameInv, GamesTyped
<1>3. gameCall' = [gameCall EXCEPT ![k] = call]
    BY <1>0, <1>1
<1>4. call \in GameCallRows /\ call.pc = "sync" /\ call.socket = c.socket /\ call.game = c.game
    BY <1>1 DEF GameCallRows
<1>5. c.pc \in Rewarding /\ call.pc \in Rewarding
    BY <1>0, <1>4 DEF Rewarding
<1> HIDE DEF call
<1>6. powers' \in [Players -> [Times -> Nat]] /\ \A u \in Players \ {w} : powers'[u] = powers[u]
    <2>1. powers[w][c.expires] + 1 \in Nat
        BY <1>1, <1>2
    <2> HIDE DEF c, w
    <2> QED BY <1>0, <1>1, <1>2, <2>1
<1>7. \A u \in Players : RewardOf(k, u) <=> u = w
    BY <1>5 DEF RewardOf
<1>8. RateHeld'
    <2>1. \A u \in Players : RewardOf(k, u) \/ (gameRate'[u] = gameRate[u] /\ powers'[u] = powers[u])
        BY <1>0, <1>6, <1>7
    <2>2. \A u \in Players : RewardOf(k, u) =>
              /\ call.pc = "tell" => call.total >= LivePowers(u)'
              /\ call.pc \notin {"sync", "tell"} => gameRate'[u] >= LivePowers(u)'
        BY <1>4
    <2>3. c.pc # "idle" /\ gameTime' = gameTime /\ (rateMissed => rateMissed')
        BY <1>0
    <2> QED BY <1>3, <1>4, <1>5, <2>1, <2>2, <2>3, RateFollows
<1> QED BY <1>0, <1>1, <1>3, <1>4, <1>5, <1>6, <1>8, RewardMoves

LEMMA PowersSynced ==
    ASSUME GameInv, NEW k \in GameCalls, SyncGames(k)
    PROVE  GameInv'
<1> DEFINE c == gameCall[k]
           w == PlayerOf(c.socket)
           call == [c EXCEPT !.pc = "tell", !.total = LivePowers(w)]
<1>0. /\ c.pc = "sync" /\ gameCall' = [gameCall EXCEPT ![k] = call]
      /\ UNCHANGED <<gameTime, socket, gameSession, lastFinish, powers, gameRate, tooQuick, rateMissed, gameRest>>
    BY DEF SyncGames
<1>1. /\ c \in GameCallRows /\ powers \in [Players -> [Times -> Nat]] /\ gameRate \in [Players -> Nat]
      /\ rateMissed \in BOOLEAN
    BY GameParts DEF GameInv, GamesTyped, GameTypeOK
<1>2. w \in Players
    BY <1>0, GameParts DEF GameInv
<1>3. LivePowers(w) \in Nat
    BY <1>2, LiveTyped DEF GameInv
<1>4. /\ call \in GameCallRows /\ call.pc = "tell" /\ call.socket = c.socket /\ call.game = c.game
      /\ call.total = LivePowers(w)
    BY <1>1, <1>3 DEF GameCallRows
<1>5. c.pc \in Rewarding /\ call.pc \in Rewarding
    BY <1>0, <1>4 DEF Rewarding
<1> HIDE DEF call
<1>6. \A u \in Players : powers'[u] = powers[u] /\ gameRate'[u] = gameRate[u] /\ LivePowers(u)' = LivePowers(u)
    BY <1>0, LiveStays
<1>7. \A u \in Players : RewardOf(k, u) => u = w
    BY DEF RewardOf
<1>8. \A u \in Players : RewardOf(k, u) => call.total >= LivePowers(u)'
    <2>1. LivePowers(w) >= LivePowers(w)
        BY <1>3
    <2> QED BY <1>2, <1>4, <1>6, <1>7, <2>1
<1>9. RateHeld'
    BY <1>0, <1>4, <1>5, <1>6, <1>8, RateFollows
<1> QED BY <1>0, <1>1, <1>4, <1>5, <1>9, RewardMoves

LEMMA EngineToldOfGames ==
    ASSUME GameInv, NEW k \in GameCalls, TellGames(k)
    PROVE  GameInv'
<1> DEFINE c == gameCall[k]
           w == PlayerOf(c.socket)
<1>0. /\ c.pc = "tell" /\ gameCall' = [gameCall EXCEPT ![k] = NoGameCall]
      /\ gameRate' = [gameRate EXCEPT ![w] = c.total]
      /\ UNCHANGED <<gameTime, socket, gameSession, lastFinish, powers, tooQuick, rateMissed, gameRest>>
    BY DEF TellGames
<1>1. /\ c \in GameCallRows /\ powers \in [Players -> [Times -> Nat]] /\ gameRate \in [Players -> Nat]
      /\ rateMissed \in BOOLEAN
    BY GameParts DEF GameInv, GamesTyped, GameTypeOK
<1>2. w \in Players /\ c.total \in Nat
    BY <1>0, <1>1, GameParts DEF GameInv, GameCallRows
<1>3. gameRate' \in [Players -> Nat] /\ gameRate'[w] = c.total /\ \A u \in Players \ {w} : gameRate'[u] = gameRate[u]
    BY <1>0, <1>1, <1>2
<1>4. \A u \in Players : powers'[u] = powers[u] /\ LivePowers(u)' = LivePowers(u)
    BY <1>0, LiveStays
<1>5. c.pc \in Rewarding
    BY <1>0 DEF Rewarding
<1>6. \A u \in Players : RewardOf(k, u) <=> u = w
    BY <1>5 DEF RewardOf
<1>7. ~rateMissed => c.total >= LivePowers(w)
    BY <1>0, <1>2, <1>6, RateRight
<1>8. ~rateMissed' => \A u \in Players : RewardOf(k, u) => gameRate'[u] >= LivePowers(u)'
    BY <1>0, <1>3, <1>4, <1>6, <1>7
<1>9. RateHeld'
    BY <1>0, <1>3, <1>4, <1>6, <1>8, NoGameCallTyped, RateFollows
<1> QED BY <1>0, <1>1, <1>3, <1>9, NoGameCallTyped, RewardMoves

LEMMA GameCallFails ==
    ASSUME GameInv, NEW k \in GameCalls, GameThrows(k)
    PROVE  GameInv'
<1> DEFINE c == gameCall[k]
<1>0. /\ c.pc \notin {"idle", "tell"} /\ gameCall' = [gameCall EXCEPT ![k] = NoGameCall]
      /\ rateMissed' = (rateMissed \/ c.pc = "sync")
      /\ UNCHANGED <<gameTime, socket, gameSession, lastFinish, powers, gameRate, tooQuick, gameRest>>
    BY DEF GameThrows
<1>1. /\ powers \in [Players -> [Times -> Nat]] /\ gameRate \in [Players -> Nat]
      /\ rateMissed \in BOOLEAN /\ rateMissed' \in BOOLEAN
    BY <1>0, GameParts DEF GameInv, GamesTyped, GameTypeOK
<1>2. \A u \in Players : powers'[u] = powers[u] /\ gameRate'[u] = gameRate[u] /\ LivePowers(u)' = LivePowers(u)
    BY <1>0, LiveStays
<1>3. ~rateMissed' => \A u \in Players : RewardOf(k, u) => gameRate'[u] >= LivePowers(u)'
    BY <1>0, <1>2, RateRight
<1>4. RateHeld'
    BY <1>0, <1>2, <1>3, NoGameCallTyped, RateFollows
<1> QED BY <1>0, <1>1, <1>4, NoGameCallTyped, RewardMoves

(* Steps that leave rewards alone, though time may pass.                     *)
LEMMA RateUntouched ==
    ASSUME GameInv, rateMissed => rateMissed', gameRate' = gameRate,
           \A u \in Players : LivePowers(u)' \in Nat /\ LivePowers(u)' <= LivePowers(u),
           \A j \in GameCalls : gameCall'[j] = gameCall[j]
                                \/ (gameCall'[j].pc \notin Rewarding /\ gameCall[j].pc \notin Rewarding)
    PROVE  RateHeld'
<1> SUFFICES ASSUME ~rateMissed', NEW u \in Players
             PROVE  /\ \A i, j \in GameCalls : RewardOf(i, u)' /\ RewardOf(j, u)' => i = j
                    /\ \A j \in GameCalls : RewardOf(j, u)' /\ gameCall'[j].pc = "tell" =>
                           gameCall'[j].total >= LivePowers(u)'
                    /\ (\A j \in GameCalls : ~Telling(j, u)') => gameRate'[u] >= LivePowers(u)'
    BY DEF RateHeld
<1>0. RateHeld /\ ~rateMissed /\ gameRate \in [Players -> Nat] /\ gameCall \in [GameCalls -> GameCallRows]
    BY GameParts DEF GameInv
<1>1. /\ \A i, j \in GameCalls : RewardOf(i, u) /\ RewardOf(j, u) => i = j
      /\ \A j \in GameCalls : RewardOf(j, u) /\ gameCall[j].pc = "tell" => gameCall[j].total >= LivePowers(u)
      /\ (\A j \in GameCalls : ~Telling(j, u)) => gameRate[u] >= LivePowers(u)
    BY <1>0 DEF RateHeld
<1>2. \A j \in GameCalls : /\ RewardOf(j, u)' <=> RewardOf(j, u)
                           /\ Telling(j, u)' <=> Telling(j, u)
                           /\ RewardOf(j, u) => gameCall'[j] = gameCall[j]
    BY DEF RewardOf, Telling, Rewarding
<1>3. LivePowers(u) \in Nat /\ LivePowers(u)' \in Nat /\ LivePowers(u)' <= LivePowers(u)
    BY LiveTyped DEF GameInv
<1>4. \A j \in GameCalls : gameCall[j].total \in Nat
    BY <1>0 DEF GameCallRows
<1>5. \A n \in Nat : n >= LivePowers(u) => n >= LivePowers(u)'
    BY <1>3
<1> QED BY <1>0, <1>1, <1>2, <1>4, <1>5

LEMMA LiveSame ==
    ASSUME GameInv, UNCHANGED <<gameTime, powers>>
    PROVE  \A u \in Players : LivePowers(u)' \in Nat /\ LivePowers(u)' <= LivePowers(u)
<1> SUFFICES ASSUME NEW u \in Players PROVE LivePowers(u)' \in Nat /\ LivePowers(u)' <= LivePowers(u)
    OBVIOUS
<1>1. LivePowers(u)' = LivePowers(u)
    BY LiveStays
<1>2. LivePowers(u) \in Nat
    BY LiveTyped DEF GameInv
<1> QED BY <1>1, <1>2

LEMMA RewardsLeftAlone ==
    ASSUME GameInv, UNCHANGED <<gameTime, powers, gameRate, rateMissed>>,
           \A j \in GameCalls : gameCall'[j] = gameCall[j]
                                \/ (gameCall'[j].pc \notin Rewarding /\ gameCall[j].pc \notin Rewarding)
    PROVE  RateHeld'
<1>1. \A u \in Players : LivePowers(u)' \in Nat /\ LivePowers(u)' <= LivePowers(u)
    BY LiveSame
<1>2. gameRate' = gameRate /\ (rateMissed => rateMissed')
    OBVIOUS
<1> QED BY <1>1, <1>2, RateUntouched

(* The clock, pauses, and steps that change nothing.                         *)
LEMMA GamesAside ==
    ASSUME GameInv, GameTick \/ (\E g \in GameNames : PauseGame(g)) \/ UNCHANGED gameVars
    PROVE  GameInv'
<1>0. /\ GamesTyped /\ GameTypeOK /\ gameTime \in Nat /\ gameTime >= 1 /\ gameTime <= MaxGameTime
      /\ lastFinish \in [Players -> [GameNames -> Nat]]
      /\ MaxGameTime \in Nat /\ GameCooldown \in Nat
    BY GameParts, GameNumbers DEF GameInv, GamesTyped
<1>1. /\ UNCHANGED <<socket, gameSession, lastFinish, checkedIn, powers, gameRate, gameCall, tooQuick, rateMissed,
                     sessionsCrossed, leftEarly, gameAsks>>
      /\ paused' \subseteq GameNames
    BY <1>0 DEF GameTick, PauseGame, gameVars, gameRest, GameTypeOK
<1>2. gameTime' = gameTime \/ (gameTime' = gameTime + 1 /\ gameTime < MaxGameTime)
    BY DEF GameTick, PauseGame, gameVars
<1>3. gameTime' \in 1 .. MaxGameTime
    <2>1. CASE gameTime' = gameTime
        BY <1>0, <2>1
    <2>2. CASE gameTime' = gameTime + 1 /\ gameTime < MaxGameTime
        BY <1>0, <2>2
    <2> QED BY <1>2, <2>1, <2>2
<1>4. GamesTyped'
    <2>1. GameTypeOK'
        BY <1>0, <1>1, <1>3 DEF GameTypeOK
    <2> QED BY <1>0, <1>1, <2>1 DEF GamesTyped, Times
<1>5. RewardsApart' /\ SessionsAreOpen' /\ StartsAreOpen'
    BY <1>1 DEF GameInv, RewardsApart, SessionsAreOpen, StartsAreOpen
<1>6. PlaysApart'
    <2>1. \A u \in Players, g \in GameNames : Cooled(u, g) => Cooled(u, g)'
        <3> SUFFICES ASSUME NEW u \in Players, NEW g \in GameNames, Cooled(u, g) PROVE Cooled(u, g)'
            OBVIOUS
        <3>1. lastFinish[u][g] \in Nat
            BY <1>0
        <3>2. lastFinish[u][g] = 0 \/ gameTime - lastFinish[u][g] >= GameCooldown
            BY DEF Cooled
        <3>3. lastFinish[u][g] = 0 \/ gameTime' - lastFinish[u][g] >= GameCooldown
            <4>1. CASE gameTime' = gameTime
                BY <3>2, <4>1
            <4>2. CASE gameTime' = gameTime + 1
                BY <1>0, <3>1, <3>2, <4>2
            <4> QED BY <1>2, <4>1, <4>2
        <3> QED BY <1>1, <3>3 DEF Cooled
    <2>2. \A u, g : /\ \A s \in Sockets : InSession(s, u, g)' <=> InSession(s, u, g)
                    /\ \A k \in GameCalls : InStart(k, u, g)' <=> InStart(k, u, g)
        BY <1>1 DEF InSession, InStart
    <2> QED BY <1>1, <2>1, <2>2 DEF GameInv, PlaysApart
<1>7. RateHeld'
    <2>1. \A u \in Players : LivePowers(u)' \in Nat /\ LivePowers(u)' <= LivePowers(u)
        <3>1. CASE gameTime' = gameTime
            BY <1>1, <3>1, LiveSame
        <3>2. CASE gameTime' = gameTime + 1
            <4>1. \A u \in Players : LivePowers(u)' <= LivePowers(u)
                BY <1>0, <1>1, <3>2, LivePasses
            <4>2. ASSUME NEW u \in Players PROVE LivePowers(u)' \in Nat
                <5>0. gameTime' \in Nat
                    BY <1>0, <3>2
                <5>1. IsFiniteSet({t \in Times : t > gameTime'}) /\ powers' \in [Players -> [Times -> Nat]]
                    <6>1. powers \in [Players -> [Times -> Nat]]
                        BY <1>0, GameParts
                    <6>2. powers' = powers
                        BY <1>1
                    <6> QED BY <5>0, <6>1, <6>2, TimesFinite
                <5>2. \A t \in {t \in Times : t > gameTime'} : powers'[u][t] \in Nat
                    BY <5>1
                <5>3. LivePowers(u)' = SumFunctionOnSet(powers'[u], {t \in Times : t > gameTime'})
                    BY <5>1 DEF LivePowers
                <5> QED BY <5>1, <5>2, <5>3, SumNat
            <4> QED BY <4>1, <4>2
        <3> QED BY <1>2, <3>1, <3>2
    <2>2. gameRate' = gameRate /\ (rateMissed => rateMissed')
        BY <1>1
    <2>3. \A j \in GameCalls : gameCall'[j] = gameCall[j]
                               \/ (gameCall'[j].pc \notin Rewarding /\ gameCall[j].pc \notin Rewarding)
        BY <1>1
    <2> QED BY <2>1, <2>2, <2>3, RateUntouched
<1> QED BY <1>4, <1>5, <1>6, <1>7 DEF GameInv

(* A start has its cooldown behind it, and is the only one of its game, or   *)
(* the player has crossed sessions.                                          *)
LEMMA GameStarts ==
    ASSUME GameInv, NEW k \in GameCalls, NEW s \in Sockets, NEW g \in GameNames, StartGame(k, s, g)
    PROVE  GameInv'
<1> DEFINE call == [NoGameCall EXCEPT !.pc = "upsert", !.socket = s, !.game = g]
           w == PlayerOf(s)
<1>0. /\ socket[s] = "open" /\ gameCall[k].pc = "idle" /\ Cooled(w, g)
      /\ gameAsks < MaxGameAsks /\ gameAsks' = gameAsks + 1
      /\ gameCall' = [gameCall EXCEPT ![k] = call]
      /\ sessionsCrossed' = (sessionsCrossed \/ Plays(w, g))
      /\ UNCHANGED <<gameTime, socket, gameSession, lastFinish, paused, checkedIn, powers, gameRate, tooQuick,
                     rateMissed, leftEarly>>
    BY DEF StartGame
<1>1. GamesTyped /\ GameTypeOK /\ gameCall \in [GameCalls -> GameCallRows] /\ w \in Players
    BY GameParts DEF GameInv, GamesTyped
<1>2. call \in GameCallRows /\ call.pc = "upsert" /\ call.socket = s /\ call.game = g
    BY DEF GameCallRows, NoGameCall
<1> HIDE DEF call
<1>3. \A j \in GameCalls : gameCall'[j] = IF j = k THEN call ELSE gameCall[j]
    BY <1>0, <1>1
<1>4. GamesTyped'
    <2>1. gameAsks' \in 0 .. MaxGameAsks
        <3>1. gameAsks \in 0 .. MaxGameAsks /\ MaxGameAsks \in Nat
            BY <1>1, GameNumbers DEF GameTypeOK
        <3> QED BY <1>0, <3>1
    <2>2. \A j \in GameCalls :
              /\ gameCall'[j].pc \in {"idle", "upsert", "checkin", "power", "sync", "tell"}
              /\ gameCall'[j].pc # "idle" => gameCall'[j].socket \in Sockets /\ gameCall'[j].game \in GameNames
        BY <1>1, <1>2, <1>3 DEF GameTypeOK
    <2>3. sessionsCrossed' \in BOOLEAN
        BY <1>0, <1>1 DEF GameTypeOK, Plays
    <2>4. GameTypeOK'
        BY <1>0, <1>1, <2>1, <2>2, <2>3 DEF GameTypeOK
    <2>5. gameCall' \in [GameCalls -> GameCallRows]
        BY <1>0, <1>1, <1>2
    <2> QED BY <1>0, <1>1, <1>2, <1>3, <2>4, <2>5 DEF GamesTyped, Times
<1>5. RewardsApart' /\ SessionsAreOpen' /\ StartsAreOpen'
    BY <1>0, <1>2, <1>3 DEF GameInv, RewardsApart, SessionsAreOpen, StartsAreOpen
<1>6. PlaysApart'
    <2> SUFFICES ASSUME ~sessionsCrossed' PROVE PlaysApart'
        BY DEF PlaysApart
    <2>1. PlaysApart /\ ~sessionsCrossed /\ ~Plays(w, g)
        BY <1>0 DEF GameInv
    <2>2. /\ \A t \in Sockets : ~InSession(t, w, g)
          /\ \A j \in GameCalls : ~InStart(j, w, g)
        BY <2>1 DEF Plays, InSession, InStart
    <2>3. /\ \A t \in Sockets : \A u, h : InSession(t, u, h)' <=> InSession(t, u, h)
          /\ \A u, h : Cooled(u, h)' <=> Cooled(u, h)
        BY <1>0 DEF InSession, Cooled
    <2>4. \A j \in GameCalls : \A u, h : InStart(j, u, h)' <=> InStart(j, u, h) \/ (j = k /\ u = w /\ h = g)
        BY <1>0, <1>2, <1>3 DEF InStart
    <2> HIDE DEF w
    <2> QED BY <1>0, <2>1, <2>2, <2>3, <2>4 DEF PlaysApart
<1>7. RateHeld'
    <2>1. "idle" \notin Rewarding /\ "upsert" \notin Rewarding
        BY DEF Rewarding
    <2>2. gameCall'[k].pc \notin Rewarding /\ gameCall[k].pc \notin Rewarding
        <3>1. gameCall'[k].pc \in {"idle", "upsert"} /\ gameCall[k].pc \in {"idle", "upsert"}
            BY <1>0, <1>2, <1>3
        <3> QED BY <2>1, <3>1
    <2>3. \A j \in GameCalls : gameCall'[j] = gameCall[j]
                               \/ (gameCall'[j].pc \notin Rewarding /\ gameCall[j].pc \notin Rewarding)
        BY <1>3, <2>2
    <2> QED BY <1>0, <2>3, RewardsLeftAlone
<1> QED BY <1>4, <1>5, <1>6, <1>7 DEF GameInv

(* The session takes the place of its start.                                 *)
LEMMA SessionOpens ==
    ASSUME GameInv, NEW k \in GameCalls, OpenSession(k)
    PROVE  GameInv'
<1> DEFINE c == gameCall[k]
           new == [game |-> c.game, start |-> gameTime, score |-> 0]
<1>0. /\ c.pc = "upsert" /\ gameCall' = [gameCall EXCEPT ![k] = NoGameCall]
      /\ gameSession' = IF c.game \in paused THEN gameSession ELSE [gameSession EXCEPT ![c.socket] = new]
      /\ UNCHANGED <<gameTime, socket, lastFinish, powers, gameRate, tooQuick, rateMissed, paused, checkedIn,
                     sessionsCrossed, leftEarly, gameAsks>>
    BY DEF OpenSession, gameRest
<1>1. /\ GamesTyped /\ GameTypeOK /\ gameCall \in [GameCalls -> GameCallRows]
      /\ c.socket \in Sockets /\ c.game \in GameNames /\ PlayerOf(c.socket) \in Players
      /\ gameSession \in [Sockets -> [game : GameNames \cup {NoGame}, start : Nat, score : 0 .. Goal - 1]]
      /\ gameTime \in Nat
    BY <1>0, GameParts DEF GameInv, GamesTyped
<1>2. NoGameCall \in GameCallRows /\ NoGameCall.pc = "idle"
    BY NoGameCallTyped
<1>3. \A j \in GameCalls : gameCall'[j] = IF j = k THEN NoGameCall ELSE gameCall[j]
    BY <1>0, <1>1
<1>4. 0 \in 0 .. Goal - 1
    BY GameNumbers
<1>5. /\ gameSession' \in [Sockets -> [game : GameNames \cup {NoGame}, start : Nat, score : 0 .. Goal - 1]]
      /\ \A t \in Sockets : gameSession'[t].game = gameSession[t].game
                            \/ (t = c.socket /\ gameSession'[t].game = c.game)
    <2>1. new \in [game : GameNames \cup {NoGame}, start : Nat, score : 0 .. Goal - 1] /\ new.game = c.game
        BY <1>1, <1>4
    <2> HIDE DEF new
    <2>2. gameSession' \in [Sockets -> [game : GameNames \cup {NoGame}, start : Nat, score : 0 .. Goal - 1]]
        BY <1>0, <1>1, <2>1
    <2>3. ASSUME NEW t \in Sockets
          PROVE  gameSession'[t].game = gameSession[t].game \/ (t = c.socket /\ gameSession'[t].game = c.game)
        <3>1. gameSession'[t] = gameSession[t] \/ (t = c.socket /\ gameSession'[t] = new)
            <4>1. CASE c.game \in paused
                BY <1>0, <4>1
            <4>2. CASE c.game \notin paused
                <5>1. gameSession' = [gameSession EXCEPT ![c.socket] = new]
                    BY <1>0, <4>2
                <5> QED BY <1>1, <5>1
            <4> QED BY <4>1, <4>2
        <3> QED BY <2>1, <3>1
    <2> QED BY <2>2, <2>3
<1>6. GamesTyped'
    <2>1. gameCall' \in [GameCalls -> GameCallRows]
        BY <1>0, <1>1, <1>2
    <2>2. \A j \in GameCalls :
              /\ gameCall'[j].pc \in {"idle", "upsert", "checkin", "power", "sync", "tell"}
              /\ gameCall'[j].pc # "idle" => gameCall'[j].socket \in Sockets /\ gameCall'[j].game \in GameNames
        BY <1>1, <1>2, <1>3 DEF GameTypeOK
    <2>3. GameTypeOK'
        BY <1>0, <1>1, <1>5, <2>2 DEF GameTypeOK
    <2> QED BY <1>0, <1>1, <1>2, <1>3, <2>1, <2>3 DEF GamesTyped, Times
<1>7. RewardsApart' /\ SessionsAreOpen' /\ StartsAreOpen'
    <2>1. leftEarly \/ socket[c.socket] = "open"
        BY <1>0 DEF GameInv, StartsAreOpen
    <2>2. SessionsAreOpen'
        BY <1>0, <1>5, <2>1 DEF GameInv, SessionsAreOpen
    <2> QED BY <1>0, <1>2, <1>3, <2>2 DEF GameInv, RewardsApart, StartsAreOpen
<1>8. PlaysApart'
    <2> SUFFICES ASSUME ~sessionsCrossed', NEW u \in Players, NEW g \in GameNames \ {NoGame}
                 PROVE  /\ \A s, t \in Sockets : InSession(s, u, g)' /\ InSession(t, u, g)' => s = t
                        /\ \A i, j \in GameCalls : InStart(i, u, g)' /\ InStart(j, u, g)' => i = j
                        /\ \A s \in Sockets, j \in GameCalls : ~(InSession(s, u, g)' /\ InStart(j, u, g)')
                        /\ (\E s \in Sockets : InSession(s, u, g)') \/ (\E j \in GameCalls : InStart(j, u, g)')
                           => Cooled(u, g)'
        BY DEF PlaysApart
    <2>1. /\ \A s, t \in Sockets : InSession(s, u, g) /\ InSession(t, u, g) => s = t
          /\ \A i, j \in GameCalls : InStart(i, u, g) /\ InStart(j, u, g) => i = j
          /\ \A s \in Sockets, j \in GameCalls : ~(InSession(s, u, g) /\ InStart(j, u, g))
          /\ (\E s \in Sockets : InSession(s, u, g)) \/ (\E j \in GameCalls : InStart(j, u, g)) => Cooled(u, g)
        BY <1>0 DEF GameInv, PlaysApart
    <2>2. Cooled(u, g)' <=> Cooled(u, g)
        BY <1>0 DEF Cooled
    <2>3. \A j \in GameCalls : InStart(j, u, g)' <=> InStart(j, u, g) /\ j # k
        BY <1>2, <1>3 DEF InStart
    <2>4. \A t \in Sockets : InSession(t, u, g)' => InSession(t, u, g) \/ (t = c.socket /\ InStart(k, u, g))
        BY <1>0, <1>5 DEF InSession, InStart
    <2> QED BY <2>1, <2>2, <2>3, <2>4
<1>9. RateHeld'
    <2>1. "idle" \notin Rewarding /\ "upsert" \notin Rewarding
        BY DEF Rewarding
    <2>2. gameCall'[k].pc \notin Rewarding /\ gameCall[k].pc \notin Rewarding
        <3>1. gameCall'[k].pc \in {"idle", "upsert"} /\ gameCall[k].pc \in {"idle", "upsert"}
            BY <1>0, <1>2, <1>3
        <3> QED BY <2>1, <3>1
    <2>3. \A j \in GameCalls : gameCall'[j] = gameCall[j]
                               \/ (gameCall'[j].pc \notin Rewarding /\ gameCall[j].pc \notin Rewarding)
        BY <1>3, <2>2
    <2> QED BY <1>0, <2>3, RewardsLeftAlone
<1> QED BY <1>6, <1>7, <1>8, <1>9 DEF GameInv

(* Sessions only end: what is under way was under way.                       *)
LEMMA PlaysEnd ==
    ASSUME GameInv, UNCHANGED sessionsCrossed,
           \A t \in Sockets : gameSession'[t].game \in {gameSession[t].game, NoGame},
           \A j \in GameCalls : \A u, g : InStart(j, u, g)' => InStart(j, u, g),
           sessionsCrossed \/ \A u \in Players, g \in GameNames \ {NoGame} :
               (\E t \in Sockets : InSession(t, u, g)') \/ (\E j \in GameCalls : InStart(j, u, g)') =>
                   (Cooled(u, g) => Cooled(u, g)')
    PROVE  PlaysApart'
<1> SUFFICES ASSUME ~sessionsCrossed', NEW u \in Players, NEW g \in GameNames \ {NoGame}
             PROVE  /\ \A s, t \in Sockets : InSession(s, u, g)' /\ InSession(t, u, g)' => s = t
                    /\ \A i, j \in GameCalls : InStart(i, u, g)' /\ InStart(j, u, g)' => i = j
                    /\ \A s \in Sockets, j \in GameCalls : ~(InSession(s, u, g)' /\ InStart(j, u, g)')
                    /\ (\E s \in Sockets : InSession(s, u, g)') \/ (\E j \in GameCalls : InStart(j, u, g)')
                       => Cooled(u, g)'
    BY DEF PlaysApart
<1>1. /\ \A s, t \in Sockets : InSession(s, u, g) /\ InSession(t, u, g) => s = t
      /\ \A i, j \in GameCalls : InStart(i, u, g) /\ InStart(j, u, g) => i = j
      /\ \A s \in Sockets, j \in GameCalls : ~(InSession(s, u, g) /\ InStart(j, u, g))
      /\ (\E s \in Sockets : InSession(s, u, g)) \/ (\E j \in GameCalls : InStart(j, u, g)) => Cooled(u, g)
    BY DEF GameInv, PlaysApart
<1>2. \A t \in Sockets : InSession(t, u, g)' => InSession(t, u, g)
    BY DEF InSession
<1>3. \A j \in GameCalls : InStart(j, u, g)' => InStart(j, u, g)
    OBVIOUS
<1>4. (\E s \in Sockets : InSession(s, u, g)') \/ (\E j \in GameCalls : InStart(j, u, g)') => (Cooled(u, g) => Cooled(u, g)')
    OBVIOUS
<1> QED BY <1>1, <1>2, <1>3, <1>4

LEMMA SessionMoves ==
    ASSUME GameInv, NEW s \in Sockets, Move(s)
    PROVE  GameInv'
<1> DEFINE SessionRows == [game : GameNames \cup {NoGame}, start : Nat, score : 0 .. Goal - 1]
           new == [gameSession[s] EXCEPT !.score = @ + 1]
<1>0. /\ gameSession[s].score + 1 < Goal /\ gameSession' = [gameSession EXCEPT ![s] = new]
      /\ UNCHANGED <<gameTime, socket, lastFinish, powers, gameRate, gameCall, tooQuick, rateMissed, paused, checkedIn,
                     sessionsCrossed, leftEarly, gameAsks>>
    BY DEF Move, gameRest
<1>1. GamesTyped /\ GameTypeOK /\ gameSession \in [Sockets -> SessionRows] /\ Goal \in Nat
    BY GameParts, GameNumbers DEF GameInv, GamesTyped
<1>2. new \in SessionRows /\ new.game = gameSession[s].game
    <2>1. gameSession[s] \in SessionRows
        BY <1>1
    <2>2. gameSession[s].score \in 0 .. Goal - 1
        BY <2>1
    <2>3. gameSession[s].score + 1 \in 0 .. Goal - 1
        BY <1>0, <1>1, <2>2
    <2> QED BY <2>1, <2>3
<1> HIDE DEF new
<1>3. gameSession' \in [Sockets -> SessionRows] /\ \A t \in Sockets : gameSession'[t].game = gameSession[t].game
    <2>1. \A t \in Sockets : gameSession'[t] = IF t = s THEN new ELSE gameSession[t]
        BY <1>0, <1>1
    <2>2. gameSession' \in [Sockets -> SessionRows]
        <3> HIDE DEF SessionRows
        <3> QED BY <1>0, <1>1, <1>2
    <2> QED BY <1>2, <2>1, <2>2
<1>4. GamesTyped'
    <2>1. GameTypeOK'
        BY <1>0, <1>1, <1>3 DEF GameTypeOK
    <2> QED BY <1>0, <1>1, <2>1 DEF GamesTyped, Times
<1>5. RewardsApart' /\ SessionsAreOpen' /\ StartsAreOpen'
    BY <1>0, <1>3 DEF GameInv, RewardsApart, SessionsAreOpen, StartsAreOpen
<1>6. PlaysApart'
    <2>1. \A j \in GameCalls : \A u, g : InStart(j, u, g)' => InStart(j, u, g)
        BY <1>0 DEF InStart
    <2>2. \A u \in Players, g \in GameNames \ {NoGame} : Cooled(u, g) => Cooled(u, g)'
        BY <1>0 DEF Cooled
    <2>3. \A t \in Sockets : gameSession'[t].game \in {gameSession[t].game, NoGame}
        BY <1>3
    <2> QED BY <1>0, <2>1, <2>2, <2>3, PlaysEnd
<1>7. RateHeld'
    BY <1>0, RewardsLeftAlone
<1> QED BY <1>4, <1>5, <1>6, <1>7 DEF GameInv

(* What every finish does, whatever becomes of the call.                     *)
LEMMA SessionCloses ==
    ASSUME GameInv, NEW s \in Sockets, Playing(s), Close(s),
           \A j \in GameCalls : \A u, g : InStart(j, u, g)' => InStart(j, u, g)
    PROVE  /\ gameSession' \in [Sockets -> [game : GameNames \cup {NoGame}, start : Nat, score : 0 .. Goal - 1]]
           /\ lastFinish' \in [Players -> [GameNames -> Nat]]
           /\ SessionsAreOpen' /\ PlaysApart'
<1> DEFINE w == PlayerOf(s)
           h == gameSession[s].game
           SessionRows == [game : GameNames \cup {NoGame}, start : Nat, score : 0 .. Goal - 1]
<1>0. /\ gameSession' = [gameSession EXCEPT ![s] = NoSession] /\ h # NoGame
      /\ lastFinish' = [lastFinish EXCEPT ![w][h] = gameTime]
      /\ UNCHANGED <<gameTime, socket, powers, gameRate, paused, checkedIn, sessionsCrossed, leftEarly, gameAsks>>
    BY DEF Close, gameRest, Playing
<1>1. /\ gameSession \in [Sockets -> SessionRows] /\ lastFinish \in [Players -> [GameNames -> Nat]]
      /\ gameTime \in Nat /\ w \in Players /\ Goal \in Nat /\ Goal > 0
    BY GameParts, GameNumbers DEF GameInv
<1>2. h \in GameNames
    BY <1>0, <1>1
<1>3. NoSession \in SessionRows /\ NoSession.game = NoGame
    <2>1. 0 \in 0 .. Goal - 1
        BY <1>1
    <2> QED BY <2>1 DEF NoSession
<1>4. gameSession' \in [Sockets -> SessionRows]
    <2> HIDE DEF SessionRows
    <2> QED BY <1>0, <1>1, <1>3
<1>5. \A t \in Sockets : gameSession'[t] = IF t = s THEN NoSession ELSE gameSession[t]
    BY <1>0, <1>1
<1> HIDE DEF h, w
<1>6. lastFinish' \in [Players -> [GameNames -> Nat]]
    BY <1>0, <1>1, <1>2
<1>7. \A u \in Players, g \in GameNames : ~(u = w /\ g = h) => lastFinish'[u][g] = lastFinish[u][g]
    BY <1>0, <1>1, <1>2
<1>8. SessionsAreOpen'
    BY <1>0, <1>3, <1>5 DEF GameInv, SessionsAreOpen
<1>9. PlaysApart'
    <2>1. \A t \in Sockets : gameSession'[t].game \in {gameSession[t].game, NoGame}
        BY <1>3, <1>5
    <2>2. ASSUME ~sessionsCrossed, NEW u \in Players, NEW g \in GameNames \ {NoGame},
                 (\E t \in Sockets : InSession(t, u, g)') \/ (\E j \in GameCalls : InStart(j, u, g)'),
                 Cooled(u, g)
          PROVE  Cooled(u, g)'
        <3>1. CASE u = w /\ g = h
            <4>1. /\ \A t \in Sockets : InSession(s, u, g) /\ InSession(t, u, g) => s = t
                  /\ \A j \in GameCalls : ~(InSession(s, u, g) /\ InStart(j, u, g))
                BY <2>2 DEF GameInv, PlaysApart
            <4>2. InSession(s, u, g)
                BY <3>1 DEF InSession, w, h
            <4>3. \A t \in Sockets : ~InSession(t, u, g)'
                BY <1>3, <1>5, <4>1, <4>2 DEF InSession
            <4>4. \A j \in GameCalls : ~InStart(j, u, g)'
                BY <4>1, <4>2
            <4> QED BY <2>2, <4>3, <4>4
        <3>2. CASE ~(u = w /\ g = h)
            <4>1. lastFinish'[u][g] = lastFinish[u][g]
                BY <1>7, <3>2
            <4> QED BY <1>0, <2>2, <4>1 DEF Cooled
        <3> QED BY <3>1, <3>2
    <2> QED BY <1>0, <2>1, <2>2, PlaysEnd
<1> QED BY <1>4, <1>6, <1>8, <1>9

LEMMA GameCloses ==
    ASSUME GameInv, NEW s \in Sockets, EndGame(s) \/ WinTooFast(s)
    PROVE  GameInv'
<1>0. /\ Playing(s) /\ Close(s) /\ UNCHANGED <<gameCall, tooQuick, rateMissed>>
      /\ UNCHANGED <<gameTime, socket, powers, gameRate, paused, checkedIn, sessionsCrossed, leftEarly, gameAsks>>
    BY DEF EndGame, WinTooFast, Close, gameRest
<1>1. \A j \in GameCalls : \A u, g : InStart(j, u, g)' => InStart(j, u, g)
    BY <1>0 DEF InStart
<1>2. /\ gameSession' \in [Sockets -> [game : GameNames \cup {NoGame}, start : Nat, score : 0 .. Goal - 1]]
      /\ lastFinish' \in [Players -> [GameNames -> Nat]]
      /\ SessionsAreOpen' /\ PlaysApart'
    BY <1>0, <1>1, SessionCloses
<1>3. GamesTyped'
    <2>1. GamesTyped /\ GameTypeOK
        BY DEF GameInv, GamesTyped
    <2>2. GameTypeOK'
        BY <1>0, <1>2, <2>1 DEF GameTypeOK
    <2> QED BY <1>0, <2>1, <2>2 DEF GamesTyped, Times
<1>4. RewardsApart' /\ StartsAreOpen'
    BY <1>0 DEF GameInv, RewardsApart, StartsAreOpen
<1>5. RateHeld'
    BY <1>0, RewardsLeftAlone
<1> QED BY <1>2, <1>3, <1>4, <1>5 DEF GameInv

(* A win comes a cooldown after the last finish, or the player crossed       *)
(* sessions; and while rewards do not overlap it is the player's only one.   *)
LEMMA GameWon ==
    ASSUME GameInv, NEW k \in GameCalls, NEW s \in Sockets, Win(k, s)
    PROVE  GameInv'
<1> DEFINE w == PlayerOf(s)
           h == gameSession[s].game
           call == [NoGameCall EXCEPT !.pc = "checkin", !.socket = s, !.game = h]
           soon == lastFinish[w][h] # 0 /\ gameTime - lastFinish[w][h] < GameCooldown
           short == gameTime - gameSession[s].start < MinPlay
<1>0. /\ Playing(s) /\ Close(s) /\ LongEnough(s) /\ gameCall[k].pc = "idle" /\ h # NoGame
      /\ gameCall' = [gameCall EXCEPT ![k] = call]
      /\ UNCHANGED <<gameTime, socket, powers, gameRate, paused, checkedIn, sessionsCrossed, leftEarly, gameAsks>>
      /\ tooQuick' = tooQuick \cup (IF soon THEN {"cooldown"} ELSE {}) \cup (IF short THEN {"play"} ELSE {})
      /\ rateMissed' = (rateMissed \/ \E other \in GameCalls : RewardOf(other, w))
    BY DEF Win, Close, Playing, gameRest, RewardOf
<1>1. /\ GamesTyped /\ GameTypeOK /\ gameCall \in [GameCalls -> GameCallRows] /\ w \in Players
      /\ gameSession \in [Sockets -> [game : GameNames \cup {NoGame}, start : Nat, score : 0 .. Goal - 1]]
      /\ lastFinish \in [Players -> [GameNames -> Nat]] /\ gameTime \in Nat
    BY GameParts DEF GameInv, GamesTyped
<1>2. h \in GameNames
    BY <1>0, <1>1
<1>3. call \in GameCallRows /\ call.pc = "checkin" /\ call.socket = s /\ call.game = h
    BY <1>2 DEF GameCallRows, NoGameCall
<1> HIDE DEF call
<1>4. \A j \in GameCalls : gameCall'[j] = IF j = k THEN call ELSE gameCall[j]
    BY <1>0, <1>1
<1>5. \A j \in GameCalls : \A u, g : InStart(j, u, g)' => InStart(j, u, g)
    BY <1>3, <1>4 DEF InStart
<1>6. /\ gameSession' \in [Sockets -> [game : GameNames \cup {NoGame}, start : Nat, score : 0 .. Goal - 1]]
      /\ lastFinish' \in [Players -> [GameNames -> Nat]]
      /\ SessionsAreOpen' /\ PlaysApart'
    BY <1>0, <1>5, SessionCloses
<1>7. ~short
    <2>1. gameSession[s].start \in Nat /\ MinPlay \in Nat
        BY <1>1, GameNumbers
    <2>2. gameTime - gameSession[s].start >= MinPlay
        BY <1>0 DEF LongEnough
    <2> QED BY <1>1, <2>1, <2>2
<1>8. soon => sessionsCrossed
    <2> SUFFICES ASSUME soon, ~sessionsCrossed PROVE FALSE
        OBVIOUS
    <2>1. InSession(s, w, h) /\ h \in GameNames \ {NoGame}
        BY <1>0, <1>2 DEF InSession
    <2>2. Cooled(w, h)
        BY <1>1, <2>1 DEF GameInv, PlaysApart
    <2>3. lastFinish[w][h] \in Nat /\ GameCooldown \in Nat
        BY <1>1, <1>2, GameNumbers
    <2>4. lastFinish[w][h] = 0 \/ gameTime - lastFinish[w][h] >= GameCooldown
        BY <2>2 DEF Cooled
    <2> QED BY <1>1, <2>3, <2>4
<1>9. /\ tooQuick' = tooQuick \/ (tooQuick' = tooQuick \cup {"cooldown"} /\ sessionsCrossed)
      /\ rateMissed' \in BOOLEAN
    <2> HIDE DEF soon, short
    <2>1. tooQuick' = tooQuick \cup (IF soon THEN {"cooldown"} ELSE {})
        BY <1>0, <1>7
    <2>2. rateMissed' \in BOOLEAN
        BY <1>0, <1>1 DEF GameTypeOK
    <2> QED BY <1>8, <2>1, <2>2
<1>10. GamesTyped'
    <2>1. gameCall' \in [GameCalls -> GameCallRows]
        BY <1>0, <1>1, <1>3
    <2>2. \A j \in GameCalls :
              /\ gameCall'[j].pc \in {"idle", "upsert", "checkin", "power", "sync", "tell"}
              /\ gameCall'[j].pc # "idle" => gameCall'[j].socket \in Sockets /\ gameCall'[j].game \in GameNames
        BY <1>1, <1>2, <1>3, <1>4 DEF GameTypeOK
    <2>3. tooQuick' \subseteq {"cooldown", "play"}
        BY <1>1, <1>9 DEF GameTypeOK
    <2>4. GameTypeOK'
        BY <1>0, <1>1, <1>6, <1>9, <2>2, <2>3 DEF GameTypeOK
    <2> QED BY <1>0, <1>1, <1>3, <1>4, <2>1, <2>4 DEF GamesTyped, Times
<1>11. RewardsApart' /\ StartsAreOpen'
    <2>1. RewardsApart'
        BY <1>0, <1>9 DEF GameInv, RewardsApart
    <2> QED BY <1>0, <1>3, <1>4, <2>1 DEF GameInv, StartsAreOpen
<1>12. RateHeld'
    <2> SUFFICES ASSUME ~rateMissed', NEW u \in Players
                 PROVE  /\ \A i, j \in GameCalls : RewardOf(i, u)' /\ RewardOf(j, u)' => i = j
                        /\ \A j \in GameCalls : RewardOf(j, u)' /\ gameCall'[j].pc = "tell" =>
                               gameCall'[j].total >= LivePowers(u)'
                        /\ (\A j \in GameCalls : ~Telling(j, u)') => gameRate'[u] >= LivePowers(u)'
        BY DEF RateHeld
    <2>1. ~rateMissed /\ \A other \in GameCalls : ~RewardOf(other, w)
        BY <1>0
    <2>2. /\ \A i, j \in GameCalls : RewardOf(i, u) /\ RewardOf(j, u) => i = j
          /\ \A j \in GameCalls : RewardOf(j, u) /\ gameCall[j].pc = "tell" => gameCall[j].total >= LivePowers(u)
          /\ (\A j \in GameCalls : ~Telling(j, u)) => gameRate[u] >= LivePowers(u)
        BY <2>1 DEF GameInv, RateHeld
    <2>3. gameRate'[u] = gameRate[u] /\ LivePowers(u)' = LivePowers(u)
        BY <1>0, LiveStays
    <2>4. \A j \in GameCalls : /\ RewardOf(j, u)' <=> RewardOf(j, u) \/ (j = k /\ u = w)
                               /\ Telling(j, u)' <=> Telling(j, u)
                               /\ gameCall'[j].pc = "tell" => gameCall'[j] = gameCall[j]
        BY <1>0, <1>3, <1>4 DEF RewardOf, Telling, Rewarding
    <2> HIDE DEF w
    <2>5. \A i, j \in GameCalls : RewardOf(i, u)' /\ RewardOf(j, u)' => i = j
        BY <2>1, <2>2, <2>4
    <2>6. \A j \in GameCalls : RewardOf(j, u)' /\ gameCall'[j].pc = "tell" => gameCall'[j].total >= LivePowers(u)'
        <3> SUFFICES ASSUME NEW j \in GameCalls, RewardOf(j, u)', gameCall'[j].pc = "tell"
                     PROVE  gameCall'[j].total >= LivePowers(u)'
            OBVIOUS
        <3>1. gameCall'[j] = gameCall[j] /\ j # k
            BY <1>3, <1>4, <2>4
        <3> QED BY <2>2, <2>3, <2>4, <3>1
    <2>7. (\A j \in GameCalls : ~Telling(j, u)') => gameRate'[u] >= LivePowers(u)'
        BY <2>2, <2>3, <2>4
    <2> QED BY <2>5, <2>6, <2>7
<1> QED BY <1>6, <1>10, <1>11, <1>12 DEF GameInv

LEMMA PlayerLeaves ==
    ASSUME GameInv, NEW s \in Sockets, Disconnect(s)
    PROVE  GameInv'
<1>0. /\ socket' = [socket EXCEPT ![s] = "closed"] /\ gameSession' = [gameSession EXCEPT ![s] = NoSession]
      /\ leftEarly' = (leftEarly \/ \E k \in GameCalls : gameCall[k].pc = "upsert" /\ gameCall[k].socket = s)
      /\ UNCHANGED <<gameTime, lastFinish, paused, checkedIn, powers, gameRate, gameCall, tooQuick, rateMissed,
                     sessionsCrossed, gameAsks>>
    BY DEF Disconnect
<1>1. /\ GamesTyped /\ GameTypeOK /\ socket \in [Sockets -> {"open", "closed"}]
      /\ gameSession \in [Sockets -> [game : GameNames \cup {NoGame}, start : Nat, score : 0 .. Goal - 1]]
    BY GameParts DEF GameInv, GamesTyped
<1>2. NoSession \in [game : GameNames \cup {NoGame}, start : Nat, score : 0 .. Goal - 1] /\ NoSession.game = NoGame
    <2>1. 0 \in 0 .. Goal - 1
        BY GameNumbers
    <2> QED BY <2>1 DEF NoSession
<1>3. \A t \in Sockets : /\ gameSession'[t] = IF t = s THEN NoSession ELSE gameSession[t]
                         /\ socket'[t] = IF t = s THEN "closed" ELSE socket[t]
    BY <1>0, <1>1
<1>4. GamesTyped'
    <2>1. gameSession' \in [Sockets -> [game : GameNames \cup {NoGame}, start : Nat, score : 0 .. Goal - 1]]
        BY <1>0, <1>1, <1>2
    <2>2. socket' \in [Sockets -> {"open", "closed"}]
        BY <1>0, <1>1
    <2>3. leftEarly' \in BOOLEAN
        BY <1>0, <1>1 DEF GameTypeOK
    <2>4. GameTypeOK'
        BY <1>0, <1>1, <2>1, <2>2, <2>3 DEF GameTypeOK
    <2> QED BY <1>0, <1>1, <2>4 DEF GamesTyped, Times
<1>5. RewardsApart' /\ SessionsAreOpen' /\ StartsAreOpen'
    <2>1. SessionsAreOpen'
        BY <1>0, <1>2, <1>3 DEF GameInv, SessionsAreOpen
    <2>2. StartsAreOpen'
        <3> SUFFICES ASSUME ~leftEarly', NEW k \in GameCalls, gameCall[k].pc = "upsert"
                     PROVE  socket'[gameCall[k].socket] = "open"
            BY <1>0 DEF StartsAreOpen
        <3>1. gameCall[k].socket \in Sockets
            BY <1>1, GameParts
        <3>2. ~leftEarly /\ gameCall[k].socket # s
            BY <1>0
        <3>3. socket[gameCall[k].socket] = "open"
            BY <3>2 DEF GameInv, StartsAreOpen
        <3> QED BY <1>3, <3>1, <3>2, <3>3
    <2> QED BY <1>0, <2>1, <2>2 DEF GameInv, RewardsApart
<1>6. PlaysApart'
    <2>1. \A j \in GameCalls : \A u, g : InStart(j, u, g)' => InStart(j, u, g)
        BY <1>0 DEF InStart
    <2>2. \A u \in Players, g \in GameNames \ {NoGame} : Cooled(u, g) => Cooled(u, g)'
        BY <1>0 DEF Cooled
    <2>3. \A t \in Sockets : gameSession'[t].game \in {gameSession[t].game, NoGame}
        BY <1>2, <1>3
    <2> QED BY <1>0, <2>1, <2>2, <2>3, PlaysEnd
<1>7. RateHeld'
    BY <1>0, RewardsLeftAlone
<1> QED BY <1>4, <1>5, <1>6, <1>7 DEF GameInv

LEMMA GameStep == GameInv /\ [GameNext]_gameVars => GameInv'
<1> SUFFICES ASSUME GameInv, [GameNext]_gameVars PROVE GameInv'
    OBVIOUS
<1>1. CASE GameTick \/ (\E g \in GameNames : PauseGame(g)) \/ UNCHANGED gameVars
    BY <1>1, GamesAside
<1>2. CASE \E k \in GameCalls : \E s \in Sockets : Win(k, s) \/ \E g \in GameNames : StartGame(k, s, g)
    BY <1>2, GameWon, GameStarts
<1>3. CASE \E k \in GameCalls : \/ OpenSession(k) \/ ReadCheckin(k) \/ GrantPower(k)
                                \/ SyncGames(k) \/ TellGames(k) \/ GameThrows(k)
    BY <1>3, SessionOpens, RewardRead, PowerGranted, PowersSynced, EngineToldOfGames, GameCallFails
<1>4. CASE \E s \in Sockets : Move(s) \/ EndGame(s) \/ WinTooFast(s) \/ Disconnect(s)
    BY <1>4, SessionMoves, GameCloses, PlayerLeaves
<1> QED BY <1>1, <1>2, <1>3, <1>4 DEF GameNext

(* A session and a start never share a game of one player unless the player  *)
(* crossed them, so the cooldown of whatever is under way has passed; and     *)
(* until rewards of a player overlap, the engine or the one reward about to   *)
(* tell it counts all the powers held: finishGame, registerMinigameSockets,   *)
(* syncUserBaseHashRate.                                                      *)
THEOREM GamesHold == GameSpec => []GamesSafe
<1>1. GameInit => GameInv
    BY GamesStart
<1>2. GameInv /\ [GameNext]_gameVars => GameInv'
    BY GameStep
<1>3. GameInv => GamesSafe
    <2> SUFFICES ASSUME GameInv PROVE GamesSafe
        OBVIOUS
    <2>1. RateCountsPowers
        <3> SUFFICES ASSUME ~rateMissed, NEW u \in Players,
                            \A k \in GameCalls : gameCall[k].pc \notin {"sync", "tell"}
                     PROVE  gameRate[u] >= LivePowers(u)
            BY DEF RateCountsPowers
        <3>1. \A k \in GameCalls : ~Telling(k, u)
            BY DEF Telling
        <3> QED BY <3>1 DEF GameInv, RateHeld
    <2> QED BY <2>1 DEF GameInv, GamesTyped, GamesSafe
<1> QED BY <1>1, <1>2, <1>3, PTL DEF GameSpec

-----------------------------------------------------------------------------
(* The match board.                                                          *)

CellOrHole == Symbols \cup {Hole}

KeptRows(gone, x) == {y \in Rows : <<x, y>> \notin gone}
From(kept, y) == {z \in kept : z >= y}

LEMMA BoardSize ==
    /\ Width \in Nat /\ Height \in Nat /\ Width >= 3 /\ Height >= 3
    /\ IsFiniteSet(Symbols) /\ Hole \notin Symbols
    /\ CellPoints \in Nat /\ CellPoints > 0
    /\ Rows \subseteq Nat /\ IsFiniteSet(Rows) /\ IsFiniteSet(Cells)
<1>1. /\ Width \in Nat /\ Height \in Nat /\ Width >= 3 /\ Height >= 3
      /\ IsFiniteSet(Symbols) /\ Hole \notin Symbols
      /\ CellPoints \in Nat /\ CellPoints > 0
    BY MatchAssumption
<1>2. Rows \subseteq Nat /\ IsFiniteSet(Rows) /\ IsFiniteSet(Columns)
    <2>1. 0 \in Int /\ Height - 1 \in Int /\ Width - 1 \in Int
        BY <1>1
    <2> QED BY <2>1, FS_Interval DEF Rows, Columns
<1> QED BY <1>1, <1>2, FS_Product DEF Cells

LEMMA PassingIs ==
    ASSUME NEW b, NEW gone, NEW x
    PROVE  Passing(b, gone, x) =
             [n \in 0 .. Height |-> IF n = 0 THEN Cleared(b, gone, x) ELSE Fall(Passing(b, gone, x)[n - 1], Height - n)]
<1> DEFINE Step1(g, n) == IF n = 0 THEN Cleared(b, gone, x) ELSE Fall(g[n - 1], Height - n)
           P == {m \in Nat : \E g : g = [n \in 0 .. m |-> Step1(g, n)]}
<1>1. 0 \in P
    <2> DEFINE g == [n \in 0 .. 0 |-> Cleared(b, gone, x)]
    <2>1. g = [n \in 0 .. 0 |-> Step1(g, n)]
        OBVIOUS
    <2> QED BY <2>1
<1>2. ASSUME NEW m \in P PROVE m + 1 \in P
    <2>1. PICK g : g = [n \in 0 .. m |-> Step1(g, n)]
        OBVIOUS
    <2> DEFINE h == [n \in 0 .. m + 1 |-> Step1(g, n)]
    <2>2. \A n \in 0 .. m : h[n] = g[n]
        BY <2>1
    <2>5. h = [n \in 0 .. m + 1 |-> Step1(g, n)]
        OBVIOUS
    <2> HIDE DEF h
    <2>3. ASSUME NEW n \in 0 .. m + 1 PROVE Step1(h, n) = Step1(g, n)
        <3>1. CASE n = 0
            BY <3>1
        <3>2. CASE n # 0
            <4>1. n - 1 \in 0 .. m
                BY <3>2
            <4> QED BY <3>2, <4>1, <2>2
        <3> QED BY <3>1, <3>2
    <2>4. h = [n \in 0 .. m + 1 |-> Step1(h, n)]
        BY <2>3, <2>5
    <2> QED BY <2>4
<1>3. P = Nat
    <2> HIDE DEF P
    <2>1. P \in SUBSET Nat
        BY DEF P
    <2> QED BY <1>1, <1>2, <2>1, CountUp
<1>4. \E g : g = [n \in 0 .. Height |-> Step1(g, n)]
    BY <1>3, BoardSize
<1>5. Passing(b, gone, x) = CHOOSE g : g = [n \in 0 .. Height |-> Step1(g, n)]
    BY DEF Passing
<1> QED BY <1>4, <1>5

(* How far the pass over a column has come after n rows.                     *)
Passed(b, gone, x, n) ==
    LET s == Passing(b, gone, x)[n]
        kept == KeptRows(gone, x)
        looked == From(kept, Height - n)
    IN  /\ s.cells \in [Rows -> CellOrHole]
        /\ Cardinality(looked) \in 0 .. n
        /\ s.emptyRow = Height - 1 - Cardinality(looked)
        /\ \A y \in Rows : y < Height - n => s.cells[y] = IF y \in kept THEN b[<<x, y>>] ELSE Hole
        /\ \A y \in looked : /\ Height - Cardinality(From(kept, y)) \in s.emptyRow + 1 .. Height - 1
                             /\ s.cells[Height - Cardinality(From(kept, y))] = b[<<x, y>>]
        /\ \A y \in Rows : y > s.emptyRow => s.cells[y] \in Symbols

LEMMA PassStarts ==
    ASSUME NEW b \in [Cells -> Symbols], NEW gone, NEW x \in Columns
    PROVE  Passed(b, gone, x, 0)
<1> DEFINE s == Passing(b, gone, x)[0]
<1>1. s = Cleared(b, gone, x)
    BY PassingIs, BoardSize
<1>2. s.emptyRow = Height - 1 /\ s.cells = [y \in Rows |-> IF <<x, y>> \in gone THEN Hole ELSE b[<<x, y>>]]
    BY <1>1 DEF Cleared
<1>3. \A y \in Rows : b[<<x, y>>] \in Symbols
    BY DEF Cells
<1>4. From(KeptRows(gone, x), Height - 0) = {} /\ Cardinality({}) = 0
    BY BoardSize, FS_EmptySet DEF From, KeptRows, Rows
<1> HIDE DEF s
<1>5. s.cells \in [Rows -> CellOrHole]
    BY <1>2, <1>3 DEF CellOrHole
<1>6. \A y \in Rows : s.cells[y] = IF y \in KeptRows(gone, x) THEN b[<<x, y>>] ELSE Hole
    BY <1>2 DEF KeptRows
<1>7. \A y \in Rows : ~(y > s.emptyRow)
    BY <1>2, BoardSize DEF Rows
<1> QED BY <1>2, <1>4, <1>5, <1>6, <1>7, BoardSize DEF Passed, s

LEMMA PassMoves ==
    ASSUME NEW b \in [Cells -> Symbols], NEW gone, NEW x \in Columns, NEW n \in Nat, n < Height, Passed(b, gone, x, n)
    PROVE  Passed(b, gone, x, n + 1)
<1> DEFINE s == Passing(b, gone, x)[n]
           t == Passing(b, gone, x)[n + 1]
           kept == KeptRows(gone, x)
           row == Height - (n + 1)
           looked == From(kept, Height - n)
           next == From(kept, row)
           At(y) == Height - Cardinality(From(kept, y))
<1>0. /\ Height \in Nat /\ Hole \notin Symbols /\ row \in Rows /\ kept \subseteq Rows /\ Rows \subseteq Nat
      /\ \A y \in Rows : b[<<x, y>>] \in Symbols /\ y \in 0 .. Height - 1
    BY BoardSize DEF Rows, KeptRows, Cells
<1>1. t = Fall(s, row)
    <2>1. n + 1 \in 0 .. Height /\ n + 1 # 0 /\ (n + 1) - 1 = n
        BY <1>0
    <2> DEFINE f == Passing(b, gone, x)
    <2>2. f = [k \in 0 .. Height |-> IF k = 0 THEN Cleared(b, gone, x) ELSE Fall(f[k - 1], Height - k)]
        BY PassingIs
    <2> HIDE DEF f
    <2>3. f[n + 1] = Fall(f[(n + 1) - 1], Height - (n + 1))
        BY <2>1, <2>2
    <2> QED BY <2>1, <2>3 DEF f
<1>2. /\ s.cells \in [Rows -> CellOrHole]
      /\ Cardinality(looked) \in 0 .. n
      /\ s.emptyRow = Height - 1 - Cardinality(looked)
      /\ \A y \in Rows : y < Height - n => s.cells[y] = IF y \in kept THEN b[<<x, y>>] ELSE Hole
      /\ \A y \in looked : At(y) \in s.emptyRow + 1 .. Height - 1 /\ s.cells[At(y)] = b[<<x, y>>]
      /\ \A y \in Rows : y > s.emptyRow => s.cells[y] \in Symbols
    BY DEF Passed
<1>3. s.cells[row] = IF row \in kept THEN b[<<x, row>>] ELSE Hole
    BY <1>0, <1>2
<1>4. next = IF row \in kept THEN looked \cup {row} ELSE looked
    <2>1. ASSUME NEW z \in kept PROVE z >= row <=> (z >= Height - n \/ z = row)
        <3>1. z \in Nat
            BY <1>0
        <3> QED BY <1>0, <3>1
    <2> QED BY <2>1, <1>0 DEF From
<1>5. row \notin looked /\ IsFiniteSet(looked)
    <2>1. ~(row >= Height - n)
        BY <1>0
    <2>2. looked \subseteq Rows
        BY <1>0 DEF From
    <2> QED BY <2>1, <2>2, BoardSize, FS_Subset DEF From
<1>6. CASE row \notin kept
    <2>1. t = s /\ next = looked
        BY <1>1, <1>3, <1>4, <1>6 DEF Fall
    <2>2. \A y \in Rows : y < row => y < Height - n
        BY <1>0
    <2>3. Cardinality(next) \in 0 .. n + 1
        BY <1>2, <2>1
    <2> HIDE DEF s, t, row
    <2>4. /\ t.cells \in [Rows -> CellOrHole]
          /\ Cardinality(next) \in 0 .. n + 1
          /\ t.emptyRow = Height - 1 - Cardinality(next)
          /\ \A y \in Rows : y < row => t.cells[y] = IF y \in kept THEN b[<<x, y>>] ELSE Hole
          /\ \A y \in next : At(y) \in t.emptyRow + 1 .. Height - 1 /\ t.cells[At(y)] = b[<<x, y>>]
          /\ \A y \in Rows : y > t.emptyRow => t.cells[y] \in Symbols
        BY <1>2, <2>1, <2>2, <2>3
    <2> QED BY <2>4 DEF Passed, t, row
<1>7. CASE row \in kept
    <2>1. s.cells[row] = b[<<x, row>>] /\ s.cells[row] \in Symbols /\ s.cells[row] # Hole
        BY <1>0, <1>3, <1>7
    <2>2. /\ t.emptyRow = s.emptyRow - 1
          /\ t.cells = IF s.emptyRow = row THEN s.cells ELSE [s.cells EXCEPT ![s.emptyRow] = s.cells[row], ![row] = Hole]
        BY <1>1, <2>1 DEF Fall
    <2>3. next = looked \cup {row} /\ Cardinality(next) = Cardinality(looked) + 1
        BY <1>4, <1>5, <1>7, FS_AddElement
    <2>4. s.emptyRow \in row .. Height - 1 /\ s.emptyRow \in Rows /\ s.emptyRow \in Int
        BY <1>0, <1>2 DEF Rows
    <2> HIDE DEF s, t
    <2>5. /\ t.cells \in [Rows -> CellOrHole]
          /\ t.cells[s.emptyRow] = b[<<x, row>>]
          /\ \A y \in Rows : y # s.emptyRow /\ y # row => t.cells[y] = s.cells[y]
        <3>1. CASE s.emptyRow = row
            BY <1>2, <2>1, <2>2, <3>1
        <3>2. CASE s.emptyRow # row
            BY <1>0, <1>2, <2>1, <2>2, <2>4, <3>2 DEF CellOrHole
        <3> QED BY <3>1, <3>2
    <2>6. Cardinality(next) \in 0 .. n + 1 /\ t.emptyRow = Height - 1 - Cardinality(next)
        BY <1>0, <1>2, <2>2, <2>3
    <2>7. At(row) = s.emptyRow
        BY <1>0, <1>2, <2>3
    <2>8. ASSUME NEW y \in Rows, y < row PROVE t.cells[y] = IF y \in kept THEN b[<<x, y>>] ELSE Hole
        <3>1. y < Height - n /\ y # s.emptyRow /\ y # row
            BY <1>0, <2>4, <2>8
        <3> QED BY <1>2, <2>5, <3>1
    <2>9. ASSUME NEW y \in next
          PROVE  At(y) \in t.emptyRow + 1 .. Height - 1 /\ t.cells[At(y)] = b[<<x, y>>]
        <3>1. CASE y = row
            BY <2>2, <2>4, <2>5, <2>7, <3>1
        <3>2. CASE y \in looked
            <4> HIDE DEF At, row, looked
            <4>1. At(y) \in s.emptyRow + 1 .. Height - 1 /\ s.cells[At(y)] = b[<<x, y>>]
                BY <1>2, <3>2
            <4>2. At(y) \in Int /\ At(y) > s.emptyRow /\ At(y) <= Height - 1 /\ At(y) > row
                BY <1>0, <2>4, <4>1
            <4>3. At(y) \in Rows
                BY <1>0, <4>2 DEF Rows
            <4> QED BY <1>0, <2>2, <2>4, <2>5, <4>1, <4>2, <4>3
        <3> QED BY <2>3, <2>9, <3>1, <3>2
    <2>10. ASSUME NEW y \in Rows, y > t.emptyRow PROVE t.cells[y] \in Symbols
        <3>1. CASE y = s.emptyRow
            BY <1>0, <2>5, <3>1
        <3>2. CASE y # s.emptyRow
            <4>1. y > s.emptyRow /\ y # row
                BY <1>0, <2>2, <2>4, <2>10, <3>2
            <4> QED BY <1>2, <2>5, <3>2, <4>1
        <3> QED BY <3>1, <3>2
    <2> QED BY <2>5, <2>6, <2>8, <2>9, <2>10 DEF Passed, t
<1> QED BY <1>6, <1>7

LEMMA ColumnsSettle ==
    ASSUME NEW b \in [Cells -> Symbols], NEW gone, NEW x \in Columns
    PROVE  Passed(b, gone, x, Height)
<1> DEFINE P == {n \in Nat : n <= Height => Passed(b, gone, x, n)}
<1>1. 0 \in P
    BY PassStarts
<1>2. ASSUME NEW n \in P PROVE n + 1 \in P
    <2>1. n \in Nat /\ Height \in Nat /\ (n + 1 <= Height => n < Height /\ n <= Height)
        BY BoardSize
    <2> QED BY <2>1, PassMoves
<1>3. P = Nat
    <2> HIDE DEF P
    <2>1. P \in SUBSET Nat
        BY DEF P
    <2> QED BY <1>1, <1>2, <2>1, CountUp
<1> QED BY <1>3, BoardSize

(* What is left of a column ends at its bottom, in order; the rest is new.   *)
LEMMA BoardFalls ==
    ASSUME NEW b \in [Cells -> Symbols], NEW gone, NEW fresh \in [FreshCells(b, gone) -> Symbols]
    PROVE  /\ Fallen(b, gone, fresh) \in [Cells -> Symbols]
           /\ \A x \in Columns : \A y \in KeptRows(gone, x) :
                Fallen(b, gone, fresh)[<<x, Height - Cardinality(From(KeptRows(gone, x), y))>>] = b[<<x, y>>]
<1> DEFINE new == Fallen(b, gone, fresh)
           s(x) == Settled(b, gone, x)
<1>1. new = [c \in Cells |-> IF c[2] <= s(c[1]).emptyRow THEN fresh[c] ELSE s(c[1]).cells[c[2]]]
    BY DEF Fallen, Cells
<1>2. \A c \in Cells : c[1] \in Columns /\ c[2] \in Rows /\ c[2] \in Nat
    BY BoardSize DEF Cells
<1>3. ASSUME NEW x \in Columns
      PROVE  /\ s(x).emptyRow \in Int
             /\ \A y \in KeptRows(gone, x) :
                  LET down == Height - Cardinality(From(KeptRows(gone, x), y))
                  IN  down \in s(x).emptyRow + 1 .. Height - 1 /\ s(x).emptyRow + 1 >= 0 /\ s(x).cells[down] = b[<<x, y>>]
             /\ \A y \in Rows : y > s(x).emptyRow => s(x).cells[y] \in Symbols
    <2>1. From(KeptRows(gone, x), Height - Height) = KeptRows(gone, x)
        <3>1. Height - Height = 0 /\ \A z \in KeptRows(gone, x) : z >= 0
            BY BoardSize DEF KeptRows
        <3> QED BY <3>1 DEF From
    <2> QED BY <2>1, ColumnsSettle, BoardSize DEF Passed, Settled
<1> HIDE DEF s
<1>4. ASSUME NEW c \in Cells PROVE new[c] \in Symbols
    <2>1. CASE c[2] <= s(c[1]).emptyRow
        <3>1. c \in FreshCells(b, gone)
            BY <2>1 DEF FreshCells, s
        <3> QED BY <1>1, <2>1, <3>1
    <2>2. CASE ~(c[2] <= s(c[1]).emptyRow)
        BY <1>1, <1>2, <1>3, <2>2
    <2> QED BY <2>1, <2>2
<1>5. ASSUME NEW x \in Columns, NEW y \in KeptRows(gone, x)
      PROVE  new[<<x, Height - Cardinality(From(KeptRows(gone, x), y))>>] = b[<<x, y>>]
    <2> DEFINE down == Height - Cardinality(From(KeptRows(gone, x), y))
    <2>1. /\ down \in s(x).emptyRow + 1 .. Height - 1 /\ s(x).emptyRow + 1 >= 0 /\ s(x).cells[down] = b[<<x, y>>]
          /\ s(x).emptyRow \in Int
        BY <1>3
    <2> HIDE DEF down
    <2>2. down \in Rows /\ ~(down <= s(x).emptyRow)
        BY <2>1, BoardSize DEF Rows
    <2>3. <<x, down>> \in Cells
        BY <2>2 DEF Cells
    <2>4. new[<<x, down>>] = b[<<x, y>>]
        BY <1>1, <2>1, <2>2, <2>3
    <2> QED BY <2>4 DEF down
<1>6. new = [c \in Cells |-> new[c]]
    BY <1>1
<1> HIDE DEF new
<1>7. new \in [Cells -> Symbols]
    BY <1>4, <1>6
<1> QED BY <1>5, <1>7 DEF new

LEMMA Found ==
    ASSUME NEW b, NEW e
    PROVE  e \in FindMatches(b) <=>
             \/ \E c \in Across(b) : e \in {c, <<c[1] + 1, c[2]>>, <<c[1] + 2, c[2]>>}
             \/ \E c \in Downwards(b) : e \in {c, <<c[1], c[2] + 1>>, <<c[1], c[2] + 2>>}
<1> DEFINE A == {{c, <<c[1] + 1, c[2]>>, <<c[1] + 2, c[2]>>} : c \in Across(b)}
           D == {{c, <<c[1], c[2] + 1>>, <<c[1], c[2] + 2>>} : c \in Downwards(b)}
<1>1. FindMatches(b) = UNION (A \cup D)
    BY DEF FindMatches
<1>2. e \in FindMatches(b) <=> (\E m \in A : e \in m) \/ \E m \in D : e \in m
    <2> HIDE DEF A, D
    <2> QED BY <1>1
<1>3. (\E m \in A : e \in m) <=> \E c \in Across(b) : e \in {c, <<c[1] + 1, c[2]>>, <<c[1] + 2, c[2]>>}
    BY Zenon
<1>4. (\E m \in D : e \in m) <=> \E c \in Downwards(b) : e \in {c, <<c[1], c[2] + 1>>, <<c[1], c[2] + 2>>}
    BY Zenon
<1> QED BY <1>2, <1>3, <1>4

LEMMA MatchesAreCells == ASSUME NEW b PROVE IsFiniteSet(FindMatches(b)) /\ Cardinality(FindMatches(b)) \in Nat
<1>1. ASSUME NEW e \in FindMatches(b) PROVE e \in Cells
    <2>1. ASSUME NEW c \in Across(b) PROVE {c, <<c[1] + 1, c[2]>>, <<c[1] + 2, c[2]>>} \subseteq Cells
        BY BoardSize DEF Across, Cells, Columns
    <2>2. ASSUME NEW c \in Downwards(b) PROVE {c, <<c[1], c[2] + 1>>, <<c[1], c[2] + 2>>} \subseteq Cells
        BY BoardSize DEF Downwards, Cells, Rows
    <2>3. CASE \E c \in Across(b) : e \in {c, <<c[1] + 1, c[2]>>, <<c[1] + 2, c[2]>>}
        BY <2>1, <2>3
    <2>4. CASE \E c \in Downwards(b) : e \in {c, <<c[1], c[2] + 1>>, <<c[1], c[2] + 2>>}
        BY <2>2, <2>4
    <2> QED BY <1>1, <2>3, <2>4, Found
<1> QED BY <1>1, BoardSize, FS_Subset, FS_CardinalityType

(* Where nothing is found there is no line.                                  *)
LEMMA NothingFoundIsSteady == ASSUME NEW b, FindMatches(b) = {} PROVE Steady(b)
<1>0. Across(b) = {} /\ Downwards(b) = {}
    <2>1. ASSUME NEW c \in Across(b) \cup Downwards(b) PROVE c \in FindMatches(b)
        BY Found
    <2> QED BY <2>1
<1>1. ASSUME NEW c \in Cells, c[1] + 2 \in Columns, b[c] = b[<<c[1] + 1, c[2]>>], b[c] = b[<<c[1] + 2, c[2]>>] PROVE FALSE
    <2>1. c \in (0 .. Width - 3) \X Rows
        BY <1>1, BoardSize DEF Cells, Columns
    <2> QED BY <1>0, <1>1, <2>1 DEF Across, LineOf
<1>2. ASSUME NEW c \in Cells, c[2] + 2 \in Rows, b[c] = b[<<c[1], c[2] + 1>>], b[c] = b[<<c[1], c[2] + 2>>] PROVE FALSE
    <2>1. c \in Columns \X (0 .. Height - 3)
        BY <1>2, BoardSize DEF Cells, Rows
    <2> QED BY <1>0, <1>2, <2>1 DEF Downwards, LineOf
<1> QED BY <1>1, <1>2 DEF Steady

MatchInv ==
    /\ board \in [Cells -> Symbols] /\ cascading \in BOOLEAN
    /\ \E k \in Nat : score = CellPoints * k
    /\ ~cascading => FindMatches(board) = {}

LEMMA Multiples == ASSUME NEW n \in Nat, NEW k \in Nat, n > 0 PROVE (n * k) % n = 0
OBVIOUS

LEMMA MatchInvIsSafe == MatchInv => MatchSafe
<1> SUFFICES ASSUME MatchInv PROVE MatchSafe
    OBVIOUS
<1>1. score % CellPoints = 0
    BY Multiples, BoardSize DEF MatchInv
<1> QED BY <1>1, NothingFoundIsSteady DEF MatchInv, MatchSafe, MatchTypeOK, MovesEndSteady

LEMMA MatchStarts == MatchInit => MatchInv
<1> SUFFICES ASSUME MatchInit PROVE MatchInv
    OBVIOUS
<1>1. score = CellPoints * 0
    BY BoardSize DEF MatchInit
<1> QED BY <1>1 DEF MatchInit, StableBoards, MatchInv

LEMMA MatchMoves ==
    ASSUME MatchInv, [MatchNext]_matchVars
    PROVE  /\ MatchInv'
           /\ cascading => \/ UNCHANGED matchVars
                           \/ \A x \in Columns : \A y \in KeptRows(FindMatches(board), x) :
                                board'[<<x, Height - Cardinality(From(KeptRows(FindMatches(board), x), y))>>] = board[<<x, y>>]
<1>1. CASE UNCHANGED matchVars
    BY <1>1 DEF matchVars, MatchInv
<1>2. ASSUME NEW c \in Cells, NEW d \in Cells, Swap(c, d) PROVE MatchInv' /\ ~cascading
    <2>1. CASE UNCHANGED matchVars
        BY <1>2, <2>1 DEF matchVars, MatchInv, Swap
    <2>2. CASE board' = Swapped(board, c, d) /\ cascading' = TRUE /\ UNCHANGED score
        BY <1>2, <2>2 DEF MatchInv, Swap, Swapped
    <2> QED BY <1>2, <2>1, <2>2 DEF Swap
<1>3. CASE Cascade
    <2>1. PICK fresh \in [FreshCells(board, FindMatches(board)) -> Symbols] :
              board' = Fallen(board, FindMatches(board), fresh)
        BY <1>3 DEF Cascade
    <2>2. PICK k \in Nat : score = CellPoints * k
        BY DEF MatchInv
    <2>3. PICK m \in Nat : m = Cardinality(FindMatches(board))
        BY MatchesAreCells
    <2>4. score' = CellPoints * (k + m) /\ k + m \in Nat
        <3>1. score' = CellPoints * k + CellPoints * m
            BY <1>3, <2>2, <2>3 DEF Cascade
        <3> QED BY <3>1, BoardSize
    <2>5. cascading' \in BOOLEAN /\ (~cascading' => FindMatches(board)' = {})
        BY <1>3 DEF Cascade, FindMatches, Across, Downwards, LineOf
    <2>6. board \in [Cells -> Symbols]
        BY DEF MatchInv
    <2>7. /\ board' \in [Cells -> Symbols]
          /\ \A x \in Columns : \A y \in KeptRows(FindMatches(board), x) :
                board'[<<x, Height - Cardinality(From(KeptRows(FindMatches(board), x), y))>>] = board[<<x, y>>]
        BY <2>1, <2>6, BoardFalls
    <2> QED BY <2>4, <2>5, <2>7 DEF MatchInv
<1> QED BY <1>1, <1>2, <1>3 DEF MatchNext

playVars == <<faucetVars, linkVars, watchVars, gameVars, matchVars, limitVars, focus>>

(* A cascade moves what is in no line straight down in the order it had, and *)
(* every move of the game leaves a full board without three in line, on      *)
(* boards of any size, whatever symbols are drawn (processCascades).         *)
THEOREM BoardHolds == MCSpec => BoardKept
<1> DEFINE Falls == cascading => \A x \in Columns :
                      LET gone == FindMatches(board)
                          kept == {y \in Rows : <<x, y>> \notin gone}
                      IN  \A y \in kept : board'[<<x, Height - Cardinality({z \in kept : z >= y})>>] = board[<<x, y>>]
<1>1. MCInit => MatchInv
    BY MatchStarts DEF MCInit
<1>2. [MCNext]_playVars => [MatchNext]_matchVars
    BY DEF MCNext, playVars
<1>3. MatchInv /\ [MatchNext]_matchVars => MatchInv'
    BY MatchMoves
<1>4. MatchInv /\ [MatchNext]_matchVars => [Falls]_matchVars
    BY MatchMoves DEF KeptRows, From
<1>5. MCSpec => MCInit /\ [][MCNext]_playVars
    BY DEF MCSpec, playVars
<1>6. SymbolsFall <=> [][Falls]_matchVars
    BY DEF SymbolsFall
<1> HIDE DEF Falls
<1> QED BY <1>1, <1>2, <1>3, <1>4, <1>5, <1>6, MatchInvIsSafe, PTL DEF BoardKept
=============================================================================
