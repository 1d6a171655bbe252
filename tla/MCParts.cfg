\* Every game from its opening, a poker hand out of the middle of a match, and the smaller parts.
SPECIFICATION Spec
CONSTANTS
 Player = {1,2,3,4} None = None
 Suit = {"Red","Blue"} ShedDeal = 1
 UnoDeck <- MCUnoDeck EightsDeck <- MCEightsDeck
 HeartsDeck <- MCHeartsDeck HeartsDeals <- MCHeartsDeals CardsPerHand = 3 CardsToPass = 3 PenaltyTotal = 17 TargetScore = 60
 GinDeck <- MCGinDeck GinDeals <- MCGinDeals WallStock = 1 MaxHandTurns = 3 MaxHands = 2 GinTarget = 40
 DefaultStack = 3 SmallBlind = 1 BigBlind = 2 HandsTotal = 2
 EvalDeck <- MCEvalDeck
 Subscriber={s1,s2} Sender={x1,x2} Buffer=2 MaxSubscribers=2 MaxMessages=4 NoOne=NoOne
 Key={k1,k2,k3} Limit=2 Window=2 MaxKeys=2 SweepEvery=2
 Lobby={t1,t2} Browser={b1,b2}
 Caller={g1,g2,g3} Code={t1}
INVARIANTS
 CardsKept PassesMeanStuck ClockCanPlay KnockIsFair ChipsKept TurnOwes PlacesRight
 EvaluatorIsBest NewestKept LimitHolds InvalidationSticks LocksNeverCircle
PROPERTIES LeaveKeepsTurn PaidFairly KeepsMatch
SYMMETRY CallersAlike
CHECK_DEADLOCK FALSE
