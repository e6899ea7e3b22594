------------------------------- MODULE PicRates ------------------------------
(***************************************************************************)
(* Pictures and their ratings: globalcfg/q/udb_pics.go, with the tables    *)
(* and triggers of sql/schema_pics.sql, which run inside the statement     *)
(* that sets them off.  A user's rating is a SELECT and then, in a         *)
(* statement of its own, an INSERT or an UPDATE.  The bot picks a picture  *)
(* by a weight per rate, from prefix sums of the counters of the table     *)
(* pic_rate_counter that it reads every six hours.                         *)
(*                                                                         *)
(* The schema references saved_pics from the ratings, but the bot does not *)
(* turn foreign keys on.                                                   *)
(***************************************************************************)
EXTENDS Integers, Sequences, FiniteSets, FiniteSetsExt

CONSTANTS
  Pics,
  Raters,       \* users
  BotRates,     \* what the moderation may say
  UserRates,    \* the rates on the buttons
  maxPicRate,
  MaxPresses,   \* bound: the ratings under way at once
  NoValue

ASSUME PicAssumption ==
  /\ maxPicRate \in Nat
  /\ BotRates \cup UserRates \subseteq 0 .. maxPicRate
  /\ NoValue \notin Int
  /\ IsFiniteSet(Raters) /\ Raters # {}

Rates == 0 .. maxPicRate

\* The rates that a picture or a counter can have: the mean of sums that have gone wrong
\* (see early) may be out of the range.
TableRates == LET m == maxPicRate * Cardinality(Raters) IN -m .. m

VARIABLES
  botRate,           \* saved_pics: the pictures, with the rate the bot gave
  userRatingSum,
  rateUserCount,
  rating,            \* saved_pics_rating
  picRateCounter,    \* pic_rate_counter: rates may have no row
  countByRatePrefixSum,
  presses,           \* the ratings between their SELECT and their other statement
  missed,            \* history: the rates a picture was moved to while they had no row
  early              \* history: the pictures rated before they were saved

picvars == <<botRate, userRatingSum, rateUserCount, rating, picRateCounter,
             countByRatePrefixSum, presses, missed, early>>

Press == [pic : Pics, user : Raters, rate : UserRates, op : {"create", "update"}]

\* Pictures, ratings, counters and prefix sums have their types (udb_pics.go).
PicTypeOK ==
  /\ botRate \in [Pics -> BotRates \cup {NoValue}]
  /\ userRatingSum \in [Pics -> Int]
  /\ rateUserCount \in [Pics -> 0 .. Cardinality(Raters)]
  /\ rating \in [Pics -> [Raters -> UserRates \cup {NoValue}]]
  /\ picRateCounter \in [TableRates -> Int \cup {NoValue}]
  /\ countByRatePrefixSum \in Seq(Nat)
  /\ presses \subseteq Press
  /\ missed \subseteq TableRates
  /\ early \subseteq Pics

PicInit ==
  /\ botRate = [p \in Pics |-> NoValue]
  /\ userRatingSum = [p \in Pics |-> 0]
  /\ rateUserCount = [p \in Pics |-> 0]
  /\ rating = [p \in Pics |-> [u \in Raters |-> NoValue]]
  /\ picRateCounter = [r \in TableRates |-> NoValue]
  /\ countByRatePrefixSum = <<>>
  /\ presses = {}
  /\ missed = {}
  /\ early = {}

Saved(p) == botRate[p] # NoValue

\* The generated column: the mean, rounded away from zero, or what the bot said.
UserRate(bot, sum, count) ==
  LET round(n) == (2 * n + count) \div (2 * count)
  IN  IF count <= 0 THEN bot ELSE IF sum >= 0 THEN round(sum) ELSE -round(-sum)

RateOf(p) == UserRate(botRate[p], userRatingSum[p], rateUserCount[p])
-----------------------------------------------------------------------------
(* The triggers of saved_pics                                              *)

InsertTrigger(new) ==
  picRateCounter' = [picRateCounter EXCEPT ![new] = IF @ = NoValue THEN 1 ELSE @ + 1]

\* Fault: the old rate keeps its picture.
UpdateTriggerAdds(old, new) ==
  /\ picRateCounter' = [r \in TableRates |->
       IF picRateCounter[r] # NoValue /\ r = new /\ old # new THEN picRateCounter[r] + 1
       ELSE picRateCounter[r]]
  /\ missed' = IF picRateCounter[new] = NoValue THEN missed \cup {new} ELSE missed

\* Two UPDATEs, each of a row that may not be there.
UpdateTrigger(old, new) ==
  /\ picRateCounter' = [r \in TableRates |->
       IF picRateCounter[r] = NoValue THEN NoValue
       ELSE picRateCounter[r] + (IF r = new THEN 1 ELSE 0) - (IF r = old THEN 1 ELSE 0)]
  /\ missed' = IF old # new /\ picRateCounter[new] = NoValue THEN missed \cup {new} ELSE missed

\* UPDATE saved_pics in the triggers of saved_pics_rating: nothing if there is no such
\* picture.
Resum(p, sum, count) ==
  IF Saved(p)
  THEN /\ userRatingSum' = [userRatingSum EXCEPT ![p] = sum]
       /\ rateUserCount' = [rateUserCount EXCEPT ![p] = count]
       /\ UpdateTrigger(RateOf(p), UserRate(botRate[p], sum, count))
       /\ UNCHANGED early
  ELSE /\ early' = early \cup {p}
       /\ UNCHANGED <<userRatingSum, rateUserCount, picRateCounter, missed>>
-----------------------------------------------------------------------------
(* AddPic: the bot has looked at a picture                                 *)

\* createOrUpdateNsfwPic, at the first rand_key that nobody has.
AddPic(p, bot) ==
  /\ botRate' = [botRate EXCEPT ![p] = bot]
  /\ IF Saved(p)
     THEN UpdateTrigger(RateOf(p), UserRate(bot, userRatingSum[p], rateUserCount[p]))
     ELSE InsertTrigger(bot) /\ UNCHANGED missed
  /\ UNCHANGED <<userRatingSum, rateUserCount, rating, countByRatePrefixSum, presses, early>>
-----------------------------------------------------------------------------
(* RatePic: a user has pressed a button                                    *)

\* getNsfwPicRateByUserId.  The rate the user has given before is answered as it is.
RatePic(p, u, new) ==
  /\ Cardinality(presses) < MaxPresses
  /\ rating[p][u] # new
  /\ presses' = presses \cup
       {[pic |-> p, user |-> u, rate |-> new,
         op |-> IF rating[p][u] = NoValue THEN "create" ELSE "update"]}
  /\ UNCHANGED <<botRate, userRatingSum, rateUserCount, rating, picRateCounter,
                 countByRatePrefixSum, missed, early>>

\* Fault: an INSERT OR REPLACE, whose delete triggers SQLite leaves out.
ReplaceRate(b) ==
  /\ b \in presses /\ b.op = "create"
  /\ presses' = presses \ {b}
  /\ rating' = [rating EXCEPT ![b.pic][b.user] = b.rate]
  /\ Resum(b.pic, userRatingSum[b.pic] + b.rate, rateUserCount[b.pic] + 1)
  /\ UNCHANGED <<botRate, countByRatePrefixSum>>

\* The primary key refuses a second rating: the second of two first presses is an error.
CreateRate(b) ==
  /\ b \in presses /\ b.op = "create"
  /\ presses' = presses \ {b}
  /\ IF rating[b.pic][b.user] = NoValue
     THEN /\ rating' = [rating EXCEPT ![b.pic][b.user] = b.rate]
          /\ Resum(b.pic, userRatingSum[b.pic] + b.rate, rateUserCount[b.pic] + 1)
     ELSE UNCHANGED <<userRatingSum, rateUserCount, rating, picRateCounter, missed, early>>
  /\ UNCHANGED <<botRate, countByRatePrefixSum>>

\* The trigger takes the old rating from the row as it is now, not from the SELECT.
UpdateRate(b) ==
  /\ b \in presses /\ b.op = "update"
  /\ presses' = presses \ {b}
  /\ rating' = [rating EXCEPT ![b.pic][b.user] = b.rate]
  /\ Resum(b.pic, userRatingSum[b.pic] - rating[b.pic][b.user] + b.rate, rateUserCount[b.pic])
  /\ UNCHANGED <<botRate, countByRatePrefixSum>>
-----------------------------------------------------------------------------
(* The weights                                                             *)

\* Counters that are not positive weigh nothing.
Weight(r) == IF picRateCounter[r] = NoValue THEN 0 ELSE Max({picRateCounter[r], 0})

Weights == [r \in Rates |-> Weight(r)]

PrefixSum == [i \in 1 .. maxPicRate + 2 |-> SumFunctionOnSet(Weights, 0 .. i - 2)]

\* Once at the start or at the first request, and by the ticker.
RebuildPrefixSum ==
  /\ countByRatePrefixSum' = PrefixSum
  /\ UNCHANGED <<botRate, userRatingSum, rateUserCount, rating, picRateCounter, presses, missed, early>>

\* Fault: the first sum that is not less than the number drawn.
FirstNotBelow(rnd) ==
  Min({i \in DOMAIN countByRatePrefixSum : countByRatePrefixSum[i] >= rnd}) - 2

\* getRandomRangeByWeight, when rnd is drawn; the indices of the code begin at 0.
RateAt(rnd) == Min({i \in DOMAIN countByRatePrefixSum : countByRatePrefixSum[i] > rnd}) - 2

PicNext ==
  \/ \E p \in Pics, bot \in BotRates : AddPic(p, bot)
  \/ \E p \in Pics, u \in Raters, new \in UserRates : RatePic(p, u, new)
  \/ \E b \in presses : CreateRate(b) \/ UpdateRate(b)
  \/ RebuildPrefixSum

PicSpec == PicInit /\ [][PicNext]_picvars
-----------------------------------------------------------------------------
RatersOf(p) == {u \in Raters : rating[p][u] # NoValue}

\* A picture's sum and number of ratings are those of its ratings, however the SELECTs
\* and the other statements of several presses interleave, unless somebody rated it
\* before it was saved (RatePic, saved_pics_rating_*_trigger).
SumsAreRatings ==
  \A p \in Pics \ early :
    /\ rateUserCount[p] = Cardinality(RatersOf(p))
    /\ userRatingSum[p] = SumFunctionOnSet(rating[p], RatersOf(p))

PicsOf(r) == {p \in Pics : Saved(p) /\ RateOf(p) = r}

\* A counter is the number of the pictures of its rate, but for rates that a picture was
\* moved to while they had no row: those count too few, and never too many
\* (saved_pics_*_trigger; getRandomRangeByWeight takes the counters for weights).
CountersAreCounts ==
  \A r \in TableRates :
    LET count == IF picRateCounter[r] = NoValue THEN 0 ELSE picRateCounter[r]
    IN  /\ count <= Cardinality(PicsOf(r))
        /\ r \notin missed => count = Cardinality(PicsOf(r))

\* Of the numbers that can be drawn for a range, each rate in it gets as many as it
\* weighed when the sums were built, and the others none (getRandomRangeByWeight).
DrawIsWeighted ==
  \A start, end \in 0 .. maxPicRate + 1 :
    start < end /\ countByRatePrefixSum # <<>> =>
      LET draws == countByRatePrefixSum[start + 1] .. countByRatePrefixSum[end + 1] - 1
      IN  \A r \in Rates :
            Cardinality({rnd \in draws : RateAt(rnd) = r}) =
              IF r \in start .. end - 1
              THEN countByRatePrefixSum[r + 2] - countByRatePrefixSum[r + 1] ELSE 0

\* From the ratings by way of the sums and the counters to the draw nothing is counted
\* twice or forgotten (udb_pics.go, schema_pics.sql).
RatesAddUp == SumsAreRatings /\ CountersAreCounts /\ DrawIsWeighted
=============================================================================
