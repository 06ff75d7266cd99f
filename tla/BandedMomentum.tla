---------------------------- MODULE BandedMomentum -----------------------------
(* The portfolio construction of the LEaps sleeve (v4_banded_momentum.py): ranks  *)
(* the insights' symbols, enters, holds, trims and leaves them by bands of the    *)
(* rank, and moves its targets within a turnover budget. What it must remember of *)
(* a symbol, and of the day's turnover, is in the durable model state, because    *)
(* every cycle may be a process of its own. Weights are percent; the softmax is   *)
(* modelled by shares proportional to quality.                                    *)
EXTENDS Integers, Sequences, FiniteSets, SequencesExt, FiniteSetsExt, Functions

CONSTANTS
  Names,          \* symbols
  NameOrder,      \* their keys, ascending
  AlphaWeight,    \* [alpha -> weight], in percent
  RegimeWeight,   \* [regime -> [alpha -> multiplier]], in percent
  Bandings,       \* configurations
  NewsLists,      \* sets of active insights a cycle may see
  PriceTables,    \* [Names -> price], 0 when there is no price
  CyclesPerDay, MaxCycles,
  Absent

VARIABLES
  band,       \* the configuration
  bmBook,     \* per symbol [shares, cost]
  bmPrices,   \* prices of the last cycle
  bmRecords,  \* durable: per symbol the position state, or Absent
  bmBudget,   \* durable: [date, used]
  bmTargets,  \* the last targets: a function of symbols to [weight, tag]
  bmTime,     \* cycles so far
  bmStory     \* what happened, for the properties

bandVars == <<band, bmBook, bmPrices, bmRecords, bmBudget, bmTargets, bmTime, bmStory>>

Today == bmTime \div CyclesPerDay
KeyOf(y) == CHOOSE n \in DOMAIN NameOrder : NameOrder[n] = y
Lesser(m, n) == IF m < n THEN m ELSE n
Greater(m, n) == IF m > n THEN m ELSE n
Distance(m, n) == Greater(m, n) - Lesser(m, n)
HeldNames == {y \in Names : bmBook[y].shares # 0}

--------------------------------------------------------------------------------
(* Insights.                                                                     *)
\* The latest of a kind per key; of two of the same moment the later one wins.
Newest(news, Same(_, _)) ==
  {i \in news : \A j \in news : Same(i, j) => j.at <= i.at}

HardExits(news) == {i \in news : i.direction = "flat" /\ i.action = "exit"}
ExitNames(news) == {i.symbol : i \in HardExits(news)}

Trims(news) ==
  LET trims == {i \in news : i.action = "partial_trim"}
      last == Newest(trims, LAMBDA i, j : i.symbol = j.symbol)
  IN [y \in {i.symbol : i \in last} |->
        LET m == (CHOOSE i \in last : i.symbol = y).multiplier IN IF m = 0 THEN 50 ELSE m]

UpNews(news) ==
  Newest({i \in news : i.direction = "up" /\ i.symbol \notin ExitNames(news) /\ i.score <= 300},
         LAMBDA i, j : i.symbol = j.symbol /\ i.alpha = j.alpha)

\* Percentile of the score among those of the same alpha; alone, the score itself.
Normalized(i, ups) ==
  LET peers == {j \in ups : j.alpha = i.alpha}
      below == {j \in peers : \/ j.score < i.score
                              \/ j.score = i.score /\ KeyOf(j.symbol) < KeyOf(i.symbol)}
  IN IF Cardinality(peers) = 1 THEN Lesser(100, 50 + i.score \div 2)
     ELSE 25 + (75 * Cardinality(below)) \div (Cardinality(peers) - 1)

\* The market's breadth as the insights report it, in percent; momentum and volatility
\* are taken as fair.
Breadth(ups) ==
  IF ups = {} THEN 0 ELSE MapThenSumSet(LAMBDA i : i.breadth, ups) \div Cardinality(ups)
Mood(ups) ==
  LET breadth == Breadth(ups)
  IN CASE breadth < 25 -> "risk_off" [] breadth >= 55 -> "strong_risk_on"
       [] breadth \in 45..54 -> "risk_on" [] OTHER -> "neutral"

AlphaShare(alpha, mood) ==
  IF band.regimes THEN (AlphaWeight[alpha] * RegimeWeight[mood][alpha]) \div 100 ELSE AlphaWeight[alpha]

\* Quality: the weighted mean of what the alphas say, and a bonus for what is held.
Quality(y, ups, mood) ==
  LET mine == {i \in ups : i.symbol = y}
      total == MapThenSumSet(LAMBDA i : AlphaShare(i.alpha, mood), mine)
      said == MapThenSumSet(LAMBDA i : Normalized(i, ups) * AlphaShare(i.alpha, mood), mine)
  IN said \div total + (IF y \in HeldNames THEN band.retention ELSE 0)
       + band.multiAlpha * (Cardinality(mine) - 1)

\* The candidates by falling quality: records [symbol, quality].
Candidates(news) ==
  LET ups == UpNews(news)
      mood == Mood({i \in news : i.direction = "up"})
      found == {c \in {[symbol |-> y, quality |-> Quality(y, ups, mood)] :
                         y \in {i.symbol : i \in ups}} : c.quality > 0}
  IN SetToSortSeq(found, LAMBDA c, d : \/ c.quality > d.quality
                                       \/ c.quality = d.quality /\ KeyOf(c.symbol) > KeyOf(d.symbol))

\* The rank of a symbol among the candidates, 0 for none.
RankIn(candidates, y) ==
  IF \E n \in DOMAIN candidates : candidates[n].symbol = y
  THEN CHOOSE n \in DOMAIN candidates : candidates[n].symbol = y ELSE 0

GrossExposure(candidates, ups) ==
  LET breadth == Breadth({i \in ups : RankIn(candidates, i.symbol) > 0})
  IN CASE candidates = <<>> -> 0
       [] candidates # <<>> /\ breadth < 25 -> band.weakGross
       [] candidates # <<>> /\ breadth >= 55 -> band.gross
       [] candidates # <<>> /\ breadth \in 38..54 -> (band.gross + band.neutralGross) \div 2
       [] OTHER -> band.neutralGross

--------------------------------------------------------------------------------
(* What the record of a symbol says.                                             *)
AgeInDays(y) ==
  IF bmRecords[y] = Absent \/ bmRecords[y].entered = Absent THEN Absent
  ELSE Today - bmRecords[y].entered
MissingBefore(y) == IF bmRecords[y] = Absent THEN 0 ELSE bmRecords[y].missing

\* Mutant: a stop is an exit like the others.
CooldownAlike(status) ==
  CASE status \in {"rank_trim", "partial_trim", "trim"} -> band.trimCooldown
    [] status \in {"exit", "hard_exit"} -> band.reentryCooldown
    [] OTHER -> 0
Cooldown(status) ==
  CASE status = "hard_exit" -> band.exitCooldown
    [] status \in {"rank_trim", "partial_trim", "trim"} -> band.trimCooldown
    [] status = "exit" -> band.reentryCooldown
    [] OTHER -> 0

ReentryAllowed(y) ==
  bmRecords[y] = Absent \/ Today - bmRecords[y].updated >= Cooldown(bmRecords[y].status)

YoungHolding(y) == AgeInDays(y) # Absent /\ AgeInDays(y) < band.minHoldingDays

\* Mutant: a position is left in the first cycle that misses it.
ConfirmedAtOnce(y) == ~YoungHolding(y)
MissingConfirmed(y) == ~YoungHolding(y) /\ MissingBefore(y) + 1 >= band.confirmCycles

CurrentPct(y) == Lesser(100, bmBook[y].shares * bmPrices'[y])

--------------------------------------------------------------------------------
(* Selection and weights.                                                        *)
StatusOf(candidates, n) ==
  IF n <= band.entryTop THEN IF candidates[n].symbol \in HeldNames THEN "hold" ELSE "entry"
  ELSE "hold"

\* Entry band; outside it what is held, within the hold band or too young to leave.
Selected(candidates, trims) ==
  LET taken == {n \in DOMAIN candidates :
        LET y == candidates[n].symbol IN
        /\ y \notin HeldNames => y \notin DOMAIN trims /\ ReentryAllowed(y)
        /\ n <= band.entryTop \/ (y \in HeldNames /\ (n <= band.holdTop \/ YoungHolding(y)))}
      Valued(n) == [symbol |-> candidates[n].symbol, rank |-> n, status |-> StatusOf(candidates, n),
                    quality |-> candidates[n].quality
                                  + (IF n > band.entryTop THEN band.retention ELSE 0)]
      Before(c, d) ==
        \/ c.symbol \in HeldNames /\ d.symbol \notin HeldNames
        \/ /\ c.symbol \in HeldNames <=> d.symbol \in HeldNames
           /\ \/ c.quality > d.quality
              \/ c.quality = d.quality /\ KeyOf(c.symbol) > KeyOf(d.symbol)
      sorted == SetToSortSeq({Valued(n) : n \in taken}, Before)
  IN SubSeq(sorted, 1, Lesser(band.maxPositions, Len(sorted)))

\* Shares of `gross`, none above the cap: what is cut off goes to those below it, in
\* proportion, as often as there are symbols.
CapAndRedistribute(weights, cap) ==
  LET step(ws) ==
        LET excess == FoldSeq(LAMBDA w, sum : sum + Greater(w - cap, 0), 0, ws)
            under == FoldSeq(LAMBDA w, sum : sum + (IF w < cap THEN w ELSE 0), 0, ws)
        IN [n \in DOMAIN ws |->
              IF ws[n] >= cap THEN cap
              ELSE ws[n] + (IF under = 0 THEN 0 ELSE (excess * ws[n]) \div under)]
      rounds == FoldLeft(LAMBDA ws, n : step(ws), weights, [n \in 1..(Len(weights) + 1) |-> n])
  IN [n \in DOMAIN rounds |-> Lesser(rounds[n], cap)]

WeightsFor(chosen, gross) ==
  LET total == FoldSeq(LAMBDA c, sum : sum + c.quality, 0, chosen)
  IN CapAndRedistribute([n \in DOMAIN chosen |-> (gross * chosen[n].quality) \div total],
                        band.maxPosition)

AddAllowed(c) ==
  /\ c.rank <= band.entryTop
  /\ bmPrices'[c.symbol] >= bmBook[c.symbol].cost

Target(weight, tag) == [weight |-> weight, tag |-> tag]

\* A held symbol is not added to outside the entry band or at a loss; a weight below the
\* least position is dropped, and then the symbol is looked at as if not selected.
BandTarget(c, weight) ==
  LET current == CurrentPct(c.symbol) IN
  IF c.status = "hold" /\ weight > current /\ current > 0 /\ ~AddAllowed(c)
  THEN Target(current, "hold_no_add") ELSE Target(weight, c.status)

SelectedTargets(chosen, gross) ==
  LET weights == WeightsFor(chosen, gross)
      kept == {n \in DOMAIN chosen : gross > 0 /\ weights[n] >= band.minPosition}
  IN [y \in {chosen[n].symbol : n \in kept} |->
        LET n == CHOOSE m \in kept : chosen[m].symbol = y IN BandTarget(chosen[n], weights[n])]

--------------------------------------------------------------------------------
(* What becomes of a held symbol that was not selected, and of one that was.      *)
ScaledDown(y, multiplier) == (CurrentPct(y) * multiplier) \div 100

TrimmedTarget(y, target, multiplier) ==
  Target(Lesser(target.weight, ScaledDown(y, multiplier)), "partial_trim")

\* The first that applies; a position without a price has no weight to hold it at, and is
\* asked to leave.
HeldTarget(y, candidates, exits, trims, targets) ==
  LET rank == RankIn(candidates, y)
      chosen == y \in DOMAIN targets
      trimmed == y \in DOMAIN trims
      banded == rank > 0 /\ rank <= band.trimTop
  IN CASE y \in exits -> Target(0, "hard_exit")
       [] y \notin exits /\ chosen ->
            IF trimmed THEN TrimmedTarget(y, targets[y], trims[y]) ELSE targets[y]
       [] y \notin exits /\ ~chosen /\ banded ->
            Target(ScaledDown(y, IF trimmed THEN trims[y] ELSE band.trimMultiplier), "rank_trim")
       [] y \notin exits /\ ~chosen /\ ~banded /\ trimmed ->
            Target(ScaledDown(y, trims[y]), "partial_trim")
       [] OTHER ->
            IF MissingConfirmed(y) THEN Target(0, "exit")
            ELSE IF CurrentPct(y) > 0 THEN Target(CurrentPct(y), "missing_hold")
            ELSE Target(0, "dropped")

AllTargets(candidates, exits, trims, targets) ==
  [y \in DOMAIN targets \cup HeldNames |->
     IF y \in HeldNames THEN HeldTarget(y, candidates, exits, trims, targets) ELSE targets[y]]

--------------------------------------------------------------------------------
(* The turnover of a cycle and of a day. It is measured from the target before,   *)
(* which the record keeps, and from the position where there is no record.        *)
Bypasses(target) == target.weight = 0 /\ target.tag \in {"hard_exit", "exit"}
PreviousPct(y) == IF bmRecords[y] = Absent THEN CurrentPct(y) ELSE bmRecords[y].target

UsedToday == IF bmBudget.date = Today THEN bmBudget.used ELSE 0
\* Mutant: the cap of the cycle alone.
TurnoverCapOfCycle == band.cycleTurnover
TurnoverCap == Lesser(band.cycleTurnover, Greater(band.dailyTurnover - UsedToday, 0))

Drifts(y, target) ==
  /\ PreviousPct(y) > 0 /\ target.weight > 0
  /\ Distance(target.weight, PreviousPct(y)) < band.driftThreshold

Unbuyable(y, weight) ==
  /\ PreviousPct(y) = 0 /\ weight > 0 /\ bmBook[y].shares = 0
  /\ bmPrices'[y] > 0 /\ weight < bmPrices'[y]

\* As far towards its target as what remains allows, and not to a dust position.
Moved(y, target, remaining) ==
  LET previous == PreviousPct(y)
      step == Lesser(remaining, Distance(target.weight, previous))
      moved == IF target.weight > previous THEN previous + step ELSE previous - step
  IN IF Unbuyable(y, moved) \/ (moved <= band.minPosition /\ target.weight > 0) THEN 0 ELSE moved

Adjustable(targets) ==
  {y \in DOMAIN targets :
     ~Bypasses(targets[y]) /\ targets[y].weight # PreviousPct(y) /\ ~Drifts(y, targets[y])}
Settled(y, target) ==
  IF ~Bypasses(target) /\ target.weight # PreviousPct(y) /\ Drifts(y, target)
  THEN [target EXCEPT !.weight = PreviousPct(y)] ELSE target

\* The targets in their order: those of the selection, then the other held symbols.
CapTurnover(targets, order) ==
  LET asked == MapThenSumSet(LAMBDA y : Distance(targets[y].weight, PreviousPct(y)), Adjustable(targets))
      Next1(acc, y) ==
        IF y \notin Adjustable(targets)
        THEN [acc EXCEPT !.targets = @ @@ (y :> Settled(y, targets[y]))]
        ELSE LET moved == Moved(y, targets[y], acc.remaining)
                 consumed == Distance(moved, PreviousPct(y))
             IN [remaining |-> Greater(acc.remaining - consumed, 0), used |-> acc.used + consumed,
                 targets |-> acc.targets @@ (y :> [targets[y] EXCEPT !.weight = moved])]
  IN IF asked <= TurnoverCap
     THEN [targets |-> [y \in DOMAIN targets |-> Settled(y, targets[y])], used |-> asked]
     ELSE LET done == FoldLeft(Next1, [remaining |-> TurnoverCap, used |-> 0, targets |-> <<>>], order)
          IN [targets |-> done.targets, used |-> done.used]

SelectionOrder(chosen, first, asked) ==
  SelectSeq([n \in DOMAIN chosen |-> chosen[n].symbol], LAMBDA y : y \in DOMAIN first)
    \o SelectSeq(NameOrder, LAMBDA y : y \in DOMAIN asked \ DOMAIN first)

--------------------------------------------------------------------------------
\* Mutant: the record of a stop is written as the target it became.
StatusOfTarget(tag) == IF tag \in {"missing_hold", "dropped", "hard_exit"} THEN "target" ELSE tag

(* What is remembered. The status is read back from the tag of the target, so of  *)
(* the reasons that have no tag of their own only "target" is left.               *)
StatusFrom(tag) == IF tag \in {"missing_hold", "dropped"} THEN "target" ELSE tag

RecordAfter(y, target, asked, first) ==
  LET before == IF bmRecords[y] = Absent THEN Absent ELSE bmRecords[y].entered
      meant == IF asked.tag # "hard_exit" /\ y \in DOMAIN first THEN first[y].weight ELSE asked.weight
  IN [status |-> StatusFrom(target.tag), target |-> target.weight,
      missing |-> IF asked.tag \in {"missing_hold", "exit"} THEN MissingBefore(y) + 1 ELSE 0,
      entered |-> IF meant = 0 THEN Absent ELSE IF before = Absent THEN Today ELSE before,
      updated |-> Today]

RecordsAfter(asked, first, targets) ==
  [y \in Names |-> IF y \in DOMAIN targets THEN RecordAfter(y, targets[y], asked[y], first)
                   ELSE bmRecords[y]]

StoryAfter(news, targets, used) ==
  LET seen == {i.symbol : i \in {j \in news : j.direction = "up" \/ j.action # "none"}}
  IN [missed |-> [y \in Names |-> IF y \in HeldNames /\ y \notin seen THEN bmStory.missed[y] + 1 ELSE 0],
      left |-> [y \in Names |-> IF y \in HeldNames /\ y \in DOMAIN targets
                                 THEN (IF targets[y].tag = "hard_exit" THEN Today ELSE Absent)
                                 ELSE bmStory.left[y]],
      moved |-> (IF bmTime # 0 /\ (bmTime - 1) \div CyclesPerDay = Today THEN bmStory.moved ELSE 0)
                  + used,
      held |-> HeldNames]

BandInit ==
  /\ band \in Bandings
  /\ bmBook = [y \in Names |-> [shares |-> 0, cost |-> 0]]
  /\ bmPrices = [y \in Names |-> 0]
  /\ bmRecords = [y \in Names |-> Absent]
  /\ bmBudget = [date |-> Absent, used |-> 0]
  /\ bmTargets = <<>>
  /\ bmTime = 0
  /\ bmStory = [missed |-> [y \in Names |-> 0], left |-> [y \in Names |-> Absent], moved |-> 0,
                held |-> {}]

BandCycle(news, prices) ==
  /\ bmTime < MaxCycles
  /\ bmPrices' = prices
  /\ \E candidates \in {Candidates(news)}, trims \in {Trims(news)} :
     \E chosen \in {Selected(candidates, trims)} :
     \E first \in {SelectedTargets(chosen, GrossExposure(candidates, UpNews(news)))} :
     \E asked \in {AllTargets(candidates, ExitNames(news), trims, first)} :
     \E capped \in {CapTurnover(asked, SelectionOrder(chosen, first, asked))} :
          /\ bmTargets' = capped.targets
          /\ bmRecords' = RecordsAfter(asked, first, capped.targets)
          /\ bmBudget' = [date |-> Today, used |-> Lesser(band.dailyTurnover, UsedToday + capped.used)]
          /\ bmStory' = StoryAfter(news, capped.targets, capped.used)
  /\ bmTime' = bmTime + 1
  /\ UNCHANGED <<band, bmBook>>

\* Orders of some of the targets are filled, at the prices of the cycle.
AskedShares(y) == bmTargets[y].weight \div bmPrices[y]
BandTrade(filled) ==
  /\ \E y \in filled : AskedShares(y) # bmBook[y].shares
  /\ bmBook' = [y \in Names |->
       IF y \notin filled THEN bmBook[y]
       ELSE [shares |-> AskedShares(y),
             cost |-> CASE AskedShares(y) = 0 -> 0
                        [] AskedShares(y) # 0 /\ AskedShares(y) <= bmBook[y].shares -> bmBook[y].cost
                        [] OTHER -> (bmBook[y].shares * bmBook[y].cost
                                       + (AskedShares(y) - bmBook[y].shares) * bmPrices[y]) \div AskedShares(y)]]
  /\ UNCHANGED <<band, bmPrices, bmRecords, bmBudget, bmTargets, bmTime, bmStory>>

BandNext ==
  \/ \E news \in NewsLists, prices \in PriceTables : BandCycle(news, prices)
  \/ \E filled \in SUBSET {y \in DOMAIN bmTargets : bmPrices[y] > 0} : BandTrade(filled)

--------------------------------------------------------------------------------
BandStep == bmTime' # bmTime

\* A position that only lacks insights is left when it has lacked them for as many cycles
\* on end as must confirm it, and is not younger than the least holding time.
LeftWhenConfirmed ==
  \A y \in DOMAIN bmTargets' : bmTargets'[y].tag = "exit" =>
    /\ bmStory'.missed[y] >= band.confirmCycles
    /\ ~YoungHolding(y)

\* After a stop, a symbol that is out is not bought before the cooldown is over.
NoEarlyReturn ==
  \A y \in DOMAIN bmTargets' \ HeldNames :
    bmTargets'[y].weight > 0 /\ bmStory.left[y] # Absent
      => Today - bmStory.left[y] >= band.exitCooldown

\* Targets move by no more than the day's budget, but for what is dropped as dust.
BudgetKept ==
  bmStory'.moved <= band.dailyTurnover + band.minPosition * Cardinality(Names) * CyclesPerDay

\* What is entered stays below the largest position.
EntriesCapped ==
  \A y \in DOMAIN bmTargets' : bmTargets'[y].tag = "entry" => bmTargets'[y].weight <= band.maxPosition

(* What the construction promises across cycles that may each be a process.        *)
BandsKept == BandStep => LeftWhenConfirmed /\ NoEarlyReturn /\ BudgetKept /\ EntriesCapped
================================================================================
