------------------------------ MODULE ChartData ------------------------------
(***************************************************************************)
(* The data manager of the K-line chart: the candles it was made with, the *)
(* candles that came later, the range of them that is visible, and what is *)
(* cached of both (wasm-cal/src/data/{data_manager,visible_range,          *)
(* heatmap_index,model}.rs).  Every method is an operator from a manager   *)
(* to the manager it leaves behind.                                        *)
(*                                                                         *)
(* A candle is [ts, kind]: its time and one of two shapes, "busy" with a   *)
(* spread and traded volumes by price, "quiet" with neither.  Prices and   *)
(* volumes are in twentieths so that the margins of 5 % are whole.         *)
(***************************************************************************)
EXTENDS ChartLayout

CONSTANTS
  MinVisible,             \* fewest candles a zoom leaves visible (5)
  SmallCount,             \* up to this many the wheel zooms slowly (10)
  MinInitial, MaxInitial, \* bounds of the first range (50 and 300)
  MinWidth,               \* the least width it is worked out for (100)
  Density(_),             \* length per candle for a number of candles (4 to 8)
  TickSize,               \* the least step of a price, which comes with the data
  MinBins, MaxBins,       \* bounds of the number of price levels shown (50, 200)
  BinHeight               \* the height that a level should have (3)

ASSUME DataAssumption ==
  /\ {MinVisible, SmallCount, MinInitial, MaxInitial, MinWidth, TickSize, MinBins, BinHeight} \subseteq Nat \ {0}
  /\ MinInitial <= MaxInitial /\ MaxBins \in Nat /\ MinBins <= MaxBins

Least(a, b) == IF a <= b THEN a ELSE b
Greatest(a, b) == IF a >= b THEN a ELSE b
Clamp(n, lo, hi) == Greatest(lo, Least(n, hi))
\* usize::saturating_sub
Minus(a, b) == Greatest(a - b, 0)
\* f64::round of a / b, half away from zero
RoundDiv(a, b) == IF a >= 0 THEN (2 * a + b) \div (2 * b) ELSE -((2 * (-a) + b) \div (2 * b))

\* What KlineItemRef answers of a candle, wherever it is kept.
Fields(i) == IF i.kind = "busy" THEN [low |-> 0, high |-> 60, volume |-> 40, traded |-> TRUE]
             ELSE [low |-> 20, high |-> 20, volume |-> 20, traded |-> FALSE]

\* calculate_optimal_tick: the price of one level as a fraction, no finer than
\* two steps.
Tick(low, high, height) ==
  LET bins == Clamp(height \div BinHeight, MinBins, MaxBins)
  IN IF high - low >= 2 * TickSize * bins THEN <<high - low, bins>> ELSE <<2 * TickSize, 1>>

-----------------------------------------------------------------------------
(* VisibleRange; indexes count from 0 and end is the first one behind.     *)

\* VisibleRange::new, and what update and update_total_len do alike: at least
\* one candle where there is one, and none behind the last.
NewRange(start, count, total) ==
  LET c == Least(Greatest(count, 1), total)
      s == Least(start, Minus(total, c))
  IN [start |-> s, count |-> c, end |-> Least(s + c, total), total |-> total]

UpdateRange(r, start, count) == NewRange(start, count, r.total)

\* Mutant of UpdateTotalLen: only the total is kept.
UpdateTotalLenAlone(r, total) == [r EXCEPT !.total = total]

UpdateTotalLen(r, total) == IF total = r.total THEN r ELSE NewRange(r.start, r.count, total)

\* from_layout: as many as the main pane has room for, at the tail.
FromLayout(l, total) ==
  LET room == Greatest(RectOf(l, "HeatmapArea").w, MinWidth) \div Density(total)
      count == Greatest(Least(Clamp(room, MinInitial, MaxInitial), total), 1)
  IN IF total = 0 THEN NewRange(0, 0, 0) ELSE NewRange(Minus(total, count), count, total)

\* zoom_with_relative_position, and the same code in the navigator's wheel:
\* num/den times as many, about the point at/width, never more than 80 %.
Zoom(r, num, den, at, width) ==
  LET old == Greatest(r.count, 1)
      cap == Greatest((8 * r.total) \div 10, MinVisible)
      new == Least(Least(Greatest(RoundDiv(old * num, den), MinVisible), cap), r.total)
  IN [start |-> Least(Greatest(RoundDiv(r.start * width + (old - new) * at, width), 0), r.total - new),
      count |-> new]

\* Where in a pane a point is, as a fraction at/width of it; its middle where
\* the pane has no width.
At(x, area) == IF area.w > 0 THEN <<Clamp(x - area.x, 0, area.w), area.w>> ELSE <<1, 2>>

\* VisibleRange::handle_wheel: down zooms in, and slowly near the end.  (The
\* checks that follow the zoom in the code hold of what it returns.)
ZoomByWheel(r, x, area, down) ==
  LET slow == Greatest(r.count, 1) <= SmallCount
      pace == CASE slow /\ down -> <<95, 100>> [] slow /\ ~down -> <<105, 100>>
                [] ~slow /\ down -> <<90, 100>> [] OTHER -> <<110, 100>>
  IN Zoom(r, pace[1], pace[2], At(x, area)[1], At(x, area)[2])

-----------------------------------------------------------------------------
(* DataManager                                                             *)

Length(d) == Len(d.hist) + Len(d.incr)
All(d) == d.hist \o d.incr

\* get: the candle at an index, from the one part or the other.
Get(d, i) ==
  IF i < Len(d.hist) THEN d.hist[i + 1]
  ELSE IF i - Len(d.hist) < Len(d.incr) THEN d.incr[i - Len(d.hist) + 1] ELSE None

\* KlineItemRef::volumes: a candle that came later always has a list of them.
HasVolumes(d, i) == i >= Len(d.hist) \/ Fields(Get(d, i)).traded

Extremes(items) ==
  [low |-> Min({Fields(items[j]).low : j \in DOMAIN items}),
   high |-> Max({Fields(items[j]).high : j \in DOMAIN items}),
   volume |-> Max({Fields(items[j]).volume : j \in DOMAIN items})]

\* calculate_data_ranges of the visible range: extremes with their margins.
ZeroCal == [low |-> 0, high |-> 0, volume |-> 0]

RangeOfData(d) ==
  LET e == Extremes(SubSeq(All(d), d.range.start + 1, d.range.end))
      margin == IF e.high > e.low THEN (e.high - e.low) \div 20 ELSE 20
  IN IF d.range.total = 0 \/ d.range.start >= d.range.end THEN ZeroCal
     ELSE [low |-> e.low - margin, high |-> e.high + margin, volume |-> e.volume + e.volume \div 20]

\* GlobalHeatmapIndex: the volumes of every candle by steps of the price.
HeatIndex(items, low, high) == [rows |-> items, low |-> low, high |-> high, tick |-> TickSize]

\* build_global_heatmap_index: what it is built from, or None where there are
\* no candles or no spread of prices.
BuildHeat(d) ==
  IF Length(d) = 0 THEN None
  ELSE LET e == Extremes(All(d)) IN
       IF e.low >= e.high THEN None ELSE HeatIndex(All(d), e.low, e.high)

InvalidateCache(d) == [d EXCEPT !.cal = None, !.heat = None]

GetCachedCal(d) == IF d.cal = None THEN ZeroCal ELSE d.cal

CalculateDataRanges(d) ==
  [d EXCEPT !.heat = IF d.heat = None /\ Length(d) > 0 THEN BuildHeat(d) ELSE d.heat,
            !.cal = IF d.cal = None /\ Length(d) > 0 THEN RangeOfData(d) ELSE d.cal]

\* DataManager::new and set_initial_data on a buffer that holds hist.
SetInitialData(hist) ==
  LET d == [hist |-> hist, incr |-> <<>>, index |-> <<>>, cal |-> None, heat |-> None,
            range |-> UpdateTotalLen(NewRange(0, 0, 0), Len(hist))]
  IN [d EXCEPT !.heat = BuildHeat(d)]

UpdateVisibleRange(d, start, count) ==
  LET r == UpdateRange(d.range, start, count) IN
  IF r.start = d.range.start /\ r.count = d.range.count THEN d
  ELSE InvalidateCache([d EXCEPT !.range = r])

InitializeVisibleRange(d, l) == InvalidateCache([d EXCEPT !.range = FromLayout(l, Length(d))])

\* append_item: a candle of a time that came later already replaces that one;
\* times of the first data are not looked at.
AppendItem(d, item) ==
  IF item.ts \in DOMAIN d.index
  THEN InvalidateCache([d EXCEPT !.incr[d.index[item.ts]] = item])
  ELSE InvalidateCache([d EXCEPT !.incr = Append(@, item),
         !.index = [t \in {item.ts} \union DOMAIN @ |-> IF t = item.ts THEN Len(d.incr) + 1 ELSE @[t]],
         !.range = UpdateTotalLen(@, Length(d) + 1)])

AppendItems(d, batch) ==
  LET after[n \in 0..Len(batch)] == IF n = 0 THEN d ELSE AppendItem(after[n - 1], batch[n])
  IN after[Len(batch)]

\* The candles of s at the places K by their time, those of one time in the
\* order of their places: a stable sort.
SortByTime(s, K) ==
  LET Behind(j) == {i \in K : s[i].ts < s[j].ts \/ (s[i].ts = s[j].ts /\ i < j)}
  IN [k \in 1..Cardinality(K) |-> s[CHOOSE j \in K : Cardinality(Behind(j)) = k - 1]]

\* The position of every time; of two candles of one time, that of the later.
IndexOf(s) == [t \in {s[j].ts : j \in DOMAIN s} |-> Max({j \in DOMAIN s : s[j].ts = t})]

\* Mutant of MergeItems: the index is added to, not rebuilt, after the sort.
MergeItemsIndexFirst(d, batch) ==
  LET all == d.incr \o batch
      kept == {j \in DOMAIN all : j <= Len(d.incr) \/ all[j].ts \notin DOMAIN d.index}
      added == [t \in {all[j].ts : j \in kept} |->
        IF t \in DOMAIN d.index THEN d.index[t]
        ELSE Cardinality({i \in kept : \E j \in kept : i <= j /\ all[j].ts = t})]
      m == InvalidateCache([d EXCEPT !.incr = SortByTime(all, kept), !.index = added,
             !.range = UpdateTotalLen(@, Len(d.hist) + Cardinality(kept))])
  IN IF kept = DOMAIN d.incr THEN d ELSE [m EXCEPT !.heat = BuildHeat(m)]

\* merge_items: those of a new time are added, then all that came later are
\* sorted; two of one new time in a batch are both added.
MergeItems(d, batch) ==
  LET all == d.incr \o batch
      kept == {j \in DOMAIN all : j <= Len(d.incr) \/ all[j].ts \notin DOMAIN d.index}
      sorted == SortByTime(all, kept)
      m == InvalidateCache([d EXCEPT !.incr = sorted, !.index = IndexOf(sorted),
             !.range = UpdateTotalLen(@, Len(d.hist) + Len(sorted))])
  IN IF kept = DOMAIN d.incr THEN d ELSE [m EXCEPT !.heat = BuildHeat(m)]

\* handle_wheel over the main pane: the manager, as it was where nothing
\* changes, or with the ranges worked out anew.
HandleMainWheel(d, x, area, down) ==
  LET z == ZoomByWheel(d.range, x, area, down)
      u == UpdateVisibleRange(d, z.start, z.count)
  IN IF Length(d) = 0 \/ u = d THEN d ELSE CalculateDataRanges(u)

-----------------------------------------------------------------------------
(* What every method keeps                                                 *)

\* The visible range lies within the candles there are and has at least one
\* of them; its four numbers agree (data_manager.rs: len, get_visible).
RangeIsWithin(d) ==
  LET r == d.range IN
  /\ r.total = Length(d) /\ r.start + r.count = r.end /\ r.end <= r.total
  /\ r.total > 0 => r.count >= 1

\* What is cached is what would be worked out now.
CachesAreFresh(d) ==
  /\ d.cal # None => d.cal = RangeOfData(d)
  /\ d.heat # None => d.heat = BuildHeat(d)

\* The index finds a candle of its time for every candle that came later.
IndexIsRight(d) ==
  /\ DOMAIN d.index = {d.incr[j].ts : j \in DOMAIN d.incr}
  /\ \A t \in DOMAIN d.index : d.index[t] \in DOMAIN d.incr /\ d.incr[d.index[t]].ts = t
=============================================================================
