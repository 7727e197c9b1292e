---------------------------- MODULE ChartPainters ----------------------------
(***************************************************************************)
(* What each painter of the K-line chart puts on its layer                 *)
(* (wasm-cal/src/render/*_renderer.rs).  A picture is whatever the painter *)
(* reads of the chart's state: two equal pictures are drawn alike, and     *)
(* None is nothing at all.  Strokes, fonts and the wording of labels are   *)
(* left out; colours and titles are the look that the configuration sets.  *)
(*                                                                         *)
(* The argument is the chart's state c, of which they read                 *)
(*   dm      the data manager        layout  the layout last worked out    *)
(*   mode    the render mode         look    theme and configuration       *)
(*   mouse   where the mouse is      drag    the navigator's drag          *)
(*   book    the order book's cache                                        *)
(***************************************************************************)
EXTENDS ChartData

CONSTANTS
  LabelSpacing,    \* least distance of two labels of the time axis (70)
  TooltipGap,      \* from the mouse to the box beside it (20)
  TooltipSize(_)   \* [w, h] of that box with its lines in a render mode

ASSUME PaintersAssumption == LabelSpacing \in Nat \ {0} /\ TooltipGap \in Nat

Place(c) == <<c.layout.mode, c.layout.canvas>>
Cal(c) == GetCachedCal(c.dm)

\* CoordinateMapper: from a value to a height in a pane and back.  Where all
\* values are one, it answers the edge of the pane for every value.
Mapper(c, low, high) ==
  IF low = high THEN [place |-> Place(c), span |-> None] ELSE [place |-> Place(c), span |-> <<low, high>>]

Prices(c) == Mapper(c, Cal(c).low, Cal(c).high)
Volumes(c) == Mapper(c, 0, Cal(c).volume)

\* The prices of all candles and one level of them, which the order book, the
\* heat map and the box beside the mouse have in common.
AllPrices(c) == Extremes(All(c.dm))
Level(c) == Tick(AllPrices(c).low, AllPrices(c).high, RectOf(c.layout, "HeatmapArea").h)

\* The visible candles that there are, with their places from the left.
Candles(c) ==
  {<<k, Get(c.dm, c.dm.range.start + k)>> :
     k \in {j \in 0..(c.dm.range.count - 1) : Get(c.dm, c.dm.range.start + j) # None}}

-----------------------------------------------------------------------------
(* The layer Base                                                          *)

\* draw_x_axis: every so many candles, as long as they are on the pane.
TimeLabels(c) ==
  LET r == c.dm.range
      w == RectOf(c.layout, "HeatmapArea").w
      fit == w \div LabelSpacing
      step == IF fit = 0 THEN r.total + 1 ELSE (r.count + fit - 1) \div fit
      OnPane(k) == 2 * CandleEdge(c.layout, k) + CandleBody(c.layout) <= 20 * w * c.layout.count
  IN IF r.start >= r.end THEN {}
     ELSE {<<k, Get(c.dm, r.start + k).ts>> :
             k \in {j \in 0..(r.count - 1) : j % step = 0 /\ r.start + j < Length(c.dm) /\ OnPane(j)}}

Background(c) == IF c.mode = "kmap" THEN c.look ELSE None

\* Ticks and the two extremes beside the main pane.
PriceAxis(c) == [prices |-> Prices(c), look |-> c.look]

VolumeAxis(c) == [volume |-> Volumes(c), look |-> c.look]

\* Symbol and legend, which AxisRenderer draws too, with a line in one mode.
AxisHeader(c) == [line |-> c.mode = "kmap", place |-> Place(c), look |-> c.look]

Axis(c) ==
  [background |-> Background(c), prices |-> PriceAxis(c), volume |-> VolumeAxis(c), header |-> AxisHeader(c),
   times |-> TimeLabels(c), by |-> c.layout.count]

Header(c) == [place |-> Place(c), look |-> c.look]

-----------------------------------------------------------------------------
(* The layer Main                                                          *)

Price(c) ==
  IF c.dm.range.count = 0 THEN None
  ELSE [candles |-> Candles(c), prices |-> Prices(c), by |-> c.layout.count, look |-> c.look]

VolumeBars(c) ==
  IF c.dm.range.count = 0 THEN None
  ELSE [candles |-> Candles(c), volume |-> Volumes(c), by |-> c.layout.count, look |-> c.look]

\* The rows of the index for the visible candles, shaded by the busiest of all.
HeatRows(c, h) ==
  LET r == c.dm.range IN
  IF \A j \in DOMAIN h.rows : ~Fields(h.rows[j]).traded THEN None ELSE [k \in r.start..(r.end - 1) |-> h.rows[k + 1]]

\* The steps of the index are drawn together up to a level.
Heat(c) ==
  LET h == c.dm.heat IN
  IF h = None \/ c.dm.range.count = 0 THEN None
  ELSE [rows |-> HeatRows(c, h), level |-> Tick(h.low, h.high, RectOf(c.layout, "HeatmapArea").h),
        prices |-> Mapper(c, h.low, h.high), by |-> c.layout.count]

Lines(c) ==
  LET r == c.dm.range
      points == {p \in Candles(c) : r.start + p[1] < Length(c.dm)}
  IN IF r.start >= Length(c.dm) \/ r.count = 0 \/ Cardinality(points) < 2 THEN None
     ELSE [points |-> points, prices |-> Prices(c), by |-> c.layout.count, look |-> c.look]

\* The candle of the order book: the one under the mouse or the last that was.
Hovered(c) == IF c.mouse.hover # None THEN c.mouse.hover ELSE c.mouse.last

HasBook(c) ==
  /\ Hovered(c) # None /\ Hovered(c) < Length(c.dm)
  /\ AllPrices(c).low < AllPrices(c).high

BookKey(c) == <<Hovered(c), c.dm.range.start, c.dm.range.start + c.dm.range.count>>

\* The cache that BookRenderer::draw leaves: worked out anew where the candle
\* or the visible range is another, or where there was nothing.
BookCache(c) ==
  LET item == Get(c.dm, Hovered(c))
      bins == [item |-> item, from |-> AllPrices(c).low, level |-> Level(c)]
  IN IF ~HasBook(c) \/ (c.book.key = BookKey(c) /\ c.book.bins # None) \/ ~HasVolumes(c.dm, Hovered(c)) THEN c.book
     ELSE [key |-> BookKey(c), bins |-> IF Fields(item).traded THEN bins ELSE None]

Book(c) ==
  LET b == BookCache(c) IN
  IF ~HasBook(c) \/ b.key # BookKey(c) \/ b.bins = None THEN None
  ELSE [bins |-> b.bins, last |-> Get(c.dm, Hovered(c)), place |-> Place(c), look |-> c.look]

-----------------------------------------------------------------------------
(* The layer Overlay                                                       *)

\* The volumes of all candles.
VolumeArea(c) == [j \in 1..Length(c.dm) |-> Fields(All(c.dm)[j]).volume]

\* Over them the visible range and its two handles, lit during a drag.
RangeIndicator(c) ==
  IF Length(c.dm) = 0 THEN None
  ELSE [range |-> <<c.dm.range.start, c.dm.range.count, Length(c.dm)>>, lit |-> c.drag.dragging]

Navigator(c) == [volumes |-> VolumeArea(c), range |-> RangeIndicator(c), place |-> Place(c), look |-> c.look]

\* What the box beside the mouse says: the candle and the price at the mouse,
\* or what was traded at its level; no lines for a candle without volumes.
KmapLines(c, item) == [item |-> item, at |-> c.mouse.y, prices |-> Mapper(c, AllPrices(c).low, AllPrices(c).high)]

HeatmapLines(c, item) == IF Fields(item).traded THEN [item |-> item, at |-> c.mouse.y, level |-> Level(c)] ELSE None

\* Below the mouse and right of it, or above or left of it where the main pane
\* ends, but not before the pane begins.
TooltipAt(c) ==
  LET main == RectOf(c.layout, "HeatmapArea")
      size == TooltipSize(c.mode)
      Beside(at, length, from, to) ==
        Greatest(IF at + TooltipGap + length > to THEN at - length - TooltipGap ELSE at + TooltipGap, from)
  IN <<Beside(c.mouse.x, size.w, main.x, main.x + main.w), Beside(c.mouse.y, size.h, main.y, main.y + main.h)>>

\* A box without lines is not drawn.
TooltipBox(c, item) ==
  LET lines == IF c.mode = "kmap" THEN KmapLines(c, item) ELSE HeatmapLines(c, item) IN
  IF lines = None THEN None ELSE [lines |-> lines, at |-> TooltipAt(c), look |-> c.look]

\* draw_tooltip: only over the main pane.
Tooltip(c) ==
  LET p == [x |-> c.mouse.x, y |-> c.mouse.y] IN
  IF Length(c.dm) = 0 \/ Hovered(c) >= Length(c.dm) \/ ~Encloses(RectOf(c.layout, "HeatmapArea"), p) THEN None
  ELSE TooltipBox(c, Get(c.dm, Hovered(c)))

\* The lines through the mouse within the charts and what they mark on the axes.
Crosshair(c) ==
  LET main == RectOf(c.layout, "HeatmapArea")
      volume == RectOf(c.layout, "VolumeChart")
      h == c.mouse.hover
  IN [x |-> Clamp(c.mouse.x, main.x, main.x + main.w), y |-> Clamp(c.mouse.y, main.y, volume.y + volume.h),
      prices |-> Prices(c),
      volume |-> IF Encloses(volume, [x |-> c.mouse.x, y |-> c.mouse.y]) THEN Volumes(c) ELSE None,
      time |-> IF h = None \/ Get(c.dm, h) = None THEN None ELSE Get(c.dm, h).ts, look |-> c.look]

\* OverlayRenderer::draw: only with the mouse over a chart and a candle.
Overlay(c) ==
  IF ~c.mouse.inChart \/ Hovered(c) = None THEN None ELSE [lines |-> Crosshair(c), tooltip |-> Tooltip(c)]

-----------------------------------------------------------------------------
Layers == {"Base", "Main", "Overlay"}

\* register_default_strategies, with what each of them answers for its layer,
\* its priority (the least is first) and the modes it supports.
Strategy(layer, priority, modes) == [layer |-> layer, priority |-> priority, modes |-> modes]

Strategies ==
  [axis |-> Strategy("Base", 5, Modes), header |-> Strategy("Base", 10, Modes),
   price |-> Strategy("Main", 10, {"kmap"}), heat |-> Strategy("Main", 15, {"heatmap"}),
   volume |-> Strategy("Main", 20, Modes), line |-> Strategy("Main", 25, Modes), book |-> Strategy("Main", 30, Modes),
   navigator |-> Strategy("Overlay", 80, Modes), crosshair |-> Strategy("Overlay", 90, Modes)]

OfLayer == [l \in Layers |-> {p \in DOMAIN Strategies : Strategies[p].layer = l}]

Picture(c, p) ==
  CASE p = "axis" -> Axis(c) [] p = "header" -> Header(c)
    [] p = "price" -> Price(c) [] p = "heat" -> Heat(c) [] p = "volume" -> VolumeBars(c)
    [] p = "line" -> Lines(c) [] p = "book" -> Book(c)
    [] p = "navigator" -> Navigator(c) [] p = "crosshair" -> Overlay(c)

\* render_layers: the painters of a layer that support the mode; none of them
\* covers what another has painted.
Paint(c, layer) == [p \in OfLayer[layer] |-> IF c.mode \in Strategies[p].modes THEN Picture(c, p) ELSE None]

\* An empty layer.
Blank(layer) == [p \in OfLayer[layer] |-> None]
=============================================================================
