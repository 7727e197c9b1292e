----------------------------- MODULE ChartLayout -----------------------------
(***************************************************************************)
(* Where the panes of the K-line chart lie: the template of each render    *)
(* mode and the engine that turns it into rectangles                       *)
(* (wasm-cal/src/layout/{definition,templates,engine,chart_layout}.rs).    *)
(*                                                                         *)
(* Lengths are whole units; the heights and widths that the template fixes *)
(* are constants, its percentages are the code's.                          *)
(***************************************************************************)
EXTENDS Integers, FiniteSets, Sequences, SequencesExt

CONSTANTS
  HeaderHeight, SpacerHeight, AxisWidth, TimeAxisHeight, NavigatorHeight,
  Sizes,    \* the sizes that a canvas may have, [w, h]
  None      \* no value

Modes == {"kmap", "heatmap"}

ASSUME LayoutAssumption ==
  /\ {HeaderHeight, SpacerHeight, AxisWidth, TimeAxisHeight, NavigatorHeight} \subseteq Nat
  /\ \A s \in Sizes : s.w \in Nat /\ s.h \in Nat
  /\ None \notin Sizes

Fixed(n) == [by |-> "fixed", n |-> n]
Percent(p) == [by |-> "percent", n |-> p]
Fill == [by |-> "fill", n |-> 0]

VBox(id, children) == [id |-> id, down |-> TRUE, children |-> children]
HBox(id, children) == [id |-> id, down |-> FALSE, children |-> children]

\* The boxes of the template, each before the boxes within it; a child is the
\* name of a pane or box and its constraint.
CreateLayoutTemplate(mode) ==
  LET main == IF mode = "kmap" THEN 80 ELSE 90 IN
  << VBox("Root", <<<<"Header", Fixed(HeaderHeight)>>, <<"HeaderSpacer", Fixed(SpacerHeight)>>, <<"MainContent", Fill>>>>),
     HBox("MainContent", <<<<"ChartArea", Fill>>>>),
     HBox("ChartArea", <<<<"YAxis", Fixed(AxisWidth)>>, <<"DrawingArea", Fill>>>>),
     VBox("DrawingArea", <<<<"ChartsContainer", Fill>>, <<"TimeAxis", Fixed(TimeAxisHeight)>>,
                           <<"NavigatorWrapper", Fixed(NavigatorHeight)>>>>),
     VBox("ChartsContainer", <<<<"HeatmapWithOrderBook", Percent(main)>>, <<"VolumeChartWrapper", Percent(100 - main)>>>>),
     HBox("HeatmapWithOrderBook", <<<<"HeatmapArea", Percent(80)>>, <<"OrderBook", Percent(20)>>>>),
     HBox("VolumeChartWrapper", <<<<"VolumeChart", Percent(80)>>, <<"VolumeChartSpacer", Percent(20)>>>>),
     HBox("NavigatorWrapper", <<<<"NavigatorMainWrapper", Fill>>>>),
     HBox("NavigatorMainWrapper", <<<<"NavigatorContainer", Percent(80)>>, <<"NavigatorRightSpacer", Percent(20)>>>>) >>

Rect(x, y, w, h) == [x |-> x, y |-> y, w |-> w, h |-> h]

\* How far the first k of n lengths reach together.
Reach(length, n) == LET reach[k \in 0..n] == IF k = 0 THEN 0 ELSE reach[k - 1] + length[k] IN reach

\* compute_children: the fixed and the percent sizes first, the rest shared by
\* those that fill.
Extents(children, total) ==
  LET n == Len(children)
      Constraint(j) == children[j][2]
      asked == [j \in 1..n |-> CASE Constraint(j).by = "fixed" -> Constraint(j).n
                                 [] Constraint(j).by = "percent" -> (total * Constraint(j).n) \div 100
                                 [] OTHER -> 0]
      filling == {j \in 1..n : Constraint(j).by = "fill"}
      left == total - Reach(asked, n)[n]
  IN [j \in 1..n |-> IF j \in filling THEN (IF left > 0 THEN left ELSE 0) \div Cardinality(filling) ELSE asked[j]]

\* The children one behind the other; a box that is too small lets its later
\* children hang out.
ComputeChildren(box, bounds) ==
  LET n == Len(box.children)
      extent == Extents(box.children, IF box.down THEN bounds.h ELSE bounds.w)
      offset == Reach(extent, n)
      RectOfChild(j) == IF box.down THEN Rect(bounds.x, bounds.y + offset[j - 1], bounds.w, extent[j])
                        ELSE Rect(bounds.x + offset[j - 1], bounds.y, extent[j], bounds.h)
  IN [id \in {box.children[j][1] : j \in 1..n} |-> RectOfChild(CHOOSE j \in 1..n : box.children[j][1] = id)]

\* calculate: the children of a box once the box itself has its place.
WithChildren(panes, box) ==
  LET children == ComputeChildren(box, panes[box.id])
  IN [id \in DOMAIN panes \union DOMAIN children |-> IF id \in DOMAIN panes THEN panes[id] ELSE children[id]]

Calculate(template, bounds) ==
  LET after[k \in 0..Len(template)] ==
        IF k = 0 THEN [id \in {"Root"} |-> bounds] ELSE WithChildren(after[k - 1], template[k])
  IN after[Len(template)]

\* The engine's answer for every mode and canvas: a function of nothing else.
Panes == [m \in Modes |-> [s \in Sizes |-> Calculate(CreateLayoutTemplate(m), Rect(0, 0, s.w, s.h))]]

-----------------------------------------------------------------------------
\* A ChartLayout: the panes of the template on the canvas and the number of
\* candles that it divides the main pane by.
NewLayout(mode, canvas, count) == [mode |-> mode, canvas |-> canvas, count |-> count, panes |-> Panes[mode][canvas]]

\* ChartLayout::new with no panes, before there is a canvas.
EmptyLayout == [mode |-> "kmap", canvas |-> None, count |-> 0, panes |-> <<>>]

RectOf(l, pane) == IF l.canvas = None THEN Rect(0, 0, 0, 0) ELSE l.panes[pane]

\* Rect::contains, with every edge.
Encloses(r, p) == /\ r.x <= p.x /\ p.x <= r.x + r.w
                  /\ r.y <= p.y /\ p.y <= r.y + r.h

\* The left edge and the body of the k-th candle of the pane, in parts of
\* 10 * count: total_candle_width is the pane's width over count, candle_width
\* is 80 % of that and one unit at least.
CandleEdge(l, k) == 10 * k * RectOf(l, "HeatmapArea").w
CandleBody(l) == LET w == 8 * RectOf(l, "HeatmapArea").w IN IF w > 10 * l.count THEN w ELSE 10 * l.count
=============================================================================
