-------------------------------- MODULE Chart --------------------------------
(***************************************************************************)
(* The K-line chart as its web worker drives it: KlineProcess, its         *)
(* ChartRenderer with three layers that are painted only when dirty, its   *)
(* CommandManager that turns mouse events into changes, and the drag of    *)
(* the navigator (wasm-cal/src/{kline_process,command/manager,             *)
(* render/chart_renderer,render/datazoom_renderer,canvas/canvas_manager}). *)
(*                                                                         *)
(* The worker has one thread and every call runs to its end, so that a     *)
(* call is one step: the chart's state is one record and each method an    *)
(* operator on it.  Calls may come in any order.                           *)
(***************************************************************************)
EXTENDS ChartPainters

CONSTANTS
  Histories,     \* the first data the chart may be made with
  Batches,       \* the data that may come later: sequences of candles
  Garbled,       \* data that is not in the format
  Points,        \* the positions of the mouse, [x, y]
  Resizes,       \* the sizes the canvas may be given
  Configs,       \* the configurations that may be set, [theme, custom]
  Themes,        \* the themes by name
  HandleWidth,   \* how near to an edge of the range the mouse takes hold of it
  MaxIncr,       \* how many candles may come later (bound)
  MaxCalls       \* how many calls are made (bound)

NoCanvas == [w |-> 0, h |-> 0]
DefaultConfig == [theme |-> "light", custom |-> None]

ASSUME ChartAssumption ==
  /\ DefaultConfig \in Configs /\ Garbled \notin Batches /\ Resizes \union {NoCanvas} \subseteq Sizes
  /\ MaxIncr \in Nat /\ MaxCalls \in Nat /\ HandleWidth \in Nat \ {0}

\* Candles come in lists, each number of them has its density, and the mouse
\* is where a number says.
ASSUME CandlesAssumption == \A list \in Histories \union Batches : list \in Seq(ToSet(list))
ASSUME DensityAssumption ==
  \A hist \in Histories : \A n \in 0..(Len(hist) + MaxIncr) : Density(n) \in Nat \ {0}
ASSUME PointsAssumption == \A p \in Points : p.x \in Int /\ p.y \in Int

\* Beside the price axis every canvas has a unit's width for the navigator: a
\* drag divides by that width.
ASSUME ResizesAssumption == \A s \in Resizes : s.w > AxisWidth + 1

VARIABLES
  chart,   \* the state of the KlineProcess
  calls    \* how many calls were made

chartVars == <<chart, calls>>

NewMouse == [x |-> 0, y |-> 0, inChart |-> FALSE, inNav |-> FALSE, hover |-> None, last |-> None, dragging |-> FALSE, handle |-> "none"]
NewDrag == [dragging |-> FALSE, x |-> 0, handle |-> "none", start |-> 0, count |-> 0]

\* ConfigManager: a theme of one's own, the one of that name, or the default.
ThemeOf(config) ==
  CASE config.custom # None -> config.custom
    [] config.custom = None /\ config.theme \in DOMAIN Themes -> Themes[config.theme]
    [] OTHER -> Themes["light"]

Look(config) == [config |-> config, theme |-> ThemeOf(config)]

\* The canvas manager: without contexts at first, and with every layer to be
\* painted before and after it has them.
NewUninitialized == [ready |-> FALSE, dirty |-> Layers]
NewCanvasManager == [ready |-> TRUE, dirty |-> Layers]
OnCanvases(c, manager) == [c EXCEPT !.ready = manager.ready, !.dirty = manager.dirty]

\* get_context: an error where there is none.
HasContext(c) == c.ready

SetDirty(c, layers) == [c EXCEPT !.dirty = @ \union layers]
SetAllDirty(c) == [c EXCEPT !.dirty = Layers]
ClearAllDirtyFlags(c) == [c EXCEPT !.dirty = {}]

\* ChartRenderer::new: no data, no size and no layout.
NewRenderer ==
  [ready |-> NewUninitialized.ready, dirty |-> NewUninitialized.dirty,
   dm |-> SetInitialData(<<>>), layout |-> EmptyLayout, canvas |-> NoCanvas, mode |-> "kmap",
   look |-> Look(DefaultConfig), shown |-> [l \in Layers |-> Blank(l)],
   mouse |-> NewMouse, drag |-> NewDrag, book |-> [key |-> None, bins |-> None]]

\* KlineProcess::new; data that is not in the format makes no chart.
NewChart(hist) == [NewRenderer EXCEPT !.dm = SetInitialData(hist)]

ChartInit == calls = 0 /\ \E hist \in Histories : chart = NewChart(hist)

HasSize(c) == c.canvas.w > 0 /\ c.canvas.h > 0

-----------------------------------------------------------------------------
(* ChartRenderer                                                           *)

\* render: nothing without a size or without a dirty layer; a layer without a
\* context is an error that leaves all of them dirty.
Render(c) ==
  LET m == IF "Main" \in c.dirty THEN [c EXCEPT !.dm = CalculateDataRanges(c.dm)] ELSE c IN
  IF ~HasSize(c) \/ c.dirty = {} THEN c
  ELSE IF ~HasContext(c) THEN m
  ELSE ClearAllDirtyFlags([m EXCEPT
         !.shown = [l \in Layers |-> IF l \in c.dirty THEN Paint(m, l) ELSE c.shown[l]],
         !.book = IF "Main" \in c.dirty THEN BookCache(m) ELSE c.book])

UpdateLayout(c) == [c EXCEPT !.layout = NewLayout(c.mode, c.canvas, c.dm.range.count)]

\* Mutant of HandleLayoutChange: the axes are taken to stay as they are.
HandleLayoutChangeInPart(c) == Render(SetDirty(UpdateLayout(c), {"Main", "Overlay"}))

HandleLayoutChange(c) == Render(SetAllDirty(UpdateLayout(c)))

FullRecalculate(c) ==
  LET u == UpdateLayout(c)
      v == UpdateLayout([u EXCEPT !.dm = InitializeVisibleRange(u.dm, u.layout)])
  IN IF ~HasSize(c) THEN c ELSE IF Length(c.dm) = 0 THEN u
     ELSE [v EXCEPT !.dm = CalculateDataRanges(v.dm)]

-----------------------------------------------------------------------------
(* The navigator                                                           *)

\* get_handle_at_position: the edges of the visible range within reach, the
\* range between them, or nothing; lengths times the number of candles.
HandleAt(c, p) ==
  LET nav == RectOf(c.layout, "NavigatorContainer")
      n == Length(c.dm)
      x == (p.x - nav.x) * n
      left == c.dm.range.start * nav.w
      right == (c.dm.range.start + c.dm.range.count) * nav.w
      Near(edge) == 20 * (IF x > edge THEN x - edge ELSE edge - x) < n * Least(20 * HandleWidth, nav.w)
  IN IF ~Encloses(nav, p) \/ n = 0 THEN "none"
     ELSE CASE Near(left) /\ Near(right) -> IF x - left < right - x THEN "left" ELSE "right"
            [] Near(left) /\ ~Near(right) -> "left"
            [] ~Near(left) /\ Near(right) -> "right"
            [] OTHER -> IF x > left /\ x < right THEN "middle" ELSE "none"

\* Mutant of Dragged: the left edge is moved against the range as it is now.
DraggedFromNow(c, x) ==
  LET g == c.drag
      n == Length(c.dm)
      by == RoundDiv((x - g.x) * n, RectOf(c.layout, "NavigatorContainer").w)
  IN CASE g.handle = "left" -> [start |-> Greatest(g.start + by, 0), count |-> c.dm.range.count]
       [] g.handle = "right" -> [start |-> g.start, count |-> g.count + by]
       [] OTHER -> [start |-> Greatest(g.start + by, 0), count |-> g.count]

\* handle_mouse_drag: the range for the mouse at x, from the range and the
\* place at which the drag began.  Where the range then ended before candle
\* MinVisible the bound of the left edge wraps round to a start that is huge.
Dragged(c, x) ==
  LET g == c.drag
      n == Length(c.dm)
      end == g.start + g.count
      by == RoundDiv((x - g.x) * n, RectOf(c.layout, "NavigatorContainer").w)
      left == Least(Greatest(g.start + by, 0), end - MinVisible)
      asked == CASE g.handle = "left" -> [start |-> IF left < 0 THEN n ELSE left, count |-> end - left]
                 [] g.handle = "right" ->
                      [start |-> g.start, count |-> Least(Greatest(end + by, g.start + MinVisible), n) - g.start]
                 [] OTHER -> [start |-> Least(Greatest(g.start + by, 0), n - g.count), count |-> g.count]
      start == Least(asked.start, Minus(n, MinVisible))
  IN [start |-> start, count |-> Greatest(Least(asked.count, n - start), MinVisible)]

\* The navigator's wheel: up zooms in here, by a sixth or a fifth.
ZoomInNavigator(c, x, down) ==
  LET nav == RectOf(c.layout, "NavigatorContainer")
      at == At(x, nav)
  IN Zoom(c.dm.range, IF down THEN 6 ELSE 5, IF down THEN 5 ELSE 6, at[1], at[2])

-----------------------------------------------------------------------------
(* CommandManager                                                          *)

InNavigator(c, p) == Encloses(RectOf(c.layout, "NavigatorContainer"), p)
InMain(c, p) == Encloses(RectOf(c.layout, "HeatmapArea"), p)
InChart(c, p) == InMain(c, p) \/ Encloses(RectOf(c.layout, "VolumeChart"), p)

\* The candle under x, by columns of a whole number of units.
HoverIndex(c, x) ==
  LET main == RectOf(c.layout, "HeatmapArea")
      r == c.dm.range
      column == (main.w + r.count - 1) \div r.count
  IN IF x < main.x \/ x > main.x + main.w \/ r.count = 0 \/ r.end <= r.start THEN None
     ELSE Least((x - main.x) \div column + r.start, r.end - 1)

UpdateHoverStatus(c, p) ==
  LET hover == IF InChart(c, p) THEN HoverIndex(c, p.x) ELSE None IN
  [c EXCEPT !.mouse = [@ EXCEPT !.inChart = InChart(c, p), !.inNav = InNavigator(c, p), !.hover = hover,
                                !.last = IF hover # None THEN hover ELSE @]]

MoveTo(c, p) == [c EXCEPT !.mouse.x = p.x, !.mouse.y = p.y]

\* handle_mouse_move during a drag.
DragTo(c, p) ==
  LET d == Dragged(c, p.x) IN
  IF ~c.drag.dragging \/ Length(c.dm) = 0 \/ c.drag.handle = "none" THEN c
  ELSE HandleLayoutChange([c EXCEPT !.dm = UpdateVisibleRange(@, d.start, d.count)])

\* handle_mouse_move otherwise; the layers of the crosshair and of the order
\* book are painted when something about the mouse has changed there.
HoverAt(c, p) ==
  LET u == UpdateHoverStatus(c, p) IN
  Render(IF u.mouse.hover # c.mouse.hover \/ u.mouse.inChart # c.mouse.inChart \/ u.mouse.inChart
         THEN SetDirty(u, {"Overlay", "Main"}) ELSE u)

\* Mutant of Press: the command manager is not told which handle it is.
PressWithoutTelling(c, p) ==
  LET h == HandleAt(c, p) IN
  IF h = "none" THEN c
  ELSE Render([c EXCEPT !.mouse.dragging = TRUE,
    !.drag = [dragging |-> TRUE, x |-> p.x, handle |-> h, start |-> c.dm.range.start, count |-> c.dm.range.count]])

\* handle_mouse_down: takes hold of a handle of the navigator; asks for a
\* painting but marks no layer.
Press(c, p) ==
  LET h == HandleAt(c, p) IN
  IF h = "none" THEN c
  ELSE Render([c EXCEPT !.mouse.dragging = TRUE, !.mouse.handle = h,
    !.drag = [dragging |-> TRUE, x |-> p.x, handle |-> h, start |-> c.dm.range.start, count |-> c.dm.range.count]])

\* handle_mouse_up
Release(c) ==
  IF ~c.mouse.dragging \/ ~c.drag.dragging THEN c
  ELSE HandleLayoutChange([c EXCEPT !.mouse.dragging = FALSE, !.mouse.handle = "none",
                                    !.drag.dragging = FALSE, !.drag.handle = "none"])

\* handle_mouse_leave: the order book falls back on the last visible candle;
\* the navigator is not told that the drag is over.
Leave(c) ==
  LET index == IF c.dm.range.end > 0 THEN c.dm.range.end - 1 ELSE None IN
  Render([c EXCEPT
    !.mouse = [@ EXCEPT !.inChart = FALSE, !.inNav = FALSE, !.hover = index, !.last = index, !.dragging = FALSE],
    !.dirty = IF c.mouse.dragging THEN Layers ELSE @ \union {"Overlay", "Main"}])

-----------------------------------------------------------------------------
(* The cursor                                                              *)

\* DataZoomRenderer::get_cursor_style: during a drag that of the handle held.
NavigatorCursor(c, p) ==
  LET StyleOf(h, middle, none) == CASE h \in {"left", "right"} -> "ew-resize" [] h = "middle" -> middle [] OTHER -> none IN
  IF c.mouse.dragging THEN StyleOf(c.mouse.handle, "grabbing", "default")
  ELSE IF InNavigator(c, p) THEN StyleOf(HandleAt(c, p), "grab", "pointer") ELSE "default"

OverlayCursor(c, p) == IF Encloses(RectOf(c.layout, "DrawingArea"), p) THEN "crosshair" ELSE "default"

\* RenderStrategyFactory::get_cursor_style: the first strategy, by priority,
\* that has another cursor than the default.
StrategyCursor(c, p) ==
  LET answer == [s \in DOMAIN Strategies |->
        CASE s = "navigator" -> NavigatorCursor(c, p) [] s = "crosshair" -> OverlayCursor(c, p) [] OTHER -> "default"]
      asked == {s \in DOMAIN Strategies : c.mode \in Strategies[s].modes /\ answer[s] # "default"}
  IN IF asked = {} THEN "default"
     ELSE answer[CHOOSE s \in asked : \A t \in asked : Strategies[s].priority <= Strategies[t].priority]

\* get_cursor_style_at: in the navigator what the strategies answer.
CursorStyle(c, p) ==
  CASE InNavigator(c, p) -> StrategyCursor(c, p)
    [] ~InNavigator(c, p) /\ InChart(c, p) -> "crosshair"
    [] OTHER -> "default"

-----------------------------------------------------------------------------
(* The calls of the worker                                                 *)

\* A call ends in state c; those that change nothing are not counted, nor is
\* the one that brings the canvases.
Ends(c) ==
  /\ calls < MaxCalls /\ chart' = c
  /\ calls' = IF c = chart \/ c.ready # chart.ready THEN calls ELSE calls + 1

\* set_canvases: the size is kept even where a canvas has no context to give.
SetCanvases(size, given) ==
  /\ ~chart.ready
  /\ LET c == [chart EXCEPT !.canvas = size] IN
     Ends(IF given THEN Render(FullRecalculate(OnCanvases(c, NewCanvasManager))) ELSE c)

DrawAll == Ends(Render(chart))

\* verify_kline_data_slice: data not in the format is an error that changes
\* nothing, whatever was to be done with it.
RefuseData(data) == data = Garbled /\ UNCHANGED chartVars

\* append_data: a batch that only replaces candles is not painted.
AppendData(batch) ==
  /\ Len(chart.dm.incr) + Len(batch) <= MaxIncr
  /\ LET c == [chart EXCEPT !.dm = AppendItems(@, batch)] IN
     Ends(IF Length(c.dm) > Length(chart.dm) THEN HandleLayoutChange(c) ELSE c)

MergeData(batch) ==
  /\ Len(chart.dm.incr) + Len(batch) <= MaxIncr
  /\ LET c == [chart EXCEPT !.dm = MergeItems(@, batch)] IN
     Ends(IF Length(c.dm) > Length(chart.dm) THEN HandleLayoutChange(c) ELSE c)

MouseMove(p) ==
  LET c == MoveTo(chart, p) IN Ends(IF chart.mouse.dragging THEN DragTo(c, p) ELSE HoverAt(c, p))

MouseDown(p) == Ends(Press(chart, p))
MouseUp == Ends(Release(chart))
MouseLeave == Ends(Leave(chart))

\* handle_wheel over the navigator: the range is changed and a painting asked
\* for, but no layer is marked and the layout stays.
NavigatorWheel(p, down) ==
  /\ InNavigator(chart, p)
  /\ LET z == ZoomInNavigator(chart, p.x, down)
         c == MoveTo(chart, p)
     IN Ends(IF Length(chart.dm) = 0 THEN c ELSE Render([c EXCEPT !.dm = UpdateVisibleRange(@, z.start, z.count)]))

\* handle_wheel anywhere else.
MainWheel(p, down) ==
  /\ ~InNavigator(chart, p)
  /\ LET c == MoveTo(chart, p)
         d == HandleMainWheel(c.dm, p.x, RectOf(c.layout, "HeatmapArea"), down)
     IN Ends(IF ~InMain(chart, p) \/ d = c.dm THEN c ELSE HandleLayoutChange([c EXCEPT !.dm = d]))

\* set_render_mode with one of the two names; any other is an error.
SetRenderMode(m) ==
  Ends(IF m = chart.mode THEN chart ELSE HandleLayoutChange([chart EXCEPT !.mode = m]))

\* handle_canvas_resize: the overlay is wiped at once, the range begun anew.
HandleCanvasResize(size) ==
  LET c == UpdateLayout([chart EXCEPT !.canvas = size,
             !.shown["Overlay"] = IF chart.ready THEN Blank("Overlay") ELSE @])
  IN Ends(HandleLayoutChange([c EXCEPT !.dm = InitializeVisibleRange(@, c.layout)]))

\* update_config: asks for a painting but marks no layer.
UpdateConfig(config) == Ends(Render([chart EXCEPT !.look = Look(config)]))

\* Where the worker stops calling.
Done == calls = MaxCalls /\ UNCHANGED chartVars

ChartNext ==
  \/ \E size \in Resizes, given \in BOOLEAN : SetCanvases(size, given)
  \/ DrawAll
  \/ \E batch \in Batches : AppendData(batch) \/ MergeData(batch)
  \/ \E p \in Points : MouseMove(p) \/ MouseDown(p)
  \/ \E p \in Points, down \in BOOLEAN : NavigatorWheel(p, down) \/ MainWheel(p, down)
  \/ MouseUp \/ MouseLeave
  \/ \E m \in Modes : SetRenderMode(m)
  \/ \E size \in Resizes : HandleCanvasResize(size)
  \/ \E config \in Configs : UpdateConfig(config)
  \/ \E data \in Batches \union {Garbled} : RefuseData(data)
  \/ Done

ChartSpec == ChartInit /\ [][ChartNext]_chartVars

-----------------------------------------------------------------------------
(* Properties                                                              *)

Nothing(S) == S \union {None}

\* The type invariant (kline_process.rs:19-31, chart_renderer.rs:28-43).
ChartTypeOK ==
  /\ calls \in 0..MaxCalls
  /\ chart.dm.hist \in Histories /\ Len(chart.dm.incr) <= MaxIncr
  /\ chart.mode \in Modes /\ chart.look \in {Look(config) : config \in Configs} /\ chart.canvas \in Sizes /\ chart.ready \in BOOLEAN
  /\ chart.layout = EmptyLayout \/ (chart.layout.mode \in Modes /\ chart.layout.canvas \in Sizes)
  /\ chart.dirty \subseteq Layers /\ DOMAIN chart.shown = Layers
  /\ chart.mouse.hover \in Nothing(Nat) /\ chart.mouse.last \in Nothing(Nat)
  /\ {chart.dm.range.start, chart.dm.range.count, chart.drag.start} \subseteq Nat
  /\ {chart.drag.handle, chart.mouse.handle} \subseteq {"none", "left", "middle", "right"}

\* However candles come, the canvas is resized and the range zoomed and
\* dragged, what is visible are candles there are, and at least one of them
\* (data_manager.rs: every method that moves the range or adds candles).
RangeWithinData == RangeIsWithin(chart.dm)

\* What is kept beside the candles is never out of date: the ranges are those
\* of the visible candles, the index of the heat map is of all of them, and
\* the index by time leads to the candle of that time, however merged candles
\* came (data_manager.rs: invalidate_cache and the rebuilt index).
CachesMatchTheData == CachesAreFresh(chart.dm) /\ IndexIsRight(chart.dm)

\* While an edge of the range is dragged the other edge stays where it was
\* when the drag began, while the range is dragged it keeps its width, and
\* never does a drag leave fewer than MinVisible candles, whatever came,
\* zoomed or was resized meanwhile; if it had that many at first
\* (datazoom_renderer.rs:129-186).
DragKeepsTheOtherEdge ==
  [][chart.mouse.dragging /\ chart.drag.count >= MinVisible =>
       \A p \in Points : MouseMove(p) =>
         LET g == chart.drag  r == chart'.dm.range IN
         /\ g.handle = "left" => r.end = g.start + g.count
         /\ g.handle = "right" => r.start = g.start
         /\ g.handle = "middle" => r.count = g.count
         /\ r.count >= MinVisible]_chartVars

\* The cursor over the navigator tells what the mouse does there: while it
\* drags, which handle it holds, and otherwise which it would take hold of,
\* though the two are kept in different places and the crosshair's cursor
\* claims the whole drawing area (datazoom_renderer.rs:490-511,
\* manager.rs:168-176, overlay_renderer.rs:302-308).
CursorTellsWhatIsHeld ==
  \A p \in Points :
    InNavigator(chart, p) =>
      LET held == IF chart.mouse.dragging THEN chart.drag.handle ELSE HandleAt(chart, p) IN
      CASE held \in {"left", "right"} -> CursorStyle(chart, p) = "ew-resize"
        [] held = "middle" -> CursorStyle(chart, p) = (IF chart.mouse.dragging THEN "grabbing" ELSE "grab")
        [] OTHER -> CursorStyle(chart, p) = "pointer"

\* All of a layer but the order book, whose cache is of its own age.
Shows(c, l) == \A p \in DOMAIN c.shown[l] \ {"book"} : c.shown[l][p] = Paint(c, l)[p]

\* A call that changes what is to be seen, by new candles, another range, mode
\* or canvas, leaves every layer as it would be painted from scratch: axes,
\* candles, lines, navigator and crosshair agree with one another.  Two calls
\* do not promise that: the wheel over the navigator, and data that only
\* replaces candles (chart_renderer.rs:190-202, kline_process.rs:85-208).
EveryChangeIsPainted ==
  [][/\ chart'.ready /\ HasSize(chart')
     /\ \/ chart'.dm.range # chart.dm.range \/ Length(chart'.dm) # Length(chart.dm)
        \/ chart'.mode # chart.mode \/ chart'.canvas # chart.canvas
     /\ ~\E p \in Points, down \in BOOLEAN : NavigatorWheel(p, down)
     => chart'.dirty = {} /\ \A l \in Layers : Shows(chart', l)]_chartVars
=============================================================================
