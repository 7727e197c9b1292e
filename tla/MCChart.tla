------------------------------- MODULE MCChart -------------------------------
(* Chart with six candles or none at first and up to two later, a canvas of *)
(* two widths and of no height, and the thresholds made small enough for    *)
(* every branch of the range's arithmetic to be taken.                      *)
EXTENDS Chart

Candle(t, k) == [ts |-> t, kind |-> k]

Six == <<Candle(1, "quiet"), Candle(2, "busy"), Candle(3, "quiet"), Candle(4, "busy"), Candle(5, "quiet"), Candle(6, "quiet")>>
MCHistories == {<<>>, Six}

\* A candle of the first data's last time; a later one, twice; two of one time;
\* two out of order.
MCBatches == {<<>>, <<Candle(6, "busy")>>, <<Candle(8, "quiet")>>, <<Candle(8, "busy")>>,
              <<Candle(7, "quiet"), Candle(7, "busy")>>, <<Candle(9, "busy"), Candle(7, "quiet")>>}

Wide == [w |-> 12, h |-> 15]
Narrow == [w |-> 7, h |-> 15]
Hidden == [w |-> 12, h |-> 0]
MCResizes == {Wide, Narrow, Hidden}
MCSizes == MCResizes \union {NoCanvas}

\* Over the main pane, the volumes, the navigator and the header.
MCPoints == {[x |-> 3, y |-> 4], [x |-> 4, y |-> 11],
             [x |-> 2, y |-> 14], [x |-> 5, y |-> 14], [x |-> 8, y |-> 14], [x |-> 3, y |-> 1]}

MCThemes == [light |-> "light"]
MCConfigs == {DefaultConfig, [theme |-> "dusk", custom |-> "own"]}

MCTooltipSize(m) == IF m = "kmap" THEN [w |-> 3, h |-> 4] ELSE [w |-> 2, h |-> 2]

MCDensity(n) == IF n > 6 THEN 1 ELSE 2

\* The main pane, the volumes and the navigator are as wide as one another and
\* begin at the same x, in both modes and on every canvas, which is what the
\* template's comments ask of it (templates.rs:20-21, 100-101).
ASSUME PanesAreAligned ==
  \A m \in Modes, s \in Sizes :
    \A id \in {"VolumeChart", "NavigatorContainer"} :
      Panes[m][s][id].x = Panes[m][s]["HeatmapArea"].x /\ Panes[m][s][id].w = Panes[m][s]["HeatmapArea"].w
=============================================================================
