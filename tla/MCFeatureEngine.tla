--------------------------- MODULE MCFeatureEngine ---------------------------
(***************************************************************************)
(* An instance of FeatureEngine for TLC: three sessions of three bars with *)
(* a holiday between the last two, yesterday's whole or with a hole,        *)
(* and today's events, on time, late, unsound, twice or at one instant.    *)
(***************************************************************************)
EXTENDS FeatureEngine

MCFeatureCalendar ==
  [from |-> 0, to |-> 9, weekdays |-> 0 .. 6, holidays |-> {2}, specials |-> {},
   regular |-> [preopen |-> 1, open |-> 2, finalEntry |-> 5, flatten |-> 6, deadline |-> 7, close |-> 8]]

Candle(id, ref, day, n, close, delay) ==
  LET end == day * DayTicks + 2 + SlotTicks * n
  IN [id |-> id, kind |-> "BAR", ref |-> ref, minutes |-> 5, start |-> end - SlotTicks, end |-> end,
      received |-> end + delay, flags |-> {}, feed |-> "EQUITY", open |-> close - 1, close |-> close,
      high |-> close + 1, low |-> close - 2, volume |-> n]
Tick(id, at, quoted) ==
  [id |-> id, kind |-> "QUOTE", ref |-> "STOCK", received |-> at, quoted |-> quoted, flags |-> {},
   bid |-> 99, ask |-> 101]

\* The bars of a day, an id each.
DayOf(ref, day, base, first) == [n \in 1 .. 3 |-> Candle(first + n, ref, day, n, base + 10 * n, 0)]
IndexDay(first) == [n \in 1 .. 3 |-> [Candle(first + n, "NIFTY", 1, n, 50, 0) EXCEPT !.feed = "INDEX",
                                                               !.flags = {"ZERO_VOLUME"}]]
Today(n) == Candle(40 + n, "STOCK", 3, n, 210 + n, 0)
IndexToday(n) == [Candle(37 + n, "NIFTY", 3, n, 51 + n, 0) EXCEPT !.feed = "INDEX", !.flags = {"ZERO_VOLUME"}]

\* All of them with the first bars of today.
MCFeaturePast ==
  {past \o <<Today(1), IndexToday(1)>> :
     past \in {DayOf("STOCK", 0, 100, 0) \o DayOf("STOCK", 1, 200, 10) \o IndexDay(20),
               DayOf("STOCK", 0, 100, 0) \o SubSeq(DayOf("STOCK", 1, 200, 10), 1, 2)}}

MCFeatureEvents ==
  {Today(2), Today(3), IndexToday(2),
   [Today(1) EXCEPT !.id = 44, !.received = 65, !.close = @ + 1],    \* the bar again, corrected
   [Today(2) EXCEPT !.id = 36, !.received = 67],                     \* the bar, late
   [Today(2) EXCEPT !.flags = {"ABNORMAL_GAP"}],                     \* another content for an id
   Tick(35, 66, 65), Tick(45, 66, 64), Tick(34, 67, 63)}

MCFeatureContexts ==
  {[entity |-> "STOCK", nifty |-> "NIFTY", sector |-> Absent, vix |-> Absent, pair |-> "NIFTY",
    breadth |-> {"STOCK", "NIFTY"}, members |-> {}, known |-> 60, from |-> 0, to |-> 99, quantity |-> 3]}
=============================================================================
