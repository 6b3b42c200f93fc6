----------------------------- MODULE MarketHours -----------------------------
(***************************************************************************)
(* services/market_hours.py: when a market is open and which transition it *)
(* announces next. Time is counted in minutes of New York wall time from a *)
(* Monday at midnight; the change to and from daylight saving time and the *)
(* holidays, which the code knows nothing of, are left out.                *)
(***************************************************************************)
EXTENDS Integers, FiniteSetsExt

Minutes(hours, minutes) == 60 * hours + minutes
Day == Minutes(24, 0)

\* 0 is Monday, as in datetime.weekday.
Weekday(t) == (t \div Day) % 7

Saturday == 5
Sunday == 6
Friday == 4

\* now.replace(hour, minute)
Today(t, clock) == t - (t % Day) + clock

\* The loops of _next_weekday_time and its two siblings: the first such moment
\* that is after t.
NextAt(t, weekday, clock) ==
  Min({c \in {Today(t, clock) + k * Day : k \in 0..7} : c > t /\ Weekday(c) = weekday})

Never == -1

Hours(open, next) == [open |-> open, next |-> next]

\* After the close it looks for tomorrow's weekday from tomorrow on.
StocksStatus(t) ==
  LET openAt  == Today(t, Minutes(9, 30))
      closeAt == Today(t, Minutes(16, 0))
  IN  CASE Weekday(t) >= Saturday       -> Hours(FALSE, NextAt(t, 0, Minutes(9, 30)))
        [] Weekday(t) < Saturday /\ t < openAt -> Hours(FALSE, openAt)
        [] Weekday(t) < Saturday /\ openAt <= t /\ t < closeAt -> Hours(TRUE, closeAt)
        [] Weekday(t) < Saturday /\ closeAt <= t ->
             Hours(FALSE, NextAt(t + Day, (Weekday(t) + 1) % 7, Minutes(9, 30)))

Weekend(t) ==
  \/ Weekday(t) = Friday /\ t >= Today(t, Minutes(17, 0))
  \/ Weekday(t) = Saturday
  \/ Weekday(t) = Sunday /\ t < Today(t, Minutes(17, 0))

ForexStatus(t) ==
  IF Weekend(t) THEN Hours(FALSE, NextAt(t, Sunday, Minutes(17, 0)))
                ELSE Hours(TRUE, NextAt(t, Friday, Minutes(17, 0)))

StatusFor(market, t) ==
  CASE market = "STOCKS" -> StocksStatus(t)
    [] market = "CRYPTO" -> Hours(TRUE, Never)
    [] market = "FOREX"  -> ForexStatus(t)
=============================================================================
