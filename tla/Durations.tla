------------------------------- MODULE Durations -------------------------------
(***************************************************************************)
(* ms (src/src/utils/ms.ts): how long the durations of the configuration,  *)
(* '1hr', '7d' or '30mins', are in milliseconds.  A duration is a record   *)
(* [n, unit] of the number and the unit that the pattern of "parse" finds; *)
(* the unit, in lower case, may be left out, and for any other text parse  *)
(* throws: NoDuration.  The formatting half of ms has no caller.           *)
(***************************************************************************)
EXTENDS Naturals

NoDuration == "error"

Second == 1000
Minute == Second * 60
Hour == Minute * 60
Day == Hour * 24
Week == Day * 7
Year == (Day * 1461) \div 4

Parse(n, unit) ==
  CASE unit \in {"years", "year", "yrs", "yr", "y"} -> n * Year
    [] unit \in {"weeks", "week", "w"} -> n * Week
    [] unit \in {"days", "day", "d"} -> n * Day
    [] unit \in {"hours", "hour", "hrs", "hr", "h"} -> n * Hour
    [] unit \in {"minutes", "minute", "mins", "min", "m"} -> n * Minute
    [] unit \in {"seconds", "second", "secs", "sec", "s"} -> n * Second
    [] unit \in {"", "milliseconds", "millisecond", "msecs", "msec", "ms"} -> n
    [] OTHER -> NoDuration

Ms(val) == Parse(val.n, val.unit)
================================================================================
