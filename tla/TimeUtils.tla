------------------------------ MODULE TimeUtils -----------------------------
(***************************************************************************)
(* util/TimeUtils.c, and what it is to compute.  A date is a record of     *)
(* year, month, day and the second of the day.  An epoch, a UINT64, is     *)
(* given by the days and the second it is made of: <<d, s>> stands for     *)
(* 86400 * d + s modulo 2^64.                                              *)
(***************************************************************************)
EXTENDS Integers, FiniteSets

QuotientRoundedDown(a, b) == a \div b
\* Division of C, towards zero.
Quotient(a, b) == IF a >= 0 THEN a \div b ELSE -((-a) \div b)

\* The Julian day number.
GetJdn(days, months, years) ==
    LET carry == Quotient(months - 14, 12)
    IN  Quotient(1461 * (years + 4800 + carry), 4)
        + Quotient(367 * (months - 2 - 12 * carry), 12)
        - Quotient(3 * Quotient(years + 4900 + carry, 100), 4)
        + days - 32075

\* The parameter years is a UINT8.
GetUnixEpoch(date) ==
    <<GetJdn(date.day, date.month, date.year % 256) - GetJdn(1, 1, 1970), date.second>>

-----------------------------------------------------------------------------
(* The calendar, by the lengths of its months and years.                   *)

IsLeap(year) == year % 4 = 0 /\ (year % 100 # 0 \/ year % 400 = 0)

MonthLength(year, month) ==
    CASE month = 2 -> IF IsLeap(year) THEN 29 ELSE 28
      [] month \in {4, 6, 9, 11} -> 30
      [] OTHER -> 31

LeapYearsBefore(year) == Cardinality({y \in 0 .. year - 1 : IsLeap(y)})

\* The days of the year that come before each of its months.
DaysBefore(year) ==
    LET before[m \in 1 .. 12] == IF m = 1 THEN 0 ELSE before[m - 1] + MonthLength(year, m - 1)
    IN  before

DaysFromYearZero(date) ==
    365 * date.year + LeapYearsBefore(date.year) + DaysBefore(date.year)[date.month] + date.day

UnixTime(date) ==
    <<DaysFromYearZero(date) - DaysFromYearZero([year |-> 1970, month |-> 1, day |-> 1]), date.second>>
=============================================================================
