------------------------------- MODULE MCPlatform -------------------------------
EXTENDS Platform

Date(y, m, d, minute) ==
  [year |-> y, month |-> m, day |-> d, minute |-> minute, utc |-> TRUE,
   offset |-> 0, dst |-> FALSE]
LocalDate(date, offset, dst) ==
  [date EXCEPT !.utc = FALSE, !.offset = offset, !.dst = dst]

\* Before 1970 in UTC, a leap day of a century, none, a year's end in the west,
\* a day that is not there, a minute before and after midnight.
MCDates ==
  { LocalDate(Date(1970, 1, 1, 30), 60, FALSE), Date(2000, 2, 29, 5),
    Date(2100, 2, 29, 5), LocalDate(Date(2024, 12, 31, 1439), -60, FALSE),
    Date(2024, 4, 31, 5), LocalDate(Date(2023, 10, 1, 0), 120, TRUE) }

MCYears == {1969, 1970, 2000, 2023, 2024, 2025, 2100}
=============================================================================
