------------------------------- MODULE MCRtc -------------------------------
(***************************************************************************)
(* An instance of Rtc for TLC: all seven registers, on a calendar of       *)
(* 31-day months, started shortly before each kind of carry.               *)
(***************************************************************************)
EXTENDS Rtc
Day == 86400
Register(u, v, s) == [unit |-> u, values |-> v, first |-> s]
MCRegisters == <<
  Register(1, 60, 0), Register(60, 60, 0), Register(3600, 24, 0), Register(Day, 7, 1),
  Register(Day, 31, 1), Register(31 * Day, 12, 1), Register(12 * 31 * Day, 100, 0)>>
Year == 12 * 31 * Day
MCStarts == {16 * 60 + 8, 21 * Year - 1}
=============================================================================
