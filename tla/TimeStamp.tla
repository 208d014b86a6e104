------------------------------ MODULE TimeStamp -------------------------------
(***************************************************************************)
(* Long2TimeStamp and TimeStamp2Long of CPGDatabase: seconds of the epoch  *)
(* to the local time of day and back, in a time zone with summer time.  A  *)
(* date is a day's number (localtime and mktime agree on calendars), an    *)
(* hour has HOUR seconds and a day HOURS hours, so that the zone's shifts  *)
(* cross seconds, hours and days.                                          *)
(***************************************************************************)
EXTENDS Integers

CONSTANTS
    SECONDS, HOUR, HOURS,       \* of a minute, an hour (in minutes), a day
    ZONE,                       \* standard time's distance from the epoch's
    SummerStart, SummerEnd      \* instants between which summer time rules

ASSUME ClockAssumption ==
    /\ {SECONDS, HOUR, HOURS} \subseteq Nat \ {0}
    /\ {ZONE, SummerStart, SummerEnd} \subseteq Nat

OneHour == SECONDS * HOUR
IsSummer(t) == SummerStart <= t /\ t < SummerEnd

-----------------------------------------------------------------------------
\* localtime: the fields of an instant.
localtime(t) ==
    LET local == t + ZONE + (IF IsSummer(t) THEN OneHour ELSE 0)
    IN [day  |-> local \div (OneHour * HOURS),
        hour |-> (local \div OneHour) % HOURS,
        min  |-> (local \div SECONDS) % HOUR,
        sec  |-> local % SECONDS]

\* mktime with tm_isdst = 0: the fields as standard time, summer or not.
mktimeStandard(tm) ==
    ((tm.day * HOURS + tm.hour) * HOUR + tm.min) * SECONDS + tm.sec - ZONE

\* Mutant: hours and minutes are printed in the other order.
Long2TimeStampSwapped(t) ==
    LET tm == localtime(t) IN <<tm.day, tm.min, tm.hour, tm.sec>>

\* "%04d-%02d-%02d %02d:%02d:%02d" of the fields, in this order.
Long2TimeStamp(t) ==
    LET tm == localtime(t) IN <<tm.day, tm.hour, tm.min, tm.sec>>

TimeStamp2Long(b) ==
    mktimeStandard([day |-> b[1], hour |-> b[2], min |-> b[3], sec |-> b[4]])
=============================================================================
