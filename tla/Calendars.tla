---- MODULE Calendars ----
(***************************************************************************)
(* The way of the market calendar: the server builds it every night from   *)
(* the library, onto its disk and into its memory; requests find it there, *)
(* or read the disk after a start; the application asks for it every       *)
(* morning, saves it and drops what it had loaded; whoever then asks for a *)
(* session loads it again and puts it over the one that came with the      *)
(* program.  Reading and keeping what was read are two steps on both sides.*)
(***************************************************************************)
EXTENDS Integers, FiniteSets, FiniteSetsExt

CONSTANTS
  LastCalendarDay,  \* days are 0..LastCalendarDay; the program came with all of them
  MaxClosed         \* bound: days that are closed later

CalendarDays == 0..LastCalendarDay
Bundled == CalendarDays
NoCal == {-1}

VARIABLES
  library,       \* the session days that the server's library knows of
  disk,          \* the calendar on the server's disk
  memory,        \* in its memory, NoCal after a start
  reading,       \* read from the disk by a request and not yet kept
  calendarFile,  \* the file of the application
  loading,       \* loaded from it, with what came with the program, not yet kept
  loaded         \* what the application goes by, NoCal until somebody asks

calVars == <<library, disk, memory, reading, calendarFile, loading, loaded>>

CalInit ==
  /\ library = CalendarDays
  /\ disk = NoCal /\ memory = NoCal /\ reading = NoCal
  /\ calendarFile = NoCal /\ loading = NoCal /\ loaded = NoCal

(* A holiday is announced. *)
Closes(d) ==
  /\ Cardinality(CalendarDays \ library) < MaxClosed
  /\ library' = library \ {d}
  /\ UNCHANGED <<disk, memory, reading, calendarFile, loading, loaded>>

(* The nightly build, of each market for itself; it may fail, and is then   *)
(* left to the next night.                                                  *)
BuildsCalendar ==
  /\ disk' = library
  /\ memory' = library
  /\ UNCHANGED <<library, reading, calendarFile, loading, loaded>>

ServerRestarts ==
  /\ memory' = NoCal /\ reading' = NoCal
  /\ disk' \in {disk, NoCal}
  /\ UNCHANGED <<library, calendarFile, loading, loaded>>

(* A request that does not find it in memory reads the disk, and keeps it.  *)
ReadsDisk ==
  /\ memory = NoCal /\ disk # NoCal /\ reading = NoCal
  /\ reading' = disk
  /\ UNCHANGED <<library, disk, memory, calendarFile, loading, loaded>>

KeepsRead ==
  /\ reading # NoCal
  /\ memory' = reading
  /\ reading' = NoCal
  /\ UNCHANGED <<library, disk, calendarFile, loading, loaded>>

(* What was loaded is kept although the file is new. *)
PullsOnly ==
  /\ memory # NoCal
  /\ calendarFile' = memory
  /\ UNCHANGED <<library, disk, memory, reading, loading, loaded>>

(* The morning request of the application; without an answer, or when the   *)
(* file cannot be written, all stays.                                       *)
Pulls ==
  /\ memory # NoCal
  /\ calendarFile' = memory
  /\ loaded' = NoCal
  /\ UNCHANGED <<library, disk, memory, reading, loading>>

---------------------------------------------------------------------------
(* The user's calendar between its first and its last session, the bundled  *)
(* one outside; a file that is not there or damaged leaves the bundled one. *)
Load(user) ==
  IF user \in {NoCal, {}} THEN Bundled
  ELSE user \cup {d \in Bundled : d < Min(user) \/ d > Max(user)}

LoadsCalendar ==
  /\ loaded = NoCal /\ loading = NoCal
  /\ loading' = Load(calendarFile)
  /\ UNCHANGED <<library, disk, memory, reading, calendarFile, loaded>>

(* What was loaded is kept, although the file may have changed meanwhile.   *)
KeepsLoaded ==
  /\ loading # NoCal
  /\ loaded' = loading
  /\ loading' = NoCal
  /\ UNCHANGED <<library, disk, memory, reading, calendarFile>>

AppRestarts ==
  /\ loading' = NoCal /\ loaded' = NoCal
  /\ UNCHANGED <<library, disk, memory, reading, calendarFile>>

CalNext ==
  \/ BuildsCalendar \/ ServerRestarts \/ ReadsDisk \/ KeepsRead
  \/ Pulls \/ LoadsCalendar \/ KeepsLoaded \/ AppRestarts
  \/ \E d \in CalendarDays : Closes(d)

CalSpec == CalInit /\ [][CalNext]_calVars

---------------------------------------------------------------------------
(* The gate of every scheduled run.                                         *)
IsSessionDay(d) == d \in loaded

(* A holiday that is announced is known to the application before long, and *)
(* stays known: although a request or a loading that was under way when the *)
(* new calendar came puts the old one in its place, the next night or       *)
(* morning puts the new one back.  Except at the ends of the calendar,      *)
(* beyond whose first and last session the bundled one holds.               *)
HolidayArrives ==
  \A d \in 1..LastCalendarDay - 1 :
    <>[](d \notin library /\ \E lo, hi \in library : lo < d /\ d < hi)
      => []<>(loaded # NoCal /\ ~IsSessionDay(d))
====
