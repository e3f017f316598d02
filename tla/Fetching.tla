---- MODULE Fetching ----
(***************************************************************************)
(* The daily prices of one symbol as the server collects them: a pass of   *)
(* a feed asks for the days its file lacks and merges the answer into the  *)
(* file.  The candle of a day that is still traded is unfinished.  The     *)
(* feeds differ in when they ask at all and from which day on.             *)
(* Every day is a trading day; an outage stands for weekends as well.      *)
(***************************************************************************)
EXTENDS Integers, FiniteSets, FiniteSetsExt

CONSTANTS
  Recent,   \* days asked for again of a symbol from overseas
  LastDate  \* bound: days that are simulated

ASSUME FetchingAssumption == Recent \in Nat /\ LastDate \in Nat

VARIABLES
  feed,        \* which feed collects the symbol
  candleDay,
  hour,        \* "session", "late": still traded, though past 20:00 UTC; "closed"
  candleFile,  \* of each day "none", "live" (unfinished), "final"
  settled,     \* ghost: the last day on which a pass went well after the close
  behind       \* ghost: most days by which the file was behind at a fetch

fetchingVars == <<feed, candleDay, hour, candleFile, settled, behind>>

Dates == 1..LastDate
LastIn(f) == Max({0} \cup {d \in Dates : f[d] # "none"})
Existing == LastIn(candleFile)

(* What a feed has for the days from start on: of today, if it has it, what *)
(* has been traded so far.  Bitcoin is traded the whole day.                *)
Candle(d) ==
  IF d < candleDay \/ (hour = "closed" /\ feed # "bitcoin") THEN "final" ELSE "live"

Answers(start) ==
  {[d \in Dates |-> IF d \in start..till THEN Candle(d) ELSE "none"] :
     till \in {candleDay - 1, candleDay}}

(* The candles fetched replace those in the file. *)
Merged(old, new) == [d \in Dates |-> IF new[d] = "none" THEN old[d] ELSE new[d]]

SavesCandles(new) ==
  /\ candleFile' = Merged(candleFile, new)
  /\ behind' = Max({behind, candleDay - Existing})

FetchingInit ==
  /\ feed \in {"yfinance", "fdr", "korean", "overseas", "bitcoin", "lagged"}
  /\ candleDay = 1 /\ hour = "session"
  /\ candleFile = [d \in Dates |-> "none"]
  /\ settled = 0 /\ behind = 0

Clock ==
  /\ \/ hour = "session" /\ hour' = "late" /\ candleDay' = candleDay
     \/ hour = "late" /\ hour' = "closed" /\ candleDay' = candleDay
     \/ /\ hour = "closed" /\ hour' = "session"
        /\ candleDay < LastDate /\ candleDay' = candleDay + 1
  /\ UNCHANGED <<feed, candleFile, settled, behind>>

---------------------------------------------------------------------------
(* The pass went well: it had nothing to do, or it stored what it got.  A   *)
(* pass that fails leaves everything as it was.                             *)
GoesWell == settled' = IF hour = "closed" THEN candleDay ELSE settled

Skips ==
  /\ UNCHANGED <<candleFile, behind>>
  /\ GoesWell

StoresFrom(start) ==
  \E new \in Answers(start) : SavesCandles(new) /\ GoesWell

(* Indices and futures: what is there of today, or of yesterday while it is *)
(* early, is not asked for again.                                           *)
FetchYfinance ==
  /\ feed = "yfinance"
  /\ IF /\ Existing > 0
        /\ \/ Existing >= candleDay
           \/ Existing >= candleDay - 1 /\ hour = "session"
     THEN Skips ELSE StoresFrom(Existing + 1)

FetchFdr ==
  /\ feed = "fdr"
  /\ StoresFrom(Existing + 1)

LastClosedDate == IF hour = "closed" THEN candleDay ELSE candleDay - 1
UpToDate == Existing > 0 /\ Existing >= LastClosedDate

FetchKorean ==
  /\ feed = "korean"
  /\ IF UpToDate THEN Skips ELSE StoresFrom(Existing + 1)

(* From the day after the last one, as for the other feeds. *)
RecentStartTomorrow == Existing + 1

(* A symbol that has a file is asked for again for the last days. *)
RecentStart == IF Existing = 0 THEN 1 ELSE candleDay - Recent

FetchOverseas ==
  /\ feed = "overseas"
  /\ IF UpToDate THEN Skips ELSE StoresFrom(RecentStart)

(* The answer comes in pages; an error ends the reading, and what was read *)
(* is stored.                                                               *)
FetchBitcoin ==
  /\ feed = "bitcoin"
  /\ \E new \in Answers(Existing + 1), till \in Dates :
       SavesCandles([d \in Dates |-> IF d <= till THEN new[d] ELSE "none"])
  /\ GoesWell

(* Monthly series are dated when they are published, and read as a whole.   *)
FetchFred ==
  /\ feed = "lagged"
  /\ StoresFrom(1)

Fetches ==
  /\ \/ FetchYfinance \/ FetchFdr \/ FetchKorean
     \/ FetchOverseas \/ FetchBitcoin \/ FetchFred
  /\ UNCHANGED <<feed, candleDay, hour>>

FetchingNext == Clock \/ Fetches

FetchingSpec == FetchingInit /\ [][FetchingNext]_fetchingVars

---------------------------------------------------------------------------
(* The file is whole: no day is missing between two of its days, whatever   *)
(* passes failed or were not made, but in a file from overseas that was     *)
(* behind by more than the days that are asked for again.  And it is final: *)
(* an unfinished candle is replaced by a pass after the close of a later    *)
(* day.  The latter holds of the feeds that ask again for days they have;   *)
(* the other ones keep the unfinished candle.                               *)
FileWhole ==
  /\ (feed = "overseas" => behind <= Recent + 1) =>
       \A d \in Dates : d < Existing => candleFile[d] # "none"
  /\ feed \in {"overseas", "lagged"} =>
       \A d \in Dates :
         d < settled /\ d >= settled - Recent => candleFile[d] # "live"
====
