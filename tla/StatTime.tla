------------------------------- MODULE StatTime -------------------------------
(***************************************************************************)
(* Where globalcfg/q/udb_chat_stat.go counts a message of one chat: the    *)
(* day is taken with the timezone of the chat at the time of the call, the *)
(* ten minutes with the one that the statistics of that day were loaded    *)
(* with.  A configuration that cannot be read gives the default timezone.  *)
(*                                                                         *)
(* A message is named by the time it was sent at, in units of a few        *)
(* minutes; updates may come in any order.  Times are far enough from 0    *)
(* for no local time to be negative.                                       *)
(***************************************************************************)
EXTENDS Integers

CONSTANTS
  Times,          \* bound: when messages are sent
  Timezones,
  DefaultZone,    \* eight hours
  daySeconds,
  tenMinutes,
  NotLoaded

ASSUME StatTimeAssumption ==
  /\ tenMinutes \in Nat \ {0} /\ daySeconds \in Nat \ {0} /\ daySeconds % tenMinutes = 0
  /\ Times \subseteq Int /\ Timezones \cup {DefaultZone} \subseteq Int
  /\ \A t \in Times, z \in Timezones \cup {DefaultZone} : t + z >= 0

VARIABLES
  zone,               \* of the chat; nothing changes it
  loadedZone,         \* of the statistics of a day in the cache
  MsgIDAtTimeStart,   \* of a day and ten minutes of it: a message, or 0
  inSegment,          \* history: the messages counted there
  strayDays           \* history: the days counted on or loaded with another timezone

timevars == <<zone, loadedZone, MsgIDAtTimeStart, inSegment, strayDays>>

DayOf(t, z) == (t + z) \div daySeconds

\* Fault: ten minutes of the universal time.
SegmentUniversal(t, z) == (t % daySeconds) \div tenMinutes

SegmentOf(t, z) == ((t + z) % daySeconds) \div tenMinutes

StatDays == {DayOf(t, z) : t \in Times, z \in Timezones \cup {DefaultZone}}
Segs == 0 .. (daySeconds \div tenMinutes) - 1

TimeInit ==
  /\ zone \in Timezones
  /\ loadedZone = [d \in StatDays |-> NotLoaded]
  /\ MsgIDAtTimeStart = [d \in StatDays |-> [s \in Segs |-> 0]]
  /\ inSegment = [d \in StatDays |-> [s \in Segs |-> {}]]
  /\ strayDays = {}

\* GetChatCfgByIdOrDefault
ZoneOfCall == {zone, DefaultZone}

\* ChatStatAt and IncMessage of a message that was not counted before.
CountMessage(t, z) ==
  LET d == DayOf(t, z)
      loaded == IF loadedZone[d] = NotLoaded THEN z ELSE loadedZone[d]
      s == SegmentOf(t, loaded)
  IN  /\ \A day \in StatDays : \A seg \in Segs : t \notin inSegment[day][seg]
      /\ loadedZone' = [loadedZone EXCEPT ![d] = loaded]
      /\ inSegment' = [inSegment EXCEPT ![d][s] = @ \cup {t}]
      /\ MsgIDAtTimeStart' = [MsgIDAtTimeStart EXCEPT ![d][s] = IF @ = 0 THEN t ELSE @]
      /\ strayDays' = IF z = zone /\ loaded = zone THEN strayDays ELSE strayDays \cup {d}
      /\ UNCHANGED zone

\* The counts of the day are saved, and loaded again by the next message.
EvictDay(d) ==
  /\ loadedZone[d] # NotLoaded
  /\ loadedZone' = [loadedZone EXCEPT ![d] = NotLoaded]
  /\ UNCHANGED <<zone, MsgIDAtTimeStart, inSegment, strayDays>>

TimeNext ==
  \/ \E t \in Times, z \in ZoneOfCall : CountMessage(t, z)
  \/ \E d \in StatDays : EvictDay(d)

TimeSpec == TimeInit /\ [][TimeNext]_timevars
-----------------------------------------------------------------------------
\* The ten minutes of a day have the messages that were sent in them by the clock of the
\* chat, and link one of those, unless the configuration could not be read for a message
\* of the day, or for the one it was loaded for (ChatStatAt, IncMessage).
SegmentsAreLocal ==
  \A d \in StatDays \ strayDays, s \in Segs :
    LET start == d * daySeconds + s * tenMinutes
    IN  /\ \A t \in inSegment[d][s] : t + zone \in start .. start + tenMinutes - 1
        /\ MsgIDAtTimeStart[d][s] \in inSegment[d][s] \cup (IF inSegment[d][s] = {} THEN {0} ELSE {})
=============================================================================
