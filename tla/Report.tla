------------------------------- MODULE Report --------------------------------
(***************************************************************************)
(* What is made of the statistics of a day: the report of                  *)
(* handlers/group_stat_sender.go and the ranking of group_stat_diag.go.    *)
(*                                                                         *)
(* Users with the same count may come in any order, for the order of a Go  *)
(* map and of sort.Slice is any.                                           *)
(***************************************************************************)
EXTENDS Integers, SequencesExt, FiniteSetsExt

CONSTANTS
  Talkers, Counts,
  RankSize,       \* 10
  Segments,       \* of a day; 144
  Nobody, Unknown

ASSUME ReportAssumption ==
  /\ IsFiniteSet(Talkers) /\ Nobody \notin Talkers
  /\ Counts \subseteq Nat /\ 0 \in Counts
  /\ RankSize \in Nat \ {0} /\ Segments \in Nat \ {0}

VARIABLE reportJob    \* a day, and the users that GetUserById knows

Days ==
  (UNION {[msgCount : [talked -> Counts], known : SUBSET talked, byTime : {<<>>}]
           : talked \in SUBSET Talkers}) \cup
  [msgCount : {<<>>}, known : {{}}, byTime : [0 .. Segments - 1 -> Counts]]

NoDay == [msgCount |-> <<>>, known |-> {}, byTime |-> <<>>]

ReportInit == reportJob = NoDay
ReportNext == reportJob = NoDay /\ reportJob' \in Days \ {NoDay}
ReportSpec == ReportInit /\ [][ReportNext]_reportJob
-----------------------------------------------------------------------------
\* Fault: the other way round.
SortedUp(msgCount) ==
  {s \in SetToSeqs(DOMAIN msgCount) :
     \A i, j \in DOMAIN s : i < j => msgCount[s[i]] <= msgCount[s[j]]}

\* sort.Slice, by the number of messages
Sorted(msgCount) ==
  {s \in SetToSeqs(DOMAIN msgCount) :
     \A i, j \in DOMAIN s : i < j => msgCount[s[i]] >= msgCount[s[j]]}

mostActiveUsers(order) == SubSeq(order, 1, Min({3, Len(order)}))

\* Where in the list those are that are known.
Namings(users, known) == {i \in DOMAIN users : users[i] \in known}

\* Users that are not known are left out, the counts of all stay: the name of the most
\* active user is the first that is known.  There is none to take if nobody is, and the
\* handler panics.
MostActive(order, msgCount, known) ==
  LET users == mostActiveUsers(order)
      names == Namings(users, known)
      count == IF users = <<>> THEN 0 ELSE msgCount[users[1]]
  IN  [name  |-> IF names # {} /\ count > 0 THEN users[Min(names)] ELSE Nobody,
       count |-> count,
       panic |-> names = {} /\ count > 0]

\* Fault: a later one with the same count.
BusierOrSame(count, best) == count >= best

\* The first with the highest count, and the first of the day when nothing was said.
Busier(count, best) == count > best

mostActiveTimeSeg(byTime) ==
  LET seg[n \in 0 .. Segments] ==
        IF n = 0 THEN [timeId |-> 0, count |-> 0]
        ELSE IF Busier(byTime[n - 1], seg[n - 1].count)
             THEN [timeId |-> n - 1, count |-> byTime[n - 1]] ELSE seg[n - 1]
  IN  seg[Segments]

\* Fault: the rest begins one too late.
RestTooLate(order) == SubSeq(order, RankSize + 2, Len(order))

Rest(order) == SubSeq(order, RankSize + 1, Len(order))

CountOf(users, msgCount) == SumFunction([i \in DOMAIN users |-> msgCount[users[i]]])

\* The lines of the ranking: a user and the count, Unknown for one that is not known, and
\* at the end the others.
GetRank(order, msgCount, known) ==
  [i \in 1 .. Min({RankSize, Len(order)}) |->
     IF order[i] \in known THEN [name |-> order[i], count |-> msgCount[order[i]]]
     ELSE [name |-> Unknown, count |-> 0]]
  \o IF Len(order) > RankSize THEN <<[name |-> Nobody, count |-> CountOf(Rest(order), msgCount)]>>
     ELSE <<>>
-----------------------------------------------------------------------------
\* The user that the report thanks has the count it gives, the highest of the day, unless
\* a more active user is not known; it is not made at all exactly when somebody has
\* written but none of the three most active users is known (formatStatMessage).
ThankedIsMostActive ==
  \A order \in Sorted(reportJob.msgCount) :
    LET n == reportJob.msgCount known == reportJob.known
        most == MostActive(order, n, known)
    IN  /\ \A u \in DOMAIN n : n[u] <= most.count
        /\ most.name # Nobody => n[most.name] = most.count \/ order[1] \notin known
        /\ most.panic <=> /\ \E u \in DOMAIN n : n[u] > 0
                          /\ \A i \in 1 .. 3 : i \in DOMAIN order => order[i] \notin known

\* The lines of the ranking add up to all messages, but for users that are not known
\* (GetRank).
RankAddsUp ==
  \A order \in Sorted(reportJob.msgCount) :
    LET n == reportJob.msgCount
        rank == GetRank(order, n, reportJob.known)
        lost == {u \in DOMAIN n : \E i \in 1 .. RankSize : i \in DOMAIN order /\ order[i] = u}
                  \ reportJob.known
    IN  SumFunction([i \in DOMAIN rank |-> rank[i].count]) + SumFunctionOnSet(n, lost)
          = SumFunction(n)

\* The ten minutes that the report names, whose first message it links, are the first
\* with the most messages (mostActiveTimeSeg).
BusiestIsFirst ==
  reportJob.byTime # <<>> =>
    LET n == reportJob.byTime
        busiest == mostActiveTimeSeg(n)
    IN  /\ busiest.count = Max(Counts \cap Range(n))
        /\ n[busiest.timeId] = busiest.count
        /\ \A t \in 0 .. busiest.timeId - 1 : n[t] # busiest.count

\* The report and the ranking say of the day what the statistics have of it
\* (formatStatMessage, GetRank).
ReportIsTrue == ThankedIsMostActive /\ RankAddsUp /\ BusiestIsFirst
=============================================================================
