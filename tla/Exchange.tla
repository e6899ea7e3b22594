------------------------------- MODULE Exchange ------------------------------
(***************************************************************************)
(* Exchange rates: helpers/exchange/exchangerate.go.  A request, under one *)
(* mutex from its first look to its answer, may fetch one table of rates,  *)
(* of its own currency, and is answered from that table or else from the   *)
(* one that was updated last.                                              *)
(*                                                                         *)
(* The time is counted in hours.  A table stands for its base, its times   *)
(* and whether it has rates; with rates it has those of all currencies     *)
(* that are asked for, the others being refused before.                    *)
(***************************************************************************)
EXTENDS Integers

CONSTANTS
  Codes,
  Period,       \* external: how often the API has new rates; 24
  MaxHours,     \* bound
  NoCode, NoTable

ASSUME ExchangeAssumption ==
  /\ Period \in Nat \ {0} /\ MaxHours \in Nat /\ Period <= MaxHours /\ NoCode \notin Codes
  /\ NoTable \notin [base : Codes \cup {NoCode}, last : Nat, next : Nat, rates : BOOLEAN]

VARIABLES
  hour,
  exchangeCache,
  lastReqTime,
  answer,         \* to the last request
  blockedBy       \* history: the currency for which lastReqTime was set

exvars == <<hour, exchangeCache, lastReqTime, answer, blockedBy>>

Epoch == -2    \* long ago

Tables == [base : Codes \cup {NoCode}, last : 0 .. MaxHours, next : 0 .. MaxHours + Period,
           rates : BOOLEAN]

\* The tables, the time of the last request and the last answer have their types
\* (helpers/exchange).
ExTypeOK ==
  /\ hour \in Period .. MaxHours
  /\ exchangeCache \in [Codes -> Tables \cup {NoTable}]
  /\ \A c \in Codes : exchangeCache[c] = NoTable \/ exchangeCache[c].base \in {c, NoCode}
  /\ lastReqTime \in Epoch .. hour
  /\ answer \in [from : Codes \cup {NoCode}, table : Tables \cup {NoTable},
                 is : {"none", "rate", "error", "not found"}]
  /\ blockedBy \in Codes \cup {NoCode}

NoAnswer == [from |-> NoCode, table |-> NoTable, is |-> "none"]

ExInit ==
  /\ hour = Period
  /\ exchangeCache = [c \in Codes |-> NoTable]
  /\ lastReqTime = Epoch
  /\ answer = NoAnswer
  /\ blockedBy = NoCode

Tick ==
  /\ hour < MaxHours
  /\ hour' = hour + 1
  /\ answer' = NoAnswer
  /\ UNCHANGED <<exchangeCache, lastReqTime, blockedBy>>
-----------------------------------------------------------------------------
\* Any JSON object with the status 200 is taken for a table: one that says there was an
\* error becomes a table without rates, of no base.
NoRates == [base |-> NoCode, last |-> 0, next |-> 0, rates |-> FALSE]

\* External: what the API answers, if it does.  It knows no currency without a name.
Published(base) ==
  LET last == hour - (hour % Period)
  IN  IF base = NoCode THEN {NoRates}
      ELSE {NoRates, [base |-> base, last |-> last, next |-> last + Period, rates |-> TRUE]}

globalCanUpdate == hour - lastReqTime > 1

NeedUpdate(table) == hour > table.next

Due(from) == IF exchangeCache[from] = NoTable THEN TRUE ELSE NeedUpdate(exchangeCache[from])

\* Fault: a table is fetched again for the currency, not for its base.
BaseAsked(from) == from

BaseOf(from) == IF exchangeCache[from] = NoTable THEN from ELSE exchangeCache[from].base

\* Fault: nothing is fetched until the table is due.
RefreshedUntilDue(from, table) ==
  /\ exchangeCache' = [exchangeCache EXCEPT ![from] = table]
  /\ lastReqTime' = table.next
  /\ blockedBy' = from

\* The table of a currency is fetched when there is none, and by its own base when it
\* is due.  lastReqTime is set even if it was not.
Refreshed(from, table) ==
  /\ exchangeCache' = [exchangeCache EXCEPT ![from] = table]
  /\ lastReqTime' = hour
  /\ blockedBy' = from

RefreshCache(from) ==
  /\ globalCanUpdate
  /\ IF Due(from) THEN \E table \in Published(BaseOf(from)) : Refreshed(from, table)
     ELSE Refreshed(from, exchangeCache[from])

Kept == UNCHANGED <<exchangeCache, lastReqTime, blockedBy>>

\* Fault: the hour counts from the request, even from one that fails.
ErrorMarks(from) ==
  /\ lastReqTime' = hour /\ blockedBy' = from
  /\ UNCHANGED exchangeCache

\* What an error of the request leaves.
RefreshError(from) == Kept

\* Fault: a table that was never updated is as good as any.
LeastOfAll(cache, prefer) ==
  IF prefer \in DOMAIN cache THEN {prefer}
  ELSE {c \in DOMAIN cache : \A d \in DOMAIN cache : cache[d].last >= cache[c].last}

\* Of the tables that were updated at the same time any may be found.
FindLeast(cache, prefer) ==
  IF prefer \in DOMAIN cache THEN {prefer}
  ELSE {c \in DOMAIN cache :
          cache[c].last > 0 /\ \A d \in DOMAIN cache : cache[d].last <= cache[c].last}

Answer(from, cache) ==
  LET found == FindLeast(cache, from)
  IN  IF found = {} THEN answer' = [from |-> from, table |-> NoTable, is |-> "not found"]
      ELSE \E c \in found :
             answer' = [from |-> from, table |-> cache[c],
                        is |-> IF cache[c].rates THEN "rate" ELSE "not found"]

Cached(cache) == [c \in {d \in Codes : cache[d] # NoTable} |-> cache[c]]

\* An amount asked for in its own currency, and currencies the bot does not know, are
\* answered before.
GetExchangeRate(from) ==
  /\ \/ /\ RefreshCache(from) \/ (~globalCanUpdate /\ Kept)
        /\ Answer(from, Cached(exchangeCache'))
     \/ /\ globalCanUpdate /\ Due(from)
        /\ RefreshError(from)
        /\ answer' = [from |-> from, table |-> NoTable, is |-> "error"]
  /\ UNCHANGED hour

ExNext == Tick \/ \E from \in Codes : GetExchangeRate(from)

ExSpec == ExInit /\ [][ExNext]_exvars
-----------------------------------------------------------------------------
\* A rate that is more than an hour overdue is given only while a request for another
\* currency keeps the table from being fetched (refreshCache, Update).
StaleOnlyIfBlocked ==
  answer.is = "rate" /\ hour - answer.table.next > 1 =>
    blockedBy # answer.from /\ hour - lastReqTime <= 1

\* As soon as there is one table with rates a request is answered, whatever currency it
\* is for, unless its own table is one without (findLeastAvailableExchangeRate).
FoundIfAny ==
  answer.is = "not found" =>
    \/ \A c \in Codes : exchangeCache[c] = NoTable \/ ~exchangeCache[c].rates
    \/ exchangeCache[answer.from] # NoTable /\ ~exchangeCache[answer.from].rates

\* A table without rates is there for good: it is fetched again by its base, which is
\* none (Update).
NoRatesForEver ==
  [][\A c \in Codes : exchangeCache[c] = NoRates => exchangeCache'[c] = NoRates]_exvars

\* A request is answered with rates whenever there are any, as fresh as the requests for
\* other currencies let them be, but for tables that were fetched without rates
\* (exchangerate.go).
RatesKept == []StaleOnlyIfBlocked /\ []FoundIfAny /\ NoRatesForEver
=============================================================================
