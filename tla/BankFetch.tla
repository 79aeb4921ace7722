------------------------------ MODULE BankFetch ------------------------------
(***************************************************************************)
(* Which of the statements the banks show end up in the table, seen over   *)
(* days: fetch-transactions asks each time for the last Days days up to    *)
(* now, and stores what has a new id.  monoua is asked for an interval of  *)
(* instants and names its statements itself.  pbanua2x is asked for a      *)
(* range of dates, formed in the time zone of the fetcher and understood   *)
(* in that of the bank, and its statements get a hash of approval code,    *)
(* amount, date and time as their id, without the card.                    *)
(*                                                                         *)
(* Time is counted in hours.  A statement is its account, a code (monoua's *)
(* id, pbanua2x's approval code), its amount and the time it is dated.     *)
(***************************************************************************)
EXTENDS Integers, FiniteSets

CONSTANTS Mono,         \* accounts at monoua
          PB,           \* accounts at pbanua2x
          Codes,        \* codes of statements
          Amounts,      \* amounts of statements
          Days,         \* the argument -days
          BankZone,     \* pbanua2x's hours ahead of UTC, at each time
          FetcherZone,  \* the fetcher's
          Lags,         \* hours after its date that a bank may first show a statement
          MaxLag,       \* the longest of them
          MaxOutage,    \* hours between two fetches of an account that succeed
          Steps,        \* hours that may pass at once
          Idle,         \* no fetch under way
          MaxTime,      \* bound: the clock
          MaxPosted     \* bound: statements and their versions

\* The times that windows and statements reach.
Hours == -(24 * Days + MaxLag)..MaxTime

ASSUME BanksAssumption == Mono \cap PB = {}
ASSUME HoursAssumption ==
  /\ Days \in Nat /\ MaxLag \in Nat /\ MaxOutage \in Nat
  /\ Steps \subseteq Nat /\ Lags \subseteq 0..MaxLag
ASSUME IdleAssumption == Idle \notin Int
ASSUME BoundsAssumption == MaxTime \in Nat /\ MaxPosted \in Nat
\* Clocks may be put forward and back at any time, in both zones.
ASSUME ZonesAssumption == BankZone \in [Hours -> Int] /\ FetcherZone \in [Hours -> Int]

Accounts == Mono \cup PB

Statements == [acc : Accounts, code : Codes, amount : Amounts, time : Hours]

VARIABLES now,     \* hours since the program was set up
          posted,  \* statements the banks have shown, with all their versions
          shown,   \* those they show
          stored,  \* statements with a row of their own
          last,    \* of each account, `to` of the last fetch that succeeded
          to       \* of each account, `to` of the fetch under way, or Idle

vars == <<now, posted, shown, stored, last, to>>

Init ==
  /\ now = 0
  /\ posted = {}
  /\ shown = {}
  /\ stored = {}
  /\ last = [a \in Accounts |-> 0]
  /\ to = [a \in Accounts |-> Idle]

-----------------------------------------------------------------------------
(* The windows and the ids                                                 *)

Date(clock) == clock \div 24

\* pbTimeForamt, in the zone of time.Now()
FetcherDate(t) == Date(t + FetcherZone[t])

\* Trandate and Trantime, on the bank's clocks: the same twice in a year.
BankClock(t) == t + BankZone[t]
BankDate(t) == Date(BankClock(t))

\* Mutant: the window is a day short.
ADayShort(t) == t - 24 * (Days - 1)

From(t) == t - 24 * Days

CoveredByMono(t, time) == From(t) <= time /\ time <= t

CoveredByPB(t, time) ==
  FetcherDate(From(t)) <= BankDate(time) /\ BankDate(time) <= FetcherDate(t)

Fetched(a) ==
  {s \in shown : /\ s.acc = a
                 /\ IF a \in Mono THEN CoveredByMono(to[a], s.time)
                                  ELSE CoveredByPB(to[a], s.time)}

\* stmt.ID
MonoId(s) == s.code

\* What the hash is of.
PBId(s) == <<s.code, s.amount, BankClock(s.time)>>

\* The existence check looks for the id alone.
SameId(s, r) ==
  \/ {s.acc, r.acc} \subseteq Mono /\ MonoId(s) = MonoId(r)
  \/ {s.acc, r.acc} \subseteq PB /\ PBId(s) = PBId(r)

HasRow(s) == \E r \in stored : SameId(s, r)

\* Of statements with the same new id the first in the answer gets the row.
Save(ss) ==
  \E new \in SUBSET {s \in ss : ~HasRow(s)} :
    /\ \A s, r \in new : SameId(s, r) => s = r
    /\ \A s \in ss : HasRow(s) \/ \E r \in new : SameId(s, r)
    /\ stored' = stored \cup new

-----------------------------------------------------------------------------
\* Mutant: `to` is the end of the day.
FetchStartsTomorrow(a) ==
  /\ to[a] = Idle
  /\ to' = [to EXCEPT ![a] = 24 * (Date(now) + 1)]
  /\ UNCHANGED <<now, posted, shown, stored, last>>

FetchStarts(a) ==
  /\ to[a] = Idle
  /\ to' = [to EXCEPT ![a] = now]
  /\ UNCHANGED <<now, posted, shown, stored, last>>

FetchSucceeds(a) ==
  /\ to[a] # Idle
  /\ Save(Fetched(a))
  /\ last' = [last EXCEPT ![a] = to[a]]
  /\ to' = [to EXCEPT ![a] = Idle]
  /\ UNCHANGED <<now, posted, shown>>

\* The bank answers with an error or not at all, a statement cannot be converted,
\* a query fails or the process is killed: with a part of the rows saved.
FetchFails(a) ==
  /\ to[a] # Idle
  /\ \E ss \in SUBSET Fetched(a) : Save(ss)
  /\ to' = [to EXCEPT ![a] = Idle]
  /\ UNCHANGED <<now, posted, shown, last>>

\* monoua does not give an id twice.
BankPosts(s) ==
  /\ s \notin posted
  /\ s.acc \in Mono => \A r \in posted : r.acc \in Mono => r.code # s.code
  /\ Cardinality(posted) < MaxPosted
  /\ posted' = posted \cup {s}
  /\ shown' = shown \cup {s}
  /\ UNCHANGED <<now, stored, last, to>>

\* A hold at monoua settles at another amount, under the same id, any time later.
HoldSettles(s, n) ==
  LET r == [s EXCEPT !.amount = n] IN
  /\ s.acc \in Mono
  /\ r \notin posted
  /\ Cardinality(posted) < MaxPosted
  /\ posted' = posted \cup {r}
  /\ shown' = (shown \ {s}) \cup {r}
  /\ UNCHANGED <<now, stored, last, to>>

\* Operations keep up: no account goes without a successful fetch for longer
\* than MaxOutage.
Passes(h) ==
  /\ now + h <= MaxTime
  /\ \A a \in Accounts : now + h - last[a] <= MaxOutage
  /\ now' = now + h
  /\ UNCHANGED <<posted, shown, stored, last, to>>

Next ==
  \/ \E a \in Accounts : FetchStarts(a) \/ FetchSucceeds(a) \/ FetchFails(a)
  \/ \E a \in Accounts, c \in Codes, n \in Amounts, l \in Lags :
       BankPosts([acc |-> a, code |-> c, amount |-> n, time |-> now - l])
  \/ \E s \in shown, n \in Amounts : HoldSettles(s, n)
  \/ \E h \in Steps : Passes(h)

Spec == Init /\ [][Next]_vars

-----------------------------------------------------------------------------
(* Type invariant: a fetch under way asks for a time that has come, not    *)
(* before that of the one before it; rows are of posted statements, one to *)
(* an id.                                                                  *)
TypeOK ==
  /\ now \in 0..MaxTime
  /\ posted \subseteq Statements
  /\ shown \subseteq posted
  /\ stored \subseteq posted
  /\ \A s, r \in stored : SameId(s, r) => s = r
  /\ last \in [Accounts -> Nat]
  /\ to \in [Accounts -> Nat \cup {Idle}]
  /\ \A a \in Accounts : last[a] <= now
  /\ \A a \in Accounts : to[a] # Idle => last[a] <= to[a] /\ to[a] <= now

(* A statement that lies before the window a fetch would ask for now       *)
(* (cmd/fetch-transactions 73-74) is in the table, whenever the bank       *)
(* showed it, however the fetches before failed, and although dates are    *)
(* compared across time zones whose clocks change.  Two kinds are not:     *)
(* of a monoua statement it may be another version, stored before a hold   *)
(* settled or after it (monoua/model.go 36); and a pbanua2x statement may  *)
(* have lost its id to a twin, of another card or of the same hour before  *)
(* the clocks were put back (pbanua2x/model.go 95-97).                     *)
TooOld(s) ==
  IF s.acc \in Mono THEN s.time < From(now)
                    ELSE BankDate(s.time) < FetcherDate(From(now))

VersionOf(s, r) ==
  /\ {s.acc, r.acc} \subseteq Mono
  /\ s.acc = r.acc /\ s.code = r.code /\ s.time = r.time

Twin(s, r) ==
  /\ {s.acc, r.acc} \subseteq PB
  /\ s.code = r.code /\ s.amount = r.amount
  /\ BankClock(s.time) = BankClock(r.time)
  /\ s.acc # r.acc \/ s.time # r.time

OnlyTwinsAreMissed ==
  \A s \in posted :
    TooOld(s) => s \in stored \/ \E r \in stored : VersionOf(s, r) \/ Twin(s, r)

(* It takes a window that reaches over the longest outage, and then back   *)
(* to whatever a bank shows late, or under a date that is past or still to *)
(* come in the fetcher's zone, on whatever side of a change of the clocks. *)
WindowIsWide ==
  /\ MaxOutage + MaxLag <= 24 * Days
  /\ \A t, u \in Hours :
       /\ MaxOutage + MaxLag + FetcherZone[t] - BankZone[u] <= 24 * Days
       /\ MaxOutage + FetcherZone[t] - FetcherZone[u] <= 24 * Days
=============================================================================
