--------------------------- MODULE BankFetchProofs ---------------------------
(***************************************************************************)
(* No statement slips between two windows, for any number of days, any     *)
(* lag, outage and time zones that the window is wide enough for.          *)
(***************************************************************************)
EXTENDS BankFetch, TLAPS

USE BanksAssumption, HoursAssumption, IdleAssumption, BoundsAssumption

\* Rows are only added, of what is saved, one to an id, until all of it has one.
LEMMA Saved ==
  ASSUME NEW ss, Save(ss)
  PROVE  /\ stored \subseteq stored' /\ stored' \subseteq stored \cup ss
         /\ \A s : HasRow(s) => HasRow(s)'
         /\ \A s \in ss : HasRow(s)'
  <1>1. PICK new \in SUBSET {s \in ss : ~HasRow(s)} :
          /\ \A s \in ss : HasRow(s) \/ \E r \in new : SameId(s, r)
          /\ stored' = stored \cup new
    BY DEF Save
  <1>2. \A s : HasRow(s) => HasRow(s)'
    BY <1>1 DEF HasRow, SameId, MonoId, PBId, BankClock
  <1>3. ASSUME NEW s \in ss PROVE HasRow(s)'
    <2>1. CASE HasRow(s)
      BY <1>2, <2>1
    <2>2. CASE \E r \in new : SameId(s, r)
      BY <1>1, <2>2 DEF HasRow, SameId, MonoId, PBId, BankClock
    <2>3. QED
      BY <1>1, <2>1, <2>2
  <1>4. QED
    BY <1>1, <1>2, <1>3

LEMMA SameIdSymmetric ==
  ASSUME NEW s, NEW r, SameId(s, r)
  PROVE  SameId(r, s)
  BY DEF SameId

LEMMA OneRowToAnId ==
  ASSUME \A s, r \in stored : SameId(s, r) => s = r, NEW ss, Save(ss)
  PROVE  (\A s, r \in stored : SameId(s, r) => s = r)'
  <1>1. PICK new \in SUBSET {s \in ss : ~HasRow(s)} :
          /\ \A s, r \in new : SameId(s, r) => s = r
          /\ stored' = stored \cup new
    BY DEF Save
  <1>2. \A s \in new, r \in stored : ~SameId(s, r) /\ ~SameId(r, s)
    BY <1>1, SameIdSymmetric DEF HasRow
  <1>3. \A s, r \in stored \cup new : SameId(s, r) => s = r
    BY <1>1, <1>2
  <1>4. QED
    BY <1>1, <1>3 DEF SameId, MonoId, PBId, BankClock

LEMMA FetchedAreShown ==
  ASSUME NEW a
  PROVE  Fetched(a) \subseteq shown
  BY DEF Fetched

LEMMA PostedIsStatement ==
  ASSUME TypeOK, NEW a \in Accounts, NEW c \in Codes, NEW n \in Amounts, NEW l \in Lags
  PROVE  [acc |-> a, code |-> c, amount |-> n, time |-> now - l] \in Statements
  <1>1. now \in 0..MaxTime /\ l \in 0..MaxLag
    BY DEF TypeOK
  <1>2. now - l \in Hours
    BY <1>1 DEF Hours
  <1>3. QED
    BY <1>2 DEF Statements

LEMMA TypeNext == TypeOK /\ [Next]_vars => TypeOK'
  <1> SUFFICES ASSUME TypeOK, [Next]_vars PROVE TypeOK'
    OBVIOUS
  <1>a. ASSUME UNCHANGED stored PROVE (\A s, r \in stored : SameId(s, r) => s = r)'
    BY <1>a DEF TypeOK, SameId, MonoId, PBId, BankClock
  <1>1. ASSUME NEW a \in Accounts, FetchStarts(a) PROVE TypeOK'
    BY <1>1, <1>a DEF FetchStarts, TypeOK
  <1>2. ASSUME NEW a \in Accounts, FetchSucceeds(a) PROVE TypeOK'
    <2>1. stored' \subseteq posted /\ (\A s, r \in stored : SameId(s, r) => s = r)'
      BY <1>2, Saved, OneRowToAnId, FetchedAreShown DEF FetchSucceeds, TypeOK
    <2>2. to[a] \in Nat /\ last[a] <= to[a] /\ to[a] <= now
      BY <1>2 DEF FetchSucceeds, TypeOK
    <2>3. QED
      BY <1>2, <2>1, <2>2 DEF FetchSucceeds, TypeOK
  <1>3. ASSUME NEW a \in Accounts, FetchFails(a) PROVE TypeOK'
    <2>1. stored' \subseteq posted /\ (\A s, r \in stored : SameId(s, r) => s = r)'
      BY <1>3, Saved, OneRowToAnId, FetchedAreShown DEF FetchFails, TypeOK
    <2>2. QED
      BY <1>3, <2>1 DEF FetchFails, TypeOK
  <1>4. ASSUME NEW a \in Accounts, NEW c \in Codes, NEW n \in Amounts, NEW l \in Lags,
               BankPosts([acc |-> a, code |-> c, amount |-> n, time |-> now - l])
        PROVE  TypeOK'
    BY <1>4, <1>a, PostedIsStatement DEF BankPosts, TypeOK
  <1>5. ASSUME NEW s \in shown, NEW n \in Amounts, HoldSettles(s, n) PROVE TypeOK'
    <2>1. [s EXCEPT !.amount = n] \in Statements
      BY DEF TypeOK, Statements
    <2>2. QED
      BY <1>5, <1>a, <2>1 DEF HoldSettles, TypeOK
  <1>6. ASSUME NEW h \in Steps, Passes(h) PROVE TypeOK'
    BY <1>6, <1>a DEF Passes, TypeOK
  <1>7. CASE UNCHANGED vars
    BY <1>7, <1>a DEF vars, TypeOK
  <1>8. QED
    BY <1>1, <1>2, <1>3, <1>4, <1>5, <1>6, <1>7 DEF Next

LEMMA TypeInit == Init => TypeOK
  BY DEF Init, TypeOK

(* A fetch asks for a time that has come, and rows are of posted           *)
(* statements, one to an id.                                               *)
THEOREM TypeCorrect == Spec => []TypeOK
  <1>1. QED
    BY TypeInit, TypeNext, PTL DEF Spec

-----------------------------------------------------------------------------
(* What has no row yet is dated within MaxLag before the last successful   *)
(* fetch, or, at pbanua2x, under a date the fetcher had not reached; no    *)
(* outage is longer than MaxOutage; what is no longer shown has a newer    *)
(* version that is; and an id of monoua is of one statement.               *)

Reachable(s) ==
  \/ s.time >= last[s.acc] - MaxLag
  \/ s.acc \in PB /\ BankDate(s.time) > FetcherDate(last[s.acc])

ReachInv ==
  /\ TypeOK
  /\ \A a \in Accounts : now - last[a] <= MaxOutage
  /\ \A s \in posted : HasRow(s) \/ Reachable(s)
  /\ \A s \in posted : \E r \in shown : s = r \/ VersionOf(s, r)
  /\ \A s, r \in posted :
       {s.acc, r.acc} \subseteq Mono /\ s.code = r.code => VersionOf(s, r)

LEMMA Offsets ==
  ASSUME NEW t \in Hours
  PROVE  /\ t \in Int /\ BankZone[t] \in Int /\ FetcherZone[t] \in Int
         /\ BankDate(t) \in Int /\ FetcherDate(t) \in Int
  BY ZonesAssumption DEF Hours, BankDate, BankClock, FetcherDate, Date

LEMMA FromIsHour ==
  ASSUME NEW t \in 0..MaxTime
  PROVE  t \in Hours /\ From(t) \in Hours
  BY DEF Hours, From

LEMMA DatesAreMonotone ==
  ASSUME NEW x \in Int, NEW y \in Int, x <= y
  PROVE  Date(x) <= Date(y)
  BY DEF Date

\* A window asked for at t reaches back to everything that has no row.
LEMMA WindowCovers ==
  ASSUME WindowIsWide, ReachInv, NEW s \in posted, Reachable(s),
         NEW t \in 0..MaxTime, last[s.acc] <= t, t - last[s.acc] <= MaxOutage
  PROVE  IF s.acc \in Mono THEN From(t) <= s.time
                           ELSE FetcherDate(From(t)) <= BankDate(s.time)
  <1> DEFINE l == last[s.acc]
  <1>1. /\ s.acc \in Accounts /\ s.time \in Hours /\ l \in 0..MaxTime
        /\ From(t) \in Hours /\ l \in Hours
    BY FromIsHour DEF ReachInv, TypeOK, Statements
  <1>2. /\ s.time \in Int /\ BankZone[s.time] \in Int /\ FetcherZone[From(t)] \in Int
        /\ FetcherZone[l] \in Int /\ From(t) \in Int
    BY <1>1, Offsets
  <1>3. CASE s.acc \in Mono
    BY <1>1, <1>2, <1>3 DEF Reachable, WindowIsWide, From
  <1>4. CASE s.acc \notin Mono /\ s.time >= l - MaxLag
    <2>1. MaxOutage + MaxLag + FetcherZone[From(t)] - BankZone[s.time] <= 24 * Days
      BY <1>1 DEF WindowIsWide
    <2>2. From(t) + FetcherZone[From(t)] <= s.time + BankZone[s.time]
      <3> HIDE DEF l
      <3> QED BY <1>1, <1>2, <1>4, <2>1 DEF From, l
    <2>3. QED
      BY <1>2, <1>4, <2>2, DatesAreMonotone DEF FetcherDate, BankDate, BankClock
  <1>5. CASE s.acc \notin Mono /\ BankDate(s.time) > FetcherDate(l)
    <2>1. MaxOutage + FetcherZone[From(t)] - FetcherZone[l] <= 24 * Days
      BY <1>1 DEF WindowIsWide
    <2>2. From(t) + FetcherZone[From(t)] <= l + FetcherZone[l]
      <3> HIDE DEF l
      <3> QED BY <1>1, <1>2, <2>1 DEF From, l
    <2>3. FetcherDate(From(t)) <= FetcherDate(l)
      <3>1. From(t) + FetcherZone[From(t)] \in Int /\ l + FetcherZone[l] \in Int
        BY <1>1, <1>2
      <3>2. QED
        BY <2>2, <3>1, DatesAreMonotone DEF FetcherDate
    <2>4. QED
      BY <1>1, <1>5, <2>3, Offsets
  <1>6. QED
    BY <1>3, <1>4, <1>5 DEF Reachable

\* What a successful fetch has not stored lies after its window.
LEMMA LeftOver ==
  ASSUME WindowIsWide, ReachInv, NEW a \in Accounts, FetchSucceeds(a),
         NEW s \in shown, s.acc = a, Reachable(s), s \notin Fetched(a)
  PROVE  s.time > to[a] \/ (a \in PB /\ BankDate(s.time) > FetcherDate(to[a]))
  <1>1. /\ to[a] \in 0..MaxTime /\ last[a] <= to[a] /\ to[a] - last[a] <= MaxOutage
        /\ s \in posted /\ s.time \in Hours
    BY DEF ReachInv, TypeOK, Statements, FetchSucceeds
  <1>2. IF a \in Mono THEN From(to[a]) <= s.time
                      ELSE FetcherDate(From(to[a])) <= BankDate(s.time)
    BY <1>1, WindowCovers
  <1>3. CASE a \in Mono
    BY <1>1, <1>2, <1>3, Offsets DEF Fetched, CoveredByMono
  <1>4. CASE a \notin Mono
    <2>1. to[a] \in Hours
      BY <1>1, FromIsHour
    <2>2. QED
      BY <1>1, <1>2, <1>4, <2>1, Offsets DEF Fetched, CoveredByPB, Accounts
  <1>5. QED
    BY <1>3, <1>4

\* Versions of a statement share its id, and what is said of its time.
LEMMA VersionsAreAlike ==
  ASSUME NEW s, NEW r, VersionOf(s, r)
  PROVE  /\ SameId(s, r)
         /\ HasRow(r) => HasRow(s)
         /\ Reachable(r) => Reachable(s)
  <1>1. \A q : SameId(r, q) => SameId(s, q)
    BY DEF VersionOf, SameId, MonoId, PBId
  <1>2. QED
    BY <1>1 DEF VersionOf, SameId, MonoId, HasRow, Reachable

LEMMA ReachNext ==
  ASSUME WindowIsWide
  PROVE  ReachInv /\ [Next]_vars => ReachInv'
  <1> SUFFICES ASSUME ReachInv, [Next]_vars PROVE ReachInv'
    OBVIOUS
  <1>t. TypeOK /\ TypeOK'
    BY TypeNext DEF ReachInv
  <1>r. ASSUME UNCHANGED stored, NEW s, HasRow(s) PROVE HasRow(s)'
    BY <1>r DEF HasRow, SameId, MonoId, PBId, BankClock
  <1>l. ASSUME UNCHANGED last, NEW s, Reachable(s) PROVE Reachable(s)'
    BY <1>l DEF Reachable, BankDate, BankClock, FetcherDate
  <1>v. ASSUME UNCHANGED <<posted, shown>>
        PROVE  /\ (\A s \in posted : \E r \in shown : s = r \/ VersionOf(s, r))'
               /\ (\A s, r \in posted :
                     {s.acc, r.acc} \subseteq Mono /\ s.code = r.code => VersionOf(s, r))'
    BY <1>v DEF ReachInv, VersionOf
  <1>1. ASSUME NEW a \in Accounts, FetchStarts(a) PROVE ReachInv'
    BY <1>1, <1>t, <1>r, <1>l, <1>v DEF FetchStarts, ReachInv
  <1>2. ASSUME NEW a \in Accounts, FetchSucceeds(a) PROVE ReachInv'
    <2>1. /\ last' = [last EXCEPT ![a] = to[a]] /\ UNCHANGED <<now, posted, shown>>
          /\ Save(Fetched(a)) /\ to[a] \in Nat /\ last[a] <= to[a]
      BY <1>2, <1>t DEF FetchSucceeds, TypeOK
    <2>2. ASSUME NEW r \in shown PROVE HasRow(r)' \/ Reachable(r)'
      <3>1. /\ HasRow(r) \/ r \in Fetched(a) => HasRow(r)'
            /\ HasRow(r) \/ Reachable(r)
            /\ r.acc \in Accounts /\ r.time \in Int
        BY <2>1, <1>t, Saved, Offsets DEF ReachInv, TypeOK, Statements
      <3>2. CASE r \notin Fetched(a) /\ Reachable(r) /\ r.acc = a
        <4>1. last'[a] = to[a]
          BY <2>1, <1>t DEF TypeOK
        <4>2. r.time > to[a] \/ (a \in PB /\ BankDate(r.time) > FetcherDate(to[a]))
          BY <1>2, <3>2, LeftOver
        <4>3. QED
          BY <2>1, <3>1, <3>2, <4>1, <4>2 DEF Reachable, BankDate, BankClock, FetcherDate
      <3>3. CASE Reachable(r) /\ r.acc # a
        BY <2>1, <3>1, <3>3, <1>t DEF Reachable, TypeOK, BankDate, BankClock, FetcherDate
      <3>4. QED
        BY <3>1, <3>2, <3>3
    <2>3. ASSUME NEW s \in posted PROVE HasRow(s)' \/ Reachable(s)'
      <3>1. PICK r \in shown : s = r \/ VersionOf(s, r)
        BY DEF ReachInv
      <3>2. VersionOf(s, r) => VersionOf(s, r)'
        BY DEF VersionOf
      <3>3. \/ (HasRow(r)' => HasRow(s)') /\ (Reachable(r)' => Reachable(s)')
            \/ s = r
        <4>1. CASE VersionOf(s, r)
          BY <4>1 DEF VersionOf, SameId, MonoId, HasRow, Reachable, PBId, BankClock,
                      BankDate, FetcherDate
        <4>2. QED
          BY <3>1, <4>1
      <3>4. QED
        BY <2>2, <3>1, <3>3
    <2>4. \A b \in Accounts : now' - last'[b] <= MaxOutage
      BY <2>1, <1>t DEF ReachInv, TypeOK
    <2>5. QED
      BY <2>1, <2>3, <2>4, <1>t, <1>v DEF ReachInv
  <1>3. ASSUME NEW a \in Accounts, FetchFails(a) PROVE ReachInv'
    <2>1. UNCHANGED <<now, posted, shown, last>>
      BY <1>3 DEF FetchFails
    <2>2. PICK ss \in SUBSET Fetched(a) : Save(ss)
      BY <1>3 DEF FetchFails
    <2>3. \A s : HasRow(s) => HasRow(s)'
      BY <2>2, Saved
    <2>4. QED
      BY <2>1, <2>3, <1>t, <1>l, <1>v DEF ReachInv
  <1>4. ASSUME NEW a \in Accounts, NEW c \in Codes, NEW n \in Amounts, NEW l \in Lags,
               BankPosts([acc |-> a, code |-> c, amount |-> n, time |-> now - l])
        PROVE  ReachInv'
    <2> DEFINE p == [acc |-> a, code |-> c, amount |-> n, time |-> now - l]
    <2>1. /\ posted' = posted \cup {p} /\ shown' = shown \cup {p}
          /\ UNCHANGED <<now, stored, last>>
          /\ p.acc = a /\ p.code = c /\ p.time = now - l
      BY <1>4 DEF BankPosts
    <2>2. Reachable(p)'
      BY <2>1, <1>t DEF Reachable, TypeOK
    <2>3. ASSUME NEW s \in posted PROVE HasRow(s)' \/ Reachable(s)'
      BY <2>1, <1>r, <1>l DEF ReachInv
    <2>4. (\A s \in posted : \E r \in shown : s = r \/ VersionOf(s, r))'
      <3> HIDE DEF p
      <3> QED BY <2>1 DEF ReachInv, VersionOf
    <2>5. (\A s, r \in posted :
             {s.acc, r.acc} \subseteq Mono /\ s.code = r.code => VersionOf(s, r))'
      <3>1. p.acc \in Mono => \A r \in posted : r.acc \in Mono => r.code # p.code
        BY <1>4 DEF BankPosts
      <3>2. QED
        <4> HIDE DEF p
        <4> QED BY <2>1, <3>1 DEF ReachInv, VersionOf
    <2>6. QED
      BY <2>1, <2>2, <2>3, <2>4, <2>5, <1>t DEF ReachInv
  <1>5. ASSUME NEW s \in shown, NEW n \in Amounts, HoldSettles(s, n) PROVE ReachInv'
    <2> DEFINE p == [s EXCEPT !.amount = n]
    <2>1. /\ posted' = posted \cup {p} /\ shown' = (shown \ {s}) \cup {p}
          /\ UNCHANGED <<now, stored, last>> /\ s.acc \in Mono
      BY <1>5 DEF HoldSettles
    <2>2. s \in posted /\ p.acc = s.acc /\ p.code = s.code /\ p.time = s.time
      BY DEF ReachInv, TypeOK, Statements
    <2>3. VersionOf(p, s) /\ VersionOf(s, p)
      BY <2>1, <2>2 DEF VersionOf
    <2> HIDE DEF p
    <2>4. HasRow(p) \/ Reachable(p)
      BY <2>2, <2>3, VersionsAreAlike DEF ReachInv
    <2>5. \A q \in posted' : HasRow(q)' \/ Reachable(q)'
      BY <2>1, <2>4, <1>r, <1>l DEF ReachInv
    <2>6. (\A q \in posted : \E r \in shown : q = r \/ VersionOf(q, r))'
      <3>1. ASSUME NEW q \in posted PROVE \E r \in shown' : q = r \/ VersionOf(q, r)
        <4>1. PICK r \in shown : q = r \/ VersionOf(q, r)
          BY DEF ReachInv
        <4>2. r = s => VersionOf(q, p)
          BY <2>3, <4>1 DEF VersionOf
        <4>3. QED
          BY <2>1, <4>1, <4>2
      <3>2. QED
        BY <2>1, <3>1 DEF VersionOf
    <2>7. (\A q, r \in posted :
             {q.acc, r.acc} \subseteq Mono /\ q.code = r.code => VersionOf(q, r))'
      <3>1. ASSUME NEW q \in posted, NEW r \in posted PROVE
              {q.acc, r.acc} \subseteq Mono /\ q.code = r.code => VersionOf(q, r)
        BY DEF ReachInv
      <3>2. QED
        BY <2>1, <2>2, <3>1 DEF VersionOf
    <2>8. QED
      BY <2>1, <2>5, <2>6, <2>7, <1>t DEF ReachInv
  <1>6. ASSUME NEW h \in Steps, Passes(h) PROVE ReachInv'
    <2>1. UNCHANGED <<posted, shown, stored, last>>
      BY <1>6 DEF Passes
    <2>2. ASSUME NEW a \in Accounts PROVE now' - last'[a] <= MaxOutage
      <3>1. now' = now + h /\ last' = last /\ now + h - last[a] <= MaxOutage
        BY <1>6 DEF Passes
      <3>2. now \in Nat /\ h \in Nat /\ last[a] \in Nat
        BY <1>t DEF TypeOK
      <3>3. QED
        BY <3>1, <3>2
    <2>3. \A s \in posted' : HasRow(s)' \/ Reachable(s)'
      BY <2>1, <1>r, <1>l DEF ReachInv
    <2>4. QED
      BY <2>1, <2>2, <2>3, <1>t, <1>v DEF ReachInv
  <1>7. CASE UNCHANGED vars
    BY <1>7, <1>t, <1>r, <1>l, <1>v DEF vars, ReachInv
  <1>8. QED
    BY <1>1, <1>2, <1>3, <1>4, <1>5, <1>6, <1>7 DEF Next

(* With a wide enough window, whatever lies before the next one is in the  *)
(* table, as one of its versions, but for the pbanua2x statements whose id *)
(* a twin has taken.                                                       *)
THEOREM NothingSlips ==
  ASSUME WindowIsWide
  PROVE  Spec => []OnlyTwinsAreMissed
  <1>1. Init => ReachInv
    BY TypeInit DEF Init, ReachInv
  <1>2. ASSUME ReachInv PROVE OnlyTwinsAreMissed
    <2> SUFFICES ASSUME NEW s \in posted, TooOld(s), s \notin stored
                 PROVE  \E r \in stored : VersionOf(s, r) \/ Twin(s, r)
      BY DEF OnlyTwinsAreMissed
    <2>1. /\ s \in Statements /\ stored \subseteq Statements /\ stored \subseteq posted
          /\ now \in 0..MaxTime /\ s.time \in Hours /\ s.acc \in Accounts
          /\ last[s.acc] <= now /\ now - last[s.acc] <= MaxOutage
      BY <1>2 DEF ReachInv, TypeOK, Statements
    <2>2. HasRow(s)
      <3>1. From(now) \in Hours
        BY <2>1, FromIsHour
      <3>2. CASE Reachable(s)
        BY <1>2, <2>1, <3>1, <3>2, WindowCovers, Offsets DEF TooOld
      <3>3. QED
        BY <1>2, <3>2 DEF ReachInv
    <2>3. PICK r \in stored : SameId(s, r)
      BY <2>2 DEF HasRow
    <2>4. CASE {s.acc, r.acc} \subseteq Mono /\ MonoId(s) = MonoId(r)
      BY <1>2, <2>1, <2>4 DEF ReachInv, MonoId
    <2>5. CASE {s.acc, r.acc} \subseteq PB /\ PBId(s) = PBId(r)
      <3>1. s.code = r.code /\ s.amount = r.amount /\ BankClock(s.time) = BankClock(r.time)
        BY <2>5 DEF PBId
      <3>2. s.acc = r.acc /\ s.time = r.time => s = r
        BY <2>1, <3>1 DEF Statements
      <3>3. QED
        BY <2>5, <3>1, <3>2 DEF Twin
    <2>6. QED
      BY <2>3, <2>4, <2>5 DEF SameId
  <1>3. QED
    BY <1>1, <1>2, ReachNext, PTL DEF Spec
=============================================================================
