-------------------------- MODULE AuthTokensProofs --------------------------
(***************************************************************************)
(* What AuthTokens keeps for every number of users, processes and          *)
(* registrations, whatever the clock and Google's answers.                 *)
(***************************************************************************)
EXTENDS AuthTokens, TLAPS

USE TimesAssumption, OmitsAssumption, BoundsAssumption, AbsentAssumption,
    NoUserAssumption

LEMMA NewIDTokenType ==
  ASSUME TypeOK, NEW u \in Users
  PROVE  NewIDToken(u) \in [user : Users, exp : Nat] /\ NewIDToken(u) # Omitted
  BY DEF TypeOK, NewIDToken

\* What a registration makes of the answer to the exchange.
LEMMA Exchanged ==
  ASSUME TypeOK, NEW p \in Procs, NEW u \in Users, PerformAuthCodeExchangeFlow(p, u)
  PROVE  /\ grants' = [grants EXCEPT ![u] = @ + 1]
         /\ UNCHANGED <<users, now>>
         /\ valid' \in [Users -> SUBSET (Nat \ {0})]
         /\ \/ Goes(p, "failed", NoUser)
            \/ \E refresh \in {grants[u] + 1} \cup ({Omitted} \cap Answered("refresh_token", 1)) :
                 Goes(p, "register",
                      [email |-> u, idToken |-> NewIDToken(u), refresh |-> refresh])
  <1> DEFINE R == IF grants[u] = 0 THEN {1} ELSE Answered("refresh_token", grants[u] + 1)
  <1>1. grants[u] \in Nat
    BY DEF TypeOK
  <1>2. R \subseteq {grants[u] + 1} \cup ({Omitted} \cap Answered("refresh_token", 1))
    BY <1>1 DEF Answered
  <1>3. PICK id \in Answered("id_token", NewIDToken(u)), refresh \in R :
          /\ valid' = IF refresh = Omitted THEN valid
                      ELSE [valid EXCEPT ![u] = @ \cup {refresh}]
          /\ IF id = Omitted
               THEN Goes(p, "failed", NoUser)
               ELSE Goes(p, "register",
                         [email |-> id.user, idToken |-> id, refresh |-> refresh])
    BY DEF PerformAuthCodeExchangeFlow
  <1>4. valid' \in [Users -> SUBSET (Nat \ {0})]
    <2>1. refresh = Omitted \/ refresh = grants[u] + 1
      BY <1>2
    <2>2. CASE refresh = Omitted
      BY <1>3, <2>2 DEF TypeOK
    <2>3. CASE refresh = grants[u] + 1
      <3>1. refresh \in Nat \ {0} /\ refresh # Omitted
        BY <1>1, <2>3
      <3>2. valid' = [valid EXCEPT ![u] = @ \cup {refresh}]
        BY <1>3, <3>1
      <3>3. QED
        BY <3>1, <3>2 DEF TypeOK
    <2>4. QED
      BY <2>1, <2>2, <2>3
  <1>5. id = Omitted \/ (id = NewIDToken(u) /\ id.user = u)
    BY <1>3 DEF Answered, NewIDToken
  <1>6. \/ Goes(p, "failed", NoUser)
        \/ \E r \in {grants[u] + 1} \cup ({Omitted} \cap Answered("refresh_token", 1)) :
             Goes(p, "register",
                  [email |-> u, idToken |-> NewIDToken(u), refresh |-> r])
    BY <1>2, <1>3, <1>5
  <1>7. QED
    BY <1>4, <1>6 DEF PerformAuthCodeExchangeFlow

-----------------------------------------------------------------------------
(* Types                                                                   *)

LEMMA TypeInit == Init => TypeOK
  BY DEF Init, TypeOK, Holding

\* What a process goes to: a row where it holds one, none elsewhere.
LEMMA GoesTypes ==
  ASSUME TypeOK, NEW p \in Procs, NEW place, NEW row, Goes(p, place, row),
         \/ place \in {"idle", "failed"} /\ row = NoUser
         \/ place \in Holding /\ row \in Rows
  PROVE  /\ pc' \in [Procs -> {"idle", "failed"} \cup Holding]
         /\ dto' \in [Procs -> Rows \cup {NoUser}]
         /\ \A q \in Procs : pc'[q] \in Holding <=> dto'[q] # NoUser
  BY DEF TypeOK, Goes, Holding

LEMMA TypeNext == TypeOK /\ [Next]_vars => TypeOK'
  <1> SUFFICES ASSUME TypeOK, [Next]_vars PROVE TypeOK'
    OBVIOUS
  <1>1. ASSUME NEW p \in Procs, NEW u \in Users, PerformAuthCodeExchangeFlow(p, u)
        PROVE  TypeOK'
    <2>1. ASSUME NEW r \in RefreshTokens
          PROVE  [email |-> u, idToken |-> NewIDToken(u), refresh |-> r] \in Rows
      BY NewIDTokenType DEF Rows, IDTokens
    <2>2. grants[u] + 1 \in RefreshTokens /\ Omitted \in RefreshTokens
      BY DEF TypeOK, RefreshTokens
    <2>3. /\ pc' \in [Procs -> {"idle", "failed"} \cup Holding]
          /\ dto' \in [Procs -> Rows \cup {NoUser}]
          /\ \A q \in Procs : pc'[q] \in Holding <=> dto'[q] # NoUser
      BY <1>1, <2>1, <2>2, Exchanged, GoesTypes DEF Holding
    <2>4. QED
      BY <1>1, <2>3, Exchanged DEF TypeOK
  <1>2. ASSUME NEW p \in Procs, NEW u \in Users, GetAuthTokenByEmail(p, u)
        PROVE  TypeOK'
    <2>1. users[u] # NoUser => users[u] \in Rows
      BY DEF TypeOK
    <2>2. /\ pc' \in [Procs -> {"idle", "failed"} \cup Holding]
          /\ dto' \in [Procs -> Rows \cup {NoUser}]
          /\ \A q \in Procs : pc'[q] \in Holding <=> dto'[q] # NoUser
      BY <1>2, <2>1, GoesTypes DEF GetAuthTokenByEmail, Holding
    <2>3. QED
      BY <1>2, <2>2 DEF GetAuthTokenByEmail, TypeOK
  <1>3. ASSUME NEW p \in Procs, PerformRefreshFlow(p) PROVE TypeOK'
    <2>1. dto[p] \in Rows
      BY <1>3 DEF PerformRefreshFlow, TypeOK, Holding
    <2>2. PICK id \in Answered("id_token", NewIDToken(dto[p].email)) :
            Goes(p, "save", [dto[p] EXCEPT !.idToken = id])
      BY <1>3 DEF PerformRefreshFlow
    <2>3. id \in IDTokens
      BY <2>1, NewIDTokenType DEF Answered, IDTokens, Rows
    <2>4. [dto[p] EXCEPT !.idToken = id] \in Rows
      BY <2>1, <2>3 DEF Rows
    <2>5. QED
      BY <1>3, <2>2, <2>4, GoesTypes DEF PerformRefreshFlow, TypeOK, Holding
  <1>4. ASSUME NEW p \in Procs, SaveRegistered(p) \/ SaveRefreshed(p) PROVE TypeOK'
    <2>1. dto[p] \in Rows
      BY <1>4 DEF SaveRegistered, SaveRefreshed, TypeOK, Holding
    <2>2. users' \in [Users -> Rows \cup {NoUser}]
      BY <1>4, <2>1 DEF SaveRegistered, SaveRefreshed, SaveAuthToken, TypeOK, Rows
    <2>3. QED
      BY <1>4, <2>1, <2>2, GoesTypes DEF SaveRegistered, SaveRefreshed, TypeOK, Holding
  <1>5. ASSUME NEW p \in Procs, Fails(p) PROVE TypeOK'
    BY <1>5, GoesTypes DEF Fails, TypeOK
  <1>6. CASE Tick \/ \E u \in Users : Revoke(u)
    BY <1>6 DEF Tick, Revoke, TypeOK
  <1>7. CASE UNCHANGED vars
    BY <1>7 DEF vars, TypeOK
  <1>8. QED
    BY <1>1, <1>2, <1>3, <1>4, <1>5, <1>6, <1>7 DEF Next, ProcNext, Continues

(* The variables keep their types, and a process holds a row exactly while *)
(* it works on one or has returned its token.                              *)
THEOREM TypeCorrect == Spec => []TypeOK
  <1>1. QED
    BY TypeInit, TypeNext, PTL DEF Spec

-----------------------------------------------------------------------------
(* Tokens never change hands.                                              *)

OwnInv == TypeOK /\ OwnTokens

\* A row keeps its owner while consents are only added.
LEMMA OwnedGrows ==
  ASSUME NEW u, NEW row, NEW m \in Nat, NEW n \in Nat, m <= n, Owned(u, row, m)
  PROVE  Owned(u, row, n)
  BY DEF Owned

LEMMA OwnNext == OwnInv /\ [Next]_vars => OwnInv'
  <1> SUFFICES ASSUME OwnInv, [Next]_vars PROVE OwnTokens'
    BY TypeNext DEF OwnInv
  <1>t. TypeOK /\ TypeOK' /\ OwnTokens
    BY TypeNext DEF OwnInv
  <1>1. ASSUME NEW p \in Procs, NEW u \in Users, PerformAuthCodeExchangeFlow(p, u)
        PROVE  OwnTokens'
    <2>1. /\ grants' = [grants EXCEPT ![u] = @ + 1] /\ users' = users
          /\ \A v \in Users : grants[v] \in Nat /\ grants'[v] \in Nat
                              /\ grants'[v] >= grants[v]
      BY <1>1, <1>t, Exchanged DEF TypeOK
    <2>2. \A v \in Users : users'[v] # NoUser => Owned(v, users'[v], grants'[v])
      BY <2>1, <1>t, OwnedGrows DEF OwnTokens
    <2>3. ASSUME NEW q \in Procs, q # p, dto'[q] # NoUser
          PROVE  Owned(dto'[q].email, dto'[q], grants'[dto'[q].email])
      <3>1. dto'[q] = dto[q] /\ dto[q] \in Rows
        BY <1>1, <2>3, <1>t, Exchanged DEF Goes, TypeOK
      <3>2. dto[q].email \in Users /\ Owned(dto[q].email, dto[q], grants[dto[q].email])
        BY <2>3, <3>1, <1>t DEF OwnTokens, Rows
      <3>3. QED
        BY <2>1, <3>1, <3>2, OwnedGrows
    <2>4. ASSUME dto'[p] # NoUser
          PROVE  Owned(dto'[p].email, dto'[p], grants'[dto'[p].email])
      <3>1. PICK refresh \in {grants[u] + 1} \cup ({Omitted} \cap Answered("refresh_token", 1)) :
              dto'[p] = [email |-> u, idToken |-> NewIDToken(u), refresh |-> refresh]
        BY <1>1, <2>4, <1>t, Exchanged DEF Goes, TypeOK
      <3>2. NewIDToken(u).user = u
        BY DEF NewIDToken
      <3>3. refresh # Omitted => refresh \in 1..grants'[u]
        BY <2>1, <1>t DEF TypeOK
      <3>4. QED
        BY <3>1, <3>2, <3>3 DEF Owned
    <2>5. QED
      BY <2>2, <2>3, <2>4 DEF OwnTokens
  <1>2. ASSUME NEW p \in Procs, NEW row, NEW place, Goes(p, place, row),
               users' = users, grants' = grants,
               row # NoUser => Owned(row.email, row, grants[row.email])
        PROVE  OwnTokens'
    BY <1>2, <1>t DEF OwnTokens, Goes, Owned, TypeOK
  <1>3. ASSUME NEW p \in Procs, NEW u \in Users, GetAuthTokenByEmail(p, u)
        PROVE  OwnTokens'
    <2>1. users[u] # NoUser => Owned(users[u].email, users[u], grants[users[u].email])
      BY <1>t DEF OwnTokens, Owned
    <2>2. QED
      BY <1>2, <1>3, <2>1 DEF GetAuthTokenByEmail
  <1>4. ASSUME NEW p \in Procs, PerformRefreshFlow(p) PROVE OwnTokens'
    <2>1. dto[p] \in Rows /\ dto[p] # NoUser
      BY <1>4, <1>t DEF PerformRefreshFlow, TypeOK, Holding
    <2>2. PICK id \in Answered("id_token", NewIDToken(dto[p].email)) :
            Goes(p, "save", [dto[p] EXCEPT !.idToken = id])
      BY <1>4 DEF PerformRefreshFlow
    <2>3. id # Omitted => id.user = dto[p].email
      BY DEF Answered, NewIDToken
    <2>4. Owned(dto[p].email, [dto[p] EXCEPT !.idToken = id], grants[dto[p].email])
      BY <2>1, <2>3, <1>t DEF OwnTokens, Owned, Rows
    <2>5. [dto[p] EXCEPT !.idToken = id].email = dto[p].email
      BY <2>1 DEF Rows
    <2>6. QED
      BY <1>2, <1>4, <2>2, <2>4, <2>5 DEF PerformRefreshFlow
  <1>5. ASSUME NEW p \in Procs, SaveRegistered(p) \/ SaveRefreshed(p) PROVE OwnTokens'
    <2>1. /\ dto[p] \in Rows /\ dto[p] # NoUser
          /\ Owned(dto[p].email, dto[p], grants[dto[p].email])
      BY <1>5, <1>t DEF SaveRegistered, SaveRefreshed, TypeOK, Holding, OwnTokens
    <2>2. \A u \in Users : users'[u] # NoUser => Owned(u, users'[u], grants[u])
      BY <1>5, <2>1, <1>t DEF SaveRegistered, SaveRefreshed, SaveAuthToken,
                              OwnTokens, TypeOK, Rows
    <2>3. \A q \in Procs : dto'[q] # NoUser => dto'[q] = dto[q]
      BY <1>5, <1>t DEF SaveRegistered, SaveRefreshed, Goes, TypeOK
    <2>4. grants' = grants
      BY <1>5 DEF SaveRegistered, SaveRefreshed
    <2>5. QED
      BY <2>2, <2>3, <2>4, <1>t DEF OwnTokens, Owned
  <1>6. ASSUME NEW p \in Procs, Fails(p) PROVE OwnTokens'
    BY <1>2, <1>6 DEF Fails
  <1>7. CASE UNCHANGED <<users, grants, dto>>
    BY <1>7, <1>t DEF OwnTokens, Owned
  <1>8. QED
    BY <1>1, <1>3, <1>4, <1>5, <1>6, <1>7
       DEF Next, ProcNext, Continues, Tick, Revoke, vars

(* A row and a process only ever have tokens of the row's own user.        *)
THEOREM TokensOwned == Spec => []OwnTokens
  <1>1. Init => OwnInv
    BY TypeInit DEF Init, OwnInv, OwnTokens
  <1>2. OwnInv => OwnTokens
    BY DEF OwnInv
  <1>3. QED
    BY <1>1, <1>2, OwnNext, PTL DEF Spec

-----------------------------------------------------------------------------
(* What answers never lack, rows never lack, because every row a process   *)
(* holds has it and rows are only ever written whole.                      *)

Complete(row) ==
  row # NoUser => /\ "id_token" \notin Omits => row.idToken # Omitted
                  /\ "refresh_token" \notin Omits => row.refresh # Omitted

CompleteInv ==
  /\ TypeOK
  /\ \A u \in Users : Complete(users[u])
  /\ \A p \in Procs : Complete(dto[p])

LEMMA CompleteNext == CompleteInv /\ [Next]_vars => CompleteInv'
  <1> SUFFICES ASSUME CompleteInv, [Next]_vars
               PROVE  /\ \A u \in Users : Complete(users'[u])
                      /\ \A p \in Procs : Complete(dto'[p])
    BY TypeNext DEF CompleteInv, Complete
  <1>t. TypeOK /\ TypeOK'
    BY TypeNext DEF CompleteInv
  <1>1. ASSUME NEW p \in Procs, NEW row, NEW place, Goes(p, place, row),
               users' = users, Complete(row)
        PROVE  /\ \A u \in Users : Complete(users'[u])
               /\ \A q \in Procs : Complete(dto'[q])
    BY <1>1, <1>t DEF CompleteInv, Goes, TypeOK
  <1>2. ASSUME NEW p \in Procs, NEW u \in Users, PerformAuthCodeExchangeFlow(p, u)
        PROVE  \E row, place : Goes(p, place, row) /\ Complete(row)
    <2>1. CASE Goes(p, "failed", NoUser)
      BY <2>1 DEF Complete
    <2>2. ASSUME NEW refresh \in {grants[u] + 1} \cup ({Omitted} \cap Answered("refresh_token", 1)),
                 Goes(p, "register", [email |-> u, idToken |-> NewIDToken(u),
                                      refresh |-> refresh])
          PROVE  \E row, place : Goes(p, place, row) /\ Complete(row)
      <3>1. NewIDToken(u) # Omitted /\ grants[u] + 1 \in Nat
        BY <1>t, NewIDTokenType DEF TypeOK
      <3>2. "refresh_token" \notin Omits => refresh # Omitted
        BY <3>1 DEF Answered
      <3>3. Complete([email |-> u, idToken |-> NewIDToken(u), refresh |-> refresh])
        BY <3>1, <3>2 DEF Complete
      <3>4. QED
        BY <2>2, <3>3
    <2>3. QED
      BY <1>2, <1>t, <2>1, <2>2, Exchanged
  <1>3. ASSUME NEW p \in Procs, PerformRefreshFlow(p)
        PROVE  \E row, place : Goes(p, place, row) /\ Complete(row)
    <2>1. dto[p] \in Rows /\ dto[p] # NoUser /\ Complete(dto[p])
      BY <1>3, <1>t DEF PerformRefreshFlow, TypeOK, Holding, CompleteInv
    <2>2. PICK id \in Answered("id_token", NewIDToken(dto[p].email)) :
            Goes(p, "save", [dto[p] EXCEPT !.idToken = id])
      BY <1>3 DEF PerformRefreshFlow
    <2>3. "id_token" \notin Omits => id # Omitted
      BY <2>1, <1>t, NewIDTokenType DEF Answered, Rows
    <2>4. Complete([dto[p] EXCEPT !.idToken = id])
      BY <2>1, <2>3 DEF Complete, Rows
    <2>5. QED
      BY <2>2, <2>4
  <1>4. ASSUME NEW p \in Procs, SaveRegistered(p) \/ SaveRefreshed(p)
        PROVE  /\ \A u \in Users : Complete(users'[u])
               /\ \A q \in Procs : Complete(dto'[q])
    BY <1>4, <1>t DEF SaveRegistered, SaveRefreshed, SaveAuthToken, Goes, Complete,
                      CompleteInv, TypeOK
  <1>5. ASSUME NEW p \in Procs, NEW u \in Users,
               GetAuthTokenByEmail(p, u) \/ Fails(p)
        PROVE  \E row, place : Goes(p, place, row) /\ Complete(row)
    BY <1>5 DEF GetAuthTokenByEmail, Fails, CompleteInv, Complete
  <1>6. CASE UNCHANGED <<users, dto>>
    BY <1>6 DEF CompleteInv
  <1>7. ASSUME NEW p \in Procs, Fails(p)
        PROVE  Goes(p, "failed", NoUser) /\ Complete(NoUser) /\ users' = users
    BY <1>7 DEF Fails, Complete
  <1>8. QED
    BY <1>1, <1>2, <1>3, <1>4, <1>5, <1>6, <1>7
       DEF Next, ProcNext, Continues, PerformAuthCodeExchangeFlow, PerformRefreshFlow,
           GetAuthTokenByEmail, Tick, Revoke, vars

(* A field Google never leaves out of its answers, no stored row lacks,    *)
(* whatever races and fails.                                               *)
THEOREM RowsStayUsable == Spec => []RowsUsable
  <1>1. Init => CompleteInv
    BY TypeInit DEF Init, CompleteInv, Complete
  <1>2. CompleteInv => RowsUsable
    BY DEF CompleteInv, Complete, RowsUsable
  <1>3. QED
    BY <1>1, <1>2, CompleteNext, PTL DEF Spec

-----------------------------------------------------------------------------
(* With one process at a time, what the process holds is not older than    *)
(* what the table has.                                                     *)

HoldsLatest(p) ==
  /\ pc[p] \in {"refresh", "save"} =>
       users[dto[p].email] # NoUser /\ users[dto[p].email].refresh = dto[p].refresh
  /\ pc[p] = "register" => dto[p].refresh = grants[dto[p].email]

LatestInv == OwnInv /\ CompleteInv /\ \A p \in Procs : HoldsLatest(p)

LEMMA LatestNext ==
  ASSUME OneProcess, Omits = {}
  PROVE  LatestInv /\ [Next]_vars => LatestInv'
  <1> SUFFICES ASSUME LatestInv, [Next]_vars, NEW p \in Procs PROVE HoldsLatest(p)'
    BY OwnNext, CompleteNext DEF LatestInv
  <1>t. TypeOK /\ TypeOK' /\ \A q \in Procs : q = p
    BY TypeNext DEF LatestInv, OwnInv, OneProcess
  <1>1. ASSUME NEW u \in Users, PerformAuthCodeExchangeFlow(p, u)
        PROVE  HoldsLatest(p)'
    <2>1. {Omitted} \cap Answered("refresh_token", 1) = {}
      BY DEF Answered
    <2>2. grants'[u] = grants[u] + 1
      BY <1>1, <1>t, Exchanged DEF TypeOK
    <2>3. \/ Goes(p, "failed", NoUser)
          \/ Goes(p, "register", [email |-> u, idToken |-> NewIDToken(u),
                                  refresh |-> grants[u] + 1])
      BY <1>1, <1>t, <2>1, Exchanged
    <2>4. QED
      BY <2>2, <2>3, <1>t DEF HoldsLatest, Goes, TypeOK
  <1>2. ASSUME NEW u \in Users, GetAuthTokenByEmail(p, u) PROVE HoldsLatest(p)'
    <2>1. users[u] # NoUser => users[u].email = u
      BY DEF LatestInv, OwnInv, OwnTokens, Owned
    <2>2. QED
      BY <1>2, <2>1, <1>t DEF GetAuthTokenByEmail, HoldsLatest, Goes, TypeOK
  <1>3. ASSUME PerformRefreshFlow(p) PROVE HoldsLatest(p)'
    <2>1. dto[p] \in Rows
      BY <1>3, <1>t DEF PerformRefreshFlow, TypeOK, Holding
    <2>2. /\ pc' = [pc EXCEPT ![p] = "save"]
          /\ dto'[p].email = dto[p].email /\ dto'[p].refresh = dto[p].refresh
      BY <1>3, <2>1, <1>t DEF PerformRefreshFlow, Goes, TypeOK, Rows
    <2>3. QED
      BY <1>3, <2>2, <1>t DEF PerformRefreshFlow, LatestInv, HoldsLatest, TypeOK
  <1>4. ASSUME SaveRegistered(p) \/ SaveRefreshed(p) \/ Fails(p) PROVE HoldsLatest(p)'
    BY <1>4, <1>t DEF SaveRegistered, SaveRefreshed, Fails, Goes, HoldsLatest, TypeOK
  <1>5. CASE UNCHANGED <<users, grants, pc, dto>>
    BY <1>5 DEF HoldsLatest, LatestInv
  <1>6. QED
    BY <1>1, <1>2, <1>3, <1>4, <1>5, <1>t
       DEF Next, ProcNext, Continues, Tick, Revoke, vars

(* With one process at a time and complete answers, a stored refresh token *)
(* is only replaced by that of a later consent.                            *)
THEOREM RefreshTokenKept ==
  ASSUME OneProcess, Omits = {}
  PROVE  Spec => RefreshTokenNeverGoesBack
  <1>1. ASSUME LatestInv, [Next]_vars, NEW u \in Users,
               users[u] # NoUser, users[u].refresh # Omitted
        PROVE  users'[u].refresh # Omitted /\ users'[u].refresh >= users[u].refresh
    <2>t. TypeOK /\ users[u].refresh \in 1..grants[u] /\ grants[u] \in Nat
      BY <1>1 DEF LatestInv, OwnInv, OwnTokens, Owned, TypeOK
    <2>1. CASE users' = users
      BY <2>1, <2>t, <1>1
    <2>2. ASSUME NEW p \in Procs, SaveRegistered(p) \/ SaveRefreshed(p)
          PROVE  users'[u].refresh # Omitted /\ users'[u].refresh >= users[u].refresh
      <3>1. CASE dto[p].email # u
        BY <2>2, <3>1, <2>t, <1>1 DEF SaveRegistered, SaveRefreshed, SaveAuthToken, TypeOK
      <3>2. CASE dto[p].email = u
        <4>1. users'[u] = dto[p]
          BY <2>2, <3>2, <2>t DEF SaveRegistered, SaveRefreshed, SaveAuthToken, TypeOK
        <4>2. dto[p].refresh = grants[u] \/ dto[p].refresh = users[u].refresh
          BY <2>2, <3>2, <1>1 DEF SaveRegistered, SaveRefreshed, LatestInv, HoldsLatest
        <4>3. QED
          BY <4>1, <4>2, <2>t, <1>1
      <3>3. QED
        BY <3>1, <3>2
    <2>3. users' = users \/ \E p \in Procs : SaveRegistered(p) \/ SaveRefreshed(p)
      BY <1>1 DEF Next, ProcNext, Continues, PerformAuthCodeExchangeFlow,
                  GetAuthTokenByEmail, PerformRefreshFlow, Fails, Tick, Revoke, vars
    <2>4. QED
      BY <2>1, <2>2, <2>3
  <1>2. LatestInv /\ [Next]_vars =>
          [\A u \in Users : users[u] # NoUser /\ users[u].refresh # Omitted =>
             users'[u].refresh # Omitted /\ users'[u].refresh >= users[u].refresh]_vars
    BY <1>1
  <1>3. Init => LatestInv
    BY TypeInit DEF Init, LatestInv, OwnInv, OwnTokens, CompleteInv, Complete, HoldsLatest
  <1>4. QED
    BY <1>2, <1>3, LatestNext, PTL DEF Spec, RefreshTokenNeverGoesBack

-----------------------------------------------------------------------------
(* With one process at a time, a refresh leaves the stored refresh token   *)
(* as it is: nothing has been written since the row was read, so writing   *)
(* it back whole does no harm, whatever Google's answers lack.             *)

HoldsStored(p) ==
  pc[p] \in {"refresh", "save"} =>
    users[dto[p].email] # NoUser /\ users[dto[p].email].refresh = dto[p].refresh

StoredInv == OwnInv /\ \A p \in Procs : HoldsStored(p)

LEMMA StoredNext ==
  ASSUME OneProcess
  PROVE  StoredInv /\ [Next]_vars => StoredInv'
  <1> SUFFICES ASSUME StoredInv, [Next]_vars, NEW p \in Procs PROVE HoldsStored(p)'
    BY OwnNext DEF StoredInv
  <1>t. TypeOK /\ \A q \in Procs : q = p
    BY DEF StoredInv, OwnInv, OneProcess
  <1>1. ASSUME NEW u \in Users, PerformAuthCodeExchangeFlow(p, u)
        PROVE  HoldsStored(p)'
    BY <1>1, <1>t, Exchanged DEF HoldsStored, Goes, TypeOK
  <1>2. ASSUME NEW u \in Users, GetAuthTokenByEmail(p, u) PROVE HoldsStored(p)'
    <2>1. users[u] # NoUser => users[u].email = u
      BY DEF StoredInv, OwnInv, OwnTokens, Owned
    <2>2. QED
      BY <1>2, <2>1, <1>t DEF GetAuthTokenByEmail, HoldsStored, Goes, TypeOK
  <1>3. ASSUME PerformRefreshFlow(p) PROVE HoldsStored(p)'
    <2>1. dto[p] \in Rows
      BY <1>3, <1>t DEF PerformRefreshFlow, TypeOK, Holding
    <2>2. /\ dto'[p].email = dto[p].email /\ dto'[p].refresh = dto[p].refresh
          /\ users' = users
      BY <1>3, <2>1, <1>t DEF PerformRefreshFlow, Goes, TypeOK, Rows
    <2>3. QED
      BY <1>3, <2>2, <1>t DEF PerformRefreshFlow, StoredInv, HoldsStored, TypeOK
  <1>4. ASSUME SaveRegistered(p) \/ SaveRefreshed(p) \/ Fails(p) PROVE HoldsStored(p)'
    BY <1>4, <1>t DEF SaveRegistered, SaveRefreshed, Fails, Goes, HoldsStored, TypeOK
  <1>5. CASE UNCHANGED <<users, pc, dto>>
    BY <1>5 DEF HoldsStored, StoredInv
  <1>6. QED
    BY <1>1, <1>2, <1>3, <1>4, <1>5, <1>t
       DEF Next, ProcNext, Continues, Tick, Revoke, vars

(* With one process at a time, refreshing an id token leaves the stored    *)
(* refresh token as it is.                                                 *)
THEOREM RefreshKeepsIt ==
  ASSUME OneProcess
  PROVE  Spec => RefreshKeepsRefreshToken
  <1>1. ASSUME StoredInv, [Next]_vars, NEW p \in Procs, pc[p] = "save", pc'[p] = "done"
        PROVE  users'[dto[p].email].refresh = users[dto[p].email].refresh
    <2>t. TypeOK /\ (\A q \in Procs : q = p) /\ dto[p] \in Rows /\ HoldsStored(p)
      BY <1>1 DEF StoredInv, OwnInv, OneProcess, TypeOK, Holding
    <2>1. SaveRefreshed(p)
      <3>1. ProcNext(p)
        BY <1>1, <2>t DEF Next, Tick, Revoke, vars
      <3>2. ~Fails(p)
        BY <1>1, <2>t DEF Fails, Goes, TypeOK
      <3>3. QED
        BY <1>1, <3>1, <3>2
           DEF ProcNext, Continues, PerformAuthCodeExchangeFlow, GetAuthTokenByEmail,
               PerformRefreshFlow, SaveRegistered, Free
    <2>2. users'[dto[p].email] = dto[p]
      BY <2>1, <2>t DEF SaveRefreshed, SaveAuthToken, TypeOK, Rows
    <2>3. QED
      BY <1>1, <2>2, <2>t DEF HoldsStored
  <1>2. StoredInv /\ [Next]_vars =>
          [\A p \in Procs : pc[p] = "save" /\ pc'[p] = "done" =>
             users'[dto[p].email].refresh = users[dto[p].email].refresh]_vars
    BY <1>1
  <1>3. Init => StoredInv
    BY TypeInit DEF Init, StoredInv, OwnInv, OwnTokens, HoldsStored
  <1>4. QED
    BY <1>2, <1>3, StoredNext, PTL DEF Spec, RefreshKeepsRefreshToken

-----------------------------------------------------------------------------
(* With one process at a time and complete answers, the table implements   *)
(* Credentials.  What the process is about to write expires when the row   *)
(* it replaces does, or later: a registered token because it is newer, a   *)
(* refreshed one because the stored one was stale when it was read.        *)

NotAhead == \A u \in Users : users[u] # NoUser => users[u].idToken.exp <= now + Lifetime

LivesLonger(p) ==
  LET row == users[dto[p].email] IN
  /\ pc[p] = "register" =>
       /\ dto[p].idToken.exp \in Lifetime..(now + Lifetime)
       /\ row # NoUser => row.idToken.exp <= dto[p].idToken.exp
  /\ pc[p] \in {"refresh", "save"} => row # NoUser /\ Stale(row.idToken)
  /\ pc[p] = "save" =>
       dto[p].idToken.exp \in (row.idToken.exp + Margin + Lifetime)..(now + Lifetime)

CredentialsInv == LatestInv /\ NotAhead /\ \A p \in Procs : LivesLonger(p)

\* A complete row that is a user's own is its three columns, all there.
LEMMA RowColumns ==
  ASSUME Omits = {}, NEW row \in Rows, Complete(row), NEW u, NEW n \in Nat, Owned(u, row, n)
  PROVE  /\ row.email = u /\ u \in Users
         /\ row.idToken = [user |-> u, exp |-> row.idToken.exp] /\ row.idToken.exp \in Nat
         /\ row.refresh \in 1..n
         /\ row = [email |-> u, idToken |-> row.idToken, refresh |-> row.refresh]
  <1>1. row # NoUser
    BY DEF Rows
  <1>2. row.idToken # Omitted /\ row.refresh # Omitted
    BY <1>1 DEF Complete
  <1>3. row.idToken \in [user : Users, exp : Nat] /\ row.email \in Users
    BY <1>2 DEF Rows, IDTokens
  <1>4. row.idToken.user = u /\ row.email = u /\ row.refresh \in 1..n
    BY <1>2 DEF Owned
  <1>5. row.idToken = [user |-> row.idToken.user, exp |-> row.idToken.exp]
    BY <1>3
  <1>6. row = [email |-> row.email, idToken |-> row.idToken, refresh |-> row.refresh]
    BY DEF Rows
  <1>7. row.idToken.exp \in Nat
    BY <1>3
  <1>8. QED
    BY <1>3, <1>4, <1>5, <1>6, <1>7

LEMMA StoredColumns ==
  ASSUME LatestInv, Omits = {}, NEW u \in Users, users[u] # NoUser
  PROVE  /\ users[u].email = u
         /\ users[u].idToken = [user |-> u, exp |-> users[u].idToken.exp]
         /\ users[u].idToken.exp \in Nat
         /\ users[u] = [email |-> u, idToken |-> users[u].idToken,
                        refresh |-> users[u].refresh]
  <1>1. users[u] \in Rows /\ Complete(users[u]) /\ Owned(u, users[u], grants[u])
        /\ grants[u] \in Nat
    BY DEF LatestInv, OwnInv, CompleteInv, OwnTokens, TypeOK
  <1>2. QED
    BY <1>1, RowColumns

LEMMA HeldColumns ==
  ASSUME LatestInv, Omits = {}, NEW p \in Procs, pc[p] \in Holding
  PROVE  LET e == dto[p].email IN
         /\ dto[p] \in Rows /\ e \in Users /\ grants[e] \in Nat
         /\ dto[p].idToken = [user |-> e, exp |-> dto[p].idToken.exp]
         /\ dto[p].idToken.exp \in Nat
         /\ dto[p].refresh \in 1..grants[e]
         /\ dto[p] = [email |-> e, idToken |-> dto[p].idToken, refresh |-> dto[p].refresh]
  <1> DEFINE e == dto[p].email
  <1>1. /\ dto[p] \in Rows /\ Complete(dto[p])
        /\ Owned(e, dto[p], grants[e])
    BY DEF LatestInv, OwnInv, CompleteInv, OwnTokens, TypeOK
  <1>2. e \in Users
    BY <1>1 DEF Rows
  <1>3. grants[e] \in Nat
    BY <1>2 DEF LatestInv, OwnInv, TypeOK
  <1>4. QED
    BY <1>1, <1>2, <1>3, RowColumns

LEMMA CredentialsNext ==
  ASSUME OneProcess, Omits = {}
  PROVE  CredentialsInv /\ [Next]_vars => CredentialsInv'
  <1> SUFFICES ASSUME CredentialsInv, [Next]_vars
               PROVE  NotAhead' /\ \A p \in Procs : LivesLonger(p)'
    BY LatestNext DEF CredentialsInv
  <1>t. TypeOK /\ LatestInv /\ NotAhead /\ now \in Nat
    BY DEF CredentialsInv, LatestInv, OwnInv, TypeOK
  <1>u. \A u \in Users : users[u] # NoUser => users[u].idToken.exp \in Nat
    BY <1>t, StoredColumns
  <1>1. ASSUME NEW p \in Procs, ProcNext(p)
        PROVE  NotAhead' /\ LivesLonger(p)'
    <2>n. now' = now
      BY <1>1 DEF ProcNext, Continues, PerformAuthCodeExchangeFlow, GetAuthTokenByEmail,
                  SaveRegistered, PerformRefreshFlow, SaveRefreshed, Fails
    <2>s. ASSUME users' = users PROVE NotAhead'
      BY <2>n, <2>s, <1>t DEF NotAhead
    <2>1. ASSUME NEW u \in Users, PerformAuthCodeExchangeFlow(p, u)
          PROVE  NotAhead' /\ LivesLonger(p)'
      <3>1. users' = users
        BY <2>1, <1>t, Exchanged
      <3>2. CASE Goes(p, "failed", NoUser)
        BY <2>s, <3>1, <3>2, <1>t DEF Goes, LivesLonger, TypeOK
      <3>3. ASSUME NEW refresh,
                   Goes(p, "register", [email |-> u, idToken |-> NewIDToken(u),
                                        refresh |-> refresh])
            PROVE  NotAhead' /\ LivesLonger(p)'
        <4>1. /\ pc'[p] = "register" /\ dto'[p].email = u
              /\ dto'[p].idToken.exp = now + Lifetime
          BY <3>3, <1>t DEF Goes, NewIDToken, TypeOK
        <4>2. dto'[p].idToken.exp \in Lifetime..(now + Lifetime)
          BY <4>1, <1>t
        <4>3. users[u] # NoUser => users[u].idToken.exp <= now + Lifetime
          BY <1>t DEF NotAhead
        <4>4. LivesLonger(p)'
          BY <3>1, <4>1, <4>2, <4>3, <2>n DEF LivesLonger
        <4>5. QED
          BY <2>s, <3>1, <4>4
      <3>4. QED
        BY <2>1, <1>t, <3>2, <3>3, Exchanged
    <2>2. ASSUME NEW u \in Users, GetAuthTokenByEmail(p, u)
          PROVE  NotAhead' /\ LivesLonger(p)'
      <3>1. users' = users
        BY <2>2 DEF GetAuthTokenByEmail
      <3>2. \/ pc'[p] \in {"failed", "done"}
            \/ /\ pc'[p] = "refresh" /\ dto'[p] = users[u]
               /\ users[u] # NoUser /\ Stale(users[u].idToken)
        BY <2>2, <1>t DEF GetAuthTokenByEmail, Goes, TypeOK
      <3>3. users[u] # NoUser => users[u].email = u
        BY <1>t, StoredColumns
      <3>4. LivesLonger(p)'
        BY <3>1, <3>2, <3>3, <2>n DEF LivesLonger, Stale
      <3>5. QED
        BY <2>s, <3>1, <3>4
    <2>3. CASE PerformRefreshFlow(p)
      <3>1. /\ pc[p] = "refresh" /\ users' = users /\ dto[p] \in Rows
        BY <2>3, <1>t DEF PerformRefreshFlow, TypeOK, Holding
      <3>2. PICK id \in Answered("id_token", NewIDToken(dto[p].email)) :
              Goes(p, "save", [dto[p] EXCEPT !.idToken = id])
        BY <2>3 DEF PerformRefreshFlow
      <3>3. id.exp = now + Lifetime
        BY <3>2 DEF Answered, NewIDToken
      <3>4. /\ pc'[p] = "save" /\ dto'[p].email = dto[p].email
            /\ dto'[p].idToken.exp = now + Lifetime
        BY <3>1, <3>2, <3>3, <1>t DEF Goes, TypeOK, Rows
      <3> DEFINE row == users[dto[p].email]
      <3>5. row # NoUser /\ Stale(row.idToken) /\ dto[p].email \in Users
        BY <3>1 DEF CredentialsInv, LivesLonger, Rows
      <3>6. row.idToken.exp \in Nat /\ row.idToken.exp + Margin <= now
        BY <3>5, <1>u DEF Stale
      <3>7. now + Lifetime \in (row.idToken.exp + Margin + Lifetime)..(now + Lifetime)
        BY <3>6, <1>t
      <3>8. LivesLonger(p)'
        BY <3>1, <3>4, <3>5, <3>7, <2>n DEF LivesLonger, Stale
      <3>9. QED
        BY <2>s, <3>1, <3>8
    <2>4. CASE SaveRegistered(p) \/ SaveRefreshed(p)
      <3>1. /\ pc[p] \in {"register", "save"} /\ pc[p] \in Holding
            /\ users' = [users EXCEPT ![dto[p].email] = dto[p]]
            /\ pc'[p] \in {"idle", "done"}
        BY <2>4, <1>t DEF SaveRegistered, SaveRefreshed, SaveAuthToken, Goes, TypeOK,
                          Holding
      <3>2. dto[p].email \in Users /\ dto[p].idToken.exp <= now + Lifetime
        <4>1. dto[p].email \in Users /\ dto[p].idToken.exp \in Nat /\ LivesLonger(p)
          BY <3>1, <1>t, HeldColumns DEF CredentialsInv
        <4>2. CASE pc[p] = "register"
          BY <4>1, <4>2, <1>t DEF LivesLonger
        <4>3. CASE pc[p] = "save"
          <5>1. users[dto[p].email].idToken.exp \in Nat
            BY <4>1, <4>3, <1>u DEF LivesLonger
          <5>2. QED
            BY <4>1, <4>3, <5>1, <1>t DEF LivesLonger
        <4>4. QED
          BY <3>1, <4>1, <4>2, <4>3
      <3>3. NotAhead'
        BY <3>1, <3>2, <2>n, <1>t DEF NotAhead, TypeOK
      <3>4. QED
        BY <3>1, <3>3 DEF LivesLonger
    <2>5. CASE Fails(p)
      BY <2>5, <2>s, <1>t DEF Fails, Goes, LivesLonger, TypeOK
    <2>6. QED
      BY <1>1, <2>1, <2>2, <2>3, <2>4, <2>5 DEF ProcNext, Continues
  <1>2. CASE Tick
    <2>1. UNCHANGED <<users, pc, dto>> /\ now' = now + 1
      BY <1>2 DEF Tick
    <2>2. NotAhead'
      BY <2>1, <1>t, <1>u DEF NotAhead
    <2>3. ASSUME NEW p \in Procs PROVE LivesLonger(p)'
      <3>1. LivesLonger(p)
        BY DEF CredentialsInv
      <3>2. pc[p] \in Holding => dto[p].email \in Users /\ dto[p].idToken.exp \in Nat
        BY <1>t, HeldColumns
      <3>3. CASE pc[p] = "register"
        BY <2>1, <3>1, <3>2, <3>3, <1>t DEF LivesLonger, Holding
      <3>4. CASE pc[p] \in {"refresh", "save"}
        <4>1. users[dto[p].email] # NoUser /\ users[dto[p].email].idToken.exp \in Nat
          BY <3>1, <3>2, <3>4, <1>u DEF LivesLonger, Holding
        <4>2. QED
          BY <2>1, <3>1, <3>2, <3>4, <4>1, <1>t DEF LivesLonger, Stale, Holding
      <3>5. CASE pc[p] \notin {"register", "refresh", "save"}
        BY <2>1, <3>5 DEF LivesLonger
      <3>6. QED
        BY <3>3, <3>4, <3>5
    <2>4. QED
      BY <2>2, <2>3
  <1>3. CASE UNCHANGED <<users, now, pc, dto>>
    BY <1>3 DEF CredentialsInv, NotAhead, LivesLonger, Stale
  <1>4. QED
    BY <1>1, <1>2, <1>3 DEF Next, Revoke, vars, OneProcess

LEMMA CredentialsStep ==
  ASSUME OneProcess, Omits = {}, CredentialsInv, [Next]_vars
  PROVE  [Promise!Next]_(Promise!vars)
  <1>t. TypeOK /\ LatestInv /\ now \in Nat
    BY DEF CredentialsInv, LatestInv, OwnInv, TypeOK
  <1>s. ASSUME UNCHANGED <<users, grants, now>>
        PROVE  UNCHANGED Promise!vars
    BY <1>s DEF Promise!vars
  <1>1. ASSUME NEW p \in Procs, NEW u \in Users, PerformAuthCodeExchangeFlow(p, u)
        PROVE  Promise!Consent(u)
    BY <1>1, <1>t, Exchanged DEF Promise!Consent
  <1>2. ASSUME NEW p \in Procs, SaveRegistered(p) \/ SaveRefreshed(p)
        PROVE  \E u \in Users : Promise!Register(u) \/ Promise!Renew(u)
    <2> DEFINE e == dto[p].email
               id == dto[p].idToken
    <2>1. /\ pc[p] \in Holding
          /\ users' = [users EXCEPT ![e] = dto[p]]
          /\ UNCHANGED <<grants, now>>
      BY <1>2 DEF SaveRegistered, SaveRefreshed, SaveAuthToken, Holding
    <2>2. /\ e \in Users /\ grants[e] \in Nat
          /\ id = [user |-> e, exp |-> id.exp] /\ id.exp \in Nat
          /\ dto[p].refresh \in 1..grants[e]
          /\ dto[p] = [email |-> e, idToken |-> id, refresh |-> dto[p].refresh]
      BY <2>1, <1>t, HeldColumns
    <2>3. HoldsLatest(p) /\ LivesLonger(p)
      BY DEF CredentialsInv, LatestInv
    <2>4. CASE SaveRegistered(p)
      <3>1. pc[p] = "register"
        BY <2>4 DEF SaveRegistered
      <3>2. dto[p].refresh = grants[e] /\ grants[e] > 0
        BY <2>2, <2>3, <3>1 DEF HoldsLatest
      <3>3. /\ id.exp \in Lifetime..(now + Lifetime)
            /\ users[e] # NoUser => id.exp >= users[e].idToken.exp
        <4>1. users[e] # NoUser => users[e].idToken.exp \in Nat
          BY <2>2, <1>t, StoredColumns
        <4>2. QED
          BY <2>2, <2>3, <3>1, <4>1 DEF LivesLonger
      <3>4. dto[p] = [email |-> e, idToken |-> [user |-> e, exp |-> id.exp],
                      refresh |-> grants[e]]
        BY <2>2, <3>2
      <3> HIDE DEF e, id
      <3>5. Promise!Register(e)
        BY <2>1, <2>2, <3>2, <3>3, <3>4 DEF Promise!Register
      <3>6. QED
        BY <2>2, <3>5
    <2>5. CASE SaveRefreshed(p)
      <3>1. pc[p] = "save"
        BY <2>5 DEF SaveRefreshed
      <3>2. /\ users[e] # NoUser /\ Stale(users[e].idToken)
            /\ users[e].refresh = dto[p].refresh
            /\ id.exp \in (users[e].idToken.exp + Margin + Lifetime)..(now + Lifetime)
        BY <2>3, <3>1 DEF LivesLonger, HoldsLatest
      <3>3. users[e] = [email |-> e, idToken |-> users[e].idToken,
                        refresh |-> users[e].refresh]
        BY <2>2, <3>2, <1>t, StoredColumns
      <3>4. dto[p] = [users[e] EXCEPT !.idToken = [user |-> e, exp |-> id.exp]]
        <4>1. [[email |-> e, idToken |-> users[e].idToken, refresh |-> users[e].refresh]
                 EXCEPT !.idToken = id]
              = [email |-> e, idToken |-> id, refresh |-> users[e].refresh]
          OBVIOUS
        <4>2. QED
          BY <2>2, <3>2, <3>3, <4>1
      <3>5. users[e].idToken.exp + Margin <= now
        BY <3>2 DEF Stale
      <3> HIDE DEF e, id
      <3>6. Promise!Renew(e)
        BY <2>1, <2>2, <3>2, <3>4, <3>5 DEF Promise!Renew
      <3>7. QED
        BY <2>2, <3>6
    <2>6. QED
      BY <1>2, <2>4, <2>5
  <1>3. ASSUME NEW p \in Procs, PerformRefreshFlow(p) \/ Fails(p)
        PROVE  UNCHANGED <<users, grants, now>>
    BY <1>3 DEF PerformRefreshFlow, Fails
  <1>4. ASSUME NEW p \in Procs, NEW u \in Users, GetAuthTokenByEmail(p, u)
        PROVE  UNCHANGED <<users, grants, now>>
    BY <1>4 DEF GetAuthTokenByEmail
  <1>5. CASE Tick
    BY <1>5 DEF Tick, Promise!Next, Promise!TimePasses
  <1>6. CASE (\E u \in Users : Revoke(u)) \/ UNCHANGED vars
    BY <1>s, <1>6 DEF Revoke, vars
  <1>7. QED
    BY <1>s, <1>1, <1>2, <1>3, <1>4, <1>5, <1>6
       DEF Next, ProcNext, Continues, Promise!Next

(* With one process at a time and answers that lack nothing, the users     *)
(* table implements Credentials: a refresh replaces a stale id token by    *)
(* one that lives longer and nothing else, a registration stores the       *)
(* newest consent, and no expiry goes back.                                *)
THEOREM CredentialsImplemented ==
  ASSUME OneProcess, Omits = {}
  PROVE  Spec => ImplementsCredentials
  <1>1. Init => Promise!Init
    BY DEF Init, Promise!Init
  <1>2. CredentialsInv /\ [Next]_vars => [Promise!Next]_(Promise!vars)
    BY CredentialsStep
  <1>3. Init => CredentialsInv
    BY TypeInit DEF Init, CredentialsInv, NotAhead, LivesLonger, LatestInv, OwnInv,
                    OwnTokens, CompleteInv, Complete, HoldsLatest
  <1>4. QED
    BY <1>1, <1>2, <1>3, CredentialsNext, PTL
       DEF Spec, ImplementsCredentials, Promise!Spec
=============================================================================
