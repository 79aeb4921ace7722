----------------------------- MODULE AuthTokens -----------------------------
(***************************************************************************)
(* The users table and the two operations on it: RegisterUser exchanges an *)
(* authorization code for tokens and saves them, FetchAuthToken returns a  *)
(* user's id token and has Google refresh it when it is stale.  Each       *)
(* operation runs in a process of its own (the auth and ledger commands),  *)
(* and each request to Google and each SQL statement is a step, with other *)
(* processes, failures and time between them.                              *)
(*                                                                         *)
(* An id token is its two claims, user and exp; a refresh token is the     *)
(* number of the consent of its user that Google granted it for.  Omitted  *)
(* is the empty string a JSON answer without the field decodes to, which   *)
(* is no decodable id token either.                                        *)
(***************************************************************************)
EXTENDS Naturals

CONSTANTS Users,     \* the emails
          Procs,     \* processes
          Lifetime,  \* of an id token, in units of time
          Margin,    \* the 15 s of FetchAuthToken, in the same units
          Omits,     \* fields Google's answers may lack
          Omitted,   \* an absent token
          NoUser,    \* no row, no row at hand
          MaxTime,   \* bound: the clock
          MaxGrants  \* bound: registrations of a user

ASSUME TimesAssumption == Lifetime \in Nat /\ Margin \in Nat
ASSUME OmitsAssumption == Omits \subseteq {"id_token", "refresh_token"}
ASSUME AbsentAssumption ==
  /\ Omitted \notin Nat
  /\ Omitted \notin [user : Users, exp : Nat]
ASSUME BoundsAssumption == MaxTime \in Nat /\ MaxGrants \in Nat

IDTokens == [user : Users, exp : Nat] \cup {Omitted}

RefreshTokens == (Nat \ {0}) \cup {Omitted}

Rows == [email : Users, idToken : IDTokens, refresh : RefreshTokens]

ASSUME NoUserAssumption == NoUser \notin Rows

VARIABLES users,   \* table users: the row of each email, or NoUser
          now,     \* time.Now().Unix()
          grants,  \* consents of each user Google has exchanged
          valid,   \* of each user, the grants whose refresh token Google honours
          pc,      \* where each process is
          dto      \* the AuthTokenDTO it holds

vars == <<users, now, grants, valid, pc, dto>>

Init ==
  /\ users = [u \in Users |-> NoUser]
  /\ now = 0
  /\ grants = [u \in Users |-> 0]
  /\ valid = [u \in Users |-> {}]
  /\ pc = [p \in Procs |-> "idle"]
  /\ dto = [p \in Procs |-> NoUser]

\* What a field of an answer of Google's may be.
Answered(field, token) == {token} \cup (IF field \in Omits THEN {Omitted} ELSE {})

NewIDToken(u) == [user |-> u, exp |-> now + Lifetime]

\* Mutant: the update has no WHERE.
SaveEverywhere(row) == users' = [u \in Users |-> row]

\* Mutant: a row that exists keeps its refresh token.
SaveKeepsRefreshToken(row) ==
  users' = [users EXCEPT ![row.email] =
              IF @ = NoUser THEN row ELSE [row EXCEPT !.refresh = users[row.email].refresh]]

SaveAuthToken(row) == users' = [users EXCEPT ![row.email] = row]

\* A process can be started: it has not, or ended with a result or an error.
Free(p) == pc[p] \in {"idle", "done", "failed"}

Goes(p, place, row) ==
  /\ pc' = [pc EXCEPT ![p] = place]
  /\ dto' = [dto EXCEPT ![p] = row]

-----------------------------------------------------------------------------
(* RegisterUser                                                            *)

\* The exchange.  Google may leave the refresh token out when the user has
\* consented before: the code grant url asks for no new consent.
PerformAuthCodeExchangeFlow(p, u) ==
  /\ Free(p)
  /\ grants[u] < MaxGrants
  /\ grants' = [grants EXCEPT ![u] = @ + 1]
  /\ \E id \in Answered("id_token", NewIDToken(u)),
        refresh \in IF grants[u] = 0 THEN {1}
                    ELSE Answered("refresh_token", grants[u] + 1) :
       /\ valid' = IF refresh = Omitted THEN valid
                   ELSE [valid EXCEPT ![u] = @ \cup {refresh}]
       /\ IF id = Omitted
            THEN Goes(p, "failed", NoUser)
            ELSE Goes(p, "register",
                      [email |-> id.user, idToken |-> id, refresh |-> refresh])
  /\ UNCHANGED <<users, now>>

\* Mutant: the row is not let go.
SaveRegisteredKeeps(p) ==
  /\ pc[p] = "register"
  /\ SaveAuthToken(dto[p])
  /\ Goes(p, "idle", dto[p])
  /\ UNCHANGED <<now, grants, valid>>

SaveRegistered(p) ==
  /\ pc[p] = "register"
  /\ SaveAuthToken(dto[p])
  /\ Goes(p, "idle", NoUser)
  /\ UNCHANGED <<now, grants, valid>>

-----------------------------------------------------------------------------
(* FetchAuthToken                                                          *)

Stale(id) == id.exp + Margin <= now

GetAuthTokenByEmail(p, u) ==
  /\ Free(p)
  /\ IF users[u] = NoUser \/ users[u].idToken = Omitted
       THEN Goes(p, "failed", NoUser)
       ELSE Goes(p, IF Stale(users[u].idToken) THEN "refresh" ELSE "done", users[u])
  /\ UNCHANGED <<users, now, grants, valid>>

\* Mutant: the row takes both tokens from the answer.
RefreshDropsRefreshToken(p) ==
  /\ pc[p] = "refresh"
  /\ dto[p].refresh \in valid[dto[p].email]
  /\ \E id \in Answered("id_token", NewIDToken(dto[p].email)) :
       Goes(p, "save", [dto[p] EXCEPT !.idToken = id, !.refresh = Omitted])
  /\ UNCHANGED <<users, now, grants, valid>>

PerformRefreshFlow(p) ==
  /\ pc[p] = "refresh"
  /\ dto[p].refresh \in valid[dto[p].email]
  /\ \E id \in Answered("id_token", NewIDToken(dto[p].email)) :
       Goes(p, "save", [dto[p] EXCEPT !.idToken = id])
  /\ UNCHANGED <<users, now, grants, valid>>

\* Mutant: the refreshed token is returned but not saved.
RefreshedNotSaved(p) ==
  /\ pc[p] = "save"
  /\ Goes(p, "done", dto[p])
  /\ UNCHANGED <<users, now, grants, valid>>

\* Mutant: the row goes back without its refresh token.
SaveRefreshedBare(p) ==
  /\ pc[p] = "save"
  /\ SaveAuthToken([dto[p] EXCEPT !.refresh = Omitted])
  /\ Goes(p, "done", dto[p])
  /\ UNCHANGED <<now, grants, valid>>

\* The row goes back with the refresh token that was read at the start.
SaveRefreshed(p) ==
  /\ pc[p] = "save"
  /\ SaveAuthToken(dto[p])
  /\ Goes(p, "done", dto[p])
  /\ UNCHANGED <<now, grants, valid>>

\* Google denies, a request or query fails, or the process is killed.
Fails(p) ==
  /\ pc[p] \in {"register", "refresh", "save"}
  /\ Goes(p, "failed", NoUser)
  /\ UNCHANGED <<users, now, grants, valid>>

-----------------------------------------------------------------------------
(* The user withdraws the consent at Google, and time passes.              *)

Revoke(u) ==
  /\ valid[u] # {}
  /\ valid' = [valid EXCEPT ![u] = {}]
  /\ UNCHANGED <<users, now, grants, pc, dto>>

Tick ==
  /\ now < MaxTime
  /\ now' = now + 1
  /\ UNCHANGED <<users, grants, valid, pc, dto>>

Continues(p) ==
  SaveRegistered(p) \/ PerformRefreshFlow(p) \/ SaveRefreshed(p) \/ Fails(p)

ProcNext(p) ==
  \/ \E u \in Users : PerformAuthCodeExchangeFlow(p, u) \/ GetAuthTokenByEmail(p, u)
  \/ Continues(p)

Next ==
  \/ \E p \in Procs : ProcNext(p)
  \/ \E u \in Users : Revoke(u)
  \/ Tick

Spec == Init /\ [][Next]_vars

(***************************************************************************)
(* Of infinitely many refreshes of a user's id token that get as far as    *)
(* Google, or as the save, some get past it.  Nothing is said of whether a *)
(* user's token is asked for at all: `ledger sync` does only when rows are *)
(* pending, and a script does not reach it behind a command that fails.    *)
(***************************************************************************)
Fairness ==
  \A p \in Procs, u \in Users :
    /\ SF_vars(PerformRefreshFlow(p) /\ dto[p].email = u)
    /\ SF_vars(SaveRefreshed(p) /\ dto[p].email = u)

FairSpec == Spec /\ Fairness

-----------------------------------------------------------------------------
Holding == {"register", "refresh", "save", "done"}

(* Type invariant: a process holds a row exactly while it works on one or  *)
(* has returned its token.                                                 *)
TypeOK ==
  /\ users \in [Users -> Rows \cup {NoUser}]
  /\ now \in Nat
  /\ grants \in [Users -> Nat]
  /\ valid \in [Users -> SUBSET (Nat \ {0})]
  /\ pc \in [Procs -> {"idle", "failed"} \cup Holding]
  /\ dto \in [Procs -> Rows \cup {NoUser}]
  /\ \A p \in Procs : pc[p] \in Holding <=> dto[p] # NoUser

(* Tokens never change hands: a row has the id token and a refresh token   *)
(* of its own user, and nobody is given the id token of another, although  *)
(* RegisterUser takes the email from one answer and FetchAuthToken from a  *)
(* row it read earlier (auth.go 39-43, 66-70).                             *)
Owned(u, row, granted) ==
  /\ row.email = u
  /\ row.idToken # Omitted => row.idToken.user = u
  /\ row.refresh # Omitted => row.refresh \in 1..granted

OwnTokens ==
  /\ \A u \in Users : users[u] # NoUser => Owned(u, users[u], grants[u])
  /\ \A p \in Procs :
       dto[p] # NoUser => Owned(dto[p].email, dto[p], grants[dto[p].email])

(* What Google never leaves out of an answer, no order of registrations,   *)
(* refreshes, failures and restarts leaves out of a row: the save after a  *)
(* refresh puts back what the answer to the refresh does not have (auth.go *)
(* 66-70).  The converse is why the omissions matter: a row without a      *)
(* readable id token fails every later run (auth.go 53-56).                *)
RowsUsable ==
  \A u \in Users : users[u] # NoUser =>
    /\ "id_token" \notin Omits => users[u].idToken # Omitted
    /\ "refresh_token" \notin Omits => users[u].refresh # Omitted

(* With one process at a time, a stored refresh token is only replaced by  *)
(* that of a later consent.                                                *)
OneProcess == \A p, q \in Procs : p = q

RefreshTokenNeverGoesBack ==
  [][\A u \in Users : users[u] # NoUser /\ users[u].refresh # Omitted =>
        users'[u].refresh # Omitted /\ users'[u].refresh >= users[u].refresh]_vars

(* With one process at a time and answers that lack nothing, the table     *)
(* keeps the promise of Credentials: a registration stores the newest      *)
(* consent, a refresh replaces a stale id token by one that lives longer   *)
(* and nothing else, although each writes a whole row some requests after  *)
(* it has made or read it (auth.go 28-77, sql_storage.go 77-88).           *)
Promise == INSTANCE Credentials WITH
  Users    <- Users,
  Lifetime <- Lifetime,
  Margin   <- Margin,
  NoUser   <- NoUser,
  users    <- users,
  grants   <- grants,
  now      <- now

ImplementsCredentials == Promise!Spec

(* Refreshing an id token leaves the stored refresh token as it is.        *)
RefreshKeepsRefreshToken ==
  [][\A p \in Procs : pc[p] = "save" /\ pc'[p] = "done" =>
        users'[dto[p].email].refresh = users[dto[p].email].refresh]_vars

(* A token that is returned as stored has not expired.                     *)
StoredTokenNotExpired ==
  [][\A p \in Procs : Free(p) /\ pc'[p] = "done" /\ dto'[p] # dto[p] =>
        dto'[p].idToken.exp > now]_vars

(* A stale row whose refresh token Google honours gets a new id token if   *)
(* the user's token is asked for again and again, through any number of    *)
(* failed runs, registrations and refreshes of others in between, unless   *)
(* the consent is withdrawn or the user registers anew (auth.go 46-77): a  *)
(* run that fails leaves the row such that the next can try again.         *)
CanRefresh(u) == users[u] # NoUser /\ users[u].refresh \in valid[u]

AskedForEver(u) == []<><<\E p \in Procs : GetAuthTokenByEmail(p, u)>>_vars

StaleIsRefreshed ==
  \A u \in Users :
    AskedForEver(u) => (CanRefresh(u) ~> (CanRefresh(u) => ~Stale(users[u].idToken)))
=============================================================================
