---------------------------- MODULE Credentials ----------------------------
(***************************************************************************)
(* What the users table promises to the commands that report on a user's   *)
(* behalf: each user has at most one row, with an id token of that user    *)
(* and the refresh token of the newest consent there was when the user     *)
(* registered last.  Only a token that has gone stale is renewed, for one  *)
(* that lives longer; a renewal leaves the refresh token alone, and no     *)
(* expiry ever goes back.                                                  *)
(***************************************************************************)
EXTENDS Naturals

CONSTANTS Users,     \* the emails
          Lifetime,  \* of an id token
          Margin,    \* how long after its expiry a token counts as stale
          NoUser     \* no row

VARIABLES users,     \* the row of each user, or NoUser
          grants,    \* consents of each user
          now        \* the time

vars == <<users, grants, now>>

Init ==
  /\ users = [u \in Users |-> NoUser]
  /\ grants = [u \in Users |-> 0]
  /\ now = 0

TimePasses ==
  /\ now' = now + 1
  /\ UNCHANGED <<users, grants>>

Consent(u) ==
  /\ grants' = [grants EXCEPT ![u] = @ + 1]
  /\ UNCHANGED <<users, now>>

\* The new token is not older than the row's, if there is one.
Register(u) ==
  /\ grants[u] > 0
  /\ \E exp \in Lifetime..now + Lifetime :
       /\ users[u] # NoUser => exp >= users[u].idToken.exp
       /\ users' = [users EXCEPT ![u] = [email   |-> u,
                                         idToken |-> [user |-> u, exp |-> exp],
                                         refresh |-> grants[u]]]
  /\ UNCHANGED <<grants, now>>

Renew(u) ==
  /\ users[u] # NoUser
  /\ users[u].idToken.exp + Margin <= now
  /\ \E exp \in (users[u].idToken.exp + Margin + Lifetime)..(now + Lifetime) :
       users' = [users EXCEPT ![u].idToken = [user |-> u, exp |-> exp]]
  /\ UNCHANGED <<grants, now>>

Next ==
  \/ TimePasses
  \/ \E u \in Users : Consent(u) \/ Register(u) \/ Renew(u)

Spec == Init /\ [][Next]_vars
=============================================================================
