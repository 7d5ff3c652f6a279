----------------------------- MODULE AuthServer -----------------------------
(***************************************************************************)
(* The login provider of packages/server: refresh tokens live in a map in  *)
(* memory; a refresh replaces the token it was called with by a new one.   *)
(* Between looking the token up and replacing it the provider waits for    *)
(* the database, so other requests are served in between.                  *)
(* A token is the number of its issue; account[n] is whom it was issued    *)
(* to.  An access token is named by the number of the refresh token it was *)
(* issued with.                                                            *)
(***************************************************************************)
EXTENDS Naturals, FiniteSets, Sequences

CONSTANTS Account,      \* the users that can sign in
          MaxIssued,    \* bound: tokens issued in a behaviour
          MaxFaults     \* bound: restarts, expiries, deactivations and lost answers

ASSUME ServerAssumption == MaxIssued \in Nat /\ MaxFaults \in Nat /\ Account # {}

VARIABLES live,     \* the keys of the map of refresh tokens
          account,  \* whom each token was issued to, in the order of issue
          spent,    \* the tokens a successful refresh was called with
          active,   \* the accounts lookupUser finds
          faults    \* the faults so far

serverVars == <<live, account, spent, active, faults>>

NoToken == 0
Token == 1..MaxIssued
Issued == Len(account)

ServerTypeOK ==
    /\ account \in Seq(Account) /\ Issued <= MaxIssued
    /\ live \subseteq 1..Issued
    /\ spent \subseteq 1..Issued
    /\ active \subseteq Account
    /\ faults \in 0..MaxFaults

ServerInit ==
    /\ live = {} /\ account = <<>> /\ spent = {}
    /\ active = Account
    /\ faults = 0

\* login: with the right password of an active account, a token is stored.
ServeLogin(who) ==
    /\ who \in active
    /\ Issued < MaxIssued
    /\ account' = Append(account, who)
    /\ live' = live \cup {Issued + 1}
    /\ UNCHANGED <<spent, active, faults>>

\* The end of refresh, the user having been found: the token is revoked, whether
\* it is still in the map or not, and a new one is stored.
Rotate(token) ==
    /\ account[token] \in active
    /\ Issued < MaxIssued
    /\ account' = Append(account, account[token])
    /\ live' = (live \ {token}) \cup {Issued + 1}
    /\ spent' = spent \cup {token}
    /\ UNCHANGED <<active, faults>>

\* The end of refresh when the user has been deactivated meanwhile.
RefuseInactive(token) ==
    /\ account[token] \notin active
    /\ live' = live \ {token}
    /\ UNCHANGED <<account, spent, active, faults>>

Fault ==
    /\ faults < MaxFaults
    /\ faults' = faults + 1

\* The server stops and starts: the map is empty.
Restart == Fault /\ live # {} /\ live' = {} /\ UNCHANGED <<account, spent, active>>

\* A token reaches its expiry and is dropped.
Expire == Fault /\ (\E t \in live : live' = live \ {t}) /\ UNCHANGED <<account, spent, active>>

\* The row of the account stops satisfying the active condition.
Deactivate ==
    /\ Fault
    /\ \E who \in active : active' = active \ {who}
    /\ UNCHANGED <<live, account, spent>>

\* An answer of the server does not arrive.
LoseAnswer == Fault /\ UNCHANGED <<live, account, spent, active>>

\* A refresh token that bought a new one buys nothing any more: whatever requests
\* overlap, db-auth-provider.refresh has taken it out of the map and nothing puts it back.
SpentStaysSpent == live \cap spent = {}
=============================================================================
