------------------------------ MODULE Sessions ------------------------------
(***************************************************************************)
(* The sessions of one user, routers/auth.py and auth/deps.py: sign-in,    *)
(* refresh with rotation and reuse detection, logout and revocation, and   *)
(* change of password.                                                     *)
(*                                                                         *)
(* A handler reads session rows without locking them and commits later;    *)
(* its UPDATE carries the columns it assigned.  A refresh token is its     *)
(* number within its session.  The client of a session refreshes with the  *)
(* last token it received; answers can be lost, and then it tries again.   *)
(***************************************************************************)
EXTENDS Naturals

CONSTANTS
    Sids,         \* sessions that may come to be
    Requests,     \* slots for concurrent requests
    Grace,        \* refresh_reuse_grace_seconds
    Lifetime,     \* refresh_token_ttl_seconds
    MaxTime,      \* bound on the clock
    MaxStarts,    \* bound on the number of requests in a behaviour
    None

ASSUME SessionAssumption ==
    /\ Grace \in Nat /\ Lifetime \in Nat /\ MaxTime \in Nat /\ MaxStarts \in Nat
    /\ None \notin Nat /\ None \notin Requests

VARIABLES
    sess,         \* sess[s]: the committed row, or NoSession
    password,     \* version of the user's password
    clock,
    req,          \* req[r]: the request r is serving
    started,      \* requests so far
    client,       \* client[s]: what the holder of s knows
    replayed      \* replayed[s]: someone else, or too late, presented a token of s

vars == <<sess, password, clock, req, started, client, replayed>>

NoSession == [current |-> 0]
Idle == [kind |-> "idle"]

Exists(s) == sess[s] # NoSession
InFlight(kind) == {r \in Requests : req[r].kind = kind}
RefreshesOf(s) == {r \in InFlight("refresh") : req[r].sid = s}

\* Changes of password under way that have looked for the other sessions.
Changing == {r \in InFlight("password") : req[r].others # None}

\* Mutant of NewSession: last_used_at is left to the first refresh.
NewSessionUnused(version, during) ==
    [current |-> 1, previous |-> 0, usedAt |-> None, expiresAt |-> clock + Lifetime,
     revoked |-> "no", minted |-> 1, version |-> version, during |-> during]

\* version: the password its holder has shown to know; during: it was changed
\* while the sign-in was under way.
NewSession(version, during) ==
    [current |-> 1, previous |-> 0, usedAt |-> clock, expiresAt |-> clock + Lifetime,
     revoked |-> "no", minted |-> 1, version |-> version, during |-> during]

NewClient == [held |-> 1, tries |-> 0, since |-> 0, waits |-> None, tangled |-> FALSE]

\* A row that _authenticate and refresh take for valid.
Valid(s) == Exists(s) /\ sess[s].revoked = "no" /\ clock <= sess[s].expiresAt

Init ==
    /\ sess = [s \in Sids |-> NoSession]
    /\ password = 1
    /\ clock = 0
    /\ req = [r \in Requests |-> Idle]
    /\ started = 0
    /\ client = [s \in Sids |-> NewClient]
    /\ replayed = [s \in Sids |-> FALSE]

Tick ==
    /\ clock < MaxTime
    /\ clock' = clock + 1
    /\ UNCHANGED <<sess, password, req, started, client, replayed>>

Start(r, what) ==
    /\ req[r] = Idle /\ started < MaxStarts
    /\ req' = [req EXCEPT ![r] = what]
    /\ started' = started + 1

-----------------------------------------------------------------------------
(* POST /login, with the password as it is when the user row is read.      *)

LoadLogin(r, s) ==
    /\ ~Exists(s) /\ \A q \in InFlight("login") : req[q].sid # s
    /\ Start(r, [kind |-> "login", sid |-> s, version |-> password])
    /\ UNCHANGED <<sess, password, clock, client, replayed>>

CommitLogin(r) ==
    /\ req[r].kind = "login"
    /\ LET v == req[r].version
       IN  sess' = [sess EXCEPT ![req[r].sid] =
                      NewSession(v, v # password \/ Changing # {})]
    /\ req' = [req EXCEPT ![r] = Idle]
    /\ UNCHANGED <<password, clock, started, client, replayed>>

-----------------------------------------------------------------------------
(* POST /refresh                                                           *)

\* Mutant of InGrace: the grace period is over at its last second.
InGraceStrictly(s) == Grace > 0 /\ clock - sess[s].usedAt < Grace

InGrace(s) == Grace > 0 /\ clock - sess[s].usedAt <= Grace

\* Token n of session s is the current one, or the one before it in time.
Accepts(s, n) ==
    /\ Valid(s)
    /\ \/ n = sess[s].current
       \/ n = sess[s].previous /\ InGrace(s)

Reuse(s, n) == n = sess[s].previous /\ sess[s].revoked = "no" /\ ~InGrace(s)

\* The lookup by current token, then by previous token.  Any other answer is
\* 401 and changes nothing.
Present(r, s, n) ==
    \/ /\ Accepts(s, n)
       /\ Start(r, [kind |-> "refresh", sid |-> s, seen |-> sess[s], now |-> clock])
    \/ /\ Reuse(s, n)
       /\ Start(r, [kind |-> "reuse", sid |-> s])

\* The client waits for what r answers; what it waited for before it forgets.
Trying(c, r, busy) ==
    [c EXCEPT !.tries = @ + 1, !.waits = r,
              !.since = IF c.tries = 0 THEN clock ELSE @,
              !.tangled = @ \/ busy]

\* r is over, and may have brought the client a token.
Answered(c, r, delivered, token) ==
    [c EXCEPT !.held = IF delivered THEN token ELSE @,
              !.tries = IF delivered THEN 0 ELSE @,
              !.waits = IF @ = r THEN None ELSE @]

\* The client of s sends its token for the first time, or again within the
\* grace period.
LoadRefresh(r, s) ==
    /\ Exists(s)
    /\ LET c == client[s]
       IN  /\ c.tries > 0 => clock - c.since <= Grace
           /\ Present(r, s, c.held)
           /\ client' = [client EXCEPT ![s] = Trying(c, r, RefreshesOf(s) # {})]
    /\ UNCHANGED <<sess, password, clock, replayed>>

\* Any token of s that was ever issued is presented by someone, at any time.
LoadReplay(r, s) ==
    /\ Exists(s)
    /\ \E n \in 1..sess[s].minted : Present(r, s, n)
    /\ replayed' = [replayed EXCEPT ![s] = TRUE]
    /\ UNCHANGED <<sess, password, clock, client>>

\* Mutant of Rotated: the whole row is written back.
RotatedWhole(row, seen, now) ==
    [seen EXCEPT !.previous = seen.current, !.current = row.minted + 1,
                 !.usedAt = now, !.minted = row.minted + 1]

\* Mutant of Rotated: the superseded token is not remembered.
RotatedForgetting(row, seen, now) ==
    [row EXCEPT !.current = row.minted + 1, !.usedAt = now, !.minted = @ + 1]

\* The three columns assigned, from the row as it was read.
Rotated(row, seen, now) ==
    [row EXCEPT !.previous = seen.current, !.current = row.minted + 1,
                !.usedAt = now, !.minted = @ + 1]

\* The answer reaches a client that still waits for it, or is lost.
CommitRefresh(r, delivered) ==
    /\ req[r].kind = "refresh"
    /\ LET s == req[r].sid
       IN  /\ sess' = [sess EXCEPT ![s] = Rotated(@, req[r].seen, req[r].now)]
           /\ delivered => client[s].waits = r
           /\ client' = [client EXCEPT ![s] =
                           Answered(client[s], r, delivered, sess[s].minted + 1)]
    /\ req' = [req EXCEPT ![r] = Idle]
    /\ UNCHANGED <<password, clock, started, replayed>>

CommitReuse(r) ==
    /\ req[r].kind = "reuse"
    /\ sess' = [sess EXCEPT ![req[r].sid].revoked = "reuse"]
    /\ req' = [req EXCEPT ![r] = Idle]
    /\ client' = [client EXCEPT ![req[r].sid] = Answered(client[req[r].sid], r, FALSE, 0)]
    /\ UNCHANGED <<password, clock, started, replayed>>

-----------------------------------------------------------------------------
(* POST /logout, /sessions/{id}/revoke and /password                       *)

\* A session ends itself or another one of the user.
LoadRevoke(r, own, s) ==
    /\ Valid(own) /\ Exists(s) /\ sess[s].revoked = "no"
    /\ Start(r, [kind |-> "revoke", sid |-> s])
    /\ UNCHANGED <<sess, password, clock, client, replayed>>

CommitRevoke(r) ==
    /\ req[r].kind = "revoke"
    /\ sess' = [sess EXCEPT ![req[r].sid].revoked = "ended"]
    /\ req' = [req EXCEPT ![r] = Idle]
    /\ UNCHANGED <<password, clock, started, client, replayed>>

\* Mutant of Others: the session that asks is among them, the rest is not.
OthersOwn(own) == {own}

\* The sessions a change of password revokes.
Others(own) == {s \in Sids \ {own} : Exists(s) /\ sess[s].revoked = "no"}

LoadPassword(r, own) ==
    /\ Valid(own)
    /\ Start(r, [kind |-> "password", sid |-> own, others |-> None])
    /\ UNCHANGED <<sess, password, clock, client, replayed>>

\* The query for the sessions; the new hash is sent only at the end.
ReadOthers(r) ==
    /\ req[r].kind = "password" /\ r \notin Changing
    /\ req' = [req EXCEPT ![r].others = Others(req[r].sid)]
    /\ UNCHANGED <<sess, password, clock, started, client, replayed>>

CommitPassword(r) ==
    /\ r \in Changing
    /\ password' = password + 1
    /\ sess' = [s \in Sids |->
                  IF s \in req[r].others THEN [sess[s] EXCEPT !.revoked = "password"]
                  ELSE IF s = req[r].sid THEN [sess[s] EXCEPT !.version = password']
                  ELSE sess[s]]
    /\ req' = [req EXCEPT ![r] = Idle]
    /\ UNCHANGED <<clock, started, client, replayed>>

\* The request fails before its commit; nothing of it remains.
Fail(r) ==
    /\ req[r] # Idle
    /\ req' = [req EXCEPT ![r] = Idle]
    /\ client' = [s \in Sids |-> Answered(client[s], r, FALSE, 0)]
    /\ UNCHANGED <<sess, password, clock, started, replayed>>

Next ==
    \/ Tick
    \/ \E r \in Requests, s \in Sids :
          \/ LoadLogin(r, s) \/ LoadRefresh(r, s) \/ LoadReplay(r, s)
          \/ LoadPassword(r, s)
          \/ \E own \in Sids : LoadRevoke(r, own, s)
    \/ \E r \in Requests :
          \/ CommitLogin(r) \/ CommitReuse(r) \/ CommitRevoke(r)
          \/ ReadOthers(r) \/ CommitPassword(r)
          \/ \E delivered \in BOOLEAN : CommitRefresh(r, delivered)
          \/ Fail(r)

Spec == Init /\ [][Next]_vars

-----------------------------------------------------------------------------
SessionRow ==
    [current : Nat \ {0}, previous : Nat, usedAt : 0..MaxTime, expiresAt : Nat,
     revoked : {"no", "reuse", "ended", "password"}, minted : Nat \ {0},
     version : Nat, during : BOOLEAN]

Serving ==
    [kind : {"login"}, sid : Sids, version : Nat]
    \cup [kind : {"refresh"}, sid : Sids, seen : SessionRow, now : 0..MaxTime]
    \cup [kind : {"reuse", "revoke"}, sid : Sids]
    \cup [kind : {"password"}, sid : Sids, others : {None} \cup SUBSET Sids]

Client ==
    [held : Nat, tries : Nat, since : Nat, waits : Requests \cup {None}, tangled : BOOLEAN]

\* Type invariant of session rows, requests and clients.  The current token
\* was issued, and the previous one before it.
TypeOK ==
    /\ sess \in [Sids -> SessionRow \cup {NoSession}]
    /\ \A s \in Sids : Exists(s) =>
          /\ sess[s].previous < sess[s].current /\ sess[s].current <= sess[s].minted
          /\ sess[s].version <= password
    /\ password \in Nat /\ clock \in 0..MaxTime /\ started \in 0..MaxStarts
    /\ req \in [Requests -> Serving \cup {Idle}]
    /\ client \in [Sids -> Client]
    /\ replayed \in [Sids -> BOOLEAN]

\* SECURITY.md: "logout, password change and revocation take effect
\* immediately".  A refresh that read the row before it was revoked does not
\* bring the session back to life.
RevokedIsFinal ==
    [][\A s \in Sids : Exists(s) /\ sess[s].revoked # "no" => sess'[s].revoked # "no"]_vars

\* The grace period does what auth.py 344-347 wants of it: a client that
\* tries again in time is never taken for a thief, even when its attempts
\* overlap.
NeverAccused ==
    \A s \in Sids : Exists(s) /\ sess[s].revoked = "reuse" => replayed[s]

\* A client that sends one refresh after the other and lost at most one
\* answer in a row holds the current token or the previous one.
KeepsSession ==
    \A s \in Sids :
        /\ Exists(s) /\ ~replayed[s] /\ ~client[s].tangled
        /\ client[s].tries <= 1
        => client[s].held \in {sess[s].current, sess[s].previous}

\* auth.py 482: "Revokes every other session of the user."  Who is still
\* signed in has shown to know the present password, unless the sign-in was
\* under way when it was changed.
LiveSinceChange ==
    \A s \in Sids :
        /\ Exists(s) /\ sess[s].revoked = "no" /\ ~sess[s].during
        => sess[s].version = password
=============================================================================
