------------------------------ MODULE Accounts ------------------------------
(***************************************************************************)
(* One user's account: the lockout counter, the second factor with its     *)
(* enrolment, recovery codes and challenge tokens, and what administrators *)
(* do to it, from routers/auth.py, auth/mfa.py and the user operations of  *)
(* routers/rbac.py.                                                        *)
(*                                                                         *)
(* A handler loads the row, decides, and commits the columns it changed    *)
(* (SQLAlchemy writes no others); audit.record() orders the commits but    *)
(* not the loads.  Passwords and refresh tokens are the business of module *)
(* Sessions.  Time is counted in TOTP steps.                               *)
(***************************************************************************)
EXTENDS Naturals, FiniteSets

CONSTANTS Sids, Requests, None,
          MaxFailures,      \* settings.login_max_failures
          LockFor,          \* settings.login_lockout_minutes, in steps
          ChallengeTtl,     \* CHALLENGE_TTL_SECONDS, ENROLLMENT_TTL_SECONDS
          CodesPerSet,      \* RECOVERY_CODE_COUNT
          Drift,            \* DRIFT_STEPS
          MaxTime, MaxStarts

ASSUME AccountAssumption ==
    /\ {MaxFailures, ChallengeTtl, CodesPerSet, MaxTime, MaxStarts} \subseteq Nat \ {0}
    /\ {LockFor, Drift} \subseteq Nat
    /\ None \notin Sids \cup Requests /\ IsFiniteSet(Requests)

VARIABLES user,        \* the committed row
          requireMfa,  \* settings.security.require_mfa of the tenant
          sess,        \* the user's sessions
          challenge,   \* for each kind of challenge token, when the latest ends
          clock, req, started,
          minted,      \* secrets and sets of recovery codes made so far
          guesses,     \* wrong answers counted since the last lock or reset
          used,        \* one-time codes accepted so far
          again,       \* one of them was accepted twice
          tangled      \* two requests that use codes have overlapped

vars == <<user, requireMfa, sess, challenge, clock, req, started, minted, guesses, used,
          again, tangled>>

Generation == 0..(2 * MaxStarts)
\* One-time codes: TOTP codes are known by their secret and step.
Recovery == {"recovery"} \X Generation \X (1..CodesPerSet)
Totp(secret, step) == <<"totp", secret, step>>
Column == {"active", "fails", "locked", "enabled", "secret", "pending", "recovery", "lastStep"}

User == [active : BOOLEAN, fails : 0..(MaxFailures - 1), locked : 0..(MaxTime + LockFor),
         enabled : BOOLEAN, secret : Generation, pending : Generation,
         recovery : SUBSET Recovery, lastStep : 0..(MaxTime + Drift)]

Session == [state : {"none", "live", "revoked"}, verified : BOOLEAN]
NoSession == [state |-> "none", verified |-> FALSE]

\* What a handler has decided: the row it read and the one it leaves, the
\* code it took, what becomes of the sessions, those it found live to revoke,
\* and whether another request has moved the marks of used codes since.
Idle == [kind |-> "idle", seen |-> None, new |-> None, code |-> None,
         open |-> "no", sid |-> None, found |-> {}, stale |-> FALSE]

TypeOK ==
    /\ user \in User /\ requireMfa \in BOOLEAN
    /\ sess \in [Sids -> Session]
    /\ challenge \in [{"mfa", "mfa_enroll"} -> 0..(MaxTime + ChallengeTtl)]
    /\ clock \in 1..MaxTime /\ started \in 0..MaxStarts /\ minted \in Generation
    /\ guesses \in Nat /\ again \in BOOLEAN /\ tangled \in BOOLEAN
    /\ \A r \in Requests :
          req[r] = Idle \/ (/\ req[r].seen \in User /\ req[r].new \in User
                            /\ req[r].open \in {"no", "password", "verified"}
                            /\ req[r].sid \in Sids \cup {None} /\ req[r].found \subseteq Sids)

Init ==
    /\ user = [active |-> TRUE, fails |-> 0, locked |-> 0, enabled |-> FALSE, secret |-> 0,
               pending |-> 0, recovery |-> {}, lastStep |-> 0]
    /\ requireMfa \in BOOLEAN
    /\ sess = [s \in Sids |-> NoSession]
    /\ challenge = [k \in {"mfa", "mfa_enroll"} |-> 0]
    /\ clock = 1 /\ started = 0 /\ minted = 0
    /\ req = [r \in Requests |-> Idle]
    /\ guesses = 0 /\ used = {} /\ again = FALSE /\ tangled = FALSE

-----------------------------------------------------------------------------
(* The rules.                                                              *)

Locked(u) == u.locked > clock

\* Mutant of Failure: the counter restarts with every attempt.
FailureForgets(u) == [u EXCEPT !.fails = 1]

\* _register_failure.
Failure(u) ==
    IF u.fails + 1 >= MaxFailures
    THEN [u EXCEPT !.locked = clock + LockFor, !.fails = 0]
    ELSE [u EXCEPT !.fails = @ + 1]

\* _complete_login.
Cleared(u) == [u EXCEPT !.fails = 0, !.locked = 0]

\* Mutant of Steps: the last step used is accepted again.
StepsInclusive(last) == {s \in (clock - Drift)..(clock + Drift) : s >= last /\ s > 0}

\* The steps whose code verify_totp takes.
Steps(last) == {s \in (clock - Drift)..(clock + Drift) : s > last /\ s > 0}

\* consume_recovery_code.
Consumed(u, c) == [u EXCEPT !.recovery = @ \ {c}]

\* A second factor that _verify_second_factor takes: what is left of the row,
\* and which code it was.
Factors(u) ==
    {[row |-> [u EXCEPT !.lastStep = s], code |-> Totp(u.secret, s)] : s \in Steps(u.lastStep)}
    \cup {[row |-> Consumed(u, c), code |-> c] : c \in u.recovery}

Fresh(g) == {"recovery"} \X {g} \X (1..CodesPerSet)

\* Mutant of WithoutFactor: the flag is cleared and the secret stays.
WithoutFactorKeeps(u) == [u EXCEPT !.enabled = FALSE, !.pending = 0, !.recovery = {}]

WithoutFactor(u) ==
    [u EXCEPT !.enabled = FALSE, !.secret = 0, !.pending = 0, !.recovery = {}, !.lastStep = 0]

Enrolled(u, s, g) ==
    [u EXCEPT !.secret = u.pending, !.pending = 0, !.enabled = TRUE, !.lastStep = s,
              !.recovery = Fresh(g)]

\* get_current_principal: a live session of an active user, and with a second
\* factor where the tenant wants one; the enrolment paths are exempt.
Admitted(s, exempt) ==
    /\ sess[s].state = "live" /\ user.active
    /\ requireMfa /\ ~exempt => sess[s].verified

\* _mfa_subject: a session, or the token of an unfinished sign-in.
Subject(s) ==
    /\ user.active
    /\ IF s = None THEN clock <= challenge["mfa_enroll"] ELSE Admitted(s, TRUE)

-----------------------------------------------------------------------------
(* Handlers up to their commit.                                            *)

Free(r) == req[r] = Idle /\ started < MaxStarts

Live == {s \in Sids : sess[s].state = "live"}

Decide(r, kind, new, code, open, sid) ==
    /\ req' = [req EXCEPT ![r] = [kind |-> kind, seen |-> user, new |-> new, code |-> code,
                                  open |-> open, sid |-> sid, stale |-> FALSE,
                                  found |-> IF kind = "revokes" THEN Live ELSE {}]]
    /\ started' = started + 1
    /\ UNCHANGED <<user, requireMfa, sess, clock, guesses, used, again, tangled>>

Fails(r, kind) == Decide(r, kind, Failure(user), None, "no", None)

\* login: the password step.
WrongPassword(r) ==
    /\ Free(r) /\ ~Locked(user)
    /\ Fails(r, "guess")
    /\ UNCHANGED <<challenge, minted>>

SignIn(r) ==
    /\ Free(r) /\ ~Locked(user) /\ user.active
    /\ ~user.enabled /\ ~requireMfa
    /\ Decide(r, "login", Cleared(user), None, "password", None)
    /\ UNCHANGED <<challenge, minted>>

\* The password is right and a second step is needed: a token, no change.
Challenged ==
    /\ ~Locked(user) /\ user.active
    /\ user.enabled \/ requireMfa
    /\ LET kind == IF user.enabled THEN "mfa" ELSE "mfa_enroll"
       IN  /\ challenge[kind] < clock
           /\ challenge' = [challenge EXCEPT ![kind] = clock + ChallengeTtl]
    /\ UNCHANGED <<user, requireMfa, sess, clock, req, started, minted, guesses, used,
                   again, tangled>>

\* login_mfa.
SecondStep(r) ==
    /\ Free(r) /\ clock <= challenge["mfa"]
    /\ user.enabled /\ user.active /\ ~Locked(user)
    /\ \/ \E f \in Factors(user) : Decide(r, "login", Cleared(f.row), f.code, "verified", None)
       \/ Fails(r, "guess")
    /\ UNCHANGED <<challenge, minted>>

\* mfa_setup.
Setup(r) ==
    \E s \in Sids \cup {None} :
        /\ Free(r) /\ Subject(s) /\ ~user.enabled
        /\ minted' = minted + 1
        /\ Decide(r, "setup", [user EXCEPT !.pending = minted + 1], None, "no", None)
        /\ UNCHANGED challenge

\* mfa_enable: with the token it also completes the sign-in.
Enable(r) ==
    \E s \in Sids \cup {None} :
        /\ Free(r) /\ Subject(s) /\ ~user.enabled /\ user.pending # 0
        /\ \/ \E step \in Steps(0) :
                 LET new == Enrolled(user, step, minted + 1)
                 IN  /\ minted' = minted + 1
                     /\ Decide(r, "enable", IF s = None THEN Cleared(new) ELSE new,
                               Totp(user.pending, step), IF s = None THEN "verified" ELSE "no", s)
           \/ /\ Fails(r, "guess")
              /\ UNCHANGED minted
        /\ UNCHANGED challenge

\* mfa_disable: password and a second factor.
Disable(r) ==
    \E s \in Sids :
        /\ Free(r) /\ Admitted(s, TRUE) /\ user.enabled /\ ~requireMfa
        /\ \/ \E f \in Factors(user) :
                 Decide(r, "disable", WithoutFactor(f.row), f.code, "no", None)
           \/ Fails(r, "guess")
        /\ UNCHANGED <<challenge, minted>>

\* mfa_regenerate_recovery: a TOTP code.
Regenerate(r) ==
    \E s \in Sids :
        /\ Free(r) /\ Admitted(s, TRUE)
        /\ \/ /\ user.enabled
              /\ \E step \in Steps(user.lastStep) :
                    Decide(r, "regenerate",
                           [user EXCEPT !.lastStep = step, !.recovery = Fresh(minted + 1)],
                           Totp(user.secret, step), "no", None)
              /\ minted' = minted + 1
           \/ /\ Fails(r, "guess")
              /\ UNCHANGED minted
        /\ UNCHANGED challenge

\* update_user: an administrator switches the account off or on.
SetActive(r, b) ==
    /\ Free(r)
    /\ Decide(r, IF b THEN "admin" ELSE "revokes",
              IF b THEN [Cleared(user) EXCEPT !.active = TRUE] ELSE [user EXCEPT !.active = FALSE],
              None, "no", None)
    /\ UNCHANGED <<challenge, minted>>

\* reset_user_mfa: an administrator clears a lost second factor.
ResetMfa(r) ==
    /\ Free(r)
    /\ Decide(r, "revokes", WithoutFactor(user), None, "no", None)
    /\ UNCHANGED <<challenge, minted>>

\* _apply_security_policy: the tenant begins or ceases to require MFA.
SetPolicy ==
    /\ started < MaxStarts /\ started' = started + 1
    /\ requireMfa' = ~requireMfa
    /\ UNCHANGED <<user, sess, challenge, clock, req, minted, guesses, used, again, tangled>>

-----------------------------------------------------------------------------
(* Commits.                                                                *)

\* The UPDATE of a flush: the columns that differ from what was loaded.
Merged(seen, new) ==
    [c \in Column |-> IF new[c] # seen[c] THEN new[c] ELSE user[c]]

Unused == {s \in Sids : sess[s].state = "none"}

SessionsAfter(q) ==
    CASE q.open # "no" /\ Unused # {} ->
           [sess EXCEPT ![CHOOSE s \in Unused : TRUE] =
                [state |-> "live", verified |-> q.open = "verified"]]
      [] q.kind = "enable" /\ q.sid # None -> [sess EXCEPT ![q.sid].verified = TRUE]
      [] q.kind = "revokes" ->
           [s \in Sids |-> IF s \in q.found THEN [sess[s] EXCEPT !.state = "revoked"] ELSE sess[s]]
      [] OTHER -> sess

\* The columns that make a one-time code count as used.
Marks(u) == <<u.lastStep, u.recovery>>

Commit(r) ==
    LET q == req[r]
        row == Merged(q.seen, q.new)
    IN  /\ q # Idle
        /\ q.open = "no" \/ Unused # {}
        /\ user' = row
        /\ sess' = SessionsAfter(q)
        /\ req' = [x \in Requests |->
                      IF x = r \/ req[x] = Idle THEN Idle
                      ELSE [req[x] EXCEPT !.stale = @ \/ Marks(row) # Marks(user)]]
        /\ guesses' = IF \/ row.locked > clock /\ row.locked # user.locked
                         \/ row.fails = 0 /\ user.fails # 0
                      THEN 0
                      ELSE IF q.kind = "guess" THEN guesses + 1 ELSE guesses
        /\ used' = IF q.code = None THEN used ELSE used \cup {q.code}
        /\ again' = (again \/ q.code \in used)
        /\ tangled' = (tangled \/ (q.stale /\ Marks(q.new) # Marks(q.seen)))
        /\ UNCHANGED <<requireMfa, challenge, clock, started, minted>>

\* An exception or a crash: rolled back.
Fail(r) ==
    /\ req[r] # Idle
    /\ req' = [req EXCEPT ![r] = Idle]
    /\ UNCHANGED <<user, requireMfa, sess, challenge, clock, started, minted, guesses, used,
                   again, tangled>>

Tick ==
    /\ clock < MaxTime
    /\ clock' = clock + 1
    /\ UNCHANGED <<user, requireMfa, sess, challenge, req, started, minted, guesses, used,
                   again, tangled>>

Next ==
    \/ Tick \/ Challenged \/ SetPolicy
    \/ \E r \in Requests :
          \/ WrongPassword(r) \/ SignIn(r) \/ SecondStep(r)
          \/ Setup(r) \/ Enable(r) \/ Disable(r) \/ Regenerate(r)
          \/ \E b \in BOOLEAN : SetActive(r, b)
          \/ ResetMfa(r) \/ Commit(r) \/ Fail(r)

Spec == Init /\ [][Next]_vars

-----------------------------------------------------------------------------
(* What must hold.                                                         *)

\* The switch, the secret and the enrolment are separate columns that
\* enrolment, disabling, an administrator's reset and sign-ins write in any
\* order: an account that asks for a second factor always has the secret to
\* check it with, and one that does not has none (mfa_enable, mfa_disable and
\* reset_user_mfa, routers/auth.py and routers/rbac.py).
FactorWhole == user.enabled <=> user.secret # 0

\* Attempts that overlap lose increments of the counter, because it is read,
\* incremented and written back (_register_failure); but each still writes
\* more than it read, so that with two at a time at most
\* MaxFailures + (MaxFailures - 1) + ... + 1 wrong answers precede a lock.
GuessesBounded ==
    MaxFailures > 1 /\ Cardinality(Requests) <= 2 =>
        2 * guesses <= MaxFailures * (MaxFailures + 1)

\* SECURITY.md: "a time step, once used, is never accepted again", and recovery
\* codes are "single-use".  A code is accepted a second time only after two
\* requests that move the marks of used codes (mfa_last_step and the recovery
\* hashes) have overlapped; re-enrolment, disabling, an administrator's reset
\* and new recovery codes in any other order never bring one back.
OneTimeCodes == again => tangled
=============================================================================
