--------------------------- MODULE AccountsProofs ---------------------------
(***************************************************************************)
(* Proofs about Accounts: the flag and the secret of the second factor     *)
(* stay together (FactorHolds), wrong answers are counted up to a lock     *)
(* (GuessesCounted), and a one-time code is accepted a second time only    *)
(* after requests that use codes have overlapped (CodesOnce).              *)
(*                                                                         *)
(* A step either decides (a handler up to its commit: Begins), commits,    *)
(* or touches neither the row nor any request but an abandoned one.        *)
(***************************************************************************)
EXTENDS Accounts, TLAPS, FiniteSetTheorems

-----------------------------------------------------------------------------
(* Types.                                                                  *)

LEMMA Constants ==
    /\ MaxFailures \in Nat /\ MaxFailures > 0 /\ ChallengeTtl \in Nat /\ CodesPerSet \in Nat
    /\ MaxTime \in Nat /\ MaxTime > 0 /\ MaxStarts \in Nat /\ LockFor \in Nat /\ Drift \in Nat
BY AccountAssumption DEF AccountAssumption

\* What a request holds between its decision and its commit.
Kinds == {"guess", "login", "setup", "enable", "disable", "regenerate", "admin", "revokes"}

Job(q) ==
    /\ DOMAIN q = {"kind", "seen", "new", "code", "open", "sid", "found", "stale"}
    /\ q.kind \in Kinds /\ q.seen \in User /\ q.new \in User /\ q.stale \in BOOLEAN
    /\ q.open \in {"no", "password", "verified"} /\ q.sid \in Sids \cup {None} /\ q.found \subseteq Sids

Busy == {r \in Requests : req[r] # Idle}

TypeInv ==
    /\ TypeOK /\ DOMAIN req = Requests /\ minted <= started
    /\ \A r \in Busy : Job(req[r])

\* What the handlers make of a row, by columns.
SameFactor(u, v) ==
    /\ u.enabled = v.enabled /\ u.secret = v.secret
    /\ u.lastStep = v.lastStep /\ u.recovery = v.recovery

LEMMA UserRow ==
    ASSUME NEW u \in User
    PROVE  /\ u.fails \in Nat /\ u.fails <= MaxFailures - 1 /\ u.enabled \in BOOLEAN
           /\ u.secret \in Generation /\ u.pending \in Generation
           /\ u.lastStep \in Nat /\ u.recovery \in SUBSET Recovery
<1>1. u.fails \in 0..(MaxFailures - 1) /\ u.lastStep \in 0..(MaxTime + Drift)  BY DEF User
<1>2. u.fails \in Nat /\ u.fails <= MaxFailures - 1 /\ u.lastStep \in Nat  BY <1>1, Constants
<1> QED  BY <1>2 DEF User

LEMMA ClearedRow ==
    ASSUME NEW u \in User
    PROVE  /\ Cleared(u) \in User /\ Cleared(u).fails = 0
           /\ SameFactor(Cleared(u), u) /\ Cleared(u).pending = u.pending
<1>1. 0 \in 0..(MaxFailures - 1) /\ 0 \in 0..(MaxTime + LockFor)  BY Constants
<1> QED  BY <1>1 DEF User, Cleared, SameFactor

LEMMA FailureRow ==
    ASSUME user \in User, clock \in 1..MaxTime
    PROVE  /\ Failure(user) \in User
           /\ \/ Failure(user).fails = user.fails + 1
              \/ Failure(user).fails = 0 /\ user.fails = MaxFailures - 1
           /\ SameFactor(Failure(user), user) /\ Failure(user).pending = user.pending
<1>1. 0 \in 0..(MaxFailures - 1) /\ clock + LockFor \in 0..(MaxTime + LockFor)  BY Constants
<1>2. user.fails \in Nat /\ user.fails <= MaxFailures - 1  BY UserRow
<1>3. CASE user.fails + 1 >= MaxFailures
  <2>1. user.fails = MaxFailures - 1  BY <1>2, <1>3, Constants
  <2> QED  BY <1>1, <1>3, <2>1 DEF User, Failure, SameFactor
<1>4. CASE ~(user.fails + 1 >= MaxFailures)
  <2>1. user.fails + 1 \in 0..(MaxFailures - 1)  BY <1>2, <1>4, Constants
  <2> QED  BY <1>4, <2>1 DEF User, Failure, SameFactor
<1> QED  BY <1>3, <1>4

LEMMA StepRange ==
    ASSUME NEW last \in Nat, NEW s \in Steps(last), clock \in 1..MaxTime
    PROVE  s \in 0..(MaxTime + Drift) /\ s \in Nat /\ s > last /\ s # 0
BY Constants DEF Steps

LEMMA FactorRow ==
    ASSUME NEW u \in User, NEW f \in Factors(u), clock \in 1..MaxTime
    PROVE  /\ f.row \in User /\ f.row.fails = u.fails
           /\ f.row.enabled = u.enabled /\ f.row.secret = u.secret /\ f.row.pending = u.pending
           /\ \/ /\ f.row.lastStep > u.lastStep /\ f.code = Totp(u.secret, f.row.lastStep)
                 /\ f.row.recovery = u.recovery
              \/ /\ f.row.lastStep = u.lastStep /\ f.code \in u.recovery
                 /\ f.row.recovery = u.recovery \ {f.code}
<1>0. u.lastStep \in Nat /\ u.recovery \in SUBSET Recovery  BY UserRow
<1>1. CASE \E s \in Steps(u.lastStep) : f = [row |-> [u EXCEPT !.lastStep = s], code |-> Totp(u.secret, s)]
  <2>1. PICK s \in Steps(u.lastStep) : f = [row |-> [u EXCEPT !.lastStep = s], code |-> Totp(u.secret, s)]
        BY <1>1
  <2>2. s \in 0..(MaxTime + Drift) /\ s > u.lastStep  BY <1>0, StepRange
  <2>3. f.row = [u EXCEPT !.lastStep = s] /\ f.code = Totp(u.secret, s)  BY <2>1
  <2> QED  BY <2>2, <2>3 DEF User
<1>2. CASE \E c \in u.recovery : f = [row |-> Consumed(u, c), code |-> c]
  <2>1. PICK c \in u.recovery : f = [row |-> Consumed(u, c), code |-> c]  BY <1>2
  <2>2. f.row = [u EXCEPT !.recovery = u.recovery \ {c}] /\ f.code = c  BY <2>1 DEF Consumed, User
  <2>3. u.recovery \ {c} \in SUBSET Recovery  BY <1>0
  <2> QED  BY <2>2, <2>3 DEF User
<1> QED  BY <1>1, <1>2 DEF Factors

LEMMA WithoutRow ==
    ASSUME NEW u \in User
    PROVE  LET v == WithoutFactor(u) IN
           /\ v \in User /\ v.fails = u.fails
           /\ ~v.enabled /\ v.secret = 0 /\ v.pending = 0 /\ v.recovery = {} /\ v.lastStep = 0
<1>1. 0 \in Generation /\ 0 \in 0..(MaxTime + Drift)  BY Constants DEF Generation
<1> QED  BY <1>1 DEF User, WithoutFactor

LEMMA FreshCodes ==
    ASSUME NEW g \in Generation
    PROVE  Fresh(g) \in SUBSET Recovery
BY DEF Fresh, Recovery

LEMMA EnrolledRow ==
    ASSUME NEW u \in User, NEW s \in 0..(MaxTime + Drift), NEW g \in Generation
    PROVE  LET v == Enrolled(u, s, g) IN
           /\ v \in User /\ v.fails = u.fails
           /\ v.enabled /\ v.secret = u.pending /\ v.pending = 0 /\ v.lastStep = s
           /\ v.recovery = Fresh(g)
<1>1. 0 \in Generation  BY Constants DEF Generation
<1> QED  BY <1>1, FreshCodes DEF User, Enrolled

-----------------------------------------------------------------------------
(* Decisions.                                                              *)

\* What a handler may decide: its kind, the row it leaves, the code it took.
Decision(kind, new, code) ==
    \/ kind = "guess" /\ new = Failure(user) /\ code = None
    \/ kind = "login" /\ new = Cleared(user) /\ code = None
    \/ /\ kind = "login" /\ user.enabled
       /\ \E f \in Factors(user) : new = Cleared(f.row) /\ code = f.code
    \/ /\ kind = "setup" /\ minted' = minted + 1
       /\ new = [user EXCEPT !.pending = minted + 1] /\ code = None
    \/ /\ kind = "enable" /\ ~user.enabled /\ user.pending # 0 /\ minted' = minted + 1
       /\ \E s \in Steps(0) :
             /\ new \in {Enrolled(user, s, minted + 1), Cleared(Enrolled(user, s, minted + 1))}
             /\ code = Totp(user.pending, s)
    \/ /\ kind = "disable" /\ user.enabled
       /\ \E f \in Factors(user) : new = WithoutFactor(f.row) /\ code = f.code
    \/ /\ kind = "regenerate" /\ user.enabled /\ minted' = minted + 1
       /\ \E s \in Steps(user.lastStep) :
             /\ new = [user EXCEPT !.lastStep = s, !.recovery = Fresh(minted + 1)]
             /\ code = Totp(user.secret, s)
    \/ kind = "admin" /\ new = [Cleared(user) EXCEPT !.active = TRUE] /\ code = None
    \/ kind = "revokes" /\ new = [user EXCEPT !.active = FALSE] /\ code = None
    \/ kind = "revokes" /\ new = WithoutFactor(user) /\ code = None

\* A step up to a commit: one idle slot takes the decision.
Begins(r, q) ==
    /\ req[r] = Idle /\ q # Idle /\ q.seen = user /\ q.stale = FALSE
    /\ DOMAIN q = {"kind", "seen", "new", "code", "open", "sid", "found", "stale"}
    /\ q.open \in {"no", "password", "verified"} /\ q.sid \in Sids \cup {None} /\ q.found \subseteq Sids
    /\ Decision(q.kind, q.new, q.code)
    /\ req' = [req EXCEPT ![r] = q]
    /\ started < MaxStarts /\ started' = started + 1 /\ minted' \in {minted, minted + 1}
    /\ UNCHANGED <<user, requireMfa, sess, challenge, clock, guesses, used, again, tangled>>

Handlers(r) ==
    \/ WrongPassword(r) \/ SignIn(r) \/ SecondStep(r)
    \/ Setup(r) \/ Enable(r) \/ Disable(r) \/ Regenerate(r)
    \/ \E b \in BOOLEAN : SetActive(r, b)
    \/ ResetMfa(r)

LEMMA DecideBegins ==
    ASSUME NEW r, NEW kind, NEW new, NEW code, NEW open \in {"no", "password", "verified"},
           NEW sid \in Sids \cup {None},
           Free(r), Decide(r, kind, new, code, open, sid), Decision(kind, new, code),
           UNCHANGED challenge, minted' \in {minted, minted + 1}
    PROVE  \E q : Begins(r, q)
<1> DEFINE q == [kind |-> kind, seen |-> user, new |-> new, code |-> code,
                 open |-> open, sid |-> sid, stale |-> FALSE,
                 found |-> IF kind = "revokes" THEN Live ELSE {}]
<1>1. kind # "idle"  BY DEF Decision
<1>2. q # Idle  BY <1>1 DEF Idle
<1>3. Begins(r, q)  BY <1>2 DEF Begins, Decide, Free, Live
<1> QED  BY <1>3

LEMMA HandlerBegins ==
    ASSUME NEW r \in Requests, Handlers(r)
    PROVE  \E q : Begins(r, q)
<1>1. CASE WrongPassword(r)
      BY <1>1, DecideBegins DEF WrongPassword, Fails, Decision
<1>2. CASE SignIn(r)
      BY <1>2, DecideBegins DEF SignIn, Decision
<1>3. CASE SecondStep(r)
  <2>1. CASE \E f \in Factors(user) : Decide(r, "login", Cleared(f.row), f.code, "verified", None)
        BY <1>3, <2>1, DecideBegins DEF SecondStep, Decision
  <2>2. CASE Fails(r, "guess")
        BY <1>3, <2>2, DecideBegins DEF SecondStep, Fails, Decision
  <2> QED  BY <1>3, <2>1, <2>2 DEF SecondStep
<1>4. CASE Setup(r)
      BY <1>4, DecideBegins DEF Setup, Decision
<1>5. CASE Enable(r)
  <2>1. PICK s \in Sids \cup {None} :
          /\ Free(r) /\ ~user.enabled /\ user.pending # 0 /\ UNCHANGED challenge
          /\ \/ \E step \in Steps(0) :
                   LET new == Enrolled(user, step, minted + 1)
                   IN  /\ minted' = minted + 1
                       /\ Decide(r, "enable", IF s = None THEN Cleared(new) ELSE new,
                                 Totp(user.pending, step), IF s = None THEN "verified" ELSE "no", s)
             \/ Fails(r, "guess") /\ UNCHANGED minted
        BY <1>5 DEF Enable
  <2>2. CASE Fails(r, "guess") /\ UNCHANGED minted
        BY <2>1, <2>2, DecideBegins DEF Fails, Decision
  <2>3. CASE \E step \in Steps(0) :
                   LET new == Enrolled(user, step, minted + 1)
                   IN  /\ minted' = minted + 1
                       /\ Decide(r, "enable", IF s = None THEN Cleared(new) ELSE new,
                                 Totp(user.pending, step), IF s = None THEN "verified" ELSE "no", s)
    <3>1. PICK step \in Steps(0) :
                   LET new == Enrolled(user, step, minted + 1)
                   IN  /\ minted' = minted + 1
                       /\ Decide(r, "enable", IF s = None THEN Cleared(new) ELSE new,
                                 Totp(user.pending, step), IF s = None THEN "verified" ELSE "no", s)
          BY <2>3
    <3> DEFINE new == IF s = None THEN Cleared(Enrolled(user, step, minted + 1))
                      ELSE Enrolled(user, step, minted + 1)
               open == IF s = None THEN "verified" ELSE "no"
    <3>2. Decision("enable", new, Totp(user.pending, step))  BY <2>1, <3>1 DEF Decision
    <3>3. open \in {"no", "password", "verified"}  OBVIOUS
    <3>4. Decide(r, "enable", new, Totp(user.pending, step), open, s) /\ minted' = minted + 1
          BY <3>1
    <3> HIDE DEF new, open
    <3> QED  BY <2>1, <3>2, <3>3, <3>4, DecideBegins
  <2> QED  BY <2>1, <2>2, <2>3
<1>6. CASE Disable(r)
  <2>1. CASE \E f \in Factors(user) : Decide(r, "disable", WithoutFactor(f.row), f.code, "no", None)
        BY <1>6, <2>1, DecideBegins DEF Disable, Decision
  <2>2. CASE Fails(r, "guess")
        BY <1>6, <2>2, DecideBegins DEF Disable, Fails, Decision
  <2> QED  BY <1>6, <2>1, <2>2 DEF Disable
<1>7. CASE Regenerate(r)
  <2>1. CASE Fails(r, "guess") /\ UNCHANGED minted
        BY <1>7, <2>1, DecideBegins DEF Regenerate, Fails, Decision
  <2>2. CASE /\ user.enabled /\ minted' = minted + 1
             /\ \E step \in Steps(user.lastStep) :
                    Decide(r, "regenerate",
                           [user EXCEPT !.lastStep = step, !.recovery = Fresh(minted + 1)],
                           Totp(user.secret, step), "no", None)
        BY <1>7, <2>2, DecideBegins DEF Regenerate, Decision
  <2> QED  BY <1>7, <2>1, <2>2 DEF Regenerate
<1>8. CASE \E b \in BOOLEAN : SetActive(r, b)
  <2>1. PICK b \in BOOLEAN : SetActive(r, b)  BY <1>8
  <2>2. CASE b  BY <2>1, <2>2, DecideBegins DEF SetActive, Decision
  <2>3. CASE ~b  BY <2>1, <2>3, DecideBegins DEF SetActive, Decision
  <2> QED  BY <2>2, <2>3
<1>9. CASE ResetMfa(r)
      BY <1>9, DecideBegins DEF ResetMfa, Decision
<1> QED  BY <1>1, <1>2, <1>3, <1>4, <1>5, <1>6, <1>7, <1>8, <1>9 DEF Handlers

LEMMA DecisionRow ==
    ASSUME user \in User, clock \in 1..MaxTime, minted + 1 \in Generation,
           NEW kind, NEW new, NEW code, Decision(kind, new, code)
    PROVE  kind \in Kinds /\ new \in User
<1>1. kind \in Kinds  BY DEF Decision, Kinds
<1> SUFFICES new \in User  BY <1>1
<1>2. CASE new = Failure(user) \/ new = Cleared(user) \/ new = WithoutFactor(user)
      BY <1>2, FailureRow, ClearedRow, WithoutRow
<1>3. CASE \E f \in Factors(user) : new = Cleared(f.row) \/ new = WithoutFactor(f.row)
      BY <1>3, FactorRow, ClearedRow, WithoutRow
<1>4. CASE new = [user EXCEPT !.pending = minted + 1]
      BY <1>4 DEF User
<1>5. CASE \E s \in Steps(0) :
             new \in {Enrolled(user, s, minted + 1), Cleared(Enrolled(user, s, minted + 1))}
  <2>1. PICK s \in Steps(0) :
             new \in {Enrolled(user, s, minted + 1), Cleared(Enrolled(user, s, minted + 1))}
        BY <1>5
  <2>2. s \in 0..(MaxTime + Drift)  BY StepRange
  <2> QED  BY <2>1, <2>2, EnrolledRow, ClearedRow
<1>6. CASE \E s \in Steps(user.lastStep) :
             new = [user EXCEPT !.lastStep = s, !.recovery = Fresh(minted + 1)]
  <2>1. PICK s \in Steps(user.lastStep) :
             new = [user EXCEPT !.lastStep = s, !.recovery = Fresh(minted + 1)]
        BY <1>6
  <2>2. s \in 0..(MaxTime + Drift)  BY StepRange, UserRow
  <2> QED  BY <2>1, <2>2, FreshCodes DEF User
<1>7. CASE new = [Cleared(user) EXCEPT !.active = TRUE] \/ new = [user EXCEPT !.active = FALSE]
  <2>1. Cleared(user) \in User  BY ClearedRow
  <2> QED  BY <1>7, <2>1 DEF User
<1> QED  BY <1>1, <1>2, <1>3, <1>4, <1>5, <1>6, <1>7 DEF Decision

LEMMA MergedRow ==
    ASSUME user \in User, NEW s \in User, NEW n \in User
    PROVE  Merged(s, n) \in User
BY DEF User, Merged, Column

\* The steps other than a commit and a handler's decision.
Idles ==
    /\ \/ req' = req
       \/ \E r \in Requests : req' = [req EXCEPT ![r] = Idle]
    /\ minted' = minted /\ clock' \in {clock, clock + 1}
    /\ UNCHANGED <<user, guesses, used, again, tangled>>

LEMMA StepForms ==
    ASSUME [Next]_vars
    PROVE  \/ \E r \in Requests : \E q : Begins(r, q)
           \/ \E r \in Requests : Commit(r)
           \/ Idles
<1>1. CASE Tick  BY <1>1 DEF Tick, Idles
<1>2. CASE Challenged  BY <1>2 DEF Challenged, Idles
<1>3. CASE SetPolicy  BY <1>3 DEF SetPolicy, Idles
<1>4. CASE \E r \in Requests : Handlers(r)  BY <1>4, HandlerBegins
<1>5. CASE \E r \in Requests : Commit(r)  BY <1>5
<1>6. CASE \E r \in Requests : Fail(r)  BY <1>6 DEF Fail, Idles
<1>7. CASE UNCHANGED vars  BY <1>7 DEF vars, Idles
<1> QED  BY <1>1, <1>2, <1>3, <1>4, <1>5, <1>6, <1>7 DEF Next, Handlers

LEMMA SessionsTyped ==
    ASSUME sess \in [Sids -> Session], NEW q, q.sid \in Sids \cup {None},
           q.open \in {"no", "password", "verified"}
    PROVE  SessionsAfter(q) \in [Sids -> Session]
<1>1. ASSUME NEW s \in Sids
      PROVE  /\ [state |-> "live", verified |-> q.open = "verified"] \in Session
             /\ [sess[s] EXCEPT !.verified = TRUE] \in Session
             /\ [sess[s] EXCEPT !.state = "revoked"] \in Session
  <2>1. sess[s] \in Session  OBVIOUS
  <2> QED  BY <2>1 DEF Session
<1>2. CASE q.open # "no" /\ Unused # {}
  <2>1. (CHOOSE s \in Unused : TRUE) \in Sids  BY <1>2 DEF Unused
  <2> QED  BY <1>1, <1>2, <2>1 DEF SessionsAfter
<1>3. CASE ~(q.open # "no" /\ Unused # {}) /\ q.kind = "enable" /\ q.sid # None
      BY <1>1, <1>3 DEF SessionsAfter
<1>4. CASE ~(q.open # "no" /\ Unused # {}) /\ ~(q.kind = "enable" /\ q.sid # None) /\ q.kind = "revokes"
      BY <1>1, <1>4 DEF SessionsAfter
<1>5. CASE ~(q.open # "no" /\ Unused # {}) /\ ~(q.kind = "enable" /\ q.sid # None) /\ q.kind # "revokes"
      BY <1>5 DEF SessionsAfter
<1> QED  BY <1>2, <1>3, <1>4, <1>5

\* What the type invariant says of requests.
Slots == \A r \in Requests : req[r] = Idle \/ Job(req[r])

Typed ==
    /\ user \in User /\ requireMfa \in BOOLEAN /\ sess \in [Sids -> Session]
    /\ challenge \in [{"mfa", "mfa_enroll"} -> 0..(MaxTime + ChallengeTtl)]
    /\ clock \in 1..MaxTime /\ started \in 0..MaxStarts /\ minted \in Generation
    /\ guesses \in Nat /\ again \in BOOLEAN /\ tangled \in BOOLEAN
    /\ DOMAIN req = Requests /\ minted <= started /\ Slots

LEMMA TypeParts == (TypeInv <=> Typed) /\ (TypeInv' <=> Typed')
BY DEF TypeInv, TypeOK, Typed, Slots, Busy, Job

\* A request that another's commit leaves alone but for its mark.
LEMMA CommitOthers ==
    ASSUME TypeInv, NEW r \in Requests, Commit(r), NEW x \in Requests
    PROVE  /\ req[x] = Idle => req'[x] = Idle
           /\ x = r => req'[x] = Idle
           /\ x # r /\ req[x] # Idle =>
                /\ req'[x] # Idle /\ Job(req[x]) /\ Job(req'[x])
                /\ req'[x].kind = req[x].kind /\ req'[x].seen = req[x].seen
                /\ req'[x].new = req[x].new /\ req'[x].code = req[x].code
                /\ req'[x].stale = (req[x].stale \/ Marks(user') # Marks(user))
<1>1. req'[x] = IF x = r \/ req[x] = Idle THEN Idle
                ELSE [req[x] EXCEPT !.stale = @ \/ Marks(user') # Marks(user)]
      BY DEF Commit
<1>2. CASE x # r /\ req[x] # Idle
  <2>1. Job(req[x])  BY <1>2 DEF TypeInv, Busy
  <2>2. req'[x] = [req[x] EXCEPT !.stale = @ \/ Marks(user') # Marks(user)]  BY <1>1, <1>2
  <2>3. (req[x].stale \/ Marks(user') # Marks(user)) \in BOOLEAN  BY <2>1 DEF Job
  <2>4. /\ DOMAIN req'[x] = DOMAIN req[x] /\ req'[x].kind = req[x].kind
        /\ req'[x].seen = req[x].seen /\ req'[x].new = req[x].new /\ req'[x].code = req[x].code
        /\ req'[x].open = req[x].open /\ req'[x].sid = req[x].sid /\ req'[x].found = req[x].found
        /\ req'[x].stale = (req[x].stale \/ Marks(user') # Marks(user))
        BY <2>1, <2>2 DEF Job
  <2>5. Job(req'[x])  BY <2>1, <2>3, <2>4 DEF Job
  <2>6. req'[x].kind # "idle"  BY <2>5 DEF Job, Kinds
  <2>7. req'[x] # Idle  BY <2>6 DEF Idle
  <2> QED  BY <1>2, <2>1, <2>4, <2>5, <2>7
<1>3. CASE x = r \/ req[x] = Idle  BY <1>1, <1>3
<1> QED  BY <1>2, <1>3

LEMMA JobBegun ==
    ASSUME TypeInv, NEW r \in Requests, NEW q, Begins(r, q)
    PROVE  Job(q) /\ minted + 1 \in Generation
<1>1. minted + 1 \in Generation
      BY Constants DEF TypeInv, TypeOK, Begins, Generation
<1>2. q.kind \in Kinds /\ q.new \in User
      BY <1>1, DecisionRow DEF TypeInv, TypeOK, Begins
<1> QED  BY <1>1, <1>2 DEF Begins, Job, TypeInv, TypeOK

LEMMA TypeInit == Init => TypeInv
<1> SUFFICES ASSUME Init PROVE Typed  BY TypeParts
<1>1. user \in User
  <2>1. 0 \in 0..(MaxFailures - 1) /\ 0 \in 0..(MaxTime + LockFor) /\ 0 \in 0..(MaxTime + Drift)
        /\ 0 \in Generation
        BY Constants DEF Generation
  <2> QED  BY <2>1 DEF Init, User
<1>2. Slots /\ DOMAIN req = Requests  BY DEF Init, Slots
<1>3. /\ clock \in 1..MaxTime /\ started \in 0..MaxStarts /\ minted \in Generation /\ minted <= started
      /\ challenge \in [{"mfa", "mfa_enroll"} -> 0..(MaxTime + ChallengeTtl)]
      BY Constants DEF Init, Generation
<1>4. sess \in [Sids -> Session]  BY DEF Init, Session, NoSession
<1> QED  BY <1>1, <1>2, <1>3, <1>4 DEF Init, Typed

LEMMA TypeStep == TypeInv /\ [Next]_vars => TypeInv'
<1> SUFFICES ASSUME TypeInv, [Next]_vars PROVE Typed'  BY TypeParts
<1>1. Typed  BY TypeParts
<1>2. ASSUME NEW r \in Requests, NEW q, Begins(r, q) PROVE Typed'
  <2>1. Job(q) /\ minted + 1 \in Generation  BY <1>2, JobBegun
  <2>2. DOMAIN req' = Requests /\ Slots'  BY <1>1, <1>2, <2>1 DEF Begins, Typed, Slots
  <2>3. started' \in 0..MaxStarts /\ minted' \in Generation /\ minted' <= started'
        BY <1>1, <1>2, <2>1, Constants DEF Begins, Typed, Generation
  <2> QED  BY <1>1, <1>2, <2>2, <2>3 DEF Begins, Typed
<1>3. ASSUME NEW r \in Requests, Commit(r) PROVE Typed'
  <2>1. Job(req[r])  BY <1>1, <1>3 DEF Commit, Typed, Slots
  <2>2. user' \in User  BY <1>1, <1>3, <2>1, MergedRow DEF Commit, Job, Typed
  <2>3. sess' \in [Sids -> Session]  BY <1>1, <1>3, <2>1, SessionsTyped DEF Commit, Job, Typed
  <2>4. Slots'  BY <1>3, CommitOthers DEF Slots
  <2>5. DOMAIN req' = Requests  BY <1>3 DEF Commit
  <2>6. guesses' \in Nat /\ again' \in BOOLEAN /\ tangled' \in BOOLEAN
        BY <1>1, <1>3 DEF Commit, Typed
  <2> QED  BY <1>1, <1>3, <2>2, <2>3, <2>4, <2>5, <2>6 DEF Commit, Typed
<1>4. CASE Tick
      BY <1>1, <1>4, Constants DEF Tick, Typed, Slots, Job
<1>5. CASE Challenged
  <2>1. challenge' \in [{"mfa", "mfa_enroll"} -> 0..(MaxTime + ChallengeTtl)]
        BY <1>1, <1>5, Constants DEF Challenged, Typed
  <2> QED  BY <1>1, <1>5, <2>1 DEF Challenged, Typed, Slots, Job
<1>6. CASE SetPolicy
  <2>1. requireMfa' \in BOOLEAN  BY <1>6 DEF SetPolicy
  <2>2. started' \in 0..MaxStarts /\ minted' <= started'
        BY <1>1, <1>6, Constants DEF SetPolicy, Typed, Generation
  <2> QED  BY <1>1, <1>6, <2>1, <2>2 DEF SetPolicy, Typed, Slots
<1>7. ASSUME NEW r \in Requests, Fail(r) PROVE Typed'
  <2>1. DOMAIN req' = Requests /\ Slots'  BY <1>1, <1>7 DEF Fail, Typed, Slots
  <2> QED  BY <1>1, <1>7, <2>1 DEF Fail, Typed
<1>8. CASE UNCHANGED vars
      BY <1>1, <1>8 DEF vars, Typed, Slots, Job
<1>9. CASE \E r \in Requests : Handlers(r)  BY <1>2, <1>9, HandlerBegins
<1> QED  BY <1>3, <1>4, <1>5, <1>6, <1>7, <1>8, <1>9 DEF Next, Handlers

\* Every variable keeps its type (TypeOK), and at most one number is made per
\* request started.
THEOREM TypeCorrect == Spec => []TypeOK
<1>1. TypeInv => TypeOK  BY DEF TypeInv
<1> QED  BY <1>1, TypeInit, TypeStep, PTL DEF Spec

-----------------------------------------------------------------------------
(* What becomes of a factor, by what a request does.                       *)

Totps(u) == {Totp(u.secret, s) : s \in {n \in Nat : n > u.lastStep}}

\* A code that a factor of u may be proved with.
Valid(u, c) == c \in Totps(u) \cup u.recovery

Plain(q) == SameFactor(q.new, q.seen) /\ q.new.pending = q.seen.pending /\ q.code = None

Sets(q) == SameFactor(q.new, q.seen) /\ q.new.pending # 0 /\ q.code = None

Spends(q) ==
    /\ q.seen.enabled /\ q.new.enabled
    /\ q.new.secret = q.seen.secret /\ q.new.pending = q.seen.pending
    /\ \/ /\ q.new.lastStep > q.seen.lastStep /\ q.code = Totp(q.seen.secret, q.new.lastStep)
          /\ q.new.recovery = q.seen.recovery \/ \E g \in Nat : q.new.recovery = Fresh(g)
       \/ /\ q.new.lastStep = q.seen.lastStep /\ q.code \in q.seen.recovery
          /\ q.new.recovery = q.seen.recovery \ {q.code}

Enrols(q) ==
    /\ ~q.seen.enabled /\ q.seen.pending # 0
    /\ q.new.enabled /\ q.new.secret = q.seen.pending /\ q.new.pending = 0
    /\ q.new.lastStep # 0 /\ q.code = Totp(q.seen.pending, q.new.lastStep)
    /\ \E g \in Nat : q.new.recovery = Fresh(g)

Drops(q) ==
    /\ ~q.new.enabled /\ q.new.secret = 0 /\ q.new.pending = 0
    /\ q.new.lastStep = 0 /\ q.new.recovery = {}
    /\ q.code = None \/ (q.seen.enabled /\ Valid(q.seen, q.code))

Effect(q) ==
    /\ q.kind = "setup" => Sets(q)
    /\ q.kind # "setup" => Plain(q) \/ Spends(q) \/ Enrols(q) \/ Drops(q)

Climbs(q) == q.kind = "guess" /\ q.new.fails = q.seen.fails + 1
Locks(q) == q.kind = "guess" /\ q.new.fails = 0 /\ q.seen.fails = MaxFailures - 1

CountJob(q) ==
    \/ Climbs(q) \/ Locks(q)
    \/ q.kind # "guess" /\ q.new.fails \in {0, q.seen.fails}

\* The set of codes that q brings, if any.
Brings(q) == q.new.recovery \ q.seen.recovery

\* Secrets and sets of codes are numbered as they are made.
MakesNew(q) ==
    /\ q.kind = "setup" => q.new.pending = minted + 1 /\ minted' = minted + 1
    /\ Brings(q) # {} => q.new.recovery = Fresh(minted + 1) /\ minted' = minted + 1

LEMMA FactorEffect ==
    ASSUME clock \in 1..MaxTime, NEW u \in User, NEW f \in Factors(u)
    PROVE  Valid(u, f.code)
<1>1. f.row \in User /\ u.lastStep \in Nat  BY FactorRow, UserRow
<1>2. f.row.lastStep \in Nat  BY <1>1, UserRow
<1>3. (f.row.lastStep > u.lastStep /\ f.code = Totp(u.secret, f.row.lastStep)) \/ f.code \in u.recovery
      BY FactorRow
<1> QED  BY <1>1, <1>2, <1>3 DEF Valid, Totps

LEMMA BegunEffect ==
    ASSUME TypeInv, NEW r \in Requests, NEW q, Begins(r, q)
    PROVE  Effect(q) /\ CountJob(q) /\ MakesNew(q)
<1>1. /\ user \in User /\ clock \in 1..MaxTime /\ minted + 1 \in Generation /\ minted \in Nat
      /\ q.seen = user /\ Decision(q.kind, q.new, q.code)
  <2>1. user \in User /\ clock \in 1..MaxTime /\ minted \in Generation
        BY DEF TypeInv, TypeOK
  <2>2. minted \in Nat  BY <2>1, Constants DEF Generation
  <2> QED  BY <2>1, <2>2, JobBegun DEF Begins
<1>2. CASE q.kind = "guess" /\ q.new = Failure(user) /\ q.code = None
  <2>1. /\ q.new.fails = user.fails + 1 \/ (q.new.fails = 0 /\ user.fails = MaxFailures - 1)
        /\ SameFactor(q.new, q.seen) /\ q.new.pending = q.seen.pending
        BY <1>1, <1>2, FailureRow
  <2>2. Brings(q) = {}  BY <2>1 DEF Brings, SameFactor
  <2> QED  BY <1>1, <1>2, <2>1, <2>2 DEF Effect, Plain, CountJob, Climbs, Locks, MakesNew
<1>3. CASE q.kind = "login" /\ q.new = Cleared(user) /\ q.code = None
  <2>1. q.new.fails = 0 /\ SameFactor(q.new, q.seen) /\ q.new.pending = q.seen.pending
        BY <1>1, <1>3, ClearedRow
  <2>2. Brings(q) = {}  BY <2>1 DEF Brings, SameFactor
  <2> QED  BY <1>3, <2>1, <2>2 DEF Effect, Plain, CountJob, MakesNew
<1>4. CASE /\ q.kind = "login" /\ user.enabled
           /\ \E f \in Factors(user) : q.new = Cleared(f.row) /\ q.code = f.code
  <2>1. PICK f \in Factors(user) : q.new = Cleared(f.row) /\ q.code = f.code  BY <1>4
  <2>2. /\ f.row \in User /\ f.row.enabled = user.enabled /\ f.row.secret = user.secret
        /\ f.row.pending = user.pending
        /\ \/ /\ f.row.lastStep > user.lastStep /\ f.code = Totp(user.secret, f.row.lastStep)
              /\ f.row.recovery = user.recovery
           \/ /\ f.row.lastStep = user.lastStep /\ f.code \in user.recovery
              /\ f.row.recovery = user.recovery \ {f.code}
        BY <1>1, FactorRow
  <2>3. q.new.fails = 0 /\ SameFactor(q.new, f.row) /\ q.new.pending = f.row.pending
        BY <2>1, <2>2, ClearedRow
  <2>4. Spends(q)  BY <1>1, <1>4, <2>1, <2>2, <2>3 DEF Spends, SameFactor
  <2>5. Brings(q) = {}  BY <1>1, <2>2, <2>3 DEF Brings, SameFactor
  <2> QED  BY <1>4, <2>3, <2>4, <2>5 DEF Effect, CountJob, MakesNew
<1>5. CASE /\ q.kind = "setup" /\ minted' = minted + 1
           /\ q.new = [user EXCEPT !.pending = minted + 1] /\ q.code = None
  <2>1. /\ q.new.fails = q.seen.fails /\ SameFactor(q.new, q.seen)
        /\ q.new.pending = minted + 1
        BY <1>1, <1>5 DEF User, SameFactor
  <2>2. q.new.pending # 0  BY <1>1, <2>1
  <2>3. Brings(q) = {}  BY <2>1 DEF Brings, SameFactor
  <2> QED  BY <1>5, <2>1, <2>2, <2>3 DEF Effect, Sets, CountJob, MakesNew
<1>6. CASE /\ q.kind = "enable" /\ ~user.enabled /\ user.pending # 0 /\ minted' = minted + 1
           /\ \E s \in Steps(0) :
                 /\ q.new \in {Enrolled(user, s, minted + 1), Cleared(Enrolled(user, s, minted + 1))}
                 /\ q.code = Totp(user.pending, s)
  <2>1. PICK s \in Steps(0) :
                 /\ q.new \in {Enrolled(user, s, minted + 1), Cleared(Enrolled(user, s, minted + 1))}
                 /\ q.code = Totp(user.pending, s)
        BY <1>6
  <2> DEFINE v == Enrolled(user, s, minted + 1)
  <2>2. s \in 0..(MaxTime + Drift) /\ s # 0  BY <1>1, StepRange
  <2>3. /\ v \in User /\ v.fails = user.fails /\ v.enabled /\ v.secret = user.pending
        /\ v.pending = 0 /\ v.lastStep = s /\ v.recovery = Fresh(minted + 1)
        BY <1>1, <2>2, EnrolledRow
  <2> HIDE DEF v
  <2>4. /\ q.new.fails \in {0, user.fails} /\ q.new.enabled /\ q.new.secret = user.pending
        /\ q.new.pending = 0 /\ q.new.lastStep = s /\ q.new.recovery = Fresh(minted + 1)
    <3>1. CASE q.new = v  BY <2>3, <3>1
    <3>2. CASE q.new = Cleared(v)  BY <2>3, <3>2, ClearedRow DEF SameFactor
    <3> QED  BY <2>1, <3>1, <3>2 DEF v
  <2>5. minted + 1 \in Nat  BY <1>1
  <2>6. Enrols(q)  BY <1>1, <1>6, <2>1, <2>2, <2>4, <2>5 DEF Enrols
  <2> QED  BY <1>1, <1>6, <2>4, <2>6 DEF Effect, CountJob, MakesNew
<1>7. CASE /\ q.kind = "disable" /\ user.enabled
           /\ \E f \in Factors(user) : q.new = WithoutFactor(f.row) /\ q.code = f.code
  <2>1. PICK f \in Factors(user) : q.new = WithoutFactor(f.row) /\ q.code = f.code  BY <1>7
  <2>2. f.row \in User /\ f.row.fails = user.fails  BY <1>1, FactorRow
  <2>3. Valid(user, f.code)  BY <1>1, FactorEffect
  <2>4. /\ q.new.fails = user.fails /\ ~q.new.enabled /\ q.new.secret = 0 /\ q.new.pending = 0
        /\ q.new.recovery = {} /\ q.new.lastStep = 0
        BY <2>1, <2>2, WithoutRow
  <2>5. Drops(q) /\ Brings(q) = {}  BY <1>1, <1>7, <2>1, <2>3, <2>4 DEF Drops, Brings
  <2> QED  BY <1>1, <1>7, <2>4, <2>5 DEF Effect, CountJob, MakesNew
<1>8. CASE /\ q.kind = "regenerate" /\ user.enabled /\ minted' = minted + 1
           /\ \E s \in Steps(user.lastStep) :
                 /\ q.new = [user EXCEPT !.lastStep = s, !.recovery = Fresh(minted + 1)]
                 /\ q.code = Totp(user.secret, s)
  <2>1. PICK s \in Steps(user.lastStep) :
                 /\ q.new = [user EXCEPT !.lastStep = s, !.recovery = Fresh(minted + 1)]
                 /\ q.code = Totp(user.secret, s)
        BY <1>8
  <2>2. s > user.lastStep /\ minted + 1 \in Nat  BY <1>1, StepRange, UserRow
  <2>3. /\ q.new.fails = user.fails /\ q.new.enabled = user.enabled /\ q.new.secret = user.secret
        /\ q.new.pending = user.pending /\ q.new.lastStep = s
        /\ q.new.recovery = Fresh(minted + 1)
        BY <1>1, <2>1 DEF User
  <2>4. Spends(q)  BY <1>1, <1>8, <2>1, <2>2, <2>3 DEF Spends
  <2> QED  BY <1>1, <1>8, <2>3, <2>4 DEF Effect, CountJob, MakesNew
<1>9. CASE /\ q.kind \in {"admin", "revokes"} /\ q.code = None
           /\ \/ q.new = [Cleared(user) EXCEPT !.active = TRUE]
              \/ q.new = [user EXCEPT !.active = FALSE]
  <2>1. /\ Cleared(user) \in User /\ Cleared(user).fails = 0
        /\ SameFactor(Cleared(user), user) /\ Cleared(user).pending = user.pending
        BY <1>1, ClearedRow
  <2>2. /\ q.new.fails \in {0, user.fails} /\ SameFactor(q.new, user)
        /\ q.new.pending = user.pending
    <3>1. CASE q.new = [user EXCEPT !.active = FALSE]  BY <1>1, <3>1 DEF User, SameFactor
    <3>2. CASE q.new = [Cleared(user) EXCEPT !.active = TRUE]
          BY <2>1, <3>2 DEF User, SameFactor
    <3> QED  BY <1>9, <3>1, <3>2
  <2>3. Brings(q) = {}  BY <1>1, <2>2 DEF Brings, SameFactor
  <2> QED  BY <1>1, <1>9, <2>2, <2>3 DEF Effect, Plain, CountJob, MakesNew
<1>10. CASE q.kind = "revokes" /\ q.new = WithoutFactor(user) /\ q.code = None
  <2>1. /\ q.new.fails = user.fails /\ ~q.new.enabled /\ q.new.secret = 0 /\ q.new.pending = 0
        /\ q.new.recovery = {} /\ q.new.lastStep = 0
        BY <1>1, <1>10, WithoutRow
  <2>2. Drops(q) /\ Brings(q) = {}  BY <1>10, <2>1 DEF Drops, Brings
  <2> QED  BY <1>1, <1>10, <2>1, <2>2 DEF Effect, CountJob, MakesNew
<1> QED  BY <1>1, <1>2, <1>3, <1>4, <1>5, <1>6, <1>7, <1>8, <1>9, <1>10 DEF Decision

-----------------------------------------------------------------------------
(* The factor.                                                             *)

Whole(u) == u.enabled <=> u.secret # 0

\* A decision turns the flag and the secret together or neither.
WholeJob(q) ==
    /\ Whole(q.seen) /\ Whole(q.new)
    /\ q.new.enabled = q.seen.enabled => q.new.secret = q.seen.secret

FactorInv == Whole(user) /\ \A r \in Busy : WholeJob(req[r])

LEMMA EffectWhole ==
    ASSUME NEW q, Job(q), Effect(q), Whole(q.seen)
    PROVE  WholeJob(q)
<1>1. q.seen.enabled \in BOOLEAN /\ q.new.enabled \in BOOLEAN  BY UserRow DEF Job
<1> QED  BY <1>1 DEF Effect, Whole, WholeJob, Plain, Sets, Spends, Enrols, Drops, SameFactor

\* What a commit leaves of each column.
LEMMA CommitColumns ==
    ASSUME TypeInv, NEW r \in Requests, Commit(r)
    PROVE  LET q == req[r] IN
           /\ Job(q) /\ user' = Merged(q.seen, q.new) /\ r \in Busy
           /\ user'.fails = IF q.new.fails # q.seen.fails THEN q.new.fails ELSE user.fails
           /\ user'.enabled = IF q.new.enabled # q.seen.enabled THEN q.new.enabled ELSE user.enabled
           /\ user'.secret = IF q.new.secret # q.seen.secret THEN q.new.secret ELSE user.secret
           /\ user'.pending = IF q.new.pending # q.seen.pending THEN q.new.pending ELSE user.pending
           /\ user'.recovery = IF q.new.recovery # q.seen.recovery THEN q.new.recovery ELSE user.recovery
           /\ user'.lastStep = IF q.new.lastStep # q.seen.lastStep THEN q.new.lastStep ELSE user.lastStep
<1>1. Job(req[r]) /\ r \in Busy  BY DEF Commit, TypeInv, Busy
<1>2. user' = Merged(req[r].seen, req[r].new)  BY DEF Commit
<1> QED  BY <1>1, <1>2 DEF Merged, Column

\* Who is busy after a step.
LEMMA BusyBegun ==
    ASSUME TypeInv, NEW r \in Requests, NEW q, Begins(r, q)
    PROVE  /\ Busy' = Busy \cup {r} /\ r \notin Busy /\ req'[r] = q
           /\ \A x \in Busy : req'[x] = req[x] /\ x # r
BY DEF Begins, Busy, TypeInv

LEMMA BusyCommitted ==
    ASSUME TypeInv, NEW r \in Requests, Commit(r)
    PROVE  Busy' = Busy \ {r} /\ r \in Busy
<1>1. \A x \in Requests : x \in Busy' <=> x \in Busy /\ x # r  BY CommitOthers DEF Busy
<1> QED  BY <1>1 DEF Busy, Commit

LEMMA BusyIdle ==
    ASSUME TypeInv, Idles
    PROVE  Busy' \subseteq Busy /\ \A x \in Busy' : req'[x] = req[x]
BY DEF Idles, Busy, TypeInv

LEMMA FactorStep == TypeInv /\ FactorInv /\ [Next]_vars => FactorInv'
<1> SUFFICES ASSUME TypeInv, FactorInv, [Next]_vars PROVE FactorInv'  OBVIOUS
<1>1. ASSUME NEW r \in Requests, NEW q, Begins(r, q) PROVE FactorInv'
  <2>1. WholeJob(q)
        BY <1>1, JobBegun, BegunEffect, EffectWhole DEF Begins, FactorInv
  <2>2. user' = user  BY <1>1 DEF Begins
  <2> QED  BY <1>1, <2>1, <2>2, BusyBegun DEF FactorInv
<1>2. ASSUME NEW r \in Requests, Commit(r) PROVE FactorInv'
  <2>1. WholeJob(req[r]) /\ Whole(user) /\ Job(req[r])
        BY <1>2, CommitColumns DEF FactorInv
  <2>2. /\ req[r].seen.enabled \in BOOLEAN /\ req[r].new.enabled \in BOOLEAN
        /\ user.enabled \in BOOLEAN
        BY <2>1, UserRow DEF Job, TypeInv, TypeOK
  <2>3. Whole(user')
        BY <1>2, <2>1, <2>2, CommitColumns DEF WholeJob, Whole
  <2>4. ASSUME NEW x \in Busy' PROVE WholeJob(req'[x])
    <3>1. x \in Busy /\ x # r /\ req[x] # Idle /\ x \in Requests
          BY <1>2, BusyCommitted DEF Busy
    <3>2. req'[x].seen = req[x].seen /\ req'[x].new = req[x].new
          BY <1>2, <3>1, CommitOthers
    <3> QED  BY <3>1, <3>2 DEF WholeJob, FactorInv
  <2> QED  BY <2>3, <2>4 DEF FactorInv
<1>3. CASE Idles
      BY <1>3, BusyIdle DEF FactorInv, Idles
<1> QED  BY <1>1, <1>2, <1>3, StepForms

\* The flag and the secret of the second factor, which every handler writes
\* back column by column, stay together however commits interleave.
THEOREM FactorHolds == Spec => []FactorWhole
<1>1. Init => FactorInv  BY DEF Init, FactorInv, Whole, Busy
<1>2. FactorInv => FactorWhole  BY DEF FactorInv, Whole, FactorWhole
<1> QED  BY <1>1, <1>2, TypeInit, TypeStep, FactorStep, PTL DEF Spec

-----------------------------------------------------------------------------
(* The counter of failures, where two requests at most overlap.            *)

AtMostTwo == \A a, b, c \in Requests : a = b \/ b = c \/ a = c

\* Twice the wrong answers that a climb from k to the top allows beyond k.
Room(k) == k * (2 * MaxFailures - k - 1)

\* g answers are counted and the counter stands at f although some request
\* read k.
Within(g, k, f) == 2 * g <= 2 + Room(k) + 2 * f

CountInv ==
    /\ \A r \in Busy : CountJob(req[r])
    /\ \A r, s \in Busy : r # s => user.fails \in {req[r].seen.fails, req[s].seen.fails}
    /\ Within(guesses, user.fails, user.fails)
    /\ \A r \in Busy : Climbs(req[r]) /\ req[r].seen.fails <= user.fails =>
                          Within(guesses, req[r].seen.fails, user.fails)
    /\ user.fails = 0 /\ (\E r \in Busy : Locks(req[r])) => guesses = 0

Level == 0..(MaxFailures - 1)

LEMMA RoomAt ==
    ASSUME NEW k \in Level
    PROVE  Room(k) \in Int /\ Room(k) >= 0
<1>1. k \in Int /\ 2 * MaxFailures - k - 1 \in Int /\ k >= 0 /\ 2 * MaxFailures - k - 1 >= 0
      BY Constants DEF Level
<1>2. \A a, b \in Int : a >= 0 /\ b >= 0 => a * b \in Int /\ a * b >= 0  OBVIOUS
<1> QED  BY <1>1, <1>2 DEF Room

LEMMA RoomNext ==
    ASSUME NEW k \in Level, k + 1 \in Level
    PROVE  Room(k + 1) = Room(k) + 2 * MaxFailures - 2 * k - 2
BY Constants DEF Room, Level

LEMMA RoomGrows ==
    ASSUME NEW j \in Level, NEW k \in Level, j <= k
    PROVE  Room(j) <= Room(k)
<1>1. j \in Int /\ k \in Int /\ MaxFailures \in Int  BY Constants DEF Level
<1>2. k - j >= 0 /\ 2 * MaxFailures - 1 - j - k >= 0 /\ k - j \in Int /\ 2 * MaxFailures - 1 - j - k \in Int
      BY Constants DEF Level
<1>3. \A a, b \in Int : a >= 0 /\ b >= 0 => a * b >= 0  OBVIOUS
<1>4. (k - j) * (2 * MaxFailures - 1 - j - k) >= 0  BY <1>2, <1>3
<1>5. Room(k) - Room(j) = (k - j) * (2 * MaxFailures - 1 - j - k)  BY <1>1 DEF Room
<1> QED  BY <1>1, <1>4, <1>5, RoomAt

\* An attempt that read k, at or below the top, and climbs.
LEMMA WithinClimb ==
    ASSUME NEW g \in Nat, NEW f \in Level, NEW k \in Level, k + 1 \in Level,
           Within(g, f, f), k <= f => Within(g, k, f)
    PROVE  Within(g + 1, k + 1, k + 1)
<1>1. f \in Int /\ k \in Int /\ MaxFailures \in Int /\ f <= MaxFailures - 1 /\ k + 1 <= MaxFailures - 1
      BY Constants DEF Level
<1>2. /\ Room(k) \in Int /\ Room(f) \in Int
      /\ Room(k + 1) = Room(k) + 2 * MaxFailures - 2 * k - 2
      BY RoomAt, RoomNext
<1>3. f <= k => Room(f) <= Room(k)  BY RoomGrows
<1>4. CASE k <= f  BY <1>1, <1>2, <1>4 DEF Within
<1>5. CASE f < k  BY <1>1, <1>2, <1>3, <1>5 DEF Within
<1> QED  BY <1>1, <1>4, <1>5

\* The other of two attempts, which read j, while the first climbs from k.
LEMMA WithinOther ==
    ASSUME NEW g \in Nat, NEW f \in Level, NEW k \in Level, NEW j \in Level, k + 1 \in Level,
           Within(g, f, f), j <= f => Within(g, j, f), f \in {j, k}, j <= k + 1,
           Within(g + 1, k + 1, k + 1)
    PROVE  Within(g + 1, j, k + 1)
<1>1. f \in Int /\ k \in Int /\ j \in Int /\ Room(j) \in Int /\ Room(f) \in Int /\ Room(k + 1) \in Int
      BY RoomAt DEF Level
<1>2. CASE j = k + 1  BY <1>2
<1>3. CASE j # k + 1
  <2>1. j <= k  BY <1>1, <1>3
  <2>2. Within(g, j, f)  BY <1>1, <2>1
  <2> QED  BY <1>1, <2>1, <2>2 DEF Within
<1> QED  BY <1>2, <1>3

LEMMA WithinLess ==
    ASSUME NEW g \in Nat, NEW h \in Nat, h <= g, NEW k \in Level, NEW f \in Level, Within(g, k, f)
    PROVE  Within(h, k, f)
<1>1. Room(k) \in Int /\ f \in Int  BY RoomAt DEF Level
<1> QED  BY <1>1 DEF Within

\* With one answer at most, any level is within bounds.
LEMMA WithinFirst ==
    ASSUME NEW g \in {0, 1}, NEW k \in Level, NEW f \in Level
    PROVE  Within(g, k, f)
<1>1. Room(k) \in Int /\ Room(k) >= 0 /\ f \in Int /\ f >= 0  BY RoomAt DEF Level
<1> QED  BY <1>1 DEF Within

LEMMA WithinTop ==
    ASSUME NEW g \in Nat, NEW f \in Level, Within(g, f, f)
    PROVE  2 * g <= MaxFailures * (MaxFailures + 1)
<1>1. MaxFailures - 1 \in Level /\ f \in Int /\ f <= MaxFailures - 1 /\ MaxFailures \in Int
      BY Constants DEF Level
<1>2. Room(f) <= Room(MaxFailures - 1) /\ Room(f) \in Int /\ Room(MaxFailures - 1) \in Int
      BY <1>1, RoomAt, RoomGrows
<1>3. Room(MaxFailures - 1) + 2 * MaxFailures = MaxFailures * (MaxFailures + 1)
      BY <1>1 DEF Room
<1>4. MaxFailures * (MaxFailures + 1) \in Int  BY <1>1
<1>5. 2 * g <= 2 + Room(MaxFailures - 1) + 2 * (MaxFailures - 1)
      BY <1>1, <1>2 DEF Within
<1> QED  BY <1>1, <1>2, <1>3, <1>4, <1>5

LEMMA FailsLevel ==
    ASSUME TypeInv
    PROVE  /\ user.fails \in Level /\ guesses \in Nat
           /\ \A r \in Busy : req[r].seen.fails \in Level /\ req[r].new.fails \in Level
BY DEF TypeInv, TypeOK, Busy, Job, User, Level

\* What a commit does to the count.
LEMMA CommitCounts ==
    ASSUME TypeInv, NEW r \in Requests, Commit(r), CountJob(req[r])
    PROVE  LET q == req[r] IN
           /\ guesses' \in {0, guesses, guesses + 1}
           /\ q.kind # "guess" => guesses' \in {0, guesses}
           /\ user'.fails = 0 /\ user.fails # 0 => guesses' = 0
           /\ Climbs(q) => user'.fails = q.seen.fails + 1
           /\ Locks(q) /\ MaxFailures > 1 => user'.fails = 0
           /\ q.kind # "guess" => user'.fails \in {0, user.fails}
<1>1. /\ guesses' \in {0, guesses, guesses + 1}
      /\ req[r].kind # "guess" => guesses' \in {0, guesses}
      /\ user'.fails = 0 /\ user.fails # 0 => guesses' = 0
      BY DEF Commit
<1>2. r \in Busy /\ user'.fails = IF req[r].new.fails # req[r].seen.fails THEN req[r].new.fails ELSE user.fails
      BY CommitColumns
<1>3. req[r].seen.fails \in Level /\ req[r].new.fails \in Level  BY <1>2, FailsLevel
<1>4. req[r].seen.fails \in Int /\ MaxFailures \in Int  BY <1>3, Constants DEF Level
<1> QED  BY <1>1, <1>2, <1>4 DEF Climbs, Locks, CountJob

LEMMA CountStep ==
    MaxFailures > 1 /\ AtMostTwo /\ TypeInv /\ CountInv /\ [Next]_vars => CountInv'
<1> SUFFICES ASSUME MaxFailures > 1, AtMostTwo, TypeInv, TypeInv', CountInv, [Next]_vars
             PROVE  CountInv'
    BY TypeStep
<1>1. ASSUME NEW r \in Requests, NEW q, Begins(r, q) PROVE CountInv'
  <2>1. CountJob(q) /\ q.seen = user /\ user' = user /\ guesses' = guesses
        BY <1>1, BegunEffect DEF Begins
  <2>2. Busy' = Busy \cup {r} /\ r \notin Busy /\ req'[r] = q /\ \A x \in Busy : req'[x] = req[x]
        BY <1>1, BusyBegun
  <2>3. user.fails = 0 => ~Locks(q)  BY <2>1, Constants DEF Locks
  <2> QED  BY <2>1, <2>2, <2>3 DEF CountInv
<1>2. ASSUME NEW r \in Requests, Commit(r) PROVE CountInv'
  <2> DEFINE q == req[r]
             f == user.fails
             k == q.seen.fails
  <2>1. r \in Busy /\ Busy' = Busy \ {r} /\ CountJob(q)
        BY <1>2, BusyCommitted DEF CountInv
  <2>2. /\ f \in Level /\ k \in Level /\ q.new.fails \in Level /\ guesses \in Nat
        /\ \A x \in Busy : req[x].seen.fails \in Level
        BY <2>1, FailsLevel
  <2>3. \A x \in Busy' : x \in Busy /\ x # r /\ x \in Requests /\ req[x] # Idle  BY <2>1 DEF Busy
  <2>4. \A x \in Busy' : /\ req'[x].kind = req[x].kind /\ req'[x].seen = req[x].seen
                         /\ req'[x].new = req[x].new
        BY <1>2, <2>3, CommitOthers
  <2>5. \A x \in Busy' : /\ CountJob(req'[x])
                         /\ Climbs(req'[x]) <=> Climbs(req[x])
                         /\ Locks(req'[x]) <=> Locks(req[x])
        BY <2>3, <2>4 DEF CountInv, CountJob, Climbs, Locks
  <2>6. \A x, y \in Busy' : x = y
        BY <2>1, <2>3 DEF AtMostTwo
  <2>7. user'.fails \in Level /\ guesses' \in Nat  BY DEF TypeInv, TypeOK, User, Level
  <2>8. \A x \in Busy' : f \in {k, req[x].seen.fails}
        BY <2>1, <2>3 DEF CountInv
  <2>9. /\ guesses' \in {0, guesses, guesses + 1}
        /\ q.kind # "guess" => guesses' \in {0, guesses}
        /\ user'.fails = 0 /\ f # 0 => guesses' = 0
        /\ Climbs(q) => user'.fails = k + 1
        /\ Locks(q) => user'.fails = 0
        /\ q.kind # "guess" => user'.fails \in {0, f}
        BY <1>2, <2>1, CommitCounts
  <2>10. SUFFICES /\ Within(guesses', user'.fails, user'.fails)
                  /\ \A x \in Busy' : Climbs(req[x]) /\ req[x].seen.fails <= user'.fails =>
                                         Within(guesses', req[x].seen.fails, user'.fails)
                  /\ user'.fails = 0 /\ (\E x \in Busy' : Locks(req[x])) => guesses' = 0
         BY <2>4, <2>5, <2>6 DEF CountInv
  <2>11. /\ Within(guesses, f, f)
         /\ \A x \in Busy : Climbs(req[x]) /\ req[x].seen.fails <= f => Within(guesses, req[x].seen.fails, f)
         /\ f = 0 /\ (\E x \in Busy : Locks(req[x])) => guesses = 0
         BY DEF CountInv
  <2> HIDE DEF q, f, k
  <2>12. CASE user'.fails = 0 /\ f # 0
         BY <2>2, <2>3, <2>7, <2>9, <2>12, WithinFirst
  <2>13. CASE Climbs(q)
    <3>1. k + 1 \in Level /\ user'.fails = k + 1 /\ k \in Int /\ k + 1 # 0
          BY <2>2, <2>7, <2>9, <2>13 DEF Level
    <3>2. Within(guesses + 1, k + 1, k + 1)
      <4>1. k <= f => Within(guesses, k, f)  BY <2>1, <2>11, <2>13 DEF q, k
      <4> QED  BY <2>2, <2>11, <3>1, <4>1, WithinClimb
    <3>3. ASSUME NEW x \in Busy', Climbs(req[x]), req[x].seen.fails <= k + 1
          PROVE  Within(guesses + 1, req[x].seen.fails, k + 1)
      <4>1. req[x].seen.fails \in Level /\ f \in {req[x].seen.fails, k}
            BY <2>2, <2>3, <2>8
      <4>2. req[x].seen.fails <= f => Within(guesses, req[x].seen.fails, f)  BY <2>3, <2>11, <3>3
      <4> QED  BY <2>2, <2>11, <3>1, <3>2, <3>3, <4>1, <4>2, WithinOther
    <3>4. guesses' <= guesses + 1 /\ guesses + 1 \in Nat  BY <2>2, <2>9
    <3> QED  BY <2>2, <2>3, <2>7, <3>1, <3>2, <3>3, <3>4, WithinLess
  <2>14. CASE Locks(q) /\ f = 0
    <3>1. guesses = 0 /\ user'.fails = 0  BY <2>1, <2>9, <2>11, <2>14 DEF q
    <3>2. guesses' \in {0, 1}  BY <2>9, <3>1
    <3>3. k # 0 /\ k = MaxFailures - 1  BY <2>14, Constants DEF Locks, k
    <3>4. \A x \in Busy' : ~Locks(req[x])  BY <2>8, <2>14, <3>3 DEF Locks
    <3> QED  BY <2>2, <2>3, <2>7, <3>1, <3>2, <3>4, WithinFirst
  <2>15. CASE q.kind # "guess" /\ user'.fails = f
    <3>1. guesses' \in {0, guesses} /\ guesses' <= guesses  BY <2>2, <2>9, <2>15
    <3> QED  BY <2>2, <2>3, <2>7, <2>11, <2>15, <3>1, WithinLess
  <2> QED  BY <2>1, <2>9, <2>12, <2>13, <2>14, <2>15 DEF CountJob
<1>3. CASE Idles
      BY <1>3, BusyIdle DEF CountInv, Idles
<1> QED  BY <1>1, <1>2, <1>3, StepForms

LEMMA TwoSlots ==
    ASSUME Cardinality(Requests) <= 2
    PROVE  AtMostTwo
<1> SUFFICES ASSUME NEW a \in Requests, NEW b \in Requests, NEW c \in Requests,
                    a # b, b # c, a # c
             PROVE  FALSE
    BY DEF AtMostTwo
<1>1. IsFiniteSet(Requests)  BY AccountAssumption DEF AccountAssumption
<1>2. Cardinality({a, b, c}) = 3
  <2>1. IsFiniteSet({a}) /\ Cardinality({a}) = 1  BY FS_Singleton
  <2>2. b \notin {a} /\ c \notin {a} \cup {b}  OBVIOUS
  <2>3. IsFiniteSet({a} \cup {b}) /\ Cardinality({a} \cup {b}) = Cardinality({a}) + 1
        BY <2>1, <2>2, FS_AddElement
  <2>4. Cardinality(({a} \cup {b}) \cup {c}) = Cardinality({a} \cup {b}) + 1
        BY <2>2, <2>3, FS_AddElement
  <2>5. ({a} \cup {b}) \cup {c} = {a, b, c}  OBVIOUS
  <2> QED  BY <2>1, <2>3, <2>4, <2>5
<1>3. Cardinality({a, b, c}) <= Cardinality(Requests)  BY <1>1, FS_Subset
<1>4. Cardinality(Requests) \in Nat  BY <1>1, FS_CardinalityType
<1> QED  BY <1>2, <1>3, <1>4

\* Two attempts that overlap may lose increments of the counter, but at most
\* MaxFailures + ... + 1 wrong answers are taken before the account locks.
THEOREM GuessesCounted == Spec => []GuessesBounded
<1>1. CASE MaxFailures > 1 /\ Cardinality(Requests) <= 2
  <2>1. AtMostTwo  BY <1>1, TwoSlots
  <2>2. Init => CountInv
    <3> SUFFICES ASSUME Init PROVE CountInv  OBVIOUS
    <3>1. user.fails = 0 /\ guesses = 0 /\ Busy = {} /\ 0 \in Level
          BY Constants DEF Init, Busy, Level
    <3> QED  BY <3>1, WithinFirst DEF CountInv
  <2>3. TypeInv /\ CountInv => GuessesBounded
    <3> SUFFICES ASSUME TypeInv, CountInv PROVE 2 * guesses <= MaxFailures * (MaxFailures + 1)
        BY DEF GuessesBounded
    <3> QED  BY FailsLevel, WithinTop DEF CountInv
  <2>4. TypeInv /\ CountInv /\ [Next]_vars => CountInv'  BY <1>1, <2>1, CountStep
  <2> QED  BY <2>2, <2>3, <2>4, TypeInit, TypeStep, PTL DEF Spec
<1>2. CASE ~(MaxFailures > 1 /\ Cardinality(Requests) <= 2)
  <2>1. GuessesBounded  BY <1>2 DEF GuessesBounded
  <2> QED  BY <2>1, PTL
<1> QED  BY <1>1, <1>2

-----------------------------------------------------------------------------
(* One-time codes, while no two requests that use them have overlapped.    *)

Number(c) == c[2]

Settled(u) ==
    /\ Whole(u) /\ (u.enabled <=> u.lastStep # 0)
    /\ ~u.enabled => u.recovery = {}
    /\ u.secret # 0 => u.pending # u.secret

\* Numbers not above what has been made.
Numbered(u) ==
    /\ u.secret <= minted /\ u.pending <= minted
    /\ \A c \in u.recovery : Number(c) <= minted

\* What no committed row or other request has yet.
FreshPending(r) ==
    req[r].kind = "setup" =>
        /\ req[r].new.pending \notin {user.pending, user.secret}
        /\ \A s \in Busy :
              /\ req[s].seen.pending # req[r].new.pending
              /\ s # r /\ req[s].kind = "setup" => req[s].new.pending # req[r].new.pending

FreshCode(r) ==
    /\ Brings(req[r]) \cap user.recovery = {}
    /\ \A s \in Busy \ {r} : Brings(req[r]) \cap Brings(req[s]) = {}

\* A code of the secret g and the step s that no factor can be proved with.
DeadTotp(g, s) ==
    /\ g # 0 /\ g <= minted
    /\ user.secret = g => s <= user.lastStep
    /\ user.pending # g
    /\ \A r \in Busy : /\ req[r].kind = "setup" => req[r].new.pending # g
                       /\ ~req[r].stale /\ Enrols(req[r]) => req[r].seen.pending # g

DeadCode(c) ==
    /\ Number(c) <= minted /\ c \notin user.recovery
    /\ \A r \in Busy : c \notin Brings(req[r])

Dead(c) ==
    \/ \E g, s \in Nat : c = Totp(g, s) /\ DeadTotp(g, s)
    \/ c \in Recovery /\ DeadCode(c)

JobInv(r) ==
    /\ Settled(req[r].seen) /\ Effect(req[r])
    /\ Numbered(req[r].seen) /\ Numbered(req[r].new)
    /\ FreshPending(r) /\ FreshCode(r)
    /\ ~req[r].stale => SameFactor(req[r].seen, user)

OnceInv ==
    /\ Settled(user) /\ Numbered(user)
    /\ \A r \in Busy : JobInv(r)
    /\ \A c \in used : Dead(c)
    /\ None \notin used /\ ~again

CodesInv == ~tangled => OnceInv

LEMMA TotpCodes ==
    ASSUME NEW g, NEW s
    PROVE  /\ Totp(g, s) \notin Recovery
           /\ \A h, t : Totp(g, s) = Totp(h, t) => g = h /\ s = t
BY DEF Totp, Recovery

LEMMA FreshNumber ==
    ASSUME NEW g, NEW c \in Fresh(g)
    PROVE  Number(c) = g
BY DEF Fresh, Number

LEMMA Numbers ==
    ASSUME TypeInv
    PROVE  /\ minted \in Nat /\ user \in User /\ user.secret \in Nat /\ user.pending \in Nat
           /\ user.lastStep \in Nat /\ user.recovery \in SUBSET Recovery /\ user.enabled \in BOOLEAN
           /\ \A r \in Busy :
                 /\ Job(req[r]) /\ req[r].stale \in BOOLEAN
                 /\ req[r].seen.enabled \in BOOLEAN /\ req[r].new.enabled \in BOOLEAN
                 /\ req[r].seen.secret \in Nat /\ req[r].seen.pending \in Nat
                 /\ req[r].new.secret \in Nat /\ req[r].new.pending \in Nat
                 /\ req[r].seen.lastStep \in Nat /\ req[r].new.lastStep \in Nat
                 /\ req[r].seen.recovery \in SUBSET Recovery
                 /\ req[r].new.recovery \in SUBSET Recovery
<1>1. \A n \in Generation : n \in Nat  BY Constants DEF Generation
<1>2. user \in User /\ minted \in Generation  BY DEF TypeInv, TypeOK
<1>3. \A r \in Busy : Job(req[r]) /\ req[r].stale \in BOOLEAN /\ req[r].seen \in User /\ req[r].new \in User
      BY DEF TypeInv, Job
<1> QED  BY <1>1, <1>2, <1>3, UserRow

\* A commit that nothing had overtaken: it leaves the factor alone, or it
\* moves the marks and leaves the factor it decided on.
Quiet(q) ==
    /\ q.code = None /\ SameFactor(user', user) /\ Marks(user') = Marks(user)
    /\ \/ user'.pending \in {user.pending, 0}
       \/ q.kind = "setup" /\ user'.pending = q.new.pending

Moves(q) ==
    /\ ~q.stale /\ q.kind # "setup" /\ SameFactor(q.seen, user) /\ SameFactor(user', q.new)
    /\ Marks(user') # Marks(user)
    /\ \/ Spends(q) /\ user'.pending = user.pending
       \/ Enrols(q) /\ user'.pending = 0
       \/ Drops(q) /\ user'.pending \in {0, user.pending}

LEMMA CommitCases ==
    ASSUME TypeInv, OnceInv, NEW r \in Requests, Commit(r), ~tangled'
    PROVE  Quiet(req[r]) \/ Moves(req[r])
<1> DEFINE q == req[r]
<1>1. /\ Job(q) /\ r \in Busy
      /\ user'.enabled = IF q.new.enabled # q.seen.enabled THEN q.new.enabled ELSE user.enabled
      /\ user'.secret = IF q.new.secret # q.seen.secret THEN q.new.secret ELSE user.secret
      /\ user'.pending = IF q.new.pending # q.seen.pending THEN q.new.pending ELSE user.pending
      /\ user'.recovery = IF q.new.recovery # q.seen.recovery THEN q.new.recovery ELSE user.recovery
      /\ user'.lastStep = IF q.new.lastStep # q.seen.lastStep THEN q.new.lastStep ELSE user.lastStep
      BY CommitColumns
<1>2. /\ Settled(q.seen) /\ Effect(q) /\ FreshPending(r)
      /\ ~q.stale => SameFactor(q.seen, user)
      BY <1>1 DEF OnceInv, JobInv
<1>3. q.stale => Marks(q.new) = Marks(q.seen)
      BY DEF Commit
<1>4. /\ q.seen.enabled \in BOOLEAN /\ q.new.enabled \in BOOLEAN /\ q.stale \in BOOLEAN
      /\ q.seen.lastStep \in Nat /\ q.new.lastStep \in Nat
      BY <1>1, Numbers
<1>5. q.kind = "setup" => q.new.pending # q.seen.pending
      BY <1>1, <1>2 DEF FreshPending
<1> HIDE DEF q
<1>6. CASE SameFactor(q.new, q.seen) /\ q.code = None
  <2>1. SameFactor(user', user)  BY <1>1, <1>6 DEF SameFactor
  <2>2. user'.pending \in {user.pending, 0} \/ (q.kind = "setup" /\ user'.pending = q.new.pending)
        BY <1>1, <1>2, <1>5, <1>6 DEF Effect, Plain, Spends, Enrols, Drops
  <2> QED  BY <1>6, <2>1, <2>2 DEF Quiet, SameFactor, Marks, q
<1>7. CASE ~(SameFactor(q.new, q.seen) /\ q.code = None)
  <2>1. q.kind # "setup" /\ (Spends(q) \/ Enrols(q) \/ Drops(q))
        BY <1>2, <1>7 DEF Effect, Plain, Sets
  <2>2. Marks(q.new) # Marks(q.seen)
    <3>1. CASE Spends(q)  BY <1>4, <3>1 DEF Spends, Marks
    <3>2. CASE Enrols(q)  BY <1>2, <3>2 DEF Enrols, Settled, Marks
    <3>3. CASE Drops(q)
      <4>1. CASE q.seen.enabled  BY <1>2, <3>3, <4>1 DEF Drops, Settled, Marks
      <4>2. CASE ~q.seen.enabled
        <5>1. SameFactor(q.new, q.seen) /\ q.code = None
              BY <1>2, <1>4, <3>3, <4>2 DEF Drops, Settled, Whole, SameFactor
        <5> QED  BY <1>7, <5>1
      <4> QED  BY <4>1, <4>2
    <3> QED  BY <2>1, <3>1, <3>2, <3>3
  <2>3. ~q.stale /\ SameFactor(q.seen, user)  BY <1>2, <1>3, <2>2 DEF q
  <2>4. SameFactor(user', q.new)  BY <1>1, <2>3 DEF SameFactor
  <2>5. Marks(user') # Marks(user)  BY <2>2, <2>3, <2>4 DEF SameFactor, Marks
  <2>6. /\ Spends(q) => user'.pending = user.pending
        /\ Enrols(q) => user'.pending = 0
        /\ Drops(q) => user'.pending \in {0, user.pending}
        BY <1>1 DEF Spends, Enrols, Drops
  <2> QED  BY <2>1, <2>3, <2>4, <2>5, <2>6 DEF Moves, q
<1> QED  BY <1>6, <1>7

\* What a commit can make of the secret and the codes.
LEMMA CommitColumnsOnce ==
    ASSUME TypeInv, OnceInv, NEW r \in Requests, Commit(r), ~tangled'
    PROVE  LET q == req[r] IN
           /\ r \in Busy
           /\ user'.secret \in {0, user.secret} \/ (q.seen.pending # 0 /\ user'.secret = q.seen.pending)
           /\ user'.pending \in {0, user.pending} \/ (q.kind = "setup" /\ user'.pending = q.new.pending)
           /\ user'.recovery \subseteq user.recovery \cup Brings(q)
           /\ Settled(user') /\ Numbered(user')
<1> DEFINE q == req[r]
<1>1. r \in Busy /\ Settled(user) /\ Numbered(user) /\ JobInv(r)
      BY CommitColumns DEF OnceInv
<1>2. /\ Numbered(q.seen) /\ Numbered(q.new) /\ FreshPending(r) /\ minted' = minted
      BY <1>1 DEF JobInv, Commit
<1>3. /\ minted \in Nat /\ user.enabled \in BOOLEAN /\ q.new.lastStep \in Nat /\ q.seen.lastStep \in Nat
      /\ q.new.enabled \in BOOLEAN /\ q.seen.enabled \in BOOLEAN
      BY <1>1, Numbers
<1>4. q.kind = "setup" => q.new.pending \notin {user.pending, user.secret}
      BY <1>2 DEF FreshPending
<1>5. CASE Quiet(q)
  <2>1. Settled(user')
        BY <1>1, <1>4, <1>5 DEF Quiet, SameFactor, Settled, Whole
  <2>2. Numbered(user')
        BY <1>1, <1>2, <1>3, <1>5 DEF Quiet, SameFactor, Numbered
  <2> QED  BY <1>1, <1>5, <2>1, <2>2 DEF Quiet, SameFactor
<1>6. CASE Moves(q)
  <2>1. SameFactor(q.seen, user) /\ SameFactor(user', q.new)  BY <1>6 DEF Moves
  <2>2. user'.recovery \subseteq user.recovery \cup Brings(q)
        BY <2>1 DEF SameFactor, Brings
  <2>3. user'.secret \in {0, user.secret} \/ (q.seen.pending # 0 /\ user'.secret = q.seen.pending)
        BY <1>6, <2>1 DEF Moves, SameFactor, Spends, Enrols, Drops
  <2>4. user'.pending \in {0, user.pending}  BY <1>6 DEF Moves
  <2>5. Numbered(user')
        BY <1>1, <1>2, <1>3, <2>1, <2>4 DEF SameFactor, Numbered
  <2>6. Settled(user')
    <3>1. CASE Spends(q) /\ user'.pending = user.pending
          BY <1>1, <1>3, <2>1, <3>1 DEF Spends, SameFactor, Settled, Whole
    <3>2. CASE Enrols(q) /\ user'.pending = 0
          BY <1>3, <2>1, <3>2 DEF Enrols, SameFactor, Settled, Whole
    <3>3. CASE Drops(q)
          BY <1>3, <2>1, <3>3 DEF Drops, SameFactor, Settled, Whole
    <3> QED  BY <1>6, <3>1, <3>2, <3>3 DEF Moves
  <2> QED  BY <1>1, <2>2, <2>3, <2>4, <2>5, <2>6
<1> QED  BY <1>5, <1>6, CommitCases

LEMMA NumberNat ==
    ASSUME NEW c \in Recovery
    PROVE  Number(c) \in Nat
<1>1. Number(c) \in Generation  BY DEF Recovery, Number
<1> QED  BY <1>1, Constants DEF Generation

\* A number that has been made stays made.
LEMMA NumberedLater ==
    ASSUME TypeInv, NEW u, u.secret \in Nat, u.pending \in Nat, u.recovery \in SUBSET Recovery,
           Numbered(u), minted' \in {minted, minted + 1}
    PROVE  u.secret <= minted' /\ u.pending <= minted' /\ \A c \in u.recovery : Number(c) <= minted'
<1>1. minted \in Nat  BY Numbers
<1>2. \A c \in Recovery : Number(c) \in Nat  BY NumberNat
<1> QED  BY <1>1, <1>2 DEF Numbered

\* The job that a decision adds.
LEMMA BegunJob ==
    ASSUME TypeInv, OnceInv, NEW r \in Requests, NEW q, Begins(r, q)
    PROVE  JobInv(r)'
<1>1. /\ Busy' = Busy \cup {r} /\ r \notin Busy /\ req'[r] = q /\ \A x \in Busy : req'[x] = req[x]
      /\ user' = user /\ q.seen = user /\ minted' \in {minted, minted + 1}
      BY BusyBegun DEF Begins
<1>2. Effect(q) /\ MakesNew(q) /\ Job(q)  BY BegunEffect, JobBegun
<1>3. /\ minted \in Nat /\ user.secret \in Nat /\ user.pending \in Nat
      /\ user.recovery \in SUBSET Recovery
      BY Numbers
<1>4. Settled(user) /\ Numbered(user)  BY DEF OnceInv
<1>5. /\ user.secret <= minted' /\ user.pending <= minted'
      /\ \A c \in user.recovery : Number(c) <= minted'
      BY <1>1, <1>3, <1>4, NumberedLater
<1>6. Numbered(q.new)'
  <2>1. q.new.secret \in {0, user.secret, user.pending}
        BY <1>1, <1>2 DEF Effect, Plain, Sets, Spends, Enrols, Drops, SameFactor
  <2>2. q.new.pending \in {0, user.pending} \/ (q.new.pending = minted + 1 /\ minted' = minted + 1)
        BY <1>1, <1>2 DEF Effect, Plain, MakesNew, Spends, Enrols, Drops
  <2>3. \A c \in q.new.recovery : Number(c) <= minted'
    <3>1. SUFFICES ASSUME NEW c \in Brings(q) PROVE Number(c) <= minted'
          BY <1>1, <1>5 DEF Brings
    <3>2. q.new.recovery = Fresh(minted + 1) /\ minted' = minted + 1  BY <1>2, <3>1 DEF MakesNew
    <3>3. Number(c) = minted + 1  BY <3>1, <3>2, FreshNumber DEF Brings
    <3> QED  BY <1>3, <3>2, <3>3
  <2> QED  BY <1>1, <1>3, <1>5, <2>1, <2>2, <2>3 DEF Numbered
<1>7. FreshPending(r)'
  <2>1. SUFFICES ASSUME q.kind = "setup"
                 PROVE  /\ q.new.pending \notin {user.pending, user.secret}
                        /\ \A s \in Busy \cup {r} :
                              /\ req'[s].seen.pending # q.new.pending
                              /\ s # r /\ req'[s].kind = "setup" => req'[s].new.pending # q.new.pending
        BY <1>1 DEF FreshPending
  <2>2. q.new.pending = minted + 1  BY <1>2, <2>1 DEF MakesNew
  <2>3. user.pending <= minted /\ user.secret <= minted  BY <1>4 DEF Numbered
  <2>4. \A s \in Busy : /\ req[s].seen.pending <= minted /\ req[s].new.pending <= minted
                        /\ req[s].seen.pending \in Nat /\ req[s].new.pending \in Nat
        BY Numbers DEF OnceInv, JobInv, Numbered
  <2>5. \A s \in Busy : req[s].seen.pending # minted + 1 /\ req[s].new.pending # minted + 1
        BY <1>3, <2>4
  <2>6. q.new.pending \notin {user.pending, user.secret}  BY <1>3, <2>2, <2>3
  <2> QED  BY <1>1, <2>2, <2>5, <2>6
<1>8. FreshCode(r)'
  <2>1. Brings(q) \cap user.recovery = {}  BY <1>1 DEF Brings
  <2>2. ASSUME NEW s \in Busy, NEW c \in Brings(q), c \in Brings(req[s]) PROVE FALSE
    <3>1. q.new.recovery = Fresh(minted + 1)  BY <1>2, <2>2 DEF MakesNew
    <3>2. Number(c) = minted + 1  BY <2>2, <3>1, FreshNumber DEF Brings
    <3>3. Number(c) <= minted  BY <2>2 DEF OnceInv, JobInv, Numbered, Brings
    <3> QED  BY <1>3, <3>2, <3>3
  <2>3. \A s \in Busy : Brings(q) \cap Brings(req[s]) = {}  BY <2>2
  <2>4. Busy' \ {r} = Busy  BY <1>1
  <2>5. /\ Brings(req'[r]) \cap user'.recovery = {}
        /\ \A s \in Busy' \ {r} : Brings(req'[r]) \cap Brings(req'[s]) = {}
        BY <1>1, <2>1, <2>3, <2>4
  <2> QED  BY <2>5 DEF FreshCode
<1>9. Numbered(user)'  BY <1>1, <1>5 DEF Numbered
<1> QED  BY <1>1, <1>2, <1>4, <1>6, <1>7, <1>8, <1>9 DEF JobInv, SameFactor, Numbered

\* The jobs that a decision finds.
LEMMA BegunOthers ==
    ASSUME TypeInv, OnceInv, NEW r \in Requests, NEW q, Begins(r, q), NEW x \in Busy
    PROVE  JobInv(x)'
<1>1. /\ Busy' = Busy \cup {r} /\ r \notin Busy /\ req'[r] = q /\ \A s \in Busy : req'[s] = req[s]
      /\ user' = user /\ q.seen = user /\ minted' \in {minted, minted + 1}
      BY BusyBegun DEF Begins
<1>2. JobInv(x)  BY DEF OnceInv
<1>3. Numbered(req[x].seen)' /\ Numbered(req[x].new)'
  <2>1. Numbered(req[x].seen) /\ Numbered(req[x].new)  BY <1>2 DEF JobInv
  <2>2. /\ req[x].seen.secret <= minted' /\ req[x].seen.pending <= minted'
        /\ \A c \in req[x].seen.recovery : Number(c) <= minted'
        BY <1>1, <2>1, Numbers, NumberedLater
  <2>3. /\ req[x].new.secret <= minted' /\ req[x].new.pending <= minted'
        /\ \A c \in req[x].new.recovery : Number(c) <= minted'
        BY <1>1, <2>1, Numbers, NumberedLater
  <2> QED  BY <1>1, <2>2, <2>3 DEF Numbered
<1>4. JobInv(r)'  BY BegunJob
<1>5. FreshPending(x)'
  <2>1. FreshPending(x) /\ x \in Busy' /\ x # r  BY <1>1, <1>2 DEF JobInv
  <2>2. q.kind = "setup" /\ req[x].kind = "setup" => q.new.pending # req[x].new.pending
        BY <1>1, <1>4, <2>1 DEF JobInv, FreshPending
  <2> QED  BY <1>1, <2>1, <2>2 DEF FreshPending
<1>6. FreshCode(x)'
  <2>1. FreshCode(x) /\ x \in Busy' \ {r}  BY <1>1, <1>2 DEF JobInv
  <2>2. Brings(q) \cap Brings(req[x]) = {}
        BY <1>1, <1>4, <2>1 DEF JobInv, FreshCode
  <2>3. \A s \in Busy' \ {x} : s = r \/ s \in Busy \ {x}  BY <1>1
  <2>4. /\ Brings(req'[x]) \cap user'.recovery = {}
        /\ \A s \in Busy' \ {x} : Brings(req'[x]) \cap Brings(req'[s]) = {}
        BY <1>1, <2>1, <2>2, <2>3 DEF FreshCode
  <2> QED  BY <2>4 DEF FreshCode
<1> QED  BY <1>1, <1>2, <1>3, <1>5, <1>6 DEF JobInv

LEMMA BegunDead ==
    ASSUME TypeInv, OnceInv, NEW r \in Requests, NEW q, Begins(r, q), NEW c, Dead(c)
    PROVE  Dead(c)'
<1>1. /\ Busy' = Busy \cup {r} /\ r \notin Busy /\ req'[r] = q /\ \A s \in Busy : req'[s] = req[s]
      /\ user' = user /\ q.seen = user /\ minted' \in {minted, minted + 1}
      BY BusyBegun DEF Begins
<1>2. MakesNew(q) /\ minted \in Nat  BY BegunEffect, Numbers
<1>3. CASE \E g, s \in Nat : c = Totp(g, s) /\ DeadTotp(g, s)
  <2>1. PICK g \in Nat, s \in Nat : c = Totp(g, s) /\ DeadTotp(g, s)  BY <1>3
  <2>2. g <= minted' /\ g # minted + 1  BY <1>1, <1>2, <2>1 DEF DeadTotp
  <2>3. q.kind = "setup" => q.new.pending # g  BY <1>2, <2>2 DEF MakesNew
  <2>4. q.seen.pending # g  BY <1>1, <2>1 DEF DeadTotp
  <2>5. DeadTotp(g, s)'  BY <1>1, <2>1, <2>2, <2>3, <2>4 DEF DeadTotp
  <2> QED  BY <2>1, <2>5 DEF Dead
<1>4. CASE c \in Recovery /\ DeadCode(c)
  <2>1. Number(c) \in Nat /\ Number(c) <= minted  BY <1>4, NumberNat DEF DeadCode
  <2>2. c \notin Brings(q)
    <3>1. SUFFICES ASSUME c \in Brings(q) PROVE FALSE  OBVIOUS
    <3>2. c \in Fresh(minted + 1)  BY <1>2, <3>1 DEF MakesNew, Brings
    <3>3. Number(c) = minted + 1  BY <3>2, FreshNumber
    <3> QED  BY <1>2, <2>1, <3>3
  <2>3. Number(c) <= minted'  BY <1>1, <1>2, <2>1
  <2>4. DeadCode(c)'  BY <1>1, <1>4, <2>2, <2>3 DEF DeadCode
  <2> QED  BY <1>4, <2>4 DEF Dead
<1> QED  BY <1>3, <1>4 DEF Dead

\* The jobs that a commit leaves.
LEMMA CommittedOthers ==
    ASSUME TypeInv, OnceInv, NEW r \in Requests, Commit(r), ~tangled'
    PROVE  /\ Busy' = Busy \ {r} /\ r \in Busy /\ minted' = minted
           /\ \A x \in Busy' :
                 /\ x \in Busy /\ x # r
                 /\ req'[x].kind = req[x].kind /\ req'[x].seen = req[x].seen
                 /\ req'[x].new = req[x].new /\ req'[x].code = req[x].code
                 /\ ~req'[x].stale => ~req[x].stale /\ Marks(user') = Marks(user)
                 /\ Enrols(req'[x]) <=> Enrols(req[x])
                 /\ Effect(req'[x]) <=> Effect(req[x])
                 /\ Brings(req'[x]) = Brings(req[x])
<1>1. Busy' = Busy \ {r} /\ r \in Busy /\ minted' = minted  BY BusyCommitted DEF Commit
<1>2. ASSUME NEW x \in Busy'
      PROVE  /\ x \in Busy /\ x # r
             /\ req'[x].kind = req[x].kind /\ req'[x].seen = req[x].seen
             /\ req'[x].new = req[x].new /\ req'[x].code = req[x].code
             /\ ~req'[x].stale => ~req[x].stale /\ Marks(user') = Marks(user)
  <2>1. x \in Busy /\ x # r /\ x \in Requests /\ req[x] # Idle  BY <1>1, <1>2 DEF Busy
  <2>2. /\ req'[x].kind = req[x].kind /\ req'[x].seen = req[x].seen
        /\ req'[x].new = req[x].new /\ req'[x].code = req[x].code
        /\ req'[x].stale = (req[x].stale \/ Marks(user') # Marks(user))
        BY <2>1, CommitOthers
  <2> QED  BY <2>1, <2>2
<1>3. ASSUME NEW x \in Busy'
      PROVE  /\ Enrols(req'[x]) <=> Enrols(req[x])
             /\ Effect(req'[x]) <=> Effect(req[x])
             /\ Brings(req'[x]) = Brings(req[x])
  <2>1. /\ req'[x].kind = req[x].kind /\ req'[x].seen = req[x].seen
        /\ req'[x].new = req[x].new /\ req'[x].code = req[x].code
        BY <1>2
  <2>2. Enrols(req'[x]) <=> Enrols(req[x])  BY <2>1 DEF Enrols
  <2>3. Effect(req'[x]) <=> Effect(req[x])  BY <2>1, <2>2 DEF Effect, Plain, Sets, Spends, Drops
  <2> QED  BY <2>1, <2>2, <2>3 DEF Brings
<1> QED  BY <1>1, <1>2, <1>3

LEMMA CommittedJobs ==
    ASSUME TypeInv, OnceInv, NEW r \in Requests, Commit(r), ~tangled', NEW x \in Busy'
    PROVE  JobInv(x)'
<1> DEFINE q == req[r]
<1>1. /\ Busy' = Busy \ {r} /\ r \in Busy /\ minted' = minted
      /\ \A s \in Busy' :
            /\ s \in Busy /\ s # r
            /\ req'[s].kind = req[s].kind /\ req'[s].seen = req[s].seen
            /\ req'[s].new = req[s].new /\ req'[s].code = req[s].code
            /\ ~req'[s].stale => ~req[s].stale /\ Marks(user') = Marks(user)
            /\ Effect(req'[s]) <=> Effect(req[s])
            /\ Brings(req'[s]) = Brings(req[s])
      BY CommittedOthers
<1>2. /\ user'.secret \in {0, user.secret} \/ (q.seen.pending # 0 /\ user'.secret = q.seen.pending)
      /\ user'.pending \in {0, user.pending} \/ (q.kind = "setup" /\ user'.pending = q.new.pending)
      /\ user'.recovery \subseteq user.recovery \cup Brings(q)
      BY CommitColumnsOnce
<1>3. JobInv(x) /\ x \in Busy /\ x # r  BY <1>1 DEF OnceInv
<1>4. FreshPending(x)'
  <2>1. FreshPending(x)  BY <1>3 DEF JobInv
  <2>2. SUFFICES ASSUME req[x].kind = "setup"
                 PROVE  /\ req[x].new.pending \notin {user'.pending, user'.secret}
                        /\ \A s \in Busy' :
                              /\ req[s].seen.pending # req[x].new.pending
                              /\ s # x /\ req[s].kind = "setup" => req[s].new.pending # req[x].new.pending
        BY <1>1 DEF FreshPending
  <2>3. req[x].new.pending # 0  BY <1>3, <2>2 DEF JobInv, Effect, Sets
  <2>4. /\ req[x].new.pending \notin {user.pending, user.secret, q.seen.pending}
        /\ q.kind = "setup" => q.new.pending # req[x].new.pending
        BY <1>1, <1>3, <2>1, <2>2 DEF FreshPending
  <2> QED  BY <1>1, <1>2, <2>1, <2>2, <2>3, <2>4 DEF FreshPending
<1>5. FreshCode(x)'
  <2>1. FreshCode(x) /\ r \in Busy \ {x}  BY <1>1, <1>3 DEF JobInv
  <2>2. Brings(req[x]) \cap user'.recovery = {}  BY <1>2, <2>1 DEF FreshCode
  <2>3. \A s \in Busy' \ {x} : Brings(req[x]) \cap Brings(req[s]) = {}
        BY <1>1, <2>1 DEF FreshCode
  <2> QED  BY <1>1, <2>2, <2>3 DEF FreshCode
<1>6. ~req'[x].stale => SameFactor(req'[x].seen, user')
  <2>1. SUFFICES ASSUME ~req'[x].stale PROVE SameFactor(req[x].seen, user')  BY <1>1
  <2>2. SameFactor(req[x].seen, user) /\ Marks(user') = Marks(user)
        BY <1>1, <1>3, <2>1 DEF JobInv
  <2>3. Quiet(q)  BY <2>2, CommitCases DEF Moves
  <2> QED  BY <2>2, <2>3 DEF Quiet, SameFactor
<1>7. Numbered(req[x].seen)' /\ Numbered(req[x].new)'
      BY <1>1, <1>3 DEF JobInv, Numbered
<1> QED  BY <1>1, <1>3, <1>4, <1>5, <1>6, <1>7 DEF JobInv, Numbered

\* A dead code stays dead.
LEMMA CommittedDead ==
    ASSUME TypeInv, OnceInv, NEW r \in Requests, Commit(r), ~tangled', NEW c, Dead(c)
    PROVE  Dead(c)'
<1> DEFINE q == req[r]
<1>1. /\ Busy' = Busy \ {r} /\ r \in Busy /\ minted' = minted
      /\ \A s \in Busy' :
            /\ s \in Busy /\ s # r
            /\ req'[s].kind = req[s].kind /\ req'[s].seen = req[s].seen
            /\ req'[s].new = req[s].new
            /\ ~req'[s].stale => ~req[s].stale
            /\ Enrols(req'[s]) <=> Enrols(req[s])
            /\ Brings(req'[s]) = Brings(req[s])
      BY CommittedOthers
<1>2. /\ user'.pending \in {0, user.pending} \/ (q.kind = "setup" /\ user'.pending = q.new.pending)
      /\ user'.recovery \subseteq user.recovery \cup Brings(q)
      BY CommitColumnsOnce
<1>3. CASE \E g, s \in Nat : c = Totp(g, s) /\ DeadTotp(g, s)
  <2>1. PICK g \in Nat, s \in Nat : c = Totp(g, s) /\ DeadTotp(g, s)  BY <1>3
  <2>2. user'.secret = g => s <= user'.lastStep
    <3>1. CASE Quiet(q)  BY <2>1, <3>1 DEF Quiet, SameFactor, DeadTotp
    <3>2. CASE Moves(q)
      <4>1. SameFactor(q.seen, user) /\ SameFactor(user', q.new) /\ ~q.stale  BY <3>2 DEF Moves
      <4>2. g # 0 /\ (Enrols(q) => q.seen.pending # g)  BY <1>1, <2>1, <4>1 DEF DeadTotp
      <4>3. CASE Spends(q)
        <5>1. user'.secret = user.secret /\ user'.lastStep >= user.lastStep
          <6>1. user.lastStep \in Nat /\ q.new.lastStep \in Nat  BY <1>1, Numbers
          <6> QED  BY <4>1, <4>3, <6>1 DEF Spends, SameFactor
        <5>2. user.lastStep \in Nat /\ user'.lastStep \in Nat
          <6>1. q.new.lastStep \in Nat /\ user.lastStep \in Nat  BY <1>1, Numbers
          <6> QED  BY <4>1, <6>1 DEF SameFactor
        <5> QED  BY <2>1, <5>1, <5>2 DEF DeadTotp
      <4>4. CASE Enrols(q)  BY <4>1, <4>2, <4>4 DEF Enrols, SameFactor
      <4>5. CASE Drops(q)  BY <4>1, <4>2, <4>5 DEF Drops, SameFactor
      <4> QED  BY <3>2, <4>3, <4>4, <4>5 DEF Moves
    <3> QED  BY <3>1, <3>2, CommitCases
  <2>3. user'.pending # g  BY <1>1, <1>2, <2>1 DEF DeadTotp
  <2>4. DeadTotp(g, s)'  BY <1>1, <2>1, <2>2, <2>3 DEF DeadTotp
  <2> QED  BY <2>1, <2>4 DEF Dead
<1>4. CASE c \in Recovery /\ DeadCode(c)
  <2>1. c \notin user'.recovery  BY <1>1, <1>2, <1>4 DEF DeadCode
  <2>2. DeadCode(c)'  BY <1>1, <1>4, <2>1 DEF DeadCode
  <2> QED  BY <1>4, <2>2 DEF Dead
<1> QED  BY <1>3, <1>4 DEF Dead

\* The code that a commit spends was still good, and is dead afterwards.
LEMMA CodeWasGood ==
    ASSUME TypeInv, OnceInv, NEW r \in Requests, Commit(r), ~tangled', Moves(req[r]),
           req[r].code # None
    PROVE  req[r].code \notin used
<1> DEFINE q == req[r]
<1>1. r \in Busy /\ ~q.stale /\ SameFactor(q.seen, user)  BY BusyCommitted DEF Moves
<1>2. SUFFICES ASSUME Dead(q.code) PROVE FALSE  BY DEF OnceInv
<1>3. /\ user.lastStep \in Nat /\ q.new.lastStep \in Nat
      /\ user.recovery \in SUBSET Recovery /\ Settled(user)
      BY <1>1, Numbers DEF OnceInv
<1>4. CASE q.code \in user.recovery
  <2>1. q.code \in Recovery  BY <1>3, <1>4
  <2>2. ~DeadCode(q.code)  BY <1>4 DEF DeadCode
  <2> QED  BY <1>2, <2>1, <2>2, TotpCodes DEF Dead
<1>5. ASSUME NEW n \in Nat, n > user.lastStep, q.code = Totp(user.secret, n) PROVE FALSE
  <2>1. q.code \notin Recovery  BY <1>5, TotpCodes
  <2>2. PICK g \in Nat, s \in Nat : q.code = Totp(g, s) /\ DeadTotp(g, s)  BY <1>2, <2>1 DEF Dead
  <2>3. g = user.secret /\ s = n
    <3>1. Totp(g, s) = Totp(user.secret, n)  BY <1>5, <2>2
    <3> QED  BY <3>1, TotpCodes
  <2>4. s <= user.lastStep  BY <2>2, <2>3 DEF DeadTotp
  <2> QED  BY <1>3, <1>5, <2>3, <2>4
<1>6. CASE Spends(q)
      BY <1>1, <1>3, <1>4, <1>5, <1>6 DEF Spends, SameFactor
<1>7. CASE Enrols(q)
  <2>1. q.code = Totp(q.seen.pending, q.new.lastStep)  BY <1>7 DEF Enrols
  <2>2. q.code \notin Recovery  BY <2>1, TotpCodes
  <2>3. PICK g \in Nat, s \in Nat : q.code = Totp(g, s) /\ DeadTotp(g, s)  BY <1>2, <2>2 DEF Dead
  <2>4. g = q.seen.pending  BY <2>1, <2>3, TotpCodes
  <2> QED  BY <1>1, <1>7, <2>3, <2>4 DEF DeadTotp
<1>8. CASE Drops(q)
  <2>1. q.code \in Totps(user) \cup user.recovery
        BY <1>1, <1>8 DEF Drops, Valid, Totps, SameFactor
  <2> QED  BY <1>4, <1>5, <2>1 DEF Totps
<1> QED  BY <1>6, <1>7, <1>8 DEF Moves

LEMMA CodeIsDead ==
    ASSUME TypeInv, OnceInv, NEW r \in Requests, Commit(r), ~tangled', Moves(req[r]),
           NEW c, c = req[r].code, c # None
    PROVE  Dead(c)'
<1> DEFINE q == req[r]
<1>1. /\ Busy' = Busy \ {r} /\ r \in Busy /\ minted' = minted
      /\ \A x \in Busy' :
            /\ x \in Busy /\ x # r
            /\ req'[x].kind = req[x].kind /\ req'[x].new = req[x].new
            /\ ~req'[x].stale => Marks(user') = Marks(user)
            /\ Brings(req'[x]) = Brings(req[x])
      BY CommittedOthers
<1>2. SameFactor(q.seen, user) /\ SameFactor(user', q.new) /\ Marks(user') # Marks(user)
      BY DEF Moves
<1>3. \A x \in Busy' : req'[x].stale  BY <1>1, <1>2
<1>4. /\ minted \in Nat /\ user.secret \in Nat /\ user.lastStep \in Nat
      /\ q.new.lastStep \in Nat /\ q.seen.pending \in Nat
      /\ user.recovery \in SUBSET Recovery
      BY <1>1, Numbers
<1>5. Settled(user) /\ Numbered(user) /\ Numbered(q.seen)  BY <1>1 DEF OnceInv, JobInv
<1>6. ASSUME NEW g \in Nat, NEW s \in Nat, c = Totp(g, s), g # 0, g <= minted,
             user'.secret = g => s <= user'.lastStep, user'.pending # g,
             g \in {user.secret, q.seen.pending}
      PROVE  Dead(c)'
  <2>1. ASSUME NEW x \in Busy', req'[x].kind = "setup" PROVE req'[x].new.pending # g
    <3>1. x \in Busy /\ FreshPending(x) /\ req[x].kind = "setup" /\ r \in Busy
          BY <1>1, <2>1 DEF OnceInv, JobInv
    <3>2. req[x].new.pending # user.secret /\ req[x].new.pending # q.seen.pending
          BY <3>1 DEF FreshPending
    <3> QED  BY <1>1, <1>6, <3>2
  <2>2. DeadTotp(g, s)'  BY <1>1, <1>3, <1>6, <2>1 DEF DeadTotp
  <2> QED  BY <1>6, <2>2 DEF Dead
<1>7. ASSUME c \in user.recovery, c \notin user'.recovery
      PROVE  Dead(c)'
  <2>1. Number(c) <= minted'  BY <1>1, <1>5, <1>7 DEF Numbered
  <2>2. \A x \in Busy' : c \notin Brings(req'[x])
        BY <1>1, <1>7 DEF OnceInv, JobInv, FreshCode
  <2> QED  BY <1>4, <1>7, <2>1, <2>2 DEF Dead, DeadCode
<1>8. CASE Spends(q) /\ user'.pending = user.pending
  <2>1. user.secret # 0 /\ user.pending # user.secret /\ user'.secret = user.secret
        BY <1>2, <1>5, <1>8 DEF Spends, SameFactor, Settled, Whole
  <2>2. CASE c = Totp(q.seen.secret, q.new.lastStep)
    <3>1. c = Totp(user.secret, q.new.lastStep) /\ user'.lastStep = q.new.lastStep
          BY <1>2, <2>2 DEF SameFactor
    <3>2. user.secret <= minted /\ q.new.lastStep <= user'.lastStep
          BY <1>4, <1>5, <3>1 DEF Numbered
    <3> QED  BY <1>4, <1>6, <1>8, <2>1, <3>1, <3>2
  <2>3. CASE c \in q.seen.recovery /\ q.new.recovery = q.seen.recovery \ {c}
        BY <1>2, <1>7, <2>3 DEF SameFactor
  <2> QED  BY <1>8, <2>2, <2>3 DEF Spends
<1>9. CASE Enrols(q) /\ user'.pending = 0
  <2>1. /\ c = Totp(q.seen.pending, q.new.lastStep) /\ q.seen.pending # 0
        /\ user'.lastStep = q.new.lastStep
        BY <1>2, <1>9 DEF Enrols, SameFactor
  <2>2. q.seen.pending <= minted /\ q.new.lastStep <= user'.lastStep
        BY <1>4, <1>5, <2>1 DEF Numbered
  <2> QED  BY <1>4, <1>6, <1>9, <2>1, <2>2
<1>10. CASE Drops(q) /\ user'.pending \in {0, user.pending}
  <2>1. /\ user.enabled /\ user'.secret = 0 /\ user'.recovery = {}
        /\ c \in Totps(user) \cup user.recovery
        BY <1>2, <1>10 DEF Drops, Valid, Totps, SameFactor
  <2>2. user.secret # 0 /\ user.pending # user.secret /\ user.secret <= minted
        BY <1>5, <2>1 DEF Settled, Whole, Numbered
  <2>3. CASE c \in Totps(user)
    <3>1. PICK n \in Nat : c = Totp(user.secret, n)  BY <2>3 DEF Totps
    <3> QED  BY <1>4, <1>6, <1>10, <2>1, <2>2, <3>1
  <2>4. CASE c \in user.recovery  BY <1>7, <2>1, <2>4
  <2> QED  BY <2>1, <2>3, <2>4
<1> QED  BY <1>8, <1>9, <1>10 DEF Moves

LEMMA OnceInit == Init => OnceInv
<1> SUFFICES ASSUME Init PROVE OnceInv  OBVIOUS
<1>1. Busy = {} /\ used = {} /\ ~again /\ minted = 0  BY DEF Init, Busy
<1>2. /\ user.enabled = FALSE /\ user.secret = 0 /\ user.pending = 0
      /\ user.lastStep = 0 /\ user.recovery = {}
      BY DEF Init
<1>3. Settled(user) /\ Numbered(user)  BY <1>1, <1>2 DEF Settled, Whole, Numbered
<1> QED  BY <1>1, <1>3 DEF OnceInv

LEMMA CodesStep == TypeInv /\ CodesInv /\ [Next]_vars => CodesInv'
<1> SUFFICES ASSUME TypeInv, CodesInv, [Next]_vars, ~tangled' PROVE OnceInv'
    BY DEF CodesInv
<1>1. ASSUME NEW r \in Requests, NEW q, Begins(r, q) PROVE OnceInv'
  <2>1. OnceInv /\ user' = user /\ used' = used /\ again' = again /\ minted' \in {minted, minted + 1}
        BY <1>1 DEF CodesInv, Begins
  <2>2. \A x \in Busy' : JobInv(x)'
    <3>1. Busy' = Busy \cup {r}  BY <1>1, BusyBegun
    <3>2. JobInv(r)'  BY <1>1, <2>1, BegunJob
    <3>3. \A x \in Busy : JobInv(x)'  BY <1>1, <2>1, BegunOthers
    <3> QED  BY <3>1, <3>2, <3>3
  <2>3. \A c \in used : Dead(c)'  BY <1>1, <2>1, BegunDead DEF OnceInv
  <2>4. Settled(user)' /\ Numbered(user)'
    <3>1. /\ user.secret <= minted' /\ user.pending <= minted'
          /\ \A c \in user.recovery : Number(c) <= minted'
          BY <2>1, Numbers, NumberedLater DEF OnceInv
    <3> QED  BY <2>1, <3>1 DEF OnceInv, Numbered, Settled, Whole
  <2> QED  BY <2>1, <2>2, <2>3, <2>4 DEF OnceInv
<1>2. ASSUME NEW r \in Requests, Commit(r) PROVE OnceInv'
  <2>1. OnceInv  BY <1>2 DEF CodesInv, Commit
  <2>2. Settled(user)' /\ Numbered(user)'
    <3>1. Settled(user') /\ Numbered(user') /\ minted' = minted
          BY <1>2, <2>1, CommitColumnsOnce DEF Commit
    <3> QED  BY <3>1 DEF Settled, Whole, Numbered
  <2>3. \A x \in Busy' : JobInv(x)'  BY <1>2, <2>1, CommittedJobs
  <2>4. /\ used' = IF req[r].code = None THEN used ELSE used \cup {req[r].code}
        /\ again' = (again \/ req[r].code \in used)
        BY <1>2 DEF Commit
  <2>5. CASE req[r].code = None
    <3>1. used' = used /\ ~again'  BY <2>1, <2>4, <2>5 DEF OnceInv
    <3>2. \A c \in used : Dead(c)'  BY <1>2, <2>1, CommittedDead DEF OnceInv
    <3> QED  BY <2>1, <2>2, <2>3, <3>1, <3>2 DEF OnceInv
  <2>6. CASE req[r].code # None
    <3>1. Moves(req[r])  BY <1>2, <2>1, <2>6, CommitCases DEF Quiet
    <3>2. req[r].code \notin used  BY <1>2, <2>1, <2>6, <3>1, CodeWasGood
    <3>3. ASSUME NEW c \in used' PROVE Dead(c)'
      <4>1. CASE c \in used  BY <1>2, <2>1, <4>1, CommittedDead DEF OnceInv
      <4>2. CASE c = req[r].code  BY <1>2, <2>1, <2>6, <3>1, <4>2, CodeIsDead
      <4> QED  BY <2>4, <2>6, <3>3, <4>1, <4>2
    <3>4. None \notin used' /\ ~again'  BY <2>1, <2>4, <2>6, <3>2 DEF OnceInv
    <3> QED  BY <2>2, <2>3, <3>3, <3>4 DEF OnceInv
  <2> QED  BY <2>5, <2>6
<1>3. CASE Idles
  <2>1. /\ OnceInv /\ user' = user /\ used' = used /\ again' = again /\ minted' = minted
        /\ Busy' \subseteq Busy /\ \A x \in Busy' : req'[x] = req[x]
        BY <1>3, BusyIdle DEF CodesInv, Idles
  <2>2. ASSUME NEW x \in Busy' PROVE JobInv(x)'
    <3>1. JobInv(x) /\ x \in Busy /\ req'[x] = req[x]  BY <2>1, <2>2 DEF OnceInv
    <3>2. FreshPending(x)'  BY <2>1, <3>1 DEF JobInv, FreshPending
    <3>3. FreshCode(x)'  BY <2>1, <3>1 DEF JobInv, FreshCode
    <3> QED  BY <2>1, <3>1, <3>2, <3>3 DEF JobInv, Numbered
  <2>3. ASSUME NEW c \in used' PROVE Dead(c)'
    <3>1. Dead(c)  BY <2>1, <2>3 DEF OnceInv
    <3>2. \A g, s \in Nat : DeadTotp(g, s) => DeadTotp(g, s)'  BY <2>1 DEF DeadTotp
    <3>3. DeadCode(c) => DeadCode(c)'  BY <2>1 DEF DeadCode
    <3> QED  BY <3>1, <3>2, <3>3 DEF Dead
  <2>4. Settled(user)' /\ Numbered(user)'  BY <2>1 DEF OnceInv, Settled, Whole, Numbered
  <2> QED  BY <2>1, <2>2, <2>3, <2>4 DEF OnceInv
<1> QED  BY <1>1, <1>2, <1>3, StepForms

\* A one-time code is accepted a second time only after two requests that use
\* codes have overlapped: enrolment, disabling, resets and new recovery codes
\* in any other order never bring a spent code back.
THEOREM CodesOnce == Spec => []OneTimeCodes
<1>1. Init => CodesInv  BY OnceInit DEF CodesInv
<1>2. TypeInv /\ CodesInv => OneTimeCodes
  <2>1. TypeInv => again \in BOOLEAN /\ tangled \in BOOLEAN  BY DEF TypeInv, TypeOK
  <2> QED  BY <2>1 DEF CodesInv, OnceInv, OneTimeCodes
<1> QED  BY <1>1, <1>2, TypeInit, TypeStep, CodesStep, PTL DEF Spec
=============================================================================
