--------------------------- MODULE SessionsProofs ---------------------------
(***************************************************************************)
(* Proofs about Sessions, for any set of sessions and requests and any     *)
(* grace period, lifetime and bound.                                       *)
(***************************************************************************)
EXTENDS Sessions, TLAPS

(***************************************************************************)
(* What a request in flight has read is still so when it commits: a row    *)
(* that was found does not go away, a row that is to be inserted is not    *)
(* there yet, and tokens are only added.                                   *)
(***************************************************************************)
Served(r) ==
    /\ req[r].kind = "login" =>
          /\ ~Exists(req[r].sid) /\ req[r].version <= password
          /\ \A q \in Requests \ {r} : req[q].kind = "login" => req[q].sid # req[r].sid
    /\ req[r].kind = "refresh" =>
          /\ Exists(req[r].sid)
          /\ req[r].seen.current <= sess[req[r].sid].minted
    /\ req[r].kind \in {"reuse", "revoke", "password"} => Exists(req[r].sid)
    /\ r \in Changing => \A s \in req[r].others : Exists(s)

ServedInv == \A r \in Requests : Served(r)

IInv == TypeOK /\ ServedInv

-----------------------------------------------------------------------------
(* The records of each kind.                                               *)

LEMMA RowType ==
    ASSUME TypeOK, NEW s \in Sids, Exists(s)
    PROVE  /\ sess[s] \in SessionRow
           /\ sess[s].previous < sess[s].current /\ sess[s].current <= sess[s].minted
           /\ sess[s].version <= password
  BY DEF TypeOK, Exists

LEMMA NoRow == NoSession \notin SessionRow
  BY DEF NoSession, SessionRow

LEMMA Kinds ==
    ASSUME TypeOK, NEW r \in Requests
    PROVE  /\ req[r].kind = "login" =>
                req[r] \in [kind : {"login"}, sid : Sids, version : Nat]
           /\ req[r].kind = "refresh" =>
                req[r] \in [kind : {"refresh"}, sid : Sids, seen : SessionRow, now : 0..MaxTime]
           /\ req[r].kind \in {"reuse", "revoke"} =>
                req[r] \in [kind : {"reuse", "revoke"}, sid : Sids]
           /\ req[r].kind = "password" =>
                req[r] \in [kind : {"password"}, sid : Sids, others : {None} \cup SUBSET Sids]
           /\ req[r].kind \in {"idle", "login", "refresh", "reuse", "revoke", "password"}
           /\ req[r].kind = "idle" => req[r] = Idle
<1>1. req[r] \in Serving \cup {Idle}
  BY DEF TypeOK
<1> QED BY <1>1 DEF Serving, Idle

\* A session is the subject of its request.
LEMMA SidType ==
    ASSUME TypeOK, NEW r \in Requests, req[r].kind # "idle"
    PROVE  req[r].sid \in Sids
  BY Kinds

LEMMA NewSessionType ==
    ASSUME TypeOK, NEW v \in Nat, NEW d \in BOOLEAN
    PROVE  /\ NewSession(v, d) \in SessionRow
           /\ NewSession(v, d).current = 1 /\ NewSession(v, d).minted = 1
           /\ NewSession(v, d).previous = 0 /\ NewSession(v, d).revoked = "no"
           /\ NewSession(v, d).version = v /\ NewSession(v, d).during = d
           /\ NewSession(v, d).usedAt = clock
  BY SessionAssumption DEF NewSession, SessionRow, TypeOK

LEMMA RotatedType ==
    ASSUME NEW row \in SessionRow, NEW seen \in SessionRow, NEW now \in 0..MaxTime
    PROVE  /\ Rotated(row, seen, now) \in SessionRow
           /\ Rotated(row, seen, now).current = row.minted + 1
           /\ Rotated(row, seen, now).minted = row.minted + 1
           /\ Rotated(row, seen, now).previous = seen.current
           /\ Rotated(row, seen, now).usedAt = now
           /\ Rotated(row, seen, now).revoked = row.revoked
           /\ Rotated(row, seen, now).version = row.version
           /\ Rotated(row, seen, now).during = row.during
<1> DEFINE a == [row EXCEPT !.previous = seen.current]
           b == [a EXCEPT !.current = row.minted + 1]
           c == [b EXCEPT !.usedAt = now]
           d == [c EXCEPT !.minted = row.minted + 1]
           Same(x, y) == /\ x.expiresAt = y.expiresAt /\ x.revoked = y.revoked
                         /\ x.version = y.version /\ x.during = y.during
<1>1. row.minted + 1 \in Nat \ {0} /\ seen.current \in Nat
  BY DEF SessionRow
<1>2. a \in SessionRow /\ a.previous = seen.current /\ a.minted = row.minted /\ Same(a, row)
  BY <1>1 DEF SessionRow
<1> HIDE DEF a
<1>3. /\ b \in SessionRow /\ b.previous = a.previous /\ b.minted = a.minted
      /\ b.current = row.minted + 1 /\ Same(b, a)
  BY <1>1, <1>2 DEF SessionRow
<1> HIDE DEF b
<1>4. /\ c \in SessionRow /\ c.previous = b.previous /\ c.minted = b.minted
      /\ c.current = b.current /\ c.usedAt = now /\ Same(c, b)
  BY <1>3 DEF SessionRow
<1> HIDE DEF c
<1>5. /\ d \in SessionRow /\ d.previous = c.previous /\ d.minted = row.minted + 1
      /\ d.current = c.current /\ d.usedAt = c.usedAt /\ Same(d, c)
  BY <1>1, <1>4 DEF SessionRow
<1>6. Rotated(row, seen, now) = d
  BY DEF Rotated, a, b, c
<1> HIDE DEF d
<1> QED BY <1>2, <1>3, <1>4, <1>5, <1>6

-----------------------------------------------------------------------------
(* IInv is inductive.                                                      *)

\* What a request that begins has read.
MayBegin(what) ==
    /\ what.kind = "login" =>
          /\ ~Exists(what.sid) /\ what.version <= password
          /\ \A q \in Requests : req[q].kind = "login" => req[q].sid # what.sid
    /\ what.kind = "refresh" =>
          /\ Exists(what.sid)
          /\ what.seen.current <= sess[what.sid].minted
    /\ what.kind \in {"reuse", "revoke", "password"} => Exists(what.sid)
    /\ what.kind = "password" => what.others = None

LEMMA StartServed ==
    ASSUME IInv, NEW r \in Requests, NEW what \in Serving, MayBegin(what),
           Start(r, what), UNCHANGED <<sess, password>>
    PROVE  /\ req' \in [Requests -> Serving \cup {Idle}] /\ started' \in 0..MaxStarts
           /\ ServedInv'
<1>1. /\ req' \in [Requests -> Serving \cup {Idle}] /\ req'[r] = what
      /\ \A q \in Requests \ {r} : req'[q] = req[q]
  BY DEF Start, IInv, TypeOK
<1>2. started' \in 0..MaxStarts
  BY SessionAssumption DEF Start, IInv, TypeOK
<1>3. \A s : Exists(s)' = Exists(s)
  BY DEF Exists
<1>4. ASSUME NEW q \in Requests
      PROVE  Served(q)'
  <2>1. CASE q = r
    BY <1>1, <1>3, <2>1 DEF Served, MayBegin, Changing, InFlight
  <2>2. CASE q # r
    <3>1. Served(q) /\ req'[q] = req[q] /\ (q \in Changing)' = (q \in Changing)
      BY <1>1, <2>2 DEF IInv, ServedInv, Changing, InFlight
    <3>2. req[q].kind = "login" =>
            /\ ~Exists(req[q].sid)' /\ req[q].version <= password'
            /\ \A p \in Requests \ {q} : req'[p].kind = "login" => req'[p].sid # req[q].sid
      BY <1>1, <1>3, <2>2, <3>1 DEF Served, MayBegin
    <3> QED BY <1>3, <3>1, <3>2 DEF Served
  <2> QED BY <2>1, <2>2
<1> QED BY <1>1, <1>2, <1>4 DEF ServedInv

LEMMA EndServed ==
    ASSUME IInv, NEW r \in Requests, req' = [req EXCEPT ![r] = Idle],
           \A s \in Sids : Exists(s) => Exists(s)' /\ sess[s].minted <= sess'[s].minted,
           \A s \in Sids : Exists(s)' => sess'[s] \in SessionRow,
           \A s \in Sids : Exists(s)' =>
              Exists(s) \/ (req[r].kind = "login" /\ s = req[r].sid),
           password' \in Nat, password <= password'
    PROVE  /\ req' \in [Requests -> Serving \cup {Idle}]
           /\ ServedInv'
<1>1. /\ req' \in [Requests -> Serving \cup {Idle}] /\ req'[r] = Idle
      /\ \A q \in Requests \ {r} : req'[q] = req[q]
  BY DEF IInv, TypeOK
<1>2. ASSUME NEW q \in Requests
      PROVE  Served(q)'
  <2>1. CASE q = r
    BY <1>1, <2>1 DEF Served, Idle, Changing, InFlight
  <2>2. CASE q # r
    <3>1. Served(q) /\ Served(r) /\ req'[q] = req[q] /\ (q \in Changing)' = (q \in Changing)
      BY <1>1, <2>2 DEF IInv, ServedInv, Changing, InFlight
    <3>2. req[q].kind = "login" => Served(q)'
      <4> HAVE req[q].kind = "login"
      <4>1. req[q].sid \in Sids /\ ~Exists(req[q].sid)
        BY <3>1, SidType DEF IInv, Served
      <4>2. ~Exists(req[q].sid)'
        BY <2>2, <3>1, <4>1 DEF Served, Exists
      <4>3. \A p \in Requests \ {q} : req'[p].kind = "login" => req'[p].sid # req[q].sid
        BY <1>1, <3>1 DEF Served, Idle
      <4>4. q \notin Changing
        BY DEF Changing, InFlight
      <4>5. req[q].version \in Nat /\ req[q].version <= password /\ password \in Nat
        BY <3>1, Kinds DEF Served, IInv, TypeOK
      <4>6. req[q].version <= password'
        BY <4>5
      <4> QED BY <3>1, <4>2, <4>3, <4>4, <4>6 DEF Served
    <3>3. req[q].kind = "refresh" => Served(q)'
      <4> HAVE req[q].kind = "refresh"
      <4>1. /\ req[q].sid \in Sids /\ Exists(req[q].sid) /\ req[q].seen \in SessionRow
            /\ req[q].seen.current <= sess[req[q].sid].minted
        BY <3>1, Kinds DEF IInv, Served
      <4>2. /\ Exists(req[q].sid)' /\ sess[req[q].sid].minted <= sess'[req[q].sid].minted
            /\ sess[req[q].sid] \in SessionRow /\ sess'[req[q].sid] \in SessionRow
        <5>1. Exists(req[q].sid)' /\ sess[req[q].sid].minted <= sess'[req[q].sid].minted
          BY <3>1, <4>1 DEF Exists
        <5>2. sess[req[q].sid] \in SessionRow
          BY <4>1, RowType DEF IInv
        <5>3. sess'[req[q].sid] \in SessionRow
          BY <3>1, <4>1, <5>1 DEF Exists
        <5> QED BY <5>1, <5>2, <5>3
      <4>3. req[q].seen.current <= sess'[req[q].sid].minted
        BY <4>1, <4>2 DEF SessionRow
      <4>4. q \notin Changing
        BY DEF Changing, InFlight
      <4> QED BY <3>1, <4>2, <4>3, <4>4 DEF Served
    <3>4. req[q].kind \notin {"login", "refresh"} => Served(q)'
      <4> HAVE req[q].kind \notin {"login", "refresh"}
      <4>1. req[q].kind # "idle" => req[q].sid \in Sids
        BY SidType DEF IInv
      <4>2. q \in Changing => req[q].others \in SUBSET Sids
        BY Kinds DEF IInv, Changing, InFlight
      <4> QED BY <3>1, <4>1, <4>2 DEF Served
    <3> QED BY <3>2, <3>3, <3>4
  <2> QED BY <2>1, <2>2
<1> QED BY <1>1, <1>2 DEF ServedInv

LEMMA InitInv == Init => IInv
<1> SUFFICES ASSUME Init PROVE IInv
  OBVIOUS
<1>1. \A s : ~Exists(s) \/ s \notin Sids
  BY DEF Init, Exists
<1>2. TypeOK
  BY <1>1, SessionAssumption DEF Init, TypeOK, Client, NewClient
<1>3. ServedInv
  BY DEF Init, ServedInv, Served, Idle, Changing, InFlight
<1> QED BY <1>2, <1>3 DEF IInv

\* A token of s that is accepted or recognised begins a request.
LEMMA PresentServed ==
    ASSUME IInv, NEW r \in Requests, NEW s \in Sids, NEW n, Exists(s), Present(r, s, n),
           UNCHANGED <<sess, password>>
    PROVE  /\ req' \in [Requests -> Serving \cup {Idle}] /\ started' \in 0..MaxStarts
           /\ ServedInv'
<1>1. sess[s] \in SessionRow /\ sess[s].current <= sess[s].minted /\ clock \in 0..MaxTime
  BY RowType DEF IInv, TypeOK
<1>2. CASE Start(r, [kind |-> "refresh", sid |-> s, seen |-> sess[s], now |-> clock])
  <2> DEFINE what == [kind |-> "refresh", sid |-> s, seen |-> sess[s], now |-> clock]
  <2>1. what \in Serving /\ MayBegin(what)
    BY <1>1 DEF Serving, MayBegin
  <2>2. Start(r, what)
    BY <1>2
  <2> HIDE DEF what
  <2> QED BY <2>1, <2>2, StartServed
<1>3. CASE Start(r, [kind |-> "reuse", sid |-> s])
  <2> DEFINE what == [kind |-> "reuse", sid |-> s]
  <2>1. what \in Serving /\ MayBegin(what)
    BY DEF Serving, MayBegin
  <2>2. Start(r, what)
    BY <1>3
  <2> HIDE DEF what
  <2> QED BY <2>1, <2>2, StartServed
<1> QED BY <1>2, <1>3 DEF Present

\* A step that leaves the rows and the password alone.
LEMMA RowsKept ==
    ASSUME IInv, UNCHANGED <<sess, password>>,
           /\ clock' \in 0..MaxTime /\ started' \in 0..MaxStarts
           /\ req' \in [Requests -> Serving \cup {Idle}]
           /\ client' \in [Sids -> Client] /\ replayed' \in [Sids -> BOOLEAN],
           ServedInv'
    PROVE  IInv'
  BY DEF IInv, TypeOK, Exists

\* A step that ends a request and replaces rows.
LEMMA RowsReplaced ==
    ASSUME IInv, NEW r \in Requests, req' = [req EXCEPT ![r] = Idle],
           DOMAIN sess' = Sids, sess' = [s \in Sids |-> sess'[s]],
           \A s \in Sids :
              \/ sess'[s] = sess[s]
              \/ /\ Exists(s) \/ (req[r].kind = "login" /\ s = req[r].sid)
                 /\ sess'[s] \in SessionRow
                 /\ Exists(s) => sess[s].minted <= sess'[s].minted
                 /\ sess'[s].previous < sess'[s].current
                 /\ sess'[s].current <= sess'[s].minted
                 /\ sess'[s].version <= password',
           password' \in Nat, password <= password',
           client' \in [Sids -> Client], UNCHANGED <<clock, started, replayed>>
    PROVE  IInv'
<1>1. ASSUME NEW s \in Sids
      PROVE  /\ Exists(s) => Exists(s)' /\ sess[s].minted <= sess'[s].minted
             /\ Exists(s)' => sess'[s] \in SessionRow
             /\ Exists(s)' => Exists(s) \/ (req[r].kind = "login" /\ s = req[r].sid)
             /\ sess'[s] \in SessionRow \cup {NoSession}
             /\ Exists(s)' => /\ sess'[s].previous < sess'[s].current
                              /\ sess'[s].current <= sess'[s].minted
                              /\ sess'[s].version <= password'
  <2>1. CASE sess'[s] = sess[s]
    <3>1. Exists(s)' = Exists(s)
      BY <2>1 DEF Exists
    <3>2. CASE Exists(s)
      <4>1. /\ sess[s] \in SessionRow
            /\ sess[s].previous < sess[s].current /\ sess[s].current <= sess[s].minted
            /\ sess[s].version <= password
        BY <3>2, RowType DEF IInv
      <4>2. /\ sess[s].minted \in Nat /\ sess[s].version \in Nat /\ password \in Nat
        BY <4>1 DEF SessionRow, IInv, TypeOK
      <4> QED BY <2>1, <3>1, <3>2, <4>1, <4>2
    <3>3. CASE ~Exists(s)
      BY <2>1, <3>1, <3>3 DEF Exists
    <3> QED BY <3>2, <3>3
  <2>2. CASE sess'[s] # sess[s]
    <3>1. sess'[s] \in SessionRow
      BY <2>2
    <3>2. Exists(s)'
      BY <3>1, NoRow DEF Exists
    <3> QED BY <2>2, <3>1, <3>2
  <2> QED BY <2>1, <2>2
<1>2. req' \in [Requests -> Serving \cup {Idle}] /\ ServedInv'
  BY <1>1, EndServed
<1>3. sess' \in [Sids -> SessionRow \cup {NoSession}]
  BY <1>1
<1>4. clock' \in 0..MaxTime /\ started' \in 0..MaxStarts /\ replayed' \in [Sids -> BOOLEAN]
  BY DEF IInv, TypeOK
<1> QED BY <1>1, <1>2, <1>3, <1>4 DEF IInv, TypeOK

LEMMA TryingType ==
    ASSUME NEW c \in Client, NEW r \in Requests, clock \in Nat, NEW busy \in BOOLEAN
    PROVE  LET new == Trying(c, r, busy)
           IN  /\ new \in Client /\ new.held = c.held /\ new.tries = c.tries + 1
               /\ new.since = (IF c.tries = 0 THEN clock ELSE c.since)
               /\ new.tangled = (c.tangled \/ busy)
<1> DEFINE since == IF c.tries = 0 THEN clock ELSE c.since
           tangled == c.tangled \/ busy
           a == [c EXCEPT !.tries = c.tries + 1]
           b == [a EXCEPT !.waits = r]
           d == [b EXCEPT !.since = since]
           e == [d EXCEPT !.tangled = tangled]
<1>1. since \in Nat /\ tangled \in BOOLEAN /\ c.tries + 1 \in Nat
  BY DEF Client
<1>2. /\ a \in Client /\ a.held = c.held /\ a.tries = c.tries + 1
  BY <1>1 DEF Client
<1>3. Trying(c, r, busy) = e
  BY DEF Trying
<1> HIDE DEF a, since, tangled
<1>4. /\ b \in Client /\ b.held = a.held /\ b.tries = a.tries
  BY <1>2 DEF Client
<1> HIDE DEF b
<1>5. /\ d \in Client /\ d.held = b.held /\ d.tries = b.tries /\ d.since = since
  BY <1>1, <1>4 DEF Client
<1> HIDE DEF d
<1>6. /\ e \in Client /\ e.held = d.held /\ e.tries = d.tries /\ e.since = d.since
      /\ e.tangled = tangled
  BY <1>1, <1>5 DEF Client
<1> HIDE DEF e
<1> QED BY <1>2, <1>3, <1>4, <1>5, <1>6 DEF since, tangled

LEMMA AnsweredType ==
    ASSUME NEW c \in Client, NEW r \in Requests, NEW delivered \in BOOLEAN, NEW token \in Nat
    PROVE  LET new == Answered(c, r, delivered, token)
           IN  /\ new \in Client /\ new.held = (IF delivered THEN token ELSE c.held)
               /\ new.tries = (IF delivered THEN 0 ELSE c.tries)
               /\ new.since = c.since /\ new.tangled = c.tangled
               /\ new.waits = (IF c.waits = r THEN None ELSE c.waits)
<1> DEFINE held == IF delivered THEN token ELSE c.held
           tries == IF delivered THEN 0 ELSE c.tries
           waits == IF c.waits = r THEN None ELSE c.waits
           a == [c EXCEPT !.held = held]
           b == [a EXCEPT !.tries = tries]
           d == [b EXCEPT !.waits = waits]
<1>1. held \in Nat /\ tries \in Nat /\ waits \in Requests \cup {None}
  BY DEF Client
<1>2. Answered(c, r, delivered, token) = d
  BY DEF Answered
<1> HIDE DEF held, tries, waits
<1>3. /\ a \in Client /\ a.held = held /\ a.since = c.since /\ a.tangled = c.tangled
  BY <1>1 DEF Client
<1> HIDE DEF a
<1>4. /\ b \in Client /\ b.held = a.held /\ b.tries = tries
      /\ b.since = a.since /\ b.tangled = a.tangled
  BY <1>1, <1>3 DEF Client
<1> HIDE DEF b
<1>5. /\ d \in Client /\ d.held = b.held /\ d.tries = b.tries /\ d.waits = waits
      /\ d.since = b.since /\ d.tangled = b.tangled
  BY <1>1, <1>4 DEF Client
<1> HIDE DEF d
<1> QED BY <1>2, <1>3, <1>4, <1>5 DEF held, tries, waits

\* No token came.
LEMMA UnansweredType ==
    ASSUME NEW c \in Client, NEW r \in Requests
    PROVE  /\ Answered(c, r, FALSE, 0).held = c.held
           /\ Answered(c, r, FALSE, 0).tries = c.tries
           /\ Answered(c, r, FALSE, 0).since = c.since
           /\ Answered(c, r, FALSE, 0).tangled = c.tangled
<1>1. ASSUME NEW d \in BOOLEAN, ~d
      PROVE  /\ Answered(c, r, d, 0).held = c.held /\ Answered(c, r, d, 0).tries = c.tries
             /\ Answered(c, r, d, 0).since = c.since
             /\ Answered(c, r, d, 0).tangled = c.tangled
  <2> DEFINE new == Answered(c, r, d, 0)
  <2>1. /\ new.held = (IF d THEN 0 ELSE c.held) /\ new.tries = (IF d THEN 0 ELSE c.tries)
        /\ new.since = c.since /\ new.tangled = c.tangled
    BY AnsweredType
  <2> HIDE DEF new
  <2>2. new.held = c.held /\ new.tries = c.tries
    BY <1>1, <2>1
  <2> QED BY <2>1, <2>2 DEF new
<1> QED BY <1>1

LEMMA LoadStep ==
    ASSUME IInv, NEW r \in Requests, NEW s \in Sids,
           \/ LoadLogin(r, s) \/ LoadRefresh(r, s) \/ LoadReplay(r, s)
           \/ LoadPassword(r, s) \/ \E own \in Sids : LoadRevoke(r, own, s)
    PROVE  IInv'
<1>1. CASE LoadLogin(r, s)
  <2> DEFINE what == [kind |-> "login", sid |-> s, version |-> password]
  <2>1. what \in Serving /\ MayBegin(what)
    <3>1. password \in Nat /\ ~Exists(s)
      BY <1>1 DEF LoadLogin, IInv, TypeOK
    <3>2. \A q \in Requests : req[q].kind = "login" => req[q].sid # s
      BY <1>1 DEF LoadLogin, InFlight
    <3> QED BY <3>1, <3>2 DEF Serving, MayBegin
  <2>2. Start(r, what) /\ UNCHANGED <<sess, password, clock, client, replayed>>
    BY <1>1 DEF LoadLogin
  <2> HIDE DEF what
  <2>3. /\ req' \in [Requests -> Serving \cup {Idle}] /\ started' \in 0..MaxStarts
        /\ ServedInv'
    BY <2>1, <2>2, StartServed
  <2> QED BY <2>2, <2>3, RowsKept DEF IInv, TypeOK
<1>2. CASE LoadRefresh(r, s)
  <2>1. Exists(s) /\ Present(r, s, client[s].held) /\ UNCHANGED <<sess, password, clock, replayed>>
    BY <1>2 DEF LoadRefresh
  <2>2. /\ req' \in [Requests -> Serving \cup {Idle}] /\ started' \in 0..MaxStarts
        /\ ServedInv'
    BY <2>1, PresentServed
  <2>3. client[s] \in Client /\ clock \in Nat
    BY SessionAssumption DEF IInv, TypeOK
  <2> DEFINE new == Trying(client[s], r, RefreshesOf(s) # {})
  <2>4. new \in Client
    BY <2>3, TryingType
  <2>5. client' = [client EXCEPT ![s] = new]
    BY <1>2 DEF LoadRefresh
  <2> HIDE DEF new
  <2>6. client' \in [Sids -> Client]
    BY <2>4, <2>5 DEF IInv, TypeOK
  <2> QED BY <2>1, <2>2, <2>6, RowsKept DEF IInv, TypeOK
<1>3. CASE LoadReplay(r, s)
  <2>1. PICK n \in 1..sess[s].minted : Present(r, s, n)
    BY <1>3 DEF LoadReplay
  <2>2. Exists(s) /\ UNCHANGED <<sess, password, clock, client>>
    BY <1>3 DEF LoadReplay
  <2>3. /\ req' \in [Requests -> Serving \cup {Idle}] /\ started' \in 0..MaxStarts
        /\ ServedInv'
    BY <2>1, <2>2, PresentServed
  <2>4. replayed' \in [Sids -> BOOLEAN]
    BY <1>3 DEF LoadReplay, IInv, TypeOK
  <2> QED BY <2>2, <2>3, <2>4, RowsKept DEF IInv, TypeOK
<1>4. CASE LoadPassword(r, s)
  <2> DEFINE what == [kind |-> "password", sid |-> s, others |-> None]
  <2>1. what \in Serving /\ MayBegin(what)
    BY <1>4 DEF Serving, MayBegin, LoadPassword, Valid
  <2>2. Start(r, what) /\ UNCHANGED <<sess, password, clock, client, replayed>>
    BY <1>4 DEF LoadPassword
  <2> HIDE DEF what
  <2>3. /\ req' \in [Requests -> Serving \cup {Idle}] /\ started' \in 0..MaxStarts
        /\ ServedInv'
    BY <2>1, <2>2, StartServed
  <2> QED BY <2>2, <2>3, RowsKept DEF IInv, TypeOK
<1>5. CASE \E own \in Sids : LoadRevoke(r, own, s)
  <2> DEFINE what == [kind |-> "revoke", sid |-> s]
  <2>1. what \in Serving /\ MayBegin(what)
    BY <1>5 DEF Serving, MayBegin, LoadRevoke
  <2>2. Start(r, what) /\ UNCHANGED <<sess, password, clock, client, replayed>>
    BY <1>5 DEF LoadRevoke
  <2> HIDE DEF what
  <2>3. /\ req' \in [Requests -> Serving \cup {Idle}] /\ started' \in 0..MaxStarts
        /\ ServedInv'
    BY <2>1, <2>2, StartServed
  <2> QED BY <2>2, <2>3, RowsKept DEF IInv, TypeOK
<1> QED BY <1>1, <1>2, <1>3, <1>4, <1>5

LEMMA CommitLoginStep ==
    ASSUME IInv, NEW r \in Requests, CommitLogin(r)
    PROVE  IInv'
<1> DEFINE row == NewSession(req[r].version, req[r].version # password \/ Changing # {})
<1>1. req[r].kind = "login" /\ req[r].sid \in Sids /\ req[r].version \in Nat
  BY Kinds DEF CommitLogin, IInv
<1>2. ~Exists(req[r].sid) /\ req[r].version <= password
  BY <1>1 DEF IInv, ServedInv, Served
<1>3. /\ row \in SessionRow /\ row.previous < row.current /\ row.current <= row.minted
      /\ row.version <= password
  <2> DEFINE during == req[r].version # password \/ Changing # {}
             new == NewSession(req[r].version, during)
  <2>1. during \in BOOLEAN
    OBVIOUS
  <2> HIDE DEF during
  <2>2. /\ new \in SessionRow /\ new.current = 1 /\ new.minted = 1
        /\ new.previous = 0 /\ new.version = req[r].version
    BY <1>1, <2>1, NewSessionType DEF IInv
  <2>3. new = row
    BY DEF during
  <2> QED BY <1>2, <2>2, <2>3
<1>4. /\ sess' = [sess EXCEPT ![req[r].sid] = row] /\ req' = [req EXCEPT ![r] = Idle]
      /\ UNCHANGED <<password, clock, started, client, replayed>>
  BY DEF CommitLogin
<1> HIDE DEF row
<1>5. ASSUME NEW s \in Sids
      PROVE  \/ sess'[s] = sess[s]
             \/ s = req[r].sid /\ sess'[s] = row /\ ~Exists(s)
  BY <1>2, <1>4 DEF IInv, TypeOK
<1>6. DOMAIN sess' = Sids /\ sess' = [s \in Sids |-> sess'[s]]
  BY <1>4 DEF IInv, TypeOK
<1>7. password' \in Nat /\ password <= password' /\ client' \in [Sids -> Client]
  BY <1>4 DEF IInv, TypeOK
<1> QED BY <1>1, <1>3, <1>4, <1>5, <1>6, <1>7, RowsReplaced

LEMMA CommitRefreshStep ==
    ASSUME IInv, NEW r \in Requests, NEW delivered \in BOOLEAN, CommitRefresh(r, delivered)
    PROVE  IInv'
<1> DEFINE s0 == req[r].sid
           row == Rotated(sess[s0], req[r].seen, req[r].now)
<1>1. /\ req[r].kind = "refresh" /\ s0 \in Sids /\ req[r].seen \in SessionRow
      /\ req[r].now \in 0..MaxTime
  BY Kinds DEF CommitRefresh, IInv
<1>2. Exists(s0) /\ req[r].seen.current <= sess[s0].minted
  BY <1>1 DEF IInv, ServedInv, Served
<1>3. sess[s0] \in SessionRow /\ sess[s0].version <= password
  BY <1>1, <1>2, RowType DEF IInv
<1>4. /\ row \in SessionRow /\ row.current = sess[s0].minted + 1
      /\ row.minted = sess[s0].minted + 1 /\ row.previous = req[r].seen.current
      /\ row.version = sess[s0].version
  <2> DEFINE old == sess[s0]
             seen == req[r].seen
             now == req[r].now
  <2>1. old \in SessionRow /\ seen \in SessionRow /\ now \in 0..MaxTime
    BY <1>1, <1>3
  <2>2. row = Rotated(old, seen, now)
    OBVIOUS
  <2> HIDE DEF old, seen, now, row
  <2>3. /\ row \in SessionRow /\ row.current = old.minted + 1
        /\ row.minted = old.minted + 1 /\ row.previous = seen.current
        /\ row.version = old.version
    BY <2>1, <2>2, RotatedType
  <2> QED BY <2>3 DEF old, seen, now
<1>5. /\ sess' = [sess EXCEPT ![s0] = row] /\ req' = [req EXCEPT ![r] = Idle]
      /\ UNCHANGED <<password, clock, started, replayed>>
  BY DEF CommitRefresh
<1> HIDE DEF row
<1>6. /\ row.previous < row.current /\ row.current <= row.minted
      /\ sess[s0].minted <= row.minted /\ row.version <= password /\ row.current \in Nat
  BY <1>1, <1>2, <1>3, <1>4 DEF SessionRow
<1>7. client' \in [Sids -> Client]
  <2> DEFINE new == Answered(client[s0], r, delivered, row.current)
  <2>1. new \in Client
    BY <1>1, <1>6, AnsweredType DEF IInv, TypeOK
  <2>2. client' = [client EXCEPT ![s0] = new]
    BY <1>4 DEF CommitRefresh
  <2> HIDE DEF new
  <2> QED BY <2>1, <2>2 DEF IInv, TypeOK
<1>8. ASSUME NEW s \in Sids
      PROVE  \/ sess'[s] = sess[s]
             \/ s = s0 /\ sess'[s] = row
  BY <1>5 DEF IInv, TypeOK
<1>9. DOMAIN sess' = Sids /\ sess' = [s \in Sids |-> sess'[s]]
  BY <1>5 DEF IInv, TypeOK
<1>10. password' \in Nat /\ password <= password'
  BY <1>5 DEF IInv, TypeOK
<1>11. ASSUME NEW s \in Sids
      PROVE  \/ sess'[s] = sess[s]
             \/ /\ Exists(s) \/ (req[r].kind = "login" /\ s = req[r].sid)
                /\ sess'[s] \in SessionRow
                /\ Exists(s) => sess[s].minted <= sess'[s].minted
                /\ sess'[s].previous < sess'[s].current
                /\ sess'[s].current <= sess'[s].minted
                /\ sess'[s].version <= password'
  <2>1. CASE sess'[s] = sess[s]
    BY <2>1
  <2>2. CASE s = s0 /\ sess'[s] = row
    BY <2>2, <1>2, <1>4, <1>5, <1>6
  <2> QED BY <1>8, <2>1, <2>2
<1> QED BY <1>5, <1>7, <1>9, <1>10, <1>11, RowsReplaced

\* CommitReuse and CommitRevoke.
LEMMA RevokeStep ==
    ASSUME IInv, NEW r \in Requests, req[r].kind \in {"reuse", "revoke"},
           NEW why \in {"reuse", "ended"}, sess' = [sess EXCEPT ![req[r].sid].revoked = why],
           req' = [req EXCEPT ![r] = Idle], client' \in [Sids -> Client],
           UNCHANGED <<password, clock, started, replayed>>
    PROVE  IInv'
<1> DEFINE s0 == req[r].sid
           row == [sess[s0] EXCEPT !.revoked = why]
<1>1. s0 \in Sids
  BY Kinds DEF IInv
<1>2. Exists(s0)
  BY DEF IInv, ServedInv, Served
<1>3. /\ sess[s0] \in SessionRow /\ sess[s0].version <= password
      /\ sess[s0].previous < sess[s0].current /\ sess[s0].current <= sess[s0].minted
  BY <1>1, <1>2, RowType DEF IInv
<1>4. /\ row \in SessionRow /\ row.current = sess[s0].current /\ row.minted = sess[s0].minted
      /\ row.previous = sess[s0].previous /\ row.version = sess[s0].version
  BY <1>3 DEF SessionRow
<1>5. sess' = [sess EXCEPT ![s0] = row]
  OBVIOUS
<1> HIDE DEF row
<1>6. /\ row.previous < row.current /\ row.current <= row.minted
      /\ sess[s0].minted <= row.minted /\ row.version <= password
  BY <1>3, <1>4 DEF SessionRow
<1>7. ASSUME NEW s \in Sids
      PROVE  \/ sess'[s] = sess[s]
             \/ s = s0 /\ sess'[s] = row
  BY <1>5 DEF IInv, TypeOK
<1>8. DOMAIN sess' = Sids /\ sess' = [s \in Sids |-> sess'[s]]
  BY <1>5 DEF IInv, TypeOK
<1>9. password' \in Nat /\ password <= password'
  BY DEF IInv, TypeOK
<1>10. ASSUME NEW s \in Sids
      PROVE  \/ sess'[s] = sess[s]
             \/ /\ Exists(s) \/ (req[r].kind = "login" /\ s = req[r].sid)
                /\ sess'[s] \in SessionRow
                /\ Exists(s) => sess[s].minted <= sess'[s].minted
                /\ sess'[s].previous < sess'[s].current
                /\ sess'[s].current <= sess'[s].minted
                /\ sess'[s].version <= password'
  <2>1. CASE sess'[s] = sess[s]
    BY <2>1
  <2>2. CASE s = s0 /\ sess'[s] = row
    BY <2>2, <1>2, <1>4, <1>6
  <2> QED BY <1>7, <2>1, <2>2
<1> QED BY <1>8, <1>9, <1>10, RowsReplaced

LEMMA ReadOthersStep ==
    ASSUME IInv, NEW r \in Requests, ReadOthers(r)
    PROVE  IInv'
<1> DEFINE list == Others(req[r].sid)
           new == [req[r] EXCEPT !.others = list]
<1>1. /\ req[r].kind = "password"
      /\ req[r] \in [kind : {"password"}, sid : Sids, others : {None} \cup SUBSET Sids]
  BY Kinds DEF ReadOthers, IInv
<1>2. list \in SUBSET Sids /\ \A s \in list : Exists(s)
  BY DEF Others
<1>3. /\ req' = [req EXCEPT ![r] = new]
      /\ UNCHANGED <<sess, password, clock, started, client, replayed>>
  BY DEF ReadOthers
<1> HIDE DEF list
<1>4. /\ new \in [kind : {"password"}, sid : Sids, others : {None} \cup SUBSET Sids]
      /\ new.kind = "password" /\ new.sid = req[r].sid /\ new.others = list
  BY <1>1, <1>2
<1> HIDE DEF new
<1>5. new \in Serving
  BY <1>4 DEF Serving
<1>6. /\ req' \in [Requests -> Serving \cup {Idle}] /\ req'[r] = new
      /\ \A q \in Requests \ {r} : req'[q] = req[q]
  BY <1>3, <1>5 DEF IInv, TypeOK
<1>7. \A s : Exists(s)' = Exists(s)
  BY <1>3 DEF Exists
<1>8. ASSUME NEW q \in Requests
      PROVE  Served(q)'
  <2>1. CASE q = r
    <3>1. Exists(req[r].sid)
      BY <1>1 DEF IInv, ServedInv, Served
    <3> QED BY <1>2, <1>4, <1>6, <1>7, <2>1, <3>1 DEF Served
  <2>2. CASE q # r
    <3>1. Served(q) /\ req'[q] = req[q] /\ (q \in Changing)' = (q \in Changing)
      BY <1>6, <2>2 DEF IInv, ServedInv, Changing, InFlight
    <3>2. \A p \in Requests : req'[p].kind = "login" => p # r /\ req'[p] = req[p]
      BY <1>4, <1>6
    <3> QED BY <1>3, <1>7, <3>1, <3>2 DEF Served
  <2> QED BY <2>1, <2>2
<1>9. clock' \in 0..MaxTime /\ started' \in 0..MaxStarts /\ client' \in [Sids -> Client]
      /\ replayed' \in [Sids -> BOOLEAN]
  BY <1>3 DEF IInv, TypeOK
<1> QED BY <1>3, <1>6, <1>8, <1>9, RowsKept DEF ServedInv

\* What a change of password makes of a row.
LEMMA ChangedRow ==
    ASSUME IInv, NEW r \in Requests, CommitPassword(r), NEW s \in Sids
    PROVE  /\ s \in req[r].others =>
                Exists(s) /\ sess'[s] = [sess[s] EXCEPT !.revoked = "password"]
           /\ s \notin req[r].others /\ s = req[r].sid =>
                Exists(s) /\ sess'[s] = [sess[s] EXCEPT !.version = password + 1]
           /\ s \notin req[r].others /\ s # req[r].sid => sess'[s] = sess[s]
<1>1. r \in Changing /\ req[r].kind = "password" /\ Served(r)
  BY DEF CommitPassword, Changing, InFlight, IInv, ServedInv
<1>2. Exists(req[r].sid) /\ \A x \in req[r].others : Exists(x)
  BY <1>1 DEF Served
<1>3. sess'[s] = IF s \in req[r].others THEN [sess[s] EXCEPT !.revoked = "password"]
                 ELSE IF s = req[r].sid THEN [sess[s] EXCEPT !.version = password + 1]
                 ELSE sess[s]
  BY DEF CommitPassword
<1> QED BY <1>2, <1>3

LEMMA CommitPasswordStep ==
    ASSUME IInv, NEW r \in Requests, CommitPassword(r)
    PROVE  IInv'
<1>1. /\ req' = [req EXCEPT ![r] = Idle] /\ password' = password + 1
      /\ UNCHANGED <<clock, started, client, replayed>>
      /\ DOMAIN sess' = Sids /\ sess' = [s \in Sids |-> sess'[s]]
  BY DEF CommitPassword
<1>2. password \in Nat /\ password' \in Nat /\ password <= password'
  BY <1>1 DEF IInv, TypeOK
<1>3. ASSUME NEW s \in Sids
      PROVE  \/ sess'[s] = sess[s]
             \/ /\ Exists(s) /\ sess'[s] \in SessionRow
                /\ sess[s].minted <= sess'[s].minted
                /\ sess'[s].previous < sess'[s].current
                /\ sess'[s].current <= sess'[s].minted
                /\ sess'[s].version <= password'
  <2>1. CASE s \in req[r].others
    <3>1. Exists(s) /\ sess'[s] = [sess[s] EXCEPT !.revoked = "password"]
      BY <2>1, ChangedRow
    <3>2. /\ sess[s] \in SessionRow /\ sess[s].version <= password
          /\ sess[s].previous < sess[s].current /\ sess[s].current <= sess[s].minted
      BY <3>1, RowType DEF IInv
    <3>3. /\ sess'[s] \in SessionRow /\ sess'[s].current = sess[s].current
          /\ sess'[s].minted = sess[s].minted /\ sess'[s].previous = sess[s].previous
          /\ sess'[s].version = sess[s].version
      BY <3>1, <3>2 DEF SessionRow
    <3> QED BY <1>2, <3>1, <3>2, <3>3 DEF SessionRow
  <2>2. CASE s \notin req[r].others /\ s = req[r].sid
    <3>1. Exists(s) /\ sess'[s] = [sess[s] EXCEPT !.version = password + 1]
      BY <2>2, ChangedRow
    <3>2. /\ sess[s] \in SessionRow
          /\ sess[s].previous < sess[s].current /\ sess[s].current <= sess[s].minted
      BY <3>1, RowType DEF IInv
    <3>3. /\ sess'[s] \in SessionRow /\ sess'[s].current = sess[s].current
          /\ sess'[s].minted = sess[s].minted /\ sess'[s].previous = sess[s].previous
          /\ sess'[s].version = password'
      BY <1>1, <1>2, <3>1, <3>2 DEF SessionRow
    <3> QED BY <1>2, <3>1, <3>2, <3>3 DEF SessionRow
  <2>3. CASE s \notin req[r].others /\ s # req[r].sid
    BY <2>3, ChangedRow
  <2> QED BY <2>1, <2>2, <2>3
<1>4. client' \in [Sids -> Client]
  BY <1>1 DEF IInv, TypeOK
<1> QED BY <1>1, <1>2, <1>3, <1>4, RowsReplaced

LEMMA FailStep ==
    ASSUME IInv, NEW r \in Requests, Fail(r)
    PROVE  IInv'
<1>1. /\ req' = [req EXCEPT ![r] = Idle]
      /\ client' = [s \in Sids |-> Answered(client[s], r, FALSE, 0)]
      /\ UNCHANGED <<sess, password, clock, started, replayed>>
  BY DEF Fail
<1>2. \A s \in Sids : Answered(client[s], r, FALSE, 0) \in Client
  BY AnsweredType DEF IInv, TypeOK
<1>3. client' \in [Sids -> Client]
  BY <1>1, <1>2
<1>4. DOMAIN sess' = Sids /\ sess' = [s \in Sids |-> sess'[s]]
  BY <1>1 DEF IInv, TypeOK
<1>5. password' \in Nat /\ password <= password'
  BY <1>1 DEF IInv, TypeOK
<1> QED BY <1>1, <1>3, <1>4, <1>5, RowsReplaced

\* Every request in flight is one of Next's steps.
LEMMA StepInv == IInv /\ [Next]_vars => IInv'
<1> SUFFICES ASSUME IInv, [Next]_vars PROVE IInv'
  OBVIOUS
<1>1. CASE UNCHANGED vars
  <2>1. \A r \in Requests : Served(r) => Served(r)'
    BY <1>1 DEF vars, Served, Exists, Changing, InFlight
  <2> QED BY <1>1, <2>1, RowsKept DEF vars, IInv, ServedInv, TypeOK
<1>2. CASE Tick
  <2>1. \A r \in Requests : Served(r) => Served(r)'
    BY <1>2 DEF Tick, Served, Exists, Changing, InFlight
  <2>2. clock' \in 0..MaxTime
    BY <1>2, SessionAssumption DEF Tick, IInv, TypeOK
  <2> QED BY <1>2, <2>1, <2>2, RowsKept DEF Tick, IInv, ServedInv, TypeOK
<1>3. ASSUME NEW r \in Requests, NEW s \in Sids,
             \/ LoadLogin(r, s) \/ LoadRefresh(r, s) \/ LoadReplay(r, s)
             \/ LoadPassword(r, s) \/ \E own \in Sids : LoadRevoke(r, own, s)
      PROVE  IInv'
  BY <1>3, LoadStep
<1>4. ASSUME NEW r \in Requests, CommitReuse(r)
      PROVE  IInv'
  <2>1. req[r].sid \in Sids
    BY <1>4, Kinds DEF CommitReuse, IInv
  <2>2. Answered(client[req[r].sid], r, FALSE, 0) \in Client
    BY <2>1, AnsweredType DEF IInv, TypeOK
  <2>3. client' \in [Sids -> Client]
    BY <1>4, <2>1, <2>2 DEF CommitReuse, IInv, TypeOK
  <2> QED BY <1>4, <2>3, RevokeStep DEF CommitReuse
<1>5. ASSUME NEW r \in Requests, CommitRevoke(r)
      PROVE  IInv'
  <2>1. client' \in [Sids -> Client]
    BY <1>5 DEF CommitRevoke, IInv, TypeOK
  <2> QED BY <1>5, <2>1, RevokeStep DEF CommitRevoke
<1> QED BY <1>1, <1>2, <1>3, <1>4, <1>5, CommitLoginStep, ReadOthersStep, CommitPasswordStep,
           CommitRefreshStep, FailStep DEF Next

THEOREM Invariance == Spec => []IInv
  BY InitInv, StepInv, PTL DEF Spec

\* The type invariant: the token a session holds was issued, the previous
\* one before it, and every request in flight is about a session there is.
THEOREM TypeCorrect == Spec => []TypeOK
<1>1. IInv => TypeOK
  BY DEF IInv
<1> QED BY <1>1, Invariance, PTL

-----------------------------------------------------------------------------
(* Revocation.                                                             *)

\* What a step leaves of a row unless it is a sign-in or a change of password.
RowKept(s) ==
    /\ Exists(s) /\ sess'[s] \in SessionRow
    /\ sess'[s].version = sess[s].version /\ sess'[s].during = sess[s].during
    /\ sess[s].revoked # "no" => sess'[s].revoked # "no"

LEMMA RefreshKeeps ==
    ASSUME IInv, NEW r \in Requests, NEW delivered \in BOOLEAN, CommitRefresh(r, delivered),
           NEW s \in Sids, Exists(s) \/ Exists(s)'
    PROVE  RowKept(s)
<1> DEFINE row == Rotated(sess[req[r].sid], req[r].seen, req[r].now)
<1>1. /\ req[r].kind = "refresh" /\ req[r].sid \in Sids /\ req[r].seen \in SessionRow
      /\ req[r].now \in 0..MaxTime
  BY Kinds DEF CommitRefresh, IInv
<1>2. Exists(req[r].sid) /\ sess[req[r].sid] \in SessionRow
  BY <1>1, RowType DEF IInv, ServedInv, Served
<1>3. /\ row \in SessionRow /\ row.version = sess[req[r].sid].version
      /\ row.during = sess[req[r].sid].during /\ row.revoked = sess[req[r].sid].revoked
  <2> DEFINE old == sess[req[r].sid]
             seen == req[r].seen
             now == req[r].now
  <2>1. old \in SessionRow /\ seen \in SessionRow /\ now \in 0..MaxTime
    BY <1>1, <1>2
  <2>2. row = Rotated(old, seen, now)
    OBVIOUS
  <2> HIDE DEF old, seen, now, row
  <2>3. /\ row \in SessionRow /\ row.version = old.version
        /\ row.during = old.during /\ row.revoked = old.revoked
    BY <2>1, <2>2, RotatedType
  <2> QED BY <2>3 DEF old, seen, now
<1>4. sess' = [sess EXCEPT ![req[r].sid] = row]
  BY DEF CommitRefresh
<1> HIDE DEF row
<1>5. CASE s = req[r].sid
  BY <1>1, <1>2, <1>3, <1>4, <1>5 DEF RowKept, IInv, TypeOK
<1>6. CASE s # req[r].sid
  <2>1. sess'[s] = sess[s]
    BY <1>4, <1>6 DEF IInv, TypeOK
  <2>2. Exists(s) /\ sess[s] \in SessionRow
    BY <2>1, RowType DEF Exists, IInv
  <2> QED BY <2>1, <2>2 DEF RowKept
<1> QED BY <1>5, <1>6

LEMMA RevokeKeeps ==
    ASSUME IInv, NEW r \in Requests, req[r].kind \in {"reuse", "revoke"},
           NEW why \in {"reuse", "ended"}, sess' = [sess EXCEPT ![req[r].sid].revoked = why],
           NEW s \in Sids, Exists(s) \/ Exists(s)'
    PROVE  RowKept(s)
<1>1. req[r].sid \in Sids /\ Exists(req[r].sid) /\ sess[req[r].sid] \in SessionRow
  BY Kinds, RowType DEF IInv, ServedInv, Served
<1>2. CASE s = req[r].sid
  <2>1. sess'[s] = [sess[s] EXCEPT !.revoked = why]
    BY <1>1, <1>2 DEF IInv, TypeOK
  <2> QED BY <1>1, <1>2, <2>1 DEF RowKept, SessionRow
<1>3. CASE s # req[r].sid
  <2>1. sess'[s] = sess[s]
    BY <1>3 DEF IInv, TypeOK
  <2>2. Exists(s) /\ sess[s] \in SessionRow
    BY <2>1, RowType DEF Exists, IInv
  <2> QED BY <2>1, <2>2 DEF RowKept
<1> QED BY <1>2, <1>3

\* Every other step.
LEMMA SameRows ==
    ASSUME IInv, UNCHANGED sess, NEW s \in Sids, Exists(s) \/ Exists(s)'
    PROVE  RowKept(s)
<1>1. Exists(s) /\ sess[s] \in SessionRow
  BY RowType DEF Exists, IInv
<1> QED BY <1>1 DEF RowKept

LEMMA RowsKeptBy ==
    ASSUME IInv, [Next]_vars, NEW s \in Sids, Exists(s) \/ Exists(s)'
    PROVE  \/ RowKept(s)
           \/ \E r \in Requests : CommitLogin(r) \/ CommitPassword(r)
<1>1. CASE UNCHANGED sess
  BY <1>1, SameRows
<1>2. CASE \E r \in Requests : CommitReuse(r)
  BY <1>2, RevokeKeeps DEF CommitReuse
<1>3. CASE \E r \in Requests : CommitRevoke(r)
  BY <1>3, RevokeKeeps DEF CommitRevoke
<1>4. CASE \E r \in Requests, delivered \in BOOLEAN : CommitRefresh(r, delivered)
  BY <1>4, RefreshKeeps
<1> QED BY <1>1, <1>2, <1>3, <1>4
       DEF Next, vars, Tick, LoadLogin, LoadRefresh, LoadReplay, LoadPassword, LoadRevoke,
           ReadOthers, Fail

\* A sign-in inserts one row and leaves the others.
LEMMA LoginRow ==
    ASSUME IInv, NEW r \in Requests, CommitLogin(r), NEW s \in Sids
    PROVE  \/ s # req[r].sid /\ sess'[s] = sess[s]
           \/ /\ s = req[r].sid /\ ~Exists(s)
              /\ sess'[s] = NewSession(req[r].version,
                                       req[r].version # password \/ Changing # {})
              /\ sess'[s].current = 1 /\ sess'[s].previous = 0 /\ sess'[s].revoked = "no"
              /\ sess'[s].version = req[r].version
              /\ sess'[s].during = (req[r].version # password \/ Changing # {})
<1> DEFINE during == req[r].version # password \/ Changing # {}
           row == NewSession(req[r].version, during)
<1>1. req[r].kind = "login" /\ req[r].version \in Nat
  BY Kinds DEF CommitLogin, IInv
<1>2. ~Exists(req[r].sid)
  BY <1>1 DEF IInv, ServedInv, Served
<1>3. sess' = [sess EXCEPT ![req[r].sid] = row]
  BY DEF CommitLogin
<1>4. during \in BOOLEAN
  OBVIOUS
<1>5. ASSUME NEW d \in BOOLEAN
      PROVE  /\ NewSession(req[r].version, d).current = 1
             /\ NewSession(req[r].version, d).previous = 0
             /\ NewSession(req[r].version, d).revoked = "no"
             /\ NewSession(req[r].version, d).version = req[r].version
             /\ NewSession(req[r].version, d).during = d
  BY <1>1, NewSessionType DEF IInv
<1> HIDE DEF during
<1>6. /\ row.current = 1 /\ row.previous = 0 /\ row.revoked = "no"
      /\ row.version = req[r].version /\ row.during = during
  BY <1>4, <1>5
<1>7. \/ s # req[r].sid /\ sess'[s] = sess[s]
      \/ s = req[r].sid /\ sess'[s] = row
  <2> HIDE DEF row
  <2> QED BY <1>3 DEF IInv, TypeOK
<1>8. CASE s = req[r].sid /\ sess'[s] = row
  BY <1>2, <1>6, <1>8 DEF during
<1> QED BY <1>7, <1>8

\* A refresh, a sign-in or a change of password that was under way when a
\* session was revoked does not bring it back to life.
THEOREM RevocationIsFinal == Spec => RevokedIsFinal
<1>1. ASSUME IInv, [Next]_vars, NEW s \in Sids, Exists(s), sess[s].revoked # "no"
      PROVE  sess'[s].revoked # "no"
  <2>1. sess[s] \in SessionRow
    BY <1>1, RowType DEF IInv
  <2>2. CASE \E r \in Requests : CommitLogin(r)
    BY <1>1, <2>2, LoginRow
  <2>3. CASE \E r \in Requests : CommitPassword(r)
    <3>1. PICK r \in Requests : CommitPassword(r)
      BY <2>3
    <3> QED BY <1>1, <2>1, <3>1, ChangedRow DEF SessionRow
  <2>4. CASE ~\E r \in Requests : CommitLogin(r) \/ CommitPassword(r)
    BY <1>1, <2>4, RowsKeptBy DEF RowKept
  <2> QED BY <2>2, <2>3, <2>4
<1>2. IInv /\ [Next]_vars =>
        [\A s \in Sids : Exists(s) /\ sess[s].revoked # "no" => sess'[s].revoked # "no"]_vars
  BY <1>1
<1> QED BY <1>2, Invariance, PTL DEF Spec, RevokedIsFinal

-----------------------------------------------------------------------------
(* Change of password.                                                     *)

\* A sign-in that the present password does not vouch for is marked, so every
\* live session a change of password does not find is marked too.
Signed(s) == Exists(s) /\ sess[s].revoked = "no" /\ ~sess[s].during

PasswordInv ==
    \A s \in Sids : Signed(s) =>
        /\ sess[s].version = password
        /\ \A r \in Changing : s # req[r].sid => s \in req[r].others

\* A change of password that has read its list read it before this step, or
\* reads it now.
LEMMA ListKept ==
    ASSUME IInv, [Next]_vars, NEW r \in Requests, (r \in Changing)'
    PROVE  \/ r \in Changing /\ req'[r] = req[r]
           \/ ReadOthers(r)
<1>1. CASE UNCHANGED req
  BY <1>1 DEF Changing, InFlight
<1>2. ASSUME NEW q \in Requests, req' = [req EXCEPT ![q] = Idle]
      PROVE  r \in Changing /\ req'[r] = req[r]
  <2>1. q # r
    BY <1>2 DEF IInv, TypeOK, Idle, Changing, InFlight
  <2> QED BY <1>2, <2>1 DEF IInv, TypeOK, Changing, InFlight
<1>3. ASSUME NEW q \in Requests, NEW what, Start(q, what),
             what.kind = "password" => what.others = None
      PROVE  r \in Changing /\ req'[r] = req[r]
  <2>1. q # r
    BY <1>3 DEF Start, IInv, TypeOK, Changing, InFlight
  <2> QED BY <1>3, <2>1 DEF Start, IInv, TypeOK, Changing, InFlight
<1>4. ASSUME NEW q \in Requests, NEW s \in Sids,
             \/ LoadLogin(q, s) \/ LoadRefresh(q, s) \/ LoadReplay(q, s)
             \/ LoadPassword(q, s) \/ \E own \in Sids : LoadRevoke(q, own, s)
      PROVE  r \in Changing /\ req'[r] = req[r]
  BY <1>3, <1>4 DEF LoadLogin, LoadRefresh, LoadReplay, Present, LoadPassword, LoadRevoke
<1>5. ASSUME NEW q \in Requests, ReadOthers(q), q # r
      PROVE  r \in Changing /\ req'[r] = req[r]
  BY <1>5 DEF ReadOthers, IInv, TypeOK, Changing, InFlight
<1>6. ASSUME NEW q \in Requests, NEW delivered \in BOOLEAN,
             \/ CommitLogin(q) \/ CommitReuse(q) \/ CommitRevoke(q) \/ CommitPassword(q)
             \/ CommitRefresh(q, delivered) \/ Fail(q)
      PROVE  r \in Changing /\ req'[r] = req[r]
  BY <1>2, <1>6 DEF CommitLogin, CommitReuse, CommitRevoke, CommitPassword, CommitRefresh, Fail
<1> QED BY <1>1, <1>4, <1>5, <1>6 DEF Next, vars, Tick

LEMMA PasswordKept ==
    ASSUME [Next]_vars
    PROVE  UNCHANGED password \/ \E r \in Requests : CommitPassword(r)
  BY DEF Next, vars, Tick, LoadLogin, LoadRefresh, LoadReplay, LoadPassword, LoadRevoke,
         CommitLogin, CommitRefresh, CommitReuse, CommitRevoke, ReadOthers, Fail

LEMMA ReadOthersList ==
    ASSUME IInv, NEW r \in Requests, ReadOthers(r)
    PROVE  /\ req'[r].sid = req[r].sid /\ req'[r].others = Others(req[r].sid)
           /\ UNCHANGED sess
<1> DEFINE list == Others(req[r].sid)
<1>1. req[r] \in [kind : {"password"}, sid : Sids, others : {None} \cup SUBSET Sids]
  BY Kinds DEF ReadOthers, IInv
<1>2. req' = [req EXCEPT ![r] = [req[r] EXCEPT !.others = list]] /\ UNCHANGED sess
  BY DEF ReadOthers
<1> HIDE DEF list
<1>3. req'[r] = [req[r] EXCEPT !.others = list]
  BY <1>2 DEF IInv, TypeOK
<1>4. req'[r].sid = req[r].sid /\ req'[r].others = list
  BY <1>1, <1>3
<1> QED BY <1>2, <1>4 DEF list

LEMMA PasswordStep ==
    ASSUME IInv, PasswordInv, [Next]_vars
    PROVE  PasswordInv'
<1> SUFFICES ASSUME NEW s \in Sids, Signed(s)'
             PROVE  /\ sess'[s].version = password'
                    /\ \A r \in Requests :
                          (r \in Changing)' /\ s # req'[r].sid => s \in req'[r].others
  BY DEF PasswordInv, Changing, InFlight
<1>1. CASE \E r \in Requests : CommitLogin(r)
  <2>1. PICK q \in Requests : CommitLogin(q)
    BY <1>1
  <2>2. UNCHANGED password /\ \A r \in Requests : ~ReadOthers(r)
    BY <2>1, Kinds DEF CommitLogin, ReadOthers, IInv, TypeOK, Idle
  <2>3. CASE s = req[q].sid
    <3>1. /\ sess'[s].version = req[q].version
          /\ sess'[s].during = (req[q].version # password \/ Changing # {})
      BY <2>1, <2>3, LoginRow
    <3>2. req[q].version = password /\ Changing = {}
      BY <3>1 DEF Signed
    <3> QED BY <2>2, <3>1, <3>2, ListKept
  <2>4. CASE s # req[q].sid
    <3>1. sess'[s] = sess[s]
      BY <2>1, <2>4, LoginRow
    <3>2. Signed(s)
      BY <3>1 DEF Signed, Exists
    <3> QED BY <2>2, <3>1, <3>2, ListKept DEF PasswordInv
  <2> QED BY <2>3, <2>4
<1>2. CASE \E r \in Requests : CommitPassword(r)
  <2>1. PICK q \in Requests : CommitPassword(q)
    BY <1>2
  <2>2. /\ q \in Changing /\ password' = password + 1
        /\ req' = [req EXCEPT ![q] = Idle]
    BY <2>1 DEF CommitPassword
  <2>3. \A r \in Requests : ~ReadOthers(r)
    <3>1. ASSUME NEW r \in Requests, ReadOthers(r)
          PROVE  FALSE
      BY <2>2, <3>1 DEF ReadOthers, IInv, TypeOK
    <3> QED BY <3>1
  <2>4. CASE s \in req[q].others
    <3>1. Exists(s) /\ sess'[s] = [sess[s] EXCEPT !.revoked = "password"]
      BY <2>1, <2>4, ChangedRow
    <3>2. sess[s] \in SessionRow
      BY <3>1, RowType DEF IInv
    <3> QED BY <3>1, <3>2 DEF Signed, SessionRow
  <2>5. CASE s \notin req[q].others /\ s = req[q].sid
    <3>1. Exists(s) /\ sess'[s] = [sess[s] EXCEPT !.version = password + 1]
      BY <2>1, <2>5, ChangedRow
    <3>2. sess[s] \in SessionRow
      BY <3>1, RowType DEF IInv
    <3>3. /\ sess'[s].version = password + 1 /\ sess'[s].revoked = sess[s].revoked
          /\ sess'[s].during = sess[s].during
      BY <3>1, <3>2 DEF SessionRow
    <3>4. Signed(s)
      BY <3>1, <3>3 DEF Signed
    <3> QED BY <2>2, <2>3, <3>3, <3>4, ListKept DEF PasswordInv
  <2>6. CASE s \notin req[q].others /\ s # req[q].sid
    <3>1. sess'[s] = sess[s]
      BY <2>1, <2>6, ChangedRow
    <3>2. Signed(s)
      BY <3>1 DEF Signed, Exists
    <3> QED BY <2>2, <2>6, <3>2 DEF PasswordInv
  <2> QED BY <2>4, <2>5, <2>6
<1>3. CASE ~\E r \in Requests : CommitLogin(r) \/ CommitPassword(r)
  <2>1. RowKept(s) /\ UNCHANGED password
    BY <1>3, RowsKeptBy, PasswordKept DEF Signed
  <2>2. Signed(s)
    BY <2>1 DEF RowKept, Signed
  <2>3. ASSUME NEW r \in Requests, (r \in Changing)', s # req'[r].sid
        PROVE  s \in req'[r].others
    <3>1. CASE r \in Changing /\ req'[r] = req[r]
      BY <2>2, <2>3, <3>1 DEF PasswordInv
    <3>2. CASE ReadOthers(r)
      BY <2>2, <2>3, <3>2, ReadOthersList DEF Others, Signed
    <3> QED BY <2>3, <3>1, <3>2, ListKept
  <2> QED BY <2>1, <2>2, <2>3 DEF RowKept, PasswordInv
<1> QED BY <1>1, <1>2, <1>3

\* Once a change of password has committed, a session that is still signed in
\* has shown to know the new one, or its sign-in overlapped the change.
THEOREM KnewThePassword == Spec => []LiveSinceChange
<1>1. Init => PasswordInv
  BY DEF Init, PasswordInv, Signed, Exists
<1>2. IInv /\ PasswordInv /\ [Next]_vars => PasswordInv'
  BY PasswordStep
<1>3. PasswordInv => LiveSinceChange
  BY DEF PasswordInv, Signed, LiveSinceChange
<1> QED BY <1>1, <1>2, <1>3, Invariance, PTL DEF Spec

-----------------------------------------------------------------------------
(* The client of a session: what a step does to one session s.             *)

\* Nobody but the client presents its tokens.
Alone(s) == Exists(s) /\ ~replayed[s]

\* The step does not rotate s, and its client does not send anything.
Quiet(s) ==
    /\ Exists(s)' = Exists(s)
    /\ Exists(s) => /\ sess'[s].current = sess[s].current
                    /\ sess'[s].previous = sess[s].previous
                    /\ sess'[s].usedAt = sess[s].usedAt
    /\ client'[s].held = client[s].held /\ client'[s].tries = client[s].tries
    /\ client'[s].since = client[s].since /\ client'[s].tangled = client[s].tangled
    /\ replayed'[s] = replayed[s]
    /\ \A q \in RefreshesOf(s)' : q \in RefreshesOf(s) /\ req'[q] = req[q]
    /\ clock <= clock'

\* Requests that begin are refreshes of s only if their own action says so.
LEMMA RefreshesEnd ==
    ASSUME IInv, NEW r \in Requests, req' = [req EXCEPT ![r] = Idle], NEW s \in Sids
    PROVE  /\ \A q \in RefreshesOf(s)' : q \in RefreshesOf(s) \ {r} /\ req'[q] = req[q]
  BY DEF IInv, TypeOK, Idle, RefreshesOf, InFlight

LEMMA RefreshesBegin ==
    ASSUME IInv, NEW r \in Requests, NEW what, Start(r, what), NEW s \in Sids,
           what.kind = "refresh" => what.sid # s
    PROVE  \A q \in RefreshesOf(s)' : q \in RefreshesOf(s) /\ req'[q] = req[q]
  BY DEF IInv, TypeOK, Idle, RefreshesOf, InFlight, Start

LEMMA FailsQuietly ==
    ASSUME IInv, NEW r \in Requests, Fail(r), NEW s \in Sids
    PROVE  Quiet(s)
<1>1. client'[s] = Answered(client[s], r, FALSE, 0)
  BY DEF Fail
<1>2. /\ client'[s].held = client[s].held /\ client'[s].tries = client[s].tries
      /\ client'[s].since = client[s].since /\ client'[s].tangled = client[s].tangled
  <2> DEFINE c == client[s]
  <2>1. c \in Client
    BY DEF IInv, TypeOK
  <2> HIDE DEF c
  <2>2. /\ Answered(c, r, FALSE, 0).held = c.held /\ Answered(c, r, FALSE, 0).tries = c.tries
        /\ Answered(c, r, FALSE, 0).since = c.since
        /\ Answered(c, r, FALSE, 0).tangled = c.tangled
    BY <2>1, UnansweredType
  <2> QED BY <1>1, <2>2 DEF c
<1>3. \A q \in RefreshesOf(s)' : q \in RefreshesOf(s) /\ req'[q] = req[q]
  BY RefreshesEnd DEF Fail
<1>4. UNCHANGED <<sess, clock, replayed>> /\ clock \in Nat
  BY SessionAssumption DEF Fail, IInv, TypeOK
<1> QED BY <1>2, <1>3, <1>4 DEF Quiet, Exists

\* Both ways to revoke one session.
LEMMA RevokesQuietly ==
    ASSUME IInv, NEW r \in Requests, CommitReuse(r) \/ CommitRevoke(r), NEW s \in Sids
    PROVE  Quiet(s)
<1> DEFINE s0 == req[r].sid
<1>1. s0 \in Sids /\ Exists(s0) /\ sess[s0] \in SessionRow
  BY Kinds, RowType DEF CommitReuse, CommitRevoke, IInv, ServedInv, Served
<1>2. PICK why \in {"reuse", "ended"} : sess' = [sess EXCEPT ![s0].revoked = why]
  BY DEF CommitReuse, CommitRevoke
<1>3. /\ Exists(s)' = Exists(s)
      /\ Exists(s) => /\ sess'[s].current = sess[s].current
                      /\ sess'[s].previous = sess[s].previous
                      /\ sess'[s].usedAt = sess[s].usedAt
  <2>1. CASE s = s0
    <3>1. sess'[s] = [sess[s] EXCEPT !.revoked = why]
      BY <1>1, <1>2, <2>1 DEF IInv, TypeOK
    <3>2. /\ sess'[s] \in SessionRow /\ sess'[s].current = sess[s].current
          /\ sess'[s].previous = sess[s].previous /\ sess'[s].usedAt = sess[s].usedAt
      BY <1>1, <2>1, <3>1 DEF SessionRow
    <3> QED BY <1>1, <2>1, <3>2, NoRow DEF Exists
  <2>2. CASE s # s0
    BY <1>2, <2>2 DEF IInv, TypeOK, Exists
  <2> QED BY <2>1, <2>2
<1>4. /\ client'[s].held = client[s].held /\ client'[s].tries = client[s].tries
      /\ client'[s].since = client[s].since /\ client'[s].tangled = client[s].tangled
  <2> DEFINE new == Answered(client[s0], r, FALSE, 0)
  <2>1. /\ new.held = client[s0].held /\ new.tries = client[s0].tries
        /\ new.since = client[s0].since /\ new.tangled = client[s0].tangled
    BY <1>1, UnansweredType DEF IInv, TypeOK
  <2>2. client' = [client EXCEPT ![s0] = new] \/ client' = client
    BY DEF CommitReuse, CommitRevoke
  <2> HIDE DEF new
  <2> QED BY <1>1, <2>1, <2>2 DEF IInv, TypeOK
<1>5. \A q \in RefreshesOf(s)' : q \in RefreshesOf(s) /\ req'[q] = req[q]
  BY RefreshesEnd DEF CommitReuse, CommitRevoke
<1>6. UNCHANGED <<clock, replayed>>
  BY DEF CommitReuse, CommitRevoke
<1>7. clock \in Nat
  BY SessionAssumption DEF IInv, TypeOK
<1> QED BY <1>3, <1>4, <1>5, <1>6, <1>7 DEF Quiet

LEMMA ChangesPasswordQuietly ==
    ASSUME IInv, NEW r \in Requests, CommitPassword(r), NEW s \in Sids
    PROVE  Quiet(s)
<1>1. /\ Exists(s)' = Exists(s)
      /\ Exists(s) => /\ sess'[s].current = sess[s].current
                      /\ sess'[s].previous = sess[s].previous
                      /\ sess'[s].usedAt = sess[s].usedAt
  <2>1. CASE sess'[s] = sess[s]
    BY <2>1 DEF Exists
  <2>2. CASE Exists(s) /\ (\/ sess'[s] = [sess[s] EXCEPT !.revoked = "password"]
                           \/ sess'[s] = [sess[s] EXCEPT !.version = password + 1])
    <3>1. sess[s] \in SessionRow /\ password + 1 \in Nat
      BY <2>2, RowType DEF IInv, TypeOK
    <3>2. /\ sess'[s] \in SessionRow /\ sess'[s].current = sess[s].current
          /\ sess'[s].previous = sess[s].previous /\ sess'[s].usedAt = sess[s].usedAt
      BY <2>2, <3>1 DEF SessionRow
    <3> QED BY <2>2, <3>2, NoRow DEF Exists
  <2> QED BY <2>1, <2>2, ChangedRow
<1>2. \A q \in RefreshesOf(s)' : q \in RefreshesOf(s) /\ req'[q] = req[q]
  BY RefreshesEnd DEF CommitPassword
<1>3. UNCHANGED <<clock, client, replayed>> /\ clock \in Nat
  BY SessionAssumption DEF CommitPassword, IInv, TypeOK
<1> QED BY <1>1, <1>2, <1>3 DEF Quiet

\* The rows of the other sessions, and their requests.
LEMMA OthersQuiet ==
    ASSUME IInv, NEW r \in Requests, NEW s \in Sids, NEW x \in Sids, x # s,
           \/ \E delivered \in BOOLEAN : CommitRefresh(r, delivered) /\ req[r].sid = s
           \/ CommitLogin(r) /\ req[r].sid = s
           \/ LoadRefresh(r, s) \/ LoadReplay(r, s)
    PROVE  Quiet(x)
<1>1. sess'[x] = sess[x] /\ client'[x] = client[x] /\ replayed'[x] = replayed[x]
      /\ clock' = clock /\ clock \in Nat
  BY SessionAssumption
     DEF CommitRefresh, CommitLogin, LoadRefresh, LoadReplay, IInv, TypeOK
<1>2. \A q \in RefreshesOf(x)' : q \in RefreshesOf(x) /\ req'[q] = req[q]
  <2>1. CASE req' = [req EXCEPT ![r] = Idle]
    BY <2>1, RefreshesEnd
  <2>2. CASE LoadRefresh(r, s) \/ LoadReplay(r, s)
    BY <2>2, RefreshesBegin DEF LoadRefresh, LoadReplay, Present
  <2> QED BY <2>1, <2>2 DEF CommitRefresh, CommitLogin
<1> QED BY <1>1, <1>2 DEF Quiet, Exists

\* What can happen to s and its client.
LEMMA StepOf ==
    ASSUME IInv, [Next]_vars, NEW s \in Sids
    PROVE  \/ Quiet(s)
           \/ \E r \in Requests : CommitLogin(r) /\ req[r].sid = s
           \/ \E r \in Requests : LoadRefresh(r, s)
           \/ \E r \in Requests : LoadReplay(r, s)
           \/ \E r \in Requests, delivered \in BOOLEAN :
                 CommitRefresh(r, delivered) /\ req[r].sid = s
<1>0. clock \in Nat
  BY SessionAssumption DEF IInv, TypeOK
<1>1. CASE UNCHANGED vars \/ Tick
  BY <1>0, <1>1 DEF vars, Tick, Quiet, Exists, RefreshesOf, InFlight
<1>2. ASSUME NEW r \in Requests, NEW x \in Sids,
             \/ LoadLogin(r, x) \/ LoadPassword(r, x)
             \/ \E own \in Sids : LoadRevoke(r, own, x)
      PROVE  Quiet(s)
  <2>1. \A q \in RefreshesOf(s)' : q \in RefreshesOf(s) /\ req'[q] = req[q]
    BY <1>2, RefreshesBegin DEF LoadLogin, LoadPassword, LoadRevoke
  <2>2. UNCHANGED <<sess, clock, client, replayed>>
    BY <1>2 DEF LoadLogin, LoadPassword, LoadRevoke
  <2> QED BY <1>0, <2>1, <2>2 DEF Quiet, Exists
<1>3. ASSUME NEW r \in Requests, ReadOthers(r)
      PROVE  Quiet(s)
  <2> DEFINE new == [req[r] EXCEPT !.others = Others(req[r].sid)]
  <2>1. new.kind = "password"
    BY <1>3, Kinds DEF ReadOthers, IInv
  <2>2. req' = [req EXCEPT ![r] = new] /\ UNCHANGED <<sess, clock, client, replayed>>
    BY <1>3 DEF ReadOthers
  <2> HIDE DEF new
  <2>3. \A q \in RefreshesOf(s)' : q \in RefreshesOf(s) /\ req'[q] = req[q]
    BY <2>1, <2>2 DEF IInv, TypeOK, RefreshesOf, InFlight
  <2> QED BY <1>0, <2>2, <2>3 DEF Quiet, Exists
<1>4. ASSUME NEW r \in Requests, NEW x \in Sids, x # s, LoadRefresh(r, x) \/ LoadReplay(r, x)
      PROVE  Quiet(s)
  BY <1>4, OthersQuiet
<1>5. ASSUME NEW r \in Requests, NEW delivered \in BOOLEAN, req[r].sid # s,
             CommitLogin(r) \/ CommitRefresh(r, delivered)
      PROVE  Quiet(s)
  <2>1. req[r].sid \in Sids
    BY <1>5, SidType DEF CommitLogin, CommitRefresh, IInv
  <2> QED BY <1>5, <2>1, OthersQuiet
<1> QED BY <1>1, <1>2, <1>3, <1>4, <1>5, FailsQuietly, RevokesQuietly, ChangesPasswordQuietly
       DEF Next

\* The client sends its token: again within the grace period, if it does so again.
LEMMA RefreshSent ==
    ASSUME IInv, NEW r \in Requests, NEW s \in Sids, LoadRefresh(r, s)
    PROVE  /\ Exists(s) /\ UNCHANGED <<sess, clock, replayed>>
           /\ client[s].tries > 0 => clock - client[s].since <= Grace
           /\ client'[s].held = client[s].held /\ client'[s].tries = client[s].tries + 1
           /\ client'[s].since = (IF client[s].tries = 0 THEN clock ELSE client[s].since)
           /\ client'[s].tangled = (client[s].tangled \/ RefreshesOf(s) # {})
           /\ \A q \in RefreshesOf(s)' :
                 \/ q \in RefreshesOf(s) /\ req'[q] = req[q]
                 \/ q = r /\ req'[q].seen = sess[s] /\ req'[q].now = clock
<1>1. /\ Exists(s) /\ UNCHANGED <<sess, clock, replayed>>
      /\ client[s].tries > 0 => clock - client[s].since <= Grace
      /\ Present(r, s, client[s].held)
  BY DEF LoadRefresh
<1>2. /\ client'[s].held = client[s].held /\ client'[s].tries = client[s].tries + 1
      /\ client'[s].since = (IF client[s].tries = 0 THEN clock ELSE client[s].since)
      /\ client'[s].tangled = (client[s].tangled \/ RefreshesOf(s) # {})
  <2> DEFINE busy == RefreshesOf(s) # {}
             new == Trying(client[s], r, busy)
  <2>1. client[s] \in Client /\ clock \in Nat
    BY SessionAssumption DEF IInv, TypeOK
  <2>2. /\ new.held = client[s].held /\ new.tries = client[s].tries + 1
        /\ new.since = (IF client[s].tries = 0 THEN clock ELSE client[s].since)
        /\ new.tangled = (client[s].tangled \/ busy)
    <3>1. busy \in BOOLEAN
      OBVIOUS
    <3> HIDE DEF busy
    <3> QED BY <2>1, <3>1, TryingType
  <2>3. client'[s] = new
    <3>1. client' = [client EXCEPT ![s] = new]
      BY DEF LoadRefresh
    <3> HIDE DEF new
    <3> QED BY <3>1 DEF IInv, TypeOK
  <2> HIDE DEF new
  <2> QED BY <2>2, <2>3 DEF busy
<1>3. \A q \in Requests \ {r} : req'[q] = req[q]
  BY <1>1 DEF Present, Start, IInv, TypeOK
<1>4. \/ /\ req'[r].kind = "refresh" /\ req'[r].seen = sess[s] /\ req'[r].now = clock
      \/ req'[r].kind = "reuse"
  BY <1>1 DEF Present, Start, IInv, TypeOK
<1> QED BY <1>1, <1>2, <1>3, <1>4 DEF RefreshesOf, InFlight

\* A rotation of s, whose answer may reach its client.
LEMMA RefreshDone ==
    ASSUME IInv, NEW r \in Requests, NEW delivered \in BOOLEAN, CommitRefresh(r, delivered),
           NEW s \in Sids, s = req[r].sid
    PROVE  /\ Exists(s) /\ UNCHANGED <<clock, replayed>>
           /\ r \in RefreshesOf(s) /\ sess[s].minted \in Nat
           /\ sess'[s].current = sess[s].minted + 1
           /\ sess'[s].previous = req[r].seen.current /\ sess'[s].usedAt = req[r].now
           /\ client'[s].held = (IF delivered THEN sess[s].minted + 1 ELSE client[s].held)
           /\ client'[s].tries = (IF delivered THEN 0 ELSE client[s].tries)
           /\ client'[s].since = client[s].since /\ client'[s].tangled = client[s].tangled
           /\ \A q \in RefreshesOf(s)' : q \in RefreshesOf(s) \ {r} /\ req'[q] = req[q]
<1> DEFINE row == Rotated(sess[s], req[r].seen, req[r].now)
           new == Answered(client[s], r, delivered, sess[s].minted + 1)
<1>1. /\ req[r].kind = "refresh" /\ req[r].seen \in SessionRow /\ req[r].now \in 0..MaxTime
  BY Kinds DEF CommitRefresh, IInv
<1>2. Exists(s) /\ sess[s] \in SessionRow /\ sess[s].minted \in Nat
  <2>1. Exists(s)
    BY <1>1 DEF IInv, ServedInv, Served
  <2>2. sess[s] \in SessionRow
    BY <2>1, RowType DEF IInv
  <2> QED BY <2>1, <2>2 DEF SessionRow
<1>3. /\ row.current = sess[s].minted + 1 /\ row.previous = req[r].seen.current
      /\ row.usedAt = req[r].now
  <2> DEFINE old == sess[s]
             seen == req[r].seen
             now == req[r].now
  <2>1. old \in SessionRow /\ seen \in SessionRow /\ now \in 0..MaxTime
    BY <1>1, <1>2
  <2>2. row = Rotated(old, seen, now)
    OBVIOUS
  <2> HIDE DEF old, seen, now, row
  <2>3. /\ row.current = old.minted + 1 /\ row.previous = seen.current
        /\ row.usedAt = now
    BY <2>1, <2>2, RotatedType
  <2> QED BY <2>3 DEF old, seen, now
<1>4. /\ new.held = (IF delivered THEN sess[s].minted + 1 ELSE client[s].held)
      /\ new.tries = (IF delivered THEN 0 ELSE client[s].tries)
      /\ new.since = client[s].since /\ new.tangled = client[s].tangled
  <2>1. client[s] \in Client /\ sess[s].minted + 1 \in Nat
    BY <1>2 DEF IInv, TypeOK
  <2> QED BY <2>1, AnsweredType
<1>5. /\ sess' = [sess EXCEPT ![s] = row] /\ client' = [client EXCEPT ![s] = new]
      /\ UNCHANGED <<clock, replayed>>
  BY DEF CommitRefresh
<1> HIDE DEF row, new
<1>6. sess'[s] = row /\ client'[s] = new
  BY <1>5 DEF IInv, TypeOK
<1>7. \A q \in RefreshesOf(s)' : q \in RefreshesOf(s) \ {r} /\ req'[q] = req[q]
  BY RefreshesEnd DEF CommitRefresh
<1>8. r \in RefreshesOf(s)
  BY <1>1 DEF RefreshesOf, InFlight
<1> QED BY <1>2, <1>3, <1>4, <1>5, <1>6, <1>7, <1>8

\* Who has not signed in yet has sent nothing.
Fresh(s) ==
    ~Exists(s) => /\ ~replayed[s] /\ ~client[s].tangled
                  /\ client[s].held = 1 /\ client[s].tries = 0 /\ client[s].since = 0

LEMMA InitFresh ==
    ASSUME Init, NEW s \in Sids
    PROVE  ~Exists(s) /\ Fresh(s)
<1>1. sess[s] = NoSession /\ client[s] = NewClient /\ replayed[s] = FALSE
  BY DEF Init
<1> QED BY <1>1 DEF Exists, Fresh, NewClient

LEMMA LoginRefreshes ==
    ASSUME IInv, NEW r \in Requests, CommitLogin(r), NEW s \in Sids, s = req[r].sid
    PROVE  /\ ~Exists(s) /\ UNCHANGED <<clock, client, replayed>>
           /\ sess'[s].current = 1 /\ sess'[s].previous = 0
           /\ RefreshesOf(s)' = {}
<1>1. ~Exists(s) /\ sess'[s].current = 1 /\ sess'[s].previous = 0
  BY LoginRow
<1>2. RefreshesOf(s) = {}
  BY <1>1 DEF IInv, ServedInv, Served, RefreshesOf, InFlight
<1>3. \A q \in RefreshesOf(s)' : q \in RefreshesOf(s)
  BY RefreshesEnd DEF CommitLogin
<1> QED BY <1>1, <1>2, <1>3 DEF CommitLogin

LEMMA FreshStep ==
    ASSUME IInv, [Next]_vars, NEW s \in Sids, Fresh(s)
    PROVE  Fresh(s)'
<1>1. CASE Quiet(s)
  BY <1>1 DEF Quiet, Fresh
<1>2. CASE \E r \in Requests : CommitLogin(r) /\ req[r].sid = s
  <2>1. sess'[s].current = 1
    BY <1>2, LoginRefreshes
  <2> QED BY <2>1 DEF Fresh, Exists, NoSession
<1>3. CASE \E r \in Requests : LoadRefresh(r, s) \/ LoadReplay(r, s)
  BY <1>3 DEF LoadRefresh, LoadReplay, Fresh, Exists
<1>4. CASE \E r \in Requests, delivered \in BOOLEAN :
             CommitRefresh(r, delivered) /\ req[r].sid = s
  <2>1. PICK r \in Requests, delivered \in BOOLEAN :
               CommitRefresh(r, delivered) /\ req[r].sid = s
    BY <1>4
  <2>2. sess'[s].current = sess[s].minted + 1 /\ sess[s].minted \in Nat
    BY <2>1, RefreshDone
  <2> QED BY <2>2 DEF Fresh, Exists, NoSession
<1> QED BY <1>1, <1>2, <1>3, <1>4, StepOf

-----------------------------------------------------------------------------
(* KeepsSession.                                                           *)

\* A client that sends one refresh at a time: after the first, it holds the
\* current token; if that one got lost, the token before.
OneAtATime(s) ==
    Alone(s) /\ ~client[s].tangled =>
        /\ \A p, q \in RefreshesOf(s) : p = q
        /\ client[s].tries = 0 =>
              client[s].held = sess[s].current /\ RefreshesOf(s) = {}
        /\ client[s].tries = 1 =>
              \/ /\ client[s].held = sess[s].current
                 /\ \A q \in RefreshesOf(s) : req[q].seen.current = client[s].held
              \/ client[s].held = sess[s].previous /\ RefreshesOf(s) = {}

LEMMA OneAtATimeStep ==
    ASSUME IInv, [Next]_vars, NEW s \in Sids, Fresh(s), OneAtATime(s)
    PROVE  OneAtATime(s)'
<1> SUFFICES ASSUME Alone(s)', ~client'[s].tangled
             PROVE  OneAtATime(s)'
  BY DEF OneAtATime
<1>0. client[s].tries \in Nat
  BY DEF IInv, TypeOK, Client
<1>1. CASE Quiet(s)
  <2>1. Alone(s) /\ ~client[s].tangled
    BY <1>1 DEF Quiet, Alone
  <2>2. RefreshesOf(s)' \subseteq RefreshesOf(s)
    BY <1>1 DEF Quiet
  <2> QED BY <1>1, <2>1, <2>2 DEF Quiet, Alone, OneAtATime
<1>2. CASE \E r \in Requests : CommitLogin(r) /\ req[r].sid = s
  <2>1. /\ ~Exists(s) /\ UNCHANGED client /\ sess'[s].current = 1
        /\ RefreshesOf(s)' = {}
    BY <1>2, LoginRefreshes
  <2> QED BY <2>1 DEF Fresh, OneAtATime
<1>3. CASE \E r \in Requests : LoadRefresh(r, s)
  <2>1. PICK r \in Requests : LoadRefresh(r, s)
    BY <1>3
  <2>2. Alone(s) /\ ~client[s].tangled /\ RefreshesOf(s) = {}
    BY <2>1, RefreshSent DEF Alone
  <2>3. /\ client'[s].held = client[s].held /\ client'[s].tries = client[s].tries + 1
        /\ UNCHANGED sess
        /\ \A q \in RefreshesOf(s)' : q = r /\ req'[q].seen = sess[s]
    BY <2>1, <2>2, RefreshSent
  <2>4. client[s].tries = 0 => client[s].held = sess[s].current
    BY <2>2 DEF OneAtATime
  <2> QED BY <1>0, <2>3, <2>4 DEF OneAtATime
<1>4. CASE \E r \in Requests : LoadReplay(r, s)
  BY <1>4 DEF LoadReplay, Alone, IInv, TypeOK
<1>5. CASE \E r \in Requests, delivered \in BOOLEAN :
             CommitRefresh(r, delivered) /\ req[r].sid = s
  <2>1. PICK r \in Requests, delivered \in BOOLEAN :
               CommitRefresh(r, delivered) /\ req[r].sid = s
    BY <1>5
  <2>2. /\ Alone(s) /\ ~client[s].tangled /\ r \in RefreshesOf(s)
        /\ sess'[s].current = sess[s].minted + 1
        /\ sess'[s].previous = req[r].seen.current
        /\ client'[s].held = (IF delivered THEN sess[s].minted + 1 ELSE client[s].held)
        /\ client'[s].tries = (IF delivered THEN 0 ELSE client[s].tries)
        /\ \A q \in RefreshesOf(s)' : q \in RefreshesOf(s) \ {r}
    BY <2>1, RefreshDone DEF Alone
  <2>3. RefreshesOf(s)' = {}
    BY <2>2 DEF OneAtATime
  <2>4. CASE delivered
    BY <2>2, <2>3, <2>4 DEF OneAtATime
  <2>5. CASE ~delivered
    <3>1. client[s].tries # 0 /\ (client[s].tries = 1 => req[r].seen.current = client[s].held)
      BY <2>2 DEF OneAtATime
    <3> QED BY <2>2, <2>3, <2>5, <3>1 DEF OneAtATime
  <2> QED BY <2>4, <2>5
<1> QED BY <1>1, <1>2, <1>3, <1>4, <1>5, StepOf

\* A client that waits for each answer before it tries again never ends up
\* with a token the service has forgotten, unless two answers in a row got
\* lost or someone else used its token.
THEOREM ClientKeepsSession == Spec => []KeepsSession
<1> DEFINE Held == \A s \in Sids : Fresh(s) /\ OneAtATime(s)
<1>1. Init => Held
  <2> SUFFICES ASSUME Init, NEW s \in Sids
               PROVE  Fresh(s) /\ OneAtATime(s)
    OBVIOUS
  <2> QED BY InitFresh DEF OneAtATime, Alone
<1>2. IInv /\ Held /\ [Next]_vars => Held'
  <2> SUFFICES ASSUME IInv, Held, [Next]_vars, NEW s \in Sids
               PROVE  (Fresh(s) /\ OneAtATime(s))'
    OBVIOUS
  <2> QED BY FreshStep, OneAtATimeStep
<1>3. IInv /\ Held => KeepsSession
  <2> SUFFICES ASSUME IInv, Held, NEW s \in Sids, Alone(s), ~client[s].tangled,
                      client[s].tries <= 1
               PROVE  client[s].held \in {sess[s].current, sess[s].previous}
    BY DEF KeepsSession, Alone
  <2>1. client[s].tries \in Nat
    BY DEF IInv, TypeOK, Client
  <2>2. client[s].tries = 0 \/ client[s].tries = 1
    BY <2>1
  <2> QED BY <2>2 DEF OneAtATime
<1> HIDE DEF Held
<1> QED BY <1>1, <1>2, <1>3, Invariance, PTL DEF Spec

-----------------------------------------------------------------------------
(* NeverAccused.                                                           *)

\* s was ended because a token came too late, or is about to be.
Accused(s) ==
    \/ Exists(s) /\ sess[s].revoked = "reuse"
    \/ \E r \in Requests : req[r].kind = "reuse" /\ req[r].sid = s

\* While nobody else presents its tokens, a client that holds the previous
\* token of s, or will when a refresh under way has rotated s, began to try
\* before that rotation.
InTime(s) ==
    Alone(s) =>
        /\ ~Accused(s)
        /\ client[s].since <= clock
        /\ client[s].held = sess[s].previous =>
              client[s].tries > 0 /\ client[s].since <= sess[s].usedAt
        /\ \A q \in RefreshesOf(s) : req[q].seen.current = client[s].held =>
              client[s].tries > 0 /\ client[s].since <= req[q].now

LEMMA ReuseBegins ==
    ASSUME IInv, [Next]_vars, NEW s \in Sids, NEW q \in Requests,
           req'[q].kind = "reuse", req'[q].sid = s
    PROVE  \/ req[q].kind = "reuse" /\ req[q].sid = s
           \/ \E r \in Requests : LoadReplay(r, s)
           \/ \E r \in Requests : LoadRefresh(r, s) /\ Reuse(s, client[s].held)
<1>1. CASE UNCHANGED req
  BY <1>1
<1>2. ASSUME NEW r \in Requests, req' = [req EXCEPT ![r] = Idle]
      PROVE  req[q].kind = "reuse" /\ req[q].sid = s
  BY <1>2 DEF IInv, TypeOK, Idle
<1>3. ASSUME NEW r \in Requests, NEW x \in Sids, NEW n, Present(r, x, n)
      PROVE  \/ req[q].kind = "reuse" /\ req[q].sid = s
             \/ x = s /\ Reuse(s, n)
  BY <1>3 DEF Present, Start, IInv, TypeOK
<1>4. ASSUME NEW r \in Requests, NEW x \in Sids,
             \/ LoadLogin(r, x) \/ LoadPassword(r, x)
             \/ \E own \in Sids : LoadRevoke(r, own, x)
      PROVE  req[q].kind = "reuse" /\ req[q].sid = s
  BY <1>4 DEF LoadLogin, LoadPassword, LoadRevoke, Start, IInv, TypeOK
<1>5. ASSUME NEW r \in Requests, NEW x \in Sids, LoadRefresh(r, x)
      PROVE  \/ req[q].kind = "reuse" /\ req[q].sid = s
             \/ LoadRefresh(r, s) /\ Reuse(s, client[s].held)
  BY <1>3, <1>5 DEF LoadRefresh
<1>6. ASSUME NEW r \in Requests, NEW x \in Sids, LoadReplay(r, x)
      PROVE  \/ req[q].kind = "reuse" /\ req[q].sid = s
             \/ LoadReplay(r, s)
  BY <1>3, <1>6 DEF LoadReplay
<1>7. ASSUME NEW r \in Requests, ReadOthers(r)
      PROVE  req[q].kind = "reuse" /\ req[q].sid = s
  <2>1. req'[r].kind = "password"
    <3> DEFINE new == [req[r] EXCEPT !.others = Others(req[r].sid)]
    <3>1. new.kind = "password"
      BY <1>7, Kinds DEF ReadOthers, IInv
    <3>2. req' = [req EXCEPT ![r] = new]
      BY <1>7 DEF ReadOthers
    <3> HIDE DEF new
    <3> QED BY <3>1, <3>2 DEF IInv, TypeOK
  <2> QED BY <1>7, <2>1 DEF ReadOthers, IInv, TypeOK
<1>8. ASSUME NEW r \in Requests, NEW delivered \in BOOLEAN,
             \/ CommitLogin(r) \/ CommitReuse(r) \/ CommitRevoke(r) \/ CommitPassword(r)
             \/ CommitRefresh(r, delivered) \/ Fail(r)
      PROVE  req[q].kind = "reuse" /\ req[q].sid = s
  BY <1>2, <1>8 DEF CommitLogin, CommitReuse, CommitRevoke, CommitPassword, CommitRefresh, Fail
<1> QED BY <1>1, <1>4, <1>5, <1>6, <1>7, <1>8 DEF Next, vars, Tick

\* Only a request that saw a token come too late ends a session for reuse.
LEMMA RowAccused ==
    ASSUME IInv, [Next]_vars, NEW s \in Sids, Exists(s)', sess'[s].revoked = "reuse"
    PROVE  Accused(s)
<1>1. CASE sess'[s] = sess[s]
  BY <1>1 DEF Accused, Exists
<1>2. CASE \E r \in Requests : CommitReuse(r)
  BY <1>1, <1>2 DEF CommitReuse, Accused, IInv, TypeOK
<1>3. ASSUME NEW r \in Requests, CommitRevoke(r)
      PROVE  Accused(s)
  <2>1. CASE s = req[r].sid
    <3>1. Exists(s) /\ sess[s] \in SessionRow
      BY <1>3, <2>1, RowType DEF CommitRevoke, IInv, ServedInv, Served
    <3>2. sess'[s] = [sess[s] EXCEPT !.revoked = "ended"]
      BY <1>3, <2>1 DEF CommitRevoke, IInv, TypeOK
    <3> QED BY <3>1, <3>2 DEF SessionRow
  <2>2. CASE s # req[r].sid
    BY <1>1, <1>3, <2>2 DEF CommitRevoke, IInv, TypeOK
  <2> QED BY <2>1, <2>2
<1>4. CASE \E r \in Requests : CommitLogin(r)
  BY <1>1, <1>4, LoginRow
<1>5. ASSUME NEW r \in Requests, CommitPassword(r)
      PROVE  Accused(s)
  <2>1. CASE Exists(s) /\ sess'[s] = [sess[s] EXCEPT !.revoked = "password"]
    BY <2>1, RowType DEF IInv, SessionRow
  <2>2. CASE Exists(s) /\ sess'[s] = [sess[s] EXCEPT !.version = password + 1]
    BY <2>2, RowType DEF IInv, SessionRow, Accused
  <2> QED BY <1>1, <1>5, <2>1, <2>2, ChangedRow
<1>6. ASSUME NEW r \in Requests, NEW delivered \in BOOLEAN, CommitRefresh(r, delivered)
      PROVE  Accused(s)
  <2> DEFINE row == Rotated(sess[req[r].sid], req[r].seen, req[r].now)
  <2>1. /\ Exists(req[r].sid) /\ sess[req[r].sid] \in SessionRow
        /\ req[r].seen \in SessionRow /\ req[r].now \in 0..MaxTime
    BY <1>6, Kinds, RowType DEF CommitRefresh, IInv, ServedInv, Served
  <2>2. row.revoked = sess[req[r].sid].revoked
    BY <2>1, RotatedType
  <2>3. sess' = [sess EXCEPT ![req[r].sid] = row]
    BY <1>6 DEF CommitRefresh
  <2> HIDE DEF row
  <2>4. sess'[s] = sess[s] \/ (s = req[r].sid /\ sess'[s] = row)
    BY <2>3 DEF IInv, TypeOK
  <2> QED BY <1>1, <2>1, <2>2, <2>4 DEF Accused
<1> QED BY <1>1, <1>2, <1>3, <1>4, <1>5, <1>6
       DEF Next, vars, Tick, LoadLogin, LoadRefresh, LoadReplay, LoadPassword, LoadRevoke,
           ReadOthers, Fail

LEMMA AccusedBy ==
    ASSUME IInv, [Next]_vars, NEW s \in Sids, Accused(s)'
    PROVE  \/ Accused(s)
           \/ \E r \in Requests : LoadReplay(r, s)
           \/ \E r \in Requests : LoadRefresh(r, s) /\ Reuse(s, client[s].held)
<1>1. CASE (Exists(s) /\ sess[s].revoked = "reuse")'
  BY <1>1, RowAccused
<1>2. CASE \E q \in Requests : req'[q].kind = "reuse" /\ req'[q].sid = s
  BY <1>2, ReuseBegins DEF Accused
<1> QED BY <1>1, <1>2 DEF Accused

\* Who is not there is not accused.
LEMMA AbsentNotAccused ==
    ASSUME IInv, NEW s \in Sids, ~Exists(s)
    PROVE  ~Accused(s)
  BY DEF Accused, IInv, ServedInv, Served

\* The client's own token is never taken for one that came too late.
LEMMA NoReuse ==
    ASSUME IInv, Grace > 0, NEW r \in Requests, NEW s \in Sids, Alone(s), InTime(s),
           LoadRefresh(r, s)
    PROVE  ~Reuse(s, client[s].held)
<1>1. client[s].tries > 0 => clock - client[s].since <= Grace
  BY RefreshSent
<1>2. client[s].held = sess[s].previous =>
        client[s].tries > 0 /\ client[s].since <= sess[s].usedAt
  BY DEF InTime
<1>3. clock \in Nat /\ client[s].since \in Nat /\ sess[s].usedAt \in Nat /\ Grace \in Nat
  <2>1. sess[s] \in SessionRow
    BY RowType DEF Alone, IInv
  <2> QED BY <2>1, SessionAssumption DEF IInv, TypeOK, Client, SessionRow
<1> SUFFICES ASSUME client[s].held = sess[s].previous
             PROVE  InGrace(s)
  BY DEF Reuse
<1> QED BY <1>1, <1>2, <1>3 DEF InGrace

LEMMA InTimeStep ==
    ASSUME IInv, Grace > 0, [Next]_vars, NEW s \in Sids, Fresh(s), InTime(s)
    PROVE  InTime(s)'
<1> SUFFICES ASSUME Alone(s)'
             PROVE  InTime(s)'
  BY DEF InTime
<1>1. /\ client[s].tries \in Nat /\ client[s].since \in Nat /\ clock \in Nat
      /\ client[s].held \in Nat
  BY SessionAssumption DEF IInv, TypeOK, Client
<1>2. ~Accused(s)'
  <2>1. ASSUME NEW r \in Requests, LoadReplay(r, s)
        PROVE  FALSE
    BY <2>1 DEF LoadReplay, Alone, IInv, TypeOK
  <2>2. replayed[s] => replayed'[s]
    BY StepOf, LoginRefreshes, RefreshSent, RefreshDone, <2>1 DEF Quiet
  <2>3. CASE Exists(s)
    BY <2>1, <2>2, <2>3, AccusedBy, NoReuse DEF Alone, InTime
  <2>4. CASE ~Exists(s)
    BY <2>1, <2>4, AccusedBy, AbsentNotAccused, RefreshSent
  <2> QED BY <2>3, <2>4
<1>3. CASE Quiet(s)
  <2>1. Alone(s) /\ clock <= clock' /\ clock' \in Nat
    <3>1. clock' \in Nat
      BY StepInv, SessionAssumption DEF IInv, TypeOK
    <3> QED BY <1>3, <3>1 DEF Quiet, Alone
  <2>2. client'[s].since <= clock'
    BY <1>1, <1>3, <2>1 DEF Quiet, InTime
  <2> QED BY <1>2, <1>3, <2>1, <2>2 DEF Quiet, Alone, InTime
<1>4. CASE \E r \in Requests : CommitLogin(r) /\ req[r].sid = s
  <2>1. /\ ~Exists(s) /\ UNCHANGED <<clock, client>> /\ sess'[s].previous = 0
        /\ RefreshesOf(s)' = {}
    BY <1>4, LoginRefreshes
  <2> QED BY <1>1, <1>2, <2>1 DEF Fresh, InTime
<1>5. CASE \E r \in Requests : LoadRefresh(r, s)
  <2>1. PICK r \in Requests : LoadRefresh(r, s)
    BY <1>5
  <2>2. /\ Alone(s) /\ UNCHANGED <<sess, clock>>
        /\ client'[s].held = client[s].held /\ client'[s].tries = client[s].tries + 1
        /\ client'[s].since = (IF client[s].tries = 0 THEN clock ELSE client[s].since)
        /\ \A q \in RefreshesOf(s)' :
              \/ q \in RefreshesOf(s) /\ req'[q] = req[q]
              \/ q = r /\ req'[q].now = clock
    BY <2>1, RefreshSent DEF Alone
  <2>3. client'[s].since <= clock /\ client'[s].tries > 0
    BY <1>1, <2>2 DEF InTime
  <2>4. client[s].held = sess[s].previous => client'[s].since <= sess[s].usedAt
    BY <1>1, <2>2 DEF InTime
  <2>5. ASSUME NEW q \in RefreshesOf(s)', req'[q].seen.current = client'[s].held
        PROVE  client'[s].since <= req'[q].now
    <3>1. CASE q \in RefreshesOf(s) /\ req'[q] = req[q]
      BY <1>1, <2>2, <2>5, <3>1 DEF InTime
    <3>2. CASE q = r /\ req'[q].now = clock
      BY <2>3, <3>2
    <3> QED BY <2>2, <3>1, <3>2
  <2> QED BY <1>2, <2>2, <2>3, <2>4, <2>5 DEF InTime
<1>6. CASE \E r \in Requests : LoadReplay(r, s)
  BY <1>6 DEF LoadReplay, Alone, IInv, TypeOK
<1>7. CASE \E r \in Requests, delivered \in BOOLEAN :
             CommitRefresh(r, delivered) /\ req[r].sid = s
  <2>1. PICK r \in Requests, delivered \in BOOLEAN :
               CommitRefresh(r, delivered) /\ req[r].sid = s
    BY <1>7
  <2>2. /\ Alone(s) /\ UNCHANGED clock /\ r \in RefreshesOf(s) /\ sess[s].minted \in Nat
        /\ sess'[s].previous = req[r].seen.current /\ sess'[s].usedAt = req[r].now
        /\ client'[s].held = (IF delivered THEN sess[s].minted + 1 ELSE client[s].held)
        /\ client'[s].tries = (IF delivered THEN 0 ELSE client[s].tries)
        /\ client'[s].since = client[s].since
        /\ \A q \in RefreshesOf(s)' : q \in RefreshesOf(s) /\ req'[q] = req[q]
    BY <2>1, RefreshDone DEF Alone
  <2>3. client'[s].since <= clock'
    BY <2>2 DEF InTime
  <2>4. CASE delivered
    <3>1. ASSUME NEW q \in RefreshesOf(s)
          PROVE  req[q].seen.current # sess[s].minted + 1
      <4>1. /\ q \in Requests /\ req[q].kind = "refresh" /\ req[q].sid = s
        BY DEF RefreshesOf, InFlight
      <4>2. req[q].seen.current <= sess[s].minted /\ req[q].seen \in SessionRow
        BY <4>1, Kinds DEF IInv, ServedInv, Served
      <4> QED BY <2>2, <4>2 DEF SessionRow
    <3>2. /\ client'[s].held # sess'[s].previous
          /\ \A q \in RefreshesOf(s)' : req'[q].seen.current # client'[s].held
      BY <2>2, <2>4, <3>1
    <3> QED BY <1>2, <2>3, <3>2 DEF InTime
  <2>5. CASE ~delivered
    BY <1>2, <2>2, <2>3, <2>5 DEF InTime
  <2> QED BY <2>4, <2>5
<1> QED BY <1>3, <1>4, <1>5, <1>6, <1>7, StepOf

\* With a grace period, a session that only its own client used is never
\* ended for reuse, however its retries and its lost answers overlap.
THEOREM RetryIsNotTheft ==
    ASSUME Grace > 0
    PROVE  Spec => []NeverAccused
<1> DEFINE Patient == \A s \in Sids : Fresh(s) /\ InTime(s)
<1>1. Init => Patient
  <2> SUFFICES ASSUME Init, NEW s \in Sids
               PROVE  Fresh(s) /\ InTime(s)
    OBVIOUS
  <2> QED BY InitFresh DEF InTime, Alone
<1>2. IInv /\ Patient /\ [Next]_vars => Patient'
  <2> SUFFICES ASSUME IInv, Patient, [Next]_vars, NEW s \in Sids
               PROVE  (Fresh(s) /\ InTime(s))'
    OBVIOUS
  <2> QED BY FreshStep, InTimeStep
<1>3. Patient => NeverAccused
  BY DEF NeverAccused, InTime, Alone, Accused
<1> HIDE DEF Patient
<1> QED BY <1>1, <1>2, <1>3, Invariance, PTL DEF Spec
=============================================================================
