----------------------- MODULE ResponseGatewayProofs ------------------------
(***************************************************************************)
(* Theorems about ResponseGateway, for any number of actions and requests, *)
(* whatever is asked for and whoever asks.                                 *)
(***************************************************************************)
EXTENDS ResponseGateway, TLAPS, FiniteSetTheorems, SequenceTheorems

USE GatewayAssumption

Effects == {"deny", "allow", "require_approval"}

-----------------------------------------------------------------------------
(* Types.                                                                  *)

\* The engine answers with one of its three effects.
LEMMA EffectType ==
    ASSUME NEW i
    PROVE  Effect(Policy, i) \in Effects
BY DEF Effect, Effects

\* What is asked for becomes an order that has been decided.
LEMMA OrderType ==
    ASSUME NEW q \in Wanted
    PROVE  /\ Order(q).effect \in Effects /\ Order(q) # NoOrder
           /\ Order(q).reversible \in BOOLEAN /\ Order(q).live \in BOOLEAN
<1>1. Order(q).effect \in Effects
  BY EffectType DEF Order
<1>2. Order(q).reversible \in BOOLEAN
  BY DEF Order, Reversible
<1>3. Order(q).live \in BOOLEAN
  BY DEF Order, IsWanted
<1>4. NoOrder.effect = "none"
  BY DEF NoOrder
<1> QED
  BY <1>1, <1>2, <1>3, <1>4 DEF Effects

\* An action that is followed was ordered.
LEMMA TracedOrdered ==
    ASSUME NEW a, order[a] \in Traced
    PROVE  order[a] # NoOrder /\ order[a].effect \in Effects
BY OrderType DEF Traced

LEMMA TargetType ==
    ASSUME NEW op \in Operations, NEW seen \in Statuses
    PROVE  Target(op, seen) \in Statuses
BY DEF Target, Operations, Decisions, Statuses

LEMMA EntryType ==
    ASSUME NEW r, req[r] \in Request
    PROVE  Entry(r) \in Events \X BOOLEAN
BY DEF Entry, Request, Executing, Events, Operations, Decisions

LEMMA TypeInit == Init => TypeOK
BY DEF Init, TypeOK, Idle, NoOrder, Statuses, Entries

\* What ends a set of transactions keeps the types.
LEMMA ReleaseType ==
    ASSUME TypeOK, NEW rs, Release(rs)
    PROVE  /\ rowLock' \in [Actions -> Requests \cup {None}]
           /\ auditLock' \in Requests \cup {None}
           /\ DOMAIN req' = Requests
           /\ \A r \in Requests : req'[r] = Idle \/ req'[r] \in Request
BY DEF TypeOK, Release

\* A request that has been taken up is a record of its kind.
LEMMA Serving ==
    ASSUME TypeOK, NEW r \in Requests, req[r] # Idle
    PROVE  req[r] \in Request
BY DEF TypeOK

LEMMA IdlePc == Idle.pc = "idle"
BY DEF Idle

\* A step that only changes what one request has in hand.
LEMMA OneRequest ==
    ASSUME TypeOK, NEW r \in Requests, NEW x, x = Idle \/ x \in Request,
           req' = [req EXCEPT ![r] = x]
    PROVE  /\ DOMAIN req' = Requests
           /\ \A s \in Requests : req'[s] = Idle \/ req'[s] \in Request
BY DEF TypeOK

LEMMA TypeStep ==
    ASSUME TypeOK, [Next]_vars
    PROVE  TypeOK'
<1>1. ASSUME NEW a \in Actions, NEW q \in Wanted, CreateAction(a, q)
      PROVE  TypeOK'
  <2>1. Order(q).effect \in Effects /\ Order(q).reversible \in BOOLEAN /\ Order(q).live \in BOOLEAN
    BY OrderType
  <2>2. order' = [order EXCEPT ![a] = Order(q)]
    BY <1>1 DEF CreateAction
  <2>3. status' \in [Actions -> Statuses]
    BY <1>1, <2>1 DEF CreateAction, TypeOK, Statuses, Effects
  <2>4. approval' \in [Actions -> {"none", "pending", "approved", "rejected"}]
    BY <1>1 DEF CreateAction, TypeOK
  <2>5. /\ DOMAIN order' = Actions
        /\ \A b \in Actions :
              \/ order'[b] = NoOrder
              \/ /\ order'[b].effect \in {"deny", "allow", "require_approval"}
                 /\ order'[b].reversible \in BOOLEAN /\ order'[b].live \in BOOLEAN
    BY <2>1, <2>2 DEF TypeOK, Effects
  <2> QED
    BY <1>1, <2>3, <2>4, <2>5 DEF CreateAction, TypeOK
<1>2. ASSUME NEW a \in Actions, Expire(a)
      PROVE  TypeOK'
  BY <1>2 DEF Expire, TypeOK, committed
<1>3. ASSUME NEW r \in Requests, NEW op \in Operations, NEW a \in Actions, LoadApproval(r, op, a)
      PROVE  TypeOK'
  <2>1. [pc |-> "loading", op |-> op, on |-> a, seen |-> "none", seenApproval |-> approval[a],
         next |-> "none", row |-> FALSE, mine |-> <<>>] \in Request
    BY DEF TypeOK, Request, Statuses, Entries
  <2> QED
    BY <1>3, <2>1, OneRequest DEF LoadApproval, TypeOK, committed
<1>4. ASSUME NEW r \in Requests, NEW op \in Operations, NEW a \in Actions, NEW row \in BOOLEAN,
             LoadAction(r, op, a, row)
      PROVE  TypeOK'
  <2>1. Target(op, status[a]) \in Statuses
    BY TargetType DEF TypeOK
  <2>2. [pc |-> FirstStep(op), op |-> op, on |-> a, seen |-> status[a],
         seenApproval |-> approval[a], next |-> Target(op, status[a]), row |-> row,
         mine |-> <<>>] \in Request
    BY <2>1 DEF TypeOK, Request, Entries, FirstStep
  <2> QED
    BY <1>4, <2>2, OneRequest DEF LoadAction, TypeOK, committed
<1>6. ASSUME NEW r \in Requests, Continue(r)
      PROVE  TypeOK'
  <2>1. CASE DecideLoaded(r)
    <3>1. req[r] \in Request
      BY <2>1, Serving, IdlePc DEF DecideLoaded
    <3>2. Target(req[r].op, status[req[r].on]) \in Statuses
      BY <3>1, TargetType DEF TypeOK, Request
    <3> DEFINE seen == status[req[r].on]
               next == Target(req[r].op, seen)
               x == [req[r] EXCEPT !.pc = "recording", !.seen = seen, !.next = next,
                                   !.row = (next # seen)]
    <3>3. x \in Request
      BY <3>1, <3>2 DEF TypeOK, Request
    <3>4. req' = [req EXCEPT ![r] = x] \/ req' = [req EXCEPT ![r] = Idle]
      BY <2>1 DEF DecideLoaded
    <3> HIDE DEF x
    <3> QED
      BY <2>1, <3>3, <3>4, OneRequest DEF DecideLoaded, TypeOK, committed
  <2>2. CASE FlushExecuting(r)
    <3>1. req[r] \in Request
      BY <2>2, Serving, IdlePc DEF FlushExecuting
    <3>2. [req[r] EXCEPT !.pc = "sending"] \in Request
      BY <3>1 DEF Request
    <3> QED
      BY <2>2, <3>1, <3>2, OneRequest DEF FlushExecuting, TypeOK, committed
  <2>3. CASE Simulate(r)
    <3>1. req[r] \in Request
      BY <2>3, Serving, IdlePc DEF Simulate
    <3>2. [req[r] EXCEPT !.pc = "recording", !.next = "succeeded"] \in Request
      BY <3>1 DEF Request, Statuses
    <3> QED
      BY <2>3, <3>2, OneRequest DEF Simulate, TypeOK, committed
  <2>4. CASE NotSent(r)
    <3>1. req[r] \in Request
      BY <2>4, Serving, IdlePc DEF NotSent
    <3>2. [req[r] EXCEPT !.pc = "recording", !.next = "failed"] \in Request
      BY <3>1 DEF Request, Statuses
    <3> QED
      BY <2>4, <3>2, OneRequest DEF NotSent, TypeOK, committed
  <2>5. ASSUME NEW ok \in BOOLEAN, Send(r, ok)
        PROVE  TypeOK'
    <3>1. req[r] \in Request
      BY <2>5, Serving, IdlePc DEF Send
    <3> DEFINE next == IF ok THEN "succeeded" ELSE "failed"
               x == [req[r] EXCEPT !.pc = "recording", !.next = next]
    <3>2. x \in Request
      BY <3>1 DEF Request, Statuses
    <3>4. req' = [req EXCEPT ![r] = x]
      BY <2>5 DEF Send
    <3> HIDE DEF x
    <3>5. req[r].on \in Actions
      BY <3>1 DEF Request
    <3>3. sent' \in [Actions -> Nat] /\ confirmed' \in [Actions -> Nat]
      <4>1. sent' \in [Actions -> Nat]
        BY <2>5, <3>5 DEF Send, TypeOK
      <4>2. confirmed' \in [Actions -> Nat]
        <5>1. CASE ok
          BY <2>5, <3>5, <5>1 DEF Send, TypeOK
        <5>2. CASE ~ok
          BY <2>5, <3>5, <5>2 DEF Send, TypeOK
        <5> QED
          BY <5>1, <5>2
      <4> QED
        BY <4>1, <4>2
    <3> QED
      BY <2>5, <3>2, <3>3, <3>4, OneRequest DEF Send, TypeOK, committed
  <2>6. CASE TakeAuditLock(r)
    <3>1. req[r] \in Request
      BY <2>6, Serving, IdlePc DEF TakeAuditLock
    <3>2. [req[r] EXCEPT !.pc = "writing"] \in Request
      BY <3>1 DEF Request
    <3> QED
      BY <2>6, <3>2, OneRequest DEF TakeAuditLock, TypeOK, committed
  <2>7. CASE FlushRecord(r)
    <3>1. req[r] \in Request
      BY <2>7, Serving, IdlePc DEF FlushRecord
    <3> DEFINE pc == IF Executing(r) /\ req[r].next = "succeeded" THEN "verifying" ELSE "committing"
               mine == Append(req[r].mine, Entry(r))
    <3>2. mine \in Entries
      BY <3>1, EntryType DEF Request, Entries
    <3>3. [req[r] EXCEPT !.mine = mine, !.pc = pc] \in Request
      BY <3>1, <3>2 DEF Request
    <3>4. req' = [req EXCEPT ![r] = [req[r] EXCEPT !.mine = mine, !.pc = pc]]
      BY <2>7 DEF FlushRecord
    <3>5. rowLock' \in [Actions -> Requests \cup {None}]
      BY <2>7 DEF FlushRecord, TypeOK
    <3> HIDE DEF mine, pc
    <3> QED
      BY <2>7, <3>3, <3>4, <3>5, OneRequest DEF FlushRecord, TypeOK, committed
  <2>8. ASSUME NEW found \in BOOLEAN, Verify(r, found)
        PROVE  TypeOK'
    <3>1. req[r] \in Request
      BY <2>8, Serving, IdlePc DEF Verify
    <3>2. [req[r] EXCEPT !.pc = "recording", !.next = IF found THEN "verified" ELSE "verify_failed"]
             \in Request
      BY <3>1 DEF Request, Statuses
    <3> QED
      BY <2>8, <3>2, OneRequest DEF Verify, TypeOK, committed
  <2>9. CASE Commit(r)
    <3>1. req[r] \in Request
      BY <2>9, Serving, IdlePc DEF Commit
    <3>2. status' \in [Actions -> Statuses]
      BY <2>9, <3>1 DEF Commit, TypeOK, Request
    <3>3. approval' \in [Actions -> {"none", "pending", "approved", "rejected"}]
      BY <2>9, <3>1 DEF Commit, TypeOK, Request
    <3>4. trail' \in [Actions -> Entries]
      BY <2>9, <3>1 DEF Commit, TypeOK, Request, Entries
    <3> QED
      BY <2>9, <3>2, <3>3, <3>4, ReleaseType DEF Commit, TypeOK
  <2>10. CASE DeadlockAbort(r)
    BY <2>10, ReleaseType DEF DeadlockAbort, TypeOK, committed
  <2> QED
    BY <1>6, <2>1, <2>2, <2>3, <2>4, <2>5, <2>6, <2>7, <2>8, <2>9, <2>10 DEF Continue
<1>7. ASSUME NEW r \in Requests, Crash(r)
      PROVE  TypeOK'
  BY <1>7, ReleaseType DEF Crash, TypeOK, committed
<1>8. CASE UNCHANGED vars
  BY <1>8 DEF vars, committed, TypeOK
<1> QED
  BY <1>1, <1>2, <1>3, <1>4, <1>6, <1>7, <1>8 DEF Next

\* The type invariant of rows, locks and requests holds for any constants.
THEOREM TypeCorrect == Spec => []TypeOK
<1>1. TypeOK /\ [Next]_vars => TypeOK'
  BY TypeStep
<1> QED
  BY <1>1, TypeInit, PTL DEF Spec
-----------------------------------------------------------------------------
(* The invariant: what each request in flight has in hand, what the status *)
(* of an action means, and what its trail holds.                           *)

Succeeded == <<"executed", TRUE>>

\* An execution, from what it has loaded to what it will commit.
ExecuteAt(x) ==
    /\ x.pc \in {"flushing", "sending"} => x.mine = <<>>
    /\ x.pc \in {"recording", "writing"} =>
          \/ x.next \in {"succeeded", "failed"} /\ x.mine = <<>>
          \/ x.next \in {"verified", "verify_failed"} /\ x.mine = <<Succeeded>>
    /\ x.pc = "verifying" => x.next = "succeeded" /\ x.mine = <<Succeeded>>
    /\ x.pc = "committing" =>
          \/ x.next = "failed" /\ x.mine = << <<"executed", FALSE>> >>
          \/ x.next = "verified" /\ x.mine = <<Succeeded, <<"verified", TRUE>> >>
          \/ x.next = "verify_failed" /\ x.mine = <<Succeeded, <<"verified", FALSE>> >>
    /\ x.pc # "loading"

\* Every other request records itself once.
OtherAt(x) ==
    /\ x.pc \in {"loading", "recording", "writing", "committing"}
    /\ x.pc = "loading" => x.op \in Decisions
    /\ x.pc # "loading" => x.next = Target(x.op, x.seen)
    /\ x.mine = IF x.pc = "committing" THEN << <<x.op, TRUE>> >> ELSE <<>>

Course(x) ==
    /\ x.op # "verify" /\ x.seen \notin {"executing", "succeeded"}
    /\ x.op = "execute" => ExecuteAt(x)
    /\ x.op # "execute" => OtherAt(x)

\* What a request relies on is still so, whatever others have committed since.
InHand(r) ==
    req[r] # Idle =>
        /\ order[req[r].on] # NoOrder /\ Course(req[r])
        /\ req[r].op \in Decisions => order[req[r].on].effect = "require_approval"
        /\ req[r].op = "execute" => Cleared(req[r].on)
        /\ req[r].op = "execute" /\ req[r].pc # "flushing" => rowLock[req[r].on] = r
        /\ req[r].op = "rollback" => Has(req[r].on, <<"verified", TRUE>>)

Meaning(a) ==
    /\ status[a] \notin {"executing", "succeeded"}
    /\ status[a] = "approved" => Cleared(a)
    /\ status[a] = "verified" => Has(a, <<"verified", TRUE>>)
    /\ approval[a] # "none" => order[a] # NoOrder /\ order[a].effect = "require_approval"
    /\ order[a] = NoOrder => trail[a] = <<>>

\* Every entry of a trail comes after those that explain it.
Explained(t, effect) ==
    \A n \in DOMAIN t :
        /\ t[n][1] = "executed" =>
              effect = "allow" \/ \E m \in 1 .. (n - 1) : t[m] = <<"approve", TRUE>>
        /\ t[n][1] = "rollback" => \E m \in 1 .. (n - 1) : t[m] = <<"verified", TRUE>>

Ordered(a) == Explained(trail[a], order[a].effect)

Inv ==
    /\ TypeOK
    /\ \A r \in Requests : InHand(r)
    /\ \A a \in Actions : Meaning(a) /\ Ordered(a)

LEMMA InvInit == Init => Inv
<1> SUFFICES ASSUME Init PROVE Inv
  OBVIOUS
<1>1. TypeOK
  BY TypeInit
<1>2. ASSUME NEW r \in Requests PROVE InHand(r)
  BY DEF Init, InHand
<1>3. ASSUME NEW a \in Actions PROVE Meaning(a) /\ Ordered(a)
  BY DEF Init, Meaning, Ordered, Explained
<1> QED
  BY <1>1, <1>2, <1>3 DEF Inv

\* A step of r that commits nothing leaves the others what they rely on.
LEMMA LocalStep ==
    ASSUME Inv, TypeOK', NEW r \in Requests, UNCHANGED committed,
           \A s \in Requests \ {r} : req'[s] = req[s],
           \A a \in Actions, s \in Requests \ {r} : rowLock[a] = s => rowLock'[a] = s,
           InHand(r)'
    PROVE  Inv'
<1>1. ASSUME NEW s \in Requests, s # r
      PROVE  InHand(s)'
  <2>1. InHand(s) /\ req'[s] = req[s] /\ UNCHANGED committed
    BY <1>1 DEF Inv
  <2>2. req[s] # Idle => req[s].on \in Actions
    BY DEF Inv, TypeOK, Request
  <2>3. order' = order /\ trail' = trail
    BY DEF committed
  <2>4. \A a : Cleared(a)' = Cleared(a) /\ Has(a, <<"verified", TRUE>>)' = Has(a, <<"verified", TRUE>>)
    BY <2>3 DEF Cleared, Has
  <2>5. req[s] # Idle /\ rowLock[req[s].on] = s => rowLock'[req[s].on] = s
    BY <1>1, <2>2
  <2> QED
    BY <2>1, <2>3, <2>4, <2>5 DEF InHand
<1>2. ASSUME NEW a \in Actions
      PROVE  (Meaning(a) /\ Ordered(a))'
  <2>1. Meaning(a) /\ Ordered(a)
    BY DEF Inv
  <2> QED
    BY <2>1 DEF Meaning, Ordered, Cleared, Has, committed
<1> QED
  BY <1>1, <1>2 DEF Inv

\* Loading: what is found is what the status means.
LEMMA LoadStep ==
    ASSUME Inv, TypeOK', NEW r \in Requests, NEW op \in Operations, NEW a \in Actions,
           LoadApproval(r, op, a) \/ \E row \in BOOLEAN : LoadAction(r, op, a, row)
    PROVE  Inv'
<1>1. Meaning(a) /\ order[a] \in Traced
  BY DEF Inv, LoadApproval, LoadAction
<1>2. order[a] # NoOrder
  BY <1>1, TracedOrdered
<1>3. InHand(r)'
  <2>1. CASE LoadApproval(r, op, a)
    <3> DEFINE x == [pc |-> "loading", op |-> op, on |-> a, seen |-> "none",
                     seenApproval |-> approval[a], next |-> "none", row |-> FALSE, mine |-> <<>>]
    <3>1. req'[r] = x /\ UNCHANGED committed /\ op \in Decisions /\ approval[a] # "none"
      BY <2>1 DEF LoadApproval, Inv, TypeOK
    <3>2. Course(x)
      BY <3>1 DEF Course, OtherAt, Decisions
    <3> QED
      BY <1>1, <1>2, <3>1, <3>2 DEF InHand, Meaning, committed, Decisions
  <2>2. ASSUME NEW row \in BOOLEAN, LoadAction(r, op, a, row)
        PROVE  InHand(r)'
    <3> DEFINE x == [pc |-> FirstStep(op), op |-> op, on |-> a, seen |-> status[a],
                     seenApproval |-> approval[a], next |-> Target(op, status[a]),
                     row |-> row, mine |-> <<>>]
    <3>1. req'[r] = x /\ UNCHANGED committed /\ op \notin Decisions
      BY <2>2 DEF LoadAction, Inv, TypeOK
    <3>2. /\ op = "execute" => Cleared(a)
          /\ op = "rollback" => Has(a, <<"verified", TRUE>>)
          /\ op # "verify" /\ status[a] \notin {"executing", "succeeded"}
      BY <1>1, <2>2 DEF LoadAction, Permitted, Meaning
    <3>3. Course(x)
      BY <3>1, <3>2 DEF Course, OtherAt, ExecuteAt, Operations, Decisions, FirstStep, Target
    <3>4. x.pc = "flushing" \/ op # "execute"
      BY DEF FirstStep
    <3>5. x.on = a /\ x.op = op
      OBVIOUS
    <3> HIDE DEF x
    <3>6. UNCHANGED <<order, trail>>
      BY <3>1 DEF committed
    <3> QED
      BY <1>2, <3>1, <3>2, <3>3, <3>4, <3>5, <3>6 DEF InHand, Cleared, Has
  <2> QED
    BY <2>1, <2>2
<1>4. UNCHANGED <<committed, rowLock>>
  BY DEF LoadApproval, LoadAction
<1>5. \A s \in Requests \ {r} : req'[s] = req[s]
  <2>1. CASE LoadApproval(r, op, a)
    BY <2>1 DEF LoadApproval, Inv, TypeOK
  <2>2. ASSUME NEW row \in BOOLEAN, LoadAction(r, op, a, row)
        PROVE  \A s \in Requests \ {r} : req'[s] = req[s]
    BY <2>2 DEF LoadAction, Inv, TypeOK
  <2> QED
    BY <2>1, <2>2
<1> QED
  BY <1>3, <1>4, <1>5, LocalStep

\* A request that goes on with what it has in hand: x is what it holds next.
LEMMA GoesOn ==
    ASSUME Inv, TypeOK', NEW r \in Requests, req[r] # Idle, NEW x,
           req' = [req EXCEPT ![r] = x], UNCHANGED committed,
           x.on = req[r].on, x.op = req[r].op, Course(x),
           \A a \in Actions, s \in Requests \ {r} : rowLock[a] = s => rowLock'[a] = s,
           x.op = "execute" => rowLock'[x.on] = r
    PROVE  Inv'
<1>1. req'[r] = x /\ \A s \in Requests \ {r} : req'[s] = req[s]
  BY DEF Inv, TypeOK
<1>2. order' = order /\ trail' = trail
  BY DEF committed
<1>3. \A a : Cleared(a)' = Cleared(a) /\ Has(a, <<"verified", TRUE>>)' = Has(a, <<"verified", TRUE>>)
  BY <1>2 DEF Cleared, Has
<1>4. InHand(r)
  BY DEF Inv
<1>5. InHand(r)'
  BY <1>1, <1>2, <1>3, <1>4 DEF InHand
<1> QED
  BY <1>1, <1>5, LocalStep

LEMMA DecideStep ==
    ASSUME Inv, TypeOK', NEW r \in Requests, DecideLoaded(r)
    PROVE  Inv'
<1> DEFINE a == req[r].on
           next == Target(req[r].op, status[a])
           x == [req[r] EXCEPT !.pc = "recording", !.seen = status[a], !.next = next,
                               !.row = (next # status[a])]
<1>1. req[r] \in Request /\ req[r].pc = "loading" /\ req[r] # Idle
  BY Serving, IdlePc DEF DecideLoaded, Inv
<1>2. Meaning(a) /\ InHand(r)
  BY <1>1 DEF Inv, Request
<1>3. req[r].op \in Decisions /\ req[r].op # "execute" /\ req[r].mine = <<>>
  BY <1>1, <1>2 DEF InHand, Course, OtherAt, ExecuteAt
<1>4. x.pc = "recording" /\ x.seen = status[a] /\ x.next = next /\ x.op = req[r].op
      /\ x.on = a /\ x.mine = <<>>
  BY <1>1, <1>3 DEF Request
<1>5. UNCHANGED <<committed, rowLock>>
  BY DEF DecideLoaded
<1>6. req' = [req EXCEPT ![r] = x] \/ req' = [req EXCEPT ![r] = Idle]
  BY DEF DecideLoaded
<1> HIDE DEF x, next
<1>7. CASE req' = [req EXCEPT ![r] = x]
  <2>1. Course(x)
    BY <1>2, <1>3, <1>4 DEF Course, OtherAt, Meaning, Decisions, next
  <2> QED
    BY <1>1, <1>3, <1>4, <1>5, <1>7, <2>1, GoesOn
<1>8. CASE req' = [req EXCEPT ![r] = Idle]
  <2>1. InHand(r)' /\ \A s \in Requests \ {r} : req'[s] = req[s]
    BY <1>8 DEF InHand, Inv, TypeOK
  <2> QED
    BY <1>5, <2>1, LocalStep
<1> QED
  BY <1>6, <1>7, <1>8

\* An execution that has its answer, of a connector or of a verification.
LEMMA AnswerStep ==
    ASSUME Inv, TypeOK', NEW r \in Requests, req[r] # Idle, NEW next,
           req' = [req EXCEPT ![r] = [req[r] EXCEPT !.pc = "recording", !.next = next]],
           \/ req[r].pc = "sending" /\ next \in {"succeeded", "failed"}
           \/ req[r].pc = "verifying" /\ next \in {"verified", "verify_failed"},
           UNCHANGED <<committed, rowLock>>
    PROVE  Inv'
<1> DEFINE x == [req[r] EXCEPT !.pc = "recording", !.next = next]
<1>1. req[r] \in Request /\ InHand(r)
  BY Serving DEF Inv
<1>2. req[r].op = "execute" /\ ExecuteAt(req[r]) /\ Course(req[r]) /\ rowLock[req[r].on] = r
  BY <1>1 DEF InHand, Course, OtherAt
<1>3. x.on = req[r].on /\ x.op = req[r].op /\ Course(x)
  BY <1>1, <1>2 DEF Request, Course, ExecuteAt
<1>4. req' = [req EXCEPT ![r] = x]
  OBVIOUS
<1> HIDE DEF x
<1> QED
  BY <1>2, <1>3, <1>4, GoesOn

\* The steps of an execution up to its record.
LEMMA ExecuteStep ==
    ASSUME Inv, TypeOK', NEW r \in Requests,
           \/ FlushExecuting(r) \/ Simulate(r) \/ NotSent(r)
           \/ \E ok \in BOOLEAN : Send(r, ok)
           \/ \E found \in BOOLEAN : Verify(r, found)
    PROVE  Inv'
<1>1. req[r] \in Request /\ req[r] # Idle /\ req[r].pc \in {"flushing", "sending", "verifying"}
  BY Serving, IdlePc DEF FlushExecuting, Simulate, NotSent, Send, Verify, Inv
<1>2. InHand(r) /\ req[r].on \in Actions
  BY <1>1 DEF Inv, Request
<1>3. req[r].op = "execute" /\ ExecuteAt(req[r]) /\ Course(req[r])
  BY <1>1, <1>2 DEF InHand, Course, OtherAt
<1>4. UNCHANGED committed
  BY DEF FlushExecuting, Simulate, NotSent, Send, Verify
<1>5. CASE FlushExecuting(r)
  <2> DEFINE x == [req[r] EXCEPT !.pc = "sending"]
  <2>1. x.on = req[r].on /\ x.op = req[r].op /\ Course(x)
    BY <1>1, <1>3, <1>5 DEF Request, Course, ExecuteAt, FlushExecuting
  <2>2. req' = [req EXCEPT ![r] = x]
    BY <1>5 DEF FlushExecuting
  <2>3. rowLock'[req[r].on] = r /\ \A a \in Actions, s \in Requests \ {r} : rowLock[a] = s => rowLock'[a] = s
    BY <1>2, <1>5 DEF FlushExecuting, Inv, TypeOK
  <2> HIDE DEF x
  <2> QED
    BY <1>1, <1>4, <2>1, <2>2, <2>3, GoesOn
<1>7. CASE Simulate(r) \/ NotSent(r)
  <2> DEFINE next == IF order[req[r].on].live THEN "failed" ELSE "succeeded"
  <2>1. req' = [req EXCEPT ![r] = [req[r] EXCEPT !.pc = "recording", !.next = next]]
    BY <1>7 DEF Simulate, NotSent
  <2>2. req[r].pc = "sending" /\ UNCHANGED <<committed, rowLock>>
    BY <1>7 DEF Simulate, NotSent
  <2>3. next \in {"succeeded", "failed"}
    OBVIOUS
  <2> HIDE DEF next
  <2> QED
    BY <1>1, <2>1, <2>2, <2>3, AnswerStep
<1>8. ASSUME NEW ok \in BOOLEAN, Send(r, ok)
      PROVE  Inv'
  <2> DEFINE next == IF ok THEN "succeeded" ELSE "failed"
  <2>1. req' = [req EXCEPT ![r] = [req[r] EXCEPT !.pc = "recording", !.next = next]]
    BY <1>8 DEF Send
  <2>2. req[r].pc = "sending" /\ UNCHANGED <<committed, rowLock>>
    BY <1>8 DEF Send
  <2>3. next \in {"succeeded", "failed"}
    OBVIOUS
  <2> HIDE DEF next
  <2> QED
    BY <1>1, <2>1, <2>2, <2>3, AnswerStep
<1>9. ASSUME NEW found \in BOOLEAN, Verify(r, found)
      PROVE  Inv'
  <2> DEFINE next == IF found THEN "verified" ELSE "verify_failed"
  <2>1. req' = [req EXCEPT ![r] = [req[r] EXCEPT !.pc = "recording", !.next = next]]
    BY <1>9 DEF Verify
  <2>2. req[r].pc = "verifying" /\ UNCHANGED <<committed, rowLock>>
    BY <1>9 DEF Verify
  <2>3. next \in {"verified", "verify_failed"}
    OBVIOUS
  <2> HIDE DEF next
  <2> QED
    BY <1>1, <2>1, <2>2, <2>3, AnswerStep
<1> QED
  BY <1>5, <1>7, <1>8, <1>9

LEMMA AppendToOne ==
    ASSUME NEW S, NEW e \in S, NEW f \in S
    PROVE  Append(<<e>>, f) = <<e, f>>
<1> DEFINE long == Append(<<e>>, f)
           pair == <<e, f>>
<1>1. <<e>> \in Seq(S) /\ Len(<<e>>) = 1 /\ <<e>>[1] = e
  OBVIOUS
<1>2. long \in Seq(S) /\ Len(long) = 2 /\ long[1] = e /\ long[2] = f
  BY <1>1, AppendProperties
<1>3. pair \in Seq(S) /\ Len(pair) = 2 /\ pair[1] = e /\ pair[2] = f
  OBVIOUS
<1> HIDE DEF long, pair
<1>4. \A i \in 1 .. Len(long) : long[i] = pair[i]
  BY <1>2, <1>3
<1>5. long = pair
  BY <1>2, <1>3, <1>4, SeqEqual
<1> QED
  BY <1>5 DEF long, pair

\* record(): the lock, and the entry that the flush inserts.
LEMMA RecordStep ==
    ASSUME Inv, TypeOK', NEW r \in Requests, TakeAuditLock(r) \/ FlushRecord(r)
    PROVE  Inv'
<1>1. req[r] \in Request /\ req[r] # Idle /\ req[r].pc \in {"recording", "writing"}
  BY Serving, IdlePc DEF TakeAuditLock, FlushRecord, Inv
<1>2. InHand(r) /\ req[r].on \in Actions
  BY <1>1 DEF Inv, Request
<1>3. Course(req[r]) /\ (req[r].op = "execute" => rowLock[req[r].on] = r)
  BY <1>1, <1>2 DEF InHand
<1>4. CASE TakeAuditLock(r)
  <2> DEFINE x == [req[r] EXCEPT !.pc = "writing"]
  <2>1. x.on = req[r].on /\ x.op = req[r].op /\ Course(x)
    BY <1>1, <1>3, <1>4 DEF Request, Course, ExecuteAt, OtherAt, TakeAuditLock
  <2>2. req' = [req EXCEPT ![r] = x] /\ UNCHANGED <<committed, rowLock>>
    BY <1>4 DEF TakeAuditLock
  <2> HIDE DEF x
  <2> QED
    BY <1>1, <1>3, <2>1, <2>2, GoesOn
<1>5. CASE FlushRecord(r)
  <2> DEFINE pc == IF Executing(r) /\ req[r].next = "succeeded" THEN "verifying" ELSE "committing"
             mine == Append(req[r].mine, Entry(r))
             x == [req[r] EXCEPT !.mine = mine, !.pc = pc]
  <2>1. /\ x.on = req[r].on /\ x.op = req[r].op /\ x.next = req[r].next /\ x.seen = req[r].seen
        /\ x.pc = pc /\ x.mine = mine
    BY <1>1 DEF Request
  <2>2. req' = [req EXCEPT ![r] = x] /\ UNCHANGED committed
    BY <1>5 DEF FlushRecord
  <2>3. Course(x)
    <3>1. CASE req[r].op = "execute"
      <4>1. ExecuteAt(req[r]) /\ req[r].pc = "writing"
        BY <1>3, <1>5, <3>1 DEF Course, FlushRecord
      <4>2. CASE req[r].next = "succeeded"
        <5>1. pc = "verifying" /\ Entry(r) = Succeeded /\ req[r].mine = <<>>
          BY <3>1, <4>1, <4>2 DEF ExecuteAt, Executing, Entry, Succeeded
        <5>2. mine = <<Succeeded>>
          BY <5>1
        <5> HIDE DEF x, mine, pc
        <5> QED
          BY <1>3, <2>1, <3>1, <4>2, <5>1, <5>2 DEF Course, ExecuteAt
      <4>3. CASE req[r].next = "failed"
        <5>1. pc = "committing" /\ Entry(r) = <<"executed", FALSE>> /\ req[r].mine = <<>>
          BY <3>1, <4>1, <4>3 DEF ExecuteAt, Executing, Entry
        <5>2. mine = << <<"executed", FALSE>> >>
          BY <5>1
        <5> HIDE DEF x, mine, pc
        <5> QED
          BY <1>3, <2>1, <3>1, <4>3, <5>1, <5>2 DEF Course, ExecuteAt
      <4>4. CASE req[r].next = "verified"
        <5>1. pc = "committing" /\ Entry(r) = <<"verified", TRUE>> /\ req[r].mine = <<Succeeded>>
          BY <3>1, <4>1, <4>4 DEF ExecuteAt, Executing, Entry
        <5>2. Succeeded \in Events \X BOOLEAN /\ Entry(r) \in Events \X BOOLEAN
          BY <1>1, EntryType DEF Succeeded, Events
        <5>3. mine = Append(<<Succeeded>>, Entry(r))
          BY <5>1
        <5>4. mine = <<Succeeded, Entry(r)>>
          BY <5>2, <5>3, AppendToOne
        <5>5. mine = <<Succeeded, <<"verified", TRUE>> >>
          BY <5>1, <5>4
        <5> HIDE DEF x, mine, pc
        <5> QED
          BY <1>3, <2>1, <3>1, <4>4, <5>1, <5>5 DEF Course, ExecuteAt
      <4>5. CASE req[r].next = "verify_failed"
        <5>1. pc = "committing" /\ Entry(r) = <<"verified", FALSE>> /\ req[r].mine = <<Succeeded>>
          BY <3>1, <4>1, <4>5 DEF ExecuteAt, Executing, Entry
        <5>2. Succeeded \in Events \X BOOLEAN /\ Entry(r) \in Events \X BOOLEAN
          BY <1>1, EntryType DEF Succeeded, Events
        <5>3. mine = Append(<<Succeeded>>, Entry(r))
          BY <5>1
        <5>4. mine = <<Succeeded, Entry(r)>>
          BY <5>2, <5>3, AppendToOne
        <5>5. mine = <<Succeeded, <<"verified", FALSE>> >>
          BY <5>1, <5>4
        <5> HIDE DEF x, mine, pc
        <5> QED
          BY <1>3, <2>1, <3>1, <4>5, <5>1, <5>5 DEF Course, ExecuteAt
      <4> QED
        BY <4>1, <4>2, <4>3, <4>4, <4>5 DEF ExecuteAt
    <3>2. CASE req[r].op # "execute"
      <4>1. OtherAt(req[r]) /\ req[r].pc = "writing" /\ ~Executing(r)
        BY <1>3, <1>5, <3>2 DEF Course, FlushRecord, Executing
      <4>2. pc = "committing" /\ Entry(r) = <<req[r].op, TRUE>> /\ req[r].mine = <<>>
        BY <4>1 DEF OtherAt, Entry
      <4>3. mine = << <<req[r].op, TRUE>> >>
        BY <4>2
      <4> HIDE DEF x, mine, pc
      <4> QED
        BY <1>3, <2>1, <3>2, <4>1, <4>2, <4>3 DEF Course, OtherAt
    <3> QED
      BY <3>1, <3>2
  <2>4. \A a \in Actions, s \in Requests \ {r} : rowLock[a] = s => rowLock'[a] = s
    BY <1>2, <1>5 DEF FlushRecord, Inv, TypeOK
  <2>5. req[r].op = "execute" => rowLock'[req[r].on] = r
    BY <1>2, <1>3, <1>5 DEF FlushRecord, Inv, TypeOK
  <2> HIDE DEF x
  <2> QED
    BY <1>1, <2>1, <2>2, <2>3, <2>4, <2>5, GoesOn
<1> QED
  BY <1>4, <1>5

\* A transaction that ends without a commit gives back what it holds.
LEMMA AbortStep ==
    ASSUME Inv, TypeOK', NEW r \in Requests, Release({r}), UNCHANGED committed
    PROVE  Inv'
<1>1. req'[r] = Idle /\ \A s \in Requests \ {r} : req'[s] = req[s]
  BY DEF Release
<1>2. \A a \in Actions, s \in Requests \ {r} : rowLock[a] = s => rowLock'[a] = s
  BY DEF Release
<1>3. InHand(r)'
  BY <1>1 DEF InHand
<1> QED
  BY <1>1, <1>2, <1>3, LocalStep

LEMMA OneEntry ==
    ASSUME NEW e, NEW s, s = <<e>>
    PROVE  Len(s) = 1 /\ s[1] = e /\ \A i \in 1 .. Len(s) : i = 1
<1>1. Len(<<e>>) = 1 /\ <<e>>[1] = e
  OBVIOUS
<1>2. Len(s) = 1 /\ s[1] = e
  BY <1>1
<1> QED
  BY <1>2

LEMMA TwoEntries ==
    ASSUME NEW e, NEW f, NEW s, s = <<e, f>>
    PROVE  Len(s) = 2 /\ s[1] = e /\ s[2] = f /\ \A i \in 1 .. Len(s) : i = 1 \/ i = 2
<1>1. Len(<<e, f>>) = 2 /\ <<e, f>>[1] = e /\ <<e, f>>[2] = f
  OBVIOUS
<1>2. Len(s) = 2 /\ s[1] = e /\ s[2] = f
  BY <1>1
<1> QED
  BY <1>2

\* What a transaction that commits has recorded.
LEMMA MineAtCommit ==
    ASSUME Inv, NEW r \in Requests, req[r] # Idle, req[r].pc = "committing",
           NEW mine, mine = req[r].mine
    PROVE  /\ mine \in Entries
           /\ \A i \in 1 .. Len(mine) :
                 /\ mine[i][1] = "executed" => req[r].op = "execute"
                 /\ mine[i][1] = "rollback" => req[r].op = "rollback"
           /\ req[r].op = "approve" => Len(mine) = 1 /\ mine[1] = <<"approve", TRUE>>
           /\ req[r].op = "execute" /\ req[r].next = "verified" =>
                 Len(mine) = 2 /\ mine[2] = <<"verified", TRUE>>
<1>1. req[r] \in Request /\ Course(req[r])
  BY Serving DEF Inv, InHand
<1>2. mine \in Entries
  BY <1>1 DEF Request
<1>3. CASE req[r].op = "execute"
  <2>1. CASE req[r].next = "failed"
    <3>1. mine = << <<"executed", FALSE>> >>
      BY <1>1, <1>3, <2>1 DEF Course, ExecuteAt
    <3>2. mine[1] = <<"executed", FALSE>> /\ \A i \in 1 .. Len(mine) : i = 1
      BY <3>1, OneEntry
    <3>3. mine[1][1] = "executed" /\ \A i \in 1 .. Len(mine) : i = 1
      BY <3>2
    <3> QED
      BY <1>2, <1>3, <2>1, <3>3
  <2>2. ASSUME NEW found \in BOOLEAN, req[r].next = IF found THEN "verified" ELSE "verify_failed"
        PROVE  /\ Len(mine) = 2 /\ mine[1] = Succeeded /\ mine[2] = <<"verified", found>>
               /\ \A i \in 1 .. Len(mine) : mine[i][1] # "rollback"
    <3>1. mine = <<Succeeded, <<"verified", found>> >>
      <4>1. CASE found
        BY <1>1, <1>3, <2>2, <4>1 DEF Course, ExecuteAt
      <4>2. CASE ~found
        BY <1>1, <1>3, <2>2, <4>2 DEF Course, ExecuteAt
      <4> QED
        BY <4>1, <4>2
    <3>2. /\ Len(mine) = 2 /\ mine[1] = Succeeded /\ mine[2] = <<"verified", found>>
          /\ \A i \in 1 .. Len(mine) : i = 1 \/ i = 2
      BY <3>1, TwoEntries
    <3>3. mine[1][1] # "rollback" /\ mine[2][1] # "rollback"
      BY <3>2 DEF Succeeded
    <3> QED
      BY <3>2, <3>3
  <2>3. CASE req[r].next = "verified"
    <3>1. Len(mine) = 2 /\ mine[2] = <<"verified", TRUE>>
      BY <2>2, <2>3
    <3>2. \A i \in 1 .. Len(mine) : mine[i][1] # "rollback"
      BY <2>2, <2>3
    <3> QED
      BY <1>2, <1>3, <2>3, <3>1, <3>2
  <2>4. CASE req[r].next = "verify_failed"
    <3>1. \A i \in 1 .. Len(mine) : mine[i][1] # "rollback"
      BY <2>2, <2>4
    <3> QED
      BY <1>2, <1>3, <2>4, <3>1
  <2> QED
    BY <1>1, <1>3, <2>1, <2>3, <2>4 DEF Course, ExecuteAt
<1>4. CASE req[r].op # "execute"
  <2>1. mine = << <<req[r].op, TRUE>> >>
    BY <1>1, <1>4 DEF Course, OtherAt
  <2>2. req[r].op # "executed"
    BY <1>1 DEF Request, Operations, Decisions
  <2>3. Len(mine) = 1 /\ mine[1] = <<req[r].op, TRUE>> /\ \A i \in 1 .. Len(mine) : i = 1
    BY <2>1, OneEntry
  <2>5. mine[1][1] = req[r].op
    BY <2>3
  <2>6. /\ mine[1][1] = "executed" => req[r].op = "execute"
        /\ mine[1][1] = "rollback" => req[r].op = "rollback"
    BY <2>2, <2>5
  <2> QED
    BY <1>2, <1>4, <2>3, <2>6
<1> QED
  BY <1>3, <1>4

LEMMA EntriesDomain ==
    ASSUME NEW s \in Entries
    PROVE  Len(s) \in Nat /\ DOMAIN s = 1 .. Len(s)
BY DEF Entries

\* u is t and then m.
Grows(t, m, u) ==
    /\ t \in Entries /\ m \in Entries /\ u \in Entries
    /\ Len(u) = Len(t) + Len(m)
    /\ \A n \in 1 .. Len(t) : u[n] = t[n]
    /\ \A i \in 1 .. Len(m) : u[Len(t) + i] = m[i]

LEMMA ConcatGrows ==
    ASSUME NEW t \in Entries, NEW m \in Entries
    PROVE  Grows(t, m, t \o m)
<1> DEFINE u == t \o m
<1>1. Len(t) \in Nat /\ Len(m) \in Nat
  BY EntriesDomain
<1>2. /\ u \in Entries /\ Len(u) = Len(t) + Len(m)
      /\ \A i \in 1 .. Len(t) + Len(m) : u[i] = IF i <= Len(t) THEN t[i] ELSE m[i - Len(t)]
  BY ConcatProperties DEF Entries
<1> HIDE DEF u
<1>3. \A n \in 1 .. Len(t) : u[n] = t[n]
  BY <1>1, <1>2
<1>4. \A i \in 1 .. Len(m) : u[Len(t) + i] = m[i]
  BY <1>1, <1>2
<1>5. Grows(t, m, u)
  BY <1>2, <1>3, <1>4 DEF Grows
<1> QED
  BY <1>5 DEF u

LEMMA GrowsKeeps ==
    ASSUME NEW t, NEW m, NEW u, Grows(t, m, u), NEW n \in DOMAIN t
    PROVE  n \in DOMAIN u /\ u[n] = t[n]
<1>1. /\ Len(t) \in Nat /\ Len(m) \in Nat
      /\ DOMAIN t = 1 .. Len(t) /\ DOMAIN u = 1 .. Len(u)
  BY EntriesDomain DEF Grows
<1>2. Len(u) = Len(t) + Len(m) /\ \A k \in 1 .. Len(t) : u[k] = t[k]
  BY DEF Grows
<1>3. n \in Int /\ 1 <= n /\ n <= Len(t)
  BY <1>1
<1>4. n \in 1 .. (Len(t) + Len(m))
  BY <1>1, <1>3
<1> QED
  BY <1>1, <1>2, <1>4

\* A commit adds to the trail of one action, and keeps what was there.
LEMMA TrailGrows ==
    ASSUME Inv, NEW r \in Requests, req[r] # Idle, Commit(r), NEW b \in Actions
    PROVE  IF b = req[r].on THEN Grows(trail[b], req[r].mine, trail'[b])
                            ELSE trail'[b] = trail[b]
<1>1. req[r].mine \in Entries /\ trail[b] \in Entries
  BY Serving DEF Inv, Request, TypeOK
<1>2. CASE b = req[r].on
  <2>1. trail'[b] = trail[b] \o req[r].mine
    BY <1>2 DEF Commit, Inv, TypeOK
  <2> QED
    BY <1>1, <1>2, <2>1, ConcatGrows
<1>3. CASE b # req[r].on
  BY <1>3 DEF Commit, Inv, TypeOK
<1> QED
  BY <1>2, <1>3

\* So what was once in a trail stays there.
LEMMA Persists ==
    ASSUME Inv, NEW r \in Requests, req[r] # Idle, Commit(r), NEW b \in Actions
    PROVE  /\ Cleared(b) => Cleared(b)'
           /\ Has(b, <<"verified", TRUE>>) => Has(b, <<"verified", TRUE>>)'
<1>1. order' = order
  BY DEF Commit
<1>2. CASE b # req[r].on
  <2>1. trail'[b] = trail[b]
    BY <1>2, TrailGrows
  <2> QED
    BY <1>1, <2>1 DEF Cleared, Has
<1>3. CASE b = req[r].on
  <2>1. Grows(trail[b], req[r].mine, trail'[b])
    BY <1>3, TrailGrows
  <2>2. \A n \in DOMAIN trail[b] : n \in DOMAIN trail'[b] /\ trail'[b][n] = trail[b][n]
    BY <2>1, GrowsKeeps
  <2> QED
    BY <1>1, <2>2 DEF Cleared, Has
<1> QED
  BY <1>2, <1>3

\* What the new entries of a trail come after is in the part that was there.
LEMMA ExplainedGrows ==
    ASSUME NEW effect, NEW t, NEW m, NEW u, Grows(t, m, u), Explained(t, effect),
           \A i \in 1 .. Len(m) :
              /\ m[i][1] = "executed" =>
                    effect = "allow" \/ \E k \in DOMAIN t : t[k] = <<"approve", TRUE>>
              /\ m[i][1] = "rollback" => \E k \in DOMAIN t : t[k] = <<"verified", TRUE>>
    PROVE  Explained(u, effect)
<1>0. /\ t \in Entries /\ m \in Entries /\ u \in Entries
      /\ Len(u) = Len(t) + Len(m)
      /\ \A n \in 1 .. Len(t) : u[n] = t[n]
      /\ \A i \in 1 .. Len(m) : u[Len(t) + i] = m[i]
  BY DEF Grows
<1>1. /\ Len(t) \in Nat /\ DOMAIN t = 1 .. Len(t) /\ Len(m) \in Nat
      /\ DOMAIN u = 1 .. (Len(t) + Len(m))
  BY <1>0, EntriesDomain
<1>2. ASSUME NEW n \in 1 .. (Len(t) + Len(m)), n > Len(t), NEW e, \E k \in DOMAIN t : t[k] = e
      PROVE  \E k \in 1 .. (n - 1) : u[k] = e
  <2>1. PICK k \in 1 .. Len(t) : t[k] = e
    BY <1>1, <1>2
  <2>2. k \in 1 .. (n - 1) /\ u[k] = e
    BY <1>0, <1>1, <1>2, <2>1
  <2> QED
    BY <2>2
<1>3. ASSUME NEW n \in 1 .. (Len(t) + Len(m))
      PROVE  /\ u[n][1] = "executed" =>
                   effect = "allow" \/ \E k \in 1 .. (n - 1) : u[k] = <<"approve", TRUE>>
             /\ u[n][1] = "rollback" => \E k \in 1 .. (n - 1) : u[k] = <<"verified", TRUE>>
  <2>1. CASE n <= Len(t)
    <3>1. n \in 1 .. Len(t) /\ u[n] = t[n]
      BY <1>0, <1>1, <2>1
    <3>2. \A k \in 1 .. (n - 1) : u[k] = t[k]
      BY <1>0, <1>1, <3>1
    <3>3. /\ t[n][1] = "executed" =>
                effect = "allow" \/ \E k \in 1 .. (n - 1) : t[k] = <<"approve", TRUE>>
          /\ t[n][1] = "rollback" => \E k \in 1 .. (n - 1) : t[k] = <<"verified", TRUE>>
      BY <1>1, <3>1 DEF Explained
    <3> QED
      BY <3>1, <3>2, <3>3
  <2>2. CASE n > Len(t)
    <3>1. PICK i \in 1 .. Len(m) : n = Len(t) + i
      <4>1. n - Len(t) \in 1 .. Len(m) /\ n = Len(t) + (n - Len(t))
        BY <1>1, <2>2
      <4> QED
        BY <4>1
    <3>2. u[n] = m[i]
      BY <1>0, <3>1
    <3> QED
      BY <1>2, <2>2, <3>2
  <2>3. n <= Len(t) \/ n > Len(t)
    BY <1>1
  <2> QED
    BY <2>1, <2>2, <2>3
<1> QED
  BY <1>1, <1>3 DEF Explained

\* A commit explains what it adds.
LEMMA OrderedGrows ==
    ASSUME Inv, NEW r \in Requests, req[r] # Idle, Commit(r), NEW b \in Actions
    PROVE  Ordered(b)'
<1>1. Ordered(b) /\ order' = order /\ req[r].pc = "committing" /\ InHand(r)
  BY DEF Inv, Commit
<1>2. CASE b # req[r].on
  <2>1. trail'[b] = trail[b]
    BY <1>2, TrailGrows
  <2> QED
    BY <1>1, <2>1 DEF Ordered
<1>3. CASE b = req[r].on
  <2>1. Grows(trail[b], req[r].mine, trail'[b])
    BY <1>3, TrailGrows
  <2>2. \A i \in 1 .. Len(req[r].mine) :
           /\ req[r].mine[i][1] = "executed" => req[r].op = "execute"
           /\ req[r].mine[i][1] = "rollback" => req[r].op = "rollback"
    BY <1>1, MineAtCommit
  <2>3. /\ req[r].op = "execute" => order[b].effect = "allow" \/ Has(b, <<"approve", TRUE>>)
        /\ req[r].op = "rollback" => Has(b, <<"verified", TRUE>>)
    BY <1>1, <1>3 DEF InHand, Cleared
  <2>4. \A i \in 1 .. Len(req[r].mine) :
           /\ req[r].mine[i][1] = "executed" =>
                 \/ order[b].effect = "allow"
                 \/ \E k \in DOMAIN trail[b] : trail[b][k] = <<"approve", TRUE>>
           /\ req[r].mine[i][1] = "rollback" =>
                 \E k \in DOMAIN trail[b] : trail[b][k] = <<"verified", TRUE>>
    BY <2>2, <2>3 DEF Has
  <2>5. Explained(trail[b], order[b].effect)
    BY <1>1 DEF Ordered
  <2>6. Explained(trail'[b], order[b].effect)
    BY <2>1, <2>4, <2>5, ExplainedGrows
  <2> QED
    BY <1>1, <2>6 DEF Ordered
<1> QED
  BY <1>2, <1>3

\* What a commit makes of a status is what the status means.
LEMMA MeaningGrows ==
    ASSUME Inv, NEW r \in Requests, req[r] # Idle, Commit(r), NEW b \in Actions
    PROVE  Meaning(b)'
<1>1. /\ Meaning(b) /\ order' = order /\ req[r].pc = "committing" /\ InHand(r)
      /\ req[r] \in Request
  BY Serving DEF Inv, Commit
<1>2. CASE b # req[r].on
  <2>1. trail'[b] = trail[b]
    BY <1>2, TrailGrows
  <2>2. status'[b] = status[b] /\ approval'[b] = approval[b]
    BY <1>2 DEF Commit, Inv, TypeOK
  <2> QED
    BY <1>1, <2>1, <2>2 DEF Meaning, Cleared, Has
<1>3. CASE b = req[r].on
  <2>1. order[b] # NoOrder /\ Course(req[r])
    BY <1>1, <1>3 DEF InHand
  <2>2. status'[b] = status[b] \/ (status'[b] = req[r].next /\ req[r].next # req[r].seen)
    BY <1>3 DEF Commit, Inv, TypeOK
  <2>3. approval'[b] = approval[b] \/ req[r].op \in Decisions
    BY <1>3 DEF Commit, Inv, TypeOK, Decisions
  <2>4. approval'[b] # "none" => order[b].effect = "require_approval"
    BY <1>1, <1>3, <2>3 DEF Meaning, InHand
  <2>5. /\ Cleared(b) => Cleared(b)'
        /\ Has(b, <<"verified", TRUE>>) => Has(b, <<"verified", TRUE>>)'
    BY Persists
  <2>6. /\ Len(trail'[b]) = Len(trail[b]) + Len(req[r].mine) /\ Len(trail[b]) \in Nat
        /\ DOMAIN trail'[b] = 1 .. Len(trail'[b])
        /\ \A i \in 1 .. Len(req[r].mine) : trail'[b][Len(trail[b]) + i] = req[r].mine[i]
    <3>1. Grows(trail[b], req[r].mine, trail'[b])
      BY <1>3, TrailGrows
    <3> QED
      BY <3>1, EntriesDomain DEF Grows
  <2>7. CASE status'[b] = status[b]
    BY <1>1, <2>1, <2>4, <2>5, <2>7 DEF Meaning
  <2>8. CASE status'[b] = req[r].next /\ req[r].next # req[r].seen
    <3>1. CASE req[r].op = "execute"
      <4>1. req[r].next \in {"failed", "verified", "verify_failed"}
        BY <1>1, <2>1, <3>1 DEF Course, ExecuteAt
      <4>2. req[r].next = "verified" => Has(b, <<"verified", TRUE>>)'
        <5>1. SUFFICES ASSUME req[r].next = "verified" PROVE Has(b, <<"verified", TRUE>>)'
          OBVIOUS
        <5>2. Len(req[r].mine) = 2 /\ req[r].mine[2] = <<"verified", TRUE>>
          BY <1>1, <3>1, <5>1, MineAtCommit
        <5>3. 2 \in 1 .. Len(req[r].mine) /\ Len(trail[b]) + 2 \in DOMAIN trail'[b]
          BY <2>6, <5>2
        <5>4. trail'[b][Len(trail[b]) + 2] = <<"verified", TRUE>>
          BY <2>6, <5>2, <5>3
        <5> QED
          BY <5>3, <5>4 DEF Has
      <4> QED
        BY <1>1, <2>1, <2>4, <2>8, <4>1, <4>2 DEF Meaning
    <3>2. CASE req[r].op = "approve"
      <4>1. req[r].next = "approved"
        BY <1>1, <2>1, <3>2 DEF Course, OtherAt, Target
      <4>2. Len(req[r].mine) = 1 /\ req[r].mine[1] = <<"approve", TRUE>>
        BY <1>1, <3>2, MineAtCommit
      <4>3. 1 \in 1 .. Len(req[r].mine) /\ Len(trail[b]) + 1 \in DOMAIN trail'[b]
        BY <2>6, <4>2
      <4>4. trail'[b][Len(trail[b]) + 1] = <<"approve", TRUE>>
        BY <2>6, <4>2, <4>3
      <4>5. Cleared(b)'
        BY <4>3, <4>4 DEF Cleared, Has
      <4> QED
        BY <1>1, <2>1, <2>4, <2>8, <4>1, <4>5 DEF Meaning
    <3>3. CASE req[r].op \notin {"execute", "approve"}
      <4>1. req[r].next \in {"rejected", "rolled_back"}
        BY <1>1, <2>1, <2>8, <3>3 DEF Course, OtherAt, Target, Request, Operations, Decisions
      <4> QED
        BY <1>1, <2>1, <2>4, <2>8, <4>1 DEF Meaning
    <3> QED
      BY <3>1, <3>2, <3>3
  <2> QED
    BY <2>2, <2>7, <2>8
<1> QED
  BY <1>2, <1>3

LEMMA CommitStep ==
    ASSUME Inv, TypeOK', NEW r \in Requests, Commit(r)
    PROVE  Inv'
<1>1. req[r] # Idle /\ order' = order
  BY IdlePc DEF Commit
<1>2. req'[r] = Idle /\ \A s \in Requests \ {r} : req'[s] = req[s]
  BY DEF Commit, Release
<1>3. \A a \in Actions, s \in Requests \ {r} : rowLock[a] = s => rowLock'[a] = s
  BY DEF Commit, Release
<1>4. ASSUME NEW s \in Requests
      PROVE  InHand(s)'
  <2>1. CASE s = r
    BY <1>2, <2>1 DEF InHand
  <2>2. CASE s # r
    <3>1. SUFFICES ASSUME req[s] # Idle PROVE InHand(s)'
      BY <1>2, <2>2 DEF InHand
    <3>2. req[s].on \in Actions /\ InHand(s) /\ req'[s] = req[s]
      BY <1>2, <2>2, <3>1, Serving DEF Inv, Request
    <3>3. PICK a \in Actions : a = req[s].on
      BY <3>2
    <3>4. /\ Cleared(a) => Cleared(a)'
          /\ Has(a, <<"verified", TRUE>>) => Has(a, <<"verified", TRUE>>)'
      BY <1>1, Persists
    <3>5. rowLock[a] = s => rowLock'[a] = s
      BY <1>3, <2>2
    <3> QED
      BY <1>1, <3>1, <3>2, <3>3, <3>4, <3>5 DEF InHand
  <2> QED
    BY <2>1, <2>2
<1>5. \A a \in Actions : Meaning(a)' /\ Ordered(a)'
  BY <1>1, MeaningGrows, OrderedGrows
<1> QED
  BY <1>4, <1>5 DEF Inv

\* An action is created where there was none: no request has it in hand.
LEMMA CreateStep ==
    ASSUME Inv, TypeOK', NEW a \in Actions, NEW q \in Wanted, CreateAction(a, q)
    PROVE  Inv'
<1>1. Order(q) # NoOrder /\ Order(q).effect \in Effects
  BY OrderType
<1>2. order[a] = NoOrder /\ UNCHANGED <<trail, rowLock, req>>
  BY DEF CreateAction
<1>3. /\ order'[a] = Order(q)
      /\ \A b \in Actions \ {a} : order'[b] = order[b] /\ status'[b] = status[b] /\ approval'[b] = approval[b]
  BY DEF CreateAction, Inv, TypeOK
<1>4. ASSUME NEW s \in Requests
      PROVE  InHand(s)'
  <2>1. SUFFICES ASSUME req[s] # Idle PROVE InHand(s)'
    BY <1>2 DEF InHand
  <2>2. PICK b \in Actions : b = req[s].on
    BY <2>1, Serving DEF Inv, Request
  <2>3. InHand(s) /\ order[b] # NoOrder
    BY <2>1, <2>2 DEF Inv, InHand
  <2>4. order'[b] = order[b]
    BY <1>2, <1>3, <2>3
  <2>5. (Cleared(b) => Cleared(b)') /\ (Has(b, <<"verified", TRUE>>) => Has(b, <<"verified", TRUE>>)')
    BY <1>2, <2>4 DEF Cleared, Has
  <2> QED
    BY <1>2, <2>1, <2>2, <2>3, <2>4, <2>5 DEF InHand
<1>5. ASSUME NEW b \in Actions
      PROVE  Meaning(b)' /\ Ordered(b)'
  <2>1. Meaning(b) /\ Ordered(b)
    BY DEF Inv
  <2>2. CASE b = a
    <3>1. trail'[b] = <<>>
      BY <1>2, <2>1, <2>2 DEF Meaning
    <3>2. status'[b] = CASE Order(q).effect = "deny" -> "blocked_by_policy"
                         [] Order(q).effect = "require_approval" -> "pending_approval"
                         [] Order(q).effect = "allow" -> "approved"
      BY <2>2 DEF CreateAction, Inv, TypeOK
    <3>3. status'[b] \in {"blocked_by_policy", "pending_approval", "approved"}
          /\ (status'[b] = "approved" => Order(q).effect = "allow")
      BY <1>1, <3>2 DEF Effects
    <3>4. approval'[b] = IF Order(q).effect = "require_approval" THEN "pending" ELSE "none"
      BY <2>2 DEF CreateAction, Inv, TypeOK
    <3>5. order'[b] = Order(q)
      BY <1>3, <2>2
    <3>6. Meaning(b)'
      BY <1>1, <3>3, <3>4, <3>5 DEF Meaning, Cleared
    <3>7. Ordered(b)'
      BY <3>1 DEF Ordered, Explained
    <3> QED
      BY <3>6, <3>7
  <2>3. CASE b # a
    <3>1. /\ order'[b] = order[b] /\ status'[b] = status[b] /\ approval'[b] = approval[b]
          /\ trail'[b] = trail[b]
      BY <1>2, <1>3, <2>3
    <3> QED
      BY <2>1, <3>1 DEF Meaning, Ordered, Cleared, Has
  <2> QED
    BY <2>2, <2>3
<1> QED
  BY <1>4, <1>5 DEF Inv

LEMMA InvStep ==
    ASSUME Inv, [Next]_vars
    PROVE  Inv'
<1>1. TypeOK'
  BY TypeStep DEF Inv
<1>2. ASSUME NEW a \in Actions, NEW q \in Wanted, CreateAction(a, q)
      PROVE  Inv'
  BY <1>1, <1>2, CreateStep
<1>3. ASSUME UNCHANGED <<committed, rowLock, req>>
      PROVE  Inv'
  <2>1. order' = order /\ trail' = trail /\ status' = status /\ approval' = approval
    BY <1>3 DEF committed
  <2>2. \A a : Cleared(a)' = Cleared(a) /\ Has(a, <<"verified", TRUE>>)' = Has(a, <<"verified", TRUE>>)
    BY <2>1 DEF Cleared, Has
  <2>3. \A r \in Requests : InHand(r)'
    BY <1>3, <2>1, <2>2 DEF Inv, InHand
  <2>4. \A a \in Actions : Meaning(a)' /\ Ordered(a)'
    BY <2>1, <2>2 DEF Inv, Meaning, Ordered
  <2> QED
    BY <1>1, <2>3, <2>4 DEF Inv
<1>4. ASSUME NEW a \in Actions, Expire(a)
      PROVE  Inv'
  BY <1>3, <1>4 DEF Expire
<1>5. ASSUME NEW r \in Requests, NEW op \in Operations, NEW a \in Actions,
             LoadApproval(r, op, a) \/ \E row \in BOOLEAN : LoadAction(r, op, a, row)
      PROVE  Inv'
  BY <1>1, <1>5, LoadStep
<1>6. ASSUME NEW r \in Requests, Continue(r)
      PROVE  Inv'
  <2>1. CASE DecideLoaded(r)
    BY <1>1, <2>1, DecideStep
  <2>2. CASE \/ FlushExecuting(r) \/ Simulate(r) \/ NotSent(r)
             \/ \E ok \in BOOLEAN : Send(r, ok)
             \/ \E found \in BOOLEAN : Verify(r, found)
    BY <1>1, <2>2, ExecuteStep
  <2>3. CASE TakeAuditLock(r) \/ FlushRecord(r)
    BY <1>1, <2>3, RecordStep
  <2>4. CASE Commit(r)
    BY <1>1, <2>4, CommitStep
  <2>5. CASE DeadlockAbort(r)
    BY <1>1, <2>5, AbortStep DEF DeadlockAbort
  <2> QED
    BY <1>6, <2>1, <2>2, <2>3, <2>4, <2>5 DEF Continue
<1>7. ASSUME NEW r \in Requests, Crash(r)
      PROVE  Inv'
  BY <1>1, <1>7, AbortStep DEF Crash
<1>8. CASE UNCHANGED vars
  BY <1>3, <1>8 DEF vars
<1> QED
  BY <1>2, <1>4, <1>5, <1>6, <1>7, <1>8 DEF Next

\* What requests have in hand, statuses and trails fit together, whatever
\* the constants.
THEOREM InvHolds == Spec => []Inv
<1>1. Inv /\ [Next]_vars => Inv'
  BY InvStep
<1> QED
  BY <1>1, InvInit, PTL DEF Spec

\* Connectors never see two calls for the same action overlap.
THEOREM OneCall == Spec => []OneCallAtATime
<1>1. ASSUME Inv PROVE OneCallAtATime
  <2>1. ASSUME NEW r \in Requests, req[r] # Idle, req[r].pc = "sending"
        PROVE  rowLock[req[r].on] = r
    <3>1. req[r] \in Request /\ InHand(r)
      BY <1>1, <2>1, Serving DEF Inv
    <3>2. req[r].op = "execute"
      BY <2>1, <3>1 DEF InHand, Course, OtherAt
    <3> QED
      BY <2>1, <3>1, <3>2 DEF InHand
  <2> QED
    BY <2>1 DEF OneCallAtATime
<1> QED
  BY <1>1, InvHolds, PTL

\* Nobody ever reads an action half way through its execution.
THEOREM NeverHalfWay == Spec => []NoHalfWay
<1>1. Inv => NoHalfWay
  BY DEF Inv, Meaning, NoHalfWay
<1> QED
  BY <1>1, InvHolds, PTL

\* The trail of an action explains every execution and rollback in it.
THEOREM TrailExplains == Spec => []TrailInOrder
<1>1. Inv => TrailInOrder
  BY DEF Inv, Ordered, Explained, TrailInOrder
<1> QED
  BY <1>1, InvHolds, PTL

-----------------------------------------------------------------------------
(* The seeded policy and Rego.                                             *)


Hit(n, i) == Matches(ResponsePolicy.rules[n].when, i)
EffectOf(n) == ResponsePolicy.rules[n].effect
ApproverOf(n) == ResponsePolicy.rules[n].approver

\* The rules of the seeded policy, one by one.
LEMMA SeededRules ==
    ASSUME NEW i
    PROVE  /\ DOMAIN ResponsePolicy.rules = 1 .. 7
           /\ \A n \in {1, 2} : EffectOf(n) = "deny"
           /\ \A n \in {3, 4, 5} : EffectOf(n) = "require_approval"
           /\ \A n \in {6, 7} : EffectOf(n) = "allow"
           /\ ApproverOf(3) = "incident_commander" /\ ApproverOf(4) = "soc_manager"
           /\ ApproverOf(5) = "incident_commander"
           /\ Hit(1, i) <=> i.confidence < 50
           /\ Hit(2, i) <=> i.evidence < 1
           /\ Hit(3, i) <=> i.criticality \in {"high", "critical"}
           /\ Hit(4, i) <=> i.reversible = FALSE
           /\ Hit(5, i) <=> i.blast > 5
           /\ Hit(6, i) <=> /\ i.confidence >= 70
                            /\ i.action \in {"increase_monitoring", "create_ticket", "notify_team"}
           /\ Hit(7, i) <=> /\ i.reversible = TRUE /\ i.confidence >= 90
                            /\ i.criticality \in {"info", "low", "medium"}
<1>1. DOMAIN ResponsePolicy.rules = 1 .. 7
  BY DEF ResponsePolicy
<1>2. EffectOf(1) = "deny" /\ (Hit(1, i) <=> i.confidence < 50)
  BY DEF ResponsePolicy, Rule, Matches, Hit, EffectOf
<1>3. EffectOf(2) = "deny" /\ (Hit(2, i) <=> i.evidence < 1)
  BY DEF ResponsePolicy, Rule, Matches, Hit, EffectOf
<1>4. /\ EffectOf(3) = "require_approval" /\ ApproverOf(3) = "incident_commander"
      /\ Hit(3, i) <=> i.criticality \in {"high", "critical"}
  BY DEF ResponsePolicy, Rule, Matches, Hit, EffectOf, ApproverOf
<1>5. /\ EffectOf(4) = "require_approval" /\ ApproverOf(4) = "soc_manager"
      /\ Hit(4, i) <=> i.reversible = FALSE
  BY DEF ResponsePolicy, Rule, Matches, Hit, EffectOf, ApproverOf
<1>6. /\ EffectOf(5) = "require_approval" /\ ApproverOf(5) = "incident_commander"
      /\ Hit(5, i) <=> i.blast > 5
  BY DEF ResponsePolicy, Rule, Matches, Hit, EffectOf, ApproverOf
<1>7. /\ EffectOf(6) = "allow"
      /\ Hit(6, i) <=> /\ i.confidence >= 70
                       /\ i.action \in {"increase_monitoring", "create_ticket", "notify_team"}
  BY DEF ResponsePolicy, Rule, Matches, Hit, EffectOf
<1>8. /\ EffectOf(7) = "allow"
      /\ Hit(7, i) <=> /\ i.reversible = TRUE /\ i.confidence >= 90
                       /\ i.criticality \in {"info", "low", "medium"}
  BY DEF ResponsePolicy, Rule, Matches, Hit, EffectOf
<1> QED
  BY <1>1, <1>2, <1>3, <1>4, <1>5, <1>6, <1>7, <1>8

\* So it hits by these conditions.
LEMMA SeededHits ==
    ASSUME NEW i, i.reversible \in BOOLEAN
    PROVE  /\ Hits(ResponsePolicy, "deny", i) # {} <=> RegoDeny(i)
           /\ Hits(ResponsePolicy, "allow", i) # {} <=> RegoAllow(i)
           /\ Hits(ResponsePolicy, "require_approval", i) # {} <=>
                 \/ i.criticality \in {"high", "critical"}
                 \/ ~i.reversible
                 \/ i.blast > 5
           /\ Hits(ResponsePolicy, "require_approval", i) =
                 {n \in {3, 4, 5} : Hit(n, i)}
<1>1. \A effect : Hits(ResponsePolicy, effect, i) = {n \in 1 .. 7 : EffectOf(n) = effect /\ Hit(n, i)}
  BY SeededRules DEF Hits, Hit, EffectOf
<1>2. \A n \in 1 .. 7 :
         /\ EffectOf(n) = "deny" <=> n \in {1, 2}
         /\ EffectOf(n) = "require_approval" <=> n \in {3, 4, 5}
         /\ EffectOf(n) = "allow" <=> n \in {6, 7}
  <2>1. \A n \in 1 .. 7 : n \in {1, 2} \/ n \in {3, 4, 5} \/ n \in {6, 7}
    OBVIOUS
  <2> QED
    BY <2>1, SeededRules
<1>3. Hits(ResponsePolicy, "deny", i) = {n \in {1, 2} : Hit(n, i)}
  BY <1>1, <1>2
<1>4. Hits(ResponsePolicy, "require_approval", i) = {n \in {3, 4, 5} : Hit(n, i)}
  BY <1>1, <1>2
<1>5. Hits(ResponsePolicy, "allow", i) = {n \in {6, 7} : Hit(n, i)}
  BY <1>1, <1>2
<1>6. Hits(ResponsePolicy, "deny", i) # {} <=> RegoDeny(i)
  BY <1>3, SeededRules DEF RegoDeny
<1>7. Hits(ResponsePolicy, "allow", i) # {} <=> RegoAllow(i)
  BY <1>5, SeededRules DEF RegoAllow
<1>8. Hits(ResponsePolicy, "require_approval", i) # {} <=>
         \/ i.criticality \in {"high", "critical"}
         \/ ~i.reversible
         \/ i.blast > 5
  BY <1>4, SeededRules
<1> QED
  BY <1>4, <1>6, <1>7, <1>8

LEMMA SeededIsRego ==
    ASSUME NEW i, i.reversible \in BOOLEAN, i.confidence \in Int
    PROVE  /\ Effect(ResponsePolicy, i) = RegoDecision(i)
           /\ \A role \in RegoApprovers(i) :
                 RegoApprovers(i) = {role} => RequiredRole(ResponsePolicy, i) = role
<1>1. ResponsePolicy.floor = 70 /\ ResponsePolicy.default = "require_approval"
  BY DEF ResponsePolicy
<1>2. Effect(ResponsePolicy, i) = RegoDecision(i)
  <2>1. RegoAllow(i) => i.confidence >= 70
    BY DEF RegoAllow
  <2>2. RegoNeedsApproval(i) <=>
           Hits(ResponsePolicy, "require_approval", i) # {} \/ i.confidence < 70
    BY SeededHits DEF RegoNeedsApproval
  <2>3. /\ Hits(ResponsePolicy, "deny", i) # {} <=> RegoDeny(i)
        /\ Hits(ResponsePolicy, "allow", i) # {} <=> RegoAllow(i)
    BY SeededHits
  <2>4. CASE RegoDeny(i)
    BY <2>3, <2>4 DEF Effect, RegoDecision
  <2>5. CASE ~RegoDeny(i) /\ Hits(ResponsePolicy, "require_approval", i) # {}
    BY <2>2, <2>3, <2>5 DEF Effect, RegoDecision
  <2>6. CASE ~RegoDeny(i) /\ Hits(ResponsePolicy, "require_approval", i) = {} /\ ~RegoAllow(i)
    BY <1>1, <2>3, <2>6 DEF Effect, RegoDecision
  <2>7. CASE ~RegoDeny(i) /\ Hits(ResponsePolicy, "require_approval", i) = {} /\ RegoAllow(i)
    BY <1>1, <2>1, <2>2, <2>3, <2>7 DEF Effect, RegoDecision
  <2> QED
    BY <2>4, <2>5, <2>6, <2>7
<1>3. ASSUME NEW role, RegoApprovers(i) = {role}
      PROVE  RequiredRole(ResponsePolicy, i) = role
  <2> DEFINE named == {n \in Hits(ResponsePolicy, "require_approval", i) :
                          ResponsePolicy.rules[n].approver # NoRole}
  <2>1. named = {n \in {3, 4, 5} : Hit(n, i)}
    <3>1. \A n \in {3, 4, 5} : ResponsePolicy.rules[n].approver # NoRole
      BY SeededRules DEF ApproverOf, NoRole
    <3>2. Hits(ResponsePolicy, "require_approval", i) = {n \in {3, 4, 5} : Hit(n, i)}
      BY SeededHits
    <3> QED
      BY <3>1, <3>2
  <2>2. /\ Hit(3, i) <=> i.criticality \in {"high", "critical"}
        /\ Hit(4, i) <=> ~i.reversible
    BY SeededRules
  <2> DEFINE first == CHOOSE n \in named : \A m \in named : n <= m
  <2>3. ASSUME NEW n \in named, \A m \in named : n <= m
        PROVE  first = n
    <3>1. first \in named /\ \A m \in named : first <= m
      BY <2>3
    <3>2. first <= n /\ n <= first
      BY <2>3, <3>1
    <3>3. first \in {3, 4, 5} /\ n \in {3, 4, 5}
      BY <2>1, <2>3, <3>1
    <3> HIDE DEF first, named
    <3> QED
      BY <3>2, <3>3
  <2>4. CASE Hit(3, i)
    <3>1. ~Hit(4, i) /\ role = "incident_commander"
      BY <1>3, <2>2, <2>4 DEF RegoApprovers
    <3>2. 3 \in named /\ \A m \in named : 3 <= m
      BY <2>1, <2>4
    <3>3. first = 3 /\ named # {}
      BY <2>3, <3>2
    <3> QED
      BY <3>1, <3>3, SeededRules DEF RequiredRole, ApproverOf
  <2>5. CASE ~Hit(3, i)
    <3>1. Hit(4, i) /\ role = "soc_manager"
      BY <1>3, <2>2, <2>5 DEF RegoApprovers
    <3>2. 4 \in named /\ \A m \in named : 4 <= m
      BY <2>1, <2>5, <3>1
    <3>3. first = 4 /\ named # {}
      BY <2>3, <3>2
    <3> QED
      BY <3>1, <3>3, SeededRules DEF RequiredRole, ApproverOf
  <2> QED
    BY <2>4, <2>5
<1> QED
  BY <1>2, <1>3

\* Every order was made by the policy.
ByPolicy == \A a \in Actions : order[a] = NoOrder \/ \E q \in Wanted : order[a] = Order(q)

\* Under the seeded policy the engine and Rego come to the same decision, and
\* where Rego names one approver the engine asks for that role.
THEOREM SeededPolicyIsRego ==
    ASSUME Policy = ResponsePolicy
    PROVE  Spec => []DecidesAsRego
<1>1. Init => ByPolicy
  BY DEF Init, ByPolicy
<1>2. TypeOK /\ ByPolicy /\ [Next]_vars => ByPolicy'
  <2> SUFFICES ASSUME TypeOK, ByPolicy, [Next]_vars PROVE ByPolicy'
    OBVIOUS
  <2>1. ASSUME NEW a \in Actions, NEW q \in Wanted, CreateAction(a, q)
        PROVE  ByPolicy'
    <3>1. order' = [order EXCEPT ![a] = Order(q)] /\ DOMAIN order = Actions
      BY <2>1 DEF CreateAction, TypeOK
    <3>2. \A b \in Actions : order'[b] = Order(q) \/ order'[b] = order[b]
      BY <3>1
    <3> QED
      BY <3>2 DEF ByPolicy
  <2>2. CASE order' = order
    BY <2>2 DEF ByPolicy
  <2>3. (\E a \in Actions, q \in Wanted : CreateAction(a, q)) \/ order' = order
    <3>1. ASSUME NEW r \in Requests, Continue(r) \/ Crash(r)
          PROVE  order' = order
      <4>1. CASE \/ DecideLoaded(r) \/ FlushExecuting(r) \/ Simulate(r) \/ NotSent(r)
                 \/ \E ok \in BOOLEAN : Send(r, ok)
        BY <4>1 DEF DecideLoaded, FlushExecuting, Simulate, NotSent, Send, committed
      <4>2. CASE \/ TakeAuditLock(r) \/ FlushRecord(r) \/ \E found \in BOOLEAN : Verify(r, found)
        BY <4>2 DEF TakeAuditLock, FlushRecord, Verify, committed
      <4>3. CASE Commit(r) \/ DeadlockAbort(r) \/ Crash(r)
        BY <4>3 DEF Commit, DeadlockAbort, Crash, committed
      <4> QED
        BY <3>1, <4>1, <4>2, <4>3 DEF Continue
    <3>2. ASSUME NEW r \in Requests, NEW op \in Operations, NEW a \in Actions,
                 LoadApproval(r, op, a) \/ \E row \in BOOLEAN : LoadAction(r, op, a, row)
          PROVE  order' = order
      BY <3>2 DEF LoadApproval, LoadAction, committed
    <3>3. ASSUME NEW a \in Actions, Expire(a)
          PROVE  order' = order
      BY <3>3 DEF Expire, committed
    <3>4. CASE UNCHANGED vars
      BY <3>4 DEF vars, committed
    <3> QED
      BY <3>1, <3>2, <3>3, <3>4 DEF Next
  <2> QED
    BY <2>1, <2>2, <2>3
<1>3. ByPolicy => DecidesAsRego
  <2> SUFFICES ASSUME ByPolicy, NEW a \in Actions, order[a] # NoOrder
               PROVE  LET i == order[a].input
                      IN  /\ order[a].effect = RegoDecision(i)
                          /\ \A role \in RegoApprovers(i) :
                                RegoApprovers(i) = {role} => order[a].role = role
    BY DEF DecidesAsRego
  <2>1. PICK q \in Wanted : order[a] = Order(q)
    BY DEF ByPolicy
  <2>2. PolicyInput(q).reversible \in BOOLEAN /\ PolicyInput(q).confidence \in Int
    BY DEF PolicyInput, Reversible, IsWanted
  <2>3. /\ order[a].input = PolicyInput(q)
        /\ order[a].effect = Effect(ResponsePolicy, PolicyInput(q))
        /\ order[a].role = RequiredRole(ResponsePolicy, PolicyInput(q))
    BY <2>1 DEF Order
  <2> QED
    BY <2>2, <2>3, SeededIsRego
<1> QED
  BY <1>1, <1>2, <1>3, TypeCorrect, PTL DEF Spec

-----------------------------------------------------------------------------
(* The gateway implements its contract.                                    *)

Successes(t) == {n \in DOMAIN t : t[n] = Succeeded}
Count(a) == Cardinality(Successes(trail[a]))

LEMMA SuccessesFinite ==
    ASSUME NEW t \in Entries
    PROVE  IsFiniteSet(Successes(t)) /\ Cardinality(Successes(t)) \in Nat
<1>1. Len(t) \in Nat /\ DOMAIN t = 1 .. Len(t)
  BY EntriesDomain
<1>2. IsFiniteSet(1 .. Len(t))
  BY <1>1, FS_Interval
<1>3. IsFiniteSet(Successes(t))
  BY <1>1, <1>2, FS_Subset DEF Successes
<1> QED
  BY <1>3, FS_CardinalityType

\* The places of a sequence that grows are those it had and those it is given.
LEMMA GrowsDomain ==
    ASSUME NEW t, NEW m, NEW u, Grows(t, m, u), NEW n \in DOMAIN u
    PROVE  \/ n \in DOMAIN t /\ u[n] = t[n]
           \/ \E i \in 1 .. Len(m) : n = Len(t) + i /\ u[n] = m[i]
<1>1. /\ Len(t) \in Nat /\ Len(m) \in Nat
      /\ DOMAIN t = 1 .. Len(t) /\ DOMAIN u = 1 .. Len(u)
  BY EntriesDomain DEF Grows
<1>2. /\ Len(u) = Len(t) + Len(m)
      /\ \A k \in 1 .. Len(t) : u[k] = t[k]
      /\ \A i \in 1 .. Len(m) : u[Len(t) + i] = m[i]
  BY DEF Grows
<1>3. n \in 1 .. (Len(t) + Len(m))
  BY <1>1, <1>2
<1>4. CASE n <= Len(t)
  BY <1>1, <1>2, <1>3, <1>4
<1>5. CASE n > Len(t)
  <2>1. n - Len(t) \in 1 .. Len(m) /\ n = Len(t) + (n - Len(t))
    BY <1>1, <1>3, <1>5
  <2> QED
    BY <1>2, <2>1
<1>6. n <= Len(t) \/ n > Len(t)
  BY <1>1, <1>3
<1> QED
  BY <1>4, <1>5, <1>6

LEMMA NoSuccessGrows ==
    ASSUME NEW t, NEW m, NEW u, Grows(t, m, u), \A i \in 1 .. Len(m) : m[i] # Succeeded
    PROVE  Successes(u) = Successes(t)
<1>1. ASSUME NEW n \in Successes(u) PROVE n \in Successes(t)
  <2>1. n \in DOMAIN u /\ u[n] = Succeeded
    BY <1>1 DEF Successes
  <2>2. n \in DOMAIN t /\ u[n] = t[n]
    BY <2>1, GrowsDomain
  <2> QED
    BY <2>1, <2>2 DEF Successes
<1>2. ASSUME NEW n \in Successes(t) PROVE n \in Successes(u)
  BY <1>2, GrowsKeeps DEF Successes
<1> QED
  BY <1>1, <1>2

LEMMA OneSuccessGrows ==
    ASSUME NEW t, NEW m, NEW u, Grows(t, m, u), 1 \in 1 .. Len(m), m[1] = Succeeded,
           \A i \in 1 .. Len(m) : i # 1 => m[i] # Succeeded
    PROVE  Cardinality(Successes(u)) = Cardinality(Successes(t)) + 1
<1>1. t \in Entries /\ u \in Entries /\ Len(u) = Len(t) + Len(m) /\ u[Len(t) + 1] = Succeeded
  BY DEF Grows
<1>2. /\ Len(t) \in Nat /\ Len(m) \in Nat /\ 1 <= Len(m)
      /\ DOMAIN t = 1 .. Len(t) /\ DOMAIN u = 1 .. Len(u)
  BY EntriesDomain DEF Grows
<1>3. Len(t) + 1 \in DOMAIN u /\ Len(t) + 1 \notin DOMAIN t
  BY <1>1, <1>2
<1>4. ASSUME NEW n \in Successes(u) PROVE n \in Successes(t) \cup {Len(t) + 1}
  <2>1. n \in DOMAIN u /\ u[n] = Succeeded
    BY <1>4 DEF Successes
  <2>2. CASE n \in DOMAIN t /\ u[n] = t[n]
    BY <2>1, <2>2 DEF Successes
  <2>3. ASSUME NEW i \in 1 .. Len(m), n = Len(t) + i, u[n] = m[i]
        PROVE  n \in Successes(t) \cup {Len(t) + 1}
    BY <2>1, <2>3
  <2> QED
    BY <2>1, <2>2, <2>3, GrowsDomain
<1>5. Len(t) + 1 \in Successes(u)
  BY <1>1, <1>3 DEF Successes
<1>6. ASSUME NEW n \in Successes(t) PROVE n \in Successes(u)
  BY <1>6, GrowsKeeps DEF Successes
<1>7. Successes(u) = Successes(t) \cup {Len(t) + 1}
  BY <1>4, <1>5, <1>6
<1>8. Len(t) + 1 \notin Successes(t)
  BY <1>3 DEF Successes
<1>9. IsFiniteSet(Successes(t))
  BY <1>1, SuccessesFinite
<1> QED
  BY <1>7, <1>8, <1>9, FS_AddElement

\* An execution a connector said was a success, not yet committed.
Owes(x) == x.op = "execute" /\ x.pc \notin {"flushing", "sending"} /\ x.next # "failed"

\* Every success in a trail, and every one about to enter it, was confirmed.
Credit ==
    /\ \A a \in Actions : Reported(a) <= confirmed[a]
    /\ \A r \in Requests :
          req[r] # Idle /\ Owes(req[r]) /\ order[req[r].on].live =>
              Count(req[r].on) < confirmed[req[r].on]

LEMMA ReportedIsCount ==
    ASSUME NEW a
    PROVE  Reported(a) = IF order[a] # NoOrder /\ order[a].live THEN Count(a) ELSE 0
BY DEF Reported, Count, Successes, Succeeded

LEMMA ReportedType ==
    ASSUME TypeOK, NEW a \in Actions
    PROVE  Count(a) \in Nat /\ Reported(a) \in Nat /\ confirmed[a] \in Nat /\ sent[a] \in Nat
BY ReportedIsCount, SuccessesFinite DEF TypeOK, Count

\* The contract sees nothing of a step that sends and commits nothing.
LEMMA QuietStep ==
    ASSUME Inv, Credit, UNCHANGED <<order, trail, sent, confirmed>>,
           \A s \in Requests :
              req'[s] # Idle /\ Owes(req'[s]) /\ order[req'[s].on].live =>
                  req[s] # Idle /\ Owes(req[s]) /\ req'[s].on = req[s].on
    PROVE  Credit' /\ UNCHANGED Contract!contractVars
<1>1. \A a : Cleared(a)' = Cleared(a) /\ Reported(a)' = Reported(a) /\ Count(a)' = Count(a)
  BY DEF Cleared, Has, Reported, Count
<1>2. Credit'
  BY <1>1 DEF Credit
<1>3. UNCHANGED Contract!contractVars
  BY <1>1 DEF Contract!contractVars
<1> QED
  BY <1>2, <1>3

\* The same of a step of one request.
LEMMA QuietRequest ==
    ASSUME Inv, Credit, UNCHANGED <<order, trail, sent, confirmed>>, NEW r \in Requests, NEW x,
           req' = [req EXCEPT ![r] = x],
           \/ x = Idle \/ ~Owes(x)
           \/ x.on = req[r].on /\ ((Owes(req[r]) /\ req[r] # Idle) \/ ~order[req[r].on].live)
    PROVE  Credit' /\ UNCHANGED Contract!contractVars
<1>1. req'[r] = x /\ \A s \in Requests \ {r} : req'[s] = req[s]
  BY DEF Inv, TypeOK
<1>2. ASSUME NEW s \in Requests, req'[s] # Idle, Owes(req'[s]), order[req'[s].on].live
      PROVE  req[s] # Idle /\ Owes(req[s]) /\ req'[s].on = req[s].on
  BY <1>1, <1>2
<1> QED
  BY <1>2, QuietStep

\* What a transaction that commits has recorded, by its success.
LEMMA MineOfExecution ==
    ASSUME Inv, NEW r \in Requests, req[r] # Idle, req[r].pc = "committing",
           req[r].op = "execute", NEW mine, mine = req[r].mine
    PROVE  /\ ~Owes(req[r]) => \A i \in 1 .. Len(mine) : mine[i] # Succeeded
           /\ Owes(req[r]) => /\ 1 \in 1 .. Len(mine) /\ mine[1] = Succeeded
                              /\ \A i \in 1 .. Len(mine) : i # 1 => mine[i] # Succeeded
<1>1. ExecuteAt(req[r]) /\ (Owes(req[r]) <=> req[r].next # "failed")
  BY DEF Inv, InHand, Course, Owes
<1>2. CASE req[r].next = "failed"
  <2>1. mine = << <<"executed", FALSE>> >>
    BY <1>1, <1>2 DEF ExecuteAt
  <2>2. mine[1] = <<"executed", FALSE>> /\ \A i \in 1 .. Len(mine) : i = 1
    BY <2>1, OneEntry
  <2>3. mine[1] # Succeeded
    BY <2>2 DEF Succeeded
  <2> QED
    BY <1>1, <1>2, <2>2, <2>3
<1>3. ASSUME req[r].next # "failed", NEW found \in BOOLEAN, mine = <<Succeeded, <<"verified", found>> >>
      PROVE  /\ 1 \in 1 .. Len(mine) /\ mine[1] = Succeeded
             /\ \A i \in 1 .. Len(mine) : i # 1 => mine[i] # Succeeded
  <2>1. /\ Len(mine) = 2 /\ mine[1] = Succeeded /\ mine[2] = <<"verified", found>>
        /\ \A i \in 1 .. Len(mine) : i = 1 \/ i = 2
    BY <1>3, TwoEntries
  <2>2. mine[2] # Succeeded
    <3>1. mine[2][1] = "verified" /\ Succeeded[1] = "executed"
      BY <2>1 DEF Succeeded
    <3> QED
      BY <3>1
  <2> QED
    BY <2>1, <2>2
<1>4. CASE req[r].next # "failed"
  <2>1. \E found \in BOOLEAN : mine = <<Succeeded, <<"verified", found>> >>
    BY <1>1, <1>4 DEF ExecuteAt
  <2> QED
    BY <1>1, <1>3, <1>4, <2>1
<1> QED
  BY <1>2, <1>4

LEMMA MineOfOther ==
    ASSUME Inv, NEW r \in Requests, req[r] # Idle, req[r].pc = "committing",
           req[r].op # "execute", NEW mine, mine = req[r].mine
    PROVE  /\ \A i \in 1 .. Len(mine) : mine[i] # Succeeded
           /\ req[r].op # "approve" =>
                 \A i \in 1 .. Len(mine) : mine[i] # <<"approve", TRUE>>
<1>1. OtherAt(req[r]) /\ req[r] \in Request
  BY Serving DEF Inv, InHand, Course
<1>2. mine = << <<req[r].op, TRUE>> >>
  BY <1>1 DEF OtherAt
<1>3. mine[1] = <<req[r].op, TRUE>> /\ \A i \in 1 .. Len(mine) : i = 1
  BY <1>2, OneEntry
<1>4. mine[1][1] = req[r].op /\ Succeeded[1] = "executed" /\ <<"approve", TRUE>>[1] = "approve"
  BY <1>3 DEF Succeeded
<1>5. req[r].op # "executed"
  BY <1>1 DEF Request, Operations, Decisions
<1> QED
  BY <1>3, <1>4, <1>5

LEMMA QuietContinue ==
    ASSUME Inv, Credit, NEW r \in Requests,
           \/ DecideLoaded(r) \/ FlushExecuting(r) \/ Simulate(r) \/ NotSent(r)
           \/ TakeAuditLock(r) \/ FlushRecord(r) \/ \E found \in BOOLEAN : Verify(r, found)
    PROVE  Credit' /\ UNCHANGED Contract!contractVars
<1>1. req[r] \in Request /\ req[r] # Idle /\ InHand(r)
  BY Serving, IdlePc DEF DecideLoaded, FlushExecuting, Simulate, NotSent, TakeAuditLock,
                         FlushRecord, Verify, Inv
<1>2. Course(req[r])
  BY <1>1 DEF InHand
<1>3. UNCHANGED <<order, trail, sent, confirmed>>
  BY DEF DecideLoaded, FlushExecuting, Simulate, NotSent, TakeAuditLock, FlushRecord, Verify,
         committed
<1>4. CASE DecideLoaded(r)
  <2> DEFINE next == Target(req[r].op, status[req[r].on])
             x == [req[r] EXCEPT !.pc = "recording", !.seen = status[req[r].on], !.next = next,
                                 !.row = (next # status[req[r].on])]
  <2>1. req' = [req EXCEPT ![r] = x] \/ req' = [req EXCEPT ![r] = Idle]
    BY <1>4 DEF DecideLoaded
  <2>2. ~Owes(x)
    BY <1>1, <1>2, <1>4 DEF Owes, Course, ExecuteAt, Request, DecideLoaded
  <2> HIDE DEF x
  <2> QED
    BY <1>3, <2>1, <2>2, QuietRequest
<1>5. CASE FlushExecuting(r)
  <2> DEFINE x == [req[r] EXCEPT !.pc = "sending"]
  <2>1. req' = [req EXCEPT ![r] = x]
    BY <1>5 DEF FlushExecuting
  <2>2. ~Owes(x)
    BY <1>1 DEF Owes, Request
  <2> HIDE DEF x
  <2> QED
    BY <1>3, <2>1, <2>2, QuietRequest
<1>6. CASE Simulate(r)
  <2> DEFINE x == [req[r] EXCEPT !.pc = "recording", !.next = "succeeded"]
  <2>1. req' = [req EXCEPT ![r] = x] /\ ~order[req[r].on].live
    BY <1>6 DEF Simulate
  <2>2. x.on = req[r].on
    BY <1>1 DEF Request
  <2> HIDE DEF x
  <2> QED
    BY <1>3, <2>1, <2>2, QuietRequest
<1>7. CASE NotSent(r)
  <2> DEFINE x == [req[r] EXCEPT !.pc = "recording", !.next = "failed"]
  <2>1. req' = [req EXCEPT ![r] = x]
    BY <1>7 DEF NotSent
  <2>2. ~Owes(x)
    BY <1>1 DEF Owes, Request
  <2> HIDE DEF x
  <2> QED
    BY <1>3, <2>1, <2>2, QuietRequest
<1>8. ASSUME NEW x, req' = [req EXCEPT ![r] = x], x.on = req[r].on,
             Owes(x) => Owes(req[r])
      PROVE  Credit' /\ UNCHANGED Contract!contractVars
  BY <1>1, <1>3, <1>8, QuietRequest
<1>9. CASE TakeAuditLock(r)
  <2> DEFINE x == [req[r] EXCEPT !.pc = "writing"]
  <2>1. req' = [req EXCEPT ![r] = x]
    BY <1>9 DEF TakeAuditLock
  <2>2. x.on = req[r].on /\ (Owes(x) => Owes(req[r]))
    BY <1>1, <1>9 DEF Owes, Request, TakeAuditLock
  <2> HIDE DEF x
  <2> QED
    BY <1>8, <2>1, <2>2
<1>10. CASE FlushRecord(r)
  <2> DEFINE pc == IF Executing(r) /\ req[r].next = "succeeded" THEN "verifying" ELSE "committing"
             mine == Append(req[r].mine, Entry(r))
             x == [req[r] EXCEPT !.mine = mine, !.pc = pc]
  <2>1. req' = [req EXCEPT ![r] = x]
    BY <1>10 DEF FlushRecord
  <2> HIDE DEF mine
  <2>2. x.on = req[r].on /\ (Owes(x) => Owes(req[r]))
    BY <1>1, <1>10 DEF Owes, Request, FlushRecord
  <2> HIDE DEF x
  <2> QED
    BY <1>8, <2>1, <2>2
<1>11. ASSUME NEW found \in BOOLEAN, Verify(r, found)
       PROVE  Credit' /\ UNCHANGED Contract!contractVars
  <2> DEFINE next == IF found THEN "verified" ELSE "verify_failed"
             x == [req[r] EXCEPT !.pc = "recording", !.next = next]
  <2>1. req' = [req EXCEPT ![r] = x]
    BY <1>11 DEF Verify
  <2>2. x.on = req[r].on /\ (Owes(x) => Owes(req[r]))
    <3>1. req[r].pc = "verifying"
      BY <1>11 DEF Verify
    <3>2. req[r].op = "execute" => req[r].next = "succeeded"
      BY <1>2, <3>1 DEF Course, ExecuteAt
    <3> HIDE DEF next
    <3> QED
      BY <1>1, <3>1, <3>2 DEF Owes, Request
  <2> HIDE DEF x
  <2> QED
    BY <1>8, <2>1, <2>2
<1> QED
  BY <1>4, <1>5, <1>6, <1>7, <1>9, <1>10, <1>11

\* A call of a connector is a call of the contract.
LEMMA SendRefines ==
    ASSUME Inv, Credit, TypeOK', NEW r \in Requests, NEW ok \in BOOLEAN, Send(r, ok)
    PROVE  Credit' /\ Contract!Next
<1> DEFINE a == req[r].on
           next == IF ok THEN "succeeded" ELSE "failed"
           x == [req[r] EXCEPT !.pc = "recording", !.next = next]
<1>1. req[r] \in Request /\ req[r] # Idle /\ InHand(r) /\ a \in Actions /\ req[r].pc = "sending"
  BY Serving, IdlePc DEF Send, Inv, Request
<1>2. Cleared(a) /\ order[a] # NoOrder /\ order[a].live
  BY <1>1 DEF InHand, Course, OtherAt, Send
<1>3. UNCHANGED <<order, trail>>
  BY DEF Send, committed
<1>4. \A b : Cleared(b)' = Cleared(b) /\ Reported(b)' = Reported(b) /\ Count(b)' = Count(b)
  BY <1>3 DEF Cleared, Has, Reported, Count
<1>5. /\ sent' = [sent EXCEPT ![a] = sent[a] + 1]
      /\ confirmed' = [confirmed EXCEPT ![a] = IF ok THEN confirmed[a] + 1 ELSE confirmed[a]]
  BY DEF Send
<1>6. \A b \in Actions : /\ confirmed[b] <= confirmed'[b]
                         /\ Count(b) \in Nat /\ confirmed[b] \in Nat /\ confirmed'[b] \in Nat
  <2>1. \A b \in Actions : Count(b) \in Nat /\ confirmed[b] \in Nat
    BY ReportedType DEF Inv
  <2>2. \A b \in Actions : confirmed'[b] = confirmed[b] \/ confirmed'[b] = confirmed[b] + 1
    BY <1>5 DEF Inv, TypeOK
  <2> QED
    BY <2>1, <2>2
<1>7. req' = [req EXCEPT ![r] = x]
  BY DEF Send
<1>8. x.on = a /\ x.next = next
  BY <1>1 DEF Request
<1> HIDE DEF x, next
<1>9. ASSUME NEW s \in Requests, req'[s] # Idle, Owes(req'[s]), order[req'[s].on].live
      PROVE  Count(req'[s].on) < confirmed'[req'[s].on]
  <2>1. CASE s = r
    <3>1. req'[s] = x
      BY <1>7, <2>1 DEF Inv, TypeOK
    <3>2. ok
      BY <1>8, <1>9, <3>1 DEF Owes, next
    <3>3. confirmed'[a] = confirmed[a] + 1
      BY <1>1, <1>5, <3>2 DEF Inv, TypeOK
    <3>4. Count(a) <= confirmed[a]
      BY <1>1, <1>2, ReportedIsCount DEF Credit
    <3> QED
      BY <1>1, <1>6, <1>8, <3>1, <3>3, <3>4
  <2>2. CASE s # r
    <3>1. req'[s] = req[s]
      BY <1>7, <2>2 DEF Inv, TypeOK
    <3>2. req[s].on \in Actions
      BY <1>9, <3>1, Serving DEF Inv, Request
    <3>3. Count(req[s].on) < confirmed[req[s].on]
      BY <1>9, <3>1 DEF Credit
    <3> QED
      BY <1>6, <3>1, <3>2, <3>3
  <2> QED
    BY <2>1, <2>2
<1>10. \A b \in Actions : Reported(b)' <= confirmed'[b]
  <2>1. \A b \in Actions : Reported(b) \in Nat /\ Reported(b) <= confirmed[b]
    BY ReportedType DEF Credit, Inv
  <2> QED
    BY <1>4, <1>6, <2>1
<1>11. Credit'
  BY <1>3, <1>4, <1>9, <1>10 DEF Credit
<1>12. Contract!Send(a, ok)
  BY <1>1, <1>2, <1>3, <1>4, <1>5 DEF Contract!Send
<1> QED
  BY <1>1, <1>11, <1>12 DEF Contract!Next

\* What a commit does to the success count and the clearance of its action.
LEMMA CommitCounts ==
    ASSUME Inv, NEW r \in Requests, req[r] # Idle, Commit(r), NEW b \in Actions, b = req[r].on
    PROVE  /\ Count(b)' = IF Owes(req[r]) THEN Count(b) + 1 ELSE Count(b)
           /\ req[r].op # "approve" => Cleared(b)' = Cleared(b)
<1>1. Grows(trail[b], req[r].mine, trail'[b]) /\ req[r].pc = "committing" /\ order' = order
  BY TrailGrows DEF Commit
<1>2. CASE req[r].op = "execute"
  <2>1. Count(b)' = IF Owes(req[r]) THEN Count(b) + 1 ELSE Count(b)
    <3>1. CASE Owes(req[r])
      <4>1. /\ 1 \in 1 .. Len(req[r].mine) /\ req[r].mine[1] = Succeeded
            /\ \A i \in 1 .. Len(req[r].mine) : i # 1 => req[r].mine[i] # Succeeded
        BY <1>1, <1>2, <3>1, MineOfExecution
      <4> QED
        BY <1>1, <3>1, <4>1, OneSuccessGrows DEF Count
    <3>2. CASE ~Owes(req[r])
      <4>1. \A i \in 1 .. Len(req[r].mine) : req[r].mine[i] # Succeeded
        BY <1>1, <1>2, <3>2, MineOfExecution
      <4> QED
        BY <1>1, <3>2, <4>1, NoSuccessGrows DEF Count
    <3> QED
      BY <3>1, <3>2
  <2>2. Cleared(b)
    BY <1>2 DEF Inv, InHand
  <2>3. Cleared(b)'
    BY <2>2, Persists
  <2>4. Cleared(b)' = Cleared(b)
    BY <2>2, <2>3 DEF Cleared, Has
  <2> QED
    BY <2>1, <2>4
<1>3. CASE req[r].op # "execute"
  <2>1. /\ \A i \in 1 .. Len(req[r].mine) : req[r].mine[i] # Succeeded
        /\ req[r].op # "approve" =>
              \A i \in 1 .. Len(req[r].mine) : req[r].mine[i] # <<"approve", TRUE>>
    BY <1>1, <1>3, MineOfOther
  <2>2. Count(b)' = Count(b) /\ ~Owes(req[r])
    BY <1>1, <1>3, <2>1, NoSuccessGrows DEF Count, Owes
  <2>3. SUFFICES ASSUME req[r].op # "approve" PROVE Cleared(b)' = Cleared(b)
    BY <2>2
  <2>4. ASSUME NEW n \in DOMAIN trail'[b], trail'[b][n] = <<"approve", TRUE>>
        PROVE  n \in DOMAIN trail[b] /\ trail[b][n] = <<"approve", TRUE>>
    <3>1. \/ n \in DOMAIN trail[b] /\ trail'[b][n] = trail[b][n]
          \/ \E i \in 1 .. Len(req[r].mine) : trail'[b][n] = req[r].mine[i]
      BY <1>1, GrowsDomain
    <3> QED
      BY <2>1, <2>3, <2>4, <3>1
  <2>5. ASSUME NEW n \in DOMAIN trail[b], trail[b][n] = <<"approve", TRUE>>
        PROVE  n \in DOMAIN trail'[b] /\ trail'[b][n] = <<"approve", TRUE>>
    <3>1. n \in DOMAIN trail'[b] /\ trail'[b][n] = trail[b][n]
      BY <1>1, GrowsKeeps
    <3> QED
      BY <2>5, <3>1
  <2>6. Has(b, <<"approve", TRUE>>)' = Has(b, <<"approve", TRUE>>)
    BY <2>4, <2>5 DEF Has
  <2> QED
    BY <1>1, <2>6 DEF Cleared
<1> QED
  BY <1>2, <1>3

\* A commit clears, reports, or changes nothing the contract speaks of.
LEMMA CommitRefines ==
    ASSUME Inv, Credit, TypeOK', NEW r \in Requests, Commit(r)
    PROVE  Credit' /\ [Contract!Next]_(Contract!contractVars)
<1>1. req[r] \in Request /\ req[r] # Idle /\ InHand(r) /\ req[r].pc = "committing"
      /\ UNCHANGED <<order, sent, confirmed>>
  BY Serving, IdlePc DEF Commit, Inv
<1>2. PICK a \in Actions : a = req[r].on
  BY <1>1 DEF Request
<1>3. order[a] # NoOrder
  BY <1>1, <1>2 DEF InHand
<1>4. /\ Count(a)' = IF Owes(req[r]) THEN Count(a) + 1 ELSE Count(a)
      /\ req[r].op # "approve" => Cleared(a)' = Cleared(a)
  BY <1>1, <1>2, CommitCounts
<1>5. \A b \in Actions \ {a} : /\ trail'[b] = trail[b] /\ Count(b)' = Count(b)
                               /\ Cleared(b)' = Cleared(b) /\ Reported(b)' = Reported(b)
  <2>1. \A b \in Actions \ {a} : trail'[b] = trail[b]
    BY <1>1, <1>2, TrailGrows
  <2> QED
    BY <1>1, <2>1 DEF Count, Cleared, Has, Reported
<1>6. Reported(a)' = IF Owes(req[r]) /\ order[a].live THEN Reported(a) + 1 ELSE Reported(a)
  <2>1. Reported(a)' = IF order[a].live THEN Count(a)' ELSE 0
    BY <1>1, <1>3 DEF Reported, Count, Successes, Succeeded
  <2>2. Reported(a) = IF order[a].live THEN Count(a) ELSE 0
    BY <1>3, ReportedIsCount
  <2> QED
    BY <1>4, <2>1, <2>2
<1>7. /\ \A b \in Actions : Reported(b) \in Nat /\ Count(b) \in Nat /\ confirmed[b] \in Nat
      /\ \A b \in Actions : Reported(b) <= confirmed[b]
  BY ReportedType DEF Inv, Credit
<1>8. Owes(req[r]) /\ order[a].live => Reported(a) < confirmed[a] /\ Count(a) < confirmed[a]
  BY <1>1, <1>2, <1>3, ReportedIsCount DEF Credit
<1>9. Credit'
  <2>1. \A b \in Actions : Reported(b)' <= confirmed'[b]
    <3>1. Reported(a)' <= confirmed[a]
      BY <1>6, <1>7, <1>8
    <3> QED
      BY <1>1, <1>5, <1>7, <3>1
  <2>2. ASSUME NEW s \in Requests, req'[s] # Idle, Owes(req'[s]), order'[req'[s].on].live
        PROVE  Count(req[s].on)' < confirmed'[req'[s].on]
    <3>1. s # r /\ req'[s] = req[s]
      BY <2>2 DEF Commit, Release
    <3>2. req[s].on \in Actions /\ InHand(s)
      BY <2>2, <3>1, Serving DEF Inv, Request
    <3>3. PICK b \in Actions : b = req[s].on
      BY <3>2
    <3>4. Count(b) < confirmed[b]
      BY <1>1, <2>2, <3>1, <3>3 DEF Credit
    <3>5. CASE b # a
      <4>1. Count(b)' = Count(b) /\ confirmed' = confirmed /\ req'[s].on = b
        BY <1>1, <1>5, <3>1, <3>3, <3>5
      <4>2. Count(b)' < confirmed'[b]
        BY <3>4, <4>1
      <4> QED
        BY <3>1, <3>3, <4>1, <4>2 DEF Count
    <3>6. CASE b = a
      <4>1. rowLock[a] = s
        BY <2>2, <3>1, <3>2, <3>3, <3>6 DEF InHand, Owes
      <4>2. ~Owes(req[r])
        BY <1>1, <1>2, <3>1, <4>1 DEF InHand, Owes
      <4>3. Count(b)' = Count(b) /\ confirmed' = confirmed /\ req'[s].on = b
        BY <1>1, <1>4, <3>1, <3>3, <3>6, <4>2
      <4>4. Count(b)' < confirmed'[b]
        BY <3>4, <4>3
      <4> QED
        BY <3>1, <3>3, <4>3, <4>4 DEF Count
    <3> QED
      BY <3>5, <3>6
  <2> QED
    BY <2>1, <2>2 DEF Credit
<1>10. CASE req[r].op = "approve"
  <2>1. order[a].effect = "require_approval" /\ ~Owes(req[r])
    BY <1>1, <1>2, <1>10 DEF InHand, Decisions, Owes
  <2>2. Cleared(a)'
    <3>1. Grows(trail[a], req[r].mine, trail'[a])
      BY <1>1, <1>2, TrailGrows
    <3>2. Len(req[r].mine) = 1 /\ req[r].mine[1] = <<"approve", TRUE>>
      BY <1>1, <1>10, MineAtCommit
    <3>3. /\ trail'[a][Len(trail[a]) + 1] = <<"approve", TRUE>>
          /\ Len(trail'[a]) = Len(trail[a]) + 1
      <4>1. 1 \in 1 .. Len(req[r].mine)
        BY <3>2
      <4> QED
        BY <3>1, <3>2, <4>1 DEF Grows
    <3>4. Len(trail[a]) \in Nat /\ DOMAIN trail'[a] = 1 .. Len(trail'[a])
      BY <3>1, EntriesDomain DEF Grows
    <3>5. Len(trail[a]) + 1 \in DOMAIN trail'[a]
      BY <3>3, <3>4
    <3> QED
      BY <3>3, <3>5 DEF Cleared, Has
  <2>3. \A b \in Actions : Reported(b)' = Reported(b)
    BY <1>5, <1>6, <2>1
  <2>4. [b \in Actions |-> Cleared(b)]' = [[b \in Actions |-> Cleared(b)] EXCEPT ![a] = TRUE]
    <3>1. \A b \in Actions : Cleared(b)' = IF b = a THEN TRUE ELSE Cleared(b)
      BY <1>5, <2>2 DEF Cleared, Has
    <3> QED
      BY <3>1
  <2>5. Contract!Clear(a)
    BY <1>1, <2>1, <2>3, <2>4 DEF Contract!Clear
  <2> QED
    BY <1>9, <2>5 DEF Contract!Next
<1>11. CASE req[r].op # "approve" /\ Owes(req[r]) /\ order[a].live
  <2>1. \A b \in Actions : Cleared(b)' = Cleared(b)
    BY <1>4, <1>5, <1>11
  <2>2. \A b \in Actions : Reported(b)' = IF b = a THEN Reported(b) + 1 ELSE Reported(b)
    BY <1>5, <1>6, <1>11
  <2>3. Contract!Report(a)
    BY <1>1, <1>8, <1>11, <2>1, <2>2 DEF Contract!Report
  <2> QED
    BY <1>9, <2>3 DEF Contract!Next
<1>12. CASE req[r].op # "approve" /\ ~(Owes(req[r]) /\ order[a].live)
  <2>1. \A b \in Actions : Cleared(b)' = Cleared(b) /\ Reported(b)' = Reported(b)
    BY <1>4, <1>5, <1>6, <1>12
  <2>2. UNCHANGED Contract!contractVars
    BY <1>1, <2>1 DEF Contract!contractVars
  <2> QED
    BY <1>9, <2>2
<1> QED
  BY <1>10, <1>11, <1>12

\* The creation of an action is the decision of the contract.
LEMMA CreateRefines ==
    ASSUME Inv, Credit, TypeOK', NEW a \in Actions, NEW q \in Wanted, CreateAction(a, q)
    PROVE  Credit' /\ Contract!Next
<1>1. Order(q).effect \in Effects
  BY OrderType
<1>2. /\ order[a] = NoOrder /\ UNCHANGED <<trail, sent, confirmed, req>>
      /\ order' = [order EXCEPT ![a] = Order(q)]
  BY DEF CreateAction
<1>3. trail[a] = <<>>
  BY <1>2 DEF Inv, Meaning
<1>4. order'[a] = Order(q) /\ \A b \in Actions \ {a} : order'[b] = order[b]
  BY <1>2 DEF Inv, TypeOK
<1>5. \A b \in Actions \ {a} : Cleared(b)' = Cleared(b) /\ Reported(b)' = Reported(b)
  BY <1>2, <1>4 DEF Cleared, Has, Reported
<1>6. ~Has(a, <<"approve", TRUE>>)' /\ Cleared(a)' = (Order(q).effect = "allow")
  <2>1. ~Has(a, <<"approve", TRUE>>)'
    BY <1>2, <1>3 DEF Has
  <2> QED
    BY <1>4, <2>1 DEF Cleared
<1>7. Reported(a)' = 0 /\ Reported(a) = 0
  <2>1. {n \in DOMAIN trail[a] : trail[a][n] = <<"executed", TRUE>>} = {}
    BY <1>3
  <2>2. Cardinality({}) = 0
    BY FS_EmptySet
  <2>3. Reported(a) = 0
    BY <1>2 DEF Reported
  <2>4. Cardinality({n \in DOMAIN trail'[a] : trail'[a][n] = <<"executed", TRUE>>}) = 0
    BY <1>2, <2>1, <2>2
  <2> QED
    BY <2>3, <2>4 DEF Reported
<1>8. Credit'
  <2>1. \A b \in Actions : Reported(b)' <= confirmed'[b]
    BY <1>2, <1>5, <1>7 DEF Credit
  <2>2. ASSUME NEW s \in Requests, req'[s] # Idle, Owes(req'[s]), order'[req'[s].on].live
        PROVE  Count(req[s].on)' < confirmed'[req'[s].on]
    <3>1. PICK b \in Actions : b = req[s].on
      BY <1>2, <2>2, Serving DEF Inv, Request
    <3>2. order[b] # NoOrder
      BY <1>2, <2>2, <3>1 DEF Inv, InHand
    <3>3. order'[b] = order[b]
      BY <1>2, <1>4, <3>2
    <3>4. Count(b) < confirmed[b]
      BY <1>2, <2>2, <3>1, <3>3 DEF Credit
    <3>5. req'[s] = req[s] /\ confirmed' = confirmed /\ Count(b)' = Count(b)
      BY <1>2 DEF Count
    <3>6. Count(b)' < confirmed'[b]
      BY <3>4, <3>5
    <3> QED
      BY <3>1, <3>5, <3>6 DEF Count
  <2> QED
    BY <2>1, <2>2 DEF Credit
<1>9. Contract!Decide(a, Order(q).effect)
  <2>1. order[a].effect = "none"
    BY <1>2 DEF NoOrder
  <2>2. [b \in Actions |-> order[b].effect]' =
           [[b \in Actions |-> order[b].effect] EXCEPT ![a] = Order(q).effect]
    BY <1>4
  <2>3. [b \in Actions |-> Cleared(b)]' =
           [[b \in Actions |-> Cleared(b)] EXCEPT ![a] = (Order(q).effect = "allow")]
    <3>1. \A b \in Actions \ {a} : Cleared(b)' = Cleared(b)
      BY <1>5
    <3> QED
      BY <1>6, <3>1
  <2>4. \A b \in Actions : Reported(b)' = Reported(b)
    BY <1>5, <1>7
  <2> QED
    BY <1>2, <2>1, <2>2, <2>3, <2>4 DEF Contract!Decide
<1> QED
  BY <1>1, <1>8, <1>9 DEF Contract!Next, Effects

LEMMA CreditInit == Init => Credit /\ Contract!Init
<1> SUFFICES ASSUME Init PROVE Credit /\ Contract!Init
  OBVIOUS
<1>1. \A a \in Actions : /\ order[a] = NoOrder /\ order[a].effect = "none" /\ Reported(a) = 0
                         /\ Cleared(a) = FALSE
  BY DEF Init, NoOrder, Reported, Cleared, Has
<1>2. Credit
  BY <1>1 DEF Init, Credit
<1>3. Contract!Init
  BY <1>1 DEF Init, Contract!Init
<1> QED
  BY <1>2, <1>3

LEMMA RefineStep ==
    ASSUME Inv, Inv', Credit, [Next]_vars
    PROVE  Credit' /\ [Contract!Next]_(Contract!contractVars)
<1>1. TypeOK'
  BY DEF Inv
<1>2. ASSUME NEW a \in Actions, NEW q \in Wanted, CreateAction(a, q)
      PROVE  Credit' /\ [Contract!Next]_(Contract!contractVars)
  BY <1>1, <1>2, CreateRefines
<1>3. CASE (\E a \in Actions : Expire(a)) \/ UNCHANGED vars
  <2>1. UNCHANGED <<order, trail, sent, confirmed, req>>
    BY <1>3 DEF Expire, vars, committed
  <2> QED
    BY <2>1, QuietStep
<1>4. ASSUME NEW r \in Requests, NEW op \in Operations, NEW a \in Actions,
             LoadApproval(r, op, a) \/ \E row \in BOOLEAN : LoadAction(r, op, a, row)
      PROVE  Credit' /\ [Contract!Next]_(Contract!contractVars)
  <2>1. \E x : req' = [req EXCEPT ![r] = x] /\ ~Owes(x)
    <3>1. CASE LoadApproval(r, op, a)
      <4> DEFINE x == [pc |-> "loading", op |-> op, on |-> a, seen |-> "none",
                       seenApproval |-> approval[a], next |-> "none", row |-> FALSE, mine |-> <<>>]
      <4>1. req' = [req EXCEPT ![r] = x] /\ op # "execute"
        BY <3>1 DEF LoadApproval, Decisions
      <4>2. ~Owes(x)
        BY <4>1 DEF Owes
      <4> QED
        BY <4>1, <4>2
    <3>2. ASSUME NEW row \in BOOLEAN, LoadAction(r, op, a, row)
          PROVE  \E x : req' = [req EXCEPT ![r] = x] /\ ~Owes(x)
      <4> DEFINE x == [pc |-> FirstStep(op), op |-> op, on |-> a, seen |-> status[a],
                       seenApproval |-> approval[a], next |-> Target(op, status[a]),
                       row |-> row, mine |-> <<>>]
      <4>1. req' = [req EXCEPT ![r] = x]
        BY <3>2 DEF LoadAction
      <4>2. ~Owes(x)
        BY DEF Owes, FirstStep
      <4> QED
        BY <4>1, <4>2
    <3> QED
      BY <1>4, <3>1, <3>2
  <2>2. UNCHANGED <<order, trail, sent, confirmed>>
    BY <1>4 DEF LoadApproval, LoadAction, committed
  <2> QED
    BY <2>1, <2>2, QuietRequest
<1>5. ASSUME NEW r \in Requests, Release({r}), UNCHANGED <<committed, sent, confirmed>>
      PROVE  Credit' /\ [Contract!Next]_(Contract!contractVars)
  <2>1. \A s \in Requests : req'[s] = Idle \/ req'[s] = req[s]
    BY <1>5 DEF Release
  <2>2. UNCHANGED <<order, trail, sent, confirmed>>
    BY <1>5 DEF committed
  <2> QED
    BY <2>1, <2>2, QuietStep
<1>6. ASSUME NEW r \in Requests, Continue(r)
      PROVE  Credit' /\ [Contract!Next]_(Contract!contractVars)
  <2>1. CASE \E ok \in BOOLEAN : Send(r, ok)
    BY <1>1, <2>1, SendRefines
  <2>2. CASE Commit(r)
    BY <1>1, <2>2, CommitRefines
  <2>3. CASE DeadlockAbort(r)
    BY <1>5, <2>3 DEF DeadlockAbort
  <2>4. CASE \/ DecideLoaded(r) \/ FlushExecuting(r) \/ Simulate(r) \/ NotSent(r)
             \/ TakeAuditLock(r) \/ FlushRecord(r) \/ \E found \in BOOLEAN : Verify(r, found)
    BY <2>4, QuietContinue
  <2> QED
    BY <1>6, <2>1, <2>2, <2>3, <2>4 DEF Continue
<1>7. ASSUME NEW r \in Requests, Crash(r)
      PROVE  Credit' /\ [Contract!Next]_(Contract!contractVars)
  BY <1>5, <1>7 DEF Crash
<1> QED
  BY <1>2, <1>3, <1>4, <1>6, <1>7 DEF Next

\* The gateway implements its contract: nothing is sent before it is cleared,
\* and no LIVE success is in a trail that a connector did not confirm.
THEOREM ImplementsContract == Spec => KeepsContract
<1>1. Init => Credit /\ Contract!Init
  BY CreditInit
<1>2. Inv /\ Inv' /\ Credit /\ [Next]_vars =>
         Credit' /\ [Contract!Next]_(Contract!contractVars)
  BY RefineStep
<1> QED
  BY <1>1, <1>2, InvHolds, PTL DEF Spec, KeepsContract, Contract!Spec
=============================================================================
