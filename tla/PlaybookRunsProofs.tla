------------------------- MODULE PlaybookRunsProofs -------------------------
(***************************************************************************)
(* Theorems about PlaybookRuns, for any graphs, runs, roles and requests.  *)
(***************************************************************************)
EXTENDS PlaybookRuns, TLAPS, FiniteSetTheorems, SequenceTheorems, WellFoundedInduction

Mark == [step : Nat, status : {"done", "failed", "skipped", "waiting"}]

Row ==
    [status : Finished \cup {"pending", "running", "waiting_approval"}, version : Nat, at : Nat,
     history : Seq(Mark),
     outcome : {"none", "completed", "condition_not_met", "step_failed", "approval_rejected"},
     key : Keys \cup {None}]

Entry ==
    [step : Nat, what : {"ok", "failed", "approve", "reject"}, graph : Graphs,
     by : Roles \cup {None}]

Version == [number : Nat, graph : Graphs]

Saving ==
    [pc : {"saving"}, graph : Graphs \cup {None}, enabled : BOOLEAN,
     seen : [version : Nat, enabled : BOOLEAN]]

Job ==
    [pc : {"locking", "advancing", "committing"}, on : Runs, row : Row, did : Seq(Entry),
     graph : Graphs \cup {None}, done : SUBSET Nat, at : Nat]

-----------------------------------------------------------------------------
(* Numbers, sequences and rows.                                            *)

LEMMA LeastOf ==
    ASSUME NEW S, S \subseteq Nat, S # {}
    PROVE  \E i \in S : \A j \in S : i <= j
<1> DEFINE R == OpToRel(<, Nat)
<1>1. IsWellFoundedOn(R, Nat)
  BY NatLessThanWellFounded
<1>2. \A i, j \in Nat : i < j => <<i, j>> \in R
  BY DEF OpToRel
<1> HIDE DEF R
<1>3. PICK i \in S : \A j \in S : ~(<<j, i>> \in R)
  BY <1>1, WFMin
<1>4. \A j \in S : ~(j < i)
  BY <1>2, <1>3
<1> QED
  BY <1>3, <1>4

LEMMA FirstIsLeast ==
    ASSUME NEW S, S \subseteq Nat, S # {}
    PROVE  First(S) \in S /\ \A j \in S : First(S) <= j
BY LeastOf DEF First

\* What is appended does not move what is there.
Grows(s, t) == Len(s) <= Len(t) /\ \A n \in 1 .. Len(s) : t[n] = s[n]

LEMMA AppendGrows ==
    ASSUME NEW S, NEW s \in Seq(S), NEW e \in S
    PROVE  /\ Append(s, e) \in Seq(S) /\ Grows(s, Append(s, e))
           /\ Len(Append(s, e)) = Len(s) + 1 /\ Append(s, e)[Len(s) + 1] = e
BY AppendProperties DEF Grows

LEMMA ConcatGrows ==
    ASSUME NEW S, NEW s \in Seq(S), NEW t \in Seq(S)
    PROVE  /\ s \o t \in Seq(S) /\ Grows(s, s \o t) /\ Len(s \o t) = Len(s) + Len(t)
           /\ \A n \in 1 .. Len(t) : (s \o t)[Len(s) + n] = t[n]
BY ConcatProperties DEF Grows

LEMMA GrowsSelf ==
    ASSUME NEW S, NEW s \in Seq(S)
    PROVE  Grows(s, s)
BY LenProperties DEF Grows

LEMMA NoRunIsNoRow == NoRun \notin Row /\ NoRun.status = "none"
BY DEF NoRun, Row

LEMMA RecordRow ==
    ASSUME NEW row \in Row, NEW i \in Nat, NEW status \in {"done", "failed", "skipped", "waiting"}
    PROVE  /\ Record(row, i, status) \in Row
           /\ Record(row, i, status).history = Append(row.history, [step |-> i, status |-> status])
           /\ Record(row, i, status).version = row.version
           /\ Record(row, i, status).status = row.status
           /\ Record(row, i, status).at = i
<1> DEFINE mark == [step |-> i, status |-> status]
           h == Append(row.history, mark)
<1>1. mark \in Mark
  BY DEF Mark
<1> HIDE DEF mark
<1>2. h \in Seq(Mark)
  BY <1>1, AppendGrows DEF Row
<1>3. Record(row, i, status) = [row EXCEPT !.at = i, !.history = h]
  BY DEF Record, Row, mark
<1> HIDE DEF h
<1>4. /\ Record(row, i, status) \in Row
      /\ Record(row, i, status).history = h /\ Record(row, i, status).version = row.version
      /\ Record(row, i, status).status = row.status /\ Record(row, i, status).at = i
  BY <1>2, <1>3 DEF Row
<1> QED
  BY <1>4 DEF h, mark

LEMMA FinishRow ==
    ASSUME NEW row \in Row, NEW status \in Finished,
           NEW outcome \in {"completed", "condition_not_met", "step_failed"}
    PROVE  /\ Finish(row, status, outcome) \in Row
           /\ Finish(row, status, outcome).history = row.history
           /\ Finish(row, status, outcome).version = row.version
           /\ Finish(row, status, outcome).status = status
BY DEF Finish, Row

LEMMA DecidedRow ==
    ASSUME NEW row \in Row, NEW decision \in {"approve", "reject"}
    PROVE  /\ Decided(row, decision) \in Row
           /\ Decided(row, decision).history =
                 Append(row.history, [step |-> row.at, status |-> "done"])
           /\ Decided(row, decision).version = row.version
           /\ Decided(row, decision).status =
                 IF decision = "approve" THEN "running" ELSE "cancelled"
<1> DEFINE mark == [step |-> row.at, status |-> "done"]
           h == Append(row.history, mark)
           status == IF decision = "approve" THEN "running" ELSE "cancelled"
<1>1. mark \in Mark
  BY DEF Mark, Row
<1> HIDE DEF mark
<1>2. h \in Seq(Mark)
  BY <1>1, AppendGrows DEF Row
<1>3. Decided(row, decision) = [row EXCEPT !.history = h, !.status = status]
  BY DEF Decided, Row, mark
<1>4. status \in Finished \cup {"pending", "running", "waiting_approval"}
  BY DEF Finished
<1> HIDE DEF h, status
<1>5. /\ Decided(row, decision) \in Row
      /\ Decided(row, decision).history = h /\ Decided(row, decision).version = row.version
      /\ Decided(row, decision).status = status
  BY <1>2, <1>3, <1>4 DEF Row
<1> QED
  BY <1>5 DEF h, mark, status

LEMMA MergedRow ==
    ASSUME NEW old \in Row \cup {NoRun}, NEW q, q.row \in Row
    PROVE  /\ Merged(old, q) \in Row
           /\ Merged(old, q).history = q.row.history
           /\ Merged(old, q).version = q.row.version /\ Merged(old, q).at = q.row.at
           /\ \/ Merged(old, q).status = q.row.status
              \/ old # NoRun /\ q.row.status = "waiting_approval" /\ Merged(old, q).status = old.status
<1> DEFINE row == q.row
<1>1. CASE old = NoRun
  BY <1>1 DEF Merged
<1>2. CASE old # NoRun
  <2>1. PICK status, outcome :
          /\ Merged(old, q) = [q.row EXCEPT !.status = status, !.outcome = outcome]
          /\ outcome \in {q.row.outcome, old.outcome}
          /\ \/ status = q.row.status
             \/ status = old.status /\ q.row.status = "waiting_approval"
    BY <1>2 DEF Merged, Row
  <2>2. /\ status \in Finished \cup {"pending", "running", "waiting_approval"}
        /\ outcome \in {"none", "completed", "condition_not_met", "step_failed", "approval_rejected"}
    BY <1>2, <2>1 DEF Row
  <2> QED
    BY <1>2, <2>1, <2>2 DEF Row
<1> QED
  BY <1>1, <1>2

-----------------------------------------------------------------------------
(* The graph a version number stands for: that of its first row.           *)

PinnedIn(vs, v, g) ==
    \E n \in DOMAIN vs :
        /\ vs[n].number = v /\ vs[n].graph = g
        /\ \A m \in DOMAIN vs : vs[m].number = v => n <= m

LEMMA PinStays ==
    ASSUME NEW vs \in Seq(Version), NEW ws \in Seq(Version), Grows(vs, ws),
           NEW v, NEW g, PinnedIn(vs, v, g)
    PROVE  PinnedIn(ws, v, g)
<1>1. DOMAIN vs = 1 .. Len(vs) /\ DOMAIN ws = 1 .. Len(ws) /\ Len(vs) \in Nat /\ Len(ws) \in Nat
  BY LenProperties
<1>2. PICK n \in DOMAIN vs :
         /\ vs[n].number = v /\ vs[n].graph = g
         /\ \A m \in DOMAIN vs : vs[m].number = v => n <= m
  BY DEF PinnedIn
<1>3. n \in DOMAIN ws /\ ws[n] = vs[n]
  BY <1>1 DEF Grows
<1>4. ASSUME NEW m \in DOMAIN ws, ws[m].number = v
      PROVE  n <= m
  <2>1. CASE m \in DOMAIN vs
    BY <1>1, <1>2, <1>4, <2>1 DEF Grows
  <2>2. CASE m \notin DOMAIN vs
    BY <1>1, <1>2, <2>2
  <2> QED
    BY <2>1, <2>2
<1> QED
  BY <1>2, <1>3, <1>4 DEF PinnedIn

LEMMA OnePin ==
    ASSUME NEW vs \in Seq(Version), NEW v, NEW g, NEW h, PinnedIn(vs, v, g), PinnedIn(vs, v, h)
    PROVE  g = h
<1>1. DOMAIN vs \subseteq Nat
  BY LenProperties
<1>2. PICK n \in DOMAIN vs :
         /\ vs[n].number = v /\ vs[n].graph = g
         /\ \A m \in DOMAIN vs : vs[m].number = v => n <= m
  BY DEF PinnedIn
<1>3. PICK k \in DOMAIN vs :
         /\ vs[k].number = v /\ vs[k].graph = h
         /\ \A m \in DOMAIN vs : vs[m].number = v => k <= m
  BY DEF PinnedIn
<1>4. n <= k /\ k <= n
  BY <1>2, <1>3
<1>5. n = k
  BY <1>1, <1>4
<1> QED
  BY <1>2, <1>3, <1>5

\* A version that can be read has one row.
LEMMA ReadableIsPinned ==
    ASSUME versions \in Seq(Version), NEW v, Readable(v)
    PROVE  GraphOf(v) \in Graphs /\ PinnedIn(versions, v, GraphOf(v))
<1>1. DOMAIN versions = 1 .. Len(versions) /\ Len(versions) \in Nat
  BY LenProperties
<1>2. IsFiniteSet(Found(v))
  <2>1. IsFiniteSet(1 .. Len(versions))
    BY <1>1, FS_Interval
  <2> QED
    BY <1>1, <2>1, FS_Subset DEF Found
<1>3. PICK n : Found(v) = {n}
  BY <1>2, FS_Singleton DEF Readable
<1>4. n \in DOMAIN versions /\ versions[n].number = v /\ GraphOf(v) = versions[n].graph
  BY <1>3 DEF Found, GraphOf
<1>5. \A m \in DOMAIN versions : versions[m].number = v => n <= m
  <2>1. \A m \in DOMAIN versions : versions[m].number = v => m = n
    BY <1>3 DEF Found
  <2> QED
    BY <1>1, <1>4, <2>1
<1>6. versions[n] \in Version
  BY <1>1, <1>4, ElementOfSeq
<1> QED
  BY <1>4, <1>5, <1>6 DEF PinnedIn, Version

-----------------------------------------------------------------------------
(* Approvals: of a step of graph g, among the first n entries of a log.    *)

Approved(S, n, g, i) ==
    \E m \in 1 .. n :
        S[m].step = i /\ S[m].what = "approve" /\ S[m].by \in Authority(StepsOf[g][i].role)

\* In what is committed, or in the first n entries of what is in hand.
Cleared(L, did, n, g, i) == Approved(L, Len(L), g, i) \/ Approved(did, n, g, i)

\* No task before the approvals ahead of it.
Gated(L, did) ==
    \A n \in 1 .. Len(did) : did[n].what \in {"ok", "failed"} =>
        \A i \in 1 .. (did[n].step - 1) :
            StepsOf[did[n].graph][i].type = "approval" =>
                Cleared(L, did, n - 1, did[n].graph, i)

LEMMA ApprovedStays ==
    ASSUME NEW S, NEW s \in Seq(S), NEW t \in Seq(S), Grows(s, t), NEW n \in 0 .. Len(s),
           NEW m \in Nat, n <= m, NEW g, NEW i, Approved(s, n, g, i)
    PROVE  Approved(t, m, g, i)
BY LenProperties DEF Approved, Grows

LEMMA ClearedStays ==
    ASSUME NEW L \in Seq(Entry), NEW M \in Seq(Entry), Grows(L, M),
           NEW did \in Seq(Entry), NEW n, NEW g, NEW i, Cleared(L, did, n, g, i)
    PROVE  Cleared(M, did, n, g, i)
<1>1. Len(L) \in Nat /\ Len(M) \in Nat /\ Len(L) <= Len(M)
  BY LenProperties DEF Grows
<1>2. Approved(L, Len(L), g, i) => Approved(M, Len(M), g, i)
  BY <1>1, ApprovedStays
<1> QED
  BY <1>2 DEF Cleared

LEMMA ClearedInHand ==
    ASSUME NEW L \in Seq(Entry), NEW did \in Seq(Entry), NEW e \in Entry, NEW n \in 0 .. Len(did),
           NEW m \in Nat, n <= m, NEW g, NEW i, Cleared(L, did, n, g, i)
    PROVE  Cleared(L, Append(did, e), m, g, i)
<1>1. Approved(did, n, g, i) => Approved(Append(did, e), m, g, i)
  BY AppendGrows, ApprovedStays
<1> QED
  BY <1>1 DEF Cleared

LEMMA GatedStays ==
    ASSUME NEW L \in Seq(Entry), NEW M \in Seq(Entry), Grows(L, M),
           NEW did \in Seq(Entry), Gated(L, did)
    PROVE  Gated(M, did)
BY ClearedStays DEF Gated

\* One more entry: a decision, or a task behind approved steps.
LEMMA GatedAppend ==
    ASSUME NEW L \in Seq(Entry), NEW did \in Seq(Entry), NEW e \in Entry, Gated(L, did),
           e.what \in {"ok", "failed"} =>
               \A i \in 1 .. (e.step - 1) : StepsOf[e.graph][i].type = "approval" =>
                   Cleared(L, did, Len(did), e.graph, i)
    PROVE  Gated(L, Append(did, e))
<1> DEFINE new == Append(did, e)
<1>1. /\ new \in Seq(Entry) /\ Grows(did, new) /\ Len(new) = Len(did) + 1 /\ new[Len(did) + 1] = e
      /\ Len(did) \in Nat
  BY AppendGrows, LenProperties
<1>2. \A n \in 0 .. Len(did), m \in Nat : \A g, i :
         n <= m /\ Cleared(L, did, n, g, i) => Cleared(L, new, m, g, i)
  BY ClearedInHand
<1> HIDE DEF new
<1> SUFFICES ASSUME NEW n \in 1 .. Len(new), new[n].what \in {"ok", "failed"},
                    NEW i \in 1 .. (new[n].step - 1),
                    StepsOf[new[n].graph][i].type = "approval"
             PROVE  Cleared(L, new, n - 1, new[n].graph, i)
  BY DEF Gated, new
<1>3. CASE n \in 1 .. Len(did)
  <2>1. new[n] = did[n]
    BY <1>1, <1>3 DEF Grows
  <2>2. Cleared(L, did, n - 1, new[n].graph, i)
    BY <1>3, <2>1 DEF Gated
  <2>3. n - 1 \in 0 .. Len(did) /\ n - 1 \in Nat /\ n - 1 <= n - 1
    BY <1>1, <1>3
  <2> QED
    BY <1>2, <2>2, <2>3
<1>4. CASE n = Len(did) + 1
  <2>1. new[n] = e /\ n - 1 = Len(did)
    BY <1>1, <1>4
  <2>2. Cleared(L, did, Len(did), e.graph, i)
    BY <2>1
  <2> QED
    BY <1>1, <1>2, <2>1, <2>2
<1> QED
  BY <1>1, <1>3, <1>4

\* What is in hand is committed behind what has been.
LEMMA ClearedCommitted ==
    ASSUME NEW L \in Seq(Entry), NEW did \in Seq(Entry), NEW n \in 0 .. Len(did),
           NEW g, NEW i, Cleared(L, did, n, g, i)
    PROVE  Approved(L \o did, Len(L) + n, g, i)
<1> DEFINE new == L \o did
<1>1. /\ new \in Seq(Entry) /\ Grows(L, new) /\ Len(L) \in Nat
      /\ \A k \in 1 .. Len(did) : new[Len(L) + k] = did[k]
  BY ConcatGrows, LenProperties
<1> HIDE DEF new
<1>2. CASE Approved(L, Len(L), g, i)
  <2>1. Len(L) \in 0 .. Len(L) /\ Len(L) + n \in Nat /\ Len(L) <= Len(L) + n
    BY <1>1, LenProperties
  <2>2. Approved(new, Len(L) + n, g, i)
    BY <1>1, <1>2, <2>1, ApprovedStays
  <2> QED
    BY <2>2 DEF new
<1>3. CASE Approved(did, n, g, i)
  <2>1. PICK m \in 1 .. n : did[m].step = i /\ did[m].what = "approve"
                            /\ did[m].by \in Authority(StepsOf[g][i].role)
    BY <1>3 DEF Approved
  <2>2. m \in 1 .. Len(did) /\ Len(L) + m \in 1 .. (Len(L) + n)
    BY <1>1, LenProperties
  <2>3. new[Len(L) + m] = did[m]
    BY <1>1, <2>2
  <2> QED
    BY <2>1, <2>2, <2>3 DEF Approved, new
<1> QED
  BY <1>2, <1>3 DEF Cleared

LEMMA GatedCommitted ==
    ASSUME NEW L \in Seq(Entry), NEW did \in Seq(Entry), Gated(<<>>, L), Gated(L, did)
    PROVE  Gated(<<>>, L \o did)
<1> DEFINE new == L \o did
<1>1. /\ new \in Seq(Entry) /\ Grows(L, new) /\ Len(L) \in Nat /\ Len(did) \in Nat
      /\ Len(new) = Len(L) + Len(did)
      /\ \A k \in 1 .. Len(did) : new[Len(L) + k] = did[k]
  BY ConcatGrows, LenProperties
<1>2. \A n \in 0 .. Len(did) : \A g, i :
         Cleared(L, did, n, g, i) => Approved(new, Len(L) + n, g, i)
  BY ClearedCommitted
<1> HIDE DEF new
<1> SUFFICES ASSUME NEW n \in 1 .. Len(new), new[n].what \in {"ok", "failed"},
                    NEW i \in 1 .. (new[n].step - 1),
                    StepsOf[new[n].graph][i].type = "approval"
             PROVE  Approved(new, n - 1, new[n].graph, i)
  BY DEF Gated, Cleared, new
<1>3. CASE n \in 1 .. Len(L)
  <2>1. new[n] = L[n]
    BY <1>1, <1>3 DEF Grows
  <2>2. Approved(L, n - 1, L[n].graph, i)
    <3>1. Cleared(<<>>, L, n - 1, L[n].graph, i)
      BY <1>3, <2>1 DEF Gated
    <3>2. ~Approved(<<>>, Len(<<>>), L[n].graph, i)
      BY EmptySeq DEF Approved
    <3> QED
      BY <3>1, <3>2 DEF Cleared
  <2>3. n - 1 \in 0 .. Len(L) /\ n - 1 \in Nat /\ n - 1 <= n - 1
    BY <1>1, <1>3
  <2> QED
    BY <1>1, <2>1, <2>2, <2>3, ApprovedStays
<1>4. CASE n \notin 1 .. Len(L)
  <2>1. PICK k \in 1 .. Len(did) : n = Len(L) + k
    <3>1. n - Len(L) \in 1 .. Len(did) /\ n = Len(L) + (n - Len(L))
      BY <1>1, <1>4
    <3> QED
      BY <3>1
  <2>2. new[n] = did[k] /\ n - 1 = Len(L) + (k - 1) /\ k - 1 \in 0 .. Len(did)
    BY <1>1, <2>1
  <2>3. Cleared(L, did, k - 1, did[k].graph, i)
    BY <2>2 DEF Gated
  <2>4. Approved(new, Len(L) + (k - 1), did[k].graph, i)
    BY <1>2, <2>2, <2>3
  <2> QED
    BY <2>2, <2>4
<1> QED
  BY <1>3, <1>4

-----------------------------------------------------------------------------
(* Histories.                                                              *)

Has(h, i) ==
    \E n \in 1 .. Len(h) : h[n].step = i /\ h[n].status \in {"done", "skipped", "failed"}

\* The history of a run that can go on: nothing is skipped, no failure has
\* halted it, and each approval it counts as done was given.
Sound(h, g, L, did) ==
    \A n \in 1 .. Len(h) :
        /\ h[n].step \in DOMAIN StepsOf[g] /\ h[n].status # "skipped"
        /\ h[n].status = "failed" => ~StepsOf[g][h[n].step].halts
        /\ h[n].status = "done" /\ StepsOf[g][h[n].step].type = "approval" =>
              Cleared(L, did, Len(did), g, h[n].step)

\* The history of a completed run.
Covered(h, g) ==
    /\ \A i \in DOMAIN StepsOf[g] : Has(h, i)
    /\ \A n \in 1 .. Len(h) : h[n].step \in DOMAIN StepsOf[g] /\ h[n].status = "failed" =>
                                 ~StepsOf[g][h[n].step].halts

LEMMA HasStays ==
    ASSUME NEW h \in Seq(Mark), NEW k \in Seq(Mark), Grows(h, k), NEW i, Has(h, i)
    PROVE  Has(k, i)
BY LenProperties DEF Has, Grows

LEMMA HasAppend ==
    ASSUME NEW h \in Seq(Mark), NEW i \in Nat, NEW status \in {"done", "failed", "skipped"}
    PROVE  Has(Append(h, [step |-> i, status |-> status]), i)
<1> DEFINE mark == [step |-> i, status |-> status]
           new == Append(h, mark)
<1>1. mark \in Mark /\ mark.step = i /\ mark.status = status
  BY DEF Mark
<1> HIDE DEF mark
<1>2. Len(new) = Len(h) + 1 /\ new[Len(h) + 1] = mark /\ Len(h) \in Nat
  BY <1>1, AppendGrows, LenProperties
<1> HIDE DEF new
<1>3. Len(h) + 1 \in 1 .. Len(new)
  BY <1>2
<1>4. Has(new, i)
  BY <1>1, <1>2, <1>3 DEF Has
<1> QED
  BY <1>4 DEF new, mark

LEMMA SoundStays ==
    ASSUME NEW L \in Seq(Entry), NEW M \in Seq(Entry), Grows(L, M),
           NEW did \in Seq(Entry), NEW new \in Seq(Entry), Grows(did, new),
           NEW h, NEW g, Sound(h, g, L, did)
    PROVE  Sound(h, g, M, new)
<1>1. /\ Len(did) \in Nat /\ Len(new) \in Nat /\ Len(did) <= Len(new)
      /\ Len(L) \in Nat /\ Len(M) \in Nat /\ Len(L) <= Len(M)
  BY LenProperties DEF Grows
<1>2. ASSUME NEW i, Cleared(L, did, Len(did), g, i)
      PROVE  Cleared(M, new, Len(new), g, i)
  <2>1. Approved(L, Len(L), g, i) => Approved(M, Len(M), g, i)
    BY <1>1, ApprovedStays
  <2>2. Approved(did, Len(did), g, i) => Approved(new, Len(new), g, i)
    BY <1>1, ApprovedStays
  <2> QED
    BY <1>2, <2>1, <2>2 DEF Cleared
<1> QED
  BY <1>2 DEF Sound

LEMMA SoundAppend ==
    ASSUME NEW L, NEW did, NEW h \in Seq(Mark), NEW g, Sound(h, g, L, did),
           NEW i \in Nat, NEW status \in {"done", "failed", "waiting"}, i \in DOMAIN StepsOf[g],
           status = "failed" => ~StepsOf[g][i].halts,
           status = "done" /\ StepsOf[g][i].type = "approval" => Cleared(L, did, Len(did), g, i)
    PROVE  Sound(Append(h, [step |-> i, status |-> status]), g, L, did)
<1> DEFINE mark == [step |-> i, status |-> status]
           new == Append(h, mark)
<1>1. mark \in Mark /\ mark.step = i /\ mark.status = status
  BY DEF Mark
<1> HIDE DEF mark
<1>2. Grows(h, new) /\ Len(new) = Len(h) + 1 /\ new[Len(h) + 1] = mark /\ Len(h) \in Nat
  BY <1>1, AppendGrows, LenProperties
<1> HIDE DEF new
<1>3. \A n \in 1 .. Len(new) : new[n] = mark \/ (n \in 1 .. Len(h) /\ new[n] = h[n])
  BY <1>2 DEF Grows
<1>4. Sound(new, g, L, did)
  BY <1>1, <1>3 DEF Sound
<1> QED
  BY <1>4 DEF new, mark

LEMMA SoundCommitted ==
    ASSUME NEW L \in Seq(Entry), NEW did \in Seq(Entry), NEW h, NEW g, Sound(h, g, L, did)
    PROVE  Sound(h, g, L \o did, <<>>)
<1>1. /\ L \o did \in Seq(Entry) /\ Len(L \o did) = Len(L) + Len(did)
      /\ Len(did) \in 0 .. Len(did)
  BY ConcatGrows, LenProperties
<1>2. ASSUME NEW i, Cleared(L, did, Len(did), g, i)
      PROVE  Cleared(L \o did, <<>>, Len(<<>>), g, i)
  BY <1>1, <1>2, ClearedCommitted DEF Cleared
<1> QED
  BY <1>2 DEF Sound

-----------------------------------------------------------------------------
(* Requests: q serves a run with the committed log L and row R.            *)

\* A run that waits does so at an approval step.
Waits(row, L, did, vs) ==
    \E g \in Graphs :
        /\ PinnedIn(vs, row.version, g)
        /\ row.at \in DOMAIN StepsOf[g] /\ StepsOf[g][row.at].type = "approval"
        /\ Sound(row.history, g, L, did)

\* All that is done is of the version's graph.
AllOn(vs, v, did) == \A n \in 1 .. Len(did) : PinnedIn(vs, v, did[n].graph)

Locks(q, L, vs) ==
    /\ q.row.status \in {"pending", "running", "cancelled"}
    /\ q.row.status # "cancelled" =>
          \/ q.row.history = <<>>
          \/ \E g \in Graphs : PinnedIn(vs, q.row.version, g) /\ Sound(q.row.history, g, L, q.did)

Advances(q, L, vs) ==
    /\ q.graph \in Graphs /\ PinnedIn(vs, q.row.version, q.graph) /\ q.at # 0
    /\ q.row.status = "running" /\ Sound(q.row.history, q.graph, L, q.did)
    /\ \A i \in DOMAIN StepsOf[q.graph] :
          /\ i \in q.done \/ i < q.at => Has(q.row.history, i)
          /\ StepsOf[q.graph][i].type = "approval" =>
                /\ i < q.at => i \in q.done
                /\ i \in q.done => Cleared(L, q.did, Len(q.did), q.graph, i)

Commits(q, L, vs) ==
    /\ q.row.status \in Finished \cup {"waiting_approval"}
    /\ q.row.status = "waiting_approval" => Waits(q.row, L, q.did, vs)
    /\ q.row.status = "completed" =>
          /\ q.graph \in Graphs /\ PinnedIn(vs, q.row.version, q.graph)
          /\ Covered(q.row.history, q.graph)

Serves(q, L, R, vs) ==
    /\ q \in Job
    /\ R # NoRun => R.version = q.row.version
    /\ AllOn(vs, q.row.version, q.did)
    /\ Gated(L, q.did)
    /\ q.pc = "locking" => Locks(q, L, vs)
    /\ q.pc = "advancing" => Advances(q, L, vs)
    /\ q.pc = "committing" => Commits(q, L, vs)

RunOK(R, L, vs) ==
    /\ L \in Seq(Entry) /\ Gated(<<>>, L)
    /\ \/ R = NoRun /\ L = <<>>
       \/ /\ R \in Row /\ R.status \in Finished \cup {"waiting_approval"}
          /\ AllOn(vs, R.version, L)
          /\ R.status = "waiting_approval" => Waits(R, L, <<>>, vs)

LEMMA WaitsStays ==
    ASSUME NEW L \in Seq(Entry), NEW M \in Seq(Entry), Grows(L, M), NEW did \in Seq(Entry),
           NEW vs \in Seq(Version), NEW ws \in Seq(Version), Grows(vs, ws),
           NEW row, Waits(row, L, did, vs)
    PROVE  Waits(row, M, did, ws)
<1>1. Grows(did, did)
  BY GrowsSelf
<1>2. PICK g \in Graphs :
        /\ PinnedIn(vs, row.version, g)
        /\ row.at \in DOMAIN StepsOf[g] /\ StepsOf[g][row.at].type = "approval"
        /\ Sound(row.history, g, L, did)
  BY DEF Waits
<1>3. PinnedIn(ws, row.version, g) /\ Sound(row.history, g, M, did)
  BY <1>1, <1>2, PinStays, SoundStays
<1> QED
  BY <1>2, <1>3 DEF Waits

\* What others commit disturbs nothing that a request relies on.
LEMMA ServesStays ==
    ASSUME NEW L \in Seq(Entry), NEW M \in Seq(Entry), Grows(L, M),
           NEW vs \in Seq(Version), NEW ws \in Seq(Version), Grows(vs, ws),
           NEW q, NEW R, NEW R2, Serves(q, L, R, vs), R2 # NoRun => R2.version = q.row.version
    PROVE  Serves(q, M, R2, ws)
<1>1. q \in Job /\ q.did \in Seq(Entry) /\ Grows(q.did, q.did)
  BY GrowsSelf DEF Serves, Job
<1>2. \A v, g : PinnedIn(vs, v, g) => PinnedIn(ws, v, g)
  BY PinStays
<1>3. AllOn(ws, q.row.version, q.did)
  BY <1>2 DEF Serves, AllOn
<1>4. Gated(M, q.did)
  BY <1>1, GatedStays DEF Serves
<1>5. \A h, g : Sound(h, g, L, q.did) => Sound(h, g, M, q.did)
  BY <1>1, SoundStays
<1>6. Locks(q, L, vs) => Locks(q, M, ws)
  BY <1>2, <1>5 DEF Locks
<1>7. Advances(q, L, vs) => Advances(q, M, ws)
  <2>1. \A i : Cleared(L, q.did, Len(q.did), q.graph, i) =>
                  Cleared(M, q.did, Len(q.did), q.graph, i)
    BY <1>1, ClearedStays
  <2> QED
    BY <1>2, <1>5, <2>1 DEF Advances
<1>8. Commits(q, L, vs) => Commits(q, M, ws)
  <2>1. Waits(q.row, L, q.did, vs) => Waits(q.row, M, q.did, ws)
    BY <1>1, WaitsStays
  <2> QED
    BY <1>2, <2>1 DEF Commits
<1> QED
  BY <1>1, <1>3, <1>4, <1>6, <1>7, <1>8 DEF Serves

LEMMA RunStays ==
    ASSUME NEW vs \in Seq(Version), NEW ws \in Seq(Version), Grows(vs, ws),
           NEW R, NEW L, RunOK(R, L, vs)
    PROVE  RunOK(R, L, ws)
<1>1. \A v, g : PinnedIn(vs, v, g) => PinnedIn(ws, v, g)
  BY PinStays
<1>2. L \in Seq(Entry) /\ Grows(L, L) /\ <<>> \in Seq(Entry)
  BY GrowsSelf DEF RunOK
<1>3. Waits(R, L, <<>>, vs) => Waits(R, L, <<>>, ws)
  BY <1>2, WaitsStays
<1> QED
  BY <1>1, <1>3 DEF RunOK, AllOn

-----------------------------------------------------------------------------
(* What each step makes of a request.                                      *)

LEMMA EmptyGated ==
    ASSUME NEW L
    PROVE  Gated(L, <<>>) /\ <<>> \in Seq(Entry)
BY EmptySeq DEF Gated

LEMMA RunCommitted ==
    ASSUME NEW q, NEW L, NEW R, NEW vs \in Seq(Version), RunOK(R, L, vs), Serves(q, L, R, vs),
           q.pc = "committing"
    PROVE  /\ RunOK(Merged(R, q), L \o q.did, vs) /\ Merged(R, q) # NoRun
           /\ Merged(R, q).version = q.row.version
           /\ Merged(R, q).status = "completed" /\ R.status # "completed" =>
                 /\ q.graph \in Graphs /\ PinnedIn(vs, q.row.version, q.graph)
                 /\ Covered(Merged(R, q).history, q.graph)
<1> DEFINE row == Merged(R, q)
<1>1. /\ q.row \in Row /\ q.did \in Seq(Entry) /\ L \in Seq(Entry) /\ R \in Row \cup {NoRun}
      /\ Commits(q, L, vs)
  BY DEF Serves, Job, RunOK
<1>2. /\ row \in Row /\ row.history = q.row.history
      /\ row.version = q.row.version /\ row.at = q.row.at
      /\ \/ row.status = q.row.status
         \/ R # NoRun /\ q.row.status = "waiting_approval" /\ row.status = R.status
  <2>1. q.row \in Row /\ R \in Row \cup {NoRun}
    BY <1>1
  <2>2. /\ Merged(R, q) \in Row
        /\ Merged(R, q).history = q.row.history
        /\ Merged(R, q).version = q.row.version /\ Merged(R, q).at = q.row.at
        /\ \/ Merged(R, q).status = q.row.status
           \/ R # NoRun /\ q.row.status = "waiting_approval" /\ Merged(R, q).status = R.status
    BY <2>1, MergedRow, Zenon
  <2> QED
    BY <2>2 DEF row
<1> HIDE DEF row
<1>3. row.status \in Finished \cup {"waiting_approval"}
  BY <1>1, <1>2 DEF Commits, RunOK
<1>4. ASSUME row.status = "waiting_approval"
      PROVE  Waits(row, L \o q.did, <<>>, vs)
  <2>1. Waits(q.row, L, q.did, vs)
    BY <1>1, <1>2, <1>4 DEF Commits
  <2>2. PICK g \in Graphs :
          /\ PinnedIn(vs, q.row.version, g)
          /\ q.row.at \in DOMAIN StepsOf[g] /\ StepsOf[g][q.row.at].type = "approval"
          /\ Sound(q.row.history, g, L, q.did)
    BY <2>1 DEF Waits
  <2>3. Sound(q.row.history, g, L \o q.did, <<>>)
    BY <1>1, <2>2, SoundCommitted
  <2> QED
    BY <1>2, <2>2, <2>3 DEF Waits
<1>5. Gated(<<>>, L \o q.did) /\ L \o q.did \in Seq(Entry)
  BY <1>1, GatedCommitted, ConcatGrows DEF RunOK, Serves
<1>6. AllOn(vs, row.version, L \o q.did)
  <2> DEFINE new == L \o q.did
  <2>1. /\ Grows(L, new) /\ Len(new) = Len(L) + Len(q.did) /\ Len(L) \in Nat /\ Len(q.did) \in Nat
        /\ \A k \in 1 .. Len(q.did) : new[Len(L) + k] = q.did[k]
    BY <1>1, ConcatGrows, LenProperties
  <2>2. \A n \in 1 .. Len(L) : PinnedIn(vs, row.version, L[n].graph)
    <3>1. CASE R = NoRun
      <4>1. Len(L) = 0
        BY <1>1, <3>1, EmptySeq, NoRunIsNoRow DEF RunOK
      <4> QED
        BY <4>1
    <3>2. CASE R # NoRun
      <4>1. row.version = R.version
        BY <1>2, <3>2 DEF Serves
      <4> QED
        BY <3>2, <4>1 DEF RunOK, AllOn
    <3> QED
      BY <3>1, <3>2
  <2>3. \A k \in 1 .. Len(q.did) : PinnedIn(vs, row.version, q.did[k].graph)
    BY <1>2 DEF Serves, AllOn
  <2> HIDE DEF new
  <2>4. ASSUME NEW n \in 1 .. Len(new)
        PROVE  PinnedIn(vs, row.version, new[n].graph)
    <3>1. CASE n \in 1 .. Len(L)
      BY <2>1, <2>2, <3>1 DEF Grows
    <3>2. CASE n \notin 1 .. Len(L)
      <4>1. n - Len(L) \in 1 .. Len(q.did) /\ n = Len(L) + (n - Len(L))
        BY <2>1, <3>2
      <4> QED
        BY <2>1, <2>3, <4>1
    <3> QED
      BY <3>1, <3>2
  <2> QED
    BY <2>4 DEF new, AllOn
<1>7. RunOK(row, L \o q.did, vs)
  BY <1>2, <1>3, <1>4, <1>5, <1>6 DEF RunOK
<1>8. row # NoRun
  BY <1>2, NoRunIsNoRow
<1>9. ASSUME row.status = "completed", R.status # "completed"
      PROVE  /\ q.graph \in Graphs /\ PinnedIn(vs, q.row.version, q.graph)
             /\ Covered(row.history, q.graph)
  BY <1>1, <1>2, <1>9 DEF Commits
<1> QED
  BY <1>2, <1>7, <1>8, <1>9 DEF row

LEMMA StartServes ==
    ASSUME NEW x \in Runs, NEW row \in Row, row.status = "pending", row.history = <<>>,
           NEW vs
    PROVE  Serves(Serve(x, row, <<>>), <<>>, NoRun, vs)
BY EmptyGated, EmptySeq DEF Serves, Serve, AllOn, Job, Locks

LEMMA ResumeServes ==
    ASSUME NEW x \in Runs, NEW R, NEW L, NEW vs \in Seq(Version), RunOK(R, L, vs),
           R.status = "waiting_approval", NEW g \in Graphs, PinnedIn(vs, R.version, g),
           NEW role \in Roles, role \in Authority(StepsOf[g][R.at].role),
           NEW decision \in {"approve", "reject"}
    PROVE  Serves(Serve(x, Decided(R, decision),
                        <<[step |-> R.at, what |-> decision, graph |-> g, by |-> role]>>),
                  L, R, vs)
<1> DEFINE e == [step |-> R.at, what |-> decision, graph |-> g, by |-> role]
           did == <<e>>
           row == Decided(R, decision)
           q == Serve(x, row, did)
<1>1. R \in Row /\ R # NoRun /\ L \in Seq(Entry) /\ Waits(R, L, <<>>, vs)
  BY NoRunIsNoRow DEF RunOK
<1>2. /\ row \in Row
      /\ row.history = Append(R.history, [step |-> R.at, status |-> "done"])
      /\ row.version = R.version
      /\ row.status = IF decision = "approve" THEN "running" ELSE "cancelled"
  BY <1>1, DecidedRow
<1>3. e \in Entry /\ e.step = R.at /\ e.what = decision /\ e.graph = g /\ e.by = role
  BY <1>1 DEF Entry, Row
<1> HIDE DEF e, row
<1>4. did \in Seq(Entry) /\ Len(did) = 1 /\ did[1] = e
  BY <1>3
<1>5. q \in Job /\ q.pc = "locking" /\ q.row = row /\ q.did = did
  BY <1>2, <1>4 DEF Job, Serve
<1>6. Gated(L, did)
  BY <1>3, <1>4 DEF Gated
<1>7. AllOn(vs, row.version, did)
  BY <1>2, <1>3, <1>4 DEF AllOn
<1>8. Locks(q, L, vs)
  <2>1. CASE decision = "reject"
    BY <1>2, <1>5, <2>1 DEF Locks
  <2>2. CASE decision = "approve"
    <3>1. PICK k \in Graphs :
            /\ PinnedIn(vs, R.version, k)
            /\ R.at \in DOMAIN StepsOf[k] /\ StepsOf[k][R.at].type = "approval"
            /\ Sound(R.history, k, L, <<>>)
      BY <1>1 DEF Waits
    <3>2. k = g
      BY <3>1, OnePin
    <3>3. Grows(L, L) /\ Grows(<<>>, did) /\ <<>> \in Seq(Entry)
      BY <1>1, <1>4, GrowsSelf, EmptySeq DEF Grows
    <3>4. Sound(R.history, g, L, did)
      BY <1>1, <1>4, <3>1, <3>2, <3>3, SoundStays
    <3>5. Cleared(L, did, Len(did), g, R.at)
      BY <1>3, <1>4, <2>2 DEF Cleared, Approved
    <3>6. R.history \in Seq(Mark) /\ R.at \in Nat
      BY <1>1 DEF Row
    <3>7. Sound(Append(R.history, [step |-> R.at, status |-> "done"]), g, L, did)
      BY <3>1, <3>2, <3>4, <3>5, <3>6, SoundAppend
    <3> QED
      BY <1>2, <1>5, <2>2, <3>7 DEF Locks
  <2> QED
    BY <2>1, <2>2
<1>9. Serves(q, L, R, vs)
  BY <1>2, <1>5, <1>6, <1>7, <1>8 DEF Serves
<1> QED
  BY <1>9 DEF e, row

LEMMA RejectServes ==
    ASSUME NEW q, NEW L, NEW R, NEW vs, Serves(q, L, R, vs), q.pc = "locking",
           q.row.status = "cancelled", NEW p,
           p = [q EXCEPT !.pc = "committing",
                         !.row = [q.row EXCEPT !.at = 0, !.outcome = "approval_rejected"]]
    PROVE  Serves(p, L, R, vs) /\ p.pc = "committing"
<1>1. q \in Job /\ q.row \in Row
  BY DEF Serves, Job
<1> DEFINE row == [q.row EXCEPT !.at = 0, !.outcome = "approval_rejected"]
<1>2. row \in Row /\ row.version = q.row.version /\ row.status = "cancelled"
  BY <1>1 DEF Row
<1> HIDE DEF row
<1>3. p = [q EXCEPT !.pc = "committing", !.row = row]
  BY DEF row
<1>4. p \in Job /\ p.pc = "committing" /\ p.row = row /\ p.did = q.did
  BY <1>1, <1>2, <1>3 DEF Job
<1>5. Commits(p, L, vs)
  BY <1>2, <1>4 DEF Commits, Finished
<1> QED
  BY <1>2, <1>4, <1>5 DEF Serves

\* What _advance passes over is in the history, and approved.
Advanced(q, g) ==
    [q EXCEPT !.pc = "advancing", !.graph = g, !.done = Done(q.row), !.at = 1,
              !.row = [q.row EXCEPT !.status = "running"]]

LEMMA AdvanceServes ==
    ASSUME NEW q, NEW L \in Seq(Entry), NEW R, NEW vs \in Seq(Version), Serves(q, L, R, vs),
           q.pc = "locking", q.row.status # "cancelled",
           NEW g \in Graphs, PinnedIn(vs, q.row.version, g)
    PROVE  /\ Serves(Advanced(q, g), L, R, vs)
           /\ Advanced(q, g).pc = "advancing" /\ Advanced(q, g).on = q.on
<1> DEFINE p == Advanced(q, g)
<1>1. q \in Job /\ q.row \in Row /\ q.row.history \in Seq(Mark)
  BY DEF Serves, Job, Row
<1> DEFINE row == [q.row EXCEPT !.status = "running"]
           h == q.row.history
<1>2. row \in Row /\ row.version = q.row.version /\ row.status = "running" /\ row.history = h
  BY <1>1 DEF Row
<1> HIDE DEF row
<1>3. Done(q.row) \in SUBSET Nat
  <2>1. \A n \in DOMAIN q.row.history : q.row.history[n] \in Mark
    BY <1>1, LenProperties, ElementOfSeq
  <2>2. \A n \in DOMAIN q.row.history : q.row.history[n].step \in Nat
    BY <2>1 DEF Mark
  <2> QED
    BY <2>2 DEF Done
<1> DEFINE done == Done(q.row)
<1>4. p = [q EXCEPT !.pc = "advancing", !.graph = g, !.done = done, !.at = 1, !.row = row]
  BY DEF row, Advanced
<1> HIDE DEF done, p
<1>5. /\ p \in Job /\ p.pc = "advancing" /\ p.row = row /\ p.did = q.did /\ p.graph = g
      /\ p.done = done /\ p.at = 1 /\ p.on = q.on
  <2>1. done \in SUBSET Nat /\ g \in Graphs \cup {None}
    BY <1>3 DEF done
  <2>2. p \in Job
    BY <1>1, <1>2, <1>4, <2>1, 1 \in Nat DEF Job
  <2>3. /\ p.pc = "advancing" /\ p.row = row /\ p.did = q.did /\ p.graph = g
        /\ p.done = done /\ p.at = 1 /\ p.on = q.on
    BY <1>1, <1>4 DEF Job
  <2> QED
    BY <2>2, <2>3
<1>6. Sound(h, g, L, q.did)
  <2>1. CASE h = <<>>
    BY <2>1, EmptySeq DEF Sound
  <2>2. CASE h # <<>>
    <3>1. PICK k \in Graphs : PinnedIn(vs, q.row.version, k) /\ Sound(h, k, L, q.did)
      BY <2>2 DEF Serves, Locks
    <3> QED
      BY <3>1, OnePin
  <2> QED
    BY <2>1, <2>2
<1>7. ASSUME NEW i \in Done(q.row)
      PROVE  \E n \in 1 .. Len(h) : h[n].step = i /\ h[n].status = "done"
  <2>1. PICK n \in DOMAIN h : h[n].status \in {"done", "skipped"} /\ h[n].step = i
    BY <1>7 DEF Done
  <2> QED
    BY <1>1, <1>6, <2>1, LenProperties DEF Sound
<1>8. Advances(p, L, vs)
  <2>1. \A i \in DOMAIN StepsOf[g] : i < 1 => FALSE
    BY PlaybookAssumption, LenProperties
  <2>2. \A i \in Done(q.row) : Has(h, i)
    BY <1>7 DEF Has
  <2>3. \A i \in Done(q.row) : StepsOf[g][i].type = "approval" =>
                                  Cleared(L, q.did, Len(q.did), g, i)
    <3> SUFFICES ASSUME NEW i \in Done(q.row), StepsOf[g][i].type = "approval"
                 PROVE  Cleared(L, q.did, Len(q.did), g, i)
      OBVIOUS
    <3>1. PICK n \in 1 .. Len(h) : h[n].step = i /\ h[n].status = "done"
      BY <1>7
    <3> QED
      BY <1>6, <3>1 DEF Sound
  <2> HIDE DEF h
  <2>4. PinnedIn(vs, p.row.version, p.graph) /\ p.at # 0 /\ p.row.status = "running"
    BY <1>2, <1>5
  <2>5. \A i \in DOMAIN StepsOf[p.graph] :
          /\ i \in p.done \/ i < p.at => Has(p.row.history, i)
          /\ StepsOf[p.graph][i].type = "approval" =>
                /\ i < p.at => i \in p.done
                /\ i \in p.done => Cleared(L, p.did, Len(p.did), p.graph, i)
    BY <1>2, <1>5, <2>1, <2>2, <2>3 DEF done
  <2> QED
    BY <1>2, <1>5, <1>6, <2>4, <2>5 DEF Advances
<1>9. Serves(p, L, R, vs)
  BY <1>2, <1>5, <1>8 DEF Serves
<1> QED
  BY <1>5, <1>9 DEF p

\* What a step of _advance changes of a request.
Moved(q, pc, row, did, at) == [q EXCEPT !.pc = pc, !.row = row, !.did = did, !.at = at]

LEMMA MovedJob ==
    ASSUME NEW q \in Job, NEW pc \in {"advancing", "committing"}, NEW row \in Row,
           NEW did \in Seq(Entry), NEW at \in Nat
    PROVE  /\ Moved(q, pc, row, did, at) \in Job
           /\ Moved(q, pc, row, did, at).pc = pc /\ Moved(q, pc, row, did, at).row = row
           /\ Moved(q, pc, row, did, at).did = did /\ Moved(q, pc, row, did, at).at = at
           /\ Moved(q, pc, row, did, at).graph = q.graph
           /\ Moved(q, pc, row, did, at).done = q.done
           /\ Moved(q, pc, row, did, at).on = q.on
BY DEF Moved, Job

\* Whatever lies before the next step i is in the history, and approved.
ReachedAt(q, L, i) ==
    /\ i \in DOMAIN StepsOf[q.graph] /\ i \in Nat /\ i # 0
    /\ \A j \in 1 .. (i - 1) :
          /\ j \in DOMAIN StepsOf[q.graph] /\ Has(q.row.history, j)
          /\ StepsOf[q.graph][j].type = "approval" =>
                j \in q.done /\ Cleared(L, q.did, Len(q.did), q.graph, j)

LEMMA Reaches ==
    ASSUME NEW q, NEW L, NEW R, NEW vs, Serves(q, L, R, vs), q.pc = "advancing",
           Ahead(q.graph, q.done, q.at) # {}
    PROVE  ReachedAt(q, L, First(Ahead(q.graph, q.done, q.at)))
<1> DEFINE i == First(Ahead(q.graph, q.done, q.at))
<1> DEFINE S == Ahead(q.graph, q.done, q.at)
           steps == StepsOf[q.graph]
<1>1. q.at \in Nat /\ steps \in Seq(Step) /\ Advances(q, L, vs)
  BY PlaybookAssumption DEF Serves, Job, Advances
<1>2. DOMAIN steps = 1 .. Len(steps) /\ Len(steps) \in Nat
  BY <1>1, LenProperties
<1>3. S \subseteq DOMAIN steps /\ S \subseteq Nat
  BY <1>2 DEF Ahead
<1>4. i \in S /\ \A j \in S : i <= j
  BY <1>3, FirstIsLeast
<1>5. i \in DOMAIN steps /\ i \in Nat /\ i # 0
  BY <1>2, <1>3, <1>4
<1>6. ASSUME NEW j \in 1 .. (i - 1)
      PROVE  j \in DOMAIN steps /\ (j \in q.done \/ j < q.at)
  <2>1. j \in DOMAIN steps /\ j < i /\ j \in Nat
    BY <1>2, <1>5
  <2>2. j \notin S
    BY <1>4, <1>5, <2>1
  <2> QED
    BY <1>1, <2>1, <2>2 DEF Ahead
<1> HIDE DEF i
<1>7. ReachedAt(q, L, i)
  BY <1>1, <1>5, <1>6 DEF Advances, ReachedAt
<1> QED
  BY <1>7 DEF i

\* A step that is done or may fail, and is not an approval, leads on.
LEMMA GoesOn ==
    ASSUME NEW q, NEW L \in Seq(Entry), NEW R, NEW vs, Serves(q, L, R, vs), q.pc = "advancing",
           NEW i, ReachedAt(q, L, i),
           StepsOf[q.graph][i].type # "approval", NEW status \in {"done", "failed"},
           status = "failed" => ~StepsOf[q.graph][i].halts,
           NEW did \in Seq(Entry), Grows(q.did, did), Gated(L, did),
           AllOn(vs, q.row.version, did)
    PROVE  Serves(Moved(q, "advancing", Record(q.row, i, status), did, i + 1), L, R, vs)
<1> DEFINE row == Record(q.row, i, status)
           p == Moved(q, "advancing", row, did, i + 1)
           g == q.graph
<1> HIDE DEF row, p, g
<1>1. /\ i \in DOMAIN StepsOf[g] /\ i \in Nat /\ i # 0
      /\ \A j \in 1 .. (i - 1) :
            /\ j \in DOMAIN StepsOf[g] /\ Has(q.row.history, j)
            /\ StepsOf[g][j].type = "approval" => j \in q.done
  BY DEF ReachedAt, g
<1>2. /\ q \in Job /\ q.row \in Row /\ q.row.history \in Seq(Mark) /\ q.did \in Seq(Entry)
      /\ q.done \subseteq Nat /\ Advances(q, L, vs)
  BY DEF Serves, Job, Row
<1>3. /\ row \in Row /\ row.history = Append(q.row.history, [step |-> i, status |-> status])
      /\ row.version = q.row.version /\ row.status = "running"
  <2>1. status \in {"done", "failed", "skipped", "waiting"}
    OBVIOUS
  <2>2. q.row \in Row
    BY <1>2
  <2>3. i \in Nat
    BY <1>1
  <2>4. /\ Record(q.row, i, status) \in Row
        /\ Record(q.row, i, status).history =
              Append(q.row.history, [step |-> i, status |-> status])
        /\ Record(q.row, i, status).version = q.row.version
        /\ Record(q.row, i, status).status = q.row.status
    BY <2>1, <2>2, <2>3, RecordRow
  <2> QED
    BY <1>2, <2>4 DEF Advances, row
<1>4. /\ p \in Job /\ p.pc = "advancing" /\ p.row = row /\ p.did = did /\ p.at = i + 1
      /\ p.graph = g /\ p.done = q.done
  <2>1. q \in Job /\ row \in Row
    BY <1>2, <1>3
  <2>2. i + 1 \in Nat
    BY <1>1
  <2>3. "advancing" \in {"advancing", "committing"}
    OBVIOUS
  <2> DEFINE at == i + 1
  <2> HIDE DEF at
  <2>4. at \in Nat
    BY <2>2 DEF at
  <2>5. LET m == Moved(q, "advancing", row, did, at)
        IN  /\ m \in Job /\ m.pc = "advancing" /\ m.row = row /\ m.did = did /\ m.at = at
            /\ m.graph = q.graph /\ m.done = q.done
    BY <2>1, <2>3, <2>4, MovedJob
  <2> QED
    BY <2>5 DEF p, g, at
<1>5. Grows(L, L)
  BY GrowsSelf
<1>6. Sound(q.row.history, g, L, did)
  BY <1>2, <1>5, SoundStays DEF Advances, g
<1>7. Sound(row.history, g, L, did)
  <2>1. /\ status \in {"done", "failed", "waiting"} /\ i \in DOMAIN StepsOf[g] /\ i \in Nat
        /\ status = "failed" => ~StepsOf[g][i].halts
        /\ status = "done" /\ StepsOf[g][i].type = "approval" => Cleared(L, did, Len(did), g, i)
    BY <1>1 DEF g
  <2>2. Sound(Append(q.row.history, [step |-> i, status |-> status]), g, L, did)
    BY <1>2, <1>6, <2>1, SoundAppend
  <2> QED
    BY <1>3, <2>2
<1>8. \A j : Has(q.row.history, j) => Has(row.history, j)
  <2> DEFINE mark == [step |-> i, status |-> status]
  <2>1. mark \in Mark
    BY <1>1 DEF Mark
  <2> HIDE DEF mark
  <2>2. Append(q.row.history, mark) \in Seq(Mark) /\ Grows(q.row.history, Append(q.row.history, mark))
    BY <1>2, <2>1, AppendGrows
  <2>3. row.history = Append(q.row.history, mark)
    BY <1>3 DEF mark
  <2>4. q.row.history \in Seq(Mark) /\ row.history \in Seq(Mark) /\ Grows(q.row.history, row.history)
    BY <1>2, <2>2, <2>3
  <2> QED
    BY <2>4, HasStays
<1>9. Has(row.history, i)
  BY <1>1, <1>2, <1>3, HasAppend
<1>10. ASSUME NEW j \in DOMAIN StepsOf[g]
       PROVE  /\ j \in q.done \/ j < i + 1 => Has(row.history, j)
              /\ StepsOf[g][j].type = "approval" =>
                    /\ j < i + 1 => j \in q.done
                    /\ j \in q.done => Cleared(L, did, Len(did), g, j)
  <2>1. g \in Graphs /\ StepsOf[g] \in Seq(Step)
    BY <1>2, PlaybookAssumption DEF Advances, g
  <2>2. j \in Nat /\ j >= 1
    BY <2>1, LenProperties
  <2>3. j < i + 1 => j = i \/ j \in 1 .. (i - 1)
    BY <1>1, <2>2
  <2>4. j \in q.done => Has(q.row.history, j)
    BY <1>2 DEF Advances, g
  <2>5. Cleared(L, q.did, Len(q.did), g, j) => Cleared(L, did, Len(did), g, j)
    <3>1. Len(q.did) \in 0 .. Len(q.did) /\ Len(did) \in Nat /\ Len(q.did) <= Len(did)
      BY <1>2, LenProperties DEF Grows
    <3>2. Approved(q.did, Len(q.did), g, j) => Approved(did, Len(did), g, j)
      BY <1>2, <3>1, ApprovedStays
    <3> QED
      BY <3>2 DEF Cleared
  <2>6. StepsOf[g][j].type = "approval" /\ j \in q.done => Cleared(L, q.did, Len(q.did), g, j)
    BY <1>2 DEF Advances, g
  <2>7. StepsOf[g][i].type # "approval"
    BY DEF g
  <2> QED
    BY <1>1, <1>8, <1>9, <2>3, <2>4, <2>5, <2>6, <2>7
<1>11. Advances(p, L, vs)
  <2>1. p.graph \in Graphs /\ PinnedIn(vs, p.row.version, p.graph) /\ p.at # 0
    BY <1>1, <1>2, <1>3, <1>4 DEF Advances, g
  <2> QED
    BY <1>3, <1>4, <1>7, <1>10, <2>1 DEF Advances
<1>12. Serves(p, L, R, vs)
  BY <1>3, <1>4, <1>11 DEF Serves
<1> QED
  BY <1>12 DEF p, row

\* A request that is about to commit.
LEMMA Stops ==
    ASSUME NEW q, NEW L, NEW R, NEW vs, Serves(q, L, R, vs),
           NEW row \in Row, row.version = q.row.version, NEW did \in Seq(Entry), Gated(L, did),
           AllOn(vs, q.row.version, did), NEW at \in Nat,
           row.status \in Finished \cup {"waiting_approval"},
           row.status = "waiting_approval" => Waits(row, L, did, vs),
           row.status = "completed" =>
              /\ q.graph \in Graphs /\ PinnedIn(vs, q.row.version, q.graph)
              /\ Covered(row.history, q.graph)
    PROVE  Serves(Moved(q, "committing", row, did, at), L, R, vs)
<1> DEFINE p == Moved(q, "committing", row, did, at)
<1>1. /\ p \in Job /\ p.pc = "committing" /\ p.row = row /\ p.did = did /\ p.graph = q.graph
  BY MovedJob DEF Serves
<1> HIDE DEF p
<1>2. Commits(p, L, vs)
  BY <1>1 DEF Commits
<1>3. Serves(p, L, R, vs)
  BY <1>1, <1>2 DEF Serves
<1> QED
  BY <1>3 DEF p

\* An approval step that is next.
LEMMA WaitServes ==
    ASSUME NEW q, NEW L \in Seq(Entry), NEW R, NEW vs, Serves(q, L, R, vs), q.pc = "advancing",
           NEW i, ReachedAt(q, L, i), StepsOf[q.graph][i].type = "approval"
    PROVE  Serves(Moved(q, "committing",
                        [Record(q.row, i, "waiting") EXCEPT !.status = "waiting_approval"],
                        q.did, q.at), L, R, vs)
<1>1. /\ q \in Job /\ q.row \in Row /\ q.row.history \in Seq(Mark) /\ q.did \in Seq(Entry)
      /\ q.at \in Nat /\ Advances(q, L, vs) /\ Gated(L, q.did) /\ AllOn(vs, q.row.version, q.did)
  BY DEF Serves, Job, Row
<1>2. i \in DOMAIN StepsOf[q.graph] /\ i \in Nat
  BY DEF ReachedAt
<1> DEFINE rec == Record(q.row, i, "waiting")
           row == [rec EXCEPT !.status = "waiting_approval"]
<1>3. "waiting" \in {"done", "failed", "skipped", "waiting"}
  OBVIOUS
<1>4. /\ rec \in Row /\ rec.history = Append(q.row.history, [step |-> i, status |-> "waiting"])
      /\ rec.version = q.row.version /\ rec.at = i
  BY <1>1, <1>2, <1>3, RecordRow
<1> HIDE DEF rec
<1>5. /\ row \in Row /\ row.history = rec.history /\ row.version = q.row.version
      /\ row.at = i /\ row.status = "waiting_approval"
  BY <1>4 DEF Row
<1> HIDE DEF row
<1>6. Sound(row.history, q.graph, L, q.did)
  <2>1. "waiting" \in {"done", "failed", "waiting"} /\ "waiting" # "failed" /\ "waiting" # "done"
    OBVIOUS
  <2>2. Sound(Append(q.row.history, [step |-> i, status |-> "waiting"]), q.graph, L, q.did)
    BY <1>1, <1>2, <2>1, SoundAppend DEF Advances
  <2> QED
    BY <1>4, <1>5, <2>2
<1>7. Waits(row, L, q.did, vs)
  BY <1>1, <1>2, <1>5, <1>6 DEF Waits, Advances
<1>8. Serves(Moved(q, "committing", row, q.did, q.at), L, R, vs)
  BY <1>1, <1>5, <1>7, Stops
<1> QED
  BY <1>8 DEF row, rec

\* A condition that holds.
LEMMA HoldsServes ==
    ASSUME NEW q, NEW L \in Seq(Entry), NEW R, NEW vs, Serves(q, L, R, vs), q.pc = "advancing",
           NEW i, ReachedAt(q, L, i), StepsOf[q.graph][i].type = "condition"
    PROVE  Serves(Moved(q, "advancing", Record(q.row, i, "done"), q.did, i + 1), L, R, vs)
<1>1. q.did \in Seq(Entry) /\ Gated(L, q.did) /\ AllOn(vs, q.row.version, q.did)
  BY DEF Serves, Job
<1>2. Grows(q.did, q.did)
  BY <1>1, GrowsSelf
<1>3. "done" \in {"done", "failed"} /\ "done" # "failed"
  OBVIOUS
<1>4. StepsOf[q.graph][i].type # "approval"
  OBVIOUS
<1> QED
  BY <1>1, <1>2, <1>3, <1>4, GoesOn

LEMMA MarksSeq ==
    ASSUME NEW m \in Nat, NEW s \in [1 .. m -> Mark]
    PROVE  s \in Seq(Mark) /\ DOMAIN s = 1 .. m
OBVIOUS

\* One that does not: the steps behind it are skipped.
LEMMA SkipServes ==
    ASSUME NEW q, NEW L \in Seq(Entry), NEW R, NEW vs, Serves(q, L, R, vs), q.pc = "advancing",
           NEW i, ReachedAt(q, L, i), StepsOf[q.graph][i].type = "condition",
           NEW skipped, skipped = [n \in 1 .. (Len(StepsOf[q.graph]) - i) |->
                                      [step |-> i + n, status |-> "skipped"]]
    PROVE  Serves(Moved(q, "committing",
                        Finish([Record(q.row, i, "done") EXCEPT !.history = @ \o skipped],
                               "completed", "condition_not_met"),
                        q.did, q.at), L, R, vs)
<1>1. /\ q \in Job /\ q.row \in Row /\ q.row.history \in Seq(Mark) /\ q.did \in Seq(Entry)
      /\ q.at \in Nat /\ Advances(q, L, vs) /\ Gated(L, q.did) /\ AllOn(vs, q.row.version, q.did)
  BY DEF Serves, Job, Row
<1> DEFINE g == q.graph
           last == Len(StepsOf[g])
           h == q.row.history
           rec == Record(q.row, i, "done")
<1>2. g \in Graphs /\ DOMAIN StepsOf[g] = 1 .. last /\ last \in Nat
  BY <1>1, PlaybookAssumption, LenProperties DEF Advances
<1>3. i \in 1 .. last /\ i \in Nat /\ \A j \in 1 .. (i - 1) : Has(h, j)
  BY <1>2 DEF ReachedAt
<1>4. "done" \in {"done", "failed", "skipped", "waiting"} /\ "done" \in {"done", "failed", "skipped"}
  OBVIOUS
<1>5. /\ rec \in Row /\ rec.history = Append(h, [step |-> i, status |-> "done"])
      /\ rec.version = q.row.version
  BY <1>1, <1>3, <1>4, RecordRow
<1> HIDE DEF rec
<1> DEFINE k == rec.history
           full == k \o skipped
<1>6. /\ k \in Seq(Mark) /\ Grows(h, k) /\ Has(k, i) /\ Len(k) = Len(h) + 1 /\ Len(h) \in Nat
      /\ k[Len(h) + 1] = [step |-> i, status |-> "done"]
  <2> DEFINE mark == [step |-> i, status |-> "done"]
  <2>1. mark \in Mark
    BY <1>3 DEF Mark
  <2>2. Has(Append(h, mark), i)
    BY <1>1, <1>3, <1>4, HasAppend
  <2> HIDE DEF mark
  <2>3. /\ Append(h, mark) \in Seq(Mark) /\ Grows(h, Append(h, mark))
        /\ Len(Append(h, mark)) = Len(h) + 1 /\ Append(h, mark)[Len(h) + 1] = mark
    BY <1>1, <2>1, AppendGrows
  <2>4. Len(h) \in Nat
    BY <1>1, LenProperties
  <2> QED
    BY <1>5, <2>2, <2>3, <2>4 DEF mark
<1>7. /\ skipped \in Seq(Mark) /\ Len(skipped) = last - i /\ last - i \in Nat
      /\ \A n \in 1 .. (last - i) : skipped[n].step = i + n /\ skipped[n].status = "skipped"
  <2>1. last - i \in Nat
    BY <1>2, <1>3
  <2>2. \A n \in 1 .. (last - i) : [step |-> i + n, status |-> "skipped"] \in Mark
    BY <1>3, <2>1 DEF Mark
  <2>3. skipped \in Seq(Mark) /\ DOMAIN skipped = 1 .. (last - i)
    <3>1. skipped \in [1 .. (last - i) -> Mark]
      BY <2>2
    <3> DEFINE m == last - i
    <3> HIDE DEF m
    <3>2. m \in Nat /\ skipped \in [1 .. m -> Mark]
      BY <2>1, <3>1 DEF m
    <3>3. skipped \in Seq(Mark) /\ DOMAIN skipped = 1 .. m
      BY <3>2, MarksSeq
    <3> QED
      BY <3>3 DEF m
  <2> QED
    BY <2>1, <2>3, LenProperties
<1> HIDE DEF h, k
<1>8. /\ full \in Seq(Mark) /\ Grows(k, full) /\ Len(full) = Len(k) + Len(skipped)
      /\ \A n \in 1 .. Len(skipped) : full[Len(k) + n] = skipped[n]
  BY <1>6, <1>7, ConcatGrows
<1> HIDE DEF full
<1> DEFINE all == [rec EXCEPT !.history = full]
           row == Finish(all, "completed", "condition_not_met")
<1>9. all \in Row /\ all.history = full /\ all.version = q.row.version
  BY <1>5, <1>8 DEF Row
<1> HIDE DEF all
<1>10. /\ row \in Row /\ row.history = full /\ row.version = q.row.version
       /\ row.status = "completed"
  <2>1. "completed" \in Finished
    BY DEF Finished
  <2>2. "condition_not_met" \in {"completed", "condition_not_met", "step_failed"}
    OBVIOUS
  <2> QED
    BY <1>9, <2>1, <2>2, FinishRow
<1> HIDE DEF row
<1>11. Covered(full, g)
  <2>1. ASSUME NEW j \in 1 .. last
        PROVE  Has(full, j)
    <3>1. CASE j \in 1 .. (i - 1)
      <4>1. Has(h, j) /\ h \in Seq(Mark)
        BY <1>1, <1>3, <3>1 DEF h
      <4>2. Has(k, j)
        BY <1>6, <4>1, HasStays
      <4> QED
        BY <1>6, <1>8, <4>2, HasStays
    <3>2. CASE j = i
      <4>1. k \in Seq(Mark) /\ Has(k, i) /\ full \in Seq(Mark) /\ Grows(k, full)
        BY <1>6, <1>8
      <4>2. Has(full, i)
        BY <4>1, HasStays
      <4> QED
        BY <3>2, <4>2
    <3>3. CASE j \notin 1 .. i
      <4>1. j - i \in 1 .. (last - i) /\ i + (j - i) = j
        BY <1>2, <1>3, <3>3
      <4>2. Len(k) + (j - i) \in 1 .. Len(full)
        <5>1. Len(full) = Len(k) + (last - i) /\ Len(k) \in Nat /\ last - i \in Nat
          BY <1>6, <1>7, <1>8
        <5> QED
          BY <4>1, <5>1
      <4>3. full[Len(k) + (j - i)] = skipped[j - i]
        BY <1>7, <1>8, <4>1
      <4> QED
        BY <1>7, <4>1, <4>2, <4>3 DEF Has
    <3> QED
      BY <1>2, <1>3, <3>1, <3>2, <3>3
  <2>2. Sound(h, g, L, q.did)
    BY <1>1 DEF Advances, h
  <2>3. ASSUME NEW n \in 1 .. Len(full), full[n].status = "failed"
        PROVE  ~StepsOf[g][full[n].step].halts
    <3>1. CASE n \in 1 .. Len(h)
      <4>1. full[n] = h[n]
        BY <1>6, <1>8, <3>1 DEF Grows
      <4> QED
        BY <2>2, <2>3, <3>1, <4>1 DEF Sound
    <3>2. CASE n = Len(h) + 1
      <4>1. full[n] = [step |-> i, status |-> "done"]
        <5>1. n \in 1 .. Len(k)
          BY <1>6, <3>2
        <5>2. full[n] = k[n]
          BY <1>8, <5>1 DEF Grows
        <5> QED
          BY <1>6, <3>2, <5>2
      <4> QED
        BY <2>3, <4>1
    <3>3. CASE n \notin 1 .. (Len(h) + 1)
      <4>1. PICK d \in 1 .. Len(skipped) : n = Len(k) + d
        <5>1. n - Len(k) \in 1 .. Len(skipped) /\ n = Len(k) + (n - Len(k))
          BY <1>6, <1>7, <1>8, <3>3
        <5> QED
          BY <5>1
      <4>2. full[n] = skipped[d]
        BY <1>8, <4>1
      <4>3. full[n].status = "skipped"
        BY <1>7, <4>1, <4>2
      <4> QED
        BY <2>3, <4>3
    <3> QED
      BY <1>6, <3>1, <3>2, <3>3
  <2> QED
    BY <1>2, <2>1, <2>3 DEF Covered
<1>12. Serves(Moved(q, "committing", row, q.did, q.at), L, R, vs)
  <2>1. row.status \in Finished \cup {"waiting_approval"} /\ row.status # "waiting_approval"
    BY <1>10 DEF Finished
  <2>2. q.graph \in Graphs /\ PinnedIn(vs, q.row.version, q.graph) /\ Covered(row.history, q.graph)
    BY <1>1, <1>10, <1>11 DEF Advances, g
  <2> QED
    BY <1>1, <1>10, <2>1, <2>2, Stops
<1>13. Record(q.row, i, "done") = rec /\ [rec EXCEPT !.history = @ \o skipped] = all
  BY <1>5 DEF rec, all, full, k
<1> QED
  BY <1>12, <1>13 DEF row

\* A task enters the log behind the approvals ahead of it.
LEMMA TaskInHand ==
    ASSUME NEW q, NEW L \in Seq(Entry), NEW R, NEW vs, Serves(q, L, R, vs), q.pc = "advancing",
           NEW i, ReachedAt(q, L, i), NEW what \in {"ok", "failed"}, NEW did,
           did = Append(q.did, [step |-> i, what |-> what, graph |-> q.graph, by |-> None])
    PROVE  did \in Seq(Entry) /\ Grows(q.did, did) /\ Gated(L, did)
           /\ AllOn(vs, q.row.version, did)
<1> DEFINE e == [step |-> i, what |-> what, graph |-> q.graph, by |-> None]
<1>1. /\ q.did \in Seq(Entry) /\ Advances(q, L, vs) /\ Gated(L, q.did)
      /\ AllOn(vs, q.row.version, q.did)
  BY DEF Serves, Job
<1>2. e \in Entry /\ e.step = i /\ e.graph = q.graph
  BY <1>1 DEF Entry, ReachedAt, Advances
<1>3. did = Append(q.did, e)
  OBVIOUS
<1> HIDE DEF e
<1>4. /\ did \in Seq(Entry) /\ Grows(q.did, did) /\ Len(did) = Len(q.did) + 1
      /\ did[Len(q.did) + 1] = e
  BY <1>1, <1>2, <1>3, AppendGrows
<1>5. Gated(L, did)
  <2>1. \A j \in 1 .. (e.step - 1) : StepsOf[e.graph][j].type = "approval" =>
            Cleared(L, q.did, Len(q.did), e.graph, j)
    BY <1>2 DEF ReachedAt
  <2> QED
    BY <1>1, <1>2, <1>3, <2>1, GatedAppend
<1>6. AllOn(vs, q.row.version, did)
  <2>1. \A n \in 1 .. Len(did) : n = Len(q.did) + 1 \/ (n \in 1 .. Len(q.did) /\ did[n] = q.did[n])
    BY <1>1, <1>4, LenProperties DEF Grows
  <2> QED
    BY <1>1, <1>2, <1>4, <2>1 DEF AllOn, Advances
<1> QED
  BY <1>4, <1>5, <1>6

LEMMA TaskGoesOn ==
    ASSUME NEW q, NEW L \in Seq(Entry), NEW R, NEW vs, Serves(q, L, R, vs), q.pc = "advancing",
           NEW i, ReachedAt(q, L, i), StepsOf[q.graph][i].type = "task",
           NEW status \in {"done", "failed"},
           status = "failed" => ~StepsOf[q.graph][i].halts,
           NEW what \in {"ok", "failed"}
    PROVE  Serves(Moved(q, "advancing", Record(q.row, i, status),
                        Append(q.did, [step |-> i, what |-> what, graph |-> q.graph, by |-> None]),
                        i + 1), L, R, vs)
<1>1. PICK did : did = Append(q.did, [step |-> i, what |-> what, graph |-> q.graph, by |-> None])
  OBVIOUS
<1>2. did \in Seq(Entry) /\ Grows(q.did, did) /\ Gated(L, did) /\ AllOn(vs, q.row.version, did)
  BY <1>1, TaskInHand
<1>3. StepsOf[q.graph][i].type # "approval"
  OBVIOUS
<1>4. Serves(Moved(q, "advancing", Record(q.row, i, status), did, i + 1), L, R, vs)
  BY <1>2, <1>3, GoesOn
<1> QED
  BY <1>1, <1>4

LEMMA TaskHalts ==
    ASSUME NEW q, NEW L \in Seq(Entry), NEW R, NEW vs, Serves(q, L, R, vs), q.pc = "advancing",
           NEW i, ReachedAt(q, L, i), NEW status \in {"done", "failed"}, NEW what \in {"ok", "failed"}
    PROVE  Serves(Moved(q, "committing",
                        Finish(Record(q.row, i, status), "failed", "step_failed"),
                        Append(q.did, [step |-> i, what |-> what, graph |-> q.graph, by |-> None]),
                        i + 1), L, R, vs)
<1>1. PICK did : did = Append(q.did, [step |-> i, what |-> what, graph |-> q.graph, by |-> None])
  OBVIOUS
<1>2. did \in Seq(Entry) /\ Gated(L, did) /\ AllOn(vs, q.row.version, did)
  BY <1>1, TaskInHand
<1> DEFINE rec == Record(q.row, i, status)
           row == Finish(rec, "failed", "step_failed")
<1>3. rec \in Row /\ rec.version = q.row.version
  <2>1. q.row \in Row
    BY DEF Serves, Job
  <2>2. i \in Nat
    BY DEF ReachedAt
  <2>3. status \in {"done", "failed", "skipped", "waiting"}
    OBVIOUS
  <2> QED
    BY <2>1, <2>2, <2>3, RecordRow
<1> HIDE DEF rec
<1>4. row \in Row /\ row.version = q.row.version /\ row.status = "failed"
  <2>1. "failed" \in Finished
    BY DEF Finished
  <2>2. "step_failed" \in {"completed", "condition_not_met", "step_failed"}
    OBVIOUS
  <2> QED
    BY <1>3, <2>1, <2>2, FinishRow
<1> HIDE DEF row
<1>5. Serves(Moved(q, "committing", row, did, i + 1), L, R, vs)
  <2>1. /\ row.status \in Finished \cup {"waiting_approval"}
        /\ row.status # "waiting_approval" /\ row.status # "completed"
    BY <1>4 DEF Finished
  <2>2. i + 1 \in Nat
    BY DEF ReachedAt
  <2> QED
    BY <1>2, <1>4, <2>1, <2>2, Stops
<1> QED
  BY <1>1, <1>5 DEF row, rec

\* No step is ahead.
LEMMA CompleteServes ==
    ASSUME NEW q, NEW L \in Seq(Entry), NEW R, NEW vs, Serves(q, L, R, vs), q.pc = "advancing",
           Ahead(q.graph, q.done, q.at) = {}
    PROVE  Serves(Moved(q, "committing", Finish(q.row, "completed", "completed"), q.did, q.at),
                  L, R, vs)
<1> DEFINE row == Finish(q.row, "completed", "completed")
<1>1. /\ q \in Job /\ q.row \in Row /\ q.did \in Seq(Entry) /\ q.at \in Nat /\ q.done \subseteq Nat
      /\ Advances(q, L, vs) /\ Gated(L, q.did) /\ AllOn(vs, q.row.version, q.did)
  BY DEF Serves, Job
<1>2. /\ row \in Row /\ row.history = q.row.history /\ row.version = q.row.version
      /\ row.status = "completed"
  <2>1. "completed" \in Finished
    BY DEF Finished
  <2>2. "completed" \in {"completed", "condition_not_met", "step_failed"}
    OBVIOUS
  <2> QED
    BY <1>1, <2>1, <2>2, FinishRow
<1> HIDE DEF row
<1>3. Covered(q.row.history, q.graph)
  <2>1. q.graph \in Graphs /\ StepsOf[q.graph] \in Seq(Step)
    BY <1>1, PlaybookAssumption DEF Advances
  <2>2. ASSUME NEW j \in DOMAIN StepsOf[q.graph]
        PROVE  Has(q.row.history, j)
    <3>1. j \in Nat
      BY <2>1, LenProperties
    <3>2. j \in q.done \/ j < q.at
      BY <1>1, <3>1 DEF Ahead
    <3> QED
      BY <1>1, <3>2 DEF Advances
  <2> QED
    BY <1>1, <2>2 DEF Covered, Advances, Sound
<1>4. Serves(Moved(q, "committing", row, q.did, q.at), L, R, vs)
  <2>1. row.status \in Finished \cup {"waiting_approval"} /\ row.status # "waiting_approval"
    BY <1>2 DEF Finished
  <2>2. q.graph \in Graphs /\ PinnedIn(vs, q.row.version, q.graph) /\ Covered(row.history, q.graph)
    BY <1>1, <1>2, <1>3 DEF Advances
  <2> QED
    BY <1>1, <1>2, <2>1, <2>2, Stops
<1> QED
  BY <1>4 DEF row

-----------------------------------------------------------------------------
(* The invariant.                                                          *)

Busy(q) == q.pc \in {"locking", "advancing", "committing"}
Holding(q) == q.pc \in {"advancing", "committing"}

ReqOK(q, lg, rn, vs) ==
    \/ q = Idle
    \/ q \in Saving
    \/ Serves(q, lg[q.on], rn[q.on], vs)

\* A run that is not committed yet is one request's own.
Alone ==
    \A r, p \in Requests :
        r # p /\ Busy(req[r]) /\ Busy(req[p]) /\ req[r].on = req[p].on =>
            run[req[r].on] # NoRun

LockInv ==
    /\ auditLock \in Requests \cup {None}
    /\ \A r \in Requests : Holding(req[r]) <=> auditLock = r

TypeInv ==
    /\ playbook \in [version : Nat, enabled : BOOLEAN]
    /\ versions \in Seq(Version) /\ started \in 0 .. MaxStarts
    /\ DOMAIN run = Runs /\ DOMAIN log = Runs /\ DOMAIN req = Requests

Inv ==
    /\ TypeInv /\ Alone /\ LockInv
    /\ \A x \in Runs : RunOK(run[x], log[x], versions)
    /\ \A r \in Requests : ReqOK(req[r], log, run, versions)

LEMMA ReqKinds ==
    ASSUME NEW q, NEW lg, NEW rn, NEW vs, ReqOK(q, lg, rn, vs)
    PROVE  /\ q.pc = "idle" => q = Idle
           /\ q.pc = "saving" => q \in Saving
           /\ Busy(q) => Serves(q, lg[q.on], rn[q.on], vs) /\ q \in Job
           /\ q.pc = "idle" \/ q.pc = "saving" \/ Busy(q)
           /\ q = Idle <=> q.pc = "idle"
BY DEF ReqOK, Idle, Saving, Serves, Job, Busy

LEMMA InvInit == Init => Inv
<1> SUFFICES ASSUME Init PROVE Inv
  OBVIOUS
<1>1. PICK g \in Graphs : versions = <<[number |-> 1, graph |-> g]>>
  BY DEF Init
<1>2. versions \in Seq(Version)
  <2>1. [number |-> 1, graph |-> g] \in Version
    BY DEF Version
  <2> QED
    BY <1>1, <2>1
<1>3. TypeInv
  <2>1. 0 \in 0 .. MaxStarts
    BY PlaybookAssumption
  <2> QED
    BY <1>2, <2>1 DEF Init, TypeInv
<1>4. Alone /\ LockInv
  <2>1. \A r \in Requests : ~Busy(req[r]) /\ ~Holding(req[r])
    BY DEF Init, Idle, Busy, Holding
  <2>2. None \notin Requests
    BY PlaybookAssumption
  <2> QED
    BY <2>1, <2>2 DEF Init, Alone, LockInv
<1>5. \A x \in Runs : RunOK(run[x], log[x], versions)
  <2>1. Gated(<<>>, <<>>) /\ <<>> \in Seq(Entry)
    BY EmptyGated
  <2> QED
    BY <2>1 DEF Init, RunOK
<1>6. \A r \in Requests : ReqOK(req[r], log, run, versions)
  BY DEF Init, ReqOK
<1> QED
  BY <1>3, <1>4, <1>5, <1>6 DEF Inv

\* A step that commits nothing to a run.
LEMMA RequestStep ==
    ASSUME Inv, NEW r \in Requests, NEW q, req' = [req EXCEPT ![r] = q],
           UNCHANGED <<run, log>>, TypeInv', Grows(versions, versions'),
           ReqOK(q, log, run, versions'),
           \A p \in Requests \ {r} : Busy(q) /\ Busy(req[p]) /\ req[p].on = q.on =>
                                        run[q.on] # NoRun,
           auditLock' \in Requests \cup {None}, Holding(q) <=> auditLock' = r,
           \A p \in Requests \ {r} : auditLock' = p <=> auditLock = p
    PROVE  Inv'
<1>1. req'[r] = q /\ \A p \in Requests \ {r} : req'[p] = req[p]
  BY DEF Inv, TypeInv
<1>2. versions \in Seq(Version) /\ versions' \in Seq(Version)
  BY DEF Inv, TypeInv
<1>3. \A x \in Runs : RunOK(run[x], log[x], versions')
  BY <1>2, RunStays DEF Inv
<1>4. ASSUME NEW p \in Requests \ {r}
      PROVE  ReqOK(req[p], log, run, versions')
  <2>1. ReqOK(req[p], log, run, versions)
    BY DEF Inv
  <2>2. CASE req[p] = Idle \/ req[p] \in Saving
    BY <2>2 DEF ReqOK
  <2>3. CASE Serves(req[p], log[req[p].on], run[req[p].on], versions)
    <3>1. req[p].on \in Runs
      BY <2>3 DEF Serves, Job
    <3>2. log[req[p].on] \in Seq(Entry) /\ Grows(log[req[p].on], log[req[p].on])
      BY <3>1, GrowsSelf DEF Inv, RunOK
    <3>3. run[req[p].on] # NoRun => run[req[p].on].version = req[p].row.version
      BY <2>3 DEF Serves
    <3>4. Serves(req[p], log[req[p].on], run[req[p].on], versions')
      BY <1>2, <2>3, <3>2, <3>3, ServesStays
    <3> QED
      BY <3>4 DEF ReqOK
  <2> QED
    BY <2>1, <2>2, <2>3 DEF ReqOK
<1>5. \A p \in Requests : ReqOK(req'[p], log', run', versions')
  BY <1>1, <1>4
<1>6. Alone'
  BY <1>1 DEF Inv, Alone
<1>7. LockInv'
  BY <1>1 DEF Inv, LockInv
<1> QED
  BY <1>3, <1>5, <1>6, <1>7 DEF Inv

LEMMA LoadStartStep ==
    ASSUME Inv, NEW r \in Requests, NEW x \in Runs, NEW key \in Keys \cup {None},
           LoadStart(r, x, key)
    PROVE  Inv'
<1>1. PICK row : row = NewRun(key)
  OBVIOUS
<1>2. row \in Row /\ row.status = "pending" /\ row.history = <<>>
  BY <1>1, EmptySeq DEF NewRun, Row, Inv, TypeInv
<1>3. PICK q : q = Serve(x, row, <<>>)
  OBVIOUS
<1>4. req' = [req EXCEPT ![r] = q] /\ UNCHANGED <<playbook, versions, run, log, auditLock>>
  BY <1>1, <1>3 DEF LoadStart, Start
<1>5. run[x] = NoRun /\ log[x] = <<>>
  BY NoRunIsNoRow DEF LoadStart, Inv, RunOK
<1>6. q.pc = "locking" /\ q.on = x
  BY <1>3 DEF Serve
<1>7. ReqOK(q, log, run, versions)
  BY <1>2, <1>3, <1>5, <1>6, StartServes DEF ReqOK
<1>8. TypeInv' /\ Grows(versions, versions')
  <2>1. started' \in 0 .. MaxStarts
    BY PlaybookAssumption DEF LoadStart, Start, Inv, TypeInv
  <2>2. Grows(versions, versions)
    BY GrowsSelf DEF Inv, TypeInv
  <2> QED
    BY <1>4, <2>1, <2>2 DEF Inv, TypeInv
<1>9. \A p \in Requests : Busy(req[p]) => req[p].on # x
  BY DEF LoadStart, Busy, Idle
<1>10. ~Holding(q) /\ auditLock # r
  <2>1. ~Holding(req[r])
    BY DEF LoadStart, Start, Holding, Idle
  <2> QED
    BY <1>6, <2>1 DEF Holding, Inv, LockInv
<1>11. auditLock' \in Requests \cup {None}
  BY <1>4 DEF Inv, LockInv
<1> QED
  BY <1>4, <1>6, <1>7, <1>8, <1>9, <1>10, <1>11, RequestStep

LEMMA LoadResumeStep ==
    ASSUME Inv, NEW r \in Requests, NEW x \in Runs, NEW role \in Roles,
           NEW decision \in {"approve", "reject"}, LoadResume(r, x, role, decision)
    PROVE  Inv'
<1>1. /\ RunOK(run[x], log[x], versions) /\ run[x].status = "waiting_approval"
      /\ versions \in Seq(Version) /\ Readable(run[x].version)
  BY DEF LoadResume, Inv, TypeInv
<1>2. PICK g : g = GraphOf(run[x].version)
  OBVIOUS
<1>3. g \in Graphs /\ PinnedIn(versions, run[x].version, g)
  BY <1>1, <1>2, ReadableIsPinned
<1>4. role \in Authority(StepsOf[g][run[x].at].role)
  BY <1>2 DEF LoadResume
<1>5. PICK q : q = Serve(x, Decided(run[x], decision),
                         <<[step |-> run[x].at, what |-> decision, graph |-> g, by |-> role]>>)
  OBVIOUS
<1>6. req' = [req EXCEPT ![r] = q] /\ UNCHANGED <<playbook, versions, run, log, auditLock>>
  BY <1>2, <1>5 DEF LoadResume, Start
<1>7. q.pc = "locking" /\ q.on = x
  BY <1>5 DEF Serve
<1>8. ReqOK(q, log, run, versions)
  <2>1. Serves(q, log[x], run[x], versions)
    BY <1>1, <1>3, <1>4, <1>5, ResumeServes
  <2> QED
    BY <1>7, <2>1 DEF ReqOK
<1>9. TypeInv' /\ Grows(versions, versions')
  <2>1. started' \in 0 .. MaxStarts
    BY PlaybookAssumption DEF LoadResume, Start, Inv, TypeInv
  <2>2. Grows(versions, versions)
    BY <1>1, GrowsSelf
  <2> QED
    BY <1>6, <2>1, <2>2 DEF Inv, TypeInv
<1>10. run[x] # NoRun
  BY <1>1, NoRunIsNoRow
<1>11. ~Holding(q) /\ auditLock # r
  <2>1. ~Holding(req[r])
    BY DEF LoadResume, Start, Holding, Idle
  <2> QED
    BY <1>7, <2>1 DEF Holding, Inv, LockInv
<1>12. auditLock' \in Requests \cup {None}
  BY <1>6 DEF Inv, LockInv
<1> QED
  BY <1>6, <1>7, <1>8, <1>9, <1>10, <1>11, <1>12, RequestStep

\* A request that goes on serving its run, with the lock.
LEMMA WithinStep ==
    ASSUME Inv, NEW r \in Requests, Busy(req[r]), NEW q, req' = [req EXCEPT ![r] = q],
           UNCHANGED <<playbook, versions, run, log, started>>, Holding(q), q.on = req[r].on,
           Serves(q, log[q.on], run[q.on], versions),
           auditLock' = r, auditLock \in {None, r}
    PROVE  Inv'
<1>1. ReqOK(q, log, run, versions')
  BY DEF ReqOK
<1>2. TypeInv' /\ Grows(versions, versions')
  BY GrowsSelf DEF Inv, TypeInv
<1>3. \A p \in Requests \ {r} : Busy(q) /\ Busy(req[p]) /\ req[p].on = q.on => run[q.on] # NoRun
  BY DEF Inv, Alone
<1>4. \A p \in Requests \ {r} : auditLock' = p <=> auditLock = p
  BY PlaybookAssumption
<1> QED
  BY <1>1, <1>2, <1>3, <1>4, RequestStep

LEMMA TakeLockStep ==
    ASSUME Inv, NEW r \in Requests, TakeLock(r)
    PROVE  Inv'
<1>1. /\ req[r].pc = "locking" /\ auditLock = None /\ auditLock' = r
      /\ UNCHANGED <<playbook, versions, run, log, started>>
  BY DEF TakeLock
<1>2. /\ Busy(req[r]) /\ req[r] \in Job
      /\ Serves(req[r], log[req[r].on], run[req[r].on], versions)
  BY <1>1, ReqKinds DEF Busy, Inv
<1>3. req[r].on \in Runs /\ log[req[r].on] \in Seq(Entry) /\ versions \in Seq(Version)
  BY <1>2 DEF Job, Inv, RunOK, TypeInv
<1>4. CASE req[r].row.status = "cancelled"
  <2>1. PICK q : q = [req[r] EXCEPT !.pc = "committing",
                         !.row = [req[r].row EXCEPT !.at = 0, !.outcome = "approval_rejected"]]
    OBVIOUS
  <2>2. req' = [req EXCEPT ![r] = q]
    <3>1. req' = [req EXCEPT ![r].pc = "committing", ![r].row.at = 0,
                             ![r].row.outcome = "approval_rejected"]
      BY <1>4 DEF TakeLock
    <3>2. r \in DOMAIN req
      BY DEF Inv, TypeInv
    <3> QED
      BY <1>2, <2>1, <3>1, <3>2 DEF Job, Row
  <2>3. Serves(q, log[req[r].on], run[req[r].on], versions) /\ q.pc = "committing"
    BY <1>1, <1>2, <1>4, <2>1, RejectServes
  <2>4. Holding(q) /\ q.on = req[r].on
    BY <1>2, <2>1 DEF Job, Holding
  <2> QED
    BY <1>1, <1>2, <2>2, <2>3, <2>4, WithinStep
<1>5. CASE req[r].row.status # "cancelled"
  <2>1. Readable(req[r].row.version)
    BY <1>5 DEF TakeLock
  <2>2. PICK g : g = GraphOf(req[r].row.version)
    OBVIOUS
  <2>3. g \in Graphs /\ PinnedIn(versions, req[r].row.version, g)
    BY <1>3, <2>1, <2>2, ReadableIsPinned
  <2>4. PICK q : q = Advanced(req[r], g)
    OBVIOUS
  <2>5. req' = [req EXCEPT ![r] = q]
    BY <1>2, <1>5, <2>2, <2>4 DEF TakeLock, Inv, TypeInv, Job, Row, Advanced
  <2>6. /\ Serves(q, log[req[r].on], run[req[r].on], versions) /\ q.pc = "advancing"
        /\ q.on = req[r].on
    BY <1>1, <1>2, <1>3, <1>5, <2>3, <2>4, AdvanceServes
  <2> QED
    BY <1>1, <1>2, <2>5, <2>6, WithinStep DEF Holding
<1> QED
  BY <1>4, <1>5

\* What holds while a request advances.
LEMMA AdvancingFacts ==
    ASSUME Inv, NEW r \in Requests, req[r].pc = "advancing"
    PROVE  /\ Busy(req[r]) /\ req[r] \in Job /\ auditLock = r
           /\ Serves(req[r], log[req[r].on], run[req[r].on], versions)
           /\ log[req[r].on] \in Seq(Entry) /\ versions \in Seq(Version)
<1>1. Busy(req[r]) /\ req[r] \in Job /\ Serves(req[r], log[req[r].on], run[req[r].on], versions)
  BY ReqKinds DEF Busy, Inv
<1>2. auditLock = r
  BY DEF Inv, LockInv, Holding
<1> QED
  BY <1>1, <1>2 DEF Job, Inv, RunOK, TypeInv

\* A step of _advance.
LEMMA MovedStep ==
    ASSUME Inv, NEW r \in Requests, req[r].pc = "advancing",
           NEW pc \in {"advancing", "committing"}, NEW row, NEW did, NEW at,
           req' = [req EXCEPT ![r] = Moved(req[r], pc, row, did, at)],
           UNCHANGED <<playbook, versions, run, log, auditLock, started>>,
           Serves(Moved(req[r], pc, row, did, at), log[req[r].on], run[req[r].on], versions)
    PROVE  Inv'
<1>1. PICK q : q = Moved(req[r], pc, row, did, at)
  OBVIOUS
<1>2. Busy(req[r]) /\ req[r] \in Job /\ auditLock = r
  BY AdvancingFacts
<1>3. q.on = req[r].on /\ q.pc = pc
  BY <1>1, <1>2 DEF Moved, Job
<1>4. Holding(q)
  BY <1>3 DEF Holding
<1>5. req' = [req EXCEPT ![r] = q] /\ Serves(q, log[q.on], run[q.on], versions)
  BY <1>1, <1>3
<1> QED
  BY <1>2, <1>3, <1>4, <1>5, WithinStep

LEMMA HereIsReached ==
    ASSUME Inv, NEW r \in Requests, NEW type, Reached(r, type)
    PROVE  /\ req[r].pc = "advancing"
           /\ ReachedAt(req[r], log[req[r].on], Here(r))
           /\ StepsOf[req[r].graph][Here(r)].type = type
<1>1. req[r].pc = "advancing" /\ Ahead(req[r].graph, req[r].done, req[r].at) # {}
  BY DEF Reached
<1>2. Serves(req[r], log[req[r].on], run[req[r].on], versions)
  BY <1>1, AdvancingFacts
<1>3. ReachedAt(req[r], log[req[r].on], First(Ahead(req[r].graph, req[r].done, req[r].at)))
  BY <1>1, <1>2, Reaches
<1> QED
  BY <1>1, <1>3 DEF Here, Reached

LEMMA WaitStep ==
    ASSUME Inv, NEW r \in Requests, Wait(r)
    PROVE  Inv'
<1>1. PICK i : i = Here(r)
  OBVIOUS
<1>2. /\ req[r].pc = "advancing" /\ ReachedAt(req[r], log[req[r].on], i)
      /\ StepsOf[req[r].graph][i].type = "approval"
  BY <1>1, HereIsReached DEF Wait
<1>3. /\ req[r] \in Job /\ log[req[r].on] \in Seq(Entry)
      /\ Serves(req[r], log[req[r].on], run[req[r].on], versions)
  BY <1>2, AdvancingFacts
<1>4. PICK row : row = [Record(req[r].row, i, "waiting") EXCEPT !.status = "waiting_approval"]
  OBVIOUS
<1>5. Serves(Moved(req[r], "committing", row, req[r].did, req[r].at),
             log[req[r].on], run[req[r].on], versions)
  BY <1>2, <1>3, <1>4, WaitServes
<1>6. req' = [req EXCEPT ![r] = Moved(req[r], "committing", row, req[r].did, req[r].at)]
  <2>1. req' = [req EXCEPT ![r].pc = "committing", ![r].row = row]
    BY <1>1, <1>4 DEF Wait
  <2>2. [req[r] EXCEPT !.pc = "committing", !.row = row]
           = Moved(req[r], "committing", row, req[r].did, req[r].at)
    BY <1>3 DEF Moved, Job
  <2>3. DOMAIN req = Requests
    BY DEF Inv, TypeInv
  <2> QED
    BY <2>1, <2>2, <2>3
<1>7. UNCHANGED <<playbook, versions, run, log, auditLock, started>>
  BY DEF Wait
<1> QED
  BY <1>2, <1>5, <1>6, <1>7, MovedStep

LEMMA ConditionStep ==
    ASSUME Inv, NEW r \in Requests, NEW holds \in BOOLEAN, Condition(r, holds)
    PROVE  Inv'
<1>1. PICK i : i = Here(r)
  OBVIOUS
<1>2. /\ req[r].pc = "advancing" /\ ReachedAt(req[r], log[req[r].on], i)
      /\ StepsOf[req[r].graph][i].type = "condition"
  BY <1>1, HereIsReached DEF Condition
<1>3. /\ req[r] \in Job /\ log[req[r].on] \in Seq(Entry)
      /\ Serves(req[r], log[req[r].on], run[req[r].on], versions)
  BY <1>2, AdvancingFacts
<1>4. PICK skipped : skipped = [n \in 1 .. (Len(StepsOf[req[r].graph]) - i) |->
                                   [step |-> i + n, status |-> "skipped"]]
  OBVIOUS
<1>5. UNCHANGED <<playbook, versions, run, log, auditLock, started>>
  BY DEF Condition
<1>6. CASE holds
  <2>1. PICK row : row = Record(req[r].row, i, "done")
    OBVIOUS
  <2>2. Serves(Moved(req[r], "advancing", row, req[r].did, i + 1),
               log[req[r].on], run[req[r].on], versions)
    BY <1>2, <1>3, <2>1, HoldsServes
  <2>3. req' = [req EXCEPT ![r] = Moved(req[r], "advancing", row, req[r].did, i + 1)]
    BY <1>1, <1>2, <1>3, <1>6, <2>1 DEF Condition, Moved, Inv, TypeInv, Job
  <2> QED
    BY <1>2, <1>5, <2>2, <2>3, MovedStep
<1>7. CASE ~holds
  <2>1. PICK row : row = Finish([Record(req[r].row, i, "done") EXCEPT !.history = @ \o skipped],
                                "completed", "condition_not_met")
    OBVIOUS
  <2>2. Serves(Moved(req[r], "committing", row, req[r].did, req[r].at),
               log[req[r].on], run[req[r].on], versions)
    BY <1>2, <1>3, <1>4, <2>1, SkipServes
  <2>3. req' = [req EXCEPT ![r] = Moved(req[r], "committing", row, req[r].did, req[r].at)]
    <3>1. req' = [req EXCEPT ![r].pc = "committing", ![r].row = row]
      BY <1>1, <1>4, <1>7, <2>1 DEF Condition
    <3>2. r \in DOMAIN req
      BY DEF Inv, TypeInv
    <3> QED
      BY <1>3, <3>1, <3>2 DEF Moved, Job
  <2> QED
    BY <1>2, <1>5, <2>2, <2>3, MovedStep
<1> QED
  BY <1>6, <1>7

LEMMA TaskStep ==
    ASSUME Inv, NEW r \in Requests, NEW ok \in BOOLEAN, Task(r, ok)
    PROVE  Inv'
<1>1. PICK i : i = Here(r)
  OBVIOUS
<1>2. /\ req[r].pc = "advancing" /\ ReachedAt(req[r], log[req[r].on], i)
      /\ StepsOf[req[r].graph][i].type = "task"
  BY <1>1, HereIsReached DEF Task
<1>3. /\ req[r] \in Job /\ log[req[r].on] \in Seq(Entry)
      /\ Serves(req[r], log[req[r].on], run[req[r].on], versions)
  BY <1>2, AdvancingFacts
<1>4. PICK status \in {"done", "failed"}, what \in {"ok", "failed"} :
        /\ status = (IF ok THEN "done" ELSE "failed") /\ what = (IF ok THEN "ok" ELSE "failed")
  OBVIOUS
<1>5. PICK did :
         did = Append(req[r].did, [step |-> i, what |-> what, graph |-> req[r].graph, by |-> None])
  OBVIOUS
<1>6. UNCHANGED <<playbook, versions, run, log, auditLock, started>>
  BY DEF Task
<1>7. r \in DOMAIN req
  BY DEF Inv, TypeInv
<1>8. CASE AfterTask(StepsOf[req[r].graph][i], ok) = "advancing"
  <2>1. status = "failed" => ~StepsOf[req[r].graph][i].halts
    BY <1>4, <1>8 DEF AfterTask
  <2>2. PICK row : row = Record(req[r].row, i, status)
    OBVIOUS
  <2>3. Serves(Moved(req[r], "advancing", row, did, i + 1),
               log[req[r].on], run[req[r].on], versions)
    BY <1>2, <1>3, <1>5, <2>1, <2>2, TaskGoesOn
  <2>4. req' = [req EXCEPT ![r] = Moved(req[r], "advancing", row, did, i + 1)]
    <3>1. req' = [req EXCEPT ![r].pc = "advancing", ![r].at = i + 1, ![r].row = row,
                    ![r].did = Append(@, [step |-> i, what |-> what, graph |-> req[r].graph,
                                          by |-> None])]
      BY <1>1, <1>4, <1>8, <2>2 DEF Task
    <3> QED
      BY <1>3, <1>5, <1>7, <3>1 DEF Moved, Job
  <2> QED
    BY <1>2, <1>6, <2>3, <2>4, MovedStep
<1>9. CASE AfterTask(StepsOf[req[r].graph][i], ok) = "committing"
  <2>1. PICK row : row = Finish(Record(req[r].row, i, status), "failed", "step_failed")
    OBVIOUS
  <2>2. Serves(Moved(req[r], "committing", row, did, i + 1),
               log[req[r].on], run[req[r].on], versions)
    BY <1>2, <1>3, <1>5, <2>1, TaskHalts
  <2>3. req' = [req EXCEPT ![r] = Moved(req[r], "committing", row, did, i + 1)]
    <3>1. req' = [req EXCEPT ![r].pc = "committing", ![r].at = i + 1, ![r].row = row,
                    ![r].did = Append(@, [step |-> i, what |-> what, graph |-> req[r].graph,
                                          by |-> None])]
      BY <1>1, <1>4, <1>9, <2>1 DEF Task
    <3> QED
      BY <1>3, <1>5, <1>7, <3>1 DEF Moved, Job
  <2> QED
    BY <1>2, <1>6, <2>2, <2>3, MovedStep
<1> QED
  BY <1>8, <1>9 DEF AfterTask

LEMMA CompleteStep ==
    ASSUME Inv, NEW r \in Requests, Complete(r)
    PROVE  Inv'
<1>1. req[r].pc = "advancing" /\ Ahead(req[r].graph, req[r].done, req[r].at) = {}
  BY DEF Complete
<1>2. /\ req[r] \in Job /\ log[req[r].on] \in Seq(Entry)
      /\ Serves(req[r], log[req[r].on], run[req[r].on], versions)
  BY <1>1, AdvancingFacts
<1>3. PICK row : row = Finish(req[r].row, "completed", "completed")
  OBVIOUS
<1>4. Serves(Moved(req[r], "committing", row, req[r].did, req[r].at),
             log[req[r].on], run[req[r].on], versions)
  BY <1>1, <1>2, <1>3, CompleteServes
<1>5. /\ req' = [req EXCEPT ![r] = Moved(req[r], "committing", row, req[r].did, req[r].at)]
      /\ UNCHANGED <<playbook, versions, run, log, auditLock, started>>
  BY <1>2, <1>3 DEF Complete, Moved, Inv, TypeInv, Job
<1> QED
  BY <1>1, <1>4, <1>5, MovedStep

\* What a commit leaves: the run's row and log, longer by what was in hand.
LEMMA Committed ==
    ASSUME Inv, NEW r \in Requests, Commit(r), NEW x, x = req[r].on
    PROVE  /\ x \in Runs /\ DOMAIN run' = Runs /\ DOMAIN log' = Runs
           /\ run'[x] = Merged(run[x], req[r]) /\ log'[x] = log[x] \o req[r].did
           /\ \A y \in Runs \ {x} : run'[y] = run[y] /\ log'[y] = log[y]
           /\ Busy(req[r]) /\ req[r].pc = "committing" /\ auditLock = r
           /\ Serves(req[r], log[x], run[x], versions) /\ RunOK(run[x], log[x], versions)
           /\ versions' = versions /\ versions \in Seq(Version)
           /\ req' = [req EXCEPT ![r] = Idle] /\ auditLock' = None
           /\ UNCHANGED <<playbook, started>>
<1>1. req[r].pc = "committing" /\ UNCHANGED <<playbook, versions, started>>
  BY DEF Commit
<1>2. Busy(req[r]) /\ Serves(req[r], log[x], run[x], versions) /\ req[r] \in Job
  BY <1>1, ReqKinds DEF Busy, Inv
<1>3. x \in Runs
  BY <1>2 DEF Job
<1>4. auditLock = r
  BY <1>1 DEF Inv, LockInv, Holding
<1>5. /\ run' = [run EXCEPT ![x] = Merged(run[x], req[r])]
      /\ log' = [log EXCEPT ![x] = log[x] \o req[r].did]
      /\ req' = [req EXCEPT ![r] = Idle] /\ auditLock' = None
  BY <1>4 DEF Commit, End
<1>6. DOMAIN run = Runs /\ DOMAIN log = Runs /\ versions \in Seq(Version)
  BY DEF Inv, TypeInv
<1>7. RunOK(run[x], log[x], versions)
  BY <1>3 DEF Inv
<1> QED
  BY <1>1, <1>2, <1>3, <1>4, <1>5, <1>6, <1>7

LEMMA CommitStep ==
    ASSUME Inv, NEW r \in Requests, Commit(r)
    PROVE  Inv'
<1>1. PICK x : x = req[r].on
  OBVIOUS
<1>2. /\ x \in Runs /\ DOMAIN run' = Runs /\ DOMAIN log' = Runs
      /\ run'[x] = Merged(run[x], req[r]) /\ log'[x] = log[x] \o req[r].did
      /\ \A y \in Runs \ {x} : run'[y] = run[y] /\ log'[y] = log[y]
      /\ Busy(req[r]) /\ req[r].pc = "committing" /\ auditLock = r
      /\ Serves(req[r], log[x], run[x], versions) /\ RunOK(run[x], log[x], versions)
      /\ versions' = versions /\ versions \in Seq(Version)
      /\ req' = [req EXCEPT ![r] = Idle] /\ auditLock' = None
      /\ UNCHANGED <<playbook, started>>
  BY <1>1, Committed
<1>3. /\ RunOK(run'[x], log'[x], versions) /\ run'[x] # NoRun
      /\ run'[x].version = req[r].row.version
  BY <1>2, RunCommitted
<1>4. \A y \in Runs : RunOK(run'[y], log'[y], versions')
  BY <1>2, <1>3 DEF Inv
<1>5. req'[r] = Idle /\ \A p \in Requests \ {r} : req'[p] = req[p]
  BY <1>2 DEF Inv, TypeInv
<1>6. log[x] \in Seq(Entry) /\ log'[x] \in Seq(Entry) /\ Grows(log[x], log'[x])
  <2>1. log[x] \in Seq(Entry) /\ req[r].did \in Seq(Entry)
    BY <1>2 DEF RunOK, Serves, Job
  <2> QED
    BY <1>2, <2>1, ConcatGrows
<1>7. ASSUME NEW p \in Requests \ {r}
      PROVE  ReqOK(req[p], log', run', versions)
  <2>1. ReqOK(req[p], log, run, versions)
    BY DEF Inv
  <2>2. CASE req[p] = Idle \/ req[p] \in Saving
    BY <2>2 DEF ReqOK
  <2>3. CASE Serves(req[p], log[req[p].on], run[req[p].on], versions)
    <3>1. req[p].on \in Runs /\ Busy(req[p])
      BY <2>3 DEF Serves, Job, Busy
    <3>2. CASE req[p].on # x
      BY <1>2, <2>3, <3>1, <3>2 DEF ReqOK
    <3>3. CASE req[p].on = x
      <4>1. run[x] # NoRun
        BY <1>1, <1>2, <3>1, <3>3 DEF Inv, Alone
      <4>2. run[x].version = req[p].row.version /\ run[x].version = req[r].row.version
        BY <1>2, <2>3, <3>3, <4>1 DEF Serves
      <4>3. run'[x] # NoRun => run'[x].version = req[p].row.version
        BY <1>3, <4>2
      <4>4. Grows(versions, versions)
        BY <1>2, GrowsSelf
      <4>5. PICK q, L, M, R, S, vs :
              /\ q = req[p] /\ L = log[x] /\ M = log'[x] /\ R = run[x] /\ S = run'[x]
              /\ vs = versions
        OBVIOUS
      <4>6. /\ L \in Seq(Entry) /\ M \in Seq(Entry) /\ Grows(L, M) /\ vs \in Seq(Version)
            /\ Grows(vs, vs) /\ Serves(q, L, R, vs)
        BY <1>2, <1>6, <2>3, <3>3, <4>4, <4>5
      <4>7. S # NoRun => S.version = q.row.version
        BY <4>3, <4>5
      <4>8. Serves(q, M, S, vs)
        BY <4>6, <4>7, ServesStays
      <4> QED
        BY <3>3, <4>5, <4>8 DEF ReqOK
    <3> QED
      BY <3>2, <3>3
  <2> QED
    BY <2>1, <2>2, <2>3 DEF ReqOK
<1>8. \A p \in Requests : ReqOK(req'[p], log', run', versions')
  BY <1>2, <1>5, <1>7 DEF ReqOK
<1>9. TypeInv'
  BY <1>2 DEF Inv, TypeInv
<1>10. ~Busy(Idle) /\ ~Holding(Idle)
  BY DEF Busy, Holding, Idle
<1>11. Alone'
  <2> SUFFICES ASSUME NEW p \in Requests, NEW q \in Requests, p # q,
                      Busy(req'[p]), Busy(req'[q]), req'[p].on = req'[q].on
               PROVE  run'[req'[p].on] # NoRun
    BY DEF Alone, Busy
  <2>1. /\ p # r /\ q # r /\ Busy(req[p]) /\ Busy(req[q])
        /\ req'[p] = req[p] /\ req'[q] = req[q]
    BY <1>5, <1>10
  <2>2. run[req[p].on] # NoRun
    BY <2>1 DEF Inv, Alone
  <2>3. req[p].on \in Runs
    BY <2>1, ReqKinds DEF Inv, Job
  <2> QED
    BY <1>2, <1>3, <2>1, <2>2, <2>3
<1>12. LockInv'
  <2>1. None \notin Requests
    BY PlaybookAssumption
  <2>2. \A p \in Requests \ {r} : ~Holding(req[p])
    BY <1>2 DEF Inv, LockInv
  <2> QED
    BY <1>2, <1>5, <1>10, <2>1, <2>2 DEF LockInv
<1> QED
  BY <1>4, <1>8, <1>9, <1>11, <1>12 DEF Inv

LEMMA LoadSaveStep ==
    ASSUME Inv, NEW r \in Requests, NEW g \in Graphs \cup {None}, NEW enabled \in BOOLEAN,
           LoadSave(r, g, enabled)
    PROVE  Inv'
<1>1. PICK q : q = [pc |-> "saving", graph |-> g, enabled |-> enabled, seen |-> playbook]
  OBVIOUS
<1>2. req' = [req EXCEPT ![r] = q] /\ UNCHANGED <<playbook, versions, run, log, auditLock>>
  BY <1>1 DEF LoadSave, Start
<1>3. q \in Saving /\ q.pc = "saving"
  BY <1>1 DEF Saving, Inv, TypeInv
<1>4. ReqOK(q, log, run, versions') /\ ~Busy(q) /\ ~Holding(q)
  BY <1>3 DEF ReqOK, Busy, Holding
<1>5. TypeInv' /\ Grows(versions, versions')
  <2>1. started' \in 0 .. MaxStarts
    BY PlaybookAssumption DEF LoadSave, Start, Inv, TypeInv
  <2>2. Grows(versions, versions)
    BY GrowsSelf DEF Inv, TypeInv
  <2> QED
    BY <1>2, <2>1, <2>2 DEF Inv, TypeInv
<1>6. auditLock # r
  <2>1. ~Holding(req[r])
    BY DEF LoadSave, Start, Holding, Idle
  <2> QED
    BY <2>1 DEF Inv, LockInv
<1>7. auditLock' \in Requests \cup {None}
  BY <1>2 DEF Inv, LockInv
<1> QED
  BY <1>2, <1>4, <1>5, <1>6, <1>7, RequestStep

\* A request that ends and commits nothing to a run.
LEMMA EndStep ==
    ASSUME Inv, NEW r \in Requests, End(r), UNCHANGED <<run, log>>, TypeInv',
           Grows(versions, versions')
    PROVE  Inv'
<1>1. req' = [req EXCEPT ![r] = Idle]
  BY DEF End
<1>2. ReqOK(Idle, log, run, versions') /\ ~Busy(Idle) /\ ~Holding(Idle)
  BY DEF ReqOK, Busy, Holding, Idle
<1>3. auditLock' \in Requests \cup {None} /\ auditLock' # r
  BY PlaybookAssumption DEF End, Inv, LockInv
<1>4. \A p \in Requests \ {r} : auditLock' = p <=> auditLock = p
  BY PlaybookAssumption DEF End
<1> QED
  BY <1>1, <1>2, <1>3, <1>4, RequestStep

LEMMA CommitSaveStep ==
    ASSUME Inv, NEW r \in Requests, CommitSave(r)
    PROVE  Inv'
<1>1. req[r].pc = "saving" /\ End(r) /\ UNCHANGED <<run, log, started>>
  BY DEF CommitSave
<1>2. req[r] \in Saving
  BY <1>1, ReqKinds DEF Inv
<1>3. playbook \in [version : Nat, enabled : BOOLEAN] /\ versions \in Seq(Version)
  BY DEF Inv, TypeInv
<1>4. playbook' \in [version : Nat, enabled : BOOLEAN]
  <2>1. /\ req[r].seen.version + 1 \in Nat /\ req[r].enabled \in BOOLEAN
        /\ playbook.version \in Nat /\ playbook.enabled \in BOOLEAN
    BY <1>2, <1>3 DEF Saving
  <2>2. playbook' = [version |-> IF req[r].graph # None THEN req[r].seen.version + 1
                                 ELSE playbook.version,
                     enabled |-> IF req[r].enabled # req[r].seen.enabled THEN req[r].enabled
                                 ELSE playbook.enabled]
    BY DEF CommitSave
  <2> QED
    BY <2>1, <2>2
<1>5. versions' \in Seq(Version) /\ Grows(versions, versions')
  <2>1. CASE req[r].graph # None
    <3>1. PICK v : v = [number |-> req[r].seen.version + 1, graph |-> req[r].graph]
      OBVIOUS
    <3>2. v \in Version
      BY <1>2, <2>1, <3>1 DEF Saving, Version
    <3>3. versions' = Append(versions, v)
      BY <2>1, <3>1 DEF CommitSave
    <3> QED
      BY <1>3, <3>2, <3>3, AppendGrows
  <2>2. CASE req[r].graph = None
    <3>1. versions' = versions
      BY <2>2 DEF CommitSave
    <3> QED
      BY <1>3, <3>1, GrowsSelf
  <2> QED
    BY <2>1, <2>2
<1>6. TypeInv'
  BY <1>1, <1>4, <1>5 DEF End, Inv, TypeInv
<1> QED
  BY <1>1, <1>5, <1>6, EndStep

LEMMA FailStep ==
    ASSUME Inv, NEW r \in Requests, Fail(r)
    PROVE  Inv'
<1>1. End(r) /\ UNCHANGED <<playbook, versions, run, log, started>>
  BY DEF Fail
<1>2. TypeInv' /\ Grows(versions, versions')
  BY <1>1, GrowsSelf DEF End, Inv, TypeInv
<1> QED
  BY <1>1, <1>2, EndStep

LEMMA InvStep ==
    ASSUME Inv, [Next]_vars
    PROVE  Inv'
<1>1. CASE UNCHANGED vars
  BY <1>1 DEF vars, Inv, TypeInv, Alone, LockInv
<1> QED
  BY <1>1, LoadStartStep, LoadResumeStep, TakeLockStep, WaitStep, CompleteStep, CommitStep,
     ConditionStep, TaskStep, LoadSaveStep, CommitSaveStep, FailStep DEF Next

LEMMA OnlyCommits ==
    ASSUME Next
    PROVE  UNCHANGED run \/ \E r \in Requests : Commit(r)
<1>1. \A r, x, key : LoadStart(r, x, key) => UNCHANGED run
  BY DEF LoadStart
<1>2. \A r, x, role, decision : LoadResume(r, x, role, decision) => UNCHANGED run
  BY DEF LoadResume
<1>3. \A r : TakeLock(r) \/ Wait(r) \/ Complete(r) \/ CommitSave(r) \/ Fail(r) => UNCHANGED run
  BY DEF TakeLock, Wait, Complete, CommitSave, Fail
<1>4. \A r, holds : Condition(r, holds) => UNCHANGED run
  BY DEF Condition
<1>5. \A r, ok : Task(r, ok) => UNCHANGED run
  BY DEF Task
<1>6. \A r, g, enabled : LoadSave(r, g, enabled) => UNCHANGED run
  BY DEF LoadSave
<1> QED
  BY <1>1, <1>2, <1>3, <1>4, <1>5, <1>6 DEF Next

LEMMA InvAlways == Spec => []Inv
<1> QED
  BY InvInit, InvStep, PTL DEF Spec

-----------------------------------------------------------------------------
(* The theorems.                                                           *)

\* What is committed is well formed, and only the request that holds the
\* audit lock advances or commits.
THEOREM TypeCorrect == Spec => []TypeOK
<1>1. Inv => TypeOK
  <2> SUFFICES ASSUME Inv PROVE TypeOK
    OBVIOUS
  <2>1. \A n \in DOMAIN versions : versions[n].graph \in Graphs /\ versions[n].number \in Nat
    <3>1. \A n \in DOMAIN versions : versions[n] \in Version
      BY LenProperties, ElementOfSeq DEF Inv, TypeInv
    <3> QED
      BY <3>1 DEF Version
  <2>2. \A x \in Runs : run[x] = NoRun \/ IsRun(run[x])
    <3> SUFFICES ASSUME NEW x \in Runs, run[x] \in Row PROVE IsRun(run[x])
      BY DEF Inv, RunOK
    <3>1. \A n \in DOMAIN run[x].history : run[x].history[n] \in Mark
      <4>1. run[x].history \in Seq(Mark)
        BY DEF Row
      <4> QED
        BY <4>1, LenProperties, ElementOfSeq
    <3>2. \A n \in DOMAIN run[x].history :
             run[x].history[n].status \in {"done", "failed", "skipped", "waiting"}
      BY <3>1 DEF Mark
    <3> QED
      BY <3>2 DEF IsRun, Row
  <2>3. \A r \in Requests :
          /\ req[r].pc \in {"idle", "locking", "advancing", "committing", "saving"}
          /\ (req[r].pc \in {"advancing", "committing"}) = (auditLock = r)
    <3> SUFFICES ASSUME NEW r \in Requests
                 PROVE  /\ req[r].pc \in {"idle", "locking", "advancing", "committing", "saving"}
                        /\ (req[r].pc \in {"advancing", "committing"}) = (auditLock = r)
      OBVIOUS
    <3>1. req[r].pc \in {"idle", "locking", "advancing", "committing", "saving"}
      BY ReqKinds DEF Inv, Busy
    <3>2. req[r].pc \in {"advancing", "committing"} <=> auditLock = r
      BY DEF Inv, LockInv, Holding
    <3> QED
      BY <3>1, <3>2
  <2> QED
    BY <2>1, <2>2, <2>3 DEF TypeOK, Inv, TypeInv, LockInv
<1> QED
  BY <1>1, InvAlways, PTL

\* workflow.py 17-19: no step behind an approval step is executed before
\* someone with authority has approved it, in this run.
THEOREM GatesHold == Spec => []GateHolds
<1>1. Inv => GateHolds
  <2> SUFFICES ASSUME Inv, NEW x \in Runs, NEW n \in DOMAIN log[x],
                      log[x][n].what \in {"ok", "failed"},
                      NEW i \in 1 .. (log[x][n].step - 1),
                      StepsOf[log[x][n].graph][i].type = "approval"
               PROVE  \E m \in 1 .. (n - 1) :
                         /\ log[x][m].step = i /\ log[x][m].what = "approve"
                         /\ log[x][m].by \in Authority(StepsOf[log[x][n].graph][i].role)
    BY DEF GateHolds
  <2>1. log[x] \in Seq(Entry) /\ Gated(<<>>, log[x])
    BY DEF Inv, RunOK
  <2>2. n \in 1 .. Len(log[x])
    BY <2>1, LenProperties
  <2>3. Cleared(<<>>, log[x], n - 1, log[x][n].graph, i)
    BY <2>1, <2>2 DEF Gated
  <2>4. ~Approved(<<>>, Len(<<>>), log[x][n].graph, i)
    BY EmptySeq DEF Approved
  <2> QED
    BY <2>3, <2>4 DEF Cleared, Approved
<1> QED
  BY <1>1, InvAlways, PTL

\* playbooks.py 80: all that a run does is of the graph it started on.
THEOREM GraphIsPinned == Spec => []PinnedGraph
<1>1. Inv => PinnedGraph
  <2> SUFFICES ASSUME Inv, NEW x \in Runs, NEW m \in DOMAIN log[x], NEW n \in DOMAIN log[x]
               PROVE  log[x][m].graph = log[x][n].graph
    BY DEF PinnedGraph
  <2>1. RunOK(run[x], log[x], versions) /\ versions \in Seq(Version)
    BY DEF Inv, TypeInv
  <2>2. m \in 1 .. Len(log[x]) /\ n \in 1 .. Len(log[x])
    BY <2>1, LenProperties DEF RunOK
  <2>3. run[x] # NoRun
    BY <2>1, <2>2, EmptySeq, NoRunIsNoRow DEF RunOK
  <2>4. /\ PinnedIn(versions, run[x].version, log[x][m].graph)
        /\ PinnedIn(versions, run[x].version, log[x][n].graph)
    BY <2>1, <2>2, <2>3 DEF RunOK, AllOn
  <2> QED
    BY <2>1, <2>4, OnePin
<1> QED
  BY <1>1, InvAlways, PTL

\* workflow.py 40-42: whatever crashes, a run that is not finished waits for
\* a decision and can be resumed.
THEOREM NoneStranded == Spec => []NeverStranded
<1>1. Inv => NeverStranded
  BY DEF Inv, RunOK, NeverStranded
<1> QED
  BY <1>1, InvAlways, PTL

\* workflow.py 14-16: a run that becomes completed has every step of its
\* graph in its history, and none that halted it.
THEOREM CompletedIsWhole == Spec => CompletedMeansAll
<1> DEFINE Means ==
        \A x \in Runs :
            run'[x].status = "completed" /\ run[x].status # "completed"
               /\ Readable(run'[x].version)
            => Whole(run'[x])
<1>1. ASSUME Inv, Next, NEW x \in Runs, run'[x].status = "completed",
             run[x].status # "completed", Readable(run'[x].version)
      PROVE  Whole(run'[x])
  <2>1. CASE UNCHANGED run
    BY <1>1, <2>1
  <2>2. CASE \E r \in Requests : Commit(r)
    <3>1. PICK r \in Requests : Commit(r)
      BY <2>2
    <3>2. PICK q, L, R, vs, row :
            /\ q = req[r] /\ L = log[q.on] /\ R = run[q.on] /\ vs = versions
            /\ row = Merged(R, q)
      OBVIOUS
    <3>3. /\ q.on \in Runs /\ run'[q.on] = row
          /\ \A y \in Runs \ {q.on} : run'[y] = run[y]
          /\ q.pc = "committing" /\ Serves(q, L, R, vs) /\ RunOK(R, L, vs) /\ vs \in Seq(Version)
      BY <1>1, <3>1, <3>2, Committed
    <3>4. q.on = x
      BY <1>1, <3>3
    <3>5. /\ row.version = q.row.version /\ q.graph \in Graphs
          /\ PinnedIn(vs, q.row.version, q.graph) /\ Covered(row.history, q.graph)
          /\ RunOK(row, L \o q.did, vs)
      BY <1>1, <3>2, <3>3, <3>4, RunCommitted
    <3>6. GraphOf(row.version) = q.graph
      <4>1. PinnedIn(vs, row.version, GraphOf(row.version))
        BY <1>1, <3>2, <3>3, <3>4, ReadableIsPinned
      <4> QED
        BY <3>3, <3>5, <4>1, OnePin
    <3>7. row.history \in Seq(Mark)
      BY <1>1, <3>3, <3>4, <3>5, NoRunIsNoRow DEF RunOK, Row
    <3>8. Whole(row)
      BY <3>5, <3>6, <3>7, LenProperties DEF Whole, Covered, Has
    <3> QED
      BY <3>3, <3>4, <3>8
  <2> QED
    BY <1>1, <2>1, <2>2, OnlyCommits
<1>2. Inv /\ [Next]_vars => [Means]_vars
  BY <1>1
<1> QED
  BY <1>2, InvAlways, PTL DEF Spec, CompletedMeansAll
=============================================================================
