----------------------- MODULE DurableRecords_proofs -----------------------
(***************************************************************************)
(* What is kept on the disk, for any writers, callers and contents, and    *)
(* any number of faults.  A lifecycle is RECOVERED only by the steps in    *)
(* its history, a terminal history is final, and both workflow stores      *)
(* implement a history that only grows; the answers of both identity       *)
(* ledgers are true and agree, and they implement an effect that happens   *)
(* once.                                                                   *)
(***************************************************************************)
EXTENDS MCDurableRecords, SequenceTheorems, FiniteSetTheorems, WellFoundedInduction, TLAPS

(***************************************************************************)
(*                          The workflow records                           *)
(***************************************************************************)

----------------------------------------------------------------------------
(***************************************************************************)
(* The inductive invariant.                                                *)
(***************************************************************************)

Stored == Events \cup Results

\* The first k steps were recorded in their order, the execution being x.
Passed(h, k, x) ==
    \E i \in [1..k -> 1..Len(h)] :
        /\ \A j \in 1..k : h[i[j]].kind = Steps[j]
        /\ \A j \in 1..(k - 1) : i[j] < i[j + 1]
        /\ \A j \in {4, 5} : j <= k => h[i[j]].execution = x

\* What a lifecycle says of itself is in its history.
IsSupported(l) ==
    LET h == l.history IN
    /\ l.diagnosed => Passed(h, 1, None)
    /\ l.decision = TRUE => Passed(h, 2, None)
    /\ l.eligible = TRUE => Passed(h, 3, None)
    /\ l.state = "REMEDIATING" => Passed(h, 4, l.execution)
    /\ l.state = "REMEDIATING" /\ l.succeeded = TRUE => Passed(h, 5, l.execution)
    /\ l.state = "RECOVERED" => Passed(h, 6, l.execution)
    /\ l.state = "OPEN" => l.succeeded = None
    /\ l.state # "FAILED" => \A e \in Recorded(l) : e.positive

\* No history goes on after its end.
IsOpenBefore(h) ==
    \A n \in 0..(Len(h) - 1) :
       LET l == Replay(SubSeq(h, 1, n)) IN l # None /\ l.state \notin Terminal

HasOwnIds(h) == \A i, j \in DOMAIN h : h[i].id = h[j].id => i = j

\* A history that some object has: to read it is to rebuild that object.
IsSound(kind, h) ==
    /\ Rebuilt(kind, h) \in Objects
    /\ Rebuilt(kind, h).history = h
    /\ kind = "lifecycle" =>
          h \in Seq(Events) /\ IsOpenBefore(h) /\ IsSupported(Rebuilt(kind, h))
    /\ kind = "journal" => h \in Seq(Results) /\ HasOwnIds(h)

IsSoundObject(kind, l) == IsSound(kind, l.history) /\ l = Rebuilt(kind, l.history)

\* Entries and Serialize, for either store.
EntriesOf(kind, h) ==
    IF kind = "lifecycle" THEN {<<i, h[i]>> : i \in DOMAIN h} ELSE Range(h)

Written(kind, l) == IF kind = "lifecycle" THEN l.history ELSE SetToSeq(Recorded(l))

\* Every object and every history is sound.
HistoriesAreSound ==
    /\ \A w \in Writers : object[w] # None => IsSoundObject(store, object[w])
    /\ HasHistory => IsSound(store, file)
    /\ settled \notin {None, Partial} => IsSound(store, settled)
    /\ \A w \in Writers : digest[w] # None => IsSound(store, digest[w])
    /\ IsSound(store, acknowledged)

\* Nothing is lost on the way from what was acknowledged over what is settled and the
\* file to what its writers go on with.
HistoriesGrow ==
    /\ EntriesOf(store, acknowledged) \subseteq
          (IF settled \in {None, Partial} THEN {} ELSE EntriesOf(store, settled))
    /\ settled \notin {None, Partial} => HasHistory /\ EntriesOf(store, settled) \subseteq EntriesOf(store, file)
    /\ \A w \in Writers : digest[w] # None =>
          object[w] # None /\ EntriesOf(store, digest[w]) \subseteq EntriesOf(store, object[w].history)

\* One writer is in a store; between the replacement and the return the file is its own.
OneInStore ==
    /\ \A w, v \in Writers : writerAt[w] # "idle" /\ writerAt[v] # "idle" => w = v
    /\ \A w \in Writers :
          /\ writerAt[w] # "idle" => object[w] # None
          /\ writerAt[w] = "writing" => file = Partial
          /\ writerAt[w] = "syncing" => HasHistory /\ file = Serialize(object[w])

RecordTypes ==
    /\ store \in {"lifecycle", "journal"}
    /\ writerAt \in [Writers -> {"idle", "writing", "syncing"}]
    /\ object \in [Writers -> Objects \cup {None}]
    /\ digest \in [Writers -> Seq(Stored) \cup {None}]
    /\ file \in Seq(Stored) \cup {None, Partial}
    /\ settled \in Seq(Stored) \cup {None, Partial}
    /\ acknowledged \in Seq(Stored)
    /\ writerFaults \in 0..MaxFaults

RecordsInv == RecordTypes /\ HistoriesAreSound /\ HistoriesGrow /\ OneInStore

----------------------------------------------------------------------------
(***************************************************************************)
(* Reading a history.  The library's induction theorem has a predicate as  *)
(* parameter; this one has a set, and follows from the least element of    *)
(* its complement.                                                         *)
(***************************************************************************)

\* A set that holds 0 and is closed under the successor holds every number.
LEMMA Induction ==
    ASSUME NEW S, 0 \in S, \A n \in Nat : n \in S => n + 1 \in S
    PROVE  Nat \subseteq S
<1> DEFINE T == Nat \ S
           R == OpToRel(<, Nat)
<1> SUFFICES ASSUME T # {} PROVE FALSE
  OBVIOUS
<1>1. PICK x \in T : \A y \in T : ~ (<<y, x>> \in R)
  BY WFMin, NatLessThanWellFounded, T \subseteq Nat
<1>2. x - 1 \in T
  BY SMT
<1>3. <<x - 1, x>> \in R
  BY <1>2, SMT DEF OpToRel
<1> QED BY <1>1, <1>2, <1>3

\* What is known after so many entries: the recursive definition in Rebuilt has a solution.
IsReading(f, kind, h) ==
    f = [n \in 0..Len(h) |-> IF n = 0 THEN New ELSE ReadEntry(kind, f[n - 1], h[n])]

LEMMA ReadingExists ==
    ASSUME NEW kind, NEW h \in Seq(Stored)
    PROVE  \E f : IsReading(f, kind, h) /\ Rebuilt(kind, h) = f[Len(h)]
<1> DEFINE D(f, n) == IF n = 0 THEN New ELSE ReadEntry(kind, f[n - 1], h[n])
           P(m) == \E f : f = [n \in 0..m |-> D(f, n)]
           S == {m \in Nat : P(m)}
           F == CHOOSE f : f = [n \in 0..Len(h) |-> D(f, n)]
<1>1. 0 \in S
  <2> DEFINE g == [n \in 0..0 |-> New]
  <2>1. g = [n \in 0..0 |-> D(g, n)]
    OBVIOUS
  <2> HIDE DEF D, g
  <2>2. P(0)
    BY <2>1
  <2> QED BY <2>2
<1>2. ASSUME NEW m \in Nat, m \in S PROVE m + 1 \in S
  <2>1. PICK f : f = [n \in 0..m |-> D(f, n)]
    BY <1>2
  <2> DEFINE g == [n \in 0..(m + 1) |->
                     IF n = m + 1 THEN ReadEntry(kind, f[m], h[n]) ELSE f[n]]
  <2>2. \A n \in 0..(m + 1) : g[n] = D(g, n)
    BY <2>1
  <2>3. g = [n \in 0..(m + 1) |-> D(g, n)]
    BY <2>2
  <2> HIDE DEF D, g
  <2>4. P(m + 1)
    BY <2>3
  <2> QED BY <2>4
<1>3. P(Len(h))
  <2> HIDE DEF P
  <2> QED BY <1>1, <1>2, Induction, LenProperties
<1>4. F = [n \in 0..Len(h) |-> D(F, n)]
  <2> HIDE DEF D
  <2> QED BY <1>3
<1>5. Rebuilt(kind, h) = F[Len(h)]
  BY DEF Rebuilt
<1> HIDE DEF F
<1> QED BY <1>4, <1>5 DEF IsReading

\* Nothing read is a new object, and one entry more is read by what was read before.
LEMMA ReadNothing ==
    ASSUME NEW kind
    PROVE  Rebuilt(kind, <<>>) = New
<1>1. PICK f : IsReading(f, kind, <<>>) /\ Rebuilt(kind, <<>>) = f[Len(<<>>)]
  BY ReadingExists, EmptySeq
<1> QED BY <1>1 DEF IsReading

LEMMA ReadOneMore ==
    ASSUME NEW kind, NEW h \in Seq(Stored), NEW e \in Stored
    PROVE  Rebuilt(kind, Append(h, e)) = ReadEntry(kind, Rebuilt(kind, h), e)
<1> DEFINE g == Append(h, e)
<1>1. g \in Seq(Stored) /\ Len(g) = Len(h) + 1 /\ Len(h) \in Nat
      /\ g[Len(h) + 1] = e /\ \A n \in 1..Len(h) : g[n] = h[n]
  BY AppendProperties, LenProperties
<1>2. PICK a : IsReading(a, kind, h) /\ Rebuilt(kind, h) = a[Len(h)]
  BY ReadingExists
<1>3. PICK b : IsReading(b, kind, g) /\ Rebuilt(kind, g) = b[Len(g)]
  BY <1>1, ReadingExists
<1> HIDE DEF g
<1>4. \A n \in Nat : n <= Len(h) => a[n] = b[n]
  <2> DEFINE S == {n \in Nat : n <= Len(h) => a[n] = b[n]}
  <2>1. 0 \in S
    BY <1>1, <1>2, <1>3 DEF IsReading
  <2>2. ASSUME NEW n \in Nat, n \in S, n + 1 <= Len(h) PROVE a[n + 1] = b[n + 1]
    <3>1. a[n + 1] = ReadEntry(kind, a[n], h[n + 1])
      BY <1>1, <1>2, <2>2 DEF IsReading
    <3>2. b[n + 1] = ReadEntry(kind, b[n], g[n + 1])
      BY <1>1, <1>3, <2>2 DEF IsReading
    <3> QED BY <1>1, <2>2, <3>1, <3>2
  <2>3. \A n \in Nat : n \in S => n + 1 \in S
    BY <2>2
  <2> HIDE DEF S
  <2>4. Nat \subseteq S
    BY <2>1, <2>3, Induction
  <2> QED BY <2>4 DEF S
<1>5. b[Len(h) + 1] = ReadEntry(kind, b[Len(h)], e)
  BY <1>1, <1>3 DEF IsReading
<1> QED BY <1>1, <1>2, <1>3, <1>4, <1>5 DEF g

----------------------------------------------------------------------------
(***************************************************************************)
(* Objects and sequences.                                                  *)
(***************************************************************************)

LEMMA NoneIsNone ==
    /\ \A l \in Objects : l # None /\ l # Partial
    /\ \A h \in Seq(Stored) : h # None /\ h # Partial
BY NoneIsNothingElse DEF Stored

LEMMA NewIsObject == New \in Objects /\ New # None
<1>1. <<>> \in Seq(Events \cup Results)
  BY EmptySeq
<1> QED BY <1>1, NoneIsNone DEF New, Objects, Terminal

LEMMA EventsAreTyped ==
    ASSUME NEW e \in Events
    PROVE  /\ e.kind \in Kinds /\ e.kind # "EXECUTED"
           /\ e.positive \in BOOLEAN
           /\ e.kind \in {"DIAGNOSTICS", "STARTED"} => e.positive
           /\ e \in Stored
BY ConstantsAreTyped DEF Kinds, Abort, Stored

\* An event changes what an object says, and only a commit its history.
LEMMA ProjectedIsObject ==
    ASSUME NEW l \in Objects, NEW e \in Events
    PROVE  Projected(l, e) \in Objects /\ Projected(l, e).history = l.history
<1>1. e.kind \in Kinds /\ e.positive \in BOOLEAN
  BY EventsAreTyped
<1>2. e.kind \in Abort => e.kind \in Reasons
  BY DEF Reasons
<1>3. \A m \in Objects, r \in Reasons :
         Fail(m, r) \in Objects /\ Fail(m, r).history = m.history
  BY DEF Fail, Objects, Terminal
<1> HIDE DEF Fail
<1>4. CASE e.kind = "DIAGNOSTICS"
  <2>1. Projected(l, e) = RecordDiagnostics(l)
    BY <1>4 DEF Projected, Abort
  <2>2. RecordDiagnostics(l) \in Objects /\ RecordDiagnostics(l).history = l.history
    BY DEF RecordDiagnostics, Objects
  <2> QED BY <2>1, <2>2
<1>5. CASE e.kind = "AUTHORIZATION"
  <2>1. Projected(l, e) = RecordAuthorization(l, e)
    BY <1>5 DEF Projected, Abort
  <2> DEFINE m == [l EXCEPT !.decision = e.positive]
  <2>2. m \in Objects /\ m.history = l.history
    BY <1>1 DEF Objects
  <2>3. Projected(l, e) = m \/ \E r \in Reasons : Projected(l, e) = Fail(m, r)
    BY <2>1 DEF RecordAuthorization, Reasons
  <2> HIDE DEF m
  <2> QED BY <1>3, <2>2, <2>3
<1>6. CASE e.kind = "ELIGIBILITY"
  <2>1. Projected(l, e) = RecordEligibility(l, e)
    BY <1>6 DEF Projected, Abort
  <2> DEFINE m == [l EXCEPT !.eligible = e.positive]
  <2>2. m \in Objects /\ m.history = l.history
    BY <1>1 DEF Objects
  <2>3. Projected(l, e) = m \/ \E r \in Reasons : Projected(l, e) = Fail(m, r)
    BY <2>1 DEF RecordEligibility, Reasons
  <2> HIDE DEF m
  <2> QED BY <1>3, <2>2, <2>3
<1>7. CASE e.kind = "STARTED"
  <2>1. Projected(l, e) = MarkRemediating(l, e)
    BY <1>7 DEF Projected, Abort
  <2>2. MarkRemediating(l, e) \in Objects /\ MarkRemediating(l, e).history = l.history
    BY DEF MarkRemediating, Objects
  <2> QED BY <2>1, <2>2
<1>8. CASE e.kind = "RESULT"
  <2>1. Projected(l, e) = RecordResult(l, e)
    BY <1>8 DEF Projected, Abort
  <2> DEFINE m == [l EXCEPT !.succeeded = e.positive]
  <2>2. m \in Objects /\ m.history = l.history
    BY <1>1 DEF Objects
  <2>3. Projected(l, e) = m \/ \E r \in Reasons : Projected(l, e) = Fail(m, r)
    BY <2>1 DEF RecordResult, Reasons
  <2> HIDE DEF m
  <2> QED BY <1>3, <2>2, <2>3
<1>9. CASE e.kind = "VERIFICATION"
  <2>1. Projected(l, e) = RecordVerification(l, e)
    BY <1>9 DEF Projected, Abort
  <2> DEFINE m == [l EXCEPT !.verified = e.positive]
  <2>2. m \in Objects /\ m.history = l.history
    BY <1>1 DEF Objects
  <2>3. [m EXCEPT !.state = "RECOVERED"] \in Objects
        /\ [m EXCEPT !.state = "RECOVERED"].history = m.history
    BY <2>2 DEF Objects, Terminal
  <2>4. \/ Projected(l, e) = [m EXCEPT !.state = "RECOVERED"]
        \/ Projected(l, e) = Fail(m, "VERIFICATION_FAILED")
    BY <2>1 DEF RecordVerification
  <2> HIDE DEF m
  <2>5. "VERIFICATION_FAILED" \in Reasons
    BY DEF Reasons
  <2> QED BY <1>3, <2>2, <2>3, <2>4, <2>5
<1>10. CASE e.kind \in Abort
  <2>1. Projected(l, e) = Fail(l, e.kind)
    BY <1>10 DEF Projected, Abort
  <2> QED BY <1>2, <1>3, <1>10, <2>1
<1> QED BY <1>1, <1>4, <1>5, <1>6, <1>7, <1>8, <1>9, <1>10 DEF Kinds

LEMMA CommitAppends ==
    ASSUME NEW l \in Objects, NEW e \in Stored
    PROVE  /\ e \in Events => Commit(l, e) \in Objects
           /\ e.kind = "EXECUTED" => Commit(l, e) = [l EXCEPT !.history = Append(l.history, e)]
           /\ e.kind = "EXECUTED" => Commit(l, e) \in Objects
           /\ e \in Events \/ e.kind = "EXECUTED" => Commit(l, e).history = Append(l.history, e)
<1>1. l.history \in Seq(Stored) /\ Append(l.history, e) \in Seq(Stored)
  BY AppendProperties DEF Objects, Stored
<1>2. CASE e.kind = "EXECUTED"
  <2>1. Projected(l, e) = l
    BY <1>2 DEF Projected, Abort
  <2> QED BY <1>1, <1>2, <2>1, EventsAreTyped DEF Commit, Objects, Stored
<1>3. CASE e \in Events
  <2>1. Projected(l, e) \in Objects /\ Projected(l, e).history = l.history
    BY <1>3, ProjectedIsObject
  <2>2. Commit(l, e) = [Projected(l, e) EXCEPT !.history = Append(l.history, e)]
    BY <2>1 DEF Commit
  <2>3. e.kind # "EXECUTED"
    BY <1>3, EventsAreTyped
  <2> HIDE DEF Projected
  <2> QED BY <1>1, <1>3, <2>1, <2>2, <2>3 DEF Objects, Stored
<1> QED BY <1>2, <1>3

\* The beginnings of a history that has one entry more.
LEMMA Beginnings ==
    ASSUME NEW S, NEW h \in Seq(S), NEW e \in S
    PROVE  /\ \A n \in 0..Len(h) : SubSeq(Append(h, e), 1, n) = SubSeq(h, 1, n)
           /\ SubSeq(h, 1, Len(h)) = h
           /\ SubSeq(Append(h, e), 1, Len(h)) = h
<1>1. /\ Append(h, e) \in Seq(S) /\ Len(Append(h, e)) = Len(h) + 1 /\ Len(h) \in Nat
      /\ \A n \in 1..Len(h) : Append(h, e)[n] = h[n]
  BY AppendProperties, LenProperties
<1>2. ASSUME NEW n \in 0..Len(h) PROVE SubSeq(Append(h, e), 1, n) = SubSeq(h, 1, n)
  BY <1>1, <1>2
<1>3. SubSeq(h, 1, Len(h)) = h
  OBVIOUS
<1> QED BY <1>1, <1>2, <1>3

----------------------------------------------------------------------------
(***************************************************************************)
(* A journal is its records, whichever way it is read.                     *)
(***************************************************************************)

Journal(h) == [New EXCEPT !.history = h]

LEMMA ResultsAreTyped ==
    ASSUME NEW e \in Results
    PROVE  e.kind = "EXECUTED" /\ e \in Stored
BY DEF Results, Stored

LEMMA JournalIsObject ==
    ASSUME NEW h \in Seq(Results)
    PROVE  /\ h \in Seq(Stored)
           /\ Journal(h) \in Objects /\ Journal(h) # None /\ Journal(h).history = h
           /\ Journal(h).state = "OPEN"
<1>1. h \in Seq(Stored)
  BY DEF Stored
<1>2. Journal(h) \in Objects /\ Journal(h).history = h /\ Journal(h).state = "OPEN"
  BY <1>1, NewIsObject DEF Journal, New, Objects, Terminal, Stored
<1> QED BY <1>1, <1>2, NoneIsNone

LEMMA JournalTakes ==
    ASSUME NEW kind, NEW h \in Seq(Results), NEW e \in Results,
           \A i \in DOMAIN h : h[i].id # e.id
    PROVE  ReadEntry(kind, Journal(h), e) = Journal(Append(h, e))
<1> DEFINE l == Journal(h)
<1>1. l \in Objects /\ l # None /\ l.history = h /\ l.state = "OPEN"
  BY JournalIsObject
<1>2. Recorded(l) = {h[i] : i \in DOMAIN h}
  BY <1>1 DEF Recorded
<1>3. IsNew(l, e) /\ e \notin Recorded(l)
  BY <1>2 DEF IsNew
<1>4. Commit(l, e) = [l EXCEPT !.history = Append(h, e)]
  BY <1>1, ResultsAreTyped, CommitAppends
<1>5. CanRecord(l, e)
  BY <1>1, <1>3, ResultsAreTyped DEF CanRecord, Accepts, Nonterminal, Terminal
<1>6. Commit(l, e) = Journal(Append(h, e))
  BY <1>4 DEF Journal, New
<1> HIDE DEF l
<1>7. ReplayEntry(l, e) = Commit(l, e) /\ RecordAgain(l, e) = Commit(l, e)
  BY <1>1, <1>3, <1>5 DEF ReplayEntry, RecordAgain
<1> QED BY <1>6, <1>7 DEF ReadEntry, l

\* Records with ids of their own are all taken, by a replay of events too.
LEMMA JournalReads ==
    ASSUME NEW kind, NEW h \in Seq(Results), HasOwnIds(h)
    PROVE  Rebuilt(kind, h) = Journal(h)
<1> DEFINE S == {n \in Nat : n <= Len(h) =>
                   Rebuilt(kind, SubSeq(h, 1, n)) = Journal(SubSeq(h, 1, n))}
<1>1. 0 \in S
  <2>1. SubSeq(h, 1, 0) = <<>>
    OBVIOUS
  <2>2. Journal(<<>>) = New
    <3>1. New.history = <<>>
      BY DEF New
    <3> QED BY <3>1, NewIsObject DEF Journal, Objects
  <2> QED BY <2>1, <2>2, ReadNothing
<1>2. ASSUME NEW n \in Nat, n \in S, n + 1 <= Len(h)
      PROVE  Rebuilt(kind, SubSeq(h, 1, n + 1)) = Journal(SubSeq(h, 1, n + 1))
  <2> DEFINE g == SubSeq(h, 1, n)
             e == h[n + 1]
  <2>1. /\ g \in Seq(Results) /\ g \in Seq(Stored) /\ e \in Results /\ e \in Stored
        /\ SubSeq(h, 1, n + 1) = Append(g, e)
    <3>1. Len(h) \in Nat /\ n + 1 \in 1..Len(h)
      BY <1>2, LenProperties
    <3>2. e \in Results /\ e \in Stored
      BY <3>1, ElementOfSeq, ResultsAreTyped
    <3>3. g \in Seq(Results) /\ g \in Seq(Stored)
      BY <3>1, SubSeqProperties, JournalIsObject
    <3>4. SubSeq(h, 1, n + 1) = Append(g, e)
      BY <3>1, SubSeqProperties
    <3> QED BY <3>2, <3>3, <3>4
  <2>2. \A i \in DOMAIN g : g[i].id # e.id
    BY <1>2, LenProperties, SubSeqProperties DEF HasOwnIds
  <2>3. Rebuilt(kind, g) = Journal(g)
    BY <1>2
  <2> HIDE DEF g, e
  <2>4. ReadEntry(kind, Journal(g), e) = Journal(Append(g, e))
    BY <2>1, <2>2, JournalTakes
  <2>5. Rebuilt(kind, Append(g, e)) = ReadEntry(kind, Journal(g), e)
    BY <2>1, <2>3, ReadOneMore
  <2> QED BY <2>1, <2>4, <2>5
<1>3. \A n \in Nat : n \in S => n + 1 \in S
  BY <1>2
<1> HIDE DEF S
<1>4. Len(h) \in S
  BY <1>1, <1>3, Induction, LenProperties
<1>5. SubSeq(h, 1, Len(h)) = h /\ Len(h) \in Nat
  OBVIOUS
<1>6. Rebuilt(kind, SubSeq(h, 1, Len(h))) = Journal(SubSeq(h, 1, Len(h)))
  BY <1>4, <1>5 DEF S
<1> QED BY <1>5, <1>6

----------------------------------------------------------------------------
(***************************************************************************)
(* The steps of a lifecycle in its history.                                *)
(***************************************************************************)

\* What was passed stays passed, and the next step is an entry at the end.
LEMMA PassedStays ==
    ASSUME NEW h \in Seq(Stored), NEW e \in Stored, NEW k \in Nat, NEW x, Passed(h, k, x)
    PROVE  Passed(Append(h, e), k, x)
<1>1. PICK i \in [1..k -> 1..Len(h)] :
        /\ \A j \in 1..k : h[i[j]].kind = Steps[j]
        /\ \A j \in 1..(k - 1) : i[j] < i[j + 1]
        /\ \A j \in {4, 5} : j <= k => h[i[j]].execution = x
  BY DEF Passed
<1>2. /\ Len(Append(h, e)) = Len(h) + 1 /\ Len(h) \in Nat
      /\ \A n \in 1..Len(h) : Append(h, e)[n] = h[n]
  BY AppendProperties, LenProperties
<1> DEFINE g == Append(h, e)
<1> HIDE DEF g
<1>3. i \in [1..k -> 1..Len(g)]
  BY <1>2 DEF g
<1>4. \A j \in 1..k : g[i[j]] = h[i[j]]
  BY <1>2 DEF g
<1>5. \A j \in 1..k : g[i[j]].kind = Steps[j]
  BY <1>1, <1>4
<1>6. \A j \in {4, 5} : j <= k => g[i[j]].execution = x
  BY <1>1, <1>4
<1>7. Passed(g, k, x)
  BY <1>1, <1>3, <1>5, <1>6 DEF Passed
<1> QED BY <1>7 DEF g

LEMMA PassesOn ==
    ASSUME NEW h \in Seq(Stored), NEW e \in Stored, NEW k \in 0..5, NEW x, NEW y,
           k = 0 \/ Passed(h, k, x),
           e.kind = Steps[k + 1],
           k + 1 \in {4, 5} => e.execution = y,
           k >= 4 => x = y
    PROVE  Passed(Append(h, e), k + 1, y)
<1>1. PICK i \in [1..k -> 1..Len(h)] :
        /\ \A j \in 1..k : h[i[j]].kind = Steps[j]
        /\ \A j \in 1..(k - 1) : i[j] < i[j + 1]
        /\ \A j \in {4, 5} : j <= k => h[i[j]].execution = x
  <2>1. CASE k = 0
    <3> DEFINE i == [j \in 1..k |-> 1]
    <3>1. i \in [1..k -> 1..Len(h)]
      BY <2>1
    <3>2. \A j \in 1..k : FALSE
      BY <2>1
    <3> HIDE DEF i
    <3>3. \A j \in 1..(k - 1) : FALSE
      BY <2>1
    <3>4. \A j \in {4, 5} : ~ (j <= k)
      BY <2>1
    <3> QED BY <3>1, <3>2, <3>3, <3>4
  <2>2. CASE k # 0
    BY <2>2 DEF Passed
  <2> QED BY <2>1, <2>2
<1>2. /\ Len(Append(h, e)) = Len(h) + 1 /\ Len(h) \in Nat
      /\ \A n \in 1..Len(h) : Append(h, e)[n] = h[n]
      /\ Append(h, e)[Len(h) + 1] = e
  BY AppendProperties, LenProperties
<1> DEFINE g == Append(h, e)
           f == [j \in 1..(k + 1) |-> IF j = k + 1 THEN Len(h) + 1 ELSE i[j]]
<1> HIDE DEF g
<1>3. f \in [1..(k + 1) -> 1..Len(g)]
  BY <1>2 DEF g
<1>4. (\A j \in 1..k : f[j] = i[j] /\ g[f[j]] = h[i[j]]) /\ f[k + 1] = Len(h) + 1 /\ g[f[k + 1]] = e
  BY <1>2 DEF g
<1> HIDE DEF f
<1>5. \A j \in 1..(k + 1) : g[f[j]].kind = Steps[j]
  <2> TAKE j \in 1..(k + 1)
  <2>1. CASE j = k + 1
    BY <1>4, <2>1
  <2>2. CASE j \in 1..k
    BY <1>1, <1>4, <2>2
  <2> QED BY <2>1, <2>2
<1>6. \A j \in 1..((k + 1) - 1) : f[j] < f[j + 1]
  <2> TAKE j \in 1..((k + 1) - 1)
  <2>1. CASE j = k
    BY <1>2, <1>4, <2>1
  <2>2. CASE j \in 1..(k - 1)
    BY <1>1, <1>4, <2>2
  <2> QED BY <2>1, <2>2
<1>7. \A j \in {4, 5} : j <= k + 1 => g[f[j]].execution = y
  <2> SUFFICES ASSUME NEW j \in {4, 5}, j <= k + 1 PROVE g[f[j]].execution = y
    OBVIOUS
  <2>1. CASE j = k + 1
    BY <1>4, <2>1
  <2>2. CASE j # k + 1
    <3>1. j \in 1..k /\ k >= 4
      BY <2>2
    <3>2. h[i[j]].execution = x /\ x = y
      BY <1>1, <3>1
    <3> QED BY <1>4, <3>1, <3>2
  <2> QED BY <2>1, <2>2
<1>8. Passed(g, k + 1, y)
  BY <1>3, <1>5, <1>6, <1>7 DEF Passed
<1> QED BY <1>8 DEF g

\* Where an event that is accepted leaves an object, and from where.
Effect(l, e, m) ==
    /\ m.diagnosed => l.diagnosed \/ e.kind = "DIAGNOSTICS"
    /\ m.decision = TRUE =>
          l.decision = TRUE \/ (e.kind = "AUTHORIZATION" /\ l.diagnosed)
    /\ m.eligible = TRUE =>
          l.eligible = TRUE \/ (e.kind = "ELIGIBILITY" /\ l.decision = TRUE)
    /\ m.state = "REMEDIATING" =>
          \/ l.state = "REMEDIATING" /\ m.execution = l.execution
          \/ e.kind = "STARTED" /\ l.eligible = TRUE /\ m.execution = e.execution
    /\ m.state = "REMEDIATING" /\ m.succeeded = TRUE =>
          \/ l.succeeded = TRUE
          \/ e.kind = "RESULT" /\ l.state = "REMEDIATING" /\ e.execution = l.execution
    /\ m.state = "RECOVERED" =>
          /\ e.kind = "VERIFICATION" /\ m.execution = l.execution
          /\ l.state = "REMEDIATING" /\ l.succeeded = TRUE
    /\ m.state = "OPEN" => l.state = "OPEN" /\ m.succeeded = l.succeeded
    /\ m.state # "FAILED" => e.positive

LEMMA ProjectedHasEffect ==
    ASSUME NEW l \in Objects, NEW e \in Events, CanRecord(l, e)
    PROVE  Effect(l, e, Projected(l, e))
<1>1. e.kind \in Kinds /\ e.positive \in BOOLEAN
      /\ (e.kind \in {"DIAGNOSTICS", "STARTED"} => e.positive)
  BY EventsAreTyped
<1>2. Accepts(l, e) /\ l.state \in {"OPEN", "REMEDIATING"}
  BY DEF CanRecord, Accepts, Nonterminal, Objects
<1>3. CASE e.kind = "DIAGNOSTICS"
  <2>1. Projected(l, e) = RecordDiagnostics(l)
    BY <1>3 DEF Projected, Abort
  <2>2. Effect(l, e, RecordDiagnostics(l))
    BY <1>1, <1>2, <1>3 DEF Effect, Accepts, Objects, Terminal, RecordDiagnostics, Fail
  <2> QED BY <2>1, <2>2
<1>4. CASE e.kind = "AUTHORIZATION"
  <2>1. Projected(l, e) = RecordAuthorization(l, e)
    BY <1>4 DEF Projected, Abort
  <2>2. Effect(l, e, RecordAuthorization(l, e))
    BY <1>1, <1>2, <1>4 DEF Effect, Accepts, Objects, Terminal, RecordAuthorization, MayAuthorize, Fail
  <2> QED BY <2>1, <2>2
<1>5. CASE e.kind = "ELIGIBILITY"
  <2>1. Projected(l, e) = RecordEligibility(l, e)
    BY <1>5 DEF Projected, Abort
  <2>2. Effect(l, e, RecordEligibility(l, e))
    BY <1>1, <1>2, <1>5 DEF Effect, Accepts, Objects, Terminal, RecordEligibility, MayRecordEligibility, Fail
  <2> QED BY <2>1, <2>2
<1>6. CASE e.kind = "STARTED"
  <2>1. Projected(l, e) = MarkRemediating(l, e)
    BY <1>6 DEF Projected, Abort
  <2>2. Effect(l, e, MarkRemediating(l, e))
    BY <1>1, <1>2, <1>6 DEF Effect, Accepts, Objects, Terminal, MarkRemediating, MayRemediate, Fail
  <2> QED BY <2>1, <2>2
<1>7. CASE e.kind = "RESULT"
  <2>1. Projected(l, e) = RecordResult(l, e)
    BY <1>7 DEF Projected, Abort
  <2>2. Effect(l, e, RecordResult(l, e))
    BY <1>1, <1>2, <1>7 DEF Effect, Accepts, Objects, Terminal, RecordResult, MayRecordResult, Fail
  <2> QED BY <2>1, <2>2
<1>8. CASE e.kind = "VERIFICATION"
  <2>1. Projected(l, e) = RecordVerification(l, e)
    BY <1>8 DEF Projected, Abort
  <2>2. Effect(l, e, RecordVerification(l, e))
    BY <1>1, <1>2, <1>8 DEF Effect, Accepts, Objects, Terminal, RecordVerification, MayVerify, Fail
  <2> QED BY <2>1, <2>2
<1>9. CASE e.kind \in Abort
  <2>1. Projected(l, e) = Fail(l, e.kind)
    BY <1>9 DEF Projected, Abort
  <2>2. Effect(l, e, Fail(l, e.kind))
    BY <1>1, <1>2, <1>9 DEF Effect, Objects, Terminal, Fail
  <2> QED BY <2>1, <2>2
<1> QED BY <1>1, <1>3, <1>4, <1>5, <1>6, <1>7, <1>8, <1>9 DEF Kinds

\* An accepted event keeps a lifecycle supported by its history.
LEMMA SupportGrows ==
    ASSUME NEW l \in Objects, NEW e \in Events, CanRecord(l, e), IsSupported(l)
    PROVE  IsSupported(Commit(l, e))
<1> DEFINE h == l.history
           g == Append(h, e)
           p == Projected(l, e)
           m == Commit(l, e)
<1>1. e \in Stored /\ h \in Seq(Stored) /\ g \in Seq(Stored)
  BY EventsAreTyped, AppendProperties DEF Objects, Stored
<1>2. p \in Objects /\ Effect(l, e, p)
  BY ProjectedIsObject, ProjectedHasEffect
<1>3. m \in Objects /\ m.history = g
  BY <1>1, CommitAppends
<1>4. m = [p EXCEPT !.history = g]
  <2>1. p.history = h
    BY ProjectedIsObject
  <2> HIDE DEF p
  <2> QED BY <2>1 DEF Commit, p
<1> HIDE DEF p, m
<1>5. /\ m.diagnosed = p.diagnosed /\ m.decision = p.decision /\ m.eligible = p.eligible
      /\ m.execution = p.execution /\ m.succeeded = p.succeeded /\ m.state = p.state
  BY <1>2, <1>4 DEF Objects
<1>6. Effect(l, e, m)
  BY <1>2, <1>5 DEF Effect
<1>7. /\ l.diagnosed => Passed(h, 1, None)
      /\ l.decision = TRUE => Passed(h, 2, None)
      /\ l.eligible = TRUE => Passed(h, 3, None)
      /\ l.state = "REMEDIATING" => Passed(h, 4, l.execution)
      /\ l.state = "REMEDIATING" /\ l.succeeded = TRUE => Passed(h, 5, l.execution)
      /\ l.state = "OPEN" => l.succeeded = None
      /\ l.state # "FAILED" => \A f \in Recorded(l) : f.positive
  BY DEF IsSupported
<1>8. l.state \in {"OPEN", "REMEDIATING"}
  BY DEF CanRecord, Accepts, Nonterminal, Objects
<1> HIDE DEF h, g
<1>9. \A k \in Nat : \A x : Passed(h, k, x) => Passed(g, k, x)
  BY <1>1, PassedStays DEF g
<1>10. m.diagnosed => Passed(g, 1, None)
  <2>1. CASE e.kind = "DIAGNOSTICS"
    <3>1. e.kind = Steps[0 + 1]
      BY <2>1 DEF Steps
    <3>2. Passed(g, 0 + 1, None)
      BY <1>1, <3>1, PassesOn DEF g
    <3> QED BY <3>2
  <2> QED BY <1>6, <1>7, <1>9, <2>1 DEF Effect
<1>11. m.decision = TRUE => Passed(g, 2, None)
  <2>1. CASE e.kind = "AUTHORIZATION" /\ l.diagnosed
    <3>1. e.kind = Steps[1 + 1] /\ Passed(h, 1, None)
      BY <1>7, <2>1 DEF Steps
    <3>2. Passed(g, 1 + 1, None)
      BY <1>1, <3>1, PassesOn DEF g
    <3> QED BY <3>2
  <2> QED BY <1>6, <1>7, <1>9, <2>1 DEF Effect
<1>12. m.eligible = TRUE => Passed(g, 3, None)
  <2>1. CASE e.kind = "ELIGIBILITY" /\ l.decision = TRUE
    <3>1. e.kind = Steps[2 + 1] /\ Passed(h, 2, None)
      BY <1>7, <2>1 DEF Steps
    <3>2. Passed(g, 2 + 1, None)
      BY <1>1, <3>1, PassesOn DEF g
    <3> QED BY <3>2
  <2> QED BY <1>6, <1>7, <1>9, <2>1 DEF Effect
<1>13. m.state = "REMEDIATING" => Passed(g, 4, m.execution)
  <2>1. CASE e.kind = "STARTED" /\ l.eligible = TRUE /\ m.execution = e.execution
    <3>1. e.kind = Steps[3 + 1] /\ Passed(h, 3, None)
      BY <1>7, <2>1 DEF Steps
    <3>2. Passed(g, 3 + 1, e.execution)
      BY <1>1, <3>1, PassesOn DEF g
    <3> QED BY <2>1, <3>2
  <2> QED BY <1>6, <1>7, <1>9, <2>1 DEF Effect
<1>14. m.state = "REMEDIATING" /\ m.succeeded = TRUE => Passed(g, 5, m.execution)
  <2> SUFFICES ASSUME m.state = "REMEDIATING", m.succeeded = TRUE
               PROVE  Passed(g, 5, m.execution)
    OBVIOUS
  <2>1. l.succeeded = TRUE => l.state = "REMEDIATING"
    BY <1>7, <1>8, ConstantsAreTyped
  <2>2. CASE l.succeeded = TRUE
    <3>1. Passed(h, 5, l.execution) /\ l.state # "OPEN"
      BY <1>7, <2>1, <2>2
    <3>2. e.kind # "STARTED"
      BY <2>1, <2>2 DEF CanRecord, Accepts, MayRemediate
    <3>3. m.execution = l.execution
      BY <1>6, <3>2 DEF Effect
    <3> QED BY <1>9, <3>1, <3>3
  <2>3. CASE e.kind = "RESULT" /\ l.state = "REMEDIATING" /\ e.execution = l.execution
    <3>1. e.kind = Steps[4 + 1] /\ Passed(h, 4, l.execution)
      BY <1>7, <2>3 DEF Steps
    <3>2. Passed(g, 4 + 1, l.execution)
      BY <1>1, <2>3, <3>1, PassesOn DEF g
    <3>3. m.execution = l.execution
      BY <1>6, <2>3 DEF Effect
    <3> QED BY <3>2, <3>3
  <2> QED BY <1>6, <2>2, <2>3 DEF Effect
<1>15. m.state = "RECOVERED" => Passed(g, 6, m.execution)
  <2>1. CASE e.kind = "VERIFICATION" /\ m.execution = l.execution
             /\ l.state = "REMEDIATING" /\ l.succeeded = TRUE
    <3>1. e.kind = Steps[5 + 1] /\ Passed(h, 5, l.execution)
      BY <1>7, <2>1 DEF Steps
    <3>2. Passed(g, 5 + 1, l.execution)
      BY <1>1, <3>1, PassesOn DEF g
    <3> QED BY <2>1, <3>2
  <2> QED BY <1>6, <2>1 DEF Effect
<1>16. m.state = "OPEN" => m.succeeded = None
  BY <1>6, <1>7 DEF Effect
<1>17. m.state # "FAILED" => \A f \in Recorded(m) : f.positive
  <2>1. Recorded(m) = Recorded(l) \cup {e}
    BY <1>1, <1>3, AppendProperties, LenProperties DEF Recorded, g, h
  <2>2. l.state # "FAILED"
    BY <1>8
  <2>3. m.state # "FAILED" => e.positive
    BY <1>6 DEF Effect
  <2> QED BY <1>7, <2>1, <2>2, <2>3
<1> QED BY <1>3, <1>10, <1>11, <1>12, <1>13, <1>14, <1>15, <1>16, <1>17 DEF IsSupported, m

----------------------------------------------------------------------------
(***************************************************************************)
(* Sound histories.                                                        *)
(***************************************************************************)

LEMMA SoundIsStored ==
    ASSUME NEW kind, NEW h, IsSound(kind, h)
    PROVE  h \in Seq(Stored)
BY DEF IsSound, Objects, Stored

LEMMA NewIsSound ==
    ASSUME NEW kind
    PROVE  IsSound(kind, <<>>) /\ IsSoundObject(kind, New)
<1>1. New.history = <<>> /\ Rebuilt(kind, <<>>) = New
  BY ReadNothing DEF New
<1>2. IsOpenBefore(<<>>)
  <2>1. Len(<<>>) = 0 /\ \A n \in 0..(0 - 1) : FALSE
    OBVIOUS
  <2> QED BY <2>1 DEF IsOpenBefore
<1>3. IsSupported(New)
  <2>1. None # TRUE
    BY ConstantsAreTyped
  <2>2. Recorded(New) = {}
    BY <1>1 DEF Recorded
  <2>3. /\ ~ New.diagnosed /\ New.decision = None /\ New.eligible = None
        /\ New.succeeded = None /\ New.state = "OPEN"
    BY DEF New
  <2> QED BY <2>1, <2>2, <2>3 DEF IsSupported
<1>4. HasOwnIds(<<>>)
  BY DEF HasOwnIds
<1>5. <<>> \in Seq(Events) /\ <<>> \in Seq(Results)
  BY EmptySeq
<1> QED BY <1>1, <1>2, <1>3, <1>4, <1>5, NewIsObject DEF IsSound, IsSoundObject

LEMMA RecordedIsSound ==
    ASSUME NEW l \in Objects, IsSoundObject("lifecycle", l), NEW e \in Events, CanRecord(l, e)
    PROVE  IsSoundObject("lifecycle", Commit(l, e)) /\ Commit(l, e) \in Objects
<1> DEFINE h == l.history
           g == Append(h, e)
           m == Commit(l, e)
<1>1. e \in Stored /\ h \in Seq(Stored) /\ h \in Seq(Events) /\ g \in Seq(Events)
  BY EventsAreTyped, AppendProperties DEF IsSoundObject, IsSound, Objects, Stored
<1>2. l = Replay(h) /\ IsOpenBefore(h) /\ IsSupported(l)
  BY DEF IsSoundObject, IsSound, Replay
<1>3. m \in Objects /\ m.history = g
  BY <1>1, CommitAppends
<1>4. l # None /\ l.state \notin Terminal
  BY NoneIsNone DEF CanRecord, Accepts, Nonterminal
<1>5. Rebuilt("lifecycle", g) = m
  <2>1. Rebuilt("lifecycle", g) = ReadEntry("lifecycle", l, e)
    BY <1>1, <1>2, ReadOneMore DEF Replay
  <2> HIDE DEF m, g
  <2>2. ReadEntry("lifecycle", l, e) = m
    BY <1>4 DEF ReadEntry, ReplayEntry, m
  <2> QED BY <2>1, <2>2
<1>6. IsOpenBefore(g)
  <2>1. Len(g) = Len(h) + 1 /\ Len(h) \in Nat
    BY <1>1, AppendProperties, LenProperties
  <2>2. ASSUME NEW n \in 0..Len(h)
        PROVE  Replay(SubSeq(g, 1, n)) # None /\ Replay(SubSeq(g, 1, n)).state \notin Terminal
    <3>1. SubSeq(g, 1, n) = SubSeq(h, 1, n) /\ SubSeq(h, 1, Len(h)) = h
      BY <1>1, Beginnings
    <3>2. CASE n = Len(h)
      BY <1>2, <1>4, <3>1, <3>2
    <3>3. CASE n # Len(h)
      <4>1. n \in 0..(Len(h) - 1)
        BY <2>1, <3>3
      <4> QED BY <1>2, <3>1, <4>1 DEF IsOpenBefore
    <3> QED BY <3>2, <3>3
  <2> HIDE DEF g
  <2> QED BY <2>1, <2>2 DEF IsOpenBefore
<1>7. IsSupported(m)
  BY <1>2, SupportGrows
<1> HIDE DEF m, g, h
<1>8. IsSound("lifecycle", g)
  BY <1>1, <1>3, <1>5, <1>6, <1>7 DEF IsSound
<1> QED BY <1>3, <1>5, <1>8 DEF IsSoundObject, m

LEMMA SoundJournal ==
    ASSUME NEW h \in Seq(Results), HasOwnIds(h)
    PROVE  IsSound("journal", h) /\ IsSoundObject("journal", Journal(h))
<1>1. Rebuilt("journal", h) = Journal(h)
  BY JournalReads
<1> QED BY <1>1, JournalIsObject DEF IsSound, IsSoundObject

LEMMA ExecutedIsSound ==
    ASSUME NEW l \in Objects, IsSoundObject("journal", l), NEW e \in Results, IsNew(l, e)
    PROVE  IsSoundObject("journal", Commit(l, e)) /\ Commit(l, e) \in Objects
           /\ Commit(l, e).history = Append(l.history, e)
<1> DEFINE h == l.history
           g == Append(h, e)
<1>1. h \in Seq(Results) /\ HasOwnIds(h)
  BY DEF IsSoundObject, IsSound
<1>2. l = Journal(h)
  BY <1>1, JournalReads DEF IsSoundObject
<1>3. e.kind = "EXECUTED" /\ e \in Stored
  BY ResultsAreTyped
<1>4. Commit(l, e) = [l EXCEPT !.history = g]
  BY <1>3, CommitAppends
<1>5. g \in Seq(Results)
  BY <1>1, AppendProperties
<1>6. HasOwnIds(g)
  <2>1. \A i \in 1..Len(h) : h[i].id # e.id
    BY <1>1, LenProperties DEF IsNew, Recorded
  <2>2. /\ Len(g) = Len(h) + 1 /\ Len(h) \in Nat /\ g[Len(h) + 1] = e
        /\ \A i \in 1..Len(h) : g[i] = h[i]
        /\ DOMAIN g = 1..Len(g) /\ DOMAIN h = 1..Len(h)
    BY <1>1, <1>5, AppendProperties, LenProperties
  <2> HIDE DEF g, h
  <2> QED BY <1>1, <2>1, <2>2 DEF HasOwnIds
<1> HIDE DEF g, h
<1>7. Commit(l, e) = Journal(g)
  BY <1>2, <1>4 DEF Journal, New
<1> QED BY <1>5, <1>6, <1>7, JournalIsObject, SoundJournal DEF g, h

\* What a sound object is written as is sound, and has the same entries.
LEMMA WrittenIsSound ==
    ASSUME NEW kind \in {"lifecycle", "journal"}, NEW l, IsSoundObject(kind, l)
    PROVE  /\ IsSound(kind, Written(kind, l))
           /\ EntriesOf(kind, Written(kind, l)) = EntriesOf(kind, l.history)
<1>1. CASE kind = "lifecycle"
  BY <1>1 DEF Written, IsSoundObject
<1>2. CASE kind = "journal"
  <2> DEFINE h == l.history
             R == Recorded(l)
             s == SetToSeq(R)
  <2>1. h \in Seq(Results) /\ HasOwnIds(h) /\ Len(h) \in Nat /\ DOMAIN h = 1..Len(h)
    BY <1>2, LenProperties DEF IsSoundObject, IsSound
  <2>2. R = {h[i] : i \in 1..Len(h)} /\ R \subseteq Results
    BY <2>1, ElementOfSeq DEF Recorded
  <2> HIDE DEF h, R
  <2>3. h \in Bijection(1..Len(h), R)
    <3>1. h \in [1..Len(h) -> R]
      BY <2>1, <2>2
    <3>2. \A i, j \in 1..Len(h) : h[i] = h[j] => i = j
      BY <2>1 DEF HasOwnIds
    <3>3. \A e \in R : \E i \in 1..Len(h) : h[i] = e
      BY <2>2
    <3> QED BY <3>1, <3>2, <3>3 DEF Bijection, Injection, Surjection, IsInjective
  <2>4. IsFiniteSet(R) /\ Cardinality(R) = Len(h)
    <3>1. ExistsBijection(1..Len(h), R)
      BY <2>3 DEF ExistsBijection
    <3> QED BY <2>1, <3>1, FS_CountingElements, FS_NatBijection
  <2>5. s \in [1..Len(h) -> R] /\ IsInjective(s)
    <3>1. h \in [1..Len(h) -> R] /\ IsInjective(h)
      BY <2>3 DEF Bijection, Injection
    <3>2. \E f \in [1..Cardinality(R) -> R] : IsInjective(f)
      BY <2>4, <3>1
    <3> HIDE DEF s
    <3>3. s = CHOOSE f \in [1..Cardinality(R) -> R] : IsInjective(f)
      BY DEF s, SetToSeq
    <3> QED BY <2>4, <3>2, <3>3
  <2> HIDE DEF s
  <2>6. s \in Surjection(1..Len(h), R)
    <3>1. s \in Injection(1..Len(h), R)
      BY <2>5 DEF Injection
    <3>2. Cardinality(1..Len(h)) = Len(h)
      BY <2>1, FS_Interval
    <3> QED BY <2>4, <3>1, <3>2, FS_Injection
  <2>7. s \in Seq(Results) /\ Range(s) = R
    <3>1. s \in [1..Len(h) -> Results]
      BY <2>2, <2>5
    <3>2. Range(s) = {s[i] : i \in 1..Len(h)}
      BY <2>5 DEF Range
    <3>3. \A e \in R : \E i \in 1..Len(h) : s[i] = e
      BY <2>6 DEF Surjection
    <3> QED BY <2>1, <2>5, <3>1, <3>2, <3>3
  <2>8. HasOwnIds(s)
    <3> SUFFICES ASSUME NEW i \in 1..Len(h), NEW j \in 1..Len(h), s[i].id = s[j].id
                 PROVE  i = j
      BY <2>5 DEF HasOwnIds
    <3>1. PICK a \in 1..Len(h) : h[a] = s[i]
      BY <2>2, <2>5
    <3>2. PICK b \in 1..Len(h) : h[b] = s[j]
      BY <2>2, <2>5
    <3>3. a = b
      BY <2>1, <3>1, <3>2 DEF HasOwnIds
    <3> QED BY <2>5, <3>1, <3>2, <3>3 DEF IsInjective
  <2>9. Range(h) = R
    BY <2>1, <2>2 DEF Range
  <2>10. Written(kind, l) = s
    BY <1>2 DEF Written, s, R
  <2>11. IsSound(kind, s)
    BY <1>2, <2>7, <2>8, SoundJournal
  <2>12. EntriesOf(kind, s) = EntriesOf(kind, h)
    BY <1>2, <2>7, <2>9 DEF EntriesOf
  <2> QED BY <2>10, <2>11, <2>12 DEF h
<1> QED BY <1>1, <1>2

\* Growing histories: an entry more, and what lies behind the entries of a lifecycle.
LEMMA AppendGrows ==
    ASSUME NEW kind, NEW h \in Seq(Stored), NEW e \in Stored
    PROVE  EntriesOf(kind, h) \subseteq EntriesOf(kind, Append(h, e))
<1>1. /\ Len(Append(h, e)) = Len(h) + 1 /\ Len(h) \in Nat
      /\ DOMAIN h = 1..Len(h) /\ DOMAIN Append(h, e) = 1..(Len(h) + 1)
      /\ \A n \in 1..Len(h) : Append(h, e)[n] = h[n]
  BY AppendProperties, LenProperties
<1> DEFINE g == Append(h, e)
<1> HIDE DEF g
<1>2. \A i \in DOMAIN h : i \in DOMAIN g /\ g[i] = h[i]
  BY <1>1 DEF g
<1>3. EntriesOf(kind, h) \subseteq EntriesOf(kind, g)
  BY <1>2 DEF EntriesOf, Range
<1> QED BY <1>3 DEF g

LEMMA GrownIsLonger ==
    ASSUME NEW g \in Seq(Stored), NEW h \in Seq(Stored),
           EntriesOf("lifecycle", g) \subseteq EntriesOf("lifecycle", h)
    PROVE  Len(g) <= Len(h) /\ g = SubSeq(h, 1, Len(g))
<1>1. Len(g) \in Nat /\ Len(h) \in Nat /\ DOMAIN g = 1..Len(g) /\ DOMAIN h = 1..Len(h)
  BY LenProperties
<1>2. \A i \in 1..Len(g) : i \in 1..Len(h) /\ h[i] = g[i]
  <2> TAKE i \in 1..Len(g)
  <2>1. <<i, g[i]>> \in EntriesOf("lifecycle", h)
    BY <1>1 DEF EntriesOf
  <2>2. PICK j \in 1..Len(h) : <<i, g[i]>> = <<j, h[j]>>
    BY <1>1, <2>1 DEF EntriesOf
  <2> QED BY <2>2
<1>3. Len(g) <= Len(h)
  BY <1>1, <1>2
<1>4. g = SubSeq(h, 1, Len(g))
  BY <1>1, <1>2, <1>3
<1> QED BY <1>3, <1>4

LEMMA JournalNeverEnds ==
    ASSUME NEW h, IsSound("journal", h)
    PROVE  ~ Ended(h)
<1>1. Replay(h) = Journal(h) /\ h \in Seq(Results)
  BY JournalReads DEF IsSound, Replay
<1> QED BY <1>1, JournalIsObject DEF Ended, Terminal

\* A history that goes on has not ended.
LEMMA GrownWasOpen ==
    ASSUME NEW kind \in {"lifecycle", "journal"}, NEW g, NEW h, IsSound(kind, g), IsSound(kind, h),
           EntriesOf(kind, g) \subseteq EntriesOf(kind, h), g # h
    PROVE  ~ Ended(g)
<1>0. g \in Seq(Stored) /\ h \in Seq(Stored)
  BY SoundIsStored
<1>1. CASE kind = "lifecycle"
  <2>1. Len(g) <= Len(h) /\ g = SubSeq(h, 1, Len(g))
    BY <1>0, <1>1, GrownIsLonger
  <2>2. Len(g) \in Nat /\ Len(h) \in Nat /\ SubSeq(h, 1, Len(h)) = h
    BY <1>0, LenProperties
  <2>3. Len(g) \in 0..(Len(h) - 1)
    BY <2>1, <2>2
  <2> QED BY <1>1, <2>1, <2>3 DEF IsSound, IsOpenBefore, Ended
<1>2. CASE kind = "journal"
  BY <1>2, JournalNeverEnds
<1> QED BY <1>1, <1>2

----------------------------------------------------------------------------
(***************************************************************************)
(* The invariant.                                                          *)
(***************************************************************************)

LEMMA WriterHolds ==
    ASSUME RecordsInv, NEW w \in Writers, object[w] # None
    PROVE  /\ object[w] \in Objects /\ IsSoundObject(store, object[w])
           /\ Serialize(object[w]) = Written(store, object[w])
           /\ IsSound(store, Serialize(object[w]))
           /\ Serialize(object[w]) \in Seq(Stored)
           /\ Serialize(object[w]) # None /\ Serialize(object[w]) # Partial
           /\ EntriesOf(store, Serialize(object[w])) = EntriesOf(store, object[w].history)
<1>1. object[w] \in Objects /\ IsSoundObject(store, object[w])
  BY DEF RecordsInv, RecordTypes, HistoriesAreSound
<1>2. store \in {"lifecycle", "journal"}
  BY DEF RecordsInv, RecordTypes
<1>3. Serialize(object[w]) = Written(store, object[w])
  BY DEF Serialize, Written
<1>4. /\ IsSound(store, Written(store, object[w]))
      /\ EntriesOf(store, Written(store, object[w])) = EntriesOf(store, object[w].history)
  BY <1>1, <1>2, WrittenIsSound
<1>5. Written(store, object[w]) \in Seq(Stored)
  BY <1>4, SoundIsStored
<1> QED BY <1>1, <1>3, <1>4, <1>5, NoneIsNone

LEMMA InitHolds == Init => RecordsInv
<1> SUFFICES ASSUME Init PROVE RecordsInv
  OBVIOUS
<1>1. RecordTypes
  BY ConstantsAreTyped, EmptySeq DEF Init, RecordTypes
<1>2. HistoriesAreSound
  BY NewIsSound DEF Init, HistoriesAreSound, HasHistory
<1>3. HistoriesGrow
  <2>1. EntriesOf(store, <<>>) = {}
    BY DEF EntriesOf, Range
  <2> QED BY <2>1 DEF Init, HistoriesGrow
<1>4. OneInStore
  BY DEF Init, OneInStore
<1> QED BY <1>1, <1>2, <1>3, <1>4 DEF RecordsInv

\* The object of a writer outside the store changes, by a call that leaves it sound.
ObjectStep(w) ==
    /\ writerAt[w] = "idle"
    /\ \E l : /\ object' = [object EXCEPT ![w] = l]
              /\ l \in Objects /\ IsSoundObject(store, l)
              /\ object[w] # None =>
                    EntriesOf(store, object[w].history) \subseteq EntriesOf(store, l.history)
    /\ UNCHANGED <<fileVars, writerAt, digest, acknowledged, writerFaults>>

LEMMA ClientStep ==
    ASSUME RecordsInv, NEW w \in Writers, Client(w)
    PROVE  ObjectStep(w)
<1>1. CASE Construct(w)
  BY <1>1, NewIsSound, NewIsObject DEF Construct, ObjectStep
<1>2. ASSUME NEW e \in Events, Record(w, e) PROVE ObjectStep(w)
  <2> DEFINE l == Commit(object[w], e)
  <2>1. object[w] \in Objects /\ IsSoundObject("lifecycle", object[w]) /\ store = "lifecycle"
    BY <1>2, WriterHolds DEF Record
  <2>2. l \in Objects /\ IsSoundObject(store, l) /\ l.history = Append(object[w].history, e)
    BY <1>2, <2>1, RecordedIsSound, CommitAppends, EventsAreTyped DEF Record
  <2>3. EntriesOf(store, object[w].history) \subseteq EntriesOf(store, l.history)
    BY <2>1, <2>2, AppendGrows, EventsAreTyped DEF Objects, Stored
  <2> HIDE DEF l
  <2> QED BY <1>2, <2>2, <2>3 DEF Record, ObjectStep, l
<1>3. ASSUME NEW x \in Executions, Execute(w, x) PROVE ObjectStep(w)
  <2>1. PICK e \in Results : /\ IsNew(object[w], e)
                             /\ object' = [object EXCEPT ![w] = Commit(@, e)]
    BY <1>3 DEF Execute
  <2> DEFINE l == Commit(object[w], e)
  <2>2. object[w] \in Objects /\ IsSoundObject("journal", object[w]) /\ store = "journal"
    BY <1>3, WriterHolds DEF Execute
  <2>3. l \in Objects /\ IsSoundObject(store, l) /\ l.history = Append(object[w].history, e)
    BY <2>1, <2>2, ExecutedIsSound
  <2>4. EntriesOf(store, object[w].history) \subseteq EntriesOf(store, l.history)
    BY <2>2, <2>3, AppendGrows, ResultsAreTyped DEF Objects, Stored
  <2> HIDE DEF l
  <2> QED BY <1>3, <2>1, <2>3, <2>4 DEF Execute, ObjectStep, l
<1> QED BY <1>1, <1>2, <1>3 DEF Client

LEMMA LoadedIsSound ==
    ASSUME NEW kind, NEW h, IsSound(kind, h)
    PROVE  /\ Rebuilt(kind, h) \in Objects /\ Rebuilt(kind, h) # None
           /\ IsSoundObject(kind, Rebuilt(kind, h))
           /\ Rebuilt(kind, h).history = h
BY NoneIsNone DEF IsSound, IsSoundObject

LEMMA ObjectStepHolds ==
    ASSUME RecordsInv, NEW w \in Writers, ObjectStep(w)
    PROVE  RecordsInv'
<1>1. PICK l : /\ object' = [object EXCEPT ![w] = l]
               /\ l \in Objects /\ IsSoundObject(store, l)
               /\ object[w] # None =>
                     EntriesOf(store, object[w].history) \subseteq EntriesOf(store, l.history)
  BY DEF ObjectStep
<1>2. writerAt[w] = "idle"
      /\ UNCHANGED <<store, file, settled, writerAt, digest, acknowledged, writerFaults>>
  BY DEF ObjectStep, fileVars
<1>3. l # None /\ object'[w] = l /\ \A v \in Writers : v # w => object'[v] = object[v]
  BY <1>1, NoneIsNone DEF RecordsInv, RecordTypes
<1>4. RecordTypes'
  BY <1>1, <1>2 DEF RecordsInv, RecordTypes
<1>5. HistoriesAreSound'
  BY <1>1, <1>2, <1>3 DEF RecordsInv, HistoriesAreSound, HasHistory
<1>6. HistoriesGrow'
  BY <1>1, <1>2, <1>3 DEF RecordsInv, HistoriesGrow, HasHistory
<1>7. OneInStore'
  BY <1>2, <1>3 DEF RecordsInv, OneInStore, HasHistory, Serialize
<1> QED BY <1>4, <1>5, <1>6, <1>7 DEF RecordsInv

LEMMA LoadHolds ==
    ASSUME RecordsInv, NEW w \in Writers, Load(w)
    PROVE  RecordsInv'
<1> DEFINE l == Parse(file)
<1>1. /\ Unlocked /\ HasHistory
      /\ object' = [object EXCEPT ![w] = l] /\ digest' = [digest EXCEPT ![w] = file]
      /\ UNCHANGED <<store, file, settled, writerAt, acknowledged, writerFaults>>
  BY DEF Load, fileVars
<1>2. IsSound(store, file) /\ file \in Seq(Stored)
  BY <1>1, SoundIsStored DEF RecordsInv, HistoriesAreSound
<1>3. l \in Objects /\ l # None /\ IsSoundObject(store, l) /\ l.history = file
  BY <1>2, LoadedIsSound DEF Parse
<1> HIDE DEF l
<1>4. /\ object'[w] = l /\ digest'[w] = file
      /\ \A v \in Writers : v # w => object'[v] = object[v] /\ digest'[v] = digest[v]
  BY <1>1 DEF RecordsInv, RecordTypes
<1>5. RecordTypes'
  BY <1>1, <1>2, <1>3 DEF RecordsInv, RecordTypes
<1>6. HistoriesAreSound'
  BY <1>1, <1>2, <1>3, <1>4 DEF RecordsInv, HistoriesAreSound, HasHistory
<1>7. HistoriesGrow'
  BY <1>1, <1>3, <1>4 DEF RecordsInv, HistoriesGrow, HasHistory
<1>8. OneInStore'
  BY <1>1, <1>4 DEF RecordsInv, OneInStore, HasHistory, Serialize, Unlocked
<1> QED BY <1>5, <1>6, <1>7, <1>8 DEF RecordsInv

LEMMA CreateHolds ==
    ASSUME RecordsInv, NEW w \in Writers, CreateFile(w)
    PROVE  RecordsInv'
<1>1. /\ Unlocked /\ object[w] # None /\ file = None /\ file' = Partial
      /\ writerAt' = [writerAt EXCEPT ![w] = "writing"]
      /\ UNCHANGED <<store, settled, object, digest, acknowledged, writerFaults>>
  BY DEF CreateFile, Goto, clientVars
<1>2. writerAt'[w] = "writing" /\ \A v \in Writers : v # w => writerAt'[v] = "idle"
  BY <1>1 DEF RecordsInv, RecordTypes, Unlocked
<1>3. RecordTypes'
  BY <1>1 DEF RecordsInv, RecordTypes
<1>4. HistoriesAreSound'
  BY <1>1 DEF RecordsInv, HistoriesAreSound, HasHistory
<1>5. HistoriesGrow'
  BY <1>1 DEF RecordsInv, HistoriesGrow, HasHistory
<1>6. OneInStore'
  BY <1>1, <1>2 DEF OneInStore
<1> QED BY <1>3, <1>4, <1>5, <1>6 DEF RecordsInv

\* The file becomes what the writer in the store holds.
LEMMA WrittenHolds ==
    ASSUME RecordsInv, NEW w \in Writers, object[w] # None,
           file' = Serialize(object[w]),
           writerAt' = [writerAt EXCEPT ![w] = "syncing"],
           UNCHANGED <<store, settled, object, digest, acknowledged, writerFaults>>,
           \A v \in Writers : v # w => writerAt[v] = "idle",
           HasHistory => EntriesOf(store, file) \subseteq EntriesOf(store, file')
    PROVE  RecordsInv'
<1>1. /\ IsSound(store, file') /\ file' \in Seq(Stored)
      /\ file' # None /\ file' # Partial
  BY WriterHolds
<1>2. writerAt'[w] = "syncing" /\ \A v \in Writers : v # w => writerAt'[v] = "idle"
  BY DEF RecordsInv, RecordTypes
<1>3. RecordTypes'
  BY <1>1 DEF RecordsInv, RecordTypes
<1>4. HistoriesAreSound'
  BY <1>1 DEF RecordsInv, HistoriesAreSound, HasHistory
<1>5. HistoriesGrow'
  BY <1>1 DEF RecordsInv, HistoriesGrow, HasHistory
<1>6. OneInStore'
  <2>1. Serialize(object[w])' = Serialize(object[w])
    BY DEF Serialize
  <2> QED BY <1>1, <1>2, <2>1 DEF OneInStore, HasHistory
<1> QED BY <1>3, <1>4, <1>5, <1>6 DEF RecordsInv

\* What a replacement writes holds all that the file held.
LEMMA ReplacementGrows ==
    ASSUME RecordsInv, NEW w \in Writers, digest[w] # None, IsCurrent(w)
    PROVE  object[w] # None
           /\ EntriesOf(store, file) \subseteq EntriesOf(store, Serialize(object[w]))
BY WriterHolds DEF RecordsInv, HistoriesGrow, IsCurrent

LEMMA ReturnHolds ==
    ASSUME RecordsInv, NEW w \in Writers, Return(w)
    PROVE  RecordsInv'
<1>1. /\ writerAt[w] = "syncing" /\ settled' = file
      /\ digest' = [digest EXCEPT ![w] = Serialize(object[w])]
      /\ acknowledged' = Serialize(object[w])
      /\ writerAt' = [writerAt EXCEPT ![w] = "idle"]
      /\ UNCHANGED <<store, file, object, writerFaults>>
  BY DEF Return, Goto
<1>2. object[w] # None /\ HasHistory /\ file = Serialize(object[w])
  BY <1>1 DEF RecordsInv, OneInStore
<1>3. /\ IsSound(store, file) /\ file \in Seq(Stored) /\ file # None /\ file # Partial
      /\ EntriesOf(store, file) = EntriesOf(store, object[w].history)
  BY <1>2, WriterHolds
<1>4. /\ digest'[w] = file /\ acknowledged' = file /\ writerAt'[w] = "idle"
      /\ \A v \in Writers : v # w => digest'[v] = digest[v] /\ writerAt'[v] = writerAt[v]
  BY <1>1, <1>2 DEF RecordsInv, RecordTypes
<1>5. RecordTypes'
  BY <1>1, <1>2, <1>3 DEF RecordsInv, RecordTypes
<1>6. HistoriesAreSound'
  BY <1>1, <1>3, <1>4 DEF RecordsInv, HistoriesAreSound, HasHistory
<1>7. HistoriesGrow'
  BY <1>1, <1>2, <1>3, <1>4 DEF RecordsInv, HistoriesGrow, HasHistory
<1>8. OneInStore'
  BY <1>1, <1>4 DEF RecordsInv, OneInStore, HasHistory, Serialize
<1> QED BY <1>5, <1>6, <1>7, <1>8 DEF RecordsInv

LEMMA FaultHolds ==
    ASSUME RecordsInv, Fault
    PROVE  RecordsInv'
<1>0. writerFaults < MaxFaults => writerFaults + 1 \in 0..MaxFaults
  BY ConstantsAreTyped DEF RecordsInv, RecordTypes
<1>1. ASSUME NEW w \in Writers, OperationFails(w) PROVE RecordsInv'
  <2>1. /\ writerAt' = [writerAt EXCEPT ![w] = "idle"] /\ writerFaults' = writerFaults + 1
        /\ writerFaults < MaxFaults
        /\ UNCHANGED <<store, file, settled, object, digest, acknowledged>>
    BY <1>1 DEF OperationFails, Goto, fileVars, clientVars
  <2>2. writerAt'[w] = "idle" /\ \A v \in Writers : v # w => writerAt'[v] = writerAt[v]
    BY <2>1 DEF RecordsInv, RecordTypes
  <2>3. RecordTypes'
    BY <1>0, <2>1 DEF RecordsInv, RecordTypes
  <2>4. HistoriesAreSound' /\ HistoriesGrow'
    BY <2>1 DEF RecordsInv, HistoriesAreSound, HistoriesGrow, HasHistory
  <2>5. OneInStore'
    BY <2>1, <2>2 DEF RecordsInv, OneInStore, HasHistory, Serialize
  <2> QED BY <2>3, <2>4, <2>5 DEF RecordsInv
<1>2. ASSUME NEW w \in Writers, WriterDies(w) PROVE RecordsInv'
  <2>1. /\ writerAt' = [writerAt EXCEPT ![w] = "idle"] /\ writerFaults' = writerFaults + 1
        /\ writerFaults < MaxFaults
        /\ object' = [object EXCEPT ![w] = None] /\ digest' = [digest EXCEPT ![w] = None]
        /\ UNCHANGED <<store, file, settled, acknowledged>>
    BY <1>2 DEF WriterDies, Goto, fileVars
  <2>2. /\ writerAt'[w] = "idle" /\ object'[w] = None /\ digest'[w] = None
        /\ \A v \in Writers : v # w => /\ writerAt'[v] = writerAt[v]
                                       /\ object'[v] = object[v] /\ digest'[v] = digest[v]
    BY <2>1 DEF RecordsInv, RecordTypes
  <2>3. RecordTypes'
    BY <1>0, <2>1 DEF RecordsInv, RecordTypes
  <2>4. HistoriesAreSound'
    BY <2>1, <2>2 DEF RecordsInv, HistoriesAreSound, HasHistory
  <2>5. HistoriesGrow'
    BY <2>1, <2>2 DEF RecordsInv, HistoriesGrow, HasHistory
  <2>6. OneInStore'
    BY <2>1, <2>2 DEF RecordsInv, OneInStore, HasHistory, Serialize
  <2> QED BY <2>3, <2>4, <2>5, <2>6 DEF RecordsInv
<1>3. CASE PowerLoss
  <2>1. /\ file' \in {file, settled} /\ settled' = file' /\ writerFaults' = writerFaults + 1
        /\ writerFaults < MaxFaults
        /\ writerAt' = [w \in Writers |-> "idle"]
        /\ object' = [w \in Writers |-> None] /\ digest' = [w \in Writers |-> None]
        /\ UNCHANGED <<store, acknowledged>>
    BY <1>3 DEF PowerLoss
  <2>2. RecordTypes'
    BY <1>0, <2>1 DEF RecordsInv, RecordTypes
  <2>3. HistoriesAreSound'
    BY <2>1 DEF RecordsInv, HistoriesAreSound, HasHistory
  <2>4. HistoriesGrow'
    BY <2>1 DEF RecordsInv, HistoriesGrow, HasHistory
  <2>5. OneInStore'
    BY <2>1 DEF OneInStore
  <2> QED BY <2>2, <2>3, <2>4, <2>5 DEF RecordsInv
<1> QED BY <1>1, <1>2, <1>3 DEF Fault

LEMMA NextHolds == RecordsInv /\ [Next]_recordVars => RecordsInv'
<1> SUFFICES ASSUME RecordsInv, [Next]_recordVars PROVE RecordsInv'
  OBVIOUS
<1>1. ASSUME NEW w \in Writers, Client(w) PROVE RecordsInv'
  BY <1>1, ClientStep, ObjectStepHolds
<1>2. ASSUME NEW w \in Writers, WriteFile(w) PROVE RecordsInv'
  <2>1. object[w] # None /\ file = Partial /\ \A v \in Writers : v # w => writerAt[v] = "idle"
    BY <1>2 DEF WriteFile, RecordsInv, OneInStore
  <2> QED BY <1>2, <2>1, WrittenHolds DEF WriteFile, Goto, clientVars, HasHistory
<1>3. ASSUME NEW w \in Writers, ReplaceFile(w) PROVE RecordsInv'
  <2>1. object[w] # None
        /\ EntriesOf(store, file) \subseteq EntriesOf(store, Serialize(object[w]))
    BY <1>3, ReplacementGrows DEF ReplaceFile
  <2> QED BY <1>3, <2>1, WrittenHolds DEF ReplaceFile, Goto, clientVars, Unlocked
<1>4. CASE UNCHANGED recordVars
  BY <1>4 DEF recordVars, fileVars, clientVars, RecordsInv, RecordTypes, HistoriesAreSound,
              HistoriesGrow, OneInStore, HasHistory, Serialize
<1> QED BY <1>1, <1>2, <1>3, <1>4, LoadHolds, CreateHolds, ReturnHolds, FaultHolds
        DEF Next, Store

\* Whatever writers, events, executions and faults, what is kept is sound and grows.
THEOREM RecordsInvariance == Spec => []RecordsInv
<1> QED BY InitHolds, NextHolds, PTL DEF Spec

----------------------------------------------------------------------------
(***************************************************************************)
(* The theorems.                                                           *)
(***************************************************************************)

\* Objects, files and acknowledgements are well-formed, one writer at a time is in a
\* store, and a store never writes what it would refuse to load.
THEOREM RecordsAreWellFormed == Spec => []RecordsOK
<1>1. RecordsInv => RecordsOK
  <2> SUFFICES ASSUME RecordsInv PROVE RecordsOK
    OBVIOUS
  <2>1. /\ store \in {"lifecycle", "journal"}
        /\ settled \in {None, Partial} \/ settled \in Seq(Events \cup Results)
        /\ writerAt \in [Writers -> {"idle", "writing", "syncing"}]
        /\ acknowledged \in Seq(Events \cup Results)
        /\ writerFaults \in 0..MaxFaults
    BY DEF RecordsInv, RecordTypes, Stored
  <2>2. Cardinality({w \in Writers : writerAt[w] # "idle"}) <= 1
    <3> DEFINE busy == {w \in Writers : writerAt[w] # "idle"}
    <3>1. \A w, v \in busy : w = v
      BY DEF RecordsInv, OneInStore
    <3> SUFFICES Cardinality(busy) <= 1
      OBVIOUS
    <3> HIDE DEF busy
    <3>2. CASE busy = {}
      <4>1. Cardinality(busy) = 0
        BY <3>2, FS_EmptySet, Zenon
      <4> QED BY <4>1
    <3>3. CASE busy # {}
      <4>1. PICK w \in busy : busy = {w}
        BY <3>1, <3>3
      <4>2. Cardinality(busy) = 1
        BY <4>1, FS_Singleton, Zenon
      <4> QED BY <4>2
    <3> QED BY <3>2, <3>3
  <2>3. HasHistory => Parse(file) # None
    BY LoadedIsSound DEF RecordsInv, HistoriesAreSound, Parse
  <2>4. \A w \in Writers : object[w] # None => object[w] = Parse(object[w].history)
    BY DEF RecordsInv, HistoriesAreSound, IsSoundObject, Parse
  <2> QED BY <2>1, <2>2, <2>3, <2>4 DEF RecordsOK
<1> QED BY RecordsInvariance, <1>1, PTL

\* RECOVERED is earned by six steps in their order, in a history without anything to
\* the contrary, however writers recorded, repeated, saved and replayed events.
THEOREM RecoveriesAreEarned == Spec => []RecoveredIsEarned
<1>1. RecordsInv => RecoveredIsEarned
  <2> SUFFICES ASSUME RecordsInv, NEW w \in Writers, object[w] # None,
                      object[w].state = "RECOVERED"
               PROVE  /\ Earned(object[w])
                      /\ \A e \in Recorded(object[w]) : e.positive
    BY DEF RecoveredIsEarned
  <2> DEFINE l == object[w]
  <2>1. IsSoundObject(store, l) /\ store \in {"lifecycle", "journal"}
    BY DEF RecordsInv, RecordTypes, HistoriesAreSound
  <2>2. store = "lifecycle"
    <3> SUFFICES ASSUME store = "journal" PROVE FALSE
      BY <2>1
    <3>1. l.history \in Seq(Results) /\ HasOwnIds(l.history)
      BY <2>1 DEF IsSoundObject, IsSound
    <3>2. l = Journal(l.history)
      BY <2>1, <3>1, JournalReads DEF IsSoundObject
    <3> QED BY <3>1, <3>2, JournalIsObject
  <2>3. IsSupported(l)
    BY <2>1, <2>2 DEF IsSoundObject, IsSound
  <2>4. Passed(l.history, 6, l.execution) /\ \A e \in Recorded(l) : e.positive
    BY <2>3 DEF IsSupported
  <2>5. Earned(l)
    <3> HIDE DEF l
    <3>1. PICK i \in [1..6 -> 1..Len(l.history)] :
            /\ \A j \in 1..6 : l.history[i[j]].kind = Steps[j]
            /\ \A j \in 1..(6 - 1) : i[j] < i[j + 1]
            /\ \A j \in {4, 5} : j <= 6 => l.history[i[j]].execution = l.execution
      BY <2>4 DEF Passed
    <3>2. l.history[i[4]].execution = l.history[i[5]].execution
      BY <3>1
    <3>3. \A k \in 1..5 : i[k] < i[k + 1]
      BY <3>1
    <3> QED BY <3>1, <3>2, <3>3 DEF Earned
  <2> QED BY <2>4, <2>5
<1> QED BY RecordsInvariance, <1>1, PTL

\* The steps that change a file or an acknowledgement.
LEMMA HistorySteps ==
    ASSUME RecordsInv, [Next]_recordVars
    PROVE  \/ UNCHANGED <<file, acknowledged>>
           \/ \E w \in Writers : CreateFile(w) \/ WriteFile(w) \/ ReplaceFile(w) \/ Return(w)
           \/ PowerLoss
BY ClientStep DEF Next, Store, Fault, ObjectStep, Load, OperationFails, WriterDies,
                  recordVars, fileVars

\* A terminal history gets no further event, whoever loads it and whatever is lost.
THEOREM TerminalHistoriesAreFinal == Spec => TerminalIsFinal
<1>1. RecordsInv /\ RecordsInv' /\ [Next]_recordVars =>
        [/\ (HasHistory /\ HasHistory' /\ Len(file') > Len(file)) => ~Ended(file)
         /\ acknowledged' # acknowledged => ~Ended(acknowledged)]_recordVars
  <2> SUFFICES ASSUME RecordsInv, RecordsInv', [Next]_recordVars
               PROVE  /\ (HasHistory /\ HasHistory' /\ Len(file') > Len(file)) => ~Ended(file)
                      /\ acknowledged' # acknowledged => ~Ended(acknowledged)
    OBVIOUS
  <2>0. store \in {"lifecycle", "journal"} /\ IsSound(store, acknowledged)
        /\ (HasHistory => IsSound(store, file))
        /\ acknowledged \in Seq(Stored) /\ (HasHistory => file \in Seq(Stored))
    BY DEF RecordsInv, RecordTypes, HistoriesAreSound, HasHistory
  <2>1. CASE UNCHANGED <<file, acknowledged>>
    BY <2>0, <2>1, LenProperties
  <2>2. ASSUME NEW w \in Writers, CreateFile(w) \/ WriteFile(w)
        PROVE  UNCHANGED acknowledged /\ ~HasHistory
    BY <2>2 DEF CreateFile, WriteFile, HasHistory, RecordsInv, OneInStore
  <2>3. ASSUME NEW w \in Writers, ReplaceFile(w)
        PROVE  /\ UNCHANGED acknowledged
               /\ Len(file') > Len(file) => ~Ended(file)
    <3>1. /\ object[w] # None /\ HasHistory /\ file' = Serialize(object[w])
          /\ EntriesOf(store, file) \subseteq EntriesOf(store, file')
      BY <2>3, ReplacementGrows DEF ReplaceFile
    <3>2. IsSound(store, file')
      BY <3>1, WriterHolds
    <3>3. Len(file') > Len(file) => file # file'
      BY <2>0, <3>1, LenProperties
    <3> QED BY <2>0, <2>3, <3>1, <3>2, <3>3, GrownWasOpen DEF ReplaceFile
  <2>4. ASSUME NEW w \in Writers, Return(w)
        PROVE  /\ UNCHANGED file
               /\ acknowledged' # acknowledged => ~Ended(acknowledged)
    <3>1. HasHistory /\ acknowledged' = file /\ UNCHANGED file
      BY <2>4 DEF Return, RecordsInv, OneInStore
    <3>2. EntriesOf(store, acknowledged) \subseteq EntriesOf(store, file)
      BY DEF RecordsInv, HistoriesGrow
    <3> QED BY <2>0, <3>1, <3>2, GrownWasOpen
  <2>5. ASSUME PowerLoss
        PROVE  /\ UNCHANGED acknowledged
               /\ (HasHistory /\ HasHistory' /\ Len(file') > Len(file)) => ~Ended(file)
    <3> SUFFICES ASSUME HasHistory, HasHistory', Len(file') > Len(file) PROVE ~Ended(file)
      BY <2>5 DEF PowerLoss
    <3>1. file' = settled
      BY <2>0, <2>5, LenProperties DEF PowerLoss
    <3>2. IsSound(store, settled) /\ settled \in Seq(Stored)
          /\ EntriesOf(store, settled) \subseteq EntriesOf(store, file)
      BY <3>1, SoundIsStored DEF RecordsInv, HistoriesAreSound, HistoriesGrow, HasHistory
    <3>3. CASE store = "lifecycle"
      BY <2>0, <3>1, <3>2, <3>3, GrownIsLonger, LenProperties
    <3>4. CASE store = "journal"
      BY <2>0, <3>4, JournalNeverEnds
    <3> QED BY <2>0, <3>3, <3>4
  <2> QED BY <2>0, <2>1, <2>2, <2>3, <2>4, <2>5, HistorySteps, LenProperties
<1> QED BY RecordsInvariance, <1>1, PTL DEF Spec, TerminalIsFinal

\* Both stores implement a history that only grows and keeps what was acknowledged.
THEOREM AppendOnly == Spec => ImplementsAppendOnly
<1> DEFINE seen == IF HasHistory THEN Entries(file) ELSE {}
           kept == Entries(acknowledged)
<1>1. Init => Log!Init
  <2> SUFFICES ASSUME Init PROVE Log!Init
    OBVIOUS
  <2>1. Entries(<<>>) = {}
    BY DEF Entries, Range
  <2> QED BY <2>1 DEF Init, Log!Init, HasHistory
<1>2. RecordsInv /\ RecordsInv' /\ [Next]_recordVars =>
        [Log!Grow \/ Log!Acknowledge \/ Log!Lose]_<<seen, kept>>
  <2> SUFFICES ASSUME RecordsInv, RecordsInv', [Next]_recordVars
               PROVE  Log!Grow \/ Log!Acknowledge \/ Log!Lose \/ UNCHANGED <<seen, kept>>
    OBVIOUS
  <2>1. UNCHANGED store
    BY ClientStep DEF Next, Store, Fault, ObjectStep, Load, CreateFile, WriteFile, ReplaceFile,
                      Return, OperationFails, WriterDies, PowerLoss, recordVars, fileVars
  <2>2. /\ seen = (IF HasHistory THEN EntriesOf(store, file) ELSE {})
        /\ seen' = (IF HasHistory' THEN EntriesOf(store, file') ELSE {})
        /\ kept = EntriesOf(store, acknowledged) /\ kept' = EntriesOf(store, acknowledged')
    BY <2>1 DEF Entries, EntriesOf
  <2> HIDE DEF seen, kept
  <2>3. CASE UNCHANGED <<file, acknowledged>>
    BY <2>2, <2>3 DEF HasHistory
  <2>4. ASSUME NEW w \in Writers, CreateFile(w) \/ WriteFile(w) PROVE seen = {} /\ kept' = kept
    BY <2>2, <2>4 DEF CreateFile, WriteFile, HasHistory, RecordsInv, OneInStore
  <2>5. ASSUME NEW w \in Writers, ReplaceFile(w) PROVE seen \subseteq seen' /\ kept' = kept
    <3>1. /\ object[w] # None /\ HasHistory /\ file' = Serialize(object[w])
          /\ EntriesOf(store, file) \subseteq EntriesOf(store, file')
          /\ UNCHANGED acknowledged
      BY <2>5, ReplacementGrows DEF ReplaceFile
    <3>2. HasHistory'
      BY <3>1, WriterHolds DEF HasHistory
    <3> QED BY <2>2, <3>1, <3>2
  <2>6. ASSUME NEW w \in Writers, Return(w)
        PROVE  kept \subseteq kept' /\ kept' \subseteq seen /\ seen' = seen
    <3>1. HasHistory /\ acknowledged' = file /\ UNCHANGED file
      BY <2>6 DEF Return, RecordsInv, OneInStore
    <3>2. EntriesOf(store, acknowledged) \subseteq EntriesOf(store, file)
      BY DEF RecordsInv, HistoriesGrow
    <3> QED BY <2>2, <3>1, <3>2 DEF HasHistory
  <2>7. ASSUME PowerLoss PROVE seen' \subseteq seen /\ kept \subseteq seen' /\ kept' = kept
    <3>1. file' \in {file, settled} /\ settled' = file' /\ UNCHANGED <<store, acknowledged>>
      BY <2>7 DEF PowerLoss
    <3>2. seen' \subseteq seen
      BY <2>2, <3>1 DEF RecordsInv, HistoriesGrow, HasHistory
    <3>3. kept \subseteq seen'
      BY <2>2, <3>1 DEF RecordsInv, HistoriesGrow, HasHistory
    <3> QED BY <2>2, <3>1, <3>2, <3>3
  <2>8. kept = kept' /\ seen \subseteq seen' => Log!Grow
    BY DEF Log!Grow, seen, kept
  <2>9. kept \subseteq kept' /\ kept' \subseteq seen /\ seen' = seen => Log!Acknowledge
    BY DEF Log!Acknowledge, seen, kept
  <2>10. seen' \subseteq seen /\ kept \subseteq seen' /\ kept' = kept => Log!Lose
    BY DEF Log!Lose, seen, kept
  <2> QED BY <2>3, <2>4, <2>5, <2>6, <2>7, <2>8, <2>9, <2>10, HistorySteps
<1> QED BY RecordsInvariance, <1>1, <1>2, PTL DEF Spec, ImplementsAppendOnly, Log!Spec

(***************************************************************************)
(*                              The ledgers                                *)
(***************************************************************************)

----------------------------------------------------------------------------
(***************************************************************************)
(* The inductive invariant.                                                *)
(***************************************************************************)

\* The points of the call that has won a claim and has not recorded an outcome.
Owning == {"making", "claimed", "starting", "running", "executing", "finishing", "closing"}

Points == Owning \cup {"idle", "replacing", "returning"}

\* Nothing, or a directory without a record.
Bare == {NoRecord, Empty}

Records == Bare \cup [state : States, contents : Contents]

\* The outcomes that say what became of the effect: an agent attempt may be UNKNOWN
\* only because a replay has closed it.
Verdicts(i) == IF i \in Agents THEN {"SUCCEEDED", "FAILED"} ELSE Outcomes

Replaced(i) == IF i \in Agents THEN {"UNKNOWN"} ELSE {}

TypesOK ==
    /\ record \in [Ids -> Records]
    /\ durable \in [Ids -> Records]
    /\ call \in [Callers -> [at : Points, id : Ids \cup {"none"},
                             contents : Contents \cup {"none"}, answer : Outcomes]]
    /\ effect \in [Ids -> {"none", "begun", "unverified"} \cup Outcomes]
    /\ effects \in [Ids -> {0, 1}]
    /\ effectOf \in [Ids -> Contents \cup {"none"}]
    /\ told \in [Ids -> SUBSET Outcomes]
    /\ aborts \in 0..MaxAborts

\* What a call finds at its point: a record bound to its contents that is the one it has
\* written, or the UNKNOWN of a replay.
Bound(c) ==
    LET i == call[c].id IN
    /\ ~At(c, "idle") => i \in Ids /\ call[c].contents \in Contents
    /\ At(c, "making") => i \in Agents /\ record[i] = Empty
    /\ At(c, "replacing") => i \in Agents /\ call[c].answer = "UNKNOWN"
    /\ ~At(c, "idle") /\ ~At(c, "making") =>
          record[i].state \in States /\ record[i].contents = call[c].contents
    /\ call[c].at \in {"claimed", "starting"} =>
          record[i].state \in {"CLAIMED"} \cup Replaced(i)
    /\ call[c].at \in {"running", "executing", "finishing", "closing"} =>
          record[i].state \in {"RUNNING"} \cup Replaced(i)
    /\ call[c].at \in {"executing", "finishing", "closing"} =>
          durable[i].state \in {"RUNNING"} \cup Replaced(i)

CallsAreBound == \A c \in Callers : Bound(c)

\* A claim has one winner.
OneOwner ==
    \A c, d \in Callers :
        call[c].at \in Owning /\ call[d].at \in Owning /\ call[c].id = call[d].id => c = d

\* What a power loss may leave: the record of an effect stays bound to its contents, and
\* the outcome of a delivery stays as it is.
RecordsAreKept ==
    \A i \in Ids :
        /\ record[i] = NoRecord => durable[i] = NoRecord
        /\ record[i] = Empty => durable[i] \in Bare
        /\ durable[i] \notin Bare => durable[i].contents = record[i].contents
        /\ effects[i] = 1 => durable[i] \notin Bare /\ record[i].contents = effectOf[i]
        /\ i \in Deliveries /\ durable[i].state \in Outcomes => record[i] = durable[i]

\* No effect before the winner of the claim performs it.
EffectsAreOwned ==
    \A c \in Callers :
        /\ call[c].at \in {"making", "claimed", "starting", "running"} =>
              effects[call[c].id] = 0 /\ effect[call[c].id] = "none"
        /\ At(c, "executing") => effects[call[c].id] = 1

\* Nobody was told, has read or is about to return what became of the effect.
Fresh(i) ==
    /\ told[i] \cap Verdicts(i) = {}
    /\ record[i].state \notin Verdicts(i)
    /\ durable[i].state \notin Verdicts(i)
    /\ \A c \in Callers : At(c, "returning") /\ call[c].id = i => call[c].answer \notin Verdicts(i)

FreshFor(c) == Fresh(call[c].id)

\* So it is as long as a power loss can undo the claim, and until the effect is over.
FreshUntilDone ==
    /\ \A i \in Ids : durable[i] \in Bare => Fresh(i) /\ effects[i] = 0 /\ effect[i] = "none"
    /\ \A c \in Callers : call[c].at \in Owning \ {"finishing", "closing"} => FreshFor(c)

\* An outcome that is true of the effect.
Agrees(i, s) ==
    /\ s = "SUCCEEDED" => effect[i] = "SUCCEEDED"
    /\ s = "FAILED" => effect[i] \in {"none", "unverified", "FAILED"}
    /\ s = "UNKNOWN" /\ i \in Deliveries => effect[i] = "UNKNOWN"

AnswerIsTrue(c) == Agrees(call[c].id, call[c].answer)

\* Every outcome that was told, is on record or is on its way is true.
VerdictsAgree ==
    /\ \A i \in Ids : \A s \in told[i] \cup {record[i].state, durable[i].state} : Agrees(i, s)
    /\ \A c \in Callers : call[c].at \in {"finishing", "closing", "returning"}
                              => AnswerIsTrue(c)

LedgerInv ==
    /\ TypesOK /\ CallsAreBound /\ OneOwner /\ RecordsAreKept
    /\ EffectsAreOwned /\ FreshUntilDone /\ VerdictsAgree

----------------------------------------------------------------------------
(***************************************************************************)
(* What a step of a caller does, seen at its identity.                     *)
(***************************************************************************)

CallerStep(c) == Claim(c) \/ Proceed(c) \/ Finish(c) \/ AbortCall(c)

\* Everything that is known of an identity, but its record.
SameEffect(i) == UNCHANGED <<effect[i], effects[i], effectOf[i]>>

Untouched(i) == UNCHANGED <<record[i], durable[i], told[i]>> /\ SameEffect(i)

\* A call goes on from one point to the next.
Goes(c, i, from, to) ==
    /\ call[c].at = from /\ call'[c].at = to
    /\ call[c].id = i /\ call'[c].id = i /\ call'[c].contents = call[c].contents

Answering(c) == call'[c].answer = call[c].answer

\* A call begins for an identity.
Enters(c, i, to) ==
    /\ call[c].at = "idle" /\ call'[c].at = to
    /\ call'[c].id = i /\ call'[c].contents \in Contents /\ call'[c].answer = "UNKNOWN"

\* It returns or stops.
Ends(c, i) == call[c].at # "idle" /\ call[c].id = i /\ call'[c].at = "idle"

Claims(c, i) ==
    /\ record[i] = NoRecord
    /\ \/ i \in Agents /\ Enters(c, i, "making") /\ record'[i] = Empty
       \/ /\ i \notin Agents /\ Enters(c, i, "claimed")
          /\ record'[i] = RecordOf("CLAIMED", call'[c].contents)
    /\ SameEffect(i) /\ UNCHANGED <<durable[i], told[i]>>

Replays(c, i) ==
    \/ /\ call'[c] = call[c] /\ call[c].at = "idle"
       /\ record[i].state \in Outcomes /\ told'[i] = told[i] \cup {record[i].state}
       /\ SameEffect(i) /\ UNCHANGED <<record[i], durable[i]>>
    \/ /\ Enters(c, i, "replacing") /\ i \in Agents
       /\ record[i].state \in Incomplete /\ record[i].contents = call'[c].contents
       /\ Untouched(i)

Writes(c, i) ==
    /\ \/ Goes(c, i, "making", "claimed") /\ record'[i] = RecordOf("CLAIMED", call[c].contents)
       \/ Goes(c, i, "starting", "running") /\ record'[i] = RecordOf("RUNNING", call[c].contents)
       \/ Goes(c, i, "replacing", "returning") /\ record'[i] = RecordOf("UNKNOWN", call[c].contents)
       \/ /\ Goes(c, i, "closing", "returning")
          /\ record'[i] = RecordOf(call[c].answer, call[c].contents)
    /\ Answering(c) /\ SameEffect(i) /\ UNCHANGED <<durable[i], told[i]>>

Syncs(c, i) ==
    /\ durable'[i] = record[i] /\ UNCHANGED record[i]
    /\ \/ /\ Goes(c, i, "claimed", "starting") \/ (At(c, "claimed") /\ Ends(c, i))
          /\ SameEffect(i) /\ UNCHANGED told[i]
       \/ /\ Goes(c, i, "running", "executing")
          /\ effect'[i] = "begun" /\ effects'[i] = effects[i] + 1
          /\ effectOf'[i] = call[c].contents /\ UNCHANGED told[i]
       \/ /\ Goes(c, i, "running", "finishing") /\ i \in Agents /\ call'[c].answer = "FAILED"
          /\ SameEffect(i) /\ UNCHANGED told[i]
       \/ /\ At(c, "returning") /\ Ends(c, i)
          /\ SameEffect(i) /\ told'[i] = told[i] \cup {call[c].answer}

Effects(c, i) ==
    /\ Goes(c, i, "executing", "finishing")
    /\ effect'[i] \in {"unverified"} \cup Outcomes /\ call'[c].answer \in Outcomes
    /\ AnswerIsTrue(c)'
    /\ UNCHANGED <<record[i], durable[i], told[i], effects[i], effectOf[i]>>

Finishes(c, i) ==
    \/ Goes(c, i, "finishing", "closing") /\ Answering(c) /\ Untouched(i)
    \/ /\ At(c, "finishing") /\ Ends(c, i)
       /\ record[i].state = "UNKNOWN" /\ told'[i] = told[i] \cup {"UNKNOWN"}
       /\ SameEffect(i) /\ UNCHANGED <<record[i], durable[i]>>
    \/ Ends(c, i) /\ Untouched(i)

StepForm(c, i) ==
    \/ Claims(c, i) \/ Replays(c, i) \/ Writes(c, i)
    \/ Syncs(c, i) \/ Effects(c, i) \/ Finishes(c, i)

\* The contents of a request and the id it names.
LEMMA CallFields ==
    ASSUME NEW point, NEW r, NEW answer
    PROVE  /\ Call(point, r, answer).at = point /\ Call(point, r, answer).id = r.id
           /\ Call(point, r, answer).contents = r.contents /\ Call(point, r, answer).answer = answer
  BY DEF Call

\* What an execution or a delivery reports is true of its effect.
LEMMA EffectEnds ==
    ASSUME LedgerConstants, NEW c \in Callers, ExecuteAgent(c) \/ Deliver(c)
    PROVE  \E result \in {"unverified"} \cup Outcomes, answer \in Outcomes :
              /\ EndEffect(c, result, answer)
              /\ answer = "SUCCEEDED" => result = "SUCCEEDED"
              /\ answer = "FAILED" => result \in {"unverified", "FAILED"}
              /\ answer = "UNKNOWN" /\ call[c].id \in Deliveries => result = "UNKNOWN"
  <1>1. CASE ExecuteAgent(c)
    <2>1. PICK o \in BoundaryOutcomes :
              EndEffect(c, IF o.accepted THEN "SUCCEEDED" ELSE "unverified", StateOf(o))
      BY <1>1 DEF ExecuteAgent
    <2>2. /\ StateOf(o) \in Outcomes
          /\ StateOf(o) = "SUCCEEDED" => o.accepted
          /\ StateOf(o) = "FAILED" => ~o.accepted
      <3>1. CASE o = Accepted
        BY <3>1 DEF StateOf, Accepted, Outcomes
      <3>2. CASE o # Accepted
        <4>1. o.accepted = FALSE
          <5>1. o \in BoundaryOutcomes
            BY <2>1
          <5>2. CASE o = AdapterRaised
            BY <5>2 DEF AdapterRaised
          <5>3. CASE o # AdapterRaised
            <6>1. o.accepted \in {FALSE}
              BY <3>2, <5>1, <5>3 DEF BoundaryOutcomes
            <6> QED
              BY <6>1
          <5> QED
            BY <5>2, <5>3
        <4>2. StateOf(o) = IF o.error = "adapter" THEN "UNKNOWN" ELSE "FAILED"
          BY <4>1 DEF StateOf
        <4> QED
          BY <4>1, <4>2 DEF Outcomes
      <3> QED
        BY <3>1, <3>2
    <2>3. (IF o.accepted THEN "SUCCEEDED" ELSE "unverified") \in {"unverified"} \cup Outcomes
      BY DEF Outcomes
    <2>4. call[c].id \notin Deliveries
      BY <1>1 DEF ExecuteAgent, LedgerConstants
    <2> QED
      BY <2>1, <2>2, <2>3, <2>4
  <1>2. CASE Deliver(c)
    BY <1>2 DEF Deliver, Outcomes
  <1> QED
    BY <1>1, <1>2

\* Every step of a caller has one of the forms, at one identity, and leaves the other
\* callers and identities alone.
LEMMA StepForms ==
    ASSUME LedgerConstants, TypesOK, CallsAreBound, NEW c \in Callers, CallerStep(c)
    PROVE  /\ \A d \in Callers \ {c} : call'[d] = call[d]
           /\ \E i \in Ids : StepForm(c, i) /\ \A j \in Ids \ {i} : Untouched(j)
  <1> USE DEF TypesOK, At, CallGoto, End, effectVars, Untouched, SameEffect
  <1>0. call[c].at # "idle" => call[c].id \in Ids
    BY DEF CallsAreBound, Bound
  <1>1. ASSUME NEW r \in Requests, ClaimNew(c, r)
        PROVE  /\ \A d \in Callers \ {c} : call'[d] = call[d]
               /\ Claims(c, r.id) /\ r.id \in Ids /\ \A j \in Ids \ {r.id} : Untouched(j)
    <2>1. r.id \in Ids /\ r.contents \in Contents
      BY DEF Requests
    <2>2. CASE r.id \in Agents
      BY <1>1, <2>1, <2>2, CallFields DEF ClaimNew, Claims, Enters, IsFree
    <2>3. CASE r.id \notin Agents
      BY <1>1, <2>1, <2>3, CallFields DEF ClaimNew, Claims, Enters, IsFree
    <2> QED
      BY <2>2, <2>3
  <1>2. ASSUME NEW r \in Requests, ReplayComplete(c, r) \/ ReplayIncomplete(c, r)
        PROVE  /\ \A d \in Callers \ {c} : call'[d] = call[d]
               /\ Replays(c, r.id) /\ r.id \in Ids /\ \A j \in Ids \ {r.id} : Untouched(j)
    <2>1. r.id \in Ids /\ r.contents \in Contents
      BY DEF Requests
    <2>2. CASE ReplayComplete(c, r)
      BY <2>1, <2>2 DEF ReplayComplete, Tell, Replays
    <2>3. CASE ReplayIncomplete(c, r)
      BY <2>1, <2>3, CallFields DEF ReplayIncomplete, Continues, Replays, Enters
    <2> QED
      BY <1>2, <2>2, <2>3
  <1>3. CASE WriteClaim(c) \/ CloseIncomplete(c) \/ WriteRunning(c) \/ WriteOutcome(c)
    <2>1. CASE WriteClaim(c)
      BY <1>0, <2>1 DEF WriteClaim, Write, Writes, Goes, Answering, StepForm
    <2>2. CASE CloseIncomplete(c)
      BY <1>0, <2>2 DEF CloseIncomplete, Write, Writes, Goes, Answering, StepForm
    <2>3. CASE WriteRunning(c)
      BY <1>0, <2>3 DEF WriteRunning, Write, Writes, Goes, Answering, StepForm
    <2>4. CASE WriteOutcome(c)
      BY <1>0, <2>4 DEF WriteOutcome, Write, Writes, Goes, Answering, StepForm
    <2> QED
      BY <1>3, <2>1, <2>2, <2>3, <2>4
  <1>4. CASE Start(c) \/ BeginEffect(c) \/ SkipEffect(c) \/ ReturnAnswer(c)
    <2>1. CASE Start(c)
      BY <1>0, <2>1, CallFields DEF Start, Sync, Syncs, Goes, Ends, StepForm, Idle
    <2>2. CASE BeginEffect(c)
      BY <1>0, <2>2 DEF BeginEffect, Begin, Sync, Syncs, Goes, StepForm
    <2>3. CASE SkipEffect(c)
      BY <1>0, <2>3 DEF SkipEffect, Sync, Syncs, Goes, StepForm
    <2>4. CASE ReturnAnswer(c)
      BY <1>0, <2>4, CallFields DEF ReturnAnswer, Sync, Syncs, Tell, Ends, StepForm, Idle
    <2> QED
      BY <1>4, <2>1, <2>2, <2>3, <2>4
  <1>5. CASE ExecuteAgent(c) \/ Deliver(c)
    <2>1. PICK result \in {"unverified"} \cup Outcomes, answer \in Outcomes :
              /\ EndEffect(c, result, answer)
              /\ answer = "SUCCEEDED" => result = "SUCCEEDED"
              /\ answer = "FAILED" => result \in {"unverified", "FAILED"}
              /\ answer = "UNKNOWN" /\ call[c].id \in Deliveries => result = "UNKNOWN"
      BY <1>5, EffectEnds
    <2>2. /\ call[c].at = "executing" /\ call'[c].at = "finishing"
          /\ call'[c].id = call[c].id /\ call'[c].contents = call[c].contents
          /\ call'[c].answer = answer /\ effect' = [effect EXCEPT ![call[c].id] = result]
          /\ \A d \in Callers \ {c} : call'[d] = call[d]
          /\ UNCHANGED <<record, durable, effects, effectOf, told>>
      BY <2>1 DEF EndEffect
    <2>3. effect'[call[c].id] = result /\ \A j \in Ids \ {call[c].id} : effect'[j] = effect[j]
      BY <1>0, <2>2
    <2>4. AnswerIsTrue(c)'
      BY <2>1, <2>2, <2>3 DEF AnswerIsTrue, Agrees
    <2>5. Effects(c, call[c].id)
      BY <2>2, <2>3, <2>4 DEF Effects, Goes
    <2> QED
      BY <1>0, <2>2, <2>3, <2>5 DEF StepForm
  <1>6. CASE LoadToFinish(c) \/ Overtaken(c) \/ AbortCall(c)
    <2>1. CASE LoadToFinish(c)
      BY <1>0, <2>1 DEF LoadToFinish, Finishes, Goes, Answering, StepForm
    <2>2. CASE Overtaken(c)
      BY <1>0, <2>2, CallFields DEF Overtaken, Tell, Finishes, Ends, StepForm, Idle
    <2>3. CASE AbortCall(c)
      BY <1>0, <2>3, CallFields DEF AbortCall, Finishes, Ends, StepForm, Idle
    <2> QED
      BY <1>6, <2>1, <2>2, <2>3
  <1> QED
    BY <1>1, <1>2, <1>3, <1>4, <1>5, <1>6
       DEF CallerStep, Claim, Proceed, Finish, StepForm
----------------------------------------------------------------------------
(***************************************************************************)
(* The parts of the invariant, one by one.                                 *)
(***************************************************************************)

Calls == [at : Points, id : Ids \cup {"none"}, contents : Contents \cup {"none"},
          answer : Outcomes]

LEMMA CallIsTyped ==
    ASSUME NEW point \in Points, NEW r \in Requests, NEW answer \in Outcomes
    PROVE  Call(point, r, answer) \in Calls /\ Idle \in Calls
  BY DEF Call, Calls, Idle, Requests, Points, Outcomes

\* Records and calls keep their shapes.
LEMMA CallerType ==
    ASSUME LedgerConstants, TypesOK, CallsAreBound, EffectsAreOwned,
           NEW c \in Callers, CallerStep(c)
    PROVE  TypesOK'
  <1> USE DEF At, CallGoto, End, effectVars
  <1>0. /\ call[c] \in Calls /\ call \in [Callers -> Calls] /\ Idle \in Calls
        /\ call[c].at # "idle" => call[c].id \in Ids /\ call[c].contents \in Contents
        /\ aborts' = aborts \/ aborts' \in 0..MaxAborts
        /\ "UNKNOWN" \in Outcomes /\ "FAILED" \in Outcomes
    <2>1. Idle \in Calls
      BY DEF Idle, Call, Calls, Points, Outcomes
    <2>2. aborts' = aborts \/ AbortCall(c)
      BY DEF CallerStep, Claim, Proceed, Finish, ClaimNew, ReplayComplete, ReplayIncomplete,
             WriteClaim, CloseIncomplete, Start, WriteRunning, BeginEffect, ExecuteAgent,
             Deliver, EndEffect, SkipEffect, LoadToFinish, Overtaken, WriteOutcome, ReturnAnswer
    <2>3. AbortCall(c) => aborts' \in 0..MaxAborts
      BY DEF AbortCall, TypesOK, LedgerConstants
    <2> QED
      BY <2>1, <2>2, <2>3 DEF TypesOK, CallsAreBound, Bound, Calls, Outcomes
  <1>1. \A state \in States, k \in Contents :
           RecordOf(state, k) \in Records /\ NoRecord \in Records /\ Empty \in Records
    BY DEF RecordOf, Records, Bare
  <1>2. \A i \in Ids : record[i].state \in Outcomes => {record[i].state} \in SUBSET Outcomes
    OBVIOUS
  <1>3. SUFFICES /\ record' \in [Ids -> Records] /\ durable' \in [Ids -> Records]
                 /\ call' \in [Callers -> Calls]
                 /\ effect' \in [Ids -> {"none", "begun", "unverified"} \cup Outcomes]
                 /\ effects' \in [Ids -> {0, 1}]
                 /\ effectOf' \in [Ids -> Contents \cup {"none"}]
                 /\ told' \in [Ids -> SUBSET Outcomes]
    BY <1>0 DEF TypesOK, Calls
  <1>4. ASSUME NEW r \in Requests, ClaimNew(c, r)
        PROVE  record' \in [Ids -> Records] /\ call' \in [Callers -> Calls]
    <2>1. /\ Call("making", r, "UNKNOWN") \in Calls /\ Call("claimed", r, "UNKNOWN") \in Calls
          /\ r.id \in Ids /\ r.contents \in Contents
      BY CallIsTyped DEF Requests, Points, Owning, Outcomes
    <2>2. Empty \in Records /\ RecordOf("CLAIMED", r.contents) \in Records
      BY <1>1, <2>1 DEF States, Incomplete
    <2> QED
      BY <1>0, <1>4, <2>1, <2>2 DEF ClaimNew, TypesOK
  <1>5. ASSUME NEW r \in Requests, ReplayComplete(c, r) \/ ReplayIncomplete(c, r)
        PROVE  told' \in [Ids -> SUBSET Outcomes] /\ call' \in [Callers -> Calls]
    <2>1. Call("replacing", r, "UNKNOWN") \in Calls /\ r.id \in Ids
      BY CallIsTyped DEF Requests, Points, Outcomes
    <2> QED
      BY <1>0, <1>5, <2>1 DEF ReplayComplete, ReplayIncomplete, Tell, TypesOK
  <1>6. ASSUME WriteClaim(c) \/ CloseIncomplete(c) \/ WriteRunning(c) \/ WriteOutcome(c)
        PROVE  record' \in [Ids -> Records] /\ call' \in [Callers -> Calls]
    <2>1. call[c].answer \in Outcomes /\ call[c].id \in Ids /\ call[c].contents \in Contents
      BY <1>0, <1>6 DEF WriteClaim, CloseIncomplete, WriteRunning, WriteOutcome, Calls
    <2>2. \A state \in States : RecordOf(state, call[c].contents) \in Records
      BY <1>1, <2>1
    <2>3. record' \in [Ids -> Records]
      <3>1. PICK state \in States : record' = [record EXCEPT ![call[c].id]
                                                 = RecordOf(state, call[c].contents)]
        BY <1>6, <2>1 DEF WriteClaim, CloseIncomplete, WriteRunning, WriteOutcome, Write,
                          States, Incomplete, Outcomes
      <3>2. RecordOf(state, call[c].contents) \in Records
        BY <2>2
      <3> QED
        BY <2>1, <3>1, <3>2 DEF TypesOK
    <2>4. call' \in [Callers -> Calls]
      BY <1>0, <1>6 DEF WriteClaim, CloseIncomplete, WriteRunning, WriteOutcome, Calls, Points,
                        Owning
    <2> QED
      BY <2>3, <2>4
  <1>7. ASSUME Start(c) \/ BeginEffect(c) \/ SkipEffect(c) \/ ReturnAnswer(c)
        PROVE  /\ durable' \in [Ids -> Records] /\ call' \in [Callers -> Calls]
               /\ told' \in [Ids -> SUBSET Outcomes]
               /\ effect' \in [Ids -> {"none", "begun", "unverified"} \cup Outcomes]
               /\ effects' \in [Ids -> {0, 1}]
               /\ effectOf' \in [Ids -> Contents \cup {"none"}]
    <2>1. /\ call[c].id \in Ids /\ call[c].contents \in Contents /\ call[c].answer \in Outcomes
          /\ record[call[c].id] \in Records
      BY <1>0, <1>7 DEF Start, BeginEffect, SkipEffect, ReturnAnswer, Calls, TypesOK
    <2>2. durable' \in [Ids -> Records]
      BY <1>7, <2>1 DEF Start, BeginEffect, SkipEffect, ReturnAnswer, Sync, TypesOK
    <2>3. call' \in [Callers -> Calls]
      BY <1>0, <1>7 DEF Start, BeginEffect, SkipEffect, ReturnAnswer, Calls, Points, Owning
    <2>4. told' \in [Ids -> SUBSET Outcomes]
      BY <1>7, <2>1 DEF Start, BeginEffect, SkipEffect, ReturnAnswer, Tell, TypesOK
    <2>5. BeginEffect(c) => effects[call[c].id] = 0
      BY DEF BeginEffect, EffectsAreOwned
    <2>6. /\ effect' \in [Ids -> {"none", "begun", "unverified"} \cup Outcomes]
          /\ effects' \in [Ids -> {0, 1}]
          /\ effectOf' \in [Ids -> Contents \cup {"none"}]
      <3>1. CASE BeginEffect(c)
        BY <2>1, <2>5, <3>1 DEF BeginEffect, Begin, TypesOK
      <3>2. CASE Start(c) \/ SkipEffect(c) \/ ReturnAnswer(c)
        BY <3>2 DEF Start, SkipEffect, ReturnAnswer, TypesOK
      <3> QED
        BY <1>7, <3>1, <3>2
    <2> QED
      BY <2>2, <2>3, <2>4, <2>6
  <1>8. ASSUME ExecuteAgent(c) \/ Deliver(c)
        PROVE  /\ effect' \in [Ids -> {"none", "begun", "unverified"} \cup Outcomes]
               /\ call' \in [Callers -> Calls]
    <2>1. PICK result \in {"unverified"} \cup Outcomes, answer \in Outcomes :
              EndEffect(c, result, answer)
      BY <1>8, EffectEnds
    <2> QED
      BY <1>0, <2>1 DEF EndEffect, Calls, Points, Owning, TypesOK
  <1>9. ASSUME LoadToFinish(c) \/ Overtaken(c) \/ AbortCall(c)
        PROVE  call' \in [Callers -> Calls] /\ told' \in [Ids -> SUBSET Outcomes]
    BY <1>0, <1>9 DEF LoadToFinish, Overtaken, AbortCall, Tell, Calls, Points, Owning, TypesOK
  <1> USE DEF TypesOK
  <1>10. CASE \E r \in Requests : ClaimNew(c, r)
    BY <1>0, <1>4, <1>10 DEF ClaimNew
  <1>11. CASE \E r \in Requests : ReplayComplete(c, r) \/ ReplayIncomplete(c, r)
    BY <1>0, <1>5, <1>11 DEF ReplayComplete, ReplayIncomplete
  <1>12. CASE WriteClaim(c) \/ CloseIncomplete(c) \/ WriteRunning(c) \/ WriteOutcome(c)
    BY <1>0, <1>6, <1>12 DEF WriteClaim, CloseIncomplete, WriteRunning, WriteOutcome
  <1>13. CASE Start(c) \/ BeginEffect(c) \/ SkipEffect(c) \/ ReturnAnswer(c)
    BY <1>0, <1>7, <1>13 DEF Start, BeginEffect, SkipEffect, ReturnAnswer
  <1>14. CASE ExecuteAgent(c) \/ Deliver(c)
    BY <1>0, <1>8, <1>14 DEF ExecuteAgent, Deliver, EndEffect
  <1>15. CASE LoadToFinish(c) \/ Overtaken(c) \/ AbortCall(c)
    BY <1>0, <1>9, <1>15 DEF LoadToFinish, Overtaken, AbortCall
  <1> QED
    BY <1>10, <1>11, <1>12, <1>13, <1>14, <1>15 DEF CallerStep, Claim, Proceed, Finish

\* A power loss ends every call and leaves of each record what it may.
LEMMA PowerLossIs ==
    ASSUME LedgerConstants, TypesOK, LedgerPowerLoss
    PROVE  /\ TypesOK'
           /\ \A c \in Callers : call'[c].at = "idle"
           /\ \A i \in Ids : /\ \/ record'[i] \in {record[i], durable[i]}
                                \/ /\ record'[i] = Empty
                                   /\ durable[i] = NoRecord /\ record[i] # NoRecord
                             /\ durable'[i] = record'[i]
           /\ UNCHANGED <<effect, effects, effectOf, told>>
  <1>1. Idle \in Calls /\ Idle.at = "idle"
    BY DEF Idle, Call, Calls, Points, Outcomes
  <1>2. aborts' \in 0..MaxAborts
    BY DEF LedgerPowerLoss, TypesOK, LedgerConstants
  <1>3. \A i \in Ids : \/ record'[i] \in {record[i], durable[i]}
                       \/ record'[i] = Empty /\ durable[i] = NoRecord /\ record[i] # NoRecord
    BY DEF LedgerPowerLoss, Survives
  <1>4. record' \in [Ids -> Records]
    <2>1. \A i \in Ids : record'[i] \in Records
      BY <1>3 DEF TypesOK, Records, Bare
    <2>2. \E S : record' \in [Ids -> S]
      BY DEF LedgerPowerLoss
    <2> QED
      BY <2>1, <2>2
  <1>5. call' \in [Callers -> Calls] /\ \A c \in Callers : call'[c].at = "idle"
    BY <1>1 DEF LedgerPowerLoss
  <1>6. durable' = record' /\ UNCHANGED <<effect, effects, effectOf, told>>
    BY DEF LedgerPowerLoss, effectVars
  <1> QED
    BY <1>2, <1>3, <1>4, <1>5, <1>6 DEF TypesOK, Calls

\* A record says its state unless it is bare.
LEMMA Shapes ==
    ASSUME TypesOK, NEW i \in Ids
    PROVE  /\ record[i] \in Bare <=> record[i].state \notin States
           /\ durable[i] \in Bare <=> durable[i].state \notin States
           /\ record[i] = NoRecord <=> record[i].state = "absent"
           /\ durable[i] = NoRecord <=> durable[i].state = "absent"
           /\ record[i] = Empty <=> record[i].state = "empty"
           /\ durable[i] = Empty <=> durable[i].state = "empty"
           /\ told[i] \subseteq Outcomes /\ effects[i] \in {0, 1}
  <1>1. record[i] \in Records /\ durable[i] \in Records
    BY DEF TypesOK
  <1>2. ASSUME NEW v \in Records
        PROVE  /\ v \in Bare <=> v.state \notin States
               /\ v = NoRecord <=> v.state = "absent"
               /\ v = Empty <=> v.state = "empty"
    BY DEF Records, Bare, NoRecord, Empty, RecordOf, States, Incomplete, Outcomes
  <1> QED
    BY <1>1, <1>2 DEF TypesOK

\* The steps of a caller, at its identity; what holds of the other calls there.
LEMMA BoundStep ==
    ASSUME LedgerConstants, TypesOK, CallsAreBound, OneOwner, NEW c \in Callers, CallerStep(c)
    PROVE  CallsAreBound'
  <1>1. PICK i \in Ids : StepForm(c, i) /\ \A j \in Ids \ {i} : Untouched(j)
    BY StepForms
  <1>2. \A d \in Callers \ {c} : call'[d] = call[d]
    BY StepForms
  <1>3. Bound(c)
    BY DEF CallsAreBound
  <1>4. /\ record[i] \in Bare <=> record[i].state \notin States
        /\ record[i] = NoRecord <=> record[i].state = "absent"
        /\ record[i] = Empty <=> record[i].state = "empty"
        /\ call[c].answer \in Outcomes
    BY Shapes DEF TypesOK
  <1> USE DEF At, RecordOf, States, Incomplete, Outcomes, Replaced
  <1>5. Bound(c)'
    <2>1. CASE Claims(c, i)
      BY <1>4, <2>1 DEF Claims, Enters, Bound, Empty, NoRecord
    <2>2. CASE Replays(c, i)
      BY <1>3, <1>4, <2>2 DEF Replays, Enters, Bound, Untouched
    <2>3. CASE Writes(c, i)
      BY <1>3, <1>4, <2>3 DEF Writes, Goes, Answering, Bound
    <2>4. CASE Syncs(c, i)
      BY <1>3, <1>4, <2>4 DEF Syncs, Goes, Ends, Bound
    <2>5. CASE Effects(c, i)
      BY <1>3, <1>4, <2>5 DEF Effects, Goes, Bound
    <2>6. CASE Finishes(c, i)
      BY <1>3, <1>4, <2>6 DEF Finishes, Goes, Answering, Ends, Bound, Untouched
    <2> QED
      BY <1>1, <2>1, <2>2, <2>3, <2>4, <2>5, <2>6 DEF StepForm
  <1>6. ASSUME NEW d \in Callers \ {c}
        PROVE  Bound(d)'
    <2>1. Bound(d) /\ call'[d] = call[d]
      BY <1>2 DEF CallsAreBound
    <2>2. CASE call[d].id # i
      <3>1. call[d].at # "idle" => Untouched(call[d].id)
        BY <1>1, <2>1, <2>2 DEF Bound
      <3> QED
        BY <2>1, <3>1 DEF Bound, Untouched
    <2>3. CASE call[d].id = i
      <3>1. call[c].at \in Owning /\ call[c].id = i => call[d].at \notin Owning
        BY <2>3 DEF OneOwner
      <3>2. CASE Claims(c, i)
        BY <1>4, <2>1, <2>3, <3>2 DEF Claims, Bound
      <3>3. CASE Replays(c, i)
        BY <2>1, <2>3, <3>3 DEF Replays, Bound, Untouched
      <3>4. CASE Writes(c, i)
        BY <1>3, <1>4, <2>1, <2>3, <3>1, <3>4 DEF Writes, Goes, Bound, Owning
      <3>5. CASE Syncs(c, i)
        BY <2>1, <2>3, <3>5 DEF Syncs, Bound
      <3>6. CASE Effects(c, i) \/ Finishes(c, i)
        BY <2>1, <2>3, <3>6 DEF Effects, Finishes, Bound, Untouched
      <3> QED
        BY <1>1, <3>2, <3>3, <3>4, <3>5, <3>6 DEF StepForm
    <2> QED
      BY <2>2, <2>3
  <1> QED
    BY <1>5, <1>6 DEF CallsAreBound

\* Whoever comes to an identity that is claimed does not own it.
LEMMA OwnerStep ==
    ASSUME LedgerConstants, TypesOK, CallsAreBound, OneOwner, NEW c \in Callers, CallerStep(c)
    PROVE  OneOwner'
  <1>1. PICK i \in Ids : StepForm(c, i) /\ \A j \in Ids \ {i} : Untouched(j)
    BY StepForms
  <1>2. \A d \in Callers \ {c} : call'[d] = call[d]
    BY StepForms
  <1>3. ASSUME call'[c].at \in Owning
        PROVE  call'[c].id = i /\ (Claims(c, i) \/ (call[c].at \in Owning /\ call[c].id = i))
    BY <1>1, <1>3 DEF StepForm, Claims, Replays, Writes, Syncs, Effects, Finishes, Goes, Enters,
                      Ends, Owning, At
  <1>4. ASSUME NEW d \in Callers \ {c}, call'[c].at \in Owning, call[d].at \in Owning,
               call[d].id = i
        PROVE  FALSE
    <2>1. CASE Claims(c, i)
      <3>1. Bound(d) /\ record[i] = NoRecord /\ record[i].state = "absent" /\ NoRecord # Empty
        BY <2>1, Shapes DEF CallsAreBound, Claims, NoRecord, Empty, RecordOf
      <3> QED
        BY <1>4, <3>1 DEF Bound, At, Owning, States, Incomplete, Outcomes
    <2>2. CASE call[c].at \in Owning /\ call[c].id = i
      BY <1>4, <2>2 DEF OneOwner
    <2> QED
      BY <1>3, <1>4, <2>1, <2>2
  <1> QED
    BY <1>2, <1>3, <1>4 DEF OneOwner

\* A write keeps the contents of a record, and an fsync makes durable what is there.
LEMMA KeptStep ==
    ASSUME LedgerConstants, TypesOK, CallsAreBound, OneOwner, RecordsAreKept,
           NEW c \in Callers, CallerStep(c)
    PROVE  RecordsAreKept'
  <1>1. PICK i \in Ids : StepForm(c, i) /\ \A j \in Ids \ {i} : Untouched(j)
    BY StepForms
  <1>2. Bound(c) /\ i \in Ids
    BY DEF CallsAreBound
  <1>3. /\ record[i] \in Bare <=> record[i].state \notin States
        /\ durable[i] \in Bare <=> durable[i].state \notin States
        /\ record[i] = NoRecord <=> record[i].state = "absent"
        /\ record[i] = Empty <=> record[i].state = "empty"
        /\ effects[i] \in {0, 1}
    BY Shapes
  <1>4. /\ record[i] = NoRecord => durable[i] = NoRecord
        /\ record[i] = Empty => durable[i] \in Bare
        /\ durable[i] \notin Bare => durable[i].contents = record[i].contents
        /\ effects[i] = 1 => durable[i] \notin Bare /\ record[i].contents = effectOf[i]
        /\ i \in Deliveries /\ durable[i].state \in Outcomes => record[i] = durable[i]
    BY DEF RecordsAreKept
  <1>5. \A state, k : /\ RecordOf(state, k).state = state /\ RecordOf(state, k).contents = k
                      /\ state # "absent" => RecordOf(state, k) # NoRecord
                      /\ state # "empty" => RecordOf(state, k) # Empty
    BY DEF RecordOf, NoRecord, Empty
  <1>6. i \in Agents => i \notin Deliveries
    BY DEF LedgerConstants
  <1>7. /\ record'[i] = NoRecord => durable'[i] = NoRecord
        /\ record'[i] = Empty => durable'[i] \in Bare
        /\ durable'[i] \notin Bare => durable'[i].contents = record'[i].contents
        /\ effects'[i] = 1 => durable'[i] \notin Bare /\ record'[i].contents = effectOf'[i]
        /\ i \in Deliveries /\ durable'[i].state \in Outcomes => record'[i] = durable'[i]
    <2>1. CASE Claims(c, i)
      <3>1. NoRecord # Empty /\ NoRecord \in Bare /\ NoRecord.state \notin Outcomes
        BY DEF NoRecord, Empty, RecordOf, Bare, Outcomes
      <3> QED
        BY <1>4, <1>5, <2>1, <3>1 DEF Claims, SameEffect
    <2>2. CASE Replays(c, i) \/ Finishes(c, i)
      BY <1>4, <2>2 DEF Replays, Finishes, Untouched, SameEffect
    <2>3. CASE Writes(c, i)
      <3>1. /\ durable'[i] = durable[i] /\ SameEffect(i)
            /\ record'[i] # NoRecord /\ record'[i] # Empty
            /\ record'[i].contents = call[c].contents
        BY <1>5, <2>3 DEF Writes, TypesOK, Outcomes
      <3>2. durable[i] \in Bare \/ record[i].contents = call[c].contents
        BY <1>2, <1>4, <2>3 DEF Writes, Goes, Bound, At
      <3>3. i \in Deliveries => durable[i].state \notin Outcomes
        BY <1>2, <1>3, <1>4, <1>6, <2>3
           DEF Writes, Goes, Bound, At, Replaced, States, Outcomes, Empty, RecordOf
      <3> QED
        BY <1>3, <1>4, <3>1, <3>2, <3>3 DEF SameEffect
    <2>4. CASE Syncs(c, i)
      <3>1. /\ durable'[i] = record[i] /\ record'[i] = record[i]
            /\ record[i] \notin Bare /\ record[i].contents = call[c].contents
        BY <1>2, <1>3, <2>4 DEF Syncs, Goes, Ends, Bound, At
      <3>2. SameEffect(i) \/ effectOf'[i] = call[c].contents
        BY <2>4 DEF Syncs
      <3>3. NoRecord \in Bare /\ Empty \in Bare
        BY DEF Bare
      <3> QED
        BY <1>4, <3>1, <3>2, <3>3 DEF SameEffect
    <2>5. CASE Effects(c, i)
      BY <1>4, <2>5 DEF Effects
    <2> QED
      BY <1>1, <2>1, <2>2, <2>3, <2>4, <2>5 DEF StepForm
  <1> QED
    BY <1>1, <1>7 DEF RecordsAreKept, Untouched, SameEffect

\* The effect of an identity changes in the hands of its owner.
LEMMA OwnedStep ==
    ASSUME LedgerConstants, TypesOK, CallsAreBound, OneOwner, RecordsAreKept, EffectsAreOwned,
           FreshUntilDone, NEW c \in Callers, CallerStep(c)
    PROVE  EffectsAreOwned'
  <1>1. PICK i \in Ids : StepForm(c, i) /\ \A j \in Ids \ {i} : Untouched(j)
    BY StepForms
  <1>2. \A d \in Callers \ {c} : call'[d] = call[d]
    BY StepForms
  <1>3. ASSUME NEW d \in Callers, call'[d].at \in Owning \ {"finishing", "closing"}
        PROVE  /\ call'[d].at # "executing" => effects'[call'[d].id] = 0
                                                /\ effect'[call'[d].id] = "none"
               /\ call'[d].at = "executing" => effects'[call'[d].id] = 1
    <2>1. CASE d = c
      <3>1. CASE Claims(c, i)
        <4>1. durable[i] \in Bare
          BY <3>1 DEF Claims, RecordsAreKept, Bare
        <4> QED
          BY <1>3, <2>1, <3>1, <4>1 DEF Claims, Enters, FreshUntilDone, SameEffect
      <3>2. CASE ~Claims(c, i)
        <4>1. /\ call'[c].id = call[c].id /\ call[c].id = i
              /\ \/ call[c].at \in {"making", "starting", "claimed"} /\ SameEffect(i)
                    /\ call'[c].at # "executing"
                 \/ call[c].at = "running" /\ call'[c].at = "executing"
                    /\ effects'[i] = effects[i] + 1
          BY <1>1, <1>3, <2>1, <3>2
             DEF StepForm, Replays, Writes, Syncs, Effects, Finishes, Goes, Enters, Ends, Owning
        <4>2. effects[i] = 0 /\ effect[i] = "none"
          BY <4>1 DEF EffectsAreOwned
        <4> QED
          BY <2>1, <4>1, <4>2 DEF SameEffect
      <3> QED
        BY <3>1, <3>2
    <2>2. CASE d # c
      <3>1. call'[d] = call[d] /\ call[d].id \in Ids
        BY <1>2, <1>3, <2>2 DEF CallsAreBound, Bound, At, Owning
      <3>2. call[d].id = i => ~(call[c].at \in Owning /\ call[c].id = i)
        BY <1>3, <2>2, <3>1 DEF OneOwner
      <3>3. SameEffect(call[d].id)
        <4>1. CASE call[d].id # i
          BY <1>1, <3>1, <4>1 DEF Untouched
        <4>2. CASE call[d].id = i
          BY <1>1, <3>2, <4>2
             DEF StepForm, Claims, Replays, Writes, Syncs, Effects, Finishes, Goes, Owning,
                 Untouched
        <4> QED
          BY <4>1, <4>2
      <3> QED
        BY <1>3, <3>1, <3>3 DEF EffectsAreOwned, SameEffect, Owning, At
    <2> QED
      BY <2>1, <2>2
  <1> QED
    BY <1>3 DEF EffectsAreOwned, Owning, At

\* Only the end of an effect brings the first verdict.
LEMMA FreshStays ==
    ASSUME LedgerConstants, TypesOK, NEW c \in Callers, Bound(c), NEW i \in Ids,
           StepForm(c, i), Fresh(i), call[c].at # "closing",
           \A d \in Callers \ {c} : call'[d] = call[d]
    PROVE  Fresh(i)'
  <1>1. call[c].answer \in Outcomes
    BY DEF TypesOK
  <1> USE DEF At, Outcomes, Verdicts
  <1>2. told'[i] \cap Verdicts(i) = {}
    BY <1>1 DEF StepForm, Claims, Replays, Writes, Syncs, Effects, Finishes, Fresh, Bound, Replaced,
           Untouched, Ends
  <1>3. record'[i].state \notin Verdicts(i) /\ durable'[i].state \notin Verdicts(i)
    BY DEF StepForm, Claims, Replays, Writes, Syncs, Effects, Finishes, Fresh, Bound, Untouched,
           RecordOf, Empty, Goes
  <1>4. ASSUME call'[c].at = "returning", call'[c].id = i
        PROVE  call'[c].answer \notin Verdicts(i)
    BY <1>4 DEF StepForm, Claims, Replays, Writes, Syncs, Effects, Finishes, Fresh, Bound, Goes,
           Enters, Ends, Answering
  <1> QED
    BY <1>2, <1>3, <1>4 DEF Fresh

LEMMA FreshStep ==
    ASSUME LedgerConstants, TypesOK, CallsAreBound, OneOwner, RecordsAreKept, EffectsAreOwned,
           FreshUntilDone, NEW c \in Callers, CallerStep(c)
    PROVE  FreshUntilDone'
  <1>1. PICK i \in Ids : StepForm(c, i) /\ \A j \in Ids \ {i} : Untouched(j)
    BY StepForms
  <1>2. \A d \in Callers \ {c} : call'[d] = call[d]
    BY StepForms
  <1>3. Bound(c) /\ call'[c].at # "idle" => call'[c].id = i
    BY <1>1 DEF StepForm, Claims, Replays, Writes, Syncs, Effects, Finishes, Goes, Enters, Ends
  <1>4. ASSUME NEW j \in Ids \ {i}, Fresh(j)
        PROVE  Fresh(j)'
    BY <1>1, <1>2, <1>3, <1>4 DEF Fresh, Untouched, At, CallsAreBound
  <1>5. ASSUME NEW j \in Ids, durable'[j] \in Bare
        PROVE  Fresh(j)' /\ effects'[j] = 0 /\ effect'[j] = "none"
    <2>1. CASE j # i
      BY <1>1, <1>4, <1>5, <2>1 DEF FreshUntilDone, Untouched, SameEffect
    <2>2. CASE j = i
      <3>1. ~Syncs(c, i)
        <4>1. Syncs(c, i) => record[i].state \in States /\ durable'[i] = record[i]
          BY DEF Syncs, Goes, Ends, CallsAreBound, Bound, At
        <4> QED
          BY <1>5, <2>2, <4>1, Shapes
      <3>2. durable'[i] = durable[i]
        BY <1>1, <3>1 DEF StepForm, Claims, Replays, Writes, Effects, Finishes, Untouched
      <3>3. durable[i].state \notin States /\ Fresh(i) /\ effects[i] = 0 /\ effect[i] = "none"
        BY <1>5, <2>2, <3>2, Shapes DEF FreshUntilDone
      <3>4. ~(call[c].at \in {"executing", "finishing", "closing"} /\ call[c].id = i)
        BY <3>3 DEF CallsAreBound, Bound, Replaced, States, Incomplete, Outcomes
      <3>5. call[c].at # "closing" /\ SameEffect(i)
        BY <1>1, <3>1, <3>4 DEF StepForm, Claims, Replays, Writes, Effects, Finishes, Goes,
           Enters, Ends, Untouched
      <3> QED
        BY <1>1, <1>2, <2>2, <3>3, <3>5, FreshStays DEF CallsAreBound, SameEffect
    <2> QED
      BY <2>1, <2>2
  <1>6. ASSUME NEW d \in Callers, call'[d].at \in Owning \ {"finishing", "closing"}
        PROVE  FreshFor(d)'
    <2>1. CASE d = c
      <3>1. CASE Claims(c, i)
        <4>1. durable[i] \in Bare /\ call[c].at = "idle" /\ call'[c].id = i
          BY <3>1 DEF Claims, RecordsAreKept, Bare, Enters
        <4>2. Fresh(i)
          BY <4>1 DEF FreshUntilDone
        <4>3. Fresh(i)'
          BY <1>1, <1>2, <4>1, <4>2, FreshStays DEF CallsAreBound
        <4> QED
          BY <2>1, <4>1, <4>3 DEF FreshFor, Fresh, At
      <3>2. CASE ~Claims(c, i)
        <4>1. /\ call'[c].id = i /\ call[c].id = i
              /\ call[c].at \in {"making", "claimed", "starting", "running"}
          BY <1>1, <1>6, <2>1, <3>2
             DEF StepForm, Replays, Writes, Syncs, Effects, Finishes, Goes, Enters, Ends, Owning
        <4>2. Fresh(i)
          BY <4>1 DEF FreshUntilDone, FreshFor, Owning
        <4>3. Fresh(i)'
          BY <1>1, <1>2, <4>1, <4>2, FreshStays DEF CallsAreBound
        <4> QED
          BY <2>1, <4>1, <4>3 DEF FreshFor, Fresh, At
      <3> QED
        BY <3>1, <3>2
    <2>2. CASE d # c
      <3>1. call'[d] = call[d] /\ call[d].id \in Ids /\ Fresh(call[d].id)
        BY <1>2, <1>6, <2>2 DEF CallsAreBound, Bound, At, Owning, FreshUntilDone, FreshFor
      <3>2. \A j \in Ids : j = call[d].id => Fresh(j)'
        <4>1. ASSUME NEW j \in Ids, j = call[d].id
              PROVE  Fresh(j)'
          <5>1. CASE j # i
            BY <1>4, <3>1, <4>1, <5>1
          <5>2. CASE j = i
            <6>1. call[c].at # "closing"
              <7>1. call[c].at = "closing" => call[c].id = i
                BY <1>1 DEF StepForm, Claims, Replays, Writes, Syncs, Effects, Finishes, Goes,
                   Enters, Ends
              <7> QED
                BY <1>6, <2>2, <3>1, <4>1, <5>2, <7>1 DEF OneOwner, Owning
            <6> QED
              BY <1>1, <1>2, <3>1, <4>1, <5>2, <6>1, FreshStays DEF CallsAreBound
          <5> QED
            BY <5>1, <5>2
        <4> QED
          BY <4>1
      <3> QED
        BY <3>1, <3>2 DEF FreshFor, Fresh, At
    <2> QED
      BY <2>1, <2>2
  <1> QED
    BY <1>5, <1>6 DEF FreshUntilDone

\* An outcome that is not a verdict agrees with any effect.
LEMMA NoVerdict ==
    ASSUME LedgerConstants, NEW i \in Ids, NEW s, s \notin Verdicts(i)
    PROVE  Agrees(i, s) /\ Agrees(i, s)'
  BY DEF Agrees, Verdicts, Outcomes, LedgerConstants

\* The verdicts were written after the effect was over, and that stays so.
LEMMA AgreeStep ==
    ASSUME LedgerConstants, TypesOK, CallsAreBound, OneOwner, EffectsAreOwned,
           FreshUntilDone, VerdictsAgree, NEW c \in Callers, CallerStep(c)
    PROVE  VerdictsAgree'
  <1>1. PICK i \in Ids : StepForm(c, i) /\ \A j \in Ids \ {i} : Untouched(j)
    BY StepForms
  <1>2. \A d \in Callers \ {c} : call'[d] = call[d]
    BY StepForms
  <1>3. Bound(c) /\ call[c].answer \in Outcomes
    BY DEF CallsAreBound, TypesOK
  <1>4. call'[c].at # "idle" => call'[c].id = i
    BY <1>1 DEF StepForm, Claims, Replays, Writes, Syncs, Effects, Finishes, Goes, Enters, Ends
  <1>5. \A s : effect'[i] = effect[i] /\ Agrees(i, s) => Agrees(i, s)'
    BY DEF Agrees
  <1>6. /\ effect'[i] = effect[i]
        \/ /\ call[c].at \in {"running", "executing"} /\ call[c].id = i /\ Fresh(i)
           /\ UNCHANGED <<record[i], told[i]>>
           /\ durable'[i] \in {record[i], durable[i]}
           /\ call'[c].at \in {"executing", "finishing"}
    <2>1. \/ effect'[i] = effect[i]
          \/ /\ call[c].at \in {"running", "executing"} /\ call[c].id = i
             /\ UNCHANGED <<record[i], told[i]>>
             /\ durable'[i] \in {record[i], durable[i]}
             /\ call'[c].at \in {"executing", "finishing"}
      BY <1>1 DEF StepForm, Claims, Replays, Writes, Syncs, Effects, Finishes, Goes, SameEffect,
                  Untouched
    <2>2. call[c].at \in {"running", "executing"} /\ call[c].id = i => Fresh(i)
      BY DEF FreshUntilDone, FreshFor, Owning
    <2> QED
      BY <2>1, <2>2
  <1>7. ASSUME NEW s \in told'[i] \cup {record'[i].state, durable'[i].state}
        PROVE  Agrees(i, s)'
    <2>1. CASE effect'[i] = effect[i]
      <3>1. \/ s \in told[i] \cup {record[i].state, durable[i].state}
            \/ s \in {"empty", "CLAIMED", "RUNNING"}
            \/ s = "UNKNOWN" /\ i \in Agents
            \/ s = call[c].answer /\ call[c].id = i /\ call[c].at \in {"closing", "returning"}
        BY <1>1, <1>3, <1>7
           DEF StepForm, Claims, Replays, Writes, Syncs, Effects, Finishes, Goes, Ends, Untouched,
               RecordOf, Empty, At, Bound, Replaced
      <3>2. s \in {"empty", "CLAIMED", "RUNNING"} \/ (s = "UNKNOWN" /\ i \in Agents)
               => s \notin Verdicts(i)
        BY DEF Verdicts, Outcomes
      <3>3. Agrees(i, s)
        <4>1. CASE s \in told[i] \cup {record[i].state, durable[i].state}
          BY <4>1 DEF VerdictsAgree
        <4>2. CASE s \notin Verdicts(i)
          BY <4>2, NoVerdict
        <4>3. CASE s = call[c].answer /\ call[c].id = i /\ call[c].at \in {"closing", "returning"}
          BY <4>3 DEF VerdictsAgree, AnswerIsTrue
        <4> QED
          BY <3>1, <3>2, <4>1, <4>2, <4>3
      <3> QED
        BY <1>5, <2>1, <3>3
    <2>2. CASE effect'[i] # effect[i]
      <3>1. s \notin Verdicts(i)
        BY <1>6, <1>7, <2>2 DEF Fresh
      <3> QED
        BY <3>1, NoVerdict
    <2> QED
      BY <2>1, <2>2
  <1>8. ASSUME NEW j \in Ids \ {i}
        PROVE  \A s \in told'[j] \cup {record'[j].state, durable'[j].state} : Agrees(j, s)'
    BY <1>1 DEF Untouched, SameEffect, VerdictsAgree, Agrees
  <1>9. ASSUME call'[c].at \in {"finishing", "closing", "returning"}
        PROVE  AnswerIsTrue(c)'
    <2>1. CASE Effects(c, i)
      BY <2>1 DEF Effects
    <2>2. CASE ~Effects(c, i)
      <3>1. /\ call'[c].id = i /\ call[c].id = i /\ SameEffect(i)
            /\ \/ call[c].at \in {"finishing", "closing"} /\ call'[c].answer = call[c].answer
               \/ call[c].at = "replacing" /\ call'[c].answer = call[c].answer
               \/ call[c].at = "running" /\ i \in Agents /\ call'[c].answer = "FAILED"
        BY <1>1, <1>9, <2>2
           DEF StepForm, Claims, Replays, Writes, Syncs, Finishes, Goes, Enters, Ends, Answering,
               Untouched
      <3>2. Agrees(i, call'[c].answer)
        <4>1. CASE call[c].at \in {"finishing", "closing"}
          BY <3>1, <4>1 DEF VerdictsAgree, AnswerIsTrue
        <4>2. CASE call[c].at = "replacing"
          BY <1>3, <3>1, <4>2 DEF Bound, At, Agrees, LedgerConstants
        <4>3. CASE call[c].at = "running"
          BY <3>1, <4>3 DEF EffectsAreOwned, Agrees
        <4> QED
          BY <3>1, <4>1, <4>2, <4>3
      <3> QED
        BY <3>1, <3>2 DEF AnswerIsTrue, Agrees, SameEffect
    <2> QED
      BY <2>1, <2>2
  <1>10. ASSUME NEW d \in Callers \ {c}, call'[d].at \in {"finishing", "closing", "returning"}
         PROVE  AnswerIsTrue(d)'
    <2>1. call'[d] = call[d] /\ call[d].id \in Ids /\ Agrees(call[d].id, call[d].answer)
      BY <1>2, <1>10 DEF VerdictsAgree, AnswerIsTrue, CallsAreBound, Bound, At
    <2>2. effect'[call[d].id] = effect[call[d].id] \/ call[d].answer \notin Verdicts(call[d].id)
      <3>1. CASE call[d].id # i
        BY <1>1, <2>1, <3>1 DEF Untouched, SameEffect
      <3>2. CASE call[d].id = i /\ effect'[i] # effect[i]
        <4>1. call[d].at = "returning"
          BY <1>6, <1>10, <2>1, <3>2 DEF OneOwner, Owning
        <4> QED
          BY <1>6, <2>1, <3>2, <4>1 DEF Fresh, At
      <3> QED
        BY <3>1, <3>2
    <2> QED
      BY <2>1, <2>2 DEF AnswerIsTrue, Agrees, Verdicts, Outcomes, LedgerConstants
  <1> QED
    BY <1>7, <1>8, <1>9, <1>10 DEF VerdictsAgree

\* A power loss keeps what was durable, and what it forgets was never promised.
LEMMA PowerLossStep ==
    ASSUME LedgerConstants, LedgerInv, LedgerPowerLoss
    PROVE  LedgerInv'
  <1> USE DEF LedgerInv
  <1>1. /\ TypesOK' /\ UNCHANGED <<effect, effects, effectOf, told>>
        /\ \A c \in Callers : call'[c].at = "idle"
        /\ \A i \in Ids : durable'[i] = record'[i]
    BY PowerLossIs
  <1>2. ASSUME NEW i \in Ids
        PROVE  \/ record'[i] \in {record[i], durable[i]}
               \/ record'[i] = Empty /\ durable[i] = NoRecord
    BY PowerLossIs
  <1>3. NoRecord \in Bare /\ Empty \in Bare
    BY DEF Bare
  <1>4. CallsAreBound' /\ OneOwner' /\ EffectsAreOwned'
    BY <1>1 DEF CallsAreBound, Bound, OneOwner, EffectsAreOwned, Owning, At
  <1>5. ASSUME NEW i \in Ids
        PROVE  /\ record'[i] \in Bare => durable[i] \in Bare
               /\ effects[i] = 1 => record'[i].contents = effectOf[i]
    BY <1>2, <1>3 DEF RecordsAreKept, Bare
  <1>6. RecordsAreKept'
    BY <1>1, <1>3, <1>5, Shapes DEF RecordsAreKept, FreshUntilDone
  <1>7. ASSUME NEW i \in Ids, durable'[i] \in Bare
        PROVE  Fresh(i)' /\ effects'[i] = 0 /\ effect'[i] = "none"
    <2>1. durable[i] \in Bare
      BY <1>1, <1>5, <1>7
    <2>2. record'[i].state \notin Verdicts(i)
      BY <1>1, <1>7 DEF Bare, NoRecord, Empty, RecordOf, Verdicts, Outcomes
    <2> QED
      BY <1>1, <2>1, <2>2 DEF FreshUntilDone, Fresh, At
  <1>8. FreshUntilDone'
    BY <1>1, <1>7 DEF FreshUntilDone, Owning
  <1>9. VerdictsAgree'
    <2>1. ASSUME NEW i \in Ids
          PROVE  Agrees(i, record'[i].state)
      <3>1. CASE record'[i] \in {record[i], durable[i]}
        BY <3>1 DEF VerdictsAgree
      <3>2. CASE record'[i] = Empty
        BY <3>2 DEF Agrees, Empty, RecordOf
      <3> QED
        BY <1>2, <3>1, <3>2
    <2> QED
      BY <1>1, <2>1 DEF VerdictsAgree, Agrees
  <1> QED
    BY <1>1, <1>4, <1>6, <1>8, <1>9

LEMMA InvInit ==
    ASSUME LedgerConstants, LedgerInit
    PROVE  LedgerInv
  <1>1. Idle \in Calls /\ Idle.at = "idle" /\ NoRecord \in Records
    BY DEF Idle, Call, Calls, Points, Outcomes, Records, Bare
  <1>2. TypesOK
    BY <1>1 DEF LedgerInit, TypesOK, Calls, LedgerConstants
  <1>3. \A c \in Callers : call[c].at = "idle"
    BY <1>1 DEF LedgerInit
  <1>4. CallsAreBound /\ OneOwner /\ EffectsAreOwned
    BY <1>3 DEF CallsAreBound, Bound, OneOwner, EffectsAreOwned, Owning, At
  <1>5. \A i \in Ids : /\ record[i] = NoRecord /\ durable[i] = NoRecord /\ told[i] = {}
                       /\ effects[i] = 0 /\ effect[i] = "none"
    BY DEF LedgerInit
  <1>6. NoRecord # Empty /\ NoRecord \in Bare /\ NoRecord.state = "absent"
    BY DEF NoRecord, Empty, RecordOf, Bare
  <1>7. RecordsAreKept /\ FreshUntilDone /\ VerdictsAgree
    BY <1>3, <1>5, <1>6
       DEF RecordsAreKept, FreshUntilDone, VerdictsAgree, Fresh, Agrees, Verdicts, Outcomes, Owning,
           At
  <1> QED
    BY <1>2, <1>4, <1>7 DEF LedgerInv

LEMMA InvStep ==
    ASSUME LedgerConstants, LedgerInv, [LedgerNext]_ledgerVars
    PROVE  LedgerInv'
  <1>1. ASSUME NEW c \in Callers, CallerStep(c)
        PROVE  LedgerInv'
    BY <1>1, CallerType, BoundStep, OwnerStep, KeptStep, OwnedStep, FreshStep, AgreeStep
       DEF LedgerInv
  <1>2. CASE UNCHANGED ledgerVars
    BY <1>2 DEF ledgerVars, effectVars, LedgerInv, TypesOK, CallsAreBound, Bound, OneOwner,
                RecordsAreKept, EffectsAreOwned, FreshUntilDone, FreshFor, Fresh, VerdictsAgree,
                AnswerIsTrue, Agrees, At
  <1> QED
    BY <1>1, <1>2, PowerLossStep DEF LedgerNext, CallerStep

----------------------------------------------------------------------------
(***************************************************************************)
(* What the ledgers promise.                                               *)
(***************************************************************************)

\* The inductive invariant holds in every state of the ledgers.
THEOREM LedgerInvariance == LedgerSpec => []LedgerInv
  <1> USE LedgerConstantsAreTyped
  <1>1. LedgerInit => LedgerInv
    BY InvInit
  <1>2. LedgerInv /\ [LedgerNext]_ledgerVars => LedgerInv'
    BY InvStep
  <1> QED
    BY <1>1, <1>2, PTL DEF LedgerSpec

\* Every record, call and outcome is in its shape, and while an effect runs its identity is
\* durable and bound to the contents of its call.
THEOREM Survival == LedgerSpec => []LedgersOK
  <1> USE LedgerConstantsAreTyped
  <1>1. ASSUME LedgerInv
        PROVE  LedgersOK
    <2> USE <1>1 DEF LedgerInv
    <2>1. \A i \in Ids :
             /\ {record[i], durable[i]} \subseteq
                   {NoRecord, Empty} \cup [state : States, contents : Contents]
             /\ effect[i] \in {"none", "begun", "unverified"} \cup Outcomes
             /\ effects[i] \in Nat /\ told[i] \subseteq Outcomes
      <3>1. \A i \in Ids : record[i] \in Records /\ durable[i] \in Records
        BY DEF TypesOK
      <3> QED
        BY <3>1 DEF TypesOK, Records, Bare
    <2>2. ASSUME NEW c \in Callers, call[c].at \in {"executing", "finishing", "closing"}
          PROVE  /\ durable[call[c].id].state \notin {"absent", "empty", "CLAIMED"}
                 /\ durable[call[c].id].contents = call[c].contents
      <3>1. /\ call[c].id \in Ids /\ record[call[c].id].contents = call[c].contents
            /\ durable[call[c].id].state \in {"RUNNING", "UNKNOWN"}
        BY <2>2 DEF CallsAreBound, Bound, At, Replaced
      <3>2. durable[call[c].id] \notin Bare
        BY <3>1, Shapes DEF States, Incomplete, Outcomes
      <3> QED
        BY <3>1, <3>2 DEF RecordsAreKept
    <2> QED
      BY <2>1, <2>2 DEF LedgersOK, TypesOK
  <1>2. LedgerInv => LedgersOK
    BY <1>1
  <1> QED
    BY <1>2, LedgerInvariance, PTL

\* Two outcomes that are told of an identity are the same, or one is the UNKNOWN of an agent
\* attempt that a replay has closed; and what is told is true of the effect.
THEOREM AnswersAreTrue == LedgerSpec => []AnswersAgree
  <1> USE LedgerConstantsAreTyped
  <1>1. ASSUME LedgerInv, NEW i \in Ids
        PROVE  /\ "SUCCEEDED" \in told[i] => effect[i] = "SUCCEEDED"
               /\ "FAILED" \in told[i] => effect[i] \in {"none", "unverified", "FAILED"}
               /\ Cardinality(told[i] \ (IF i \in Agents THEN {"UNKNOWN"} ELSE {})) <= 1
               /\ effects[i] > 0 => record[i].contents = effectOf[i]
    <2> USE <1>1 DEF LedgerInv
    <2>1. \A s \in told[i] : Agrees(i, s)
      BY DEF VerdictsAgree
    <2>2. told[i] \subseteq Outcomes /\ effects[i] \in {0, 1}
      BY Shapes
    <2> DEFINE answers == told[i] \ (IF i \in Agents THEN {"UNKNOWN"} ELSE {})
    <2>3. \A s, t \in answers : s = t
      BY <2>1, <2>2 DEF Agrees, Outcomes, Ids, LedgerConstants
    <2>4. Cardinality(answers) <= 1
      <3> HIDE DEF answers
      <3>1. CASE answers = {}
        BY <3>1, FS_EmptySet
      <3>2. CASE answers # {}
        <4>1. PICK s : s \in answers
          BY <3>2
        <4>2. answers = {s}
          BY <2>3, <4>1
        <4>3. Cardinality({s}) = 1
          BY FS_Singleton
        <4> QED
          BY <4>2, <4>3
      <3> QED
        BY <3>1, <3>2
    <2> QED
      BY <2>1, <2>2, <2>4 DEF Agrees, RecordsAreKept
  <1>2. LedgerInv => AnswersAgree
    BY <1>1 DEF AnswersAgree
  <1> QED
    BY <1>2, LedgerInvariance, PTL
----------------------------------------------------------------------------
(***************************************************************************)
(* The refinement of an effect that happens once.                          *)
(***************************************************************************)

Consumed == {i \in Ids : record[i] # NoRecord}
Executed == {i \in Ids : effects[i] = 1}
Closed   == {i \in Deliveries : durable[i].state \in Outcomes}

\* What has been performed or closed was claimed before, and a power loss cannot undo that.
LEMMA ClaimsAreKept ==
    ASSUME LedgerConstants, LedgerInv
    PROVE  /\ Executed \subseteq Consumed /\ Closed \subseteq Consumed
           /\ \A i \in Executed \cup Closed : durable[i] # NoRecord
           /\ \A i \in Closed : i \in Ids /\ record[i] = durable[i]
  <1> USE DEF LedgerInv, RecordsAreKept
  <1>1. \A i \in Closed : i \in Ids /\ record[i] = durable[i] /\ durable[i].state \in States
    BY DEF Closed, Ids, States
  <1>2. \A i \in Executed : durable[i] \notin Bare /\ record[i] # NoRecord
    BY DEF Executed, Bare
  <1> QED
    BY <1>1, <1>2, Shapes DEF Consumed, Executed, Bare

\* The steps of a caller: a claim, the beginning of an effect, or an outcome that becomes
\* durable.
LEMMA OnceStep ==
    ASSUME LedgerConstants, LedgerInv, LedgerInv', NEW c \in Callers, CallerStep(c)
    PROVE  \/ \E i \in Ids : /\ i \notin Consumed /\ Consumed' = Consumed \cup {i}
                             /\ UNCHANGED <<Executed, Closed>>
           \/ \E i \in Ids : /\ i \in Consumed \ (Executed \cup Closed)
                             /\ Executed' = Executed \cup {i}
                             /\ UNCHANGED <<Consumed, Closed>>
           \/ UNCHANGED <<Consumed, Executed>> /\ Closed \subseteq Closed'
  <1> USE DEF LedgerInv
  <1>1. PICK i \in Ids : StepForm(c, i) /\ \A j \in Ids \ {i} : Untouched(j)
    BY StepForms
  <1>2. /\ \A j \in Ids \ {i} : /\ j \in Consumed' <=> j \in Consumed
                                /\ j \in Executed' <=> j \in Executed
                                /\ j \in Closed' <=> j \in Closed
        /\ Consumed \subseteq Ids /\ Executed \subseteq Ids /\ Closed \subseteq Ids
        /\ Consumed' \subseteq Ids /\ Executed' \subseteq Ids /\ Closed' \subseteq Ids
    BY <1>1 DEF Untouched, SameEffect, Consumed, Executed, Closed, Ids
  <1>3. CASE Claims(c, i)
    <2>1. record[i] = NoRecord /\ record'[i] # NoRecord /\ effects'[i] = effects[i]
          /\ durable'[i] = durable[i]
      BY <1>3 DEF Claims, SameEffect, NoRecord, Empty, RecordOf
    <2> QED
      BY <1>2, <2>1 DEF Consumed, Executed, Closed
  <1>4. CASE call[c].at = "running" /\ call'[c].at = "executing"
    <2>1. /\ call[c].id = i /\ effects'[i] = effects[i] + 1
          /\ durable'[i] = record[i] /\ record'[i] = record[i]
      BY <1>1, <1>4 DEF StepForm, Claims, Replays, Writes, Syncs, Effects, Finishes, Goes, Enters,
                        Ends
    <2>2. effects[i] = 0 /\ effects'[i] = 1
      BY <1>4, <2>1 DEF EffectsAreOwned
    <2>3. Bound(c)
      BY DEF CallsAreBound
    <2>4. record[i].state \in States /\ (i \in Deliveries => record[i].state = "RUNNING")
      BY <1>4, <2>1, <2>3 DEF Bound, At, Replaced, LedgerConstants
    <2>5. i \notin Closed /\ i \notin Closed'
      BY <2>1, <2>4 DEF Closed, RecordsAreKept, Outcomes
    <2>6. record[i] # NoRecord
      BY <2>4, Shapes DEF Bare
    <2> QED
      BY <1>2, <2>1, <2>2, <2>5, <2>6 DEF Consumed, Executed
  <1>5. CASE ~Claims(c, i) /\ ~(call[c].at = "running" /\ call'[c].at = "executing")
    <2>1. effects'[i] = effects[i]
      BY <1>1, <1>5 DEF StepForm, Replays, Writes, Syncs, Effects, Finishes, Goes, SameEffect,
                        Untouched
    <2>2. record'[i] = record[i] \/ (record[i] # NoRecord /\ record'[i] # NoRecord)
      <3>1. CASE Writes(c, i)
        <4>1. Bound(c) /\ call[c].id = i /\ call[c].answer # "absent"
          BY <3>1 DEF CallsAreBound, Writes, Goes, TypesOK, Outcomes
        <4>2. record[i].state # "absent"
          BY <3>1, <4>1 DEF Writes, Goes, Bound, At, States, Incomplete, Outcomes, Empty, RecordOf
        <4> QED
          BY <3>1, <4>1, <4>2 DEF Writes, NoRecord, RecordOf
      <3>2. CASE ~Writes(c, i)
        BY <1>1, <1>5, <3>2 DEF StepForm, Replays, Syncs, Effects, Finishes, Untouched
      <3> QED
        BY <3>1, <3>2
    <2>3. durable'[i] = durable[i] \/ durable'[i] = record[i]
      BY <1>1, <1>5 DEF StepForm, Replays, Writes, Syncs, Effects, Finishes, Untouched
    <2>4. i \in Closed => i \in Closed'
      BY <2>3 DEF Closed, RecordsAreKept
    <2> QED
      BY <1>2, <2>1, <2>2, <2>4 DEF Consumed, Executed
  <1> QED
    BY <1>3, <1>4, <1>5

\* A power loss takes back only claims that had neither an effect nor an outcome.
LEMMA OnceLoss ==
    ASSUME LedgerConstants, LedgerInv, LedgerInv', LedgerPowerLoss
    PROVE  /\ Consumed' \subseteq Consumed /\ Executed \cup Closed \subseteq Consumed'
           /\ Executed' = Executed /\ Closed \subseteq Closed' /\ Closed' \subseteq Consumed'
  <1>1. /\ \A i \in Ids : /\ \/ record'[i] \in {record[i], durable[i]}
                             \/ /\ record'[i] = Empty
                                /\ durable[i] = NoRecord /\ record[i] # NoRecord
                          /\ durable'[i] = record'[i]
        /\ UNCHANGED effects
    BY PowerLossIs DEF LedgerInv
  <1>2. \A i \in Ids : record[i] = NoRecord => durable[i] = NoRecord
    BY DEF LedgerInv, RecordsAreKept
  <1>3. NoRecord # Empty
    BY DEF NoRecord, Empty, RecordOf
  <1>4. Consumed' \subseteq Consumed /\ Executed' = Executed
    BY <1>1, <1>2 DEF Consumed, Executed
  <1>5. \A i \in Executed \cup Closed : i \in Ids /\ record'[i] # NoRecord
    BY <1>1, <1>2, <1>3, ClaimsAreKept DEF Consumed
  <1>6. Closed \subseteq Closed'
    BY <1>1, <1>3, ClaimsAreKept DEF Closed, Ids
  <1>7. Closed' \subseteq Consumed'
    <2>1. \A i \in Closed' : i \in Ids /\ durable'[i].state \in Outcomes
      BY DEF Closed, Ids
    <2>2. NoRecord.state \notin Outcomes
      BY DEF NoRecord, RecordOf, Outcomes
    <2> QED
      BY <1>1, <2>1, <2>2 DEF Consumed
  <1> QED
    BY <1>4, <1>5, <1>6, <1>7 DEF Consumed

\* Both orchestrators consume the identity before the effect, perform it at most once, and
\* forget neither it nor the outcome of a delivery: every step is one of OnceOnlyEffect.
THEOREM PerformsOnce == LedgerSpec => ImplementsOnce
  <1> USE LedgerConstantsAreTyped
  <1> USE DEF Consumed, Executed, Closed
  <1>1. LedgerInit => Once!Init
    BY DEF LedgerInit, Once!Init, Ids, NoRecord, RecordOf, Outcomes
  <1>2. ASSUME LedgerInv, LedgerInv', [LedgerNext]_ledgerVars
        PROVE  [Once!Next]_<<Consumed, Executed, Closed>>
    <2>1. Closed' \subseteq Consumed'
      <3>1. NoRecord.state \notin Outcomes
        BY DEF NoRecord, RecordOf, Outcomes
      <3> QED
        BY <1>2, <3>1 DEF LedgerInv, RecordsAreKept, Ids
    <2>2. ASSUME NEW c \in Callers, CallerStep(c)
          PROVE  [Once!Next]_<<Consumed, Executed, Closed>>
      <3>1. CASE \E i \in Ids : /\ i \notin Consumed /\ Consumed' = Consumed \cup {i}
                                /\ UNCHANGED <<Executed, Closed>>
        BY <3>1 DEF Once!Next, Once!Consume
      <3>2. CASE \E i \in Ids : /\ i \in Consumed \ (Executed \cup Closed)
                                /\ Executed' = Executed \cup {i}
                                /\ UNCHANGED <<Consumed, Closed>>
        BY <3>2 DEF Once!Next, Once!Execute
      <3>3. CASE UNCHANGED <<Consumed, Executed>> /\ Closed \subseteq Closed'
        <4>1. /\ {} \in SUBSET (Consumed \ (Executed \cup Closed))
              /\ Closed' \in SUBSET (Consumed \ {})
              /\ Consumed' = Consumed \ {} /\ Closed' = Closed \cup Closed'
              /\ UNCHANGED Executed
          BY <2>1, <3>3
        <4>2. Once!Settle
          BY <4>1 DEF Once!Settle
        <4> QED
          BY <4>2 DEF Once!Next
      <3> QED
        BY <1>2, <2>2, <3>1, <3>2, <3>3, OnceStep
    <2>3. ASSUME LedgerPowerLoss
          PROVE  Once!Next
      <3>1. /\ Consumed' \subseteq Consumed /\ Executed \cup Closed \subseteq Consumed'
            /\ Executed' = Executed /\ Closed \subseteq Closed' /\ Closed' \subseteq Consumed'
        BY <1>2, <2>3, OnceLoss
      <3>2. /\ Consumed \ Consumed' \in SUBSET (Consumed \ (Executed \cup Closed))
            /\ Closed' \in SUBSET (Consumed \ (Consumed \ Consumed'))
            /\ Consumed' = Consumed \ (Consumed \ Consumed') /\ Closed' = Closed \cup Closed'
            /\ UNCHANGED Executed
        BY <3>1
      <3>3. Once!Settle
        BY <3>2 DEF Once!Settle
      <3> QED
        BY <3>3 DEF Once!Next
    <2>4. UNCHANGED ledgerVars => UNCHANGED <<Consumed, Executed, Closed>>
      BY DEF ledgerVars, effectVars
    <2> QED
      BY <1>2, <2>2, <2>3, <2>4 DEF LedgerNext, CallerStep
  <1> QED
    BY <1>1, <1>2, LedgerInvariance, PTL DEF LedgerSpec, ImplementsOnce, Once!Spec


----------------------------------------------------------------------------
\* The records and the ledgers are well-formed together, also when both move.
THEOREM StoresAreWellFormed == Spec /\ LedgerSpec => []StoresOK
<1>1. RecordsOK /\ LedgersOK => StoresOK
  BY DEF StoresOK
<1> QED BY RecordsAreWellFormed, Survival, <1>1, PTL
=============================================================================
