------------------------ MODULE ContinuousModeProofs ------------------------
(***************************************************************************)
(* Proofs about the passes of the resource syncer as continuous mode runs  *)
(* them: for any number of watchers, edits, faults and crashes.            *)
(***************************************************************************)
EXTENDS ContinuousMode, TLAPS

First == IF SyncCRDs THEN 1 ELSE FirstNamespaced
Last == Len(Types)

Item == [v : Nat, fixed : 1..2, label : {"plain", "ignore", "override", "garbled", "unused"}]
Copy == [v : Nat, fixed : 1..2, replicas : {"none", "override", "source", "zero"}]
Steps == {"idle", "prepare", "list", "get", "put", "data", "done", "failed"}
Pass == [pc : Steps, i : 1..Last, item : Item, seen : BOOLEAN, fresh : BOOLEAN,
         quiet : BOOLEAN]

Shape ==
    /\ src \in [Kinds -> Item] /\ dst \in [Kinds -> Copy] /\ edits \in Nat
    /\ pass \in [Workers -> Pass]

\* Of type number j, destination d has what the mapping wants of source s.
Matches(j, s, d) ==
    ~Skipped(s[Types[j]]) => d[Types[j]] = Wanted(Types[j], s[Types[j]])

\* A pass that nobody has disturbed holds the object it has listed, and has left
\* every type that it is through with up to date.
Undisturbed(p, s, d) ==
    /\ p.pc \in {"get", "put"} => p.item = s[Types[p.i]]
    /\ \A j \in First..Last :
          j < p.i \/ p.pc \in {"data", "done"} => Matches(j, s, d)

Working(p) == p.pc \notin {"idle", "failed"}

Good(p, s, d) ==
    Working(p) => /\ p.i >= First
                  /\ p.pc \in {"data", "done"} => p.i = Last
                  /\ p.quiet => Undisturbed(p, s, d)

PassInv == \A w \in Workers : Good(pass[w], src, dst)

Inv == Shape /\ PassInv

-----------------------------------------------------------------------------
(* The types of a pass. *)

\* The types are three, each at one place, and a pass is about those from the
\* first on.
LEMMA TypesOfPass ==
    /\ Last = 3 /\ First \in 1..2 /\ First = NewPass.i
    /\ \A i, j \in 1..Last : Types[i] = Types[j] => i = j
    /\ \A j \in First..Last : Types[j] \in Kinds
    /\ \A k \in Kinds : \E j \in First..Last : k = Types[j]
    /\ Types[Last] = Claim /\ \A j \in 1..Last : IsPVC(Types[j]) <=> j = Last
<1>1. Last = 3 /\ First \in 1..2 /\ First = NewPass.i
  BY SyncerConstants DEF Last, First, Types, FirstNamespaced, NewPass, IdlePass
<1>2. \A j \in First..Last : Types[j] \in Kinds
  BY DEF First, Last, Kinds
<1>3. \A k \in Kinds : \E j \in First..Last : k = Types[j]
  BY DEF First, Last, Kinds
<1>4. /\ \A i, j \in 1..Last : Types[i] = Types[j] => i = j
      /\ Types[Last] = Claim /\ \A j \in 1..Last : IsPVC(Types[j]) <=> j = Last
  BY <1>1 DEF Types, IsPVC, Claim
<1> QED
  BY <1>1, <1>2, <1>3, <1>4

\* Nothing listed is an item too.
LEMMA GoneType == Gone \in Item
BY DEF Gone, Item

\* A pass moves to another step, of the same type or of another.
LEMMA MoveType ==
    ASSUME NEW p \in Pass, NEW c \in Steps, NEW n \in 1..Last
    PROVE  /\ [p EXCEPT !.pc = c] \in Pass
           /\ [p EXCEPT !.pc = c, !.i = n] \in Pass
<1>1. [p EXCEPT !.pc = c] \in Pass
  BY DEF Pass
<1>2. [p EXCEPT !.pc = c, !.i = n] \in Pass
  BY DEF Pass
<1> QED
  BY <1>1, <1>2

\* The passes that are put in place of others have their shape.
LEMMA PassTypes ==
    /\ IdlePass \in Pass /\ NewPass \in Pass
    /\ \A s, d : Good(IdlePass, s, d) /\ Good(NewPass, s, d)
<1>1. IdlePass \in Pass /\ NewPass \in Pass
  <2>1. IdlePass \in Pass
    BY TypesOfPass, GoneType DEF IdlePass, Pass, Steps
  <2>2. CASE SyncCRDs
    BY <2>1, <2>2, TypesOfPass DEF NewPass, Pass, Steps
  <2>3. CASE ~SyncCRDs
    <3>1. "prepare" \in Steps /\ FirstNamespaced \in 1..Last
      BY TypesOfPass DEF Steps, FirstNamespaced
    <3> QED
      BY <2>1, <2>3, <3>1, MoveType, Zenon DEF NewPass
  <2> QED
    BY <2>1, <2>2, <2>3
<1>2. \A s, d : Good(IdlePass, s, d)
  BY DEF Good, Working, IdlePass
<1>3. NewPass.pc \in {"prepare", "list"} /\ NewPass.i = First
  BY TypesOfPass, SyncerConstants DEF NewPass, IdlePass
<1>4. \A s, d : Good(NewPass, s, d)
  BY <1>3, TypesOfPass DEF Good, Undisturbed
<1> QED
  BY <1>1, <1>2, <1>4

\* A pass that is through with its current type, and has left it up to date if
\* nobody disturbed it, goes on to the next.
LEMMA AdvancedGood ==
    ASSUME Shape, NEW w \in Workers, NEW s, NEW d, pass[w].i >= First,
           pass[w].quiet => \A j \in First..pass[w].i : Matches(j, s, d)
    PROVE  Advanced(w) \in Pass /\ Good(Advanced(w), s, d)
<1> DEFINE p == pass[w]  q == Advanced(w)
<1>1. p \in Pass /\ p.i \in 1..3 /\ Last = 3 /\ First \in 1..2
  BY TypesOfPass DEF Shape, Pass
<1> DEFINE rest == [p EXCEPT !.item = Gone, !.seen = FALSE, !.fresh = FALSE]
<1>2. q \in Pass /\ q.quiet = p.quiet
  <2>1. rest \in Pass /\ rest.quiet = p.quiet
    BY <1>1, GoneType, ZenonT(30) DEF Pass
  <2>2. q = IF p.i = 3 THEN [rest EXCEPT !.pc = "done"]
            ELSE [rest EXCEPT !.pc = (IF p.i + 1 = FirstNamespaced THEN "prepare" ELSE "list"),
                              !.i = p.i + 1]
    BY <1>1 DEF Advanced, CustomResources, Last
  <2> HIDE DEF rest, q, p
  <2>3. CASE p.i = 3
    BY <2>1, <2>2, <2>3, MoveType, ZenonT(30) DEF Pass, Steps
  <2>4. CASE p.i < 3
    <3> DEFINE c == IF p.i + 1 = FirstNamespaced THEN "prepare" ELSE "list"
    <3>1. q = [rest EXCEPT !.pc = c, !.i = p.i + 1]
      BY <1>1, <2>2, <2>4
    <3>2. c \in Steps /\ p.i + 1 \in 1..Last
      BY <1>1, <2>4 DEF Steps
    <3> HIDE DEF c
    <3>3. q \in Pass
      BY <2>1, <3>1, <3>2, MoveType
    <3>4. q.quiet = rest.quiet
      BY <2>1, <3>1 DEF Pass
    <3> QED
      BY <2>1, <3>3, <3>4
  <2> QED
    BY <1>1, <2>3, <2>4
<1>3. CASE p.i = 3
  <2>1. q.pc = "done" /\ q.i = 3
    BY <1>1, <1>3 DEF Advanced, CustomResources, Pass, Last
  <2> QED
    BY <1>1, <1>2, <1>3, <2>1 DEF Good, Undisturbed
<1>4. CASE p.i < 3
  <2>1. q.pc \in {"prepare", "list"} /\ q.i = p.i + 1
    BY <1>1, <1>4 DEF Advanced, Pass, Last
  <2> QED
    BY <1>1, <1>2, <1>4, <2>1 DEF Good, Undisturbed
<1> QED
  BY <1>1, <1>3, <1>4

-----------------------------------------------------------------------------
(* What a step does to the passes. *)

\* One worker's pass goes on and no object changes.
LEMMA OneGoes ==
    ASSUME Inv, NEW w \in Workers, NEW p \in Pass, Goes(w, p), Good(p, src, dst),
           UNCHANGED <<src, dst>>, edits' \in Nat
    PROVE  Inv'
<1>1. Shape'
  BY DEF Inv, Shape, Goes
<1>2. ASSUME NEW x \in Workers
      PROVE  Good(pass'[x], src, dst)
  BY DEF Inv, Shape, PassInv, Goes
<1> QED
  BY <1>1, <1>2 DEF Inv, PassInv

\* A pass that fails promises nothing.
LEMMA FailedGood ==
    ASSUME NEW s, NEW d
    PROVE  Failed \in Pass /\ Good(Failed, s, d)
<1>1. Failed \in Pass
  <2>1. "failed" \in Steps /\ 1 \in 1..Last
    BY TypesOfPass DEF Steps
  <2> QED
    BY <2>1, PassTypes, MoveType, Zenon DEF Failed
<1>2. Failed.pc = "failed"
  BY DEF Failed, IdlePass
<1> QED
  BY <1>1, <1>2 DEF Good, Working

\* Somebody else's change disturbs every pass that is at work.
LEMMA AllDisturbed ==
    ASSUME Inv, src' \in [Kinds -> Item], dst' \in [Kinds -> Copy], edits' \in Nat,
           pass' \in [Workers -> Pass],
           \A x \in Workers : /\ pass'[x].pc = pass[x].pc /\ pass'[x].i = pass[x].i
                              /\ pass'[x].quiet => pass[x].pc = "idle"
    PROVE  Inv'
<1>1. ASSUME NEW x \in Workers
      PROVE  Good(pass'[x], src', dst')
  BY DEF Inv, PassInv, Good, Working
<1> QED
  BY <1>1 DEF Inv, Shape, PassInv

\* Steps that read, or that end a pass.
LEMMA PrepareStep ==
    ASSUME Inv, NEW w \in Workers, NEW f \in BOOLEAN, Prepare(w, f)
    PROVE  Inv'
<1> DEFINE p == pass[w]
<1>1. p \in Pass /\ p.pc = "prepare" /\ Good(p, src, dst) /\ edits' \in Nat
  BY DEF Inv, Shape, PassInv, Prepare, Outage
<1>2. CASE Goes(w, [p EXCEPT !.pc = "list"])
  <2> DEFINE q == [p EXCEPT !.pc = "list"]
  <2>1. q \in Pass /\ q.pc = "list" /\ q.i = p.i /\ q.quiet = p.quiet
    BY <1>1 DEF Pass, Steps
  <2>2. Good(q, src, dst)
    BY <1>1, <2>1 DEF Good, Working, Undisturbed
  <2> QED
    BY <1>1, <1>2, <2>1, <2>2, OneGoes DEF Prepare
<1>3. CASE Fails(w)
  BY <1>1, <1>3, FailedGood, OneGoes DEF Prepare, Fails, Inv
<1> QED
  BY <1>2, <1>3 DEF Prepare

\* A type is listed: there is nothing to copy, or the item is kept.
LEMMA ListStep ==
    ASSUME Inv, NEW w \in Workers, NEW f \in BOOLEAN, List(w, f)
    PROVE  Inv'
<1> DEFINE p == pass[w]  item == src[KindOf(w)]
<1>1. p \in Pass /\ p.pc = "list" /\ Good(p, src, dst) /\ edits' \in Nat /\ Shape
  BY DEF Inv, Shape, PassInv, List, Outage
<1>2. UNCHANGED <<src, dst>>
  BY DEF List, objects
<1>3. /\ p.i \in First..Last /\ p.i >= First
      /\ p.quiet => \A j \in First..Last : j < p.i => Matches(j, src, dst)
  BY <1>1, TypesOfPass DEF Good, Working, Undisturbed, Pass
<1>4. CASE Fails(w)
  BY <1>1, <1>2, <1>4, FailedGood, OneGoes DEF Fails
<1>5. CASE Skipped(item) /\ Goes(w, Advanced(w))
  <2>1. Matches(p.i, src, dst)
    BY <1>5 DEF Matches, KindOf
  <2>2. p.quiet => \A j \in First..p.i : Matches(j, src, dst)
    BY <1>1, <1>3, <2>1, TypesOfPass DEF Pass
  <2>3. Advanced(w) \in Pass /\ Good(Advanced(w), src, dst)
    BY <1>1, <1>3, <2>2, AdvancedGood
  <2> QED
    BY <1>1, <1>2, <1>5, <2>3, OneGoes
<1>6. CASE Goes(w, [p EXCEPT !.pc = "get", !.item = item])
  <2> DEFINE q == [p EXCEPT !.pc = "get", !.item = item]
  <2>1. item \in Item
    BY <1>1, <1>3, TypesOfPass DEF Shape, KindOf
  <2>2. q \in Pass /\ q.pc = "get" /\ q.i = p.i /\ q.quiet = p.quiet /\ q.item = item
    BY <1>1, <2>1 DEF Pass, Steps
  <2>3. Good(q, src, dst)
    BY <1>3, <2>2 DEF Good, Undisturbed, KindOf
  <2> QED
    BY <1>1, <1>2, <1>6, <2>2, <2>3, OneGoes
<1> QED
  BY <1>4, <1>5, <1>6 DEF List

\* The copy is read: it is what is wanted, or the pass is about to write it.
LEMMA GetStep ==
    ASSUME Inv, NEW w \in Workers, NEW f \in BOOLEAN, Get(w, f)
    PROVE  Inv'
<1> DEFINE p == pass[w]
<1>1. p \in Pass /\ p.pc = "get" /\ Good(p, src, dst) /\ edits' \in Nat /\ Shape
  BY DEF Inv, Shape, PassInv, Get, Outage
<1>2. UNCHANGED <<src, dst>>
  BY DEF Get, objects
<1>3. /\ p.i \in First..Last /\ p.i >= First
      /\ p.quiet => /\ p.item = src[Types[p.i]]
                    /\ \A j \in First..Last : j < p.i => Matches(j, src, dst)
  BY <1>1, TypesOfPass DEF Good, Working, Undisturbed, Pass
<1>4. CASE Fails(w)
  BY <1>1, <1>2, <1>4, FailedGood, OneGoes DEF Fails
<1>5. ASSUME NEW seen \in BOOLEAN,
             Goes(w, [p EXCEPT !.pc = "put", !.seen = seen, !.fresh = seen])
      PROVE  Inv'
  <2> DEFINE q == [p EXCEPT !.pc = "put", !.seen = seen, !.fresh = seen]
  <2>1. q \in Pass /\ q.pc = "put" /\ q.i = p.i /\ q.quiet = p.quiet /\ q.item = p.item
    BY <1>1 DEF Pass, Steps
  <2>2. Good(q, src, dst)
    BY <1>3, <2>1 DEF Good, Undisturbed
  <2> QED
    BY <1>1, <1>2, <1>5, <2>1, <2>2, OneGoes
<1>6. CASE dst[KindOf(w)] = Wanted(KindOf(w), p.item) /\ Goes(w, Advanced(w))
  <2>1. p.quiet => Matches(p.i, src, dst)
    BY <1>3, <1>6 DEF Matches, KindOf
  <2>2. p.quiet => \A j \in First..p.i : Matches(j, src, dst)
    BY <1>1, <1>3, <2>1, TypesOfPass DEF Pass
  <2>3. Advanced(w) \in Pass /\ Good(Advanced(w), src, dst)
    BY <1>1, <1>3, <2>2, AdvancedGood
  <2> QED
    BY <1>1, <1>2, <1>6, <2>3, OneGoes
<1> QED
  BY <1>4, <1>5, <1>6 DEF Get

\* The copy wanted of an item has its shape.
LEMMA WantedType ==
    ASSUME NEW k, NEW item \in Item
    PROVE  Wanted(k, item) \in Copy
BY DEF Wanted, Replicas, Item, Copy

\* A worker stores a copy.  It disturbs the others only if the copy is late;
\* otherwise a type that was up to date still is.
LEMMA StoredStep ==
    ASSUME Inv, NEW w \in Workers, pass[w].pc = "put", NEW p \in Pass, Stored(w, p),
           UNCHANGED src, edits' \in Nat, Good(p, src, dst')
    PROVE  Inv'
<1> DEFINE k == KindOf(w)
<1>1. pass[w] \in Pass /\ k \in Kinds /\ pass[w].item \in Item /\ Shape
  BY TypesOfPass DEF Inv, Shape, PassInv, Good, Working, KindOf, Pass
<1>2. dst' \in [Kinds -> Copy]
  BY <1>1, WantedType DEF Stored, Shape
<1>3. ASSUME NEW x \in Workers
      PROVE  /\ pass'[x] \in Pass
             /\ Good(pass'[x], src', dst')
  <2>1. CASE x = w
    BY <2>1 DEF Stored
  <2>2. CASE x # w
    <3> DEFINE y == Stales(k, pass[x])
               late == Late(k, pass[w].item)
    <3>1. y \in Pass /\ y.pc = pass[x].pc /\ y.i = pass[x].i /\ y.quiet = pass[x].quiet
          /\ y.item = pass[x].item
      BY <1>1 DEF Stales, Shape, Pass
    <3>2. pass'[x] = [y EXCEPT !.quiet = @ /\ (late => pass[x].pc = "idle")]
      BY <2>2 DEF Stored
    <3> HIDE DEF y, late
    <3>3. /\ pass'[x] \in Pass /\ pass'[x].pc = pass[x].pc /\ pass'[x].i = pass[x].i
          /\ pass'[x].item = pass[x].item
          /\ pass'[x].quiet => pass[x].quiet /\ (late => pass[x].pc = "idle")
      BY <3>1, <3>2 DEF Pass
    <3>4. CASE late
      BY <3>3, <3>4 DEF Inv, PassInv, Good, Working
    <3>5. CASE ~late
      <4>1. ASSUME NEW j \in First..Last, Matches(j, src, dst)
            PROVE  Matches(j, src, dst')
        <5>1. Types[j] \in Kinds
          BY TypesOfPass
        <5>2. CASE Types[j] = k
          BY <1>1, <3>5, <5>2 DEF Matches, Late, late, Stored, Shape
        <5>3. CASE Types[j] # k
          BY <4>1, <5>1, <5>3 DEF Matches, Stored, Inv, Shape
        <5> QED
          BY <5>2, <5>3
      <4>2. Good(pass[x], src, dst)
        BY DEF Inv, PassInv
      <4>3. pass'[x].quiet /\ Undisturbed(pass[x], src, dst) => Undisturbed(pass'[x], src, dst')
        BY <3>3, <4>1 DEF Undisturbed
      <4> QED
        BY <3>3, <4>2, <4>3 DEF Good, Working
    <3> QED
      BY <3>3, <3>4, <3>5
  <2> QED
    BY <2>1, <2>2
<1>4. pass' \in [Workers -> Pass]
  BY <1>3 DEF Stored
<1> QED
  BY <1>1, <1>2, <1>3, <1>4 DEF Inv, Shape, PassInv

\* What is stored is up to date, if the item still is, and the types behind the
\* pass stay so.
LEMMA StoredUpToDate ==
    ASSUME Inv, NEW w \in Workers, pass[w].pc = "put", pass[w].quiet,
           dst' = [dst EXCEPT ![KindOf(w)] = Wanted(KindOf(w), pass[w].item)]
    PROVE  \A j \in First..pass[w].i : Matches(j, src, dst')
<1> DEFINE i == pass[w].i
<1>1. /\ i \in First..Last /\ i \in 1..Last /\ pass[w].item = src[Types[i]]
      /\ \A j \in First..Last : j < i => Matches(j, src, dst)
  BY TypesOfPass DEF Inv, Shape, PassInv, Good, Working, Undisturbed, Pass
<1>2. Matches(i, src, dst')
  BY <1>1, TypesOfPass DEF Matches, KindOf, Inv, Shape
<1>3. ASSUME NEW j \in First..Last, j < i
      PROVE  Matches(j, src, dst')
  <2>1. Types[j] # Types[i] /\ Types[j] \in Kinds
    BY <1>1, <1>3, TypesOfPass
  <2>2. dst'[Types[j]] = dst[Types[j]]
    BY <2>1 DEF KindOf, Inv, Shape
  <2> QED
    BY <1>1, <1>3, <2>2 DEF Matches
<1>4. ASSUME NEW j \in First..i
      PROVE  Matches(j, src, dst')
  <2>1. j = i \/ (j \in First..Last /\ j < i)
    BY <1>1, TypesOfPass
  <2> QED
    BY <1>2, <1>3, <2>1
<1> QED
  BY <1>4

\* The object is written, or the pass ends.
LEMMA PutStep ==
    ASSUME Inv, NEW w \in Workers, NEW f \in BOOLEAN, Put(w, f)
    PROVE  Inv'
<1> DEFINE p == pass[w]  toData == IsPVC(KindOf(w)) /\ SyncData
<1>1. p \in Pass /\ p.pc = "put" /\ Good(p, src, dst) /\ edits' \in Nat /\ Shape
  BY DEF Inv, Shape, PassInv, Put, Outage
<1>2. UNCHANGED src /\ p.i \in First..Last /\ p.i \in 1..Last /\ p.i >= First
  BY <1>1, TypesOfPass DEF Put, Good, Working, Pass
<1>3. CASE Fails(w) /\ UNCHANGED dst
  BY <1>1, <1>2, <1>3, FailedGood, OneGoes DEF Fails
<1>4. CASE Stored(w, Failed)
  BY <1>1, <1>2, <1>4, FailedGood, StoredStep
<1>5. CASE Stored(w, AfterPut(w))
  <2>1. p.quiet => \A j \in First..p.i : Matches(j, src, dst')
    BY <1>1, <1>5, StoredUpToDate DEF Stored
  <2>2. CASE toData
    <3> DEFINE q == [p EXCEPT !.pc = "data"]
    <3>1. p.i = Last
      BY <1>2, <2>2, TypesOfPass DEF KindOf
    <3>2. q \in Pass /\ q.pc = "data" /\ q.i = p.i /\ q.quiet = p.quiet
      BY <1>1 DEF Pass, Steps
    <3>3. Good(q, src, dst')
      BY <1>2, <2>1, <3>1, <3>2 DEF Good, Undisturbed
    <3> QED
      BY <1>1, <1>2, <1>5, <2>2, <3>2, <3>3, StoredStep DEF AfterPut
  <2>3. CASE ~toData
    <3>1. Advanced(w) \in Pass /\ Good(Advanced(w), src, dst')
      BY <1>1, <1>2, <2>1, AdvancedGood
    <3> QED
      BY <1>1, <1>2, <1>5, <2>3, <3>1, StoredStep DEF AfterPut
  <2> QED
    BY <2>2, <2>3
<1> QED
  BY <1>3, <1>4, <1>5 DEF Put

\* The data of the claim are copied when everything else is behind the pass.
LEMMA CopyDataStep ==
    ASSUME Inv, NEW w \in Workers, NEW f \in BOOLEAN, CopyData(w, f)
    PROVE  Inv'
<1> DEFINE p == pass[w]
<1>1. p \in Pass /\ p.pc = "data" /\ Good(p, src, dst) /\ edits' \in Nat /\ Shape
  BY DEF Inv, Shape, PassInv, CopyData, Outage
<1>2. UNCHANGED <<src, dst>>
  BY DEF CopyData
<1>3. CASE Fails(w)
  BY <1>1, <1>2, <1>3, FailedGood, OneGoes DEF Fails
<1>4. CASE Goes(w, Advanced(w))
  <2>1. p.i >= First /\ p.i = Last /\ (p.quiet => \A j \in First..Last : Matches(j, src, dst))
    BY <1>1 DEF Good, Working, Undisturbed
  <2>2. Advanced(w) \in Pass /\ Good(Advanced(w), src, dst)
    BY <1>1, <2>1, AdvancedGood
  <2> QED
    BY <1>1, <1>2, <1>4, <2>2, OneGoes
<1> QED
  BY <1>3, <1>4 DEF CopyData

-----------------------------------------------------------------------------
(* The steps of others and of continuous mode. *)

\* A copy of a pass that is disturbed, and may have lost its right to write.
LEMMA DisturbedPass ==
    ASSUME Shape, NEW x \in Workers, NEW k
    PROVE  LET y == Disturbed[x] IN
           \A q \in {y, Stales(k, y), [y EXCEPT !.fresh = FALSE]} :
               /\ q \in Pass /\ q.pc = pass[x].pc /\ q.i = pass[x].i
               /\ q.quiet => pass[x].pc = "idle"
<1> DEFINE y == Disturbed[x]
<1>1. /\ y \in Pass /\ y.pc = pass[x].pc /\ y.i = pass[x].i
      /\ y.quiet => pass[x].pc = "idle"
  BY DEF Disturbed, Shape, Pass
<1> HIDE DEF y
<1>2. ASSUME NEW q \in {y, Stales(k, y), [y EXCEPT !.fresh = FALSE]}
      PROVE  /\ q \in Pass /\ q.pc = y.pc /\ q.i = y.i /\ q.quiet = y.quiet
  BY <1>1, <1>2 DEF Stales, Pass
<1> QED
  BY <1>1, <1>2 DEF y

\* Others edit the source or the destination, or delete the namespace.
LEMMA EditStep ==
    ASSUME Inv, \/ \E k \in Kinds : EditSource(k) \/ EditDest(k)
                \/ DeleteNamespace
    PROVE  Inv'
<1>1. edits' \in Nat /\ Shape
  BY DEF Inv, Shape, EditSource, EditDest, DeleteNamespace, Edits
<1>2. ASSUME NEW k \in Kinds, EditSource(k)
      PROVE  Inv'
  <2>1. src' \in [Kinds -> Item] /\ dst' = dst
    <3>1. \A o \in {Gone} \cup Edited(k) : o \in Item
      BY <1>1, GoneType DEF Edited, Labels, Item, Shape
    <3> QED
      BY <1>1, <1>2, <3>1 DEF EditSource, Shape
  <2> QED
    BY <1>1, <1>2, <2>1, DisturbedPass, AllDisturbed DEF EditSource, Shape, Disturbed
<1>3. ASSUME NEW k \in Kinds, EditDest(k)
      PROVE  Inv'
  <2>1. dst' \in [Kinds -> Copy] /\ src' = src
    BY <1>1, <1>3 DEF EditDest, Shape, Copy
  <2>2. pass' = [w \in Workers |-> Stales(k, Disturbed[w])]
    BY <1>3 DEF EditDest
  <2> QED
    BY <1>1, <2>1, <2>2, DisturbedPass, AllDisturbed DEF Shape
<1>4. ASSUME DeleteNamespace
      PROVE  Inv'
  <2>1. dst' \in [Kinds -> Copy] /\ src' = src
    BY <1>1, <1>4 DEF DeleteNamespace, Shape, Copy, NoObject
  <2>2. pass' = [w \in Workers |->
                    IF IsCRD(KindOf(w)) THEN Disturbed[w]
                    ELSE [Disturbed[w] EXCEPT !.fresh = FALSE]]
    BY <1>4 DEF DeleteNamespace
  <2> QED
    BY <1>1, <2>1, <2>2, DisturbedPass, AllDisturbed DEF Shape
<1> QED
  BY <1>2, <1>3, <1>4

\* Initial states satisfy the invariant.
LEMMA InitInv == Init => Inv
<1> SUFFICES ASSUME Init PROVE Inv
  OBVIOUS
<1>1. Shape
  BY PassTypes DEF Init, SyncInit, Shape, Item, Copy, NoObject
<1>2. PassInv
  BY PassTypes DEF Init, SyncInit, PassInv
<1> QED
  BY <1>1, <1>2 DEF Inv

\* A pass begins or ends, or the process dies.
LEMMA WatchStep ==
    ASSUME Inv, \/ Reconcile \/ Crash
                \/ \E w \in Workers : Handle(w) \/ Tick(w) \/ Returns(w)
    PROVE  Inv'
<1>1. CASE Reconcile
  BY <1>1 DEF Reconcile, syncVars, Inv, Shape, PassInv
<1>2. CASE Crash
  <2>1. /\ UNCHANGED <<src, dst>> /\ edits' \in Nat
        /\ pass' = [w \in Workers |-> IdlePass]
    BY <1>2 DEF Crash, Outage, objects, Inv, Shape
  <2>2. Shape'
    BY <2>1, PassTypes DEF Inv, Shape
  <2>3. PassInv'
    BY <2>1, PassTypes DEF PassInv
  <2> QED
    BY <2>2, <2>3 DEF Inv
<1>3. ASSUME NEW w \in Workers, Handle(w) \/ Tick(w) \/ Returns(w)
      PROVE  Inv'
  <2>1. UNCHANGED <<src, dst>> /\ edits' \in Nat
    BY <1>3 DEF Handle, Tick, Returns, Outage, objects, Inv, Shape
  <2>2. Goes(w, NewPass) \/ Goes(w, IdlePass) \/ UNCHANGED pass
    BY <1>3 DEF Handle, Tick, Returns, Starts
  <2>3. CASE UNCHANGED pass
    BY <2>1, <2>3 DEF Inv, Shape, PassInv
  <2> QED
    BY <2>1, <2>2, <2>3, PassTypes, OneGoes
<1> QED
  BY <1>1, <1>2, <1>3

\* Every step keeps the invariant.
LEMMA NextInv == Inv /\ [Next]_vars => Inv'
<1> SUFFICES ASSUME Inv, [Next]_vars PROVE Inv'
  OBVIOUS
<1>1. CASE Reconcile \/ Crash
  BY <1>1, WatchStep
<1>2. CASE DestinationChanges
  BY <1>2, EditStep DEF DestinationChanges
<1>3. CASE \E k \in Kinds : SourceChanges(k)
  BY <1>3, EditStep DEF SourceChanges
<1>4. ASSUME NEW w \in Workers, PassStep(w)
      PROVE  Inv'
  BY <1>4, PrepareStep, ListStep, GetStep, PutStep, CopyDataStep DEF PassStep
<1>5. CASE \E w \in Workers : Works(w)
  BY <1>4, <1>5, WatchStep DEF Works
<1>6. CASE UNCHANGED vars
  BY <1>6 DEF vars, syncVars, Inv, Shape, PassInv
<1> QED
  BY <1>1, <1>2, <1>3, <1>5, <1>6 DEF Next

-----------------------------------------------------------------------------
\* A pass that is done and undisturbed has copied everything, whatever it found
\* and whoever else was at work before it began.
DoneMeansCopied ==
    \A w \in Workers : pass[w].pc = "done" /\ pass[w].quiet => Copied

\* SyncNamespaceResources returns no error only when the destination has every
\* object of the source that is of a type it has a case for, unless somebody
\* edited one of the clusters while it ran or another pass wrote meanwhile what it
\* had listed before an edit: for any number of goroutines with passes side by
\* side, edits, refusals, faults and crashes.
THEOREM SuccessfulPasses == Spec => SuccessMeansCopied
<1>1. Inv => DoneMeansCopied
  <2> SUFFICES ASSUME Inv, NEW w \in Workers, pass[w].pc = "done", pass[w].quiet
               PROVE  Copied
    BY DEF DoneMeansCopied
  <2>1. \A j \in First..Last : Matches(j, src, dst)
    BY DEF Inv, PassInv, Good, Working, Undisturbed
  <2> QED
    BY <2>1, TypesOfPass DEF Copied, UpToDate, Matches
<1>2. DoneMeansCopied' =>
        [\A w \in Workers :
            pass[w].pc # "done" /\ pass'[w].pc = "done" /\ pass'[w].quiet => Copied']_syncVars
  BY DEF DoneMeansCopied
<1>3. Spec => []DoneMeansCopied
  BY <1>1, InitInv, NextInv, PTL DEF Spec
<1> QED
  BY <1>2, <1>3, PTL DEF SuccessMeansCopied
=============================================================================
