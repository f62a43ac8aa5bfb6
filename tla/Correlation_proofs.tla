------------------------ MODULE Correlation_proofs -------------------------
(***************************************************************************)
(* Proofs about Correlation. What is said of a case is said of its record  *)
(* and of F, the list of detections, because the list stays as it is while *)
(* cases are built from it.                                                *)
(***************************************************************************)
EXTENDS Correlation, SequenceTheorems, FiniteSetTheorems, WellFoundedInduction, TLAPS

-----------------------------------------------------------------------------
(* The parts of the inductive invariant. *)

(* A case has items, and they are detections. *)
Itemised(F, c) ==
  /\ Len(c.items) >= 1
  /\ \A k \in DOMAIN c.items : c.items[k] \in DOMAIN F

(* The indexes of a case hold nothing its items do not show. *)
Indexed(F, c) ==
  /\ \A x \in c.sources : \E k \in DOMAIN c.items : F[c.items[k]].src = x
  /\ \A x \in c.internals : x \in Internal /\ \E k \in DOMAIN c.items :
        F[c.items[k]].src = x \/ F[c.items[k]].dst = x
  /\ c.externals \subseteq c.sources
  /\ \A p \in c.pairs : p[1] \in c.sources

(* Each item is linked to an earlier one. *)
Chained(F, c) ==
  \A k \in DOMAIN c.items : k > 1 => \E j \in 1..(k - 1) :
    LinkedTo(F[c.items[k]], F[c.items[j]])

(* Items are in the order of their times and no window apart. *)
Timed(F, c) ==
  /\ c.last = F[c.items[Len(c.items)]].at
  /\ \A k \in DOMAIN c.items : k > 1 =>
       /\ F[c.items[k - 1]].at <= F[c.items[k]].at
       /\ F[c.items[k]].at <= F[c.items[k - 1]].at + Window

(* What makes the score of a case enough to be reported. *)
Scored(c) ==
  /\ IsFiniteSet(c.detectors) /\ c.detectors # {}
  /\ c.severity >= 6 \/ (c.severity >= 4 /\ "signature" \in c.categories)

Sound(F, c) ==
  Itemised(F, c) /\ Indexed(F, c) /\ Chained(F, c) /\ Timed(F, c) /\ Scored(c)

(* Detections are made before the cases and left until they are placed.     *)
Fresh == ~busy => cases = <<>> /\ left = DOMAIN found

AllSound == \A n \in DOMAIN cases : Sound(found, cases[n])

(* A detection is left or in a case, and never in two. *)
PlacedOnce ==
  /\ \A i \in DOMAIN found \ left : \E n \in DOMAIN cases : In(i, cases[n])
  /\ \A n \in DOMAIN cases : \A i \in left : ~In(i, cases[n])
  /\ \A n, m \in DOMAIN cases : \A i \in DOMAIN found :
       In(i, cases[n]) /\ In(i, cases[m]) => n = m

(* What is in a case is not later than what is left. *)
InOrder ==
  \A n \in DOMAIN cases : \A k \in DOMAIN cases[n].items : \A i \in left :
    found[cases[n].items[k]].at <= found[i].at

(* Detections claim what detectors may claim. *)
Claimed == \A i \in DOMAIN found : Reportable(found[i])

Inv == TypeOK /\ Claimed /\ Fresh /\ AllSound /\ PlacedOnce /\ InOrder

-----------------------------------------------------------------------------
(* Cases as they are built. *)

(* Detections are in their type, and name what detectors may report. *)
LEMMA FoundTyped ==
  ASSUME TypeOK, NEW i \in DOMAIN found
  PROVE  /\ found[i] \in Detection
         /\ found[i].src \in Place /\ found[i].dst \in Place \cup {None}
         /\ found[i].at \in Nat /\ found[i].severity \in Nat
         /\ found[i].confidence \in Nat /\ found[i].anomaly \in Nat
         /\ i \in Nat \ {0}
<1>1. found[i] \in Detection /\ i \in Nat \ {0}
  BY DEF TypeOK
<1> QED  BY <1>1 DEF Detection

(* A new case is of its type. *)
LEMMA NewCaseTyped ==
  ASSUME TypeOK, NEW i \in DOMAIN found
  PROVE  NewCase(i) \in Case
<1>1. /\ <<i>> \in Seq(Nat \ {0})
      /\ found[i].detector \in {f.detector : f \in Finding}
      /\ found[i].category \in {f.category : f \in Finding}
  BY FoundTyped DEF Detection
<1>2. /\ InsideOf(found[i].src) \cup InsideOf(found[i].dst) \in SUBSET Place
      /\ OutsideOf(found[i].src) \in SUBSET Place
  BY FoundTyped, CorrelationAssumption DEF InsideOf, OutsideOf
<1>3. (IF found[i].dst = None THEN {} ELSE {<<found[i].src, found[i].dst>>})
        \in SUBSET (Place \X Place)
  BY FoundTyped
<1> QED  BY <1>1, <1>2, <1>3, FoundTyped DEF NewCase, Case

(* A case that grows keeps its type. *)
LEMMA GrownTyped ==
  ASSUME TypeOK, NEW i \in DOMAIN found, NEW c \in Case
  PROVE  Grown(c, i) \in Case
<1>1. /\ Append(c.items, i) \in Seq(Nat \ {0})
      /\ found[i].detector \in {f.detector : f \in Finding}
      /\ found[i].category \in {f.category : f \in Finding}
  BY FoundTyped DEF Detection, Case
<1>2. /\ c.internals \cup InsideOf(found[i].src) \cup InsideOf(found[i].dst) \in SUBSET Place
      /\ c.externals \cup OutsideOf(found[i].src) \in SUBSET Place
  BY FoundTyped, CorrelationAssumption DEF InsideOf, OutsideOf, Case
<1>3. c.pairs \cup (IF found[i].dst = None THEN {} ELSE {<<found[i].src, found[i].dst>>})
        \in SUBSET (Place \X Place)
  BY FoundTyped DEF Case
<1>4. /\ Larger(c.last, found[i].at) \in Nat
      /\ Larger(c.severity, found[i].severity) \in Nat
      /\ Larger(c.anomaly, found[i].anomaly) \in Nat
      /\ c.trust + found[i].confidence \in Nat
  BY FoundTyped DEF Case, Larger
<1>5. /\ c.sources \cup {found[i].src} \in SUBSET Place
      /\ c.detectors \cup {found[i].detector} \in SUBSET {f.detector : f \in Finding}
      /\ c.categories \cup {found[i].category} \in SUBSET {f.category : f \in Finding}
  BY <1>1, FoundTyped DEF Case
<1> QED  BY <1>1, <1>2, <1>3, <1>4, <1>5 DEF Grown, Case

(* The items of a new and of a grown case. *)
LEMMA NewItems ==
  ASSUME NEW i
  PROVE  /\ NewCase(i).items = <<i>>
         /\ DOMAIN NewCase(i).items = {1}
         /\ NewCase(i).items[1] = i /\ Len(NewCase(i).items) = 1
  BY DEF NewCase

LEMMA GrownItems ==
  ASSUME TypeOK, NEW i \in DOMAIN found, NEW c \in Case
  PROVE  LET g == Grown(c, i) IN
         /\ Len(g.items) = Len(c.items) + 1 /\ Len(c.items) \in Nat
         /\ DOMAIN c.items = 1..Len(c.items)
         /\ DOMAIN g.items = 1..(Len(c.items) + 1)
         /\ \A k \in DOMAIN c.items : g.items[k] = c.items[k]
         /\ g.items[Len(c.items) + 1] = i
<1>1. c.items \in Seq(Nat \ {0}) /\ i \in Nat \ {0} /\ Grown(c, i).items = Append(c.items, i)
  BY FoundTyped DEF Case, Grown
<1> QED  BY <1>1

(* A detection alone is a sound case. *)
LEMMA NewCaseSound ==
  ASSUME TypeOK, Claimed, NEW i \in DOMAIN found
  PROVE  Sound(found, NewCase(i))
<1> DEFINE c == NewCase(i)
<1>1. Itemised(found, c)
  BY NewItems DEF Itemised
<1>2. Indexed(found, c)
  <2>1. /\ c.sources = {found[i].src}
        /\ c.internals = InsideOf(found[i].src) \cup InsideOf(found[i].dst)
        /\ c.externals = OutsideOf(found[i].src)
        /\ c.pairs = IF found[i].dst = None THEN {} ELSE {<<found[i].src, found[i].dst>>}
    BY DEF NewCase
  <2>2. 1 \in DOMAIN c.items /\ c.items[1] = i
    BY NewItems
  <2> HIDE DEF c
  <2> QED  BY <2>1, <2>2 DEF Indexed, InsideOf, OutsideOf
<1>3. Chained(found, c)
  BY NewItems DEF Chained
<1>4. Timed(found, c)
  BY NewItems DEF Timed, NewCase
<1>5. Scored(c)
  <2>1. /\ c.detectors = {found[i].detector} /\ c.severity = found[i].severity
        /\ c.categories = {found[i].category}
    BY DEF NewCase
  <2>2. IsFiniteSet({found[i].detector})
    BY FS_Singleton
  <2>3. found[i].severity >= 6 \/ (found[i].severity >= 4 /\ found[i].category = "signature")
    BY DEF Claimed, Reportable
  <2> HIDE DEF c
  <2> QED  BY <2>1, <2>2, <2>3 DEF Scored
<1> QED  BY <1>1, <1>2, <1>3, <1>4, <1>5 DEF Sound

(* The indexes of a case that grows. *)
LEMMA GrownIndexed ==
  ASSUME TypeOK, NEW i \in DOMAIN found, NEW c \in Case,
         Itemised(found, c), Indexed(found, c)
  PROVE  Indexed(found, Grown(c, i))
<1> DEFINE g == Grown(c, i)
<1>1. /\ g.sources = c.sources \cup {found[i].src}
      /\ g.internals = c.internals \cup InsideOf(found[i].src) \cup InsideOf(found[i].dst)
      /\ g.externals = c.externals \cup OutsideOf(found[i].src)
      /\ g.pairs = c.pairs \cup (IF found[i].dst = None THEN {}
                                 ELSE {<<found[i].src, found[i].dst>>})
  BY DEF Grown
<1>2. /\ \A k \in DOMAIN c.items : k \in DOMAIN g.items /\ g.items[k] = c.items[k]
      /\ \E k \in DOMAIN g.items : g.items[k] = i
  BY GrownItems
<1> HIDE DEF g
<1>3. \A x \in g.sources : \E k \in DOMAIN g.items : found[g.items[k]].src = x
  BY <1>1, <1>2 DEF Indexed
<1>4. \A x \in g.internals : x \in Internal /\ \E k \in DOMAIN g.items :
        found[g.items[k]].src = x \/ found[g.items[k]].dst = x
  BY <1>1, <1>2 DEF Indexed, InsideOf
<1>5. g.externals \subseteq g.sources /\ \A p \in g.pairs : p[1] \in g.sources
  BY <1>1 DEF Indexed, OutsideOf
<1> QED  BY <1>3, <1>4, <1>5 DEF Indexed, g

(* What Related asks for beyond the first three disjuncts adds nothing: who *)
(* is in pairs or external_sources is in source_ips already. So what joins  *)
(* a case is linked to an item of it.                                       *)
LEMMA RelatedLinks ==
  ASSUME TypeOK, NEW i \in DOMAIN found, NEW c \in Case,
         Itemised(found, c), Indexed(found, c), Related(c, found[i])
  PROVE  \E j \in DOMAIN c.items : LinkedTo(found[i], found[c.items[j]])
<1> DEFINE d == found[i]
<1>1. d.src \in c.sources \/ d.src \in c.internals \/ d.dst \in c.sources
  BY DEF Related, Indexed
<1>2. CASE d.src \in c.sources
  BY <1>2 DEF Indexed, LinkedTo
<1>3. CASE d.src \in c.internals
  BY <1>3 DEF Indexed, LinkedTo
<1>4. CASE d.dst \in c.sources
  BY <1>4 DEF Indexed, LinkedTo
<1> QED  BY <1>1, <1>2, <1>3, <1>4

(* A case stays sound when a related detection that is within the window    *)
(* and not earlier than its items joins it.                                 *)
LEMMA GrownSound ==
  ASSUME TypeOK, Claimed, NEW i \in DOMAIN found, NEW c \in Case,
         Sound(found, c), Related(c, found[i]), WithinWindow(c, found[i]),
         \A k \in DOMAIN c.items : found[c.items[k]].at <= found[i].at
  PROVE  Sound(found, Grown(c, i))
<1> DEFINE g == Grown(c, i)
           n == Len(c.items)
<1>1. /\ Len(g.items) = n + 1 /\ n \in Nat /\ n >= 1
      /\ DOMAIN c.items = 1..n /\ DOMAIN g.items = 1..(n + 1)
      /\ \A k \in DOMAIN c.items : g.items[k] = c.items[k]
      /\ g.items[n + 1] = i
  BY GrownItems DEF Sound, Itemised
<1>2. /\ g.last = Larger(c.last, found[i].at)
      /\ g.severity = Larger(c.severity, found[i].severity)
      /\ g.detectors = c.detectors \cup {found[i].detector}
      /\ g.categories = c.categories \cup {found[i].category}
  BY DEF Grown
<1>3. Itemised(found, c) /\ Indexed(found, c) /\ Chained(found, c)
      /\ Timed(found, c) /\ Scored(c)
  BY DEF Sound
<1>4. Indexed(found, g)
  BY <1>3, GrownIndexed
<1>5. \E j \in 1..n : LinkedTo(found[i], found[c.items[j]])
  BY <1>1, <1>3, RelatedLinks
<1> HIDE DEF g, n
<1>6. Itemised(found, g)
  BY <1>1, <1>3 DEF Itemised
<1>7. Chained(found, g)
  <2> SUFFICES ASSUME NEW k \in 1..(n + 1), k > 1
               PROVE  \E j \in 1..(k - 1) :
                        LinkedTo(found[g.items[k]], found[g.items[j]])
    BY <1>1 DEF Chained
  <2>1. CASE k \in 1..n
    <3>1. PICK j \in 1..(k - 1) : LinkedTo(found[c.items[k]], found[c.items[j]])
      BY <1>1, <1>3, <2>1 DEF Chained
    <3> QED  BY <1>1, <2>1, <3>1
  <2>2. CASE k = n + 1
    BY <1>1, <1>5, <2>2
  <2> QED  BY <1>1, <2>1, <2>2
<1>8. Timed(found, g)
  <2>1. /\ c.last = found[c.items[n]].at /\ c.items[n] \in DOMAIN found
        /\ found[c.items[n]].at \in Nat /\ found[i].at \in Nat
    BY <1>1, <1>3, FoundTyped DEF Timed, Itemised, n
  <2>a. n \in DOMAIN c.items /\ Window \in Nat
    BY <1>1, CorrelationAssumption
  <2>b. found[c.items[n]].at <= found[i].at
    BY <2>a
  <2>2. found[c.items[n]].at <= found[i].at /\ found[i].at <= found[c.items[n]].at + Window
    BY <2>a, <2>b, <2>1 DEF WithinWindow
  <2>3. g.last = found[g.items[Len(g.items)]].at
    BY <1>1, <1>2, <2>1, <2>2 DEF Larger
  <2>4. ASSUME NEW k \in 1..(n + 1), k > 1
        PROVE  /\ found[g.items[k - 1]].at <= found[g.items[k]].at
               /\ found[g.items[k]].at <= found[g.items[k - 1]].at + Window
    <3>1. CASE k \in 1..n
      <4>1. k \in DOMAIN c.items /\ k - 1 \in DOMAIN c.items
        BY <1>1, <2>4, <3>1
      <4> QED  BY <1>1, <1>3, <2>4, <4>1 DEF Timed
    <3>2. CASE k = n + 1
      <4>1. k - 1 = n /\ n \in DOMAIN c.items
        BY <1>1, <3>2
      <4> QED  BY <1>1, <2>2, <3>2, <4>1
    <3> QED  BY <1>1, <3>1, <3>2
  <2> QED  BY <1>1, <2>3, <2>4 DEF Timed
<1>9. Scored(g)
  <2>1. IsFiniteSet(g.detectors) /\ g.detectors # {}
    BY <1>2, <1>3, FS_AddElement DEF Scored
  <2>2. c.severity \in Nat /\ found[i].severity \in Nat
    BY FoundTyped DEF Case
  <2> QED  BY <1>2, <1>3, <2>1, <2>2 DEF Scored, Larger
<1> QED  BY <1>4, <1>6, <1>7, <1>8, <1>9 DEF Sound, g

-----------------------------------------------------------------------------
(* The steps. *)

(* What an item of a new case is. *)
LEMMA InNew ==
  ASSUME NEW i, NEW x
  PROVE  In(x, NewCase(i)) <=> x = i
  BY NewItems DEF In

LEMMA InGrown ==
  ASSUME TypeOK, NEW i \in DOMAIN found, NEW c \in Case, NEW x
  PROVE  In(x, Grown(c, i)) <=> (In(x, c) \/ x = i)
<1> DEFINE g == Grown(c, i)
<1>1. /\ Len(c.items) \in Nat
      /\ DOMAIN c.items = 1..Len(c.items) /\ DOMAIN g.items = 1..(Len(c.items) + 1)
      /\ \A k \in DOMAIN c.items : g.items[k] = c.items[k]
      /\ g.items[Len(c.items) + 1] = i
  BY GrownItems
<1> HIDE DEF g
<1>2. In(x, g) <=> (In(x, c) \/ x = i)
  BY <1>1 DEF In
<1> QED  BY <1>2 DEF g

(* A detection that no case is related to opens one. *)
LEMMA OpenStep ==
  ASSUME Inv, NEW i \in left, Open(i)
  PROVE  Inv'
<1>1. /\ TypeOK /\ Claimed /\ AllSound /\ PlacedOnce /\ InOrder
      /\ i \in DOMAIN found /\ busy
  BY DEF Inv, Open, TypeOK
<1>2. /\ cases' = Append(cases, NewCase(i)) /\ left' = left \ {i}
      /\ found' = found /\ busy' = busy /\ now' = now /\ total' = total
      /\ stamps' = stamps /\ accepted' = accepted
  BY DEF Open
<1>3. NewCase(i) \in Case /\ Sound(found, NewCase(i))
  BY <1>1, NewCaseTyped, NewCaseSound
<1>4. /\ cases \in Seq(Case) /\ cases' \in Seq(Case)
      /\ Len(cases) \in Nat /\ DOMAIN cases = 1..Len(cases)
      /\ DOMAIN cases' = 1..(Len(cases) + 1)
      /\ \A n \in DOMAIN cases : cases'[n] = cases[n]
      /\ cases'[Len(cases) + 1] = NewCase(i)
  BY <1>1, <1>2, <1>3 DEF TypeOK
<1>a. \A n \in DOMAIN cases' : n \in DOMAIN cases \/ n = Len(cases) + 1
  BY <1>4
<1>5. TypeOK'
  BY <1>1, <1>2, <1>4 DEF TypeOK
<1>6. Claimed' /\ Fresh'
  BY <1>1, <1>2 DEF Claimed, Fresh
<1>7. AllSound'
  BY <1>1, <1>2, <1>3, <1>4, <1>a DEF AllSound
<1>8. PlacedOnce'
  <2>1. \A n \in DOMAIN cases : \A x : In(x, cases'[n]) <=> In(x, cases[n])
    BY <1>4
  <2>2. \A x : In(x, cases'[Len(cases) + 1]) <=> x = i
    BY <1>4, InNew
  <2>3. \A x \in DOMAIN found' \ left' : \E n \in DOMAIN cases' : In(x, cases'[n])
    <3> SUFFICES ASSUME NEW x \in DOMAIN found', x \notin left'
                 PROVE  \E n \in DOMAIN cases' : In(x, cases'[n])
      OBVIOUS
    <3>1. CASE x = i
      BY <1>4, <2>2, <3>1
    <3>2. CASE x # i
      <4>1. PICK n \in DOMAIN cases : In(x, cases[n])
        BY <1>1, <1>2, <3>2 DEF PlacedOnce
      <4> QED  BY <1>4, <2>1, <4>1
    <3> QED  BY <3>1, <3>2
  <2>4. \A n \in DOMAIN cases' : \A x \in left' : ~In(x, cases'[n])
    BY <1>1, <1>2, <1>a, <2>1, <2>2 DEF PlacedOnce
  <2>5. \A n, m \in DOMAIN cases' : \A x \in DOMAIN found' :
          In(x, cases'[n]) /\ In(x, cases'[m]) => n = m
    <3> SUFFICES ASSUME NEW n \in DOMAIN cases', NEW m \in DOMAIN cases',
                        NEW x \in DOMAIN found', In(x, cases'[n]), In(x, cases'[m])
                 PROVE  n = m
      OBVIOUS
    <3>1. CASE x = i
      <4>1. n \notin DOMAIN cases /\ m \notin DOMAIN cases
        BY <1>1, <2>1, <3>1 DEF PlacedOnce
      <4> QED  BY <1>a, <4>1
    <3>2. CASE x # i
      <4>1. n \in DOMAIN cases /\ m \in DOMAIN cases
        BY <1>a, <2>2, <3>2
      <4> QED  BY <1>1, <1>2, <2>1, <4>1 DEF PlacedOnce
    <3> QED  BY <3>1, <3>2
  <2> QED  BY <2>3, <2>4, <2>5, Zenon DEF PlacedOnce, In
<1>9. InOrder'
  <2> SUFFICES ASSUME NEW n \in DOMAIN cases', NEW k \in DOMAIN cases'[n].items,
                      NEW j \in left'
               PROVE  found[cases'[n].items[k]].at <= found[j].at
    BY <1>2 DEF InOrder
  <2>1. CASE n \in DOMAIN cases
    BY <1>1, <1>2, <1>4, <2>1 DEF InOrder
  <2>2. CASE n = Len(cases) + 1
    <3>1. cases'[n].items[k] = i
      BY <1>4, <2>2, NewItems
    <3>2. found[i].at <= found[j].at
      <4>1. found[i].at \in Nat /\ found[j].at \in Nat
        BY <1>1, <1>2, FoundTyped DEF TypeOK
      <4> QED  BY <1>2, <4>1 DEF Open, Earliest
    <3> QED  BY <3>1, <3>2
  <2> QED  BY <1>a, <2>1, <2>2
<1> QED  BY <1>5, <1>6, <1>7, <1>8, <1>9 DEF Inv

(* A detection that is related to a case joins the youngest such case. *)
LEMMA JoinStep ==
  ASSUME Inv, NEW i \in left, Join(i)
  PROVE  Inv'
<1>1. /\ TypeOK /\ Claimed /\ AllSound /\ PlacedOnce /\ InOrder
      /\ i \in DOMAIN found /\ busy
  BY DEF Inv, Join, TypeOK
<1>2. /\ left' = left \ {i}
      /\ found' = found /\ busy' = busy /\ now' = now /\ total' = total
      /\ stamps' = stamps /\ accepted' = accepted
  BY DEF Join
<1>3. PICK m \in DOMAIN cases :
        /\ Youngest(m, found[i])
        /\ cases' = [cases EXCEPT ![m] = Grown(cases[m], i)]
  BY DEF Join
<1>4. /\ cases \in Seq(Case) /\ cases[m] \in Case /\ Grown(cases[m], i) \in Case
  BY <1>1, <1>3, GrownTyped DEF TypeOK
<1>5. /\ cases' \in Seq(Case) /\ DOMAIN cases' = DOMAIN cases
      /\ cases'[m] = Grown(cases[m], i)
      /\ \A n \in DOMAIN cases : n # m => cases'[n] = cases[n]
  BY <1>3, <1>4
<1>6. Sound(found, Grown(cases[m], i))
  <2>1. /\ Related(cases[m], found[i]) /\ WithinWindow(cases[m], found[i])
        /\ Sound(found, cases[m])
    BY <1>1, <1>3 DEF Youngest, Candidates, AllSound
  <2>2. \A k \in DOMAIN cases[m].items : found[cases[m].items[k]].at <= found[i].at
    BY <1>1, <1>3 DEF InOrder
  <2> QED  BY <1>1, <1>4, <2>1, <2>2, GrownSound
<1>7. TypeOK'
  BY <1>1, <1>2, <1>5 DEF TypeOK
<1>8. Claimed' /\ Fresh'
  BY <1>1, <1>2 DEF Claimed, Fresh
<1>9. AllSound'
  BY <1>1, <1>2, <1>5, <1>6 DEF AllSound
<1>10. PlacedOnce'
  <2>1. \A n \in DOMAIN cases : \A x :
          In(x, cases'[n]) <=> (In(x, cases[n]) \/ (n = m /\ x = i))
    <3>1. \A x : In(x, cases'[m]) <=> (In(x, cases[m]) \/ x = i)
      BY <1>1, <1>4, <1>5, InGrown
    <3> QED  BY <1>5, <3>1
  <2>2. \A x \in DOMAIN found' \ left' : \E n \in DOMAIN cases' : In(x, cases'[n])
    <3> SUFFICES ASSUME NEW x \in DOMAIN found', x \notin left'
                 PROVE  \E n \in DOMAIN cases' : In(x, cases'[n])
      OBVIOUS
    <3>1. CASE x = i
      BY <1>3, <1>5, <2>1, <3>1
    <3>2. CASE x # i
      <4>1. PICK n \in DOMAIN cases : In(x, cases[n])
        BY <1>1, <1>2, <3>2 DEF PlacedOnce
      <4> QED  BY <1>5, <2>1, <4>1
    <3> QED  BY <3>1, <3>2
  <2>3. \A n \in DOMAIN cases' : \A x \in left' : ~In(x, cases'[n])
    BY <1>1, <1>2, <1>5, <2>1 DEF PlacedOnce
  <2>4. \A n, k \in DOMAIN cases' : \A x \in DOMAIN found' :
          In(x, cases'[n]) /\ In(x, cases'[k]) => n = k
    <3> SUFFICES ASSUME NEW n \in DOMAIN cases', NEW k \in DOMAIN cases',
                        NEW x \in DOMAIN found', In(x, cases'[n]), In(x, cases'[k])
                 PROVE  n = k
      OBVIOUS
    <3>1. CASE x = i
      <4>1. ~In(x, cases[n]) /\ ~In(x, cases[k])
        BY <1>1, <1>5, <3>1 DEF PlacedOnce
      <4> QED  BY <1>5, <2>1, <4>1
    <3>2. CASE x # i
      BY <1>1, <1>2, <1>5, <2>1, <3>2 DEF PlacedOnce
    <3> QED  BY <3>1, <3>2
  <2> QED  BY <2>2, <2>3, <2>4, Zenon DEF PlacedOnce, In
<1>11. InOrder'
  <2> SUFFICES ASSUME NEW n \in DOMAIN cases', NEW k \in DOMAIN cases'[n].items,
                      NEW j \in left'
               PROVE  found[cases'[n].items[k]].at <= found[j].at
    BY <1>2 DEF InOrder
  <2>1. CASE n # m
    BY <1>1, <1>2, <1>5, <2>1 DEF InOrder
  <2>2. CASE n = m
    <3>1. In(cases'[n].items[k], cases'[n])
      BY DEF In
    <3>2. CASE In(cases'[n].items[k], cases[m])
      BY <1>1, <1>2, <1>3, <3>2 DEF InOrder, In
    <3>3. CASE cases'[n].items[k] = i
      <4>1. found[i].at \in Nat /\ found[j].at \in Nat
        BY <1>1, <1>2, FoundTyped DEF TypeOK
      <4> QED  BY <1>2, <3>3, <4>1 DEF Join, Earliest
    <3>4. In(cases'[n].items[k], cases[m]) \/ cases'[n].items[k] = i
      BY <1>1, <1>4, <1>5, <2>2, <3>1, InGrown
    <3> QED  BY <3>2, <3>3, <3>4
  <2> QED  BY <2>1, <2>2
<1> QED  BY <1>7, <1>8, <1>9, <1>10, <1>11 DEF Inv

(* A detector reports: there are no cases yet. *)
LEMMA DetectStep ==
  ASSUME Inv, NEW f \in Finding, Detect(f)
  PROVE  Inv'
<1>1. TypeOK /\ Claimed /\ Fresh /\ ~busy
  BY DEF Inv, Detect
<1>2. PICK r \in Readings : found' = Append(found,
         [detector |-> f.detector, category |-> f.category, severity |-> f.severity,
          confidence |-> f.confidence, anomaly |-> f.anomaly,
          src |-> f.src, dst |-> f.dst, at |-> r])
  BY DEF Detect
<1> DEFINE d == [detector |-> f.detector, category |-> f.category, severity |-> f.severity,
                 confidence |-> f.confidence, anomaly |-> f.anomaly,
                 src |-> f.src, dst |-> f.dst, at |-> r]
<1>3. /\ left' = left \cup {Len(found) + 1} /\ total' = total + 1
      /\ now' = now /\ cases' = cases /\ busy' = busy
      /\ stamps' = stamps /\ accepted' = accepted
  BY DEF Detect
<1>4. Reportable(f) /\ r \in Nat
  BY CorrelationAssumption DEF Readings
<1>5. d \in Detection /\ Reportable(d)
  BY <1>4 DEF Reportable, Detection
<1> HIDE DEF d
<1>6. found \in Seq(Detection) /\ Len(found) \in Nat /\ DOMAIN found = 1..Len(found)
  BY <1>1 DEF TypeOK
<1>7. /\ found' \in Seq(Detection) /\ DOMAIN found' = 1..(Len(found) + 1)
      /\ \A k \in DOMAIN found : found'[k] = found[k]
      /\ found'[Len(found) + 1] = d
  BY <1>2, <1>5, <1>6 DEF d
<1>8. cases = <<>> /\ left = DOMAIN found /\ cases' = <<>> /\ left' = DOMAIN found'
  BY <1>1, <1>3, <1>6, <1>7 DEF Fresh
<1>9. TypeOK'
  BY <1>1, <1>3, <1>7, <1>8 DEF TypeOK
<1>10. Claimed' /\ Fresh'
  BY <1>1, <1>3, <1>5, <1>6, <1>7, <1>8 DEF Claimed, Fresh
<1>11. AllSound' /\ PlacedOnce' /\ InOrder'
  BY <1>8 DEF AllSound, PlacedOnce, InOrder
<1> QED  BY <1>9, <1>10, <1>11 DEF Inv

(* Empty and constant sequences. *)
LEMMA EmptySequence ==
  ASSUME NEW S
  PROVE  <<>> \in Seq(S) /\ DOMAIN <<>> = {}
  OBVIOUS

LEMMA ConstantSequence ==
  ASSUME NEW S, NEW e \in S, NEW n \in Nat
  PROVE  LET q == [k \in 1..n |-> e] IN q \in Seq(S) /\ Len(q) = n
  BY IsASeq

(* How many cases are let through is a number within the limit. *)
LEMMA AllowanceBounded ==
  ASSUME TypeOK, NEW r \in Readings
  PROVE  /\ Allowance(r) \in Nat
         /\ Recent(r) \subseteq stamps
         /\ IsFiniteSet(stamps) /\ IsFiniteSet(Recent(r)) /\ Cardinality(Recent(r)) \in Nat
         /\ Cardinality(Recent(r)) <= Limit => Cardinality(Recent(r)) + Allowance(r) <= Limit
<1>1. /\ Incidents \subseteq 1..Len(cases) /\ Len(cases) \in Nat
      /\ stamps \subseteq 1..Len(accepted) /\ Len(accepted) \in Nat
      /\ Recent(r) \subseteq stamps
  BY DEF TypeOK, Incidents, Recent
<1>2. IsFiniteSet(Incidents) /\ IsFiniteSet(stamps) /\ IsFiniteSet(Recent(r))
  <2>1. IsFiniteSet(1..Len(cases)) /\ IsFiniteSet(1..Len(accepted))
    BY <1>1, FS_Interval
  <2> QED  BY <1>1, <2>1, FS_Subset
<1>3. Cardinality(Incidents) \in Nat /\ Cardinality(Recent(r)) \in Nat /\ Limit \in Nat
  BY <1>2, FS_CardinalityType, CorrelationAssumption
<1> QED  BY <1>1, <1>2, <1>3 DEF Allowance, Smaller, Larger

(* The cases are handed on. *)
LEMMA ReportStep ==
  ASSUME Inv, Report
  PROVE  Inv'
<1>1. TypeOK /\ left = {}
  BY DEF Inv, Report
<1>2. PICK r \in Readings :
       /\ accepted' = accepted \o [k \in 1..Allowance(r) |-> [at |-> now, stamp |-> r]]
       /\ stamps' = Recent(r) \cup (Len(accepted) + 1)..(Len(accepted) + Allowance(r))
  BY DEF Report
<1>3. /\ found' = <<>> /\ cases' = <<>> /\ busy' = FALSE /\ left' = {}
      /\ now' = now /\ total' = total
  BY <1>1 DEF Report
<1>4. Allowance(r) \in Nat /\ Recent(r) \subseteq stamps /\ r \in Nat /\ now \in Nat
  BY <1>1, AllowanceBounded DEF Readings, TypeOK
<1>5. [k \in 1..Allowance(r) |-> [at |-> now, stamp |-> r]] \in Seq([at : Nat, stamp : Nat])
  BY <1>4, ConstantSequence
<1>6. accepted' \in Seq([at : Nat, stamp : Nat]) /\ Len(accepted) \in Nat
      /\ DOMAIN accepted = 1..Len(accepted)
      /\ DOMAIN accepted' = 1..(Len(accepted) + Allowance(r))
  BY <1>1, <1>2, <1>4, <1>5 DEF TypeOK
<1>7. stamps' \subseteq DOMAIN accepted'
  BY <1>1, <1>2, <1>4, <1>6 DEF TypeOK
<1>8. TypeOK'
  BY <1>1, <1>3, <1>6, <1>7, EmptySequence DEF TypeOK
<1>9. DOMAIN found' = {} /\ DOMAIN cases' = {}
  BY <1>3, EmptySequence
<1> QED  BY <1>3, <1>8, <1>9 DEF Inv, Claimed, Fresh, AllSound, PlacedOnce, InOrder

(* The inductive invariant. *)
THEOREM Invariance == Spec => []Inv
<1>1. Init => Inv
  <2>1. <<>> \in Seq(Detection) /\ <<>> \in Seq(Case) /\ DOMAIN <<>> = {}
        /\ <<>> \in Seq([at : Nat, stamp : Nat])
    BY EmptySequence
  <2>2. ASSUME Init PROVE TypeOK
    <3>1. /\ now = 0 /\ total = 0 /\ busy = FALSE /\ left = {} /\ stamps = {}
          /\ found = <<>> /\ cases = <<>> /\ accepted = <<>>
      BY <2>2 DEF Init
    <3>2. found \in Seq(Detection) /\ cases \in Seq(Case)
          /\ accepted \in Seq([at : Nat, stamp : Nat])
      BY <2>1, <3>1, Zenon
    <3> QED  BY <3>1, <3>2 DEF TypeOK
  <2>3. Init => Claimed /\ Fresh /\ AllSound /\ PlacedOnce /\ InOrder
    BY <2>1 DEF Init, Claimed, Fresh, AllSound, PlacedOnce, InOrder
  <2> QED  BY <2>2, <2>3 DEF Inv
<1>2. Inv /\ [Next]_vars => Inv'
  <2> SUFFICES ASSUME Inv, [Next]_vars PROVE Inv'
    OBVIOUS
  <2>1. CASE Tick
    BY <2>1 DEF Tick, Inv, TypeOK, Claimed, Fresh, AllSound, PlacedOnce, InOrder
  <2>2. CASE Begin
    BY <2>2 DEF Begin, Inv, TypeOK, Claimed, Fresh, AllSound, PlacedOnce, InOrder
  <2>3. CASE Report
    BY <2>3, ReportStep
  <2>4. CASE Restart
    <3>1. <<>> \in Seq(Detection) /\ <<>> \in Seq(Case) /\ DOMAIN <<>> = {}
          /\ <<>> \in Seq([at : Nat, stamp : Nat])
      BY EmptySequence
    <3> QED  BY <2>4, <3>1 DEF Restart, Inv, TypeOK, Claimed, Fresh, AllSound, PlacedOnce, InOrder
  <2>5. CASE \E f \in Finding : Detect(f)
    BY <2>5, DetectStep
  <2>6. CASE \E i \in left : Open(i) \/ Join(i)
    BY <2>6, OpenStep, JoinStep
  <2>7. CASE UNCHANGED vars
    BY <2>7 DEF vars, Inv, TypeOK, Claimed, Fresh, AllSound, PlacedOnce, InOrder, In
  <2> QED  BY <2>1, <2>2, <2>3, <2>4, <2>5, <2>6, <2>7 DEF Next
<1> QED  BY <1>1, <1>2, PTL DEF Spec

-----------------------------------------------------------------------------
(* What follows for the properties of the runs. *)

(* TypeOK is an invariant. *)
THEOREM TypeCorrect == Spec => []TypeOK
<1>1. Inv => TypeOK
  BY DEF Inv
<1> QED  BY <1>1, Invariance, PTL

(* Each detection after the first of a case is linked to one before it.     *)
THEOREM LinksHold == Spec => []Linked
<1>1. Inv => Linked
  BY DEF Inv, AllSound, Sound, Chained, Linked
<1> QED  BY <1>1, Invariance, PTL

(* A case is one stretch of time without a gap longer than the window.      *)
THEOREM GapsBounded == Spec => []NoLongGap
<1>1. Inv => NoLongGap
  BY DEF Inv, AllSound, Sound, Timed, NoLongGap
<1> QED  BY <1>1, Invariance, PTL

(* A sound case is reported: 5 points for each of six levels of severity,   *)
(* or of four and 12 for a signature, 5 for a detector and 3 for an item.   *)
LEMMA SoundReported ==
  ASSUME NEW F, NEW c \in Case, Sound(F, c)
  PROVE  Reported(c)
<1> DEFINE n == Len(c.items)
           confidence == (20 * c.trust) \div (100 * n)
           anomaly == (15 * c.anomaly) \div 100
           sum == 5 * c.severity + confidence + anomaly
                  + Smaller(15, 5 * Cardinality(c.detectors)) + Smaller(15, 3 * n)
                  + Bonus(c, "lateral_movement", 15) + Bonus(c, "signature", 12)
                  + Bonus(c, "exfiltration", 15)
<1>1. /\ n \in Nat /\ n >= 1 /\ c.severity \in Nat /\ c.trust \in Nat /\ c.anomaly \in Nat
      /\ IsFiniteSet(c.detectors) /\ c.detectors # {}
      /\ c.severity >= 6 \/ (c.severity >= 4 /\ "signature" \in c.categories)
  BY DEF Sound, Itemised, Scored, Case
<1>2. Cardinality(c.detectors) \in Nat /\ Cardinality(c.detectors) >= 1
  <2>1. Cardinality(c.detectors) \in Nat /\ Cardinality(c.detectors) # 0
    BY <1>1, FS_CardinalityType, FS_EmptySet
  <2> QED  BY <2>1
<1>3. confidence \in Nat
  <2>1. 20 * c.trust \in Nat /\ 100 * n \in Nat \ {0}
    BY <1>1
  <2>2. ASSUME NEW a \in Nat, NEW b \in Nat \ {0} PROVE a \div b \in Nat
    OBVIOUS
  <2> QED  BY <2>1, <2>2
<1>4. anomaly \in Nat
  BY <1>1
<1>5. /\ Smaller(15, 5 * Cardinality(c.detectors)) \in Nat
      /\ Smaller(15, 5 * Cardinality(c.detectors)) >= 5
      /\ Smaller(15, 3 * n) \in Nat /\ Smaller(15, 3 * n) >= 3
  BY <1>1, <1>2 DEF Smaller
<1>6. /\ Bonus(c, "lateral_movement", 15) \in Nat /\ Bonus(c, "signature", 12) \in Nat
      /\ Bonus(c, "exfiltration", 15) \in Nat
      /\ "signature" \in c.categories => Bonus(c, "signature", 12) = 12
  BY DEF Bonus
<1>7. Score(c) = Larger(1, Smaller(100, sum))
  BY DEF Score
<1> HIDE DEF n, confidence, anomaly
<1>8. sum \in Nat /\ sum >= 35
  <2> DEFINE rest == Bonus(c, "lateral_movement", 15) + Bonus(c, "exfiltration", 15)
  <2>1. CASE c.severity >= 6
    BY <1>1, <1>3, <1>4, <1>5, <1>6, <2>1
  <2>2. CASE c.severity >= 4 /\ "signature" \in c.categories
    BY <1>1, <1>3, <1>4, <1>5, <1>6, <2>2
  <2> QED  BY <1>1, <2>1, <2>2
<1> HIDE DEF sum
<1> QED  BY <1>7, <1>8 DEF Reported, Larger, Smaller

(* Every detection of a poll is in one case, and that case is reported.     *)
THEOREM AllReported == Spec => []EveryDetectionReported
<1>1. Inv => EveryDetectionReported
  <2> SUFFICES ASSUME Inv, busy, left = {}, NEW i \in DOMAIN found
               PROVE  \E k \in DOMAIN cases :
                        /\ In(i, cases[k]) /\ Reported(cases[k])
                        /\ \A j \in DOMAIN cases : In(i, cases[j]) => j = k
    BY DEF EveryDetectionReported
  <2>1. PICK k \in DOMAIN cases : In(i, cases[k])
    BY DEF Inv, PlacedOnce
  <2>2. cases[k] \in Case /\ Sound(found, cases[k])
    BY <2>1 DEF Inv, TypeOK, AllSound
  <2>3. Reported(cases[k])
    BY <2>2, SoundReported
  <2>4. \A j \in DOMAIN cases : In(i, cases[j]) => j = k
    BY <2>1 DEF Inv, PlacedOnce
  <2> QED  BY <2>1, <2>3, <2>4
<1> QED  BY <1>1, Invariance, PTL

-----------------------------------------------------------------------------
(* Roles. *)

(* A set of positions that is not empty has a least one. *)
LEMMA LeastOf ==
  ASSUME NEW K, K \subseteq Nat, K # {}
  PROVE  Least(K) \in K
<1>1. \E k \in K : \A j \in K : ~(<<j, k>> \in OpToRel(<, Nat))
  BY NatLessThanWellFounded, WFMin
<1>2. PICK k \in K : \A j \in K : ~(<<j, k>> \in OpToRel(<, Nat))
  BY <1>1
<1>3. ASSUME NEW j \in K PROVE k <= j
  <2>1. OpToRel(<, Nat) = {p \in Nat \X Nat : p[1] < p[2]}
    BY DEF OpToRel
  <2>2. j \in Nat /\ k \in Nat /\ <<j, k>> \in Nat \X Nat
    OBVIOUS
  <2>3. ~(j < k)
    BY <1>2, <2>1, <2>2
  <2> QED  BY <2>2, <2>3
<1> QED  BY <1>3 DEF Least

(* The detections of a case, as the roles are found from them. *)
LEMMA CaseDetections ==
  ASSUME Inv, NEW n \in DOMAIN cases
  PROVE  LET D == Detections(cases[n]) IN
         /\ DOMAIN D \subseteq Nat /\ 1 \in DOMAIN D
         /\ \A k \in DOMAIN D : D[k].src \in Place /\ D[k].dst \in Place \cup {None}
<1>1. TypeOK /\ Itemised(found, cases[n]) /\ cases[n] \in Case
  BY DEF Inv, AllSound, Sound, TypeOK
<1>2. /\ DOMAIN cases[n].items = 1..Len(cases[n].items) /\ Len(cases[n].items) \in Nat
      /\ Len(cases[n].items) >= 1
  BY <1>1 DEF Case, Itemised
<1>3. \A i \in DOMAIN found : found[i].src \in Place /\ found[i].dst \in Place \cup {None}
  BY <1>1, FoundTyped
<1> QED  BY <1>1, <1>2, <1>3 DEF Detections, Itemised

(* Who is picked from a set of positions is in one of them. *)
LEMMA Picked ==
  ASSUME NEW D, NEW K, K \subseteq DOMAIN D, DOMAIN D \subseteq Nat
  PROVE  /\ K # {} => \E k \in K : FirstSource(D, K) = D[k].src
         /\ K # {} => \E k \in K : FirstDestination(D, K) = D[k].dst
         /\ K = {} => FirstSource(D, K) = None /\ FirstDestination(D, K) = None
  BY LeastOf DEF FirstSource, FirstDestination

(* The external actor acts and is outside; without one, all act inside.     *)
LEMMA ActorOutside ==
  ASSUME NEW D, DOMAIN D \subseteq Nat, \A k \in DOMAIN D : D[k].src \in Place
  PROVE  /\ ExternalActor(D) # None =>
              Acts(ExternalActor(D), D) /\ ExternalActor(D) \notin Internal
         /\ ExternalActor(D) = None => \A k \in DOMAIN D : D[k].src \in Internal
<1>1. Inbound(D) \subseteq DOMAIN D /\ FromOutside(D) \subseteq DOMAIN D
  BY DEF Inbound, FromOutside
<1>2. CASE Inbound(D) # {}
  <2>1. PICK k \in Inbound(D) : ExternalActor(D) = D[k].src
    BY <1>1, <1>2, Picked DEF ExternalActor
  <2>2. D[k].src \notin Internal /\ D[k].src # None /\ k \in DOMAIN D
    BY CorrelationAssumption DEF Inbound
  <2> QED  BY <2>1, <2>2 DEF Acts
<1>3. CASE Inbound(D) = {} /\ FromOutside(D) # {}
  <2>1. PICK k \in FromOutside(D) : ExternalActor(D) = D[k].src
    BY <1>1, <1>3, Picked DEF ExternalActor
  <2>2. D[k].src \notin Internal /\ D[k].src # None /\ k \in DOMAIN D
    BY CorrelationAssumption DEF FromOutside
  <2> QED  BY <2>1, <2>2 DEF Acts
<1>4. CASE Inbound(D) = {} /\ FromOutside(D) = {}
  <2>1. ExternalActor(D) = None
    BY <1>1, <1>4, Picked DEF ExternalActor
  <2>2. \A k \in DOMAIN D : D[k].src \in Internal
    BY <1>4 DEF FromOutside
  <2> QED  BY <2>1, <2>2
<1> QED  BY <1>2, <1>3, <1>4

(* Roles name hosts of the case in that role. *)
THEOREM RolesHold == Spec => []RolesFromCase
<1>1. Inv => RolesFromCase
  <2> SUFFICES ASSUME Inv, NEW n \in DOMAIN cases
               PROVE  LET D == Detections(cases[n]) IN
                 /\ ExternalActor(D) # None =>
                      Acts(ExternalActor(D), D) /\ ExternalActor(D) \notin Internal
                 /\ Victim(D) # None =>
                      Victim(D) \in Internal /\ \E k \in DOMAIN D : D[k].dst = Victim(D)
                 /\ PivotHost(D) # None => Acts(PivotHost(D), D) /\ PivotHost(D) \in Internal
    BY DEF RolesFromCase
  <2> DEFINE D == Detections(cases[n])
  <2>1. /\ DOMAIN D \subseteq Nat
        /\ \A k \in DOMAIN D : D[k].src \in Place /\ D[k].dst \in Place \cup {None}
    BY CaseDetections
  <2> HIDE DEF D
  <2>2. ExternalActor(D) # None => Acts(ExternalActor(D), D) /\ ExternalActor(D) \notin Internal
    BY <2>1, ActorOutside
  <2>3. Inbound(D) \subseteq DOMAIN D /\ ToInside(D) \subseteq DOMAIN D
    BY DEF Inbound, ToInside
  <2>4. Victim(D) # None => Victim(D) \in Internal /\ \E k \in DOMAIN D : D[k].dst = Victim(D)
    <3>1. CASE Inbound(D) # {}
      BY <2>1, <2>3, <3>1, Picked DEF Victim, Inbound
    <3>2. CASE Inbound(D) = {}
      BY <2>1, <2>3, <3>2, Picked DEF Victim, ToInside
    <3> QED  BY <3>1, <3>2
  <2>5. PivotHost(D) # None => Acts(PivotHost(D), D) /\ PivotHost(D) \in Internal
    <3> DEFINE P == {k \in DOMAIN D :
                       \/ D[k].src = Victim(D) /\ D[k].dst \notin {None, Victim(D)}
                       \/ D[k].src # Victim(D) /\ D[k].src \in Internal}
    <3>1. PivotHost(D) = IF Victim(D) = None THEN None ELSE FirstSource(D, P)
      BY DEF PivotHost
    <3>2. P \subseteq DOMAIN D
      OBVIOUS
    <3>3. \A k \in P : Victim(D) # None => D[k].src \in Internal
      BY <2>4
    <3> HIDE DEF P
    <3>4. ASSUME PivotHost(D) # None
          PROVE  Victim(D) # None /\ \E k \in P : PivotHost(D) = D[k].src
      BY <2>1, <3>1, <3>2, <3>4, Picked
    <3> QED  BY <3>2, <3>3, <3>4 DEF Acts
  <2> QED  BY <2>2, <2>4, <2>5 DEF D
<1> QED  BY <1>1, Invariance, PTL

(* Who is responded to acts in the case; the role response_target is never  *)
(* decisive: an outside actor is the threat source, and without one the     *)
(* threat source is inside, therefore private, and is the target itself.    *)
THEOREM TargetsHold == Spec => []TargetActs
<1>1. Inv => TargetActs
  <2> SUFFICES ASSUME Inv, NEW n \in DOMAIN cases, NEW h \in Targets(Detections(cases[n]))
               PROVE  Acts(h, Detections(cases[n]))
    BY DEF TargetActs
  <2> DEFINE D == Detections(cases[n])
  <2>1. /\ DOMAIN D \subseteq Nat /\ 1 \in DOMAIN D
        /\ \A k \in DOMAIN D : D[k].src \in Place /\ D[k].dst \in Place \cup {None}
    BY CaseDetections
  <2>a. h \in Targets(D)
    OBVIOUS
  <2> HIDE DEF D
  <2>2. Acts(ThreatSource(D), D)
    <3>1. Acts(D[1].src, D)
      BY <2>1 DEF Acts
    <3> QED  BY <2>1, <3>1, ActorOutside DEF ThreatSource
  <2>3. \A g \in Actors(D) : Acts(g, D)
    BY DEF Actors, Worst, Acts
  <2>4. ThreatSource(D) \in Private => Acts(h, D)
    BY <2>a, <2>2 DEF Targets
  <2>5. ThreatSource(D) \notin Private /\ Actors(D) # {} => Acts(h, D)
    BY <2>a, <2>3 DEF Targets, BehaviorActors
  <2>6. ASSUME ThreatSource(D) \notin Private, Actors(D) = {} PROVE Acts(h, D)
    <3>1. ExternalActor(D) # None
      <4>1. ASSUME ExternalActor(D) = None PROVE FALSE
        <5>1. D[1].src \in Private
          BY <2>1, <4>1, ActorOutside, CorrelationAssumption
        <5> QED  BY <2>6, <4>1, <5>1 DEF ThreatSource
      <4> QED  BY <4>1
    <3>2. ResponseTarget(D) = ThreatSource(D)
      BY <3>1 DEF ResponseTarget, ThreatSource
    <3> QED  BY <2>a, <2>2, <2>6, <3>2 DEF Targets
  <2> QED  BY <2>4, <2>5, <2>6 DEF D
<1> QED  BY <1>1, Invariance, PTL

-----------------------------------------------------------------------------
(* The limit on cases per minute. *)

(* A case whose stamp no longer counts was let through a minute ago, less   *)
(* what the clock was set back by.                                          *)
Stamped ==
  /\ \A k \in DOMAIN accepted : accepted[k].at <= now /\ accepted[k].at <= accepted[k].stamp + Slew
  /\ \A k \in DOMAIN accepted \ stamps : accepted[k].at + Minute <= now + Slew
  /\ Cardinality(stamps) <= Limit

RateInv == Stamped /\ RateKept

(* The cases of a stretch of a minute that begins at t. *)
Stretch(t) ==
  {k \in DOMAIN accepted : t <= accepted[k].at /\ accepted[k].at < t + Minute - Slew}

LEMMA AcceptedTyped ==
  ASSUME TypeOK, NEW k \in DOMAIN accepted
  PROVE  accepted[k].at \in Nat /\ accepted[k].stamp \in Nat
<1> DEFINE S == [at : Nat, stamp : Nat]
<1>1. accepted \in Seq(S)
  BY DEF TypeOK
<1> HIDE DEF S
<1>2. accepted[k] \in S
  BY <1>1
<1> QED  BY <1>2 DEF S

LEMMA RateReportStep ==
  ASSUME Inv, Inv', RateInv, Report
  PROVE  RateInv'
<1>1. TypeOK /\ TypeOK' /\ now \in Nat /\ now' = now
      /\ Minute \in Nat /\ Slew \in Nat /\ Limit \in Nat
  BY CorrelationAssumption DEF Inv, TypeOK, Report
<1>2. PICK r \in Readings :
       /\ accepted' = accepted \o [k \in 1..Allowance(r) |-> [at |-> now, stamp |-> r]]
       /\ stamps' = Recent(r) \cup (Len(accepted) + 1)..(Len(accepted) + Allowance(r))
  BY DEF Report
<1> DEFINE a == Allowance(r)
           n == Len(accepted)
<1>3. /\ a \in Nat /\ n \in Nat /\ r \in Nat /\ r <= now /\ now <= r + Slew
      /\ Recent(r) \subseteq stamps /\ stamps \subseteq 1..n
      /\ IsFiniteSet(Recent(r)) /\ IsFiniteSet(stamps) /\ Cardinality(Recent(r)) \in Nat
      /\ Cardinality(Recent(r)) <= Limit => Cardinality(Recent(r)) + a <= Limit
  BY <1>1, AllowanceBounded DEF TypeOK, Readings
<1>4. /\ accepted \in Seq([at : Nat, stamp : Nat]) /\ DOMAIN accepted = 1..n
      /\ \A k \in 1..n : accepted[k].at \in Nat /\ accepted[k].stamp \in Nat
  <2>1. accepted \in Seq([at : Nat, stamp : Nat]) /\ DOMAIN accepted = 1..n
    BY <1>1 DEF TypeOK
  <2> QED  BY <1>1, <2>1, AcceptedTyped
<1>5. /\ DOMAIN accepted' = 1..(n + a)
      /\ \A k \in 1..n : accepted'[k] = accepted[k]
      /\ \A k \in (n + 1)..(n + a) : accepted'[k] = [at |-> now, stamp |-> r]
  <2>1. LET q == [k \in 1..a |-> [at |-> now, stamp |-> r]]
        IN q \in Seq([at : Nat, stamp : Nat]) /\ Len(q) = a
    BY <1>1, <1>3, ConstantSequence
  <2> QED  BY <1>2, <1>3, <1>4, <2>1
<1>6. stamps' = Recent(r) \cup (n + 1)..(n + a)
  BY <1>2
<1> HIDE DEF a, n
<1>7. ASSUME NEW k \in DOMAIN accepted'
      PROVE  accepted'[k].at <= now' /\ accepted'[k].at <= accepted'[k].stamp + Slew
  <2>1. CASE k \in 1..n
    BY <1>1, <1>4, <1>5, <2>1 DEF RateInv, Stamped
  <2>2. CASE k \in (n + 1)..(n + a)
    <3>1. accepted'[k].at = now /\ accepted'[k].stamp = r
      BY <1>5, <2>2
    <3> QED  BY <1>1, <1>3, <3>1
  <2> QED  BY <1>3, <1>5, <2>1, <2>2
<1>8. ASSUME NEW k \in DOMAIN accepted', k \notin stamps'
      PROVE  accepted'[k].at + Minute <= now' + Slew
  <2>1. k \in 1..n /\ k \notin Recent(r)
    BY <1>3, <1>5, <1>6, <1>8
  <2>2. CASE k \notin stamps
    BY <1>1, <1>4, <1>5, <2>1, <2>2 DEF RateInv, Stamped
  <2>3. CASE k \in stamps
    <3>1. r - accepted[k].stamp >= Minute
      BY <1>1, <1>3, <1>4, <2>1, <2>3 DEF Recent
    <3>2. accepted[k].at <= accepted[k].stamp + Slew
      BY <1>4, <2>1 DEF RateInv, Stamped
    <3>3. accepted'[k].at = accepted[k].at
          /\ accepted[k].at \in Nat /\ accepted[k].stamp \in Nat
      BY <1>4, <1>5, <2>1
    <3> QED  BY <1>1, <1>3, <3>1, <3>2, <3>3
  <2> QED  BY <2>2, <2>3
<1>9. IsFiniteSet(stamps') /\ Cardinality(stamps') <= Limit
  <2>1. Cardinality(Recent(r)) <= Limit
    <3>1. Cardinality(stamps) \in Nat /\ Cardinality(Recent(r)) <= Cardinality(stamps)
      BY <1>3, FS_Subset, FS_CardinalityType
    <3> QED  BY <1>1, <1>3, <3>1 DEF RateInv, Stamped
  <2> DEFINE I == (n + 1)..(n + a)
  <2>2. IsFiniteSet(I) /\ Cardinality(I) = a
    <3>1. n + 1 \in Int /\ n + a \in Int
      BY <1>3
    <3>2. IsFiniteSet(I) /\ Cardinality(I) = IF n + 1 > n + a THEN 0 ELSE (n + a) - (n + 1) + 1
      BY <3>1, FS_Interval
    <3> QED  BY <1>3, <3>2
  <2>3. Recent(r) \cap I = {}
    BY <1>3
  <2> HIDE DEF I
  <2>4. IsFiniteSet(Recent(r) \cup I)
        /\ Cardinality(Recent(r) \cup I) = Cardinality(Recent(r)) + a - Cardinality({})
    BY <1>3, <2>2, <2>3, FS_Union
  <2>5. Cardinality({}) = 0
    BY FS_EmptySet
  <2> QED  BY <1>3, <1>6, <2>1, <2>4, <2>5 DEF I
<1>10. Stamped'
  BY <1>7, <1>8, <1>9 DEF Stamped
<1>11. RateKept'
  <2> SUFFICES ASSUME NEW t \in 0..MaxTime PROVE Cardinality(Stretch(t)') <= Limit
    BY DEF RateKept, Stretch
  <2>0. t \in Nat
    BY CorrelationAssumption
  <2>1. CASE t <= now /\ now < t + Minute - Slew
    <3>1. Stretch(t)' \subseteq stamps'
      <4> SUFFICES ASSUME NEW k \in DOMAIN accepted', t <= accepted'[k].at, k \notin stamps'
                   PROVE  FALSE
        BY DEF Stretch
      <4>1. accepted'[k].at + Minute <= now + Slew
        BY <1>1, <1>8
      <4>2. accepted'[k].at \in Nat
        BY <1>1, <1>3, <1>4, <1>5
      <4> QED  BY <1>1, <2>0, <2>1, <4>1, <4>2
    <3>2. Cardinality(Stretch(t)') <= Cardinality(stamps') /\ IsFiniteSet(Stretch(t)')
      BY <1>9, <3>1, FS_Subset
    <3>3. Cardinality(stamps') \in Nat /\ Cardinality(Stretch(t)') \in Nat
      BY <1>9, <3>2, FS_CardinalityType
    <3> QED  BY <1>1, <1>9, <3>2, <3>3
  <2>2. CASE ~(t <= now /\ now < t + Minute - Slew)
    <3>1. \A k \in (n + 1)..(n + a) : accepted'[k].at = now
      BY <1>5
    <3>2. Stretch(t)' = Stretch(t)
      BY <1>3, <1>4, <1>5, <2>2, <3>1 DEF Stretch
    <3> QED  BY <3>2 DEF RateInv, RateKept, Stretch
  <2> QED  BY <2>1, <2>2
<1> QED  BY <1>10, <1>11 DEF RateInv

(* No stretch of a minute, wherever it begins, has more cases than the      *)
(* limit.                                                                   *)
THEOREM RateHolds == Spec => []RateKept
<1>1. Init => RateInv
  <2> SUFFICES ASSUME Init PROVE RateInv
    OBVIOUS
  <2>1. DOMAIN accepted = {} /\ stamps = {} /\ Cardinality({}) = 0 /\ Limit \in Nat
    BY EmptySequence, FS_EmptySet, CorrelationAssumption DEF Init
  <2>2. \A t : {k \in DOMAIN accepted :
                  t <= accepted[k].at /\ accepted[k].at < t + Minute - Slew} = {}
    BY <2>1
  <2> QED  BY <2>1, <2>2 DEF RateInv, Stamped, RateKept
<1>2. Inv /\ Inv' /\ RateInv /\ [Next]_vars => RateInv'
  <2> SUFFICES ASSUME Inv, Inv', RateInv, [Next]_vars PROVE RateInv'
    OBVIOUS
  <2>1. CASE Report
    BY <2>1, RateReportStep
  <2>2. CASE Restart
    <3>1. DOMAIN accepted' = {} /\ stamps' = {} /\ Cardinality({}) = 0 /\ Limit \in Nat
      BY <2>2, EmptySequence, FS_EmptySet, CorrelationAssumption DEF Restart
    <3>2. \A t : {k \in DOMAIN accepted' :
                    t <= accepted'[k].at /\ accepted'[k].at < t + Minute - Slew} = {}
      BY <3>1
    <3> QED  BY <3>1, <3>2 DEF RateInv, Stamped, RateKept
  <2>3. CASE Tick
    <3>1. now \in Nat /\ now' = now + 1 /\ Slew \in Nat /\ Minute \in Nat
          /\ accepted' = accepted /\ stamps' = stamps
          /\ \A k \in DOMAIN accepted : accepted[k].at \in Nat
      BY <2>3, CorrelationAssumption, AcceptedTyped DEF Tick, Inv, TypeOK
    <3> QED  BY <3>1 DEF RateInv, Stamped, RateKept
  <2>4. CASE now' = now /\ accepted' = accepted /\ stamps' = stamps
    BY <2>4 DEF RateInv, Stamped, RateKept
  <2>5. CASE (\E f \in Finding : Detect(f)) \/ (\E i \in left : Open(i) \/ Join(i))
             \/ Begin \/ UNCHANGED vars
    BY <2>4, <2>5 DEF Detect, Open, Join, Begin, vars
  <2> QED  BY <2>1, <2>2, <2>3, <2>5 DEF Next
<1>3. RateInv => RateKept
  BY DEF RateInv
<1> QED  BY <1>1, <1>2, <1>3, Invariance, PTL DEF Spec
=============================================================================
