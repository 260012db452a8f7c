---------------------------- MODULE SequenceLemmas ----------------------------
(***************************************************************************)
(* Facts about natural numbers and sequences that the proofs of several    *)
(* components need.  Induction is the least-element principle, stated of a *)
(* set: the provers take no operator as a parameter of a theorem.          *)
(***************************************************************************)
EXTENDS Lists, SequenceTheorems, NaturalsInduction, WellFoundedInduction, TLAPS

(* Every non-empty set of natural numbers has a least element. *)
LEMMA LeastElement ==
  ASSUME NEW S, S \subseteq Nat, S # {}
  PROVE  \E x \in S : \A y \in S : x <= y
<1>1. PICK x \in S : \A y \in S : ~(<<y, x>> \in OpToRel(<, Nat))
  BY NatLessThanWellFounded, WFMin
<1>2. \A y \in S : y < x => <<y, x>> \in OpToRel(<, Nat)
  BY DEF OpToRel
<1>3. \A y \in S : ~(y < x)
  BY <1>1, <1>2, Zenon
<1> QED
  BY <1>3

(* A set of natural numbers with 0 and the successor of each member is all *)
(* of them.                                                                *)
LEMMA SetInduction ==
  ASSUME NEW S, 0 \in S, \A n \in Nat : n \in S => n + 1 \in S
  PROVE  \A n \in Nat : n \in S
<1> DEFINE T == Nat \ S
<1> SUFFICES ASSUME T # {} PROVE FALSE
  OBVIOUS
<1>1. PICK x \in T : \A y \in T : x <= y
  BY LeastElement
<1>2. x \in Nat /\ x # 0
  OBVIOUS
<1>3. x - 1 \in Nat /\ x - 1 \notin T
  BY <1>1, <1>2
<1> QED
  BY <1>2, <1>3

-----------------------------------------------------------------------------
(* Concatenation. *)

\* The loop that FlattenSeq describes: result[n] is what the first n sequences
\* make.
Concatenates(result, seqs, n) ==
  result = [i \in 1..n |-> IF i = 1 THEN seqs[i] ELSE result[i - 1] \o seqs[i]]

\* The recursion has a solution, however many sequences there are.
LEMMA ConcatenationExists ==
  ASSUME NEW seqs, NEW n \in Nat
  PROVE  \E result : Concatenates(result, seqs, n)
<1> DEFINE Solved == {m \in Nat : \E result : Concatenates(result, seqs, m)}
<1>1. 0 \in Solved
  <2>1. Concatenates([i \in 1..0 |-> i], seqs, 0)
    BY DEF Concatenates
  <2> QED BY <2>1
<1>2. ASSUME NEW m \in Nat, m \in Solved PROVE m + 1 \in Solved
  <2>1. PICK result : Concatenates(result, seqs, m)
    BY <1>2
  <2> DEFINE longer == [i \in 1..(m + 1) |->
                          IF i \in 1..m THEN result[i]
                          ELSE IF i = 1 THEN seqs[i] ELSE result[i - 1] \o seqs[i]]
  <2>2. \A i \in 1..m : result[i] = IF i = 1 THEN seqs[i] ELSE result[i - 1] \o seqs[i]
    BY <2>1 DEF Concatenates
  <2>3. \A i \in 1..m : longer[i] = result[i]
    OBVIOUS
  <2>4. \A i \in 1..(m + 1) :
          longer[i] = IF i = 1 THEN seqs[i] ELSE longer[i - 1] \o seqs[i]
    <3> SUFFICES ASSUME NEW i \in 1..(m + 1)
                 PROVE  longer[i] = IF i = 1 THEN seqs[i] ELSE longer[i - 1] \o seqs[i]
      OBVIOUS
    <3>1. i # 1 => i - 1 \in 1..m
      OBVIOUS
    <3>2. i # 1 => longer[i - 1] = result[i - 1]
      BY <2>3, <3>1
    <3>3. longer[i] = IF i = 1 THEN seqs[i] ELSE result[i - 1] \o seqs[i]
      BY <2>2
    <3> QED BY <3>2, <3>3
  <2>5. Concatenates(longer, seqs, m + 1)
    <3>1. longer = [i \in 1..(m + 1) |-> longer[i]]
      OBVIOUS
    <3> HIDE DEF longer
    <3> QED BY <2>4, <3>1 DEF Concatenates
  <2> QED BY <2>5
<1> HIDE DEF Solved
<1>3. n \in Solved
  BY <1>1, <1>2, SetInduction
<1> QED BY <1>3 DEF Solved

\* Where the elements of a concatenation of sequences stand in them: whose[p]
\* is the sequence that element p comes from, place[p] its position there.
Places(flat, seqs, n, whose, place) ==
  /\ DOMAIN whose = DOMAIN flat /\ DOMAIN place = DOMAIN flat
  /\ \A p \in DOMAIN flat :
       /\ whose[p] \in 1..n /\ place[p] \in DOMAIN seqs[whose[p]]
       /\ flat[p] = seqs[whose[p]][place[p]]
  /\ \A p, q \in DOMAIN flat :
       p < q => \/ whose[p] < whose[q]
                \/ whose[p] = whose[q] /\ place[p] < place[q]
  /\ \A a \in 1..n : \A b \in DOMAIN seqs[a] :
       \E p \in DOMAIN flat : whose[p] = a /\ place[p] = b

\* One more sequence.
LEMMA PlacesAppended ==
  ASSUME NEW T, NEW n \in Nat, NEW seqs, NEW flat \in Seq(T), NEW whose, NEW place,
         \A a \in 1..(n + 1) : seqs[a] \in Seq(T),
         Places(flat, seqs, n, whose, place)
  PROVE  \E whose_, place_ : Places(flat \o seqs[n + 1], seqs, n + 1, whose_, place_)
<1> DEFINE last == seqs[n + 1]
           l == Len(flat)
           more == flat \o last
           whose_ == [p \in DOMAIN more |-> IF p <= l THEN whose[p] ELSE n + 1]
           place_ == [p \in DOMAIN more |-> IF p <= l THEN place[p] ELSE p - l]
<1>1. /\ l \in Nat /\ DOMAIN flat = 1..l /\ last \in Seq(T) /\ Len(last) \in Nat
      /\ DOMAIN last = 1..Len(last) /\ n + 1 \in 1..(n + 1)
  OBVIOUS
<1>2. /\ DOMAIN more = 1..(l + Len(last))
      /\ \A p \in 1..l : more[p] = flat[p]
      /\ \A p \in (l + 1)..(l + Len(last)) : more[p] = last[p - l]
  <2>1. flat \in Seq(T) /\ last \in Seq(T)
    BY <1>1
  <2> HIDE DEF last
  <2> QED BY <2>1, ConcatProperties
<1>3. \A p \in DOMAIN more :
        /\ p <= l => /\ p \in DOMAIN flat
                     /\ whose_[p] = whose[p] /\ place_[p] = place[p] /\ more[p] = flat[p]
        /\ p > l => /\ p - l \in DOMAIN last
                    /\ whose_[p] = n + 1 /\ place_[p] = p - l /\ more[p] = last[p - l]
  BY <1>1, <1>2
<1>4. DOMAIN whose_ = DOMAIN more /\ DOMAIN place_ = DOMAIN more
  OBVIOUS
<1> HIDE DEF more, whose_, place_, l
<1>5. \A p \in DOMAIN more :
        /\ whose_[p] \in 1..(n + 1) /\ place_[p] \in DOMAIN seqs[whose_[p]]
        /\ more[p] = seqs[whose_[p]][place_[p]]
  BY <1>1, <1>2, <1>3 DEF Places
<1>6. \A p, q \in DOMAIN more :
        p < q => \/ whose_[p] < whose_[q]
                 \/ whose_[p] = whose_[q] /\ place_[p] < place_[q]
  <2> SUFFICES ASSUME NEW p \in DOMAIN more, NEW q \in DOMAIN more, p < q
               PROVE  \/ whose_[p] < whose_[q]
                      \/ whose_[p] = whose_[q] /\ place_[p] < place_[q]
    OBVIOUS
  <2>1. p \in Nat /\ q \in Nat /\ l \in Nat
    BY <1>1, <1>2
  <2>2. CASE q <= l
    BY <1>3, <2>1, <2>2 DEF Places
  <2>3. CASE p <= l /\ q > l
    <3>1. whose_[q] = n + 1 /\ whose_[p] = whose[p] /\ p \in DOMAIN flat
      BY <1>3, <2>1, <2>3
    <3>2. whose[p] \in 1..n
      BY <3>1 DEF Places
    <3> QED BY <3>1, <3>2
  <2>4. CASE p > l
    BY <1>3, <2>1, <2>4
  <2> QED BY <2>1, <2>2, <2>3, <2>4
<1>7. \A a \in 1..(n + 1) : \A b \in DOMAIN seqs[a] :
        \E p \in DOMAIN more : whose_[p] = a /\ place_[p] = b
  <2> SUFFICES ASSUME NEW a \in 1..(n + 1), NEW b \in DOMAIN seqs[a]
               PROVE  \E p \in DOMAIN more : whose_[p] = a /\ place_[p] = b
    OBVIOUS
  <2>1. CASE a \in 1..n
    <3>1. PICK p \in DOMAIN flat : whose[p] = a /\ place[p] = b
      BY <2>1 DEF Places
    <3>2. p \in DOMAIN more /\ p <= l
      BY <1>1, <1>2
    <3> QED BY <1>3, <3>1, <3>2
  <2>2. CASE a = n + 1
    <3>1. b \in 1..Len(last)
      BY <1>1, <2>2
    <3>2. l + b \in DOMAIN more /\ l + b > l /\ (l + b) - l = b
      BY <1>1, <1>2, <3>1
    <3> QED BY <1>3, <2>2, <3>2
  <2> QED BY <2>1, <2>2
<1>8. Places(more, seqs, n + 1, whose_, place_)
  BY <1>4, <1>5, <1>6, <1>7 DEF Places
<1> QED BY <1>8 DEF more

\* FlattenSeq puts the elements of the sequences one after the other, each of
\* them once and in the order in which they stand.
LEMMA FlattenPlaces ==
  ASSUME NEW T, NEW seqs \in Seq(Seq(T))
  PROVE  /\ FlattenSeq(seqs) \in Seq(T)
         /\ \E whose, place : Places(FlattenSeq(seqs), seqs, Len(seqs), whose, place)
<1> DEFINE n == Len(seqs)
<1>1. n \in Nat /\ \A a \in 1..n : seqs[a] \in Seq(T)
  OBVIOUS
<1>2. CASE n = 0
  <2>1. seqs = <<>>
    BY <1>2
  <2>2. FlattenSeq(seqs) = <<>>
    BY <2>1 DEF FlattenSeq
  <2>3. Places(<<>>, seqs, 0, <<>>, <<>>)
    BY DEF Places
  <2> QED BY <1>2, <2>2, <2>3
<1>3. CASE n # 0
  <2>1. PICK result : Concatenates(result, seqs, n) /\ FlattenSeq(seqs) = result[n]
    <3>1. \E result : Concatenates(result, seqs, n)
      BY <1>1, ConcatenationExists
    <3> QED BY <1>3, <3>1 DEF FlattenSeq, Concatenates
  <2>2. \A i \in 1..n : result[i] = IF i = 1 THEN seqs[i] ELSE result[i - 1] \o seqs[i]
    BY <2>1 DEF Concatenates
  <2> DEFINE Flat(i) == result[i] \in Seq(T)
                        /\ \E whose, place : Places(result[i], seqs, i, whose, place)
             Done == {i \in Nat : i \in 1..n => Flat(i)}
  <2>3. 0 \in Done
    OBVIOUS
  <2>4. ASSUME NEW i \in Nat, i \in Done PROVE i + 1 \in Done
    <3> SUFFICES ASSUME i + 1 \in 1..n PROVE Flat(i + 1)
      OBVIOUS
    <3>1. CASE i = 0
      <4>1. result[1] = seqs[1] /\ seqs[1] \in Seq(T)
        BY <1>1, <1>3, <2>2
      <4>2. Places(<<>>, seqs, 0, <<>>, <<>>)
        BY DEF Places
      <4>3. \E whose, place : Places(<<>> \o seqs[0 + 1], seqs, 0 + 1, whose, place)
        <5>1. \A a \in 1..(0 + 1) : seqs[a] \in Seq(T)
          BY <1>1, <1>3
        <5>2. <<>> \in Seq(T) /\ 0 \in Nat
          BY EmptySeq
        <5> QED BY <4>2, <5>1, <5>2, PlacesAppended, Zenon
      <4>4. <<>> \o seqs[1] = seqs[1]
        BY <4>1
      <4>5. <<>> \o seqs[0 + 1] = result[i + 1] /\ 0 + 1 = i + 1
        BY <3>1, <4>1, <4>4
      <4>6. \E whose, place : Places(result[i + 1], seqs, i + 1, whose, place)
        BY <4>3, <4>5
      <4> QED BY <3>1, <4>1, <4>6
    <3>2. CASE i # 0
      <4>1. i \in 1..n /\ i + 1 # 1 /\ (i + 1) - 1 = i
        BY <3>2
      <4>2. Flat(i)
        BY <2>4, <4>1
      <4>3. result[i + 1] = result[i] \o seqs[i + 1]
        BY <2>2, <4>1
      <4>4. result[i] \o seqs[i + 1] \in Seq(T)
        BY <1>1, <4>2
      <4>5. \A a \in 1..(i + 1) : seqs[a] \in Seq(T)
        BY <1>1
      <4>6. \E whose, place : Places(result[i] \o seqs[i + 1], seqs, i + 1, whose, place)
        BY <4>2, <4>5, PlacesAppended
      <4> QED BY <4>3, <4>4, <4>6
    <3> QED BY <3>1, <3>2
  <2> HIDE DEF Done
  <2>5. n \in Done
    BY <1>1, <2>3, <2>4, SetInduction
  <2>6. Flat(n)
    BY <1>1, <1>3, <2>5 DEF Done
  <2> QED BY <2>1, <2>6
<1> QED BY <1>2, <1>3

BeginsAs(long, short, n) == \A i \in 1..n : long[i] = short[i]

\* One more sequence changes nothing of what the first ones make.
LEMMA ConcatenationIsUnique ==
  ASSUME NEW seqs, NEW more, NEW n \in Nat, BeginsAs(more, seqs, n),
         NEW short, Concatenates(short, seqs, n), NEW long, Concatenates(long, more, n + 1)
  PROVE  BeginsAs(long, short, n)
<1>1. /\ BeginsAs(more, seqs, n)
      /\ \A i \in 1..n : short[i] = IF i = 1 THEN seqs[i] ELSE short[i - 1] \o seqs[i]
      /\ \A i \in 1..(n + 1) : long[i] = IF i = 1 THEN more[i] ELSE long[i - 1] \o more[i]
  BY DEF Concatenates
<1> USE DEF BeginsAs
<1> DEFINE Alike == {i \in Nat : i \in 1..n => long[i] = short[i]}
<1>2. 0 \in Alike
  OBVIOUS
<1>3. ASSUME NEW i \in Nat, i \in Alike PROVE i + 1 \in Alike
  <2> SUFFICES ASSUME i + 1 \in 1..n PROVE long[i + 1] = short[i + 1]
    OBVIOUS
  <2>1. i + 1 \in 1..(n + 1) /\ (i + 1) - 1 = i
    OBVIOUS
  <2>2. CASE i = 0
    BY <1>1, <2>1, <2>2
  <2>3. CASE i # 0
    <3>1. i \in 1..n /\ i + 1 # 1
      BY <2>3
    <3>2. long[i] = short[i]
      BY <1>3, <3>1
    <3> QED BY <1>1, <2>1, <3>1, <3>2
  <2> QED BY <2>2, <2>3
<1> HIDE DEF Alike
<1>4. \A i \in Nat : i \in Alike
  BY <1>2, <1>3, SetInduction
<1> QED BY <1>4 DEF Alike

\* FlattenSeq of at least one sequence is where its loop ends.
LEMMA FlattenLoop ==
  ASSUME NEW seqs, Len(seqs) \in Nat, Len(seqs) # 0
  PROVE  \E result : Concatenates(result, seqs, Len(seqs)) /\ FlattenSeq(seqs) = result[Len(seqs)]
<1>1. \E result : Concatenates(result, seqs, Len(seqs))
  BY ConcatenationExists
<1> QED BY <1>1 DEF FlattenSeq, Concatenates

\* One more sequence is put after the others.
LEMMA FlattenAppend ==
  ASSUME NEW T, NEW seqs \in Seq(Seq(T)), NEW last \in Seq(T)
  PROVE  FlattenSeq(Append(seqs, last)) = FlattenSeq(seqs) \o last
<1> DEFINE n == Len(seqs)
           more == Append(seqs, last)
<1>1. /\ n \in Nat /\ Len(more) = n + 1 /\ more[n + 1] = last
      /\ \A i \in 1..n : more[i] = seqs[i]
  OBVIOUS
<1> HIDE DEF more
<1>2. PICK long : Concatenates(long, more, n + 1) /\ FlattenSeq(more) = long[n + 1]
  BY <1>1, FlattenLoop
<1>3. long[n + 1] = IF n = 0 THEN last ELSE long[n] \o last
  <2>1. n + 1 \in 1..(n + 1) /\ (n + 1) - 1 = n /\ (n + 1 = 1 <=> n = 0)
    BY <1>1
  <2>2. \A i \in 1..(n + 1) : long[i] = IF i = 1 THEN more[i] ELSE long[i - 1] \o more[i]
    BY <1>2 DEF Concatenates
  <2> QED BY <1>1, <2>1, <2>2
<1>4. CASE n = 0
  <2>1. seqs = <<>>
    BY <1>4
  <2>2. FlattenSeq(seqs) = <<>>
    BY <2>1 DEF FlattenSeq
  <2>3. <<>> \o last = last
    OBVIOUS
  <2> QED BY <1>2, <1>3, <1>4, <2>2, <2>3 DEF more
<1>5. CASE n # 0
  <2>1. PICK short : Concatenates(short, seqs, n) /\ FlattenSeq(seqs) = short[n]
    BY <1>1, <1>5, FlattenLoop
  <2>2. n \in 1..n
    BY <1>1, <1>5
  <2>3. \A i \in 1..n : long[i] = short[i]
    <3>1. BeginsAs(more, seqs, n)
      BY <1>1 DEF BeginsAs
    <3>2. BeginsAs(long, short, n)
      <4>1. n \in Nat /\ Concatenates(short, seqs, n) /\ Concatenates(long, more, n + 1)
        BY <1>1, <1>2, <2>1
      <4> HIDE DEF n
      <4> QED BY <3>1, <4>1, ConcatenationIsUnique
    <3> QED BY <3>2 DEF BeginsAs
  <2>4. long[n] = short[n]
    BY <2>2, <2>3
  <2> QED BY <1>2, <1>3, <1>5, <2>1, <2>4 DEF more
<1> QED BY <1>4, <1>5

-----------------------------------------------------------------------------
(* The elements of a list at some positions. *)

\* `some` holds the elements of the list at the positions, each once and in
\* the order of the list: element p of it stands at from[p].
Picks(some, list, positions, from) ==
  /\ from \in [DOMAIN some -> DOMAIN list \cap positions]
  /\ \A p \in DOMAIN some : some[p] = list[from[p]]
  /\ \A p, q \in DOMAIN some : p < q => from[p] < from[q]
  /\ \A i \in DOMAIN list \cap positions : \E p \in DOMAIN some : from[p] = i

\* What At returns: each element at the positions once, in the order of the list.
LEMMA AtPicks ==
  ASSUME NEW T, NEW list \in Seq(T), NEW positions
  PROVE  /\ At(list, positions) \in Seq(T)
         /\ \E from : Picks(At(list, positions), list, positions, from)
<1> DEFINE seqs == [i \in DOMAIN list |-> IF i \in positions THEN <<list[i]>> ELSE <<>>]
           n == Len(list)
<1>1. n \in Nat /\ DOMAIN list = 1..n /\ \A i \in 1..n : list[i] \in T
  OBVIOUS
<1>2. \A i \in 1..n : /\ seqs[i] \in Seq(T)
                      /\ i \in positions => DOMAIN seqs[i] = {1} /\ seqs[i][1] = list[i]
                      /\ i \notin positions => DOMAIN seqs[i] = {}
  <2> SUFFICES ASSUME NEW i \in 1..n
               PROVE  /\ seqs[i] \in Seq(T)
                      /\ i \in positions => DOMAIN seqs[i] = {1} /\ seqs[i][1] = list[i]
                      /\ i \notin positions => DOMAIN seqs[i] = {}
    OBVIOUS
  <2>1. <<list[i]>> \in Seq(T) /\ DOMAIN <<list[i]>> = 1..1 /\ <<list[i]>>[1] = list[i]
    BY <1>1
  <2>2. <<>> \in Seq(T) /\ DOMAIN <<>> = {}
    BY EmptySeq
  <2>3. 1..1 = {1}
    OBVIOUS
  <2> QED BY <1>1, <2>1, <2>2, <2>3
<1>3. seqs \in [1..n -> Seq(T)]
  <2>1. DOMAIN seqs = 1..n /\ seqs = [i \in 1..n |-> seqs[i]]
    BY <1>1
  <2> HIDE DEF seqs
  <2> QED BY <1>2, <2>1
<1>4. seqs \in Seq(Seq(T)) /\ Len(seqs) = n
  <2> HIDE DEF seqs
  <2> QED BY <1>1, <1>3, SeqDef
<1>5. At(list, positions) = FlattenSeq(seqs)
  BY DEF At
<1> HIDE DEF seqs
<1>6. PICK whose, place : Places(FlattenSeq(seqs), seqs, n, whose, place)
  BY <1>4, FlattenPlaces
<1> DEFINE some == FlattenSeq(seqs)
           from == [p \in DOMAIN some |-> whose[p]]
<1>7. \A p \in DOMAIN some : /\ whose[p] \in 1..n /\ whose[p] \in positions /\ place[p] = 1
                             /\ some[p] = list[whose[p]]
  BY <1>2, <1>6 DEF Places
<1>8. \A p, q \in DOMAIN some : p < q => whose[p] < whose[q]
  BY <1>6, <1>7 DEF Places
<1>9. \A i \in 1..n \cap positions : \E p \in DOMAIN some : whose[p] = i
  BY <1>2, <1>6 DEF Places
<1>10. from \in [DOMAIN some -> DOMAIN list \cap positions]
       /\ \A p \in DOMAIN some : from[p] = whose[p]
  BY <1>1, <1>7
<1> HIDE DEF from, some
<1>11. Picks(some, list, positions, from)
  BY <1>1, <1>7, <1>8, <1>9, <1>10 DEF Picks
<1> QED BY <1>4, <1>5, <1>11, FlattenPlaces DEF some

\* No element is picked twice.
LEMMA PicksAreDistinct ==
  ASSUME NEW T, NEW list \in Seq(T), NEW some, DOMAIN some \subseteq Int,
         NEW positions, NEW from, Picks(some, list, positions, from),
         NEW p \in DOMAIN some, NEW q \in DOMAIN some, from[p] = from[q]
  PROVE  p = q
<1>1. from[p] \in Int /\ from[q] \in Int
  BY DEF Picks
<1> QED BY <1>1 DEF Picks

\* What is picked of a list is no longer than the list.
LEMMA PicksAreFewer ==
  ASSUME NEW T, NEW some \in Seq(T), NEW U, NEW list \in Seq(U), NEW positions, NEW from,
         Picks(some, list, positions, from)
  PROVE  Len(some) <= Len(list)
<1>1. /\ Len(some) \in Nat /\ DOMAIN some = 1..Len(some)
      /\ Len(list) \in Nat /\ DOMAIN list = 1..Len(list)
  OBVIOUS
<1>2. /\ \A p \in 1..Len(some) : from[p] \in 1..Len(list)
      /\ \A p, q \in 1..Len(some) : p < q => from[p] < from[q]
  BY <1>1 DEF Picks
<1> DEFINE Ahead == {n \in Nat : n \in 1..Len(some) => from[n] >= n}
<1>3. 0 \in Ahead
  OBVIOUS
<1>4. ASSUME NEW n \in Nat, n \in Ahead PROVE n + 1 \in Ahead
  <2> SUFFICES ASSUME n + 1 \in 1..Len(some) PROVE from[n + 1] >= n + 1
    OBVIOUS
  <2>1. CASE n = 0
    BY <1>2, <2>1
  <2>2. CASE n # 0
    <3>1. n \in 1..Len(some) /\ n < n + 1
      BY <1>1, <2>2
    <3>2. from[n] >= n /\ from[n] < from[n + 1]
      BY <1>2, <1>4, <3>1
    <3>3. from[n] \in Int /\ from[n + 1] \in Int
      BY <1>2, <3>1
    <3> QED BY <3>2, <3>3
  <2> QED BY <2>1, <2>2
<1> HIDE DEF Ahead
<1>5. Len(some) \in Ahead
  BY <1>1, <1>3, <1>4, SetInduction
<1>6. CASE Len(some) = 0
  BY <1>1, <1>6
<1>7. CASE Len(some) # 0
  <2>1. Len(some) \in 1..Len(some)
    BY <1>1, <1>7
  <2>2. from[Len(some)] >= Len(some) /\ from[Len(some)] \in 1..Len(list)
    BY <1>2, <1>5, <2>1 DEF Ahead
  <2> QED BY <1>1, <2>2
<1> QED BY <1>6, <1>7

\* What At returns holds the elements at the positions, and no other.
LEMMA AtElements ==
  ASSUME NEW T, NEW list \in Seq(T), NEW positions, positions \subseteq DOMAIN list
  PROVE  ToSet(At(list, positions)) = {list[i] : i \in positions}
<1> DEFINE some == At(list, positions)
<1>1. PICK from : Picks(some, list, positions, from)
  BY AtPicks
<1> HIDE DEF some
<1>2. ASSUME NEW p \in DOMAIN some PROVE some[p] \in {list[i] : i \in positions}
  BY <1>1 DEF Picks
<1>3. ASSUME NEW i \in positions PROVE \E p \in DOMAIN some : some[p] = list[i]
  BY <1>1 DEF Picks
<1> QED BY <1>2, <1>3 DEF ToSet, some

\* Nothing is picked from an empty list.
LEMMA AtOfEmpty ==
  ASSUME NEW T, NEW list \in Seq(T), NEW positions, DOMAIN list = {}
  PROVE  At(list, positions) = <<>>
<1> DEFINE some == At(list, positions)
<1>1. some \in Seq(T) /\ \E from : Picks(some, list, positions, from)
  BY AtPicks
<1> HIDE DEF some
<1>2. DOMAIN some = {}
  BY <1>1 DEF Picks
<1> QED BY <1>1, <1>2, EmptySeq DEF some

\* Only the positions that the list has matter.
LEMMA AtAgrees ==
  ASSUME NEW list, NEW positions, NEW others,
         \A i \in DOMAIN list : i \in positions <=> i \in others
  PROVE  At(list, positions) = At(list, others)
<1>1. [i \in DOMAIN list |-> IF i \in positions THEN <<list[i]>> ELSE <<>>]
        = [i \in DOMAIN list |-> IF i \in others THEN <<list[i]>> ELSE <<>>]
  OBVIOUS
<1> QED BY <1>1 DEF At

\* A list that grows by an element gives that element last, or not at all.
LEMMA AtAppend ==
  ASSUME NEW T, NEW list \in Seq(T), NEW last \in T, NEW positions
  PROVE  At(Append(list, last), positions)
           = IF Len(list) + 1 \in positions THEN Append(At(list, positions), last)
             ELSE At(list, positions)
<1> DEFINE n == Len(list)
           longer == Append(list, last)
           seqs == [i \in DOMAIN list |-> IF i \in positions THEN <<list[i]>> ELSE <<>>]
           more == [i \in DOMAIN longer |-> IF i \in positions THEN <<longer[i]>> ELSE <<>>]
           end == IF n + 1 \in positions THEN <<last>> ELSE <<>>
<1>1. /\ n \in Nat /\ DOMAIN list = 1..n /\ DOMAIN longer = 1..(n + 1)
      /\ longer[n + 1] = last /\ \A i \in 1..n : longer[i] = list[i] /\ list[i] \in T
  OBVIOUS
<1>2. end \in Seq(T) /\ \A i \in 1..n : seqs[i] \in Seq(T)
  <2>1. \A t \in T : <<t>> \in Seq(T)
    OBVIOUS
  <2>2. <<>> \in Seq(T)
    BY EmptySeq
  <2> QED BY <1>1, <2>1, <2>2
<1>3. seqs \in Seq(Seq(T)) /\ Len(seqs) = n
  <2>1. DOMAIN seqs = 1..n /\ seqs = [i \in 1..n |-> seqs[i]]
    BY <1>1
  <2> HIDE DEF seqs
  <2>2. seqs \in [1..n -> Seq(T)]
    BY <1>2, <2>1
  <2> QED BY <1>1, <2>2, SeqDef
<1>4. more = Append(seqs, end)
  <2>1. \A i \in 1..n : more[i] = seqs[i]
    BY <1>1
  <2>2. more[n + 1] = end /\ DOMAIN more = 1..(n + 1) /\ more = [i \in 1..(n + 1) |-> more[i]]
    BY <1>1
  <2>3. \A i \in 1..(n + 1) : i \in 1..n \/ i = n + 1
    BY <1>1
  <2> HIDE DEF more, seqs, end
  <2>4. more \in Seq(Seq(T)) /\ Len(more) = n + 1
    <3>1. more \in [1..(n + 1) -> Seq(T)]
      <4>1. \A i \in 1..(n + 1) : more[i] \in Seq(T)
        BY <1>2, <2>1, <2>2, <2>3
      <4> QED BY <2>2, <4>1
    <3> QED BY <1>1, <3>1, SeqDef
  <2>5. /\ Append(seqs, end) \in Seq(Seq(T)) /\ Len(Append(seqs, end)) = n + 1
        /\ Append(seqs, end)[n + 1] = end
        /\ \A i \in 1..n : Append(seqs, end)[i] = seqs[i]
    BY <1>1, <1>2, <1>3
  <2>6. \A i \in 1..(n + 1) : more[i] = Append(seqs, end)[i]
    BY <2>1, <2>2, <2>3, <2>5
  <2> QED BY <2>4, <2>5, <2>6, SeqEqual
<1>5. At(longer, positions) = FlattenSeq(seqs) \o end /\ At(list, positions) = FlattenSeq(seqs)
  <2>1. At(longer, positions) = FlattenSeq(more) /\ At(list, positions) = FlattenSeq(seqs)
    BY DEF At
  <2> HIDE DEF more, seqs, end
  <2> QED BY <1>2, <1>3, <1>4, <2>1, FlattenAppend
<1>6. At(list, positions) \in Seq(T)
  BY AtPicks
<1>7. CASE n + 1 \in positions
  <2>1. At(list, positions) \o <<last>> = Append(At(list, positions), last)
    BY <1>6
  <2> QED BY <1>5, <1>7, <2>1
<1>8. CASE n + 1 \notin positions
  <2>1. At(list, positions) \o <<>> = At(list, positions)
    BY <1>6
  <2> QED BY <1>5, <1>8, <2>1
<1> QED BY <1>7, <1>8

\* Elements picked where their keys occur first have keys of their own.
LEMMA FirstsDiffer ==
  ASSUME NEW T, NEW list \in Seq(T), NEW keys, DOMAIN keys = DOMAIN list,
         NEW positions, positions \subseteq Firsts(keys),
         NEW from, Picks(At(list, positions), list, positions, from),
         NEW p \in DOMAIN At(list, positions), NEW q \in DOMAIN At(list, positions),
         keys[from[p]] = keys[from[q]]
  PROVE  p = q
<1> DEFINE some == At(list, positions)
<1>1. some \in Seq(T)
  BY AtPicks
<1> HIDE DEF some
<1>2. p \in DOMAIN some /\ q \in DOMAIN some /\ Picks(some, list, positions, from)
  BY DEF some
<1>3. p \in Nat /\ q \in Nat /\ DOMAIN list = 1..Len(list)
  BY <1>1, <1>2
<1>4. /\ from[p] \in Firsts(keys) /\ from[p] \in DOMAIN list
      /\ from[q] \in Firsts(keys) /\ from[q] \in DOMAIN list
  BY <1>2 DEF Picks
<1>5. CASE p < q
  <2>1. from[p] < from[q]
    BY <1>2, <1>5 DEF Picks
  <2>2. from[p] \in 1..(from[q] - 1)
    BY <1>3, <1>4, <2>1
  <2> QED BY <1>4, <2>2 DEF Firsts
<1>6. CASE q < p
  <2>1. from[q] < from[p]
    BY <1>2, <1>6 DEF Picks
  <2>2. from[q] \in 1..(from[p] - 1)
    BY <1>3, <1>4, <2>1
  <2> QED BY <1>4, <2>2 DEF Firsts
<1> QED BY <1>3, <1>5, <1>6

\* Every key occurs a first time.
LEMMA FirstOfKey ==
  ASSUME NEW n \in Nat, NEW keys, DOMAIN keys = 1..n, NEW i \in 1..n
  PROVE  \E j \in Firsts(keys) : keys[j] = keys[i]
<1> DEFINE Same == {j \in 1..n : keys[j] = keys[i]}
<1>1. Same \subseteq Nat /\ Same # {}
  OBVIOUS
<1> HIDE DEF Same
<1>2. PICK j \in Same : \A h \in Same : j <= h
  BY <1>1, LeastElement
<1>3. j \in 1..n /\ keys[j] = keys[i]
  BY DEF Same
<1>4. ASSUME NEW h \in 1..(j - 1) PROVE keys[h] # keys[j]
  <2> SUFFICES ASSUME keys[h] = keys[j] PROVE FALSE
    OBVIOUS
  <2>1. h \in 1..n /\ h < j
    BY <1>3
  <2>2. h \in Same
    BY <1>3, <2>1 DEF Same
  <2> QED BY <1>2, <1>3, <2>1, <2>2
<1> QED BY <1>3, <1>4 DEF Firsts

-----------------------------------------------------------------------------
(* Sorted sequences. *)

\* The elements stand in the strict order of their ranks.
Ascending(s, rank) == \A p, q \in DOMAIN s : p < q => rank[s[p]] < rank[s[q]]

\* The longer of two such sequences of the same elements begins like the other.
LEMMA AscendingPrefix ==
  ASSUME NEW T, NEW a \in Seq(T), NEW b \in Seq(T), NEW rank \in [T -> Int],
         Ascending(a, rank), Ascending(b, rank),
         \A p \in DOMAIN a : \E q \in DOMAIN b : a[p] = b[q],
         \A q \in DOMAIN b : \E p \in DOMAIN a : b[q] = a[p]
  PROVE  Len(a) <= Len(b) /\ \A p \in 1..Len(a) : a[p] = b[p]
<1>1. /\ Len(a) \in Nat /\ DOMAIN a = 1..Len(a) /\ \A p \in DOMAIN a : rank[a[p]] \in Int
      /\ Len(b) \in Nat /\ DOMAIN b = 1..Len(b) /\ \A p \in DOMAIN b : rank[b[p]] \in Int
  OBVIOUS
<1>2. /\ \A p, q \in 1..Len(a) : p < q => rank[a[p]] < rank[a[q]]
      /\ \A p, q \in 1..Len(b) : p < q => rank[b[p]] < rank[b[q]]
  BY <1>1 DEF Ascending
<1> DEFINE Alike(n) == n <= Len(b) /\ \A p \in 1..n : a[p] = b[p]
           Known == {n \in Nat : n <= Len(a) => Alike(n)}
<1>3. 0 \in Known
  BY <1>1
<1>4. ASSUME NEW n \in Nat, n \in Known PROVE n + 1 \in Known
  <2> SUFFICES ASSUME n + 1 <= Len(a) PROVE Alike(n + 1)
    OBVIOUS
  <2>1. n <= Len(b) /\ n + 1 \in DOMAIN a /\ \A p \in 1..n : a[p] = b[p] /\ p \in DOMAIN a
    BY <1>1, <1>4
  <2>2. PICK q \in DOMAIN b : a[n + 1] = b[q]
    BY <2>1
  <2>3. q \in Nat /\ q >= n + 1
    <3> SUFFICES ASSUME q \in 1..n PROVE FALSE
      BY <1>1
    <3>1. q \in 1..Len(a) /\ n + 1 \in 1..Len(a) /\ q < n + 1 /\ a[q] = b[q]
      BY <1>1, <2>1
    <3>2. rank[a[q]] < rank[a[n + 1]]
      BY <1>2, <3>1
    <3>3. rank[b[q]] < rank[b[q]] /\ rank[b[q]] \in Int
      BY <1>1, <2>2, <3>1, <3>2
    <3> QED BY <3>3
  <2>4. n + 1 \in DOMAIN b
    BY <1>1, <2>3
  <2>5. q = n + 1
    <3> SUFFICES ASSUME q > n + 1 PROVE FALSE
      BY <2>3
    <3>1. rank[b[n + 1]] < rank[a[n + 1]]
      BY <1>1, <1>2, <2>2, <2>4
    <3>2. PICK p \in DOMAIN a : b[n + 1] = a[p]
      BY <2>4
    <3>3. CASE p \in 1..n
      <4>1. rank[b[p]] < rank[b[n + 1]]
        <5>1. p \in 1..Len(b) /\ n + 1 \in 1..Len(b) /\ p < n + 1
          BY <1>1, <2>1, <2>4, <3>3
        <5> QED BY <1>2, <5>1
      <4>2. b[p] = b[n + 1]
        BY <2>1, <3>2, <3>3
      <4> QED BY <1>1, <2>4, <4>1, <4>2
    <3>4. CASE p = n + 1
      BY <1>1, <2>1, <2>4, <3>1, <3>2, <3>4
    <3>5. CASE p > n + 1
      <4>1. rank[a[n + 1]] < rank[a[p]]
        BY <1>1, <1>2, <2>1, <3>5
      <4> QED BY <1>1, <2>1, <2>4, <3>1, <3>2, <4>1
    <3>6. p \in Nat /\ p >= 1
      BY <1>1
    <3> QED BY <3>3, <3>4, <3>5, <3>6
  <2> QED BY <1>1, <2>1, <2>2, <2>4, <2>5
<1> HIDE DEF Known
<1>5. Len(a) \in Known
  BY <1>1, <1>3, <1>4, SetInduction
<1> QED BY <1>1, <1>5 DEF Known

\* Ranks that differ leave one order of the elements.
LEMMA AscendingIsUnique ==
  ASSUME NEW T, NEW a \in Seq(T), NEW b \in Seq(T), NEW rank \in [T -> Int],
         Ascending(a, rank), Ascending(b, rank),
         \A p \in DOMAIN a : \E q \in DOMAIN b : a[p] = b[q],
         \A q \in DOMAIN b : \E p \in DOMAIN a : b[q] = a[p]
  PROVE  a = b
<1>1. Len(a) <= Len(b) /\ \A p \in 1..Len(a) : a[p] = b[p]
  BY AscendingPrefix
<1>2. Len(b) <= Len(a)
  BY AscendingPrefix
<1>3. Len(a) = Len(b)
  BY <1>1, <1>2
<1> QED BY <1>1, <1>3, SeqEqual

-----------------------------------------------------------------------------
(* Lists told from positions that grow. *)

\* There is one way to pick elements at the same positions.
LEMMA PicksAreUnique ==
  ASSUME NEW T, NEW list \in Seq(T), NEW a \in Seq(T), NEW b \in Seq(T), NEW positions,
         NEW from, Picks(a, list, positions, from),
         NEW whence, Picks(b, list, positions, whence)
  PROVE  a = b
<1> DEFINE rank == [n \in Nat |-> n]
<1>1. /\ Len(a) \in Nat /\ DOMAIN a = 1..Len(a)
      /\ Len(b) \in Nat /\ DOMAIN b = 1..Len(b)
      /\ Len(list) \in Nat /\ DOMAIN list = 1..Len(list) /\ DOMAIN list \subseteq Nat
  <2>1. Len(list) \in Nat /\ DOMAIN list = 1..Len(list)
    OBVIOUS
  <2> QED BY <2>1
<1>2. /\ from \in [1..Len(a) -> Nat] /\ \A p \in 1..Len(a) : from[p] \in DOMAIN list \cap positions
      /\ whence \in [1..Len(b) -> Nat]
      /\ \A p \in 1..Len(b) : whence[p] \in DOMAIN list \cap positions
  BY <1>1 DEF Picks
<1>3. /\ from \in Seq(Nat) /\ Len(from) = Len(a) /\ DOMAIN from = DOMAIN a
      /\ whence \in Seq(Nat) /\ Len(whence) = Len(b) /\ DOMAIN whence = DOMAIN b
  <2>1. \A m \in Nat : \A f \in [1..m -> Nat] :
          f \in Seq(Nat) /\ Len(f) = m /\ DOMAIN f = 1..m
    BY SeqDef
  <2> QED BY <1>1, <1>2, <2>1
<1>4. rank \in [Nat -> Int] /\ \A n \in Nat : rank[n] = n
  OBVIOUS
<1> HIDE DEF rank
<1>5. Ascending(from, rank) /\ Ascending(whence, rank)
  <2>1. /\ \A p \in DOMAIN from : from[p] \in Nat /\ rank[from[p]] = from[p]
        /\ \A p \in DOMAIN whence : whence[p] \in Nat /\ rank[whence[p]] = whence[p]
    BY <1>3, <1>4
  <2>2. /\ \A p, q \in DOMAIN from : p < q => from[p] < from[q]
        /\ \A p, q \in DOMAIN whence : p < q => whence[p] < whence[q]
    BY <1>3 DEF Picks
  <2> QED BY <2>1, <2>2 DEF Ascending
<1>6. /\ \A p \in DOMAIN from : \E q \in DOMAIN whence : from[p] = whence[q]
      /\ \A q \in DOMAIN whence : \E p \in DOMAIN from : whence[q] = from[p]
  <2>1. /\ \A p \in DOMAIN a : from[p] \in DOMAIN list \cap positions
        /\ \A q \in DOMAIN b : whence[q] \in DOMAIN list \cap positions
        /\ \A h \in DOMAIN list \cap positions : \E p \in DOMAIN a : from[p] = h
        /\ \A h \in DOMAIN list \cap positions : \E q \in DOMAIN b : whence[q] = h
    BY <1>1, <1>2 DEF Picks
  <2> QED BY <1>3, <2>1
<1>7. from = whence
  BY <1>3, <1>4, <1>5, <1>6, AscendingIsUnique
<1>8. \A p \in 1..Len(a) : a[p] = list[from[p]] /\ b[p] = list[whence[p]]
  BY <1>1, <1>3, <1>7 DEF Picks
<1> QED BY <1>3, <1>7, <1>8, SeqEqual

\* A position after all the others adds its element at the end.
LEMMA AtGrows ==
  ASSUME NEW T, NEW list \in Seq(T), NEW positions, NEW m \in DOMAIN list,
         \A q \in DOMAIN list \cap positions : q < m
  PROVE  At(list, positions \cup {m}) = Append(At(list, positions), list[m])
<1> DEFINE some == At(list, positions)
           more == At(list, positions \cup {m})
<1>1. PICK from : some \in Seq(T) /\ Picks(some, list, positions, from)
  BY AtPicks
<1>2. PICK whence : more \in Seq(T) /\ Picks(more, list, positions \cup {m}, whence)
  BY AtPicks
<1> HIDE DEF some, more
<1> DEFINE longer == Append(some, list[m])
           n == Len(some)
           from_ == [p \in 1..(n + 1) |-> IF p \in 1..n THEN from[p] ELSE m]
<1>3. /\ n \in Nat /\ DOMAIN some = 1..n /\ longer \in Seq(T) /\ DOMAIN longer = 1..(n + 1)
      /\ longer[n + 1] = list[m] /\ \A p \in 1..n : longer[p] = some[p]
  BY <1>1
<1>4. /\ DOMAIN from_ = 1..(n + 1) /\ from_[n + 1] = m /\ \A p \in 1..n : from_[p] = from[p]
      /\ from_ \in [1..(n + 1) -> DOMAIN list \cap (positions \cup {m})]
  <2>1. \A p \in 1..n : from[p] \in DOMAIN list \cap positions
    BY <1>1, <1>3 DEF Picks
  <2> QED BY <1>3, <2>1
<1> HIDE DEF longer, from_
<1>5. \A p \in 1..(n + 1) : p \in 1..n \/ p = n + 1
  BY <1>3
<1>6. \A p \in 1..(n + 1) : longer[p] = list[from_[p]]
  BY <1>1, <1>3, <1>4, <1>5 DEF Picks
<1>7. \A p, q \in 1..(n + 1) : p < q => from_[p] < from_[q]
  <2> SUFFICES ASSUME NEW p \in 1..(n + 1), NEW q \in 1..(n + 1), p < q
               PROVE  from_[p] < from_[q]
    OBVIOUS
  <2>1. p \in 1..n
    BY <1>3
  <2>2. from[p] \in DOMAIN list \cap positions
    BY <1>1, <1>3, <2>1 DEF Picks
  <2> QED BY <1>1, <1>3, <1>4, <1>5, <2>1, <2>2 DEF Picks
<1>8. \A h \in DOMAIN list \cap (positions \cup {m}) : \E p \in 1..(n + 1) : from_[p] = h
  <2> SUFFICES ASSUME NEW h \in DOMAIN list \cap (positions \cup {m})
               PROVE  \E p \in 1..(n + 1) : from_[p] = h
    OBVIOUS
  <2>1. CASE h = m
    BY <1>3, <1>4, <2>1
  <2>2. CASE h # m
    <3>1. \E p \in 1..n : from[p] = h
      BY <1>1, <1>3, <2>2 DEF Picks
    <3> QED BY <1>3, <1>4, <3>1
  <2> QED BY <2>1, <2>2
<1>9. Picks(longer, list, positions \cup {m}, from_)
  BY <1>3, <1>4, <1>6, <1>7, <1>8 DEF Picks
<1>10. more = longer
  BY <1>2, <1>3, <1>9, PicksAreUnique
<1> QED BY <1>10 DEF more, longer, some

\* Nothing is picked at no position.
LEMMA AtNone ==
  ASSUME NEW T, NEW list \in Seq(T), NEW positions, DOMAIN list \cap positions = {}
  PROVE  At(list, positions) = <<>>
<1> DEFINE some == At(list, positions)
<1>1. some \in Seq(T) /\ \E from : Picks(some, list, positions, from)
  BY AtPicks
<1> HIDE DEF some
<1>2. DOMAIN some = {}
  BY <1>1 DEF Picks
<1> QED BY <1>1, <1>2, EmptySeq DEF some

-----------------------------------------------------------------------------
(* Loops over a list, as functions of how many of its elements were dealt  *)
(* with.                                                                   *)

\* A loop of n steps from base, as a function of the steps made.
Runs(f, n, S, base, step) ==
  f \in [0..n -> S] /\ f[0] = base /\ \A j \in 1..n : f[j] = step[<<f[j - 1], j>>]

\* The recursion of a loop has a solution.
LEMMA LoopExists ==
  ASSUME NEW n \in Nat, NEW S, NEW base \in S, NEW step \in [S \X (1..n) -> S]
  PROVE  \E f : Runs(f, n, S, base, step)
<1> DEFINE Solves(f, m) ==
             f \in [0..m -> S] /\ f[0] = base /\ \A j \in 1..m : f[j] = step[<<f[j - 1], j>>]
           Solved == {m \in Nat : m <= n => \E f : Solves(f, m)}
<1>1. 0 \in Solved
  <2>1. Solves([j \in 0..0 |-> base], 0)
    OBVIOUS
  <2> QED BY <2>1
<1>2. ASSUME NEW m \in Nat, m \in Solved PROVE m + 1 \in Solved
  <2> SUFFICES ASSUME m + 1 <= n PROVE \E f : Solves(f, m + 1)
    OBVIOUS
  <2>1. PICK f : Solves(f, m)
    BY <1>2
  <2> DEFINE last == step[<<f[m], m + 1>>]
             g == [j \in 0..(m + 1) |-> IF j \in 0..m THEN f[j] ELSE last]
  <2>2. f[m] \in S /\ m + 1 \in 1..n
    BY <2>1
  <2>3. last \in S
    BY <2>2
  <2> HIDE DEF last
  <2>4. g \in [0..(m + 1) -> S] /\ g[m + 1] = last /\ \A j \in 0..m : g[j] = f[j]
    BY <2>1, <2>3
  <2> HIDE DEF g
  <2>5. ASSUME NEW j \in 1..(m + 1) PROVE g[j] = step[<<g[j - 1], j>>]
    <3>1. CASE j \in 1..m
      <4>1. j \in 0..m /\ j - 1 \in 0..m
        BY <3>1
      <4> QED BY <2>1, <2>4, <3>1, <4>1
    <3>2. CASE j = m + 1
      <4>1. j - 1 = m /\ m \in 0..m
        BY <3>2
      <4> QED BY <2>4, <3>2, <4>1 DEF last
    <3> QED BY <3>1, <3>2
  <2>6. g[0] = base
    BY <2>1, <2>4
  <2> QED BY <2>4, <2>5, <2>6
<1> HIDE DEF Solved
<1>3. n \in Solved
  BY <1>1, <1>2, SetInduction
<1> QED BY <1>3 DEF Solved, Runs

\* What every step of a loop keeps in S is in S throughout.
LEMMA LoopTyped ==
  ASSUME NEW n \in Nat, NEW S, NEW f, f = [j \in 0..n |-> f[j]], f[0] \in S,
         \A j \in 1..n : f[j - 1] \in S => f[j] \in S
  PROVE  f \in [0..n -> S]
<1> DEFINE Typed == {j \in Nat : j \in 0..n => f[j] \in S}
<1>1. 0 \in Typed
  OBVIOUS
<1>2. ASSUME NEW j \in Nat, j \in Typed PROVE j + 1 \in Typed
  <2> SUFFICES ASSUME j + 1 \in 0..n PROVE f[j + 1] \in S
    OBVIOUS
  <2>1. j \in 0..n /\ j + 1 \in 1..n /\ (j + 1) - 1 = j
    OBVIOUS
  <2> QED BY <1>2, <2>1
<1> HIDE DEF Typed
<1>3. \A j \in Nat : j \in Typed
  BY <1>1, <1>2, SetInduction
<1>4. \A j \in 0..n : f[j] \in S
  BY <1>3 DEF Typed
<1> QED BY <1>4

\* A range from 1 on has one end.
LEMMA SameRange ==
  ASSUME NEW m \in Nat, NEW n \in Nat, 1..m = 1..n
  PROVE  m = n
<1>1. m >= 1 => m \in 1..n
  <2>1. m >= 1 => m \in 1..m
    OBVIOUS
  <2> QED BY <2>1
<1>2. n >= 1 => n \in 1..m
  <2>1. n >= 1 => n \in 1..n
    OBVIOUS
  <2> QED BY <2>1
<1> QED BY <1>1, <1>2

\* All of a list.
LEMMA AtWhole ==
  ASSUME NEW T, NEW list \in Seq(T), NEW positions, DOMAIN list \subseteq positions
  PROVE  At(list, positions) = list
<1> DEFINE some == At(list, positions)
<1>1. PICK from : some \in Seq(T) /\ Picks(some, list, positions, from)
  BY AtPicks
<1> HIDE DEF some
<1>2. /\ Len(some) \in Nat /\ DOMAIN some = 1..Len(some)
      /\ Len(list) \in Nat /\ DOMAIN list = 1..Len(list)
  BY <1>1
<1>3. /\ \A p \in DOMAIN some : from[p] \in DOMAIN list /\ some[p] = list[from[p]]
      /\ \A p, q \in DOMAIN some : p < q => from[p] < from[q]
      /\ \A i \in DOMAIN list : \E p \in DOMAIN some : from[p] = i
  BY <1>1 DEF Picks
<1> DEFINE Astray == {p \in DOMAIN some : from[p] # p}
<1>4. Astray = {}
  <2> SUFFICES ASSUME Astray # {} PROVE FALSE
    OBVIOUS
  <2>1. Astray \subseteq Nat
    BY <1>2
  <2>2. PICK p \in Astray : \A q \in Astray : p <= q
    BY <2>1, LeastElement
  <2>3. p \in 1..Len(some) /\ from[p] # p /\ from[p] \in 1..Len(list)
    BY <1>2, <1>3
  <2>4. \A q \in 1..Len(some) : q < p => from[q] = q
    BY <1>2, <2>2, <2>3
  <2> HIDE DEF Astray
  <2>5. CASE from[p] < p
    <3>1. from[p] \in 1..Len(some)
      BY <1>2, <2>3, <2>5
    <3>2. from[from[p]] = from[p]
      BY <2>4, <2>5, <3>1
    <3> QED BY <1>2, <1>3, <2>3, <2>5, <3>1, <3>2
  <2>6. CASE from[p] > p
    <3>1. p \in 1..Len(list)
      BY <1>2, <2>3, <2>6
    <3>2. PICK q \in 1..Len(some) : from[q] = p
      BY <1>2, <1>3, <3>1
    <3>3. ~(q < p)
      BY <2>4, <3>2
    <3>4. q # p
      BY <2>3, <3>2
    <3>5. p < q
      BY <1>2, <2>3, <3>2, <3>3, <3>4
    <3>6. from[p] < from[q]
      BY <1>2, <1>3, <2>3, <3>2, <3>5
    <3> QED BY <1>2, <2>3, <2>6, <3>2, <3>6
  <2> QED BY <1>2, <2>3, <2>5, <2>6
<1>5. \A p \in DOMAIN some : from[p] = p
  BY <1>4
<1> HIDE DEF Astray
<1>6. DOMAIN some = DOMAIN list
  <2>1. ASSUME NEW p \in DOMAIN some PROVE p \in DOMAIN list
    <3>1. from[p] = p /\ from[p] \in DOMAIN list
      BY <1>3, <1>5
    <3> QED BY <3>1
  <2>2. ASSUME NEW i \in DOMAIN list PROVE i \in DOMAIN some
    <3>1. PICK p \in DOMAIN some : from[p] = i
      BY <1>3
    <3>2. from[p] = p
      BY <1>5
    <3> QED BY <3>1, <3>2
  <2> QED BY <2>1, <2>2
<1>7. Len(some) = Len(list)
  BY <1>2, <1>6, SameRange
<1>8. \A p \in 1..Len(list) : some[p] = list[p]
  BY <1>2, <1>3, <1>5, <1>6
<1> QED BY <1>1, <1>7, <1>8 DEF some

=============================================================================
