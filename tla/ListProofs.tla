----------------------------- MODULE ListProofs -----------------------------
(***************************************************************************)
(* The facts that every other proof about the engine rests on: what the    *)
(* list operators of Ms return, how the users and the jobs of a tube are   *)
(* counted, and the types of the records that a sound engine holds.        *)
(***************************************************************************)
EXTENDS Soundness, Engine, TLAPS

\* `position` finds an item that is there.
LEMMA PositionFound ==
    ASSUME NEW S, NEW q \in Seq(S), NEW x \in Range(q), IsInjective(q)
    PROVE  position(q, x) \in 1..Len(q) /\ q[position(q, x)] = x
<1>1. PICK i \in 1..Len(q) : q[i] = x
  BY DEF Range
<1>2. q[i] = x /\ \A k \in 1..(i - 1) : q[k] # x
  BY <1>1 DEF IsInjective
<1> QED
  BY <1>1, <1>2 DEF position

\* swap_remove (Ms::remove_at) removes exactly the item at the position.
LEMMA SwapRemove ==
    ASSUME NEW S, NEW q \in Seq(S), NEW i \in 1..Len(q), IsInjective(q)
    PROVE  /\ swap_remove(q, i) \in Seq(S)
           /\ Range(swap_remove(q, i)) = Range(q) \ {q[i]}
           /\ IsInjective(swap_remove(q, i))
<1> DEFINE r == swap_remove(q, i)
<1>1. r \in Seq(S) /\ Len(r) = Len(q) - 1
  BY DEF swap_remove
<1>2. \A k \in 1..(Len(q) - 1) : r[k] = IF k = i THEN q[Len(q)] ELSE q[k]
  BY DEF swap_remove
<1>3. IsInjective(r)
  BY <1>1, <1>2, SMTT(30) DEF IsInjective
<1>4. \A x \in Range(r) : x \in Range(q) \ {q[i]}
  BY <1>1, <1>2, SMTT(30) DEF Range, IsInjective
<1>5. ASSUME NEW x \in Range(q) \ {q[i]} PROVE x \in Range(r)
  <2>1. PICK k \in 1..Len(q) : q[k] = x
    BY DEF Range
  <2>2. CASE k = Len(q)
    <3>1. i \in 1..(Len(q) - 1) /\ r[i] = x
      BY <1>2, <2>1, <2>2
    <3> QED
      BY <1>1, <3>1 DEF Range
  <2>3. CASE k # Len(q)
    <3>1. k \in 1..(Len(q) - 1) /\ r[k] = x
      BY <1>2, <2>1, <2>3
    <3> QED
      BY <1>1, <3>1 DEF Range
  <2> QED
    BY <2>2, <2>3
<1> QED
  BY <1>1, <1>3, <1>4, <1>5

\* Ms::remove takes exactly x out, when it is there.
LEMMA ListSwapRemove ==
    ASSUME NEW S, NEW q \in Seq(S), NEW x, IsInjective(q)
    PROVE  /\ list_swap_remove(q, x) \in Seq(S)
           /\ Range(list_swap_remove(q, x)) = Range(q) \ {x}
           /\ IsInjective(list_swap_remove(q, x))
<1>1. CASE x \in Range(q)
  BY <1>1, PositionFound, SwapRemove, SMTT(30) DEF list_swap_remove
<1>2. CASE x \notin Range(q)
  BY <1>2 DEF list_swap_remove
<1> QED
  BY <1>1, <1>2

\* Removal from a list kept in insertion order takes exactly x out.
LEMMA ListRemove ==
    ASSUME NEW S, NEW q \in Seq(S), NEW x, IsInjective(q)
    PROVE  /\ list_remove(q, x) \in Seq(S)
           /\ Range(list_remove(q, x)) = Range(q) \ {x}
           /\ IsInjective(list_remove(q, x))
<1>1. CASE x \in Range(q)
  <2> DEFINE i == position(q, x)
             r == remove_at(q, i)
  <2>1. i \in 1..Len(q) /\ q[i] = x
    BY <1>1, PositionFound
  <2> HIDE DEF i
  <2>2. r \in Seq(S) /\ Len(r) = Len(q) - 1
    BY <2>1 DEF remove_at
  <2>3. \A k \in 1..(Len(q) - 1) : r[k] = IF k < i THEN q[k] ELSE q[k + 1]
    BY <2>1 DEF remove_at
  <2> HIDE DEF r
  <2>4. IsInjective(r)
    <3> SUFFICES ASSUME NEW a \in 1..(Len(q) - 1), NEW b \in 1..(Len(q) - 1), r[a] = r[b]
                 PROVE  a = b
      BY <2>2 DEF IsInjective
    <3> DEFINE A == IF a < i THEN a ELSE a + 1
               B == IF b < i THEN b ELSE b + 1
    <3>1. A \in 1..Len(q) /\ B \in 1..Len(q) /\ q[A] = q[B]
      BY <2>1, <2>3, SMTT(30)
    <3>2. A = B
      BY <3>1 DEF IsInjective
    <3> QED
      BY <2>1, <3>2
  <2>5. \A y \in Range(r) : y \in Range(q) \ {x}
    BY <2>1, <2>2, <2>3, SMTT(30) DEF Range, IsInjective
  <2>6. ASSUME NEW y \in Range(q) \ {x} PROVE y \in Range(r)
    <3>1. PICK k \in 1..Len(q) : q[k] = y
      BY DEF Range
    <3>2. CASE k < i
      <4>1. k \in 1..(Len(q) - 1) /\ r[k] = y
        BY <2>1, <2>3, <3>1, <3>2, SMTT(30)
      <4> QED
        BY <2>2, <4>1 DEF Range
    <3>3. CASE k > i
      <4>1. k - 1 \in 1..(Len(q) - 1) /\ r[k - 1] = y
        BY <2>1, <2>3, <3>1, <3>3
      <4> QED
        BY <2>2, <4>1 DEF Range
    <3> QED
      BY <2>1, <3>1, <3>2, <3>3
  <2> QED
    BY <1>1, <2>2, <2>4, <2>5, <2>6 DEF list_remove, i, r
<1>2. CASE x \notin Range(q)
  BY <1>2 DEF list_remove
<1> QED
  BY <1>1, <1>2

\* The head of such a list is what removing it takes off: the rest is the tail.
LEMMA RemoveHead ==
    ASSUME NEW S, NEW q \in Seq(S), q # <<>>, IsInjective(q)
    PROVE  list_remove(q, Head(q)) = Tail(q)
<1>1. Head(q) \in Range(q) /\ Len(q) > 0 /\ q[1] = Head(q)
  BY DEF Range
<1>2. position(q, Head(q)) = 1
  BY <1>1, PositionFound DEF IsInjective
<1>3. remove_at(q, 1) = Tail(q)
  <2> DEFINE r == remove_at(q, 1)
  <2>1. /\ r \in Seq(S) /\ Len(r) = Len(q) - 1
        /\ \A k \in 1..(Len(q) - 1) : r[k] = q[k + 1]
    BY <1>1 DEF remove_at
  <2>2. /\ Tail(q) \in Seq(S) /\ Len(Tail(q)) = Len(q) - 1
        /\ \A k \in 1..(Len(q) - 1) : Tail(q)[k] = q[k + 1]
    BY <1>1
  <2> HIDE DEF r
  <2>3. r = Tail(q)
    BY <2>1, <2>2, SMTT(30)
  <2> QED
    BY <2>3 DEF r
<1> QED
  BY <1>1, <1>2, <1>3 DEF list_remove

\* Appending a new item.
LEMMA AppendNew ==
    ASSUME NEW S, NEW q \in Seq(S), NEW x \in S
    PROVE  /\ Append(q, x) \in Seq(S)
           /\ Range(Append(q, x)) = Range(q) \cup {x}
           /\ IsInjective(q) /\ x \notin Range(q) => IsInjective(Append(q, x))
<1> DEFINE r == Append(q, x)
<1>1. r \in Seq(S) /\ Len(r) = Len(q) + 1 /\ r[Len(q) + 1] = x
      /\ \A k \in 1..Len(q) : r[k] = q[k]
  OBVIOUS
<1> HIDE DEF r
<1>2. Range(r) = Range(q) \cup {x}
  BY <1>1 DEF Range
<1>3. IsInjective(q) /\ x \notin Range(q) => IsInjective(r)
  BY <1>1 DEF IsInjective, Range
<1> QED
  BY <1>1, <1>2, <1>3 DEF r

\* swap_remove of a list without assumptions keeps its type.
LEMMA SwapRemoveType ==
    ASSUME NEW S, NEW q \in Seq(S), NEW x
    PROVE  list_swap_remove(q, x) \in Seq(S)
<1>1. CASE x \in Range(q)
  <2> DEFINE i == position(q, x)
  <2>1. list_swap_remove(q, x) = swap_remove(q, i)
    BY <1>1 DEF list_swap_remove
  <2> HIDE DEF i
  <2>2. Len(q) \in Nat /\ Len(q) > 0 /\ \A k \in 1..Len(q) : q[k] \in S
    BY <1>1 DEF Range
  <2>3. swap_remove(q, i) \in [1..(Len(q) - 1) -> S] /\ Len(q) - 1 \in Nat
    BY <2>2 DEF swap_remove
  <2> QED BY <2>1, <2>3
<1>2. CASE x \notin Range(q)
  BY <1>2 DEF list_swap_remove
<1> QED BY <1>1, <1>2

\* The empty list holds nothing.
LEMMA EmptyList ==
    IsInjective(<<>>) /\ Range(<<>>) = {}
  BY DEF IsInjective, Range

\* A set of naturals has a least element.
LEMMA NatMin ==
    ASSUME Laws, NEW T \in SUBSET Nat, T # {}
    PROVE  \E x \in T : \A y \in T : x <= y
BY DEF Laws

\* Counting the users and the jobs of a tube (using_ct, job_ref_ct): none,
LEMMA CountNone ==
    ASSUME Laws
    PROVE  /\ IsFiniteSet({}) /\ Cardinality({}) = 0
           /\ \A S : IsFiniteSet(S) => (Cardinality(S) = 0 <=> S = {})
BY DEF Laws

\* some of them,
LEMMA CountPart ==
    ASSUME Laws, NEW S, IsFiniteSet(S), NEW T \in SUBSET S
    PROVE  IsFiniteSet(T)
BY DEF Laws

\* a number,
LEMMA CountType ==
    ASSUME Laws, NEW S, IsFiniteSet(S)
    PROVE  Cardinality(S) \in Nat
BY DEF Laws

\* one more,
LEMMA CountMore ==
    ASSUME Laws, NEW S, NEW x, IsFiniteSet(S)
    PROVE  /\ IsFiniteSet(S \cup {x})
           /\ x \notin S => Cardinality(S \cup {x}) = Cardinality(S) + 1
BY DEF Laws

\* one fewer.
LEMMA CountFewer ==
    ASSUME Laws, NEW S, NEW x, IsFiniteSet(S)
    PROVE  /\ IsFiniteSet(S \ {x})
           /\ x \in S => Cardinality(S \ {x}) = Cardinality(S) - 1
BY DEF Laws

\* A saturating decrement stays a natural number.
LEMMA SaturatingSub ==
    ASSUME NEW n \in Nat, NEW d \in Nat
    PROVE  saturating_sub(n, d) \in Nat
  BY SMTT(30) DEF saturating_sub

\* The records a sound engine holds are typed.
LEMMA SoundRecords ==
    ASSUME NEW s, NEW hand, Sound(s, hand)
    PROVE  /\ \A k \in DOMAIN s.jobs :
                /\ k \in Nat /\ s.jobs[k] \in JobType
                /\ s.jobs[k].pri \in Nat /\ s.jobs[k].deadline_at \in Nat /\ s.jobs[k].ttr \in Nat
                /\ s.jobs[k].tube \in DOMAIN s.tubes
           /\ \A t \in DOMAIN s.tubes :
                /\ t \in TubeNames /\ s.tubes[t] \in TubeType /\ Indexed(s.tubes[t])
                /\ s.tubes[t].buried \in Seq(Nat) /\ IsInjective(s.tubes[t].buried)
           /\ \A c \in DOMAIN s.conns :
                /\ c \in ConnIds /\ s.conns[c] \in ConnType
                /\ s.conns[c].reserved \in Seq(Nat) /\ IsInjective(s.conns[c].reserved)
<1> USE DEF Sound
<1>1. ASSUME NEW k \in DOMAIN s.jobs
      PROVE  /\ k \in Nat /\ s.jobs[k] \in JobType
             /\ s.jobs[k].pri \in Nat /\ s.jobs[k].deadline_at \in Nat /\ s.jobs[k].ttr \in Nat
             /\ s.jobs[k].tube \in DOMAIN s.tubes
  <2>1. k \in Nat /\ s.jobs[k] \in JobType
    BY DEF EngineType
  <2> QED BY <2>1 DEF JobType, Filed, TubesLive
<1>2. ASSUME NEW t \in DOMAIN s.tubes
      PROVE  /\ t \in TubeNames /\ s.tubes[t] \in TubeType /\ Indexed(s.tubes[t])
             /\ s.tubes[t].buried \in Seq(Nat) /\ IsInjective(s.tubes[t].buried)
  <2>1. t \in TubeNames /\ s.tubes[t] \in TubeType
    BY DEF EngineType
  <2>2. s.tubes[t].buried \in Seq(Nat)
    BY <2>1 DEF TubeType
  <2> QED BY <2>1, <2>2 DEF WaitersSound, Filed, ListsOnce
<1>3. ASSUME NEW c \in DOMAIN s.conns
      PROVE  /\ c \in ConnIds /\ s.conns[c] \in ConnType
             /\ s.conns[c].reserved \in Seq(Nat) /\ IsInjective(s.conns[c].reserved)
  <2>1. c \in ConnIds /\ s.conns[c] \in ConnType
    BY DEF EngineType
  <2>2. s.conns[c].reserved \in Seq(Nat)
    BY <2>1 DEF ConnType
  <2> QED BY <2>1, <2>2 DEF Filed, ListsOnce
<1> QED BY <1>1, <1>2, <1>3, SMTT(30)
=============================================================================
