----------------------- MODULE TransportSocketProofs -----------------------
(* Theorems about TransportSocket, for any number of transports, messages, *)
(* descriptors and sizes of the socket, and however reads and writes are   *)
(* cut up.                                                                 *)
EXTENDS TransportSocket, SequenceTheorems, WellFoundedInduction, TLAPS

-----------------------------------------------------------------------------
(* Induction over numbers and sequences, with the statement to be proved   *)
(* given as the set of those that satisfy it.                              *)

(* A set of numbers that is not empty has a least one.                     *)
LEMMA Least ==
    ASSUME NEW T \in SUBSET Nat, T # {}
    PROVE  \E x \in T : \A y \in T : x <= y
<1> DEFINE R == {ss \in Nat \X Nat : ss[1] < ss[2]}
<1>1. IsWellFoundedOn(R, Nat)
  BY NatLessThanWellFounded DEF OpToRel
<1>2. \A x, y \in Nat : x < y => <<x, y>> \in R
  OBVIOUS
<1> HIDE DEF R
<1>3. PICK x \in T : \A y \in T : ~(<<y, x>> \in R)
  BY <1>1, WFMin
<1>4. \A y \in T : x <= y
  <2> TAKE y \in T
  <2>1. x \in Nat /\ y \in Nat
    OBVIOUS
  <2>2. ~(y < x)
    BY <1>2, <1>3, <2>1
  <2> QED BY <2>1, <2>2
<1> QED BY <1>4

(* A set of sequences that has the empty one, and every sequence whose     *)
(* tail it has, has all of them.                                           *)
LEMMA SeqInduction ==
    ASSUME NEW S, NEW T \in SUBSET Seq(S),
           << >> \in T,
           \A s \in Seq(S) : s # << >> /\ Tail(s) \in T => s \in T
    PROVE  \A s \in Seq(S) : s \in T
<1> SUFFICES ASSUME NEW r \in Seq(S), r \notin T PROVE FALSE
  OBVIOUS
<1> DEFINE L == {Len(s) : s \in Seq(S) \ T}
<1>1. L \in SUBSET Nat /\ Len(r) \in L
  OBVIOUS
<1>2. PICK n \in L : \A k \in L : n <= k
  <2> HIDE DEF L
  <2> QED BY <1>1, Least
<1>3. PICK s \in Seq(S) \ T : n = Len(s)
  OBVIOUS
<1>4. s # << >>
  BY <1>3
<1>5. Tail(s) \in Seq(S) /\ Len(Tail(s)) = Len(s) - 1 /\ Len(s) \in Nat
  BY <1>3, <1>4, HeadTailProperties, LenProperties
<1>6. Tail(s) \notin T
  BY <1>3, <1>4
<1>7. Len(Tail(s)) \in L
  BY <1>5, <1>6
<1> HIDE DEF L
<1> QED BY <1>2, <1>3, <1>5, <1>7

(* What a function that is defined by recursion over sequences starts from *)
(* (z) and does with each element (step).                                  *)
Step(A, V, z, step) == z \in V /\ step \in [A \X V -> V]

(* The values of such a function on the ends of s, shortest first.         *)
Chain(s, g, V, z, step) ==
    /\ g \in [0..Len(s) -> V]
    /\ g[0] = z
    /\ \A i \in 1..Len(s) : g[i] = step[<<s[Len(s) - i + 1], g[i - 1]>>]

(* The values for s without the last are those for its tail.               *)
LEMMA ChainOfTail ==
    ASSUME NEW A, NEW V, NEW z, NEW step, Step(A, V, z, step),
           NEW s \in Seq(A), s # << >>,
           NEW g, Chain(s, g, V, z, step)
    PROVE  \E h : /\ Chain(Tail(s), h, V, z, step)
                  /\ g[Len(s)] = step[<<Head(s), h[Len(Tail(s))]>>]
<1>1. /\ Len(s) \in Nat \ {0} /\ Len(Tail(s)) = Len(s) - 1
      /\ \A i \in 1..Len(Tail(s)) : Tail(s)[i] = s[i + 1]
      /\ Head(s) = s[1]
  BY HeadTailProperties, LenProperties, EmptySeq
<1> DEFINE h == [i \in 0..Len(Tail(s)) |-> g[i]]
<1>2. h \in [0..Len(Tail(s)) -> V]
  BY <1>1 DEF Chain
<1>3. h[0] = z
  BY <1>1 DEF Chain
<1>4. ASSUME NEW i \in 1..Len(Tail(s))
      PROVE  h[i] = step[<<Tail(s)[Len(Tail(s)) - i + 1], h[i - 1]>>]
  <2>1. i \in 1..Len(s) /\ i - 1 \in 0..Len(Tail(s)) /\ i \in 0..Len(Tail(s))
    BY <1>1
  <2>2. h[i] = g[i] /\ h[i - 1] = g[i - 1]
    BY <2>1
  <2>3. Len(Tail(s)) - i + 1 \in 1..Len(Tail(s)) /\ Len(Tail(s)) - i + 1 + 1 = Len(s) - i + 1
    BY <1>1
  <2>4. Tail(s)[Len(Tail(s)) - i + 1] = s[Len(s) - i + 1]
    BY <1>1, <2>3
  <2> QED BY <2>1, <2>2, <2>4 DEF Chain
<1>5. g[Len(s)] = step[<<Head(s), h[Len(Tail(s))]>>]
  BY <1>1 DEF Chain
<1> HIDE DEF h
<1>6. Chain(Tail(s), h, V, z, step)
  BY <1>2, <1>3, <1>4 DEF Chain
<1> QED BY <1>5, <1>6

(* Every sequence has such values,                                         *)
LEMMA ChainExists ==
    ASSUME NEW A, NEW V, NEW z, NEW step, Step(A, V, z, step)
    PROVE  \A s \in Seq(A) : \E g : Chain(s, g, V, z, step)
<1> DEFINE T == {s \in Seq(A) : \E g : Chain(s, g, V, z, step)}
<1>1. << >> \in T
  <2>1. << >> \in Seq(A) /\ Len(<< >>) = 0
    OBVIOUS
  <2>2. [i \in 0..0 |-> z] \in [0..0 -> V] /\ [i \in 0..0 |-> z][0] = z
    BY DEF Step
  <2>3. Chain(<< >>, [i \in 0..0 |-> z], V, z, step)
    BY <2>1, <2>2 DEF Chain
  <2> QED BY <2>1, <2>3
<1>2. ASSUME NEW s \in Seq(A), s # << >>, Tail(s) \in T
      PROVE  s \in T
  <2>1. PICK g : Chain(Tail(s), g, V, z, step)
    BY <1>2
  <2>2. /\ Len(s) \in Nat \ {0} /\ Len(Tail(s)) = Len(s) - 1
        /\ \A i \in 1..Len(Tail(s)) : Tail(s)[i] = s[i + 1]
        /\ Head(s) = s[1] /\ Head(s) \in A
    BY <1>2, HeadTailProperties, LenProperties, EmptySeq
  <2> DEFINE h == [i \in 0..Len(s) |-> IF i = Len(s) THEN step[<<Head(s), g[Len(Tail(s))]>>] ELSE g[i]]
  <2>3. h \in [0..Len(s) -> V]
    <3>1. g \in [0..Len(Tail(s)) -> V]
      BY <2>1 DEF Chain
    <3>2. Head(s) \in A /\ g[Len(Tail(s))] \in V
      BY <2>2, <3>1
    <3>3. <<Head(s), g[Len(Tail(s))]>> \in A \X V
      BY <3>2
    <3>4. step[<<Head(s), g[Len(Tail(s))]>>] \in V
      BY <3>3 DEF Step
    <3> QED BY <2>2, <3>1, <3>4
  <2>4. h[0] = z
    BY <2>1, <2>2 DEF Chain
  <2>5. ASSUME NEW i \in 1..Len(s)
        PROVE  h[i] = step[<<s[Len(s) - i + 1], h[i - 1]>>]
    <3>1. i \in 0..Len(s) /\ i - 1 \in 0..Len(s) /\ i - 1 # Len(s)
      BY <2>2
    <3>2. h[i - 1] = g[i - 1]
      BY <3>1
    <3>3. CASE i = Len(s)
      BY <3>1, <3>2, <3>3, <2>2
    <3>4. CASE i # Len(s)
      <4> DEFINE n == Len(s)
                 k == Len(Tail(s))
      <4>0. n \in Nat /\ k = n - 1 /\ i \in 1..n /\ i # n
        BY <2>2, <3>4
      <4>1. i \in 1..k /\ k - i + 1 \in 1..k /\ k - i + 1 + 1 = n - i + 1
        <5> HIDE DEF n, k
        <5> QED BY <4>0
      <4>2. Tail(s)[Len(Tail(s)) - i + 1] = s[Len(s) - i + 1]
        BY <2>2, <4>1
      <4>3. h[i] = g[i]
        BY <3>1, <3>4
      <4>4. g[i] = step[<<Tail(s)[Len(Tail(s)) - i + 1], g[i - 1]>>]
        BY <2>1, <4>1 DEF Chain
      <4> QED BY <3>2, <4>2, <4>3, <4>4
    <3> QED BY <3>3, <3>4
  <2> HIDE DEF h
  <2>6. Chain(s, h, V, z, step)
    BY <2>3, <2>4, <2>5 DEF Chain
  <2> QED BY <2>6
<1>3. T \in SUBSET Seq(A)
  OBVIOUS
<1>4. \A s \in Seq(A) : s \in T
  <2> HIDE DEF T
  <2> QED BY <1>1, <1>2, <1>3, SeqInduction
<1> QED BY <1>4

(* and the last of them is the same however they are chosen.               *)
LEMMA ChainUnique ==
    ASSUME NEW A, NEW V, NEW z, NEW step, Step(A, V, z, step)
    PROVE  \A s \in Seq(A) : \A g, h :
              Chain(s, g, V, z, step) /\ Chain(s, h, V, z, step) => g[Len(s)] = h[Len(s)]
<1> DEFINE T == {s \in Seq(A) : \A g, h :
                    Chain(s, g, V, z, step) /\ Chain(s, h, V, z, step) => g[Len(s)] = h[Len(s)]}
<1>1. << >> \in T
  BY DEF Chain
<1>2. ASSUME NEW s \in Seq(A), s # << >>, Tail(s) \in T
      PROVE  s \in T
  <2> SUFFICES ASSUME NEW g, NEW h,
                      Chain(s, g, V, z, step), Chain(s, h, V, z, step)
               PROVE  g[Len(s)] = h[Len(s)]
    OBVIOUS
  <2>0. s # << >>
    BY <1>2
  <2>1. PICK gt : Chain(Tail(s), gt, V, z, step) /\ g[Len(s)] = step[<<Head(s), gt[Len(Tail(s))]>>]
    BY <2>0, ChainOfTail
  <2>2. PICK ht : Chain(Tail(s), ht, V, z, step) /\ h[Len(s)] = step[<<Head(s), ht[Len(Tail(s))]>>]
    BY <2>0, ChainOfTail
  <2>3. gt[Len(Tail(s))] = ht[Len(Tail(s))]
    BY <1>2, <2>1, <2>2
  <2> QED BY <2>1, <2>2, <2>3
<1>3. T \in SUBSET Seq(A)
  OBVIOUS
<1>4. \A s \in Seq(A) : s \in T
  <2> HIDE DEF T
  <2> QED BY <1>1, <1>2, <1>3, SeqInduction
<1> QED BY <1>4

(* So there is a function on sequences that satisfies the recursion.       *)
LEMMA SeqRecursion ==
    ASSUME NEW A, NEW V, NEW z, NEW step, Step(A, V, z, step)
    PROVE  \E F \in [Seq(A) -> V] : \A s \in Seq(A) :
              F[s] = IF s = << >> THEN z ELSE step[<<Head(s), F[Tail(s)]>>]
<1> DEFINE C(s) == CHOOSE g : Chain(s, g, V, z, step)
           F == [s \in Seq(A) |-> C(s)[Len(s)]]
<1>0. \A s \in Seq(A) : \A g, h :
         Chain(s, g, V, z, step) /\ Chain(s, h, V, z, step) => g[Len(s)] = h[Len(s)]
  BY ChainUnique
<1>1. \A s \in Seq(A) : Chain(s, C(s), V, z, step)
  <2> TAKE s \in Seq(A)
  <2>1. \E g : Chain(s, g, V, z, step)
    BY ChainExists
  <2> QED BY <2>1, Zenon
<1> HIDE DEF C
<1>2. F \in [Seq(A) -> V]
  <2> SUFFICES ASSUME NEW s \in Seq(A) PROVE C(s)[Len(s)] \in V
    OBVIOUS
  <2>1. Len(s) \in 0..Len(s)
    BY LenProperties
  <2>2. C(s) \in [0..Len(s) -> V]
    BY <1>1 DEF Chain
  <2> QED BY <2>1, <2>2
<1>3. F[<< >>] = z
  <2>1. << >> \in Seq(A) /\ Len(<< >>) = 0
    OBVIOUS
  <2> QED BY <1>1, <2>1 DEF Chain
<1>4. ASSUME NEW s \in Seq(A), s # << >>
      PROVE  F[s] = step[<<Head(s), F[Tail(s)]>>]
  <2>0. Chain(s, C(s), V, z, step)
    BY <1>1
  <2>1. PICK t : Chain(Tail(s), t, V, z, step) /\ C(s)[Len(s)] = step[<<Head(s), t[Len(Tail(s))]>>]
    BY <2>0, <1>4, ChainOfTail
  <2>2. Tail(s) \in Seq(A)
    BY <1>4, HeadTailProperties
  <2>3. t[Len(Tail(s))] = C(Tail(s))[Len(Tail(s))]
    <3>1. Chain(Tail(s), C(Tail(s)), V, z, step)
      BY <1>1, <2>2
    <3> QED BY <1>0, <2>1, <2>2, <3>1
  <2>4. F[s] = C(s)[Len(s)] /\ F[Tail(s)] = C(Tail(s))[Len(Tail(s))]
    BY <2>2
  <2> QED BY <2>1, <2>3, <2>4
<1> HIDE DEF F
<1>5. \A s \in Seq(A) : F[s] = IF s = << >> THEN z ELSE step[<<Head(s), F[Tail(s)]>>]
  BY <1>3, <1>4
<1> QED BY <1>2, <1>5
-----------------------------------------------------------------------------
(* What the functions on the byte stream compute.                          *)

(* What one unit on the wire adds to the messages and to the               *)
(* acknowledgements.                                                       *)
Payload(u) == IF u[1] = "payload" THEN << u[2] >> ELSE << >>
Acknowledges(u) == IF u[1] = "ack" THEN u[2] ELSE 0

(* Of what kind these are.                                                 *)
LEMMA UnitParts ==
    ASSUME NEW u \in Units
    PROVE  Payload(u) \in Seq(Messages) /\ Acknowledges(u) \in Nat
<1>1. u[1] = "payload" => u[2] \in Messages
  BY DEF Units
<1>2. u[1] = "ack" => u[2] \in Nat
  BY DEF Units
<1>3. Payload(u) \in Seq(Messages)
  <2>1. CASE u[1] = "payload"
    BY <1>1, <2>1 DEF Payload
  <2>2. CASE u[1] # "payload"
    BY <2>2 DEF Payload
  <2> QED BY <2>1, <2>2
<1> QED BY <1>2, <1>3 DEF Acknowledges

(* MessagesIn satisfies the equation that defines it,                      *)
LEMMA MessagesInDef ==
    /\ MessagesIn \in [Seq(Units) -> Seq(Messages)]
    /\ \A s \in Seq(Units) :
          MessagesIn[s] = IF s = << >> THEN << >> ELSE Payload(Head(s)) \o MessagesIn[Tail(s)]
<1> DEFINE A == Units
           V == Seq(Messages)
           step == [p \in A \X V |-> Payload(p[1]) \o p[2]]
<1>1. Step(A, V, << >>, step)
  <2>1. ASSUME NEW p \in A \X V PROVE Payload(p[1]) \o p[2] \in V
    <3>1. p[1] \in Units /\ p[2] \in Seq(Messages)
      OBVIOUS
    <3>2. Payload(p[1]) \in Seq(Messages)
      BY <3>1, UnitParts
    <3> QED BY <3>1, <3>2, ConcatProperties
  <2>2. << >> \in V
    OBVIOUS
  <2> QED BY <2>1, <2>2 DEF Step
<1>2. \A u \in A, v \in V : step[<<u, v>>] = Payload(u) \o v
  OBVIOUS
<1> HIDE DEF step
<1>3. PICK F \in [Seq(A) -> V] : \A s \in Seq(A) :
         F[s] = IF s = << >> THEN << >> ELSE step[<<Head(s), F[Tail(s)]>>]
  <2> HIDE DEF A, V
  <2> QED BY <1>1, SeqRecursion
<1>4. ASSUME NEW s \in Seq(Units)
      PROVE  F[s] = IF s = << >> THEN << >> ELSE Payload(Head(s)) \o F[Tail(s)]
  <2>1. CASE s = << >>
    BY <1>3, <2>1
  <2>2. CASE s # << >>
    <3>1. Head(s) \in A /\ Tail(s) \in Seq(A) /\ F[Tail(s)] \in V
      BY <1>3, <2>2, HeadTailProperties
    <3> QED BY <1>2, <1>3, <2>2, <3>1
  <2> QED BY <2>1, <2>2
<1> DEFINE Body(f, s) == IF s = << >> THEN << >> ELSE Payload(Head(s)) \o f[Tail(s)]
           Eqn(f) == f = [s \in Seq(Units) |-> Body(f, s)]
<1>5. Eqn(F)
  BY <1>3, <1>4
<1>6. MessagesIn = CHOOSE f : Eqn(f)
  BY DEF MessagesIn, Payload
<1>7. Eqn(MessagesIn)
  <2> HIDE DEF Eqn
  <2> QED BY <1>5, <1>6, Zenon
<1>8. ASSUME NEW s \in Seq(Units)
      PROVE MessagesIn[s] = IF s = << >> THEN << >> ELSE Payload(Head(s)) \o MessagesIn[Tail(s)]
  BY <1>7
<1>9. MessagesIn \in [Seq(Units) -> Seq(Messages)]
  <2> DEFINE T == {s \in Seq(Units) : MessagesIn[s] \in Seq(Messages)}
  <2>1. << >> \in T
    <3>1. << >> \in Seq(Units) /\ << >> \in Seq(Messages)
      OBVIOUS
    <3>2. MessagesIn[<< >>] = << >>
      BY <1>8, <3>1
    <3> QED BY <3>1, <3>2
  <2>2. ASSUME NEW s \in Seq(Units), s # << >>, Tail(s) \in T
        PROVE  s \in T
    <3>1. Head(s) \in Units /\ Tail(s) \in Seq(Units)
      BY <2>2, HeadTailProperties
    <3>2. Payload(Head(s)) \in Seq(Messages) /\ MessagesIn[Tail(s)] \in Seq(Messages)
      BY <2>2, <3>1, UnitParts
    <3>3. Payload(Head(s)) \o MessagesIn[Tail(s)] \in Seq(Messages)
      BY <3>2, ConcatProperties
    <3> QED BY <1>8, <2>2, <3>3
  <2>3. \A s \in Seq(Units) : s \in T
    <3>1. T \in SUBSET Seq(Units)
      OBVIOUS
    <3> HIDE DEF T
    <3> QED BY <2>1, <2>2, <3>1, SeqInduction
  <2>4. \A s \in Seq(Units) : MessagesIn[s] \in Seq(Messages)
    BY <2>3
  <2>5. \A s \in Seq(Units) : Body(MessagesIn, s) \in Seq(Messages)
    <3>1. \A s \in Seq(Units) : Body(MessagesIn, s) = MessagesIn[s]
      BY <1>8, Zenon
    <3> HIDE DEF Body
    <3> QED BY <2>4, <3>1
  <2> HIDE DEF Body
  <2> QED BY <1>7, <2>5
<1> QED BY <1>8, <1>9

(* and so does FdsNeeded,                                                  *)
LEMMA FdsNeededDef ==
    /\ FdsNeeded \in [Seq(Messages) -> Nat]
    /\ \A s \in Seq(Messages) :
          FdsNeeded[s] = IF s = << >> THEN 0 ELSE FdCount[Head(s)] + FdsNeeded[Tail(s)]
<1> DEFINE A == Messages
           V == Nat
           step == [p \in A \X V |-> FdCount[p[1]] + p[2]]
<1>1. Step(A, V, 0, step)
  <2>1. ASSUME NEW p \in A \X V PROVE FdCount[p[1]] + p[2] \in V
    <3>1. p[1] \in Messages /\ p[2] \in Nat
      OBVIOUS
    <3>2. FdCount[p[1]] \in Nat
      BY <3>1, TransportAssumption
    <3> QED BY <3>1, <3>2
  <2>2. 0 \in V
    OBVIOUS
  <2> QED BY <2>1, <2>2 DEF Step
<1>2. \A u \in A, v \in V : step[<<u, v>>] = FdCount[u] + v
  OBVIOUS
<1> HIDE DEF step
<1>3. PICK F \in [Seq(A) -> V] : \A s \in Seq(A) :
         F[s] = IF s = << >> THEN 0 ELSE step[<<Head(s), F[Tail(s)]>>]
  <2> HIDE DEF A, V
  <2> QED BY <1>1, SeqRecursion
<1>4. ASSUME NEW s \in Seq(Messages)
      PROVE  F[s] = IF s = << >> THEN 0 ELSE FdCount[Head(s)] + F[Tail(s)]
  <2>1. CASE s = << >>
    BY <1>3, <2>1
  <2>2. CASE s # << >>
    <3>1. Head(s) \in A /\ Tail(s) \in Seq(A) /\ F[Tail(s)] \in V
      BY <1>3, <2>2, HeadTailProperties
    <3> QED BY <1>2, <1>3, <2>2, <3>1
  <2> QED BY <2>1, <2>2
<1> DEFINE Body(f, s) == IF s = << >> THEN 0 ELSE FdCount[Head(s)] + f[Tail(s)]
           Eqn(f) == f = [s \in Seq(Messages) |-> Body(f, s)]
<1>5. Eqn(F)
  BY <1>3, <1>4
<1>6. FdsNeeded = CHOOSE f : Eqn(f)
  BY DEF FdsNeeded
<1>7. Eqn(FdsNeeded)
  <2> HIDE DEF Eqn
  <2> QED BY <1>5, <1>6, Zenon
<1>8. ASSUME NEW s \in Seq(Messages)
      PROVE FdsNeeded[s] = IF s = << >> THEN 0 ELSE FdCount[Head(s)] + FdsNeeded[Tail(s)]
  BY <1>7
<1>9. FdsNeeded \in [Seq(Messages) -> Nat]
  <2> DEFINE T == {s \in Seq(Messages) : FdsNeeded[s] \in Nat}
  <2>1. << >> \in T
    <3>1. << >> \in Seq(Messages) /\ 0 \in Nat
      OBVIOUS
    <3>2. FdsNeeded[<< >>] = 0
      BY <1>8, <3>1
    <3> QED BY <3>1, <3>2
  <2>2. ASSUME NEW s \in Seq(Messages), s # << >>, Tail(s) \in T
        PROVE  s \in T
    <3>1. Head(s) \in Messages /\ Tail(s) \in Seq(Messages)
      BY <2>2, HeadTailProperties
    <3>2. FdCount[Head(s)] \in Nat /\ FdsNeeded[Tail(s)] \in Nat
      BY <2>2, <3>1, TransportAssumption
    <3>3. FdCount[Head(s)] + FdsNeeded[Tail(s)] \in Nat
      BY <3>2
    <3> QED BY <1>8, <2>2, <3>3
  <2>3. \A s \in Seq(Messages) : s \in T
    <3>1. T \in SUBSET Seq(Messages)
      OBVIOUS
    <3> HIDE DEF T
    <3> QED BY <2>1, <2>2, <3>1, SeqInduction
  <2>4. \A s \in Seq(Messages) : FdsNeeded[s] \in Nat
    BY <2>3
  <2>5. \A s \in Seq(Messages) : Body(FdsNeeded, s) \in Nat
    <3>1. \A s \in Seq(Messages) : Body(FdsNeeded, s) = FdsNeeded[s]
      BY <1>8, Zenon
    <3> HIDE DEF Body
    <3> QED BY <2>4, <3>1
  <2> HIDE DEF Body
  <2> QED BY <1>7, <2>5
<1> QED BY <1>8, <1>9

(* and AcknowledgedIn.                                                     *)
LEMMA AcknowledgedInDef ==
    /\ AcknowledgedIn \in [Seq(Units) -> Nat]
    /\ \A s \in Seq(Units) :
          AcknowledgedIn[s] = IF s = << >> THEN 0 ELSE Acknowledges(Head(s)) + AcknowledgedIn[Tail(s)]
<1> DEFINE A == Units
           V == Nat
           step == [p \in A \X V |-> Acknowledges(p[1]) + p[2]]
<1>1. Step(A, V, 0, step)
  <2>1. ASSUME NEW p \in A \X V PROVE Acknowledges(p[1]) + p[2] \in V
    <3>1. p[1] \in Units /\ p[2] \in Nat
      OBVIOUS
    <3>2. Acknowledges(p[1]) \in Nat
      BY <3>1, UnitParts
    <3> QED BY <3>1, <3>2
  <2>2. 0 \in V
    OBVIOUS
  <2> QED BY <2>1, <2>2 DEF Step
<1>2. \A u \in A, v \in V : step[<<u, v>>] = Acknowledges(u) + v
  OBVIOUS
<1> HIDE DEF step
<1>3. PICK F \in [Seq(A) -> V] : \A s \in Seq(A) :
         F[s] = IF s = << >> THEN 0 ELSE step[<<Head(s), F[Tail(s)]>>]
  <2> HIDE DEF A, V
  <2> QED BY <1>1, SeqRecursion
<1>4. ASSUME NEW s \in Seq(Units)
      PROVE  F[s] = IF s = << >> THEN 0 ELSE Acknowledges(Head(s)) + F[Tail(s)]
  <2>1. CASE s = << >>
    BY <1>3, <2>1
  <2>2. CASE s # << >>
    <3>1. Head(s) \in A /\ Tail(s) \in Seq(A) /\ F[Tail(s)] \in V
      BY <1>3, <2>2, HeadTailProperties
    <3> QED BY <1>2, <1>3, <2>2, <3>1
  <2> QED BY <2>1, <2>2
<1> DEFINE Body(f, s) == IF s = << >> THEN 0 ELSE Acknowledges(Head(s)) + f[Tail(s)]
           Eqn(f) == f = [s \in Seq(Units) |-> Body(f, s)]
<1>5. Eqn(F)
  BY <1>3, <1>4
<1>6. AcknowledgedIn = CHOOSE f : Eqn(f)
  BY DEF AcknowledgedIn, Acknowledges
<1>7. Eqn(AcknowledgedIn)
  <2> HIDE DEF Eqn
  <2> QED BY <1>5, <1>6, Zenon
<1>8. ASSUME NEW s \in Seq(Units)
      PROVE AcknowledgedIn[s] = IF s = << >> THEN 0 ELSE Acknowledges(Head(s)) + AcknowledgedIn[Tail(s)]
  BY <1>7
<1>9. AcknowledgedIn \in [Seq(Units) -> Nat]
  <2> DEFINE T == {s \in Seq(Units) : AcknowledgedIn[s] \in Nat}
  <2>1. << >> \in T
    <3>1. << >> \in Seq(Units) /\ 0 \in Nat
      OBVIOUS
    <3>2. AcknowledgedIn[<< >>] = 0
      BY <1>8, <3>1
    <3> QED BY <3>1, <3>2
  <2>2. ASSUME NEW s \in Seq(Units), s # << >>, Tail(s) \in T
        PROVE  s \in T
    <3>1. Head(s) \in Units /\ Tail(s) \in Seq(Units)
      BY <2>2, HeadTailProperties
    <3>2. Acknowledges(Head(s)) \in Nat /\ AcknowledgedIn[Tail(s)] \in Nat
      BY <2>2, <3>1, UnitParts
    <3>3. Acknowledges(Head(s)) + AcknowledgedIn[Tail(s)] \in Nat
      BY <3>2
    <3> QED BY <1>8, <2>2, <3>3
  <2>3. \A s \in Seq(Units) : s \in T
    <3>1. T \in SUBSET Seq(Units)
      OBVIOUS
    <3> HIDE DEF T
    <3> QED BY <2>1, <2>2, <3>1, SeqInduction
  <2>4. \A s \in Seq(Units) : AcknowledgedIn[s] \in Nat
    BY <2>3
  <2>5. \A s \in Seq(Units) : Body(AcknowledgedIn, s) \in Nat
    <3>1. \A s \in Seq(Units) : Body(AcknowledgedIn, s) = AcknowledgedIn[s]
      BY <1>8, Zenon
    <3> HIDE DEF Body
    <3> QED BY <2>4, <3>1
  <2> HIDE DEF Body
  <2> QED BY <1>7, <2>5
<1> QED BY <1>8, <1>9

(* The first element of two sequences put together, and the rest.          *)
LEMMA HeadTailOfConcat ==
    ASSUME NEW S, NEW s \in Seq(S), NEW t \in Seq(S), s # << >>
    PROVE  s \o t # << >> /\ Head(s \o t) = Head(s) /\ Tail(s \o t) = Tail(s) \o t
<1>1. /\ Len(s) \in Nat \ {0} /\ Len(t) \in Nat
      /\ Tail(s) \in Seq(S) /\ Len(Tail(s)) = Len(s) - 1
      /\ \A i \in 1..Len(Tail(s)) : Tail(s)[i] = s[i + 1]
  BY HeadTailProperties, LenProperties, EmptySeq
<1>2. /\ s \o t \in Seq(S) /\ Len(s \o t) = Len(s) + Len(t)
      /\ \A i \in 1..Len(s) + Len(t) :
            (s \o t)[i] = IF i <= Len(s) THEN s[i] ELSE t[i - Len(s)]
  BY ConcatProperties
<1>3. s \o t # << >>
  BY <1>1, <1>2
<1>4. Head(s \o t) = Head(s)
  BY <1>1, <1>2, <1>3
<1>5. /\ Tail(s \o t) \in Seq(S) /\ Len(Tail(s \o t)) = Len(s) + Len(t) - 1
      /\ \A i \in 1..Len(Tail(s \o t)) : Tail(s \o t)[i] = (s \o t)[i + 1]
  BY <1>2, <1>3, HeadTailProperties
<1>6. /\ Tail(s) \o t \in Seq(S) /\ Len(Tail(s) \o t) = Len(s) - 1 + Len(t)
      /\ \A i \in 1..Len(Tail(s)) + Len(t) :
            (Tail(s) \o t)[i] = IF i <= Len(Tail(s)) THEN Tail(s)[i] ELSE t[i - Len(Tail(s))]
  BY <1>1, ConcatProperties
<1>7. ASSUME NEW i \in 1..Len(Tail(s \o t))
      PROVE  Tail(s \o t)[i] = (Tail(s) \o t)[i]
  <2>1. i + 1 \in 1..Len(s) + Len(t) /\ i \in 1..Len(Tail(s)) + Len(t)
    BY <1>1, <1>5
  <2>2. CASE i <= Len(Tail(s))
    BY <1>1, <1>2, <1>5, <1>6, <2>1, <2>2
  <2>3. CASE ~(i <= Len(Tail(s)))
    <3>1. ~(i + 1 <= Len(s)) /\ i + 1 - Len(s) = i - Len(Tail(s))
      BY <1>1, <1>5, <2>3
    <3>2. (s \o t)[i + 1] = t[i + 1 - Len(s)]
      BY <1>2, <2>1, <3>1
    <3>3. (Tail(s) \o t)[i] = t[i - Len(Tail(s))]
      BY <1>6, <2>1, <2>3
    <3> QED BY <1>5, <3>1, <3>2, <3>3
  <2> QED BY <2>2, <2>3
<1>8. Len(Tail(s \o t)) = Len(Tail(s) \o t)
  BY <1>1, <1>5, <1>6
<1>9. Tail(s \o t) = Tail(s) \o t
  BY <1>5, <1>6, <1>7, <1>8, SeqEqual
<1> QED BY <1>3, <1>4, <1>9

(* They all distribute over concatenation: it does not matter where the    *)
(* stream is cut.                                                          *)
LEMMA MessagesInConcat ==
    ASSUME NEW t \in Seq(Units)
    PROVE  \A s \in Seq(Units) : MessagesIn[s \o t] = MessagesIn[s] \o MessagesIn[t]
<1> DEFINE T == {s \in Seq(Units) : MessagesIn[s \o t] = MessagesIn[s] \o MessagesIn[t]}
<1>1. << >> \in T
  <2>1. << >> \in Seq(Units) /\ << >> \o t = t
    BY ConcatEmptySeq
  <2>2. MessagesIn[<< >>] = << >> /\ MessagesIn[t] \in Seq(Messages)
    BY <2>1, MessagesInDef
  <2>3. << >> \o MessagesIn[t] = MessagesIn[t]
    BY <2>2, ConcatEmptySeq
  <2> QED BY <2>1, <2>2, <2>3
<1>2. ASSUME NEW s \in Seq(Units), s # << >>, Tail(s) \in T
      PROVE  s \in T
  <2>1. Head(s) \in Units /\ Tail(s) \in Seq(Units) /\ s \o t \in Seq(Units)
    BY <1>2, HeadTailProperties, ConcatProperties
  <2>2. s \o t # << >> /\ Head(s \o t) = Head(s) /\ Tail(s \o t) = Tail(s) \o t
    BY <1>2, HeadTailOfConcat
  <2>3. MessagesIn[s \o t] = Payload(Head(s)) \o MessagesIn[Tail(s) \o t]
    BY <2>1, <2>2, MessagesInDef
  <2>4. MessagesIn[Tail(s) \o t] = MessagesIn[Tail(s)] \o MessagesIn[t]
    BY <1>2
  <2>5. MessagesIn[s] = Payload(Head(s)) \o MessagesIn[Tail(s)]
    BY <1>2, MessagesInDef
  <2>6. /\ Payload(Head(s)) \in Seq(Messages)
        /\ MessagesIn[Tail(s)] \in Seq(Messages)
        /\ MessagesIn[t] \in Seq(Messages)
    BY <2>1, UnitParts, MessagesInDef
  <2>7. (Payload(Head(s)) \o MessagesIn[Tail(s)]) \o MessagesIn[t]
           = Payload(Head(s)) \o (MessagesIn[Tail(s)] \o MessagesIn[t])
    <3>1. \A x, y, z \in Seq(Messages) : (x \o y) \o z = x \o (y \o z)
      BY ConcatAssociative
    <3> QED BY <2>6, <3>1
  <2> QED BY <2>3, <2>4, <2>5, <2>7
<1>3. \A s \in Seq(Units) : s \in T
  <2>1. T \in SUBSET Seq(Units)
    OBVIOUS
  <2> HIDE DEF T
  <2> QED BY <1>1, <1>2, <2>1, SeqInduction
<1> QED BY <1>3

(* The descriptors that two sequences of messages need add up.             *)
LEMMA FdsNeededConcat ==
    ASSUME NEW t \in Seq(Messages)
    PROVE  \A s \in Seq(Messages) : FdsNeeded[s \o t] = FdsNeeded[s] + FdsNeeded[t]
<1> DEFINE T == {s \in Seq(Messages) : FdsNeeded[s \o t] = FdsNeeded[s] + FdsNeeded[t]}
<1>1. << >> \in T
  <2>1. << >> \in Seq(Messages) /\ << >> \o t = t
    BY ConcatEmptySeq
  <2>2. FdsNeeded[<< >>] = 0 /\ FdsNeeded[t] \in Nat
    BY <2>1, FdsNeededDef
  <2> QED BY <2>1, <2>2
<1>2. ASSUME NEW s \in Seq(Messages), s # << >>, Tail(s) \in T
      PROVE  s \in T
  <2>1. Head(s) \in Messages /\ Tail(s) \in Seq(Messages) /\ s \o t \in Seq(Messages)
    BY <1>2, HeadTailProperties, ConcatProperties
  <2>2. s \o t # << >> /\ Head(s \o t) = Head(s) /\ Tail(s \o t) = Tail(s) \o t
    BY <1>2, HeadTailOfConcat
  <2>3. FdsNeeded[s \o t] = FdCount[Head(s)] + FdsNeeded[Tail(s) \o t]
    BY <2>1, <2>2, FdsNeededDef
  <2>4. FdsNeeded[Tail(s) \o t] = FdsNeeded[Tail(s)] + FdsNeeded[t]
    BY <1>2
  <2>5. FdsNeeded[s] = FdCount[Head(s)] + FdsNeeded[Tail(s)]
    BY <1>2, FdsNeededDef
  <2>6. /\ FdCount[Head(s)] \in Nat
        /\ FdsNeeded[Tail(s)] \in Nat
        /\ FdsNeeded[t] \in Nat
    <3>1. FdCount[Head(s)] \in Nat
      BY <2>1, TransportAssumption
    <3> QED BY <2>1, <3>1, FdsNeededDef
  <2>7. FdsNeeded[s \o t] = FdsNeeded[s] + FdsNeeded[t]
    BY <2>3, <2>4, <2>5, <2>6
  <2> QED BY <2>7
<1>3. \A s \in Seq(Messages) : s \in T
  <2>1. T \in SUBSET Seq(Messages)
    OBVIOUS
  <2> HIDE DEF T
  <2> QED BY <1>1, <1>2, <2>1, SeqInduction
<1> QED BY <1>3

(* So do the acknowledgements in two sequences of units.                   *)
LEMMA AcknowledgedInConcat ==
    ASSUME NEW t \in Seq(Units)
    PROVE  \A s \in Seq(Units) : AcknowledgedIn[s \o t] = AcknowledgedIn[s] + AcknowledgedIn[t]
<1> DEFINE T == {s \in Seq(Units) : AcknowledgedIn[s \o t] = AcknowledgedIn[s] + AcknowledgedIn[t]}
<1>1. << >> \in T
  <2>1. << >> \in Seq(Units) /\ << >> \o t = t
    BY ConcatEmptySeq
  <2>2. AcknowledgedIn[<< >>] = 0 /\ AcknowledgedIn[t] \in Nat
    BY <2>1, AcknowledgedInDef
  <2> QED BY <2>1, <2>2
<1>2. ASSUME NEW s \in Seq(Units), s # << >>, Tail(s) \in T
      PROVE  s \in T
  <2>1. Head(s) \in Units /\ Tail(s) \in Seq(Units) /\ s \o t \in Seq(Units)
    BY <1>2, HeadTailProperties, ConcatProperties
  <2>2. s \o t # << >> /\ Head(s \o t) = Head(s) /\ Tail(s \o t) = Tail(s) \o t
    BY <1>2, HeadTailOfConcat
  <2>3. AcknowledgedIn[s \o t] = Acknowledges(Head(s)) + AcknowledgedIn[Tail(s) \o t]
    BY <2>1, <2>2, AcknowledgedInDef
  <2>4. AcknowledgedIn[Tail(s) \o t] = AcknowledgedIn[Tail(s)] + AcknowledgedIn[t]
    BY <1>2
  <2>5. AcknowledgedIn[s] = Acknowledges(Head(s)) + AcknowledgedIn[Tail(s)]
    BY <1>2, AcknowledgedInDef
  <2>6. /\ Acknowledges(Head(s)) \in Nat
        /\ AcknowledgedIn[Tail(s)] \in Nat /\ AcknowledgedIn[t] \in Nat
    BY <2>1, UnitParts, AcknowledgedInDef
  <2>7. AcknowledgedIn[s \o t] = AcknowledgedIn[s] + AcknowledgedIn[t]
    BY <2>3, <2>4, <2>5, <2>6
  <2> QED BY <2>7
<1>3. \A s \in Seq(Units) : s \in T
  <2>1. T \in SUBSET Seq(Units)
    OBVIOUS
  <2> HIDE DEF T
  <2> QED BY <1>1, <1>2, <2>1, SeqInduction
<1> QED BY <1>3

-----------------------------------------------------------------------------
(* Sequences that are cut up and put together.                             *)

(* A sequence is cut in two after n elements.                              *)
LEMMA Cut ==
    ASSUME NEW S, NEW s \in Seq(S), NEW n \in 0..Len(s)
    PROVE  /\ SubSeq(s, 1, n) \in Seq(S) /\ Len(SubSeq(s, 1, n)) = n
           /\ \A i \in 1..n : SubSeq(s, 1, n)[i] = s[i]
           /\ Drop(s, n) \in Seq(S) /\ Len(Drop(s, n)) = Len(s) - n
           /\ \A i \in 1..Len(s) - n : Drop(s, n)[i] = s[n + i]
           /\ s = SubSeq(s, 1, n) \o Drop(s, n)
<1>0. Len(s) \in Nat /\ n \in Nat /\ n <= Len(s) /\ \A i \in 1..Len(s) : s[i] \in S
  BY LenProperties, ElementOfSeq
<1>1. /\ SubSeq(s, 1, n) \in Seq(S)
      /\ Len(SubSeq(s, 1, n)) = IF 1 <= n THEN n - 1 + 1 ELSE 0
      /\ \A i \in 1..n - 1 + 1 : SubSeq(s, 1, n)[i] = s[1 + i - 1]
  <2>1. 1 \in Int /\ n \in Int /\ \A i \in 1..n : s[i] \in S
    BY <1>0
  <2> QED BY <2>1, SubSeqProperties
<1>2. /\ SubSeq(s, n + 1, Len(s)) \in Seq(S)
      /\ Len(SubSeq(s, n + 1, Len(s))) = IF n + 1 <= Len(s) THEN Len(s) - (n + 1) + 1 ELSE 0
      /\ \A i \in 1..Len(s) - (n + 1) + 1 : SubSeq(s, n + 1, Len(s))[i] = s[n + 1 + i - 1]
  <2>1. n + 1 \in Int /\ Len(s) \in Int /\ \A i \in (n + 1)..Len(s) : s[i] \in S
    BY <1>0
  <2> QED BY <2>1, SubSeqProperties
<1>3. Len(SubSeq(s, 1, n)) = n /\ \A i \in 1..n : SubSeq(s, 1, n)[i] = s[i]
  BY <1>0, <1>1
<1>4. /\ Drop(s, n) \in Seq(S) /\ Len(Drop(s, n)) = Len(s) - n
      /\ \A i \in 1..Len(s) - n : Drop(s, n)[i] = s[n + i]
  BY <1>0, <1>2 DEF Drop
<1>5. s = SubSeq(s, 1, n) \o Drop(s, n)
  <2> DEFINE a == SubSeq(s, 1, n)
             b == Drop(s, n)
  <2>1. a \in Seq(S) /\ b \in Seq(S) /\ Len(a) = n /\ Len(b) = Len(s) - n
    BY <1>1, <1>3, <1>4
  <2>2. \A i \in 1..n : a[i] = s[i]
    BY <1>3
  <2>3. \A i \in 1..Len(s) - n : b[i] = s[n + i]
    BY <1>4
  <2> HIDE DEF a, b
  <2>4. /\ a \o b \in Seq(S) /\ Len(a \o b) = Len(s)
        /\ \A i \in 1..Len(a) + Len(b) : (a \o b)[i] = IF i <= Len(a) THEN a[i] ELSE b[i - Len(a)]
    BY <1>0, <2>1, ConcatProperties
  <2>5. ASSUME NEW i \in 1..Len(s) PROVE s[i] = (a \o b)[i]
    <3>1. CASE i <= n
      BY <1>0, <2>1, <2>2, <2>4, <3>1
    <3>2. CASE ~(i <= n)
      <4>1. i - n \in 1..Len(s) - n /\ n + (i - n) = i
        BY <1>0, <3>2
      <4> QED BY <1>0, <2>1, <2>3, <2>4, <3>2, <4>1
    <3> QED BY <3>1, <3>2
  <2>6. s = a \o b
    BY <2>4, <2>5, SeqEqual
  <2> QED BY <2>6 DEF a, b
<1> QED BY <1>1, <1>3, <1>4, <1>5

(* Elements are dropped from the first of two sequences put together.      *)
LEMMA DropConcat ==
    ASSUME NEW S, NEW s \in Seq(S), NEW t \in Seq(S), NEW n \in 0..Len(s)
    PROVE  Drop(s \o t, n) = Drop(s, n) \o t
<1>0. Len(s) \in Nat /\ Len(t) \in Nat /\ n \in Nat /\ n <= Len(s)
  BY LenProperties
<1>1. /\ s \o t \in Seq(S) /\ Len(s \o t) = Len(s) + Len(t)
      /\ \A i \in 1..Len(s) + Len(t) :
            (s \o t)[i] = IF i <= Len(s) THEN s[i] ELSE t[i - Len(s)]
  BY ConcatProperties
<1>2. n \in 0..Len(s \o t)
  BY <1>0, <1>1
<1>3. /\ Drop(s \o t, n) \in Seq(S) /\ Len(Drop(s \o t, n)) = Len(s \o t) - n
      /\ \A i \in 1..Len(s \o t) - n : Drop(s \o t, n)[i] = (s \o t)[n + i]
  BY <1>1, <1>2, Cut
<1>4. /\ Drop(s, n) \in Seq(S) /\ Len(Drop(s, n)) = Len(s) - n
      /\ \A i \in 1..Len(s) - n : Drop(s, n)[i] = s[n + i]
  BY Cut
<1> DEFINE a == Drop(s, n)
           b == Drop(s \o t, n)
<1>5. /\ a \o t \in Seq(S) /\ Len(a \o t) = Len(a) + Len(t)
      /\ \A i \in 1..Len(a) + Len(t) : (a \o t)[i] = IF i <= Len(a) THEN a[i] ELSE t[i - Len(a)]
  BY <1>4, ConcatProperties
<1>6. a \in Seq(S) /\ Len(a) = Len(s) - n /\ \A i \in 1..Len(s) - n : a[i] = s[n + i]
  BY <1>4
<1>7. /\ b \in Seq(S) /\ Len(b) = Len(s) + Len(t) - n
      /\ \A i \in 1..Len(s) + Len(t) - n : b[i] = (s \o t)[n + i]
  BY <1>1, <1>3
<1> HIDE DEF a, b
<1>8. ASSUME NEW i \in 1..Len(b) PROVE b[i] = (a \o t)[i]
  <2>1. /\ n + i \in 1..Len(s) + Len(t)
        /\ i \in 1..Len(a) + Len(t)
        /\ i \in 1..Len(s) + Len(t) - n
    BY <1>0, <1>6, <1>7
  <2>2. CASE i <= Len(s) - n
    <3>1. n + i <= Len(s) /\ i <= Len(a) /\ i \in 1..Len(s) - n
      BY <1>0, <1>6, <2>1, <2>2
    <3>2. (s \o t)[n + i] = s[n + i] /\ (a \o t)[i] = a[i]
      BY <1>1, <1>5, <2>1, <3>1
    <3> QED BY <1>6, <1>7, <2>1, <3>1, <3>2
  <2>3. CASE ~(i <= Len(s) - n)
    <3>1. ~(n + i <= Len(s)) /\ ~(i <= Len(a)) /\ n + i - Len(s) = i - Len(a)
      BY <1>0, <1>6, <2>1, <2>3
    <3>2. (s \o t)[n + i] = t[n + i - Len(s)] /\ (a \o t)[i] = t[i - Len(a)]
      BY <1>1, <1>5, <2>1, <3>1
    <3> QED BY <1>7, <2>1, <3>1, <3>2
  <2> QED BY <2>2, <2>3
<1>9. Len(b) = Len(a \o t)
  BY <1>0, <1>5, <1>6, <1>7
<1>10. b = a \o t
  BY <1>5, <1>7, <1>8, <1>9, SeqEqual
<1> QED BY <1>10 DEF a, b

(* Dropping m elements and then n drops m + n.                             *)
LEMMA DropDrop ==
    ASSUME NEW S, NEW s \in Seq(S), NEW m \in Nat, NEW n \in Nat, m + n <= Len(s)
    PROVE  Drop(Drop(s, m), n) = Drop(s, m + n)
<1>0. Len(s) \in Nat /\ m \in 0..Len(s) /\ m + n \in 0..Len(s)
  BY LenProperties
<1> DEFINE a == Drop(s, m)
           b == Drop(s, m + n)
           c == Drop(a, n)
<1>1. a \in Seq(S) /\ Len(a) = Len(s) - m /\ \A i \in 1..Len(s) - m : a[i] = s[m + i]
  BY <1>0, Cut
<1>2. /\ b \in Seq(S) /\ Len(b) = Len(s) - (m + n)
      /\ \A i \in 1..Len(s) - (m + n) : b[i] = s[m + n + i]
  BY <1>0, Cut
<1> HIDE DEF a, b
<1>3. n \in 0..Len(a)
  BY <1>0, <1>1
<1>4. c \in Seq(S) /\ Len(c) = Len(a) - n /\ \A i \in 1..Len(a) - n : c[i] = a[n + i]
  BY <1>1, <1>3, Cut
<1> HIDE DEF c
<1>5. Len(c) = Len(b)
  BY <1>0, <1>1, <1>2, <1>4
<1>6. ASSUME NEW i \in 1..Len(c) PROVE c[i] = b[i]
  <2>1. /\ i \in 1..Len(a) - n /\ n + i \in 1..Len(s) - m /\ i \in 1..Len(s) - (m + n)
        /\ m + (n + i) = m + n + i
    BY <1>0, <1>1, <1>4
  <2> QED BY <1>1, <1>2, <1>4, <2>1
<1>7. c = b
  BY <1>2, <1>4, <1>5, <1>6, SeqEqual
<1> QED BY <1>7 DEF a, b, c

(* The largest of some numbers below a bound is one of them.               *)
LEMMA MaxIsMember ==
    ASSUME NEW N \in Nat, NEW T \in SUBSET (0..N), T # {}
    PROVE  Max(T) \in T
<1> DEFINE U == {k \in 0..N : N - k \in T}
<1>1. U \in SUBSET Nat /\ U # {}
  <2>1. PICK x \in T : x \in 0..N
    OBVIOUS
  <2>2. N - x \in 0..N /\ N - (N - x) = x
    BY <2>1
  <2>3. N - x \in U
    BY <2>1, <2>2
  <2>4. U \in SUBSET Nat
    OBVIOUS
  <2> HIDE DEF U
  <2> QED BY <2>3, <2>4
<1>2. PICK k \in U : \A j \in U : k <= j
  <2> HIDE DEF U
  <2> QED BY <1>1, Least
<1>3. N - k \in T /\ k \in 0..N
  BY <1>2
<1>4. ASSUME NEW y \in T PROVE N - k >= y
  <2>1. y \in 0..N /\ N - y \in 0..N /\ N - (N - y) = y
    OBVIOUS
  <2>2. N - y \in U
    BY <2>1
  <2> HIDE DEF U
  <2>3. k <= N - y
    BY <1>2, <2>2
  <2> QED BY <1>3, <2>1, <2>3
<1>5. \E x \in T : \A y \in T : x >= y
  BY <1>3, <1>4
<1>6. Max(T) = CHOOSE x \in T : \A y \in T : x >= y
  BY DEF Max
<1> QED BY <1>5, <1>6, Zenon

(* The smaller of two numbers.                                             *)
LEMMA MinOfTwo ==
    ASSUME NEW m \in Int, NEW n \in Int
    PROVE  Min({m, n}) \in {m, n} /\ Min({m, n}) \in Int /\ Min({m, n}) <= m /\ Min({m, n}) <= n
<1>1. \E x \in {m, n} : \A y \in {m, n} : x =< y
  <2>1. CASE m <= n
    BY <2>1
  <2>2. CASE n <= m
    BY <2>2
  <2>3. m <= n \/ n <= m
    OBVIOUS
  <2> QED BY <2>1, <2>2, <2>3
<1>2. Min({m, n}) = CHOOSE x \in {m, n} : \A y \in {m, n} : x =< y
  BY DEF Min
<1>3. Min({m, n}) \in {m, n} /\ \A y \in {m, n} : Min({m, n}) =< y
  BY <1>1, <1>2, Zenon
<1>4. m \in {m, n} /\ n \in {m, n}
  OBVIOUS
<1> DEFINE x == Min({m, n})
<1>5. x \in {m, n} /\ x \in Int /\ x =< m /\ x =< n
  <2> HIDE DEF x
  <2> QED BY <1>3, <1>4 DEF x
<1> QED BY <1>5

(* What is processed is a front of the stream, and the descriptors its     *)
(* messages need have come.                                                *)
LEMMA ProcessableIsFront ==
    ASSUME NEW units \in Seq(Units), NEW ds \in Seq(Fds)
    PROVE  \E n \in 0..Len(units) :
              /\ Processable(units, ds) = SubSeq(units, 1, n)
              /\ FdsNeeded[MessagesIn[SubSeq(units, 1, n)]] <= Len(ds)
<1> DEFINE Whole(n) == /\ n > 0 => units[n][1] # "header"
                       /\ FdsNeeded[MessagesIn[SubSeq(units, 1, n)]] <= Len(ds)
           T == {n \in 0..Len(units) : Whole(n)}
<1>1. Processable(units, ds) = SubSeq(units, 1, Max(T))
  BY DEF Processable
<1>2. Len(units) \in Nat /\ T \in SUBSET (0..Len(units))
  BY LenProperties
<1>3. 0 \in T
  <2>1. SubSeq(units, 1, 0) = << >>
    BY SubSeqEmpty
  <2>2. << >> \in Seq(Units) /\ << >> \in Seq(Messages)
    OBVIOUS
  <2>3. MessagesIn[<< >>] = << >> /\ FdsNeeded[<< >>] = 0
    BY <2>2, MessagesInDef, FdsNeededDef
  <2>4. FdsNeeded[MessagesIn[SubSeq(units, 1, 0)]] = 0
    BY <2>1, <2>3
  <2>5. Len(ds) \in Nat /\ 0 \in 0..Len(units)
    BY <1>2, LenProperties
  <2>6. Whole(0)
    BY <2>4, <2>5
  <2> HIDE DEF Whole
  <2> QED BY <2>5, <2>6
<1>4. Max(T) \in T
  <2> HIDE DEF T
  <2> QED BY <1>2, <1>3, MaxIsMember
<1>5. Max(T) \in 0..Len(units) /\ Whole(Max(T))
  <2> HIDE DEF Whole
  <2> QED BY <1>4
<1> DEFINE n == Max(T)
<1>6. n \in 0..Len(units) /\ FdsNeeded[MessagesIn[SubSeq(units, 1, n)]] <= Len(ds)
  BY <1>5
<1>7. Processable(units, ds) = SubSeq(units, 1, n)
  BY <1>1
<1> HIDE DEF n, T
<1> QED BY <1>6, <1>7

-----------------------------------------------------------------------------
(* Messages and the queue of their descriptors.                            *)

(* The descriptors in the queue are those of the messages, in their order. *)
Owned(ms, ds) ==
    /\ Len(ds) = FdsNeeded[ms]
    /\ \A i \in 1..Len(ms) : \A j \in 1..FdCount[ms[i]] :
          ds[FdsNeeded[SubSeq(ms, 1, i - 1)] + j] = <<ms[i], j>>

(* The descriptors of a message are as many as it has.                     *)
LEMMA DescriptorsType ==
    ASSUME NEW m \in Messages
    PROVE  /\ FdCount[m] \in Nat
           /\ Descriptors(m) \in Seq(Fds) /\ Len(Descriptors(m)) = FdCount[m]
           /\ \A j \in 1..FdCount[m] : Descriptors(m)[j] = <<m, j>>
<1>1. FdCount[m] \in Nat
  BY TransportAssumption
<1>2. \A j \in 1..FdCount[m] : <<m, j>> \in Fds
  BY <1>1 DEF Fds
<1>3. Descriptors(m) \in [1..FdCount[m] -> Fds]
  BY <1>2 DEF Descriptors
<1>4. Descriptors(m) \in Seq(Fds)
  BY <1>1, <1>3
<1>5. Len(Descriptors(m)) = FdCount[m]
  <2>1. DOMAIN Descriptors(m) = 1..FdCount[m]
    BY <1>3
  <2>2. DOMAIN Descriptors(m) = 1..Len(Descriptors(m)) /\ Len(Descriptors(m)) \in Nat
    BY <1>4, LenProperties
  <2> QED BY <1>1, <2>1, <2>2
<1> QED BY <1>1, <1>4, <1>5 DEF Descriptors

(* A sequence of one message needs the descriptors of that message.        *)
LEMMA FdsNeededOne ==
    ASSUME NEW m \in Messages
    PROVE  FdsNeeded[<<m>>] = FdCount[m]
<1>1. <<m>> \in Seq(Messages) /\ <<m>> # << >> /\ Head(<<m>>) = m /\ Tail(<<m>>) = << >>
  OBVIOUS
<1>2. << >> \in Seq(Messages)
  OBVIOUS
<1>3. FdsNeeded[<< >>] = 0
  BY <1>2, FdsNeededDef
<1>4. FdsNeeded[<<m>>] = FdCount[m] + FdsNeeded[<< >>]
  BY <1>1, FdsNeededDef
<1> QED BY <1>3, <1>4, DescriptorsType

(* The descriptors before a message and its own are among those of all.    *)
LEMMA NeededBefore ==
    ASSUME NEW ms \in Seq(Messages), NEW i \in 1..Len(ms)
    PROVE  /\ SubSeq(ms, 1, i - 1) \in Seq(Messages)
           /\ ms[i] \in Messages /\ FdCount[ms[i]] \in Nat
           /\ FdsNeeded[SubSeq(ms, 1, i - 1)] \in Nat
           /\ FdsNeeded[ms] \in Nat
           /\ FdsNeeded[SubSeq(ms, 1, i - 1)] + FdCount[ms[i]] <= FdsNeeded[ms]
<1>0. Len(ms) \in Nat /\ i \in 0..Len(ms) /\ i - 1 \in 0..i
  BY LenProperties
<1> DEFINE f == SubSeq(ms, 1, i)
<1>1. f \in Seq(Messages) /\ Drop(ms, i) \in Seq(Messages) /\ ms = f \o Drop(ms, i)
  BY <1>0, Cut
<1>2. f = SubSeq(ms, 1, i - 1) \o <<ms[i]>>
  <2>1. 1 \in 1..Len(ms) /\ i \in 1..Len(ms)
    BY <1>0
  <2> QED BY <2>1, SubSeqRecursiveSecond
<1>3. ms[i] \in Messages /\ <<ms[i]>> \in Seq(Messages) /\ FdCount[ms[i]] \in Nat
  BY ElementOfSeq, DescriptorsType
<1>4. SubSeq(ms, 1, i - 1) \in Seq(Messages)
  <2>1. i - 1 \in 0..Len(ms)
    BY <1>0
  <2> QED BY <2>1, Cut
<1> HIDE DEF f
<1>5. FdsNeeded[ms] = FdsNeeded[f] + FdsNeeded[Drop(ms, i)]
  BY <1>1, FdsNeededConcat
<1>6. FdsNeeded[f] = FdsNeeded[SubSeq(ms, 1, i - 1)] + FdCount[ms[i]]
  BY <1>2, <1>3, <1>4, FdsNeededConcat, FdsNeededOne
<1>7. /\ FdsNeeded[ms] \in Nat /\ FdsNeeded[SubSeq(ms, 1, i - 1)] \in Nat
      /\ FdsNeeded[Drop(ms, i)] \in Nat
  BY <1>1, <1>4, FdsNeededDef
<1> QED BY <1>3, <1>4, <1>5, <1>6, <1>7

(* The descriptors of a message are within the queue.                      *)
LEMMA OwnedRange ==
    ASSUME NEW ms \in Seq(Messages), NEW ds \in Seq(Fds), Owned(ms, ds),
           NEW i \in 1..Len(ms), NEW j \in 1..FdCount[ms[i]]
    PROVE  FdsNeeded[SubSeq(ms, 1, i - 1)] + j \in 1..Len(ds)
<1>1. /\ FdCount[ms[i]] \in Nat /\ FdsNeeded[SubSeq(ms, 1, i - 1)] \in Nat
      /\ FdsNeeded[ms] \in Nat
      /\ FdsNeeded[SubSeq(ms, 1, i - 1)] + FdCount[ms[i]] <= FdsNeeded[ms]
  BY NeededBefore
<1>2. Len(ds) = FdsNeeded[ms]
  BY DEF Owned
<1> QED BY <1>1, <1>2

(* A message that is posted brings its descriptors.                        *)
LEMMA OwnedAppend ==
    ASSUME NEW ms \in Seq(Messages), NEW ds \in Seq(Fds), NEW m \in Messages, Owned(ms, ds)
    PROVE  Owned(ms \o <<m>>, ds \o Descriptors(m))
<1> DEFINE ms2 == ms \o <<m>>
           ds2 == ds \o Descriptors(m)
<1>0. <<m>> \in Seq(Messages) /\ Len(<<m>>) = 1 /\ <<m>>[1] = m
  OBVIOUS
<1>1. /\ ms2 \in Seq(Messages) /\ Len(ms2) = Len(ms) + 1
      /\ \A i \in 1..Len(ms) : ms2[i] = ms[i]
      /\ ms2[Len(ms) + 1] = m
      /\ Len(ms) \in Nat /\ Len(ds) \in Nat
  BY <1>0, ConcatProperties, LenProperties
<1>2. /\ FdCount[m] \in Nat
      /\ Descriptors(m) \in Seq(Fds) /\ Len(Descriptors(m)) = FdCount[m]
      /\ \A j \in 1..FdCount[m] : Descriptors(m)[j] = <<m, j>>
  BY DescriptorsType
<1>3. /\ ds2 \in Seq(Fds) /\ Len(ds2) = Len(ds) + FdCount[m]
      /\ \A i \in 1..Len(ds) : ds2[i] = ds[i]
      /\ \A j \in 1..FdCount[m] : ds2[Len(ds) + j] = <<m, j>>
  <2>1. /\ ds2 \in Seq(Fds) /\ Len(ds2) = Len(ds) + Len(Descriptors(m))
        /\ \A i \in 1..Len(ds) + Len(Descriptors(m)) :
              ds2[i] = IF i <= Len(ds) THEN ds[i] ELSE Descriptors(m)[i - Len(ds)]
    BY <1>2, ConcatProperties
  <2> HIDE DEF ds2
  <2>2. ASSUME NEW i \in 1..Len(ds) PROVE ds2[i] = ds[i]
    <3>1. i \in 1..Len(ds) + Len(Descriptors(m)) /\ i <= Len(ds)
      BY <1>1, <1>2
    <3> QED BY <2>1, <3>1
  <2>3. ASSUME NEW j \in 1..FdCount[m] PROVE ds2[Len(ds) + j] = <<m, j>>
    <3>1. /\ Len(ds) + j \in 1..Len(ds) + Len(Descriptors(m))
          /\ ~(Len(ds) + j <= Len(ds)) /\ Len(ds) + j - Len(ds) = j
      BY <1>1, <1>2
    <3>2. ds2[Len(ds) + j] = Descriptors(m)[j]
      BY <2>1, <3>1
    <3> QED BY <1>2, <3>2
  <2> QED BY <1>2, <2>1, <2>2, <2>3
<1>4. FdsNeeded[ms2] = FdsNeeded[ms] + FdCount[m]
  BY <1>0, FdsNeededConcat, FdsNeededOne
<1>5. Len(ds2) = FdsNeeded[ms2]
  BY <1>3, <1>4 DEF Owned
<1> HIDE DEF ms2, ds2
<1>6. ASSUME NEW i \in 1..Len(ms2), NEW j \in 1..FdCount[ms2[i]]
      PROVE  ds2[FdsNeeded[SubSeq(ms2, 1, i - 1)] + j] = <<ms2[i], j>>
  <2>1. SubSeq(ms2, 1, i - 1) = SubSeq(ms, 1, i - 1)
    <3>1. i - 1 \in 0..Len(ms) /\ i - 1 \in 0..Len(ms2)
      BY <1>1
    <3>2. /\ SubSeq(ms, 1, i - 1) \in Seq(Messages) /\ Len(SubSeq(ms, 1, i - 1)) = i - 1
          /\ \A k \in 1..i - 1 : SubSeq(ms, 1, i - 1)[k] = ms[k]
      BY <3>1, Cut
    <3>3. /\ SubSeq(ms2, 1, i - 1) \in Seq(Messages) /\ Len(SubSeq(ms2, 1, i - 1)) = i - 1
          /\ \A k \in 1..i - 1 : SubSeq(ms2, 1, i - 1)[k] = ms2[k]
      BY <1>1, <3>1, Cut
    <3>4. \A k \in 1..i - 1 : ms2[k] = ms[k]
      BY <1>1, <3>1
    <3> DEFINE a == SubSeq(ms, 1, i - 1)
               b == SubSeq(ms2, 1, i - 1)
    <3>5. Len(a) = Len(b) /\ \A k \in 1..Len(a) : a[k] = b[k]
      BY <3>2, <3>3, <3>4
    <3>6. a \in Seq(Messages) /\ b \in Seq(Messages)
      BY <3>2, <3>3
    <3> HIDE DEF a, b
    <3>7. a = b
      BY <3>5, <3>6, SeqEqual
    <3> QED BY <3>7 DEF a, b
  <2>2. CASE i <= Len(ms)
    <3>1. i \in 1..Len(ms) /\ ms2[i] = ms[i]
      BY <1>1, <2>2
    <3>2. ds[FdsNeeded[SubSeq(ms, 1, i - 1)] + j] = <<ms[i], j>>
      BY <3>1 DEF Owned
    <3>3. FdsNeeded[SubSeq(ms, 1, i - 1)] + j \in 1..Len(ds)
      BY <3>1, OwnedRange
    <3> QED BY <1>3, <2>1, <3>1, <3>2, <3>3
  <2>3. CASE ~(i <= Len(ms))
    <3>1. i = Len(ms) + 1 /\ i - 1 = Len(ms) /\ ms2[i] = m
      BY <1>1, <2>3
    <3>2. SubSeq(ms, 1, i - 1) = ms
      BY <3>1, SubSeqFull
    <3>3. FdsNeeded[SubSeq(ms2, 1, i - 1)] = Len(ds)
      BY <2>1, <3>2 DEF Owned
    <3> QED BY <1>3, <3>1, <3>3
  <2> QED BY <2>2, <2>3
<1>7. Owned(ms2, ds2)
  BY <1>5, <1>6 DEF Owned
<1> QED BY <1>7 DEF ms2, ds2

(* The front of two sequences put together, where it ends within the       *)
(* first,                                                                  *)
LEMMA FrontOfConcat ==
    ASSUME NEW S, NEW s \in Seq(S), NEW t \in Seq(S), NEW n \in 0..Len(s)
    PROVE  SubSeq(s \o t, 1, n) = SubSeq(s, 1, n)
<1>0. Len(s) \in Nat /\ Len(t) \in Nat
  BY LenProperties
<1>1. /\ s \o t \in Seq(S) /\ Len(s \o t) = Len(s) + Len(t)
      /\ \A i \in 1..Len(s) + Len(t) :
            (s \o t)[i] = IF i <= Len(s) THEN s[i] ELSE t[i - Len(s)]
  BY ConcatProperties
<1> DEFINE st == s \o t
           a == SubSeq(st, 1, n)
           b == SubSeq(s, 1, n)
<1>2. n \in 0..Len(st)
  BY <1>0, <1>1
<1>3. a \in Seq(S) /\ Len(a) = n /\ \A i \in 1..n : a[i] = st[i]
  BY <1>1, <1>2, Cut
<1>4. b \in Seq(S) /\ Len(b) = n /\ \A i \in 1..n : b[i] = s[i]
  BY Cut
<1>5. \A i \in 1..n : st[i] = s[i]
  <2> HIDE DEF st
  <2> TAKE i \in 1..n
  <2>1. i \in 1..Len(s) + Len(t) /\ i <= Len(s)
    BY <1>0
  <2> QED BY <1>1, <2>1 DEF st
<1> HIDE DEF st, a, b
<1>6. Len(a) = Len(b) /\ \A i \in 1..Len(a) : a[i] = b[i]
  BY <1>3, <1>4, <1>5
<1>7. a = b
  BY <1>3, <1>4, <1>6, SeqEqual
<1> QED BY <1>7 DEF st, a, b

(* and where it ends within the second.                                    *)
LEMMA FrontPastConcat ==
    ASSUME NEW S, NEW s \in Seq(S), NEW t \in Seq(S), NEW n \in 0..Len(t)
    PROVE  SubSeq(s \o t, 1, Len(s) + n) = s \o SubSeq(t, 1, n)
<1>0. Len(s) \in Nat /\ Len(t) \in Nat
  BY LenProperties
<1> DEFINE f == SubSeq(t, 1, n)
           u == s \o f
<1>1. f \in Seq(S) /\ Len(f) = n /\ Drop(t, n) \in Seq(S) /\ t = f \o Drop(t, n)
  BY Cut
<1> HIDE DEF f
<1>2. u \in Seq(S) /\ Len(u) = Len(s) + n
  BY <1>1, ConcatProperties
<1>3. s \o t = u \o Drop(t, n)
  <2>1. \A x, y, z \in Seq(S) : (x \o y) \o z = x \o (y \o z)
    BY ConcatAssociative
  <2>2. (s \o f) \o Drop(t, n) = s \o (f \o Drop(t, n))
    BY <1>1, <2>1, Zenon
  <2>3. s \o (f \o Drop(t, n)) = s \o t
    BY <1>1
  <2> QED BY <2>2, <2>3
<1> HIDE DEF u
<1>4. Len(u) \in 0..Len(u)
  BY <1>0, <1>2
<1>5. SubSeq(u \o Drop(t, n), 1, Len(u)) = SubSeq(u, 1, Len(u))
  BY <1>1, <1>2, <1>4, FrontOfConcat
<1>6. SubSeq(u, 1, Len(u)) = u
  BY <1>2, SubSeqFull
<1>7. SubSeq(s \o t, 1, Len(s) + n) = u
  BY <1>2, <1>3, <1>5, <1>6
<1> QED BY <1>7 DEF u, f

(* Messages whose descriptors have come take them off the queue: each gets *)
(* its own, and the others keep theirs.                                    *)
LEMMA OwnedFront ==
    ASSUME NEW ms1 \in Seq(Messages), NEW ms2 \in Seq(Messages),
           NEW ds1 \in Seq(Fds), NEW ds2 \in Seq(Fds),
           Owned(ms1 \o ms2, ds1 \o ds2), FdsNeeded[ms1] <= Len(ds1),
           NEW i \in 1..Len(ms1)
    PROVE  LET before == FdsNeeded[SubSeq(ms1, 1, i - 1)]
           IN  SubSeq(ds1, before + 1, before + FdCount[ms1[i]]) = Descriptors(ms1[i])
<1> DEFINE b == FdsNeeded[SubSeq(ms1, 1, i - 1)]
           c == FdCount[ms1[i]]
           ms == ms1 \o ms2
           ds == ds1 \o ds2
<1>1. /\ b \in Nat /\ c \in Nat /\ b + c <= Len(ds1)
      /\ SubSeq(ms1, 1, i - 1) \in Seq(Messages) /\ ms1[i] \in Messages
  <2>1. /\ b \in Nat /\ c \in Nat /\ FdsNeeded[ms1] \in Nat /\ b + c <= FdsNeeded[ms1]
        /\ SubSeq(ms1, 1, i - 1) \in Seq(Messages) /\ ms1[i] \in Messages
    BY NeededBefore
  <2>2. Len(ds1) \in Nat
    BY LenProperties
  <2> HIDE DEF b, c
  <2> QED BY <2>1, <2>2
<1>2. Len(ms1) \in Nat /\ Len(ms2) \in Nat /\ Len(ds1) \in Nat /\ Len(ds2) \in Nat
  BY LenProperties
<1>3. /\ ms \in Seq(Messages) /\ Len(ms) = Len(ms1) + Len(ms2)
      /\ \A k \in 1..Len(ms1) + Len(ms2) :
            ms[k] = IF k <= Len(ms1) THEN ms1[k] ELSE ms2[k - Len(ms1)]
  BY ConcatProperties
<1>4. /\ ds \in Seq(Fds) /\ Len(ds) = Len(ds1) + Len(ds2)
      /\ \A k \in 1..Len(ds1) + Len(ds2) :
            ds[k] = IF k <= Len(ds1) THEN ds1[k] ELSE ds2[k - Len(ds1)]
  BY ConcatProperties
<1>5. i \in 1..Len(ms) /\ i \in 1..Len(ms1) + Len(ms2) /\ i <= Len(ms1)
  BY <1>2, <1>3
<1>6. ms[i] = ms1[i]
  BY <1>3, <1>5
<1>7. SubSeq(ms, 1, i - 1) = SubSeq(ms1, 1, i - 1)
  <2>1. i - 1 \in 0..Len(ms1)
    BY <1>2
  <2>2. SubSeq(ms1 \o ms2, 1, i - 1) = SubSeq(ms1, 1, i - 1)
    BY <2>1, FrontOfConcat
  <2> QED BY <2>2
<1>8. ASSUME NEW j \in 1..c PROVE ds1[b + j] = <<ms1[i], j>>
  <2>1. ds[FdsNeeded[SubSeq(ms, 1, i - 1)] + j] = <<ms[i], j>>
    <3>1. Owned(ms, ds)
      OBVIOUS
    <3>2. j \in 1..FdCount[ms[i]]
      BY <1>6
    <3> HIDE DEF ms, ds
    <3> QED BY <1>5, <3>1, <3>2 DEF Owned
  <2>2. ds[b + j] = <<ms1[i], j>>
    BY <1>6, <1>7, <2>1
  <2> HIDE DEF b, c, ds
  <2>3. b + j \in 1..Len(ds1) + Len(ds2) /\ b + j <= Len(ds1)
    BY <1>1, <1>2
  <2> QED BY <1>4, <2>2, <2>3
<1>9. /\ Descriptors(ms1[i]) \in Seq(Fds) /\ Len(Descriptors(ms1[i])) = c
      /\ \A j \in 1..c : Descriptors(ms1[i])[j] = <<ms1[i], j>>
  BY <1>1, DescriptorsType
<1> DEFINE t == SubSeq(ds1, b + 1, b + c)
<1>10. t \in Seq(Fds) /\ Len(t) = c /\ \A j \in 1..c : t[j] = ds1[b + j]
  <2> HIDE DEF b, c, ms, ds
  <2>1. b + 1 \in Int /\ b + c \in Int /\ \A k \in (b + 1)..(b + c) : ds1[k] \in Fds
    <3>1. ASSUME NEW k \in (b + 1)..(b + c) PROVE ds1[k] \in Fds
      <4>1. k \in 1..Len(ds1)
        BY <1>1, <1>2
      <4> QED BY <4>1, ElementOfSeq
    <3> QED BY <1>1, <3>1
  <2>2. /\ t \in Seq(Fds)
        /\ Len(t) = IF b + 1 <= b + c THEN b + c - (b + 1) + 1 ELSE 0
        /\ \A j \in 1..b + c - (b + 1) + 1 : t[j] = ds1[b + 1 + j - 1]
    <3>1. PICK lo \in Int : lo = b + 1
      BY <2>1
    <3>2. PICK hi \in Int : hi = b + c
      BY <2>1
    <3>3. \A k \in lo..hi : ds1[k] \in Fds
      BY <2>1, <3>1, <3>2
    <3>4. /\ SubSeq(ds1, lo, hi) \in Seq(Fds)
          /\ Len(SubSeq(ds1, lo, hi)) = IF lo <= hi THEN hi - lo + 1 ELSE 0
          /\ \A j \in 1..hi - lo + 1 : SubSeq(ds1, lo, hi)[j] = ds1[lo + j - 1]
      BY <3>3, SubSeqProperties
    <3>5. t = SubSeq(ds1, lo, hi)
      BY <3>1, <3>2
    <3> HIDE DEF t
    <3>6. /\ t \in Seq(Fds)
          /\ Len(t) = IF lo <= hi THEN hi - lo + 1 ELSE 0
          /\ \A j \in 1..hi - lo + 1 : t[j] = ds1[lo + j - 1]
      BY <3>4, <3>5
    <3> QED BY <1>1, <3>1, <3>2, <3>6
  <2> HIDE DEF t
  <2>3. Len(t) = c
    BY <1>1, <2>2
  <2>4. ASSUME NEW j \in 1..c PROVE t[j] = ds1[b + j]
    <3>1. j \in 1..b + c - (b + 1) + 1 /\ b + 1 + j - 1 = b + j
      BY <1>1
    <3> QED BY <2>2, <3>1
  <2> QED BY <2>2, <2>3, <2>4
<1> DEFINE d == Descriptors(ms1[i])
<1>11. d \in Seq(Fds) /\ Len(d) = c /\ \A j \in 1..c : d[j] = <<ms1[i], j>>
  BY <1>9
<1> HIDE DEF b, c, ms, ds, t, d
<1>12. Len(t) = Len(d) /\ \A j \in 1..Len(t) : t[j] = d[j]
  BY <1>8, <1>10, <1>11
<1>13. t = d
  BY <1>10, <1>11, <1>12, SeqEqual
<1> QED BY <1>13 DEF t, d, b, c

(* When the descriptors of the first messages are taken, those of the rest *)
(* are left.                                                               *)
LEMMA OwnedRest ==
    ASSUME NEW ms1 \in Seq(Messages), NEW ms2 \in Seq(Messages), NEW ds \in Seq(Fds),
           Owned(ms1 \o ms2, ds)
    PROVE  /\ FdsNeeded[ms1] \in 0..Len(ds)
           /\ Owned(ms2, Drop(ds, FdsNeeded[ms1]))
<1> DEFINE n == FdsNeeded[ms1]
           ms == ms1 \o ms2
           r == Drop(ds, n)
<1>1. n \in Nat /\ FdsNeeded[ms2] \in Nat /\ FdsNeeded[ms] = n + FdsNeeded[ms2]
  BY FdsNeededDef, FdsNeededConcat
<1>2. Len(ds) = FdsNeeded[ms] /\ Len(ds) \in Nat
  BY LenProperties DEF Owned
<1>3. Len(ms1) \in Nat /\ Len(ms2) \in Nat
  BY LenProperties
<1>4. /\ ms \in Seq(Messages) /\ Len(ms) = Len(ms1) + Len(ms2)
      /\ \A k \in 1..Len(ms1) + Len(ms2) :
            ms[k] = IF k <= Len(ms1) THEN ms1[k] ELSE ms2[k - Len(ms1)]
  BY ConcatProperties
<1>5. n \in 0..Len(ds)
  <2> HIDE DEF n, ms
  <2> QED BY <1>1, <1>2
<1>6. r \in Seq(Fds) /\ Len(r) = Len(ds) - n /\ \A k \in 1..Len(ds) - n : r[k] = ds[n + k]
  BY <1>5, Cut
<1>7. Len(r) = FdsNeeded[ms2]
  <2> HIDE DEF n, ms, r
  <2> QED BY <1>1, <1>2, <1>6
<1>8. ASSUME NEW i \in 1..Len(ms2), NEW j \in 1..FdCount[ms2[i]]
      PROVE  r[FdsNeeded[SubSeq(ms2, 1, i - 1)] + j] = <<ms2[i], j>>
  <2> DEFINE k == Len(ms1) + i
             b == FdsNeeded[SubSeq(ms2, 1, i - 1)]
  <2>1. /\ k \in 1..Len(ms1) + Len(ms2) /\ ~(k <= Len(ms1))
        /\ k - Len(ms1) = i /\ k - 1 = Len(ms1) + (i - 1)
        /\ i - 1 \in 0..Len(ms2)
    BY <1>3
  <2>2. ms[k] = ms2[i]
    <3> HIDE DEF ms, k
    <3> QED BY <1>4, <2>1
  <2>3. SubSeq(ms, 1, k - 1) = ms1 \o SubSeq(ms2, 1, i - 1)
    <3>1. SubSeq(ms1 \o ms2, 1, Len(ms1) + (i - 1)) = ms1 \o SubSeq(ms2, 1, i - 1)
      BY <2>1, FrontPastConcat
    <3> QED BY <2>1, <3>1
  <2>4. SubSeq(ms2, 1, i - 1) \in Seq(Messages)
    BY <2>1, Cut
  <2>5. FdsNeeded[SubSeq(ms, 1, k - 1)] = n + b /\ b \in Nat
    <3>1. FdsNeeded[ms1 \o SubSeq(ms2, 1, i - 1)] = n + b
      BY <2>4, FdsNeededConcat
    <3> QED BY <2>3, <2>4, <3>1, FdsNeededDef
  <2>6. ds[FdsNeeded[SubSeq(ms, 1, k - 1)] + j] = <<ms[k], j>>
    <3>1. Owned(ms, ds) /\ k \in 1..Len(ms) /\ j \in 1..FdCount[ms[k]]
      BY <1>4, <2>1, <2>2
    <3> HIDE DEF ms, k
    <3> QED BY <3>1 DEF Owned
  <2>7. b + j \in 1..Len(r)
    <3>1. /\ FdCount[ms2[i]] \in Nat /\ b \in Nat /\ FdsNeeded[ms2] \in Nat
          /\ b + FdCount[ms2[i]] <= FdsNeeded[ms2]
      BY NeededBefore
    <3> HIDE DEF b, r
    <3> QED BY <1>7, <3>1
  <2>8. b + j \in 1..Len(ds) - n /\ n + (b + j) = n + b + j
    <3> HIDE DEF n, b, r
    <3> QED BY <1>1, <1>6, <2>5, <2>7
  <2>9. r[b + j] = ds[n + b + j]
    <3> HIDE DEF n, b, r
    <3> QED BY <1>6, <2>8
  <2> QED BY <2>2, <2>5, <2>6, <2>9
<1> HIDE DEF r
<1>9. Owned(ms2, r)
  BY <1>7, <1>8 DEF Owned
<1> QED BY <1>5, <1>9 DEF r

-----------------------------------------------------------------------------
(* Types.                                                                  *)

(* Both ends are the peers of each other.                                  *)
LEMMA PeerType ==
    ASSUME NEW e \in Ends
    PROVE  Peer[e] \in Ends /\ Peer[e] # e /\ Peer[Peer[e]] = e
BY TransportAssumption

(* What one handling of the socket's input computes.                       *)
LEMMA ReadType ==
    ASSUME NEW units \in Seq(Units), NEW ds \in Seq(Fds)
    PROVE  LET done == Processable(units, ds)
               messages == MessagesIn[done]
               count == FdsNeeded[messages]
           IN  /\ done \in Seq(Units) /\ Drop(units, Len(done)) \in Seq(Units)
               /\ units = done \o Drop(units, Len(done))
               /\ messages \in Seq(Messages)
               /\ count \in Nat /\ count <= Len(ds) /\ Drop(ds, count) \in Seq(Fds)
               /\ ds = SubSeq(ds, 1, count) \o Drop(ds, count)
               /\ AcknowledgedIn[done] \in Nat
<1>1. PICK n \in 0..Len(units) :
         /\ Processable(units, ds) = SubSeq(units, 1, n)
         /\ FdsNeeded[MessagesIn[SubSeq(units, 1, n)]] <= Len(ds)
  BY ProcessableIsFront
<1> DEFINE done == SubSeq(units, 1, n)
           count == FdsNeeded[MessagesIn[done]]
<1>2. /\ done \in Seq(Units) /\ Len(done) = n /\ Drop(units, n) \in Seq(Units)
      /\ units = done \o Drop(units, n)
  BY Cut
<1>3. MessagesIn[done] \in Seq(Messages) /\ AcknowledgedIn[done] \in Nat
  BY <1>2, MessagesInDef, AcknowledgedInDef
<1>4. count \in Nat
  BY <1>3, FdsNeededDef
<1>5. count \in 0..Len(ds)
  <2>1. Len(ds) \in Nat /\ count <= Len(ds)
    BY <1>1, LenProperties
  <2> HIDE DEF count
  <2> QED BY <1>4, <2>1
<1>6. Drop(ds, count) \in Seq(Fds) /\ ds = SubSeq(ds, 1, count) \o Drop(ds, count)
  <2> HIDE DEF count
  <2> QED BY <1>5, Cut
<1>7. Processable(units, ds) = done /\ count <= Len(ds)
  BY <1>1
<1> HIDE DEF done
<1> QED BY <1>2, <1>3, <1>4, <1>6, <1>7

(* Messages are delivered with descriptors, as many as there are messages. *)
LEMMA WithDescriptorsType ==
    ASSUME NEW ms \in Seq(Messages), NEW ds \in Seq(Fds), FdsNeeded[ms] <= Len(ds)
    PROVE  /\ WithDescriptors(ms, ds) \in Seq(Delivered)
           /\ Len(WithDescriptors(ms, ds)) = Len(ms)
           /\ \A i \in 1..Len(ms) : WithDescriptors(ms, ds)[i].msg = ms[i]
<1> DEFINE before(i) == FdsNeeded[SubSeq(ms, 1, i - 1)]
           w(i) == [msg |-> ms[i], fds |-> SubSeq(ds, before(i) + 1, before(i) + FdCount[ms[i]])]
<1>1. DOMAIN ms = 1..Len(ms) /\ Len(ms) \in Nat
  BY LenProperties
<1>2. ASSUME NEW i \in 1..Len(ms) PROVE w(i) \in Delivered
  <2>1. /\ ms[i] \in Messages /\ FdCount[ms[i]] \in Nat /\ before(i) \in Nat
        /\ FdsNeeded[ms] \in Nat /\ before(i) + FdCount[ms[i]] <= FdsNeeded[ms]
    BY NeededBefore
  <2>2. PICK lo \in Int : lo = before(i) + 1
    <3> HIDE DEF before
    <3> QED BY <2>1
  <2>3. PICK hi \in Int : hi = before(i) + FdCount[ms[i]]
    <3> HIDE DEF before
    <3> QED BY <2>1
  <2>4. ASSUME NEW k \in lo..hi PROVE ds[k] \in Fds
    <3>1. Len(ds) \in Nat
      BY LenProperties
    <3>2. k \in 1..Len(ds)
      <4> HIDE DEF before
      <4> QED BY <2>1, <2>2, <2>3, <3>1
    <3> QED BY <3>2, ElementOfSeq
  <2>5. SubSeq(ds, lo, hi) \in Seq(Fds)
    BY <2>4, SubSeqProperties
  <2>6. w(i) = [msg |-> ms[i], fds |-> SubSeq(ds, lo, hi)]
    BY <2>2, <2>3
  <2> QED BY <2>1, <2>5, <2>6 DEF Delivered
<1>3. WithDescriptors(ms, ds) = [i \in 1..Len(ms) |-> w(i)]
  BY <1>1 DEF WithDescriptors
<1>4. \A i \in 1..Len(ms) : w(i).msg = ms[i]
  OBVIOUS
<1> HIDE DEF w
<1>5. WithDescriptors(ms, ds) \in [1..Len(ms) -> Delivered]
  BY <1>2, <1>3
<1>6. WithDescriptors(ms, ds) \in Seq(Delivered)
  BY <1>1, <1>5
<1>7. Len(WithDescriptors(ms, ds)) = Len(ms)
  <2> DEFINE f == WithDescriptors(ms, ds)
  <2>1. DOMAIN f = 1..Len(ms) /\ DOMAIN f = 1..Len(f) /\ Len(f) \in Nat
    BY <1>5, <1>6, LenProperties
  <2> HIDE DEF f
  <2>2. Len(f) = Len(ms)
    BY <1>1, <2>1
  <2> QED BY <2>2 DEF f
<1>8. \A i \in 1..Len(ms) : WithDescriptors(ms, ds)[i].msg = ms[i]
  BY <1>3, <1>4
<1> QED BY <1>6, <1>7, <1>8

(* One step of either thread keeps the types.                              *)
LEMMA SeqUpdate ==
    ASSUME NEW S, NEW f \in [Ends -> Seq(S)], NEW e \in Ends, NEW v \in Seq(S)
    PROVE  [f EXCEPT ![e] = v] \in [Ends -> Seq(S)]
OBVIOUS

(* The I/O thread goes to a place it has.                                  *)
LEMMA GotoType ==
    ASSUME TypeOK, NEW e \in Ends,
           NEW place \in {"top", "load", "poll", "read", "deliver", "eof", "hup", "write",
                          "finish", "done", "crashed"},
           Goto(e, place)
    PROVE  /\ io' \in [Ends -> {"top", "load", "poll", "read", "deliver", "eof", "hup", "write",
                                "finish", "done", "crashed"}]
           /\ revents' \in [Ends -> SUBSET {"IN", "HUP", "OUT", "WAKEUP"}]
<1>1. io' = [io EXCEPT ![e] = place]
  BY DEF Goto
<1>2. io' \in [Ends -> {"top", "load", "poll", "read", "deliver", "eof", "hup", "write",
                        "finish", "done", "crashed"}]
  BY <1>1 DEF TypeOK
<1>3. revents' = [revents EXCEPT ![e] = {}] \/ revents' = revents
  BY DEF Goto
<1>4. revents' \in [Ends -> SUBSET {"IN", "HUP", "OUT", "WAKEUP"}]
  BY <1>3 DEF TypeOK
<1> QED BY <1>2, <1>4

(* So does the main thread, when it is woken.                              *)
LEMMA BroadcastType ==
    ASSUME TypeOK, NEW e \in Ends, Broadcast(e)
    PROVE  main' \in [Ends -> {"idle", "posting", "check", "locked", "waiting", "drain", "eof",
                               "call", "joining", "flushing", "closed", "dead"}]
BY DEF TypeOK, Broadcast, Woken

(* Where the I/O thread goes from reading.                                 *)
LEMMA PlaceAfterRead ==
    ASSUME NEW e \in Ends
    PROVE  AfterRead(e) \in {"hup", "write", "top"}
BY DEF AfterRead

(* The steps of the I/O thread other than reading and writing keep the     *)
(* types.                                                                  *)
LEMMA IOThreadType ==
    ASSUME TypeOK, NEW e \in Ends, IOThread(e), ~read_incoming_messages(e), ~transfer_data(e)
    PROVE  TypeOK'
<1>1. CASE PeekSendQueue(e)
  <2>1. Goto(e, "load")
    BY <1>1 DEF PeekSendQueue
  <2>2. PICK b \in BOOLEAN : want_to_write' = [want_to_write EXCEPT ![e] = b]
    BY <1>1 DEF PeekSendQueue
  <2>3. want_to_write' \in [Ends -> BOOLEAN]
    BY <2>2, Zenon DEF TypeOK
  <2>4. UNCHANGED <<io_thread_state, batch, mainVars, queueVars, readVars, socketVars, pipeVars>>
    BY <1>1 DEF PeekSendQueue
  <2> QED BY <2>1, <2>3, <2>4, GotoType
       DEF TypeOK, mainVars, queueVars, readVars, socketVars, pipeVars
<1>2. CASE LoadState(e)
  <2>1. Goto(e, "finish") \/ Goto(e, "poll")
    BY <1>2 DEF LoadState
  <2>2. io_thread_state' \in [Ends -> {"Running", "SendPendingMessagesAndStop", "Stopped"}]
    BY <1>2 DEF LoadState, SetState, TypeOK
  <2>3. UNCHANGED <<want_to_write, batch, mainVars, queueVars, readVars, socketVars, pipeVars>>
    BY <1>2 DEF LoadState
  <2> QED BY <2>1, <2>2, <2>3, GotoType
       DEF TypeOK, mainVars, queueVars, readVars, socketVars, pipeVars
<1>3. CASE Poll(e)
  <2>1. io' = [io EXCEPT ![e] = "read"] /\ revents' = [revents EXCEPT ![e] = Ready(e)]
    BY <1>3 DEF Poll
  <2>2. Ready(e) \in SUBSET {"IN", "HUP", "OUT", "WAKEUP"}
    BY DEF Ready
  <2>3. /\ io' \in [Ends -> {"top", "load", "poll", "read", "deliver", "eof", "hup", "write",
                             "finish", "done", "crashed"}]
        /\ revents' \in [Ends -> SUBSET {"IN", "HUP", "OUT", "WAKEUP"}]
    BY <2>1, <2>2 DEF TypeOK
  <2>4. want_to_write' = [want_to_write EXCEPT ![e] = FALSE]
    BY <1>3 DEF Poll
  <2>5. want_to_write' \in [Ends -> BOOLEAN]
    BY <2>4, Zenon DEF TypeOK
  <2>6. UNCHANGED <<io_thread_state, batch, mainVars, queueVars, readVars, socketVars, pipeVars>>
    BY <1>3 DEF Poll
  <2> QED BY <2>3, <2>5, <2>6 DEF TypeOK, mainVars, queueVars, readVars, socketVars, pipeVars
<1>4. CASE DeliverBatch(e)
  <2>1. PICK place \in {"eof", "hup", "write", "top"} : Goto(e, place)
    BY <1>4, PlaceAfterRead DEF DeliverBatch, AfterBatch
  <2>2. Broadcast(e)
    BY <1>4 DEF DeliverBatch
  <2>3. incoming[e] \o batch[e] \in Seq(Delivered) /\ << >> \in Seq(Delivered)
    BY ConcatProperties DEF TypeOK
  <2>4. incoming' \in [Ends -> Seq(Delivered)] /\ batch' \in [Ends -> Seq(Delivered)]
    BY <1>4, <2>3, SeqUpdate DEF DeliverBatch, TypeOK
  <2>5. notified' \in SUBSET Ends
    BY <1>4 DEF DeliverBatch, TypeOK
  <2>6. UNCHANGED <<io_thread_state, want_to_write, shutting_down, posted, received, queueVars,
                    unprocessed_bytes, unprocessed_fds, peer_eof, socketVars, wakeup>>
    BY <1>4 DEF DeliverBatch
  <2> QED BY <2>1, <2>2, <2>4, <2>5, <2>6, GotoType, BroadcastType
       DEF TypeOK, queueVars, socketVars
<1>5. CASE NotifyOfEof(e)
  <2>1. PICK place \in {"hup", "write", "top"} : Goto(e, place)
    BY <1>5, PlaceAfterRead DEF NotifyOfEof
  <2>2. Broadcast(e)
    BY <1>5 DEF NotifyOfEof
  <2>3. notified' \in SUBSET Ends
    BY <1>5 DEF NotifyOfEof, TypeOK
  <2>4. UNCHANGED <<io_thread_state, want_to_write, batch, shutting_down, posted, received,
                    queueVars, readVars, socketVars, wakeup>>
    BY <1>5 DEF NotifyOfEof
  <2> QED BY <2>1, <2>2, <2>3, <2>4, GotoType, BroadcastType
       DEF TypeOK, queueVars, readVars, socketVars
<1>6. CASE CheckHangup(e)
  <2>1. Goto(e, "finish")
    BY <1>6 DEF CheckHangup
  <2>2. io_thread_state' \in [Ends -> {"Running", "SendPendingMessagesAndStop", "Stopped"}]
    BY <1>6 DEF CheckHangup, SetState, TypeOK
  <2>3. UNCHANGED <<want_to_write, batch, mainVars, queueVars, readVars, socketVars, pipeVars>>
    BY <1>6 DEF CheckHangup
  <2> QED BY <2>1, <2>2, <2>3, GotoType
       DEF TypeOK, mainVars, queueVars, readVars, socketVars, pipeVars
<1>7. CASE FinishThread(e)
  <2>1. Goto(e, "done") \/ Goto(e, "crashed")
    BY <1>7 DEF FinishThread
  <2>2. main' \in [Ends -> {"idle", "posting", "check", "locked", "waiting", "drain", "eof",
                            "call", "joining", "flushing", "closed", "dead"}]
    <3>1. CASE Broadcast(e)
      BY <3>1, BroadcastType
    <3>2. CASE main' = [main EXCEPT ![e] = "dead"]
      BY <3>2 DEF TypeOK
    <3> QED BY <1>7, <3>1, <3>2 DEF FinishThread
  <2>3. peer_eof' \in SUBSET Ends /\ open' \in SUBSET Ends
    BY <1>7 DEF FinishThread, TypeOK
  <2>4. UNCHANGED <<io_thread_state, want_to_write, batch, shutting_down, posted,
                    received, queueVars, unprocessed_bytes, unprocessed_fds, incoming, wire,
                    wire_fds, pipeVars>>
    BY <1>7 DEF FinishThread
  <2> QED BY <2>1, <2>2, <2>3, <2>4, GotoType DEF TypeOK, queueVars, pipeVars
<1> QED BY <1>1, <1>2, <1>3, <1>4, <1>5, <1>6, <1>7 DEF IOThread

(* No more is posted than there is to post.                                *)
PostedFromOutbox ==
    \A e \in Ends : /\ posted[e] <= Len(Outbox[e])
                    /\ main[e] = "posting" => posted[e] < Len(Outbox[e])

(* The message to post is one of the outbox.                               *)
LEMMA NextToPostType ==
    ASSUME TypeOK, NEW e \in Ends, posted[e] < Len(Outbox[e])
    PROVE  /\ Outbox[e] \in Seq(Messages) /\ Len(Outbox[e]) \in Nat /\ posted[e] \in Nat
           /\ posted[e] + 1 \in 1..Len(Outbox[e])
           /\ NextToPost(e) \in Messages
<1>1. Outbox[e] \in Seq(Messages) /\ posted[e] \in Nat
  BY TransportAssumption DEF TypeOK
<1>2. Len(Outbox[e]) \in Nat
  BY <1>1, LenProperties
<1>3. posted[e] + 1 \in 1..Len(Outbox[e])
  BY <1>1, <1>2
<1>4. Outbox[e][posted[e] + 1] \in Messages
  BY <1>1, <1>3, ElementOfSeq
<1> QED BY <1>1, <1>2, <1>3, <1>4 DEF NextToPost

(* The places of the main thread.                                          *)
Places == {"idle", "posting", "check", "locked", "waiting", "drain", "eof", "call", "joining",
           "flushing", "closed", "dead"}

(* The main thread goes on, and changes nothing else.                      *)
LEMMA MainGoesToType ==
    ASSUME TypeOK, NEW e \in Ends, NEW place \in Places, MainGoesTo(e, place)
    PROVE  TypeOK'
<1>1. main' \in [Ends -> Places]
  BY DEF MainGoesTo, TypeOK, Places
<1>2. UNCHANGED <<threadVars, shutting_down, posted, received, queueVars, readVars, socketVars,
                  pipeVars>>
  BY DEF MainGoesTo
<1> QED BY <1>1, <1>2
     DEF TypeOK, Places, threadVars, queueVars, readVars, socketVars, pipeVars

(* wait_until_readable looks at the queue.                                 *)
LEMMA CheckReadableType ==
    ASSUME TypeOK, NEW e \in Ends, CheckReadable(e)
    PROVE  TypeOK'
<1>1. PICK place \in {"locked", "drain"} : MainGoesTo(e, place)
  BY DEF CheckReadable
<1> QED BY <1>1, MainGoesToType DEF Places

(* The main thread takes the messages that are there.                      *)
LEMMA TakeMessagesType ==
    ASSUME TypeOK, NEW e \in Ends, TakeMessages(e)
    PROVE  received' \in [Ends -> Seq(Delivered)] /\ incoming' \in [Ends -> Seq(Delivered)]
<1>1. received[e] \o incoming[e] \in Seq(Delivered) /\ << >> \in Seq(Delivered)
  BY ConcatProperties DEF TypeOK
<1> QED BY <1>1, SeqUpdate DEF TakeMessages, TypeOK

(* stop_io_thread.                                                         *)
LEMMA StopIOThreadType ==
    ASSUME TypeOK, NEW e \in Ends, NEW s \in {"Stopped", "SendPendingMessagesAndStop"},
           NEW place \in Places, stop_io_thread(e, s, place)
    PROVE  /\ io_thread_state' \in [Ends -> {"Running", "SendPendingMessagesAndStop", "Stopped"}]
           /\ main' \in [Ends -> Places]
           /\ wakeup' \in SUBSET Ends
BY DEF TypeOK, Places, stop_io_thread, SetState, wake_io_thread

(* A close, and a shutdown.                                                *)
LEMMA StopType ==
    ASSUME TypeOK, NEW e \in Ends, NEW s \in {"Stopped", "SendPendingMessagesAndStop"},
           NEW place \in Places, Stop(e, s, place), shutting_down' \in SUBSET Ends
    PROVE  TypeOK'
<1>1. stop_io_thread(e, s, place)
  BY DEF Stop
<1>2. UNCHANGED <<io, want_to_write, revents, batch, posted, received, queueVars, readVars,
                  socketVars, notified>>
  BY DEF Stop
<1>3. /\ io_thread_state' \in [Ends -> {"Running", "SendPendingMessagesAndStop", "Stopped"}]
      /\ main' \in [Ends -> Places] /\ wakeup' \in SUBSET Ends
  BY <1>1, StopIOThreadType
<1>4. /\ stream' = stream /\ fds' = fds /\ retained' = retained
      /\ unprocessed_bytes' = unprocessed_bytes /\ unprocessed_fds' = unprocessed_fds
      /\ incoming' = incoming /\ peer_eof' = peer_eof
      /\ wire' = wire /\ wire_fds' = wire_fds /\ open' = open /\ notified' = notified
  BY <1>2 DEF queueVars, readVars, socketVars
<1> QED BY <1>2, <1>3, <1>4 DEF TypeOK, Places

(* The steps of the main thread keep the types.                            *)
LEMMA MainType ==
    ASSUME TypeOK, PostedFromOutbox, NEW e \in Ends, MainThread(e) \/ Owner(e)
    PROVE  TypeOK'
<1>1. CASE post_message(e)
  <2>1. posted[e] < Len(Outbox[e])
    BY <1>1 DEF post_message, PostedFromOutbox
  <2>2. NextToPost(e) \in Messages /\ posted[e] \in Nat
    BY <2>1, NextToPostType
  <2>3. PICK m \in Messages : m = NextToPost(e)
    BY <2>2
  <2>4. Encoded(m) \in Seq(Units)
    BY DEF Encoded, Units
  <2>5. Descriptors(m) \in Seq(Fds)
    BY DescriptorsType
  <2>6. stream[e] \o Encoded(m) \in Seq(Units) /\ fds[e] \o Descriptors(m) \in Seq(Fds)
    BY <2>4, <2>5, ConcatProperties DEF TypeOK
  <2>7. /\ stream' = [stream EXCEPT ![e] = stream[e] \o Encoded(m)]
        /\ fds' = [fds EXCEPT ![e] = fds[e] \o Descriptors(m)]
    BY <1>1, <2>3 DEF post_message, enqueue_message
  <2>8. stream' \in [Ends -> Seq(Units)] /\ fds' \in [Ends -> Seq(Fds)]
    BY <2>6, <2>7, SeqUpdate DEF TypeOK
  <2>9. /\ posted' \in [Ends -> Nat] /\ main' \in [Ends -> Places]
        /\ wakeup' \in SUBSET Ends
    BY <1>1, <2>2 DEF post_message, wake_io_thread, TypeOK, Places
  <2>10. UNCHANGED <<threadVars, shutting_down, received, retained, readVars, socketVars, notified>>
    BY <1>1 DEF post_message
  <2> QED BY <2>8, <2>9, <2>10 DEF TypeOK, Places, threadVars, readVars, socketVars
<1>2. CASE CheckAgain(e)
  BY <1>2, CheckReadableType DEF CheckAgain
<1>3. CASE Wait(e)
  BY <1>3, MainGoesToType DEF Wait, Places
<1>4. CASE ReadHook(e)
  <2>1. TakeMessages(e)
    BY <1>4 DEF ReadHook
  <2>2. main' \in [Ends -> Places] /\ notified' \in SUBSET Ends
    BY <1>4 DEF ReadHook, TypeOK, Places
  <2>3. UNCHANGED <<threadVars, shutting_down, posted, queueVars, unprocessed_bytes,
                    unprocessed_fds, peer_eof, socketVars, wakeup>>
    BY <1>4 DEF ReadHook
  <2> QED BY <2>1, <2>2, <2>3, TakeMessagesType
       DEF TypeOK, Places, threadVars, queueVars, socketVars
<1>5. CASE EndHook(e)
  <2>1. main' \in [Ends -> Places] /\ shutting_down' \in SUBSET Ends
    BY <1>5 DEF EndHook, ScheduleShutdown, TypeOK, Places
  <2>2. UNCHANGED <<threadVars, posted, received, queueVars, readVars, socketVars, pipeVars>>
    BY <1>5 DEF EndHook
  <2> QED BY <2>1, <2>2
       DEF TypeOK, Places, threadVars, queueVars, readVars, socketVars, pipeVars
<1>6. CASE DrainInCall(e)
  <2>1. TakeMessages(e)
    BY <1>6 DEF DrainInCall
  <2>2. main' \in [Ends -> Places]
    BY <1>6 DEF DrainInCall, TypeOK, Places
  <2>3. UNCHANGED <<threadVars, shutting_down, posted, queueVars, unprocessed_bytes,
                    unprocessed_fds, peer_eof, socketVars, pipeVars>>
    BY <1>6 DEF DrainInCall
  <2> QED BY <2>1, <2>2, <2>3, TakeMessagesType
       DEF TypeOK, Places, threadVars, queueVars, socketVars, pipeVars
<1>7. CASE EndOrRepeatCall(e)
  <2>1. shutting_down' \in SUBSET Ends
    BY <1>7 DEF EndOrRepeatCall, ScheduleShutdown, TypeOK
  <2>2. /\ io_thread_state' \in [Ends -> {"Running", "SendPendingMessagesAndStop", "Stopped"}]
        /\ main' \in [Ends -> Places]
        /\ wakeup' \in SUBSET Ends
    <3>1. CASE stop_io_thread(e, "Stopped", "joining")
      BY <3>1, StopIOThreadType DEF Places
    <3>2. CASE /\ main' = [main EXCEPT ![e] = "idle"] \/ main' = [main EXCEPT ![e] = "check"]
               /\ UNCHANGED <<io_thread_state, wakeup>>
      BY <3>2 DEF TypeOK, Places
    <3> QED BY <1>7, <3>1, <3>2 DEF EndOrRepeatCall
  <2>3. UNCHANGED <<io, want_to_write, revents, batch, posted, received, queueVars, readVars,
                    socketVars, notified>>
    BY <1>7 DEF EndOrRepeatCall
  <2> QED BY <2>1, <2>2, <2>3 DEF TypeOK, Places, queueVars, readVars, socketVars
<1>8. CASE shutdown(e)
  <2>1. shutting_down' \in SUBSET Ends /\ Stop(e, "Stopped", "joining")
    BY <1>8 DEF shutdown, TypeOK
  <2> QED BY <2>1, StopType DEF Places
<1>9. CASE Joined(e)
  <2>1. main' \in [Ends -> Places] /\ open' \in SUBSET Ends
    BY <1>9 DEF Joined, TypeOK, Places
  <2>2. UNCHANGED <<threadVars, shutting_down, posted, received, queueVars, readVars, wire,
                    wire_fds, pipeVars>>
    BY <1>9 DEF Joined
  <2> QED BY <2>1, <2>2 DEF TypeOK, Places, threadVars, queueVars, readVars, pipeVars
<1>10. CASE RetainDescriptors(e)
  <2>1. NextToPost(e) \in Messages
    BY <1>10, NextToPostType DEF RetainDescriptors
  <2>2. Descriptors(NextToPost(e)) \in Seq(Fds)
    BY <2>1, DescriptorsType
  <2>3. retained[e] \o Descriptors(NextToPost(e)) \in Seq(Fds)
    BY <2>2, ConcatProperties DEF TypeOK
  <2>4. retained' \in [Ends -> Seq(Fds)]
    BY <1>10, <2>3, SeqUpdate DEF RetainDescriptors, TypeOK
  <2>5. main' \in [Ends -> Places]
    BY <1>10 DEF RetainDescriptors, TypeOK, Places
  <2>6. UNCHANGED <<threadVars, shutting_down, posted, received, stream, fds, readVars,
                    socketVars, pipeVars>>
    BY <1>10 DEF RetainDescriptors
  <2> QED BY <2>4, <2>5, <2>6 DEF TypeOK, Places, threadVars, readVars, socketVars, pipeVars
<1>11. CASE SyncCall(e)
  BY <1>11, CheckReadableType DEF SyncCall
<1>12. CASE close(e)
  <2>1. shutting_down' \in SUBSET Ends /\ Stop(e, "Stopped", "joining")
    BY <1>12 DEF close, TypeOK
  <2> QED BY <2>1, StopType DEF Places
<1>13. CASE close_after_sending_all_pending_messages(e)
  <2>1. /\ shutting_down' \in SUBSET Ends
        /\ Stop(e, "SendPendingMessagesAndStop", "flushing")
    BY <1>13 DEF close_after_sending_all_pending_messages, TypeOK
  <2> QED BY <2>1, StopType DEF Places
<1> QED BY <1>1, <1>2, <1>3, <1>4, <1>5, <1>6, <1>7, <1>8, <1>9, <1>10, <1>11, <1>12, <1>13
     DEF MainThread, Owner

-----------------------------------------------------------------------------
(***************************************************************************)
(* The invariant.  The descriptors on their way, wherever they are, are    *)
(* those of the messages whose payload is on its way, in the same order,   *)
(* although the two travel apart: that is what makes it right to give      *)
(* every message the next descriptors of the queue.                        *)
(***************************************************************************)
QueuedFds(e) == unprocessed_fds[Peer[e]] \o wire_fds[e] \o fds[e]

(* The descriptors on their way from e are those of the messages on their  *)
(* way from e.                                                             *)
DescriptorsFollow == \A e \in Ends : Owned(MessagesIn[UnderWay(e)], QueuedFds(e))

(* A batch is handed over before another one is read.                      *)
BatchInDelivery == \A e \in Ends : io[e] # "deliver" => batch[e] = << >>

(* The inductive invariant.                                                *)
IInv ==
    /\ TypeOK
    /\ StoppedUnlessFlushing
    /\ PostedFromOutbox
    /\ BatchInDelivery
    /\ InOrder
    /\ DescriptorsFollow
    /\ RetainedUntilReceived

(* What has come, is on its way and is queued, for the sender e.           *)
LEMMA FlowType ==
    ASSUME TypeOK, NEW e \in Ends
    PROVE  /\ Arrived(e) \in Seq(Delivered)
           /\ UnderWay(e) \in Seq(Units)
           /\ QueuedFds(e) \in Seq(Fds)
<1>1. Peer[e] \in Ends
  BY PeerType
<1>2. \A x, y, z \in Seq(Delivered) : x \o y \o z \in Seq(Delivered)
  BY ConcatProperties
<1>3. \A x, y, z \in Seq(Units) : x \o y \o z \in Seq(Units)
  BY ConcatProperties
<1>4. \A x, y, z \in Seq(Fds) : x \o y \o z \in Seq(Fds)
  BY ConcatProperties
<1>5. Arrived(e) \in Seq(Delivered)
  <2>1. /\ received[Peer[e]] \in Seq(Delivered) /\ incoming[Peer[e]] \in Seq(Delivered)
        /\ batch[Peer[e]] \in Seq(Delivered)
    BY <1>1 DEF TypeOK
  <2> QED BY <1>2, <2>1 DEF Arrived
<1>6. UnderWay(e) \in Seq(Units)
  <2>1. /\ unprocessed_bytes[Peer[e]] \in Seq(Units) /\ wire[e] \in Seq(Units)
        /\ stream[e] \in Seq(Units)
    BY <1>1 DEF TypeOK
  <2> QED BY <1>3, <2>1 DEF UnderWay
<1>7. QueuedFds(e) \in Seq(Fds)
  <2>1. /\ unprocessed_fds[Peer[e]] \in Seq(Fds) /\ wire_fds[e] \in Seq(Fds)
        /\ fds[e] \in Seq(Fds)
    BY <1>1 DEF TypeOK
  <2> QED BY <1>4, <2>1 DEF QueuedFds
<1> QED BY <1>5, <1>6, <1>7

(* A step that leaves what has come, is under way and is queued as it is. *)
SameFlow ==
    /\ \A q \in Ends : /\ Arrived(q)' = Arrived(q)
                       /\ UnderWay(q)' = UnderWay(q)
                       /\ QueuedFds(q)' = QueuedFds(q)
    /\ UNCHANGED posted

(* It keeps what is said of them.                                          *)
LEMMA SameFlowKeeps ==
    ASSUME InOrder, DescriptorsFollow, SameFlow
    PROVE  InOrder' /\ DescriptorsFollow'
<1>1. InOrder'
  <2> SUFFICES ASSUME NEW q \in Ends
               PROVE  /\ [i \in DOMAIN Arrived(q)' |-> (Arrived(q)')[i].msg]
                            \o MessagesIn[UnderWay(q)'] = Posted(q)'
                      /\ \A i \in DOMAIN Arrived(q)' :
                            (Arrived(q)')[i].fds = Descriptors((Arrived(q)')[i].msg)
    BY DEF InOrder
  <2>1. Arrived(q)' = Arrived(q) /\ UnderWay(q)' = UnderWay(q) /\ Posted(q)' = Posted(q)
    BY DEF SameFlow, Posted
  <2>2. /\ [i \in DOMAIN Arrived(q) |-> Arrived(q)[i].msg] \o MessagesIn[UnderWay(q)] = Posted(q)
        /\ \A i \in DOMAIN Arrived(q) : Arrived(q)[i].fds = Descriptors(Arrived(q)[i].msg)
    BY DEF InOrder
  <2> QED BY <2>1, <2>2
<1>2. DescriptorsFollow'
  <2> SUFFICES ASSUME NEW q \in Ends
               PROVE  Owned(MessagesIn[UnderWay(q)'], QueuedFds(q)')
    BY DEF DescriptorsFollow
  <2>1. UnderWay(q)' = UnderWay(q) /\ QueuedFds(q)' = QueuedFds(q)
    BY DEF SameFlow
  <2> QED BY <2>1 DEF DescriptorsFollow
<1> QED BY <1>1, <1>2

(* A step is calm when it neither posts nor reads: it may move messages    *)
(* and descriptors on, but not past each other.                            *)
Calm ==
    /\ \A q \in Ends : /\ Arrived(q)' = Arrived(q)
                       /\ UnderWay(q)' = UnderWay(q)
                       /\ QueuedFds(q)' = QueuedFds(q)
                       /\ main'[q] = "posting" <=> main[q] = "posting"
    /\ UNCHANGED <<retained, posted>>
    /\ BatchInDelivery'

(* Such a step keeps the invariant.                                        *)
LEMMA CalmKeeps ==
    ASSUME IInv, Calm
    PROVE  /\ PostedFromOutbox' /\ BatchInDelivery' /\ InOrder' /\ DescriptorsFollow'
           /\ RetainedUntilReceived'
<1>1. PostedFromOutbox'
  BY DEF IInv, Calm, PostedFromOutbox
<1>2. InOrder' /\ DescriptorsFollow'
  <2>1. InOrder /\ DescriptorsFollow /\ SameFlow
    BY DEF IInv, Calm, SameFlow
  <2> QED BY <2>1, SameFlowKeeps
<1>4. RetainedUntilReceived'
  <2> SUFFICES ASSUME NEW q \in Ends
               PROVE  /\ AcknowledgedIn[UnderWay(Peer[q])'] <= Len(retained'[q])
                      /\ Drop(retained'[q], AcknowledgedIn[UnderWay(Peer[q])'])
                            = QueuedFds(q)' \o BeingPosted(q)'
    BY DEF RetainedUntilReceived, QueuedFds
  <2>1. /\ UnderWay(Peer[q])' = UnderWay(Peer[q]) /\ QueuedFds(q)' = QueuedFds(q)
        /\ retained' = retained
    BY PeerType DEF Calm
  <2>2. BeingPosted(q)' = BeingPosted(q)
    BY DEF Calm, BeingPosted, NextToPost
  <2>3. /\ AcknowledgedIn[UnderWay(Peer[q])] <= Len(retained[q])
        /\ Drop(retained[q], AcknowledgedIn[UnderWay(Peer[q])])
              = QueuedFds(q) \o BeingPosted(q)
    BY DEF IInv, RetainedUntilReceived, QueuedFds
  <2> QED BY <2>1, <2>2, <2>3
<1> QED BY <1>1, <1>2, <1>4 DEF Calm

(* A step that moves nothing at all.                                       *)
Still ==
    /\ UNCHANGED <<received, incoming, batch, stream, fds, retained, unprocessed_bytes,
                   unprocessed_fds, wire, wire_fds, posted>>
    /\ \A q \in Ends : /\ main'[q] = "posting" <=> main[q] = "posting"
                       /\ io[q] = "deliver" => io'[q] = "deliver"

(* A step that touches no queue is one.                                    *)
LEMMA StillIsCalm ==
    ASSUME IInv, Still
    PROVE  Calm
<1>1. BatchInDelivery'
  BY DEF IInv, Still, BatchInDelivery
<1>2. ASSUME NEW q \in Ends
      PROVE  /\ Arrived(q)' = Arrived(q)
             /\ UnderWay(q)' = UnderWay(q)
             /\ QueuedFds(q)' = QueuedFds(q)
             /\ main'[q] = "posting" <=> main[q] = "posting"
  BY DEF Still, Arrived, UnderWay, QueuedFds
<1> QED BY <1>1, <1>2 DEF Calm, Still

(* Polling, waiting, waking and closing touch no queue.                    *)
LEMMA StillSteps ==
    ASSUME TypeOK, StoppedUnlessFlushing, NEW e \in Ends,
           \/ PeekSendQueue(e) \/ LoadState(e) \/ Poll(e) \/ NotifyOfEof(e)
           \/ CheckHangup(e) \/ FinishThread(e)
           \/ CheckAgain(e) \/ Wait(e) \/ EndHook(e) \/ EndOrRepeatCall(e)
           \/ shutdown(e) \/ Joined(e) \/ SyncCall(e) \/ close(e)
           \/ close_after_sending_all_pending_messages(e)
    PROVE  Still
<1> USE DEF Still, TypeOK, Goto, threadVars, mainVars, queueVars, readVars, socketVars, pipeVars
<1>1. CASE PeekSendQueue(e)
  BY <1>1 DEF PeekSendQueue
<1>2. CASE LoadState(e)
  BY <1>2 DEF LoadState
<1>3. CASE Poll(e)
  BY <1>3 DEF Poll
<1>4. CASE NotifyOfEof(e)
  <2>1. \A q \in Ends : main'[q] = "posting" <=> main[q] = "posting"
    BY <1>4 DEF NotifyOfEof, Broadcast, Woken
  <2>2. \A q \in Ends : io[q] = "deliver" => io'[q] = "deliver"
    BY <1>4 DEF NotifyOfEof
  <2> QED BY <1>4, <2>1, <2>2 DEF NotifyOfEof
<1>5. CASE CheckHangup(e)
  BY <1>5 DEF CheckHangup
<1>6. CASE FinishThread(e)
  <2>1. \A q \in Ends : main'[q] = "posting" <=> main[q] = "posting"
    <3>1. CASE Broadcast(e)
      BY <3>1 DEF Broadcast, Woken
    <3>2. CASE io_thread_state[e] # "Stopped" /\ main' = [main EXCEPT ![e] = "dead"]
      <4>1. main[e] = "flushing"
        BY <1>6, <3>2 DEF StoppedUnlessFlushing, FinishThread
      <4> QED BY <3>2, <4>1
    <3> QED BY <1>6, <3>1, <3>2 DEF FinishThread
  <2>2. \A q \in Ends : io[q] = "deliver" => io'[q] = "deliver"
    BY <1>6 DEF FinishThread
  <2> QED BY <1>6, <2>1, <2>2 DEF FinishThread
<1>7. CASE CheckAgain(e)
  BY <1>7 DEF CheckAgain, CheckReadable, MainGoesTo
<1>8. CASE Wait(e)
  BY <1>8 DEF Wait, MainGoesTo
<1>9. CASE EndHook(e)
  BY <1>9 DEF EndHook
<1>10. CASE EndOrRepeatCall(e)
  BY <1>10 DEF EndOrRepeatCall, stop_io_thread
<1>11. CASE shutdown(e)
  BY <1>11 DEF shutdown, Stop, stop_io_thread
<1>12. CASE Joined(e)
  BY <1>12 DEF Joined
<1>13. CASE SyncCall(e)
  BY <1>13 DEF SyncCall, CheckReadable, MainGoesTo
<1>14. CASE close(e)
  BY <1>14 DEF close, Stop, stop_io_thread
<1>15. CASE close_after_sending_all_pending_messages(e)
  BY <1>15 DEF close_after_sending_all_pending_messages, Stop, stop_io_thread
<1> QED BY <1>1, <1>2, <1>3, <1>4, <1>5, <1>6, <1>7, <1>8, <1>9, <1>10, <1>11, <1>12, <1>13,
         <1>14, <1>15

(* Messages that are handed over or taken are moved on in their order.     *)
LEMMA HandingOverIsCalm ==
    ASSUME IInv, NEW e \in Ends, DeliverBatch(e)
    PROVE  Calm
<1> USE DEF IInv
<1>1. /\ incoming' = [incoming EXCEPT ![e] = incoming[e] \o batch[e]]
      /\ batch' = [batch EXCEPT ![e] = << >>]
      /\ UNCHANGED <<received, stream, fds, retained, unprocessed_bytes, unprocessed_fds, wire,
                     wire_fds, posted>>
  BY DEF DeliverBatch, queueVars, socketVars
<1>2. \A q \in Ends : main'[q] = "posting" <=> main[q] = "posting"
  BY DEF DeliverBatch, Broadcast, Woken, TypeOK
<1>3. BatchInDelivery'
  <2>1. \A q \in Ends \ {e} : io'[q] = io[q]
    BY DEF DeliverBatch, Goto, TypeOK
  <2>2. batch'[e] = << >> /\ \A q \in Ends \ {e} : batch'[q] = batch[q]
    BY <1>1 DEF TypeOK
  <2> QED BY <2>1, <2>2 DEF BatchInDelivery
<1>4. ASSUME NEW q \in Ends PROVE Arrived(q)' = Arrived(q)
  <2>1. CASE Peer[q] = e
    <3>1. PICK r \in Seq(Delivered) : r = received[e]
      BY DEF TypeOK
    <3>2. PICK i \in Seq(Delivered) : i = incoming[e]
      BY DEF TypeOK
    <3>3. PICK b \in Seq(Delivered) : b = batch[e]
      BY DEF TypeOK
    <3>4. r \o (i \o b) \o << >> = r \o i \o b
      <4>1. r \o (i \o b) = r \o i \o b
        BY ConcatAssociative
      <4>2. r \o (i \o b) \in Seq(Delivered)
        BY ConcatProperties
      <4> QED BY <4>1, <4>2, ConcatEmptySeq
    <3>5. received'[e] = r /\ incoming'[e] = i \o b /\ batch'[e] = << >>
      BY <1>1, <3>1, <3>2, <3>3 DEF TypeOK
    <3> QED BY <2>1, <3>1, <3>2, <3>3, <3>4, <3>5 DEF Arrived
  <2>2. CASE Peer[q] # e
    <3>1. incoming'[Peer[q]] = incoming[Peer[q]] /\ batch'[Peer[q]] = batch[Peer[q]]
      BY <1>1, <2>2, PeerType DEF TypeOK
    <3> QED BY <1>1, <3>1 DEF Arrived
  <2> QED BY <2>1, <2>2
<1>5. \A q \in Ends : UnderWay(q)' = UnderWay(q) /\ QueuedFds(q)' = QueuedFds(q)
  BY <1>1 DEF UnderWay, QueuedFds
<1> QED BY <1>1, <1>2, <1>3, <1>4, <1>5 DEF Calm

(* What the main thread takes from its queue, it has got.                  *)
LEMMA TakingIsCalm ==
    ASSUME IInv, NEW e \in Ends, ReadHook(e) \/ DrainInCall(e)
    PROVE  Calm
<1> USE DEF IInv
<1>1. /\ received' = [received EXCEPT ![e] = received[e] \o incoming[e]]
      /\ incoming' = [incoming EXCEPT ![e] = << >>]
      /\ UNCHANGED <<io, batch, stream, fds, retained, unprocessed_bytes, unprocessed_fds, wire,
                     wire_fds, posted>>
  BY DEF ReadHook, DrainInCall, TakeMessages, threadVars, queueVars, socketVars
<1>2. \A q \in Ends : main'[q] = "posting" <=> main[q] = "posting"
  BY DEF ReadHook, DrainInCall, TypeOK
<1>3. BatchInDelivery'
  BY <1>1 DEF BatchInDelivery
<1>4. ASSUME NEW q \in Ends PROVE Arrived(q)' = Arrived(q)
  <2>1. CASE Peer[q] = e
    <3>1. PICK r \in Seq(Delivered) : r = received[e]
      BY DEF TypeOK
    <3>2. PICK i \in Seq(Delivered) : i = incoming[e]
      BY DEF TypeOK
    <3>3. r \o i \o << >> = r \o i
      BY ConcatProperties, ConcatEmptySeq
    <3>4. received'[e] = r \o i /\ incoming'[e] = << >> /\ batch'[e] = batch[e]
      BY <1>1, <3>1, <3>2 DEF TypeOK
    <3> QED BY <2>1, <3>1, <3>2, <3>3, <3>4 DEF Arrived
  <2>2. CASE Peer[q] # e
    <3>1. received'[Peer[q]] = received[Peer[q]] /\ incoming'[Peer[q]] = incoming[Peer[q]]
      BY <1>1, <2>2, PeerType DEF TypeOK
    <3> QED BY <1>1, <3>1 DEF Arrived
  <2> QED BY <2>1, <2>2
<1>5. \A q \in Ends : UnderWay(q)' = UnderWay(q) /\ QueuedFds(q)' = QueuedFds(q)
  BY <1>1 DEF UnderWay, QueuedFds
<1> QED BY <1>1, <1>2, <1>3, <1>4, <1>5 DEF Calm

(* Concatenation as an operator that is not expanded, so that the provers  *)
(* use no more of it than that it is associative.                          *)
Cat(x, y) == x \o y

(* Concatenation is associative, and the empty sequence its unit.          *)
LEMMA CatLaws ==
    ASSUME NEW S
    PROVE  /\ \A x, y \in Seq(S) : Cat(x, y) \in Seq(S)
           /\ \A x, y, z \in Seq(S) : Cat(Cat(x, y), z) = Cat(x, Cat(y, z))
           /\ << >> \in Seq(S)
           /\ \A x \in Seq(S) : Cat(x, << >>) = x /\ Cat(<< >>, x) = x
<1>1. \A x, y \in Seq(S) : Cat(x, y) \in Seq(S)
  BY ConcatProperties DEF Cat
<1>2. \A x, y, z \in Seq(S) : Cat(Cat(x, y), z) = Cat(x, Cat(y, z))
  BY ConcatAssociative DEF Cat
<1>3. << >> \in Seq(S)
  OBVIOUS
<1>4. \A x \in Seq(S) : Cat(x, << >>) = x /\ Cat(<< >>, x) = x
  BY ConcatEmptySeq DEF Cat
<1> QED BY <1>1, <1>2, <1>3, <1>4

(* What is written goes from the send queue to the socket.                 *)
LEMMA MoveFront ==
    ASSUME NEW S
    PROVE  \A p, w, f, r \in Seq(S) :
              Cat(Cat(p, Cat(w, f)), r) = Cat(Cat(p, w), Cat(f, r))
<1>1. /\ \A x, y \in Seq(S) : Cat(x, y) \in Seq(S)
      /\ \A x, y, z \in Seq(S) : Cat(Cat(x, y), z) = Cat(x, Cat(y, z))
  BY CatLaws
<1> QED BY <1>1

(* transfer_data moves bytes and descriptors from the send queue to the    *)
(* socket, however few of them: they are on their way before and after.    *)
LEMMA WritingIsCalm ==
    ASSUME IInv, NEW e \in Ends, transfer_data(e)
    PROVE  Calm /\ TypeOK'
<1> USE DEF IInv
<1>1. /\ UNCHANGED <<received, incoming, batch, retained, unprocessed_bytes, unprocessed_fds,
                     posted, main>>
      /\ UNCHANGED <<want_to_write, shutting_down, peer_eof, open, wakeup, notified>>
      /\ io[e] = "write" /\ Goto(e, "top")
      /\ io_thread_state' \in [Ends -> {"Running", "SendPendingMessagesAndStop", "Stopped"}]
  BY DEF transfer_data, mainVars, readVars, pipeVars, SetState, TypeOK
<1>2. BatchInDelivery'
  BY <1>1 DEF BatchInDelivery, Goto, TypeOK
<1>3. \A q \in Ends : Arrived(q)' = Arrived(q)
  BY <1>1 DEF Arrived
<1>4. CASE UNCHANGED <<stream, fds, wire, wire_fds>>
  <2>1. \A q \in Ends : UnderWay(q)' = UnderWay(q) /\ QueuedFds(q)' = QueuedFds(q)
    BY <1>1, <1>4 DEF UnderWay, QueuedFds
  <2>2. TypeOK'
    BY <1>1, <1>4, GotoType DEF TypeOK
  <2> QED BY <1>1, <1>2, <1>3, <2>1, <2>2 DEF Calm
<1>5. CASE \E n \in 1..Min({Len(stream[e]), Capacity - Len(wire[e])}) :
               LET k == Min({Len(fds[e]), MAX_TRANSFER_FDS})
               IN  /\ wire' = [wire EXCEPT ![e] = @ \o SubSeq(stream[e], 1, n)]
                   /\ wire_fds' = [wire_fds EXCEPT ![e] = @ \o SubSeq(fds[e], 1, k)]
                   /\ discard(e, n, k)
  <2>1. PICK s \in Seq(Units) : s = stream[e]
    BY DEF TypeOK
  <2>2. PICK f \in Seq(Fds) : f = fds[e]
    BY DEF TypeOK
  <2>3. PICK w \in Seq(Units) : w = wire[e]
    BY DEF TypeOK
  <2>4. PICK wf \in Seq(Fds) : wf = wire_fds[e]
    BY DEF TypeOK
  <2>5. PICK n \in 1..Min({Len(s), Capacity - Len(w)}) :
               LET k == Min({Len(f), MAX_TRANSFER_FDS})
               IN  /\ wire' = [wire EXCEPT ![e] = w \o SubSeq(s, 1, n)]
                   /\ wire_fds' = [wire_fds EXCEPT ![e] = wf \o SubSeq(f, 1, k)]
                   /\ stream' = [stream EXCEPT ![e] = Drop(s, n)]
                   /\ fds' = [fds EXCEPT ![e] = Drop(f, k)]
    BY <1>5, <2>1, <2>2, <2>3, <2>4 DEF discard
  <2>6. n \in 0..Len(s)
    <3>1. Len(s) \in Nat /\ Len(w) \in Nat /\ Capacity \in Nat
      BY LenProperties, TransportAssumption
    <3>2. PICK c \in Int : c = Capacity - Len(w)
      <4>1. Capacity - Len(w) \in Int
        BY <3>1
      <4> QED BY <4>1
    <3>3. n \in 1..Min({Len(s), c})
      BY <2>5, <3>2
    <3>4. Min({Len(s), c}) \in Int /\ Min({Len(s), c}) <= Len(s)
      <4>1. PICK l \in Int : l = Len(s)
        BY <3>1
      <4>2. Min({l, c}) \in Int /\ Min({l, c}) <= l
        BY MinOfTwo
      <4> QED BY <4>1, <4>2
    <3> QED BY <3>1, <3>3, <3>4
  <2>7. PICK k \in 0..Len(f) : k = Min({Len(f), MAX_TRANSFER_FDS})
    <3>1. Len(f) \in Nat /\ MAX_TRANSFER_FDS \in Nat
      BY LenProperties, TransportAssumption
    <3>2. PICK l \in Int : l = Len(f)
      BY <3>1
    <3>3. PICK c \in Int : c = MAX_TRANSFER_FDS
      BY <3>1
    <3>4. Min({l, c}) \in {l, c} /\ Min({l, c}) <= l
      BY MinOfTwo
    <3>5. PICK x \in {l, c} : x = Min({l, c}) /\ x <= l
      BY <3>4
    <3>6. x \in 0..Len(f)
      BY <3>1, <3>2, <3>3, <3>5
    <3> QED BY <3>2, <3>3, <3>5, <3>6
  <2>8. /\ wire' = [wire EXCEPT ![e] = w \o SubSeq(s, 1, n)]
        /\ wire_fds' = [wire_fds EXCEPT ![e] = wf \o SubSeq(f, 1, k)]
        /\ stream' = [stream EXCEPT ![e] = Drop(s, n)]
        /\ fds' = [fds EXCEPT ![e] = Drop(f, k)]
    BY <2>5, <2>7
  <2>9. /\ SubSeq(s, 1, n) \in Seq(Units) /\ Drop(s, n) \in Seq(Units)
        /\ SubSeq(f, 1, k) \in Seq(Fds) /\ Drop(f, k) \in Seq(Fds)
    BY <2>6, Cut
  <2>10. w \o SubSeq(s, 1, n) \in Seq(Units) /\ wf \o SubSeq(f, 1, k) \in Seq(Fds)
    BY <2>9, ConcatProperties
  <2>11. /\ wire' \in [Ends -> Seq(Units)] /\ wire_fds' \in [Ends -> Seq(Fds)]
         /\ stream' \in [Ends -> Seq(Units)] /\ fds' \in [Ends -> Seq(Fds)]
    BY <2>8, <2>9, <2>10, SeqUpdate DEF TypeOK
  <2>12. TypeOK'
    BY <1>1, <2>11, GotoType DEF TypeOK
  <2>13. ASSUME NEW q \in Ends
         PROVE  UnderWay(q)' = UnderWay(q) /\ QueuedFds(q)' = QueuedFds(q)
    <3>1. CASE q = e
      <4>1. PICK p \in Seq(Units) : p = unprocessed_bytes[Peer[e]]
        BY PeerType DEF TypeOK
      <4>2. PICK pf \in Seq(Fds) : pf = unprocessed_fds[Peer[e]]
        BY PeerType DEF TypeOK
      <4>3. /\ wire'[e] = w \o SubSeq(s, 1, n) /\ stream'[e] = Drop(s, n)
            /\ wire_fds'[e] = wf \o SubSeq(f, 1, k) /\ fds'[e] = Drop(f, k)
        BY <2>8 DEF TypeOK
      <4>4. p \o (w \o SubSeq(s, 1, n)) \o Drop(s, n) = p \o w \o s
        <5>1. PICK x \in Seq(Units) : x = SubSeq(s, 1, n)
          BY <2>9
        <5>2. PICK y \in Seq(Units) : y = Drop(s, n)
          BY <2>9
        <5>3. s = SubSeq(s, 1, n) \o Drop(s, n)
          BY <2>6, Cut
        <5>4. s = Cat(x, y)
          BY <5>1, <5>2, <5>3 DEF Cat
        <5>5. Cat(Cat(p, Cat(w, x)), y) = Cat(Cat(p, w), s)
          BY <5>4, MoveFront
        <5> QED BY <5>1, <5>2, <5>5 DEF Cat
      <4>5. pf \o (wf \o SubSeq(f, 1, k)) \o Drop(f, k) = pf \o wf \o f
        <5>1. PICK x \in Seq(Fds) : x = SubSeq(f, 1, k)
          BY <2>9
        <5>2. PICK y \in Seq(Fds) : y = Drop(f, k)
          BY <2>9
        <5>3. f = SubSeq(f, 1, k) \o Drop(f, k)
          BY Cut
        <5>4. f = Cat(x, y)
          BY <5>1, <5>2, <5>3 DEF Cat
        <5>5. Cat(Cat(pf, Cat(wf, x)), y) = Cat(Cat(pf, wf), f)
          BY <5>4, MoveFront
        <5> QED BY <5>1, <5>2, <5>5 DEF Cat
      <4>6. UnderWay(e)' = UnderWay(e)
        BY <1>1, <2>1, <2>3, <4>1, <4>3, <4>4 DEF UnderWay
      <4>7. QueuedFds(e)' = QueuedFds(e)
        BY <1>1, <2>2, <2>4, <4>2, <4>3, <4>5 DEF QueuedFds
      <4> QED BY <3>1, <4>6, <4>7
    <3>2. CASE q # e
      BY <1>1, <2>8, <3>2 DEF UnderWay, QueuedFds, TypeOK
    <3> QED BY <3>1, <3>2
  <2> QED BY <1>1, <1>2, <1>3, <2>12, <2>13 DEF Calm
<1> QED BY <1>4, <1>5 DEF transfer_data

-----------------------------------------------------------------------------
(* The thread leaves its loop with its state "Stopped", which only         *)
(* close_after_sending_all_pending_messages changes back.                  *)
LEMMA StoppedKept ==
    ASSUME TypeOK, StoppedUnlessFlushing, NEW e \in Ends,
           IOThread(e) \/ MainThread(e) \/ Owner(e)
    PROVE  StoppedUnlessFlushing'
<1> USE DEF TypeOK, Goto, SetState, threadVars, mainVars
<1>1. CASE PeekSendQueue(e)
  BY <1>1 DEF PeekSendQueue, StoppedUnlessFlushing
<1>2. CASE LoadState(e)
  BY <1>2 DEF LoadState, StoppedUnlessFlushing
<1>3. CASE Poll(e)
  BY <1>3 DEF Poll, StoppedUnlessFlushing
<1>4. CASE read_incoming_messages(e)
  <2>1. UNCHANGED <<io_thread_state, main>>
    BY <1>4 DEF read_incoming_messages
  <2>2. PICK place \in {"deliver", "eof", "hup", "write", "top"} : Goto(e, place)
    <3>1. AfterRead(e) \in {"hup", "write", "top"} /\ AfterBatch(e) \in {"eof", "hup", "write", "top"}
      BY DEF AfterRead, AfterBatch
    <3> QED BY <1>4, <3>1 DEF read_incoming_messages
  <2>3. io' = [io EXCEPT ![e] = place]
    BY <2>2
  <2> QED BY <2>1, <2>3 DEF StoppedUnlessFlushing
<1>5. CASE DeliverBatch(e) \/ NotifyOfEof(e)
  <2>1. UNCHANGED io_thread_state /\ main' = [main EXCEPT ![e] = Woken(e)]
    BY <1>5 DEF DeliverBatch, NotifyOfEof, Broadcast
  <2>2. \A q \in Ends : main'[q] = "flushing" <=> main[q] = "flushing"
    BY <2>1 DEF Woken
  <2>3. PICK place \in {"eof", "hup", "write", "top"} : Goto(e, place)
    <3>1. AfterRead(e) \in {"hup", "write", "top"} /\ AfterBatch(e) \in {"eof", "hup", "write", "top"}
      BY DEF AfterRead, AfterBatch
    <3> QED BY <1>5, <3>1 DEF DeliverBatch, NotifyOfEof
  <2>4. io' = [io EXCEPT ![e] = place]
    BY <2>3
  <2> QED BY <2>1, <2>2, <2>4 DEF StoppedUnlessFlushing
<1>6. CASE CheckHangup(e)
  BY <1>6 DEF CheckHangup, StoppedUnlessFlushing
<1>7. CASE transfer_data(e)
  BY <1>7 DEF transfer_data, StoppedUnlessFlushing
<1>8. CASE FinishThread(e)
  <2>1. UNCHANGED io_thread_state /\ \A q \in Ends \ {e} : main'[q] = main[q]
    BY <1>8 DEF FinishThread, Broadcast
  <2>2. PICK place \in {"done", "crashed"} : io' = [io EXCEPT ![e] = place]
    BY <1>8 DEF FinishThread
  <2> QED BY <2>1, <2>2 DEF StoppedUnlessFlushing
<1>9. CASE UNCHANGED <<io, io_thread_state>> /\ main[e] # "flushing" /\ \A q \in Ends \ {e} : main'[q] = main[q]
  BY <1>9 DEF StoppedUnlessFlushing
<1>10. CASE post_message(e)
  BY <1>9, <1>10 DEF post_message
<1>11. CASE CheckAgain(e) \/ Wait(e) \/ SyncCall(e)
  BY <1>9, <1>11 DEF CheckAgain, Wait, SyncCall, CheckReadable, MainGoesTo
<1>12. CASE ReadHook(e) \/ DrainInCall(e) \/ EndHook(e) \/ RetainDescriptors(e)
  BY <1>9, <1>12 DEF ReadHook, DrainInCall, EndHook, RetainDescriptors
<1>13. CASE /\ UNCHANGED io /\ \A q \in Ends \ {e} : main'[q] = main[q]
            /\ \A q \in Ends \ {e} : io_thread_state'[q] = io_thread_state[q]
            /\ io_thread_state'[e] = "Stopped" \/ main'[e] = "flushing"
  BY <1>13 DEF StoppedUnlessFlushing
<1>14. CASE EndOrRepeatCall(e)
  BY <1>9, <1>13, <1>14 DEF EndOrRepeatCall, stop_io_thread
<1>15. CASE shutdown(e) \/ close(e) \/ close_after_sending_all_pending_messages(e)
  BY <1>13, <1>15
     DEF shutdown, close, close_after_sending_all_pending_messages, Stop, stop_io_thread
<1>16. CASE Joined(e)
  BY <1>16 DEF Joined, StoppedUnlessFlushing
<1> QED BY <1>1, <1>2, <1>3, <1>4, <1>5, <1>6, <1>7, <1>8, <1>10, <1>11, <1>12, <1>14, <1>15, <1>16
     DEF IOThread, MainThread, Owner

(* The descriptors are retained before they are queued.                    *)
LEMMA RetainStep ==
    ASSUME IInv, NEW e \in Ends, RetainDescriptors(e)
    PROVE  /\ PostedFromOutbox' /\ BatchInDelivery' /\ InOrder' /\ DescriptorsFollow'
           /\ RetainedUntilReceived'
<1> USE DEF IInv
<1>1. /\ UNCHANGED <<io, batch, posted, received, stream, fds, unprocessed_bytes, unprocessed_fds,
                     incoming, wire, wire_fds>>
      /\ main' = [main EXCEPT ![e] = "posting"]
      /\ retained' = [retained EXCEPT ![e] = @ \o Descriptors(NextToPost(e))]
      /\ main[e] = "idle" /\ posted[e] < Len(Outbox[e])
  BY DEF RetainDescriptors, threadVars, readVars, socketVars
<1>2. PostedFromOutbox'
  BY <1>1 DEF PostedFromOutbox, TypeOK
<1>3. BatchInDelivery'
  BY <1>1 DEF BatchInDelivery
<1>4. SameFlow
  BY <1>1 DEF SameFlow, Arrived, UnderWay, QueuedFds
<1>5. InOrder' /\ DescriptorsFollow'
  BY <1>4, SameFlowKeeps
<1>6. RetainedUntilReceived'
  <2> SUFFICES ASSUME NEW q \in Ends
               PROVE  /\ AcknowledgedIn[UnderWay(Peer[q])'] <= Len(retained'[q])
                      /\ Drop(retained'[q], AcknowledgedIn[UnderWay(Peer[q])'])
                            = QueuedFds(q)' \o BeingPosted(q)'
    BY DEF RetainedUntilReceived, QueuedFds
  <2>1. UnderWay(Peer[q])' = UnderWay(Peer[q]) /\ QueuedFds(q)' = QueuedFds(q)
    BY <1>4, PeerType DEF SameFlow
  <2>2. /\ AcknowledgedIn[UnderWay(Peer[q])] <= Len(retained[q])
        /\ Drop(retained[q], AcknowledgedIn[UnderWay(Peer[q])])
              = QueuedFds(q) \o BeingPosted(q)
    BY DEF RetainedUntilReceived, QueuedFds
  <2>3. CASE q # e
    <3>1. retained'[q] = retained[q] /\ main'[q] = main[q]
      BY <1>1, <2>3 DEF TypeOK
    <3>2. BeingPosted(q)' = BeingPosted(q)
      BY <1>1, <3>1 DEF BeingPosted, NextToPost
    <3> QED BY <2>1, <2>2, <3>1, <3>2
  <2>4. CASE q = e
    <3>1. PICK r \in Seq(Fds) : r = retained[e]
      BY DEF TypeOK
    <3>2. PICK d \in Seq(Fds) : d = Descriptors(NextToPost(e))
      BY <1>1, NextToPostType, DescriptorsType
    <3>3. PICK x \in Seq(Fds) : x = QueuedFds(e)
      BY FlowType
    <3>4. UnderWay(Peer[e]) \in Seq(Units)
      BY FlowType, PeerType
    <3>5. PICK n \in Nat : n = AcknowledgedIn[UnderWay(Peer[e])]
      BY <3>4, AcknowledgedInDef
    <3>6. BeingPosted(e) = << >> /\ BeingPosted(e)' = d
      BY <1>1, <3>2 DEF BeingPosted, NextToPost, TypeOK
    <3>7. n <= Len(r) /\ Drop(r, n) = x
      BY <2>2, <2>4, <3>1, <3>3, <3>5, <3>6, ConcatEmptySeq
    <3>8. n \in 0..Len(r) /\ Len(r) \in Nat /\ Len(d) \in Nat
      BY <3>7, LenProperties
    <3>9. Drop(r \o d, n) = x \o d
      BY <3>7, <3>8, DropConcat
    <3>10. Len(r \o d) = Len(r) + Len(d)
      BY ConcatProperties
    <3>11. n <= Len(r \o d)
      BY <3>7, <3>8, <3>10
    <3>12. retained'[e] = r \o d
      BY <1>1, <3>1, <3>2 DEF TypeOK
    <3> QED BY <2>1, <2>4, <3>3, <3>5, <3>6, <3>9, <3>11, <3>12
  <2> QED BY <2>3, <2>4
<1> QED BY <1>2, <1>3, <1>5, <1>6

(* The messages of what has arrived.                                       *)
MessagesOf(here) == [i \in DOMAIN here |-> here[i].msg]

(* They are as many as were delivered.                                     *)
LEMMA MessagesOfType ==
    ASSUME NEW s \in Seq(Delivered)
    PROVE  /\ MessagesOf(s) \in Seq(Messages) /\ Len(MessagesOf(s)) = Len(s)
           /\ \A i \in 1..Len(s) : MessagesOf(s)[i] = s[i].msg
<1>1. DOMAIN s = 1..Len(s) /\ Len(s) \in Nat
  BY LenProperties
<1>2. \A i \in 1..Len(s) : s[i] \in Delivered
  BY ElementOfSeq
<1>3. \A i \in 1..Len(s) : s[i].msg \in Messages
  BY <1>2 DEF Delivered
<1>4. MessagesOf(s) = [i \in 1..Len(s) |-> s[i].msg]
  BY <1>1 DEF MessagesOf
<1> DEFINE f == MessagesOf(s)
<1>5. f \in [1..Len(s) -> Messages]
  BY <1>3, <1>4
<1>6. f \in Seq(Messages)
  BY <1>1, <1>5
<1>7. DOMAIN f = 1..Len(s) /\ DOMAIN f = 1..Len(f) /\ Len(f) \in Nat
  BY <1>5, <1>6, LenProperties
<1>8. \A i \in 1..Len(s) : f[i] = s[i].msg
  BY <1>4
<1> HIDE DEF f
<1>9. Len(f) = Len(s)
  BY <1>1, <1>7
<1>10. f \in Seq(Messages) /\ Len(f) = Len(s) /\ \A i \in 1..Len(s) : f[i] = s[i].msg
  BY <1>6, <1>8, <1>9
<1> QED BY <1>10 DEF f

(* The messages of two deliveries put together.                            *)
LEMMA MessagesOfConcat ==
    ASSUME NEW s \in Seq(Delivered), NEW t \in Seq(Delivered)
    PROVE  MessagesOf(s \o t) = MessagesOf(s) \o MessagesOf(t)
<1>0. Len(s) \in Nat /\ Len(t) \in Nat
  BY LenProperties
<1>1. PICK c \in Seq(Delivered) :
         /\ c = s \o t /\ Len(c) = Len(s) + Len(t)
         /\ \A i \in 1..Len(s) + Len(t) : c[i] = IF i <= Len(s) THEN s[i] ELSE t[i - Len(s)]
  <2>1. /\ s \o t \in Seq(Delivered) /\ Len(s \o t) = Len(s) + Len(t)
        /\ \A i \in 1..Len(s) + Len(t) :
              (s \o t)[i] = IF i <= Len(s) THEN s[i] ELSE t[i - Len(s)]
    BY ConcatProperties
  <2> DEFINE both == s \o t
  <2>2. /\ both \in Seq(Delivered) /\ Len(both) = Len(s) + Len(t)
        /\ \A i \in 1..Len(s) + Len(t) : both[i] = IF i <= Len(s) THEN s[i] ELSE t[i - Len(s)]
    BY <2>1
  <2>3. both = s \o t
    OBVIOUS
  <2> HIDE DEF both
  <2> QED BY <2>2, <2>3
<1>2. PICK ms \in Seq(Messages) : /\ ms = MessagesOf(s) /\ Len(ms) = Len(s)
                                  /\ \A i \in 1..Len(s) : ms[i] = s[i].msg
  BY MessagesOfType
<1>3. PICK mt \in Seq(Messages) : /\ mt = MessagesOf(t) /\ Len(mt) = Len(t)
                                  /\ \A i \in 1..Len(t) : mt[i] = t[i].msg
  BY MessagesOfType
<1>4. PICK mc \in Seq(Messages) : /\ mc = MessagesOf(c) /\ Len(mc) = Len(c)
                                  /\ \A i \in 1..Len(c) : mc[i] = c[i].msg
  BY MessagesOfType
<1>5. PICK r \in Seq(Messages) :
         /\ r = ms \o mt /\ Len(r) = Len(ms) + Len(mt)
         /\ \A i \in 1..Len(ms) + Len(mt) : r[i] = IF i <= Len(ms) THEN ms[i] ELSE mt[i - Len(ms)]
  <2>1. /\ ms \o mt \in Seq(Messages) /\ Len(ms \o mt) = Len(ms) + Len(mt)
        /\ \A i \in 1..Len(ms) + Len(mt) :
              (ms \o mt)[i] = IF i <= Len(ms) THEN ms[i] ELSE mt[i - Len(ms)]
    BY ConcatProperties
  <2> DEFINE both == ms \o mt
  <2>2. /\ both \in Seq(Messages) /\ Len(both) = Len(ms) + Len(mt)
        /\ \A i \in 1..Len(ms) + Len(mt) : both[i] = IF i <= Len(ms) THEN ms[i] ELSE mt[i - Len(ms)]
    BY <2>1
  <2>3. both = ms \o mt
    OBVIOUS
  <2> HIDE DEF both
  <2> QED BY <2>2, <2>3
<1>6. Len(mc) = Len(r)
  BY <1>1, <1>2, <1>3, <1>4, <1>5
<1>7. ASSUME NEW i \in 1..Len(mc) PROVE mc[i] = r[i]
  <2>1. /\ i \in 1..Len(s) + Len(t) /\ i \in 1..Len(c) /\ i \in 1..Len(ms) + Len(mt)
    BY <1>0, <1>1, <1>2, <1>3, <1>4
  <2>2. CASE i <= Len(s)
    <3>1. i \in 1..Len(s) /\ i <= Len(ms)
      BY <1>0, <1>2, <2>1, <2>2
    <3> QED BY <1>1, <1>2, <1>4, <1>5, <2>1, <2>2, <3>1
  <2>3. CASE ~(i <= Len(s))
    <3>1. i - Len(s) \in 1..Len(t) /\ ~(i <= Len(ms)) /\ i - Len(ms) = i - Len(s)
      BY <1>0, <1>2, <2>1, <2>3
    <3> QED BY <1>1, <1>3, <1>4, <1>5, <2>1, <2>3, <3>1
  <2> QED BY <2>2, <2>3
<1>8. mc = r
  BY <1>6, <1>7, SeqEqual
<1> QED BY <1>1, <1>2, <1>3, <1>4, <1>5, <1>8

(* What one message, and one acknowledgement, is in the byte stream.       *)
LEMMA UnitFlow ==
    ASSUME NEW u \in Units
    PROVE  /\ <<u>> \in Seq(Units)
           /\ MessagesIn[<<u>>] = Payload(u) /\ AcknowledgedIn[<<u>>] = Acknowledges(u)
<1>1. <<u>> \in Seq(Units) /\ <<u>> # << >> /\ Head(<<u>>) = u /\ Tail(<<u>>) = << >>
  OBVIOUS
<1>2. << >> \in Seq(Units)
  OBVIOUS
<1>3. MessagesIn[<< >>] = << >> /\ AcknowledgedIn[<< >>] = 0
  BY <1>2, MessagesInDef, AcknowledgedInDef
<1>4. Payload(u) \in Seq(Messages) /\ Acknowledges(u) \in Nat
  BY UnitParts
<1>5. MessagesIn[<<u>>] = Payload(u) \o << >> /\ AcknowledgedIn[<<u>>] = Acknowledges(u) + 0
  BY <1>1, <1>3, MessagesInDef, AcknowledgedInDef
<1> QED BY <1>1, <1>4, <1>5, ConcatEmptySeq

(* An encoded message is one message, and acknowledges nothing.            *)
LEMMA EncodedFlow ==
    ASSUME NEW m \in Messages
    PROVE  /\ Encoded(m) \in Seq(Units)
           /\ MessagesIn[Encoded(m)] = <<m>> /\ AcknowledgedIn[Encoded(m)] = 0
<1>1. PICK h \in Units : h = <<"header", m>>
  BY DEF Units
<1>2. PICK p \in Units : p = <<"payload", m>>
  BY DEF Units
<1>3. Payload(h) = << >> /\ Payload(p) = <<m>> /\ Acknowledges(h) = 0 /\ Acknowledges(p) = 0
  BY <1>1, <1>2 DEF Payload, Acknowledges
<1>4. Encoded(m) = <<h>> \o <<p>>
  BY <1>1, <1>2 DEF Encoded
<1>5. /\ <<h>> \in Seq(Units) /\ <<p>> \in Seq(Units)
      /\ MessagesIn[<<h>>] = << >> /\ MessagesIn[<<p>>] = <<m>>
      /\ AcknowledgedIn[<<h>>] = 0 /\ AcknowledgedIn[<<p>>] = 0
  BY <1>3, UnitFlow
<1>6. /\ MessagesIn[Encoded(m)] = MessagesIn[<<h>>] \o MessagesIn[<<p>>]
      /\ AcknowledgedIn[Encoded(m)] = AcknowledgedIn[<<h>>] + AcknowledgedIn[<<p>>]
  BY <1>4, <1>5, MessagesInConcat, AcknowledgedInConcat
<1>7. << >> \o <<m>> = <<m>> /\ 0 + 0 = 0
  BY ConcatEmptySeq
<1>8. MessagesIn[Encoded(m)] = <<m>>
  BY <1>5, <1>6, <1>7
<1>9. AcknowledgedIn[Encoded(m)] = 0
  BY <1>5, <1>6, <1>7
<1> QED BY <1>4, <1>5, <1>8, <1>9, ConcatProperties

(* An acknowledgement is no message, and acknowledges what it says.        *)
LEMMA AcknowledgementFlow ==
    ASSUME NEW n \in Nat
    PROVE  /\ Acknowledgement(n) \in Seq(Units)
           /\ MessagesIn[Acknowledgement(n)] = << >> /\ AcknowledgedIn[Acknowledgement(n)] = n
<1>1. PICK u \in Units : u = <<"ack", n>>
  BY DEF Units
<1>2. Payload(u) = << >> /\ Acknowledges(u) = n /\ Acknowledgement(n) = <<u>>
  BY <1>1 DEF Payload, Acknowledges, Acknowledgement
<1> QED BY <1>2, UnitFlow

(* What is queued goes to the end of what is under way.                    *)
LEMMA QueuedLast ==
    ASSUME NEW S
    PROVE  \A p, w, s, x \in Seq(S) : Cat(Cat(p, w), Cat(s, x)) = Cat(Cat(Cat(p, w), s), x)
<1>1. /\ \A x, y \in Seq(S) : Cat(x, y) \in Seq(S)
      /\ \A x, y, z \in Seq(S) : Cat(Cat(x, y), z) = Cat(x, Cat(y, z))
  BY CatLaws
<1> QED BY <1>1

(* post_message, when the descriptors are retained: the message is on its  *)
(* way from then on, behind all others, with its descriptors.              *)
LEMMA PostStep ==
    ASSUME IInv, NEW e \in Ends, post_message(e)
    PROVE  /\ PostedFromOutbox' /\ BatchInDelivery' /\ InOrder' /\ DescriptorsFollow'
           /\ RetainedUntilReceived'
<1> USE DEF IInv
<1>1. posted[e] < Len(Outbox[e])
  BY DEF post_message, PostedFromOutbox
<1>2. PICK m \in Messages : m = NextToPost(e)
  BY <1>1, NextToPostType
<1>3. /\ UNCHANGED <<io, batch, received, retained, unprocessed_bytes, unprocessed_fds, incoming,
                     wire, wire_fds>>
      /\ stream' = [stream EXCEPT ![e] = @ \o Encoded(m)]
      /\ fds' = [fds EXCEPT ![e] = @ \o Descriptors(m)]
      /\ posted' = [posted EXCEPT ![e] = @ + 1]
      /\ main' = [main EXCEPT ![e] = "idle"]
      /\ main[e] = "posting"
  BY <1>2 DEF post_message, enqueue_message, threadVars, readVars, socketVars
<1>4. /\ Encoded(m) \in Seq(Units)
      /\ MessagesIn[Encoded(m)] = <<m>> /\ AcknowledgedIn[Encoded(m)] = 0
      /\ Descriptors(m) \in Seq(Fds)
  BY EncodedFlow, DescriptorsType
<1>5. PICK c \in Seq(Units) : c = Encoded(m)
  BY <1>4
<1>6. PICK d \in Seq(Fds) : d = Descriptors(m)
  BY <1>4
<1>7. PICK u \in Seq(Units) : u = UnderWay(e)
  BY FlowType
<1>8. PICK x \in Seq(Fds) : x = QueuedFds(e)
  BY FlowType
<1>9. UnderWay(e)' = Cat(u, c)
  <2>1. PICK p \in Seq(Units) : p = unprocessed_bytes[Peer[e]]
    BY PeerType DEF TypeOK
  <2>2. PICK w \in Seq(Units) : w = wire[e]
    BY DEF TypeOK
  <2>3. PICK s \in Seq(Units) : s = stream[e]
    BY DEF TypeOK
  <2>4. stream'[e] = s \o c
    BY <1>3, <1>5, <2>3 DEF TypeOK
  <2>5. UnderWay(e)' = Cat(Cat(p, w), Cat(s, c)) /\ u = Cat(Cat(p, w), s)
    BY <1>3, <1>7, <2>1, <2>2, <2>3, <2>4 DEF UnderWay, Cat
  <2>6. Cat(Cat(p, w), Cat(s, c)) = Cat(Cat(Cat(p, w), s), c)
    BY QueuedLast
  <2> QED BY <2>5, <2>6
<1>10. QueuedFds(e)' = Cat(x, d)
  <2>1. PICK p \in Seq(Fds) : p = unprocessed_fds[Peer[e]]
    BY PeerType DEF TypeOK
  <2>2. PICK w \in Seq(Fds) : w = wire_fds[e]
    BY DEF TypeOK
  <2>3. PICK s \in Seq(Fds) : s = fds[e]
    BY DEF TypeOK
  <2>4. fds'[e] = s \o d
    BY <1>3, <1>6, <2>3 DEF TypeOK
  <2>5. QueuedFds(e)' = Cat(Cat(p, w), Cat(s, d)) /\ x = Cat(Cat(p, w), s)
    BY <1>3, <1>8, <2>1, <2>2, <2>3, <2>4 DEF QueuedFds, Cat
  <2>6. Cat(Cat(p, w), Cat(s, d)) = Cat(Cat(Cat(p, w), s), d)
    BY QueuedLast
  <2> QED BY <2>5, <2>6
<1>11. ASSUME NEW q \in Ends, q # e
       PROVE  /\ UnderWay(q)' = UnderWay(q) /\ QueuedFds(q)' = QueuedFds(q)
              /\ Posted(q)' = Posted(q) /\ main'[q] = main[q] /\ posted'[q] = posted[q]
  <2>1. stream'[q] = stream[q] /\ fds'[q] = fds[q] /\ posted'[q] = posted[q] /\ main'[q] = main[q]
    BY <1>3, <1>11 DEF TypeOK
  <2> QED BY <1>3, <2>1 DEF UnderWay, QueuedFds, Posted
<1>12. \A q \in Ends : Arrived(q)' = Arrived(q)
  BY <1>3 DEF Arrived
<1>13. PICK ms \in Seq(Messages) : ms = MessagesIn[u]
  BY MessagesInDef
<1>14. MessagesIn[Cat(u, c)] = ms \o <<m>>
  <2>1. MessagesIn[u \o c] = MessagesIn[u] \o MessagesIn[c]
    BY MessagesInConcat
  <2> QED BY <1>4, <1>5, <1>13, <2>1 DEF Cat
<1>15. AcknowledgedIn[Cat(u, c)] = AcknowledgedIn[u]
  <2>1. AcknowledgedIn[u \o c] = AcknowledgedIn[u] + AcknowledgedIn[c]
    BY AcknowledgedInConcat
  <2>2. AcknowledgedIn[u] \in Nat
    BY AcknowledgedInDef
  <2> QED BY <1>4, <1>5, <2>1, <2>2 DEF Cat
<1>16. posted'[e] = posted[e] + 1 /\ main'[e] = "idle"
  BY <1>3 DEF TypeOK
<1>17. PostedFromOutbox'
  <2> SUFFICES ASSUME NEW q \in Ends
               PROVE  /\ posted'[q] <= Len(Outbox[q])
                      /\ main'[q] = "posting" => posted'[q] < Len(Outbox[q])
    BY DEF PostedFromOutbox
  <2>1. CASE q = e
    BY <1>1, <1>16, <2>1, NextToPostType
  <2>2. CASE q # e
    BY <1>11, <2>2 DEF PostedFromOutbox
  <2> QED BY <2>1, <2>2
<1>18. BatchInDelivery'
  BY <1>3 DEF BatchInDelivery
<1>19. InOrder'
  <2> SUFFICES ASSUME NEW q \in Ends
               PROVE  /\ [i \in DOMAIN Arrived(q)' |-> (Arrived(q)')[i].msg]
                            \o MessagesIn[UnderWay(q)'] = Posted(q)'
                      /\ \A i \in DOMAIN Arrived(q)' :
                            (Arrived(q)')[i].fds = Descriptors((Arrived(q)')[i].msg)
    BY DEF InOrder
  <2>1. /\ [i \in DOMAIN Arrived(q) |-> Arrived(q)[i].msg] \o MessagesIn[UnderWay(q)] = Posted(q)
        /\ \A i \in DOMAIN Arrived(q) : Arrived(q)[i].fds = Descriptors(Arrived(q)[i].msg)
    BY DEF InOrder
  <2>2. Arrived(q)' = Arrived(q)
    BY <1>12
  <2>3. CASE q # e
    BY <1>11, <2>1, <2>2, <2>3
  <2>4. CASE q = e
    <3>1. PICK h \in Seq(Messages) : h = [i \in DOMAIN Arrived(e) |-> Arrived(e)[i].msg]
      <4>1. Arrived(e) \in Seq(Delivered)
        BY FlowType
      <4> QED BY <4>1, MessagesOfType DEF MessagesOf
    <3>2. h \o ms = Posted(e)
      BY <1>7, <1>13, <2>1, <2>4, <3>1
    <3>3. Posted(e)' = Posted(e) \o <<m>>
      <4>1. /\ Outbox[e] \in Seq(Messages) /\ Len(Outbox[e]) \in Nat /\ posted[e] \in Nat
            /\ posted[e] + 1 \in 1..Len(Outbox[e])
        BY <1>1, NextToPostType
      <4>2. PICK n \in 1..Len(Outbox[e]) : n = posted[e] + 1
        BY <4>1
      <4>3. 1 \in 1..Len(Outbox[e]) /\ n - 1 = posted[e]
        BY <4>1, <4>2
      <4>4. SubSeq(Outbox[e], 1, n) = SubSeq(Outbox[e], 1, n - 1) \o <<Outbox[e][n]>>
        BY <4>1, <4>2, <4>3, SubSeqRecursiveSecond
      <4> QED BY <1>2, <1>16, <4>2, <4>3, <4>4 DEF Posted, NextToPost
    <3>4. h \o (ms \o <<m>>) = (h \o ms) \o <<m>>
      <4>1. <<m>> \in Seq(Messages)
        OBVIOUS
      <4> QED BY <4>1, ConcatAssociative
    <3>5. h \o MessagesIn[UnderWay(e)'] = Posted(e)'
      BY <1>9, <1>14, <3>2, <3>3, <3>4
    <3> QED BY <2>1, <2>2, <2>4, <3>1, <3>5
  <2> QED BY <2>3, <2>4
<1>20. DescriptorsFollow'
  <2> SUFFICES ASSUME NEW q \in Ends
               PROVE  Owned(MessagesIn[UnderWay(q)'], QueuedFds(q)')
    BY DEF DescriptorsFollow
  <2>1. CASE q # e
    BY <1>11, <2>1 DEF DescriptorsFollow
  <2>2. CASE q = e
    <3>1. Owned(ms, x)
      BY <1>7, <1>8, <1>13 DEF DescriptorsFollow
    <3>2. Owned(ms \o <<m>>, x \o Descriptors(m))
      BY <3>1, OwnedAppend
    <3>3. QueuedFds(e)' = x \o Descriptors(m)
      BY <1>6, <1>10 DEF Cat
    <3> QED BY <1>9, <1>14, <2>2, <3>2, <3>3
  <2> QED BY <2>1, <2>2
<1>21. RetainedUntilReceived'
  <2> SUFFICES ASSUME NEW q \in Ends
               PROVE  /\ AcknowledgedIn[UnderWay(Peer[q])'] <= Len(retained'[q])
                      /\ Drop(retained'[q], AcknowledgedIn[UnderWay(Peer[q])'])
                            = QueuedFds(q)' \o BeingPosted(q)'
    BY DEF RetainedUntilReceived, QueuedFds
  <2>1. /\ AcknowledgedIn[UnderWay(Peer[q])] <= Len(retained[q])
        /\ Drop(retained[q], AcknowledgedIn[UnderWay(Peer[q])])
              = QueuedFds(q) \o BeingPosted(q)
    BY DEF RetainedUntilReceived, QueuedFds
  <2>2. AcknowledgedIn[UnderWay(Peer[q])'] = AcknowledgedIn[UnderWay(Peer[q])]
    <3>1. CASE Peer[q] = e
      BY <1>7, <1>9, <1>15, <3>1
    <3>2. CASE Peer[q] # e
      BY <1>11, <3>2, PeerType
    <3> QED BY <3>1, <3>2
  <2>3. QueuedFds(q)' \o BeingPosted(q)' = QueuedFds(q) \o BeingPosted(q)
    <3>1. CASE q # e
      <4>1. BeingPosted(q)' = BeingPosted(q)
        BY <1>11, <3>1 DEF BeingPosted, NextToPost
      <4> QED BY <1>11, <3>1, <4>1
    <3>2. CASE q = e
      <4>1. BeingPosted(e)' = << >> /\ BeingPosted(e) = d
        BY <1>2, <1>3, <1>6, <1>16 DEF BeingPosted
      <4>2. x \o d \in Seq(Fds)
        BY ConcatProperties
      <4>3. (x \o d) \o << >> = x \o d
        BY <4>2, ConcatEmptySeq
      <4> QED BY <1>8, <1>10, <3>2, <4>1, <4>3 DEF Cat
    <3> QED BY <3>1, <3>2
  <2> QED BY <1>3, <2>1, <2>2, <2>3
<1> QED BY <1>17, <1>18, <1>19, <1>20, <1>21

-----------------------------------------------------------------------------
(* What read_incoming_messages makes of the bytes and descriptors it has:  *)
(* the messages, how many descriptors they take, what they are handed over *)
(* with, and what is left.                                                 *)
Handled(units, ds) == MessagesIn[Processable(units, ds)]
Taken(units, ds) == FdsNeeded[Handled(units, ds)]
Batch(units, ds) == WithDescriptors(Handled(units, ds), ds)
RestOf(units, ds) == Drop(units, Len(Processable(units, ds)))
LeftOf(units, ds) == Drop(ds, Taken(units, ds))

(* What is handled and what is left are what was read.                     *)
LEMMA ReadParts ==
    ASSUME NEW units \in Seq(Units), NEW ds \in Seq(Fds)
    PROVE  /\ Processable(units, ds) \in Seq(Units) /\ RestOf(units, ds) \in Seq(Units)
           /\ units = Cat(Processable(units, ds), RestOf(units, ds))
           /\ Handled(units, ds) \in Seq(Messages)
           /\ Taken(units, ds) \in Nat /\ Taken(units, ds) \in 0..Len(ds)
           /\ LeftOf(units, ds) \in Seq(Fds)
           /\ AcknowledgedIn[Processable(units, ds)] \in Nat
<1>1. /\ Processable(units, ds) \in Seq(Units) /\ RestOf(units, ds) \in Seq(Units)
      /\ units = Processable(units, ds) \o RestOf(units, ds)
      /\ Handled(units, ds) \in Seq(Messages)
      /\ Taken(units, ds) \in Nat /\ Taken(units, ds) <= Len(ds)
      /\ LeftOf(units, ds) \in Seq(Fds)
      /\ AcknowledgedIn[Processable(units, ds)] \in Nat
  BY ReadType DEF Handled, Taken, RestOf, LeftOf
<1>2. Taken(units, ds) \in 0..Len(ds)
  BY <1>1, LenProperties
<1> QED BY <1>1, <1>2 DEF Cat

(* The batch has the messages that are handled.                            *)
LEMMA BatchType ==
    ASSUME NEW units \in Seq(Units), NEW ds \in Seq(Fds)
    PROVE  /\ Batch(units, ds) \in Seq(Delivered)
           /\ MessagesOf(Batch(units, ds)) = Handled(units, ds)
           /\ Handled(units, ds) = << >> => Batch(units, ds) = << >>
<1>1. PICK ms \in Seq(Messages) : ms = Handled(units, ds)
  BY ReadParts
<1>2. FdsNeeded[ms] <= Len(ds)
  <2>1. Taken(units, ds) \in 0..Len(ds)
    BY ReadParts
  <2>2. Len(ds) \in Nat
    BY LenProperties
  <2> QED BY <1>1, <2>1, <2>2 DEF Taken
<1>3. PICK b \in Seq(Delivered) : /\ b = WithDescriptors(ms, ds)
                                  /\ Len(b) = Len(ms)
                                  /\ \A i \in 1..Len(ms) : b[i].msg = ms[i]
  BY <1>2, WithDescriptorsType
<1>4. PICK f \in Seq(Messages) : /\ f = MessagesOf(b) /\ Len(f) = Len(b)
                                 /\ \A i \in 1..Len(b) : f[i] = b[i].msg
  BY MessagesOfType
<1>5. f = ms
  <2>1. Len(f) = Len(ms) /\ \A i \in 1..Len(f) : f[i] = ms[i]
    BY <1>3, <1>4
  <2> QED BY <2>1, SeqEqual
<1>6. ms = << >> => b = << >>
  <2>1. ms = << >> => Len(ms) = 0
    OBVIOUS
  <2>2. ms = << >> => Len(b) = 0
    BY <1>3, <2>1
  <2> QED BY <2>2, EmptySeq
<1> QED BY <1>1, <1>3, <1>4, <1>5, <1>6 DEF Batch

(* Whatever follows in the stream and in the queue, every message is       *)
(* handed over with its own descriptors and the others keep theirs.        *)
LEMMA ReadSplit ==
    ASSUME NEW units \in Seq(Units), NEW ds \in Seq(Fds), NEW st \in Seq(Units)
    PROVE  /\ MessagesIn[Cat(units, st)]
                 = Cat(Handled(units, ds), MessagesIn[Cat(RestOf(units, ds), st)])
           /\ AcknowledgedIn[Cat(units, st)]
                 = AcknowledgedIn[Processable(units, ds)]
                     + AcknowledgedIn[Cat(RestOf(units, ds), st)]
           /\ Cat(RestOf(units, ds), st) \in Seq(Units)
<1>1. PICK done \in Seq(Units) : done = Processable(units, ds)
  BY ReadParts
<1>2. PICK rest \in Seq(Units) : rest = RestOf(units, ds)
  BY ReadParts
<1>3. PICK after \in Seq(Units) : after = Cat(rest, st)
  BY ConcatProperties DEF Cat
<1>4. units = Cat(done, rest)
  BY <1>1, <1>2, ReadParts
<1>5. Cat(units, st) = Cat(done, after)
  <2>1. \A x, y, z \in Seq(Units) : Cat(Cat(x, y), z) = Cat(x, Cat(y, z))
    BY CatLaws
  <2> QED BY <1>3, <1>4, <2>1
<1>6. /\ MessagesIn[done \o after] = MessagesIn[done] \o MessagesIn[after]
      /\ AcknowledgedIn[done \o after] = AcknowledgedIn[done] + AcknowledgedIn[after]
  BY MessagesInConcat, AcknowledgedInConcat
<1>7. /\ MessagesIn[Cat(done, after)] = Cat(MessagesIn[done], MessagesIn[after])
      /\ AcknowledgedIn[Cat(done, after)] = AcknowledgedIn[done] + AcknowledgedIn[after]
  BY <1>6 DEF Cat
<1>8. Handled(units, ds) = MessagesIn[done]
  BY <1>1 DEF Handled
<1> QED BY <1>1, <1>2, <1>3, <1>5, <1>7, <1>8

(* If the descriptors followed their messages before the read, then each   *)
(* message of the batch has its own, and the rest follow theirs.           *)
LEMMA ReadOwned ==
    ASSUME NEW units \in Seq(Units), NEW ds \in Seq(Fds), NEW st \in Seq(Units), NEW sf \in Seq(Fds),
           Owned(MessagesIn[Cat(units, st)], Cat(ds, sf))
    PROVE  /\ \A i \in 1..Len(Batch(units, ds)) :
                 Batch(units, ds)[i].fds = Descriptors(Batch(units, ds)[i].msg)
           /\ Owned(MessagesIn[Cat(RestOf(units, ds), st)], Cat(LeftOf(units, ds), sf))
           /\ Drop(Cat(ds, sf), Taken(units, ds)) = Cat(LeftOf(units, ds), sf)
<1>1. PICK ms1 \in Seq(Messages) : ms1 = Handled(units, ds)
  BY ReadParts
<1>2. PICK rest \in Seq(Units) : rest = Cat(RestOf(units, ds), st)
  BY ReadSplit
<1>3. PICK ms2 \in Seq(Messages) : ms2 = MessagesIn[rest]
  BY MessagesInDef
<1>4. MessagesIn[Cat(units, st)] = ms1 \o ms2
  <2>1. MessagesIn[Cat(units, st)] = Cat(Handled(units, ds), MessagesIn[Cat(RestOf(units, ds), st)])
    BY ReadSplit
  <2> QED BY <1>1, <1>2, <1>3, <2>1 DEF Cat
<1>5. PICK n \in 0..Len(ds) : n = Taken(units, ds)
  BY ReadParts
<1>6. n = FdsNeeded[ms1]
  BY <1>1, <1>5 DEF Taken
<1>7. Drop(ds \o sf, n) = Drop(ds, n) \o sf
  BY DropConcat
<1>8. LeftOf(units, ds) = Drop(ds, n)
  BY <1>5 DEF LeftOf
<1>9. Owned(ms1 \o ms2, ds \o sf)
  BY <1>4 DEF Cat
<1>10. Owned(ms2, Drop(ds \o sf, n))
  <2>1. PICK all \in Seq(Fds) : all = ds \o sf
    BY ConcatProperties
  <2>2. Owned(ms1 \o ms2, all)
    BY <1>9, <2>1
  <2>3. Owned(ms2, Drop(all, FdsNeeded[ms1]))
    BY <2>2, OwnedRest
  <2> QED BY <1>6, <2>1, <2>3
<1>11. FdsNeeded[ms1] <= Len(ds)
  BY <1>6, LenProperties
<1>12. ASSUME NEW i \in 1..Len(ms1)
       PROVE  WithDescriptors(ms1, ds)[i].fds = Descriptors(ms1[i])
  <2>1. LET before == FdsNeeded[SubSeq(ms1, 1, i - 1)]
        IN  SubSeq(ds, before + 1, before + FdCount[ms1[i]]) = Descriptors(ms1[i])
    BY <1>9, <1>11, OwnedFront
  <2>2. i \in DOMAIN ms1
    BY LenProperties
  <2> QED BY <2>1, <2>2 DEF WithDescriptors
<1>13. PICK b \in Seq(Delivered) : /\ b = WithDescriptors(ms1, ds)
                                   /\ Len(b) = Len(ms1)
                                   /\ \A i \in 1..Len(ms1) : b[i].msg = ms1[i]
  BY <1>11, WithDescriptorsType
<1>14. \A i \in 1..Len(b) : b[i].fds = Descriptors(b[i].msg)
  BY <1>12, <1>13
<1>15. Batch(units, ds) = b
  BY <1>1, <1>13 DEF Batch
<1>16. Owned(MessagesIn[Cat(RestOf(units, ds), st)], Cat(LeftOf(units, ds), sf))
  BY <1>2, <1>3, <1>7, <1>8, <1>10 DEF Cat
<1>17. Drop(Cat(ds, sf), Taken(units, ds)) = Cat(LeftOf(units, ds), sf)
  BY <1>5, <1>7, <1>8 DEF Cat
<1> QED BY <1>14, <1>15, <1>16, <1>17

(* The bytes and descriptors that the I/O thread of e has when it reads.   *)
BytesAt(e) == unprocessed_bytes[e] \o wire[Peer[e]]
FdsAt(e) == unprocessed_fds[e] \o wire_fds[Peer[e]]

(* What reading them does.                                                 *)
Reads(e, p, units, ds) ==
    /\ p = Peer[e] /\ units = BytesAt(e) /\ ds = FdsAt(e)
    /\ wire' = [wire EXCEPT ![p] = << >>]
    /\ wire_fds' = [wire_fds EXCEPT ![p] = << >>]
    /\ unprocessed_bytes' = [unprocessed_bytes EXCEPT ![e] = RestOf(units, ds)]
    /\ unprocessed_fds' = [unprocessed_fds EXCEPT ![e] = LeftOf(units, ds)]
    /\ batch' = [batch EXCEPT ![e] = Batch(units, ds)]
    /\ retained' = [retained EXCEPT ![e] =
                       Drop(retained[e], AcknowledgedIn[Processable(units, ds)])]
    /\ stream' = [stream EXCEPT ![e] =
                     IF Taken(units, ds) > 0 THEN stream[e] \o Acknowledgement(Taken(units, ds))
                     ELSE stream[e]]
    /\ UNCHANGED <<fds, incoming, received, posted, main>>

(* read_incoming_messages is such a step.                                  *)
LEMMA ReadingReads ==
    ASSUME IInv, NEW e \in Ends, read_incoming_messages(e), "IN" \in revents[e]
    PROVE  /\ \E p \in Ends, units \in Seq(Units), ds \in Seq(Fds) : Reads(e, p, units, ds)
           /\ io[e] = "read"
           /\ UNCHANGED <<io_thread_state, want_to_write, mainVars, open, notified>>
           /\ peer_eof' \in SUBSET Ends
           /\ wakeup' \in SUBSET Ends
           /\ \E place \in {"deliver", "eof", "hup", "write", "top"} :
                 /\ Goto(e, place)
                 /\ place # "deliver" => Handled(BytesAt(e), FdsAt(e)) = << >>
<1> USE DEF IInv
<1>1. PICK p \in Ends : p = Peer[e]
  BY PeerType
<1>2. PICK units \in Seq(Units) : units = BytesAt(e)
  <2>1. unprocessed_bytes[e] \in Seq(Units) /\ wire[Peer[e]] \in Seq(Units)
    BY PeerType DEF TypeOK
  <2> QED BY <2>1, ConcatProperties DEF BytesAt
<1>3. PICK ds \in Seq(Fds) : ds = FdsAt(e)
  <2>1. unprocessed_fds[e] \in Seq(Fds) /\ wire_fds[Peer[e]] \in Seq(Fds)
    BY PeerType DEF TypeOK
  <2> QED BY <2>1, ConcatProperties DEF FdsAt
<1>4. /\ peer_eof' = IF PeerIsOpen(e) THEN peer_eof ELSE peer_eof \cup {e}
      /\ wire' = [wire EXCEPT ![p] = << >>]
      /\ wire_fds' = [wire_fds EXCEPT ![p] = << >>]
      /\ unprocessed_bytes' = [unprocessed_bytes EXCEPT ![e] = RestOf(units, ds)]
      /\ unprocessed_fds' = [unprocessed_fds EXCEPT ![e] = LeftOf(units, ds)]
      /\ batch' = [batch EXCEPT ![e] = Batch(units, ds)]
      /\ retained' = [retained EXCEPT ![e] =
                         Drop(retained[e], AcknowledgedIn[Processable(units, ds)])]
      /\ stream' = [stream EXCEPT ![e] =
                       IF Taken(units, ds) > 0 THEN stream[e] \o Acknowledgement(Taken(units, ds))
                       ELSE stream[e]]
      /\ wakeup' = IF Taken(units, ds) > 0 THEN wakeup \cup {e} ELSE WakeupsLeft(e)
      /\ Goto(e, IF Handled(units, ds) # << >> THEN "deliver" ELSE AfterBatch(e))
      /\ UNCHANGED <<fds, incoming>>
  BY <1>1, <1>2, <1>3
     DEF read_incoming_messages, release_acknowledged, BytesAt, FdsAt, RestOf, LeftOf, Batch,
         Taken, Handled
<1>5. /\ io[e] = "read"
      /\ UNCHANGED <<io_thread_state, want_to_write, mainVars, open, notified>>
  BY DEF read_incoming_messages
<1>6. Reads(e, p, units, ds)
  BY <1>1, <1>2, <1>3, <1>4, <1>5 DEF Reads, mainVars
<1>7. peer_eof' \in SUBSET Ends /\ wakeup' \in SUBSET Ends
  BY <1>4 DEF WakeupsLeft, TypeOK
<1>8. \E place \in {"deliver", "eof", "hup", "write", "top"} :
         /\ Goto(e, place)
         /\ place # "deliver" => Handled(BytesAt(e), FdsAt(e)) = << >>
  <2>1. AfterBatch(e) \in {"eof", "hup", "write", "top"}
    BY DEF AfterBatch, AfterRead
  <2> QED BY <1>2, <1>3, <1>4, <2>1
<1> QED BY <1>5, <1>6, <1>7, <1>8

(* It keeps the types, and a batch is in delivery after it.                *)
LEMMA ReadingType ==
    ASSUME IInv, NEW e \in Ends, read_incoming_messages(e), "IN" \in revents[e]
    PROVE  TypeOK' /\ BatchInDelivery'
<1> USE DEF IInv
<1>1. PICK p \in Ends, units \in Seq(Units), ds \in Seq(Fds) : Reads(e, p, units, ds)
  BY ReadingReads
<1>2. /\ UNCHANGED <<io_thread_state, want_to_write, mainVars, open, notified>>
      /\ peer_eof' \in SUBSET Ends /\ wakeup' \in SUBSET Ends
  BY ReadingReads
<1>3. PICK place \in {"deliver", "eof", "hup", "write", "top"} :
         /\ Goto(e, place)
         /\ place # "deliver" => Handled(BytesAt(e), FdsAt(e)) = << >>
  BY ReadingReads
<1>4. /\ RestOf(units, ds) \in Seq(Units) /\ LeftOf(units, ds) \in Seq(Fds)
      /\ Taken(units, ds) \in Nat
      /\ AcknowledgedIn[Processable(units, ds)] \in Nat
  BY ReadParts
<1>5. /\ Batch(units, ds) \in Seq(Delivered)
      /\ Handled(units, ds) = << >> => Batch(units, ds) = << >>
  BY BatchType
<1>6. << >> \in Seq(Units) /\ << >> \in Seq(Fds)
  OBVIOUS
<1>7. /\ wire' \in [Ends -> Seq(Units)] /\ wire_fds' \in [Ends -> Seq(Fds)]
      /\ unprocessed_bytes' \in [Ends -> Seq(Units)]
      /\ unprocessed_fds' \in [Ends -> Seq(Fds)]
  BY <1>1, <1>4, <1>6, SeqUpdate DEF Reads, TypeOK
<1>8. batch' \in [Ends -> Seq(Delivered)]
  BY <1>1, <1>5, SeqUpdate DEF Reads, TypeOK
<1>9. retained' \in [Ends -> Seq(Fds)]
  <2>1. PICK r \in Seq(Fds) : r = retained[e]
    BY DEF TypeOK
  <2>2. PICK n \in Nat : n = AcknowledgedIn[Processable(units, ds)]
    BY <1>4
  <2>3. Drop(r, n) \in Seq(Fds)
    <3>1. Len(r) \in Nat /\ \A i \in 1..Len(r) : r[i] \in Fds
      BY LenProperties, ElementOfSeq
    <3>2. n + 1 \in Int /\ Len(r) \in Int /\ \A i \in (n + 1)..Len(r) : r[i] \in Fds
      BY <3>1
    <3> QED BY <3>2, SubSeqProperties DEF Drop
  <2>4. retained' = [retained EXCEPT ![e] = Drop(r, n)]
    BY <1>1, <2>1, <2>2 DEF Reads
  <2> QED BY <2>3, <2>4, SeqUpdate DEF TypeOK
<1>10. stream' \in [Ends -> Seq(Units)]
  <2>1. PICK n \in Nat : n = Taken(units, ds)
    BY <1>4
  <2>2. stream[e] \in Seq(Units) /\ Acknowledgement(n) \in Seq(Units)
    BY AcknowledgementFlow DEF TypeOK
  <2>3. stream[e] \o Acknowledgement(n) \in Seq(Units)
    BY <2>2, ConcatProperties
  <2>4. PICK s \in Seq(Units) : stream' = [stream EXCEPT ![e] = s]
    <3>1. CASE n > 0
      BY <1>1, <2>1, <2>3, <3>1 DEF Reads
    <3>2. CASE ~(n > 0)
      BY <1>1, <2>1, <2>2, <3>2 DEF Reads
    <3> QED BY <3>1, <3>2
  <2> QED BY <2>4, SeqUpdate DEF TypeOK
<1>11. /\ io' \in [Ends -> {"top", "load", "poll", "read", "deliver", "eof", "hup", "write",
                            "finish", "done", "crashed"}]
       /\ revents' \in [Ends -> SUBSET {"IN", "HUP", "OUT", "WAKEUP"}]
  BY <1>3, GotoType
<1>12. UNCHANGED <<fds, incoming, received, posted, main>>
  BY <1>1 DEF Reads
<1>13. TypeOK'
  BY <1>2, <1>7, <1>8, <1>9, <1>10, <1>11, <1>12 DEF TypeOK, mainVars
<1>14. BatchInDelivery'
  <2> SUFFICES ASSUME NEW q \in Ends, io'[q] # "deliver"
               PROVE  batch'[q] = << >>
    BY DEF BatchInDelivery
  <2>1. io' = [io EXCEPT ![e] = place]
    BY <1>3 DEF Goto
  <2>2. CASE q = e
    <3>1. Handled(units, ds) = << >>
      BY <1>1, <1>3, <2>1, <2>2 DEF Reads, TypeOK
    <3> QED BY <1>1, <1>5, <2>2, <3>1 DEF Reads, TypeOK
  <2>3. CASE q # e
    BY <1>1, <2>1, <2>3 DEF Reads, TypeOK, BatchInDelivery
  <2> QED BY <2>2, <2>3
<1> QED BY <1>13, <1>14

(* For the one that sent what is read.                                     *)
LEMMA ReadFromPeer ==
    ASSUME IInv, NEW e \in Ends, NEW p \in Ends, NEW units \in Seq(Units), NEW ds \in Seq(Fds),
           Reads(e, p, units, ds), io[e] = "read"
    PROVE  /\ UnderWay(p) = Cat(units, stream[p])
           /\ UnderWay(p)' = Cat(RestOf(units, ds), stream[p])
           /\ QueuedFds(p) = Cat(ds, fds[p])
           /\ QueuedFds(p)' = Cat(LeftOf(units, ds), fds[p])
           /\ Arrived(p)' = Cat(Arrived(p), Batch(units, ds))
<1> USE DEF IInv
<1>1. p = Peer[e] /\ p # e /\ Peer[p] = e
  BY PeerType DEF Reads
<1>2. UnderWay(p) = Cat(units, stream[p]) /\ QueuedFds(p) = Cat(ds, fds[p])
  BY <1>1 DEF Reads, UnderWay, QueuedFds, BytesAt, FdsAt, Cat
<1>3. /\ unprocessed_bytes'[e] = RestOf(units, ds) /\ unprocessed_fds'[e] = LeftOf(units, ds)
      /\ wire'[p] = << >> /\ wire_fds'[p] = << >> /\ batch'[e] = Batch(units, ds)
      /\ stream'[p] = stream[p] /\ UNCHANGED <<fds, incoming, received>>
  BY <1>1 DEF Reads, TypeOK
<1>4. RestOf(units, ds) \o << >> = RestOf(units, ds) /\ LeftOf(units, ds) \o << >> = LeftOf(units, ds)
  <2>1. RestOf(units, ds) \in Seq(Units) /\ LeftOf(units, ds) \in Seq(Fds)
    BY ReadParts
  <2> QED BY <2>1, ConcatEmptySeq
<1>5. UnderWay(p)' = Cat(RestOf(units, ds), stream[p])
  BY <1>1, <1>3, <1>4 DEF UnderWay, Cat
<1>6. QueuedFds(p)' = Cat(LeftOf(units, ds), fds[p])
  BY <1>1, <1>3, <1>4 DEF QueuedFds, Cat
<1>7. Arrived(p)' = Cat(Arrived(p), Batch(units, ds))
  <2>1. batch[e] = << >>
    BY DEF BatchInDelivery
  <2>2. received[e] \in Seq(Delivered) /\ incoming[e] \in Seq(Delivered)
    BY DEF TypeOK
  <2>3. (received[e] \o incoming[e]) \o << >> = received[e] \o incoming[e]
    BY <2>2, ConcatProperties, ConcatEmptySeq
  <2>4. Arrived(p) = received[e] \o incoming[e]
    BY <1>1, <2>1, <2>3 DEF Arrived
  <2> QED BY <1>1, <1>3, <2>4 DEF Arrived, Cat
<1> QED BY <1>2, <1>5, <1>6, <1>7

(* For the one that reads: it sends an acknowledgement.                    *)
LEMMA ReadAcknowledges ==
    ASSUME IInv, NEW e \in Ends, NEW p \in Ends, NEW units \in Seq(Units), NEW ds \in Seq(Fds),
           Reads(e, p, units, ds)
    PROVE  /\ MessagesIn[UnderWay(e)'] = MessagesIn[UnderWay(e)]
           /\ AcknowledgedIn[UnderWay(e)'] = AcknowledgedIn[UnderWay(e)] + Taken(units, ds)
           /\ QueuedFds(e)' = QueuedFds(e) /\ Arrived(e)' = Arrived(e)
<1> USE DEF IInv
<1>1. p = Peer[e] /\ p # e /\ Peer[p] = e
  BY PeerType DEF Reads
<1>2. /\ unprocessed_bytes'[p] = unprocessed_bytes[p] /\ unprocessed_fds'[p] = unprocessed_fds[p]
      /\ wire'[e] = wire[e] /\ wire_fds'[e] = wire_fds[e] /\ batch'[p] = batch[p]
      /\ UNCHANGED <<fds, incoming, received>>
  BY <1>1 DEF Reads, TypeOK
<1>3. QueuedFds(e)' = QueuedFds(e) /\ Arrived(e)' = Arrived(e)
  BY <1>1, <1>2 DEF QueuedFds, Arrived
<1>4. PICK n \in Nat : n = Taken(units, ds)
  BY ReadParts
<1>5. PICK u \in Seq(Units) : u = UnderWay(e)
  BY FlowType
<1>6. AcknowledgedIn[u] \in Nat /\ MessagesIn[u] \in Seq(Messages)
  BY AcknowledgedInDef, MessagesInDef
<1>7. CASE n > 0
  <2>1. PICK a \in Seq(Units) : a = Acknowledgement(n)
    BY AcknowledgementFlow
  <2>2. MessagesIn[a] = << >> /\ AcknowledgedIn[a] = n
    BY <2>1, AcknowledgementFlow
  <2>3. PICK b \in Seq(Units) : b = unprocessed_bytes[p]
    BY DEF TypeOK
  <2>4. PICK w \in Seq(Units) : w = wire[e]
    BY DEF TypeOK
  <2>5. PICK s \in Seq(Units) : s = stream[e]
    BY DEF TypeOK
  <2>6. stream'[e] = Cat(s, a)
    BY <1>4, <1>7, <2>1, <2>5 DEF Reads, TypeOK, Cat
  <2>7. UnderWay(e)' = Cat(Cat(b, w), Cat(s, a)) /\ u = Cat(Cat(b, w), s)
    BY <1>1, <1>2, <1>5, <2>3, <2>4, <2>5, <2>6 DEF UnderWay, Cat
  <2>8. Cat(Cat(b, w), Cat(s, a)) = Cat(Cat(Cat(b, w), s), a)
    BY QueuedLast
  <2>9. UnderWay(e)' = u \o a
    BY <2>7, <2>8 DEF Cat
  <2>10. /\ MessagesIn[u \o a] = MessagesIn[u] \o MessagesIn[a]
         /\ AcknowledgedIn[u \o a] = AcknowledgedIn[u] + AcknowledgedIn[a]
    BY MessagesInConcat, AcknowledgedInConcat
  <2>11. MessagesIn[u] \o << >> = MessagesIn[u]
    BY <1>6, ConcatEmptySeq
  <2>12. MessagesIn[u \o a] = MessagesIn[u]
    BY <2>2, <2>10, <2>11
  <2>13. AcknowledgedIn[u \o a] = AcknowledgedIn[u] + n
    BY <2>2, <2>10
  <2> QED BY <1>3, <1>4, <1>5, <2>9, <2>12, <2>13
<1>8. CASE ~(n > 0)
  <2>1. stream'[e] = stream[e]
    BY <1>4, <1>8 DEF Reads, TypeOK
  <2>2. UnderWay(e)' = u
    BY <1>1, <1>2, <1>5, <2>1 DEF UnderWay
  <2>3. n = 0 /\ AcknowledgedIn[u] + 0 = AcknowledgedIn[u]
    BY <1>6, <1>8
  <2> QED BY <1>3, <1>4, <1>5, <2>2, <2>3
<1> QED BY <1>7, <1>8

(* For any other pair of ends.                                             *)
LEMMA ReadOthers ==
    ASSUME IInv, NEW e \in Ends, NEW p \in Ends, NEW units \in Seq(Units), NEW ds \in Seq(Fds),
           Reads(e, p, units, ds), NEW q \in Ends, q # e, q # p
    PROVE  /\ UnderWay(q)' = UnderWay(q) /\ QueuedFds(q)' = QueuedFds(q)
           /\ Arrived(q)' = Arrived(q)
<1> USE DEF IInv
<1>1. /\ p = Peer[e] /\ Peer[q] \in Ends /\ Peer[q] # e /\ Peer[q] # p
  BY PeerType DEF Reads
<1>2. /\ unprocessed_bytes'[Peer[q]] = unprocessed_bytes[Peer[q]]
      /\ unprocessed_fds'[Peer[q]] = unprocessed_fds[Peer[q]]
      /\ wire'[q] = wire[q] /\ wire_fds'[q] = wire_fds[q] /\ batch'[Peer[q]] = batch[Peer[q]]
      /\ stream'[q] = stream[q] /\ UNCHANGED <<fds, incoming, received>>
  BY <1>1 DEF Reads, TypeOK
<1> QED BY <1>2 DEF UnderWay, QueuedFds, Arrived

(* A read keeps the invariant: for the end that reads, for its peer, whose *)
(* descriptors it acknowledges, and for the others.                        *)
LEMMA ReadStep ==
    ASSUME IInv, NEW e \in Ends, read_incoming_messages(e), "IN" \in revents[e]
    PROVE  PostedFromOutbox' /\ InOrder' /\ DescriptorsFollow' /\ RetainedUntilReceived'
<1> USE DEF IInv
<1>1. PICK p \in Ends, units \in Seq(Units), ds \in Seq(Fds) : Reads(e, p, units, ds)
  BY ReadingReads
<1>2. io[e] = "read" /\ p = Peer[e] /\ p # e /\ Peer[p] = e
  BY <1>1, ReadingReads, PeerType DEF Reads
<1>3. UNCHANGED <<posted, main>>
  BY <1>1 DEF Reads
<1>4. \A q \in Ends : BeingPosted(q)' = BeingPosted(q) /\ Posted(q)' = Posted(q)
  BY <1>3 DEF BeingPosted, NextToPost, Posted
<1>5. PostedFromOutbox'
  BY <1>3 DEF PostedFromOutbox
<1>6. PICK st \in Seq(Units) : st = stream[p]
  BY DEF TypeOK
<1>7. PICK sf \in Seq(Fds) : sf = fds[p]
  BY DEF TypeOK
<1>8. /\ UnderWay(p) = Cat(units, st)
      /\ UnderWay(p)' = Cat(RestOf(units, ds), st)
      /\ QueuedFds(p) = Cat(ds, sf)
      /\ QueuedFds(p)' = Cat(LeftOf(units, ds), sf)
      /\ Arrived(p)' = Cat(Arrived(p), Batch(units, ds))
  BY <1>1, <1>2, <1>6, <1>7, ReadFromPeer
<1>9. /\ MessagesIn[UnderWay(e)'] = MessagesIn[UnderWay(e)]
      /\ AcknowledgedIn[UnderWay(e)'] = AcknowledgedIn[UnderWay(e)] + Taken(units, ds)
      /\ QueuedFds(e)' = QueuedFds(e) /\ Arrived(e)' = Arrived(e)
  BY <1>1, ReadAcknowledges
<1>10. Owned(MessagesIn[Cat(units, st)], Cat(ds, sf))
  BY <1>8 DEF DescriptorsFollow
<1>11. /\ \A i \in 1..Len(Batch(units, ds)) :
             Batch(units, ds)[i].fds = Descriptors(Batch(units, ds)[i].msg)
       /\ Owned(MessagesIn[Cat(RestOf(units, ds), st)], Cat(LeftOf(units, ds), sf))
       /\ Drop(Cat(ds, sf), Taken(units, ds)) = Cat(LeftOf(units, ds), sf)
  BY <1>10, ReadOwned
<1>12. DescriptorsFollow'
  <2> SUFFICES ASSUME NEW q \in Ends
               PROVE  Owned(MessagesIn[UnderWay(q)'], QueuedFds(q)')
    BY DEF DescriptorsFollow
  <2>1. Owned(MessagesIn[UnderWay(q)], QueuedFds(q))
    BY DEF DescriptorsFollow
  <2>2. CASE q = p
    BY <1>8, <1>11, <2>2
  <2>3. CASE q = e
    BY <1>9, <2>1, <2>3
  <2>4. CASE q # p /\ q # e
    <3>1. UnderWay(q)' = UnderWay(q) /\ QueuedFds(q)' = QueuedFds(q)
      BY <1>1, <2>4, ReadOthers
    <3> QED BY <2>1, <3>1
  <2> QED BY <2>2, <2>3, <2>4
<1>13. InOrder'
  <2> SUFFICES ASSUME NEW q \in Ends
               PROVE  /\ MessagesOf(Arrived(q)') \o MessagesIn[UnderWay(q)'] = Posted(q)'
                      /\ \A i \in DOMAIN Arrived(q)' :
                            (Arrived(q)')[i].fds = Descriptors((Arrived(q)')[i].msg)
    BY DEF InOrder, MessagesOf
  <2>1. /\ MessagesOf(Arrived(q)) \o MessagesIn[UnderWay(q)] = Posted(q)
        /\ \A i \in DOMAIN Arrived(q) : Arrived(q)[i].fds = Descriptors(Arrived(q)[i].msg)
    BY DEF InOrder, MessagesOf
  <2>2. CASE q = p
    <3>1. PICK h \in Seq(Delivered) : h = Arrived(p)
      BY FlowType
    <3>2. PICK b \in Seq(Delivered) : b = Batch(units, ds)
      BY BatchType
    <3>3. PICK ms \in Seq(Messages) : ms = Handled(units, ds)
      BY ReadParts
    <3>4. MessagesOf(b) = ms
      BY <3>2, <3>3, BatchType
    <3>5. PICK u \in Seq(Units) : u = Cat(RestOf(units, ds), st)
      BY ReadSplit
    <3>6. PICK later \in Seq(Messages) : later = MessagesIn[u]
      BY MessagesInDef
    <3>7. MessagesIn[Cat(units, st)] = Cat(ms, later)
      BY <3>3, <3>5, <3>6, ReadSplit
    <3>8. PICK mh \in Seq(Messages) : mh = MessagesOf(h)
      BY MessagesOfType
    <3>9. MessagesOf(Cat(h, b)) = Cat(mh, ms)
      BY <3>4, <3>8, MessagesOfConcat DEF Cat
    <3>10. Cat(mh, Cat(ms, later)) = Posted(p)
      BY <1>8, <2>1, <2>2, <3>1, <3>7, <3>8 DEF Cat
    <3>11. Cat(Cat(mh, ms), later) = Cat(mh, Cat(ms, later))
      BY CatLaws
    <3>12. Cat(MessagesOf(Arrived(p)'), MessagesIn[UnderWay(p)']) = Posted(p)'
      BY <1>4, <1>8, <3>1, <3>2, <3>5, <3>6, <3>9, <3>10, <3>11
    <3>13. ASSUME NEW i \in DOMAIN (h \o b)
           PROVE  (h \o b)[i].fds = Descriptors((h \o b)[i].msg)
      <4>1. Len(h) \in Nat /\ Len(b) \in Nat /\ DOMAIN h = 1..Len(h)
        BY LenProperties
      <4>2. /\ h \o b \in Seq(Delivered) /\ Len(h \o b) = Len(h) + Len(b)
            /\ \A k \in 1..Len(h) + Len(b) :
                  (h \o b)[k] = IF k <= Len(h) THEN h[k] ELSE b[k - Len(h)]
        BY ConcatProperties
      <4>3. DOMAIN (h \o b) = 1..Len(h) + Len(b)
        BY <4>2, LenProperties
      <4>4. i \in 1..Len(h) + Len(b)
        BY <4>3
      <4>5. CASE i <= Len(h)
        <5>1. i \in DOMAIN h /\ (h \o b)[i] = h[i]
          BY <4>1, <4>2, <4>4, <4>5
        <5>2. h[i].fds = Descriptors(h[i].msg)
          BY <2>1, <2>2, <3>1, <5>1
        <5> QED BY <5>1, <5>2
      <4>6. CASE ~(i <= Len(h))
        <5>1. i - Len(h) \in 1..Len(b)
          BY <4>1, <4>4, <4>6
        <5>2. (h \o b)[i] = b[i - Len(h)]
          BY <4>2, <4>4, <4>6
        <5>3. b[i - Len(h)].fds = Descriptors(b[i - Len(h)].msg)
          BY <1>11, <3>2, <5>1
        <5> QED BY <5>2, <5>3
      <4> QED BY <4>5, <4>6
    <3>14. Arrived(p)' = h \o b
      BY <1>8, <3>1, <3>2 DEF Cat
    <3> QED BY <2>2, <3>12, <3>13, <3>14 DEF Cat
  <2>3. CASE q = e
    BY <1>4, <1>9, <2>1, <2>3
  <2>4. CASE q # p /\ q # e
    <3>1. UnderWay(q)' = UnderWay(q) /\ Arrived(q)' = Arrived(q)
      BY <1>1, <2>4, ReadOthers
    <3> QED BY <1>4, <2>1, <3>1
  <2> QED BY <2>2, <2>3, <2>4
<1>14. RetainedUntilReceived'
  <2> SUFFICES ASSUME NEW q \in Ends
               PROVE  /\ AcknowledgedIn[UnderWay(Peer[q])'] <= Len(retained'[q])
                      /\ Drop(retained'[q], AcknowledgedIn[UnderWay(Peer[q])'])
                            = QueuedFds(q)' \o BeingPosted(q)'
    BY DEF RetainedUntilReceived, QueuedFds
  <2>1. /\ AcknowledgedIn[UnderWay(Peer[q])] <= Len(retained[q])
        /\ Drop(retained[q], AcknowledgedIn[UnderWay(Peer[q])])
              = QueuedFds(q) \o BeingPosted(q)
    BY DEF RetainedUntilReceived, QueuedFds
  <2>2. BeingPosted(q)' = BeingPosted(q)
    BY <1>4
  <2>3. PICK r \in Seq(Fds) : r = retained[q]
    BY DEF TypeOK
  <2>4. Len(r) \in Nat
    BY LenProperties
  <2>5. CASE q = e
    <3>1. PICK a \in Nat : a = AcknowledgedIn[Processable(units, ds)]
      BY ReadParts
    <3>2. PICK u \in Seq(Units) : u = Cat(RestOf(units, ds), st)
      BY ReadSplit
    <3>3. PICK b \in Nat : b = AcknowledgedIn[u]
      BY AcknowledgedInDef
    <3>4. AcknowledgedIn[Cat(units, st)] = a + b
      BY <3>1, <3>2, <3>3, ReadSplit
    <3>5. a + b <= Len(r) /\ Drop(r, a + b) = QueuedFds(e) \o BeingPosted(e)
      BY <1>2, <1>8, <2>1, <2>3, <2>5, <3>4
    <3>6. Drop(Drop(r, a), b) = Drop(r, a + b)
      BY <3>5, DropDrop
    <3>7. a \in 0..Len(r)
      BY <2>4, <3>5
    <3>8. Len(Drop(r, a)) = Len(r) - a
      BY <3>7, Cut
    <3>9. b <= Len(Drop(r, a))
      BY <2>4, <3>5, <3>8
    <3>10. retained'[e] = Drop(r, a)
      BY <1>1, <2>3, <2>5, <3>1 DEF Reads, TypeOK
    <3>11. AcknowledgedIn[UnderWay(Peer[e])'] = b
      BY <1>2, <1>8, <3>2, <3>3
    <3> QED BY <1>9, <2>2, <2>5, <3>5, <3>6, <3>9, <3>10, <3>11
  <2>6. CASE q = p
    <3>1. UnderWay(e) \in Seq(Units)
      BY FlowType
    <3>2. PICK a \in Nat : a = AcknowledgedIn[UnderWay(e)]
      BY <3>1, AcknowledgedInDef
    <3>3. PICK n \in 0..Len(ds) : n = Taken(units, ds)
      BY ReadParts
    <3>4. PICK all \in Seq(Fds) : all = Cat(ds, sf)
      BY ConcatProperties DEF Cat
    <3>5. PICK bp \in Seq(Fds) : bp = BeingPosted(p)
      <4>1. CASE main[p] = "posting"
        <5>1. posted[p] < Len(Outbox[p])
          BY <4>1 DEF PostedFromOutbox
        <5> QED BY <4>1, <5>1, NextToPostType, DescriptorsType DEF BeingPosted
      <4>2. CASE main[p] # "posting"
        <5>1. << >> \in Seq(Fds)
          OBVIOUS
        <5>2. BeingPosted(p) = << >>
          BY <4>2 DEF BeingPosted
        <5> QED BY <5>1, <5>2
      <4> QED BY <4>1, <4>2
    <3>6. Len(ds) \in Nat /\ Len(sf) \in Nat /\ Len(all) \in Nat /\ Len(bp) \in Nat
      BY LenProperties
    <3>7. Len(all) = Len(ds) + Len(sf) /\ Len(all \o bp) = Len(all) + Len(bp)
      BY <3>4, ConcatProperties DEF Cat
    <3>8. a <= Len(r) /\ Drop(r, a) = all \o bp
      BY <1>2, <1>8, <2>1, <2>3, <2>6, <3>2, <3>4, <3>5
    <3>9. a \in 0..Len(r)
      BY <2>4, <3>8
    <3>10. Len(Drop(r, a)) = Len(r) - a
      BY <3>9, Cut
    <3>11. n \in Nat /\ n \in 0..Len(all) /\ a + n <= Len(r)
      BY <2>4, <3>6, <3>7, <3>8, <3>10
    <3>12. Drop(Drop(r, a), n) = Drop(r, a + n)
      BY <3>11, DropDrop
    <3>13. Drop(all \o bp, n) = Drop(all, n) \o bp
      BY <3>11, DropConcat
    <3>14. Drop(all, n) = QueuedFds(p)'
      BY <1>8, <1>11, <3>3, <3>4
    <3>15. Drop(r, a + n) = QueuedFds(p)' \o bp
      BY <3>8, <3>12, <3>13, <3>14
    <3>16. retained'[p] = r
      BY <1>1, <1>2, <2>3, <2>6 DEF Reads, TypeOK
    <3>17. AcknowledgedIn[UnderWay(Peer[p])'] = a + n
      BY <1>2, <1>9, <3>2, <3>3
    <3> QED BY <2>2, <2>6, <3>5, <3>11, <3>15, <3>16, <3>17
  <2>7. CASE q # p /\ q # e
    <3>1. Peer[q] \in Ends /\ Peer[q] # e /\ Peer[q] # p
      BY <1>2, <2>7, PeerType
    <3>2. UnderWay(Peer[q])' = UnderWay(Peer[q])
      BY <1>1, <3>1, ReadOthers
    <3>3. QueuedFds(q)' = QueuedFds(q)
      BY <1>1, <2>7, ReadOthers
    <3>4. retained'[q] = retained[q]
      BY <1>1, <2>7 DEF Reads, TypeOK
    <3> QED BY <2>1, <2>2, <3>2, <3>3, <3>4
  <2> QED BY <2>5, <2>6, <2>7
<1> QED BY <1>5, <1>12, <1>13, <1>14

-----------------------------------------------------------------------------
(* The invariant holds at first: nothing has been posted.                  *)
LEMMA InitIInv == Init => IInv
<1> SUFFICES ASSUME Init PROVE IInv
  OBVIOUS
<1>1. TypeOK
  <2>1. << >> \in Seq(Units) /\ << >> \in Seq(Fds) /\ << >> \in Seq(Delivered)
    OBVIOUS
  <2>2. /\ stream \in [Ends -> Seq(Units)] /\ unprocessed_bytes \in [Ends -> Seq(Units)]
        /\ wire \in [Ends -> Seq(Units)]
    BY <2>1 DEF Init
  <2>3. /\ fds \in [Ends -> Seq(Fds)] /\ retained \in [Ends -> Seq(Fds)]
        /\ unprocessed_fds \in [Ends -> Seq(Fds)] /\ wire_fds \in [Ends -> Seq(Fds)]
    BY <2>1 DEF Init
  <2>4. /\ batch \in [Ends -> Seq(Delivered)] /\ received \in [Ends -> Seq(Delivered)]
        /\ incoming \in [Ends -> Seq(Delivered)]
    BY <2>1 DEF Init
  <2>5. want_to_write \in [Ends -> BOOLEAN]
    BY Zenon DEF Init
  <2> QED BY <2>2, <2>3, <2>4, <2>5 DEF Init, TypeOK
<1>2. PostedFromOutbox
  <2>1. \A e \in Ends : Len(Outbox[e]) \in Nat
    BY TransportAssumption, LenProperties
  <2> QED BY <2>1 DEF Init, PostedFromOutbox
<1>3. StoppedUnlessFlushing /\ BatchInDelivery
  BY DEF Init, StoppedUnlessFlushing, BatchInDelivery
<1>4. ASSUME NEW e \in Ends
      PROVE  Arrived(e) = << >> /\ UnderWay(e) = << >> /\ QueuedFds(e) = << >>
  <2>1. << >> \o << >> \o << >> = << >>
    OBVIOUS
  <2>2. Peer[e] \in Ends
    BY PeerType
  <2> QED BY <2>1, <2>2 DEF Init, Arrived, UnderWay, QueuedFds
<1>5. MessagesIn[<< >>] = << >> /\ AcknowledgedIn[<< >>] = 0 /\ FdsNeeded[<< >>] = 0
  <2>1. << >> \in Seq(Units) /\ << >> \in Seq(Messages)
    OBVIOUS
  <2> QED BY <2>1, MessagesInDef, AcknowledgedInDef, FdsNeededDef
<1>6. InOrder
  <2> SUFFICES ASSUME NEW e \in Ends
               PROVE  /\ MessagesOf(Arrived(e)) \o MessagesIn[UnderWay(e)] = Posted(e)
                      /\ \A i \in DOMAIN Arrived(e) :
                            Arrived(e)[i].fds = Descriptors(Arrived(e)[i].msg)
    BY DEF InOrder, MessagesOf
  <2>1. Outbox[e] \in Seq(Messages)
    BY TransportAssumption
  <2>2. Posted(e) = << >>
    BY <2>1, SubSeqEmpty DEF Init, Posted
  <2>3. MessagesOf(<< >>) = << >>
    BY DEF MessagesOf
  <2>4. DOMAIN << >> = {} /\ << >> \o << >> = << >>
    OBVIOUS
  <2> QED BY <1>4, <1>5, <2>2, <2>3, <2>4
<1>7. DescriptorsFollow
  <2>1. Len(<< >>) = 0
    OBVIOUS
  <2>2. Owned(<< >>, << >>)
    BY <1>5, <2>1 DEF Owned
  <2> QED BY <1>4, <1>5, <2>2 DEF DescriptorsFollow
<1>8. RetainedUntilReceived
  <2> SUFFICES ASSUME NEW q \in Ends
               PROVE  /\ AcknowledgedIn[UnderWay(Peer[q])] <= Len(retained[q])
                      /\ Drop(retained[q], AcknowledgedIn[UnderWay(Peer[q])])
                            = QueuedFds(q) \o BeingPosted(q)
    BY DEF RetainedUntilReceived, QueuedFds
  <2>1. UnderWay(Peer[q]) = << >> /\ QueuedFds(q) = << >>
    BY <1>4, PeerType
  <2>2. retained[q] = << >> /\ BeingPosted(q) = << >>
    BY DEF Init, BeingPosted
  <2>3. Len(<< >>) = 0 /\ 0 <= 0 /\ << >> \o << >> = << >>
    OBVIOUS
  <2>4. Drop(<< >>, 0) = << >>
    BY DEF Drop
  <2> QED BY <1>5, <2>1, <2>2, <2>3, <2>4
<1> QED BY <1>1, <1>2, <1>3, <1>6, <1>7, <1>8 DEF IInv

(* Every step of every thread keeps the invariant.                         *)
LEMMA StepIInv ==
    ASSUME IInv, [Next]_vars
    PROVE  IInv'
<1>1. CASE UNCHANGED vars
  <2>1. Still
    BY <1>1
       DEF Still, vars, threadVars, mainVars, queueVars, readVars, socketVars
  <2>2. Calm
    BY <2>1, StillIsCalm
  <2>3. TypeOK'
    BY <1>1
       DEF IInv, TypeOK, vars, threadVars, mainVars, queueVars, readVars, socketVars, pipeVars
  <2>4. StoppedUnlessFlushing'
    BY <1>1 DEF IInv, StoppedUnlessFlushing, vars, threadVars, mainVars
  <2> QED BY <2>2, <2>3, <2>4, CalmKeeps DEF IInv
<1>2. CASE Next
  <2>1. PICK e \in Ends : IOThread(e) \/ MainThread(e) \/ Owner(e)
    BY <1>2 DEF Next
  <2>2. TypeOK /\ StoppedUnlessFlushing /\ PostedFromOutbox
    BY DEF IInv
  <2>3. StoppedUnlessFlushing'
    BY <2>1, <2>2, StoppedKept
  <2>4. CASE Calm /\ TypeOK'
    BY <2>3, <2>4, CalmKeeps DEF IInv
  <2>5. CASE transfer_data(e)
    BY <2>4, <2>5, WritingIsCalm
  <2>6. CASE read_incoming_messages(e) /\ "IN" \in revents[e]
    BY <2>3, <2>6, ReadingType, ReadStep DEF IInv
  <2>7. CASE read_incoming_messages(e) /\ "IN" \notin revents[e]
    <3>1. /\ Goto(e, AfterRead(e)) /\ wakeup' = WakeupsLeft(e) /\ io[e] = "read"
          /\ UNCHANGED <<batch, queueVars, readVars, wire, wire_fds>>
          /\ UNCHANGED <<io_thread_state, want_to_write, mainVars, open, notified>>
      BY <2>7 DEF read_incoming_messages
    <3>2. /\ io' \in [Ends -> {"top", "load", "poll", "read", "deliver", "eof", "hup", "write",
                               "finish", "done", "crashed"}]
          /\ revents' \in [Ends -> SUBSET {"IN", "HUP", "OUT", "WAKEUP"}]
      BY <2>2, <3>1, PlaceAfterRead, GotoType
    <3>3. wakeup' \in SUBSET Ends
      BY <2>2, <3>1 DEF WakeupsLeft, TypeOK
    <3>4. TypeOK'
      BY <2>2, <3>1, <3>2, <3>3 DEF TypeOK, queueVars, readVars, mainVars
    <3>5. \A q \in Ends : io[q] = "deliver" => io'[q] = "deliver"
      BY <2>2, <3>1 DEF Goto, TypeOK
    <3>6. Still
      BY <3>1, <3>5 DEF Still, queueVars, readVars, mainVars
    <3> QED BY <2>4, <3>4, <3>6, StillIsCalm
  <2>8. CASE IOThread(e) /\ ~read_incoming_messages(e) /\ ~transfer_data(e)
    <3>1. TypeOK'
      BY <2>2, <2>8, IOThreadType
    <3>2. CASE DeliverBatch(e)
      BY <2>4, <3>1, <3>2, HandingOverIsCalm
    <3>3. CASE ~DeliverBatch(e)
      <4>1. Still
        BY <2>2, <2>8, <3>3, StillSteps DEF IOThread
      <4> QED BY <2>4, <3>1, <4>1, StillIsCalm
    <3> QED BY <3>2, <3>3
  <2>9. CASE MainThread(e) \/ Owner(e)
    <3>1. TypeOK'
      BY <2>2, <2>9, MainType
    <3>2. CASE post_message(e)
      BY <2>3, <3>1, <3>2, PostStep DEF IInv
    <3>3. CASE RetainDescriptors(e)
      BY <2>3, <3>1, <3>3, RetainStep DEF IInv
    <3>4. CASE ReadHook(e) \/ DrainInCall(e)
      BY <2>4, <3>1, <3>4, TakingIsCalm
    <3>5. CASE ~post_message(e) /\ ~RetainDescriptors(e) /\ ~ReadHook(e) /\ ~DrainInCall(e)
      <4>1. Still
        BY <2>2, <2>9, <3>5, StillSteps DEF MainThread, Owner
      <4> QED BY <2>4, <3>1, <4>1, StillIsCalm
    <3> QED BY <3>2, <3>3, <3>4, <3>5
  <2> QED BY <2>1, <2>5, <2>6, <2>7, <2>8, <2>9
<1> QED BY <1>1, <1>2

(* So it always holds.                                                     *)
LEMMA AlwaysIInv == Spec => []IInv
<1>1. Init => IInv
  BY InitIInv
<1>2. IInv /\ [Next]_vars => IInv'
  BY StepIInv
<1> QED BY <1>1, <1>2, PTL DEF Spec

(* Whatever the messages, the descriptors they carry, the capacity of the  *)
(* socket and the way writes are cut up, and whichever end closes when:    *)
(* what the main thread of one end has got, then what its transport holds  *)
(* and the socket carries, is what post_message was given at the other     *)
(* end, each message once, in order and with its own descriptors.          *)
THEOREM MessagesInOrder == Spec => []InOrder
<1>1. IInv => InOrder
  BY DEF IInv
<1> QED BY <1>1, AlwaysIInv, PTL

(* m_fds_retained_until_received_by_peer holds, at every moment, exactly   *)
(* the descriptors the peer has acknowledged without this end having read  *)
(* it yet, and after them those the peer has not taken: none is released   *)
(* early, none is forgotten, and an acknowledgement never finds the queue  *)
(* too short.                                                              *)
THEOREM DescriptorsRetained == Spec => []Inv
<1>1. IInv => Inv
  BY DEF IInv, Inv
<1> QED BY <1>1, AlwaysIInv, PTL

(* The VERIFY at the end of io_thread_loop fails in no other situation     *)
(* than one: the main thread has asked for pending messages to be sent     *)
(* between the thread's decision to stop and the VERIFY.                   *)
THEOREM VerifyFailsOnlyWhenFlushing == Spec => []StoppedUnlessFlushing
<1>1. IInv => StoppedUnlessFlushing
  BY DEF IInv
<1> QED BY <1>1, AlwaysIInv, PTL

=============================================================================
