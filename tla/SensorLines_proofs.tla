-------------------------- MODULE SensorLines_proofs --------------------------
(***************************************************************************)
(* Induction over numbers and over sequences, and what NumbersOf returns.  *)
(*                                                                         *)
(* The induction theorems of the library take an operator as parameter;    *)
(* these take the set of the values that have the property.                *)
(***************************************************************************)
EXTENDS SensorLines, SequenceTheorems, WellFoundedInduction, TLAPS

(* There is no infinite descent in the natural numbers. *)
LEMMA LessThanWellFounded == IsWellFoundedOn({p \in Nat \X Nat : p[1] < p[2]}, Nat)
  BY NatLessThanWellFounded DEF OpToRel

(* Induction: a set that holds 0 and with n also n + 1 holds every number. *)
LEMMA Induction ==
  ASSUME NEW Q, 0 \in Q, \A n \in Nat : n \in Q => n + 1 \in Q
  PROVE  \A n \in Nat : n \in Q
<1>. DEFINE R == {p \in Nat \X Nat : p[1] < p[2]}
<1>1. SUFFICES ASSUME Nat \ Q # {} PROVE FALSE
  OBVIOUS
<1>2. \E n \in Nat \ Q : \A m \in Nat \ Q : <<m, n>> \notin R
  <2>1. IsWellFoundedOn(R, Nat)
    BY LessThanWellFounded
  <2>. HIDE DEF R
  <2> QED
    BY <2>1, <1>1, WFMin
<1>3. PICK n \in Nat \ Q : \A m \in Nat \ Q : ~(m < n)
  BY <1>2
<1>4. n # 0 /\ n - 1 \in Nat
  BY <1>3
<1>5. n - 1 \in Q
  BY <1>3, <1>4
<1> QED
  BY <1>3, <1>4, <1>5

(* A sequence that is not empty is a shorter one with an element appended. *)
LEMMA FrontAndLast ==
  ASSUME NEW S, NEW q \in Seq(S), Len(q) # 0
  PROVE  \E p \in Seq(S), x \in S : q = Append(p, x) /\ Len(p) = Len(q) - 1
<1>. DEFINE p == [i \in 1..(Len(q) - 1) |-> q[i]]
<1>1. p \in Seq(S) /\ Len(p) = Len(q) - 1
  OBVIOUS
<1>2. q[Len(q)] \in S
  OBVIOUS
<1>3. q = Append(p, q[Len(q)])
  BY <1>1, <1>2
<1> QED
  BY <1>1, <1>2, <1>3

(* Induction over sequences: a set that holds the empty sequence and with q  *)
(* also q with an element appended holds every sequence.                     *)
LEMMA SequenceInduction ==
  ASSUME NEW S, NEW T, <<>> \in T,
         \A q \in Seq(S) : \A x \in S : q \in T => Append(q, x) \in T
  PROVE  \A q \in Seq(S) : q \in T
<1>. DEFINE Q == {n \in Nat : \A q \in Seq(S) : Len(q) = n => q \in T}
<1>1. 0 \in Q
  <2>1. \A q \in Seq(S) : Len(q) = 0 => q = <<>>
    OBVIOUS
  <2> QED
    BY <2>1
<1>2. ASSUME NEW n \in Nat, n \in Q PROVE n + 1 \in Q
  <2>1. ASSUME NEW q \in Seq(S), Len(q) = n + 1 PROVE q \in T
    <3>1. PICK p \in Seq(S), x \in S : q = Append(p, x) /\ Len(p) = Len(q) - 1
      BY <2>1, FrontAndLast
    <3>2. Len(p) = n
      BY <2>1, <3>1
    <3>3. p \in T
      BY <1>2, <3>2
    <3> QED
      BY <3>1, <3>3
  <2> QED
    BY <2>1
<1>3. \A n \in Nat : n \in Q
  <2>. HIDE DEF Q
  <2> QED
    BY <1>1, <1>2, Induction
<1>4. \A q \in Seq(S) : Len(q) \in Nat
  OBVIOUS
<1> QED
  BY <1>3, <1>4

(* A sequence of one sample is the sequence of its first.                    *)
LEMMA Singleton ==
  ASSUME NEW S, NEW q \in Seq(S), Len(q) = 1
  PROVE  q[1] \in S /\ q = <<q[1]>>
<1>1. q \in [1..1 -> S]
  BY SMTT(30)
<1>2. <<q[1]>> \in [1..1 -> S] /\ <<q[1]>>[1] = q[1]
  BY <1>1
<1>3. \A i \in 1..1 : q[i] = <<q[1]>>[i]
  BY <1>2
<1> QED
  BY <1>1, <1>2, <1>3

-------------------------------------------------------------------------------
(* NumbersOf *)

(* The recursive function exists, so it satisfies its equation. *)
LEMMA NumbersUpToEquation ==
  ASSUME NEW s, NEW S, NEW q \in Seq(S)
  PROVE  NumbersUpTo(s, q) =
           [i \in 0..Len(q) |->
              IF i = 0 THEN <<>>
              ELSE IF q[i].src = s THEN Append(NumbersUpTo(s, q)[i - 1], q[i].seq)
                                   ELSE NumbersUpTo(s, q)[i - 1]]
<1>. DEFINE Step(f, i) == IF i = 0 THEN <<>>
                          ELSE IF q[i].src = s THEN Append(f[i - 1], q[i].seq)
                                               ELSE f[i - 1]
            Q == {n \in Nat : \E f : f = [i \in 0..n |-> Step(f, i)]}
<1>1. 0 \in Q
  <2>. DEFINE f == [i \in 0..0 |-> <<>>]
  <2>1. f = [i \in 0..0 |-> Step(f, i)]
    OBVIOUS
  <2> QED
    BY <2>1
<1>2. ASSUME NEW n \in Nat, n \in Q PROVE n + 1 \in Q
  <2>1. PICK f : f = [i \in 0..n |-> Step(f, i)]
    BY <1>2
  <2>. DEFINE g == [i \in 0..(n + 1) |-> IF i = n + 1 THEN Step(f, i) ELSE f[i]]
  <2>2. ASSUME NEW i \in 0..(n + 1) PROVE g[i] = Step(g, i)
    <3>1. CASE i = 0
      BY <3>1, <2>1
    <3>2. CASE i # 0
      <4>1. i - 1 \in 0..n /\ i - 1 # n + 1
        BY <3>2
      <4>2. g[i - 1] = f[i - 1]
        BY <4>1
      <4>3. Step(g, i) = Step(f, i)
        BY <4>2
      <4>4. CASE i = n + 1
        BY <4>3, <4>4
      <4>5. CASE i # n + 1
        <5>1. i \in 0..n
          BY <4>5
        <5>2. f[i] = Step(f, i)
          BY <2>1, <5>1
        <5> QED
          BY <4>3, <4>5, <5>2
      <4> QED
        BY <4>4, <4>5
    <3> QED
      BY <3>1, <3>2
  <2>3. g = [i \in 0..(n + 1) |-> Step(g, i)]
    <3>. HIDE DEF Step
    <3> QED
      BY <2>2
  <2>4. n + 1 \in Nat
    OBVIOUS
  <2> QED
    BY <2>3, <2>4
<1>3. Len(q) \in Q
  <2>1. \A n \in Nat : n \in Q
    <3>. HIDE DEF Q
    <3> QED
      BY <1>1, <1>2, Induction
  <2> QED
    BY <2>1, SMTT(30)
<1>4. \E f : f = [i \in 0..Len(q) |-> Step(f, i)]
  BY <1>3
<1>5. NumbersUpTo(s, q) = CHOOSE f : f = [i \in 0..Len(q) |-> Step(f, i)]
  BY DEF NumbersUpTo
<1>. HIDE DEF Step
<1>6. NumbersUpTo(s, q) = [i \in 0..Len(q) |-> Step(NumbersUpTo(s, q), i)]
  BY <1>4, <1>5
<1> QED
  BY <1>6 DEF Step

(* The equation at the two kinds of its argument. *)
LEMMA NumbersUpToStep ==
  ASSUME NEW s, NEW S, NEW q \in Seq(S)
  PROVE  /\ NumbersUpTo(s, q)[0] = <<>>
         /\ \A n \in Nat : n + 1 <= Len(q) =>
              NumbersUpTo(s, q)[n + 1] = IF q[n + 1].src = s
                                         THEN Append(NumbersUpTo(s, q)[n], q[n + 1].seq)
                                         ELSE NumbersUpTo(s, q)[n]
<1>. DEFINE F == NumbersUpTo(s, q)
            Step(i) == IF i = 0 THEN <<>>
                       ELSE IF q[i].src = s THEN Append(F[i - 1], q[i].seq) ELSE F[i - 1]
<1>1. F = [i \in 0..Len(q) |-> Step(i)]
  BY NumbersUpToEquation
<1>2. Len(q) \in Nat
  OBVIOUS
<1>3. \A i \in 0..Len(q) : F[i] = Step(i)
  <2>. HIDE DEF Step, F
  <2> QED
    BY <1>1
<1>4. F[0] = <<>>
  <2>1. 0 \in 0..Len(q)
    BY <1>2
  <2>2. F[0] = Step(0)
    BY <1>3, <2>1
  <2> QED
    BY <2>2
<1>5. ASSUME NEW n \in Nat, n + 1 <= Len(q)
      PROVE  F[n + 1] = IF q[n + 1].src = s THEN Append(F[n], q[n + 1].seq) ELSE F[n]
  <2>1. n + 1 \in 0..Len(q) /\ n + 1 # 0 /\ n + 1 - 1 = n
    BY <1>2, <1>5
  <2>2. F[n + 1] = Step(n + 1)
    BY <1>3, <2>1
  <2>. HIDE DEF F
  <2> QED
    BY <2>1, <2>2
<1> QED
  BY <1>4, <1>5

(* The numbers among the first samples do not depend on those that follow. *)
LEMMA NumbersUpToPrefix ==
  ASSUME NEW s, NEW S, NEW q \in Seq(S), NEW x \in S
  PROVE  \A n \in Nat : n <= Len(q) => NumbersUpTo(s, Append(q, x))[n] = NumbersUpTo(s, q)[n]
<1>. DEFINE F == NumbersUpTo(s, q)
            G == NumbersUpTo(s, Append(q, x))
            Q == {n \in Nat : n <= Len(q) => G[n] = F[n]}
<1>1. Append(q, x) \in Seq(S) /\ Len(Append(q, x)) = Len(q) + 1
  OBVIOUS
<1>2. /\ F[0] = <<>>
      /\ \A n \in Nat : n + 1 <= Len(q) =>
           F[n + 1] = IF q[n + 1].src = s THEN Append(F[n], q[n + 1].seq) ELSE F[n]
  <2>1. q \in Seq(S)
    OBVIOUS
  <2> QED
    BY <2>1, NumbersUpToStep
<1>3. /\ G[0] = <<>>
      /\ \A n \in Nat : n + 1 <= Len(q) + 1 =>
           G[n + 1] = IF Append(q, x)[n + 1].src = s
                      THEN Append(G[n], Append(q, x)[n + 1].seq) ELSE G[n]
  <2>. DEFINE r == Append(q, x)
  <2>1. r \in Seq(S) /\ Len(r) = Len(q) + 1
    BY <1>1
  <2>. HIDE DEF r
  <2>2. /\ NumbersUpTo(s, r)[0] = <<>>
        /\ \A n \in Nat : n + 1 <= Len(r) =>
             NumbersUpTo(s, r)[n + 1] = IF r[n + 1].src = s
                                        THEN Append(NumbersUpTo(s, r)[n], r[n + 1].seq)
                                        ELSE NumbersUpTo(s, r)[n]
    BY <2>1, NumbersUpToStep
  <2>3. \A n \in Nat : n + 1 <= Len(q) + 1 => n + 1 <= Len(r)
    BY <2>1
  <2> QED
    BY <2>2, <2>3 DEF r
<1>. HIDE DEF F, G
<1>4. 0 \in Q
  BY <1>2, <1>3
<1>5. ASSUME NEW n \in Nat, n \in Q PROVE n + 1 \in Q
  <2>1. SUFFICES ASSUME n + 1 <= Len(q) PROVE G[n + 1] = F[n + 1]
    OBVIOUS
  <2>2. n + 1 \in 1..Len(q) /\ n + 1 - 1 = n
    BY <2>1
  <2>3. Append(q, x)[n + 1] = q[n + 1]
    BY <2>2
  <2>4. G[n] = F[n]
    BY <1>5, <2>1
  <2>5. F[n + 1] = IF q[n + 1].src = s THEN Append(F[n], q[n + 1].seq) ELSE F[n]
    BY <1>2, <2>1
  <2>7. Len(q) \in Nat /\ n + 1 <= Len(q) + 1
    BY <2>1
  <2>6. G[n + 1] = IF q[n + 1].src = s THEN Append(G[n], q[n + 1].seq) ELSE G[n]
    BY <1>3, <2>7, <2>3
  <2> QED
    BY <2>4, <2>5, <2>6
<1>6. \A n \in Nat : n \in Q
  <2>. HIDE DEF Q
  <2> QED
    BY <1>4, <1>5, Induction
<1> QED
  BY <1>6 DEF F, G

(* The elements of S carry numbers. *)
Numbered(S) == \A x \in S : x.seq \in Nat

(* An empty channel has no numbers. *)
LEMMA NumbersOfEmpty == \A s : NumbersOf(s, <<>>) = <<>>
<1>1. TAKE s
<1>2. <<>> \in Seq({0}) /\ Len(<<>>) = 0
  OBVIOUS
<1>3. NumbersUpTo(s, <<>>)[0] = <<>>
  BY <1>2, NumbersUpToStep
<1> QED
  BY <1>2, <1>3 DEF NumbersOf

(* A sample sent to a channel adds its number when it is one of s. *)
LEMMA NumbersOfAppend ==
  ASSUME NEW s, NEW S, NEW q \in Seq(S), NEW x \in S
  PROVE  NumbersOf(s, Append(q, x)) = IF x.src = s THEN Append(NumbersOf(s, q), x.seq)
                                                   ELSE NumbersOf(s, q)
<1>1. Append(q, x) \in Seq(S) /\ Len(Append(q, x)) = Len(q) + 1 /\ Len(q) \in Nat
  OBVIOUS
<1>2. Append(q, x)[Len(q) + 1] = x
  OBVIOUS
<1>3. NumbersUpTo(s, Append(q, x))[Len(q)] = NumbersUpTo(s, q)[Len(q)]
  BY <1>1, NumbersUpToPrefix
<1>4. NumbersUpTo(s, Append(q, x))[Len(q) + 1]
        = IF x.src = s THEN Append(NumbersUpTo(s, Append(q, x))[Len(q)], x.seq)
                       ELSE NumbersUpTo(s, Append(q, x))[Len(q)]
  <2>. DEFINE r == Append(q, x)
  <2>1. r \in Seq(S) /\ Len(r) = Len(q) + 1 /\ Len(q) \in Nat /\ r[Len(q) + 1] = x
    BY <1>1, <1>2
  <2>. HIDE DEF r
  <2>2. \A n \in Nat : n + 1 <= Len(r) =>
             NumbersUpTo(s, r)[n + 1] = IF r[n + 1].src = s
                                        THEN Append(NumbersUpTo(s, r)[n], r[n + 1].seq)
                                        ELSE NumbersUpTo(s, r)[n]
    BY <2>1, NumbersUpToStep
  <2>3. Len(q) + 1 <= Len(r)
    BY <2>1
  <2>4. NumbersUpTo(s, r)[Len(q) + 1] = IF r[Len(q) + 1].src = s
                              THEN Append(NumbersUpTo(s, r)[Len(q)], r[Len(q) + 1].seq)
                              ELSE NumbersUpTo(s, r)[Len(q)]
    BY <2>1, <2>2, <2>3
  <2> QED
    BY <2>1, <2>4 DEF r
<1> QED
  BY <1>1, <1>3, <1>4 DEF NumbersOf

(* The numbers are numbers. *)
LEMMA NumbersOfType ==
  ASSUME NEW s, NEW S, Numbered(S)
  PROVE  \A q \in Seq(S) : NumbersOf(s, q) \in Seq(Nat)
<1>. DEFINE T == {q \in Seq(S) : NumbersOf(s, q) \in Seq(Nat)}
<1>1. <<>> \in T
  <2>1. <<>> \in Seq(S) /\ <<>> \in Seq(Nat)
    OBVIOUS
  <2>2. NumbersOf(s, <<>>) = <<>>
    BY NumbersOfEmpty
  <2>3. NumbersOf(s, <<>>) \in Seq(Nat)
    BY <2>1, <2>2
  <2> QED
    BY <2>1, <2>3
<1>2. ASSUME NEW q \in Seq(S), NEW x \in S, q \in T PROVE Append(q, x) \in T
  <2>1. x.seq \in Nat /\ NumbersOf(s, q) \in Seq(Nat)
    BY <1>2 DEF Numbered
  <2>2. Append(NumbersOf(s, q), x.seq) \in Seq(Nat)
    BY <2>1
  <2>3. NumbersOf(s, Append(q, x)) = IF x.src = s THEN Append(NumbersOf(s, q), x.seq)
                                                  ELSE NumbersOf(s, q)
    BY NumbersOfAppend
  <2>4. Append(q, x) \in Seq(S)
    OBVIOUS
  <2> QED
    BY <2>1, <2>2, <2>3, <2>4
<1>3. \A q \in Seq(S) : q \in T
  <2>. HIDE DEF T
  <2> QED
    BY <1>1, <1>2, SequenceInduction
<1> QED
  BY <1>3

(* The numbers of two channels, one behind the other. *)
LEMMA NumbersOfConcat ==
  ASSUME NEW s, NEW S, Numbered(S), NEW p \in Seq(S)
  PROVE  \A q \in Seq(S) : NumbersOf(s, p \o q) = NumbersOf(s, p) \o NumbersOf(s, q)
<1>. DEFINE T == {q \in Seq(S) : NumbersOf(s, p \o q) = NumbersOf(s, p) \o NumbersOf(s, q)}
<1>0. \A q \in Seq(S) : NumbersOf(s, q) \in Seq(Nat)
  BY NumbersOfType
<1>1. <<>> \in T
  <2>1. p \o <<>> = p
    OBVIOUS
  <2>2. NumbersOf(s, p) \o <<>> = NumbersOf(s, p)
    BY <1>0
  <2>3. NumbersOf(s, p \o <<>>) = NumbersOf(s, p) \o NumbersOf(s, <<>>)
    <3>1. NumbersOf(s, <<>>) = <<>>
      BY NumbersOfEmpty
    <3> QED
      BY <2>1, <2>2, <3>1
  <2>4. <<>> \in Seq(S)
    OBVIOUS
  <2> QED
    BY <2>3, <2>4
<1>2. ASSUME NEW q \in Seq(S), NEW x \in S, q \in T PROVE Append(q, x) \in T
  <2>1. p \o Append(q, x) = Append(p \o q, x) /\ p \o q \in Seq(S)
    OBVIOUS
  <2>2. NumbersOf(s, p \o q) = NumbersOf(s, p) \o NumbersOf(s, q)
    BY <1>2
  <2>3. \A a, b \in Seq(Nat) : \A n \in Nat : a \o Append(b, n) = Append(a \o b, n)
    OBVIOUS
  <2>4. NumbersOf(s, Append(p \o q, x))
          = IF x.src = s THEN Append(NumbersOf(s, p \o q), x.seq) ELSE NumbersOf(s, p \o q)
    <3>1. p \o q \in Seq(S) /\ x \in S
      BY <2>1
    <3>. DEFINE r == p \o q
    <3>. HIDE DEF r
    <3>2. NumbersOf(s, Append(r, x))
            = IF x.src = s THEN Append(NumbersOf(s, r), x.seq) ELSE NumbersOf(s, r)
      BY <3>1, NumbersOfAppend DEF r
    <3> QED
      BY <3>2 DEF r
  <2>5. NumbersOf(s, Append(q, x))
          = IF x.src = s THEN Append(NumbersOf(s, q), x.seq) ELSE NumbersOf(s, q)
    BY NumbersOfAppend
  <2>6. NumbersOf(s, p) \in Seq(Nat) /\ NumbersOf(s, q) \in Seq(Nat) /\ x.seq \in Nat
    BY <1>0 DEF Numbered
  <2>7. NumbersOf(s, Append(p \o q, x)) = NumbersOf(s, p) \o NumbersOf(s, Append(q, x))
    <3>1. CASE x.src = s
      <4>1. Append(NumbersOf(s, p) \o NumbersOf(s, q), x.seq)
              = NumbersOf(s, p) \o Append(NumbersOf(s, q), x.seq)
        BY <2>3, <2>6
      <4> QED
        BY <2>2, <2>4, <2>5, <3>1, <4>1
    <3>2. CASE x.src # s
      BY <2>2, <2>4, <2>5, <3>2
    <3> QED
      BY <3>1, <3>2
  <2>8. Append(q, x) \in Seq(S)
    OBVIOUS
  <2>9. NumbersOf(s, p \o Append(q, x)) = NumbersOf(s, p) \o NumbersOf(s, Append(q, x))
    BY <2>1, <2>7
  <2> QED
    BY <2>8, <2>9
<1>3. \A q \in Seq(S) : q \in T
  <2>. HIDE DEF T
  <2> QED
    BY <1>1, <1>2, SequenceInduction
<1> QED
  BY <1>3

(* One sample: its number if it is one of s. *)
LEMMA NumbersOfOne ==
  ASSUME NEW s, NEW S, NEW x \in S
  PROVE  NumbersOf(s, <<x>>) = IF x.src = s THEN <<x.seq>> ELSE <<>>
<1>1. <<x>> = Append(<<>>, x) /\ <<>> \in Seq(S)
  OBVIOUS
<1>2. Append(<<>>, x.seq) = <<x.seq>>
  OBVIOUS
<1>3. NumbersOf(s, Append(<<>>, x)) = IF x.src = s THEN Append(NumbersOf(s, <<>>), x.seq)
                                                   ELSE NumbersOf(s, <<>>)
  <2>. DEFINE e == <<>>
  <2>1. e \in Seq(S)
    OBVIOUS
  <2>. HIDE DEF e
  <2>2. NumbersOf(s, Append(e, x)) = IF x.src = s THEN Append(NumbersOf(s, e), x.seq)
                                                  ELSE NumbersOf(s, e)
    BY <2>1, NumbersOfAppend
  <2> QED
    BY <2>2 DEF e
<1>4. NumbersOf(s, <<>>) = <<>>
  BY NumbersOfEmpty
<1> QED
  BY <1>1, <1>2, <1>3, <1>4

(* The oldest sample of a channel and those behind it. *)
LEMMA NumbersOfHead ==
  ASSUME NEW s, NEW S, Numbered(S), NEW q \in Seq(S), q # <<>>
  PROVE  NumbersOf(s, q) = NumbersOf(s, <<Head(q)>>) \o NumbersOf(s, Tail(q))
<1>1. q = <<Head(q)>> \o Tail(q) /\ <<Head(q)>> \in Seq(S) /\ Tail(q) \in Seq(S)
  OBVIOUS
<1> QED
  BY <1>1, NumbersOfConcat, ZenonT(40)

(* As many numbers as in the two parts together. *)
LEMMA NumbersOfLen ==
  ASSUME NEW s, NEW S, Numbered(S), NEW p \in Seq(S), NEW q \in Seq(S)
  PROVE  /\ Len(NumbersOf(s, p \o q)) = Len(NumbersOf(s, p)) + Len(NumbersOf(s, q))
         /\ Len(NumbersOf(s, p)) \in Nat /\ Len(NumbersOf(s, q)) \in Nat
<1>1. NumbersOf(s, p) \in Seq(Nat) /\ NumbersOf(s, q) \in Seq(Nat)
  BY NumbersOfType
<1>2. NumbersOf(s, p \o q) = NumbersOf(s, p) \o NumbersOf(s, q)
  BY NumbersOfConcat
<1> QED
  BY <1>1, <1>2

-------------------------------------------------------------------------------
(* Ordered numbers, all below a bound.                                       *)
Ordered(q)  == \A i, j \in DOMAIN q : i < j => q[i] < q[j]
Below(q, n) == \A i \in DOMAIN q : q[i] < n

(* The next number goes to the end.                                          *)
LEMMA OrderedAppend ==
  ASSUME NEW q \in Seq(Nat), NEW n \in Nat, Ordered(q), Below(q, n)
  PROVE  Ordered(Append(q, n)) /\ Below(Append(q, n), n + 1)
<1> DEFINE r == Append(q, n)
<1>1. /\ r \in Seq(Nat) /\ Len(r) = Len(q) + 1 /\ Len(q) \in Nat
      /\ \A i \in 1..Len(q) : r[i] = q[i]
      /\ r[Len(q) + 1] = n
  OBVIOUS
<1>2. DOMAIN r = 1..(Len(q) + 1) /\ DOMAIN q = 1..Len(q) /\ \A i \in 1..Len(q) : q[i] \in Nat
  BY <1>1
<1> HIDE DEF r
<1>3. \A i \in 1..Len(q) : r[i] < n
  BY <1>1, <1>2 DEF Below
<1>4. Ordered(r)
  <2> SUFFICES ASSUME NEW i \in DOMAIN r, NEW j \in DOMAIN r, i < j PROVE r[i] < r[j]
    BY DEF Ordered
  <2>1. i \in 1..Len(q)
    BY <1>1, <1>2
  <2>2. CASE j = Len(q) + 1
    BY <1>1, <1>3, <2>1, <2>2
  <2>3. CASE j \in 1..Len(q)
    BY <1>1, <1>2, <2>1, <2>3 DEF Ordered
  <2> QED
    BY <1>1, <1>2, <2>2, <2>3
<1>5. Below(r, n + 1)
  BY <1>1, <1>2, <1>3 DEF Below
<1> QED
  BY <1>4, <1>5 DEF r

(* What a loss leaves of a line keeps its order and its bound.               *)
LEMMA OrderedWithout ==
  ASSUME NEW a \in Seq(Nat), NEW b \in Seq(Nat), NEW c \in Seq(Nat), NEW n \in Nat,
         Ordered(a \o b \o c), Below(a \o b \o c, n)
  PROVE  Ordered(a \o c) /\ Below(a \o c, n)
<1> DEFINE q == a \o b \o c
           r == a \o c
<1>1. /\ Len(a) \in Nat /\ Len(b) \in Nat /\ Len(c) \in Nat
      /\ DOMAIN q = 1..(Len(a) + Len(b) + Len(c)) /\ DOMAIN r = 1..(Len(a) + Len(c))
  OBVIOUS
<1>2. \A i \in 1..Len(a) : r[i] = q[i]
  OBVIOUS
<1>3. \A i \in (Len(a) + 1)..(Len(a) + Len(c)) : r[i] = q[i + Len(b)]
  OBVIOUS
<1>4. Ordered(q) /\ Below(q, n)
  OBVIOUS
<1> HIDE DEF q, r
<1> DEFINE at(i) == IF i <= Len(a) THEN i ELSE i + Len(b)
<1>6. ASSUME NEW i \in DOMAIN r PROVE at(i) \in DOMAIN q /\ r[i] = q[at(i)]
  <2>1. i \in Nat /\ 1 <= i /\ i <= Len(a) + Len(c)
    BY <1>1
  <2>2. CASE i <= Len(a)
    BY <1>1, <1>2, <2>1, <2>2
  <2>3. CASE ~(i <= Len(a))
    <3>1. i \in (Len(a) + 1)..(Len(a) + Len(c))
      BY <1>1, <2>1, <2>3
    <3>2. at(i) = i + Len(b) /\ i + Len(b) \in DOMAIN q
      BY <1>1, <2>1, <2>3
    <3> QED
      BY <1>3, <3>1, <3>2
  <2> QED
    BY <2>2, <2>3
<1>7. \A i, j \in DOMAIN r : i < j => at(i) < at(j)
  BY <1>1
<1> HIDE DEF at
<1>5. Below(r, n)
  BY <1>4, <1>6 DEF Below
<1>8. Ordered(r)
  BY <1>4, <1>6, <1>7 DEF Ordered
<1> QED
  BY <1>5, <1>8 DEF r

(* How lines of numbers can be regrouped.                                    *)
LEMMA Regroup ==
  /\ \A p, q, r \in Seq(Nat) : p \o q \o r = p \o (q \o r)
  /\ \A p, q \in Seq(Nat), n \in Nat : p \o Append(q, n) = Append(p \o q, n)
<1>1. ASSUME NEW p \in Seq(Nat), NEW q \in Seq(Nat), NEW r \in Seq(Nat)
      PROVE  p \o q \o r = p \o (q \o r)
  OBVIOUS
<1>2. ASSUME NEW p \in Seq(Nat), NEW q \in Seq(Nat), NEW n \in Nat
      PROVE  p \o Append(q, n) = Append(p \o q, n)
  OBVIOUS
<1> QED
  BY <1>1, <1>2

==============================================================================
