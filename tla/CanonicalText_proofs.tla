------------------------ MODULE CanonicalText_proofs ------------------------
(***************************************************************************)
(* Theorems about CanonicalText, for all formats whose decoders ask for    *)
(* what their encoders push: what is written is read, nothing else is, and *)
(* a refusal tells what is wrong.                                          *)
(*                                                                         *)
(* A text determines how it was written: after each of its lines, what was *)
(* still to be pushed.  A reader asks for just that as long as it has seen *)
(* what was written, and when it has seen a different flag or count it     *)
(* asks for something else before it gets to the end.                      *)
(***************************************************************************)
EXTENDS CanonicalText, SequenceTheorems, TLAPS

LEMMA SequenceIn ==
  ASSUME NEW q, IsSequence(q)
  PROVE  q \in Seq({q[i] : i \in 1..Len(q)})
BY DEF IsSequence

LEMMA SeqIsSequence ==
  ASSUME NEW S, NEW q \in Seq(S)
  PROVE  IsSequence(q)
BY DEF IsSequence

LEMMA EmptyIs ==
  /\ IsSequence(<<>>) /\ Len(<<>>) = 0
  /\ \A q : IsSequence(q) => (q = <<>> <=> Len(q) = 0)
<1>1. <<>> \in Seq({}) /\ Len(<<>>) = 0
  BY EmptySeq
<1>2. ASSUME NEW q, IsSequence(q), Len(q) = 0
      PROVE  q = <<>>
  BY <1>2, SequenceIn, EmptySeq
<1> QED
  BY <1>1, <1>2, SeqIsSequence

LEMMA AppendIs ==
  ASSUME NEW q, IsSequence(q), NEW x
  PROVE  /\ IsSequence(Append(q, x))
         /\ Len(Append(q, x)) = Len(q) + 1
         /\ \A i \in 1..Len(q) : Append(q, x)[i] = q[i]
         /\ Append(q, x)[Len(q) + 1] = x
<1> DEFINE S == {q[i] : i \in 1..Len(q)} \cup {x}
<1>1. q \in Seq(S) /\ x \in S
  BY DEF IsSequence
<1> HIDE DEF S
<1>2. Append(q, x) \in Seq(S)
  BY <1>1
<1>3. IsSequence(Append(q, x))
  BY <1>2, SeqIsSequence
<1>4. Len(Append(q, x)) = Len(q) + 1 /\ Append(q, x)[Len(q) + 1] = x
  BY <1>1
<1>5. \A i \in 1..Len(q) : Append(q, x)[i] = q[i]
  BY <1>1
<1> QED
  BY <1>3, <1>4, <1>5

Joined(x, p, q) ==
  /\ IsSequence(x) /\ Len(x) = Len(p) + Len(q)
  /\ \A i \in 1..Len(p) : x[i] = p[i]
  /\ \A i \in 1..Len(q) : x[Len(p) + i] = q[i]

LEMMA ConcatIs ==
  ASSUME NEW p, NEW q, IsSequence(p), IsSequence(q)
  PROVE  Joined(p \o q, p, q)
<1> DEFINE S == {p[i] : i \in 1..Len(p)} \cup {q[i] : i \in 1..Len(q)}
<1>1. p \in Seq(S) /\ q \in Seq(S)
  BY DEF IsSequence
<1> HIDE DEF S
<1>2. p \o q \in Seq(S)
  BY <1>1
<1>3. IsSequence(p \o q)
  BY <1>2, SeqIsSequence
<1>4. Len(p \o q) = Len(p) + Len(q)
  BY <1>1
<1>5. ASSUME NEW i \in 1..Len(q)
      PROVE  (p \o q)[Len(p) + i] = q[i]
  BY <1>1
<1>6. ASSUME NEW i \in 1..Len(p)
      PROVE  (p \o q)[i] = p[i]
  BY <1>1
<1> QED
  BY <1>3, <1>4, <1>5, <1>6 DEF Joined

LEMMA HeadTailIs ==
  ASSUME NEW q, IsSequence(q), Len(q) > 0
  PROVE  /\ Head(q) = q[1]
         /\ IsSequence(Tail(q)) /\ Len(Tail(q)) = Len(q) - 1
         /\ \A i \in 1..(Len(q) - 1) : Tail(q)[i] = q[i + 1]
<1> DEFINE S == {q[i] : i \in 1..Len(q)}
<1>1. q \in Seq(S)
  BY SequenceIn
<1> HIDE DEF S
<1>2. q # <<>>
  BY EmptyIs
<1>3. Tail(q) \in Seq(S) /\ Head(q) = q[1]
  BY <1>1, <1>2
<1>4. Len(Tail(q)) = Len(q) - 1
  BY <1>1, <1>2
<1>5. \A i \in 1..(Len(q) - 1) : Tail(q)[i] = q[i + 1]
  BY <1>1, <1>2
<1> QED
  BY <1>3, <1>4, <1>5, SeqIsSequence

\* What is left to do after the first of it.
LEMMA NextIs ==
  ASSUME NEW q, IsSequence(q), Len(q) > 0, NEW x, IsSequence(x)
  PROVE  /\ IsSequence(x \o Tail(q)) /\ Len(x \o Tail(q)) = Len(x) + Len(q) - 1
         /\ \A i \in 1..Len(x) : (x \o Tail(q))[i] = x[i]
         /\ \A i \in 2..Len(q) : (x \o Tail(q))[Len(x) + i - 1] = q[i]
<1>1. IsSequence(Tail(q)) /\ Len(Tail(q)) = Len(q) - 1 /\ \A i \in 1..(Len(q) - 1) : Tail(q)[i] = q[i + 1]
  BY HeadTailIs
<1>2. Len(x) \in Nat /\ Len(q) \in Nat
  BY DEF IsSequence
<1>3. /\ IsSequence(x \o Tail(q)) /\ Len(x \o Tail(q)) = Len(x) + (Len(q) - 1)
      /\ \A i \in 1..Len(x) : (x \o Tail(q))[i] = x[i]
      /\ \A i \in 1..(Len(q) - 1) : (x \o Tail(q))[Len(x) + i] = Tail(q)[i]
  <2>1. Joined(x \o Tail(q), x, Tail(q))
    BY <1>1, ConcatIs
  <2> QED
    BY <1>1, <2>1 DEF Joined
<1>4. ASSUME NEW i \in 2..Len(q)
      PROVE  (x \o Tail(q))[Len(x) + i - 1] = q[i]
  <2>1. i - 1 \in 1..(Len(q) - 1) /\ (i - 1) + 1 = i /\ Len(x) + (i - 1) = Len(x) + i - 1
    BY <1>2
  <2>2. (x \o Tail(q))[Len(x) + (i - 1)] = Tail(q)[i - 1] /\ Tail(q)[i - 1] = q[(i - 1) + 1]
    BY <1>1, <1>3, <2>1
  <2> QED
    BY <2>1, <2>2
<1> QED
  BY <1>2, <1>3, <1>4


-----------------------------------------------------------------------------
(***************************************************************************)
(* Fields, and what they bring with them.                                  *)
(***************************************************************************)
LEMMA PairIs ==
  ASSUME NEW f \in Formats, NEW x, NEW r, <<x, r>> \in FieldPairs(f)
  PROVE  /\ r.name = x.name /\ <<x.kind, r.kind>> \in Treatments
         /\ IsSequence(x.group) /\ IsSequence(r.group) /\ Len(r.group) = Len(x.group)
         /\ x.kind \in {"flag", "count"} => Len(x.group) > 0
         /\ \A i \in 1..Len(x.group) : <<x.group[i], r.group[i]>> \in FieldPairs(f)
<1> DEFINE p == <<x, r>>
<1>1. p[1] = x /\ p[2] = r
  OBVIOUS
<1>2. /\ p[2].name = p[1].name /\ <<p[1].kind, p[2].kind>> \in Treatments
      /\ IsSequence(p[1].group) /\ IsSequence(p[2].group) /\ Len(p[2].group) = Len(p[1].group)
      /\ p[1].kind \in {"flag", "count"} => Len(p[1].group) > 0
  BY ReadsFollowWrites
<1>3. GroupsOf(FieldPairs(f)) \subseteq FieldPairs(f)
  BY ReadsFollowWrites
<1>4. Abreast(p[1].group, p[2].group) \subseteq GroupsOf(FieldPairs(f))
  BY DEF GroupsOf
<1>5. ASSUME NEW i \in 1..Len(x.group)
      PROVE  <<x.group[i], r.group[i]>> \in FieldPairs(f)
  <2>1. <<x.group[i], r.group[i]>> \in Abreast(x.group, r.group)
    BY DEF Abreast
  <2> QED
    BY <1>1, <1>3, <1>4, <2>1
<1> HIDE DEF p
<1> QED
  BY <1>1, <1>2, <1>5

LEMMA GroupsAreAsLong ==
  ASSUME NEW f \in Formats, NEW x, NEW r, <<x, r>> \in FieldPairs(f)
  PROVE  Len(r.group) = Len(x.group)
<1> DEFINE p == <<x, r>>
<1>1. p[1] = x /\ p[2] = r
  OBVIOUS
<1>2. Len(p[2].group) = Len(p[1].group)
  BY ReadsFollowWrites
<1> HIDE DEF p
<1> QED
  BY <1>1, <1>2

LEMMA NamesAre ==
  ASSUME NEW f \in Formats, NEW x, NEW r, <<x, r>> \in FieldPairs(f)
  PROVE  /\ x.name # "unknown" /\ x.name \notin GroupNames(x)
         /\ \A i \in 1..Len(x.group) : Names(x.group[i]) \subseteq GroupNames(x)
         /\ \A i, j \in 1..Len(x.group) : i # j => Names(x.group[i]) \cap Names(x.group[j]) = {}
         /\ \A i, j \in 1..Len(Writes(f)) : i # j => Names(Writes(f)[i]) \cap Names(Writes(f)[j]) = {}
<1> DEFINE p == <<x, r>>
<1>1. p[1] = x
  OBVIOUS
<1>2. /\ p[1].name # "unknown" /\ p[1].name \notin GroupNames(p[1])
      /\ \A g \in Members(p[1]) : Names(g) \subseteq GroupNames(p[1])
      /\ \A s \in {Writes(f), p[1].group} :
           \A i, j \in 1..Len(s) : i # j => Names(s[i]) \cap Names(s[j]) = {}
  BY NamesTellTheFields
<1>3. \A i \in 1..Len(x.group) : x.group[i] \in Members(x)
  BY DEF Members
<1> HIDE DEF p
<1> QED
  BY <1>1, <1>2, <1>3

Apart(a, b) == \E i \in 1..Len(a) : i \in 1..Len(b) /\ a[i] # b[i]

Extends(a, b) == Len(b) <= Len(a) /\ \A i \in 1..Len(b) : a[i] = b[i]

\* The keys two entries bring with them differ.
Separate(e, g) == Names(e.field) \cap Names(g.field) = {} \/ Apart(e.at, g.at)

\* A key that the entry may bring with it.
InReach(key, e) == key.name \in Names(e.field) /\ Extends(key.at, e.at)

LEMMA ApartIs ==
  ASSUME NEW a, NEW b, IsSequence(a), IsSequence(b), Apart(a, b),
         NEW c, NEW d, IsSequence(c), IsSequence(d), Extends(c, a), Extends(d, b)
  PROVE  Apart(c, d) /\ c # d /\ Apart(d, c)
<1>1. PICK i \in 1..Len(a) : i \in 1..Len(b) /\ a[i] # b[i]
  BY DEF Apart
<1>2. i \in 1..Len(c) /\ i \in 1..Len(d) /\ c[i] = a[i] /\ d[i] = b[i]
  BY <1>1 DEF Extends, IsSequence
<1> QED
  BY <1>1, <1>2 DEF Apart

LEMMA ExtendsItself ==
  ASSUME NEW a, IsSequence(a)
  PROVE  Extends(a, a) /\ ~Apart(a, a)
BY DEF Extends, IsSequence, Apart

LEMMA ExtendsFurther ==
  ASSUME NEW a, NEW b, NEW c, IsSequence(a), IsSequence(b), IsSequence(c), Extends(a, b), Extends(b, c)
  PROVE  Extends(a, c)
BY DEF Extends, IsSequence

\* An index and its quotient and remainder.
LEMMA DivisionIs ==
  ASSUME NEW n \in Nat, n > 0, NEW k \in Nat
  PROVE  k % n \in 0..(n - 1) /\ k \div n \in Nat /\ k = n * (k \div n) + (k % n)
OBVIOUS

LEMMA ProductIs ==
  ASSUME NEW m \in Nat, NEW d \in Nat
  PROVE  d * m \in Nat
OBVIOUS

LEMMA ProductGrows ==
  ASSUME NEW m \in Nat, m > 0, NEW d \in Nat, NEW e \in Nat, d < e
  PROVE  d * m < e * m
OBVIOUS

LEMMA EntriesAre ==
  ASSUME NEW g, IsSequence(g), NEW at
  PROVE  /\ IsSequence(Entries(g, at)) /\ Len(Entries(g, at)) = Len(g)
         /\ \A i \in 1..Len(g) : Entries(g, at)[i] = [field |-> g[i], at |-> at]
BY DEF Entries, IsSequence

LEMMA RepeatedAre ==
  ASSUME NEW g, IsSequence(g), Len(g) > 0, NEW at, NEW d \in Nat
  PROVE  /\ IsSequence(Repeated(g, at, d)) /\ Len(Repeated(g, at, d)) = d * Len(g)
         /\ \A k \in 1..(d * Len(g)) :
              /\ ((k - 1) % Len(g)) + 1 \in 1..Len(g) /\ (k - 1) \div Len(g) \in Nat
              /\ Repeated(g, at, d)[k] = [field |-> g[((k - 1) % Len(g)) + 1],
                                          at    |-> Append(at, (k - 1) \div Len(g))]
<1>1. Len(g) \in Nat
  BY DEF IsSequence
<1> DEFINE n == d * Len(g)
<1>2. n \in Nat
  BY <1>1, ProductIs
<1>3. ASSUME NEW k \in 1..n
      PROVE  ((k - 1) % Len(g)) + 1 \in 1..Len(g) /\ (k - 1) \div Len(g) \in Nat
  <2>1. k - 1 \in Nat
    BY <1>2
  <2>2. (k - 1) % Len(g) \in 0..(Len(g) - 1) /\ (k - 1) \div Len(g) \in Nat
    BY <1>1, <2>1, DivisionIs
  <2> QED
    BY <1>1, <2>2
<1>4. Repeated(g, at, d) = [k \in 1..n |-> [field |-> g[((k - 1) % Len(g)) + 1],
                                            at    |-> Append(at, (k - 1) \div Len(g))]]
  BY DEF Repeated
<1> HIDE DEF n
<1>5. IsSequence(Repeated(g, at, d)) /\ Len(Repeated(g, at, d)) = n
  BY <1>2, <1>4 DEF IsSequence
<1> QED
  BY <1>3, <1>4, <1>5 DEF n

-----------------------------------------------------------------------------
(***************************************************************************)
(* What a field brings with it is of its group, in its reach, and apart    *)
(* from each other.                                                        *)
(***************************************************************************)
Pushed(f, x) == \E r : <<x, r>> \in FieldPairs(f)

\* Entries of group g, in the reach of `at'.
Brought(g, at, X) ==
  /\ IsSequence(X)
  /\ \A k \in 1..Len(X) :
       /\ \E i \in 1..Len(g) : X[k].field = g[i]
       /\ IsSequence(X[k].at) /\ Extends(X[k].at, at)
  /\ \A j, k \in 1..Len(X) : j # k => Separate(X[j], X[k])

LEMMA NothingIsBrought ==
  ASSUME NEW g, NEW at
  PROVE  Brought(g, at, <<>>)
BY EmptyIs DEF Brought

LEMMA EntriesAreBrought ==
  ASSUME NEW g, IsSequence(g), NEW at, IsSequence(at),
         \A i, j \in 1..Len(g) : i # j => Names(g[i]) \cap Names(g[j]) = {}
  PROVE  Brought(g, at, Entries(g, at))
<1> DEFINE X == Entries(g, at)
<1>1. IsSequence(X) /\ Len(X) = Len(g) /\ \A i \in 1..Len(g) : X[i] = [field |-> g[i], at |-> at]
  BY EntriesAre
<1> HIDE DEF X
<1>2. ASSUME NEW i \in 1..Len(g)
      PROVE  X[i].field = g[i] /\ X[i].at = at
  <2>1. X[i] = [field |-> g[i], at |-> at]
    BY <1>1
  <2> QED
    BY <2>1
<1>3. IsSequence(X) /\ Len(X) = Len(g) /\ \A i \in 1..Len(X) : X[i].field = g[i] /\ X[i].at = at
  BY <1>1, <1>2
<1>4. Extends(at, at)
  BY ExtendsItself
<1>5. Brought(g, at, X)
  BY <1>3, <1>4 DEF Brought, Separate
<1> QED
  BY <1>5 DEF X

LEMMA RepeatedAreBrought ==
  ASSUME NEW g, IsSequence(g), Len(g) > 0, NEW at, IsSequence(at), NEW d \in Nat,
         \A i, j \in 1..Len(g) : i # j => Names(g[i]) \cap Names(g[j]) = {}
  PROVE  Brought(g, at, Repeated(g, at, d))
<1> DEFINE X    == Repeated(g, at, d)
           n    == d * Len(g)
           m(k) == ((k - 1) % Len(g)) + 1
           q(k) == (k - 1) \div Len(g)
<1>1. Len(g) \in Nat /\ n \in Nat
  BY ProductIs DEF IsSequence
<1>2. /\ IsSequence(X) /\ Len(X) = n
      /\ \A k \in 1..n : /\ m(k) \in 1..Len(g) /\ q(k) \in Nat
                         /\ X[k] = [field |-> g[m(k)], at |-> Append(at, q(k))]
  BY RepeatedAre
<1>3. ASSUME NEW j \in 1..n, NEW k \in 1..n, m(j) = m(k), q(j) = q(k)
      PROVE  j = k
  <2>1. j - 1 \in Nat /\ k - 1 \in Nat
    BY <1>1
  <2>2. /\ j - 1 = Len(g) * ((j - 1) \div Len(g)) + ((j - 1) % Len(g)) /\ (j - 1) % Len(g) \in 0..(Len(g) - 1)
        /\ k - 1 = Len(g) * ((k - 1) \div Len(g)) + ((k - 1) % Len(g)) /\ (k - 1) % Len(g) \in 0..(Len(g) - 1)
    BY <1>1, <2>1, DivisionIs
  <2>3. (j - 1) % Len(g) = (k - 1) % Len(g)
    BY <1>1, <1>3, <2>2
  <2>4. j - 1 = k - 1
    BY <1>3, <2>2, <2>3
  <2> QED
    BY <1>1, <2>4
<1> HIDE DEF m, q, X, n
<1>4. \A k \in 1..n : X[k].field = g[m(k)] /\ X[k].at = Append(at, q(k))
  BY <1>2
<1>5. ASSUME NEW k \in 1..n
      PROVE  /\ IsSequence(X[k].at) /\ Len(X[k].at) = Len(at) + 1 /\ Extends(X[k].at, at)
             /\ X[k].at[Len(at) + 1] = q(k)
  <2>1. Len(at) \in Nat
    BY DEF IsSequence
  <2> DEFINE a == X[k].at
  <2>2. a = Append(at, q(k))
    BY <1>4
  <2> HIDE DEF a
  <2>3. IsSequence(a) /\ Len(a) = Len(at) + 1 /\ (\A i \in 1..Len(at) : a[i] = at[i]) /\ a[Len(at) + 1] = q(k)
    BY <2>2, AppendIs
  <2>4. Extends(a, at)
    BY <2>1, <2>3 DEF Extends
  <2> QED
    BY <2>3, <2>4 DEF a
<1>6. ASSUME NEW j \in 1..n, NEW k \in 1..n, j # k
      PROVE  Separate(X[j], X[k])
  <2>1. CASE m(j) # m(k)
    BY <1>2, <1>4, <2>1 DEF Separate
  <2>2. CASE q(j) # q(k)
    <3>1. Len(at) \in Nat /\ Len(at) + 1 \in 1..(Len(at) + 1)
      BY DEF IsSequence
    <3>2. /\ Len(at) + 1 \in 1..Len(X[j].at) /\ Len(at) + 1 \in 1..Len(X[k].at)
          /\ X[j].at[Len(at) + 1] # X[k].at[Len(at) + 1]
      BY <1>5, <2>2, <3>1
    <3>3. Apart(X[j].at, X[k].at)
      BY <3>2 DEF Apart
    <3> QED
      BY <3>3 DEF Separate
  <2> QED
    BY <1>3, <1>6, <2>1, <2>2
<1>7. \A k \in 1..n : \E i \in 1..Len(g) : X[k].field = g[i]
  BY <1>2, <1>4
<1>8. Brought(g, at, X)
  BY <1>2, <1>5, <1>6, <1>7 DEF Brought
<1> QED
  BY <1>8 DEF X

LEMMA ExpansionCases ==
  ASSUME NEW e, NEW d
  PROVE  /\ e.field.kind = "flag" =>
              Expansion(e, d) = IF d = 1 THEN Entries(e.field.group, e.at) ELSE <<>>
         /\ e.field.kind = "count" => Expansion(e, d) = Repeated(e.field.group, e.at, d)
         /\ e.field.kind \notin {"flag", "count"} => Expansion(e, d) = <<>>
BY DEF Expansion

LEMMA ExpansionIsBrought ==
  ASSUME NEW f \in Formats, NEW e, Pushed(f, e.field), IsSequence(e.at), NEW d \in Nat
  PROVE  Brought(e.field.group, e.at, Expansion(e, d))
<1>1. PICK r : <<e.field, r>> \in FieldPairs(f)
  BY DEF Pushed
<1> DEFINE g == e.field.group
<1>2. /\ IsSequence(g)
      /\ e.field.kind \in {"flag", "count"} => Len(g) > 0
      /\ \A i, j \in 1..Len(g) : i # j => Names(g[i]) \cap Names(g[j]) = {}
  BY <1>1, PairIs, NamesAre
<1> DEFINE at == e.at
<1>6. IsSequence(at)
  OBVIOUS
<1> HIDE DEF g, at
<1>3. CASE e.field.kind = "flag"
  <2>1. Brought(g, at, Entries(g, at)) /\ Brought(g, at, <<>>)
    BY <1>2, <1>6, EntriesAreBrought, NothingIsBrought
  <2>2. Expansion(e, d) = Entries(g, at) \/ Expansion(e, d) = <<>>
    BY <1>3, ExpansionCases DEF g, at
  <2> QED
    BY <2>1, <2>2 DEF g, at
<1>4. CASE e.field.kind = "count"
  <2>1. Brought(g, at, Repeated(g, at, d))
    BY <1>2, <1>4, <1>6, RepeatedAreBrought
  <2>2. Expansion(e, d) = Repeated(g, at, d)
    BY <1>4, ExpansionCases DEF g, at
  <2> QED
    BY <2>1, <2>2 DEF g, at
<1>5. CASE e.field.kind \notin {"flag", "count"}
  BY <1>5, ExpansionCases, NothingIsBrought
<1> QED
  BY <1>3, <1>4, <1>5

(***************************************************************************)
(* What there is to do is tidy: its entries are apart from each other.     *)
(***************************************************************************)
Tidy(f, t) ==
  /\ IsSequence(t)
  /\ \A i \in 1..Len(t) : IsSequence(t[i].at) /\ Pushed(f, t[i].field)
  /\ \A i, j \in 1..Len(t) : i # j => Separate(t[i], t[j])

\* A key that nothing that is to do may bring with it.
Gone(key, t) == \A i \in 1..Len(t) : ~InReach(key, t[i])

LEMMA FirstIsTidy ==
  ASSUME NEW f \in Formats
  PROVE  Tidy(f, Entries(Writes(f), <<>>)) /\ Len(Entries(Writes(f), <<>>)) > 1
<1>1. IsSequence(Writes(f)) /\ Len(Writes(f)) > 1
  BY ReadsFollowWrites
<1>2. ASSUME NEW i \in 1..Len(Writes(f))
      PROVE  <<Writes(f)[i], Reads(f)[i]>> \in FieldPairs(f)
  BY DEF FieldPairs, Abreast
<1>3. 1 \in 1..Len(Writes(f))
  BY <1>1 DEF IsSequence
<1>4. \A i, j \in 1..Len(Writes(f)) : i # j => Names(Writes(f)[i]) \cap Names(Writes(f)[j]) = {}
  BY <1>2, <1>3, NamesAre
<1>5. Brought(Writes(f), <<>>, Entries(Writes(f), <<>>)) /\ Len(Entries(Writes(f), <<>>)) = Len(Writes(f))
  BY <1>1, <1>4, EmptyIs, EntriesAre, EntriesAreBrought
<1> QED
  BY <1>1, <1>2, <1>5 DEF Brought, Tidy, Pushed

LEMMA SeparateIs ==
  ASSUME NEW e, NEW g, IsSequence(e.at), IsSequence(g.at), Separate(e, g)
  PROVE  /\ Separate(g, e)
         /\ ~InReach(KeyOf(e), g)
         /\ KeyOf(e) # KeyOf(g)
         /\ \A x : Names(x.field) \subseteq Names(e.field) /\ IsSequence(x.at) /\ Extends(x.at, e.at)
                     => Separate(x, g)
<1>1. /\ e.field.name \in Names(e.field) /\ g.field.name \in Names(g.field)
      /\ KeyOf(e).name = e.field.name /\ KeyOf(e).at = e.at
      /\ KeyOf(g).name = g.field.name /\ KeyOf(g).at = g.at
  BY DEF Names, KeyOf
<1>2. Extends(e.at, e.at) /\ Extends(g.at, g.at) /\ ~Apart(g.at, g.at)
  BY ExtendsItself
<1>3. CASE Names(e.field) \cap Names(g.field) = {}
  BY <1>1, <1>3 DEF Separate, InReach
<1>4. CASE Apart(e.at, g.at)
  <2>1. Apart(g.at, e.at) /\ e.at # g.at
    BY <1>2, <1>4, ApartIs
  <2>2. ~Extends(e.at, g.at)
    <3> SUFFICES ASSUME Extends(e.at, g.at)
                 PROVE  FALSE
      OBVIOUS
    <3>1. Apart(e.at, e.at)
      BY <1>2, <2>1, ApartIs
    <3> QED
      BY <3>1, ExtendsItself
  <2>3. ASSUME NEW x, IsSequence(x.at), Extends(x.at, e.at)
        PROVE  Separate(x, g)
    <3>1. Apart(x.at, g.at)
      BY <1>2, <1>4, <2>3, ApartIs
    <3> QED
      BY <3>1 DEF Separate
  <2> QED
    BY <1>1, <2>1, <2>2, <2>3 DEF Separate, InReach
<1> QED
  BY <1>3, <1>4 DEF Separate

LEMMA BroughtIs ==
  ASSUME NEW f \in Formats, NEW e, Pushed(f, e.field), NEW X, Brought(e.field.group, e.at, X),
         NEW k \in 1..Len(X)
  PROVE  /\ Pushed(f, X[k].field) /\ Names(X[k].field) \subseteq Names(e.field)
         /\ e.field.name \notin Names(X[k].field)
<1>1. PICK r : <<e.field, r>> \in FieldPairs(f)
  BY DEF Pushed
<1>2. PICK i \in 1..Len(e.field.group) : X[k].field = e.field.group[i]
  BY DEF Brought
<1>3. <<e.field.group[i], r.group[i]>> \in FieldPairs(f)
  BY <1>1, PairIs
<1>4. e.field.name \notin GroupNames(e.field) /\ Names(e.field.group[i]) \subseteq GroupNames(e.field)
  BY <1>1, NamesAre
<1> QED
  BY <1>2, <1>3, <1>4 DEF Pushed, Names

\* Each element of what is to do after the first entry is brought by it or has been there.
LEMMA StepIsTidy ==
  ASSUME NEW f \in Formats, NEW t, Tidy(f, t), Len(t) > 0, NEW d \in Nat
  PROVE  LET u == Expansion(t[1], d) \o Tail(t)
         IN  /\ Tidy(f, u) /\ Gone(KeyOf(t[1]), u)
             /\ \A key : IsSequence(key.at) /\ Gone(key, t) => Gone(key, u)
<1> DEFINE e == t[1]
           X == Expansion(e, d)
           u == X \o Tail(t)
<1>1. IsSequence(t) /\ Len(t) \in Nat /\ 1 \in 1..Len(t)
  BY DEF Tidy, IsSequence
<1>2. Pushed(f, e.field) /\ IsSequence(e.at)
  BY <1>1 DEF Tidy
<1> HIDE DEF e
<1>3. Brought(e.field.group, e.at, X)
  BY <1>2, ExpansionIsBrought
<1> HIDE DEF X
<1>4. IsSequence(X) /\ Len(X) \in Nat
  BY <1>3 DEF Brought, IsSequence
<1>5. /\ IsSequence(u) /\ Len(u) = Len(X) + Len(t) - 1
      /\ \A i \in 1..Len(X) : u[i] = X[i]
      /\ \A i \in 2..Len(t) : u[Len(X) + i - 1] = t[i]
  BY <1>1, <1>4, NextIs
<1> HIDE DEF u
<1>6. ASSUME NEW i \in 1..Len(u)
      PROVE  \/ i \in 1..Len(X) /\ u[i] = X[i]
             \/ /\ i - Len(X) + 1 \in 2..Len(t) /\ i > Len(X)
                /\ u[i] = t[i - Len(X) + 1]
  <2>1. CASE i <= Len(X)
    BY <1>4, <1>5, <2>1
  <2>2. CASE i > Len(X)
    <3> DEFINE j == i - Len(X) + 1
    <3>1. j \in 2..Len(t) /\ Len(X) + j - 1 = i
      BY <1>1, <1>4, <1>5, <2>2
    <3> HIDE DEF j
    <3>2. u[i] = t[j]
      BY <1>5, <3>1
    <3> QED
      BY <2>2, <3>1, <3>2 DEF j
  <2> QED
    BY <1>4, <2>1, <2>2
<1>7. ASSUME NEW k \in 1..Len(X)
      PROVE  /\ Pushed(f, X[k].field) /\ Names(X[k].field) \subseteq Names(e.field)
             /\ e.field.name \notin Names(X[k].field)
             /\ IsSequence(X[k].at) /\ Extends(X[k].at, e.at)
  BY <1>2, <1>3, BroughtIs DEF Brought
<1>8. ASSUME NEW i \in 2..Len(t)
      PROVE  /\ Separate(e, t[i]) /\ IsSequence(t[i].at) /\ Pushed(f, t[i].field)
             /\ ~InReach(KeyOf(e), t[i])
             /\ \A k \in 1..Len(X) : Separate(X[k], t[i]) /\ Separate(t[i], X[k])
  <2>1. i \in 1..Len(t) /\ i # 1
    BY <1>1
  <2>2. Separate(e, t[i]) /\ IsSequence(t[i].at) /\ Pushed(f, t[i].field)
    BY <1>1, <2>1 DEF Tidy, e
  <2>3. /\ ~InReach(KeyOf(e), t[i])
        /\ \A x : Names(x.field) \subseteq Names(e.field) /\ IsSequence(x.at) /\ Extends(x.at, e.at)
                    => Separate(x, t[i])
    BY <1>2, <2>2, SeparateIs
  <2>4. ASSUME NEW k \in 1..Len(X)
        PROVE  Separate(X[k], t[i]) /\ Separate(t[i], X[k])
    <3>1. Separate(X[k], t[i])
      BY <1>7, <2>3
    <3> QED
      BY <1>7, <2>2, <3>1, SeparateIs
  <2> QED
    BY <2>2, <2>3, <2>4
<1>9. \A i \in 1..Len(u) : IsSequence(u[i].at) /\ Pushed(f, u[i].field)
  BY <1>6, <1>7, <1>8
<1>10. ASSUME NEW i \in 1..Len(u), NEW j \in 1..Len(u), i # j
       PROVE  Separate(u[i], u[j])
  <2>1. CASE i \in 1..Len(X) /\ u[i] = X[i] /\ j \in 1..Len(X) /\ u[j] = X[j]
    BY <1>3, <1>10, <2>1 DEF Brought
  <2>2. CASE i \in 1..Len(X) /\ u[i] = X[i] /\ j - Len(X) + 1 \in 2..Len(t) /\ u[j] = t[j - Len(X) + 1]
    BY <1>8, <2>2
  <2>3. CASE j \in 1..Len(X) /\ u[j] = X[j] /\ i - Len(X) + 1 \in 2..Len(t) /\ u[i] = t[i - Len(X) + 1]
    BY <1>8, <2>3
  <2>4. CASE /\ i - Len(X) + 1 \in 2..Len(t) /\ u[i] = t[i - Len(X) + 1]
             /\ j - Len(X) + 1 \in 2..Len(t) /\ u[j] = t[j - Len(X) + 1]
    <3>1. /\ i - Len(X) + 1 \in 1..Len(t) /\ j - Len(X) + 1 \in 1..Len(t)
          /\ i - Len(X) + 1 # j - Len(X) + 1
      BY <1>1, <1>4, <1>10, <2>4
    <3> QED
      BY <2>4, <3>1 DEF Tidy
  <2> QED
    BY <1>6, <2>1, <2>2, <2>3, <2>4
<1>11. Tidy(f, u)
  BY <1>5, <1>9, <1>10 DEF Tidy
<1>12. Gone(KeyOf(e), u)
  <2>1. \A k \in 1..Len(X) : ~InReach(KeyOf(e), X[k])
    BY <1>7 DEF InReach, KeyOf
  <2> QED
    BY <1>6, <1>8, <2>1 DEF Gone
<1>13. ASSUME NEW key, IsSequence(key.at), Gone(key, t)
       PROVE  Gone(key, u)
  <2>1. \A i \in 1..Len(t) : ~InReach(key, t[i])
    BY <1>13 DEF Gone
  <2>2. ASSUME NEW k \in 1..Len(X)
        PROVE  ~InReach(key, X[k])
    <3>1. ~InReach(key, e)
      BY <1>1, <2>1 DEF e
    <3>2. Extends(key.at, X[k].at) => Extends(key.at, e.at)
      BY <1>2, <1>7, <1>13, ExtendsFurther
    <3> QED
      BY <1>7, <3>1, <3>2 DEF InReach
  <2>3. \A i \in 2..Len(t) : ~InReach(key, t[i])
    BY <1>1, <2>1
  <2> QED
    BY <1>6, <2>2, <2>3 DEF Gone
<1> QED
  BY <1>11, <1>12, <1>13 DEF e, X, u

-----------------------------------------------------------------------------
(***************************************************************************)
(* A text as it is written: T[i] is what is still to be pushed after its   *)
(* first i lines.                                                          *)
(***************************************************************************)
Writing(t, line, u) ==
  /\ Len(t) > 0
  /\ line = LineOf(t[1], line.datum)
  /\ line.datum \in WrittenData(t[1].field)
  /\ u = Expansion(t[1], line.datum) \o Tail(t)

WrittenBy(f, text, T) ==
  /\ IsSequence(text)
  /\ T[0] = Entries(Writes(f), <<>>)
  /\ \A i \in 0..Len(text) : Tidy(f, T[i])
  /\ \A i \in 1..Len(text) : Writing(T[i - 1], text[i], T[i])
  /\ \A i \in 1..Len(text) : \A j \in i..Len(text) : Gone(text[i].key, T[j])

LEMMA LineIs ==
  ASSUME NEW e, NEW d
  PROVE  /\ LineOf(e, d).key = KeyOf(e) /\ LineOf(e, d).kind = e.field.kind
         /\ LineOf(e, d).datum = d /\ LineOf(e, d).spelling = "canonical"
         /\ LineOf(e, d) = [key |-> KeyOf(e), kind |-> e.field.kind, datum |-> d, spelling |-> "canonical"]
BY DEF LineOf

LEMMA DataAre ==
  ASSUME NEW f \in Formats, NEW x, Pushed(f, x), NEW d \in WrittenData(x)
  PROVE  /\ d \in Nat
         /\ x.kind = "flag" => d \in {0, 1}
         /\ x.kind = "count" => d <= MaxCapacity
         /\ x.kind \notin {"flag", "count"} => d = 1
<1>1. PICK r : <<x, r>> \in FieldPairs(f)
  BY DEF Pushed
<1>2. MaxCount(x.name) \in 0..MaxCapacity /\ MaxCapacity \in Nat
  <2>1. <<x, r>>[1] = x
    OBVIOUS
  <2> QED
    BY <1>1, <2>1, CountsAreBounded
<1>3. CASE x.kind = "flag"
  BY <1>3 DEF WrittenData
<1>4. CASE x.kind = "count"
  BY <1>2, <1>4 DEF WrittenData
<1>5. CASE x.kind \notin {"flag", "count"}
  BY <1>5 DEF WrittenData
<1> QED
  BY <1>3, <1>4, <1>5

LEMMA WrittenLines ==
  ASSUME NEW f \in Formats, NEW text, NEW T, WrittenBy(f, text, T), NEW i \in 1..Len(text)
  PROVE  /\ i - 1 \in 0..Len(text) /\ Tidy(f, T[i - 1]) /\ Len(T[i - 1]) > 0
         /\ Pushed(f, T[i - 1][1].field) /\ IsSequence(T[i - 1][1].at)
         /\ text[i].key = KeyOf(T[i - 1][1]) /\ text[i].kind = T[i - 1][1].field.kind
         /\ text[i].datum \in Nat /\ text[i].datum \in WrittenData(T[i - 1][1].field)
         /\ text[i].spelling = "canonical"
<1> DEFINE e == T[i - 1][1]
<1>1. i - 1 \in 0..Len(text) /\ Len(text) \in Nat
  BY DEF WrittenBy, IsSequence
<1>2. Tidy(f, T[i - 1]) /\ Len(T[i - 1]) > 0
  BY <1>1 DEF WrittenBy, Writing
<1>3. 1 \in 1..Len(T[i - 1])
  BY <1>2 DEF Tidy, IsSequence
<1>4. Pushed(f, e.field) /\ IsSequence(e.at)
  BY <1>2, <1>3 DEF Tidy
<1>5. text[i] = LineOf(e, text[i].datum) /\ text[i].datum \in WrittenData(e.field)
  BY DEF WrittenBy, Writing
<1> HIDE DEF e
<1>6. text[i].datum \in Nat
  BY <1>4, <1>5, DataAre
<1>7. text[i].key = KeyOf(e) /\ text[i].kind = e.field.kind /\ text[i].spelling = "canonical"
  BY <1>5, LineIs
<1> QED
  BY <1>1, <1>2, <1>4, <1>5, <1>6, <1>7 DEF e

LEMMA WrittenKeys ==
  ASSUME NEW f \in Formats, NEW text, NEW T, WrittenBy(f, text, T)
  PROVE  /\ \A i, j \in 1..Len(text) : i # j => text[i].key # text[j].key
         /\ \A i \in 1..Len(text) : text[i].key # Unknown.key
<1>1. ASSUME NEW i \in 1..Len(text), NEW j \in 1..Len(text), i < j
      PROVE  text[i].key # text[j].key
  <2> DEFINE e == T[j - 1][1]
  <2>6. Tidy(f, T[j - 1]) /\ Len(T[j - 1]) > 0
    BY WrittenLines
  <2>7. IsSequence(e.at) /\ text[j].key = KeyOf(e)
    BY WrittenLines
  <2>1. Tidy(f, T[j - 1]) /\ Len(T[j - 1]) > 0 /\ IsSequence(e.at) /\ text[j].key = KeyOf(e)
    BY <2>6, <2>7
  <2>2. j - 1 \in i..Len(text)
    BY <1>1 DEF WrittenBy, IsSequence
  <2>3. Gone(text[i].key, T[j - 1])
    BY <2>2 DEF WrittenBy
  <2>4. 1 \in 1..Len(T[j - 1])
    BY <2>1 DEF Tidy, IsSequence
  <2>5. ~InReach(text[i].key, e)
    BY <2>3, <2>4 DEF Gone
  <2> HIDE DEF e
  <2>8. InReach(KeyOf(e), e)
    BY <2>1, ExtendsItself DEF InReach, KeyOf, Names
  <2> QED
    BY <2>1, <2>5, <2>8
<1>2. ASSUME NEW i \in 1..Len(text)
      PROVE  text[i].key # Unknown.key
  <2> DEFINE e == T[i - 1][1]
  <2>1. Pushed(f, e.field) /\ text[i].key = KeyOf(e)
    BY WrittenLines
  <2> HIDE DEF e
  <2>2. PICK r : <<e.field, r>> \in FieldPairs(f)
    BY <2>1 DEF Pushed
  <2>3. e.field.name # "unknown"
    BY <2>2, NamesAre
  <2> QED
    BY <2>1, <2>3 DEF KeyOf, Unknown
<1>3. Len(text) \in Nat
  BY DEF WrittenBy, IsSequence
<1> QED
  BY <1>1, <1>2, <1>3

LEMMA WriteNothing ==
  ASSUME NEW f \in Formats
  PROVE  \E T : WrittenBy(f, <<>>, T) /\ T[0] = Entries(Writes(f), <<>>)
<1> DEFINE T == [i \in 0..0 |-> Entries(Writes(f), <<>>)]
<1>1. T[0] = Entries(Writes(f), <<>>)
  OBVIOUS
<1>2. Tidy(f, Entries(Writes(f), <<>>))
  BY FirstIsTidy
<1> HIDE DEF T
<1>3. WrittenBy(f, <<>>, T)
  BY <1>1, <1>2, EmptyIs DEF WrittenBy
<1> QED
  BY <1>1, <1>3

LEMMA WriteAnother ==
  ASSUME NEW f \in Formats, NEW text, NEW T, WrittenBy(f, text, T), Len(T[Len(text)]) > 0,
         NEW d \in WrittenData(T[Len(text)][1].field)
  PROVE  LET e    == T[Len(text)][1]
             more == Append(text, LineOf(e, d))
         IN  /\ Len(more) = Len(text) + 1
             /\ \E U : /\ WrittenBy(f, more, U)
                       /\ U[Len(more)] = Expansion(e, d) \o Tail(T[Len(text)])
<1> DEFINE n    == Len(text)
           e    == T[n][1]
           line == LineOf(e, d)
           more == Append(text, line)
           t    == Expansion(e, d) \o Tail(T[n])
           U    == [i \in 0..(n + 1) |-> IF i <= n THEN T[i] ELSE t]
<1>1. n \in Nat /\ IsSequence(text) /\ n \in 0..n
  BY DEF WrittenBy, IsSequence
<1>2. Tidy(f, T[n]) /\ Len(T[n]) > 0
  BY <1>1 DEF WrittenBy
<1>3. 1 \in 1..Len(T[n])
  BY <1>2 DEF Tidy, IsSequence
<1>4. Pushed(f, e.field) /\ IsSequence(e.at)
  BY <1>2, <1>3 DEF Tidy
<1>5. d \in Nat
  <2> HIDE DEF e, n
  <2> QED
    BY <1>4, DataAre DEF e, n
<1>6. /\ Tidy(f, t) /\ Gone(KeyOf(e), t)
      /\ \A key : IsSequence(key.at) /\ Gone(key, T[n]) => Gone(key, t)
  BY <1>2, <1>5, StepIsTidy
<1>7. /\ \A i \in 0..n : U[i] = T[i]
      /\ U[n + 1] = t
  BY <1>1
<1>8. /\ IsSequence(more) /\ Len(more) = n + 1
      /\ \A i \in 1..n : more[i] = text[i]
      /\ more[n + 1] = line
  BY <1>1, AppendIs
<1>9. line.key = KeyOf(e) /\ line.datum = d
  BY LineIs
<1>10. d \in WrittenData(e.field)
  OBVIOUS
<1>11. line = LineOf(e, d) /\ e = T[n][1] /\ t = Expansion(e, d) \o Tail(T[n])
  OBVIOUS
<1> HIDE DEF U, t, more, line, e, n
<1>12. WrittenBy(f, more, U)
  <2>1. U[0] = Entries(Writes(f), <<>>)
    BY <1>1, <1>7 DEF WrittenBy, n
  <2>2. \A i \in 0..Len(more) : Tidy(f, U[i])
    BY <1>1, <1>6, <1>7, <1>8 DEF WrittenBy, n
  <2>3. ASSUME NEW i \in 1..Len(more)
        PROVE  Writing(U[i - 1], more[i], U[i])
    <3>1. CASE i = n + 1
      <4>1. U[i - 1] = T[n] /\ U[i] = t /\ more[i] = line
        BY <1>1, <1>7, <1>8, <3>1
      <4> QED
        BY <1>2, <1>9, <1>10, <1>11, <4>1 DEF Writing
    <3>2. CASE i \in 1..n
      <4>1. U[i - 1] = T[i - 1] /\ U[i] = T[i] /\ more[i] = text[i]
        BY <1>1, <1>7, <1>8, <3>2
      <4>2. Writing(T[i - 1], text[i], T[i])
        BY <3>2 DEF WrittenBy, n
      <4> QED
        BY <4>1, <4>2
    <3> QED
      BY <1>1, <1>8, <3>1, <3>2
  <2>4. ASSUME NEW i \in 1..Len(more), NEW j \in i..Len(more)
        PROVE  Gone(more[i].key, U[j])
    <3>1. CASE i = n + 1
      BY <1>1, <1>6, <1>7, <1>8, <1>9, <3>1
    <3>2. CASE i \in 1..n /\ j = n + 1
      <4>1. Gone(text[i].key, T[n])
        BY <1>1, <3>2 DEF WrittenBy, n
      <4>2. IsSequence(text[i].key.at)
        <5>1. IsSequence(T[i - 1][1].at) /\ text[i].key = KeyOf(T[i - 1][1])
          BY <3>2, WrittenLines DEF n
        <5> QED
          BY <5>1 DEF KeyOf
      <4> QED
        BY <1>6, <1>7, <1>8, <3>2, <4>1, <4>2
    <3>3. CASE i \in 1..n /\ j \in i..n
      BY <1>1, <1>7, <1>8, <3>3 DEF WrittenBy, n
    <3> QED
      BY <1>1, <1>8, <3>1, <3>2, <3>3
  <2> QED
    BY <1>8, <2>1, <2>2, <2>3, <2>4 DEF WrittenBy
<1>13. U[Len(more)] = t
  BY <1>7, <1>8
<1> QED
  BY <1>8, <1>12, <1>13 DEF t, more, line, e, n

-----------------------------------------------------------------------------
(***************************************************************************)
(* What an edit makes of a text, line by line.                             *)
(***************************************************************************)
IsLine(x) == x = [key |-> x.key, kind |-> x.kind, datum |-> x.datum, spelling |-> x.spelling]

\* What is known of a text that has been written.
Proper(w) ==
  /\ IsSequence(w)
  /\ \A i \in 1..Len(w) : IsLine(w[i]) /\ w[i].spelling = "canonical" /\ w[i].key # Unknown.key
  /\ \A i, j \in 1..Len(w) : i # j => w[i].key # w[j].key

LEMMA WrittenIsProper ==
  ASSUME NEW f \in Formats, NEW text, NEW T, WrittenBy(f, text, T)
  PROVE  Proper(text)
<1>1. ASSUME NEW i \in 1..Len(text)
      PROVE  IsLine(text[i]) /\ text[i].spelling = "canonical"
  <2> DEFINE e == T[i - 1][1]
             d == text[i].datum
  <2>1. text[i] = LineOf(e, d)
    BY DEF WrittenBy, Writing
  <2> HIDE DEF e, d
  <2>2. IsLine(LineOf(e, d)) /\ LineOf(e, d).spelling = "canonical"
    BY DEF LineOf, IsLine
  <2> QED
    BY <2>1, <2>2
<1> QED
  BY <1>1, WrittenKeys DEF Proper, WrittenBy

LEMMA SubSeqIs ==
  ASSUME NEW q, IsSequence(q), NEW a \in Int, NEW b \in Int, a > 0, b <= Len(q), a <= b + 1
  PROVE  /\ IsSequence(SubSeq(q, a, b)) /\ Len(SubSeq(q, a, b)) = b - a + 1
         /\ \A k \in 1..(b - a + 1) : SubSeq(q, a, b)[k] = q[a + k - 1]
<1> DEFINE S == {q[i] : i \in 1..Len(q)}
<1>1. q \in Seq(S) /\ Len(q) \in Nat
  BY SequenceIn DEF IsSequence
<1> HIDE DEF S
<1>2. SubSeq(q, a, b) = [i \in 1..(b - a + 1) |-> q[a + i - 1]]
  BY <1>1
<1>3. b - a + 1 \in Nat
  OBVIOUS
<1> DEFINE n == b - a + 1
           x == SubSeq(q, a, b)
<1>4. x = [i \in 1..n |-> q[a + i - 1]] /\ n \in Nat
  BY <1>2, <1>3
<1> HIDE DEF n, x
<1>5. Len(x) = n /\ \A k \in 1..n : x[k] = q[a + k - 1]
  BY <1>4
<1>6. IsSequence(x)
  BY <1>4, <1>5 DEF IsSequence
<1> QED
  BY <1>5, <1>6 DEF x, n

LEMMA PrefixIs ==
  ASSUME NEW q, IsSequence(q), NEW i \in 0..Len(q)
  PROVE  LET a == SubSeq(q, 1, i)
         IN  IsSequence(a) /\ Len(a) = i /\ \A k \in 1..i : a[k] = q[k]
<1> DEFINE a == SubSeq(q, 1, i)
<1>1. Len(q) \in Nat
  BY DEF IsSequence
<1>2. /\ IsSequence(a) /\ Len(a) = i - 1 + 1
      /\ \A k \in 1..(i - 1 + 1) : a[k] = q[1 + k - 1]
  BY <1>1, SubSeqIs
<1> HIDE DEF a
<1> QED
  BY <1>1, <1>2 DEF a

LEMMA SuffixIs ==
  ASSUME NEW q, IsSequence(q), NEW i \in 0..Len(q)
  PROVE  LET b == SubSeq(q, i + 1, Len(q))
         IN  IsSequence(b) /\ Len(b) = Len(q) - i /\ \A k \in 1..(Len(q) - i) : b[k] = q[k + i]
<1> DEFINE m == i + 1
           n == Len(q)
           b == SubSeq(q, m, n)
<1>1. n \in Nat
  BY DEF IsSequence
<1>2. m \in Int /\ m > 0 /\ m <= n + 1 /\ n - m + 1 = n - i
  BY <1>1
<1> HIDE DEF m
<1>3. IsSequence(b) /\ Len(b) = n - m + 1 /\ \A k \in 1..(n - m + 1) : b[k] = q[m + k - 1]
  BY <1>1, <1>2, SubSeqIs
<1> HIDE DEF b, n
<1>4. IsSequence(b) /\ Len(b) = n - i
  BY <1>2, <1>3
<1>5. \A k \in 1..(n - i) : b[k] = q[k + i]
  BY <1>1, <1>2, <1>3 DEF m
<1> QED
  BY <1>4, <1>5 DEF b, m, n

LEMMA WithoutIs ==
  ASSUME NEW w, IsSequence(w), NEW i \in 1..Len(w)
  PROVE  /\ IsSequence(Without(w, i)) /\ Len(Without(w, i)) = Len(w) - 1
         /\ \A k \in 1..(i - 1) : Without(w, i)[k] = w[k]
         /\ \A k \in i..(Len(w) - 1) : Without(w, i)[k] = w[k + 1]
<1> DEFINE n == Len(w)
           a == SubSeq(w, 1, i - 1)
           b == SubSeq(w, i + 1, n)
           v == a \o b
<1>1. n \in Nat /\ i \in 0..n /\ i - 1 \in 0..n
  BY DEF IsSequence
<1>2. IsSequence(a) /\ Len(a) = i - 1 /\ \A k \in 1..(i - 1) : a[k] = w[k]
  BY <1>1, PrefixIs
<1>3. IsSequence(b) /\ Len(b) = n - i /\ \A k \in 1..(n - i) : b[k] = w[k + i]
  BY <1>1, SuffixIs
<1>4. Without(w, i) = v
  BY DEF Without
<1> HIDE DEF a, b, n
<1>5. Joined(v, a, b)
  BY <1>2, <1>3, ConcatIs
<1> HIDE DEF v
<1>6. ASSUME NEW k \in i..(n - 1)
      PROVE  v[k] = w[k + 1]
  <2> DEFINE j == k - i + 1
  <2>1. j \in 1..(n - i) /\ (i - 1) + j = k /\ j + i = k + 1
    BY <1>1
  <2> HIDE DEF j
  <2>2. v[(i - 1) + j] = b[j]
    BY <1>2, <1>3, <1>5, <2>1 DEF Joined
  <2> QED
    BY <1>3, <2>1, <2>2
<1>7. Len(v) = n - 1 /\ \A k \in 1..(i - 1) : v[k] = w[k]
  BY <1>1, <1>2, <1>3, <1>5 DEF Joined
<1> QED
  BY <1>4, <1>5, <1>6, <1>7 DEF n, Joined

LEMMA WithIs ==
  ASSUME NEW w, IsSequence(w), NEW i \in 1..Len(w), NEW line
  PROVE  /\ IsSequence(With(w, i, line)) /\ Len(With(w, i, line)) = Len(w) + 1
         /\ \A k \in 1..i : With(w, i, line)[k] = w[k]
         /\ With(w, i, line)[i + 1] = line
         /\ \A k \in (i + 2)..(Len(w) + 1) : With(w, i, line)[k] = w[k - 1]
<1> DEFINE n == Len(w)
           a == SubSeq(w, 1, i)
           m == <<line>>
           b == SubSeq(w, i + 1, n)
           c == a \o m
           v == c \o b
<1>1. n \in Nat /\ i \in 0..n
  BY DEF IsSequence
<1>2. IsSequence(a) /\ Len(a) = i /\ \A k \in 1..i : a[k] = w[k]
  BY <1>1, PrefixIs
<1>3. IsSequence(b) /\ Len(b) = n - i /\ \A k \in 1..(n - i) : b[k] = w[k + i]
  BY <1>1, SuffixIs
<1>4. IsSequence(m) /\ Len(m) = 1 /\ m[1] = line
  BY DEF IsSequence
<1>5. With(w, i, line) = v
  BY DEF With
<1> HIDE DEF a, b, m, n
<1>6. Joined(c, a, m)
  BY <1>2, <1>4, ConcatIs
<1> HIDE DEF c
<1>7. IsSequence(c) /\ Len(c) = i + 1 /\ (\A k \in 1..i : c[k] = w[k]) /\ c[i + 1] = line
  BY <1>1, <1>2, <1>4, <1>6 DEF Joined
<1>8. Joined(v, c, b)
  BY <1>3, <1>7, ConcatIs
<1> HIDE DEF v
<1>9. ASSUME NEW k \in (i + 2)..(n + 1)
      PROVE  v[k] = w[k - 1]
  <2> DEFINE j == k - i - 1
  <2>1. j \in 1..(n - i) /\ (i + 1) + j = k /\ j + i = k - 1
    BY <1>1
  <2> HIDE DEF j
  <2>2. v[(i + 1) + j] = b[j]
    BY <1>3, <1>7, <1>8, <2>1 DEF Joined
  <2> QED
    BY <1>3, <2>1, <2>2
<1>10. Len(v) = n + 1 /\ (\A k \in 1..i : v[k] = w[k]) /\ v[i + 1] = line
  BY <1>1, <1>3, <1>7, <1>8 DEF Joined
<1> QED
  BY <1>5, <1>8, <1>9, <1>10 DEF n, Joined

\* The keys of the first p lines.
KeysUpTo(w, p) == {w[k].key : k \in 1..p}

\* A text that has the keys of w up to line p.
SameUpTo(l, w, p) ==
  /\ p \in Nat /\ p <= Len(l) /\ p <= Len(w)
  /\ \A k \in 1..p : l[k].key = w[k].key

ChangedAt(l, w, i) ==
  /\ Len(l) = Len(w) /\ l[i].spelling = "canonical" /\ l[i].key = w[i].key /\ l[i].kind = w[i].kind
  /\ l[i].datum \in (0..MaxCapacity + 1) \ {w[i].datum}
  /\ \A k \in 1..Len(w) : k # i => l[k] = w[k]

\* What a reader that has read p lines of l, with the keys of w, finds next.
Tells(name, l, w, p) ==
  /\ p = Len(w) /\ p < Len(l) =>
       \/ name = "repeat" /\ l[p + 1].key \in KeysUpTo(w, p)
       \/ name = "insert" /\ l[p + 1].key \notin KeysUpTo(w, p)
  /\ p < Len(w) /\ p = Len(l) => name = "drop"
  /\ p < Len(w) /\ p < Len(l) /\ l[p + 1].key # w[p + 1].key =>
       \/ name = "repeat" /\ l[p + 1].key \in KeysUpTo(w, p)
       \/ name \in {"drop", "insert", "swap"} /\ l[p + 1].key \notin KeysUpTo(w, p)
  /\ p < Len(w) /\ p < Len(l) /\ l[p + 1].key = w[p + 1].key =>
       \/ l[p + 1] = w[p + 1]
       \/ /\ name \in {"respell", "garble", "break"}
          /\ l[p + 1].datum = w[p + 1].datum /\ l[p + 1].kind = w[p + 1].kind
       \/ name = "change" /\ ChangedAt(l, w, p + 1)

LEMMA KeyIsNew ==
  ASSUME NEW w, Proper(w), NEW p \in Nat, p <= Len(w), NEW j \in 1..Len(w), j > p
  PROVE  w[j].key \notin KeysUpTo(w, p)
BY DEF Proper, KeysUpTo, IsSequence

LEMMA UnknownIsNew ==
  ASSUME NEW w, Proper(w), NEW p \in Nat, p <= Len(w)
  PROVE  Unknown.key \notin KeysUpTo(w, p)
BY DEF Proper, KeysUpTo, IsSequence

LEMMA NoneTells ==
  ASSUME NEW w, Proper(w), NEW p, SameUpTo(w, w, p), NEW name
  PROVE  Tells(name, w, w, p)
BY DEF Tells, SameUpTo

LEMMA DropTells ==
  ASSUME NEW w, Proper(w), NEW i \in 1..Len(w), NEW p, SameUpTo(Without(w, i), w, p)
  PROVE  Tells("drop", Without(w, i), w, p)
<1> DEFINE l == Without(w, i)
<1>1. Len(w) \in Nat /\ p \in Nat /\ IsSequence(w)
  BY DEF Proper, IsSequence, SameUpTo
<1>2. /\ Len(l) = Len(w) - 1
      /\ \A k \in 1..(i - 1) : l[k] = w[k]
      /\ \A k \in i..(Len(w) - 1) : l[k] = w[k + 1]
  BY <1>1, WithoutIs
<1> HIDE DEF l
<1>3. p <= Len(l) /\ p <= Len(w) /\ \A k \in 1..p : l[k].key = w[k].key
  BY DEF SameUpTo, l
<1>4. p < i
  <2> SUFFICES ASSUME i <= p
               PROVE  FALSE
    BY <1>1
  <2>1. l[i] = w[i + 1] /\ l[i].key = w[i].key /\ i + 1 \in 1..Len(w)
    BY <1>1, <1>2, <1>3
  <2> QED
    BY <2>1 DEF Proper
<1>5. CASE p < Len(w) /\ p < Len(l)
  <2>1. CASE p + 1 < i
    <3>1. l[p + 1] = w[p + 1]
      BY <1>1, <1>2, <2>1
    <3> QED
      BY <1>1, <1>5, <3>1 DEF Tells, l
  <2>2. CASE p + 1 = i
    <3>1. l[p + 1] = w[p + 2] /\ p + 2 \in 1..Len(w) /\ p + 2 > p
      BY <1>1, <1>2, <1>5, <2>2
    <3>2. l[p + 1].key \notin KeysUpTo(w, p)
      BY <1>1, <1>3, <3>1, KeyIsNew
    <3>3. w[p + 2].key # w[p + 1].key
      BY <1>1, <1>5, <3>1 DEF Proper
    <3> QED
      BY <1>1, <1>5, <3>1, <3>2, <3>3 DEF Tells, l
  <2> QED
    BY <1>1, <1>4, <2>1, <2>2
<1>6. CASE ~(p < Len(w) /\ p < Len(l))
  <2>1. ~(p = Len(w) /\ p < Len(l))
    BY <1>1, <1>2
  <2> QED
    BY <1>6, <2>1 DEF Tells, l
<1> QED
  BY <1>5, <1>6

\* A line is repeated after itself or at the end, or an unknown one is put in.
LEMMA PutTells ==
  ASSUME NEW w, Proper(w), NEW i \in 1..Len(w), NEW line, NEW name,
         NEW p, SameUpTo(With(w, i, line), w, p),
         \/ name = "repeat" /\ \E j \in 1..i : line = w[j]
         \/ name = "insert" /\ line = Unknown
  PROVE  Tells(name, With(w, i, line), w, p)
<1> DEFINE l == With(w, i, line)
<1>1. Len(w) \in Nat /\ p \in Nat /\ IsSequence(w)
  BY DEF Proper, IsSequence, SameUpTo
<1>2. /\ Len(l) = Len(w) + 1
      /\ \A k \in 1..i : l[k] = w[k]
      /\ l[i + 1] = line
  BY <1>1, WithIs
<1> HIDE DEF l
<1>3. p <= Len(l) /\ p <= Len(w) /\ \A k \in 1..p : l[k].key = w[k].key
  BY DEF SameUpTo, l
<1>4. \/ name = "repeat" /\ \E j \in 1..i : line = w[j]
      \/ name = "insert" /\ line = Unknown
  OBVIOUS
<1>5. i < Len(w) => line.key # w[i + 1].key
  <2> SUFFICES ASSUME i < Len(w)
               PROVE  line.key # w[i + 1].key
    OBVIOUS
  <2>1. i + 1 \in 1..Len(w)
    BY <1>1
  <2>2. CASE name = "repeat" /\ \E j \in 1..i : line = w[j]
    <3>1. PICK j \in 1..i : line = w[j]
      BY <2>2
    <3>2. j \in 1..Len(w) /\ j # i + 1
      BY <1>1
    <3> QED
      BY <2>1, <3>1, <3>2 DEF Proper
  <2>3. CASE line = Unknown
    BY <2>1, <2>3 DEF Proper
  <2> QED
    BY <1>4, <2>2, <2>3
<1>6. p <= i
  <2> SUFFICES ASSUME i < p
               PROVE  FALSE
    BY <1>1
  <2>1. l[i + 1].key = w[i + 1].key /\ i < Len(w)
    BY <1>1, <1>3
  <2> QED
    BY <1>2, <1>5, <2>1
<1>7. CASE p < i
  <2>1. l[p + 1] = w[p + 1] /\ p < Len(w) /\ p < Len(l)
    BY <1>1, <1>2, <1>7
  <2> QED
    BY <1>1, <2>1 DEF Tells, l
<1>8. CASE p = i
  <2>1. l[p + 1] = line /\ p < Len(l)
    BY <1>1, <1>2, <1>8
  <2>2. \/ name = "repeat" /\ line.key \in KeysUpTo(w, p)
        \/ name = "insert" /\ line.key \notin KeysUpTo(w, p)
    <3>1. CASE name = "repeat" /\ \E j \in 1..i : line = w[j]
      BY <1>8, <3>1 DEF KeysUpTo
    <3>2. CASE name = "insert" /\ line = Unknown
      BY <1>1, <1>3, <3>2, UnknownIsNew
    <3> QED
      BY <1>4, <3>1, <3>2
  <2>3. p < Len(w) => l[p + 1].key # w[p + 1].key
    BY <1>5, <1>8, <2>1
  <2> QED
    BY <1>1, <2>1, <2>2, <2>3 DEF Tells, l
<1> QED
  BY <1>1, <1>6, <1>7, <1>8

LEMMA SwapTells ==
  ASSUME NEW w, Proper(w), NEW i \in 1..Len(w), NEW j \in (i + 1)..Len(w),
         NEW p, SameUpTo(Swapped(w, i, j), w, p)
  PROVE  Tells("swap", Swapped(w, i, j), w, p)
<1> DEFINE l == Swapped(w, i, j)
<1>1. Len(w) \in Nat /\ p \in Nat /\ IsSequence(w) /\ j \in 1..Len(w) /\ i < j
  BY DEF Proper, IsSequence, SameUpTo
<1>2. w = [k \in 1..Len(w) |-> w[k]]
  BY <1>1 DEF IsSequence
<1>3. l = [w EXCEPT ![i] = w[j], ![j] = w[i]]
  BY DEF Swapped
<1>4. l = [[w EXCEPT ![i] = w[j]] EXCEPT ![j] = w[i]]
  BY <1>3
<1> HIDE DEF l
<1> DEFINE n == Len(w)
<1>5. /\ l = [k \in 1..n |-> IF k = j THEN w[i] ELSE IF k = i THEN w[j] ELSE w[k]]
      /\ n \in Nat
  BY <1>1, <1>2, <1>4
<1> HIDE DEF n
<1>6. /\ Len(l) = n
      /\ l[i] = w[j]
      /\ \A k \in 1..n : k # i /\ k # j => l[k] = w[k]
  BY <1>1, <1>5 DEF n
<1>7. p <= Len(l) /\ p <= n /\ \A k \in 1..p : l[k].key = w[k].key
  BY DEF SameUpTo, l, n
<1>8. w[j].key # w[i].key
  BY <1>1 DEF Proper
<1>9. p < i
  <2> SUFFICES ASSUME i <= p
               PROVE  FALSE
    BY <1>1
  <2> QED
    BY <1>1, <1>6, <1>7, <1>8
<1>10. CASE p + 1 < i
  <2>1. l[p + 1] = w[p + 1] /\ p < n
    BY <1>1, <1>6, <1>10 DEF n
  <2> QED
    BY <1>1, <1>6, <2>1 DEF Tells, l, n
<1>11. CASE p + 1 = i
  <2>1. l[p + 1] = w[j] /\ p < n /\ j > p
    BY <1>1, <1>6, <1>11 DEF n
  <2>2. w[j].key \notin KeysUpTo(w, p) /\ w[j].key # w[p + 1].key
    BY <1>1, <1>8, <1>11, <2>1, KeyIsNew DEF n
  <2> QED
    BY <1>1, <1>6, <2>1, <2>2 DEF Tells, l, n
<1> QED
  BY <1>1, <1>9, <1>10, <1>11

LEMMA LineChanged ==
  ASSUME NEW x, IsLine(x), NEW s, NEW d
  PROVE  /\ /\ [x EXCEPT !.spelling = s].key = x.key /\ [x EXCEPT !.spelling = s].kind = x.kind
            /\ [x EXCEPT !.spelling = s].datum = x.datum /\ [x EXCEPT !.spelling = s].spelling = s
         /\ /\ [x EXCEPT !.datum = d].key = x.key /\ [x EXCEPT !.datum = d].kind = x.kind
            /\ [x EXCEPT !.datum = d].datum = d /\ [x EXCEPT !.datum = d].spelling = x.spelling
BY DEF IsLine

LEMMA RespelledIs ==
  ASSUME NEW w, Proper(w), NEW i \in 1..Len(w), NEW s
  PROVE  LET l == Respelled(w, i, s)
         IN  /\ IsSequence(l) /\ Len(l) = Len(w)
             /\ \A k \in 1..Len(w) : k # i => l[k] = w[k]
             /\ l[i].key = w[i].key /\ l[i].kind = w[i].kind /\ l[i].datum = w[i].datum /\ l[i].spelling = s
<1> DEFINE x == [w[i] EXCEPT !.spelling = s]
           l == Respelled(w, i, s)
<1>1. w = [k \in 1..Len(w) |-> w[k]] /\ Len(w) \in Nat
  BY DEF Proper, IsSequence
<1>2. x.key = w[i].key /\ x.kind = w[i].kind /\ x.datum = w[i].datum /\ x.spelling = s
  <2>1. IsLine(w[i])
    BY DEF Proper
  <2> QED
    BY <2>1, LineChanged
<1>3. l = [w EXCEPT ![i] = x]
  BY DEF Respelled
<1> HIDE DEF x, l
<1>4. l = [k \in 1..Len(w) |-> IF k = i THEN x ELSE w[k]]
  BY <1>1, <1>3
<1>5. IsSequence(l) /\ Len(l) = Len(w) /\ l[i] = x /\ \A k \in 1..Len(w) : k # i => l[k] = w[k]
  BY <1>1, <1>4 DEF IsSequence
<1> QED
  BY <1>2, <1>5 DEF l

LEMMA ChangedIs ==
  ASSUME NEW w, Proper(w), NEW i \in 1..Len(w), NEW d
  PROVE  LET l == Changed(w, i, d)
         IN  /\ IsSequence(l) /\ Len(l) = Len(w)
             /\ \A k \in 1..Len(w) : k # i => l[k] = w[k]
             /\ l[i].key = w[i].key /\ l[i].kind = w[i].kind /\ l[i].datum = d /\ l[i].spelling = "canonical"
<1> DEFINE x == [w[i] EXCEPT !.datum = d]
           l == Changed(w, i, d)
<1>1. w = [k \in 1..Len(w) |-> w[k]] /\ Len(w) \in Nat
  BY DEF Proper, IsSequence
<1>2. x.key = w[i].key /\ x.kind = w[i].kind /\ x.datum = d /\ x.spelling = "canonical"
  <2>1. IsLine(w[i]) /\ w[i].spelling = "canonical"
    BY DEF Proper
  <2> QED
    BY <2>1, LineChanged
<1>3. l = [w EXCEPT ![i] = x]
  BY DEF Changed
<1> HIDE DEF x, l
<1>4. l = [k \in 1..Len(w) |-> IF k = i THEN x ELSE w[k]]
  BY <1>1, <1>3
<1>5. IsSequence(l) /\ Len(l) = Len(w) /\ l[i] = x /\ \A k \in 1..Len(w) : k # i => l[k] = w[k]
  BY <1>1, <1>4 DEF IsSequence
<1> QED
  BY <1>2, <1>5 DEF l

LEMMA SpellTells ==
  ASSUME NEW w, Proper(w), NEW i \in 1..Len(w), NEW s, NEW name, name \in {"respell", "garble", "break"},
         NEW p, SameUpTo(Respelled(w, i, s), w, p)
  PROVE  Tells(name, Respelled(w, i, s), w, p)
<1> DEFINE l == Respelled(w, i, s)
<1>1. Len(w) \in Nat /\ p \in Nat
  BY DEF Proper, IsSequence, SameUpTo
<1>2. /\ Len(l) = Len(w)
      /\ \A k \in 1..Len(w) : k # i => l[k] = w[k]
      /\ l[i].key = w[i].key /\ l[i].kind = w[i].kind /\ l[i].datum = w[i].datum
  BY RespelledIs
<1> HIDE DEF l
<1>3. Tells(name, l, w, p)
  BY <1>1, <1>2 DEF Tells
<1> QED
  BY <1>3 DEF l

LEMMA ChangeTells ==
  ASSUME NEW w, Proper(w), NEW i \in 1..Len(w), NEW d \in (0..MaxCapacity + 1) \ {w[i].datum},
         NEW p, SameUpTo(Changed(w, i, d), w, p)
  PROVE  Tells("change", Changed(w, i, d), w, p)
<1> DEFINE l == Changed(w, i, d)
<1>1. Len(w) \in Nat /\ p \in Nat
  BY DEF Proper, IsSequence, SameUpTo
<1>2. /\ Len(l) = Len(w)
      /\ \A k \in 1..Len(w) : k # i => l[k] = w[k]
      /\ l[i].key = w[i].key /\ l[i].kind = w[i].kind /\ l[i].datum = d /\ l[i].spelling = "canonical"
  BY ChangedIs
<1> HIDE DEF l
<1>3. ChangedAt(l, w, i)
  BY <1>2 DEF ChangedAt
<1>4. ASSUME p < Len(w)
      PROVE  l[p + 1] = w[p + 1] \/ ChangedAt(l, w, p + 1)
  BY <1>1, <1>2, <1>3, <1>4
<1>5. \A k \in 1..Len(w) : l[k].key = w[k].key
  BY <1>2
<1>6. Tells("change", l, w, p)
  BY <1>1, <1>2, <1>4, <1>5 DEF Tells
<1> QED
  BY <1>6 DEF l

EditedAt(name, l, w, i) ==
  \/ name = "drop" /\ l = Without(w, i)
  \/ name = "repeat" /\ l = With(w, i, w[i])
  \/ name = "repeat" /\ l = With(w, Len(w), w[i])
  \/ name = "insert" /\ l = With(w, i, Unknown)
  \/ name = "respell" /\ l = Respelled(w, i, "otherwise")
  \/ name = "garble" /\ l = Respelled(w, i, "garbage")
  \/ name = "break" /\ l = Respelled(w, i, "no line")
  \/ name = "swap" /\ \E j \in (i + 1)..Len(w) : l = Swapped(w, i, j)
  \/ name = "change" /\ \E d \in (0..MaxCapacity + 1) \ {w[i].datum} : l = Changed(w, i, d)

LEMMA EditsAre ==
  ASSUME NEW w, NEW x \in Edits(w)
  PROVE  \E i \in 1..Len(w) : EditedAt(x[1], x[2], w, i)
<1> DEFINE n == Len(w)
<1>1. PICK i \in 1..n :
        x \in {<<"drop", Without(w, i)>>, <<"repeat", With(w, i, w[i])>>, <<"repeat", With(w, n, w[i])>>,
               <<"insert", With(w, i, Unknown)>>, <<"respell", Respelled(w, i, "otherwise")>>,
               <<"garble", Respelled(w, i, "garbage")>>, <<"break", Respelled(w, i, "no line")>>}
              \cup {<<"swap", Swapped(w, i, j)>> : j \in {i + 1, n} \cap (i + 1)..n}
              \cup {<<"change", Changed(w, i, d)>> : d \in (0..MaxCapacity + 1) \ {w[i].datum}}
  BY DEF Edits
<1>2. \/ x \in {<<"drop", Without(w, i)>>, <<"repeat", With(w, i, w[i])>>, <<"repeat", With(w, n, w[i])>>,
                <<"insert", With(w, i, Unknown)>>, <<"respell", Respelled(w, i, "otherwise")>>,
                <<"garble", Respelled(w, i, "garbage")>>, <<"break", Respelled(w, i, "no line")>>}
      \/ \E j \in (i + 1)..n : x = <<"swap", Swapped(w, i, j)>>
      \/ \E d \in (0..MaxCapacity + 1) \ {w[i].datum} : x = <<"change", Changed(w, i, d)>>
  BY <1>1
<1>3. EditedAt(x[1], x[2], w, i)
  <2>1. CASE x = <<"drop", Without(w, i)>>
    <3>1. x[1] = "drop" /\ x[2] = Without(w, i)
      BY <2>1
    <3> QED
      BY <3>1 DEF EditedAt
  <2>2. CASE x = <<"repeat", With(w, i, w[i])>>
    <3>1. x[1] = "repeat" /\ x[2] = With(w, i, w[i])
      BY <2>2
    <3> QED
      BY <3>1 DEF EditedAt
  <2>3. CASE x = <<"repeat", With(w, n, w[i])>>
    <3>1. x[1] = "repeat" /\ x[2] = With(w, n, w[i])
      BY <2>3
    <3> QED
      BY <3>1 DEF EditedAt
  <2>4. CASE x = <<"insert", With(w, i, Unknown)>>
    <3>1. x[1] = "insert" /\ x[2] = With(w, i, Unknown)
      BY <2>4
    <3> QED
      BY <3>1 DEF EditedAt
  <2>5. CASE x = <<"respell", Respelled(w, i, "otherwise")>>
    <3>1. x[1] = "respell" /\ x[2] = Respelled(w, i, "otherwise")
      BY <2>5
    <3> QED
      BY <3>1 DEF EditedAt
  <2>6. CASE x = <<"garble", Respelled(w, i, "garbage")>>
    <3>1. x[1] = "garble" /\ x[2] = Respelled(w, i, "garbage")
      BY <2>6
    <3> QED
      BY <3>1 DEF EditedAt
  <2>7. CASE x = <<"break", Respelled(w, i, "no line")>>
    <3>1. x[1] = "break" /\ x[2] = Respelled(w, i, "no line")
      BY <2>7
    <3> QED
      BY <3>1 DEF EditedAt
  <2>8. ASSUME NEW j \in (i + 1)..n, x = <<"swap", Swapped(w, i, j)>>
        PROVE  EditedAt(x[1], x[2], w, i)
    <3>1. x[1] = "swap" /\ x[2] = Swapped(w, i, j)
      BY <2>8
    <3> QED
      BY <3>1 DEF EditedAt
  <2>9. ASSUME NEW d \in (0..MaxCapacity + 1) \ {w[i].datum}, x = <<"change", Changed(w, i, d)>>
        PROVE  EditedAt(x[1], x[2], w, i)
    <3>1. x[1] = "change" /\ x[2] = Changed(w, i, d)
      BY <2>9
    <3> QED
      BY <3>1 DEF EditedAt
  <2> QED
    BY <1>2, <2>1, <2>2, <2>3, <2>4, <2>5, <2>6, <2>7, <2>8, <2>9, Zenon
<1> QED
  BY <1>3

\* A text is as it was written or has been edited once.
Stored(name, l, w) ==
  \/ name = "none" /\ l = w
  \/ \E i \in 1..Len(w) : EditedAt(name, l, w, i)

LEMMA EditTells ==
  ASSUME NEW w, Proper(w), NEW name, NEW l, Stored(name, l, w), NEW p, SameUpTo(l, w, p)
  PROVE  Tells(name, l, w, p)
<1>1. CASE name = "none" /\ l = w
  BY <1>1, NoneTells
<1>2. ASSUME NEW i \in 1..Len(w), EditedAt(name, l, w, i)
      PROVE  Tells(name, l, w, p)
  <2>1. CASE name = "drop" /\ l = Without(w, i)
    BY <2>1, DropTells
  <2>2. CASE name = "repeat" /\ l = With(w, i, w[i])
    <3>1. \E j \in 1..i : w[i] = w[j]
      OBVIOUS
    <3> QED
      BY <2>2, <3>1, PutTells
  <2>3. CASE name = "repeat" /\ l = With(w, Len(w), w[i])
    <3> DEFINE n == Len(w)
    <3>1. n \in 1..n /\ \E j \in 1..n : w[i] = w[j]
      BY DEF Proper, IsSequence
    <3> QED
      BY <2>3, <3>1, PutTells
  <2>4. CASE name = "insert" /\ l = With(w, i, Unknown)
    BY <2>4, PutTells
  <2>5. CASE name = "respell" /\ l = Respelled(w, i, "otherwise")
    BY <2>5, SpellTells
  <2>6. CASE name = "garble" /\ l = Respelled(w, i, "garbage")
    BY <2>6, SpellTells
  <2>7. CASE name = "break" /\ l = Respelled(w, i, "no line")
    BY <2>7, SpellTells
  <2>8. CASE name = "swap" /\ \E j \in (i + 1)..Len(w) : l = Swapped(w, i, j)
    BY <2>8, SwapTells
  <2>9. CASE name = "change" /\ \E d \in (0..MaxCapacity + 1) \ {w[i].datum} : l = Changed(w, i, d)
    BY <2>9, ChangeTells
  <2> QED
    BY <1>2, <2>1, <2>2, <2>3, <2>4, <2>5, <2>6, <2>7, <2>8, <2>9 DEF EditedAt
<1> QED
  BY <1>1, <1>2 DEF Stored

\* Only one edit makes a text that is not opened.
BrokenOff(l) == \E k \in 1..Len(l) : l[k].spelling = "no line"

Opens(name, l) ==
  /\ IsSequence(l) /\ Len(l) > 0
  /\ (name = "break") <=> BrokenOff(l)

LEMMA OpensIf ==
  ASSUME NEW l, IsSequence(l), Len(l) > 0, \A k \in 1..Len(l) : l[k].spelling = "canonical",
         NEW name, name # "break"
  PROVE  Opens(name, l)
<1>1. ~BrokenOff(l)
  BY DEF BrokenOff
<1> QED
  BY <1>1 DEF Opens

LEMMA OpensWith ==
  ASSUME NEW w, Proper(w), NEW m \in 1..Len(w), NEW line, line.spelling = "canonical", NEW name, name # "break"
  PROVE  Opens(name, With(w, m, line))
<1> DEFINE l == With(w, m, line)
<1>1. IsSequence(w) /\ Len(w) \in Nat /\ \A k \in 1..Len(w) : w[k].spelling = "canonical"
  BY DEF Proper, IsSequence
<1>2. /\ IsSequence(l) /\ Len(l) = Len(w) + 1
      /\ \A k \in 1..m : l[k] = w[k]
      /\ l[m + 1] = line
      /\ \A k \in (m + 2)..(Len(w) + 1) : l[k] = w[k - 1]
  BY <1>1, WithIs
<1> HIDE DEF l
<1>3. ASSUME NEW k \in 1..Len(l)
      PROVE  l[k].spelling = "canonical"
  <2>1. CASE k <= m
    BY <1>1, <1>2, <2>1
  <2>2. CASE k = m + 1
    BY <1>1, <1>2, <2>2
  <2>3. CASE k > m + 1
    BY <1>1, <1>2, <2>3
  <2> QED
    BY <1>1, <1>2, <2>1, <2>2, <2>3
<1>4. Opens(name, l)
  BY <1>1, <1>2, <1>3, OpensIf
<1> QED
  BY <1>4 DEF l

NoLine(s) == s = "no line"

LEMMA BreaksOff ==
  ASSUME NEW w, Proper(w), NEW i \in 1..Len(w), NEW s
  PROVE  LET l == Respelled(w, i, s)
         IN  IsSequence(l) /\ Len(l) > 0 /\ (BrokenOff(l) <=> NoLine(s))
<1> DEFINE l == Respelled(w, i, s)
<1>1. Len(w) \in Nat /\ \A k \in 1..Len(w) : w[k].spelling = "canonical"
  BY DEF Proper, IsSequence
<1>2. /\ IsSequence(l) /\ Len(l) = Len(w) /\ l[i].spelling = s
      /\ \A k \in 1..Len(w) : k # i => l[k] = w[k]
  BY RespelledIs
<1> HIDE DEF l
<1>3. ASSUME BrokenOff(l)
      PROVE  NoLine(s)
  <2>1. PICK k \in 1..Len(l) : l[k].spelling = "no line"
    BY <1>3 DEF BrokenOff
  <2>2. k = i
    BY <1>1, <1>2, <2>1
  <2> QED
    BY <1>2, <2>1, <2>2 DEF NoLine
<1>4. ASSUME NoLine(s)
      PROVE  BrokenOff(l)
  <2>1. i \in 1..Len(l) /\ l[i].spelling = "no line"
    BY <1>2, <1>4 DEF NoLine
  <2> QED
    BY <2>1 DEF BrokenOff
<1>5. Len(l) > 0
  BY <1>1, <1>2
<1> QED
  BY <1>2, <1>3, <1>4, <1>5 DEF l

LEMMA OpensRespelled ==
  ASSUME NEW w, Proper(w), NEW i \in 1..Len(w), NEW s, NEW name, (name = "break") <=> NoLine(s)
  PROVE  Opens(name, Respelled(w, i, s))
<1> DEFINE l == Respelled(w, i, s)
<1>1. IsSequence(l) /\ Len(l) > 0 /\ (BrokenOff(l) <=> NoLine(s))
  BY BreaksOff
<1> HIDE DEF l
<1>2. Opens(name, l)
  BY <1>1 DEF Opens
<1> QED
  BY <1>2 DEF l

LEMMA OpensUnlessBroken ==
  ASSUME NEW w, Proper(w), Len(w) > 1, NEW name, NEW l, Stored(name, l, w)
  PROVE  Opens(name, l)
<1>1. IsSequence(w) /\ Len(w) \in Nat /\ Len(w) > 0 /\ \A k \in 1..Len(w) : w[k].spelling = "canonical"
  BY DEF Proper, IsSequence
<1>2. CASE name = "none" /\ l = w
  BY <1>1, <1>2, OpensIf
<1>3. ASSUME NEW i \in 1..Len(w), EditedAt(name, l, w, i)
      PROVE  Opens(name, l)
  <2>1. CASE name = "drop" /\ l = Without(w, i)
    <3>1. /\ IsSequence(l) /\ Len(l) = Len(w) - 1
          /\ \A k \in 1..(i - 1) : l[k] = w[k]
          /\ \A k \in i..(Len(w) - 1) : l[k] = w[k + 1]
      BY <1>1, <2>1, WithoutIs
    <3>2. ASSUME NEW k \in 1..Len(l)
          PROVE  l[k].spelling = "canonical"
      <4>1. CASE k < i
        BY <1>1, <3>1, <4>1
      <4>2. CASE k >= i
        BY <1>1, <3>1, <4>2
      <4> QED
        BY <1>1, <3>1, <4>1, <4>2
    <3>3. Len(l) > 0 /\ name # "break"
      BY <1>1, <2>1, <3>1
    <3> QED
      BY <3>1, <3>2, <3>3, OpensIf
  <2>2. CASE name = "repeat" /\ l = With(w, i, w[i])
    BY <1>1, <2>2, OpensWith
  <2>3. CASE name = "repeat" /\ l = With(w, Len(w), w[i])
    <3>1. Len(w) \in 1..Len(w)
      BY <1>1
    <3> QED
      BY <1>1, <2>3, <3>1, OpensWith
  <2>4. CASE name = "insert" /\ l = With(w, i, Unknown)
    <3>1. Unknown.spelling = "canonical"
      BY DEF Unknown
    <3> QED
      BY <2>4, <3>1, OpensWith
  <2>5. CASE \/ name = "respell" /\ l = Respelled(w, i, "otherwise")
             \/ name = "garble" /\ l = Respelled(w, i, "garbage")
             \/ name = "break" /\ l = Respelled(w, i, "no line")
    <3>1. ~NoLine("otherwise") /\ ~NoLine("garbage") /\ NoLine("no line")
      BY DEF NoLine
    <3>2. CASE name # "break" /\ l = Respelled(w, i, "otherwise")
      BY <3>1, <3>2, OpensRespelled
    <3>3. CASE name # "break" /\ l = Respelled(w, i, "garbage")
      BY <3>1, <3>3, OpensRespelled
    <3>4. CASE name = "break" /\ l = Respelled(w, i, "no line")
      BY <3>1, <3>4, OpensRespelled
    <3> QED
      BY <2>5, <3>2, <3>3, <3>4
  <2>6. CASE name = "swap" /\ \E j \in (i + 1)..Len(w) : l = Swapped(w, i, j)
    <3>1. PICK j \in (i + 1)..Len(w) : l = [w EXCEPT ![i] = w[j], ![j] = w[i]]
      BY <2>6 DEF Swapped
    <3>2. j \in 1..Len(w)
      BY <1>1
    <3>3. l = [[w EXCEPT ![i] = w[j]] EXCEPT ![j] = w[i]]
      BY <3>1
    <3>4. w = [k \in 1..Len(w) |-> w[k]]
      BY <1>1 DEF IsSequence
    <3>5. l = [k \in 1..Len(w) |-> IF k = j THEN w[i] ELSE IF k = i THEN w[j] ELSE w[k]]
      BY <1>1, <3>2, <3>3, <3>4
    <3>6. IsSequence(l) /\ Len(l) = Len(w) /\ \A k \in 1..Len(w) : l[k].spelling = "canonical"
      BY <1>1, <3>2, <3>5 DEF IsSequence
    <3>7. Len(l) > 0 /\ name # "break"
      BY <1>1, <2>6, <3>6
    <3> QED
      BY <3>6, <3>7, OpensIf
  <2>7. CASE name = "change" /\ \E d \in (0..MaxCapacity + 1) \ {w[i].datum} : l = Changed(w, i, d)
    <3>1. PICK d \in (0..MaxCapacity + 1) \ {w[i].datum} : l = Changed(w, i, d)
      BY <2>7
    <3>2. /\ IsSequence(l) /\ Len(l) = Len(w) /\ l[i].spelling = "canonical"
          /\ \A k \in 1..Len(w) : k # i => l[k] = w[k]
      BY <3>1, ChangedIs
    <3>3. \A k \in 1..Len(w) : l[k].spelling = "canonical"
      BY <1>1, <3>2
    <3>4. Len(l) > 0 /\ name # "break"
      BY <1>1, <2>7, <3>2
    <3> QED
      BY <3>2, <3>3, <3>4, OpensIf
  <2> QED
    BY <1>3, <2>1, <2>2, <2>3, <2>4, <2>5, <2>6, <2>7 DEF EditedAt
<1> QED
  BY <1>2, <1>3 DEF Stored

-----------------------------------------------------------------------------
(***************************************************************************)
(* What a decoder asks for.                                                *)
(***************************************************************************)
Asks(f, e, g) == <<e.field, g.field>> \in FieldPairs(f) /\ g.at = e.at

Matched(f, X, Y) ==
  /\ IsSequence(X) /\ IsSequence(Y) /\ Len(Y) = Len(X)
  /\ \A k \in 1..Len(X) : Asks(f, X[k], Y[k])

LEMMA AsksIs ==
  ASSUME NEW f \in Formats, NEW e, NEW g, Asks(f, e, g)
  PROVE  /\ KeyOf(g) = KeyOf(e)
         /\ g.field.kind = "flag" <=> e.field.kind = "flag"
         /\ g.field.kind = "count" <=> e.field.kind = "count"
         /\ g.field.kind \in {"fixed", "known"} <=> e.field.kind = "constant"
         /\ e.field.kind \in {"constant", "plain", "flag", "count"}
<1>1. g.field.name = e.field.name /\ <<e.field.kind, g.field.kind>> \in Treatments
  BY PairIs DEF Asks
<1> DEFINE a == e.field.kind
           b == g.field.kind
<1>2. \/ a = "constant" /\ b \in {"fixed", "known"}
      \/ a = "plain" /\ b \in {"free", "word"}
      \/ a = "flag" /\ b = "flag"
      \/ a = "count" /\ b = "count"
  BY <1>1 DEF Treatments
<1>3. KeyOf(g) = KeyOf(e)
  BY <1>1 DEF Asks, KeyOf
<1> HIDE DEF a, b
<1>4. /\ b = "flag" <=> a = "flag"
      /\ b = "count" <=> a = "count"
      /\ b \in {"fixed", "known"} <=> a = "constant"
      /\ a \in {"constant", "plain", "flag", "count"}
  BY <1>2
<1> QED
  BY <1>3, <1>4 DEF a, b

LEMMA EmptyMatched ==
  ASSUME NEW f
  PROVE  Matched(f, <<>>, <<>>)
BY EmptyIs DEF Matched

LEMMA EntriesMatched ==
  ASSUME NEW f, NEW g, NEW h, NEW at, IsSequence(g), IsSequence(h), Len(h) = Len(g),
         \A i \in 1..Len(g) : <<g[i], h[i]>> \in FieldPairs(f)
  PROVE  Matched(f, Entries(g, at), Entries(h, at))
<1> DEFINE X == Entries(g, at)
           Y == Entries(h, at)
<1>1. IsSequence(X) /\ Len(X) = Len(g) /\ \A i \in 1..Len(g) : X[i] = [field |-> g[i], at |-> at]
  BY EntriesAre
<1>2. IsSequence(Y) /\ Len(Y) = Len(g) /\ \A i \in 1..Len(g) : Y[i] = [field |-> h[i], at |-> at]
  BY EntriesAre
<1> HIDE DEF X, Y
<1>3. ASSUME NEW i \in 1..Len(g)
      PROVE  Asks(f, X[i], Y[i])
  <2>1. X[i] = [field |-> g[i], at |-> at] /\ Y[i] = [field |-> h[i], at |-> at]
    BY <1>1, <1>2
  <2>2. X[i].field = g[i] /\ X[i].at = at /\ Y[i].field = h[i] /\ Y[i].at = at
    BY <2>1
  <2> QED
    BY <2>2 DEF Asks
<1>4. Matched(f, X, Y)
  BY <1>1, <1>2, <1>3 DEF Matched
<1> QED
  BY <1>4 DEF X, Y

LEMMA RepeatedMatched ==
  ASSUME NEW f, NEW g, NEW h, NEW at, IsSequence(g), IsSequence(h), Len(h) = Len(g), Len(g) > 0, NEW d \in Nat,
         \A i \in 1..Len(g) : <<g[i], h[i]>> \in FieldPairs(f)
  PROVE  Matched(f, Repeated(g, at, d), Repeated(h, at, d))
<1> DEFINE X    == Repeated(g, at, d)
           Y    == Repeated(h, at, d)
           n    == d * Len(g)
           m(k) == ((k - 1) % Len(g)) + 1
           q(k) == (k - 1) \div Len(g)
<1>1. /\ IsSequence(X) /\ Len(X) = n
      /\ \A k \in 1..n : m(k) \in 1..Len(g) /\ X[k] = [field |-> g[m(k)], at |-> Append(at, q(k))]
  BY RepeatedAre
<1>2. /\ IsSequence(Y) /\ Len(Y) = n
      /\ \A k \in 1..n : Y[k] = [field |-> h[m(k)], at |-> Append(at, q(k))]
  <2>1. /\ IsSequence(Y) /\ Len(Y) = d * Len(h)
        /\ \A k \in 1..(d * Len(h)) :
             Y[k] = [field |-> h[((k - 1) % Len(h)) + 1], at |-> Append(at, (k - 1) \div Len(h))]
    BY RepeatedAre
  <2> HIDE DEF Y
  <2> QED
    BY <2>1
<1> HIDE DEF X, Y, n, m, q
<1>3. ASSUME NEW k \in 1..n
      PROVE  Asks(f, X[k], Y[k])
  <2>1. X[k] = [field |-> g[m(k)], at |-> Append(at, q(k))] /\ Y[k] = [field |-> h[m(k)], at |-> Append(at, q(k))]
    BY <1>1, <1>2
  <2>2. X[k].field = g[m(k)] /\ X[k].at = Y[k].at /\ Y[k].field = h[m(k)]
    BY <2>1
  <2>3. m(k) \in 1..Len(g)
    BY <1>1
  <2> QED
    BY <2>2, <2>3 DEF Asks
<1>4. Matched(f, X, Y)
  BY <1>1, <1>2, <1>3 DEF Matched
<1> QED
  BY <1>4 DEF X, Y

\* What a field brings with it is asked for when the field has been read as it was written.
LEMMA ExpansionsMatch ==
  ASSUME NEW f \in Formats, NEW e, NEW g, Asks(f, e, g), NEW d \in Nat
  PROVE  Matched(f, Expansion(e, d), Expansion(g, d))
<1>1. /\ IsSequence(e.field.group) /\ IsSequence(g.field.group) /\ Len(g.field.group) = Len(e.field.group)
      /\ e.field.kind \in {"flag", "count"} => Len(e.field.group) > 0
      /\ \A i \in 1..Len(e.field.group) : <<e.field.group[i], g.field.group[i]>> \in FieldPairs(f)
      /\ g.at = e.at
  <2> DEFINE x == e.field
             y == g.field
  <2>1. <<x, y>> \in FieldPairs(f) /\ g.at = e.at
    BY DEF Asks
  <2> HIDE DEF x, y
  <2>2. /\ IsSequence(x.group) /\ IsSequence(y.group) /\ Len(y.group) = Len(x.group)
        /\ x.kind \in {"flag", "count"} => Len(x.group) > 0
        /\ \A i \in 1..Len(x.group) : <<x.group[i], y.group[i]>> \in FieldPairs(f)
    <3>1. IsSequence(x.group)
      BY <2>1, PairIs
    <3>2. IsSequence(y.group)
      BY <2>1, PairIs
    <3>3. Len(y.group) = Len(x.group)
      BY <2>1, GroupsAreAsLong
    <3>4. x.kind \in {"flag", "count"} => Len(x.group) > 0
      BY <2>1, PairIs
    <3>5. ASSUME NEW i \in 1..Len(x.group)
          PROVE  <<x.group[i], y.group[i]>> \in FieldPairs(f)
      BY <2>1, PairIs
    <3> QED
      BY <3>1, <3>2, <3>3, <3>4, <3>5
  <2> QED
    BY <2>1, <2>2 DEF x, y
<1>2. /\ g.field.kind = "flag" <=> e.field.kind = "flag"
      /\ g.field.kind = "count" <=> e.field.kind = "count"
  BY AsksIs
<1>3. CASE e.field.kind = "flag"
  <2>1. /\ Expansion(e, d) = IF d = 1 THEN Entries(e.field.group, e.at) ELSE <<>>
        /\ Expansion(g, d) = IF d = 1 THEN Entries(g.field.group, e.at) ELSE <<>>
    BY <1>1, <1>2, <1>3, ExpansionCases
  <2>2. Matched(f, Entries(e.field.group, e.at), Entries(g.field.group, e.at))
    BY <1>1, EntriesMatched
  <2> QED
    BY <2>1, <2>2, EmptyMatched
<1>4. CASE e.field.kind = "count"
  <2>1. /\ Expansion(e, d) = Repeated(e.field.group, e.at, d)
        /\ Expansion(g, d) = Repeated(g.field.group, e.at, d)
    BY <1>1, <1>2, <1>4, ExpansionCases
  <2>2. Matched(f, Repeated(e.field.group, e.at, d), Repeated(g.field.group, e.at, d))
    BY <1>1, <1>4, RepeatedMatched
  <2> QED
    BY <2>1, <2>2
<1>5. CASE e.field.kind \notin {"flag", "count"}
  <2>1. Expansion(e, d) = <<>> /\ Expansion(g, d) = <<>>
    BY <1>2, <1>5, ExpansionCases
  <2> QED
    BY <2>1, EmptyMatched
<1> QED
  BY <1>3, <1>4, <1>5

\* A greater flag or count brings more with it, after what the smaller one brings.
LEMMA MoreIsBrought ==
  ASSUME NEW f \in Formats, NEW e, NEW g, Asks(f, e, g), NEW d \in Nat, NEW c \in Nat, d < c,
         e.field.kind = "count" \/ (e.field.kind = "flag" /\ d = 0 /\ c = 1)
  PROVE  /\ Len(Expansion(e, d)) < Len(Expansion(e, c))
         /\ \A k \in 1..Len(Expansion(e, d)) : Expansion(e, c)[k] = Expansion(e, d)[k]
<1>1. IsSequence(e.field.group) /\ Len(e.field.group) > 0
  BY PairIs DEF Asks
<1> DEFINE h == e.field.group
           n == Len(h)
<1>2. n \in Nat /\ n > 0 /\ IsSequence(h)
  BY <1>1 DEF IsSequence
<1>3. CASE e.field.kind = "count"
  <2> DEFINE X == Repeated(h, e.at, d)
             Y == Repeated(h, e.at, c)
             x(k) == [field |-> h[((k - 1) % n) + 1], at |-> Append(e.at, (k - 1) \div n)]
  <2>1. Expansion(e, d) = X /\ Expansion(e, c) = Y
    BY <1>3, ExpansionCases
  <2>2. d * n < c * n /\ d * n \in Nat
    BY <1>2, ProductGrows, ProductIs
  <2> HIDE DEF h
  <2>3. Len(X) = d * n /\ \A k \in 1..(d * n) : X[k] = x(k)
    BY <1>2, RepeatedAre
  <2>4. Len(Y) = c * n /\ \A k \in 1..(c * n) : Y[k] = x(k)
    BY <1>2, RepeatedAre
  <2> DEFINE a == d * n
             b == c * n
  <2>5. a < b /\ a \in Nat /\ Len(X) = a /\ Len(Y) = b /\ b \in Nat
    BY <1>2, <2>2, <2>3, <2>4, ProductIs
  <2>6. (\A k \in 1..a : X[k] = x(k)) /\ (\A k \in 1..b : Y[k] = x(k))
    BY <2>3, <2>4
  <2> HIDE DEF X, Y, x, a, b
  <2>7. Len(X) < Len(Y) /\ \A k \in 1..Len(X) : Y[k] = X[k]
    BY <2>5, <2>6
  <2> QED
    BY <2>1, <2>7
<1>4. CASE e.field.kind = "flag" /\ d = 0 /\ c = 1
  <2>1. Expansion(e, d) = <<>> /\ Expansion(e, c) = Entries(h, e.at)
    BY <1>4, ExpansionCases
  <2> HIDE DEF h
  <2>2. Len(Entries(h, e.at)) = n
    BY <1>2, EntriesAre
  <2>3. Len(<<>>) = 0
    BY EmptyIs
  <2> HIDE DEF n
  <2> QED
    BY <1>2, <2>1, <2>2, <2>3
<1> QED
  BY <1>3, <1>4

\* The first m entries are asked for as they are to be pushed.
Alike(f, t, u, m) ==
  /\ IsSequence(u) /\ m \in Nat /\ m <= Len(t) /\ m <= Len(u)
  /\ \A k \in 1..m : Asks(f, t[k], u[k])

\* All of them are, or only the first m.
Agree(f, t, u) == Alike(f, t, u, Len(t)) /\ Len(u) = Len(t)

Part(f, t, u, m) ==
  /\ Alike(f, t, u, m)
  /\ ~(Len(t) = m /\ Len(u) = m)
  /\ m < Len(t) /\ m < Len(u) => KeyOf(t[m + 1]) # KeyOf(u[m + 1])

LEMMA FirstAgree ==
  ASSUME NEW f \in Formats
  PROVE  Agree(f, Entries(Writes(f), <<>>), Entries(Reads(f), <<>>))
<1>1. IsSequence(Writes(f)) /\ IsSequence(Reads(f)) /\ Len(Reads(f)) = Len(Writes(f))
  BY ReadsFollowWrites
<1>2. ASSUME NEW i \in 1..Len(Writes(f))
      PROVE  <<Writes(f)[i], Reads(f)[i]>> \in FieldPairs(f)
  BY DEF FieldPairs, Abreast
<1> DEFINE X == Entries(Writes(f), <<>>)
           Y == Entries(Reads(f), <<>>)
<1>3. Matched(f, X, Y)
  BY <1>1, <1>2, EntriesMatched
<1> HIDE DEF X, Y
<1>4. Agree(f, X, Y)
  BY <1>3 DEF Matched, Agree, Alike, IsSequence
<1> QED
  BY <1>4 DEF X, Y

LEMMA StepAlike ==
  ASSUME NEW f \in Formats, NEW t, IsSequence(t), NEW u, NEW m, m > 0, Alike(f, t, u, m),
         NEW X, NEW Y, Matched(f, X, Y)
  PROVE  /\ Alike(f, X \o Tail(t), Y \o Tail(u), Len(X) + m - 1)
         /\ Agree(f, t, u) => Agree(f, X \o Tail(t), Y \o Tail(u))
         /\ Part(f, t, u, m) => Part(f, X \o Tail(t), Y \o Tail(u), Len(X) + m - 1)
<1> DEFINE v == X \o Tail(t)
           w == Y \o Tail(u)
           n == Len(X)
<1>1. /\ IsSequence(u) /\ m \in Nat /\ m > 0 /\ m <= Len(t) /\ m <= Len(u) /\ Len(t) \in Nat /\ Len(u) \in Nat
      /\ Len(t) > 0 /\ Len(u) > 0
  BY DEF Alike, IsSequence
<1>2. IsSequence(X) /\ IsSequence(Y) /\ Len(Y) = n /\ n \in Nat /\ \A k \in 1..n : Asks(f, X[k], Y[k])
  BY DEF Matched, IsSequence
<1>3. /\ IsSequence(v) /\ Len(v) = n + Len(t) - 1
      /\ \A i \in 1..n : v[i] = X[i]
      /\ \A i \in 2..Len(t) : v[n + i - 1] = t[i]
  BY <1>1, <1>2, NextIs
<1>4. /\ IsSequence(w) /\ Len(w) = n + Len(u) - 1
      /\ \A i \in 1..n : w[i] = Y[i]
      /\ \A i \in 2..Len(u) : w[n + i - 1] = u[i]
  <2>1. /\ IsSequence(w) /\ Len(w) = Len(Y) + Len(u) - 1
        /\ \A i \in 1..Len(Y) : w[i] = Y[i]
        /\ \A i \in 2..Len(u) : w[Len(Y) + i - 1] = u[i]
    BY <1>1, <1>2, NextIs
  <2> HIDE DEF w
  <2> QED
    BY <1>2, <2>1
<1> HIDE DEF v, w, n
<1>5. ASSUME NEW j \in Nat, j > 0, Alike(f, t, u, j)
      PROVE  Alike(f, v, w, n + j - 1)
  <2>1. j <= Len(t) /\ j <= Len(u) /\ \A k \in 1..j : Asks(f, t[k], u[k])
    BY <1>5 DEF Alike
  <2>2. ASSUME NEW k \in 1..(n + j - 1)
        PROVE  Asks(f, v[k], w[k])
    <3>1. CASE k <= n
      BY <1>2, <1>3, <1>4, <3>1
    <3>2. CASE k > n
      <4> DEFINE i == k - n + 1
      <4>1. i \in 2..j /\ i \in 2..Len(t) /\ i \in 2..Len(u) /\ n + i - 1 = k
        BY <1>1, <1>2, <2>1, <3>2
      <4> HIDE DEF i
      <4>2. v[n + i - 1] = t[i] /\ w[n + i - 1] = u[i] /\ Asks(f, t[i], u[i])
        BY <1>3, <1>4, <2>1, <4>1
      <4> QED
        BY <4>1, <4>2
    <3> QED
      BY <1>2, <3>1, <3>2
  <2> QED
    BY <1>1, <1>2, <1>3, <1>4, <1>5, <2>1, <2>2 DEF Alike
<1>6. Alike(f, v, w, n + m - 1)
  BY <1>1, <1>5
<1>7. ASSUME Agree(f, t, u)
      PROVE  Agree(f, v, w)
  <2>1. Alike(f, t, u, Len(t)) /\ Len(u) = Len(t)
    BY <1>7 DEF Agree
  <2>2. Alike(f, v, w, n + Len(t) - 1)
    BY <1>1, <1>5, <2>1
  <2> QED
    BY <1>3, <1>4, <2>1, <2>2 DEF Agree
<1>8. ASSUME Part(f, t, u, m)
      PROVE  Part(f, v, w, n + m - 1)
  <2>1. ~(Len(t) = m /\ Len(u) = m) /\ (m < Len(t) /\ m < Len(u) => KeyOf(t[m + 1]) # KeyOf(u[m + 1]))
    BY <1>8 DEF Part
  <2> DEFINE j == n + m - 1
  <2>2. j \in Nat /\ ~(Len(v) = j /\ Len(w) = j)
    BY <1>1, <1>2, <1>3, <1>4, <2>1
  <2>3. ASSUME j < Len(v), j < Len(w)
        PROVE  KeyOf(v[j + 1]) # KeyOf(w[j + 1])
    <3> DEFINE i == m + 1
    <3>1. i \in 2..Len(t) /\ i \in 2..Len(u) /\ n + i - 1 = j + 1 /\ m < Len(t) /\ m < Len(u)
      BY <1>1, <1>2, <1>3, <1>4, <2>3
    <3>2. KeyOf(t[i]) # KeyOf(u[i])
      BY <2>1, <3>1
    <3> HIDE DEF i, j
    <3>3. v[n + i - 1] = t[i] /\ w[n + i - 1] = u[i]
      BY <1>3, <1>4, <3>1
    <3> QED
      BY <3>1, <3>2, <3>3
  <2>4. Alike(f, v, w, j)
    BY <1>6
  <2> HIDE DEF j
  <2>5. Part(f, v, w, j)
    BY <2>2, <2>3, <2>4 DEF Part
  <2> QED
    BY <2>5 DEF j
<1> QED
  BY <1>6, <1>7, <1>8 DEF v, w, n

(***************************************************************************)
(* A different flag or count is followed by a different text.              *)
(***************************************************************************)
LEMMA KeysOfMore ==
  ASSUME NEW f \in Formats, NEW t, Tidy(f, t), Len(t) > 1, NEW d \in Nat, NEW k \in 1..Len(Expansion(t[1], d))
  PROVE  KeyOf(Expansion(t[1], d)[k]) # KeyOf(t[2])
<1> DEFINE e == t[1]
           X == Expansion(e, d)
<1>1. 1 \in 1..Len(t) /\ 2 \in 1..Len(t)
  BY DEF Tidy, IsSequence
<1>2. /\ Pushed(f, e.field) /\ IsSequence(e.at) /\ IsSequence(t[2].at) /\ Separate(e, t[2])
  BY <1>1 DEF Tidy
<1> HIDE DEF e
<1>3. Brought(e.field.group, e.at, X)
  BY <1>2, ExpansionIsBrought
<1>4. k \in 1..Len(X)
  BY DEF e
<1> HIDE DEF X
<1>5. Names(X[k].field) \subseteq Names(e.field)
  BY <1>2, <1>3, <1>4, BroughtIs
<1>6. IsSequence(X[k].at) /\ Extends(X[k].at, e.at)
  BY <1>3, <1>4 DEF Brought
<1>7. Separate(X[k], t[2])
  BY <1>2, <1>5, <1>6, SeparateIs
<1>8. KeyOf(X[k]) # KeyOf(t[2])
  BY <1>2, <1>6, <1>7, SeparateIs
<1> QED
  BY <1>8 DEF X, e

\* The first m entries are asked for; then one of the two lists goes on with Z, the
\* other with what came next in both.
LEMMA PartIf ==
  ASSUME NEW f \in Formats, NEW t, NEW u, IsSequence(t), Agree(f, t, u), Len(t) > 0,
         NEW X, NEW Y, IsSequence(X), IsSequence(Y), NEW m \in Nat,
         \A k \in 1..m : Asks(f, X[k], Y[k]),
         \/ Len(X) = m /\ m < Len(Y) /\ (Len(t) > 1 => KeyOf(Y[m + 1]) # KeyOf(t[2]))
         \/ Len(Y) = m /\ m < Len(X) /\ (Len(t) > 1 => KeyOf(X[m + 1]) # KeyOf(t[2]))
  PROVE  Part(f, X \o Tail(t), Y \o Tail(u), m)
<1> DEFINE v == X \o Tail(t)
           w == Y \o Tail(u)
<1>1. IsSequence(u) /\ Len(t) \in Nat /\ Len(u) = Len(t) /\ \A k \in 1..Len(t) : Asks(f, t[k], u[k])
  BY DEF Agree, Alike, IsSequence
<1>2. Len(X) \in Nat /\ Len(Y) \in Nat
  BY DEF IsSequence
<1>3. /\ IsSequence(v) /\ Len(v) = Len(X) + Len(t) - 1
      /\ \A i \in 1..Len(X) : v[i] = X[i]
      /\ \A i \in 2..Len(t) : v[Len(X) + i - 1] = t[i]
  BY <1>1, NextIs
<1>4. /\ IsSequence(w) /\ Len(w) = Len(Y) + Len(t) - 1
      /\ \A i \in 1..Len(Y) : w[i] = Y[i]
      /\ \A i \in 2..Len(t) : w[Len(Y) + i - 1] = u[i]
  <2>1. /\ IsSequence(w) /\ Len(w) = Len(Y) + Len(u) - 1
        /\ \A i \in 1..Len(Y) : w[i] = Y[i]
        /\ \A i \in 2..Len(u) : w[Len(Y) + i - 1] = u[i]
    BY <1>1, NextIs
  <2> HIDE DEF w
  <2> QED
    BY <1>1, <2>1
<1> HIDE DEF v, w
<1>5. m <= Len(X) /\ m <= Len(Y) /\ m <= Len(v) /\ m <= Len(w)
  BY <1>1, <1>2, <1>3, <1>4
<1>6. Alike(f, v, w, m)
  <2>1. ASSUME NEW k \in 1..m
        PROVE  Asks(f, v[k], w[k])
    <3>1. k \in 1..Len(X) /\ k \in 1..Len(Y)
      BY <1>2, <1>5
    <3>2. v[k] = X[k] /\ w[k] = Y[k]
      BY <1>3, <1>4, <3>1
    <3> QED
      BY <3>2
  <2> QED
    BY <1>3, <1>4, <1>5, <2>1 DEF Alike
<1>7. ASSUME Len(t) > 1
      PROVE  KeyOf(u[2]) = KeyOf(t[2]) /\ 2 \in 2..Len(t)
  <2>1. 2 \in 1..Len(t)
    BY <1>1, <1>7
  <2>2. Asks(f, t[2], u[2])
    BY <1>1, <2>1
  <2> QED
    BY <2>1, <2>2, AsksIs
<1>8. ASSUME Len(X) = m /\ m < Len(Y) /\ (Len(t) > 1 => KeyOf(Y[m + 1]) # KeyOf(t[2]))
      PROVE  Part(f, v, w, m)
  <2>1. Len(w) > m /\ (m < Len(v) => Len(t) > 1)
    BY <1>1, <1>2, <1>3, <1>4, <1>8
  <2>2. w[m + 1] = Y[m + 1]
    BY <1>2, <1>4, <1>8
  <2>3. ASSUME Len(t) > 1
        PROVE  v[m + 1] = t[2]
    <3>1. v[Len(X) + 2 - 1] = t[2]
      BY <1>3, <1>7, <2>3
    <3>2. Len(X) + 2 - 1 = m + 1
      BY <1>8
    <3> QED
      BY <3>1, <3>2
  <2> QED
    BY <1>6, <1>8, <2>1, <2>2, <2>3 DEF Part
<1>9. ASSUME Len(Y) = m /\ m < Len(X) /\ (Len(t) > 1 => KeyOf(X[m + 1]) # KeyOf(t[2]))
      PROVE  Part(f, v, w, m)
  <2>1. Len(v) > m /\ (m < Len(w) => Len(t) > 1)
    BY <1>1, <1>2, <1>3, <1>4, <1>9
  <2>2. v[m + 1] = X[m + 1]
    BY <1>2, <1>3, <1>9
  <2>3. ASSUME Len(t) > 1
        PROVE  w[m + 1] = u[2]
    <3>1. w[Len(Y) + 2 - 1] = u[2]
      BY <1>4, <1>7, <2>3
    <3>2. Len(Y) + 2 - 1 = m + 1
      BY <1>9
    <3> QED
      BY <3>1, <3>2
  <2> QED
    BY <1>6, <1>7, <1>9, <2>1, <2>2, <2>3 DEF Part
<1> QED
  BY <1>8, <1>9 DEF v, w

LEMMA DifferentIsPart ==
  ASSUME NEW f \in Formats, NEW t, NEW u, Tidy(f, t), Agree(f, t, u), Len(t) > 0,
         NEW d \in Nat, NEW c \in Nat, d # c,
         t[1].field.kind = "count" \/ (t[1].field.kind = "flag" /\ d \in {0, 1} /\ c \in {0, 1})
  PROVE  \E m \in Nat : Part(f, Expansion(t[1], d) \o Tail(t), Expansion(u[1], c) \o Tail(u), m)
<1> DEFINE e == t[1]
           g == u[1]
<1>1. IsSequence(t) /\ Len(t) \in Nat /\ 1 \in 1..Len(t)
  BY DEF Tidy, IsSequence
<1>2. Asks(f, e, g)
  BY <1>1 DEF Agree, Alike
<1>3. \A n \in Nat : \A k \in 1..Len(Expansion(e, n)) : Len(t) > 1 => KeyOf(Expansion(e, n)[k]) # KeyOf(t[2])
  BY KeysOfMore
<1>4. e.field.kind = "count" \/ (e.field.kind = "flag" /\ d \in {0, 1} /\ c \in {0, 1})
  OBVIOUS
<1> HIDE DEF e, g
<1> DEFINE X == Expansion(e, d)
           Z == Expansion(e, c)
           Y == Expansion(g, c)
<1>5. Matched(f, X, Expansion(g, d)) /\ Matched(f, Z, Y)
  BY <1>2, ExpansionsMatch
<1>6. IsSequence(X) /\ IsSequence(Y) /\ Len(X) \in Nat /\ Len(Y) \in Nat /\ Len(Z) = Len(Y)
      /\ \A k \in 1..Len(Y) : Asks(f, Z[k], Y[k])
  BY <1>5 DEF Matched, IsSequence
<1>7. CASE d < c
  <2>1. Len(X) < Len(Z) /\ \A k \in 1..Len(X) : Z[k] = X[k]
    <3>1. e.field.kind = "count" \/ (e.field.kind = "flag" /\ d = 0 /\ c = 1)
      BY <1>4, <1>7
    <3> QED
      BY <1>2, <1>7, <3>1, MoreIsBrought
  <2>2. Len(t) > 1 => KeyOf(Z[Len(X) + 1]) # KeyOf(t[2])
    <3>1. Len(X) + 1 \in 1..Len(Z)
      BY <1>6, <2>1
    <3> QED
      BY <1>3, <3>1
  <2> HIDE DEF X, Y, Z
  <2>3. Asks(f, Z[Len(X) + 1], Y[Len(X) + 1])
    BY <1>6, <2>1
  <2>4. KeyOf(Y[Len(X) + 1]) = KeyOf(Z[Len(X) + 1])
    BY <2>3, AsksIs
  <2>5. \A k \in 1..Len(X) : Asks(f, X[k], Y[k])
    BY <1>6, <2>1
  <2>6. Part(f, X \o Tail(t), Y \o Tail(u), Len(X))
    <3> DEFINE m == Len(X)
    <3>1. m \in Nat /\ (\A k \in 1..m : Asks(f, X[k], Y[k]))
          /\ Len(X) = m /\ m < Len(Y) /\ (Len(t) > 1 => KeyOf(Y[m + 1]) # KeyOf(t[2]))
      BY <1>6, <2>1, <2>2, <2>4, <2>5
    <3> HIDE DEF m
    <3>2. Part(f, X \o Tail(t), Y \o Tail(u), m)
      BY <1>1, <1>6, <3>1, PartIf
    <3> QED
      BY <3>2 DEF m
  <2> QED
    BY <1>6, <2>6 DEF X, Y, e, g
<1>8. CASE c < d
  <2>1. Len(Z) < Len(X) /\ \A k \in 1..Len(Z) : X[k] = Z[k]
    <3>1. e.field.kind = "count" \/ (e.field.kind = "flag" /\ c = 0 /\ d = 1)
      BY <1>4, <1>8
    <3> QED
      BY <1>2, <1>8, <3>1, MoreIsBrought
  <2>2. Len(t) > 1 => KeyOf(X[Len(Z) + 1]) # KeyOf(t[2])
    <3>1. Len(Z) + 1 \in 1..Len(X)
      BY <1>6, <2>1
    <3> QED
      BY <1>3, <3>1
  <2> HIDE DEF X, Y, Z
  <2>5. \A k \in 1..Len(Y) : Asks(f, X[k], Y[k])
    BY <1>6, <2>1
  <2>6. Part(f, X \o Tail(t), Y \o Tail(u), Len(Y))
    <3> DEFINE m == Len(Y)
    <3>1. m \in Nat /\ (\A k \in 1..m : Asks(f, X[k], Y[k]))
          /\ Len(Y) = m /\ m < Len(X) /\ (Len(t) > 1 => KeyOf(X[m + 1]) # KeyOf(t[2]))
      BY <1>6, <2>1, <2>2, <2>5
    <3> HIDE DEF m
    <3>2. Part(f, X \o Tail(t), Y \o Tail(u), m)
      BY <1>1, <1>6, <3>1, PartIf
    <3> QED
      BY <3>2 DEF m
  <2> QED
    BY <1>6, <2>6 DEF X, Y, e, g
<1> QED
  BY <1>7, <1>8

-----------------------------------------------------------------------------
(***************************************************************************)
(* What a reader has seen.                                                 *)
(***************************************************************************)
Complete(f, w, T) == WrittenBy(f, w, T) /\ Len(T[Len(w)]) = 0

\* The first p lines differ from those written at most in spellings and plain values.
Faithful(l, w, p) ==
  \A k \in 1..p : /\ l[k].spelling \in {"canonical", "otherwise"}
                  /\ l[k].datum # w[k].datum => w[k].kind = "plain"

\* The reader asks for what was written next.
Follows(f, t, l, w, p, T) == Faithful(l, w, p) /\ Agree(f, T[p], t)

\* It has read a different flag or count, and asks for something else further on.
Strays(f, t, l, w, p, T) ==
  /\ \E c \in 1..p : ChangedAt(l, w, c)
  /\ \E m \in Nat : Part(f, T[p], t, m)

BeingWritten(f, t, l) == \E T : WrittenBy(f, l, T) /\ t = T[Len(l)]

BeenWritten(f, l, w, name) == \E T : Complete(f, w, T) /\ Stored(name, l, w)

Reading(f, t, l, w, p, name, T) ==
  /\ Complete(f, w, T) /\ Stored(name, l, w) /\ name # "break"
  /\ SameUpTo(l, w, p)
  /\ \/ Follows(f, t, l, w, p, T)
     \/ name = "change" /\ Strays(f, t, l, w, p, T)

BeingRead(f, t, l, w, p, keys, name) ==
  keys = KeysUpTo(w, p) /\ \E T : Reading(f, t, l, w, p, name, T)

CanonicalInv ==
  /\ format \in Formats
  /\ \/ /\ mode = "writing" /\ index = 0 /\ consumed_keys = {} /\ edit = "none"
        /\ BeingWritten(format, todo, lines)
     \/ /\ mode = "stored" /\ index = 0 /\ consumed_keys = {}
        /\ BeenWritten(format, lines, written, edit)
     \/ /\ mode = "reading"
        /\ BeingRead(format, todo, lines, written, index, consumed_keys, edit)
     \/ mode = "refused" /\ error \in Refusals(edit)
     \/ mode = "aborted" /\ edit = "change"
     \/ mode = "accepted" /\ OnlyWrittenTextIsAccepted

\* After p of the lines that were written.
LEMMA AfterLines ==
  ASSUME NEW f \in Formats, NEW w, NEW T, Complete(f, w, T), NEW p \in Nat, p <= Len(w)
  PROVE  /\ Len(w) \in Nat /\ Tidy(f, T[p]) /\ Len(T[p]) \in Nat
         /\ p = Len(w) => Len(T[p]) = 0
         /\ p < Len(w) => Len(T[p]) > 0 /\ p + 1 \in 1..Len(w)
<1>1. Len(w) \in Nat
  BY DEF Complete, WrittenBy, IsSequence
<1>2. p \in 0..Len(w)
  BY <1>1
<1>3. Tidy(f, T[p])
  BY <1>2 DEF Complete, WrittenBy
<1>4. Len(T[p]) \in Nat
  BY <1>3 DEF Tidy, IsSequence
<1>5. p = Len(w) => Len(T[p]) = 0
  BY DEF Complete
<1>6. ASSUME p < Len(w)
      PROVE  Len(T[p]) > 0 /\ p + 1 \in 1..Len(w)
  <2>1. p + 1 \in 1..Len(w) /\ (p + 1) - 1 = p
    BY <1>1, <1>6
  <2>2. Len(T[(p + 1) - 1]) > 0
    BY <2>1, WrittenLines DEF Complete
  <2> QED
    BY <2>1, <2>2
<1> QED
  BY <1>1, <1>3, <1>4, <1>5, <1>6

\* A line with an entry's key and a datum it may be written with.
LineFor(e, line) ==
  /\ line.key = KeyOf(e) /\ line.kind = e.field.kind /\ line.spelling = "canonical"
  /\ line.datum \in Nat
  /\ line.kind = "flag" => line.datum \in {0, 1}
  /\ line.kind = "count" => line.datum <= MaxCapacity
  /\ line.kind \notin {"flag", "count"} => line.datum = 1

\* The next line that was written.
LEMMA NextLine ==
  ASSUME NEW f \in Formats, NEW w, NEW T, Complete(f, w, T), NEW p \in Nat, p < Len(w)
  PROVE  /\ LineFor(T[p][1], w[p + 1])
         /\ T[p + 1] = Expansion(T[p][1], w[p + 1].datum) \o Tail(T[p])
<1> DEFINE i == p + 1
           e == T[p][1]
           d == w[i].datum
<1>1. i \in 1..Len(w) /\ i - 1 = p
  BY AfterLines
<1>2. WrittenBy(f, w, T)
  BY DEF Complete
<1>3. /\ Pushed(f, T[i - 1][1].field) /\ w[i].key = KeyOf(T[i - 1][1]) /\ w[i].kind = T[i - 1][1].field.kind
      /\ d \in Nat /\ d \in WrittenData(T[i - 1][1].field) /\ w[i].spelling = "canonical"
  <2> HIDE DEF i
  <2> QED
    BY <1>1, <1>2, WrittenLines
<1>4. Writing(T[i - 1], w[i], T[i])
  BY <1>1, <1>2 DEF WrittenBy
<1>5. T[i] = Expansion(T[i - 1][1], d) \o Tail(T[i - 1])
  BY <1>4 DEF Writing
<1> HIDE DEF i, d
<1>6. Pushed(f, e.field) /\ w[i].key = KeyOf(e) /\ w[i].kind = e.field.kind /\ d \in WrittenData(e.field)
  BY <1>1, <1>3
<1>7. T[i] = Expansion(e, d) \o Tail(T[p])
  BY <1>1, <1>5
<1> HIDE DEF e
<1>8. /\ e.field.kind = "flag" => d \in {0, 1}
      /\ e.field.kind = "count" => d <= MaxCapacity
      /\ e.field.kind \notin {"flag", "count"} => d = 1
  BY <1>6, DataAre
<1>9. LineFor(e, w[i])
  BY <1>3, <1>6, <1>8 DEF LineFor, d
<1> QED
  BY <1>7, <1>9 DEF i, d, e

\* A reader that follows has read all when all that was written has been.
LEMMA AgreeingIs ==
  ASSUME NEW f \in Formats, NEW t, NEW u, IsSequence(t), Agree(f, t, u)
  PROVE  /\ IsSequence(u) /\ Len(u) = Len(t)
         /\ Len(t) > 0 => u # <<>> /\ Head(u) = u[1] /\ Asks(f, t[1], u[1])
         /\ Len(t) = 0 => u = <<>>
<1>1. IsSequence(u) /\ Len(u) = Len(t) /\ Len(t) \in Nat /\ \A k \in 1..Len(t) : Asks(f, t[k], u[k])
  BY DEF Agree, Alike, IsSequence
<1>2. ASSUME Len(t) > 0
      PROVE  u # <<>> /\ Head(u) = u[1] /\ Asks(f, t[1], u[1])
  <2>1. 1 \in 1..Len(t) /\ Len(u) > 0 /\ Len(u) # 0
    BY <1>1, <1>2
  <2>2. u # <<>>
    BY <1>1, <2>1, EmptyIs
  <2>3. Head(u) = u[1]
    BY <1>1, <2>1, HeadTailIs
  <2> QED
    BY <1>1, <2>1, <2>2, <2>3
<1>3. Len(t) = 0 => u = <<>>
  BY <1>1, EmptyIs
<1> QED
  BY <1>1, <1>2, <1>3

LEMMA KeysGrow ==
  ASSUME NEW l, NEW w, NEW p, SameUpTo(l, w, p), IsSequence(w), IsSequence(l), p < Len(w), p < Len(l),
         l[p + 1].key = w[p + 1].key
  PROVE  SameUpTo(l, w, p + 1) /\ KeysUpTo(w, p + 1) = KeysUpTo(w, p) \cup {l[p + 1].key}
<1>1. p \in Nat /\ Len(w) \in Nat /\ Len(l) \in Nat
  BY DEF SameUpTo, IsSequence
<1>2. 1..(p + 1) = 1..p \cup {p + 1}
  BY <1>1
<1>3. SameUpTo(l, w, p + 1)
  BY <1>1, <1>2 DEF SameUpTo
<1>4. KeysUpTo(w, p + 1) = KeysUpTo(w, p) \cup {w[p + 1].key}
  BY <1>2 DEF KeysUpTo
<1> QED
  BY <1>3, <1>4

LEMMA FaithfulToo ==
  ASSUME NEW l, NEW w, NEW p \in Nat, Faithful(l, w, p), l[p + 1].spelling \in {"canonical", "otherwise"},
         l[p + 1].datum # w[p + 1].datum => w[p + 1].kind = "plain"
  PROVE  Faithful(l, w, p + 1)
<1>1. 1..(p + 1) = 1..p \cup {p + 1}
  OBVIOUS
<1> QED
  BY <1>1 DEF Faithful

\* What a decoder makes of a line.
LEMMA AcceptsIs ==
  ASSUME NEW x, NEW line
  PROVE  /\ Accepts(x, line) =>
              /\ line.spelling \in {"canonical", "otherwise"}
              /\ x.kind \in {"fixed", "known"} => line.datum = 1
              /\ x.kind = "flag" => line.datum \in {0, 1}
         /\ line.spelling = "canonical" /\ (x.kind \in {"fixed", "known"} => line.datum = 1)
              /\ (x.kind = "flag" => line.datum \in {0, 1}) => Accepts(x, line)
BY DEF Accepts

\* A reader that follows does not refuse the value of a line that was written.
LEMMA ValueRefused ==
  ASSUME NEW f \in Formats, NEW w, NEW T, Complete(f, w, T), NEW p \in Nat, p < Len(w), NEW t, Agree(f, T[p], t),
         NEW line, line = w[p + 1]
  PROVE  Accepts(Head(t).field, line)
<1>1. IsSequence(T[p]) /\ Len(T[p]) > 0
  BY AfterLines DEF Tidy
<1>2. Asks(f, T[p][1], Head(t))
  BY <1>1, AgreeingIs
<1> DEFINE e == T[p][1]
           g == Head(t)
<1>3. /\ (g.field.kind = "flag") <=> (e.field.kind = "flag")
      /\ (g.field.kind \in {"fixed", "known"}) <=> (e.field.kind = "constant")
  BY <1>2, AsksIs
<1>4. LineFor(e, line)
  BY NextLine
<1> HIDE DEF e, g
<1>5. (g.field.kind \in {"fixed", "known"} => line.datum = 1) /\ (g.field.kind = "flag" => line.datum \in {0, 1})
  BY <1>3, <1>4 DEF LineFor
<1>6. Accepts(g.field, line)
  BY <1>4, <1>5, AcceptsIs DEF LineFor
<1> QED
  BY <1>6 DEF g

LEMMA RefusalsAre ==
  /\ Refusals("drop") = {"missing", "order"}
  /\ Refusals("repeat") = {"duplicate"}
  /\ Refusals("insert") = {"order", "trailing"}
  /\ Refusals("swap") = {"order"}
  /\ Refusals("change") = {"value", "order", "missing", "trailing"}
  /\ Refusals("respell") = {"value"} /\ Refusals("garble") = {"value"}
  /\ Refusals("break") = {"malformed"} /\ Refusals("none") = {}
BY DEF Refusals

-----------------------------------------------------------------------------
(***************************************************************************)
(* How a reader goes on, and what it refuses.                              *)
(***************************************************************************)
LEMMA TextIsLong ==
  ASSUME NEW f \in Formats, NEW w, NEW T, Complete(f, w, T)
  PROVE  Len(w) > 1
<1> DEFINE n == Len(w)
<1>1. n \in Nat
  BY DEF Complete, WrittenBy, IsSequence
<1>2. Len(T[n]) = 0 /\ T[0] = Entries(Writes(f), <<>>)
  BY DEF Complete, WrittenBy
<1>3. Len(T[0]) > 1
  BY <1>2, FirstIsTidy
<1>4. n # 0
  BY <1>2, <1>3
<1>5. ASSUME NEW p \in Nat, p = 0, n = p + 1
      PROVE  FALSE
  <2> DEFINE e == T[p][1]
             d == w[p + 1].datum
             X == Expansion(e, d)
  <2>1. Tidy(f, T[p]) /\ Len(T[p]) \in Nat /\ Len(T[p]) > 1
    BY <1>3, <1>5, AfterLines
  <2>2. LineFor(e, w[p + 1]) /\ T[p + 1] = X \o Tail(T[p])
    <3>1. p < Len(w)
      BY <1>5
    <3> QED
      BY <3>1, NextLine
  <2>3. IsSequence(T[p]) /\ 1 \in 1..Len(T[p])
    BY <2>1 DEF Tidy
  <2>4. Pushed(f, e.field) /\ IsSequence(e.at)
    BY <2>1, <2>3 DEF Tidy
  <2>5. d \in Nat
    BY <2>2 DEF LineFor
  <2> HIDE DEF e, d
  <2>6. IsSequence(X)
    BY <2>4, <2>5, ExpansionIsBrought DEF Brought
  <2>7. T[n] = X \o Tail(T[p])
    BY <1>5, <2>2
  <2> HIDE DEF X, n
  <2>8. Len(T[n]) = Len(X) + Len(T[p]) - 1 /\ Len(X) \in Nat
    <3>1. Len(X \o Tail(T[p])) = Len(X) + Len(T[p]) - 1
      BY <2>1, <2>3, <2>6, NextIs
    <3> QED
      BY <2>6, <2>7, <3>1 DEF IsSequence
  <2> QED
    BY <1>2, <2>1, <2>8
<1> HIDE DEF n
<1>6. n # 1
  <2> SUFFICES ASSUME n = 1
               PROVE  FALSE
    OBVIOUS
  <2>1. PICK p \in Nat : p = 0
    OBVIOUS
  <2>2. n = p + 1
    BY <2>1
  <2> QED
    BY <1>5, <2>1, <2>2
<1>7. n > 1
  BY <1>1, <1>4, <1>6
<1> QED
  BY <1>7 DEF n

LEMMA StoredOpens ==
  ASSUME NEW f \in Formats, NEW w, NEW T, Complete(f, w, T), NEW name, NEW l, Stored(name, l, w)
  PROVE  Proper(w) /\ Opens(name, l)
<1>1. Proper(w)
  BY WrittenIsProper DEF Complete
<1>2. Len(w) > 1
  BY TextIsLong
<1> QED
  BY <1>1, <1>2, OpensUnlessBroken

\* What is refused because of where it is.
LEMMA MisplacedTells ==
  ASSUME NEW name, NEW l, NEW w, NEW p, Tells(name, l, w, p)
  PROVE  /\ p = Len(w) /\ p < Len(l) =>
              (IF l[p + 1].key \in KeysUpTo(w, p) THEN "duplicate" ELSE "trailing") \in Refusals(name)
         /\ p < Len(w) /\ p = Len(l) => "missing" \in Refusals(name)
         /\ p < Len(w) /\ p < Len(l) /\ l[p + 1].key # w[p + 1].key =>
              (IF l[p + 1].key \in KeysUpTo(w, p) THEN "duplicate" ELSE "order") \in Refusals(name)
<1> DEFINE known == l[p + 1].key \in KeysUpTo(w, p)
<1>1. ASSUME p = Len(w), p < Len(l)
      PROVE  (IF known THEN "duplicate" ELSE "trailing") \in Refusals(name)
  <2>1. (name = "repeat" /\ known) \/ (name = "insert" /\ ~known)
    BY <1>1 DEF Tells
  <2> HIDE DEF known
  <2> QED
    BY <2>1, RefusalsAre
<1>2. ASSUME p < Len(w), p = Len(l)
      PROVE  "missing" \in Refusals(name)
  BY <1>2, RefusalsAre DEF Tells
<1>3. ASSUME p < Len(w), p < Len(l), l[p + 1].key # w[p + 1].key
      PROVE  (IF known THEN "duplicate" ELSE "order") \in Refusals(name)
  <2>1. (name = "repeat" /\ known) \/ (name \in {"drop", "insert", "swap"} /\ ~known)
    BY <1>3 DEF Tells
  <2> HIDE DEF known
  <2> QED
    BY <2>1, RefusalsAre
<1> QED
  BY <1>1, <1>2, <1>3

LEMMA FollowsRefused ==
  ASSUME NEW f \in Formats, NEW w, NEW T, Complete(f, w, T), NEW l, NEW p \in Nat, p < Len(w), p < Len(l),
         NEW name, name # "break", Tells(name, l, w, p), l[p + 1].key = w[p + 1].key,
         NEW t, Agree(f, T[p], t), ~Accepts(Head(t).field, l[p + 1])
  PROVE  "value" \in Refusals(name)
<1>1. l[p + 1] # w[p + 1]
  BY ValueRefused
<1>2. name \in {"respell", "garble", "break", "change"}
  BY <1>1 DEF Tells
<1> QED
  BY <1>2, RefusalsAre

\* A count for which there is no room is not the one that was written.
LEMMA AbortedByAChange ==
  ASSUME NEW f \in Formats, NEW w, NEW T, Complete(f, w, T), NEW l, NEW p \in Nat, p < Len(w), p < Len(l),
         NEW name, Tells(name, l, w, p), l[p + 1].key = w[p + 1].key,
         NEW t, Agree(f, T[p], t), LacksRoom(Head(t).field, l[p + 1])
  PROVE  name = "change"
<1> DEFINE e == T[p][1]
<1>1. Tidy(f, T[p]) /\ Len(T[p]) > 0
  BY AfterLines
<1>2. Asks(f, e, Head(t))
  BY <1>1, AgreeingIs DEF Tidy
<1>3. LineFor(e, w[p + 1])
  BY NextLine
<1> HIDE DEF e
<1>4. w[p + 1].kind = "count"
  BY <1>2, <1>3, AsksIs DEF LacksRoom, LineFor
<1>5. w[p + 1].datum \in Nat /\ w[p + 1].datum <= MaxCapacity
  BY <1>3, <1>4 DEF LineFor
<1>6. l[p + 1].datum # w[p + 1].datum
  BY <1>5, CountsAreBounded DEF LacksRoom
<1> QED
  BY <1>6 DEF Tells

\* A line has been read as it was written.
LEMMA FollowsStep ==
  ASSUME NEW f \in Formats, NEW w, NEW T, Complete(f, w, T), NEW p \in Nat, p < Len(w),
         NEW t, Agree(f, T[p], t)
  PROVE  Agree(f, T[p + 1], Expansion(Head(t), w[p + 1].datum) \o Tail(t))
<1> DEFINE e == T[p][1]
           d == w[p + 1].datum
<1>1. IsSequence(T[p]) /\ Len(T[p]) > 0 /\ Len(T[p]) \in Nat
  BY AfterLines DEF Tidy
<1>2. Asks(f, e, Head(t)) /\ t # <<>> /\ Head(t) = t[1]
  BY <1>1, AgreeingIs
<1>3. LineFor(e, w[p + 1]) /\ T[p + 1] = Expansion(e, d) \o Tail(T[p])
  BY NextLine
<1>4. d \in Nat
  BY <1>3 DEF LineFor
<1> HIDE DEF e, d
<1>5. Matched(f, Expansion(e, d), Expansion(Head(t), d))
  BY <1>2, <1>4, ExpansionsMatch
<1>6. Alike(f, T[p], t, Len(T[p]))
  BY DEF Agree
<1>7. Agree(f, Expansion(e, d) \o Tail(T[p]), Expansion(Head(t), d) \o Tail(t))
  BY <1>1, <1>5, <1>6, StepAlike
<1> QED
  BY <1>3, <1>7 DEF d

LEMMA FollowsOn ==
  ASSUME NEW f \in Formats, NEW w, NEW T, Complete(f, w, T), NEW l, NEW p \in Nat, p < Len(w), p < Len(l),
         NEW name, Tells(name, l, w, p), l[p + 1].key = w[p + 1].key,
         NEW t, Follows(f, t, l, w, p, T), Accepts(Head(t).field, l[p + 1])
  PROVE  \/ Follows(f, Expansion(Head(t), l[p + 1].datum) \o Tail(t), l, w, p + 1, T)
         \/ /\ name = "change"
            /\ Strays(f, Expansion(Head(t), l[p + 1].datum) \o Tail(t), l, w, p + 1, T)
<1> DEFINE e == T[p][1]
           g == Head(t)
           c == l[p + 1].datum
           d == w[p + 1].datum
           k == w[p + 1].kind
           u == Expansion(g, c) \o Tail(t)
<1>1. Agree(f, T[p], t) /\ Faithful(l, w, p)
  BY DEF Follows
<1>2. Tidy(f, T[p]) /\ IsSequence(T[p]) /\ Len(T[p]) > 0
  <2>1. Tidy(f, T[p]) /\ Len(T[p]) > 0
    BY AfterLines
  <2> QED
    BY <2>1 DEF Tidy
<1>3. Asks(f, e, g) /\ g = t[1]
  BY <1>1, <1>2, AgreeingIs
<1>4. LineFor(e, w[p + 1]) /\ T[p + 1] = Expansion(e, d) \o Tail(T[p])
  BY NextLine
<1>5. /\ l[p + 1].spelling \in {"canonical", "otherwise"}
      /\ g.field.kind \in {"fixed", "known"} => c = 1
      /\ g.field.kind = "flag" => c \in {0, 1}
  BY AcceptsIs
<1>6. /\ d \in Nat /\ k = e.field.kind /\ (k = "flag" => d \in {0, 1}) /\ (k \notin {"flag", "count"} => d = 1)
  BY <1>4 DEF LineFor
<1>7. ASSUME Expansion(g, c) = Expansion(g, d), c # d => k = "plain"
      PROVE  Follows(f, u, l, w, p + 1, T)
  <2>1. Agree(f, T[p + 1], Expansion(g, d) \o Tail(t))
    BY <1>1, FollowsStep
  <2>2. Faithful(l, w, p + 1)
    BY <1>1, <1>5, <1>7, FaithfulToo
  <2> QED
    BY <1>7, <2>1, <2>2 DEF Follows
<1>8. CASE c = d
  BY <1>7, <1>8
<1>9. ASSUME c # d
      PROVE  name = "change" /\ ChangedAt(l, w, p + 1) /\ c \in Nat
  <2>1. name = "change" /\ ChangedAt(l, w, p + 1)
    BY <1>9 DEF Tells
  <2> QED
    BY <2>1 DEF ChangedAt
<1>10. /\ (g.field.kind = "flag") <=> (k = "flag")
       /\ (g.field.kind = "count") <=> (k = "count")
       /\ (g.field.kind \in {"fixed", "known"}) <=> (k = "constant")
       /\ k \in {"constant", "plain", "flag", "count"}
  BY <1>3, <1>6, AsksIs
<1>11. CASE c # d /\ k = "plain"
  <2>1. Expansion(g, c) = <<>> /\ Expansion(g, d) = <<>>
    BY <1>10, <1>11, ExpansionCases
  <2> QED
    BY <1>7, <1>11, <2>1
<1>12. CASE c # d /\ k \in {"flag", "count"}
  <2>1. c \in Nat /\ name = "change" /\ ChangedAt(l, w, p + 1)
    BY <1>9, <1>12
  <2>2. e.field.kind = "count" \/ (e.field.kind = "flag" /\ d \in {0, 1} /\ c \in {0, 1})
    <3> HIDE DEF c, d, k, g, e
    <3> QED
      BY <1>5, <1>6, <1>10, <1>12
  <2>3. \E m \in Nat : Part(f, Expansion(e, d) \o Tail(T[p]), Expansion(t[1], c) \o Tail(t), m)
    <3> HIDE DEF c, d
    <3> QED
      BY <1>1, <1>2, <1>6, <1>12, <2>1, <2>2, DifferentIsPart
  <2>4. \E m \in Nat : Part(f, T[p + 1], u, m)
    BY <1>3, <1>4, <2>3
  <2>5. p + 1 \in 1..(p + 1)
    OBVIOUS
  <2> QED
    BY <2>1, <2>4, <2>5 DEF Strays
<1>13. ~(c # d /\ k = "constant")
  <2> HIDE DEF c, d, k, g, e
  <2> QED
    BY <1>5, <1>6, <1>10
<1>14. k \in {"constant", "plain", "flag", "count"}
  BY <1>10
<1> QED
  BY <1>8, <1>11, <1>12, <1>13, <1>14

\* A reader that has strayed is behind the line that was changed.
LEMMA StrayedIs ==
  ASSUME NEW f \in Formats, NEW w, NEW T, Complete(f, w, T), Proper(w), NEW l, NEW p \in Nat, p <= Len(w),
         NEW t, Strays(f, t, l, w, p, T)
  PROVE  /\ Len(l) = Len(w)
         /\ p < Len(l) => l[p + 1] = w[p + 1] /\ l[p + 1].key \notin KeysUpTo(w, p)
         /\ p = Len(l) => t # <<>>
<1>1. PICK c \in 1..p : ChangedAt(l, w, c)
  BY DEF Strays
<1>2. Len(w) \in Nat /\ Len(l) = Len(w) /\ \A k \in 1..Len(w) : k # c => l[k] = w[k]
  BY <1>1, AfterLines DEF ChangedAt
<1>3. ASSUME p < Len(l)
      PROVE  l[p + 1] = w[p + 1] /\ l[p + 1].key \notin KeysUpTo(w, p)
  <2>1. p + 1 \in 1..Len(w) /\ p + 1 # c /\ p + 1 > p
    BY <1>2, <1>3
  <2>2. w[p + 1].key \notin KeysUpTo(w, p)
    BY <2>1, KeyIsNew
  <2> QED
    BY <1>2, <2>1, <2>2
<1>4. ASSUME p = Len(l)
      PROVE  t # <<>>
  <2>1. PICK m \in Nat : Part(f, T[p], t, m)
    BY DEF Strays
  <2>2. Len(T[p]) = 0
    BY <1>2, <1>4, AfterLines
  <2>3. m <= Len(T[p]) /\ ~(Len(T[p]) = m /\ Len(t) = m)
    BY <2>1 DEF Part, Alike
  <2>4. Len(t) # 0
    BY <2>2, <2>3
  <2> QED
    BY <2>4, EmptyIs
<1> QED
  BY <1>2, <1>3, <1>4

LEMMA StraysOn ==
  ASSUME NEW f \in Formats, NEW w, NEW T, Complete(f, w, T), Proper(w), NEW l, NEW p \in Nat, p <= Len(w), p < Len(l),
         NEW t, Strays(f, t, l, w, p, T), t # <<>>, l[p + 1].key = KeyOf(Head(t))
  PROVE  Strays(f, Expansion(Head(t), l[p + 1].datum) \o Tail(t), l, w, p + 1, T)
<1> DEFINE e == T[p][1]
           g == Head(t)
           d == w[p + 1].datum
<1>1. p < Len(w) /\ l[p + 1] = w[p + 1]
  BY StrayedIs
<1>2. PICK m \in Nat : Part(f, T[p], t, m)
  BY DEF Strays
<1>3. Alike(f, T[p], t, m) /\ (m < Len(T[p]) /\ m < Len(t) => KeyOf(T[p][m + 1]) # KeyOf(t[m + 1]))
  BY <1>2 DEF Part
<1>4. IsSequence(T[p]) /\ Len(T[p]) > 0 /\ Len(T[p]) \in Nat
  BY <1>1, AfterLines DEF Tidy
<1>5. IsSequence(t) /\ Len(t) \in Nat /\ Len(t) > 0
  <2>1. IsSequence(t) /\ Len(t) \in Nat
    BY <1>3 DEF Alike, IsSequence
  <2>2. Len(t) # 0
    BY <2>1, EmptyIs
  <2> QED
    BY <2>1, <2>2
<1>6. g = t[1]
  BY <1>5, HeadTailIs
<1>7. LineFor(e, w[p + 1]) /\ T[p + 1] = Expansion(e, d) \o Tail(T[p])
  <2>1. p < Len(w)
    BY <1>1
  <2> QED
    BY <2>1, NextLine
<1>8. KeyOf(g) = KeyOf(e) /\ d \in Nat
  BY <1>1, <1>7 DEF LineFor
<1>9. m > 0
  <2> SUFFICES ASSUME m = 0
               PROVE  FALSE
    OBVIOUS
  <2>1. KeyOf(T[p][0 + 1]) # KeyOf(t[0 + 1])
    BY <1>3, <1>4, <1>5
  <2> QED
    BY <1>6, <1>8, <2>1
<1>10. Asks(f, e, g)
  BY <1>3, <1>6, <1>9 DEF Alike
<1> HIDE DEF e, g, d
<1>11. Matched(f, Expansion(e, d), Expansion(g, d))
  BY <1>8, <1>10, ExpansionsMatch
<1>12. Part(f, Expansion(e, d) \o Tail(T[p]), Expansion(g, d) \o Tail(t), Len(Expansion(e, d)) + m - 1)
  BY <1>2, <1>3, <1>4, <1>9, <1>11, StepAlike
<1>13. Len(Expansion(e, d)) + m - 1 \in Nat
  BY <1>9, <1>11 DEF Matched, IsSequence
<1>14. \E n \in Nat : Part(f, T[p + 1], Expansion(g, d) \o Tail(t), n)
  BY <1>7, <1>12, <1>13
<1>15. \E c \in 1..(p + 1) : ChangedAt(l, w, c)
  <2>1. PICK c \in 1..p : ChangedAt(l, w, c)
    BY DEF Strays
  <2> QED
    BY <2>1
<1>16. d = l[p + 1].datum
  BY <1>1 DEF d
<1> QED
  BY <1>14, <1>15, <1>16 DEF Strays, g

-----------------------------------------------------------------------------
(***************************************************************************)
(* The invariant.  While a text is written, what is still to be pushed is  *)
(* what follows from its lines; when it is stored, it has been edited at   *)
(* most once.  A reader knows the keys of the lines it has passed, which   *)
(* are those that were written.  It asks for what was written next, or it  *)
(* has passed a different flag or count: then what it asks for and what    *)
(* was written part further on.                                            *)
(***************************************************************************)
LEMMA InitIsCanonical ==
  ASSUME Init
  PROVE  CanonicalInv
<1>1. format \in Formats /\ todo = Entries(Writes(format), <<>>) /\ lines = <<>> /\ mode = "writing" /\ index = 0
      /\ consumed_keys = {} /\ edit = "none"
  BY DEF Init
<1>2. BeingWritten(format, todo, lines)
  BY <1>1, WriteNothing, EmptyIs DEF BeingWritten
<1> QED
  BY <1>1, <1>2 DEF CanonicalInv

LEMMA PushIsCanonical ==
  ASSUME CanonicalInv, Push
  PROVE  CanonicalInv'
<1>1. format \in Formats /\ mode = "writing" /\ index = 0 /\ consumed_keys = {} /\ edit = "none"
      /\ BeingWritten(format, todo, lines)
  BY DEF CanonicalInv, Push
<1>2. PICK T : WrittenBy(format, lines, T) /\ todo = T[Len(lines)]
  BY <1>1 DEF BeingWritten
<1>3. PICK d \in WrittenData(Head(todo).field) :
        lines' = Append(lines, LineOf(Head(todo), d)) /\ todo' = Expansion(Head(todo), d) \o Tail(todo)
  BY DEF Push
<1>4. IsSequence(todo) /\ Len(todo) > 0
  <2>1. Len(lines) \in 0..Len(lines)
    BY <1>2 DEF WrittenBy, IsSequence
  <2>2. Tidy(format, T[Len(lines)])
    BY <1>2, <2>1 DEF WrittenBy
  <2>3. IsSequence(todo) /\ Len(todo) \in Nat
    BY <1>2, <2>2 DEF Tidy, IsSequence
  <2>4. todo # <<>>
    BY DEF Push
  <2>5. Len(todo) # 0
    BY <2>3, <2>4, EmptyIs
  <2> QED
    BY <2>3, <2>5
<1>5. Head(todo) = todo[1]
  BY <1>4, HeadTailIs
<1> DEFINE n == Len(lines)
           e == T[n][1]
           more == Append(lines, LineOf(e, d))
<1>6. e = Head(todo) /\ more = lines' /\ Len(T[n]) > 0 /\ d \in WrittenData(e.field)
  BY <1>2, <1>3, <1>4, <1>5
<1>7. \E U : WrittenBy(format, more, U) /\ U[Len(more)] = Expansion(e, d) \o Tail(T[n])
  BY <1>1, <1>2, <1>6, WriteAnother
<1>8. Expansion(e, d) \o Tail(T[n]) = todo'
  BY <1>2, <1>3, <1>6
<1> HIDE DEF n, e, more
<1>9. BeingWritten(format, todo', lines')
  BY <1>6, <1>7, <1>8 DEF BeingWritten
<1>10. format' = format /\ mode' = mode /\ index' = index /\ consumed_keys' = consumed_keys /\ edit' = edit
  BY DEF Push
<1> QED
  BY <1>1, <1>9, <1>10 DEF CanonicalInv

LEMMA FinishWritingIsCanonical ==
  ASSUME CanonicalInv, FinishWriting
  PROVE  CanonicalInv'
<1>1. format \in Formats /\ mode = "writing" /\ index = 0 /\ consumed_keys = {} /\ edit = "none"
      /\ BeingWritten(format, todo, lines)
  BY DEF CanonicalInv, FinishWriting
<1>2. PICK T : WrittenBy(format, lines, T) /\ todo = T[Len(lines)]
  BY <1>1 DEF BeingWritten
<1>3. todo = <<>> /\ mode' = "stored" /\ written' = lines /\ lines' = lines /\ format' = format /\ index' = index
      /\ consumed_keys' = consumed_keys /\ edit' = edit
  BY DEF FinishWriting
<1>4. Len(T[Len(lines)]) = 0
  BY <1>2, <1>3, EmptyIs
<1>5. Complete(format, lines, T)
  BY <1>2, <1>4 DEF Complete
<1>6. Stored("none", lines, lines)
  BY DEF Stored
<1>7. BeenWritten(format, lines, lines, "none")
  BY <1>5, <1>6 DEF BeenWritten
<1> QED
  BY <1>1, <1>3, <1>7 DEF CanonicalInv

LEMMA EditIsCanonical ==
  ASSUME CanonicalInv, Edit
  PROVE  CanonicalInv'
<1>1. format \in Formats /\ mode = "stored" /\ index = 0 /\ consumed_keys = {}
      /\ BeenWritten(format, lines, written, edit)
  BY DEF CanonicalInv, Edit
<1>2. PICK T : Complete(format, written, T) /\ Stored(edit, lines, written)
  BY <1>1 DEF BeenWritten
<1>3. edit = "none" /\ format' = format /\ mode' = mode /\ index' = index /\ consumed_keys' = consumed_keys
      /\ written' = written
  BY DEF Edit
<1>4. PICK x \in Edits(lines) : edit' = x[1] /\ lines' = x[2]
  BY DEF Edit
<1>5. lines = written
  BY <1>2, <1>3 DEF Stored, EditedAt
<1>6. PICK i \in 1..Len(written) : EditedAt(x[1], x[2], written, i)
  BY <1>4, <1>5, EditsAre
<1>7. Stored(edit', lines', written)
  BY <1>4, <1>6 DEF Stored
<1>8. BeenWritten(format, lines', written, edit')
  BY <1>2, <1>7 DEF BeenWritten
<1> QED
  BY <1>1, <1>3, <1>8 DEF CanonicalInv

LEMMA OpenIsCanonical ==
  ASSUME CanonicalInv, Open
  PROVE  CanonicalInv'
<1>1. format \in Formats /\ mode = "stored" /\ index = 0 /\ consumed_keys = {}
      /\ BeenWritten(format, lines, written, edit)
  BY DEF CanonicalInv, Open
<1>2. PICK T : Complete(format, written, T) /\ Stored(edit, lines, written)
  BY <1>1 DEF BeenWritten
<1>3. Proper(written) /\ Opens(edit, lines)
  BY <1>1, <1>2, StoredOpens
<1>4. lines # <<>> /\ IsSequence(lines) /\ ((edit = "break") <=> BrokenOff(lines))
  <2>1. IsSequence(lines) /\ Len(lines) > 0 /\ ((edit = "break") <=> BrokenOff(lines))
    BY <1>3 DEF Opens
  <2>2. Len(lines) # 0
    BY <2>1
  <2> QED
    BY <2>1, <2>2, EmptyIs
<1>5. CASE BrokenOff(lines)
  <2>1. Refuse("malformed")
    BY <1>5 DEF Open, BrokenOff
  <2>2. mode' = "refused" /\ error' = "malformed" /\ edit' = edit /\ format' = format /\ edit = "break"
    BY <1>4, <1>5, <2>1 DEF Refuse
  <2>3. error' \in Refusals(edit')
    BY <2>2, RefusalsAre
  <2> QED
    BY <1>1, <2>2, <2>3 DEF CanonicalInv
<1>6. CASE ~BrokenOff(lines)
  <2>1. /\ mode' = "reading" /\ todo' = Entries(Reads(format), <<>>) /\ format' = format /\ lines' = lines
        /\ index' = index /\ consumed_keys' = consumed_keys /\ written' = written /\ edit' = edit
    BY <1>4, <1>6 DEF Open, BrokenOff
  <2>2. SameUpTo(lines, written, 0) /\ KeysUpTo(written, 0) = {}
    <3>1. Len(lines) \in Nat /\ Len(written) \in Nat
      BY <1>3, <1>4 DEF IsSequence, Proper
    <3> QED
      BY <3>1 DEF SameUpTo, KeysUpTo
  <2>3. T[0] = Entries(Writes(format), <<>>)
    BY <1>2 DEF Complete, WrittenBy
  <2>4. Agree(format, T[0], todo')
    BY <1>1, <2>1, <2>3, FirstAgree
  <2>5. Faithful(lines, written, 0)
    BY DEF Faithful
  <2>6. Reading(format, todo', lines, written, 0, edit, T)
    BY <1>2, <1>4, <1>6, <2>2, <2>4, <2>5 DEF Reading, Follows
  <2>7. BeingRead(format, todo', lines, written, 0, {}, edit)
    BY <2>2, <2>6 DEF BeingRead
  <2> QED
    BY <1>1, <2>1, <2>7 DEF CanonicalInv
<1> QED
  BY <1>5, <1>6

\* Where a reader is.
LEMMA ReadingIs ==
  ASSUME NEW f \in Formats, NEW t, NEW l, NEW w, NEW p, NEW name, NEW T, Reading(f, t, l, w, p, name, T)
  PROVE  /\ Complete(f, w, T) /\ Proper(w) /\ IsSequence(l) /\ IsSequence(w)
         /\ p \in Nat /\ Len(w) \in Nat /\ Len(l) \in Nat /\ p <= Len(w) /\ p <= Len(l)
         /\ SameUpTo(l, w, p) /\ Tells(name, l, w, p)
<1>1. Complete(f, w, T) /\ Stored(name, l, w) /\ SameUpTo(l, w, p)
  BY DEF Reading
<1>2. Proper(w) /\ Opens(name, l)
  BY <1>1, StoredOpens
<1>3. IsSequence(l) /\ IsSequence(w)
  BY <1>2 DEF Opens, Proper
<1>4. Tells(name, l, w, p)
  BY <1>1, <1>2, EditTells
<1>5. Len(w) \in Nat /\ Len(l) \in Nat /\ p \in Nat /\ p <= Len(w) /\ p <= Len(l)
  BY <1>1, <1>3 DEF SameUpTo, IsSequence
<1> QED
  BY <1>1, <1>2, <1>3, <1>4, <1>5

LEMMA RefusedIsCanonical ==
  ASSUME CanonicalInv, NEW e, Refuse(e), e \in Refusals(edit)
  PROVE  CanonicalInv'
<1>1. format' = format /\ mode' = "refused" /\ error' = e /\ edit' = edit
  BY DEF Refuse
<1> QED
  BY <1>1 DEF CanonicalInv

\* What a reader that follows, and one that has strayed, does next.
LEMMA FollowerReads ==
  ASSUME NEW T, format \in Formats, Reading(format, todo, lines, written, index, edit, T),
         Follows(format, todo, lines, written, index, T), todo # <<>>
  PROVE  /\ index < Len(written)
         /\ index = Len(lines) => "missing" \in Refusals(edit)
         /\ index < Len(lines) /\ NextKey # KeyOf(Head(todo)) =>
              (IF NextKey \in KeysUpTo(written, index) THEN "duplicate" ELSE "order") \in Refusals(edit)
         /\ index < Len(lines) /\ NextKey = KeyOf(Head(todo)) /\ ~Accepts(Head(todo).field, lines[index + 1]) =>
              "value" \in Refusals(edit)
         /\ index < Len(lines) /\ NextKey = KeyOf(Head(todo)) => lines[index + 1].key = written[index + 1].key
<1> DEFINE p == index
           w == written
           l == lines
<1>1. /\ Complete(format, w, T) /\ p \in Nat /\ Len(w) \in Nat /\ Len(l) \in Nat /\ p <= Len(w) /\ p <= Len(l)
      /\ Tells(edit, l, w, p)
  BY ReadingIs
<1>2. edit # "break" /\ Agree(format, T[p], todo)
  BY DEF Reading, Follows
<1>3. Tidy(format, T[p]) /\ Len(T[p]) \in Nat /\ (p = Len(w) => Len(T[p]) = 0)
  BY <1>1, AfterLines
<1>4. IsSequence(T[p])
  BY <1>3 DEF Tidy
<1>5. Len(T[p]) = 0 => todo = <<>>
  BY <1>2, <1>4, AgreeingIs
<1>6. p < Len(w)
  BY <1>1, <1>3, <1>5
<1>7. Asks(format, T[p][1], Head(todo))
  <2>1. Len(T[p]) > 0
    BY <1>3, <1>5
  <2> QED
    BY <1>2, <1>4, <2>1, AgreeingIs
<1>8. LineFor(T[p][1], w[p + 1])
  BY <1>1, <1>6, NextLine
<1>9. KeyOf(Head(todo)) = w[p + 1].key
  BY <1>7, <1>8, AsksIs DEF LineFor
<1>10. NextKey = l[p + 1].key
  BY DEF NextKey
<1> HIDE DEF p, l, w
<1>11. p = Len(l) => "missing" \in Refusals(edit)
  BY <1>1, <1>6, MisplacedTells
<1>12. ASSUME p < Len(l), NextKey # KeyOf(Head(todo))
       PROVE  (IF NextKey \in KeysUpTo(w, p) THEN "duplicate" ELSE "order") \in Refusals(edit)
  <2>1. l[p + 1].key # w[p + 1].key
    BY <1>9, <1>10, <1>12
  <2>2. (IF l[p + 1].key \in KeysUpTo(w, p) THEN "duplicate" ELSE "order") \in Refusals(edit)
    BY <1>1, <1>6, <1>12, <2>1, MisplacedTells
  <2> QED
    BY <1>10, <2>2
<1>13. ASSUME p < Len(l), NextKey = KeyOf(Head(todo)), ~Accepts(Head(todo).field, l[p + 1])
       PROVE  "value" \in Refusals(edit)
  <2>1. l[p + 1].key = w[p + 1].key
    BY <1>9, <1>10, <1>13
  <2> QED
    BY <1>1, <1>2, <1>6, <1>13, <2>1, FollowsRefused
<1> QED
  BY <1>6, <1>9, <1>10, <1>11, <1>12, <1>13 DEF p, l, w

LEMMA StrayReads ==
  ASSUME NEW T, format \in Formats, Reading(format, todo, lines, written, index, edit, T),
         edit = "change", Strays(format, todo, lines, written, index, T)
  PROVE  /\ Len(lines) = Len(written)
         /\ index < Len(lines) => NextKey \notin KeysUpTo(written, index) /\ lines[index + 1].key = written[index + 1].key
         /\ index = Len(lines) => todo # <<>>
         /\ {"missing", "order", "value", "trailing"} \subseteq Refusals(edit)
<1> DEFINE p == index
           w == written
           l == lines
<1>1. Complete(format, w, T) /\ Proper(w) /\ p \in Nat /\ p <= Len(w)
  BY ReadingIs
<1>2. NextKey = l[p + 1].key
  BY DEF NextKey
<1>3. /\ Len(l) = Len(w)
      /\ p < Len(l) => l[p + 1] = w[p + 1] /\ l[p + 1].key \notin KeysUpTo(w, p)
      /\ p = Len(l) => todo # <<>>
  BY <1>1, StrayedIs
<1>4. {"missing", "order", "value", "trailing"} \subseteq Refusals(edit)
  BY RefusalsAre
<1> HIDE DEF p, l, w
<1>5. p < Len(l) => NextKey \notin KeysUpTo(w, p) /\ l[p + 1].key = w[p + 1].key
  BY <1>2, <1>3
<1> QED
  BY <1>3, <1>4, <1>5 DEF p, l, w

LEMMA ConsumeIsCanonical ==
  ASSUME CanonicalInv, mode = "reading", todo # <<>>, index < Len(lines), NextKey = KeyOf(Head(todo)),
         Accepts(Head(todo).field, lines[index + 1]), Consume
  PROVE  CanonicalInv'
<1>1. format \in Formats /\ BeingRead(format, todo, lines, written, index, consumed_keys, edit)
  BY DEF CanonicalInv
<1>2. PICK T : Reading(format, todo, lines, written, index, edit, T)
  BY <1>1 DEF BeingRead
<1>3. consumed_keys = KeysUpTo(written, index)
  BY <1>1 DEF BeingRead
<1>4. /\ index' = index + 1 /\ consumed_keys' = consumed_keys \cup {NextKey}
      /\ todo' = Expansion(Head(todo), lines[index + 1].datum) \o Tail(todo)
      /\ format' = format /\ lines' = lines /\ mode' = mode /\ written' = written /\ edit' = edit
  BY DEF Consume
<1> DEFINE p == index
           w == written
           l == lines
           u == Expansion(Head(todo), l[p + 1].datum) \o Tail(todo)
<1>5. /\ Complete(format, w, T) /\ Proper(w) /\ IsSequence(l) /\ IsSequence(w)
      /\ p \in Nat /\ Len(w) \in Nat /\ Len(l) \in Nat /\ p <= Len(w) /\ p <= Len(l)
      /\ SameUpTo(l, w, p) /\ Tells(edit, l, w, p)
  BY <1>1, <1>2, ReadingIs
<1>6. \/ Follows(format, todo, l, w, p, T)
      \/ edit = "change" /\ Strays(format, todo, l, w, p, T)
  BY <1>2 DEF Reading
<1>7. Stored(edit, l, w) /\ edit # "break"
  BY <1>2 DEF Reading
<1>8. l[p + 1].key = KeyOf(Head(todo)) /\ NextKey = l[p + 1].key /\ p < Len(l)
  BY DEF NextKey
<1>9. /\ p < Len(w) /\ l[p + 1].key = w[p + 1].key
      /\ \/ Follows(format, u, l, w, p + 1, T)
         \/ edit = "change" /\ Strays(format, u, l, w, p + 1, T)
  <2>1. CASE Follows(format, todo, l, w, p, T)
    <3>1. p < Len(w) /\ l[p + 1].key = w[p + 1].key
      BY <1>1, <1>2, <2>1, FollowerReads
    <3> QED
      BY <1>1, <1>5, <1>8, <2>1, <3>1, FollowsOn
  <2>2. CASE edit = "change" /\ Strays(format, todo, l, w, p, T)
    <3>1. p < Len(w) /\ l[p + 1].key = w[p + 1].key
      BY <1>1, <1>2, <1>8, <2>2, StrayReads
    <3>2. Strays(format, u, l, w, p + 1, T)
      BY <1>1, <1>5, <1>8, <2>2, StraysOn
    <3> QED
      BY <2>2, <3>1, <3>2
  <2> QED
    BY <1>6, <2>1, <2>2
<1> HIDE DEF u
<1>10. SameUpTo(l, w, p + 1) /\ KeysUpTo(w, p + 1) = KeysUpTo(w, p) \cup {l[p + 1].key}
  BY <1>5, <1>8, <1>9, KeysGrow
<1>11. Reading(format, u, l, w, p + 1, edit, T)
  BY <1>5, <1>7, <1>9, <1>10 DEF Reading
<1>12. BeingRead(format, u, l, w, p + 1, KeysUpTo(w, p) \cup {l[p + 1].key}, edit)
  BY <1>10, <1>11 DEF BeingRead
<1>13. BeingRead(format, todo', lines', written', index', consumed_keys', edit')
  BY <1>3, <1>4, <1>8, <1>12 DEF u
<1> QED
  BY <1>1, <1>4, <1>13 DEF CanonicalInv

LEMMA ReadValueIsCanonical ==
  ASSUME CanonicalInv, ReadValue
  PROVE  CanonicalInv'
<1>1. mode = "reading" /\ todo # <<>>
  BY DEF ReadValue
<1>2. format \in Formats /\ BeingRead(format, todo, lines, written, index, consumed_keys, edit)
  BY <1>1 DEF CanonicalInv
<1>3. PICK T : Reading(format, todo, lines, written, index, edit, T)
  BY <1>2 DEF BeingRead
<1>4. consumed_keys = KeysUpTo(written, index)
  BY <1>2 DEF BeingRead
<1>5. \/ Follows(format, todo, lines, written, index, T)
      \/ edit = "change" /\ Strays(format, todo, lines, written, index, T)
  BY <1>3 DEF Reading
<1>6. index <= Len(lines) /\ index \in Nat /\ Len(lines) \in Nat
  BY <1>2, <1>3, ReadingIs
<1>7. CASE index = Len(lines)
  <2>1. Refuse("missing")
    BY <1>7 DEF ReadValue
  <2>2. "missing" \in Refusals(edit)
    BY <1>1, <1>2, <1>3, <1>5, <1>7, FollowerReads, StrayReads
  <2> QED
    BY <2>1, <2>2, RefusedIsCanonical
<1>8. CASE index < Len(lines) /\ NextKey # KeyOf(Head(todo))
  <2>1. Refuse(Misplaced("order"))
    BY <1>6, <1>8 DEF ReadValue
  <2>2. Misplaced("order") = IF NextKey \in KeysUpTo(written, index) THEN "duplicate" ELSE "order"
    BY <1>4 DEF Misplaced
  <2>3. CASE Follows(format, todo, lines, written, index, T)
    <3>1. (IF NextKey \in KeysUpTo(written, index) THEN "duplicate" ELSE "order") \in Refusals(edit)
      BY <1>1, <1>2, <1>3, <1>8, <2>3, FollowerReads
    <3> QED
      BY <2>1, <2>2, <3>1, RefusedIsCanonical
  <2>4. CASE edit = "change" /\ Strays(format, todo, lines, written, index, T)
    <3>1. NextKey \notin KeysUpTo(written, index) /\ "order" \in Refusals(edit)
      BY <1>2, <1>3, <1>8, <2>4, StrayReads
    <3>2. Misplaced("order") \in Refusals(edit)
      BY <2>2, <3>1
    <3> QED
      BY <2>1, <3>2, RefusedIsCanonical
  <2> QED
    BY <1>5, <2>3, <2>4
<1>9. CASE /\ index < Len(lines) /\ NextKey = KeyOf(Head(todo))
           /\ ~Accepts(Head(todo).field, lines[index + 1])
  <2>1. Refuse("value")
    BY <1>6, <1>9 DEF ReadValue
  <2>2. "value" \in Refusals(edit)
    <3>1. CASE Follows(format, todo, lines, written, index, T)
      BY <1>1, <1>2, <1>3, <1>9, <3>1, FollowerReads
    <3>2. CASE edit = "change"
      BY <3>2, RefusalsAre
    <3> QED
      BY <1>5, <3>1, <3>2
  <2> QED
    BY <2>1, <2>2, RefusedIsCanonical
<1>10. CASE /\ index < Len(lines) /\ NextKey = KeyOf(Head(todo))
            /\ Accepts(Head(todo).field, lines[index + 1])
  <2>1. CASE LacksRoom(Head(todo).field, lines[index + 1])
    <3>1. Abort
      BY <1>6, <1>10, <2>1 DEF ReadValue
    <3>2. edit = "change"
      <4>1. CASE Follows(format, todo, lines, written, index, T)
        <5>1. index < Len(written) /\ lines[index + 1].key = written[index + 1].key
          BY <1>1, <1>2, <1>3, <1>10, <4>1, FollowerReads
        <5>2. Complete(format, written, T) /\ Tells(edit, lines, written, index)
          BY <1>2, <1>3, ReadingIs
        <5>3. Agree(format, T[index], todo)
          BY <4>1 DEF Follows
        <5> QED
          BY <1>2, <1>6, <1>10, <2>1, <5>1, <5>2, <5>3, AbortedByAChange
      <4> QED
        BY <1>5, <4>1
    <3> QED
      BY <1>2, <3>1, <3>2 DEF Abort, CanonicalInv
  <2>2. CASE ~LacksRoom(Head(todo).field, lines[index + 1])
    <3>1. Consume
      BY <1>6, <1>10, <2>2 DEF ReadValue
    <3> QED
      BY <1>1, <1>10, <3>1, ConsumeIsCanonical
  <2> QED
    BY <2>1, <2>2
<1> QED
  BY <1>6, <1>7, <1>8, <1>9, <1>10

\* A reader that follows has nothing left to ask for only behind the last line written.
LEMMA EndIsReached ==
  ASSUME NEW f \in Formats, NEW w, NEW T, Complete(f, w, T), NEW p \in Nat, p <= Len(w),
         NEW t, Agree(f, T[p], t), t = <<>>
  PROVE  p = Len(w)
<1>1. Len(w) \in Nat /\ Tidy(f, T[p]) /\ (p < Len(w) => Len(T[p]) > 0)
  BY AfterLines
<1>2. IsSequence(T[p])
  BY <1>1 DEF Tidy
<1>3. ~(Len(T[p]) > 0)
  BY <1>2, AgreeingIs
<1> QED
  BY <1>1, <1>3

\* A reader that has read all it asks for, to the end of the text, has read what was written.
LEMMA ReadToTheEnd ==
  ASSUME NEW T, format \in Formats, Reading(format, todo, lines, written, index, edit, T), todo = <<>>,
         index = Len(lines)
  PROVE  /\ Keys(lines) = Keys(written)
         /\ \A i \in 1..Len(lines) :
              /\ lines[i].spelling \in {"canonical", "otherwise"}
              /\ lines[i].datum # written[i].datum => written[i].kind = "plain"
<1> DEFINE p == index
           w == written
           l == lines
<1>1. /\ Complete(format, w, T) /\ IsSequence(l) /\ IsSequence(w)
      /\ p \in Nat /\ Len(w) \in Nat /\ Len(l) \in Nat /\ p <= Len(w) /\ p <= Len(l)
      /\ SameUpTo(l, w, p)
  BY ReadingIs
<1>2. Follows(format, todo, l, w, p, T)
  <2>1. ~(edit = "change" /\ Strays(format, todo, l, w, p, T))
    BY StrayReads
  <2> QED
    BY <2>1 DEF Reading
<1>3. Agree(format, T[p], todo) /\ Faithful(l, w, p)
  BY <1>2 DEF Follows
<1>4. p = Len(w) /\ Len(l) = p
  BY <1>1, <1>3, EndIsReached
<1>5. \A i \in 1..p : l[i].key = w[i].key
  BY <1>1 DEF SameUpTo
<1>6. Keys(l) = Keys(w)
  <2>1. Keys(l) = [i \in 1..p |-> l[i].key] /\ Keys(w) = [i \in 1..p |-> w[i].key]
    BY <1>4 DEF Keys
  <2> QED
    BY <1>5, <2>1
<1>7. \A i \in 1..Len(l) : /\ l[i].spelling \in {"canonical", "otherwise"}
                           /\ l[i].datum # w[i].datum => w[i].kind = "plain"
  BY <1>3, <1>4 DEF Faithful
<1> QED
  BY <1>6, <1>7

LEMMA FinishIsCanonical ==
  ASSUME CanonicalInv, Finish
  PROVE  CanonicalInv'
<1>1. mode = "reading" /\ todo = <<>>
  BY DEF Finish
<1>2. format \in Formats /\ BeingRead(format, todo, lines, written, index, consumed_keys, edit)
  BY <1>1 DEF CanonicalInv
<1>3. PICK T : Reading(format, todo, lines, written, index, edit, T)
  BY <1>2 DEF BeingRead
<1>4. consumed_keys = KeysUpTo(written, index)
  BY <1>2 DEF BeingRead
<1>5. \/ Follows(format, todo, lines, written, index, T)
      \/ edit = "change" /\ Strays(format, todo, lines, written, index, T)
  BY <1>3 DEF Reading
<1>6. /\ index <= Len(lines) /\ index \in Nat /\ Len(lines) \in Nat /\ index <= Len(written) /\ Len(written) \in Nat
      /\ Complete(format, written, T) /\ Tells(edit, lines, written, index)
  BY <1>2, <1>3, ReadingIs
<1>7. CASE index < Len(lines)
  <2>1. Refuse(Misplaced("trailing"))
    BY <1>7 DEF Finish
  <2>2. Misplaced("trailing") = IF NextKey \in KeysUpTo(written, index) THEN "duplicate" ELSE "trailing"
    BY <1>4 DEF Misplaced
  <2>3. CASE Follows(format, todo, lines, written, index, T)
    <3>1. Agree(format, T[index], todo)
      BY <2>3 DEF Follows
    <3>2. index = Len(written)
      BY <1>1, <1>2, <1>6, <3>1, EndIsReached
    <3>3. (IF lines[index + 1].key \in KeysUpTo(written, index) THEN "duplicate" ELSE "trailing") \in Refusals(edit)
      BY <1>6, <1>7, <3>2, MisplacedTells
    <3>4. Misplaced("trailing") \in Refusals(edit)
      BY <2>2, <3>3 DEF NextKey
    <3> QED
      BY <2>1, <3>4, RefusedIsCanonical
  <2>4. CASE edit = "change" /\ Strays(format, todo, lines, written, index, T)
    <3>1. NextKey \notin KeysUpTo(written, index) /\ "trailing" \in Refusals(edit)
      BY <1>2, <1>3, <1>7, <2>4, StrayReads
    <3>2. Misplaced("trailing") \in Refusals(edit)
      BY <2>2, <3>1
    <3> QED
      BY <2>1, <3>2, RefusedIsCanonical
  <2> QED
    BY <1>5, <2>3, <2>4
<1>8. CASE index = Len(lines)
  <2>1. Accept
    BY <1>6, <1>8 DEF Finish
  <2>2. mode' = "accepted" /\ format' = format /\ lines' = lines /\ written' = written
    BY <2>1 DEF Accept
  <2>3. /\ Keys(lines) = Keys(written)
        /\ \A i \in 1..Len(lines) :
             /\ lines[i].spelling \in {"canonical", "otherwise"}
             /\ lines[i].datum # written[i].datum => written[i].kind = "plain"
    BY <1>1, <1>2, <1>3, <1>8, ReadToTheEnd
  <2>4. OnlyWrittenTextIsAccepted'
    BY <2>2, <2>3 DEF OnlyWrittenTextIsAccepted, Keys
  <2> QED
    BY <1>2, <2>2, <2>4 DEF CanonicalInv
<1> QED
  BY <1>6, <1>7, <1>8

LEMMA StutterIsCanonical ==
  ASSUME CanonicalInv, UNCHANGED vars
  PROVE  CanonicalInv'
BY DEF CanonicalInv, vars, OnlyWrittenTextIsAccepted, Keys, Refusals

(***************************************************************************)
(* The inductive invariant: a text determines how it was written, and a    *)
(* reader has seen what was written and asks for what was written next, or *)
(* has read another flag or count and will ask for what is not there       *)
(* (CanonicalLineWriter and CanonicalLineReader of canonical/mod.rs).      *)
(***************************************************************************)
THEOREM TextInvariant == Spec => []CanonicalInv
<1>1. Init => CanonicalInv
  BY InitIsCanonical
<1>2. CanonicalInv /\ [Next]_vars => CanonicalInv'
  <2> SUFFICES ASSUME CanonicalInv, [Next]_vars
               PROVE  CanonicalInv'
    OBVIOUS
  <2> QED
    BY PushIsCanonical, FinishWritingIsCanonical, EditIsCanonical, OpenIsCanonical, ReadValueIsCanonical,
       FinishIsCanonical, StutterIsCanonical DEF Next
<1> QED
  BY <1>1, <1>2, PTL DEF Spec

-----------------------------------------------------------------------------
\* What an encoder has written its decoder reads: no text is refused that storage has not
\* edited, whatever the formats, the flags and the counts are.
THEOREM TextIsRead == Spec => []WrittenTextIsRead
<1>1. CanonicalInv => WrittenTextIsRead
  BY RefusalsAre DEF CanonicalInv, WrittenTextIsRead
<1> QED
  BY <1>1, TextInvariant, PTL

\* Nothing else is read: a text that is accepted has the keys of the one that was written
\* and differs from it only in the values of plain fields and in spellings.
THEOREM NothingElseIsRead == Spec => []OnlyWrittenTextIsAccepted
<1>1. CanonicalInv => OnlyWrittenTextIsAccepted
  BY DEF CanonicalInv, OnlyWrittenTextIsAccepted
<1> QED
  BY <1>1, TextInvariant, PTL

\* A refusal tells what is wrong: the error a decoder reports is one of those that stand
\* for the edit, wherever in the text the edit is.
THEOREM RefusalsTell == Spec => []RefusalTellsTheEdit
<1>1. CanonicalInv => RefusalTellsTheEdit
  BY DEF CanonicalInv, RefusalTellsTheEdit
<1> QED
  BY <1>1, TextInvariant, PTL
=============================================================================
