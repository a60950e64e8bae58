--------------------------- MODULE EnvFormatProofs ---------------------------
(***************************************************************************)
(* Proofs about EnvFormat, for all keys, all values and all comments: what *)
(* the updater writes is what systemd reads.                               *)
(*                                                                         *)
(* They go by induction over texts and files.  Induction is derived from   *)
(* the well-foundedness of the naturals and stated with sets (SeqSets): a  *)
(* set of sequences with <<>> and closed under Append has them all.  Two   *)
(* functions of the model are recursive, the trace of the parser in After  *)
(* and the concatenation in FlattenSeq; by such an induction each exists,  *)
(* is unique and satisfies its equation.  From there the argument is the   *)
(* one of a reader: a key, a value bare or quoted, a line, a comment and a *)
(* file are read as what they were written from.                           *)
(***************************************************************************)
EXTENDS EnvFormat, SequenceTheorems, WellFoundedInduction, TLAPS

\* The characters with a meaning of their own.
LEMMA Alphabet ==
  /\ DQ \in Chars /\ BS \in Chars /\ LF \in Chars
  /\ "#" \in Chars /\ "=" \in Chars /\ "a" \in Chars
BY AlphabetAssumption

\* No letter of a key is one of them.
LEMMA LettersAreChars ==
  /\ Letters \subseteq Chars
  /\ \A c \in Letters : c \notin Blank \cup {LF, "#", ";", "="}
BY AlphabetAssumption

-----------------------------------------------------------------------------
(* Induction, stated with sets *)

\* A set of naturals has a least member.
LEMMA LeastElement ==
  ASSUME NEW S \in SUBSET Nat, S # {}
  PROVE  \E x \in S : \A y \in S : x <= y
<1> DEFINE Less == OpToRel(<, Nat)
<1>1. IsWellFoundedOn(Less, Nat)
  BY NatLessThanWellFounded
<1>2. PICK x \in S : \A y \in S : ~(<<y, x>> \in Less)
  <2> HIDE DEF Less
  <2> QED  BY <1>1, WFMin
<1>3. \A y \in S : ~(y < x)
  BY <1>2 DEF OpToRel
<1> HIDE DEF Less
<1>4. \A y \in S : x <= y
  BY <1>3
<1> QED  BY <1>4

\* Induction on the naturals.
LEMMA NatSets ==
  ASSUME NEW S \in SUBSET Nat, 0 \in S, \A n \in S : n + 1 \in S
  PROVE  S = Nat
<1>1. SUFFICES ASSUME Nat \ S # {} PROVE FALSE
  OBVIOUS
<1>2. PICK x \in Nat \ S : \A y \in Nat \ S : x <= y
  BY <1>1, LeastElement
<1>3. x # 0 /\ x - 1 \in S
  BY <1>2
<1> QED  BY <1>3

\* Induction on sequences: a set of them that has the empty one and is closed
\* under Append has them all.
LEMMA SeqSets ==
  ASSUME NEW E, NEW P \in SUBSET Seq(E), <<>> \in P,
         \A s \in P, e \in E : Append(s, e) \in P
  PROVE  P = Seq(E)
<1> DEFINE L == {n \in Nat : \A s \in Seq(E) : Len(s) = n => s \in P}
<1>1. 0 \in L
  BY EmptySeq
<1>2. ASSUME NEW n \in L PROVE n + 1 \in L
  <2>1. SUFFICES ASSUME NEW s \in Seq(E), Len(s) = n + 1 PROVE s \in P
    BY <1>2
  <2>2. s # <<>>
    BY <2>1
  <2>3. PICK t \in Seq(E), e \in E : s = Append(t, e)
    BY <2>2, SequenceEmptyOrAppend
  <2>4. Len(t) = n
    BY <2>1, <2>3
  <2> QED  BY <2>3, <2>4, <1>2
<1> HIDE DEF L
<1>3. L = Nat
  <2>1. L \in SUBSET Nat
    BY DEF L
  <2> QED  BY <2>1, <1>1, <1>2, NatSets
<1>4. \A s \in Seq(E) : Len(s) \in L
  BY <1>3
<1> QED  BY <1>4 DEF L

\* Concat and Append change places.
LEMMA ConcatAppend ==
  ASSUME NEW E, NEW s \in Seq(E), NEW t \in Seq(E), NEW e \in E
  PROVE  s \o Append(t, e) = Append(s \o t, e)
<1>1. <<e>> \in Seq(E) /\ s \o t \in Seq(E)
  BY ConcatProperties
<1>2. Append(t, e) = t \o <<e>> /\ Append(s \o t, e) = (s \o t) \o <<e>>
  BY <1>1, AppendIsConcat
<1> QED  BY <1>1, <1>2, ConcatAssociative

\* Append adds one member.
LEMMA MembersAppend ==
  ASSUME NEW E, NEW s \in Seq(E), NEW e \in E
  PROVE  ToSet(Append(s, e)) = ToSet(s) \cup {e}
<1>1. /\ Append(s, e) \in Seq(E) /\ Len(Append(s, e)) = Len(s) + 1
      /\ \A i \in 1..Len(s) : Append(s, e)[i] = s[i]
      /\ Append(s, e)[Len(s) + 1] = e
  BY AppendProperties
<1>2. /\ Len(s) \in Nat /\ DOMAIN s = 1..Len(s)
      /\ DOMAIN Append(s, e) = 1..(Len(s) + 1)
  BY <1>1, LenProperties
<1> QED  BY <1>1, <1>2 DEF ToSet

-----------------------------------------------------------------------------
(* What the recursive definitions compute *)

Trace(s, t, f) ==
  [i \in 0..Len(t) |-> IF i = 0 THEN s ELSE Read(f[i - 1], t[i])]

\* The parser goes one character further: a trace of a text extends to a trace of
\* the text with one more character.
LEMMA TraceExtends ==
  ASSUME NEW s, NEW E, NEW t \in Seq(E), NEW c \in E, NEW f, f = Trace(s, t, f)
  PROVE  \E g : /\ g = Trace(s, Append(t, c), g)
                /\ g[Len(t) + 1] = Read(f[Len(t)], c)
<1> DEFINE n == Len(t)
           g == [i \in 0..(n + 1) |-> IF i <= n THEN f[i] ELSE Read(f[n], c)]
<1>1. n \in Nat /\ Len(Append(t, c)) = n + 1
  BY AppendProperties, LenProperties
<1>2. \A i \in 0..n : f[i] = IF i = 0 THEN s ELSE Read(f[i - 1], t[i])
  BY DEF Trace
<1>3. \A i \in 1..n : Append(t, c)[i] = t[i]
  BY AppendProperties
<1>4. Append(t, c)[n + 1] = c
  BY AppendProperties
<1>5. g[n + 1] = Read(f[n], c)
  BY <1>1
<1>6. \A i \in 0..(n + 1) :
        g[i] = IF i = 0 THEN s ELSE Read(g[i - 1], Append(t, c)[i])
  <2> SUFFICES ASSUME NEW i \in 0..(n + 1)
               PROVE  g[i] = IF i = 0 THEN s ELSE Read(g[i - 1], Append(t, c)[i])
    OBVIOUS
  <2>1. CASE i <= n
    BY <2>1, <1>1, <1>2, <1>3
  <2>2. CASE i = n + 1
    BY <2>2, <1>1, <1>4
  <2> QED  BY <2>1, <2>2, <1>1
<1>7. g = Trace(s, Append(t, c), g)
  BY <1>1, <1>6 DEF Trace
<1> QED  BY <1>5, <1>7

\* A text has one trace.
LEMMA TracesAgree ==
  ASSUME NEW s, NEW E, NEW t \in Seq(E),
         NEW f, f = Trace(s, t, f), NEW g, g = Trace(s, t, g)
  PROVE  f = g
<1> DEFINE S == {n \in Nat : n <= Len(t) => f[n] = g[n]}
<1>1. Len(t) \in Nat
  BY LenProperties
<1>2. \A i \in 0..Len(t) : f[i] = IF i = 0 THEN s ELSE Read(f[i - 1], t[i])
  BY DEF Trace
<1>3. \A i \in 0..Len(t) : g[i] = IF i = 0 THEN s ELSE Read(g[i - 1], t[i])
  BY DEF Trace
<1>4. 0 \in S
  BY <1>1, <1>2, <1>3
<1>5. ASSUME NEW n \in S PROVE n + 1 \in S
  BY <1>1, <1>2, <1>3
<1>6. S = Nat
  <2> HIDE DEF S
  <2>1. S \in SUBSET Nat
    BY DEF S
  <2> QED  BY <2>1, <1>4, <1>5, NatSets
<1>7. \A i \in 0..Len(t) : f[i] = g[i]
  BY <1>1, <1>6
<1>8. /\ f = [i \in 0..Len(t) |-> f[i]]
      /\ g = [i \in 0..Len(t) |-> g[i]]
  BY DEF Trace
<1> QED  BY <1>7, <1>8

\* Every text has a trace.
LEMMA TraceExists ==
  ASSUME NEW s, NEW E, NEW t \in Seq(E)
  PROVE  \E f : f = Trace(s, t, f)
<1> DEFINE P == {u \in Seq(E) : \E f : f = Trace(s, u, f)}
<1>1. <<>> \in P
  <2>1. [i \in 0..0 |-> s] = Trace(s, <<>>, [i \in 0..0 |-> s])
    BY DEF Trace
  <2> QED  BY <2>1, EmptySeq
<1>2. ASSUME NEW u \in P, NEW c \in E PROVE Append(u, c) \in P
  BY TraceExtends, AppendProperties
<1>3. P = Seq(E)
  <2> HIDE DEF P
  <2>1. P \in SUBSET Seq(E)
    BY DEF P
  <2> QED  BY <2>1, <1>1, <1>2, SeqSets
<1> QED  BY <1>3

\* After is where the trace ends: its local function is the trace.
LEMMA AfterIsTrace ==
  ASSUME NEW s, NEW E, NEW t \in Seq(E), NEW f, f = Trace(s, t, f)
  PROVE  After(s, t) = f[Len(t)]
<1> DEFINE at == CHOOSE g : g = Trace(s, t, g)
<1>1. at = Trace(s, t, at)
  <2> HIDE DEF Trace
  <2> QED  BY Zenon
<1>2. After(s, t) = at[Len(t)]
  BY DEF After, Trace
<1> HIDE DEF at
<1>3. at = f
  BY <1>1, TracesAgree
<1> QED  BY <1>2, <1>3

\* An empty text leaves the parser where it is.
LEMMA AfterEmpty ==
  ASSUME NEW s
  PROVE  After(s, <<>>) = s
<1> DEFINE f == [i \in 0..0 |-> s]
<1>1. f = Trace(s, <<>>, f)
  BY DEF Trace
<1>2. <<>> \in Seq(Chars) /\ Len(<<>>) = 0
  BY EmptySeq
<1> HIDE DEF f
<1>3. After(s, <<>>) = f[0]
  BY <1>1, <1>2, AfterIsTrace
<1> QED  BY <1>3 DEF f

\* The last character is read behind all the others.
LEMMA AfterAppend ==
  ASSUME NEW s, NEW E, NEW t \in Seq(E), NEW c \in E
  PROVE  After(s, Append(t, c)) = Read(After(s, t), c)
<1>1. PICK f : f = Trace(s, t, f)
  BY TraceExists
<1>2. PICK g : g = Trace(s, Append(t, c), g) /\ g[Len(t) + 1] = Read(f[Len(t)], c)
  BY <1>1, TraceExtends
<1>3. After(s, t) = f[Len(t)]
  BY <1>1, AfterIsTrace
<1>4. Append(t, c) \in Seq(E) /\ Len(Append(t, c)) = Len(t) + 1
  BY AppendProperties
<1>5. After(s, Append(t, c)) = g[Len(t) + 1]
  BY <1>2, <1>4, AfterIsTrace
<1> QED  BY <1>2, <1>3, <1>5

Joined(ss, f) ==
  [i \in 1..Len(ss) |-> IF i = 1 THEN ss[i] ELSE f[i - 1] \o ss[i]]

\* The same for the function inside FlattenSeq: it extends to one more part.
LEMMA JoinedExtends ==
  ASSUME NEW E, NEW ss \in Seq(E), NEW t \in E, NEW f, f = Joined(ss, f)
  PROVE  \E g : /\ g = Joined(Append(ss, t), g)
                /\ g[Len(ss) + 1] = IF ss = <<>> THEN t ELSE f[Len(ss)] \o t
<1> DEFINE n == Len(ss)
           g == [i \in 1..(n + 1) |-> IF i <= n THEN f[i]
                                      ELSE IF n = 0 THEN t ELSE f[n] \o t]
<1>1. n \in Nat /\ Len(Append(ss, t)) = n + 1 /\ (n = 0 <=> ss = <<>>)
  BY AppendProperties, LenProperties, EmptySeq
<1>2. \A i \in 1..n : f[i] = IF i = 1 THEN ss[i] ELSE f[i - 1] \o ss[i]
  BY DEF Joined
<1>3. \A i \in 1..n : Append(ss, t)[i] = ss[i]
  BY AppendProperties
<1>4. Append(ss, t)[n + 1] = t
  BY AppendProperties
<1>5. g[n + 1] = IF ss = <<>> THEN t ELSE f[n] \o t
  BY <1>1
<1>6. \A i \in 1..(n + 1) :
        g[i] = IF i = 1 THEN Append(ss, t)[i] ELSE g[i - 1] \o Append(ss, t)[i]
  <2> SUFFICES ASSUME NEW i \in 1..(n + 1)
               PROVE  g[i] = IF i = 1 THEN Append(ss, t)[i]
                             ELSE g[i - 1] \o Append(ss, t)[i]
    OBVIOUS
  <2>1. CASE i <= n
    BY <2>1, <1>1, <1>2, <1>3
  <2>2. CASE i = n + 1
    BY <2>2, <1>1, <1>4
  <2> QED  BY <2>1, <2>2, <1>1
<1>7. g = Joined(Append(ss, t), g)
  BY <1>1, <1>6 DEF Joined
<1> QED  BY <1>5, <1>7

\* A sequence of parts is joined in one way.
LEMMA JoinedAgree ==
  ASSUME NEW E, NEW ss \in Seq(E),
         NEW f, f = Joined(ss, f), NEW g, g = Joined(ss, g)
  PROVE  f = g
<1> DEFINE S == {n \in Nat : n \in 1..Len(ss) => f[n] = g[n]}
<1>1. Len(ss) \in Nat
  BY LenProperties
<1>2. \A i \in 1..Len(ss) : f[i] = IF i = 1 THEN ss[i] ELSE f[i - 1] \o ss[i]
  BY DEF Joined
<1>3. \A i \in 1..Len(ss) : g[i] = IF i = 1 THEN ss[i] ELSE g[i - 1] \o ss[i]
  BY DEF Joined
<1>4. 0 \in S
  OBVIOUS
<1>5. ASSUME NEW n \in S PROVE n + 1 \in S
  BY <1>1, <1>2, <1>3
<1>6. S = Nat
  <2> HIDE DEF S
  <2>1. S \in SUBSET Nat
    BY DEF S
  <2> QED  BY <2>1, <1>4, <1>5, NatSets
<1>7. \A i \in 1..Len(ss) : f[i] = g[i]
  BY <1>1, <1>6
<1>8. /\ f = [i \in 1..Len(ss) |-> f[i]]
      /\ g = [i \in 1..Len(ss) |-> g[i]]
  BY DEF Joined
<1> QED  BY <1>7, <1>8

\* Every sequence of parts is joined in some way.
LEMMA JoinedExists ==
  ASSUME NEW E, NEW ss \in Seq(E)
  PROVE  \E f : f = Joined(ss, f)
<1> DEFINE P == {u \in Seq(E) : \E f : f = Joined(u, f)}
<1>1. <<>> \in P
  <2>1. <<>> \in Seq(E) /\ Len(<<>>) = 0
    BY EmptySeq
  <2>2. [i \in 1..0 |-> 0] = Joined(<<>>, [i \in 1..0 |-> 0])
    BY <2>1 DEF Joined
  <2> QED  BY <2>1, <2>2
<1>2. ASSUME NEW u \in P, NEW t \in E PROVE Append(u, t) \in P
  BY JoinedExtends, AppendProperties
<1>3. P = Seq(E)
  <2> HIDE DEF P
  <2>1. P \in SUBSET Seq(E)
    BY DEF P
  <2> QED  BY <2>1, <1>1, <1>2, SeqSets
<1> QED  BY <1>3

\* FlattenSeq is where that function ends.
LEMMA FlattenIsJoined ==
  ASSUME NEW E, NEW ss \in Seq(E), ss # <<>>, NEW f, f = Joined(ss, f)
  PROVE  FlattenSeq(ss) = f[Len(ss)]
<1> DEFINE flatten == CHOOSE g : g = Joined(ss, g)
<1>1. flatten = Joined(ss, flatten)
  <2> HIDE DEF Joined
  <2> QED  BY Zenon
<1>2. FlattenSeq(ss) = flatten[Len(ss)]
  BY EmptySeq DEF FlattenSeq, Joined
<1> HIDE DEF flatten
<1>3. flatten = f
  BY <1>1, JoinedAgree
<1> QED  BY <1>2, <1>3

\* No parts, no text.
LEMMA FlattenEmpty == FlattenSeq(<<>>) = <<>>
  BY EmptySeq DEF FlattenSeq

\* One part more is joined at the end.
LEMMA FlattenAppend ==
  ASSUME NEW E, NEW ss \in Seq(Seq(E)), NEW t \in Seq(E)
  PROVE  FlattenSeq(Append(ss, t)) = FlattenSeq(ss) \o t
<1>1. PICK f : f = Joined(ss, f)
  BY JoinedExists
<1>2. PICK g : /\ g = Joined(Append(ss, t), g)
               /\ g[Len(ss) + 1] = IF ss = <<>> THEN t ELSE f[Len(ss)] \o t
  BY <1>1, JoinedExtends
<1>3. /\ Append(ss, t) \in Seq(Seq(E)) /\ Append(ss, t) # <<>>
      /\ Len(Append(ss, t)) = Len(ss) + 1
  BY AppendProperties
<1>4. FlattenSeq(Append(ss, t)) = g[Len(ss) + 1]
  BY <1>2, <1>3, FlattenIsJoined
<1>5. CASE ss = <<>>
  BY <1>2, <1>4, <1>5, FlattenEmpty, ConcatEmptySeq
<1>6. CASE ss # <<>>
  BY <1>1, <1>2, <1>4, <1>6, FlattenIsJoined
<1> QED  BY <1>5, <1>6

\* The parts of a text make a text.
LEMMA FlattenType ==
  ASSUME NEW E, NEW ss \in Seq(Seq(E))
  PROVE  FlattenSeq(ss) \in Seq(E)
<1> DEFINE P == {u \in Seq(Seq(E)) : FlattenSeq(u) \in Seq(E)}
<1>1. <<>> \in P
  BY EmptySeq, FlattenEmpty
<1>2. ASSUME NEW u \in P, NEW t \in Seq(E) PROVE Append(u, t) \in P
  BY FlattenAppend, AppendProperties, ConcatProperties
<1>3. P = Seq(Seq(E))
  <2> HIDE DEF P
  <2>1. P \in SUBSET Seq(Seq(E))
    BY DEF P
  <2> QED  BY <2>1, <1>1, <1>2, SeqSets
<1> QED  BY <1>3

Texts(E, F)  == [E -> Seq(F)]
Spread(h, s) == FlattenSeq([i \in DOMAIN s |-> h[s[i]]])

\* A function spread over no members gives nothing.
LEMMA SpreadEmpty ==
  ASSUME NEW h
  PROVE  Spread(h, <<>>) = <<>>
<1>1. <<>> \in Seq(Chars) /\ Len(<<>>) = 0 /\ DOMAIN <<>> = {}
  BY EmptySeq
<1>2. [i \in DOMAIN <<>> |-> h[<<>>[i]]] = <<>>
  BY <1>1
<1> QED  BY <1>2, FlattenEmpty DEF Spread

\* A function spread over one more member: its text comes at the end.
LEMMA SpreadAppend ==
  ASSUME NEW E, NEW F, NEW h \in Texts(E, F), NEW s \in Seq(E), NEW e \in E
  PROVE  /\ Spread(h, s) \in Seq(F)
         /\ Spread(h, Append(s, e)) = Spread(h, s) \o h[e]
<1> DEFINE Image(t) == [i \in DOMAIN t |-> h[t[i]]]
           n == Len(s)
           w == Append(s, e)
           u == Append(Image(s), h[e])
<1>1. \A t \in Seq(E) : /\ Len(t) \in Nat /\ DOMAIN t = 1..Len(t)
                        /\ \A i \in 1..Len(t) : t[i] \in E
  BY LenProperties, ElementOfSeq
<1>2. \A t \in Seq(E) : Image(t) \in [1..Len(t) -> Seq(F)]
  BY <1>1 DEF Texts
<1>3. \A t \in Seq(E) : \A i \in 1..Len(t) : Image(t)[i] = h[t[i]]
  BY <1>1
<1>4. \A t \in Seq(E) : Spread(h, t) = FlattenSeq(Image(t))
  BY DEF Spread
<1> HIDE DEF Image
<1>5. \A t \in Seq(E) : Image(t) \in Seq(Seq(F)) /\ Len(Image(t)) = Len(t)
  <2>1. ASSUME NEW t \in Seq(E) PROVE Image(t) \in Seq(Seq(F))
    <3>1. Image(t) \in UNION {[1..m -> Seq(F)] : m \in Nat}
      BY <1>1, <1>2
    <3>2. Seq(Seq(F)) = UNION {[1..m -> Seq(F)] : m \in Nat}
      BY SeqDef, Zenon
    <3> QED  BY <3>1, <3>2, Zenon
  <2>2. ASSUME NEW t \in Seq(E) PROVE Len(Image(t)) = Len(t)
    BY <2>1, <1>1, <1>2, LenProperties
  <2> QED  BY <2>1, <2>2
<1>6. /\ w \in Seq(E) /\ Len(w) = n + 1 /\ w[n + 1] = e
      /\ \A i \in 1..n : w[i] = s[i]
  BY AppendProperties
<1>7. h[e] \in Seq(F)
  BY DEF Texts
<1>8. /\ u \in Seq(Seq(F)) /\ Len(u) = n + 1 /\ u[n + 1] = h[e]
      /\ \A i \in 1..n : u[i] = Image(s)[i]
  BY <1>5, <1>7, AppendProperties
<1> HIDE DEF w, u
<1>9. ASSUME NEW i \in 1..(n + 1) PROVE Image(w)[i] = u[i]
  <2>1. CASE i = n + 1
    BY <2>1, <1>3, <1>6, <1>8
  <2>2. CASE i # n + 1
    <3>1. i \in 1..n
      BY <2>2, <1>1
    <3>2. Image(w)[i] = h[w[i]] /\ Image(s)[i] = h[s[i]]
      BY <3>1, <1>3, <1>6
    <3> QED  BY <3>1, <3>2, <1>6, <1>8
  <2> QED  BY <2>1, <2>2
<1>10. Image(w) = u
  BY <1>5, <1>6, <1>8, <1>9, SeqEqual
<1>11. FlattenSeq(u) = FlattenSeq(Image(s)) \o h[e]
  BY <1>5, <1>7, FlattenAppend DEF u
<1>12. FlattenSeq(Image(s)) \in Seq(F)
  BY <1>5, FlattenType
<1>13. Spread(h, w) = Spread(h, s) \o h[e]
  BY <1>4, <1>6, <1>10, <1>11
<1> QED  BY <1>4, <1>12, <1>13 DEF w

\* Nothing is selected from nothing.
LEMMA OnlyEmpty ==
  ASSUME NEW S
  PROVE  Only(<<>>, S) = <<>>
<1> DEFINE h == [x \in {} |-> <<>>]
<1>1. /\ DOMAIN <<>> = {}
      /\ [i \in DOMAIN <<>> |-> IF <<>>[i] \in S THEN << <<>>[i] >> ELSE <<>>]
           = [i \in DOMAIN <<>> |-> h[<<>>[i]]]
  BY EmptySeq
<1>2. Only(<<>>, S) = Spread(h, <<>>)
  BY <1>1 DEF Only, Spread
<1> QED  BY <1>2, SpreadEmpty

\* Only goes on to the next member, and takes it or leaves it.
LEMMA OnlyAppend ==
  ASSUME NEW E, NEW s \in Seq(E), NEW e \in E, NEW S
  PROVE  /\ Only(s, S) \in Seq(E)
         /\ Only(Append(s, e), S) =
              IF e \in S THEN Append(Only(s, S), e) ELSE Only(s, S)
<1> DEFINE h == [x \in E |-> IF x \in S THEN <<x>> ELSE <<>>]
<1>1. h \in Texts(E, E)
  BY EmptySeq DEF Texts
<1>2. \A t \in Seq(E) : Only(t, S) = Spread(h, t)
  BY LenProperties, ElementOfSeq DEF Only, Spread
<1>3. Append(s, e) \in Seq(E)
  BY AppendProperties
<1>4. h[e] = IF e \in S THEN <<e>> ELSE <<>>
  OBVIOUS
<1> HIDE DEF h
<1>5. Only(s, S) \in Seq(E) /\ Only(Append(s, e), S) = Only(s, S) \o h[e]
  <2>1. \A t \in Seq(E), x \in E : /\ Spread(h, t) \in Seq(E)
                                   /\ Spread(h, Append(t, x)) = Spread(h, t) \o h[x]
    BY <1>1, SpreadAppend
  <2> QED  BY <2>1, <1>2, <1>3
<1>6. CASE e \in S
  BY <1>4, <1>5, <1>6, AppendIsConcat
<1>7. CASE e \notin S
  BY <1>4, <1>5, <1>7, ConcatEmptySeq
<1> QED  BY <1>5, <1>6, <1>7

\* Only selects members.
LEMMA OnlyType ==
  ASSUME NEW E, NEW s \in Seq(E), NEW S
  PROVE  Only(s, S) \in Seq(E)
<1>1. CASE s = <<>>
  BY <1>1, OnlyEmpty, EmptySeq
<1>2. CASE s # <<>>
  <2>1. PICK t \in Seq(E), e \in E : s = Append(t, e)
    BY <1>2, SequenceEmptyOrAppend
  <2> QED  BY <2>1, e \in E, OnlyAppend
<1> QED  BY <1>1, <1>2

\* Only adds no member.
LEMMA OnlyLen ==
  ASSUME NEW E, NEW s \in Seq(E), NEW S
  PROVE  Len(Only(s, S)) <= Len(s)
<1> DEFINE P == {t \in Seq(E) : Len(Only(t, S)) <= Len(t)}
<1>1. <<>> \in P
  BY EmptySeq, OnlyEmpty
<1>2. ASSUME NEW t \in P, NEW e \in E PROVE Append(t, e) \in P
  <2>1. /\ Only(t, S) \in Seq(E) /\ Len(Only(t, S)) \in Nat /\ Len(t) \in Nat
        /\ Len(Only(t, S)) <= Len(t)
    BY OnlyType, LenProperties
  <2>2. Len(Append(t, e)) = Len(t) + 1 /\ Append(t, e) \in Seq(E)
    BY AppendProperties
  <2>3. Len(Append(Only(t, S), e)) = Len(Only(t, S)) + 1
    BY <2>1, AppendProperties
  <2>4. Only(Append(t, e), S) = IF e \in S THEN Append(Only(t, S), e) ELSE Only(t, S)
    BY OnlyAppend
  <2>5. Len(Only(Append(t, e), S)) <= Len(t) + 1
    <3>1. CASE e \in S
      BY <3>1, <2>1, <2>3, <2>4
    <3>2. CASE e \notin S
      BY <3>2, <2>1, <2>4
    <3> QED  BY <3>1, <3>2
  <2> QED  BY <2>2, <2>5
<1>3. P = Seq(E)
  <2> HIDE DEF P
  <2>1. P \in SUBSET Seq(E)
    BY DEF P
  <2> QED  BY <2>1, <1>1, <1>2, SeqSets
<1> QED  BY <1>3

\* Only selects exactly the members in S.
LEMMA OnlyMembers ==
  ASSUME NEW E, NEW s \in Seq(E), NEW S
  PROVE  ToSet(Only(s, S)) = ToSet(s) \cap S
<1> DEFINE P == {t \in Seq(E) : ToSet(Only(t, S)) = ToSet(t) \cap S}
<1>1. <<>> \in P
  BY EmptySeq, OnlyEmpty DEF ToSet
<1>2. ASSUME NEW t \in P, NEW e \in E PROVE Append(t, e) \in P
  <2>1. /\ ToSet(Only(t, S)) = ToSet(t) \cap S
        /\ Only(t, S) \in Seq(E) /\ Append(t, e) \in Seq(E)
    BY OnlyType, AppendProperties
  <2>2. \A u \in Seq(E) : ToSet(Append(u, e)) = ToSet(u) \cup {e}
    BY MembersAppend
  <2>3. Only(Append(t, e), S) = IF e \in S THEN Append(Only(t, S), e) ELSE Only(t, S)
    BY OnlyAppend
  <2>4. ToSet(Append(t, e)) = ToSet(t) \cup {e}
    BY <2>2
  <2>5. ToSet(Append(Only(t, S), e)) = ToSet(Only(t, S)) \cup {e}
    BY <2>1, <2>2
  <2>6. ToSet(Only(Append(t, e), S)) = ToSet(Append(t, e)) \cap S
    <3>1. CASE e \in S
      BY <3>1, <2>1, <2>3, <2>4, <2>5
    <3>2. CASE e \notin S
      BY <3>2, <2>1, <2>3, <2>4
    <3> QED  BY <3>1, <3>2
  <2> QED  BY <2>1, <2>6
<1>3. P = Seq(E)
  <2> HIDE DEF P
  <2>1. P \in SUBSET Seq(E)
    BY DEF P
  <2> QED  BY <2>1, <1>1, <1>2, SeqSets
<1> QED  BY <1>3

\* Only selects from two parts separately.
LEMMA OnlyConcat ==
  ASSUME NEW E, NEW s \in Seq(E), NEW t \in Seq(E), NEW S
  PROVE  Only(s \o t, S) = Only(s, S) \o Only(t, S)
<1> DEFINE P == {u \in Seq(E) : Only(s \o u, S) = Only(s, S) \o Only(u, S)}
<1>0. \A u \in Seq(E), e \in E :
        Only(Append(u, e), S) = IF e \in S THEN Append(Only(u, S), e) ELSE Only(u, S)
  <2> HIDE DEF P
  <2> QED  BY OnlyAppend
<1>1. <<>> \in P
  BY EmptySeq, OnlyEmpty, OnlyType, ConcatEmptySeq
<1>2. ASSUME NEW u \in P, NEW e \in E PROVE Append(u, e) \in P
  <2>1. /\ u \in Seq(E) /\ Only(s \o u, S) = Only(s, S) \o Only(u, S)
        /\ s \o u \in Seq(E) /\ Append(u, e) \in Seq(E)
        /\ Only(s, S) \in Seq(E) /\ Only(u, S) \in Seq(E)
    BY OnlyType, AppendProperties, ConcatProperties
  <2>2. s \o Append(u, e) = Append(s \o u, e)
    BY ConcatAppend
  <2>3. Only(s, S) \o Append(Only(u, S), e) = Append(Only(s, S) \o Only(u, S), e)
    BY <2>1, ConcatAppend
  <2>4. Only(Append(u, e), S) = IF e \in S THEN Append(Only(u, S), e) ELSE Only(u, S)
    BY <2>1, <1>0
  <2>5. Only(Append(s \o u, e), S) =
          IF e \in S THEN Append(Only(s \o u, S), e) ELSE Only(s \o u, S)
    BY <2>1, <1>0
  <2>6. Only(s \o Append(u, e), S) = Only(s, S) \o Only(Append(u, e), S)
    BY <2>1, <2>2, <2>3, <2>4, <2>5
  <2> QED  BY <2>1, <2>6
<1>3. P = Seq(E)
  <2> HIDE DEF P
  <2>1. P \in SUBSET Seq(E)
    BY DEF P
  <2> QED  BY <2>1, <1>1, <1>2, SeqSets
<1> QED  BY <1>3

\* The parser reads two texts one after the other.
LEMMA AfterConcat ==
  ASSUME NEW s, NEW E, NEW t \in Seq(E), NEW u \in Seq(E)
  PROVE  After(s, t \o u) = After(After(s, t), u)
<1> DEFINE P == {v \in Seq(E) : After(s, t \o v) = After(After(s, t), v)}
<1>0. \A r, w \in Seq(E), c \in E : /\ After(s, Append(w, c)) = Read(After(s, w), c)
                                    /\ r \o Append(w, c) = Append(r \o w, c)
  <2> HIDE DEF P
  <2> QED  BY AfterAppend, ConcatAppend
<1>1. <<>> \in P
  BY EmptySeq, AfterEmpty, ConcatEmptySeq
<1>2. ASSUME NEW v \in P, NEW c \in E PROVE Append(v, c) \in P
  <2>1. /\ v \in Seq(E) /\ After(s, t \o v) = After(After(s, t), v)
        /\ t \o v \in Seq(E) /\ Append(v, c) \in Seq(E)
    BY AppendProperties, ConcatProperties
  <2> HIDE DEF P
  <2>2. After(s, t \o Append(v, c)) = Read(After(s, t \o v), c)
    <3>1. t \o Append(v, c) = Append(t \o v, c)
      BY <2>1, <1>0
    <3>2. After(s, Append(t \o v, c)) = Read(After(s, t \o v), c)
      BY <2>1, <1>0
    <3> QED  BY <3>1, <3>2
  <2>3. After(After(s, t), Append(v, c)) = Read(After(After(s, t), v), c)
    BY <2>1, AfterAppend
  <2> QED  BY <2>1, <2>2, <2>3 DEF P
<1>3. P = Seq(E)
  <2> HIDE DEF P
  <2>1. P \in SUBSET Seq(E)
    BY DEF P
  <2> QED  BY <2>1, <1>1, <1>2, SeqSets
<1> QED  BY <1>3

\* The same for two texts over the characters of a file,
LEMMA AfterTexts ==
  \A s : \A t, u \in Seq(Chars) : After(s, t \o u) = After(After(s, t), u)
<1> DEFINE E == Chars
<1>1. \A s : \A t, u \in Seq(E) : After(s, t \o u) = After(After(s, t), u)
  <2> HIDE DEF E
  <2> QED  BY AfterConcat
<1> QED  BY <1>1

\* and for three of them.
LEMMA AfterThree ==
  ASSUME NEW s, NEW t \in Seq(Chars), NEW u \in Seq(Chars), NEW v \in Seq(Chars)
  PROVE  /\ (t \o u) \o v \in Seq(Chars)
         /\ After(s, (t \o u) \o v) = After(After(After(s, t), u), v)
<1> DEFINE w == t \o u
<1>1. w \in Seq(Chars) /\ w \o v \in Seq(Chars)
  BY ConcatProperties
<1>2. After(s, w) = After(After(s, t), u)
  BY AfterTexts
<1> HIDE DEF w
<1>3. After(s, w \o v) = After(After(s, w), v)
  BY <1>1, AfterTexts
<1> QED  BY <1>1, <1>2, <1>3 DEF w

\* A text of one character.
LEMMA AfterOne ==
  ASSUME NEW s, NEW c
  PROVE  After(s, <<c>>) = Read(s, c)
<1>1. <<>> \in Seq({c}) /\ c \in {c} /\ Append(<<>>, c) = <<c>>
  BY EmptySeq
<1>2. After(s, Append(<<>>, c)) = Read(After(s, <<>>), c)
  BY <1>1, AfterAppend
<1> QED  BY <1>1, <1>2, AfterEmpty

\* No lines, no text.
LEMMA TextEmpty == Text(<<>>) = <<>>
<1> DEFINE h == [x \in {} |-> <<>>]
<1>1. /\ DOMAIN <<>> = {}
      /\ [i \in DOMAIN <<>> |-> Append(<<>>[i], LF)]
           = [i \in DOMAIN <<>> |-> h[<<>>[i]]]
  BY EmptySeq
<1>2. Text(<<>>) = Spread(h, <<>>)
  BY <1>1 DEF Text, Spread
<1> QED  BY <1>2, SpreadEmpty

\* One line more stands at the end of the text.
LEMMA TextAppend ==
  ASSUME NEW lines \in Seq(Seq(Chars)), NEW l \in Seq(Chars)
  PROVE  /\ Text(lines) \in Seq(Chars)
         /\ Text(Append(lines, l)) = Text(lines) \o Append(l, LF)
<1> DEFINE Lines == Seq(Chars)
           h == [x \in Lines |-> Append(x, LF)]
<1>1. h \in Texts(Lines, Chars)
  BY Alphabet, AppendProperties DEF Texts
<1>2. \A t \in Seq(Seq(Chars)) : Text(t) = Spread(h, t)
  BY LenProperties, ElementOfSeq DEF Text, Spread
<1>3. Append(lines, l) \in Seq(Seq(Chars))
  BY AppendProperties
<1>4. h[l] = Append(l, LF)
  OBVIOUS
<1> HIDE DEF h
<1>5. \A t \in Seq(Lines), x \in Lines :
        /\ Spread(h, t) \in Seq(Chars)
        /\ Spread(h, Append(t, x)) = Spread(h, t) \o h[x]
  <2> HIDE DEF Lines
  <2> QED  BY <1>1, SpreadAppend
<1> QED  BY <1>2, <1>3, <1>4, <1>5

\* Nothing to escape.
LEMMA EscapedEmpty == Escaped(<<>>) = <<>>
<1> DEFINE h == [x \in {} |-> <<>>]
<1>1. /\ DOMAIN <<>> = {}
      /\ [i \in DOMAIN <<>> |-> IF <<>>[i] \in {BS, DQ} THEN <<BS, <<>>[i]>>
                                ELSE << <<>>[i] >>]
           = [i \in DOMAIN <<>> |-> h[<<>>[i]]]
  BY EmptySeq
<1>2. Escaped(<<>>) = Spread(h, <<>>)
  BY <1>1 DEF Escaped, Spread
<1> QED  BY <1>2, SpreadEmpty

\* The last character is escaped by itself (application.go:141).
LEMMA EscapedAppend ==
  ASSUME NEW v \in Seq(Chars), NEW c \in Chars
  PROVE  /\ Escaped(v) \in Seq(Chars)
         /\ Escaped(Append(v, c)) =
              Escaped(v) \o (IF c \in {BS, DQ} THEN <<BS, c>> ELSE <<c>>)
<1> DEFINE h == [x \in Chars |-> IF x \in {BS, DQ} THEN <<BS, x>> ELSE <<x>>]
<1>1. h \in Texts(Chars, Chars)
  BY Alphabet DEF Texts
<1>2. ASSUME NEW t \in Seq(Chars) PROVE Escaped(t) = Spread(h, t)
  <2>1. \A i \in DOMAIN t : t[i] \in Chars
    BY LenProperties, ElementOfSeq
  <2>2. [i \in DOMAIN t |-> IF t[i] \in {BS, DQ} THEN <<BS, t[i]>> ELSE <<t[i]>>]
          = [i \in DOMAIN t |-> h[t[i]]]
    BY <2>1
  <2> QED  BY <2>2 DEF Escaped, Spread
<1>3. Append(v, c) \in Seq(Chars)
  BY AppendProperties
<1>4. h[c] = IF c \in {BS, DQ} THEN <<BS, c>> ELSE <<c>>
  OBVIOUS
<1> HIDE DEF h
<1>5. \A t \in Seq(Chars), x \in Chars :
        /\ Spread(h, t) \in Seq(Chars)
        /\ Spread(h, Append(t, x)) = Spread(h, t) \o h[x]
  BY <1>1, SpreadAppend
<1> QED  BY <1>2, <1>3, <1>4, <1>5

-----------------------------------------------------------------------------
(* How systemd reads a line *)

At(mode, key, val, kept, env) ==
  [mode |-> mode, key |-> key, val |-> val, kept |-> kept, env |-> env]

Start(env) == At("line", <<>>, <<>>, 0, env)

With(env, k, v) == [x \in {k} \cup DOMAIN env |-> IF x = k THEN v ELSE env[x]]

\* The parser reads letters into the key and ends it at "=".
LEMMA ReadKey ==
  ASSUME NEW env, NEW c \in Letters
  PROVE  /\ Read(Start(env), c) = At("key", <<c>>, <<>>, 0, env)
         /\ \A k : /\ Read(At("key", k, <<>>, 0, env), c)
                        = At("key", Append(k, c), <<>>, 0, env)
                   /\ Read(At("key", k, <<>>, 0, env), "=")
                        = At("pre", k, <<>>, 0, env)
<1>0. c \notin Blank \cup {LF, "#", ";", "="}
  BY LettersAreChars
<1>1. Read(Start(env), c) = At("key", <<c>>, <<>>, 0, env)
  BY <1>0 DEF Read, Outside, Start, At, Blank, LF
<1>2. ASSUME NEW k
      PROVE  Read(At("key", k, <<>>, 0, env), c) = At("key", Append(k, c), <<>>, 0, env)
  BY <1>0 DEF Read, Outside, At, LF
<1>3. ASSUME NEW k
      PROVE  Read(At("key", k, <<>>, 0, env), "=") = At("pre", k, <<>>, 0, env)
  BY DEF Read, Outside, At, Go, LF
<1> QED  BY <1>1, <1>2, <1>3

\* The parser outside quotes: characters without a meaning go into the value, and
\* a blank counts when another character follows.
LEMMA ReadBare ==
  ASSUME NEW env, NEW k, NEW v, NEW n, NEW c, c \notin {LF, BS}
  PROVE  /\ c \notin Blank \cup {DQ, SQ} =>
              Read(At("pre", k, v, n, env), c)
                = At("value", k, Append(v, c), Len(v) + 1, env)
         /\ c \notin Blank =>
              Read(At("value", k, v, n, env), c)
                = At("value", k, Append(v, c), Len(v) + 1, env)
         /\ c \in Blank =>
              Read(At("value", k, v, n, env), c) = At("value", k, Append(v, c), n, env)
<1>1. ASSUME c \notin Blank \cup {DQ, SQ}
      PROVE  Read(At("pre", k, v, n, env), c)
               = At("value", k, Append(v, c), Len(v) + 1, env)
  BY <1>1 DEF Read, Bare, At, Keep
<1>2. ASSUME c \notin Blank
      PROVE  Read(At("value", k, v, n, env), c)
               = At("value", k, Append(v, c), Len(v) + 1, env)
  BY <1>2 DEF Read, Bare, At, Keep
<1>3. ASSUME c \in Blank
      PROVE  Read(At("value", k, v, n, env), c) = At("value", k, Append(v, c), n, env)
  BY <1>3 DEF Read, Bare, At, Blank, DQ, SQ, Loose
<1> QED  BY <1>1, <1>2, <1>3

\* The parser inside double quotes: a character goes into the value, escaped if it
\* is a double quote or a backslash.
LEMMA ReadQuoted ==
  ASSUME NEW env, NEW k, NEW v, NEW n
  PROVE  /\ Read(At("pre", k, v, n, env), DQ) = At("double", k, v, n, env)
         /\ Read(At("double", k, v, n, env), DQ) = At("pre", k, v, n, env)
         /\ \A c : c \notin {DQ, BS} =>
              Read(At("double", k, v, n, env), c)
                = At("double", k, Append(v, c), Len(v) + 1, env)
         /\ \A c : c \in {DQ, BS} =>
              Read(Read(At("double", k, v, n, env), BS), c)
                = At("double", k, Append(v, c), Len(v) + 1, env)
<1>1. Read(At("pre", k, v, n, env), DQ) = At("double", k, v, n, env)
  BY DEF Read, Bare, At, Go, Blank, DQ, SQ, BS, LF
<1>2. Read(At("double", k, v, n, env), DQ) = At("pre", k, v, n, env)
  BY DEF Read, InQuotes, At, Go, DQ, BS
<1>3. ASSUME NEW c, c \notin {DQ, BS}
      PROVE  Read(At("double", k, v, n, env), c)
               = At("double", k, Append(v, c), Len(v) + 1, env)
  BY <1>3 DEF Read, InQuotes, At, Quoted, Keep
<1>4. Read(At("double", k, v, n, env), BS) = At("doubleEscape", k, v, n, env)
  BY DEF Read, InQuotes, At, Go, DQ, BS
<1>5. ASSUME NEW c, c \in {DQ, BS}
      PROVE  Read(At("doubleEscape", k, v, n, env), c)
               = At("double", k, Append(v, c), Len(v) + 1, env)
  <2>1. Read(At("doubleEscape", k, v, n, env), c)
          = Quoted(At("doubleEscape", k, v, n, env), c, "double")
    <3>1. Read(At("doubleEscape", k, v, n, env), c)
            = InQuotes(At("doubleEscape", k, v, n, env), c)
      BY DEF Read, At
    <3> QED  BY <3>1, <1>5 DEF InQuotes, At, DQ, BS, LF
  <2> QED  BY <2>1 DEF Quoted, Keep, At
<1> QED  BY <1>1, <1>2, <1>3, <1>4, <1>5

\* The end of the line assigns the value.
LEMMA ReadEnd ==
  ASSUME NEW env, NEW k, NEW v, NEW n, NEW m \in {"pre", "value"}
  PROVE  Read(At(m, k, v, n, env), LF) = Start(With(env, k, SubSeq(v, 1, n)))
<1>1. Read(At(m, k, v, n, env), LF) = Assign(At(m, k, v, n, env))
  BY DEF Read, Bare, At, LF, BS, DQ, SQ, Blank
<1>2. Assign(At(m, k, v, n, env))
        = [LineStart EXCEPT !.env = With(env, k, SubSeq(v, 1, n))]
  BY DEF Assign, At, With
<1> QED  BY <1>1, <1>2 DEF LineStart, Start, At

\* A key is read as it is written.
LEMMA KeyIsRead ==
  ASSUME NEW env, NEW k \in Seq(Letters), k # <<>>
  PROVE  After(Start(env), k) = At("key", k, <<>>, 0, env)
<1> DEFINE P == {u \in Seq(Letters) :
                   u # <<>> => After(Start(env), u) = At("key", u, <<>>, 0, env)}
<1>1. \A u \in Seq(Letters), c \in Letters :
        /\ After(Start(env), Append(u, c)) = Read(After(Start(env), u), c)
        /\ Append(u, c) \in Seq(Letters)
  <2> HIDE DEF P
  <2> QED  BY AfterAppend, AppendProperties
<1>2. <<>> \in P
  BY EmptySeq
<1>3. ASSUME NEW u \in P, NEW c \in Letters PROVE Append(u, c) \in P
  <2>1. /\ u \in Seq(Letters)
        /\ u # <<>> => After(Start(env), u) = At("key", u, <<>>, 0, env)
    OBVIOUS
  <2> HIDE DEF P
  <2>2. After(Start(env), Append(u, c)) = At("key", Append(u, c), <<>>, 0, env)
    <3>1. CASE u = <<>>
      <4>1. Append(u, c) = <<c>> /\ After(Start(env), u) = Start(env)
        BY <3>1, AfterEmpty
      <4>2. After(Start(env), Append(u, c)) = Read(Start(env), c)
        BY <4>1, <2>1, <1>1
      <4>3. Read(Start(env), c) = At("key", <<c>>, <<>>, 0, env)
        BY ReadKey
      <4> QED  BY <4>1, <4>2, <4>3
    <3>2. CASE u # <<>>
      <4>1. Read(At("key", u, <<>>, 0, env), c) = At("key", Append(u, c), <<>>, 0, env)
        BY ReadKey
      <4> QED  BY <3>2, <4>1, <2>1, <1>1
    <3> QED  BY <3>1, <3>2
  <2> QED  BY <2>1, <2>2, <1>1 DEF P
<1>4. P = Seq(Letters)
  <2> HIDE DEF P
  <2>1. P \in SUBSET Seq(Letters)
    BY DEF P
  <2> QED  BY <2>1, <1>2, <1>3, SeqSets
<1> QED  BY <1>4

\* A value without quotes is read as it is written, when its first and its last
\* character are not blank and no character has a meaning of its own.
Plain == Chars \ {" ", DQ, SQ, BS, "$", LF}

LEMMA BareIsRead ==
  ASSUME NEW env, NEW k, NEW v \in Seq(Plain), v # <<>>,
         v[1] \notin Blank, v[Len(v)] \notin Blank
  PROVE  After(At("pre", k, <<>>, 0, env), v) = At("value", k, v, Len(v), env)
<1> DEFINE pre == At("pre", k, <<>>, 0, env)
           IsRead(u) == \E n : /\ After(pre, u) = At("value", k, u, n, env)
                               /\ u[Len(u)] \notin Blank => n = Len(u)
           P == {u \in Seq(Plain) : u # <<>> /\ u[1] \notin Blank => IsRead(u)}
<1>1. \A u \in Seq(Plain), c \in Plain :
        /\ After(pre, Append(u, c)) = Read(After(pre, u), c)
        /\ Append(u, c) \in Seq(Plain) /\ Len(Append(u, c)) = Len(u) + 1
        /\ Append(u, c)[Len(u) + 1] = c
        /\ u # <<>> => Append(u, c)[1] = u[1]
  <2> HIDE DEF P, pre
  <2>1. ASSUME NEW u \in Seq(Plain), NEW c \in Plain, u # <<>>
        PROVE  Append(u, c)[1] = u[1]
    BY <2>1, AppendProperties, EmptySeq
  <2> QED  BY <2>1, AfterAppend, AppendProperties
<1>2. \A c \in Plain : c \notin {LF, BS} /\ c \notin {DQ, SQ}
  BY DEF Plain
<1>3. <<>> \in P
  BY EmptySeq
<1>4. ASSUME NEW u \in P, NEW c \in Plain PROVE Append(u, c) \in P
  <2>1. u \in Seq(Plain) /\ (u # <<>> /\ u[1] \notin Blank => IsRead(u))
    OBVIOUS
  <2> HIDE DEF P
  <2>2. ASSUME Append(u, c)[1] \notin Blank PROVE IsRead(Append(u, c))
    <3> HIDE DEF pre
    <3>1. CASE u = <<>>
      <4>1. After(pre, u) = pre /\ Len(u) = 0
        BY <3>1, AfterEmpty, EmptySeq
      <4>2. c \notin Blank
        BY <4>1, <2>1, <2>2, <1>1
      <4>3. After(pre, Append(u, c)) = At("value", k, Append(u, c), 1, env)
        <5>1. Read(At("pre", k, u, 0, env), c)
                = At("value", k, Append(u, c), Len(u) + 1, env)
          BY <4>2, <1>2, ReadBare
        <5>2. pre = At("pre", k, u, 0, env)
          BY <3>1 DEF pre
        <5>3. After(pre, Append(u, c)) = Read(After(pre, u), c)
          BY <2>1, <1>1
        <5> QED  BY <5>1, <5>2, <5>3, <4>1
      <4> QED  BY <4>1, <4>3, <2>1, <1>1
    <3>2. CASE u # <<>>
      <4>1. PICK n : After(pre, u) = At("value", k, u, n, env)
        BY <3>2, <2>1, <2>2, <1>1
      <4>2. CASE c \in Blank
        <5>1. After(pre, Append(u, c)) = At("value", k, Append(u, c), n, env)
          BY <4>1, <4>2, <2>1, <1>1, <1>2, ReadBare
        <5> QED  BY <5>1, <4>2, <2>1, <1>1
      <4>3. CASE c \notin Blank
        <5>1. After(pre, Append(u, c)) = At("value", k, Append(u, c), Len(u) + 1, env)
          BY <4>1, <4>3, <2>1, <1>1, <1>2, ReadBare
        <5> QED  BY <5>1, <2>1, <1>1
      <4> QED  BY <4>2, <4>3
    <3> QED  BY <3>1, <3>2
  <2> HIDE DEF IsRead
  <2> QED  BY <2>1, <2>2, <1>1 DEF P
<1>5. P = Seq(Plain)
  <2> HIDE DEF P
  <2>1. P \in SUBSET Seq(Plain)
    BY DEF P
  <2> QED  BY <2>1, <1>3, <1>4, SeqSets
<1>6. IsRead(v)
  <2> HIDE DEF IsRead
  <2> QED  BY <1>5
<1> QED  BY <1>6

\* An escaped value is read as what it was before.
LEMMA EscapedIsRead ==
  ASSUME NEW env, NEW k, NEW v \in Seq(Chars)
  PROVE  After(At("double", k, <<>>, 0, env), Escaped(v))
           = At("double", k, v, Len(v), env)
<1> DEFINE open == At("double", k, <<>>, 0, env)
           P == {u \in Seq(Chars) :
                   After(open, Escaped(u)) = At("double", k, u, Len(u), env)}
<1>1. <<>> \in P
  <2>1. <<>> \in Seq(Chars) /\ Len(<<>>) = 0
    BY EmptySeq
  <2>2. After(open, Escaped(<<>>)) = open
    <3> HIDE DEF open
    <3> QED  BY EscapedEmpty, AfterEmpty
  <2> QED  BY <2>1, <2>2
<1>2. ASSUME NEW u \in P, NEW c \in Chars PROVE Append(u, c) \in P
  <2>1. /\ u \in Seq(Chars)
        /\ After(open, Escaped(u)) = At("double", k, u, Len(u), env)
    OBVIOUS
  <2> HIDE DEF P, open
  <2>2. BS \in Chars /\ Escaped(u) \in Seq(Chars)
    BY <2>1, EscapedAppend, Alphabet
  <2>3. /\ Append(u, c) \in Seq(Chars) /\ Len(Append(u, c)) = Len(u) + 1
    BY <2>1, AppendProperties
  <2>4. \A w \in Seq(Chars) :
          After(open, Escaped(u) \o w) = After(After(open, Escaped(u)), w)
    BY <2>2, AfterConcat
  <2>5. After(open, Escaped(Append(u, c)))
          = At("double", k, Append(u, c), Len(u) + 1, env)
    <3>1. CASE c \in {BS, DQ}
      <4>1. <<BS, c>> \in Seq(Chars) /\ <<BS, c>> = Append(<<BS>>, c)
                                     /\ <<BS>> \in Seq(Chars)
        BY <2>2
      <4>2. Escaped(Append(u, c)) = Escaped(u) \o <<BS, c>>
        BY <3>1, <2>1, EscapedAppend
      <4>3. After(open, Escaped(u) \o <<BS, c>>)
              = After(After(open, Escaped(u)), <<BS, c>>)
        BY <4>1, <2>4
      <4>4. \A s : After(s, <<BS, c>>) = Read(Read(s, BS), c)
        <5> DEFINE b == <<BS>>
        <5>1. b \in Seq(Chars) /\ <<BS, c>> = Append(b, c)
          BY <4>1
        <5>2. \A s : After(s, b) = Read(s, BS)
          BY AfterOne
        <5> HIDE DEF b
        <5>3. \A s : After(s, Append(b, c)) = Read(After(s, b), c)
          BY <5>1, AfterAppend
        <5> QED  BY <5>1, <5>2, <5>3
      <4>5. Read(Read(At("double", k, u, Len(u), env), BS), c)
              = At("double", k, Append(u, c), Len(u) + 1, env)
        BY <3>1, ReadQuoted
      <4> QED  BY <2>1, <4>2, <4>3, <4>4, <4>5
    <3>2. CASE c \notin {BS, DQ}
      <4>1. <<c>> \in Seq(Chars)
        OBVIOUS
      <4>2. Escaped(Append(u, c)) = Escaped(u) \o <<c>>
        BY <3>2, <2>1, EscapedAppend
      <4>3. After(open, Escaped(u) \o <<c>>) = After(After(open, Escaped(u)), <<c>>)
        BY <4>1, <2>4
      <4>4. Read(At("double", k, u, Len(u), env), c)
              = At("double", k, Append(u, c), Len(u) + 1, env)
        BY <3>2, ReadQuoted
      <4> QED  BY <2>1, <4>2, <4>3, <4>4, AfterOne
    <3> QED  BY <3>1, <3>2
  <2> QED  BY <2>3, <2>5 DEF P
<1>3. P = Seq(Chars)
  <2> HIDE DEF P
  <2>1. P \in SUBSET Seq(Chars)
    BY DEF P
  <2> QED  BY <2>1, <1>1, <1>2, SeqSets
<1> QED  BY <1>3

\* A sequence is one over the set of its members.
LEMMA SeqOfMembers ==
  ASSUME NEW E, NEW v \in Seq(E), NEW S, ToSet(v) \subseteq S
  PROVE  v \in Seq(S)
<1>1. Len(v) \in Nat /\ DOMAIN v = 1..Len(v) /\ v \in [1..Len(v) -> E]
  BY LenProperties
<1>2. v \in [1..Len(v) -> S]
  BY <1>1 DEF ToSet
<1>3. v \in UNION {[1..n -> S] : n \in Nat}
  BY <1>1, <1>2
<1> QED  BY <1>3, SeqDef

\* What stands behind "=" is read as the value that was written.
LEMMA ValueIsRead ==
  ASSUME NEW env, NEW k, NEW v \in Seq(Chars), LF \notin ToSet(v),
         NEW w, w = IF NeedsQuoting(v) THEN <<DQ>> \o Escaped(v) \o <<DQ>> ELSE v
  PROVE  /\ w \in Seq(Chars)
         /\ \E m \in {"pre", "value"} :
              After(At("pre", k, <<>>, 0, env), w) = At(m, k, v, Len(v), env)
<1> DEFINE pre == At("pre", k, <<>>, 0, env)
<1>1. CASE NeedsQuoting(v)
  <2> HIDE DEF pre
  <2>1. <<DQ>> \in Seq(Chars) /\ Escaped(v) \in Seq(Chars)
    <3>1. \A u \in Seq(Chars), c \in Chars : Escaped(u) \in Seq(Chars)
      BY EscapedAppend
    <3>2. DQ \in Chars
      BY Alphabet
    <3>3. Escaped(v) \in Seq(Chars)
      BY <3>1, <3>2
    <3> QED  BY <3>2, <3>3
  <2>2. w = (<<DQ>> \o Escaped(v)) \o <<DQ>>
    BY <1>1
  <2>3. \A s : \A t, u, r \in Seq(Chars) :
          /\ (t \o u) \o r \in Seq(Chars)
          /\ After(s, (t \o u) \o r) = After(After(After(s, t), u), r)
    BY AfterThree
  <2>4. w \in Seq(Chars)
    BY <2>1, <2>2, <2>3
  <2>6. After(pre, w) = After(After(After(pre, <<DQ>>), Escaped(v)), <<DQ>>)
    <3> DEFINE q == <<DQ>>
               x == Escaped(v)
    <3>1. q \in Seq(Chars) /\ x \in Seq(Chars) /\ w = (q \o x) \o q
      BY <2>1, <2>2
    <3> HIDE DEF q, x
    <3>2. ASSUME NEW t \in Seq(Chars), NEW u \in Seq(Chars)
          PROVE  After(pre, (t \o u) \o t) = After(After(After(pre, t), u), t)
      BY <2>3
    <3>3. After(pre, (q \o x) \o q) = After(After(After(pre, q), x), q)
      BY <3>1, <3>2
    <3>4. After(pre, w) = After(After(After(pre, q), x), q)
      BY <3>1, <3>3
    <3> QED  BY <3>4 DEF q, x
  <2>7. After(pre, <<DQ>>) = At("double", k, <<>>, 0, env)
    BY AfterOne, ReadQuoted DEF pre
  <2>8. After(At("double", k, v, Len(v), env), <<DQ>>) = At("pre", k, v, Len(v), env)
    BY AfterOne, ReadQuoted
  <2>9. After(pre, w) = At("pre", k, v, Len(v), env)
    BY <2>6, <2>7, <2>8, EscapedIsRead
  <2> QED  BY <2>4, <2>9 DEF pre
<1>2. CASE ~NeedsQuoting(v) /\ v = <<>>
  <2>1. w = <<>> /\ Len(v) = 0 /\ pre = At("pre", k, v, 0, env)
    BY <1>2, EmptySeq
  <2>2. After(pre, w) = pre
    <3> HIDE DEF pre
    <3> QED  BY <2>1, AfterEmpty
  <2> QED  BY <1>2, <2>1, <2>2
<1>3. CASE ~NeedsQuoting(v) /\ v # <<>>
  <2>1. v[1] \notin Blank /\ v[Len(v)] \notin Blank
    BY <1>3 DEF NeedsQuoting
  <2>2. ToSet(v) \subseteq Chars
    BY LenProperties, ElementOfSeq DEF ToSet
  <2>3. ToSet(v) \cap {" ", DQ, SQ, BS, "$"} = {}
    BY <1>3 DEF NeedsQuoting
  <2>4. ToSet(v) \subseteq Plain
    BY <2>2, <2>3 DEF Plain
  <2>5. v \in Seq(Plain)
    BY <2>4, SeqOfMembers
  <2>6. After(pre, v) = At("value", k, v, Len(v), env)
    BY <1>3, <2>1, <2>5, BareIsRead
  <2> HIDE DEF pre
  <2>7. w = v
    BY <1>3
  <2> QED  BY <2>6, <2>7 DEF pre
<1> QED  BY <1>1, <1>2, <1>3

\* The line of a flag sets that variable, to the value that was written.
LEMMA LineIsRead ==
  ASSUME NEW env, NEW k \in Seq(Letters), k # <<>>,
         NEW v \in Seq(Chars), LF \notin ToSet(v)
  PROVE  /\ Line(k, v) \in Seq(Chars)
         /\ After(Start(env), Append(Line(k, v), LF)) = Start(With(env, k, v))
<1> DEFINE w == IF NeedsQuoting(v) THEN <<DQ>> \o Escaped(v) \o <<DQ>> ELSE v
           pre == At("pre", k, <<>>, 0, env)
<1>1. w \in Seq(Chars)
  BY ValueIsRead
<1>2. PICK m \in {"pre", "value"} : After(pre, w) = At(m, k, v, Len(v), env)
  BY ValueIsRead
<1>3. Line(k, v) = (k \o <<"=">>) \o w
  BY DEF Line
<1> HIDE DEF w
<1>4. /\ Letters \subseteq Chars /\ <<"=">> \in Seq(Chars) /\ LF \in Chars
  <2>1. <<"=">> \in Seq(Chars) /\ LF \in Chars
    BY Alphabet
  <2> QED  BY <2>1, LettersAreChars
<1>5. k \in Seq(Chars)
  BY <1>4, SeqMonotonic
<1>6. k \o <<"=">> \in Seq(Chars)
  BY <1>4, <1>5, ConcatProperties
<1>7. Line(k, v) \in Seq(Chars)
  BY <1>1, <1>3, <1>6, ConcatProperties
<1>9. After(Start(env), Line(k, v)) = After(After(After(Start(env), k), <<"=">>), w)
  <2> DEFINE q == <<"=">>
  <2>1. q \in Seq(Chars) /\ Line(k, v) = (k \o q) \o w
    BY <1>3, <1>4
  <2>2. \A s : \A t, u, r \in Seq(Chars) :
          After(s, (t \o u) \o r) = After(After(After(s, t), u), r)
    BY AfterThree
  <2> HIDE DEF q
  <2>3. After(Start(env), Line(k, v)) = After(After(After(Start(env), k), q), w)
    BY <2>1, <2>2, <1>1, <1>5
  <2> QED  BY <2>3 DEF q
<1>10. After(After(Start(env), k), <<"=">>) = pre
  <2>1. After(Start(env), k) = At("key", k, <<>>, 0, env)
    BY KeyIsRead
  <2>2. k[1] \in Letters
    BY EmptySeq, ElementOfSeq
  <2>3. Read(At("key", k, <<>>, 0, env), "=") = pre
    BY <2>2, ReadKey
  <2> QED  BY <2>1, <2>3, AfterOne
<1> HIDE DEF pre
<1>11. After(Start(env), Line(k, v)) = At(m, k, v, Len(v), env)
  BY <1>2, <1>9, <1>10
<1>12. \A t \in Seq(Chars) :
         After(Start(env), Append(t, LF)) = Read(After(Start(env), t), LF)
  BY <1>4, AfterAppend
<1>13. SubSeq(v, 1, Len(v)) = v
  BY SubSeqFull
<1>14. Read(At(m, k, v, Len(v), env), LF) = Start(With(env, k, v))
  <2>1. Read(At(m, k, v, Len(v), env), LF) = Start(With(env, k, SubSeq(v, 1, Len(v))))
    BY ReadEnd, Zenon
  <2> QED  BY <2>1, <1>13, Zenon
<1> QED  BY <1>7, <1>11, <1>12, <1>14


\* A comment or a line of blanks is read as nothing.
CommentChars == Chars \ {LF}
AllBlank(l)  == \A i \in DOMAIN l : l[i] \in Blank

\* The parser passes over blanks and comments.
LEMMA ReadComment ==
  ASSUME NEW env
  PROVE  /\ \A c \in Blank \cup {LF} : Read(Start(env), c) = Start(env)
         /\ Read(Start(env), "#") = At("comment", <<>>, <<>>, 0, env)
         /\ \A c : c # LF => Read(At("comment", <<>>, <<>>, 0, env), c)
                               = At("comment", <<>>, <<>>, 0, env)
         /\ Read(At("comment", <<>>, <<>>, 0, env), LF) = Start(env)
<1>1. ASSUME NEW c \in Blank \cup {LF} PROVE Read(Start(env), c) = Start(env)
  BY DEF Read, Outside, Start, At, Blank, LF
<1>2. Read(Start(env), "#") = At("comment", <<>>, <<>>, 0, env)
  BY DEF Read, Outside, Start, At, Go, Blank, LF
<1>3. ASSUME NEW c, c # LF
      PROVE  Read(At("comment", <<>>, <<>>, 0, env), c)
               = At("comment", <<>>, <<>>, 0, env)
  BY <1>3 DEF Read, Outside, At
<1>4. Read(At("comment", <<>>, <<>>, 0, env), LF) = Start(env)
  BY DEF Read, Outside, Start, At, Go
<1> QED  BY <1>1, <1>2, <1>3, <1>4

\* Whether a line is blank or meaningful, character by character.
LEMMA BlanksAppend ==
  ASSUME NEW u \in Seq(CommentChars), NEW c \in CommentChars
  PROVE  /\ Meaningful(u) => Meaningful(Append(u, c))
         /\ AllBlank(u) /\ c \notin Blank \cup {"#"} => Meaningful(Append(u, c))
         /\ AllBlank(Append(u, c)) <=> AllBlank(u) /\ c \in Blank
<1>1. /\ DOMAIN u = 1..Len(u) /\ Len(u) \in Nat
      /\ DOMAIN Append(u, c) = 1..(Len(u) + 1)
      /\ \A i \in 1..Len(u) : Append(u, c)[i] = u[i]
      /\ Append(u, c)[Len(u) + 1] = c
  <2>1. Append(u, c) \in Seq(CommentChars) /\ Len(Append(u, c)) = Len(u) + 1
    BY AppendProperties
  <2> QED  BY <2>1, LenProperties, AppendProperties
<1> DEFINE w == Append(u, c)
<1> HIDE DEF w
<1>2. /\ DOMAIN w = 1..(Len(u) + 1) /\ w[Len(u) + 1] = c
      /\ \A i \in 1..Len(u) : w[i] = u[i]
  BY <1>1 DEF w
<1>3. Meaningful(u) => Meaningful(w)
  <2> SUFFICES ASSUME Meaningful(u) PROVE Meaningful(w)
    OBVIOUS
  <2>1. PICK i \in 1..Len(u) : /\ u[i] \notin Blank \cup {"#"}
                               /\ \A j \in 1..(i - 1) : u[j] \in Blank
    BY <1>1 DEF Meaningful
  <2>2. i \in DOMAIN w /\ w[i] = u[i] /\ \A j \in 1..(i - 1) : w[j] = u[j]
    BY <1>1, <1>2
  <2> QED  BY <2>1, <2>2 DEF Meaningful
<1>4. AllBlank(u) /\ c \notin Blank \cup {"#"} => Meaningful(w)
  <2> SUFFICES ASSUME AllBlank(u), c \notin Blank \cup {"#"} PROVE Meaningful(w)
    OBVIOUS
  <2>1. /\ Len(u) + 1 \in DOMAIN w /\ w[Len(u) + 1] \notin Blank \cup {"#"}
        /\ \A j \in 1..(Len(u) + 1 - 1) : w[j] \in Blank
    BY <1>1, <1>2 DEF AllBlank
  <2> QED  BY <2>1 DEF Meaningful
<1>5. AllBlank(w) <=> AllBlank(u) /\ c \in Blank
  <2>1. ASSUME AllBlank(w) PROVE AllBlank(u) /\ c \in Blank
    BY <2>1, <1>1, <1>2 DEF AllBlank
  <2>2. ASSUME AllBlank(u), c \in Blank PROVE AllBlank(w)
    <3>1. ASSUME NEW i \in 1..(Len(u) + 1) PROVE w[i] \in Blank
      BY <2>2, <1>1, <1>2 DEF AllBlank
    <3> QED  BY <3>1, <1>2 DEF AllBlank
  <2> QED  BY <2>1, <2>2
<1> QED  BY <1>3, <1>4, <1>5 DEF w

\* What stripComments drops (application.go:150-161) the parser reads as nothing.
LEMMA CommentIsRead ==
  ASSUME NEW env, NEW l \in Seq(Chars), LF \notin ToSet(l), ~Meaningful(l)
  PROVE  After(Start(env), Append(l, LF)) = Start(env)
<1> DEFINE gone == At("comment", <<>>, <<>>, 0, env)
           P == {u \in Seq(CommentChars) :
                   ~Meaningful(u) =>
                     After(Start(env), u) = IF AllBlank(u) THEN Start(env) ELSE gone}
<1>1. <<>> \in P
  <2>1. AllBlank(<<>>) /\ After(Start(env), <<>>) = Start(env)
    BY EmptySeq, AfterEmpty DEF AllBlank
  <2> QED  BY <2>1, EmptySeq
<1>2. ASSUME NEW u \in P, NEW c \in CommentChars PROVE Append(u, c) \in P
  <2>1. /\ u \in Seq(CommentChars)
        /\ ~Meaningful(u) =>
             After(Start(env), u) = IF AllBlank(u) THEN Start(env) ELSE gone
    OBVIOUS
  <2> HIDE DEF P
  <2>2. /\ Append(u, c) \in Seq(CommentChars)
        /\ After(Start(env), Append(u, c)) = Read(After(Start(env), u), c)
    <3>1. \A t \in Seq(CommentChars), x \in CommentChars :
            /\ Append(t, x) \in Seq(CommentChars)
            /\ After(Start(env), Append(t, x)) = Read(After(Start(env), t), x)
      BY AppendProperties, AfterAppend
    <3> QED  BY <3>1, <2>1
  <2>3. /\ Meaningful(u) => Meaningful(Append(u, c))
        /\ AllBlank(u) /\ c \notin Blank \cup {"#"} => Meaningful(Append(u, c))
        /\ AllBlank(Append(u, c)) <=> AllBlank(u) /\ c \in Blank
    BY <2>1, BlanksAppend
  <2>4. c # LF
    BY DEF CommentChars
  <2>5. "#" \notin Blank
    BY DEF Blank
  <2> HIDE DEF gone
  <2>6. /\ c \in Blank => Read(Start(env), c) = Start(env)
        /\ c = "#" => Read(Start(env), c) = gone
        /\ Read(gone, c) = gone
    BY <2>4, ReadComment DEF gone
  <2>7. ASSUME ~Meaningful(Append(u, c))
        PROVE  After(Start(env), Append(u, c))
                 = IF AllBlank(Append(u, c)) THEN Start(env) ELSE gone
    BY <2>1, <2>2, <2>3, <2>5, <2>6, <2>7
  <2> QED  BY <2>2, <2>7 DEF P
<1>3. P = Seq(CommentChars)
  <2> HIDE DEF P
  <2>1. P \in SUBSET Seq(CommentChars)
    BY DEF P
  <2> QED  BY <2>1, <1>1, <1>2, SeqSets
<1>4. l \in Seq(CommentChars)
  <2>1. ToSet(l) \subseteq CommentChars
    BY LenProperties, ElementOfSeq DEF ToSet, CommentChars
  <2> QED  BY <2>1, SeqOfMembers
<1>5. After(Start(env), l) \in {Start(env), gone}
  BY <1>3, <1>4
<1>6. After(Start(env), Append(l, LF)) = Read(After(Start(env), l), LF)
  <2>1. LF \in Chars
    BY Alphabet
  <2>2. \A t \in Seq(Chars) :
          After(Start(env), Append(t, LF)) = Read(After(Start(env), t), LF)
    BY <2>1, AfterAppend
  <2> QED  BY <2>2
<1> QED  BY <1>5, <1>6, ReadComment


-----------------------------------------------------------------------------
(* How systemd reads a file *)

\* The line of some valid flag.
Setting(l) ==
  \E k \in Seq(Letters), v \in Seq(Chars) :
    k # <<>> /\ LF \notin ToSet(v) /\ l = Line(k, v)

\* Lines the updater or somebody else may have written.
Good == {l \in Seq(Chars) : IF Meaningful(l) THEN Setting(l) ELSE LF \notin ToSet(l)}

Sys(lines) == After(Start(NoFlags), Text(lines))

\* The last line of a file is read behind all the others.
LEMMA SysAppend ==
  /\ Sys(<<>>) = Start(NoFlags)
  /\ \A lines \in Seq(Seq(Chars)) : \A l \in Seq(Chars) :
       Sys(Append(lines, l)) = After(Sys(lines), Append(l, LF))
<1>1. Sys(<<>>) = Start(NoFlags)
  BY TextEmpty, AfterEmpty DEF Sys
<1>2. ASSUME NEW lines \in Seq(Seq(Chars)), NEW l \in Seq(Chars)
      PROVE  Sys(Append(lines, l)) = After(Sys(lines), Append(l, LF))
  <2> DEFINE t == Text(lines)
             e == Append(l, LF)
             s == Start(NoFlags)
  <2>1. t \in Seq(Chars) /\ Text(Append(lines, l)) = t \o e
    BY TextAppend
  <2>2. e \in Seq(Chars)
    BY Alphabet, AppendProperties
  <2> HIDE DEF t, e, s
  <2>3. After(s, t \o e) = After(After(s, t), e)
    BY <2>1, <2>2, AfterTexts
  <2> QED  BY <2>1, <2>3 DEF Sys, s, t, e
<1> QED  BY <1>1, <1>2

\* A good line leaves the parser at the start of a line; one that is no setting
\* changes nothing.
LEMMA GoodIsRead ==
  ASSUME NEW env, NEW l \in Good
  PROVE  /\ \E e : After(Start(env), Append(l, LF)) = Start(e)
         /\ ~Meaningful(l) => After(Start(env), Append(l, LF)) = Start(env)
<1>1. l \in Seq(Chars)
  BY DEF Good
<1>2. CASE Meaningful(l)
  <2>1. PICK k \in Seq(Letters), v \in Seq(Chars) :
               k # <<>> /\ LF \notin ToSet(v) /\ l = Line(k, v)
    BY <1>2 DEF Good, Setting
  <2>2. After(Start(env), Append(Line(k, v), LF)) = Start(With(env, k, v))
    BY <2>1, LineIsRead
  <2> QED  BY <1>2, <2>1, <2>2
<1>3. CASE ~Meaningful(l)
  <2>1. LF \notin ToSet(l)
    BY <1>3 DEF Good
  <2>2. After(Start(env), Append(l, LF)) = Start(env)
    BY <1>1, <1>3, <2>1, CommentIsRead
  <2> QED  BY <2>2
<1> QED  BY <1>2, <1>3

\* What systemd loads from a file it loads from its meaningful lines alone.
LEMMA CommentsAreIgnored ==
  ASSUME NEW lines \in Seq(Good)
  PROVE  Sys(lines) = Sys(StripComments(lines))
<1> DEFINE IsRead(t) == /\ \E env : Sys(t) = Start(env)
                        /\ Sys(t) = Sys(StripComments(t))
           P == {t \in Seq(Good) : IsRead(t)}
<1>1. <<>> \in P
  <2>1. StripComments(<<>>) = <<>>
    BY OnlyEmpty DEF StripComments
  <2> QED  BY <2>1, SysAppend, EmptySeq
<1>2. ASSUME NEW t \in P, NEW l \in Good PROVE Append(t, l) \in P
  <2>1. t \in Seq(Good) /\ IsRead(t) /\ l \in Seq(Chars)
    BY DEF Good
  <2> HIDE DEF P
  <2>2. t \in Seq(Seq(Chars)) /\ StripComments(t) \in Seq(Seq(Chars))
    <3>1. Good \subseteq Seq(Chars)
      BY DEF Good
    <3>2. t \in Seq(Seq(Chars))
      BY <2>1, <3>1, SeqMonotonic
    <3> QED  BY <3>2, OnlyType DEF StripComments
  <2>3. Append(t, l) \in Seq(Good)
    BY <2>1, AppendProperties
  <2>4. StripComments(Append(t, l)) =
          IF Meaningful(l) THEN Append(StripComments(t), l) ELSE StripComments(t)
    <3>1. l \in {x \in Seq(Chars) : Meaningful(x)} <=> Meaningful(l)
      BY <2>1
    <3> DEFINE M == {x \in Seq(Chars) : Meaningful(x)}
               F == Seq(Chars)
    <3> HIDE DEF M
    <3>2. \A s \in Seq(F), x \in F : Only(Append(s, x), M) =
            IF x \in M THEN Append(Only(s, M), x) ELSE Only(s, M)
      <4> HIDE DEF F
      <4> QED  BY OnlyAppend
    <3>3. Only(Append(t, l), M) =
            IF l \in M THEN Append(Only(t, M), l) ELSE Only(t, M)
      BY <2>1, <2>2, <3>2
    <3> QED  BY <3>1, <3>3 DEF StripComments, M
  <2>5. \A s \in Seq(Seq(Chars)) :
          Sys(Append(s, l)) = After(Sys(s), Append(l, LF))
    BY <2>1, SysAppend
  <2>6. PICK env : Sys(t) = Start(env)
    BY <2>1
  <2>7. Sys(Append(t, l)) = After(Start(env), Append(l, LF))
    BY <2>2, <2>5, <2>6
  <2>8. PICK e : After(Start(env), Append(l, LF)) = Start(e)
    BY GoodIsRead
  <2>9. Sys(Append(t, l)) = Sys(StripComments(Append(t, l)))
    <3>1. CASE Meaningful(l)
      BY <3>1, <2>1, <2>2, <2>4, <2>5
    <3>2. CASE ~Meaningful(l)
      <4>1. After(Start(env), Append(l, LF)) = Start(env)
        BY <3>2, GoodIsRead
      <4> QED  BY <3>2, <4>1, <2>1, <2>4, <2>6, <2>7
    <3> QED  BY <3>1, <3>2
  <2>10. IsRead(Append(t, l))
    BY <2>7, <2>8, <2>9
  <2> HIDE DEF IsRead
  <2> QED  BY <2>3, <2>10 DEF P
<1>3. P = Seq(Good)
  <2> HIDE DEF P
  <2>1. P \in SUBSET Seq(Good)
    BY DEF P
  <2> QED  BY <2>1, <1>1, <1>2, SeqSets
<1> QED  BY <1>3


-----------------------------------------------------------------------------
(* The file of the updater *)

\* Feature flags that have passed the validation.
AreValid(f) ==
  /\ f = [k \in DOMAIN f |-> f[k]]
  /\ \A k \in DOMAIN f : /\ k \in Seq(Letters) /\ k # <<>> /\ k \in ToSet(KeysInOrder)
                         /\ f[k] \in Seq(Chars) /\ LF \notin ToSet(f[k])

Lines(f, keys) == [i \in DOMAIN keys |-> Line(keys[i], f[keys[i]])]
Keys(f)        == Only(KeysInOrder, DOMAIN f)

\* The empty set of flags is valid.
LEMMA NoFlagsAreValid == AreValid(NoFlags) /\ DOMAIN NoFlags = {}
<1>1. DOMAIN NoFlags = {} /\ NoFlags = [k \in DOMAIN NoFlags |-> NoFlags[k]]
  BY EmptySeq DEF NoFlags
<1> QED  BY <1>1 DEF AreValid

\* validateFeatureFlags lets only valid flags pass (application.go:163-180).
LEMMA ValidationYieldsValid ==
  ASSUME NEW f \in Responses
  PROVE  AreValid(ValidFlags(f))
<1> DEFINE D == {x \in DOMAIN f : ValidKey(x) /\ LF \notin ToSet(f[x])}
<1>1. ASSUME NEW k \in D
      PROVE  /\ k \in Seq(Letters) /\ k # <<>> /\ k \in ToSet(KeysInOrder)
             /\ f[k] \in Seq(Chars) /\ LF \notin ToSet(f[k])
  <2>1. k \in Seq(Chars) /\ k \in ToSet(KeysInOrder) /\ f[k] \in Seq(Chars)
    BY EnvFormatAssumption
  <2>2. k # <<>> /\ k \in Seq(Letters)
    BY <2>1, SeqOfMembers DEF ValidKey
  <2> QED  BY <2>1, <2>2
<1> HIDE DEF D
<1>2. ValidFlags(f) = [k \in D |-> f[k]]
  BY DEF ValidFlags, D
<1> QED  BY <1>1, <1>2 DEF AreValid

\* stripComments keeps the line of a valid flag: it starts with a letter.
LEMMA SettingIsMeaningful ==
  ASSUME NEW k \in Seq(Letters), k # <<>>, NEW v \in Seq(Chars), LF \notin ToSet(v)
  PROVE  /\ Line(k, v) \in Good /\ Meaningful(Line(k, v))
         /\ Line(k, v) \in Seq(Chars)
<1> DEFINE w == IF NeedsQuoting(v) THEN <<DQ>> \o Escaped(v) \o <<DQ>> ELSE v
           q == <<"=">>
<1>1. w \in Seq(Chars)
  BY ValueIsRead
<1>2. Line(k, v) = (k \o q) \o w
  BY DEF Line
<1>3. q \in Seq(Chars)
  BY Alphabet
<1> HIDE DEF w, q
<1>4. k \in Seq(Chars) /\ Len(k) \in Nat \ {0} /\ k[1] \in Letters
  <2>1. Letters \subseteq Chars
    BY LettersAreChars
  <2> QED  BY <2>1, SeqMonotonic, EmptySeq, ElementOfSeq
<1>5. /\ k \o q \in Seq(Chars) /\ Len(k \o q) \in Nat \ {0}
      /\ (k \o q)[1] = k[1]
  <2>1. /\ k \o q \in Seq(Chars) /\ Len(k \o q) = Len(k) + Len(q)
        /\ \A i \in 1..(Len(k) + Len(q)) :
             (k \o q)[i] = IF i <= Len(k) THEN k[i] ELSE q[i - Len(k)]
    BY <1>3, <1>4, ConcatProperties
  <2> QED  BY <2>1, <1>3, <1>4, LenProperties
<1> DEFINE kq == k \o q
<1> HIDE DEF kq
<1>6. /\ kq \o w \in Seq(Chars) /\ 1 \in DOMAIN (kq \o w)
      /\ (kq \o w)[1] = k[1]
  <2>1. kq \in Seq(Chars) /\ Len(kq) \in Nat \ {0} /\ kq[1] = k[1]
    BY <1>5 DEF kq
  <2>2. /\ kq \o w \in Seq(Chars) /\ Len(kq \o w) = Len(kq) + Len(w)
        /\ \A i \in 1..(Len(kq) + Len(w)) :
             (kq \o w)[i] = IF i <= Len(kq) THEN kq[i] ELSE w[i - Len(kq)]
    BY <2>1, <1>1, ConcatProperties
  <2> QED  BY <2>1, <2>2, <1>1, LenProperties
<1>7. Line(k, v) \in Seq(Chars) /\ 1 \in DOMAIN Line(k, v) /\ Line(k, v)[1] \in Letters
  BY <1>2, <1>4, <1>6 DEF kq
<1>8. Meaningful(Line(k, v))
  <2>1. Letters \cap (Blank \cup {"#"}) = {}
    BY LettersAreChars
  <2>2. /\ 1 \in DOMAIN Line(k, v) /\ Line(k, v)[1] \notin Blank \cup {"#"}
        /\ \A j \in 1..(1 - 1) : Line(k, v)[j] \in Blank
    BY <1>7, <2>1
  <2> QED  BY <2>2 DEF Meaningful
<1>9. Setting(Line(k, v))
  BY DEF Setting
<1> QED  BY <1>7, <1>8, <1>9 DEF Good

\* Only keeps a sequence all of whose members are in S.
LEMMA OnlyAll ==
  ASSUME NEW S, NEW s \in Seq(S)
  PROVE  Only(s, S) = s
<1> DEFINE P == {t \in Seq(S) : Only(t, S) = t}
<1>1. <<>> \in P
  BY OnlyEmpty, EmptySeq
<1>2. ASSUME NEW t \in P, NEW e \in S PROVE Append(t, e) \in P
  <2>1. t \in Seq(S) /\ Only(t, S) = t
    OBVIOUS
  <2> HIDE DEF P
  <2>2. Append(t, e) \in Seq(S) /\ Only(Append(t, e), S) = Append(Only(t, S), e)
    <3>1. \A u \in Seq(S), x \in S :
            Append(u, x) \in Seq(S) /\ Only(Append(u, x), S) = Append(Only(u, S), x)
      BY OnlyAppend, AppendProperties
    <3> QED  BY <3>1, <2>1
  <2> QED  BY <2>1, <2>2 DEF P
<1>3. P = Seq(S)
  <2> HIDE DEF P
  <2>1. P \in SUBSET Seq(S)
    BY DEF P
  <2> QED  BY <2>1, <1>1, <1>2, SeqSets
<1> QED  BY <1>3

\* systemd sets the variable of every flag whose line it has read.
LEMMA LinesAreRead ==
  ASSUME NEW f, AreValid(f), NEW keys \in Seq(DOMAIN f)
  PROVE  /\ Lines(f, keys) \in Seq(Seq(Chars))
         /\ Sys(Lines(f, keys)) = Start([k \in ToSet(keys) |-> f[k]])
<1> DEFINE D == DOMAIN f
           IsRead(t) == /\ Lines(f, t) \in Seq(Seq(Chars))
                        /\ Sys(Lines(f, t)) = Start([k \in ToSet(t) |-> f[k]])
           P == {t \in Seq(D) : IsRead(t)}
<1>1. <<>> \in P
  <2>1. Lines(f, <<>>) = <<>> /\ [k \in ToSet(<<>>) |-> f[k]] = NoFlags
    <3>1. DOMAIN <<>> = {} /\ <<>> = [i \in {} |-> <<>>[i]]
      BY EmptySeq
    <3>2. ToSet(<<>>) = {}
      BY <3>1 DEF ToSet
    <3>3. Lines(f, <<>>) = <<>>
      BY <3>1 DEF Lines
    <3>4. [k \in {} |-> f[k]] = NoFlags
      BY <3>1 DEF NoFlags
    <3> QED  BY <3>2, <3>3, <3>4
  <2> QED  BY <2>1, SysAppend, EmptySeq
<1>2. ASSUME NEW t \in P, NEW k \in D PROVE Append(t, k) \in P
  <2>1. t \in Seq(D) /\ IsRead(t)
    OBVIOUS
  <2> HIDE DEF P
  <2> DEFINE w == Append(t, k)
             l == Line(k, f[k])
  <2>2. k \in Seq(Letters) /\ k # <<>> /\ f[k] \in Seq(Chars) /\ LF \notin ToSet(f[k])
    BY DEF AreValid
  <2>3. w \in Seq(D) /\ ToSet(w) = ToSet(t) \cup {k}
    BY <2>1, AppendProperties, MembersAppend
  <2>4. l \in Seq(Chars)
    BY <2>2, LineIsRead
  <2>5. Lines(f, w) = Append(Lines(f, t), l)
    <3> HIDE DEF D
    <3>1. /\ Len(t) \in Nat /\ DOMAIN t = 1..Len(t) /\ DOMAIN w = 1..(Len(t) + 1)
          /\ \A i \in 1..Len(t) : w[i] = t[i]
          /\ w[Len(t) + 1] = k
      <4>1. w \in Seq(D) /\ Len(w) = Len(t) + 1
        BY <2>1, AppendProperties
      <4> QED  BY <4>1, <2>1, LenProperties, AppendProperties
    <3> DEFINE a == Lines(f, t)
               b == Append(a, l)
               c == Lines(f, w)
    <3> HIDE DEF w
    <3>2. /\ a \in Seq(Seq(Chars)) /\ Len(a) = Len(t)
          /\ \A i \in 1..Len(t) : a[i] = Line(t[i], f[t[i]])
      <4>1. DOMAIN a = 1..Len(t) /\ \A i \in 1..Len(t) : a[i] = Line(t[i], f[t[i]])
        BY <3>1 DEF Lines
      <4>2. a \in Seq(Seq(Chars))
        BY <2>1
      <4> QED  BY <4>1, <4>2, <3>1, LenProperties
    <3>3. /\ DOMAIN c = 1..(Len(t) + 1) /\ c = [i \in DOMAIN c |-> c[i]]
          /\ \A i \in 1..Len(t) : c[i] = Line(t[i], f[t[i]])
          /\ c[Len(t) + 1] = l
      BY <3>1 DEF Lines
    <3> HIDE DEF a, c, l
    <3>4. /\ b \in Seq(Seq(Chars)) /\ Len(b) = Len(t) + 1
          /\ \A i \in 1..Len(t) : b[i] = a[i]
          /\ b[Len(t) + 1] = l
      BY <3>2, <2>4, AppendProperties
    <3>5. DOMAIN b = 1..(Len(t) + 1) /\ b = [i \in DOMAIN b |-> b[i]]
      BY <3>4, LenProperties
    <3> HIDE DEF b
    <3>6. ASSUME NEW i \in 1..(Len(t) + 1) PROVE b[i] = c[i]
      <4>1. CASE i = Len(t) + 1
        BY <4>1, <3>3, <3>4
      <4>2. CASE i # Len(t) + 1
        <5>1. i \in 1..Len(t)
          BY <4>2, <3>1
        <5> QED  BY <5>1, <3>2, <3>3, <3>4
      <4> QED  BY <4>1, <4>2
    <3>7. b = c
      BY <3>3, <3>5, <3>6
    <3> QED  BY <3>7 DEF a, b, c, w
  <2>6. Lines(f, w) \in Seq(Seq(Chars))
    BY <2>1, <2>4, <2>5, AppendProperties
  <2>7. Sys(Lines(f, w)) = After(Sys(Lines(f, t)), Append(l, LF))
    <3>1. \A s \in Seq(Seq(Chars)), x \in Seq(Chars) :
            Sys(Append(s, x)) = After(Sys(s), Append(x, LF))
      BY SysAppend
    <3> QED  BY <3>1, <2>1, <2>4, <2>5
  <2>8. With([x \in ToSet(t) |-> f[x]], k, f[k]) = [x \in ToSet(w) |-> f[x]]
    BY <2>3 DEF With
  <2>9. After(Start([x \in ToSet(t) |-> f[x]]), Append(l, LF))
          = Start(With([x \in ToSet(t) |-> f[x]], k, f[k]))
    BY <2>2, LineIsRead
  <2>10. IsRead(w)
    BY <2>1, <2>6, <2>7, <2>8, <2>9
  <2> HIDE DEF IsRead
  <2> QED  BY <2>3, <2>10 DEF P
<1>3. P = Seq(D)
  <2> HIDE DEF P
  <2>1. P \in SUBSET Seq(D)
    BY DEF P
  <2> QED  BY <2>1, <1>1, <1>2, SeqSets
<1> QED  BY <1>3


\* The file generated for valid flags is a file; without its comment it is their
\* lines, which systemd reads as those flags (application.go:124-146).
LEMMA GeneratedFile ==
  ASSUME NEW f, AreValid(f)
  PROVE  /\ Generate(f) \in Seq(Seq(Chars)) /\ Len(Generate(f)) \in 1..MaxLines
         /\ \A l \in ToSet(Generate(f)) : Meaningful(l) \/ LF \notin ToSet(l)
         /\ StripComments(Generate(f)) = Lines(f, Keys(f))
         /\ ToSet(Lines(f, Keys(f))) \subseteq Good
         /\ Sys(Lines(f, Keys(f))) = Start(f)
<1> DEFINE D == DOMAIN f
           M == {l \in Seq(Chars) : Meaningful(l)}
           lines == Lines(f, Keys(f))
           S == Seq(Chars)
<1>1. /\ Keys(f) \in Seq(D) /\ ToSet(Keys(f)) = D
      /\ Len(Keys(f)) <= Len(KeysInOrder) /\ Len(Keys(f)) \in Nat
  <2> HIDE DEF S
  <2>1. KeysInOrder \in Seq(Seq(Chars))
    BY EnvFormatAssumption
  <2>2. ToSet(Keys(f)) = ToSet(KeysInOrder) \cap D
    BY <2>1, OnlyMembers DEF Keys
  <2>3. D \subseteq ToSet(KeysInOrder)
    BY DEF AreValid
  <2>4. Keys(f) \in Seq(Seq(Chars)) /\ Len(Keys(f)) <= Len(KeysInOrder)
    BY <2>1, OnlyType, OnlyLen DEF Keys
  <2> QED  BY <2>2, <2>3, <2>4, SeqOfMembers, LenProperties
<1>2. lines \in Seq(S) /\ Sys(lines) = Start([k \in D |-> f[k]])
  BY <1>1, LinesAreRead
<1>3. f = [k \in D |-> f[k]]
  BY DEF AreValid
<1>4. /\ DOMAIN lines = 1..Len(Keys(f)) /\ Len(lines) = Len(Keys(f))
      /\ \A i \in 1..Len(Keys(f)) :
           lines[i] \in Good /\ lines[i] \in M /\ Meaningful(lines[i])
  <2>1. DOMAIN lines = 1..Len(Keys(f))
    BY <1>1, LenProperties DEF Lines
  <2>2. ASSUME NEW i \in 1..Len(Keys(f))
        PROVE  lines[i] \in Good /\ lines[i] \in M /\ Meaningful(lines[i])
    <3> DEFINE k == Keys(f)[i]
    <3>1. k \in D /\ lines[i] = Line(k, f[k])
      BY <1>1, LenProperties, ElementOfSeq DEF Lines
    <3>2. k \in Seq(Letters) /\ k # <<>> /\ f[k] \in Seq(Chars) /\ LF \notin ToSet(f[k])
      BY <3>1 DEF AreValid
    <3> HIDE DEF k
    <3> QED  BY <3>1, <3>2, SettingIsMeaningful
  <2>3. Len(lines) = Len(Keys(f))
    BY <1>1, <1>2, <2>1, LenProperties
  <2> QED  BY <2>1, <2>2, <2>3
<1>5. Generate(f) = <<Header>> \o lines
  BY DEF Generate, Lines, Keys
<1>6. Header \in S /\ ~Meaningful(Header) /\ LF \notin ToSet(Header)
  <2>1. Header \in S
    BY Alphabet DEF Header
  <2>2. ~Meaningful(Header)
    <3>1. /\ DOMAIN Header = {1, 2} /\ Header[1] = "#"
          /\ Header[1] \notin Blank /\ 1 \in 1..(2 - 1)
      BY DEF Header, Blank
    <3> QED  BY <3>1 DEF Meaningful
  <2>3. LF \notin ToSet(Header)
    BY DEF Header, ToSet, LF
  <2> QED  BY <2>1, <2>2, <2>3
<1> HIDE DEF lines, S
<1>7. /\ Generate(f) \in Seq(S) /\ Len(Generate(f)) = 1 + Len(lines)
      /\ ToSet(Generate(f)) = {Header} \cup ToSet(lines)
  <2>1. <<Header>> \in Seq(S) /\ Len(<<Header>>) = 1 /\ <<Header>>[1] = Header
    BY <1>6
  <2> DEFINE h == <<Header>>
  <2> HIDE DEF h
  <2>2. /\ h \o lines \in Seq(S) /\ Len(h \o lines) = 1 + Len(lines)
        /\ \A i \in 1..(1 + Len(lines)) :
             (h \o lines)[i] = IF i <= 1 THEN h[i] ELSE lines[i - 1]
    BY <1>2, <2>1, ConcatProperties DEF h
  <2> DEFINE g == h \o lines
  <2> HIDE DEF g
  <2>3. /\ g \in Seq(S) /\ DOMAIN g = 1..(1 + Len(lines)) /\ g[1] = Header
        /\ Len(lines) \in Nat /\ DOMAIN lines = 1..Len(lines)
        /\ \A i \in 1..Len(lines) : g[i + 1] = lines[i]
        /\ \A i \in 1..(1 + Len(lines)) :
             i = 1 \/ (i - 1 \in 1..Len(lines) /\ g[i] = lines[i - 1])
    BY <1>2, <2>1, <2>2, LenProperties DEF g, h
  <2>4. ToSet(g) = {Header} \cup ToSet(lines)
    <3>1. ASSUME NEW x \in ToSet(g) PROVE x \in {Header} \cup ToSet(lines)
      BY SMTT(30), <2>3 DEF ToSet
    <3>2. ASSUME NEW x \in ToSet(lines) PROVE x \in ToSet(g)
      <4>1. PICK i \in 1..Len(lines) : x = lines[i]
        BY <2>3 DEF ToSet
      <4>2. i + 1 \in 1..(1 + Len(lines)) /\ g[i + 1] = x
        BY <2>3, <4>1
      <4> QED  BY <2>3, <4>2 DEF ToSet
    <3>3. Header \in ToSet(g)
      BY <2>3 DEF ToSet
    <3> QED  BY <3>1, <3>2, <3>3
  <2> QED  BY <1>5, <2>2, <2>4 DEF g, h
<1>8. StripComments(Generate(f)) = lines
  <2>1. ToSet(lines) \subseteq M
    BY <1>4 DEF ToSet
  <2> HIDE DEF M
  <2>2. Only(lines, M) = lines
    BY <1>2, <2>1, SeqOfMembers, OnlyAll
  <2>3. Only(<<Header>>, M) = <<>>
    <3>1. Header \notin M
      BY <1>6 DEF M
    <3>2. <<>> \in Seq(S) /\ <<Header>> = Append(<<>>, Header)
      BY EmptySeq
    <3>3. \A u \in Seq(S), x \in S : x \notin M => Only(Append(u, x), M) = Only(u, M)
      BY OnlyAppend
    <3> QED  BY <1>6, <3>1, <3>2, <3>3, OnlyEmpty
  <2> DEFINE h == <<Header>>
  <2>4. h \in Seq(S)
    BY <1>6
  <2> HIDE DEF h
  <2>5. Only(h \o lines, M) = Only(h, M) \o Only(lines, M)
    BY <1>2, <2>4, OnlyConcat
  <2>6. Only(h \o lines, M) = lines
    BY <1>2, <2>2, <2>3, <2>5, ConcatEmptySeq DEF h
  <2> QED  BY <1>5, <2>6 DEF StripComments, M, h, S
<1>9. ToSet(lines) \subseteq Good /\ \A l \in ToSet(lines) : Meaningful(l)
  BY <1>4 DEF ToSet
<1>10. Len(Generate(f)) \in 1..MaxLines
  <2>1. MaxLines \in Nat /\ Len(KeysInOrder) < MaxLines /\ Len(KeysInOrder) \in Nat
    BY EnvFormatAssumption, LenProperties
  <2> QED  BY <2>1, <1>1, <1>4, <1>7
<1> QED  BY <1>2, <1>3, <1>6, <1>7, <1>8, <1>9, <1>10 DEF lines, S


\* Lines that are no settings have no end of line in them.
Quiet(lines) == \A l \in ToSet(lines) : Meaningful(l) \/ LF \notin ToSet(l)

\* A file that differs from what the updater would write in comments alone.
LEMMA CurrentFileIsRead ==
  ASSUME NEW f, AreValid(f), NEW lines \in Seq(Seq(Chars)), Quiet(lines),
         StripComments(lines) = StripComments(Generate(f))
  PROVE  Sys(lines) = Start(f)
<1> DEFINE S == Seq(Chars)
           M == {l \in S : Meaningful(l)}
           kept == Lines(f, Keys(f))
<1>1. /\ StripComments(lines) = kept /\ ToSet(kept) \subseteq Good
      /\ Sys(kept) = Start(f)
  BY GeneratedFile
<1>2. ToSet(kept) = ToSet(lines) \cap M
  <2>1. StripComments(lines) = Only(lines, M)
    BY DEF StripComments
  <2> HIDE DEF M, kept
  <2>2. ToSet(Only(lines, M)) = ToSet(lines) \cap M
    <3>1. lines \in Seq(S)
      OBVIOUS
    <3> HIDE DEF S
    <3> QED  BY <3>1, OnlyMembers
  <2> QED  BY <1>1, <2>1, <2>2
<1>3. lines \in Seq(Good)
  <2>1. ToSet(lines) \subseteq S
    BY LenProperties, ElementOfSeq DEF ToSet
  <2>2. ToSet(lines) \subseteq Good
    BY <1>1, <1>2, <2>1 DEF Good, Quiet
  <2> QED  BY <2>2, SeqOfMembers
<1> QED  BY <1>1, <1>3, CommentsAreIgnored

\* A comment that is added does not change what the updater compares.
LEMMA AddedLine ==
  ASSUME NEW lines \in Seq(Seq(Chars)), NEW i \in 1..(Len(lines) + 1),
         NEW l \in Seq(Chars)
  PROVE  /\ InsertAt(lines, i, l) \in Seq(Seq(Chars))
         /\ Len(InsertAt(lines, i, l)) = Len(lines) + 1
         /\ ToSet(InsertAt(lines, i, l)) \subseteq ToSet(lines) \cup {l}
         /\ ~Meaningful(l) =>
              StripComments(InsertAt(lines, i, l)) = StripComments(lines)
<1> DEFINE S == Seq(Chars)
           M == {x \in S : Meaningful(x)}
           n == Len(lines)
           a == SubSeq(lines, 1, i - 1)
           b == SubSeq(lines, i, n)
           m == <<l>>
<1>1. /\ n \in Nat /\ DOMAIN lines = 1..n /\ i \in 1..(n + 1)
      /\ \A j \in 1..n : lines[j] \in S
  BY LenProperties, ElementOfSeq
<1>2. InsertAt(lines, i, l) = (a \o m) \o b
  BY DEF InsertAt
<1>3. l \in M <=> Meaningful(l)
  OBVIOUS
<1>4. lines \in Seq(S) /\ l \in S
  OBVIOUS
<1>5. \A s : StripComments(s) = Only(s, M)
  BY DEF StripComments
<1> HIDE DEF S, M
<1>6. /\ a \in Seq(S) /\ Len(a) = i - 1
      /\ \A j \in 1..(i - 1) : a[j] = lines[j]
  <2>1. \A j \in 1..(i - 1) : lines[j] \in S
    BY <1>1
  <2>2. /\ a \in Seq(S) /\ Len(a) = IF 1 <= i - 1 THEN i - 1 - 1 + 1 ELSE 0
        /\ \A j \in 1..(i - 1 - 1 + 1) : a[j] = lines[1 + j - 1]
    BY <1>1, <2>1, SubSeqProperties
  <2> QED  BY <1>1, <2>2
<1>7. /\ b \in Seq(S) /\ Len(b) = n - i + 1
      /\ \A j \in 1..(n - i + 1) : b[j] = lines[i + j - 1]
  <2>1. \A j \in i..n : lines[j] \in S
    BY <1>1
  <2>2. /\ b \in Seq(S) /\ Len(b) = IF i <= n THEN n - i + 1 ELSE 0
        /\ \A j \in 1..(n - i + 1) : b[j] = lines[i + j - 1]
    BY <1>1, <2>1, SubSeqProperties
  <2> QED  BY <1>1, <2>2
<1>8. lines = a \o b
  <2>1. a \o SubSeq(lines, i - 1 + 1, n) = SubSeq(lines, 1, n)
    <3>1. 1 \in 1..(n + 1) /\ i - 1 \in (1 - 1)..n /\ n \in (i - 1)..n
      BY <1>1
    <3> QED  BY <1>4, <3>1, ConcatAdjacentSubSeq
  <2>2. SubSeq(lines, 1, n) = lines /\ i - 1 + 1 = i
    BY <1>1, <1>4, SubSeqFull
  <2> QED  BY <2>1, <2>2
<1>9. m \in Seq(S) /\ Len(m) = 1 /\ m[1] = l
  BY <1>4
<1> HIDE DEF a, b, m, n
<1>10. /\ a \o m \in Seq(S) /\ Len(a \o m) = i
       /\ \A j \in 1..i : (a \o m)[j] = IF j <= i - 1 THEN a[j] ELSE m[j - (i - 1)]
  <2>1. /\ a \o m \in Seq(S) /\ Len(a \o m) = Len(a) + Len(m)
        /\ \A j \in 1..(Len(a) + Len(m)) :
             (a \o m)[j] = IF j <= Len(a) THEN a[j] ELSE m[j - Len(a)]
    BY <1>6, <1>9, ConcatProperties
  <2>2. Len(a) + Len(m) = i
    BY <1>1, <1>6, <1>9
  <2> QED  BY <1>6, <2>1, <2>2
<1> DEFINE am == a \o m
<1> HIDE DEF am
<1>11. /\ am \in Seq(S) /\ Len(am) = i
       /\ \A j \in 1..i : am[j] = IF j <= i - 1 THEN a[j] ELSE m[j - (i - 1)]
  BY <1>10 DEF am
<1>12. /\ am \o b \in Seq(S) /\ Len(am \o b) = n + 1
       /\ \A j \in 1..(n + 1) : (am \o b)[j] = IF j <= i THEN am[j] ELSE b[j - i]
  <2>1. /\ am \o b \in Seq(S) /\ Len(am \o b) = Len(am) + Len(b)
        /\ \A j \in 1..(Len(am) + Len(b)) :
             (am \o b)[j] = IF j <= Len(am) THEN am[j] ELSE b[j - Len(am)]
    BY <1>7, <1>11, ConcatProperties
  <2>2. Len(am) + Len(b) = n + 1
    BY <1>1, <1>7, <1>11
  <2> QED  BY <1>11, <2>1, <2>2
<1>13. ASSUME NEW x \in ToSet(am \o b) PROVE x \in ToSet(lines) \cup {l}
  <2>1. PICK j \in 1..(n + 1) : x = (am \o b)[j]
    BY <1>12, LenProperties DEF ToSet
  <2>2. CASE j < i
    <3>1. x = lines[j] /\ j \in DOMAIN lines
      <4>1. j \in 1..(n + 1) /\ j \in 1..i /\ j \in 1..(i - 1) /\ j \in 1..n
        BY <2>2, <1>1
      <4>2. x = am[j] /\ am[j] = a[j] /\ a[j] = lines[j]
        BY <2>1, <4>1, <1>1, <1>6, <1>11, <1>12
      <4> QED  BY <4>1, <4>2, <1>1
    <3> QED  BY <3>1 DEF ToSet
  <2>3. CASE j = i
    <3>1. x = l
      BY <2>1, <2>3, <1>1, <1>9, <1>11, <1>12
    <3> QED  BY <3>1
  <2>4. CASE j > i
    <3>1. j - i \in 1..(n - i + 1) /\ i + (j - i) - 1 = j - 1
      BY <2>1, <2>4, <1>1
    <3>2. x = b[j - i] /\ b[j - i] = lines[j - 1]
      BY <2>1, <2>4, <3>1, <1>7, <1>12
    <3>3. j - 1 \in DOMAIN lines
      BY <2>1, <2>4, <1>1
    <3> QED  BY <3>2, <3>3 DEF ToSet
  <2>5. j < i \/ j = i \/ j > i
    BY <1>1
  <2> QED  BY <2>2, <2>3, <2>4, <2>5
<1>14. ASSUME ~Meaningful(l) PROVE Only(am \o b, M) = Only(lines, M)
  <2>1. Only(m, M) = <<>>
    <3>1. \A u \in Seq(S), x \in S : x \notin M => Only(Append(u, x), M) = Only(u, M)
      BY OnlyAppend
    <3>2. <<>> \in Seq(S) /\ m = Append(<<>>, l)
      BY EmptySeq DEF m
    <3> QED  BY <1>3, <1>4, <1>14, <3>1, <3>2, OnlyEmpty
  <2>2. \A s, t \in Seq(S) : Only(s \o t, M) = Only(s, M) \o Only(t, M)
    BY OnlyConcat
  <2>3. \A s \in Seq(S) : Only(s, M) \in Seq(S)
    BY OnlyType
  <2>4. Only(am, M) = Only(a, M)
    <3>1. Only(a \o m, M) = Only(a, M) \o Only(m, M)
      BY <1>6, <1>9, <2>2
    <3>2. Only(a, M) \o <<>> = Only(a, M)
      BY <1>6, <2>3, ConcatEmptySeq
    <3> QED  BY <2>1, <3>1, <3>2 DEF am
  <2>5. Only(am \o b, M) = Only(am, M) \o Only(b, M)
    BY <1>7, <1>11, <2>2
  <2>6. Only(a \o b, M) = Only(a, M) \o Only(b, M)
    BY <1>6, <1>7, <2>2
  <2> QED  BY <1>8, <2>4, <2>5, <2>6
<1>15. InsertAt(lines, i, l) = am \o b
  BY <1>2 DEF am
<1> QED  BY <1>5, <1>12, <1>13, <1>14, <1>15 DEF S, n


-----------------------------------------------------------------------------
(* The invariant *)

FileType ==
  file # Absent =>
    /\ file \in Seq(Seq(Chars)) /\ Len(file) \in 1..MaxLines
    /\ Quiet(file)

FlagsType ==
  /\ flags \in {ValidFlags(f) : f \in Responses} \cup {NoFlags}
  /\ polled \in BOOLEAN /\ noted \in BOOLEAN

\* As long as nobody has added but comments, the lines the updater compares are
\* those it would write for the flags it has.
FileIsCurrent == noted => Existing = StripComments(Generate(flags))

IInv == FileType /\ FlagsType /\ FileIsCurrent

\* All flags of the model are valid.
LEMMA FlagsAreValid ==
  ASSUME NEW f \in {ValidFlags(g) : g \in Responses} \cup {NoFlags}
  PROVE  AreValid(f)
<1>1. CASE f = NoFlags
  BY <1>1, NoFlagsAreValid
<1>2. CASE f # NoFlags
  <2>1. PICK g \in Responses : f = ValidFlags(g)
    BY <1>2
  <2> QED  BY <2>1, ValidationYieldsValid
<1> QED  BY <1>1, <1>2

\* The lines of two different sets of flags differ, so that comparing lines tells
\* whether the flags have changed (application.go:209).
THEOREM LinesTellFlagsApart ==
  ASSUME NEW f, AreValid(f), NEW g, AreValid(g),
         StripComments(Generate(f)) = StripComments(Generate(g))
  PROVE  f = g
<1>1. Start(f) = Start(g)
  BY GeneratedFile
<1> QED  BY <1>1 DEF Start, At

\* Only the empty set of flags has no lines.
LEMMA NoLines ==
  ASSUME NEW f, AreValid(f)
  PROVE  StripComments(Generate(f)) = <<>> <=> f = NoFlags
<1>1. /\ StripComments(Generate(f)) = Lines(f, Keys(f))
      /\ Sys(Lines(f, Keys(f))) = Start(f)
  BY GeneratedFile
<1>2. ASSUME Lines(f, Keys(f)) = <<>> PROVE f = NoFlags
  <2>1. Start(f) = Start(NoFlags)
    BY <1>1, <1>2, SysAppend
  <2> QED  BY <2>1 DEF Start, At
<1>3. ASSUME f = NoFlags PROVE Lines(f, Keys(f)) = <<>>
  <2>1. KeysInOrder \in Seq(Seq(Chars)) /\ DOMAIN f = {}
    BY <1>3, NoFlagsAreValid, EnvFormatAssumption
  <2> DEFINE S == Seq(Chars)
  <2> HIDE DEF S
  <2>2. KeysInOrder \in Seq(S)
    BY <2>1 DEF S
  <2>3. Keys(f) \in Seq(S) /\ ToSet(Keys(f)) = {}
    BY <2>1, <2>2, OnlyType, OnlyMembers DEF Keys
  <2>4. DOMAIN Keys(f) = {}
    BY <2>3 DEF ToSet
  <2>5. DOMAIN <<>> = {} /\ <<>> = [i \in {} |-> <<>>[i]]
    BY EmptySeq
  <2> QED  BY <2>4, <2>5 DEF Lines
<1> QED  BY <1>1, <1>2, <1>3

\* The initial state satisfies the invariant.
LEMMA InitIsFine == Init => IInv
<1> SUFFICES ASSUME Init PROVE IInv
  OBVIOUS
<1>1. FileType /\ FlagsType
  BY DEF Init, FileType, FlagsType
<1>2. Existing = <<>> /\ flags = NoFlags
  BY DEF Init, Existing
<1>3. FileIsCurrent
  BY <1>2, NoLines, NoFlagsAreValid DEF FileIsCurrent
<1> QED  BY <1>1, <1>3 DEF IInv

\* Every poll, every line somebody adds and the removal of the file keep it.
LEMMA NextKeepsInvariant == IInv /\ [Next]_vars => IInv'
<1> SUFFICES ASSUME IInv, [Next]_vars PROVE IInv'
  OBVIOUS
<1>1. FileType /\ FlagsType /\ FileIsCurrent
  BY DEF IInv
<1>2. ASSUME NEW f \in Responses, Poll(f) PROVE IInv'
  <2> DEFINE valid == ValidFlags(f)
             new   == Generate(valid)
  <2>1. /\ file' = IF \/ valid = NoFlags /\ Existing = <<>>
                      \/ Existing = StripComments(new) THEN file ELSE new
        /\ flags' = valid /\ polled' = TRUE /\ noted' = TRUE
    BY <1>2 DEF Poll
  <2>2. AreValid(valid)
    BY ValidationYieldsValid
  <2>3. valid \in {ValidFlags(g) : g \in Responses} \cup {NoFlags}
    OBVIOUS
  <2>4. /\ new \in Seq(Seq(Chars)) /\ Len(new) \in 1..MaxLines /\ Quiet(new)
        /\ new # Absent
    BY <2>2, GeneratedFile, EnvFormatAssumption DEF Quiet
  <2>5. valid = NoFlags => StripComments(new) = <<>>
    BY <2>2, NoLines
  <2> HIDE DEF valid, new
  <2>6. FileType'
    BY <2>1, <2>4, <1>1 DEF FileType, Quiet
  <2>7. FlagsType'
    BY <2>1, <2>3 DEF FlagsType
  <2>8. Existing' = StripComments(new)
    <3>1. CASE file' = new
      BY <3>1, <2>4 DEF Existing
    <3>2. CASE file' # new
      BY <3>2, <2>1, <2>5 DEF Existing
    <3> QED  BY <3>1, <3>2
  <2>9. FileIsCurrent'
    BY <2>1, <2>8 DEF FileIsCurrent, new
  <2> QED  BY <2>6, <2>7, <2>9 DEF IInv
<1>3. ASSUME NEW l \in Additions, NEW i \in 1..MaxLines, AddLine(i, l) PROVE IInv'
  <2>1. /\ file # Absent /\ Len(file) < MaxLines /\ i \in 1..(Len(file) + 1)
        /\ file' = InsertAt(file, i, l) /\ polled' = FALSE
        /\ noted' = (noted /\ ~Meaningful(l)) /\ flags' = flags
    BY <1>3 DEF AddLine
  <2>2. /\ file \in Seq(Seq(Chars)) /\ Len(file) \in 1..MaxLines /\ Quiet(file)
        /\ MaxLines \in Nat
    BY <1>1, <2>1, EnvFormatAssumption DEF FileType
  <2>3. l \in Seq(Chars) /\ LF \notin ToSet(l)
    BY EnvFormatAssumption
  <2>4. /\ file' \in Seq(Seq(Chars)) /\ Len(file') = Len(file) + 1
        /\ ToSet(file') \subseteq ToSet(file) \cup {l}
        /\ ~Meaningful(l) => StripComments(file') = StripComments(file)
    BY <2>1, <2>2, <2>3, AddedLine
  <2>5. FileType'
    <3>1. Quiet(file)'
      BY <2>2, <2>3, <2>4 DEF Quiet
    <3>2. Len(file') \in 1..MaxLines
      BY <2>1, <2>2, <2>4
    <3> QED  BY <2>4, <3>1, <3>2 DEF FileType
  <2>6. FlagsType'
    BY <2>1, <1>1 DEF FlagsType
  <2>7. file' # Absent
    BY <2>4, EnvFormatAssumption
  <2>8. FileIsCurrent'
    BY <2>1, <2>4, <2>7, <1>1 DEF FileIsCurrent, Existing
  <2> QED  BY <2>5, <2>6, <2>8 DEF IInv
<1>4. ASSUME RemoveFile PROVE IInv'
  BY <1>1, <1>4 DEF RemoveFile, IInv, FileType, FlagsType, FileIsCurrent
<1>5. ASSUME UNCHANGED vars PROVE IInv'
  BY <1>1, <1>5
     DEF vars, IInv, FileType, FlagsType, FileIsCurrent, Quiet, Existing
<1> QED  BY <1>2, <1>3, <1>4, <1>5 DEF Next

\* The invariant holds in every state.
LEMMA InvariantHolds == Spec => []IInv
  BY InitIsFine, NextKeepsInvariant, PTL DEF Spec

\* The file never grows beyond its bound and the flags are always those of some
\* response that passed the validation.
THEOREM TypeCorrect == Spec => []TypeOK
<1>1. IInv => TypeOK
  BY DEF IInv, FileType, FlagsType, TypeOK
<1> QED  BY <1>1, InvariantHolds, PTL

\* Whatever the keys and the values are, systemd loads exactly the valid flags of
\* the last response from the file, as long as nobody has added but comments
\* (application.go:111-209).
THEOREM LoadsTheFlags == Spec => []LoadsExactly
<1>1. IInv => LoadsExactly
  <2> SUFFICES ASSUME IInv, noted PROVE Load(file) = flags
    BY DEF LoadsExactly
  <2>1. AreValid(flags) /\ Existing = StripComments(Generate(flags))
    BY FlagsAreValid DEF IInv, FlagsType, FileIsCurrent
  <2>2. CASE file = Absent
    <3>1. flags = NoFlags
      BY <2>1, <2>2, NoLines DEF Existing
    <3> QED  BY <3>1, <2>2 DEF Load
  <2>3. CASE file # Absent
    <3>1. file \in Seq(Seq(Chars)) /\ Quiet(file)
      BY <2>3 DEF IInv, FileType
    <3>2. StripComments(file) = StripComments(Generate(flags))
      BY <2>1, <2>3 DEF Existing
    <3>3. Sys(file) = Start(flags)
      BY <2>1, <3>1, <3>2, CurrentFileIsRead
    <3>4. LineStart = Start(NoFlags)
      BY DEF LineStart, Start, At
    <3>5. Load(file) = Sys(file).env
      BY <2>3, <3>4 DEF Load, Sys
    <3> QED  BY <3>3, <3>5 DEF Start, At
  <2> QED  BY <2>2, <2>3
<1> QED  BY <1>1, InvariantHolds, PTL

\* A poll that finds the same valid flags never writes the file, whatever comments
\* were added (application.go:148-161, :203-215).
THEOREM SameFlagsAreStable == Spec => PollIsStable
<1>1. IInv /\ [Next]_vars => [polled' /\ noted /\ flags' = flags => file' = file]_vars
  <2> SUFFICES ASSUME IInv, Next, polled', noted, flags' = flags
               PROVE  file' = file
    OBVIOUS
  <2>1. Existing = StripComments(Generate(flags))
    BY DEF IInv, FileIsCurrent
  <2>2. ASSUME NEW f \in Responses, Poll(f) PROVE file' = file
    BY <2>1, <2>2 DEF Poll
  <2>3. ASSUME NEW l \in Additions, NEW i \in 1..MaxLines, AddLine(i, l)
        PROVE  file' = file
    BY <2>3 DEF AddLine
  <2>4. ASSUME RemoveFile PROVE file' = file
    BY <2>4 DEF RemoveFile
  <2> QED  BY <2>2, <2>3, <2>4 DEF Next
<1> QED  BY <1>1, InvariantHolds, PTL DEF Spec, PollIsStable

=============================================================================
