--------------------------- MODULE FramedLogProofs ---------------------------
(***************************************************************************)
(* Theorems about FramedLog.                                               *)
(***************************************************************************)
EXTENDS FramedLog, SequenceTheorems, WellFoundedInduction, TLAPS

\* For its induction over the natural numbers.
Numbers == INSTANCE ReviewGraphProofs

-----------------------------------------------------------------------------
(* Sequences, whatever their elements. *)

IsSeq(s) == Len(s) \in Nat /\ s = [i \in 1 .. Len(s) |-> s[i]]

LEMMA SeqIs ==
    ASSUME NEW s
    PROVE  (IsSeq(s) => s \in Seq({s[i] : i \in 1 .. Len(s)})) /\ \A S : s \in Seq(S) => IsSeq(s)
BY SeqDef, LenProperties DEF IsSeq

LEMMA FunctionIs ==
    ASSUME NEW n \in Nat, NEW s, s = [i \in 1 .. n |-> s[i]]
    PROVE  IsSeq(s) /\ Len(s) = n
<1>1. s \in [1 .. n -> {s[i] : i \in 1 .. n}]
  OBVIOUS
<1>2. s \in Seq({s[i] : i \in 1 .. n})
  BY <1>1, SeqDef
<1> QED
  BY <1>1, <1>2, LenProperties DEF IsSeq

LEMMA AppendIs ==
    ASSUME NEW s, IsSeq(s), NEW x
    PROVE  /\ IsSeq(Append(s, x)) /\ Len(Append(s, x)) = Len(s) + 1
           /\ Append(s, x)[Len(s) + 1] = x
           /\ \A i \in 1 .. Len(s) : Append(s, x)[i] = s[i]
<1> DEFINE S == {s[i] : i \in 1 .. Len(s)} \cup {x}
<1>1. s \in Seq(S)
  BY SeqDef DEF IsSeq
<1> HIDE DEF S
<1>2. x \in S
  BY DEF S
<1>3. /\ Append(s, x) \in Seq(S) /\ Len(Append(s, x)) = Len(s) + 1
      /\ Append(s, x)[Len(s) + 1] = x
      /\ \A i \in 1 .. Len(s) : Append(s, x)[i] = s[i]
  BY <1>1, <1>2, AppendProperties
<1> QED
  BY <1>3, SeqIs

LEMMA TailIs ==
    ASSUME NEW s, IsSeq(s), s # <<>>
    PROVE  /\ Len(s) >= 1 /\ Head(s) = s[1] /\ IsSeq(Tail(s)) /\ Len(Tail(s)) = Len(s) - 1
           /\ \A i \in 1 .. Len(s) - 1 : Tail(s)[i] = s[i + 1]
<1> DEFINE S == {s[i] : i \in 1 .. Len(s)}
<1>1. s \in Seq(S)
  BY SeqIs
<1> HIDE DEF S
<1>2. /\ Head(s) = s[1] /\ Tail(s) \in Seq(S) /\ Len(Tail(s)) = Len(s) - 1
      /\ \A i \in 1 .. Len(Tail(s)) : Tail(s)[i] = s[i + 1]
  BY <1>1, HeadTailProperties
<1>3. Len(s) >= 1
  BY <1>1, EmptySeq DEF IsSeq
<1> QED
  BY <1>2, <1>3, SeqIs

LEMMA PrefixIs ==
    ASSUME NEW s, IsSeq(s), NEW n \in 0 .. Len(s)
    PROVE  /\ IsSeq(SubSeq(s, 1, n)) /\ Len(SubSeq(s, 1, n)) = n
           /\ \A i \in 1 .. n : SubSeq(s, 1, n)[i] = s[i]
<1> DEFINE S == {s[i] : i \in 1 .. Len(s)}
           t == SubSeq(s, 1, n)
<1>1. s \in Seq(S)
  BY SeqIs
<1> HIDE DEF S
<1>2. t \in Seq(S) /\ Len(t) = n /\ \A i \in 1 .. n : t[i] = s[i]
  <2>1. n \in Nat /\ n <= Len(s) /\ Len(s) \in Nat
    BY DEF IsSeq
  <2> QED
    BY <1>1, <2>1, SubSeqProperties
<1> QED
  BY <1>2, SeqIs

LEMMA SameSeq ==
    ASSUME NEW s, IsSeq(s), NEW t, IsSeq(t), Len(s) = Len(t), \A i \in 1 .. Len(s) : s[i] = t[i]
    PROVE  s = t
BY DEF IsSeq

Joins(u, s, t) ==
    /\ IsSeq(u) /\ Len(u) = Len(s) + Len(t)
    /\ \A i \in 1 .. Len(s) : u[i] = s[i]
    /\ \A i \in 1 .. Len(t) : u[Len(s) + i] = t[i]

LEMMA ConcatIs ==
    ASSUME NEW s, IsSeq(s), NEW t, IsSeq(t)
    PROVE  Joins(s \o t, s, t)
<1> DEFINE S == {s[i] : i \in 1 .. Len(s)} \cup {t[i] : i \in 1 .. Len(t)}
<1>1. s \in Seq(S) /\ t \in Seq(S)
  BY SeqDef DEF IsSeq
<1> HIDE DEF S
<1>2. /\ s \o t \in Seq(S) /\ Len(s \o t) = Len(s) + Len(t)
      /\ \A i \in 1 .. Len(s) + Len(t) : (s \o t)[i] = IF i <= Len(s) THEN s[i] ELSE t[i - Len(s)]
  BY <1>1, ConcatProperties
<1>3. \A i \in 1 .. Len(s) : (s \o t)[i] = s[i]
  BY <1>2 DEF IsSeq
<1>4. \A i \in 1 .. Len(t) : (s \o t)[Len(s) + i] = t[i]
  <2>1. \A i \in 1 .. Len(t) : Len(s) + i \in 1 .. Len(s) + Len(t) /\ ~(Len(s) + i <= Len(s)) /\ Len(s) + i - Len(s) = i
    BY DEF IsSeq
  <2> QED
    BY <1>2, <2>1
<1> QED
  BY <1>2, <1>3, <1>4, SeqIs DEF Joins

LEMMA EmptyIs == IsSeq(<<>>) /\ Len(<<>>) = 0
<1>1. <<>> = [i \in 1 .. 0 |-> <<>>[i]]
  OBVIOUS
<1> QED
  BY <1>1, FunctionIs

LEMMA SingleIs ==
    ASSUME NEW x
    PROVE  IsSeq(<<x>>) /\ Len(<<x>>) = 1 /\ <<x>>[1] = x /\ <<x>> # <<>>
<1>1. <<x>> = [i \in 1 .. 1 |-> <<x>>[i]] /\ <<x>>[1] = x /\ <<x>> # <<>>
  OBVIOUS
<1> QED
  BY <1>1, FunctionIs

LEMMA ConsIs ==
    ASSUME NEW s, IsSeq(s), NEW x
    PROVE  /\ IsSeq(<<x>> \o s) /\ Len(<<x>> \o s) = Len(s) + 1
           /\ (<<x>> \o s)[1] = x /\ \A i \in 1 .. Len(s) : (<<x>> \o s)[i + 1] = s[i]
<1> DEFINE t == <<x>>
<1>1. IsSeq(t) /\ Len(t) = 1 /\ t[1] = x
  BY SingleIs
<1> DEFINE u == t \o s
<1> HIDE DEF t
<1>2. Joins(u, t, s)
  BY <1>1, ConcatIs
<1> HIDE DEF u
<1>10. 1 \in 1 .. Len(t)
  BY <1>1
<1>11. /\ IsSeq(u) /\ Len(u) = 1 + Len(s)
      /\ u[1] = x /\ \A i \in 1 .. Len(s) : u[1 + i] = s[i]
  BY <1>1, <1>2, <1>10 DEF Joins
<1>3. 1 + Len(s) = Len(s) + 1 /\ \A i \in 1 .. Len(s) : 1 + i = i + 1
  BY DEF IsSeq
<1>4. /\ IsSeq(u) /\ Len(u) = Len(s) + 1 /\ u[1] = x /\ \A i \in 1 .. Len(s) : u[i + 1] = s[i]
  BY <1>3, <1>11
<1> QED
  BY <1>4 DEF t, u

-----------------------------------------------------------------------------
(* Files and what is read of them. *)

\* The first pieces of a file are these records, of which every second ends a line.
Holds(pieces, records) ==
    /\ Len(pieces) >= 2 * Len(records)
    /\ \A i \in 1 .. Len(records) :
         /\ pieces[2 * i] = [record |-> records[i], ends |-> TRUE]
         /\ pieces[2 * i - 1] = [record |-> records[i], ends |-> FALSE]

LEMMA PiecesAre ==
    ASSUME NEW records, IsSeq(records)
    PROVE  IsSeq(Pieces(records)) /\ Len(Pieces(records)) = 2 * Len(records) /\ Holds(Pieces(records), records)
<1> DEFINE n == Len(records)
           p == Pieces(records)
<1>1. n \in Nat /\ 2 * n \in Nat
  BY DEF IsSeq
<1>2. /\ p = [i \in 1 .. 2 * n |-> p[i]]
      /\ \A i \in 1 .. 2 * n : p[i] = [record |-> records[(i + 1) \div 2], ends |-> i % 2 = 0]
  BY DEF Pieces
<1> HIDE DEF p
<1>3. IsSeq(p) /\ Len(p) = 2 * n
  BY <1>1, <1>2, FunctionIs
<1>4. ASSUME NEW i \in 1 .. n
      PROVE  /\ p[2 * i] = [record |-> records[i], ends |-> TRUE]
             /\ p[2 * i - 1] = [record |-> records[i], ends |-> FALSE]
  <2> HIDE DEF n
  <2>1. i \in Nat /\ 2 * i \in 1 .. 2 * n /\ 2 * i - 1 \in 1 .. 2 * n
    BY <1>1
  <2>2. (2 * i + 1) \div 2 = i /\ (2 * i - 1 + 1) \div 2 = i /\ (2 * i) % 2 = 0 /\ (2 * i - 1) % 2 = 1
    BY <2>1
  <2>3. /\ p[2 * i] = [record |-> records[(2 * i + 1) \div 2], ends |-> (2 * i) % 2 = 0]
        /\ p[2 * i - 1] = [record |-> records[(2 * i - 1 + 1) \div 2], ends |-> (2 * i - 1) % 2 = 0]
    BY <1>2, <2>1
  <2>4. ((2 * i) % 2 = 0) = TRUE /\ ((2 * i - 1) % 2 = 0) = FALSE
    BY <2>2
  <2> QED
    BY <2>2, <2>3, <2>4
<1> QED
  BY <1>1, <1>3, <1>4 DEF Holds, p

\* A record that is appended in two pieces.
LEMMA PiecesGrow ==
    ASSUME NEW records, IsSeq(records), NEW record
    PROVE  LET half == Append(Pieces(records), [record |-> record, ends |-> FALSE])
           IN  Append(half, [record |-> record, ends |-> TRUE]) = Pieces(Append(records, record))
<1> DEFINE n == Len(records)
           old == Pieces(records)
           half == Append(old, [record |-> record, ends |-> FALSE])
           full == Append(half, [record |-> record, ends |-> TRUE])
           longer == Append(records, record)
           new == Pieces(longer)
<1>0. n \in Nat
  BY DEF IsSeq
<1>1. IsSeq(longer) /\ Len(longer) = n + 1 /\ longer[n + 1] = record /\ \A i \in 1 .. n : longer[i] = records[i]
  BY AppendIs
<1>2. IsSeq(old) /\ Len(old) = 2 * n /\ Holds(old, records)
  BY PiecesAre
<1> HIDE DEF longer, old
<1>3. /\ IsSeq(half) /\ Len(half) = 2 * n + 1 /\ half[2 * n + 1] = [record |-> record, ends |-> FALSE]
      /\ \A i \in 1 .. 2 * n : half[i] = old[i]
  BY <1>2, AppendIs
<1> HIDE DEF half
<1>4. /\ IsSeq(full) /\ Len(full) = 2 * n + 2 /\ full[2 * n + 2] = [record |-> record, ends |-> TRUE]
      /\ \A i \in 1 .. 2 * n + 1 : full[i] = half[i]
  <2>1. Len(half) + 1 = 2 * n + 2
    BY <1>0, <1>3
  <2> QED
    BY <1>3, <2>1, AppendIs
<1>5. IsSeq(new) /\ Len(new) = 2 * (n + 1) /\ Holds(new, longer)
  BY <1>1, PiecesAre
<1> HIDE DEF new, full, n
<1>6. ASSUME NEW j \in 1 .. 2 * n + 2 PROVE full[j] = new[j]
  <2>1. PICK i \in 1 .. n + 1 : j = 2 * i \/ j = 2 * i - 1
    <3>1. j \in Nat /\ (j + 1) \div 2 \in 1 .. n + 1 /\ (j = 2 * ((j + 1) \div 2) \/ j = 2 * ((j + 1) \div 2) - 1)
      BY <1>0
    <3> QED
      BY <3>1
  <2>2. i \in Nat
    BY <1>0
  <2>3. new[2 * i] = [record |-> longer[i], ends |-> TRUE] /\ new[2 * i - 1] = [record |-> longer[i], ends |-> FALSE]
    BY <1>1, <1>5 DEF Holds
  <2>4. CASE i \in 1 .. n
    <3>1. 2 * i \in 1 .. 2 * n /\ 2 * i - 1 \in 1 .. 2 * n /\ 2 * i \in 1 .. 2 * n + 1 /\ 2 * i - 1 \in 1 .. 2 * n + 1
      BY <1>0, <2>2, <2>4
    <3>2. old[2 * i] = [record |-> records[i], ends |-> TRUE] /\ old[2 * i - 1] = [record |-> records[i], ends |-> FALSE]
      BY <1>2, <2>4 DEF Holds, n
    <3>3. full[2 * i] = old[2 * i] /\ full[2 * i - 1] = old[2 * i - 1] /\ longer[i] = records[i]
      BY <1>1, <1>3, <1>4, <2>4, <3>1
    <3> QED
      BY <2>1, <2>3, <3>2, <3>3
  <2>5. CASE i = n + 1
    <3>1. 2 * i = 2 * n + 2 /\ 2 * i - 1 = 2 * n + 1 /\ 2 * n + 1 \in 1 .. 2 * n + 1
      BY <1>0, <2>5
    <3> QED
      BY <1>1, <1>3, <1>4, <2>1, <2>3, <2>5, <3>1
  <2> QED
    BY <1>0, <2>4, <2>5
<1>7. full = new
  <2>1. 2 * (n + 1) = 2 * n + 2
    BY <1>0
  <2> QED
    BY <1>4, <1>5, <1>6, <2>1, SameSeq
<1> QED
  BY <1>7 DEF full, half, old, new, longer

\* The responses among the records, one record at a time.
LEMMA ResponsesStep ==
    ASSUME NEW records, Len(records) \in Nat
    PROVE  /\ Responses(records)[0] = <<>>
           /\ \A n \in 1 .. Len(records) : Responses(records)[n] = Given(Responses(records)[n - 1], records[n])
<1> DEFINE Is(f, n) == /\ f = [i \in 0 .. n |-> f[i]] /\ f[0] = <<>>
                       /\ \A i \in 1 .. n : f[i] = Given(f[i - 1], records[i])
           T == {n \in Nat : \E f : Is(f, n)}
           Def(f) == [n \in 0 .. Len(records) |-> IF n = 0 THEN <<>> ELSE Given(f[n - 1], records[n])]
<1>1. 0 \in T
  <2> DEFINE h == [i \in 0 .. 0 |-> <<>>]
  <2>1. h = [i \in 0 .. 0 |-> h[i]] /\ h[0] = <<>>
    OBVIOUS
  <2> HIDE DEF h
  <2>2. Is(h, 0)
    BY <2>1
  <2> HIDE DEF Is
  <2> QED
    BY <2>2
<1>2. ASSUME NEW n \in Nat, n \in T PROVE n + 1 \in T
  <2>1. PICK f : Is(f, n)
    BY <1>2
  <2> DEFINE h == [i \in 0 .. n + 1 |-> IF i = n + 1 THEN Given(f[n], records[n + 1]) ELSE f[i]]
  <2>2. /\ h = [i \in 0 .. n + 1 |-> h[i]]
        /\ \A i \in 0 .. n : h[i] = f[i]
        /\ h[n + 1] = Given(f[n], records[n + 1])
    OBVIOUS
  <2> HIDE DEF h
  <2>3. ASSUME NEW i \in 1 .. n + 1 PROVE h[i] = Given(h[i - 1], records[i])
    <3>1. CASE i = n + 1
      <4>1. i - 1 = n /\ n \in 0 .. n
        BY <3>1
      <4> QED
        BY <2>2, <3>1, <4>1
    <3>2. CASE i \in 1 .. n
      BY <2>1, <2>2, <3>2
    <3> QED
      BY <3>1, <3>2
  <2>4. h[0] = <<>>
    BY <2>1, <2>2
  <2>5. Is(h, n + 1)
    BY <2>2, <2>3, <2>4
  <2> HIDE DEF Is
  <2> QED
    BY <2>5
<1>3. PICK f : Is(f, Len(records))
  <2> HIDE DEF T
  <2>1. Len(records) \in T
    BY <1>1, <1>2, Numbers!Induction
  <2> QED
    BY <2>1 DEF T
<1>4. f = Def(f)
  <2>1. \A i \in 0 .. Len(records) : f[i] = IF i = 0 THEN <<>> ELSE Given(f[i - 1], records[i])
    BY <1>3
  <2> QED
    BY <1>3, <2>1
<1>5. Responses(records) = CHOOSE x : x = Def(x)
  BY DEF Responses
<1>6. Responses(records) = Def(Responses(records))
  <2> HIDE DEF Def
  <2> QED
    BY <1>4, <1>5
<1>7. \A n \in 0 .. Len(records) : Responses(records)[n] = IF n = 0 THEN <<>> ELSE Given(Responses(records)[n - 1], records[n])
  BY <1>6
<1> QED
  BY <1>7

\* A read, one piece at a time.
LEMMA ReadingStep ==
    ASSUME NEW pieces, Len(pieces) \in Nat, NEW from \in 0 .. Len(pieces), NEW before
    PROVE  /\ Reading(pieces, from, before)[from] = before
           /\ \A i \in from + 1 .. Len(pieces) :
                Reading(pieces, from, before)[i] =
                    IF pieces[i].ends THEN Given(Reading(pieces, from, before)[i - 1], pieces[i].record)
                    ELSE Reading(pieces, from, before)[i - 1]
<1> DEFINE Step(x, i) == IF pieces[i].ends THEN Given(x, pieces[i].record) ELSE x
           Is(f, n) == /\ f = [i \in from .. from + n |-> f[i]] /\ f[from] = before
                       /\ \A i \in from + 1 .. from + n : f[i] = Step(f[i - 1], i)
           T == {n \in Nat : \E f : Is(f, n)}
           Def(f) == [i \in from .. Len(pieces) |-> IF i = from THEN before ELSE Step(f[i - 1], i)]
<1>0. from \in Nat /\ Len(pieces) - from \in Nat /\ from + (Len(pieces) - from) = Len(pieces)
  OBVIOUS
<1>1. 0 \in T
  <2> DEFINE h == [i \in from .. from + 0 |-> before]
  <2>1. h = [i \in from .. from + 0 |-> h[i]] /\ h[from] = before
    BY <1>0
  <2> HIDE DEF h
  <2>2. Is(h, 0)
    BY <1>0, <2>1
  <2> HIDE DEF Is
  <2> QED
    BY <2>2
<1>2. ASSUME NEW n \in Nat, n \in T PROVE n + 1 \in T
  <2>1. PICK f : Is(f, n)
    BY <1>2
  <2> DEFINE next == from + (n + 1)
             h == [i \in from .. next |-> IF i = next THEN Step(f[next - 1], next) ELSE f[i]]
  <2>0. next - 1 = from + n /\ from + n \in from .. from + n /\ next \in Nat
    BY <1>0
  <2>2. /\ h = [i \in from .. next |-> h[i]]
        /\ \A i \in from .. from + n : h[i] = f[i]
        /\ h[next] = Step(f[next - 1], next)
    <3>1. \A i \in from .. from + n : i \in from .. next /\ i # next
      BY <1>0
    <3>2. next \in from .. next
      BY <1>0
    <3> HIDE DEF next, Step
    <3> QED
      BY <3>1, <3>2
  <2> HIDE DEF h, Step
  <2>3. ASSUME NEW i \in from + 1 .. next PROVE h[i] = Step(h[i - 1], i)
    <3>1. CASE i = next
      <4>1. i - 1 \in from .. from + n
        BY <1>0, <2>0, <3>1
      <4> QED
        BY <2>2, <3>1, <4>1
    <3>2. CASE i # next
      <4>1. i \in from + 1 .. from + n /\ i \in from .. from + n /\ i - 1 \in from .. from + n
        BY <1>0, <3>2
      <4> QED
        BY <2>1, <2>2, <4>1
    <3> QED
      BY <3>1, <3>2
  <2>4. h[from] = before
    <3>1. from \in from .. from + n
      BY <1>0
    <3>2. h[from] = f[from]
      BY <2>2, <3>1
    <3> QED
      BY <2>1, <3>2
  <2>5. Is(h, n + 1)
    BY <2>2, <2>3, <2>4
  <2> HIDE DEF Is
  <2> QED
    BY <2>5
<1>3. PICK f : Is(f, Len(pieces) - from)
  <2> HIDE DEF T
  <2>1. Len(pieces) - from \in T
    BY <1>0, <1>1, <1>2, Numbers!Induction
  <2> QED
    BY <2>1 DEF T
<1>4. f = Def(f)
  <2>1. f = [i \in from .. Len(pieces) |-> f[i]]
    BY <1>0, <1>3
  <2>2. \A i \in from .. Len(pieces) : f[i] = IF i = from THEN before ELSE Step(f[i - 1], i)
    <3>1. \A i \in from .. Len(pieces) : i # from => i \in from + 1 .. Len(pieces)
      BY <1>0
    <3> HIDE DEF Step
    <3> QED
      BY <1>0, <1>3, <3>1
  <2> HIDE DEF Step
  <2> QED
    BY <2>1, <2>2
<1>5. Reading(pieces, from, before) = CHOOSE x : x = Def(x)
  BY DEF Reading
<1>6. Reading(pieces, from, before) = Def(Reading(pieces, from, before))
  <2> HIDE DEF Def
  <2> QED
    BY <1>4, <1>5
<1>7. \A i \in from .. Len(pieces) :
        Reading(pieces, from, before)[i] = IF i = from THEN before ELSE Step(Reading(pieces, from, before)[i - 1], i)
  BY <1>6
<1> QED
  BY <1>0, <1>7

\* A record that follows changes nothing of the responses before it.
LEMMA ResponsesGrow ==
    ASSUME NEW records, IsSeq(records), NEW record
    PROVE  \A n \in 0 .. Len(records) : Responses(Append(records, record))[n] = Responses(records)[n]
<1> DEFINE longer == Append(records, record)
           T == {n \in Nat : n <= Len(records) => Responses(longer)[n] = Responses(records)[n]}
<1>1. Len(records) \in Nat /\ Len(longer) = Len(records) + 1 /\ \A i \in 1 .. Len(records) : longer[i] = records[i]
  BY AppendIs DEF IsSeq
<1> HIDE DEF longer
<1>2. 0 \in T
  <2>1. Responses(longer)[0] = <<>> /\ Responses(records)[0] = <<>>
    BY <1>1, ResponsesStep
  <2> QED
    BY <2>1
<1>3. ASSUME NEW n \in Nat, n \in T PROVE n + 1 \in T
  <2> SUFFICES ASSUME n + 1 <= Len(records) PROVE Responses(longer)[n + 1] = Responses(records)[n + 1]
    OBVIOUS
  <2>1. n + 1 \in 1 .. Len(records) /\ n + 1 \in 1 .. Len(longer) /\ n + 1 - 1 = n
    BY <1>1
  <2>2. Responses(longer)[n] = Responses(records)[n] /\ longer[n + 1] = records[n + 1]
    BY <1>1, <1>3, <2>1
  <2>3. Responses(longer)[n + 1] = Given(Responses(longer)[n], longer[n + 1])
    <3>1. Len(longer) \in Nat
      BY <1>1
    <3>2. Responses(longer)[n + 1] = Given(Responses(longer)[n + 1 - 1], longer[n + 1])
      BY <2>1, <3>1, ResponsesStep
    <3> QED
      BY <2>1, <3>2
  <2>4. Responses(records)[n + 1] = Given(Responses(records)[n], records[n + 1])
    <3>1. Responses(records)[n + 1] = Given(Responses(records)[n + 1 - 1], records[n + 1])
      BY <1>1, <2>1, ResponsesStep
    <3> QED
      BY <2>1, <3>1
  <2> QED
    BY <2>2, <2>3, <2>4
<1>4. Nat \subseteq T
  <2> HIDE DEF T
  <2> QED
    BY <1>2, <1>3, Numbers!Induction
<1> QED
  BY <1>1, <1>4 DEF longer

\* A reader that was given the responses of the first n records and goes on behind them is given
\* those of the others.
LEMMA ReadingIs ==
    ASSUME NEW records, IsSeq(records), NEW pieces, Len(pieces) \in Nat, Holds(pieces, records),
           NEW n \in 0 .. Len(records)
    PROVE  \A m \in n .. Len(records) : Reading(pieces, 2 * n, Responses(records)[n])[2 * m] = Responses(records)[m]
<1> DEFINE R == Reading(pieces, 2 * n, Responses(records)[n])
           T == {k \in Nat : n + k <= Len(records) => R[2 * (n + k)] = Responses(records)[n + k]}
<1>0. Len(records) \in Nat /\ n \in Nat /\ 2 * n \in 0 .. Len(pieces) /\ 2 * Len(records) <= Len(pieces)
  BY DEF IsSeq, Holds
<1>1. /\ R[2 * n] = Responses(records)[n]
      /\ \A i \in 2 * n + 1 .. Len(pieces) : R[i] = IF pieces[i].ends THEN Given(R[i - 1], pieces[i].record) ELSE R[i - 1]
  BY <1>0, ReadingStep
<1> HIDE DEF R
<1>2. 0 \in T
  BY <1>0, <1>1
<1>3. ASSUME NEW k \in Nat, k \in T PROVE k + 1 \in T
  <2> SUFFICES ASSUME n + (k + 1) <= Len(records) PROVE R[2 * (n + (k + 1))] = Responses(records)[n + (k + 1)]
    OBVIOUS
  <2> DEFINE m == n + (k + 1)
  <2>1. /\ m \in 1 .. Len(records) /\ m - 1 = n + k /\ n + k <= Len(records) /\ 2 * (n + k) = 2 * m - 2
        /\ 2 * m \in 2 * n + 1 .. Len(pieces) /\ 2 * m - 1 \in 2 * n + 1 .. Len(pieces)
        /\ 2 * m - 1 - 1 = 2 * m - 2
    BY <1>0
  <2>2. R[2 * m - 2] = Responses(records)[m - 1]
    BY <1>3, <2>1
  <2> HIDE DEF m
  <2>3. pieces[2 * m] = [record |-> records[m], ends |-> TRUE] /\ pieces[2 * m - 1] = [record |-> records[m], ends |-> FALSE]
    BY <2>1 DEF Holds
  <2>4. R[2 * m - 1] = R[2 * m - 2]
    <3>1. R[2 * m - 1] = IF pieces[2 * m - 1].ends THEN Given(R[2 * m - 1 - 1], pieces[2 * m - 1].record) ELSE R[2 * m - 1 - 1]
      BY <1>1, <2>1
    <3> QED
      BY <2>1, <2>3, <3>1
  <2>5. R[2 * m] = Given(R[2 * m - 1], records[m])
    <3>1. R[2 * m] = IF pieces[2 * m].ends THEN Given(R[2 * m - 1], pieces[2 * m].record) ELSE R[2 * m - 1]
      BY <1>1, <2>1
    <3> QED
      BY <2>3, <3>1
  <2>6. Responses(records)[m] = Given(Responses(records)[m - 1], records[m])
    BY <1>0, <2>1, ResponsesStep
  <2> QED
    BY <2>2, <2>4, <2>5, <2>6 DEF m
<1>4. Nat \subseteq T
  <2> HIDE DEF T
  <2> QED
    BY <1>2, <1>3, Numbers!Induction
<1>5. ASSUME NEW m \in n .. Len(records) PROVE R[2 * m] = Responses(records)[m]
  <2>1. m - n \in Nat /\ n + (m - n) = m /\ m <= Len(records)
    BY <1>0
  <2>2. m - n \in T
    BY <1>4, <2>1
  <2>3. R[2 * (n + (m - n))] = Responses(records)[n + (m - n)]
    BY <2>1, <2>2
  <2> QED
    BY <2>1, <2>3
<1> QED
  BY <1>5 DEF R

-----------------------------------------------------------------------------
(* The inductive invariant of the response file and its reader. *)

\* A publication is opened and then closed, and the lease is held in between.
Planned(steps) ==
    /\ IsSeq(steps)
    /\ \A i \in 1 .. Len(steps) :
         /\ steps[i].kind = "open" => i + 1 \in 1 .. Len(steps) /\ steps[i + 1].kind = "close"
         /\ i > 1 /\ steps[i].kind = "close" => steps[i - 1].kind = "open"
Closing(steps) == steps # <<>> /\ steps[1].kind = "close"
Scheduled == Planned(todo) /\ window \in BOOLEAN /\ (window <=> Closing(todo))

\* Outside of a publication the file is the spool, perhaps with a part of the record that is being
\* written; during one, it has the candidate behind the spool, or is gone.
Filed ==
    \/ ~window /\ file = {Pieces(spool)}
    \/ /\ ~window /\ todo # <<>> /\ todo[1].kind \notin {"open", "close"}
       /\ file = {Append(Pieces(spool), [record |-> todo[1], ends |-> FALSE])}
    \/ window /\ file = {Append(Pieces(spool), [record |-> [kind |-> "candidate"], ends |-> TRUE])}
    \/ window /\ file = {}

\* The reader is behind the n-th record and was given the responses up to it.
ReadUpTo == \E n \in 0 .. Len(spool) : offset = 2 * n /\ received = Responses(spool)[n]

Channel == IsSeq(spool) /\ Scheduled /\ Filed /\ ReadUpTo

LEMMA ChannelInit == Init => Channel
<1> SUFFICES ASSUME Init PROVE Channel
  OBVIOUS
<1>1. IsSeq(spool) /\ Len(spool) = 1
  BY SingleIs DEF Init
<1>2. IsSeq(todo) /\ Len(todo) = 0
  BY EmptyIs DEF Init
<1>3. Scheduled
  <2>1. Planned(todo)
    BY <1>2 DEF Planned
  <2> QED
    BY <2>1 DEF Init, Scheduled, Closing
<1>4. Filed
  BY DEF Init, Filed
<1>5. ReadUpTo
  <2>1. 0 \in 0 .. Len(spool) /\ Len(spool) \in Nat
    BY <1>1
  <2>2. Responses(spool)[0] = <<>>
    BY <2>1, ResponsesStep
  <2> QED
    BY <2>1, <2>2 DEF Init, ReadUpTo
<1> QED
  BY <1>1, <1>3, <1>4, <1>5 DEF Channel

\* A frame is taken when there is nothing to do.
LEMMA TakeKeeps == ASSUME Channel, Take PROVE Channel'
<1>1. /\ todo = <<>> /\ UNCHANGED <<file, spool, window, offset, received>>
      /\ window = FALSE /\ window' = FALSE /\ file = {Pieces(spool)}
  BY DEF Take, reader, Channel, Scheduled, Closing, Filed
<1>2. todo' = <<>> \/ (\E x : x.kind = "response" /\ todo' = <<x>>)
      \/ \E r : todo' = <<Recovery, [kind |-> "open"], [kind |-> "close"], Recovery, Answer(r)>>
  BY DEF Take, Collects, Refuses, Dispatches, Steps, Saving, Error, Answer
<1>3. Planned(todo') /\ ~Closing(todo')
  <2>1. CASE todo' = <<>>
    <3>1. IsSeq(todo') /\ Len(todo') = 0
      BY <2>1, EmptyIs
    <3> QED
      BY <2>1, <3>1 DEF Planned, Closing
  <2>2. CASE \E x : x.kind = "response" /\ todo' = <<x>>
    <3>1. PICK x : x.kind = "response" /\ todo' = <<x>>
      BY <2>2
    <3>2. IsSeq(todo') /\ Len(todo') = 1 /\ todo'[1] = x
      BY <3>1, SingleIs
    <3> QED
      BY <3>1, <3>2 DEF Planned, Closing
  <2>3. CASE \E r : todo' = <<Recovery, [kind |-> "open"], [kind |-> "close"], Recovery, Answer(r)>>
    <3>1. PICK r : todo' = <<Recovery, [kind |-> "open"], [kind |-> "close"], Recovery, Answer(r)>>
      BY <2>3
    <3>2. /\ IsSeq(todo') /\ Len(todo') = 5 /\ todo'[1].kind = "recovery" /\ todo'[2].kind = "open"
          /\ todo'[3].kind = "close" /\ todo'[4].kind = "recovery" /\ todo'[5].kind = "response"
      <4>1. todo' = [i \in 1 .. 5 |-> todo'[i]]
        BY <3>1
      <4> QED
        BY <3>1, <4>1, FunctionIs DEF Recovery, Answer
    <3>3. \A i \in 1 .. 5 : i = 1 \/ i = 2 \/ i = 3 \/ i = 4 \/ i = 5
      OBVIOUS
    <3> QED
      BY <3>2, <3>3 DEF Planned, Closing
  <2> QED
    BY <1>2, <2>1, <2>2, <2>3
<1>5. Scheduled'
  BY <1>1, <1>3 DEF Scheduled
<1>4. Filed' /\ ReadUpTo' /\ IsSeq(spool)'
  BY <1>1 DEF Channel, Filed, ReadUpTo
<1> QED
  BY <1>4, <1>5 DEF Channel

\* What is left to do when a step is done.
LEMMA PlanGoesOn ==
    ASSUME NEW steps, Planned(steps), steps # <<>>
    PROVE  /\ Planned(Tail(steps)) /\ Head(steps) = steps[1]
           /\ Closing(Tail(steps)) <=> steps[1].kind = "open"
<1> DEFINE rest == Tail(steps)
<1>1. /\ Len(steps) \in Nat /\ Len(steps) >= 1 /\ Head(steps) = steps[1] /\ IsSeq(rest) /\ Len(rest) = Len(steps) - 1
      /\ \A i \in 1 .. Len(steps) - 1 : rest[i] = steps[i + 1]
  BY TailIs DEF Planned, IsSeq
<1>2. /\ rest # <<>> => 1 \in 1 .. Len(rest)
      /\ 1 \in 1 .. Len(rest) => rest # <<>>
  <2>1. rest # <<>> => Len(rest) >= 1
    BY <1>1, TailIs
  <2>2. rest = <<>> => Len(rest) = 0
    BY EmptyIs
  <2> HIDE DEF rest
  <2> QED
    BY <1>1, <2>1, <2>2
<1> HIDE DEF rest
<1>3. ASSUME NEW i \in 1 .. Len(rest)
      PROVE  /\ i + 1 \in 1 .. Len(steps) /\ rest[i] = steps[i + 1] /\ i + 1 > 1 /\ i + 1 - 1 = i
             /\ i + 1 + 1 \in 1 .. Len(steps) => i + 1 \in 1 .. Len(rest) /\ rest[i + 1] = steps[i + 1 + 1]
             /\ i > 1 => i - 1 \in 1 .. Len(rest) /\ rest[i - 1] = steps[i]
  <2>1. i > 1 => i - 1 \in 1 .. Len(steps) - 1 /\ i - 1 + 1 = i
    BY <1>1
  <2> QED
    BY <1>1, <2>1
<1>4. Planned(rest)
  BY <1>1, <1>3 DEF Planned
<1>5. Closing(rest) <=> steps[1].kind = "open"
  <2>1. 1 \in 1 .. Len(steps) /\ 1 + 1 = 2 /\ 2 - 1 = 1 /\ 2 > 1
    BY <1>1
  <2>2. ASSUME steps[1].kind = "open" PROVE Closing(rest)
    <3>1. 2 \in 1 .. Len(steps) /\ steps[2].kind = "close"
      BY <2>1, <2>2 DEF Planned
    <3>2. 1 \in 1 .. Len(rest) /\ rest[1] = steps[2]
      BY <1>1, <2>1, <3>1
    <3> QED
      BY <1>2, <3>1, <3>2 DEF Closing
  <2>3. ASSUME Closing(rest) PROVE steps[1].kind = "open"
    <3>1. 1 \in 1 .. Len(rest) /\ rest[1].kind = "close"
      BY <1>2, <2>3 DEF Closing
    <3>2. 2 \in 1 .. Len(steps) /\ steps[2].kind = "close"
      BY <1>1, <2>1, <3>1
    <3> QED
      BY <2>1, <3>2 DEF Planned
  <2> QED
    BY <2>2, <2>3
<1> QED
  BY <1>1, <1>4, <1>5 DEF rest

LEMMA AppendKeeps == ASSUME Channel, AppendPiece PROVE Channel'
<1>0. /\ todo # <<>> /\ Head(todo) = todo[1] /\ todo[1].kind \notin {"open", "close"}
      /\ UNCHANGED <<window, offset, received>> /\ Planned(todo) /\ IsSeq(spool)
  BY PlanGoesOn DEF AppendPiece, reader, Channel, Scheduled
<1>1. window = FALSE
  BY <1>0 DEF Channel, Scheduled, Closing
<1> DEFINE whole == Pieces(spool)
           half  == Append(whole, [record |-> todo[1], ends |-> FALSE])
<1>2. IsSeq(whole) /\ Len(whole) = 2 * Len(spool) /\ Holds(whole, spool) /\ Len(spool) \in Nat
  BY <1>0, PiecesAre DEF IsSeq
<1>3. Last(whole) = whole[Len(whole)] /\ Last(half) = half[Len(half)]
  BY DEF Last
<1>4. whole = <<>> \/ Last(whole).ends
  <2>1. CASE Len(spool) = 0
    BY <1>2, <2>1, EmptyIs, SameSeq
  <2>2. CASE Len(spool) # 0
    <3>1. Len(spool) \in 1 .. Len(spool)
      BY <1>2, <2>2
    <3>2. whole[2 * Len(spool)] = [record |-> spool[Len(spool)], ends |-> TRUE]
      BY <1>2, <3>1 DEF Holds
    <3> HIDE DEF whole
    <3> QED
      BY <1>2, <1>3, <3>2
  <2> QED
    BY <2>1, <2>2
<1>5. half # <<>> /\ Last(half) = [record |-> todo[1], ends |-> FALSE]
  <2> HIDE DEF whole
  <2>1. Len(half) = Len(whole) + 1 /\ half[Len(whole) + 1] = [record |-> todo[1], ends |-> FALSE]
    BY <1>2, AppendIs
  <2>2. Len(half) # 0
    BY <1>2, <2>1
  <2> HIDE DEF half
  <2> QED
    BY <1>3, <2>1, <2>2, EmptyIs
<1>6. PICK pieces \in file :
        LET ends == pieces # <<>> /\ ~Last(pieces).ends
        IN  /\ file' = {Append(pieces, [record |-> todo[1], ends |-> ends])}
            /\ IF ends THEN todo' = Tail(todo) /\ spool' = Append(spool, todo[1]) ELSE UNCHANGED <<todo, spool>>
  BY <1>0 DEF AppendPiece
<1>7. pieces = whole \/ pieces = half
  BY <1>1, <1>6 DEF Channel, Filed
<1>8. CASE pieces = whole
  <2>1. file' = {half} /\ UNCHANGED <<todo, spool>>
    <3>1. (pieces # <<>> /\ ~Last(pieces).ends) = FALSE
      BY <1>4, <1>8
    <3> HIDE DEF whole
    <3> QED
      BY <1>6, <1>8, <3>1
  <2>2. Filed'
    BY <1>0, <1>1, <2>1 DEF Filed
  <2>3. Scheduled' /\ ReadUpTo' /\ IsSeq(spool)'
    BY <1>0, <2>1 DEF Channel, Scheduled, ReadUpTo
  <2> QED
    BY <2>2, <2>3 DEF Channel
<1>9. CASE pieces = half
  <2>1. file' = {Append(half, [record |-> todo[1], ends |-> TRUE])} /\ todo' = Tail(todo) /\ spool' = Append(spool, todo[1])
    <3>1. (pieces # <<>> /\ ~Last(pieces).ends) = TRUE
      BY <1>5, <1>9
    <3> HIDE DEF half
    <3> QED
      BY <1>6, <1>9, <3>1
  <2>2. file' = {Pieces(spool')}
    <3>1. Append(half, [record |-> todo[1], ends |-> TRUE]) = Pieces(Append(spool, todo[1]))
      BY <1>0, PiecesGrow
    <3> HIDE DEF half
    <3> QED
      BY <2>1, <3>1
  <2>3. Planned(todo') /\ ~Closing(todo')
    BY <1>0, <2>1, PlanGoesOn
  <2>4. Scheduled' /\ Filed'
    BY <1>0, <1>1, <2>2, <2>3 DEF Scheduled, Filed
  <2>5. IsSeq(spool') /\ Len(spool') = Len(spool) + 1
    BY <1>0, <2>1, AppendIs
  <2>6. ReadUpTo'
    <3>1. PICK n \in 0 .. Len(spool) : offset = 2 * n /\ received = Responses(spool)[n]
      BY DEF Channel, ReadUpTo
    <3>2. n \in 0 .. Len(spool')
      BY <1>2, <2>5
    <3>3. Responses(spool')[n] = Responses(spool)[n]
      BY <1>0, <2>1, ResponsesGrow
    <3> QED
      BY <1>0, <3>1, <3>2, <3>3 DEF ReadUpTo
  <2> QED
    BY <2>4, <2>5, <2>6 DEF Channel
<1> QED
  BY <1>7, <1>8, <1>9

LEMMA OpenKeeps == ASSUME Channel, Open PROVE Channel'
<1>1. /\ todo # <<>> /\ Head(todo) = todo[1] /\ todo[1].kind = "open" /\ todo' = Tail(todo) /\ window' = TRUE
      /\ UNCHANGED <<spool, offset, received>>
  BY PlanGoesOn DEF Open, reader, Channel, Scheduled
<1>2. window = FALSE
  BY <1>1 DEF Channel, Scheduled, Closing
<1>3. file = {Pieces(spool)}
  BY <1>1, <1>2 DEF Channel, Filed
<1>4. file' = {Append(Pieces(spool), [record |-> [kind |-> "candidate"], ends |-> TRUE])}
  BY <1>3 DEF Open
<1>5. Planned(todo') /\ Closing(todo')
  BY <1>1, PlanGoesOn DEF Channel, Scheduled
<1>6. Scheduled' /\ Filed'
  BY <1>1, <1>4, <1>5 DEF Scheduled, Filed
<1> QED
  BY <1>1, <1>6 DEF Channel, ReadUpTo

LEMMA MoveKeeps == ASSUME Channel, Move PROVE Channel'
BY DEF Move, reader, Channel, Scheduled, Filed, ReadUpTo

LEMMA CloseKeeps == ASSUME Channel, Close PROVE Channel'
<1>1. /\ todo # <<>> /\ Head(todo) = todo[1] /\ todo[1].kind = "close" /\ todo' = Tail(todo) /\ window' = FALSE
      /\ UNCHANGED <<spool, offset, received>>
  BY PlanGoesOn DEF Close, reader, Channel, Scheduled
<1>2. window = TRUE
  BY <1>1 DEF Channel, Scheduled, Closing
<1>3. Planned(todo') /\ ~Closing(todo')
  BY <1>1, PlanGoesOn DEF Channel, Scheduled
<1>4. file' = {Pieces(spool)}
  <2> DEFINE whole == Pieces(spool)
             candidate == [record |-> [kind |-> "candidate"], ends |-> TRUE]
  <2>1. CASE file = {}
    BY <2>1 DEF Close, Respooled
  <2>2. CASE file = {Append(whole, candidate)}
    <3>1. file' = {SubSeq(Append(whole, candidate), 1, 2 * Len(spool))}
      BY <2>2 DEF Close
    <3>2. IsSeq(whole) /\ Len(whole) = 2 * Len(spool) /\ Len(spool) \in Nat
      BY PiecesAre DEF Channel, IsSeq
    <3> HIDE DEF whole, candidate
    <3>3. /\ IsSeq(Append(whole, candidate)) /\ Len(Append(whole, candidate)) = Len(whole) + 1
          /\ \A i \in 1 .. Len(whole) : Append(whole, candidate)[i] = whole[i]
      BY <3>2, AppendIs
    <3>4. Len(whole) \in 0 .. Len(Append(whole, candidate))
      BY <3>2, <3>3
    <3>5. SubSeq(Append(whole, candidate), 1, Len(whole)) = whole
      <4> DEFINE left == SubSeq(Append(whole, candidate), 1, Len(whole))
      <4>1. IsSeq(left) /\ Len(left) = Len(whole) /\ \A i \in 1 .. Len(whole) : left[i] = Append(whole, candidate)[i]
        BY <3>3, <3>4, PrefixIs
      <4> HIDE DEF left
      <4>2. left = whole
        BY <3>2, <3>3, <4>1, SameSeq
      <4> QED
        BY <4>2 DEF left
    <3> QED
      BY <3>1, <3>2, <3>5 DEF whole
  <2> QED
    BY <1>2, <2>1, <2>2 DEF Channel, Filed
<1>5. Scheduled' /\ Filed'
  BY <1>1, <1>3, <1>4 DEF Scheduled, Filed
<1> QED
  BY <1>1, <1>5 DEF Channel, ReadUpTo

\* The reader finds whole records up to the end of the spool, and perhaps a part of the next.
LEMMA PollKeeps == ASSUME Channel, Poll PROVE Channel'
<1>0. ~window /\ IsSeq(spool) /\ UNCHANGED <<todo, file, spool, window>>
  BY DEF Poll, host, Channel
<1>1. PICK pieces \in file : /\ offset' = WholeLines(pieces)
                            /\ received' = Reading(pieces, offset, received)[WholeLines(pieces)]
  BY DEF Poll
<1>2. PICK n \in 0 .. Len(spool) : offset = 2 * n /\ received = Responses(spool)[n]
  BY DEF Channel, ReadUpTo
<1> DEFINE whole == Pieces(spool)
           half(record) == Append(whole, [record |-> record, ends |-> FALSE])
<1>3. IsSeq(whole) /\ Len(whole) = 2 * Len(spool) /\ Holds(whole, spool) /\ Len(spool) \in Nat
  BY <1>0, PiecesAre DEF IsSeq
<1>4. pieces = whole \/ \E record : pieces = half(record)
  BY <1>0, <1>1 DEF Channel, Filed
<1>5. Len(pieces) \in Nat /\ Holds(pieces, spool) /\ WholeLines(pieces) = 2 * Len(spool)
  <2>1. CASE pieces = whole
    <3>1. pieces = <<>> \/ Last(pieces).ends
      <4>1. CASE Len(spool) = 0
        BY <1>3, <2>1, <4>1, EmptyIs, SameSeq
      <4>2. CASE Len(spool) # 0
        <5>1. Len(spool) \in 1 .. Len(spool)
          BY <1>3, <4>2
        <5>2. whole[2 * Len(spool)] = [record |-> spool[Len(spool)], ends |-> TRUE]
          BY <1>3, <5>1 DEF Holds
        <5> HIDE DEF whole
        <5> QED
          BY <1>3, <2>1, <5>2 DEF Last
      <4> QED
        BY <4>1, <4>2
    <3> HIDE DEF whole
    <3> QED
      BY <1>3, <2>1, <3>1 DEF WholeLines
  <2>2. CASE \E record : pieces = half(record)
    <3>1. PICK record : pieces = half(record)
      BY <2>2
    <3> HIDE DEF whole
    <3>2. /\ Len(pieces) = Len(whole) + 1 /\ pieces[Len(whole) + 1] = [record |-> record, ends |-> FALSE]
          /\ \A i \in 1 .. Len(whole) : pieces[i] = whole[i]
      BY <1>3, <3>1, AppendIs
    <3> HIDE DEF half
    <3>3. Len(pieces) \in Nat /\ Len(pieces) # 0 /\ Len(pieces) - 1 = 2 * Len(spool)
      BY <1>3, <3>2
    <3>4. pieces # <<>> /\ ~Last(pieces).ends
      BY <3>2, <3>3, EmptyIs DEF Last
    <3>5. \A i \in 1 .. Len(spool) : 2 * i \in 1 .. Len(whole) /\ 2 * i - 1 \in 1 .. Len(whole)
      BY <1>3
    <3>6. Holds(pieces, spool)
      <4>1. ASSUME NEW i \in 1 .. Len(spool)
            PROVE  /\ pieces[2 * i] = [record |-> spool[i], ends |-> TRUE]
                   /\ pieces[2 * i - 1] = [record |-> spool[i], ends |-> FALSE]
        <5>1. whole[2 * i] = [record |-> spool[i], ends |-> TRUE] /\ whole[2 * i - 1] = [record |-> spool[i], ends |-> FALSE]
          BY <1>3 DEF Holds
        <5>2. pieces[2 * i] = whole[2 * i] /\ pieces[2 * i - 1] = whole[2 * i - 1]
          BY <3>2, <3>5
        <5> QED
          BY <5>1, <5>2
      <4>2. Len(pieces) >= 2 * Len(spool)
        BY <1>3, <3>2
      <4> QED
        BY <4>1, <4>2 DEF Holds
    <3> QED
      BY <3>3, <3>4, <3>6 DEF WholeLines
  <2> QED
    BY <1>4, <2>1, <2>2
<1>6. Len(spool) \in n .. Len(spool) /\ Len(spool) \in 0 .. Len(spool)
  BY <1>3
<1>7. received' = Responses(spool)[Len(spool)]
  <2>1. Reading(pieces, 2 * n, Responses(spool)[n])[2 * Len(spool)] = Responses(spool)[Len(spool)]
    BY <1>0, <1>5, <1>6, ReadingIs
  <2> QED
    BY <1>1, <1>2, <1>5, <2>1
<1>8. ReadUpTo'
  BY <1>0, <1>1, <1>5, <1>6, <1>7 DEF ReadUpTo
<1> QED
  BY <1>0, <1>8 DEF Channel, Scheduled, Filed

LEMMA ChannelStep == Channel /\ [Next]_vars => Channel'
<1> SUFFICES ASSUME Channel, [Next]_vars PROVE Channel'
  OBVIOUS
<1>1. CASE UNCHANGED vars
  BY <1>1 DEF vars, host, reader, Channel, Scheduled, Filed, ReadUpTo
<1>2. CASE Fault \/ \E r \in Request, cancel \in BOOLEAN : Send(r, cancel)
  <2>1. UNCHANGED <<todo, file, spool, window, offset, received>>
    BY <1>2 DEF Fault, Send, host, reader
  <2> QED
    BY <2>1 DEF Channel, Scheduled, Filed, ReadUpTo
<1>3. CASE Engine
  BY <1>3, TakeKeeps, AppendKeeps, OpenKeeps, MoveKeeps, CloseKeeps DEF Engine
<1>4. CASE Poll
  BY <1>4, PollKeeps
<1> QED
  BY <1>1, <1>2, <1>3, <1>4 DEF Next

\* Whatever publications do to the response file while it is read, the reader is given what was
\* answered, each response once and in order.
THEOREM ReadsAreInOrder == Spec => []ReadInOrder
<1>1. Channel => ReadInOrder
  BY DEF Channel, ReadUpTo, ReadInOrder
<1> QED
  BY <1>1, ChannelInit, ChannelStep, PTL DEF Spec

-----------------------------------------------------------------------------
(* The inductive invariant of the frames. *)

Shaped(f) == /\ f.kind = "part" => f = [kind |-> "part", text |-> f.text] /\ f.text # "no digest"
             /\ f.kind = "end" => f = [kind |-> "end", digest |-> f.digest]

\* The end of a request comes after its begin, and its checksum is one of these.
Framed(frames, digests) ==
    /\ IsSeq(frames)
    /\ \A i \in 1 .. Len(frames) :
         /\ Shaped(frames[i])
         /\ frames[i].kind = "end" => frames[i].digest \in digests
         /\ \A j \in 1 .. Len(frames) : i < j /\ frames[i].kind = "end" => frames[j].kind # "begin"
NoBegin(frames) == \A i \in 1 .. Len(frames) : frames[i].kind # "begin"

LEMMA FramedTail ==
    ASSUME NEW frames, NEW digests, Framed(frames, digests), frames # <<>>
    PROVE  /\ Framed(Tail(frames), digests)
           /\ Head(frames).kind = "end" => NoBegin(frames) /\ Head(frames).digest \in digests
           /\ Shaped(Head(frames))
           /\ NoBegin(frames) => NoBegin(Tail(frames)) /\ Head(frames).kind # "begin"
<1> DEFINE rest == Tail(frames)
<1>1. /\ Len(frames) \in Nat /\ Len(frames) >= 1 /\ Head(frames) = frames[1] /\ IsSeq(rest) /\ Len(rest) = Len(frames) - 1
      /\ \A i \in 1 .. Len(frames) - 1 : rest[i] = frames[i + 1]
  BY TailIs DEF Framed, IsSeq
<1> HIDE DEF rest
<1>2. \A i \in 1 .. Len(rest) : i + 1 \in 1 .. Len(frames) /\ rest[i] = frames[i + 1]
  BY <1>1
<1>3. Framed(rest, digests)
  <2>1. \A i, j \in 1 .. Len(rest) : i < j => i + 1 < j + 1
    BY <1>1
  <2> QED
    BY <1>1, <1>2, <2>1 DEF Framed
<1>4. ASSUME frames[1].kind = "end" PROVE NoBegin(frames)
  <2>1. 1 \in 1 .. Len(frames) /\ \A j \in 1 .. Len(frames) : j = 1 \/ 1 < j
    BY <1>1
  <2> QED
    BY <1>4, <2>1 DEF Framed, NoBegin
<1>5. 1 \in 1 .. Len(frames)
  BY <1>1
<1> QED
  BY <1>1, <1>2, <1>3, <1>4, <1>5 DEF Framed, NoBegin, rest

MayPrecede(f, frames, digests) ==
    /\ Shaped(f)
    /\ f.kind = "end" => f.digest \in digests /\ NoBegin(frames)

LEMMA FramedCons ==
    ASSUME NEW frames, NEW digests, Framed(frames, digests), NEW f, MayPrecede(f, frames, digests)
    PROVE  /\ Framed(<<f>> \o frames, digests)
           /\ f.kind # "begin" /\ NoBegin(frames) => NoBegin(<<f>> \o frames)
<1> DEFINE more == <<f>> \o frames
<1>0. IsSeq(frames) /\ Len(frames) \in Nat
  BY DEF Framed, IsSeq
<1>1. /\ IsSeq(more) /\ Len(more) = Len(frames) + 1
      /\ more[1] = f /\ \A i \in 1 .. Len(frames) : more[i + 1] = frames[i]
  BY <1>0, ConsIs
<1> HIDE DEF more
<1>10. Len(frames) \in Nat /\ Len(more) = Len(frames) + 1
  BY <1>0, <1>1
<1>2. ASSUME NEW i \in 1 .. Len(more) PROVE i = 1 \/ (i - 1 \in 1 .. Len(frames) /\ more[i] = frames[i - 1])
  <2> SUFFICES ASSUME i # 1 PROVE i - 1 \in 1 .. Len(frames) /\ more[i] = frames[i - 1]
    OBVIOUS
  <2>1. i - 1 \in 1 .. Len(frames) /\ i - 1 + 1 = i
    BY <1>10
  <2> QED
    BY <1>1, <2>1
<1>3. ASSUME NEW i \in 1 .. Len(more), NEW j \in 1 .. Len(more), i < j, more[i].kind = "end"
      PROVE  more[j].kind # "begin"
  <2>0. j # 1
    BY <1>10, <1>3
  <2>1. j # 1 /\ j - 1 \in 1 .. Len(frames) /\ more[j] = frames[j - 1]
    BY <1>2, <2>0
  <2>2. CASE i = 1
    BY <1>1, <1>3, <2>1, <2>2 DEF NoBegin, MayPrecede
  <2>3. CASE i # 1
    <3>1. i - 1 \in 1 .. Len(frames) /\ more[i] = frames[i - 1]
      BY <1>2, <2>3
    <3>2. i - 1 < j - 1
      BY <1>10, <1>3
    <3> QED
      BY <1>3, <2>1, <3>1, <3>2 DEF Framed
  <2> QED
    BY <2>2, <2>3
<1>4. ASSUME NEW i \in 1 .. Len(more)
      PROVE  /\ Shaped(more[i])
             /\ more[i].kind = "end" => more[i].digest \in digests
             /\ f.kind # "begin" /\ NoBegin(frames) => more[i].kind # "begin"
  BY <1>1, <1>2 DEF Framed, NoBegin, MayPrecede
<1> QED
  BY <1>1, <1>3, <1>4 DEF Framed, NoBegin, more

\* The frames of a request.
LEMMA FramesAreFramed ==
    ASSUME NEW r \in Request
    PROVE  Framed(Frames(r), {r})
<1> DEFINE n == Len(r)
           begin == [kind |-> "begin"]
           end == [kind |-> "end", digest |-> r]
           middle == [i \in DOMAIN r |-> [kind |-> "part", text |-> r[i]]]
           front == <<begin>> \o middle
           all == front \o <<end>>
<1>0. n \in Nat
  BY RequestAssumption
<1>1. n \in Nat /\ r = [i \in 1 .. n |-> r[i]] /\ \A i \in 1 .. n : r[i] # "no digest"
  BY RequestAssumption
<1>2. IsSeq(middle) /\ Len(middle) = n /\ \A i \in 1 .. n : middle[i] = [kind |-> "part", text |-> r[i]]
  <2>1. DOMAIN r = 1 .. n
    BY <1>1
  <2>2. middle = [i \in 1 .. n |-> middle[i]] /\ \A i \in 1 .. n : middle[i] = [kind |-> "part", text |-> r[i]]
    BY <2>1
  <2> HIDE DEF middle, n
  <2> QED
    BY <1>1, <2>2, FunctionIs
<1> HIDE DEF middle
<1>3. IsSeq(front) /\ Len(front) = n + 1 /\ front[1] = begin /\ \A i \in 1 .. n : front[i + 1] = middle[i]
  <2> HIDE DEF begin, n
  <2> QED
    BY <1>2, ConsIs
<1> HIDE DEF front
<1>4. /\ IsSeq(all) /\ Len(all) = n + 2 /\ all[n + 2] = end
      /\ \A i \in 1 .. n + 1 : all[i] = front[i]
  <2> DEFINE last == <<end>>
  <2>1. IsSeq(last) /\ Len(last) = 1 /\ last[1] = end
    <3> HIDE DEF end
    <3> QED
      BY SingleIs
  <2> HIDE DEF last, end, n
  <2> DEFINE u == front \o last
  <2>2. Joins(u, front, last)
    BY <1>3, <2>1, ConcatIs
  <2> HIDE DEF u
  <2>4. 1 \in 1 .. Len(last)
    BY <2>1
  <2>5. IsSeq(u) /\ Len(u) = n + 1 + 1 /\ u[n + 1 + 1] = end /\ \A i \in 1 .. n + 1 : u[i] = front[i]
    BY <1>3, <2>1, <2>2, <2>4 DEF Joins
  <2>3. n + 1 + 1 = n + 2
    BY <1>0
  <2> QED
    BY <2>3, <2>5 DEF last, u
<1>5. Frames(r) = all
  BY DEF Frames, front, middle
<1> HIDE DEF all
<1>6. ASSUME NEW i \in 1 .. n + 2
      PROVE  \/ i = 1 /\ all[i] = begin
             \/ i = n + 2 /\ all[i] = end
             \/ i - 1 \in 1 .. n /\ all[i] = [kind |-> "part", text |-> r[i - 1]]
  <2> HIDE DEF begin, end, n
  <2>1. CASE i = 1
    <3>1. 1 \in 1 .. n + 1
      BY <1>0
    <3> QED
      BY <1>3, <1>4, <2>1, <3>1
  <2>2. CASE i = n + 2
    BY <1>4, <2>2
  <2>3. CASE i # 1 /\ i # n + 2
    <3>1. i - 1 \in 1 .. n /\ i - 1 + 1 = i /\ i \in 1 .. n + 1
      BY <1>0, <2>3
    <3> QED
      BY <1>2, <1>3, <1>4, <3>1
  <2> QED
    BY <2>1, <2>2, <2>3
<1>7. ASSUME NEW i \in 1 .. n + 2
      PROVE  /\ Shaped(all[i])
             /\ all[i].kind = "end" => all[i].digest = r /\ i = n + 2
  <2>1. CASE i = 1 /\ all[i] = begin
    BY <2>1 DEF Shaped
  <2>2. CASE i = n + 2 /\ all[i] = end
    BY <2>2 DEF Shaped
  <2> HIDE DEF n, begin, end
  <2>3. CASE i - 1 \in 1 .. n /\ all[i] = [kind |-> "part", text |-> r[i - 1]]
    <3>1. r[i - 1] # "no digest"
      BY <1>1, <2>3
    <3> DEFINE f == all[i]
    <3>2. PICK t : t # "no digest" /\ f = [kind |-> "part", text |-> t]
      BY <2>3, <3>1
    <3> HIDE DEF f
    <3>3. f.kind = "part" /\ f.text = t
      BY <3>2
    <3>4. Shaped(f) /\ f.kind # "end"
      BY <3>2, <3>3 DEF Shaped
    <3> QED
      BY <3>4 DEF f
  <2> QED
    BY <1>6, <2>1, <2>2, <2>3
<1> HIDE DEF n
<1>8. \A j \in 1 .. n + 2 : ~(n + 2 < j)
  BY <1>0
<1> QED
  BY <1>4, <1>5, <1>7, <1>8 DEF Framed

\* The fragments that are collected of a request.
TextOk(text) == IsSeq(text) /\ \A i \in 1 .. Len(text) : text[i] # "no digest"

LEMMA TextIs ==
    /\ TextOk(<<>>)
    /\ \A text, x : TextOk(text) /\ x # "no digest" => TextOk(Append(text, x))
    /\ \A text : TextOk(text) => text # <<"no digest">>
<1>1. TextOk(<<>>)
  BY EmptyIs DEF TextOk
<1>2. ASSUME NEW text, NEW x, TextOk(text), x # "no digest" PROVE TextOk(Append(text, x))
  <2> DEFINE more == Append(text, x)
  <2>1. Len(text) \in Nat /\ IsSeq(text)
    BY <1>2 DEF TextOk, IsSeq
  <2>2. /\ IsSeq(more) /\ Len(more) = Len(text) + 1 /\ more[Len(text) + 1] = x
        /\ \A i \in 1 .. Len(text) : more[i] = text[i]
    BY <2>1, AppendIs
  <2> HIDE DEF more
  <2>3. \A i \in 1 .. Len(more) : i = Len(text) + 1 \/ i \in 1 .. Len(text)
    BY <2>1, <2>2
  <2> QED
    BY <1>2, <2>2, <2>3 DEF TextOk, more
<1>3. ~TextOk(<<"no digest">>)
  <2>1. Len(<<"no digest">>) = 1 /\ <<"no digest">>[1] = "no digest"
    BY SingleIs
  <2>2. ASSUME NEW text, Len(text) = 1 PROVE 1 \in 1 .. Len(text)
    BY <2>2
  <2>3. 1 \in 1 .. Len(<<"no digest">>)
    BY <2>1, <2>2
  <2> QED
    BY <2>1, <2>3, Zenon DEF TextOk
<1> QED
  BY <1>1, <1>2, <1>3

Digests == {<<"no digest">>} \cup {sent[k] : k \in {Len(sent)} \cap 1 .. Len(sent)}

\* The requests that ran are these that were sent.
RanAs(at, ran, requests) ==
    /\ at \in [1 .. Len(ran) -> 1 .. Len(requests)]
    /\ \A i, j \in 1 .. Len(ran) : i < j => at[i] < at[j]
    /\ \A i \in 1 .. Len(ran) : ran[i] = requests[at[i]]
LastRan(at, ran, requests) == \E i \in 1 .. Len(ran) : at[i] = Len(requests)

\* If the last request that was sent has run, no other begin of it is on the way.
Ran(frames, ps, ran, requests) ==
    \E at : RanAs(at, ran, requests) /\ (LastRan(at, ran, requests) => ps = {} /\ NoBegin(frames))

Framing ==
    /\ IsSeq(sent) /\ IsSeq(dispatched) /\ Framed(wire, Digests)
    /\ \A text \in parts : TextOk(text)
    /\ Ran(wire, parts, dispatched, sent)

LEMMA FramingInit == Init => Framing
<1> SUFFICES ASSUME Init PROVE Framing
  OBVIOUS
<1>1. /\ wire = <<>> /\ sent = <<>> /\ dispatched = <<>> /\ parts = {}
      /\ IsSeq(<<>>) /\ Len(<<>>) = 0
  BY EmptyIs DEF Init
<1>2. Len(wire) = 0 /\ Len(sent) = 0 /\ Len(dispatched) = 0 /\ IsSeq(wire) /\ IsSeq(sent) /\ IsSeq(dispatched)
  BY <1>1
<1>3. Framed(wire, Digests)
  BY <1>2 DEF Framed
<1>4. Ran(wire, parts, dispatched, sent)
  <2> DEFINE at == [i \in 1 .. 0 |-> 0]
  <2>1. RanAs(at, dispatched, sent) /\ ~LastRan(at, dispatched, sent)
    BY <1>2 DEF RanAs, LastRan
  <2> QED
    BY <2>1 DEF Ran
<1> QED
  BY <1>1, <1>2, <1>3, <1>4 DEF Framing

LEMMA SendKeeps == ASSUME Framing, NEW r \in Request, NEW cancel \in BOOLEAN, Send(r, cancel) PROVE Framing'
<1>1. /\ sent' = Append(sent, r) /\ UNCHANGED <<parts, dispatched>>
      /\ wire' = (IF cancel THEN <<[kind |-> "cancel"]>> ELSE <<>>) \o Frames(r)
  BY DEF Send, host
<1>2. /\ IsSeq(sent') /\ Len(sent') = Len(sent) + 1 /\ sent'[Len(sent')] = r /\ Len(sent) \in Nat
      /\ \A i \in 1 .. Len(sent) : sent'[i] = sent[i]
  <2>1. IsSeq(sent) /\ Len(sent) \in Nat
    BY DEF Framing, IsSeq
  <2> QED
    BY <1>1, <2>1, AppendIs
<1>3. Framed(wire', {r})
  <2> DEFINE frames == Frames(r)
             f == [kind |-> "cancel"]
  <2>1. Framed(frames, {r})
    BY FramesAreFramed
  <2>2. IsSeq(frames)
    BY <2>1 DEF Framed
  <2> HIDE DEF frames
  <2>3. CASE cancel
    <3>1. MayPrecede(f, frames, {r})
      BY DEF MayPrecede, Shaped
    <3>2. wire' = <<f>> \o frames
      BY <1>1, <2>3 DEF frames
    <3> HIDE DEF f
    <3> QED
      BY <2>1, <3>1, <3>2, FramedCons
  <2>4. CASE ~cancel
    <3> DEFINE none == <<>>
    <3>1. wire' = none \o frames
      BY <1>1, <2>4 DEF frames
    <3>2. IsSeq(none) /\ Len(none) = 0
      BY EmptyIs
    <3> HIDE DEF none
    <3>3. Joins(wire', none, frames)
      BY <2>2, <3>1, <3>2, ConcatIs
    <3>4. Len(frames) \in Nat /\ \A i \in 1 .. Len(frames) : 0 + i = i
      BY <2>2 DEF IsSeq
    <3>5. IsSeq(wire') /\ Len(wire') = Len(frames) /\ \A i \in 1 .. Len(frames) : wire'[i] = frames[i]
      BY <3>2, <3>3, <3>4 DEF Joins
    <3>6. wire' = frames
      BY <2>2, <3>5, SameSeq
    <3> QED
      BY <2>1, <3>6
  <2> QED
    BY <2>3, <2>4
<1>4. Framed(wire', Digests')
  <2>1. Len(sent') \in 1 .. Len(sent')
    BY <1>2
  <2>2. r \in Digests'
    BY <1>2, <2>1 DEF Digests
  <2> QED
    BY <1>3, <2>2 DEF Framed
<1>5. Ran(wire', parts', dispatched', sent')
  <2>1. PICK at : RanAs(at, dispatched, sent)
    BY DEF Framing, Ran
  <2>2. at \in [1 .. Len(dispatched) -> 1 .. Len(sent')] /\ \A i \in 1 .. Len(dispatched) : at[i] # Len(sent')
    BY <1>2, <2>1 DEF RanAs
  <2>3. RanAs(at, dispatched', sent') /\ ~LastRan(at, dispatched', sent')
    BY <1>1, <1>2, <2>1, <2>2 DEF RanAs, LastRan
  <2> QED
    BY <2>3 DEF Ran
<1> QED
  BY <1>1, <1>2, <1>4, <1>5 DEF Framing

LEMMA FaultKeeps == ASSUME Framing, Fault PROVE Framing'
<1>1. wire # <<>> /\ UNCHANGED <<parts, dispatched, sent>>
  BY DEF Fault, host
<1>2. Framed(wire, Digests)
  BY DEF Framing
<1> DEFINE f == Head(wire)
           rest == Tail(wire)
<1>3. /\ Framed(rest, Digests)
      /\ f.kind = "end" => NoBegin(wire) /\ f.digest \in Digests
      /\ Shaped(f)
      /\ NoBegin(wire) => NoBegin(rest) /\ f.kind # "begin"
  BY <1>1, <1>2, FramedTail
<1>4. /\ Framed(wire', Digests)
      /\ NoBegin(wire) => NoBegin(wire')
  <2>1. CASE wire' = Tail(wire)
    BY <1>3, <2>1
  <2>2. CASE wire' = <<Head(wire)>> \o wire
    <3>1. wire' = <<f>> \o wire
      BY <2>2
    <3> HIDE DEF f, rest
    <3>2. MayPrecede(f, wire, Digests)
      BY <1>3 DEF MayPrecede
    <3> QED
      BY <1>2, <1>3, <3>1, <3>2, FramedCons
  <2>3. ASSUME NEW g \in Damages(Head(wire)), wire' = <<g>> \o Tail(wire)
        PROVE  Framed(wire', Digests) /\ (NoBegin(wire) => NoBegin(wire'))
    <3>1. wire' = <<g>> \o rest /\ g \in Damages(f)
      BY <2>3
    <3> HIDE DEF f, rest
    <3>2. /\ MayPrecede(g, rest, Digests)
          /\ NoBegin(wire) => g.kind # "begin"
      <4>1. CASE g \in {[kind |-> "unknown"], [kind |-> "line"]}
        <5>1. g.kind \in {"unknown", "line"}
          BY <4>1
        <5>2. g.kind # "part" /\ g.kind # "end" /\ g.kind # "begin"
          BY <5>1
        <5> QED
          BY <5>2, Zenon DEF MayPrecede, Shaped
      <4>2. CASE f.kind = "part" /\ g = [f EXCEPT !.text = "damaged"]
        <5>1. f = [kind |-> "part", text |-> f.text]
          BY <1>3, <4>2 DEF Shaped
        <5>2. g = [kind |-> "part", text |-> "damaged"]
          BY <4>2, <5>1
        <5> QED
          BY <5>2 DEF MayPrecede, Shaped
      <4>3. CASE f.kind = "end" /\ g = [f EXCEPT !.digest = <<"no digest">>]
        <5>1. f = [kind |-> "end", digest |-> f.digest] /\ NoBegin(rest)
          BY <1>3, <4>3 DEF Shaped
        <5>2. g = [kind |-> "end", digest |-> <<"no digest">>]
          BY <4>3, <5>1
        <5> QED
          BY <5>1, <5>2 DEF MayPrecede, Shaped, Digests
      <4> QED
        BY <3>1, <4>1, <4>2, <4>3 DEF Damages
    <3> QED
      BY <1>3, <3>1, <3>2, FramedCons
  <2> QED
    BY <2>1, <2>2, <2>3 DEF Fault
<1>5. Framed(wire', Digests') /\ Ran(wire', parts', dispatched', sent')
  BY <1>1, <1>4 DEF Framing, Digests, Ran
<1> QED
  BY <1>1, <1>5 DEF Framing

\* What runs is the last request that was sent, and it has not run before.
LEMMA TakeRuns == ASSUME Framing, Take PROVE Framing'
<1>1. wire # <<>> /\ wire' = Tail(wire) /\ sent' = sent
  BY DEF Take
<1> DEFINE f == Head(wire)
<1>2. /\ Framed(wire', Digests')
      /\ f.kind = "end" => NoBegin(wire) /\ f.digest \in Digests
      /\ f.kind = "part" => f.text # "no digest"
      /\ NoBegin(wire) => NoBegin(wire') /\ f.kind # "begin"
  <2>1. Framed(wire, Digests) /\ Digests' = Digests
    BY <1>1 DEF Framing, Digests
  <2> QED
    BY <1>1, <2>1, FramedTail DEF Shaped
<1>3. PICK at : RanAs(at, dispatched, sent) /\ (LastRan(at, dispatched, sent) => parts = {} /\ NoBegin(wire))
  BY DEF Framing, Ran
<1>4. /\ IsSeq(sent) /\ IsSeq(dispatched) /\ \A text \in parts : TextOk(text)
  BY DEF Framing
<1> DEFINE Goal == IsSeq(dispatched') /\ (\A text \in parts' : TextOk(text)) /\ Ran(wire', parts', dispatched', sent')
<1>5. ASSUME dispatched' = dispatched, parts' = {} PROVE Goal
  BY <1>1, <1>2, <1>3, <1>4, <1>5 DEF Ran
<1>6. ASSUME Begins(f), Collects({<<>>}) PROVE Goal
  <2>1. ~LastRan(at, dispatched, sent)
    BY <1>2, <1>3, <1>6 DEF Begins
  <2> QED
    BY <1>1, <1>3, <1>4, <1>6, <2>1, TextIs DEF Collects, Ran
<1>7. ASSUME Continues(f), Collects({Append(text, f.text) : text \in parts}) PROVE Goal
  <2>1. ~LastRan(at, dispatched, sent)
    BY <1>3, <1>7 DEF Continues
  <2>2. \A text \in parts : TextOk(Append(text, f.text))
    <3> HIDE DEF f
    <3> QED
      BY <1>2, <1>4, <1>7, TextIs DEF Continues
  <2> HIDE DEF f
  <2> QED
    BY <1>1, <1>3, <1>4, <1>7, <2>1, <2>2 DEF Collects, Ran
<1>8. ASSUME NEW text \in parts, Ends(f), Accepts(text, f.digest), Dispatches(text) PROVE Goal
  <2>1. ~LastRan(at, dispatched, sent) /\ NoBegin(wire')
    BY <1>2, <1>3, <1>8 DEF Ends
  <2>2. text \in Digests /\ text # <<"no digest">>
    BY <1>2, <1>4, <1>8, TextIs DEF Ends, Accepts
  <2>3. Len(sent) \in 1 .. Len(sent) /\ text = sent[Len(sent)]
    BY <2>2 DEF Digests
  <2>4. /\ IsSeq(dispatched') /\ Len(dispatched') = Len(dispatched) + 1 /\ dispatched'[Len(dispatched) + 1] = text
        /\ \A i \in 1 .. Len(dispatched) : dispatched'[i] = dispatched[i]
    <3>1. dispatched' = Append(dispatched, text)
      BY <1>8 DEF Dispatches
    <3> QED
      BY <1>4, <3>1, AppendIs
  <2> DEFINE n == Len(dispatched)
             k == Len(sent)
             next == [i \in 1 .. n + 1 |-> IF i = n + 1 THEN k ELSE at[i]]
  <2>5. n \in Nat /\ k \in Nat
    BY <1>4 DEF IsSeq
  <2>6. \A i \in 1 .. n : at[i] \in 1 .. k /\ at[i] # k
    BY <1>3, <2>1 DEF RanAs, LastRan
  <2> HIDE DEF k, n
  <2>7. /\ next = [i \in 1 .. n + 1 |-> next[i]] /\ next[n + 1] = k
        /\ \A i \in 1 .. n : next[i] = at[i]
    BY <2>5
  <2> HIDE DEF next
  <2>8. \A i \in 1 .. n + 1 : i = n + 1 \/ i \in 1 .. n
    BY <2>5
  <2>9. next \in [1 .. n + 1 -> 1 .. k]
    <3>1. \A i \in 1 .. n + 1 : next[i] \in 1 .. k
      BY <2>3, <2>6, <2>7, <2>8 DEF k
    <3> QED
      BY <2>7, <3>1
  <2>10. ASSUME NEW i \in 1 .. n + 1, NEW j \in 1 .. n + 1, i < j PROVE next[i] < next[j]
    <3>1. i \in 1 .. n
      BY <2>5, <2>10
    <3>2. CASE j = n + 1
      <4>1. at[i] < k
        BY <2>5, <2>6, <3>1
      <4> QED
        BY <2>7, <3>1, <3>2, <4>1
    <3>3. CASE j \in 1 .. n
      BY <1>3, <2>7, <2>10, <3>1, <3>3 DEF RanAs, n
    <3> QED
      BY <2>8, <3>2, <3>3
  <2>11. \A i \in 1 .. n + 1 : dispatched'[i] = sent[next[i]]
    <3>1. \A i \in 1 .. n : dispatched[i] = sent[at[i]]
      BY <1>3 DEF RanAs, n
    <3> QED
      BY <2>3, <2>4, <2>7, <2>8, <3>1 DEF k, n
  <2>12. RanAs(next, dispatched', sent')
    <3>1. Len(dispatched') = n + 1
      BY <2>4 DEF n
    <3> QED
      BY <1>1, <2>9, <2>10, <2>11, <3>1 DEF RanAs, k
  <2>13. parts' = {}
    BY <1>8 DEF Dispatches
  <2> QED
    BY <2>1, <2>4, <2>12, <2>13 DEF Ran
<1>9. Goal
  <2> HIDE DEF Goal
  <2> QED
    BY <1>5, <1>6, <1>7, <1>8 DEF Take, Refuses, Collects
<1> QED
  BY <1>1, <1>2, <1>4, <1>9 DEF Framing

LEMMA FramingStep == Framing /\ [Next]_vars => Framing'
<1> SUFFICES ASSUME Framing, [Next]_vars PROVE Framing'
  OBVIOUS
<1>1. CASE UNCHANGED <<wire, parts, dispatched, sent>>
  BY <1>1 DEF Framing, Digests
<1>2. CASE UNCHANGED vars
  BY <1>1, <1>2 DEF vars, host
<1>3. CASE AppendPiece \/ Open \/ Move \/ Close \/ Poll
  BY <1>1, <1>3 DEF AppendPiece, Open, Move, Close, Poll, host, reader
<1>4. CASE Take
  BY <1>4, TakeRuns
<1>5. CASE Fault
  BY <1>5, FaultKeeps
<1>6. CASE \E r \in Request, cancel \in BOOLEAN : Send(r, cancel)
  BY <1>6, SendKeeps
<1> QED
  BY <1>2, <1>3, <1>4, <1>5, <1>6 DEF Next, Engine

\* Whatever becomes of the frames, what runs is what was sent, in that order, and no request runs
\* more often than it was sent.
THEOREM RunsAreAsSent == Spec => []RunAsSent
<1>1. Framing => RunAsSent
  <2> SUFFICES ASSUME Framing PROVE RunAsSent
    OBVIOUS
  <2>1. PICK at : RanAs(at, dispatched, sent)
    BY DEF Framing, Ran
  <2>2. DOMAIN dispatched = 1 .. Len(dispatched) /\ DOMAIN sent = 1 .. Len(sent)
    BY DEF Framing, IsSeq
  <2> QED
    BY <2>1, <2>2 DEF RanAs, RunAsSent
<1> QED
  BY <1>1, FramingInit, FramingStep, PTL DEF Spec

=============================================================================
