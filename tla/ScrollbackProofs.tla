-------------------------- MODULE ScrollbackProofs --------------------------
(* Theorems of Scrollback, and the facts about blocks they rest on. *)
EXTENDS Scrollback, SequenceTheorems, WellFoundedInduction, TLAPS

-----------------------------------------------------------------------------
(* Sets of positions.                                                      *)

LEMMA HasMin ==
    ASSUME NEW S \in SUBSET Nat, S # {}
    PROVE  \E m \in S : \A d \in S : m <= d
<1>1. IsWellFoundedOn(OpToRel(<, Nat), Nat)
  BY NatLessThanWellFounded
<1>2. PICK m \in S : \A d \in S : ~(<<d, m>> \in OpToRel(<, Nat))
  BY <1>1, WFMin, Zenon
<1>3. ASSUME NEW d \in S PROVE m <= d
  <2>1. ~(d < m)
    BY <1>2 DEF OpToRel
  <2> QED BY <2>1
<1> QED BY <1>3

LEMMA HasMax ==
    ASSUME NEW n \in Nat, NEW S \in SUBSET (1..n), S # {}
    PROVE  \E m \in S : \A d \in S : d <= m
<1> DEFINE T == {n - d : d \in S}
<1>1. T \in SUBSET Nat /\ T # {}
  <2>1. \A d \in S : n - d \in Nat
    OBVIOUS
  <2> QED BY <2>1
<1>2. PICK t \in T : \A u \in T : t <= u
  BY <1>1, HasMin, Zenon
<1>3. PICK m \in S : t = n - m
  OBVIOUS
<1>4. ASSUME NEW d \in S PROVE d <= m
  <2>1. t <= n - d
    BY <1>2
  <2> QED BY <2>1, <1>3
<1> QED BY <1>4

-----------------------------------------------------------------------------
(* Blocks.                                                                 *)

\* The last end marker and the first opening marker of its block exist and are
\* what their definitions look for.
LEMMA EndFacts ==
    ASSUME NEW s \in Seq(Lines)
    PROVE  /\ EndOf(s) \in 0..Len(s)
           /\ Ends(s) = {} <=> EndOf(s) = 0
           /\ EndOf(s) # 0 => EndOf(s) \in Ends(s)
           /\ \A c \in Ends(s) : c <= EndOf(s)
<1>1. Len(s) \in Nat /\ Ends(s) \in SUBSET (1..Len(s))
  BY DEF Ends
<1>2. CASE Ends(s) = {}
  BY <1>1, <1>2 DEF EndOf
<1>3. CASE Ends(s) # {}
  <2>1. \E c \in Ends(s) : \A d \in Ends(s) : d <= c
    BY <1>1, <1>3, HasMax
  <2>2. /\ EndOf(s) \in Ends(s)
        /\ \A c \in Ends(s) : c <= EndOf(s)
    BY <1>3, <2>1 DEF EndOf
  <2> QED BY <1>1, <1>3, <2>2
<1> QED BY <1>2, <1>3

LEMMA StartFacts ==
    ASSUME NEW s \in Seq(Lines), EndOf(s) # 0
    PROVE  /\ StartOf(s) \in Opens(s, EndOf(s))
           /\ \A o \in Opens(s, EndOf(s)) : StartOf(s) <= o
           /\ EndOf(s) \in 1..Len(s)
           /\ StartOf(s) \in 1..(EndOf(s) - 1)
<1>1. EndOf(s) \in 1..Len(s) /\ Opens(s, EndOf(s)) # {}
  BY EndFacts DEF Ends
<1>2. Opens(s, EndOf(s)) \in SUBSET Nat
  BY <1>1 DEF Opens
<1>3. \E o \in Opens(s, EndOf(s)) : \A d \in Opens(s, EndOf(s)) : o <= d
  BY <1>1, <1>2, HasMin
<1>4. /\ StartOf(s) \in Opens(s, EndOf(s))
      /\ \A o \in Opens(s, EndOf(s)) : StartOf(s) <= o
  BY <1>3 DEF StartOf
<1> QED BY <1>1, <1>4 DEF Opens

\* Both are determined by what they look for.
LEMMA EndIs ==
    ASSUME NEW s \in Seq(Lines), NEW c \in Ends(s), \A d \in Ends(s) : d <= c
    PROVE  EndOf(s) = c
<1>1. EndOf(s) \in Ends(s) /\ c <= EndOf(s)
  BY EndFacts
<1>2. EndOf(s) <= c
  BY <1>1
<1>3. EndOf(s) \in Int /\ c \in Int
  BY EndFacts DEF Ends
<1> QED BY <1>1, <1>2, <1>3

LEMMA StartIs ==
    ASSUME NEW s \in Seq(Lines), EndOf(s) # 0, NEW o \in Opens(s, EndOf(s)),
           \A d \in Opens(s, EndOf(s)) : o <= d
    PROVE  StartOf(s) = o
<1>1. StartOf(s) \in Opens(s, EndOf(s)) /\ StartOf(s) <= o /\ o <= StartOf(s)
  BY StartFacts
<1>2. StartOf(s) \in Int /\ o \in Int
  BY StartFacts DEF Opens
<1> QED BY <1>1, <1>2

\* What is printed below leaves the blocks above as they are.
LEMMA OpensAppend ==
    ASSUME NEW s \in Seq(Lines), NEW t \in Seq(Lines), NEW c \in 1..(Len(s) + 1)
    PROVE  Opens(s \o t, c) = Opens(s, c)
<1>1. \A i \in 1..Len(s) : (s \o t)[i] = s[i]
  BY ConcatProperties
<1>2. \A o \in 1..(c - 1) : NoClose(s \o t, o, c - 1) <=> NoClose(s, o, c - 1)
  BY <1>1 DEF NoClose
<1> QED BY <1>1, <1>2 DEF Opens

LEMMA EndsAppend ==
    ASSUME NEW s \in Seq(Lines), NEW t \in Seq(Lines), NEW c \in 1..Len(s)
    PROVE  c \in Ends(s \o t) <=> c \in Ends(s)
<1>1. (s \o t)[c] = s[c] /\ Len(s \o t) = Len(s) + Len(t)
  BY ConcatProperties
<1>2. Opens(s \o t, c) = Opens(s, c)
  BY OpensAppend
<1> QED BY <1>1, <1>2 DEF Ends

\* Lines from m to n that stand k places higher elsewhere are the same slice.
LEMMA SameSlice ==
    ASSUME NEW s \in Seq(Lines), NEW u \in Seq(Lines), NEW k \in Nat,
           NEW m \in Int, NEW n \in Int,
           \A i \in m..n : s[i] \in Lines /\ u[i - k] = s[i]
    PROVE  /\ SubSeq(s, m, n) \in Seq(Lines)
           /\ SubSeq(u, m - k, n - k) = SubSeq(s, m, n)
<1> DEFINE S == SubSeq(s, m, n)  U == SubSeq(u, m - k, n - k)
<1>1. /\ S \in Seq(Lines)
      /\ Len(S) = IF m <= n THEN n - m + 1 ELSE 0
      /\ \A i \in 1..(n - m + 1) : S[i] = s[m + i - 1]
  BY SubSeqProperties
<1>2. \A j \in (m - k)..(n - k) : u[j] = s[j + k] /\ u[j] \in Lines
  <2> TAKE j \in (m - k)..(n - k)
  <2>1. j + k \in m..n /\ (j + k) - k = j
    OBVIOUS
  <2> QED BY <2>1
<1>3. m - k \in Int /\ n - k \in Int
  OBVIOUS
<1>4. /\ U \in Seq(Lines)
      /\ Len(U) = IF m - k <= n - k THEN (n - k) - (m - k) + 1 ELSE 0
      /\ \A i \in 1..((n - k) - (m - k) + 1) : U[i] = u[(m - k) + i - 1]
  BY <1>2, <1>3, SubSeqProperties
<1>5. (n - k) - (m - k) + 1 = n - m + 1 /\ (m - k <= n - k <=> m <= n)
  OBVIOUS
<1>6. Len(U) = Len(S)
  BY <1>1, <1>4, <1>5
<1>7. \A i \in 1..Len(S) : U[i] = S[i]
  <2> TAKE i \in 1..Len(S)
  <2>1. i \in 1..(n - m + 1)
    BY <1>1
  <2>2. U[i] = u[(m - k) + i - 1] /\ S[i] = s[m + i - 1]
    BY <2>1, <1>1, <1>4, <1>5
  <2>3. m + i - 1 \in m..n /\ (m + i - 1) - k = (m - k) + i - 1
    BY <2>1
  <2> QED BY <2>2, <2>3
<1> QED BY <1>1, <1>4, <1>6, <1>7, SeqEqual

\* The screen u shows what s showed, k lines higher, and possibly more below; the
\* last block of s is wholly on it.
Shifted(s, u, k) ==
    /\ k \in Nat /\ Len(s) - k <= Len(u)
    /\ \A i \in (k + 1)..Len(s) : u[i - k] = s[i]
    /\ EndOf(s) # 0 /\ k < StartOf(s)

LEMMA ShiftedOpens ==
    ASSUME NEW s \in Seq(Lines), NEW u \in Seq(Lines), NEW k, Shifted(s, u, k)
    PROVE  \A o \in Nat : o - k \in Opens(u, EndOf(s) - k)
                              <=> o \in Opens(s, EndOf(s)) /\ k < o
<1> DEFINE e == EndOf(s)
<1>1. e \in 1..Len(s) /\ k \in Nat /\ Len(s) \in Nat /\ Len(u) \in Nat
  BY StartFacts DEF Shifted
<1> TAKE o \in Nat
<1>2. o - k \in 1..(e - k - 1) <=> o \in 1..(e - 1) /\ k < o
  BY <1>1
<1>3. ASSUME o \in 1..(e - 1), k < o
      PROVE  /\ u[o - k] = s[o]
             /\ NoClose(u, o - k, e - k - 1) <=> NoClose(s, o, e - 1)
  <2>1. \A i \in o..(e - 1) : u[i - k] = s[i]
    BY <1>1, <1>3 DEF Shifted
  <2>2. \A j \in (o - k)..(e - k - 1) : j + k \in o..(e - 1) /\ u[j] = s[j + k]
    <3> TAKE j \in (o - k)..(e - k - 1)
    <3>1. j + k \in o..(e - 1) /\ (j + k) - k = j
      BY <1>1, <1>3
    <3> QED BY <3>1, <2>1
  <2>3. \A i \in o..(e - 1) : i - k \in (o - k)..(e - k - 1)
    BY <1>1, <1>3
  <2>4. u[o - k] = s[o]
    BY <1>1, <1>3, <2>1
  <2>5. ASSUME NoClose(s, o, e - 1) PROVE NoClose(u, o - k, e - k - 1)
    BY <2>2, <2>5 DEF NoClose
  <2>6. ASSUME NoClose(u, o - k, e - k - 1) PROVE NoClose(s, o, e - 1)
    BY <2>1, <2>3, <2>6 DEF NoClose
  <2> QED BY <2>4, <2>5, <2>6
<1>4. (e - k) - 1 = e - k - 1
  BY <1>1
<1> QED BY <1>2, <1>3, <1>4 DEF Opens

LEMMA ShiftedBlock ==
    ASSUME NEW s \in Seq(Lines), NEW u \in Seq(Lines), NEW k, NEW w, Shifted(s, u, k)
    PROVE  /\ EndOf(s) - k <= EndOf(u)
           /\ EndOf(u) = EndOf(s) - k => Output(u, w) = Output(s, w)
<1> DEFINE e == EndOf(s)  o == StartOf(s)
<1>1. /\ e \in 1..Len(s) /\ o \in 1..(e - 1)
      /\ o \in Opens(s, e) /\ \A d \in Opens(s, e) : o <= d
  BY StartFacts DEF Shifted
<1>2. /\ k \in Nat /\ Len(s) \in Nat /\ Len(u) \in Nat /\ Len(s) - k <= Len(u)
      /\ k < o /\ \A i \in (k + 1)..Len(s) : u[i - k] = s[i]
  BY DEF Shifted
<1>3. \A d \in Nat : d - k \in Opens(u, e - k) <=> d \in Opens(s, e) /\ k < d
  BY ShiftedOpens
<1>4. e - k \in Ends(u)
  <2>1. e - k \in 1..Len(u) /\ u[e - k] = s[e]
    BY <1>1, <1>2
  <2>2. s[e] = "close"
    BY EndFacts, <1>1 DEF Ends
  <2>3. o - k \in Opens(u, e - k)
    BY <1>1, <1>2, <1>3
  <2> QED BY <2>1, <2>2, <2>3 DEF Ends
<1>5. e - k <= EndOf(u)
  BY <1>4, EndFacts
<1>6. ASSUME EndOf(u) = e - k PROVE Output(u, w) = Output(s, w)
  <2>1. EndOf(u) # 0 /\ o - k \in Opens(u, EndOf(u))
    BY <1>1, <1>2, <1>3, <1>6
  <2>2. \A d \in Opens(u, EndOf(u)) : o - k <= d
    <3> TAKE d \in Opens(u, EndOf(u))
    <3>1. d \in Nat /\ d + k \in Nat /\ (d + k) - k = d
      BY <1>2 DEF Opens
    <3>2. d + k \in Opens(s, e)
      BY <3>1, <1>3, <1>6
    <3> QED BY <3>1, <3>2, <1>1, <1>2
  <2>3. StartOf(u) = o - k
    BY <2>1, <2>2, StartIs
  <2>4. u[o - k + 1] = s[o + 1]
    <3>1. o + 1 \in (k + 1)..Len(s) /\ (o + 1) - k = o - k + 1
      BY <1>1, <1>2
    <3> QED BY <3>1, <1>2
  <2>5. SubSeq(u, (o + 2) - k, (e - 1) - k) = SubSeq(s, o + 2, e - 1)
    <3>1. \A i \in (o + 2)..(e - 1) : s[i] \in Lines /\ u[i - k] = s[i]
      BY <1>1, <1>2
    <3>2. o + 2 \in Int /\ e - 1 \in Int
      BY <1>1
    <3>3. k \in Nat
      BY <1>2
    <3> HIDE DEF e, o
    <3> QED BY <3>1, <3>2, <3>3, SameSlice, Zenon
  <2>6. /\ StartOf(u) + 1 = o - k + 1
        /\ StartOf(u) + 1 + 1 = (o + 2) - k
        /\ EndOf(u) - 1 = (e - 1) - k
        /\ o + 1 + 1 = o + 2
        /\ (o - k + 1 = e - k <=> o + 1 = e)
        /\ e # 0
    BY <1>1, <1>2, <1>6, <2>3
  <2>7. EndOf(u) = e - k
    BY <1>6
  <2> QED BY <2>1, <2>4, <2>5, <2>6, <2>7 DEF Output
<1> QED BY <1>5, <1>6

-----------------------------------------------------------------------------
(* What a screen is read as.                                               *)

LEMMA OutputType ==
    ASSUME NEW s \in Seq(Lines), NEW w \in Widths, Output(s, w) # None
    PROVE  /\ Output(s, w).decision \in StatusLines
           /\ Output(s, w).body \in Bodies \cup {None}
           /\ EndOf(s) # 0
<1> DEFINE m == StartOf(s) + 1 + 1  n == EndOf(s) - 1  body == SubSeq(s, m, n)
<1>1. /\ EndOf(s) # 0 /\ s[StartOf(s) + 1] \in StatusLines
      /\ Output(s, w) = [decision |-> s[StartOf(s) + 1], body |-> Body(body, w)]
  BY DEF Output
<1>2. EndOf(s) \in 1..Len(s) /\ StartOf(s) \in 1..(EndOf(s) - 1)
  BY <1>1, StartFacts
<1>3. m \in Int /\ n \in Int /\ \A i \in m..n : s[i] \in Lines
  BY <1>2
<1>4. body \in Seq(Lines)
  <2> HIDE DEF m, n
  <2> QED BY <1>3, SubSeqProperties
<1>5. Shown(body, w) \in Bodies
  BY <1>4 DEF Shown, Bodies
<1>6. Body(body, w) \in Bodies \cup {None}
  BY <1>5 DEF Body
<1> QED BY <1>1, <1>6

LEMMA ConcatLines ==
    ASSUME NEW s \in Seq(Lines), NEW t \in Seq(Lines)
    PROVE  /\ s \o t \in Seq(Lines) /\ Len(s \o t) = Len(s) + Len(t)
           /\ \A i \in 1..Len(s) : (s \o t)[i] = s[i]
           /\ \A i \in (Len(s) + 1)..(Len(s) + Len(t)) : (s \o t)[i] = t[i - Len(s)]
<1>1. Len(s) \in Nat /\ Len(t) \in Nat
  OBVIOUS
<1>2. \A i \in (Len(s) + 1)..(Len(s) + Len(t)) : i \in 1..(Len(s) + Len(t)) /\ ~(i <= Len(s))
  BY <1>1
<1>3. \A i \in 1..Len(s) : i \in 1..(Len(s) + Len(t)) /\ i <= Len(s)
  BY <1>1
<1> QED BY <1>2, <1>3, ConcatProperties

\* A body is a sequence of lines, and so is the block around it.
LEMMA BodyLines ==
    ASSUME NEW body \in Given
    PROVE  /\ body \in Seq(Lines) /\ Len(body) \in 1..MaxBody
           /\ \A i \in 1..Len(body) : body[i] # "close"
<1>1. PICK n \in 1..MaxBody : body \in [1..n -> Lines \ {"close"}]
  BY DEF Given
<1>2. MaxBody \in Nat
  BY ConstantsOK DEF ConstantsAssumption
<1> QED BY <1>1, <1>2

LEMMA BlockLines ==
    ASSUME NEW decision \in StatusLines, NEW body \in Given
    PROVE  LET b == Block(decision, body)  n == Len(body) IN
           /\ b \in Seq(Lines) /\ Len(b) = n + 3
           /\ b[1] = "open" /\ b[2] = decision /\ b[n + 3] = "close"
           /\ \A i \in 1..n : b[i + 2] = body[i]
<1> DEFINE n == Len(body)  h == <<"open", decision>>  hb == h \o body
<1>1. /\ body \in Seq(Lines) /\ n \in Nat
      /\ h \in Seq(Lines) /\ Len(h) = 2 /\ h[1] = "open" /\ h[2] = decision
      /\ <<"close">> \in Seq(Lines) /\ Len(<<"close">>) = 1 /\ <<"close">>[1] = "close"
  BY BodyLines DEF Lines
<1>2. /\ hb \in Seq(Lines) /\ Len(hb) = n + 2
      /\ hb[1] = "open" /\ hb[2] = decision
      /\ \A i \in 1..n : hb[i + 2] = body[i]
  <2> HIDE DEF h
  <2>1. /\ hb \in Seq(Lines) /\ Len(hb) = 2 + n
        /\ \A i \in 1..2 : hb[i] = h[i]
        /\ \A i \in 3..(2 + n) : hb[i] = body[i - 2]
    <3>1. /\ hb \in Seq(Lines) /\ Len(hb) = Len(h) + Len(body)
          /\ \A i \in 1..Len(h) : hb[i] = h[i]
          /\ \A i \in (Len(h) + 1)..(Len(h) + Len(body)) : hb[i] = body[i - Len(h)]
      BY <1>1, ConcatLines
    <3> HIDE DEF hb
    <3> QED BY <1>1, <3>1
  <2>2. \A i \in 1..n : i + 2 \in 3..(2 + n) /\ (i + 2) - 2 = i
    BY <1>1
  <2> QED BY <1>1, <2>1, <2>2
<1>3. Block(decision, body) = hb \o <<"close">>
  BY DEF Block
<1> HIDE DEF hb
<1>4. /\ hb \o <<"close">> \in Seq(Lines) /\ Len(hb \o <<"close">>) = n + 3
      /\ \A i \in 1..(n + 2) : (hb \o <<"close">>)[i] = hb[i]
      /\ (hb \o <<"close">>)[n + 3] = "close"
  BY <1>1, <1>2, ConcatProperties
<1>5. 1 \in 1..(n + 2) /\ 2 \in 1..(n + 2) /\ \A i \in 1..n : i + 2 \in 1..(n + 2)
  BY <1>1
<1> QED BY <1>2, <1>3, <1>4, <1>5

\* A whole block below a screen on which no marker is open.
LEMMA BlockIsRead ==
    ASSUME NEW s \in Seq(Lines), ~LeftOpen(s), NEW w,
           NEW decision \in StatusLines, NEW body \in Given
    PROVE  Output(s \o Block(decision, body), w)
              = [decision |-> decision, body |-> Shown(body, w)]
<1> DEFINE b == Block(decision, body)  u == s \o b  k == Len(s)  n == Len(body)
           e == k + n + 3
<1>0. /\ decision # "close" /\ MaxBody \in Nat /\ body \in Seq(Lines)
      /\ n \in 1..MaxBody /\ \A i \in 1..n : body[i] # "close"
  BY ConstantsOK, BodyLines DEF ConstantsAssumption, H!Decisions
<1>1. /\ b \in Seq(Lines) /\ Len(b) = n + 3
      /\ b[1] = "open" /\ b[2] = decision /\ b[n + 3] = "close"
      /\ \A i \in 1..n : b[i + 2] = body[i]
  BY BlockLines
<1> HIDE DEF b
<1>2. /\ k \in Nat /\ n \in Nat /\ e \in Nat /\ u \in Seq(Lines) /\ Len(u) = e
      /\ \A i \in 1..k : u[i] = s[i]
      /\ \A i \in (k + 1)..e : u[i] = b[i - k]
  <2>1. /\ u \in Seq(Lines) /\ Len(u) = Len(s) + Len(b)
        /\ \A i \in 1..Len(s) : u[i] = s[i]
        /\ \A i \in (Len(s) + 1)..(Len(s) + Len(b)) : u[i] = b[i - Len(s)]
    BY <1>1, ConcatLines
  <2>2. Len(s) \in Nat /\ n \in Nat /\ Len(s) + Len(b) = e
    BY <1>0, <1>1
  <2> HIDE DEF u
  <2> QED BY <2>1, <2>2
<1>3. /\ u[k + 1] = "open" /\ u[k + 2] = decision /\ u[e] = "close"
      /\ \A i \in (k + 3)..(e - 1) : u[i] = body[i - (k + 2)]
  <2>1. \A j \in 1..(n + 3) : k + j \in (k + 1)..e /\ (k + j) - k = j
    BY <1>2
  <2>2. \A j \in 1..(n + 3) : u[k + j] = b[j]
    BY <2>1, <1>2
  <2>3. 1 \in 1..(n + 3) /\ 2 \in 1..(n + 3) /\ n + 3 \in 1..(n + 3) /\ k + (n + 3) = e
    BY <1>2
  <2>4. ASSUME NEW i \in (k + 3)..(e - 1) PROVE u[i] = body[i - (k + 2)]
    <3>1. /\ i - (k + 2) \in 1..n /\ (i - (k + 2)) + 2 = i - k
          /\ i - k \in 1..(n + 3) /\ k + (i - k) = i
      BY <1>2
    <3> QED BY <3>1, <2>2, <1>1
  <2> QED BY <2>2, <2>3, <2>4, <1>1
<1> HIDE DEF u
<1>4. NoClose(u, k + 1, e - 1)
  <2>1. \A i \in (k + 1)..(e - 1) : i = k + 1 \/ i = k + 2 \/ i \in (k + 3)..(e - 1)
    BY <1>2
  <2>2. \A i \in (k + 3)..(e - 1) : i - (k + 2) \in 1..n
    BY <1>2
  <2> QED BY <2>1, <2>2, <1>0, <1>3 DEF NoClose
<1>5. k + 1 \in Opens(u, e)
  <2>1. k + 1 \in 1..(e - 1)
    BY <1>2
  <2> QED BY <2>1, <1>3, <1>4 DEF Opens
<1>6. EndOf(u) = e /\ e # 0 /\ e \in 1..Len(u)
  <2>1. e \in 1..Len(u) /\ e # 0
    BY <1>2
  <2>2. e \in Ends(u)
    BY <2>1, <1>3, <1>5 DEF Ends
  <2>3. \A d \in Ends(u) : d <= e
    BY <1>2 DEF Ends
  <2> QED BY <1>2, <2>1, <2>2, <2>3, EndIs
<1>7. \A o \in Opens(u, e) : k + 1 <= o
  <2> TAKE o \in Opens(u, e)
  <2>1. o \in 1..(e - 1) /\ u[o] = "open" /\ NoClose(u, o, e - 1)
    BY DEF Opens
  <2>2. ~(o <= k)
    <3> SUFFICES ASSUME o <= k PROVE FALSE
      OBVIOUS
    <3>1. \A i \in o..k : i \in o..(e - 1) /\ u[i] = s[i]
      BY <1>2, <2>1
    <3>2. o \in o..k /\ o \in 1..Len(s)
      BY <1>2, <2>1
    <3>3. s[o] = "open" /\ NoClose(s, o, k)
      BY <2>1, <3>1, <3>2 DEF NoClose
    <3> QED BY <3>2, <3>3 DEF LeftOpen
  <2> QED BY <2>1, <2>2, <1>2
<1>8. StartOf(u) = k + 1
  BY <1>2, <1>5, <1>6, <1>7, StartIs
<1>9. SubSeq(u, k + 3, e - 1) = body
  <2>1. /\ k + 3 \in Int /\ e - 1 \in Int /\ k + 2 \in Nat
        /\ (k + 3) - (k + 2) = 1 /\ (e - 1) - (k + 2) = n
        /\ \A i \in (k + 3)..(e - 1) : i \in 1..Len(u)
    BY <1>2
  <2>2. \A i \in (k + 3)..(e - 1) : u[i] \in Lines /\ body[i - (k + 2)] = u[i]
    BY <1>2, <1>3, <2>1
  <2>3. SubSeq(body, 1, n) = body
    BY <1>0, SubSeqFull
  <2> HIDE DEF e, k, n
  <2>4. SubSeq(body, (k + 3) - (k + 2), (e - 1) - (k + 2)) = SubSeq(u, k + 3, e - 1)
    BY <1>0, <1>2, <2>1, <2>2, SameSlice
  <2> QED BY <2>1, <2>3, <2>4
<1>10. Body(body, w) = Shown(body, w)
  <2>1. body # <<>> /\ ~(Len(body) > MaxBody)
    BY <1>0
  <2> QED BY <2>1 DEF Body
<1>11. /\ StartOf(u) + 1 = k + 2 /\ StartOf(u) + 1 + 1 = k + 3 /\ k + 2 # e
       /\ EndOf(u) - 1 = e - 1
  BY <1>2, <1>6, <1>8
<1>12. /\ EndOf(u) # 0 /\ StartOf(u) + 1 # EndOf(u) /\ u[StartOf(u) + 1] = decision
       /\ SubSeq(u, StartOf(u) + 1 + 1, EndOf(u) - 1) = body
  <2> HIDE DEF e, k
  <2> QED BY <1>3, <1>6, <1>9, <1>11
<1>13. Output(u, w) = [decision |-> decision, body |-> Body(body, w)]
  <2> HIDE DEF e, k
  <2> QED BY <1>12 DEF Output
<1> QED BY <1>10, <1>13 DEF u, b

\* An end marker closes what was open; what the history drops opens nothing.
LEMMA CloseEnds ==
    ASSUME NEW s \in Seq(Lines), s[Len(s)] = "close"
    PROVE  ~LeftOpen(s)
<1> SUFFICES ASSUME NEW o \in 1..Len(s), NoClose(s, o, Len(s)) PROVE FALSE
  BY DEF LeftOpen
<1>1. Len(s) \in o..Len(s)
  OBVIOUS
<1> QED BY <1>1 DEF NoClose

LEMMA TailOpensNothing ==
    ASSUME NEW s \in Seq(Lines), ~LeftOpen(s), NEW cut \in 0..Len(s)
    PROVE  /\ SubSeq(s, cut + 1, Len(s)) \in Seq(Lines)
           /\ ~LeftOpen(SubSeq(s, cut + 1, Len(s)))
<1> DEFINE n == Len(s)  t == SubSeq(s, cut + 1, n)
<1>1. n \in Nat /\ cut \in Nat /\ cut <= n /\ n - (cut + 1) + 1 = n - cut
  OBVIOUS
<1>2. \A i \in (cut + 1)..n : s[i] \in Lines
  OBVIOUS
<1>3. /\ t \in Seq(Lines)
      /\ Len(t) = IF cut + 1 <= n THEN n - (cut + 1) + 1 ELSE 0
      /\ \A i \in 1..(n - (cut + 1) + 1) : t[i] = s[(cut + 1) + i - 1]
  BY <1>1, <1>2, SubSeqProperties
<1>4. Len(t) = n - cut
  <2> HIDE DEF t, n
  <2>1. CASE cut + 1 <= n
    BY <1>1, <1>3, <2>1
  <2>2. CASE ~(cut + 1 <= n)
    <3>1. Len(t) = 0
      BY <1>3, <2>2
    <3> QED BY <1>1, <2>2, <3>1
  <2> QED BY <2>1, <2>2
<1>5. \A i \in 1..(n - cut) : t[i] = s[cut + i]
  <2> TAKE i \in 1..(n - cut)
  <2>1. (cut + 1) + i - 1 = cut + i
    BY <1>1
  <2> QED BY <2>1, <1>1, <1>3
<1> HIDE DEF t
<1>6. ASSUME NEW o \in 1..Len(t), t[o] = "open", NoClose(t, o, Len(t)) PROVE FALSE
  <2>1. cut + o \in 1..n /\ s[cut + o] = "open"
    BY <1>1, <1>4, <1>5, <1>6
  <2>2. NoClose(s, cut + o, n)
    <3> SUFFICES ASSUME NEW i \in (cut + o)..n PROVE s[i] # "close"
      BY DEF NoClose
    <3>1. i - cut \in o..Len(t) /\ i - cut \in 1..(n - cut) /\ cut + (i - cut) = i
      BY <1>1, <1>4
    <3> QED BY <3>1, <1>5, <1>6 DEF NoClose
  <2> QED BY <2>1, <2>2 DEF LeftOpen
<1> QED BY <1>3, <1>6 DEF LeftOpen, t

-----------------------------------------------------------------------------
(* Steps.                                                                  *)

\* A screen that scrolls: what is left of it stands higher.
LEMMA ShowScrolls ==
    ASSUME TypeOK, NEW lines \in Seq(Lines), Show(lines)
    PROVE  \E cut \in Nat :
              /\ cut = Excess(screen \o lines)
              /\ screen' \in Seq(Lines) /\ Len(screen') <= History
              /\ Len(screen) - cut <= Len(screen')
              /\ Len(screen') = Len(screen) + Len(lines) - cut
              /\ \A i \in (cut + 1)..(Len(screen) + Len(lines)) :
                    screen'[i - cut] = (screen \o lines)[i]
              /\ \A i \in (cut + 1)..Len(screen) : screen'[i - cut] = screen[i]
              /\ takenEnd' = IF takenEnd > cut THEN takenEnd - cut ELSE 0
              /\ renewed' = (renewed \/ (takenEnd > cut /\ cut >= StartOf(screen)))
              /\ UNCHANGED <<width, last>>
<1> DEFINE all == screen \o lines
           cut == Excess(all)
<1>1. /\ screen \in Seq(Lines) /\ Len(screen) \in Nat /\ Len(lines) \in Nat
      /\ History \in Nat
  BY ConstantsOK DEF ConstantsAssumption, TypeOK
<1>2. /\ all \in Seq(Lines) /\ Len(all) = Len(screen) + Len(lines)
      /\ \A i \in 1..Len(screen) : all[i] = screen[i]
  BY <1>1, ConcatProperties
<1>3. cut \in Nat /\ cut <= Len(all) /\ Len(all) - cut <= History
  BY <1>1, <1>2 DEF Excess
<1>4. /\ screen' = SubSeq(all, cut + 1, Len(all))
      /\ takenEnd' = IF takenEnd > cut THEN takenEnd - cut ELSE 0
      /\ renewed' = (renewed \/ (takenEnd > cut /\ cut >= StartOf(screen)))
      /\ UNCHANGED <<width, last>>
  BY DEF Show, Kept
<1> HIDE DEF all, cut
<1>5. \A i \in (cut + 1)..Len(all) : all[i] \in Lines
  BY <1>2, <1>3
<1>6. /\ screen' \in Seq(Lines)
      /\ Len(screen') = IF cut + 1 <= Len(all) THEN Len(all) - (cut + 1) + 1 ELSE 0
      /\ \A i \in 1..(Len(all) - (cut + 1) + 1) : screen'[i] = all[(cut + 1) + i - 1]
  <2>1. cut + 1 \in Int /\ Len(all) \in Int
    BY <1>2, <1>3
  <2> QED BY <2>1, <1>4, <1>5, SubSeqProperties
<1>7. Len(screen') = Len(all) - cut
  <2>1. Len(all) \in Nat /\ cut \in Nat /\ cut <= Len(all)
    BY <1>1, <1>2, <1>3
  <2>2. CASE cut + 1 <= Len(all)
    <3>1. Len(screen') = Len(all) - (cut + 1) + 1
      BY <1>6, <2>2
    <3> QED BY <2>1, <3>1
  <2>3. CASE ~(cut + 1 <= Len(all))
    <3>1. Len(screen') = 0
      BY <1>6, <2>3
    <3> QED BY <2>1, <2>3, <3>1
  <2> QED BY <2>2, <2>3
<1>8. /\ \A i \in (cut + 1)..Len(all) : screen'[i - cut] = all[i]
      /\ \A i \in (cut + 1)..Len(screen) : screen'[i - cut] = screen[i]
  <2>1. \A i \in (cut + 1)..Len(all) :
           i - cut \in 1..(Len(all) - (cut + 1) + 1) /\ (cut + 1) + (i - cut) - 1 = i
    BY <1>1, <1>2, <1>3
  <2>2. \A i \in (cut + 1)..Len(all) : screen'[i - cut] = all[i]
    BY <2>1, <1>6
  <2>3. \A i \in (cut + 1)..Len(screen) : i \in (cut + 1)..Len(all) /\ i \in 1..Len(screen)
    BY <1>1, <1>2, <1>3
  <2> QED BY <2>2, <2>3, <1>2
<1>9. Len(screen') <= History /\ Len(screen) - cut <= Len(screen')
  BY <1>1, <1>2, <1>3, <1>7
<1>10. /\ Len(screen') = Len(screen) + Len(lines) - cut
       /\ \A i \in (cut + 1)..(Len(screen) + Len(lines)) : screen'[i - cut] = all[i]
  <2>1. Len(all) = Len(screen) + Len(lines)
    BY <1>2
  <2>2. Len(screen') = Len(screen) + Len(lines) - cut
    BY <1>1, <1>3, <2>1, <1>7
  <2>3. ASSUME NEW i \in (cut + 1)..(Len(screen) + Len(lines)) PROVE screen'[i - cut] = all[i]
    <3>1. i \in (cut + 1)..Len(all)
      BY <2>1
    <3> QED BY <3>1, <1>8
  <2> QED BY <2>2, <2>3
<1>11. cut = Excess(screen \o lines) /\ all = screen \o lines
  BY DEF all, cut
<1> QED BY <1>3, <1>4, <1>6, <1>8, <1>9, <1>10, <1>11

\* Printing and delivering show lines.
LEMMA GivenLines ==
    ASSUME NEW body \in Given
    PROVE  /\ <<Envelope>> \o body \in Seq(Lines) /\ body \in Seq(Lines)
           /\ \A i \in 1..Len(body) : body[i] # "close"
           /\ <<Envelope>> \in Seq(Lines) /\ Envelope # "close"
<1>1. PICK n \in 1..MaxBody : body \in [1..n -> Lines \ {"close"}]
  BY DEF Given
<1>2. MaxBody \in Nat /\ Envelope \in Lines /\ Envelope # "close"
  BY ConstantsOK DEF ConstantsAssumption, Texts, Lines
<1>3. body \in Seq(Lines) /\ Len(body) = n
  BY <1>1, <1>2
<1>4. <<Envelope>> \in Seq(Lines)
  BY <1>2
<1> QED BY <1>1, <1>2, <1>3, <1>4, ConcatProperties

LEMMA BlockFacts ==
    ASSUME TypeOK, NewBlock
    PROVE  /\ DigestOf(Output(screen, width)) \in H!Digests
           /\ EndOf(screen) \in 1..Len(screen)
<1> DEFINE out == Output(screen, width)
<1>1. out # None /\ out.decision \in H!Allowed[Role] /\ out.body # None
  BY DEF NewBlock, H!Parses
<1>2. out.decision \in StatusLines /\ out.body \in Bodies \cup {None} /\ EndOf(screen) # 0
  BY <1>1, OutputType DEF TypeOK
<1>3. Role \in H!Roles /\ StatusLines \subseteq H!Decisions
  BY ConstantsOK DEF ConstantsAssumption
<1>4. DigestOf(out) \in H!Digests
  BY <1>1, <1>2, <1>3 DEF DigestOf, H!Digest, H!Digests
<1>5. EndOf(screen) \in 1..Len(screen)
  BY <1>2, StartFacts DEF TypeOK
<1> QED BY <1>4, <1>5

LEMMA TakeFacts ==
    ASSUME TypeOK, Take
    PROVE  last' \in H!Digests /\ EndOf(screen) \in 1..Len(screen)
  BY BlockFacts DEF Take

-----------------------------------------------------------------------------
(* Variables keep their types, whatever is printed, pasted, resized or     *)
(* forgotten, for any history and any lines.                               *)
THEOREM TypeCorrect == Spec => []TypeOK
<1>1. Init => TypeOK
  <2> SUFFICES ASSUME Init PROVE TypeOK
    OBVIOUS
  <2>1. screen \in Seq(Lines) /\ Len(screen) <= History /\ 0 \in 0..Len(screen)
    BY ConstantsOK DEF Init, ConstantsAssumption
  <2> QED BY <2>1 DEF Init, TypeOK
<1>2. TypeOK /\ [Next]_vars => TypeOK'
  <2> SUFFICES ASSUME TypeOK, [Next]_vars PROVE TypeOK'
    OBVIOUS
  <2>1. ASSUME NEW lines \in Seq(Lines), Show(lines),
               NEW S \in SUBSET (1..(Len(screen) + Len(lines))),
               settled' = Higher(S, Excess(screen \o lines))
        PROVE  TypeOK'
    <3>1. PICK cut \in Nat :
             /\ cut = Excess(screen \o lines)
             /\ Len(screen') = Len(screen) + Len(lines) - cut
             /\ screen' \in Seq(Lines) /\ Len(screen') <= History
             /\ Len(screen) - cut <= Len(screen')
             /\ takenEnd' = IF takenEnd > cut THEN takenEnd - cut ELSE 0
             /\ renewed' = (renewed \/ (takenEnd > cut /\ cut >= StartOf(screen)))
             /\ UNCHANGED <<width, last>>
      BY <2>1, ShowScrolls
    <3>2. takenEnd' \in 0..Len(screen')
      BY <3>1 DEF TypeOK
    <3>3. renewed' \in BOOLEAN
      BY <3>1
    <3>4. settled' \subseteq 1..Len(screen')
      <4>1. Len(screen) \in Nat /\ Len(lines) \in Nat
        BY DEF TypeOK
      <4>2. \A j \in S : j > cut => j - cut \in 1..Len(screen')
        BY <4>1, <3>1
      <4> QED BY <4>2, <3>1, <2>1 DEF Higher
    <3> QED BY <3>1, <3>2, <3>3, <3>4 DEF TypeOK
  <2>2. ASSUME NEW line \in Lines, PrintLine(line) PROVE TypeOK'
    <3>1. /\ <<line>> \in Seq(Lines) /\ Show(<<line>>)
          /\ settled' = Higher(settled, Excess(screen \o <<line>>))
      BY <2>2 DEF PrintLine
    <3>2. settled \in SUBSET (1..(Len(screen) + Len(<<line>>)))
      BY DEF TypeOK
    <3> QED BY <2>1, <3>1, <3>2
  <2>3. ASSUME NEW body \in Given, Deliver(body) PROVE TypeOK'
    <3> DEFINE lines == <<Envelope>> \o body
               arrived == (Len(screen) + 1)..(Len(screen) + Len(lines))
               S == IF LeftOpen(screen') THEN settled ELSE settled \cup arrived
    <3>1. lines \in Seq(Lines)
      BY GivenLines
    <3>2. Show(lines) /\ settled' = Higher(S, Excess(screen \o lines))
      BY <2>3 DEF Deliver
    <3> HIDE DEF lines
    <3>3. S \in SUBSET (1..(Len(screen) + Len(lines)))
      <4>1. /\ Len(screen) \in Nat /\ Len(lines) \in Nat
            /\ settled \in SUBSET (1..Len(screen))
        BY <3>1 DEF TypeOK
      <4>2. /\ \A i \in 1..Len(screen) : i \in 1..(Len(screen) + Len(lines))
            /\ \A i \in arrived : i \in 1..(Len(screen) + Len(lines))
        BY <4>1
      <4> QED BY <4>1, <4>2, Zenon
    <3> QED BY <2>1, <3>1, <3>2, <3>3
  <2>4. CASE Take
    <3>1. last' \in H!Digests /\ EndOf(screen) \in 0..Len(screen)
      BY <2>4, TakeFacts DEF TypeOK
    <3>2. /\ takenEnd' = EndOf(screen) /\ renewed' = FALSE
          /\ screen' = screen /\ width' = width /\ settled' = settled
      BY <2>4 DEF Take
    <3> QED BY <3>1, <3>2 DEF TypeOK
  <2>5. CASE Resize
    BY <2>5 DEF Resize, TypeOK
  <2>6. CASE Reset
    BY <2>6 DEF Reset, TypeOK
  <2>7. ASSUME NEW prompt \in Prompts, Restart(prompt) PROVE TypeOK'
    <3>1. prompt \in Seq(Lines) /\ Len(prompt) <= History /\ 0 \in 0..Len(prompt)
      BY ConstantsOK DEF ConstantsAssumption
    <3> QED BY <2>7, <3>1 DEF Restart, TypeOK
  <2>8. CASE UNCHANGED vars
    BY <2>8 DEF vars, TypeOK
  <2> QED BY <2>2, <2>3, <2>4, <2>5, <2>6, <2>7, <2>8 DEF Next
<1> QED BY <1>1, <1>2, PTL DEF Spec

(* The block a role prints next, or prints again if a marker was left      *)
(* open, is read as it was printed, on every screen the pane can show and  *)
(* wherever the history then ends.                                         *)
THEOREM ReadsNextBlockTheorem == Spec => []ReadsNextBlock
<1>1. TypeOK => ReadsNextBlock
  <2> SUFFICES ASSUME TypeOK, NEW decision \in StatusLines, NEW body \in Given
               PROVE  LET block == Block(decision, body)
                          above == IF LeftOpen(screen) THEN screen \o block ELSE screen
                      IN  \A cut \in 0..Len(above) :
                             Output(SubSeq(above, cut + 1, Len(above)) \o block, width)
                                = [decision |-> decision, body |-> Shown(body, width)]
    BY DEF ReadsNextBlock
  <2> DEFINE block == Block(decision, body)
             above == IF LeftOpen(screen) THEN screen \o block ELSE screen
  <2>1. above \in Seq(Lines) /\ ~LeftOpen(above)
    <3>1. CASE ~LeftOpen(screen)
      BY <3>1 DEF TypeOK
    <3>2. CASE LeftOpen(screen)
      <4>1. /\ screen \in Seq(Lines) /\ block \in Seq(Lines)
            /\ Len(block) \in Nat \ {0} /\ block[Len(block)] = "close"
        <5>1. /\ block \in Seq(Lines) /\ Len(block) = Len(body) + 3
              /\ block[Len(body) + 3] = "close" /\ Len(body) \in Nat
          BY BlockLines, BodyLines
        <5> HIDE DEF block
        <5> QED BY <5>1 DEF TypeOK
      <4> HIDE DEF block
      <4>2. /\ screen \o block \in Seq(Lines)
            /\ Len(screen \o block) = Len(screen) + Len(block)
            /\ (screen \o block)[Len(screen) + Len(block)] = "close"
        <5>1. /\ Len(screen) \in Nat
              /\ Len(screen) + Len(block) \in (Len(screen) + 1)..(Len(screen) + Len(block))
              /\ (Len(screen) + Len(block)) - Len(screen) = Len(block)
          BY <4>1
        <5> QED BY <4>1, <5>1, ConcatProperties
      <4>3. ~LeftOpen(screen \o block)
        BY <4>2, CloseEnds
      <4> QED BY <3>2, <4>2, <4>3
    <3> QED BY <3>1, <3>2
  <2> HIDE DEF above
  <2>2. ASSUME NEW cut \in 0..Len(above)
        PROVE  Output(SubSeq(above, cut + 1, Len(above)) \o block, width)
                  = [decision |-> decision, body |-> Shown(body, width)]
    <3>1. /\ SubSeq(above, cut + 1, Len(above)) \in Seq(Lines)
          /\ ~LeftOpen(SubSeq(above, cut + 1, Len(above)))
      BY <2>1, TailOpensNothing
    <3> QED BY <3>1, BlockIsRead
  <2> QED BY <2>2 DEF above
<1> QED BY <1>1, TypeCorrect, PTL

-----------------------------------------------------------------------------
(* What was delivered and what was printed.                                *)

\* Above a line, and on it, no marker is open.
Sheltered(s, i) ==
    /\ i \in 1..Len(s) /\ s[i] # "close"
    /\ \A o \in 1..i : s[o] = "open" => ~NoClose(s, o, i)

\* The strengthening OwnWords needs: a delivered line that arrived with no marker left
\* open stays below the end of whatever was opened above it.
SettledInv == \A i \in settled : Sheltered(screen, i)

LEMMA ShelterScrolls ==
    ASSUME NEW s \in Seq(Lines), NEW u \in Seq(Lines), NEW k \in Nat,
           Len(s) - k <= Len(u), \A j \in (k + 1)..Len(s) : u[j - k] = s[j],
           NEW i, Sheltered(s, i), i > k
    PROVE  Sheltered(u, i - k)
<1>1. i \in 1..Len(s) /\ Len(s) \in Nat /\ Len(u) \in Nat
  BY DEF Sheltered
<1>2. i - k \in 1..Len(u) /\ u[i - k] # "close"
  BY <1>1 DEF Sheltered
<1>3. ASSUME NEW o \in 1..(i - k), u[o] = "open", NoClose(u, o, i - k) PROVE FALSE
  <2>1. o + k \in 1..i /\ o + k \in (k + 1)..Len(s) /\ (o + k) - k = o
    BY <1>1
  <2>2. s[o + k] = "open"
    BY <1>3, <2>1
  <2>3. NoClose(s, o + k, i)
    <3> SUFFICES ASSUME NEW j \in (o + k)..i PROVE s[j] # "close"
      BY DEF NoClose
    <3>1. j - k \in o..(i - k) /\ j \in (k + 1)..Len(s)
      BY <1>1
    <3> QED BY <3>1, <1>3 DEF NoClose
  <2> QED BY <2>1, <2>2, <2>3 DEF Sheltered
<1> QED BY <1>2, <1>3 DEF Sheltered

LEMMA SettledStep == TypeOK /\ SettledInv /\ [Next]_vars => SettledInv'
<1> SUFFICES ASSUME TypeOK, SettledInv, [Next]_vars PROVE SettledInv'
  OBVIOUS
<1>1. ASSUME NEW lines \in Seq(Lines), Show(lines), NEW cut, cut = Excess(screen \o lines),
             NEW i \in settled, i > cut
      PROVE  Sheltered(screen', i - cut)
  <2>1. /\ cut \in Nat /\ screen' \in Seq(Lines) /\ Len(screen) - cut <= Len(screen')
        /\ \A j \in (cut + 1)..Len(screen) : screen'[j - cut] = screen[j]
    BY <1>1, ShowScrolls
  <2> QED BY <1>1, <2>1, ShelterScrolls DEF SettledInv, TypeOK
<1>2. ASSUME NEW line \in Lines, PrintLine(line) PROVE SettledInv'
  <2>1. /\ <<line>> \in Seq(Lines) /\ Show(<<line>>)
        /\ settled' = Higher(settled, Excess(screen \o <<line>>))
    BY <1>2 DEF PrintLine
  <2> QED BY <1>1, <2>1 DEF SettledInv, Higher
<1>3. ASSUME NEW body \in Given, Deliver(body) PROVE SettledInv'
  <2> DEFINE lines == <<Envelope>> \o body
             n == Len(screen)
             all == screen \o lines
             cut == Excess(all)
             arrived == (n + 1)..(n + Len(lines))
  <2>1. /\ lines \in Seq(Lines) /\ Len(lines) \in Nat /\ n \in Nat
        /\ \A j \in 1..Len(lines) : lines[j] # "close"
    <3>1. /\ <<Envelope>> \in Seq(Lines) /\ body \in Seq(Lines) /\ lines \in Seq(Lines)
          /\ Envelope # "close" /\ \A j \in 1..Len(body) : body[j] # "close"
      BY GivenLines
    <3>2. /\ Len(lines) = 1 + Len(body) /\ lines[1] = Envelope
          /\ \A j \in 2..(1 + Len(body)) : lines[j] = body[j - 1]
      BY <3>1
    <3>3. \A j \in 1..Len(lines) : j = 1 \/ (j \in 2..(1 + Len(body)) /\ j - 1 \in 1..Len(body))
      BY <3>1, <3>2
    <3> HIDE DEF lines
    <3> QED BY <3>1, <3>2, <3>3 DEF TypeOK
  <2>2. /\ Show(lines)
        /\ settled' = Higher(IF LeftOpen(screen') THEN settled ELSE settled \cup arrived, cut)
    BY <1>3 DEF Deliver
  <2> HIDE DEF lines
  <2>3. /\ cut \in Nat /\ screen' \in Seq(Lines)
        /\ Len(screen') = n + Len(lines) - cut
        /\ \A i \in (cut + 1)..(n + Len(lines)) : screen'[i - cut] = all[i]
    BY <2>1, <2>2, ShowScrolls
  <2>4. \A i \in arrived : all[i] # "close"
    <3>1. \A i \in arrived : all[i] = lines[i - n] /\ i - n \in 1..Len(lines)
      BY <2>1, ConcatProperties DEF TypeOK
    <3> QED BY <3>1, <2>1
  <2> HIDE DEF all, cut
  <2>5. ASSUME ~LeftOpen(screen'), NEW i \in arrived, i > cut
        PROVE  Sheltered(screen', i - cut)
    <3> DEFINE p == i - cut
    <3>1. p \in 1..Len(screen') /\ p + cut = i /\ p \in Nat /\ Len(screen') \in Nat
      BY <2>1, <2>3, <2>5
    <3>2. \A j \in p..Len(screen') : screen'[j] # "close"
      <4> TAKE j \in p..Len(screen')
      <4>1. /\ j + cut \in arrived /\ j + cut \in (cut + 1)..(n + Len(lines))
            /\ (j + cut) - cut = j
        BY <2>1, <2>3, <2>5
      <4> QED BY <4>1, <2>3, <2>4
    <3> HIDE DEF p
    <3>3. ASSUME NEW o \in 1..p, screen'[o] = "open", NoClose(screen', o, p) PROVE FALSE
      <4>1. \A j \in o..Len(screen') : j \in o..p \/ j \in p..Len(screen')
        BY <3>1
      <4>2. NoClose(screen', o, Len(screen')) /\ o \in 1..Len(screen')
        BY <3>1, <3>2, <3>3, <4>1 DEF NoClose
      <4> QED BY <2>5, <3>3, <4>2 DEF LeftOpen
    <3>4. Sheltered(screen', p)
      BY <3>1, <3>2, <3>3 DEF Sheltered
    <3> QED BY <3>4 DEF p
  <2>6. ASSUME NEW i \in settled, i > cut PROVE Sheltered(screen', i - cut)
    BY <1>1, <2>1, <2>2, <2>6 DEF cut, all
  <2> HIDE DEF arrived
  <2>7. \A q \in settled' :
           \E i : /\ q = i - cut /\ i > cut
                  /\ (i \in settled) \/ (i \in arrived /\ ~LeftOpen(screen'))
    <3>1. CASE LeftOpen(screen')
      BY <2>2, <3>1 DEF Higher
    <3>2. CASE ~LeftOpen(screen')
      BY <2>2, <3>2 DEF Higher
    <3> QED BY <3>1, <3>2
  <2> QED BY <2>5, <2>6, <2>7 DEF SettledInv
<1>4. CASE Take
  BY <1>4 DEF Take, SettledInv
<1>5. CASE Resize
  BY <1>5 DEF Resize, SettledInv
<1>6. CASE Reset
  BY <1>6 DEF Reset, SettledInv
<1>7. ASSUME NEW prompt \in Prompts, Restart(prompt) PROVE SettledInv'
  BY <1>7 DEF Restart, SettledInv
<1>8. CASE UNCHANGED vars
  BY <1>8 DEF vars, SettledInv
<1> QED BY <1>2, <1>3, <1>4, <1>5, <1>6, <1>7, <1>8 DEF Next

(* The block next finds holds no line of a delivery that arrived with no   *)
(* opening marker left open, however the screen went on.                   *)
THEOREM OwnWordsTheorem == Spec => []OwnWords
<1>1. Init => SettledInv
  BY DEF Init, SettledInv
<1>2. TypeOK /\ SettledInv => OwnWords
  <2> SUFFICES ASSUME TypeOK, SettledInv, EndOf(screen) # 0, NEW i \in settled,
                      ~(i < StartOf(screen)), ~(i > EndOf(screen))
               PROVE  FALSE
    BY DEF OwnWords
  <2> DEFINE c == EndOf(screen)  o == StartOf(screen)
  <2>1. /\ screen \in Seq(Lines) /\ c \in 1..Len(screen) /\ o \in 1..(c - 1)
        /\ screen[c] = "close" /\ screen[o] = "open" /\ NoClose(screen, o, c - 1)
    BY StartFacts, EndFacts DEF TypeOK, Ends, Opens
  <2>2. Sheltered(screen, i) /\ i \in 1..Len(screen) /\ i # c
    BY <2>1 DEF SettledInv, Sheltered
  <2>3. o \in 1..i /\ \A j \in o..i : j \in o..(c - 1)
    BY <2>1, <2>2
  <2> QED BY <2>1, <2>2, <2>3 DEF Sheltered, NoClose
<1> QED BY <1>1, <1>2, SettledStep, TypeCorrect, PTL DEF Spec

-----------------------------------------------------------------------------
(* The scan.  What it has found after some lines is known without it: the  *)
(* first opening marker that is still open, and the last block so far.     *)

StillOpen(s) == Opens(s, Len(s) + 1)
OpenedAt(s) ==
    IF StillOpen(s) = {} THEN 0 ELSE CHOOSE o \in StillOpen(s) : \A d \in StillOpen(s) : o <= d
LastBlock(s) == IF EndOf(s) = 0 THEN <<0, 0>> ELSE <<StartOf(s), EndOf(s)>>
Found(s) == [from |-> OpenedAt(s), block |-> LastBlock(s)]

LEMMA OpenedFacts ==
    ASSUME NEW s \in Seq(Lines)
    PROVE  /\ StillOpen(s) = {} <=> OpenedAt(s) = 0
           /\ StillOpen(s) \in SUBSET (1..Len(s))
           /\ OpenedAt(s) # 0 => /\ OpenedAt(s) \in StillOpen(s)
                                 /\ \A d \in StillOpen(s) : OpenedAt(s) <= d
<1>1. StillOpen(s) \in SUBSET (1..Len(s))
  BY DEF StillOpen, Opens
<1>2. CASE StillOpen(s) = {}
  BY <1>1, <1>2 DEF OpenedAt
<1>3. CASE StillOpen(s) # {}
  <2>1. StillOpen(s) \in SUBSET Nat
    BY <1>1
  <2>2. \E o \in StillOpen(s) : \A d \in StillOpen(s) : o <= d
    BY <1>3, <2>1, HasMin
  <2>3. /\ OpenedAt(s) \in StillOpen(s)
        /\ \A d \in StillOpen(s) : OpenedAt(s) <= d
    BY <1>3, <2>2 DEF OpenedAt
  <2> QED BY <1>1, <1>3, <2>3
<1> QED BY <1>2, <1>3

\* It is determined by what it looks for.
LEMMA OpenedIs ==
    ASSUME NEW s \in Seq(Lines), NEW o \in StillOpen(s), \A d \in StillOpen(s) : o <= d
    PROVE  OpenedAt(s) = o
<1>1. OpenedAt(s) \in StillOpen(s) /\ OpenedAt(s) <= o /\ o <= OpenedAt(s)
  BY OpenedFacts
<1>2. OpenedAt(s) \in Int /\ o \in Int
  BY <1>1, OpenedFacts
<1> QED BY <1>1, <1>2

\* A further line starts a match, ends one, or neither.
LEMMA FoundAppend ==
    ASSUME NEW s \in Seq(Lines), NEW line \in Lines
    PROVE  Found(s \o <<line>>) = Reads(Found(s), line, Len(s) + 1)
<1> DEFINE u == s \o <<line>>  n == Len(s) + 1
<1>1. /\ u \in Seq(Lines) /\ Len(u) = n /\ n \in Nat /\ n - 1 = Len(s)
      /\ u[n] = line /\ \A i \in 1..Len(s) : u[i] = s[i]
  BY ConcatProperties
<1>0. <<line>> \in Seq(Lines)
  OBVIOUS
<1>2. \A c \in 1..Len(s) : c \in Ends(u) <=> c \in Ends(s)
  BY <1>0, EndsAppend, Zenon
<1>3. \A c \in 1..n : Opens(u, c) = Opens(s, c)
  BY <1>0, OpensAppend, Zenon
<1>4. n \in Ends(u) <=> line = "close" /\ StillOpen(s) # {}
  BY <1>1, <1>3 DEF Ends, StillOpen
<1>5. StillOpen(u) = IF line = "close" THEN {}
                     ELSE IF line = "open" THEN StillOpen(s) \cup {n} ELSE StillOpen(s)
  <2>1. (n + 1) - 1 = n
    BY <1>1
  <2>2. \A o \in 1..Len(s) : NoClose(u, o, n) <=> NoClose(s, o, n - 1) /\ line # "close"
    BY <1>1 DEF NoClose
  <2>3. NoClose(u, n, n) <=> line # "close"
    BY <1>1 DEF NoClose
  <2>4. \A o \in 1..n : o \in 1..Len(s) \/ o = n
    BY <1>1
  <2>5. StillOpen(u) = {o \in 1..n : u[o] = "open" /\ NoClose(u, o, n)}
    BY <1>1, <2>1 DEF StillOpen, Opens
  <2>6. StillOpen(s) = {o \in 1..Len(s) : s[o] = "open" /\ NoClose(s, o, n - 1)}
    BY <1>1 DEF StillOpen, Opens
  <2>7. \A o \in 1..Len(s) : o \in StillOpen(u) <=> o \in StillOpen(s) /\ line # "close"
    <3> HIDE DEF u
    <3> QED BY <1>1, <2>2, <2>5, <2>6
  <2>8. n \in StillOpen(u) <=> line = "open"
    <3> HIDE DEF u
    <3> QED BY <1>1, <2>3, <2>5
  <2>9. n \notin StillOpen(s)
    BY <1>1, <2>6
  <2>10. \A o : o \in StillOpen(u) => o \in 1..n
    BY <2>5
  <2>11. \A o : o \in StillOpen(s) => o \in 1..Len(s)
    BY <2>6
  <2> HIDE DEF u
  <2>12. \A o : o \in StillOpen(u)
                 <=> (o \in StillOpen(s) /\ line # "close") \/ (o = n /\ line = "open")
    BY <2>4, <2>7, <2>8, <2>9, <2>10, <2>11
  <2>13. StillOpen(u) = {o \in StillOpen(s) : line # "close"}
                           \cup {o \in {n} : line = "open"}
    BY <2>12, Zenon
  <2> QED BY <2>13
<1> HIDE DEF u, n
<1>6. (EndOf(s) = EndOf(u) /\ LastBlock(u) = LastBlock(s)) \/ n \in Ends(u)
  <2> SUFFICES ASSUME n \notin Ends(u)
               PROVE  EndOf(s) = EndOf(u) /\ LastBlock(u) = LastBlock(s)
    OBVIOUS
  <2>1. Ends(u) = Ends(s)
    <3>1. Ends(u) \in SUBSET (1..n) /\ Ends(s) \in SUBSET (1..Len(s))
      BY <1>1 DEF Ends
    <3>2. \A c \in 1..n : c = n \/ c \in 1..Len(s)
      BY <1>1
    <3>3. n \notin 1..Len(s)
      BY <1>1
    <3> QED BY <3>1, <3>2, <3>3, <1>2
  <2>2. EndOf(u) = EndOf(s)
    BY <2>1 DEF EndOf
  <2>3. EndOf(s) # 0 => StartOf(u) = StartOf(s)
    <3> SUFFICES ASSUME EndOf(s) # 0 PROVE StartOf(u) = StartOf(s)
      OBVIOUS
    <3>1. EndOf(s) \in 1..n
      BY <1>1, StartFacts
    <3> QED BY <3>1, <1>3, <2>2 DEF StartOf
  <2> QED BY <2>2, <2>3 DEF LastBlock
<1>7. CASE line = "close"
  <2>1. OpenedAt(u) = 0
    BY <1>1, <1>5, <1>7, OpenedFacts
  <2>2. CASE StillOpen(s) = {}
    <3>1. LastBlock(u) = LastBlock(s) /\ OpenedAt(s) = 0
      BY <1>4, <1>6, <2>2, OpenedFacts
    <3> QED BY <1>7, <2>1, <3>1 DEF Found, Reads, u, n
  <2>3. CASE StillOpen(s) # {}
    <3>1. OpenedAt(s) # 0 /\ n \in Ends(u)
      BY <1>4, <1>7, <2>3, OpenedFacts
    <3>2. EndOf(u) = n
      <4>1. \A d \in Ends(u) : d <= n
        BY <1>1 DEF Ends
      <4> QED BY <1>1, <3>1, <4>1, EndIs
    <3>3. Opens(u, EndOf(u)) = StillOpen(s) /\ n # 0
      BY <1>1, <1>3, <3>2 DEF StillOpen, n
    <3>4. StartOf(u) = OpenedAt(s)
      BY <1>1, <3>1, <3>2, <3>3, OpenedFacts, StartIs
    <3>5. LastBlock(u) = <<OpenedAt(s), n>>
      BY <3>2, <3>3, <3>4 DEF LastBlock
    <3> QED BY <1>7, <2>1, <3>1, <3>5 DEF Found, Reads, u, n
  <2> QED BY <2>2, <2>3
<1>8. CASE line # "close"
  <2>1. LastBlock(u) = LastBlock(s)
    BY <1>4, <1>6, <1>8
  <2>2. CASE line = "open" /\ OpenedAt(s) = 0
    <3>1. StillOpen(u) = {n}
      BY <1>5, <2>2, OpenedFacts
    <3>2. n \in StillOpen(u) /\ \A d \in StillOpen(u) : n <= d
      BY <1>1, <3>1
    <3>3. OpenedAt(u) = n
      BY <1>1, <3>2, OpenedIs
    <3> QED BY <2>1, <2>2, <3>3 DEF Found, Reads, u, n
  <2>3. CASE line = "open" /\ OpenedAt(s) # 0
    <3>1. StillOpen(u) = StillOpen(s) \cup {n}
      BY <1>5, <2>3
    <3>2. OpenedAt(s) \in StillOpen(u) /\ \A d \in StillOpen(u) : OpenedAt(s) <= d
      <4>1. OpenedAt(s) \in StillOpen(s) /\ \A d \in StillOpen(s) : OpenedAt(s) <= d
        BY <2>3, OpenedFacts
      <4>2. OpenedAt(s) <= n
        BY <1>1, <4>1, OpenedFacts
      <4> QED BY <3>1, <4>1, <4>2
    <3>3. OpenedAt(u) = OpenedAt(s)
      BY <1>1, <3>2, OpenedIs
    <3> QED BY <1>8, <2>1, <2>3, <3>3 DEF Found, Reads, u, n
  <2>4. CASE line # "open"
    <3>1. OpenedAt(u) = OpenedAt(s)
      BY <1>5, <1>8, <2>4 DEF OpenedAt
    <3> QED BY <1>8, <2>1, <2>4, <3>1 DEF Found, Reads, u, n
  <2> QED BY <2>2, <2>3, <2>4
<1> QED BY <1>7, <1>8

\* The scan of a screen: there is a function that finds it line by line, and it is
\* what the scan's recursion defines.
LEMMA ScanFinds ==
    ASSUME NEW s \in Seq(Lines)
    PROVE  Scan(s) = LastBlock(s)
<1> DEFINE D == 0..Len(s)
           Line(f) == [i \in D |-> IF i = 0 THEN Unread ELSE Reads(f[i - 1], s[i], i)]
           at == CHOOSE f : f = Line(f)
           found == [i \in D |-> Found(SubSeq(s, 1, i))]
<1>0. Len(s) \in Nat /\ 0 \in D /\ Len(s) \in D
  OBVIOUS
<1>1. found[0] = Unread
  <2>1. SubSeq(s, 1, 0) = <<>> /\ <<>> \in Seq(Lines) /\ Len(<<>>) = 0
    BY SubSeqEmpty
  <2>2. Ends(<<>>) = {} /\ StillOpen(<<>>) = {}
    BY <2>1 DEF Ends, StillOpen, Opens
  <2>3. Found(<<>>) = Unread
    BY <2>2 DEF Found, EndOf, OpenedAt, LastBlock, Unread
  <2> QED BY <1>0, <2>1, <2>3
<1>2. \A i \in D : i # 0 => found[i] = Reads(found[i - 1], s[i], i)
  <2> SUFFICES ASSUME NEW i \in D, i # 0 PROVE found[i] = Reads(found[i - 1], s[i], i)
    OBVIOUS
  <2>1. /\ i \in 1..Len(s) /\ i - 1 \in D /\ i - 1 \in 0..Len(s) /\ s[i] \in Lines
        /\ 1 \in 1..Len(s) /\ i - 1 \in Int /\ i - 1 - 1 + 1 = i - 1 /\ (i - 1) + 1 = i
    BY <1>0
  <2>2. SubSeq(s, 1, i) = SubSeq(s, 1, i - 1) \o <<s[i]>>
    BY <2>1, SubSeqRecursiveSecond
  <2>3. SubSeq(s, 1, i - 1) \in Seq(Lines) /\ Len(SubSeq(s, 1, i - 1)) = i - 1
    <3>1. \A j \in 1..(i - 1) : s[j] \in Lines
      BY <2>1
    <3>2. SubSeq(s, 1, i - 1) \in Seq(Lines)
          /\ Len(SubSeq(s, 1, i - 1)) = IF 1 <= i - 1 THEN (i - 1) - 1 + 1 ELSE 0
      BY <2>1, <3>1, SubSeqProperties
    <3> QED BY <2>1, <3>2
  <2>4. Found(SubSeq(s, 1, i)) = Reads(Found(SubSeq(s, 1, i - 1)), s[i], i)
    BY <2>1, <2>2, <2>3, FoundAppend
  <2> QED BY <2>1, <2>4
<1>3. found = Line(found)
  <2> HIDE DEF found
  <2>1. found = [i \in D |-> found[i]]
    BY DEF found
  <2>2. \A i \in D : found[i] = IF i = 0 THEN Unread ELSE Reads(found[i - 1], s[i], i)
    BY <1>1, <1>2
  <2> QED BY <2>1, <2>2, Zenon
<1>4. at = Line(at)
  BY <1>3
<1>5. \A i \in D : at[i] = IF i = 0 THEN Unread ELSE Reads(at[i - 1], s[i], i)
  <2> HIDE DEF at
  <2> QED BY <1>4
<1>6. \A i \in D : at[i] = found[i]
  <2> DEFINE Bad == {i \in D : at[i] # found[i]}
  <2> HIDE DEF at, found
  <2> SUFFICES ASSUME Bad # {} PROVE FALSE
    OBVIOUS
  <2>1. Bad \in SUBSET Nat
    OBVIOUS
  <2>2. PICK m \in Bad : \A d \in Bad : m <= d
    BY <2>1, HasMin
  <2>3. m # 0
    BY <1>1, <1>5, <2>2
  <2>4. m - 1 \in D /\ ~(m <= m - 1)
    BY <2>2, <2>3
  <2>5. at[m - 1] = found[m - 1]
    BY <2>2, <2>4
  <2> QED BY <1>2, <1>5, <2>2, <2>3, <2>5
<1>7. Scan(s) = at[Len(s)].block
  BY DEF Scan
<1>8. at[Len(s)] = Found(s)
  <2> HIDE DEF at
  <2> QED BY <1>0, <1>6, SubSeqFull
<1> HIDE DEF at
<1> QED BY <1>7, <1>8 DEF Found

(* The block next takes off a screen is the last match of the regular      *)
(* expression's scan from left to right, on every screen.                  *)
THEOREM ScanAgreesTheorem == Spec => []ScanAgrees
<1>1. TypeOK => ScanAgrees
  BY ScanFinds DEF TypeOK, ScanAgrees, LastBlock
<1> QED BY <1>1, TypeCorrect, PTL

-----------------------------------------------------------------------------
(* Old blocks and new ones.                                                *)

\* The strengthening NeverTakenTwice needs: while nothing excuses it, the block last
\* taken is not below the latest one, and if it is the latest, its digest is the last.
TakenInv ==
    ~renewed /\ takenEnd > 0 =>
        /\ takenEnd <= EndOf(screen)
        /\ takenEnd = EndOf(screen) => last = DigestOf(Output(screen, width))

LEMMA TakenInvStep == TypeOK /\ TakenInv /\ [Next]_vars => TakenInv'
<1> SUFFICES ASSUME TypeOK, TakenInv, [Next]_vars PROVE TakenInv'
  OBVIOUS
<1>1. ASSUME NEW lines \in Seq(Lines), Show(lines) PROVE TakenInv'
  <2>1. PICK cut \in Nat :
           /\ screen' \in Seq(Lines) /\ Len(screen') <= History
           /\ Len(screen) - cut <= Len(screen')
           /\ \A i \in (cut + 1)..Len(screen) : screen'[i - cut] = screen[i]
           /\ takenEnd' = IF takenEnd > cut THEN takenEnd - cut ELSE 0
           /\ renewed' = (renewed \/ (takenEnd > cut /\ cut >= StartOf(screen)))
           /\ UNCHANGED <<width, last>>
    BY <1>1, ShowScrolls
  <2> SUFFICES ASSUME ~renewed', takenEnd' > 0
               PROVE  /\ takenEnd' <= EndOf(screen')
                      /\ takenEnd' = EndOf(screen') => last' = DigestOf(Output(screen', width'))
    BY DEF TakenInv
  <2>2. /\ takenEnd \in Nat /\ screen \in Seq(Lines)
        /\ takenEnd > cut /\ ~renewed /\ ~(cut >= StartOf(screen))
        /\ takenEnd' = takenEnd - cut
    <3>1. takenEnd \in Nat /\ screen \in Seq(Lines)
      BY DEF TypeOK
    <3>2. takenEnd > cut
      <4> SUFFICES ASSUME ~(takenEnd > cut) PROVE takenEnd' = 0
        BY <3>1, <2>1
      <4> QED BY <2>1
    <3>3. ~renewed /\ ~(cut >= StartOf(screen))
      BY <2>1, <3>2
    <3> QED BY <2>1, <3>1, <3>2, <3>3
  <2>3. /\ takenEnd <= EndOf(screen)
        /\ takenEnd = EndOf(screen) => last = DigestOf(Output(screen, width))
    BY <2>1, <2>2 DEF TakenInv
  <2>4. EndOf(screen) # 0 /\ EndOf(screen) \in Nat /\ StartOf(screen) \in Nat
    BY <2>1, <2>2, <2>3, EndFacts, StartFacts
  <2>5. Shifted(screen, screen', cut)
    BY <2>1, <2>2, <2>4 DEF Shifted
  <2>6. /\ EndOf(screen) - cut <= EndOf(screen')
        /\ EndOf(screen') = EndOf(screen) - cut
              => Output(screen', width) = Output(screen, width)
    BY <2>1, <2>2, <2>5, ShiftedBlock
  <2>7. EndOf(screen') \in Nat
    BY <2>1, EndFacts
  <2>8. takenEnd' <= EndOf(screen')
    BY <2>1, <2>2, <2>3, <2>4, <2>6, <2>7
  <2>9. ASSUME takenEnd' = EndOf(screen') PROVE last' = DigestOf(Output(screen', width'))
    <3>1. takenEnd = EndOf(screen) /\ EndOf(screen') = EndOf(screen) - cut
      BY <2>1, <2>2, <2>3, <2>4, <2>6, <2>7, <2>9
    <3> QED BY <3>1, <2>1, <2>3, <2>6
  <2> QED BY <2>8, <2>9
<1>2. ASSUME NEW line \in Lines, PrintLine(line) PROVE TakenInv'
  <2>1. <<line>> \in Seq(Lines) /\ Show(<<line>>)
    BY <1>2 DEF PrintLine
  <2> QED BY <1>1, <2>1
<1>3. ASSUME NEW body \in Given, Deliver(body) PROVE TakenInv'
  <2>1. <<Envelope>> \o body \in Seq(Lines) /\ Show(<<Envelope>> \o body)
    BY <1>3, GivenLines DEF Deliver
  <2> QED BY <1>1, <2>1
<1>4. CASE Take
  <2>1. EndOf(screen) \in Nat
    BY <1>4, TakeFacts
  <2>2. /\ takenEnd' = EndOf(screen') /\ screen' = screen /\ width' = width
        /\ last' = DigestOf(Output(screen, width))
    BY <1>4 DEF Take
  <2> QED BY <2>1, <2>2 DEF TakenInv
<1>5. CASE Resize
  BY <1>5 DEF Resize, TakenInv
<1>6. CASE Reset
  BY <1>6 DEF Reset, TakenInv
<1>7. ASSUME NEW prompt \in Prompts, Restart(prompt) PROVE TakenInv'
  BY <1>7 DEF Restart, TakenInv
<1>8. CASE UNCHANGED vars
  BY <1>8 DEF vars, TakenInv
<1> QED BY <1>2, <1>3, <1>4, <1>5, <1>6, <1>7, <1>8 DEF Next

(* An old block is not handed over as a new one: it lies below the last    *)
(* one handed over, unless the pane was resized, the block cut by the end  *)
(* of the history, or the digests forgotten.                               *)
THEOREM NeverTakenTwiceTheorem == Spec => []NeverTakenTwice
<1>1. Init => TakenInv
  BY DEF Init, TakenInv
<1>2. TypeOK /\ TakenInv => NeverTakenTwice
  <2> SUFFICES ASSUME TypeOK, TakenInv, NewBlock, ~renewed PROVE EndOf(screen) > takenEnd
    BY DEF NeverTakenTwice
  <2>1. EndOf(screen) \in Nat \ {0} /\ takenEnd \in Nat
    BY BlockFacts DEF TypeOK
  <2>2. last # DigestOf(Output(screen, width))
    BY DEF NewBlock
  <2> QED BY <2>1, <2>2 DEF TakenInv
<1> QED BY <1>1, <1>2, TakenInvStep, TypeCorrect, PTL DEF Spec
=============================================================================
