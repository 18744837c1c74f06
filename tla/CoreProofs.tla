----------------------------- MODULE CoreProofs ------------------------------
(***************************************************************************)
(* Proofs about Core for any set of modules of the four, any pairs that    *)
(* talk, any number of messages and any size of the receive buffer.        *)
(*                                                                         *)
(* What core passes on is decided when a unit is sent, read and put behind *)
(* what other modules have left in the buffer, so the invariant is about   *)
(* the units on their way to core and those in its buffer: in which order  *)
(* those of one module are, which registrations are still to come, and,    *)
(* until messages are mixed up, that the buffer begins with a frame.       *)
(***************************************************************************)
EXTENDS CoreProps, FiniteSetTheorems, SequenceTheorems, TLAPS

Elems(q) == {q[i] : i \in 1 .. Len(q)}

\* A module sends v after u: it registers once, and its messages are numbered.
Ahead(u, v) ==
  /\ ~ (IsRegister(u) /\ IsRegister(v))
  /\ ~ IsRegister(u) /\ ~ IsRegister(v) => u.id < v.id \/ (u.id = v.id /\ u.part < v.part)

\* The units of each module in p come before those in q.
Before(p, q) ==
  \A i \in 1 .. Len(p), j \in 1 .. Len(q) : p[i].host = q[j].host => Ahead(p[i], q[j])

InTurn(q) ==
  \A i, j \in 1 .. Len(q) : i < j /\ q[i].host = q[j].host => Ahead(q[i], q[j])

\* A unit that is not processed yet: a message that has not been passed on, or
\* the only registration of its module.
Pending(u) ==
  /\ u.id <= sent
  /\ ~ IsRegister(u) /\ u.part = 1 => u.id > newest[u.host]
  /\ IsRegister(u) => ~ registered[u.host] /\ link[u.host] \notin {"opened", "connected"}

Order ==
  /\ InTurn(buffer) /\ \A u \in Elems(buffer) : Pending(u)
  /\ \A m \in Modules :
       /\ InTurn(toCore[m]) /\ Before(buffer, toCore[m])
       /\ \A u \in Elems(toCore[m]) : Pending(u) /\ u.host = m

\* A header is followed by its data, anything else by a header, and the last
\* unit is not a header.
Header(u) == u.part = 1 /\ ~ IsRegister(u)
Follows(u, v) == IF Header(u) THEN v = [u EXCEPT !.part = 2] ELSE v.part = 1
Framed(q) ==
  q # <<>> => /\ q[1].part = 1
              /\ \A i \in 1 .. Len(q) - 1 : Follows(q[i], q[i + 1])
              /\ ~ Header(q[Len(q)])

\* Until messages are mixed up the buffer is of one module, and what is left of
\* each module's stream begins with a frame.
Left(m) == IF buffer # <<>> /\ buffer[1].host = m THEN buffer \o toCore[m] ELSE toCore[m]
Unmixed ==
  ~ mixed => /\ \A i \in 1 .. Len(buffer) : buffer[i].host = buffer[1].host
             /\ \A m \in Modules : Framed(Left(m))

\* A module that core knows is at the other end of its descriptor.
Known ==
  \A m \in Modules :
    /\ registered[m] => /\ m \in Routable /\ handler[m] # NoFd /\ fd_clients[handler[m]] = m
                        /\ link[m] \notin {"opened", "connected"}
    /\ newest[m] <= sent

Position ==
  /\ knocks => backlog # <<>>
  /\ IF cur = NoFd THEN Stops(buffer) ELSE Continues(buffer)

IInv == TypeOK /\ Order /\ Unmixed /\ Known /\ Position

-----------------------------------------------------------------------------
(* Sequences of units.                                                     *)

\* r is what follows the first k elements of q, and p is those.
IsRest(r, q, k) == Len(r) = Len(q) - k /\ \A i \in 1 .. Len(r) : r[i] = q[k + i]
IsBegin(p, q, k) == Len(p) = k /\ \A i \in 1 .. k : p[i] = q[i]

\* What is left of a sequence after its first k elements.
LEMMA Rest ==
  ASSUME NEW S, NEW q \in Seq(S), NEW k \in 0 .. Len(q)
  PROVE  SubSeq(q, k + 1, Len(q)) \in Seq(S) /\ IsRest(SubSeq(q, k + 1, Len(q)), q, k)
<1>1. Len(q) \in Nat
  BY LenProperties
<1>2. \A i \in k + 1 .. Len(q) : q[i] \in S
  BY <1>1, ElementOfSeq
<1> DEFINE r == SubSeq(q, k + 1, Len(q))
<1>3. /\ r \in Seq(S) /\ Len(r) = (IF k + 1 <= Len(q) THEN Len(q) - (k + 1) + 1 ELSE 0)
      /\ \A i \in 1 .. Len(q) - (k + 1) + 1 : r[i] = q[k + 1 + i - 1]
  BY <1>1, <1>2, SubSeqProperties
<1>4. Len(r) = Len(q) - k
  BY <1>1, <1>3
<1>5. ASSUME NEW i \in 1 .. Len(r) PROVE r[i] = q[k + i]
  <2>1. i \in 1 .. Len(q) - (k + 1) + 1 /\ k + 1 + i - 1 = k + i
    BY <1>1, <1>4
  <2> QED BY <1>3, <2>1
<1> QED BY <1>3, <1>4, <1>5 DEF IsRest

\* The first k elements of a sequence.
LEMMA Begin ==
  ASSUME NEW S, NEW q \in Seq(S), NEW k \in 0 .. Len(q)
  PROVE  SubSeq(q, 1, k) \in Seq(S) /\ IsBegin(SubSeq(q, 1, k), q, k)
<1>1. Len(q) \in Nat
  BY LenProperties
<1>2. \A i \in 1 .. k : q[i] \in S
  BY <1>1, ElementOfSeq
<1> DEFINE p == SubSeq(q, 1, k)
<1>3. /\ p \in Seq(S) /\ Len(p) = (IF 1 <= k THEN k - 1 + 1 ELSE 0)
      /\ \A i \in 1 .. k - 1 + 1 : p[i] = q[1 + i - 1]
  BY <1>1, <1>2, SubSeqProperties
<1> QED BY <1>1, <1>3 DEF IsBegin

\* s is p followed by q.
IsJoin(s, p, q) ==
  /\ Len(s) = Len(p) + Len(q)
  /\ \A i \in 1 .. Len(p) : s[i] = p[i]
  /\ \A i \in 1 .. Len(q) : s[Len(p) + i] = q[i]
  /\ \A i \in 1 .. Len(s) : i \in 1 .. Len(p) \/ \E j \in 1 .. Len(q) : i = Len(p) + j

\* What two sequences, one behind the other, have where.
LEMMA Join ==
  ASSUME NEW S, NEW p \in Seq(S), NEW q \in Seq(S)
  PROVE  p \o q \in Seq(S) /\ IsJoin(p \o q, p, q)
<1> DEFINE s == p \o q
<1>0. Len(p) \in Nat /\ Len(q) \in Nat
  BY LenProperties
<1>1. /\ s \in Seq(S) /\ Len(s) = Len(p) + Len(q)
      /\ \A i \in 1 .. Len(p) + Len(q) : s[i] = IF i <= Len(p) THEN p[i] ELSE q[i - Len(p)]
  BY ConcatProperties
<1> HIDE DEF s
<1>2. \A i \in 1 .. Len(p) : s[i] = p[i]
  BY <1>0, <1>1
<1>3. ASSUME NEW i \in 1 .. Len(q) PROVE s[Len(p) + i] = q[i]
  <2>1. /\ Len(p) + i \in 1 .. Len(p) + Len(q) /\ ~ (Len(p) + i <= Len(p))
        /\ Len(p) + i - Len(p) = i
    BY <1>0
  <2> QED BY <1>1, <2>1
<1>4. ASSUME NEW i \in 1 .. Len(s), i \notin 1 .. Len(p)
      PROVE  i - Len(p) \in 1 .. Len(q) /\ i = Len(p) + (i - Len(p))
  BY <1>0, <1>1, <1>4
<1> QED BY <1>1, <1>2, <1>3, <1>4 DEF IsJoin, s

\* The rest of a sequence keeps the order.
LEMMA RestInTurn ==
  ASSUME NEW q \in Seq(Units), NEW r \in Seq(Units), NEW k \in Nat, IsRest(r, q, k)
  PROVE  /\ InTurn(q) => InTurn(r)
         /\ \A t \in Seq(Units) : /\ Before(q, t) => Before(r, t)
                                  /\ Before(t, q) => Before(t, r)
         /\ Elems(r) \subseteq Elems(q)
<1>1. Len(q) \in Nat /\ Len(r) \in Nat
  BY LenProperties
<1>2. \A i \in 1 .. Len(r) : k + i \in 1 .. Len(q) /\ r[i] = q[k + i]
  BY <1>1 DEF IsRest
<1>3. ASSUME InTurn(q), NEW i \in 1 .. Len(r), NEW j \in 1 .. Len(r), i < j, r[i].host = r[j].host
      PROVE  Ahead(r[i], r[j])
  <2>1. k + i < k + j
    BY <1>1, <1>3
  <2> QED BY <1>2, <1>3, <2>1 DEF InTurn
<1>4. InTurn(q) => InTurn(r)
  BY <1>3 DEF InTurn
<1>5. \A t \in Seq(Units) : Before(q, t) => Before(r, t)
  BY <1>2 DEF Before
<1>6. \A t \in Seq(Units) : Before(t, q) => Before(t, r)
  BY <1>2 DEF Before
<1>7. Elems(r) \subseteq Elems(q)
  BY <1>2 DEF Elems
<1> QED BY <1>4, <1>5, <1>6, <1>7

\* So does the begin, and the begin comes before the rest.
LEMMA BeginInTurn ==
  ASSUME NEW q \in Seq(Units), NEW p \in Seq(Units), NEW r \in Seq(Units), NEW k \in 0 .. Len(q),
         IsBegin(p, q, k), IsRest(r, q, k)
  PROVE  /\ InTurn(q) => InTurn(p) /\ Before(p, r)
         /\ \A t \in Seq(Units) : Before(t, q) => Before(t, p)
         /\ Elems(p) \subseteq Elems(q)
<1>1. Len(q) \in Nat /\ Len(r) \in Nat /\ Len(p) = k
  BY LenProperties DEF IsBegin
<1>2. \A i \in 1 .. Len(p) : i \in 1 .. Len(q) /\ p[i] = q[i]
  BY <1>1 DEF IsBegin
<1>3. \A i \in 1 .. Len(r) : k + i \in 1 .. Len(q) /\ r[i] = q[k + i]
  BY <1>1 DEF IsRest
<1>4. InTurn(q) => InTurn(p)
  BY <1>2 DEF InTurn
<1>5. ASSUME InTurn(q), NEW i \in 1 .. Len(p), NEW j \in 1 .. Len(r), p[i].host = r[j].host
      PROVE  Ahead(p[i], r[j])
  <2>1. i < k + j
    BY <1>1
  <2> QED BY <1>2, <1>3, <1>5, <2>1 DEF InTurn
<1>6. InTurn(q) => Before(p, r)
  BY <1>5 DEF Before
<1>7. \A t \in Seq(Units) : Before(t, q) => Before(t, p)
  BY <1>2 DEF Before
<1>8. Elems(p) \subseteq Elems(q)
  BY <1>2 DEF Elems
<1> QED BY <1>4, <1>6, <1>7, <1>8

\* What is put behind units that come before it keeps the order.
LEMMA JoinInTurn ==
  ASSUME NEW p \in Seq(Units), NEW q \in Seq(Units), NEW s \in Seq(Units), IsJoin(s, p, q)
  PROVE  /\ InTurn(p) /\ InTurn(q) /\ Before(p, q) => InTurn(s)
         /\ \A t \in Seq(Units) : /\ Before(p, t) /\ Before(q, t) => Before(s, t)
                                  /\ Before(t, p) /\ Before(t, q) => Before(t, s)
         /\ Elems(s) = Elems(p) \cup Elems(q)
<1>1. Len(p) \in Nat /\ Len(q) \in Nat /\ Len(s) = Len(p) + Len(q)
  BY LenProperties DEF IsJoin
<1>2. /\ \A i \in 1 .. Len(p) : s[i] = p[i] /\ i \in 1 .. Len(s)
      /\ \A i \in 1 .. Len(q) : s[Len(p) + i] = q[i] /\ Len(p) + i \in 1 .. Len(s)
      /\ \A i \in 1 .. Len(s) : i \in 1 .. Len(p) \/ \E j \in 1 .. Len(q) : i = Len(p) + j
  <2>1. \A i \in 1 .. Len(p) : i \in 1 .. Len(s)
    BY <1>1
  <2>2. \A i \in 1 .. Len(q) : Len(p) + i \in 1 .. Len(s)
    BY <1>1
  <2> QED BY <2>1, <2>2 DEF IsJoin
<1>3. ASSUME InTurn(p), InTurn(q), Before(p, q),
             NEW i \in 1 .. Len(s), NEW j \in 1 .. Len(s), i < j, s[i].host = s[j].host
      PROVE  Ahead(s[i], s[j])
  <2>1. CASE i \in 1 .. Len(p) /\ j \in 1 .. Len(p)
    BY <1>2, <1>3, <2>1 DEF InTurn
  <2>2. ASSUME NEW b \in 1 .. Len(q), j = Len(p) + b PROVE Ahead(s[i], s[j])
    <3>1. CASE i \in 1 .. Len(p)
      BY <1>2, <1>3, <2>2, <3>1 DEF Before
    <3>2. ASSUME NEW a \in 1 .. Len(q), i = Len(p) + a PROVE Ahead(s[i], s[j])
      <4>1. a < b
        BY <1>1, <1>3, <2>2, <3>2
      <4> QED BY <1>2, <1>3, <2>2, <3>2, <4>1 DEF InTurn
    <3> QED BY <1>2, <3>1, <3>2
  <2>3. i \notin 1 .. Len(p) => j \notin 1 .. Len(p)
    BY <1>1, <1>3
  <2> QED BY <1>2, <2>1, <2>2, <2>3
<1>4. InTurn(p) /\ InTurn(q) /\ Before(p, q) => InTurn(s)
  BY <1>3 DEF InTurn
<1>5. \A t \in Seq(Units) : Before(p, t) /\ Before(q, t) => Before(s, t)
  <2> SUFFICES ASSUME NEW t \in Seq(Units), Before(p, t), Before(q, t),
                      NEW i \in 1 .. Len(s), NEW j \in 1 .. Len(t), s[i].host = t[j].host
               PROVE  Ahead(s[i], t[j])
    BY DEF Before
  <2>1. CASE i \in 1 .. Len(p)
    BY <1>2, <2>1 DEF Before
  <2>2. ASSUME NEW a \in 1 .. Len(q), i = Len(p) + a PROVE Ahead(s[i], t[j])
    BY <1>2, <2>2 DEF Before
  <2> QED BY <1>2, <2>1, <2>2
<1>6. \A t \in Seq(Units) : Before(t, p) /\ Before(t, q) => Before(t, s)
  <2> SUFFICES ASSUME NEW t \in Seq(Units), Before(t, p), Before(t, q),
                      NEW i \in 1 .. Len(t), NEW j \in 1 .. Len(s), t[i].host = s[j].host
               PROVE  Ahead(t[i], s[j])
    BY DEF Before
  <2>1. CASE j \in 1 .. Len(p)
    BY <1>2, <2>1 DEF Before
  <2>2. ASSUME NEW b \in 1 .. Len(q), j = Len(p) + b PROVE Ahead(t[i], s[j])
    BY <1>2, <2>2 DEF Before
  <2> QED BY <1>2, <2>1, <2>2
<1>7. Elems(s) = Elems(p) \cup Elems(q)
  <2>1. Elems(p) \subseteq Elems(s)
    BY <1>2 DEF Elems
  <2>2. Elems(q) \subseteq Elems(s)
    BY <1>2 DEF Elems
  <2>3. ASSUME NEW i \in 1 .. Len(s) PROVE s[i] \in Elems(p) \cup Elems(q)
    <3>1. CASE i \in 1 .. Len(p)
      BY <1>2, <3>1 DEF Elems
    <3>2. ASSUME NEW j \in 1 .. Len(q), i = Len(p) + j PROVE s[i] \in Elems(q)
      BY <1>2, <3>2 DEF Elems
    <3> QED BY <1>2, <3>1, <3>2
  <2>4. Elems(s) \subseteq Elems(p) \cup Elems(q)
    BY <2>3 DEF Elems
  <2> QED BY <2>1, <2>2, <2>4
<1> QED BY <1>4, <1>5, <1>6, <1>7

\* Its last part, as the steps use it: joining adds and loses nothing.
LEMMA JoinElems ==
  ASSUME NEW p \in Seq(Units), NEW q \in Seq(Units), NEW s \in Seq(Units), IsJoin(s, p, q)
  PROVE  Elems(s) = Elems(p) \cup Elems(q)
  BY JoinInTurn

\* Its first part, as the steps use it: joined units that come in turn do so.
LEMMA JoinOfTurns ==
  ASSUME NEW p \in Seq(Units), NEW q \in Seq(Units), NEW s \in Seq(Units), IsJoin(s, p, q),
         InTurn(p), InTurn(q), Before(p, q)
  PROVE  InTurn(s)
  BY JoinInTurn

\* What follows a frame begins with one, and one goes on after another.
LEMMA RestFramed ==
  ASSUME NEW q \in Seq(Units), NEW r \in Seq(Units), NEW k \in 1 .. Len(q), IsRest(r, q, k),
         Framed(q), ~ Header(q[k])
  PROVE  Framed(r)
<1>1. Len(q) \in Nat /\ Len(r) \in Nat /\ Len(r) = Len(q) - k
  BY LenProperties DEF IsRest
<1>2. \A i \in 1 .. Len(r) : k + i \in 1 .. Len(q) /\ r[i] = q[k + i]
  BY <1>1 DEF IsRest
<1>3. q # <<>> /\ \A i \in 1 .. Len(q) - 1 : Follows(q[i], q[i + 1])
  <2>1. q # <<>>
    BY <1>1, EmptySeq
  <2> QED BY <2>1 DEF Framed
<1>4. ASSUME r # <<>> PROVE r[1].part = 1 /\ ~ Header(r[Len(r)])
  <2>1. 1 \in 1 .. Len(r) /\ Len(r) \in 1 .. Len(r) /\ k + Len(r) = Len(q) /\ k \in 1 .. Len(q) - 1
    BY <1>1, <1>4, EmptySeq
  <2>2. Follows(q[k], q[k + 1]) /\ r[1] = q[k + 1] /\ r[Len(r)] = q[Len(q)]
    BY <1>2, <1>3, <2>1
  <2> QED BY <1>3, <2>2 DEF Follows, Framed
<1>5. ASSUME NEW i \in 1 .. Len(r) - 1 PROVE Follows(r[i], r[i + 1])
  <2>1. /\ i \in 1 .. Len(r) /\ i + 1 \in 1 .. Len(r) /\ k + i \in 1 .. Len(q) - 1
        /\ k + (i + 1) = (k + i) + 1
    BY <1>1
  <2> QED BY <1>2, <1>3, <2>1
<1> QED BY <1>4, <1>5 DEF Framed

\* Whole frames behind whole frames are whole frames.
LEMMA JoinFramed ==
  ASSUME NEW q \in Seq(Units), NEW f \in Seq(Units), NEW s \in Seq(Units), IsJoin(s, q, f),
         Framed(q), Framed(f), f # <<>>
  PROVE  Framed(s)
<1>1. Len(q) \in Nat /\ Len(f) \in Nat /\ Len(s) = Len(q) + Len(f) /\ Len(f) # 0
  BY LenProperties, EmptySeq DEF IsJoin
<1>2. /\ \A i \in 1 .. Len(q) : s[i] = q[i]
      /\ \A i \in 1 .. Len(f) : s[Len(q) + i] = f[i]
  BY DEF IsJoin
<1>3. f[1].part = 1 /\ ~ Header(f[Len(f)]) /\ \A i \in 1 .. Len(f) - 1 : Follows(f[i], f[i + 1])
  BY DEF Framed
<1>4. q # <<>> => q[1].part = 1 /\ ~ Header(q[Len(q)]) /\ Len(q) # 0
  BY EmptySeq DEF Framed
<1>5. s[1].part = 1
  <2>1. CASE Len(q) = 0
    <3>1. 1 \in 1 .. Len(f) /\ Len(q) + 1 = 1
      BY <1>1, <2>1
    <3> QED BY <1>2, <1>3, <3>1
  <2>2. CASE Len(q) # 0
    <3>1. 1 \in 1 .. Len(q) /\ q # <<>>
      BY <1>1, <2>2, EmptySeq
    <3> QED BY <1>2, <1>4, <3>1
  <2> QED BY <2>1, <2>2
<1>6. s[Len(s)] = f[Len(f)]
  <2>1. Len(f) \in 1 .. Len(f)
    BY <1>1
  <2> QED BY <1>1, <1>2, <2>1
<1>7. ASSUME NEW i \in 1 .. Len(s) - 1 PROVE Follows(s[i], s[i + 1])
  <2>1. CASE i < Len(q)
    <3>1. i \in 1 .. Len(q) - 1 /\ i \in 1 .. Len(q) /\ i + 1 \in 1 .. Len(q) /\ Len(q) # 0
      BY <1>1, <2>1
    <3>2. q # <<>>
      BY <3>1, EmptySeq
    <3> QED BY <1>2, <3>1, <3>2 DEF Framed
  <2>2. CASE i = Len(q)
    <3>1. i \in 1 .. Len(q) /\ 1 \in 1 .. Len(f) /\ Len(q) # 0
      BY <1>1, <2>2
    <3>2. q # <<>>
      BY <3>1, EmptySeq
    <3>3. s[i] = q[Len(q)] /\ s[i + 1] = f[1]
      BY <1>2, <2>2, <3>1
    <3> QED BY <1>3, <1>4, <3>2, <3>3 DEF Follows
  <2>3. CASE i > Len(q)
    <3>1. PICK j \in 1 .. Len(f) - 1 : i = Len(q) + j
      <4>1. i - Len(q) \in 1 .. Len(f) - 1 /\ i = Len(q) + (i - Len(q))
        BY <1>1, <2>3
      <4> QED BY <4>1
    <3>2. j \in 1 .. Len(f) /\ j + 1 \in 1 .. Len(f) /\ i + 1 = Len(q) + (j + 1)
      BY <1>1, <3>1
    <3>3. s[i] = f[j] /\ s[i + 1] = f[j + 1]
      BY <1>2, <3>1, <3>2
    <3> QED BY <1>3, <3>1, <3>3
  <2> QED BY <1>1, <2>1, <2>2, <2>3
<1> QED BY <1>3, <1>5, <1>6, <1>7 DEF Framed

-----------------------------------------------------------------------------
(* Descriptors, and the domains.                                           *)

\* A set of numbers that is not empty has a smallest one.
LEMMA SmallestExists ==
  ASSUME NEW C, C \subseteq Nat, C # {}
  PROVE  Min(C) \in C
<1> DEFINE T == {1 .. i : i \in C}
<1>1. T \subseteq FiniteSubsetsOf(Nat) /\ T # {}
  <2>1. ASSUME NEW i \in C PROVE 1 .. i \in FiniteSubsetsOf(Nat)
    BY FS_Interval DEF FiniteSubsetsOf
  <2> QED BY <2>1
<1>2. PICK x \in T : \A y \in T : ~ (<<y, x>> \in StrictSubsetOrdering(Nat))
  BY <1>1, FS_StrictSubsetOrderingWellFounded, WFMin
<1>3. PICK t \in C : x = 1 .. t
  OBVIOUS
<1>4. ASSUME NEW u \in C PROVE t <= u
  <2>1. ~ (<<1 .. u, 1 .. t>> \in StrictSubsetOrdering(Nat))
    BY <1>2, <1>3
  <2>2. t \in Nat /\ u \in Nat
    OBVIOUS
  <2>3. ~ (1 .. u \subseteq 1 .. t /\ 1 .. u # 1 .. t)
    BY <2>1, <2>2 DEF StrictSubsetOrdering
  <2> QED BY <2>2, <2>3
<1> QED BY <1>4 DEF Min

\* The smaller of two numbers.
LEMMA MinOfTwo ==
  ASSUME NEW i \in Int, NEW j \in Int
  PROVE  Min({i, j}) = IF i <= j THEN i ELSE j
  BY DEF Min

\* The names that stand for no module and no descriptor are not one.
LEMMA Names ==
  /\ Nobody \notin Modules /\ "core" \notin Modules /\ NoFd \notin Fds
  /\ Fds \subseteq Nat /\ Routable \subseteq Modules
  BY CoreAssumption DEF Nobody, NoFd, Fds, Routable

\* The first descriptor select has reported is open.
LEMMA ReadyFd ==
  ASSUME TypeOK, ready # {}
  PROVE  Min(ready) \in ready /\ Min(ready) \in Fds /\ fd_clients[Min(ready)] \in Modules
<1>1. ready \subseteq Fds /\ \A f \in ready : fd_clients[f] \in Modules
  BY DEF TypeOK, Open
<1>2. ready \subseteq Nat
  BY <1>1, Names
<1> QED BY <1>1, <1>2, SmallestExists

\* What recv takes from the stream, and what it leaves there.
LEMMA Received ==
  ASSUME TypeOK, NEW m \in Modules, toCore[m] # <<>>,
         NEW n, n = Min({RecvSize, Len(toCore[m])})
  PROVE  /\ n \in 1 .. Len(toCore[m])
         /\ toCore[m] \in Seq(Units)
         /\ SubSeq(toCore[m], 1, n) \in Seq(Units)
         /\ SubSeq(toCore[m], n + 1, Len(toCore[m])) \in Seq(Units)
         /\ IsBegin(SubSeq(toCore[m], 1, n), toCore[m], n)
         /\ IsRest(SubSeq(toCore[m], n + 1, Len(toCore[m])), toCore[m], n)
         /\ SubSeq(toCore[m], 1, n) \o SubSeq(toCore[m], n + 1, Len(toCore[m])) = toCore[m]
<1>1. PICK q \in Seq(Units) : q = toCore[m] /\ q # <<>>
  BY DEF TypeOK
<1>2. Len(q) \in Nat /\ Len(q) # 0
  BY <1>1, EmptySeq, LenProperties
<1>3. n \in 1 .. Len(q)
  <2>1. RecvSize \in Nat /\ RecvSize # 0
    BY CoreAssumption
  <2>2. Min({RecvSize, Len(q)}) = IF RecvSize <= Len(q) THEN RecvSize ELSE Len(q)
    BY <1>2, <2>1, MinOfTwo
  <2> QED BY <1>1, <1>2, <2>1, <2>2
<1>4. /\ SubSeq(q, 1, n) \in Seq(Units) /\ SubSeq(q, n + 1, Len(q)) \in Seq(Units)
      /\ IsBegin(SubSeq(q, 1, n), q, n) /\ IsRest(SubSeq(q, n + 1, Len(q)), q, n)
  <2>1. n \in 0 .. Len(q)
    BY <1>2, <1>3
  <2> QED BY <2>1, Begin, Rest
<1>5. SubSeq(q, 1, n) \o SubSeq(q, n + 1, Len(q)) = q
  <2>1. /\ SubSeq(q, 1, n) \o SubSeq(q, n + 1, Len(q)) = SubSeq(q, 1, Len(q))
    <3>1. 1 \in 1 .. Len(q) + 1 /\ n \in 1 - 1 .. Len(q) /\ Len(q) \in n .. Len(q)
      BY <1>2, <1>3
    <3> QED BY <3>1, ConcatAdjacentSubSeq
  <2> QED BY <2>1, SubSeqFull
<1> QED BY <1>1, <1>3, <1>4, <1>5

\* The frames the modules send.
LEMMA Sent ==
  ASSUME NEW m \in Modules, NEW t \in Modules, NEW i \in 0 .. MaxSend
  PROVE  /\ Register(m) \in Seq(Units) /\ Len(Register(m)) = 1
         /\ Register(m)[1] = Unit(m, "core", 0, 1) /\ Framed(Register(m)) /\ Register(m) # <<>>
         /\ Message(m, t, i) \in Seq(Units) /\ Len(Message(m, t, i)) = 2
         /\ Message(m, t, i)[1] = Unit(m, t, i, 1) /\ Message(m, t, i)[2] = Unit(m, t, i, 2)
         /\ Framed(Message(m, t, i)) /\ Message(m, t, i) # <<>>
<1>1. 0 \in 0 .. MaxSend
  BY CoreAssumption
<1>2. Unit(m, "core", 0, 1) \in Units /\ Unit(m, t, i, 1) \in Units /\ Unit(m, t, i, 2) \in Units
  BY <1>1 DEF Unit, Units
<1>3. /\ Register(m) \in Seq(Units) /\ Len(Register(m)) = 1
      /\ Register(m)[1] = Unit(m, "core", 0, 1) /\ Register(m) # <<>>
  BY <1>2 DEF Register
<1>4. /\ Message(m, t, i) \in Seq(Units) /\ Len(Message(m, t, i)) = 2
      /\ Message(m, t, i)[1] = Unit(m, t, i, 1) /\ Message(m, t, i)[2] = Unit(m, t, i, 2)
      /\ Message(m, t, i) # <<>>
  BY <1>2 DEF Message
<1>5. Framed(Register(m))
  BY <1>3 DEF Framed, Header, IsRegister, Unit
<1>6. Framed(Message(m, t, i))
  <2>1. Unit(m, t, i, 2) = [Unit(m, t, i, 1) EXCEPT !.part = 2]
    BY DEF Unit
  <2>2. Follows(Unit(m, t, i, 1), Unit(m, t, i, 2))
    BY <2>1, Names DEF Follows, Header, IsRegister, Unit
  <2>3. ~ Header(Unit(m, t, i, 2)) /\ Unit(m, t, i, 1).part = 1
    BY DEF Header, Unit
  <2> QED BY <1>4, <2>2, <2>3 DEF Framed
<1> QED BY <1>3, <1>4, <1>5, <1>6

\* The buffer after a frame of k units.
LEMMA Consumed ==
  ASSUME TypeOK, Position, cur # NoFd, NEW k \in {1, 2}, k = 2 => Len(buffer) >= 2, Consume(k)
  PROVE  /\ buffer' \in Seq(Units) /\ IsRest(buffer', buffer, k) /\ k \in 1 .. Len(buffer)
         /\ cur' \in Fds \cup {NoFd}
         /\ IF cur' = NoFd THEN Stops(buffer') ELSE Continues(buffer')
<1>1. buffer \in Seq(Units) /\ cur \in Fds
  BY DEF TypeOK
<1>2. buffer # <<>>
  BY DEF Position, Continues
<1>3. k \in 1 .. Len(buffer) /\ k \in 0 .. Len(buffer)
  <2>1. Len(buffer) \in Nat /\ Len(buffer) # 0
    BY <1>1, <1>2, EmptySeq, LenProperties
  <2> QED BY <2>1
<1>4. buffer' = SubSeq(buffer, k + 1, Len(buffer))
  BY DEF Consume, Loop
<1>5. buffer' \in Seq(Units) /\ IsRest(buffer', buffer, k)
  BY <1>1, <1>3, <1>4, Rest
<1>6. (Continues(buffer') /\ cur' = cur) \/ (Stops(buffer') /\ cur' = NoFd)
  BY <1>4 DEF Consume, Loop
<1>7. cur # NoFd /\ cur' \in Fds \cup {NoFd}
  BY <1>1, <1>6
<1> QED BY <1>3, <1>5, <1>6, <1>7

\* The steps of the modules keep the domains.
LEMMA ModuleTypes ==
  ASSUME TypeOK, NEW m \in Modules,
         Thread(m) \/ Sends(m) \/ Selects(m) \/ recv_local_server(m) \/ Dies(m)
  PROVE  TypeOK'
<1>1. CASE Connects(m)
  <2>1. backlog \in Seq(Modules) /\ Append(backlog, m) \in Seq(Modules)
    BY AppendProperties DEF TypeOK
  <2>2. backlog' \in Seq(Modules)
    BY <1>1, <2>1 DEF Connects
  <2>3. link' \in [Modules -> {"opened", "connected", "registered", "lost", "dead"}]
    BY <1>1 DEF Connects, TypeOK
  <2> QED BY <1>1, <2>2, <2>3 DEF Connects, TypeOK, server, history, Open
<1>2. CASE register_client_module(m)
  <2>1. PICK q \in Seq(Units) : q = toCore[m]
    BY DEF TypeOK
  <2>2. q \o Register(m) \in Seq(Units)
    <3>1. 0 \in 0 .. MaxSend
      BY CoreAssumption
    <3> QED BY <3>1, Sent, Join
  <2>3. toCore' \in [Modules -> Seq(Units)]
    BY <1>2, <2>1, <2>2 DEF register_client_module, TypeOK
  <2>4. link' \in [Modules -> {"opened", "connected", "registered", "lost", "dead"}]
    BY <1>2 DEF register_client_module, TypeOK
  <2> QED BY <1>2, <2>3, <2>4 DEF register_client_module, TypeOK, server, history, Open
<1>3. CASE Sends(m)
  <2>1. PICK q \in Seq(Units) : q = toCore[m]
    BY DEF TypeOK
  <2>2. sent' \in 0 .. MaxSend
    BY <1>3, CoreAssumption DEF Sends, TypeOK
  <2>3. PICK t \in Modules : toCore' = [toCore EXCEPT ![m] = @ \o Message(m, t, sent')]
    BY <1>3 DEF Sends
  <2>4. q \o Message(m, t, sent') \in Seq(Units)
    BY <2>2, Sent, Join
  <2>5. toCore' \in [Modules -> Seq(Units)]
    BY <2>1, <2>3, <2>4 DEF TypeOK
  <2> QED BY <1>3, <2>2, <2>5 DEF Sends, TypeOK, server, modules, history, Open
<1>4. CASE Selects(m)
  <2>1. hup' \in [Modules -> BOOLEAN]
    BY <1>4 DEF Selects, TypeOK
  <2> QED BY <1>4, <2>1 DEF Selects, TypeOK, server, wires, history, Open
<1>5. ASSUME NEW as \in {"lost", "dead"}, Close(m, as)
      PROVE  /\ link' \in [Modules -> {"opened", "connected", "registered", "lost", "dead"}]
             /\ reset' \in [Modules -> BOOLEAN] /\ hup' \in [Modules -> BOOLEAN]
             /\ unread' \in [Modules -> 0 .. MaxUnread]
  <2>1. 0 \in 0 .. MaxUnread
    BY CoreAssumption
  <2>2. unread' \in [Modules -> 0 .. MaxUnread]
    BY <1>5, <2>1 DEF Close, TypeOK
  <2>3. ASSUME NEW b \in BOOLEAN, b = (unread[m] > 0) PROVE reset' \in [Modules -> BOOLEAN]
    <3>1. reset' = [reset EXCEPT ![m] = b]
      BY <1>5, <2>3 DEF Close
    <3> QED BY <3>1 DEF TypeOK
  <2>4. (unread[m] > 0) \in BOOLEAN
    OBVIOUS
  <2>5. hup' \in [Modules -> BOOLEAN]
    BY <1>5 DEF Close, TypeOK
  <2>6. link' \in [Modules -> {"opened", "connected", "registered", "lost", "dead"}]
    BY <1>5 DEF Close, TypeOK
  <2> QED BY <2>2, <2>3, <2>4, <2>5, <2>6
<1>6. CASE recv_local_server(m)
  <2>1. CASE Close(m, "lost")
    BY <1>5, <1>6, <2>1 DEF recv_local_server, TypeOK, server, history, Open
  <2>2. CASE /\ unread' = [unread EXCEPT ![m] = 0] /\ hup' = [hup EXCEPT ![m] = FALSE]
             /\ UNCHANGED <<link, reset>>
    <3>1. 0 \in 0 .. MaxUnread
      BY CoreAssumption
    <3>2. unread' \in [Modules -> 0 .. MaxUnread] /\ hup' \in [Modules -> BOOLEAN]
      BY <2>2, <3>1 DEF TypeOK
    <3> QED BY <1>6, <2>2, <3>2 DEF recv_local_server, TypeOK, server, history, Open
  <2> QED BY <1>6, <2>1, <2>2 DEF recv_local_server
<1>7. CASE Dies(m)
  BY <1>5, <1>7 DEF Dies, TypeOK, server, history, Open
<1> QED BY <1>1, <1>2, <1>3, <1>4, <1>6, <1>7 DEF Thread

\* Core's death empties everything it has.
LEMMA DeathTypes ==
  ASSUME TypeOK, CoreDies
  PROVE  /\ core' = "dead" /\ fd_clients' \in [Fds -> Modules \cup {Nobody}]
         /\ handler' \in [Routable -> Fds \cup {NoFd}]
         /\ ready' = {} /\ knocks' = FALSE /\ cur' = NoFd /\ buffer' = <<>>
         /\ buffer' \in Seq(Units) /\ backlog' \in Seq(Modules)
         /\ toCore' \in [Modules -> Seq(Units)] /\ registered' \in [Modules -> BOOLEAN]
         /\ \A m \in Modules : toCore'[m] = <<>> /\ ~ registered'[m]
  BY EmptySeq DEF CoreDies

\* The steps of core keep the domains.
LEMMA CoreTypes ==
  ASSUME TypeOK, Position, CoreStep
  PROVE  TypeOK'
<1>1. CASE setup_core_server
  BY <1>1 DEF setup_core_server, TypeOK, modules, wires, history, Open
<1>2. CASE select
  BY <1>2 DEF select, TypeOK, modules, wires, history, Open, Readable, Knocking
<1>3. CASE recv
  <2>1. PICK f \in Fds, m \in Modules : f = Min(ready) /\ f \in ready /\ m = fd_clients[f]
    BY <1>3, ReadyFd DEF recv
  <2>2. CASE CoreDies
    BY <1>3, <2>2, DeathTypes DEF recv, TypeOK, modules, Open
  <2>3. CASE /\ toCore[m] # <<>>
             /\ \E n : /\ n = Min({RecvSize, Len(toCore[m])})
                       /\ Loop(buffer \o SubSeq(toCore[m], 1, n), f)
                       /\ toCore' = [toCore EXCEPT ![m] = SubSeq(@, n + 1, Len(@))]
             /\ ready' = ready \ {f}
             /\ UNCHANGED <<core, fd_clients, handler, knocks, backlog, registered>>
    <3>1. PICK n : /\ n = Min({RecvSize, Len(toCore[m])})
                   /\ Loop(buffer \o SubSeq(toCore[m], 1, n), f)
                   /\ toCore' = [toCore EXCEPT ![m] = SubSeq(@, n + 1, Len(@))]
      BY <2>3
    <3>2. /\ SubSeq(toCore[m], 1, n) \in Seq(Units)
          /\ SubSeq(toCore[m], n + 1, Len(toCore[m])) \in Seq(Units)
      BY <2>3, <3>1, Received
    <3>3. toCore' \in [Modules -> Seq(Units)]
      BY <3>1, <3>2 DEF TypeOK
    <3>4. buffer' \in Seq(Units) /\ cur' \in Fds \cup {NoFd}
      <4>1. buffer \o SubSeq(toCore[m], 1, n) \in Seq(Units)
        BY <3>2, Join DEF TypeOK
      <4> QED BY <3>1, <4>1 DEF Loop
    <3>5. mixed' \in BOOLEAN
      BY <1>3, <2>1, <2>3 DEF recv, TypeOK
    <3> QED BY <1>3, <2>3, <3>3, <3>4, <3>5 DEF recv, TypeOK, modules, Open
  <2>4. CASE /\ fd_clients' = [fd_clients EXCEPT ![f] = Nobody]
             /\ registered' = [registered EXCEPT ![m] = FALSE]
             /\ ready' = ready \ {f} /\ buffer' = <<>>
             /\ mixed' = (mixed \/ buffer # <<>>)
             /\ UNCHANGED <<core, handler, knocks, cur, backlog, toCore>>
    <3>1. buffer' \in Seq(Units)
      BY <2>4, EmptySeq
    <3>2. fd_clients' \in [Fds -> Modules \cup {Nobody}] /\ registered' \in [Modules -> BOOLEAN]
      BY <2>4 DEF TypeOK
    <3>3. ready' \subseteq Open'
      BY <2>4 DEF TypeOK, Open
    <3> QED BY <1>3, <2>4, <3>1, <3>2, <3>3 DEF recv, TypeOK, modules
  <2> QED BY <1>3, <2>1, <2>2, <2>3, <2>4 DEF recv
<1>4. CASE to_core_event
  <2>1. buffer' \in Seq(Units) /\ cur' \in Fds \cup {NoFd}
    BY <1>4, Consumed DEF to_core_event
  <2>2. handler' \in [Routable -> Fds \cup {NoFd}] /\ registered' \in [Modules -> BOOLEAN]
    <3>1. CASE UNCHANGED <<handler, registered>>
      BY <3>1 DEF TypeOK
    <3>2. CASE /\ handler' = [handler EXCEPT ![Head(buffer).host] = cur]
               /\ registered' = [registered EXCEPT ![Head(buffer).host] =
                                   @ \/ fd_clients[cur] = Head(buffer).host]
      <4>1. handler' \in [Routable -> Fds \cup {NoFd}]
        BY <3>2 DEF TypeOK
      <4>2. ASSUME NEW b \in BOOLEAN,
                   b = (registered[Head(buffer).host] \/ fd_clients[cur] = Head(buffer).host)
            PROVE  registered' \in [Modules -> BOOLEAN]
        <5>1. registered' = [registered EXCEPT ![Head(buffer).host] = b]
          BY <3>2, <4>2
        <5> QED BY <5>1 DEF TypeOK
      <4>3. (registered[Head(buffer).host] \/ fd_clients[cur] = Head(buffer).host) \in BOOLEAN
        OBVIOUS
      <4> QED BY <4>1, <4>2, <4>3
    <3> QED BY <1>4, <3>1, <3>2 DEF to_core_event
  <2> QED BY <1>4, <2>1, <2>2 DEF to_core_event, TypeOK, modules, wires, Open
<1>5. CASE to_others_event
  <2>1. CASE CoreDies /\ UNCHANGED <<unread, newest>>
    BY <1>5, <2>1, DeathTypes DEF to_others_event, TypeOK, modules, Open
  <2>2. ASSUME Consume(FrameSize(Head(buffer)))
        PROVE  buffer' \in Seq(Units) /\ cur' \in Fds \cup {NoFd}
    <3>1. FrameSize(Head(buffer)) = 2 /\ Len(buffer) >= 2
      BY <1>5 DEF to_others_event, FrameSize, Position, Continues
    <3> QED BY <1>5, <2>2, <3>1, Consumed DEF to_others_event
  <2>3. CASE /\ UNCHANGED <<core, fd_clients, handler, ready, knocks, backlog, toCore, registered,
                            unread, newest>>
             /\ Consume(FrameSize(Head(buffer)))
    BY <1>5, <2>2, <2>3 DEF to_others_event, TypeOK, modules, Open
  <2>4. ASSUME NEW n, n # Nobody, unread[n] < MaxUnread, n \in Modules,
               unread' = [unread EXCEPT ![n] = @ + 1],
               newest' = [newest EXCEPT ![Head(buffer).host] = Head(buffer).id],
               Consume(FrameSize(Head(buffer))),
               UNCHANGED <<core, fd_clients, handler, ready, knocks, backlog, toCore, registered>>
        PROVE  TypeOK'
    <3>1. unread[n] + 1 \in 0 .. MaxUnread
      BY <2>4, CoreAssumption DEF TypeOK
    <3>2. unread' \in [Modules -> 0 .. MaxUnread]
      BY <2>4, <3>1 DEF TypeOK
    <3>3. Head(buffer) \in Units
      BY <1>5, HeadTailProperties DEF to_others_event, Position, Continues, TypeOK
    <3>4. newest' \in [Modules -> 0 .. MaxSend]
      BY <2>4, <3>3 DEF TypeOK, Units
    <3> QED BY <1>5, <2>2, <2>4, <3>2, <3>4 DEF to_others_event, TypeOK, modules, Open
  <2>5. ASSUME NEW f \in Fds PROVE fd_clients[f] # Nobody => fd_clients[f] \in Modules
    BY DEF TypeOK
  <2> DEFINE t == Receiver(Head(buffer))
             f == IF t \in Routable THEN handler[t] ELSE NoFd
             n == IF f = NoFd THEN Nobody ELSE fd_clients[f]
  <2>6. n # Nobody => n \in Modules
    BY <2>5 DEF TypeOK
  <2> HIDE DEF n
  <2>7. \/ CoreDies /\ UNCHANGED <<unread, newest>>
        \/ /\ n # Nobody /\ unread[n] < MaxUnread
           /\ unread' = [unread EXCEPT ![n] = @ + 1]
           /\ newest' = [newest EXCEPT ![Head(buffer).host] = Head(buffer).id]
           /\ Consume(FrameSize(Head(buffer)))
           /\ UNCHANGED <<core, fd_clients, handler, ready, knocks, backlog, toCore, registered>>
        \/ /\ UNCHANGED <<core, fd_clients, handler, ready, knocks, backlog, toCore, registered,
                          unread, newest>>
           /\ Consume(FrameSize(Head(buffer)))
    BY <1>5 DEF to_others_event, n
  <2> QED BY <2>1, <2>3, <2>4, <2>6, <2>7
<1>6. CASE Misframed
  <2>1. buffer' \in Seq(Units) /\ cur' \in Fds \cup {NoFd}
    BY <1>6, Consumed DEF Misframed
  <2> QED BY <1>6, <2>1 DEF Misframed, TypeOK, modules, wires, history, Open
<1>7. CASE clients_connection_changed
  <2>1. backlog # <<>> /\ backlog \in Seq(Modules)
    BY <1>7 DEF clients_connection_changed, Position, TypeOK
  <2>2. Head(backlog) \in Modules /\ Tail(backlog) \in Seq(Modules)
    BY <2>1, HeadTailProperties
  <2>3. fd_clients' \in [Fds -> Modules \cup {Nobody}]
    BY <1>7, <2>2 DEF clients_connection_changed, TypeOK
  <2> QED BY <1>7, <2>2, <2>3 DEF clients_connection_changed, TypeOK, modules, history, Open
<1> QED BY <1>1, <1>2, <1>3, <1>4, <1>5, <1>6, <1>7 DEF CoreStep

\* Every step keeps the domains.
LEMMA TypeStep ==
  ASSUME TypeOK, Position, [Next]_vars
  PROVE  TypeOK'
<1>1. CASE UNCHANGED vars
  BY <1>1 DEF vars, server, modules, wires, history, TypeOK, Open
<1> QED BY <1>1, ModuleTypes, CoreTypes DEF Next

-----------------------------------------------------------------------------
(* The steps, one part of the invariant after the other.                   *)

\* The loop of recv_and_process stands at a frame, and the server is known to
\* be readable only while a connection is waiting.
LEMMA PositionStep ==
  ASSUME TypeOK, Position, [Next]_vars
  PROVE  Position'
<1>1. CASE UNCHANGED vars
  BY <1>1 DEF vars, server, wires, Position, Stops, Continues
<1>2. ASSUME CoreDies PROVE Position'
  BY <1>2 DEF CoreDies, Position, Stops
<1>3. ASSUME cur # NoFd, NEW k, Consume(k), UNCHANGED <<knocks, backlog>> PROVE Position'
  BY <1>3 DEF Consume, Loop, Position
<1>4. CASE setup_core_server
  BY <1>4 DEF setup_core_server, Position, wires, Stops, Continues
<1>5. CASE select
  BY <1>5 DEF select, Position, wires, Stops, Continues, Knocking
<1>6. CASE recv
  <2>1. PICK f \in Fds : f = Min(ready)
    BY <1>6, ReadyFd DEF recv
  <2>2. f # NoFd
    BY <2>1, Names
  <2>3. CASE /\ UNCHANGED <<knocks, backlog>>
             /\ \E b : Loop(b, f)
    BY <2>2, <2>3 DEF Loop, Position
  <2>4. CASE buffer' = <<>> /\ UNCHANGED <<knocks, backlog, cur>> /\ cur = NoFd
    BY <2>4 DEF Position, Stops
  <2> QED BY <1>2, <1>6, <2>1, <2>3, <2>4 DEF recv
<1>7. CASE to_core_event
  BY <1>3, <1>7 DEF to_core_event, wires
<1>8. CASE to_others_event
  BY <1>2, <1>3, <1>8 DEF to_others_event
<1>9. CASE Misframed
  BY <1>3, <1>9 DEF Misframed, wires
<1>10. CASE clients_connection_changed
  BY <1>10 DEF clients_connection_changed, Position, Stops, Continues
<1>11. ASSUME NEW m \in Modules, Connects(m) PROVE Position'
  <2>1. Append(backlog, m) # <<>>
    BY AppendProperties DEF TypeOK
  <2> QED BY <1>11, <2>1 DEF Connects, Position, server, Stops, Continues
<1>12. ASSUME NEW m \in Modules,
              \/ register_client_module(m) \/ Sends(m) \/ Selects(m)
              \/ recv_local_server(m) \/ Dies(m)
       PROVE  Position'
  BY <1>12 DEF register_client_module, Sends, Selects, recv_local_server, Dies, wires, server,
               Position, Stops, Continues
<1> QED BY <1>1, <1>4, <1>5, <1>6, <1>7, <1>8, <1>9, <1>10, <1>11, <1>12
        DEF Next, CoreStep, Thread

\* A module that has left the states in which it registers does not come back.
Beyond(m) == link[m] \notin {"opened", "connected"}

\* The states of a connection only go forward.
LEMMA LinkStep ==
  ASSUME TypeOK, [Next]_vars, NEW m \in Modules, Beyond(m)
  PROVE  Beyond(m)'
<1>1. CASE CoreStep \/ UNCHANGED vars
  BY <1>1 DEF CoreStep, setup_core_server, select, recv, to_core_event, to_others_event, Misframed,
              clients_connection_changed, vars, modules, Beyond
<1>2. ASSUME NEW n \in Modules, Thread(n) \/ Sends(n) \/ Selects(n) \/ recv_local_server(n) \/ Dies(n)
      PROVE  Beyond(m)'
  <2>1. CASE Connects(n)
    BY <2>1 DEF Connects, Beyond, TypeOK
  <2>2. CASE register_client_module(n)
    BY <2>2 DEF register_client_module, Beyond, TypeOK
  <2>3. CASE Sends(n) \/ Selects(n)
    BY <2>3 DEF Sends, Selects, Beyond, modules
  <2>4. CASE recv_local_server(n) \/ Dies(n)
    BY <2>4 DEF recv_local_server, Dies, Close, Beyond, TypeOK
  <2> QED BY <1>2, <2>1, <2>2, <2>3, <2>4 DEF Thread
<1> QED BY <1>1, <1>2 DEF Next

\* A unit stays pending while nothing is passed on and no module becomes known.
LEMMA PendingStays ==
  ASSUME TypeOK, \A m \in Modules : Beyond(m) => Beyond(m)',
         UNCHANGED <<newest, registered>>, sent' \in Nat, sent' >= sent,
         NEW u \in Units, Pending(u)
  PROVE  Pending(u)'
<1>1. u.id <= sent'
  <2>1. u.id \in Nat /\ sent \in Nat /\ u.id <= sent
    BY CoreAssumption DEF TypeOK, Units, Pending
  <2> QED BY <2>1
<1>2. ~ IsRegister(u) /\ u.part = 1 => u.id > newest'[u.host]
  BY DEF Pending
<1>3. IsRegister(u) => ~ registered'[u.host] /\ link'[u.host] \notin {"opened", "connected"}
  BY DEF Pending, Beyond, Units
<1> QED BY <1>1, <1>2, <1>3 DEF Pending

\* Nothing is put into a stream or the buffer, and nothing is taken out.
LEMMA OrderQuiet ==
  ASSUME TypeOK, Order, \A m \in Modules : Beyond(m) => Beyond(m)',
         UNCHANGED <<buffer, toCore, newest, registered>>, sent' \in Nat, sent' >= sent
  PROVE  Order'
<1>1. ASSUME NEW u \in Units, Pending(u) PROVE Pending(u)'
  BY <1>1, PendingStays
<1>2. buffer \in Seq(Units) /\ \A m \in Modules : toCore[m] \in Seq(Units)
  BY DEF TypeOK
<1>3. Elems(buffer) \subseteq Units /\ \A m \in Modules : Elems(toCore[m]) \subseteq Units
  BY <1>2, ElementOfSeq DEF Elems
<1>4. InTurn(buffer') /\ \A m \in Modules : InTurn(toCore'[m]) /\ Before(buffer', toCore'[m])
  BY DEF Order
<1>5. /\ \A u \in Elems(buffer') : Pending(u)'
      /\ \A m \in Modules : \A u \in Elems(toCore'[m]) : Pending(u)' /\ u.host = m
  BY <1>1, <1>3 DEF Order
<1> QED BY <1>4, <1>5 DEF Order

\* A module sends a frame.
LEMMA OrderAdds ==
  ASSUME TypeOK, Order, \A m \in Modules : Beyond(m) => Beyond(m)',
         NEW m \in Modules, NEW f \in Seq(Units),
         toCore' = [toCore EXCEPT ![m] = @ \o f],
         UNCHANGED <<buffer, newest, registered>>, sent' \in Nat, sent' >= sent,
         InTurn(f), Before(buffer, f), Before(toCore[m], f),
         \A u \in Elems(f) : Pending(u)' /\ u.host = m
  PROVE  Order'
<1>1. ASSUME NEW u \in Units, Pending(u) PROVE Pending(u)'
  BY <1>1, PendingStays
<1>2. buffer \in Seq(Units) /\ \A n \in Modules : toCore[n] \in Seq(Units)
  BY DEF TypeOK
<1>3. Elems(buffer) \subseteq Units /\ \A n \in Modules : Elems(toCore[n]) \subseteq Units
  BY <1>2, ElementOfSeq DEF Elems
<1>4. PICK q \in Seq(Units), s \in Seq(Units) : q = toCore[m] /\ s = toCore'[m] /\ IsJoin(s, q, f)
  <2>1. toCore'[m] = toCore[m] \o f
    BY DEF TypeOK
  <2> QED BY <1>2, <2>1, Join
<1>5. ASSUME NEW n \in Modules, n # m PROVE toCore'[n] = toCore[n]
  BY <1>5 DEF TypeOK
<1>6. /\ InTurn(q) /\ Before(buffer, q) /\ \A u \in Elems(q) : Pending(u) /\ u.host = m
  BY <1>4 DEF Order
<1>7. InTurn(s) /\ Before(buffer, s) /\ Elems(s) = Elems(q) \cup Elems(f)
  <2>1. buffer \in Seq(Units)
    BY DEF TypeOK
  <2>2. IsJoin(s, q, f) /\ InTurn(q) /\ InTurn(f) /\ Before(q, f)
    BY <1>4, <1>6
  <2>3. Elems(s) = Elems(q) \cup Elems(f)
    BY <2>2, JoinElems
  <2>4. InTurn(s)
    BY <2>2, JoinOfTurns
  <2>5. Before(buffer, s)
    BY <1>6, <2>1, <2>2, JoinInTurn
  <2> QED BY <2>3, <2>4, <2>5
<1>8. ASSUME NEW n \in Modules
      PROVE  /\ InTurn(toCore'[n]) /\ Before(buffer', toCore'[n])
             /\ \A u \in Elems(toCore'[n]) : Pending(u)' /\ u.host = n
  <2>1. CASE n = m
    <3>1. \A u \in Elems(q) : Pending(u)' /\ u.host = m
      BY <1>1, <1>3, <1>4, <1>6
    <3> QED BY <1>4, <1>7, <2>1, <3>1
  <2>2. CASE n # m
    BY <1>1, <1>3, <1>5, <2>2 DEF Order
  <2> QED BY <2>1, <2>2
<1>9. InTurn(buffer') /\ \A u \in Elems(buffer') : Pending(u)'
  BY <1>1, <1>3 DEF Order
<1> QED BY <1>8, <1>9 DEF Order

\* Core takes the first k units out of the buffer; what that makes of the units
\* behind the first is up to the step.
LEMMA OrderConsumes ==
  ASSUME TypeOK, Order, NEW k \in 1 .. Len(buffer), buffer' \in Seq(Units), IsRest(buffer', buffer, k),
         UNCHANGED toCore,
         \A u \in Units : /\ Pending(u)
                          /\ u.host = buffer[1].host => Ahead(buffer[1], u)
                          => Pending(u)'
  PROVE  Order'
<1>1. /\ buffer \in Seq(Units) /\ \A m \in Modules : toCore[m] \in Seq(Units)
      /\ Len(buffer) \in Nat /\ k \in Nat
  BY LenProperties DEF TypeOK
<1>2. Elems(buffer) \subseteq Units /\ \A m \in Modules : Elems(toCore[m]) \subseteq Units
  BY <1>1, ElementOfSeq DEF Elems
<1>3. PICK r \in Seq(Units) : r = buffer' /\ IsRest(r, buffer, k)
  OBVIOUS
<1>4. /\ InTurn(r) /\ Elems(r) \subseteq Elems(buffer)
      /\ \A m \in Modules : Before(r, toCore[m])
  BY <1>1, <1>3, RestInTurn DEF Order
<1>5. ASSUME NEW u \in Elems(r) PROVE Pending(u)'
  <2>1. PICK i \in 1 .. Len(r) : u = r[i]
    BY DEF Elems
  <2>2. Len(r) = Len(buffer) - k
    BY <1>3 DEF IsRest
  <2>3. 1 \in 1 .. Len(buffer) /\ k + i \in 1 .. Len(buffer) /\ 1 < k + i
    BY <1>1, <2>2
  <2>4. u = buffer[k + i]
    BY <1>3, <2>1 DEF IsRest
  <2>5. u.host = buffer[1].host => Ahead(buffer[1], u)
    BY <2>3, <2>4 DEF Order, InTurn
  <2> QED BY <1>2, <1>4, <2>5 DEF Order
<1>6. ASSUME NEW m \in Modules, NEW u \in Elems(toCore[m]) PROVE Pending(u)'
  <2>1. PICK i \in 1 .. Len(toCore[m]) : u = toCore[m][i]
    BY DEF Elems
  <2>2. 1 \in 1 .. Len(buffer)
    BY <1>1
  <2>3. u.host = buffer[1].host => Ahead(buffer[1], u)
    BY <2>1, <2>2 DEF Order, Before
  <2> QED BY <1>2, <2>3 DEF Order
<1> QED BY <1>3, <1>4, <1>5, <1>6 DEF Order

\* Core reads p from the stream of m and leaves r there.
LEMMA OrderReads ==
  ASSUME TypeOK, Order, NEW m \in Modules, NEW p \in Seq(Units), NEW r \in Seq(Units),
         NEW n \in 0 .. Len(toCore[m]), IsBegin(p, toCore[m], n), IsRest(r, toCore[m], n),
         buffer' = buffer \o p, toCore' = [toCore EXCEPT ![m] = r],
         UNCHANGED <<sent, newest, registered, link>>
  PROVE  Order'
<1>1. buffer \in Seq(Units) /\ \A k \in Modules : toCore[k] \in Seq(Units)
  BY DEF TypeOK
<1>2. PICK q \in Seq(Units), s \in Seq(Units) : q = toCore[m] /\ s = buffer' /\ IsJoin(s, buffer, p)
  BY <1>1, Join
<1>3. ASSUME NEW u PROVE Pending(u) <=> Pending(u)'
  BY DEF Pending
<1>4. n \in Nat
  BY <1>1, LenProperties
<1>5. /\ InTurn(q) /\ Before(buffer, q) /\ \A u \in Elems(q) : Pending(u) /\ u.host = m
      /\ InTurn(buffer) /\ \A u \in Elems(buffer) : Pending(u)
  BY <1>2 DEF Order
<1>6. /\ InTurn(p) /\ Before(p, r) /\ Before(buffer, p) /\ Elems(p) \subseteq Elems(q)
      /\ InTurn(r) /\ Before(buffer, r) /\ Elems(r) \subseteq Elems(q)
  <2>1. buffer \in Seq(Units)
    BY DEF TypeOK
  <2>2. InTurn(p) /\ Before(p, r) /\ Before(buffer, p) /\ Elems(p) \subseteq Elems(q)
    BY <1>1, <1>2, <1>5, <2>1, BeginInTurn
  <2>3. InTurn(r) /\ Before(buffer, r) /\ Elems(r) \subseteq Elems(q)
    BY <1>1, <1>2, <1>4, <1>5, <2>1, RestInTurn
  <2> QED BY <2>2, <2>3
<1>7. /\ InTurn(s) /\ Elems(s) = Elems(buffer) \cup Elems(p)
      /\ \A t \in Seq(Units) : Before(buffer, t) /\ Before(p, t) => Before(s, t)
  <2>1. buffer \in Seq(Units)
    BY DEF TypeOK
  <2>2. Elems(s) = Elems(buffer) \cup Elems(p)
    BY <1>2, <2>1, JoinElems
  <2>3. InTurn(s)
    BY <1>2, <1>5, <1>6, <2>1, JoinOfTurns
  <2>4. \A t \in Seq(Units) : Before(buffer, t) /\ Before(p, t) => Before(s, t)
    BY <1>2, <2>1, JoinInTurn
  <2> QED BY <2>2, <2>3, <2>4
<1>8. ASSUME NEW k \in Modules
      PROVE  /\ InTurn(toCore'[k]) /\ Before(buffer', toCore'[k])
             /\ \A u \in Elems(toCore'[k]) : Pending(u)' /\ u.host = k
  <2>1. CASE k = m
    <3>1. toCore'[k] = r
      BY <2>1 DEF TypeOK
    <3> QED BY <1>2, <1>3, <1>5, <1>6, <1>7, <2>1, <3>1
  <2>2. CASE k # m
    <3>1. toCore'[k] = toCore[k]
      BY <2>2 DEF TypeOK
    <3>2. InTurn(toCore[k]) /\ \A u \in Elems(toCore[k]) : Pending(u) /\ u.host = k
      BY DEF Order
    <3>3. Before(p, toCore[k])
      <4>1. \A i \in 1 .. Len(p) : p[i].host = m
        BY <1>5, <1>6 DEF Elems
      <4>2. \A i \in 1 .. Len(toCore[k]) : toCore[k][i].host = k
        BY <3>2 DEF Elems
      <4> QED BY SMTT(30), <2>2, <4>1, <4>2 DEF Before
    <3>4. Before(s, toCore[k])
      BY <1>1, <1>7, <3>3 DEF Order
    <3> QED BY <1>2, <1>3, <3>1, <3>2, <3>4
  <2> QED BY <2>1, <2>2
<1>9. InTurn(buffer') /\ \A u \in Elems(buffer') : Pending(u)'
  BY <1>2, <1>3, <1>5, <1>6, <1>7
<1> QED BY <1>8, <1>9 DEF Order

\* Nothing is left in the buffer.
LEMMA OrderEnds ==
  ASSUME TypeOK, Order, buffer' = <<>>,
         UNCHANGED <<sent, newest, link>>,
         \A m \in Modules : (toCore'[m] = toCore[m] \/ toCore'[m] = <<>>)
                            /\ (registered'[m] => registered[m])
  PROVE  Order'
<1>1. Len(buffer') = 0 /\ Elems(buffer') = {} /\ InTurn(buffer')
  BY DEF Elems, InTurn
<1>2. ASSUME NEW q PROVE Before(buffer', q)
  BY <1>1 DEF Before
<1>3. ASSUME NEW m \in Modules
      PROVE  InTurn(toCore'[m]) /\ \A u \in Elems(toCore'[m]) : Pending(u)' /\ u.host = m
  <2>1. CASE toCore'[m] = <<>>
    BY <2>1 DEF Elems, InTurn
  <2>2. CASE toCore'[m] = toCore[m]
    BY <2>2 DEF Order, Pending
  <2> QED BY <2>1, <2>2
<1> QED BY <1>1, <1>2, <1>3 DEF Order

\* The unit at the front of the buffer, which core works on.
LEMMA AtFront ==
  ASSUME TypeOK, Position, cur # NoFd
  PROVE  /\ Front = buffer[1] /\ Front \in Units /\ Front \in Elems(buffer)
         /\ Len(buffer) \in Nat /\ 1 \in 1 .. Len(buffer) /\ Front.host \in Modules
         /\ Front.part = 1 => Len(buffer) >= FrameSize(Front)
<1>1. buffer \in Seq(Units) /\ buffer # <<>>
  BY DEF TypeOK, Position, Continues
<1>2. Len(buffer) \in Nat /\ 1 \in 1 .. Len(buffer)
  <2>1. Len(buffer) \in Nat /\ Len(buffer) # 0
    BY <1>1, EmptySeq, LenProperties
  <2> QED BY <2>1
<1>3. Front = buffer[1] /\ Front \in Units
  BY <1>1, <1>2, HeadTailProperties, ElementOfSeq DEF Front
<1>4. Front.part = 1 => Len(buffer) >= FrameSize(Front)
  BY DEF Position, Continues, Front
<1> QED BY <1>2, <1>3, <1>4 DEF Elems, Units

\* A message that is sent is the last one, and a registration the only one.
LEMMA SentInTurn ==
  ASSUME IInv, NEW m \in Modules
  PROVE  /\ ~ Beyond(m) => /\ InTurn(Register(m)) /\ Before(buffer, Register(m))
                           /\ Before(toCore[m], Register(m))
         /\ \A t \in Modules, i \in 0 .. MaxSend : i > sent =>
              /\ InTurn(Message(m, t, i)) /\ Before(buffer, Message(m, t, i))
              /\ Before(toCore[m], Message(m, t, i))
<1>1. /\ buffer \in Seq(Units) /\ toCore[m] \in Seq(Units)
      /\ sent \in Nat
  BY CoreAssumption DEF IInv, TypeOK
<1> DEFINE Old == Elems(buffer) \cup Elems(toCore[m])
<1>2. /\ \A u \in Old : u \in Units /\ Pending(u)
      /\ \A i \in 1 .. Len(buffer) : buffer[i] \in Old
      /\ \A i \in 1 .. Len(toCore[m]) : toCore[m][i] \in Old
  BY <1>1, ElementOfSeq DEF IInv, Order, Elems
<1>3. ASSUME ~ Beyond(m)
      PROVE  /\ InTurn(Register(m)) /\ Before(buffer, Register(m)) /\ Before(toCore[m], Register(m))
  <2>1. 0 \in 0 .. MaxSend
    BY CoreAssumption
  <2>2. Len(Register(m)) = 1 /\ Register(m)[1] = Unit(m, "core", 0, 1)
    BY <2>1, Sent
  <2>3. Unit(m, "core", 0, 1).host = m /\ IsRegister(Unit(m, "core", 0, 1))
    BY DEF Unit, IsRegister
  <2>4. \A u \in Old : u.host = m => Ahead(u, Unit(m, "core", 0, 1))
    BY <1>2, <1>3, <2>3 DEF Pending, Beyond, Ahead
  <2>5. InTurn(Register(m))
    BY <2>2 DEF InTurn
  <2> HIDE DEF Old
  <2> QED BY <1>2, <2>2, <2>3, <2>4, <2>5 DEF Before
<1>4. ASSUME NEW t \in Modules, NEW i \in 0 .. MaxSend, i > sent
      PROVE  /\ InTurn(Message(m, t, i)) /\ Before(buffer, Message(m, t, i))
             /\ Before(toCore[m], Message(m, t, i))
  <2> DEFINE a == Unit(m, t, i, 1)
             b == Unit(m, t, i, 2)
  <2>1. Len(Message(m, t, i)) = 2 /\ Message(m, t, i)[1] = a /\ Message(m, t, i)[2] = b
    BY Sent
  <2>2. /\ a.host = m /\ ~ IsRegister(a) /\ a.id = i /\ a.part = 1
        /\ b.host = m /\ ~ IsRegister(b) /\ b.id = i /\ b.part = 2
    BY Names DEF Unit, IsRegister
  <2> HIDE DEF a, b
  <2>3. ASSUME NEW u \in Old, NEW v \in {a, b} PROVE Ahead(u, v)
    <3>1. u.id \in Nat /\ u.id <= sent /\ v.id = i /\ i \in Nat
      BY <1>2, <2>2 DEF Units, Pending
    <3>2. u.id < v.id
      BY <1>1, <1>4, <3>1
    <3> QED BY <2>2, <3>2 DEF Ahead
  <2>4. InTurn(Message(m, t, i))
    <3>1. Ahead(a, b)
      BY <2>2 DEF Ahead
    <3>2. \A j, k \in 1 .. 2 : j < k => j = 1 /\ k = 2
      OBVIOUS
    <3> QED BY <2>1, <3>1, <3>2 DEF InTurn
  <2>5. \A k \in 1 .. 2 : Message(m, t, i)[k] \in {a, b}
    BY <2>1
  <2> HIDE DEF Old
  <2> QED BY <1>2, <2>1, <2>3, <2>4, <2>5 DEF Before
<1> QED BY <1>3, <1>4

\* Every step keeps the order of the units, and lets only messages and
\* registrations be pending that core has not dealt with.
LEMMA OrderStep ==
  ASSUME IInv, [Next]_vars
  PROVE  Order'
<1>1. TypeOK /\ Order /\ Position
  BY DEF IInv
<1>2. \A m \in Modules : Beyond(m) => Beyond(m)'
  BY <1>1, LinkStep
<1>3. sent \in Nat /\ sent >= sent
  BY <1>1, CoreAssumption DEF TypeOK
<1>4. ASSUME UNCHANGED <<buffer, toCore, sent, newest, registered>> PROVE Order'
  BY <1>1, <1>2, <1>3, <1>4, OrderQuiet
<1>5. CASE UNCHANGED vars
  BY <1>4, <1>5 DEF vars, server, wires, history
<1>6. ASSUME CoreDies, UNCHANGED <<sent, newest, link>> PROVE Order'
  <2>1. buffer' = <<>> /\ \A m \in Modules : toCore'[m] = <<>> /\ ~ registered'[m]
    BY <1>1, <1>6, DeathTypes
  <2> QED BY <1>1, <1>6, <2>1, OrderEnds
<1>7. ASSUME NEW m \in Modules, register_client_module(m) PROVE Order'
  <2>1. ~ Beyond(m) /\ toCore' = [toCore EXCEPT ![m] = @ \o Register(m)]
    BY <1>7 DEF register_client_module, Beyond
  <2>2. /\ UNCHANGED <<buffer, newest, registered, sent>>
        /\ sent' \in Nat /\ sent' >= sent
    BY <1>3, <1>7 DEF register_client_module, server, history
  <2>3. 0 \in 0 .. MaxSend
    BY CoreAssumption
  <2>4. /\ Register(m) \in Seq(Units) /\ Len(Register(m)) = 1
        /\ Register(m)[1] = Unit(m, "core", 0, 1)
    BY <2>3, Sent
  <2>5. InTurn(Register(m)) /\ Before(buffer, Register(m)) /\ Before(toCore[m], Register(m))
    BY <2>1, SentInTurn
  <2>6. Pending(Unit(m, "core", 0, 1))'
    <3>1. ~ registered[m]
      BY <2>1 DEF IInv, Known, Beyond
    <3>2. link'[m] \notin {"opened", "connected"}
      BY <1>1, <1>7 DEF register_client_module, TypeOK
    <3>3. 0 <= sent'
      BY <2>2
    <3> QED BY <2>2, <3>1, <3>2, <3>3 DEF Pending, IsRegister, Unit
  <2>7. \A u \in Elems(Register(m)) : u = Unit(m, "core", 0, 1)
    BY <2>4 DEF Elems
  <2>8. \A u \in Elems(Register(m)) : Pending(u)' /\ u.host = m
    BY <2>6, <2>7 DEF Unit
  <2> QED BY <1>1, <1>2, <2>1, <2>2, <2>4, <2>5, <2>8, OrderAdds
<1>8. ASSUME NEW m \in Modules, Sends(m) PROVE Order'
  <2>1. PICK t \in Modules, i \in 0 .. MaxSend :
          toCore' = [toCore EXCEPT ![m] = @ \o Message(m, t, i)] /\ i = sent'
    <3>1. sent' \in 0 .. MaxSend
      BY <1>1, <1>8, CoreAssumption DEF Sends, TypeOK
    <3> QED BY <1>8, <3>1 DEF Sends
  <2>2. i > sent /\ i \in Nat
    BY <1>3, <1>8, <2>1 DEF Sends
  <2>3. UNCHANGED <<buffer, newest, registered>> /\ sent' \in Nat /\ sent' >= sent
    BY <1>3, <1>8, <2>1, <2>2 DEF Sends, server, history
  <2>4. /\ Message(m, t, i) \in Seq(Units) /\ Len(Message(m, t, i)) = 2
        /\ Message(m, t, i)[1] = Unit(m, t, i, 1) /\ Message(m, t, i)[2] = Unit(m, t, i, 2)
    BY Sent
  <2>5. /\ InTurn(Message(m, t, i)) /\ Before(buffer, Message(m, t, i))
        /\ Before(toCore[m], Message(m, t, i))
    BY <2>2, SentInTurn
  <2>6. ASSUME NEW k \in {1, 2} PROVE Pending(Unit(m, t, i, k))'
    <3>1. ~ IsRegister(Unit(m, t, i, k))
      BY Names DEF IsRegister, Unit
    <3>2. newest'[m] = newest[m] /\ newest[m] \in Nat /\ newest[m] <= sent
      BY <1>1, <2>3, CoreAssumption DEF IInv, Known, TypeOK
    <3>3. i > newest'[m] /\ i <= sent'
      BY <1>3, <2>1, <2>2, <3>2
    <3> QED BY <3>1, <3>3 DEF Pending, Unit
  <2>7. \A u \in Elems(Message(m, t, i)) : \E k \in {1, 2} : u = Unit(m, t, i, k)
    BY <2>4 DEF Elems
  <2>8. \A u \in Elems(Message(m, t, i)) : Pending(u)' /\ u.host = m
    BY <2>6, <2>7 DEF Unit
  <2> QED BY <1>1, <1>2, <2>1, <2>3, <2>4, <2>5, <2>8, OrderAdds
<1>9. ASSUME NEW m \in Modules,
             Connects(m) \/ Selects(m) \/ recv_local_server(m) \/ Dies(m)
      PROVE  Order'
  BY <1>4, <1>9 DEF Connects, Selects, recv_local_server, Dies, server, wires, history
<1>10. CASE setup_core_server \/ select \/ clients_connection_changed
  BY <1>4, <1>10 DEF setup_core_server, select, clients_connection_changed, wires, history
<1>11. CASE recv
  <2>1. PICK f \in Fds, m \in Modules : f = Min(ready) /\ f \in ready /\ m = fd_clients[f]
    BY <1>1, <1>11, ReadyFd DEF recv
  <2>2. UNCHANGED <<sent, newest, link>>
    BY <1>11 DEF recv, modules
  <2>3. CASE CoreDies
    BY <1>6, <2>2, <2>3
  <2>4. ASSUME toCore[m] # <<>>, NEW n, n = Min({RecvSize, Len(toCore[m])}),
               Loop(buffer \o SubSeq(toCore[m], 1, n), f),
               toCore' = [toCore EXCEPT ![m] = SubSeq(@, n + 1, Len(@))],
               UNCHANGED registered
        PROVE  Order'
    <3>1. /\ SubSeq(toCore[m], 1, n) \in Seq(Units) /\ n \in 1 .. Len(toCore[m])
          /\ SubSeq(toCore[m], n + 1, Len(toCore[m])) \in Seq(Units)
          /\ IsBegin(SubSeq(toCore[m], 1, n), toCore[m], n)
          /\ IsRest(SubSeq(toCore[m], n + 1, Len(toCore[m])), toCore[m], n)
      BY <1>1, <2>4, Received
    <3>2. n \in 0 .. Len(toCore[m])
      BY <3>1
    <3>3. buffer' = buffer \o SubSeq(toCore[m], 1, n)
      BY <2>4 DEF Loop
    <3> QED BY <1>1, <2>2, <2>4, <3>1, <3>2, <3>3, OrderReads
  <2>5. CASE UNCHANGED toCore /\ buffer' = <<>> /\ registered' = [registered EXCEPT ![m] = FALSE]
    <3>1. \A k \in Modules : registered'[k] => registered[k]
      BY <1>1, <2>5 DEF TypeOK
    <3> QED BY <1>1, <2>2, <2>5, <3>1, OrderEnds
  <2>6. \/ CoreDies
        \/ /\ toCore[m] # <<>> /\ UNCHANGED registered
           /\ \E n : /\ n = Min({RecvSize, Len(toCore[m])})
                     /\ Loop(buffer \o SubSeq(toCore[m], 1, n), f)
                     /\ toCore' = [toCore EXCEPT ![m] = SubSeq(@, n + 1, Len(@))]
        \/ UNCHANGED toCore /\ buffer' = <<>> /\ registered' = [registered EXCEPT ![m] = FALSE]
    BY <1>11, <2>1 DEF recv
  <2> QED BY <2>3, <2>4, <2>5, <2>6
<1>12. ASSUME cur # NoFd, NEW k \in {1, 2}, k = 2 => Len(buffer) >= 2, Consume(k),
              UNCHANGED toCore,
              \A u \in Units : /\ Pending(u)
                               /\ u.host = Front.host => Ahead(Front, u)
                               => Pending(u)'
       PROVE  Order'
  <2>1. buffer' \in Seq(Units) /\ IsRest(buffer', buffer, k) /\ k \in 1 .. Len(buffer)
    BY <1>1, <1>12, Consumed
  <2>2. Front = buffer[1]
    BY <1>1, <1>12, AtFront
  <2> QED BY <1>1, <1>12, <2>1, <2>2, OrderConsumes
<1>13. ASSUME UNCHANGED <<sent, newest, registered, link>>, NEW u PROVE Pending(u) => Pending(u)'
  BY <1>13 DEF Pending
<1>14. CASE Misframed
  <2>1. cur # NoFd /\ Consume(1) /\ UNCHANGED <<toCore, sent, newest, registered, link>>
    BY <1>14 DEF Misframed, modules, wires, history
  <2> QED BY <1>12, <1>13, <2>1
<1>15. CASE to_core_event
  <2>1. cur # NoFd /\ Consume(1) /\ UNCHANGED <<toCore, sent, newest, link>> /\ IsRegister(Front)
    BY <1>15 DEF to_core_event, modules, wires, Front
  <2>2. Front.host \in Modules
    BY <1>1, <2>1, AtFront
  <2>3. \A m \in Modules : m # Front.host => registered'[m] = registered[m]
    BY <1>1, <1>15, <2>2 DEF to_core_event, TypeOK, Front
  <2>4. ASSUME NEW u \in Units, Pending(u), u.host = Front.host => Ahead(Front, u)
        PROVE  Pending(u)'
    BY <2>1, <2>3, <2>4 DEF Pending, Ahead, Units
  <2> QED BY <1>12, <2>1, <2>4
<1>16. CASE to_others_event
  <2>1. cur # NoFd /\ ~ IsRegister(Front) /\ Front.part = 1 /\ UNCHANGED <<sent, link>>
    BY <1>16 DEF to_others_event, modules, Front
  <2>2. FrameSize(Front) = 2 /\ Len(buffer) >= 2
    BY <1>1, <2>1, AtFront DEF FrameSize
  <2>3. \/ CoreDies /\ UNCHANGED newest
        \/ Consume(2) /\ UNCHANGED <<toCore, registered, newest>>
        \/ /\ Consume(2) /\ UNCHANGED <<toCore, registered>>
           /\ newest' = [newest EXCEPT ![Front.host] = Front.id]
    BY <1>16, <2>2 DEF to_others_event, Front
  <2>4. ASSUME UNCHANGED registered, newest' = [newest EXCEPT ![Front.host] = Front.id],
               NEW u \in Units, Pending(u), u.host = Front.host => Ahead(Front, u)
        PROVE  Pending(u)'
    <3>1. CASE u.host # Front.host
      <4>1. newest'[u.host] = newest[u.host]
        BY <1>1, <2>4, <3>1 DEF TypeOK, Units
      <4> QED BY <2>1, <2>4, <4>1 DEF Pending
    <3>2. CASE u.host = Front.host
      <4>1. newest'[u.host] = Front.id
        BY <1>1, <2>4, <3>2 DEF TypeOK, Units
      <4>2. ~ IsRegister(u) /\ u.part = 1 => Front.id < u.id
        <5>1. ~ IsRegister(u) /\ u.part = 1 => Front.id < u.id \/ Front.part < u.part
          BY <2>1, <2>4, <3>2 DEF Ahead
        <5> QED BY <2>1, <5>1
      <4>3. Front.id \in Int /\ u.id \in Int
        BY <1>1, <2>1, AtFront DEF Units
      <4> QED BY <2>1, <2>4, <4>1, <4>2, <4>3 DEF Pending
    <3> QED BY <3>1, <3>2
  <2> QED BY <1>6, <1>12, <1>13, <2>1, <2>2, <2>3, <2>4
<1> QED BY <1>5, <1>7, <1>8, <1>9, <1>10, <1>11, <1>14, <1>15, <1>16 DEF Next, CoreStep, Thread

\* Core knows a module by the descriptor it is connected with.
LEMMA KnownStep ==
  ASSUME IInv, [Next]_vars
  PROVE  Known'
<1> DEFINE At(m) == /\ m \in Routable /\ handler[m] # NoFd /\ fd_clients[handler[m]] = m
<1>1. TypeOK /\ Position /\ Known /\ sent \in Nat /\ \A m \in Modules : newest[m] \in Nat
  BY CoreAssumption DEF IInv, TypeOK
<1>2. \A m \in Modules : /\ Beyond(m) => Beyond(m)'
                         /\ registered[m] => At(m) /\ Beyond(m)
  BY <1>1, LinkStep DEF Known, Beyond
<1>3. ASSUME UNCHANGED newest, sent' \in Nat, sent' >= sent, NEW m \in Modules
      PROVE  newest'[m] <= sent'
  <2>1. newest[m] \in Nat /\ newest[m] <= sent /\ sent <= sent' /\ newest'[m] = newest[m]
    BY <1>1, <1>3 DEF Known
  <2> QED BY <1>1, <1>3, <2>1
<1>4. ASSUME \A m \in Modules : newest'[m] <= sent',
             \A m \in Modules : registered'[m] => registered[m] /\ At(m)'
      PROVE  Known'
  BY <1>2, <1>4 DEF Known, Beyond
<1>5. ASSUME UNCHANGED <<newest, registered, handler, fd_clients>>, sent' \in Nat, sent' >= sent
      PROVE  Known'
  BY <1>2, <1>3, <1>4, <1>5
<1>6. sent >= sent
  BY <1>1
<1>7. CASE UNCHANGED vars
  BY <1>1, <1>5, <1>6, <1>7 DEF vars, server, history
<1>8. ASSUME CoreDies, UNCHANGED <<newest, sent>> PROVE Known'
  <2>1. \A m \in Modules : ~ registered'[m]
    BY <1>1, <1>8, DeathTypes
  <2> QED BY <1>1, <1>3, <1>4, <1>6, <1>8, <2>1
<1>9. ASSUME NEW m \in Modules,
             \/ Connects(m) \/ register_client_module(m) \/ Selects(m)
             \/ recv_local_server(m) \/ Dies(m)
      PROVE  Known'
  BY <1>1, <1>5, <1>6, <1>9 DEF Connects, register_client_module, Selects, recv_local_server, Dies,
                                server, history
<1>10. ASSUME NEW m \in Modules, Sends(m) PROVE Known'
  <2>1. sent' = sent + 1
    BY <1>10 DEF Sends
  <2>2. sent' \in Nat /\ sent' >= sent
    BY <1>1, <2>1
  <2> QED BY <1>5, <1>10, <2>2 DEF Sends, server, history
<1>11. CASE setup_core_server \/ select \/ Misframed
  BY <1>1, <1>5, <1>6, <1>11 DEF setup_core_server, select, Misframed, history
<1>12. CASE clients_connection_changed
  <2>1. UNCHANGED <<newest, sent, registered, handler>>
    BY <1>12 DEF clients_connection_changed, history
  <2>2. ASSUME NEW m \in Modules, registered[m] PROVE fd_clients'[handler[m]] = m
    <3>1. At(m) /\ handler[m] \in Open
      BY <1>1, <1>2, <2>2, Names DEF TypeOK, Open
    <3>2. CASE Open # Fds
      <4>1. Fds \ Open # {} /\ Fds \ Open \subseteq Nat
        BY <3>2, Names DEF Open
      <4>2. Min(Fds \ Open) \in Fds \ Open
        BY <4>1, SmallestExists
      <4>3. fd_clients' = [fd_clients EXCEPT ![Min(Fds \ Open)] = Head(backlog)]
        BY <1>12, <3>2 DEF clients_connection_changed
      <4> HIDE DEF At
      <4>4. handler[m] \in Fds /\ handler[m] # Min(Fds \ Open)
        BY <3>1, <4>2 DEF Open
      <4> QED BY <1>1, <3>1, <4>3, <4>4 DEF TypeOK, At
    <3>3. CASE Open = Fds
      BY <1>12, <3>1, <3>3 DEF clients_connection_changed
    <3> QED BY <3>2, <3>3
  <2>3. \A m \in Modules : registered'[m] => registered[m] /\ At(m)'
    BY <1>2, <2>1, <2>2
  <2> QED BY <1>1, <1>3, <1>4, <1>6, <2>1, <2>3
<1>13. CASE recv
  <2>1. PICK f \in Fds, m \in Modules : f = Min(ready) /\ f \in ready /\ m = fd_clients[f]
    BY <1>1, <1>13, ReadyFd DEF recv
  <2>2. UNCHANGED <<sent, newest>>
    BY <1>13 DEF recv
  <2>3. CASE CoreDies
    BY <1>8, <2>2, <2>3
  <2>4. CASE UNCHANGED <<fd_clients, handler, registered>>
    BY <1>1, <1>5, <1>6, <2>2, <2>4
  <2>5. CASE /\ fd_clients' = [fd_clients EXCEPT ![f] = Nobody]
             /\ registered' = [registered EXCEPT ![m] = FALSE]
             /\ UNCHANGED handler
    <3>1. ASSUME NEW k \in Modules, registered'[k] PROVE registered[k] /\ At(k)'
      <4>1. k # m /\ registered[k]
        BY <1>1, <2>5, <3>1 DEF TypeOK
      <4>2. At(k)
        BY <1>2, <4>1
      <4>3. handler[k] \in Fds /\ handler[k] # f
        BY <1>1, <2>1, <4>1, <4>2 DEF TypeOK
      <4> QED BY <1>1, <2>5, <4>1, <4>2, <4>3 DEF TypeOK
    <3> QED BY <1>1, <1>3, <1>4, <1>6, <2>2, <3>1
  <2> QED BY <1>13, <2>1, <2>3, <2>4, <2>5 DEF recv
<1>14. CASE to_core_event
  <2>1. /\ cur # NoFd /\ IsRegister(Front) /\ UNCHANGED <<newest, sent, fd_clients, link>>
        /\ cur \in Fds
    BY <1>1, <1>14 DEF to_core_event, modules, Front, TypeOK
  <2>2. Front \in Elems(buffer) /\ Front.host \in Modules
    BY <1>1, <2>1, AtFront
  <2>3. ~ registered[Front.host] /\ Beyond(Front.host)
    BY <2>1, <2>2 DEF IInv, Order, Pending, Beyond
  <2>4. ASSUME NEW m \in Modules, registered'[m] PROVE At(m)' /\ Beyond(m)
    <3>1. CASE m # Front.host
      <4>1. /\ registered'[m] = registered[m] /\ (m \in Routable => handler'[m] = handler[m])
        BY <1>1, <1>14, <2>2, <3>1 DEF to_core_event, TypeOK, Front
      <4> QED BY <1>2, <2>1, <2>4, <4>1
    <3>2. CASE m = Front.host
      <4>1. CASE m \in Routable
        <5>1. /\ handler' = [handler EXCEPT ![m] = cur]
              /\ registered' = [registered EXCEPT ![m] = @ \/ fd_clients[cur] = m]
          BY <1>14, <3>2, <4>1 DEF to_core_event, Front
        <5>2. handler'[m] = cur
          BY <1>1, <4>1, <5>1 DEF TypeOK
        <5>3. fd_clients[cur] = m
          BY <1>1, <2>3, <2>4, <3>2, <5>1 DEF TypeOK
        <5> QED BY <2>1, <2>3, <3>2, <4>1, <5>2, <5>3
      <4>2. CASE m \notin Routable
        BY <1>14, <2>3, <2>4, <3>2, <4>2 DEF to_core_event, Front
      <4> QED BY <4>1, <4>2
    <3> QED BY <3>1, <3>2
  <2>5. \A m \in Modules : newest'[m] <= sent'
    BY <1>1, <1>3, <1>6, <2>1
  <2> QED BY <1>2, <2>4, <2>5 DEF Known, Beyond
<1>15. CASE to_others_event
  <2>1. cur # NoFd /\ UNCHANGED sent
    BY <1>15 DEF to_others_event
  <2>2. \/ CoreDies /\ UNCHANGED newest
        \/ UNCHANGED <<fd_clients, handler, registered, newest>>
        \/ /\ UNCHANGED <<fd_clients, handler, registered>>
           /\ newest' = [newest EXCEPT ![Front.host] = Front.id]
    BY <1>15 DEF to_others_event, Front
  <2>3. ASSUME UNCHANGED <<fd_clients, handler, registered>>,
               newest' = [newest EXCEPT ![Front.host] = Front.id]
        PROVE  Known'
    <3>1. Front.id <= sent
      BY <1>1, <2>1, AtFront DEF IInv, Order, Pending
    <3>2. \A m \in Modules : newest'[m] <= sent'
      BY <1>1, <2>1, <2>3, <3>1 DEF Known, TypeOK
    <3> QED BY <1>2, <1>4, <2>3, <3>2
  <2> QED BY <1>1, <1>5, <1>6, <1>8, <2>1, <2>2, <2>3
<1> QED BY <1>7, <1>9, <1>10, <1>11, <1>12, <1>13, <1>14, <1>15 DEF Next, CoreStep, Thread

\* The buffer is of one module and what is left of each stream begins with a frame.
Pure == /\ \A i \in 1 .. Len(buffer) : buffer[i].host = buffer[1].host
        /\ \A m \in Modules : Framed(Left(m))

\* What is left of a stream, when the buffer is of one module.
LEMMA LeftIs ==
  ASSUME TypeOK
  PROVE  /\ buffer \in Seq(Units) /\ Len(buffer) \in Nat /\ (buffer = <<>> <=> Len(buffer) = 0)
         /\ buffer # <<>> => buffer[1].host \in Modules /\ 1 \in 1 .. Len(buffer)
         /\ \A m \in Modules :
              /\ toCore[m] \in Seq(Units) /\ Left(m) \in Seq(Units)
              /\ buffer = <<>> \/ buffer[1].host = m => Left(m) = buffer \o toCore[m]
              /\ buffer = <<>> \/ buffer[1].host # m => Left(m) = toCore[m]
<1>1. buffer \in Seq(Units) /\ \A m \in Modules : toCore[m] \in Seq(Units)
  BY DEF TypeOK
<1>2. Len(buffer) \in Nat /\ (buffer = <<>> <=> Len(buffer) = 0)
  BY <1>1, LenProperties, EmptySeq
<1>3. ASSUME buffer # <<>> PROVE buffer[1].host \in Modules /\ 1 \in 1 .. Len(buffer)
  <2>1. 1 \in 1 .. Len(buffer)
    BY <1>2, <1>3
  <2>2. buffer[1] \in Units
    BY <1>1, <2>1, ElementOfSeq
  <2> QED BY <2>1, <2>2 DEF Units
<1>4. ASSUME NEW m \in Modules PROVE <<>> \o toCore[m] = toCore[m]
  BY <1>1, ConcatEmptySeq
<1>5. ASSUME NEW m \in Modules PROVE buffer \o toCore[m] \in Seq(Units)
  BY <1>1, Join
<1> QED BY <1>1, <1>2, <1>3, <1>4, <1>5 DEF Left

\* It does not matter where a sequence of units is cut.
LEMMA Associative ==
  ASSUME NEW p \in Seq(Units), NEW q \in Seq(Units), NEW r \in Seq(Units)
  PROVE  p \o (q \o r) = (p \o q) \o r
  BY SMTT(60), ConcatAssociative

\* A module puts a frame behind what is left of its stream.
LEMMA PureAdds ==
  ASSUME TypeOK, Pure, NEW m \in Modules, NEW f \in Seq(Units), Framed(f), f # <<>>,
         toCore' = [toCore EXCEPT ![m] = @ \o f], UNCHANGED buffer
  PROVE  Pure'
<1>1. ASSUME NEW n \in Modules, n # m PROVE Left(n)' = Left(n)
  BY <1>1 DEF Left, TypeOK
<1>2. Left(m)' = Left(m) \o f
  <2>1. toCore'[m] = toCore[m] \o f
    BY DEF TypeOK
  <2>2. PICK c \in Seq(Units), t \in Seq(Units) : c = buffer /\ t = toCore[m]
    BY LeftIs
  <2>3. c \o (t \o f) = (c \o t) \o f
    BY Associative
  <2> QED BY <2>1, <2>2, <2>3 DEF Left
<1>3. Left(m) \in Seq(Units)
  BY LeftIs
<1>4. PICK q \in Seq(Units) : q = Left(m) /\ Framed(q)
  BY <1>3 DEF Pure
<1>5. Framed(q \o f)
  BY <1>4, Join, JoinFramed
<1>6. \A n \in Modules : Framed(Left(n)')
  BY <1>1, <1>2, <1>4, <1>5 DEF Pure
<1> QED BY <1>6 DEF Pure

\* The first k units of the buffer are a frame, or the end of one.
LEMMA PureConsumes ==
  ASSUME TypeOK, Pure, NEW k \in 1 .. Len(buffer), buffer' \in Seq(Units), IsRest(buffer', buffer, k),
         UNCHANGED toCore, ~ Header(buffer[k])
  PROVE  Pure'
<1>0. PICK h \in Modules : h = buffer[1].host
  BY LeftIs
<1> DEFINE r == buffer'
<1>1. /\ r \in Seq(Units) /\ Len(r) \in Nat /\ (r = <<>> <=> Len(r) = 0) /\ Len(r) = Len(buffer) - k
      /\ buffer \in Seq(Units) /\ Len(buffer) \in Nat /\ k \in Nat /\ buffer # <<>>
  <2>1. Len(buffer) \in Nat
    BY LeftIs
  <2>2. k \in Nat /\ Len(buffer) # 0
    BY <2>1
  <2> QED BY <2>1, <2>2, LeftIs, LenProperties, EmptySeq DEF IsRest
<1>2. \A i \in 1 .. Len(r) : r[i] = buffer[k + i] /\ k + i \in 1 .. Len(buffer)
  BY <1>1 DEF IsRest
<1>3. \A i \in 1 .. Len(r) : r[i].host = h
  BY <1>0, <1>2 DEF Pure
<1>4. r # <<>> => r[1].host = h
  <2>1. r # <<>> => 1 \in 1 .. Len(r)
    BY <1>1
  <2> QED BY <1>3, <2>1
<1>5. ASSUME NEW n \in Modules, n # h PROVE Left(n)' = toCore[n] /\ Left(n) = toCore[n]
  BY <1>0, <1>1, <1>4, <1>5 DEF Left
<1>6. PICK t \in Seq(Units) : t = toCore[h]
  BY <1>1, LeftIs
<1>7. Left(h)' = r \o t /\ Left(h) = buffer \o t
  <2>1. <<>> \o t = t
    BY ConcatEmptySeq
  <2>2. Left(h)' = IF r # <<>> /\ r[1].host = h THEN r \o toCore'[h] ELSE toCore'[h]
    BY DEF Left
  <2>3. Left(h) = buffer \o t
    BY <1>0, <1>1, <1>6 DEF Left
  <2>4. toCore'[h] = t
    BY <1>6
  <2> HIDE DEF r
  <2> QED BY <1>4, <2>1, <2>2, <2>3, <2>4
<1>8. /\ r \o t \in Seq(Units) /\ IsJoin(r \o t, r, t)
      /\ buffer \o t \in Seq(Units) /\ IsJoin(buffer \o t, buffer, t)
  BY <1>1, Join
<1> HIDE DEF r
<1>9. PICK a \in Seq(Units), b \in Seq(Units) :
        a = r \o t /\ b = buffer \o t /\ IsJoin(a, r, t) /\ IsJoin(b, buffer, t)
  BY <1>8
<1>10. Len(t) \in Nat /\ Len(a) = Len(r) + Len(t) /\ Len(b) = Len(buffer) + Len(t)
  BY <1>9, LenProperties DEF IsJoin
<1>11. ASSUME NEW i \in 1 .. Len(a) PROVE a[i] = b[k + i]
  <2>1. CASE i \in 1 .. Len(r)
    BY <1>2, <1>9, <2>1 DEF IsJoin
  <2>2. ASSUME NEW j \in 1 .. Len(t), i = Len(r) + j PROVE a[i] = b[k + i]
    <3>1. k + i = Len(buffer) + j
      BY <1>1, <2>2
    <3>2. a[i] = t[j]
      BY <1>9, <2>2 DEF IsJoin
    <3>3. b[Len(buffer) + j] = t[j]
      BY <1>9 DEF IsJoin
    <3> QED BY <3>1, <3>2, <3>3
  <2> QED BY <1>9, <2>1, <2>2 DEF IsJoin
<1>12. IsRest(a, b, k) /\ k \in 1 .. Len(b) /\ b[k] = buffer[k]
  <2>1. Len(a) = Len(b) - k /\ k \in 1 .. Len(b)
    BY <1>1, <1>10
  <2> QED BY <1>9, <1>11, <2>1 DEF IsRest, IsJoin
<1>13. Framed(b)
  BY <1>1, <1>7, <1>9 DEF Pure
<1>14. Framed(a)
  BY <1>9, <1>12, <1>13, RestFramed
<1>15. \A n \in Modules : Framed(Left(n)')
  <2>1. \A n \in Modules : n # h => Framed(Left(n)')
    BY <1>5 DEF Pure
  <2> QED BY <1>7, <1>9, <1>14, <2>1
<1>16. \A i \in 1 .. Len(buffer') : buffer'[i].host = buffer'[1].host
  <2>1. \A i \in 1 .. Len(r) : 1 \in 1 .. Len(r)
    BY <1>1
  <2> QED BY <1>3, <2>1 DEF r
<1> QED BY <1>15, <1>16 DEF Pure

\* Core reads from the stream the buffer is of, or the buffer was empty.
LEMMA PureReads ==
  ASSUME TypeOK, Pure, NEW m \in Modules, NEW p \in Seq(Units), NEW r \in Seq(Units), p # <<>>,
         p \o r = toCore[m], NEW n \in 0 .. Len(toCore[m]), IsBegin(p, toCore[m], n),
         \A u \in Elems(toCore[m]) : u.host = m,
         buffer # <<>> => buffer[Len(buffer)].host = m,
         buffer' = buffer \o p, toCore' = [toCore EXCEPT ![m] = r]
  PROVE  Pure'
<1>1. /\ buffer \in Seq(Units) /\ Len(buffer) \in Nat /\ (buffer = <<>> <=> Len(buffer) = 0)
      /\ Len(p) \in Nat /\ Len(p) # 0 /\ toCore[m] \in Seq(Units) /\ Len(toCore[m]) \in Nat
  BY LeftIs, LenProperties, EmptySeq
<1>2. buffer # <<>> => buffer[1].host = m
  <2>1. buffer # <<>> => Len(buffer) \in 1 .. Len(buffer)
    BY <1>1
  <2> QED BY <2>1 DEF Pure
<1>3. \A i \in 1 .. Len(p) : p[i].host = m
  <2>1. \A i \in 1 .. Len(p) : i \in 1 .. Len(toCore[m]) /\ p[i] = toCore[m][i]
    BY <1>1 DEF IsBegin
  <2> QED BY <2>1 DEF Elems
<1>4. PICK s \in Seq(Units) : s = buffer' /\ IsJoin(s, buffer, p)
  BY <1>1, Join
<1>5. Len(s) \in Nat /\ Len(s) = Len(buffer) + Len(p)
  BY <1>4, LenProperties DEF IsJoin
<1>6. \A i \in 1 .. Len(s) : s[i].host = m
  <2>1. ASSUME NEW i \in 1 .. Len(buffer) PROVE s[i].host = m
    <3>1. buffer # <<>>
      BY <1>1
    <3> QED BY <1>2, <1>4, <3>1 DEF IsJoin, Pure
  <2>2. ASSUME NEW j \in 1 .. Len(p) PROVE s[Len(buffer) + j].host = m
    BY <1>3, <1>4 DEF IsJoin
  <2> QED BY SMTT(30), <1>4, <2>1, <2>2 DEF IsJoin
<1>7. s # <<>> /\ s[1].host = m
  <2>1. 1 \in 1 .. Len(s)
    BY <1>1, <1>5
  <2> QED BY <1>6, <2>1
<1>8. Left(m)' = Left(m)
  <2>1. toCore'[m] = r
    BY DEF TypeOK
  <2>2. PICK c \in Seq(Units) : c = buffer
    BY <1>1
  <2>4. c \o (p \o r) = (c \o p) \o r
    BY Associative
  <2>3. Left(m) = buffer \o toCore[m]
    BY <1>2, LeftIs
  <2> QED BY <1>4, <1>7, <2>1, <2>2, <2>3, <2>4 DEF Left
<1>9. ASSUME NEW k \in Modules, k # m PROVE Left(k)' = Left(k)
  <2>1. Left(k) = toCore[k]
    BY <1>2, <1>9, LeftIs
  <2> QED BY <1>4, <1>7, <1>9, <2>1 DEF Left, TypeOK
<1>10. \A i \in 1 .. Len(buffer') : buffer'[i].host = buffer'[1].host
  BY <1>4, <1>6, <1>7
<1> QED BY <1>8, <1>9, <1>10 DEF Pure

\* Until messages are mixed up the buffer begins with a frame: a header at its
\* front is followed by its own data.
LEMMA WholeAtFront ==
  ASSUME TypeOK, Position, Pure, cur # NoFd
  PROVE  /\ Front = buffer[1] /\ Front.part = 1
         /\ Header(Front) => /\ FrameSize(Front) = 2 /\ Len(buffer) >= 2
                             /\ buffer[2] = [Front EXCEPT !.part = 2] /\ ~ Header(buffer[2])
<1>1. /\ Front = buffer[1] /\ Len(buffer) \in Nat /\ 1 \in 1 .. Len(buffer) /\ Front.host \in Modules
      /\ Front \in Units /\ (Front.part = 1 => Len(buffer) >= FrameSize(Front))
  BY AtFront
<1>2. PICK h \in Modules, q \in Seq(Units), t \in Seq(Units) :
        /\ h = Front.host /\ t = toCore[h] /\ q = Left(h) /\ q = buffer \o t
  BY <1>1, LeftIs
<1>3. PICK c \in Seq(Units) : c = buffer
  BY DEF TypeOK
<1>4. Framed(q) /\ IsJoin(q, c, t) /\ Len(t) \in Nat
  BY <1>2, <1>3, Join, LenProperties DEF Pure
<1>5. /\ Len(q) = Len(c) + Len(t) /\ Len(c) \in Nat /\ 1 \in 1 .. Len(c)
      /\ \A i \in 1 .. Len(c) : q[i] = c[i]
  BY <1>1, <1>3, <1>4 DEF IsJoin
<1>6. q # <<>>
  <2>1. Len(q) # 0
    BY <1>4, <1>5
  <2> QED BY <2>1
<1>7. Front.part = 1
  BY <1>1, <1>3, <1>4, <1>5, <1>6 DEF Framed
<1>8. ASSUME Header(Front)
      PROVE  /\ FrameSize(Front) = 2 /\ Len(buffer) >= 2
             /\ buffer[2] = [Front EXCEPT !.part = 2] /\ ~ Header(buffer[2])
  <2>1. FrameSize(Front) = 2 /\ Len(c) >= 2
    BY <1>1, <1>3, <1>8 DEF Header, FrameSize
  <2>2. 1 \in 1 .. Len(q) - 1 /\ 2 \in 1 .. Len(c) /\ 1 + 1 = 2
    BY <1>4, <1>5, <2>1
  <2>3. Follows(q[1], q[2]) /\ q[1] = Front /\ q[2] = buffer[2]
    BY <1>1, <1>3, <1>4, <1>5, <1>6, <2>2 DEF Framed
  <2>4. buffer[2] = [Front EXCEPT !.part = 2]
    BY <1>8, <2>3 DEF Follows
  <2>5. buffer[2].part # 1
    BY <1>1, <2>4 DEF Units
  <2> QED BY <1>3, <2>1, <2>4, <2>5 DEF Header
<1> QED BY <1>1, <1>7, <1>8

\* Messages are mixed up only by what another module leaves in the buffer.
LEMMA UnmixedStep ==
  ASSUME IInv, [Next]_vars
  PROVE  Unmixed'
<1>1. TypeOK /\ Position /\ Order /\ (mixed \/ Pure)
  BY DEF IInv, Unmixed, Pure
<1>2. SUFFICES ASSUME ~ mixed' PROVE Pure'
  BY DEF Unmixed, Pure
<1>3. ASSUME Pure, UNCHANGED <<buffer, toCore>> PROVE Pure'
  BY <1>3 DEF Pure, Left
<1>4. CASE UNCHANGED vars
  BY <1>1, <1>2, <1>3, <1>4 DEF vars, server, wires, history
<1>5. ASSUME CoreDies PROVE Pure'
  <2>1. buffer' = <<>> /\ \A m \in Modules : toCore'[m] = <<>>
    BY <1>1, <1>5, DeathTypes
  <2> QED BY <2>1 DEF Pure, Left, Framed
<1>6. ASSUME NEW m \in Modules,
             Connects(m) \/ Selects(m) \/ recv_local_server(m) \/ Dies(m)
      PROVE  Pure'
  BY <1>1, <1>2, <1>3, <1>6 DEF Connects, Selects, recv_local_server, Dies, server, wires, history
<1>7. ASSUME NEW m \in Modules, register_client_module(m) PROVE Pure'
  <2>1. 0 \in 0 .. MaxSend
    BY CoreAssumption
  <2>2. Register(m) \in Seq(Units) /\ Framed(Register(m)) /\ Register(m) # <<>>
    BY <2>1, Sent
  <2>3. /\ toCore' = [toCore EXCEPT ![m] = @ \o Register(m)]
        /\ UNCHANGED <<buffer, mixed>>
    BY <1>7 DEF register_client_module, server, history
  <2> QED BY <1>1, <1>2, <2>2, <2>3, PureAdds
<1>8. ASSUME NEW m \in Modules, Sends(m) PROVE Pure'
  <2>1. sent' \in 0 .. MaxSend
    BY <1>1, <1>8, CoreAssumption DEF Sends, TypeOK
  <2>2. PICK t \in Modules, i \in 0 .. MaxSend :
          toCore' = [toCore EXCEPT ![m] = @ \o Message(m, t, i)]
    BY <1>8, <2>1 DEF Sends
  <2>3. Message(m, t, i) \in Seq(Units) /\ Framed(Message(m, t, i)) /\ Message(m, t, i) # <<>>
    BY Sent
  <2>4. UNCHANGED <<buffer, mixed>>
    BY <1>8 DEF Sends, server, history
  <2> QED BY <1>1, <1>2, <2>2, <2>3, <2>4, PureAdds
<1>9. CASE setup_core_server \/ select \/ clients_connection_changed
  BY <1>1, <1>2, <1>3, <1>9 DEF setup_core_server, select, clients_connection_changed, wires, history
<1>10. CASE recv
  <2>1. PICK f \in Fds, m \in Modules : f = Min(ready) /\ f \in ready /\ m = fd_clients[f]
    BY <1>1, <1>10, ReadyFd DEF recv
  <2>2. CASE CoreDies
    BY <1>5, <2>2
  <2>3. ASSUME toCore[m] # <<>>, NEW n, n = Min({RecvSize, Len(toCore[m])}),
               mixed' = (mixed \/ (buffer # <<>> /\ buffer[Len(buffer)].host # m)),
               Loop(buffer \o SubSeq(toCore[m], 1, n), f),
               toCore' = [toCore EXCEPT ![m] = SubSeq(@, n + 1, Len(@))]
        PROVE  Pure'
    <3> DEFINE p == SubSeq(toCore[m], 1, n)
               r == SubSeq(toCore[m], n + 1, Len(toCore[m]))
    <3>1. /\ p \in Seq(Units) /\ r \in Seq(Units) /\ n \in 1 .. Len(toCore[m])
          /\ IsBegin(p, toCore[m], n) /\ p \o r = toCore[m]
      BY <1>1, <2>3, Received
    <3>2. toCore' = [toCore EXCEPT ![m] = r] /\ buffer' = buffer \o p
      BY <2>3 DEF Loop
    <3> HIDE DEF p, r
    <3>3. p # <<>> /\ n \in 0 .. Len(toCore[m])
      <4>1. Len(p) = n /\ n # 0 /\ n \in 0 .. Len(toCore[m])
        BY <3>1 DEF IsBegin
      <4> QED BY <3>1, <4>1, EmptySeq
    <3>4. Pure /\ (buffer # <<>> => buffer[Len(buffer)].host = m)
      BY <1>1, <1>2, <2>3
    <3>5. \A u \in Elems(toCore[m]) : u.host = m
      BY <1>1 DEF Order
    <3> QED BY <1>1, <3>1, <3>2, <3>3, <3>4, <3>5, PureReads
  <2>4. CASE mixed' = (mixed \/ buffer # <<>>) /\ buffer' = <<>> /\ UNCHANGED toCore
    <3>1. Pure /\ buffer = <<>>
      BY <1>1, <1>2, <2>4
    <3> QED BY <1>3, <2>4, <3>1
  <2>5. \/ CoreDies
        \/ /\ toCore[m] # <<>>
           /\ mixed' = (mixed \/ (buffer # <<>> /\ buffer[Len(buffer)].host # m))
           /\ \E n : /\ n = Min({RecvSize, Len(toCore[m])})
                     /\ Loop(buffer \o SubSeq(toCore[m], 1, n), f)
                     /\ toCore' = [toCore EXCEPT ![m] = SubSeq(@, n + 1, Len(@))]
        \/ mixed' = (mixed \/ buffer # <<>>) /\ buffer' = <<>> /\ UNCHANGED toCore
    BY <1>10, <2>1 DEF recv
  <2> QED BY <2>2, <2>3, <2>4, <2>5
<1>11. ASSUME cur # NoFd, NEW k \in {1, 2}, k = 2 => Len(buffer) >= 2, Consume(k),
              UNCHANGED toCore, Pure, ~ Header(buffer[k])
       PROVE  Pure'
  BY <1>1, <1>11, Consumed, PureConsumes
<1>12. CASE Misframed
  <2>1. cur # NoFd /\ Front.part = 2 /\ UNCHANGED mixed
    BY <1>12 DEF Misframed, history, Front
  <2> QED BY <1>1, <1>2, WholeAtFront, <2>1
<1>13. CASE to_core_event
  <2>1. cur # NoFd /\ IsRegister(Front) /\ Consume(1) /\ UNCHANGED <<toCore, mixed>>
    BY <1>13 DEF to_core_event, wires, Front
  <2>2. Pure
    BY <1>1, <1>2, <2>1
  <2>3. ~ Header(buffer[1])
    BY <1>1, WholeAtFront, <2>1, <2>2 DEF Header
  <2> QED BY <1>11, <2>1, <2>2, <2>3
<1>14. CASE to_others_event
  <2>1. cur # NoFd /\ ~ IsRegister(Front) /\ Front.part = 1 /\ UNCHANGED mixed
    BY <1>14 DEF to_others_event, Front
  <2>2. Pure /\ Header(Front)
    BY <1>1, <1>2, <2>1 DEF Header
  <2>3. FrameSize(Front) = 2 /\ Len(buffer) >= 2 /\ ~ Header(buffer[2])
    BY <1>1, WholeAtFront, <2>1, <2>2
  <2>4. CoreDies \/ (Consume(2) /\ UNCHANGED toCore)
    BY <1>14, <2>3 DEF to_others_event, Front
  <2> QED BY <1>5, <1>11, <2>1, <2>2, <2>3, <2>4
<1> QED BY <1>4, <1>6, <1>7, <1>8, <1>9, <1>10, <1>12, <1>13, <1>14 DEF Next, CoreStep, Thread

\* The initial states satisfy the invariant.
LEMMA Established == Init => IInv
<1> SUFFICES ASSUME Init PROVE IInv
  OBVIOUS
<1>1. <<>> \in Seq(Units) /\ <<>> \in Seq(Modules)
  BY EmptySeq
<1>2. TypeOK
  <2>1. 0 \in 0 .. MaxUnread /\ 0 \in 0 .. MaxSend
    BY CoreAssumption
  <2> QED BY <1>1, <2>1 DEF Init, TypeOK, Open
<1>3. buffer = <<>> /\ \A m \in Modules : toCore[m] = <<>>
  BY DEF Init
<1>4. Order
  BY <1>3 DEF Order, InTurn, Before, Elems
<1>5. Unmixed
  BY <1>3 DEF Unmixed, Left, Framed
<1>6. Known
  BY CoreAssumption DEF Init, Known
<1>7. Position
  BY <1>3 DEF Init, Position, Stops
<1> QED BY <1>2, <1>4, <1>5, <1>6, <1>7 DEF IInv

\* The inductive invariant: order and completeness of the frames on their way,
\* the registrations to come, and what core knows.
THEOREM Invariance == Spec => []IInv
<1>1. IInv /\ [Next]_vars => IInv'
  <2> SUFFICES ASSUME IInv, [Next]_vars PROVE IInv'
    OBVIOUS
  <2>1. TypeOK /\ Position
    BY DEF IInv
  <2> QED BY <2>1, TypeStep, OrderStep, UnmixedStep, KnownStep, PositionStep DEF IInv
<1> QED BY Established, <1>1, PTL DEF Spec

\* Every variable of core, its modules and the streams keeps its domain, and
\* select only reports descriptors that are open.
THEOREM TypeCorrect == Spec => []TypeOK
<1>1. IInv => TypeOK
  BY DEF IInv
<1> QED BY <1>1, Invariance, PTL

\* A message is written in one step of core only, to the module core finds for
\* the target of the frame at the front of its buffer.
LEMMA PassesOnly ==
  ASSUME IInv, Next, NEW n \in Modules, Passes(n)
  PROVE  /\ cur # NoFd /\ Header(Front) /\ Front \in Elems(buffer)
         /\ Front.target \in Routable /\ fd_clients[handler[Front.target]] = n
<1>1. TypeOK /\ Position /\ \A m \in Modules : unread[m] \in Nat
  BY CoreAssumption DEF IInv, TypeOK
<1>2. ASSUME unread'[n] = unread[n] \/ unread'[n] = 0 PROVE FALSE
  <2>1. unread[n] \in Nat /\ unread'[n] > unread[n]
    BY <1>1 DEF Passes
  <2> QED BY <1>2, <2>1
<1>3. ASSUME NEW m \in Modules,
             Thread(m) \/ Sends(m) \/ Selects(m) \/ recv_local_server(m) \/ Dies(m)
      PROVE  FALSE
  <2>1. UNCHANGED unread \/ unread' = [unread EXCEPT ![m] = 0]
    BY <1>3 DEF Thread, Connects, register_client_module, Sends, Selects, recv_local_server, Dies,
                Close, wires
  <2>2. unread'[n] = unread[n] \/ unread'[n] = 0
    BY <1>1, <2>1 DEF IInv, TypeOK
  <2> QED BY <1>2, <2>2
<1>4. to_others_event /\ ~ UNCHANGED unread
  <2>1. CASE UNCHANGED unread
    BY <1>2, <2>1
  <2>2. CASE setup_core_server \/ select \/ recv \/ to_core_event \/ Misframed
             \/ clients_connection_changed
    BY <1>2, <2>2 DEF setup_core_server, select, recv, to_core_event, Misframed,
                      clients_connection_changed, wires
  <2> QED BY <1>3, <2>1, <2>2 DEF Next, CoreStep
<1>5. cur # NoFd /\ Front.part = 1 /\ ~ IsRegister(Front)
  BY <1>4 DEF to_others_event, Front
<1> DEFINE f == IF Front.target \in Routable THEN handler[Front.target] ELSE NoFd
           r == IF f = NoFd THEN Nobody ELSE fd_clients[f]
<1>6. r # Nobody /\ unread' = [unread EXCEPT ![r] = @ + 1]
  BY <1>4 DEF to_others_event, Front, Receiver
<1>7. r = n
  <2> HIDE DEF r
  <2>1. r # n => unread'[n] = unread[n]
    BY <1>6 DEF IInv, TypeOK
  <2> QED BY <1>2, <2>1
<1>8. Front \in Elems(buffer)
  BY <1>1, <1>5, AtFront
<1> QED BY <1>5, <1>6, <1>7, <1>8 DEF Header

\* A message only reaches another module than the one it is for while core does
\* not know that one (write_msg of core_event.c).
THEOREM ReachesItsReceiver == Spec => RightReceiver
<1>1. ASSUME IInv, Next, NEW n \in Modules, Passes(n), registered[Front.target]
      PROVE  n = Front.target
  <2>1. Front.target \in Modules /\ fd_clients[handler[Front.target]] = n
    BY <1>1, PassesOnly, Names
  <2> QED BY <1>1, <2>1 DEF IInv, Known
<1>2. IInv /\ [Next]_vars =>
        [ \A n \in Modules : Passes(n) /\ registered[Front.target] => n = Front.target ]_vars
  BY <1>1
<1> QED BY <1>2, Invariance, PTL DEF Spec, RightReceiver

\* Core passes the messages of a module on in the order they were sent, each at
\* most once, wherever recv cuts the stream.
THEOREM PassedInOrder == Spec => InOrder
<1>1. ASSUME IInv, Next, NEW n \in Modules, Passes(n)
      PROVE  Front.id > newest[Front.host]
  <2>1. Front \in Elems(buffer) /\ Header(Front)
    BY <1>1, PassesOnly
  <2>2. Pending(Front)
    BY <1>1, <2>1 DEF IInv, Order
  <2> QED BY <2>1, <2>2 DEF Pending, Header
<1>2. IInv /\ [Next]_vars =>
        [ \A n \in Modules : Passes(n) => Front.id > newest[Front.host] ]_vars
  BY <1>1
<1> QED BY <1>2, Invariance, PTL DEF Spec, InOrder

\* The header and the data of what core passes on belong together, until a
\* partial message met data or a disconnection of another module.
THEOREM PassedWhole == Spec => WholeFrames
<1>1. ASSUME IInv, Next, NEW n \in Modules, Passes(n), ~ mixed
      PROVE  Len(buffer) >= 2 /\ buffer[2] = [Front EXCEPT !.part = 2]
  <2>1. TypeOK /\ Position /\ Pure
    BY <1>1 DEF IInv, Unmixed, Pure
  <2>2. cur # NoFd /\ Header(Front)
    BY <1>1, PassesOnly
  <2> QED BY <2>1, <2>2, WholeAtFront
<1>2. IInv /\ [Next]_vars =>
        [ \A n \in Modules :
            Passes(n) => mixed \/ (Len(buffer) >= 2 /\ buffer[2] = [Front EXCEPT !.part = 2]) ]_vars
  BY <1>1
<1> QED BY <1>2, Invariance, PTL DEF Spec, WholeFrames
=============================================================================
