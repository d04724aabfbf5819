------------------- MODULE RunEventOutboxRefinement_proof -------------------
(***************************************************************************)
(* The outbox implements the safety part of RunLedger, for every capacity, *)
(* batch size and bound and every set of event kinds, as long as no tool   *)
(* has asked the user.                                                     *)
(***************************************************************************)
EXTENDS RunEventOutboxRefinement, RunEventOutboxPause_proof, SequenceTheorems

Commands == EventKinds \cup {"pause"}
----------------------------------------------------------------------------
(*                        The events of a queue                            *)

(* The events of a prefix follow their definition.                         *)
LEMMA EventsUnfold ==
    ASSUME NEW q, Len(q) \in Nat
    PROVE  LET E == EventsUpTo(q)
           IN  /\ E[0] = <<>>
               /\ \A n \in 1..Len(q) :
                    E[n] = IF IsDurable(q[n]) THEN Append(E[n-1], EventOf(q[n]))
                                              ELSE E[n-1]
  <1> DEFINE Step(x, i) == IF IsDurable(q[i]) THEN Append(x, EventOf(q[i])) ELSE x
             Body(f, n) == [i \in 0..n |-> IF i = 0 THEN <<>> ELSE Step(f[i-1], i)]
             Good == {n \in Nat : \E f : f = Body(f, n)}
  <1> HIDE DEF Step
  <1>1. 0 \in Good
    <2> DEFINE f == [i \in 0..0 |-> <<>>]
    <2>1. f = Body(f, 0)
        OBVIOUS
    <2> QED
        BY <2>1
  <1>2. ASSUME NEW n \in Nat, n \in Good PROVE n + 1 \in Good
    <2>1. PICK f : f = Body(f, n)
        BY <1>2
    <2> DEFINE g == [i \in 0..n+1 |-> IF i = n + 1 THEN Step(f[n], n + 1) ELSE f[i]]
    <2>2. ASSUME NEW i \in 0..n+1
          PROVE  g[i] = IF i = 0 THEN <<>> ELSE Step(g[i-1], i)
      <3>1. CASE i = 0
          BY <2>1, <3>1
      <3>2. CASE i = n + 1
          BY <3>2
      <3>3. CASE i # 0 /\ i # n + 1
        <4>1. i \in 0..n /\ i - 1 \in 0..n /\ i - 1 # n + 1 /\ i - 1 \in 0..n+1
            BY <3>3
        <4>2. g[i] = f[i] /\ g[i-1] = f[i-1]
            BY <3>3, <4>1
        <4> QED
            BY <2>1, <3>3, <4>1, <4>2
      <3> QED
          BY <3>1, <3>2, <3>3
    <2>3. g = Body(g, n + 1)
        BY <2>2
    <2>4. \E h : h = Body(h, n + 1)
      <3> HIDE DEF g, Body
      <3> QED
          BY <2>3
    <2>5. n + 1 \in Nat
        BY <1>2
    <2> QED
        BY <2>4, <2>5
  <1>3. Len(q) \in Good
    <2> HIDE DEF Good
    <2> QED
        BY <1>1, <1>2, SetInduction
  <1>4. PICK f : f = Body(f, Len(q))
      BY <1>3
  <1> DEFINE E == EventsUpTo(q)
  <1>5. E = CHOOSE g : g = Body(g, Len(q))
      BY DEF EventsUpTo, Step
  <1>6. E = Body(E, Len(q))
      BY <1>4, <1>5
  <1> HIDE DEF E
  <1>7. E[0] = <<>>
      BY <1>6
  <1>8. ASSUME NEW n \in 1..Len(q) PROVE E[n] = Step(E[n-1], n)
    <2>1. n \in 0..Len(q) /\ n # 0
        OBVIOUS
    <2> QED
        BY <1>6, <2>1
  <1> QED
      BY <1>7, <1>8, Zenon DEF Step, E

(* A command that is stored is stored as an event.                         *)
LEMMA EventTyped ==
    ASSUME NEW c \in Commands, IsDurable(c)
    PROVE  EventOf(c) \in DurableKinds
  BY DEF Commands, IsDurable, EventOf, DurableKinds

LEMMA EventsTyped ==
    ASSUME NEW q \in Seq(Commands)
    PROVE  \A n \in 0..Len(q) : EventsUpTo(q)[n] \in Seq(DurableKinds)
  <1> DEFINE E == EventsUpTo(q)
             Good == {n \in Nat : n <= Len(q) => E[n] \in Seq(DurableKinds)}
  <1>0. Len(q) \in Nat
      OBVIOUS
  <1>1. /\ E[0] = <<>>
        /\ \A n \in 1..Len(q) :
             E[n] = IF IsDurable(q[n]) THEN Append(E[n-1], EventOf(q[n])) ELSE E[n-1]
      BY <1>0, EventsUnfold
  <1> HIDE DEF E
  <1>2. 0 \in Good
    <2>1. <<>> \in Seq(DurableKinds)
        OBVIOUS
    <2>2. E[0] \in Seq(DurableKinds)
        BY <1>1, <2>1, Zenon
    <2> QED
        BY <2>2
  <1>3. ASSUME NEW n \in Nat, n \in Good PROVE n + 1 \in Good
    <2> SUFFICES ASSUME n + 1 <= Len(q) PROVE E[n + 1] \in Seq(DurableKinds)
        OBVIOUS
    <2>1. n + 1 \in 1..Len(q) /\ (n + 1) - 1 = n /\ n <= Len(q)
        BY <1>0
    <2>2. E[n] \in Seq(DurableKinds)
        BY <1>3, <2>1
    <2>3. q[n + 1] \in Commands
        BY <2>1
    <2>4. E[n + 1] = IF IsDurable(q[n + 1]) THEN Append(E[n], EventOf(q[n + 1])) ELSE E[n]
        BY <1>1, <2>1
    <2> QED
        BY <2>2, <2>3, <2>4, EventTyped
  <1>4. \A n \in Nat : n \in Good
    <2> HIDE DEF Good
    <2> QED
        BY <1>2, <1>3, SetInduction
  <1> QED
      BY <1>0, <1>4 DEF E

(* The event a command stands for, as a sequence.                          *)
One(c) == IF IsDurable(c) THEN <<EventOf(c)>> ELSE <<>>

LEMMA OneTyped ==
    ASSUME NEW c \in Commands
    PROVE  One(c) \in Seq(DurableKinds)
  BY EventTyped DEF One

(* An empty queue holds no event.                                          *)
LEMMA EventsOfNone == EventsIn(<<>>) = <<>>
  <1>1. Len(<<>>) = 0 /\ Len(<<>>) \in Nat
      OBVIOUS
  <1> QED
      BY <1>1, EventsUnfold DEF EventsIn

(* A command joins at the end ...                                          *)
LEMMA EventsAppended ==
    ASSUME NEW q \in Seq(Commands), NEW c \in Commands
    PROVE  EventsIn(Append(q, c)) = EventsIn(q) \o One(c)
  <1> DEFINE r == Append(q, c)
             E == EventsUpTo(q)
             F == EventsUpTo(r)
             Good == {n \in Nat : n <= Len(q) => F[n] = E[n]}
  <1>0. /\ Len(q) \in Nat /\ Len(r) = Len(q) + 1 /\ r[Len(q) + 1] = c
        /\ \A i \in 1..Len(q) : r[i] = q[i]
      OBVIOUS
  <1> HIDE DEF r
  <1>1. /\ E[0] = <<>>
        /\ \A n \in 1..Len(q) :
             E[n] = IF IsDurable(q[n]) THEN Append(E[n-1], EventOf(q[n])) ELSE E[n-1]
      BY <1>0, EventsUnfold
  <1>2. /\ F[0] = <<>>
        /\ \A n \in 1..Len(r) :
             F[n] = IF IsDurable(r[n]) THEN Append(F[n-1], EventOf(r[n])) ELSE F[n-1]
      BY <1>0, EventsUnfold
  <1>3. E[Len(q)] \in Seq(DurableKinds)
      BY <1>0, EventsTyped
  <1> HIDE DEF E, F
  <1>4. 0 \in Good
      BY <1>1, <1>2
  <1>5. ASSUME NEW n \in Nat, n \in Good PROVE n + 1 \in Good
    <2> SUFFICES ASSUME n + 1 <= Len(q) PROVE F[n + 1] = E[n + 1]
        OBVIOUS
    <2>1. /\ n + 1 \in 1..Len(q) /\ n + 1 \in 1..Len(r)
          /\ (n + 1) - 1 = n /\ n <= Len(q)
        BY <1>0
    <2>2. F[n] = E[n] /\ r[n + 1] = q[n + 1]
        BY <1>0, <1>5, <2>1
    <2> QED
        BY <1>1, <1>2, <2>1, <2>2
  <1>6. Len(q) \in Good
    <2> HIDE DEF Good
    <2> QED
        BY <1>0, <1>4, <1>5, SetInduction
  <1>7. F[Len(q)] = E[Len(q)]
      BY <1>0, <1>6
  <1>8. Len(r) \in 1..Len(r) /\ Len(r) - 1 = Len(q)
      BY <1>0
  <1>9. F[Len(r)] = IF IsDurable(c) THEN Append(E[Len(q)], EventOf(c)) ELSE E[Len(q)]
      BY <1>0, <1>2, <1>7, <1>8
  <1>10. CASE IsDurable(c)
    <2>1. EventOf(c) \in DurableKinds
        BY <1>10, EventTyped
    <2>2. Append(E[Len(q)], EventOf(c)) = E[Len(q)] \o <<EventOf(c)>>
        BY <1>3, <2>1, AppendIsConcat
    <2> QED
        BY <1>9, <1>10, <2>2 DEF One, EventsIn, E, F, r
  <1>11. CASE ~IsDurable(c)
    <2>1. E[Len(q)] \o <<>> = E[Len(q)]
        BY <1>3, ConcatEmptySeq
    <2> QED
        BY <1>9, <1>11, <2>1 DEF One, EventsIn, E, F, r
  <1> QED
      BY <1>10, <1>11

(* ... and leaves at the front.                                            *)
LEMMA EventsTaken ==
    ASSUME NEW q \in Seq(Commands), q # <<>>
    PROVE  EventsIn(q) = One(Head(q)) \o EventsIn(Tail(q))
  <1> DEFINE r == Tail(q)
             o == One(Head(q))
             E == EventsUpTo(q)
             F == EventsUpTo(r)
             Good == {n \in Nat : n <= Len(r) => E[n + 1] = o \o F[n]}
  <1>0. /\ Len(q) \in Nat /\ Len(r) = Len(q) - 1 /\ Len(r) \in Nat
        /\ Head(q) = q[1] /\ 1 \in 1..Len(q) /\ q[1] \in Commands
        /\ r \in Seq(Commands)
        /\ \A i \in 1..Len(r) : r[i] = q[i + 1]
      OBVIOUS
  <1> HIDE DEF r
  <1>1. /\ E[0] = <<>>
        /\ \A n \in 1..Len(q) :
             E[n] = IF IsDurable(q[n]) THEN Append(E[n-1], EventOf(q[n])) ELSE E[n-1]
      BY <1>0, EventsUnfold
  <1>2. /\ F[0] = <<>>
        /\ \A n \in 1..Len(r) :
             F[n] = IF IsDurable(r[n]) THEN Append(F[n-1], EventOf(r[n])) ELSE F[n-1]
      BY <1>0, EventsUnfold
  <1>3. \A n \in 0..Len(r) : F[n] \in Seq(DurableKinds)
      BY <1>0, EventsTyped
  <1>4. o \in Seq(DurableKinds)
      BY <1>0, OneTyped
  <1> HIDE DEF E, F
  <1>5. 0 \in Good
    <2>0. 1 - 1 = 0
        OBVIOUS
    <2>1. E[1] = IF IsDurable(q[1]) THEN Append(<<>>, EventOf(q[1])) ELSE <<>>
        BY <1>0, <1>1, <2>0, Zenon
    <2>2. E[1] = o
        BY <1>0, <2>1 DEF One
    <2>3. o \o <<>> = o
        BY <1>4, ConcatEmptySeq
    <2>4. 0 + 1 = 1
        OBVIOUS
    <2> HIDE DEF o
    <2> QED
        BY <1>2, <2>2, <2>3, <2>4
  <1> HIDE DEF o
  <1>6. ASSUME NEW n \in Nat, n \in Good PROVE n + 1 \in Good
    <2> SUFFICES ASSUME n + 1 <= Len(r) PROVE E[(n + 1) + 1] = o \o F[n + 1]
        OBVIOUS
    <2>1. /\ (n + 1) + 1 \in 1..Len(q) /\ n + 1 \in 1..Len(r) /\ n \in 0..Len(r)
          /\ (n + 1) - 1 = n /\ ((n + 1) + 1) - 1 = n + 1 /\ n <= Len(r)
        BY <1>0
    <2> DEFINE c == q[(n + 1) + 1]
    <2>2. E[n + 1] = o \o F[n] /\ r[n + 1] = c /\ c \in Commands
        BY <1>0, <1>6, <2>1
    <2>3. E[(n + 1) + 1] = IF IsDurable(c) THEN Append(o \o F[n], EventOf(c))
                                           ELSE o \o F[n]
        BY <1>1, <2>1, <2>2
    <2>4. F[n + 1] = IF IsDurable(c) THEN Append(F[n], EventOf(c)) ELSE F[n]
        BY <1>2, <2>1, <2>2
    <2> HIDE DEF c
    <2>5. CASE IsDurable(c)
      <3>1. EventOf(c) \in DurableKinds /\ F[n] \in Seq(DurableKinds)
          BY <1>3, <2>1, <2>2, <2>5, EventTyped
      <3>2. <<EventOf(c)>> \in Seq(DurableKinds) /\ o \o F[n] \in Seq(DurableKinds)
          BY <1>4, <3>1
      <3>3. /\ Append(o \o F[n], EventOf(c)) = (o \o F[n]) \o <<EventOf(c)>>
            /\ Append(F[n], EventOf(c)) = F[n] \o <<EventOf(c)>>
          BY <3>1, <3>2, AppendIsConcat
      <3>4. (o \o F[n]) \o <<EventOf(c)>> = o \o (F[n] \o <<EventOf(c)>>)
        <4> HIDE DEF F
        <4> DEFINE S == DurableKinds
                   f == F[n]
                   e == <<EventOf(c)>>
        <4>1. f \in Seq(S) /\ e \in Seq(S) /\ o \in Seq(S)
            BY <1>4, <3>1, <3>2
        <4> HIDE DEF S, f, e
        <4>2. (o \o f) \o e = o \o (f \o e)
            BY <4>1, ConcatAssociative
        <4> QED
            BY <4>2 DEF f, e
      <3> QED
          BY <2>3, <2>4, <2>5, <3>3, <3>4, Zenon
    <2>6. CASE ~IsDurable(c)
        BY <2>3, <2>4, <2>6, Zenon
    <2> QED
        BY <2>5, <2>6 DEF c
  <1>7. Len(r) \in Good
    <2> HIDE DEF Good
    <2> QED
        BY <1>0, <1>5, <1>6, SetInduction
  <1>8. E[Len(r) + 1] = o \o F[Len(r)] /\ Len(r) + 1 = Len(q)
      BY <1>0, <1>7
  <1> QED
      BY <1>8 DEF EventsIn, E, F, r, o

----------------------------------------------------------------------------
(*                          The kinds of rows                              *)

LEMMA KindsTyped ==
    ASSUME NEW rows \in Seq(Rows)
    PROVE  /\ KindsOf(rows) \in Seq(DurableKinds)
           /\ Len(KindsOf(rows)) = Len(rows)
           /\ \A i \in 1..Len(rows) : KindsOf(rows)[i] = rows[i].kind
  <1>0. \A i \in 1..Len(rows) : rows[i] \in Rows
      OBVIOUS
  <1>1. \A i \in 1..Len(rows) : rows[i].kind \in DurableKinds
      BY <1>0 DEF Rows
  <1>2. Len(rows) \in Nat
      OBVIOUS
  <1> QED
      BY <1>1, <1>2 DEF KindsOf

LEMMA KindsOfNone == KindsOf(<<>>) = <<>>
  BY DEF KindsOf

LEMMA KindsOfOne ==
    ASSUME NEW row \in Rows
    PROVE  KindsOf(<<row>>) = <<row.kind>>
  <1>1. <<row>> \in Seq(Rows) /\ Len(<<row>>) = 1 /\ <<row>>[1] = row
      OBVIOUS
  <1>2. row.kind \in DurableKinds
      BY DEF Rows
  <1>3. <<row.kind>> \in Seq(DurableKinds) /\ Len(<<row.kind>>) = 1
      BY <1>2
  <1> QED
      BY <1>1, <1>3, KindsTyped, SeqEqual

LEMMA KindsJoined ==
    ASSUME NEW rows \in Seq(Rows), NEW more \in Seq(Rows)
    PROVE  KindsOf(rows \o more) = KindsOf(rows) \o KindsOf(more)
  <1> DEFINE a == KindsOf(rows)
             b == KindsOf(more)
             c == KindsOf(rows \o more)
  <1>1. /\ rows \o more \in Seq(Rows) /\ Len(rows) \in Nat /\ Len(more) \in Nat
        /\ Len(rows \o more) = Len(rows) + Len(more)
        /\ \A i \in 1..Len(rows) + Len(more) :
             (rows \o more)[i] = IF i <= Len(rows) THEN rows[i] ELSE more[i - Len(rows)]
      BY ConcatProperties
  <1>2. /\ a \in Seq(DurableKinds) /\ Len(a) = Len(rows)
        /\ \A i \in 1..Len(rows) : a[i] = rows[i].kind
      BY KindsTyped
  <1>3. /\ b \in Seq(DurableKinds) /\ Len(b) = Len(more)
        /\ \A i \in 1..Len(more) : b[i] = more[i].kind
      BY KindsTyped
  <1>4. /\ c \in Seq(DurableKinds) /\ Len(c) = Len(rows) + Len(more)
        /\ \A i \in 1..Len(rows) + Len(more) : c[i] = (rows \o more)[i].kind
      BY <1>1, KindsTyped
  <1> HIDE DEF a, b, c
  <1>5. /\ a \o b \in Seq(DurableKinds) /\ Len(a \o b) = Len(rows) + Len(more)
        /\ \A i \in 1..Len(rows) + Len(more) :
             (a \o b)[i] = IF i <= Len(rows) THEN a[i] ELSE b[i - Len(rows)]
    <2> DEFINE S == DurableKinds
    <2>1. a \in Seq(S) /\ b \in Seq(S)
        BY <1>2, <1>3
    <2> HIDE DEF S
    <2>2. /\ a \o b \in Seq(S) /\ Len(a \o b) = Len(a) + Len(b)
          /\ \A i \in 1..Len(a) + Len(b) :
               (a \o b)[i] = IF i <= Len(a) THEN a[i] ELSE b[i - Len(a)]
        BY <2>1, ConcatProperties
    <2> QED
        BY <1>2, <1>3, <2>2 DEF S
  <1>6. ASSUME NEW i \in 1..Len(rows) + Len(more) PROVE c[i] = (a \o b)[i]
    <2>1. CASE i <= Len(rows)
      <3>1. i \in 1..Len(rows)
          BY <1>1, <2>1
      <3> QED
          BY <1>1, <1>2, <1>4, <1>5, <2>1, <3>1
    <2>2. CASE ~(i <= Len(rows))
      <3>1. i - Len(rows) \in 1..Len(more)
          BY <1>1, <2>2
      <3> QED
          BY <1>1, <1>3, <1>4, <1>5, <2>2, <3>1
    <2> QED
        BY <2>1, <2>2
  <1>7. c = a \o b
      BY <1>4, <1>5, <1>6, SeqEqual
  <1> QED
      BY <1>7 DEF a, b, c

LEMMA KindsAppended ==
    ASSUME NEW rows \in Seq(Rows), NEW row \in Rows
    PROVE  KindsOf(Append(rows, row)) = KindsOf(rows) \o <<row.kind>>
  <1>1. Append(rows, row) = rows \o <<row>> /\ <<row>> \in Seq(Rows)
      BY AppendIsConcat
  <1> QED
      BY <1>1, KindsJoined, KindsOfOne

----------------------------------------------------------------------------
(*                      The parts of what is in flight                     *)

Kept == Seq(DurableKinds)

(* Sequences of events form a monoid.                                      *)
LEMMA Joined ==
    /\ <<>> \in Kept
    /\ \A e \in DurableKinds : <<e>> \in Kept
    /\ \A s \in Kept : s \o <<>> = s /\ <<>> \o s = s
    /\ \A s, t \in Kept : s \o t \in Kept
    /\ \A s, t, u \in Kept : (s \o t) \o u = s \o (t \o u)
  <1> DEFINE S == DurableKinds
  <1> HIDE DEF S
  <1>1. <<>> \in Seq(S)
      OBVIOUS
  <1>2. \A e \in S : <<e>> \in Seq(S)
      OBVIOUS
  <1>3. \A s \in Seq(S) : s \o <<>> = s /\ <<>> \o s = s
      BY ConcatEmptySeq
  <1>4. \A s, t \in Seq(S) : s \o t \in Seq(S)
      OBVIOUS
  <1>5. \A s, t, u \in Seq(S) : (s \o t) \o u = s \o (t \o u)
      BY ConcatAssociative
  <1> QED
      BY <1>1, <1>2, <1>3, <1>4, <1>5 DEF Kept, S

(* A prefix and the rest of a sequence.                                    *)
LEMMA Split ==
    ASSUME NEW s \in Kept, NEW t \in Kept
    PROVE  /\ Len(s) \in 0..Len(s \o t)
           /\ s # <<>> => Len(s) \in 1..Len(s \o t)
           /\ SubSeq(s \o t, 1, Len(s)) = s
           /\ SubSeq(s \o t, Len(s) + 1, Len(s \o t)) = t
  <1> DEFINE S == DurableKinds
             u == s \o t
             a == SubSeq(u, 1, Len(s))
             b == SubSeq(u, Len(s) + 1, Len(u))
  <1>0. s \in Seq(S) /\ t \in Seq(S)
      BY DEF Kept
  <1> HIDE DEF S
  <1>1. /\ u \in Seq(S) /\ Len(u) = Len(s) + Len(t)
        /\ Len(s) \in Nat /\ Len(t) \in Nat /\ Len(u) \in Nat
        /\ s # <<>> => Len(s) # 0
        /\ \A i \in 1..Len(s) + Len(t) : u[i] = IF i <= Len(s) THEN s[i] ELSE t[i - Len(s)]
        /\ \A i \in 1..Len(u) : u[i] \in S
      BY <1>0, ConcatProperties, EmptySeq, ElementOfSeq, LenProperties
  <1> HIDE DEF u
  <1>2. /\ a \in Seq(S) /\ Len(a) = Len(s)
        /\ \A i \in 1..Len(s) : a[i] = u[i]
    <2>1. \A i \in 1..Len(s) : u[i] \in S
        BY <1>1
    <2> QED
        BY <1>1, <2>1
  <1>3. /\ b \in Seq(S) /\ Len(b) = Len(t)
        /\ \A i \in 1..Len(t) : b[i] = u[Len(s) + i]
    <2>1. \A i \in Len(s)+1..Len(u) : u[i] \in S
        BY <1>1
    <2> QED
        BY <1>1, <2>1
  <1> HIDE DEF a, b
  <1>4. \A i \in 1..Len(s) : a[i] = s[i]
      BY <1>1, <1>2
  <1>5. \A i \in 1..Len(t) : b[i] = t[i]
    <2> TAKE i \in 1..Len(t)
    <2>1. /\ Len(s) + i \in 1..Len(s) + Len(t) /\ ~(Len(s) + i <= Len(s))
          /\ (Len(s) + i) - Len(s) = i
        BY <1>1
    <2> QED
        BY <1>1, <1>3, <2>1
  <1>6. a = s
      BY <1>0, <1>2, <1>4, SeqEqual
  <1>7. b = t
      BY <1>0, <1>3, <1>5, SeqEqual
  <1> QED
      BY <1>1, <1>6, <1>7 DEF a, b, u

LEMMA EventsInTyped ==
    ASSUME NEW q \in Seq(Commands)
    PROVE  EventsIn(q) \in Kept
  <1>1. Len(q) \in 0..Len(q)
      OBVIOUS
  <1> QED
      BY <1>1, EventsTyped DEF EventsIn, Kept

LEMMA PartsTyped ==
    ASSUME TypeOK
    PROVE  /\ UncommittedBatch \in Kept /\ HeldCheckpoint \in Kept
           /\ QueuedEvents \in Kept /\ Inflight \in Kept
  <1>1. UncommittedBatch \in Kept
      BY KindsTyped, Joined DEF UncommittedBatch, Kept, TypeOK, TypeRows
  <1>2. HeldCheckpoint \in Kept
    <2>1. "paused" \in DurableKinds
        BY DEF DurableKinds
    <2> QED
        BY <2>1, Joined DEF HeldCheckpoint
  <1>3. QueuedEvents \in Kept
      BY EventsInTyped DEF QueuedEvents, TypeOK, TypeRows, Commands
  <1> QED
      BY <1>1, <1>2, <1>3, Joined DEF Inflight

----------------------------------------------------------------------------
(*                    Steps of the abstract specification                  *)

Implemented == Abstract!Next \/ UNCHANGED Abstract!ledgerVars

LEMMA Stutters ==
    ASSUME ledger' = ledger, Inflight' = Inflight,
           terminalSubmitted' = terminalSubmitted
    PROVE  Implemented
  BY DEF Implemented, Abstract!ledgerVars, KindsOf

(* An event is accepted at the end.                                        *)
LEMMA Accepts ==
    ASSUME TypeOK, NEW e \in DurableKinds, ~terminalSubmitted, ledger' = ledger,
           Inflight' = Inflight \o <<e>>, terminalSubmitted' = ClosesRun(e)
    PROVE  Implemented
  <1>1. Append(Inflight, e) = Inflight \o <<e>>
    <2> DEFINE S == DurableKinds
    <2>1. Inflight \in Seq(S) /\ e \in S
        BY PartsTyped DEF Kept
    <2> HIDE DEF S
    <2> QED
        BY <2>1, AppendIsConcat
  <1>2. KindsOf(ledger)' = KindsOf(ledger)
      BY DEF KindsOf
  <1>3. Abstract!Accept(e)
      BY <1>1, <1>2 DEF Abstract!Accept, ClosesRun
  <1> QED
      BY <1>3 DEF Implemented, Abstract!Next

(* A suffix is given up and submission is closed.                          *)
LEMMA Closes ==
    ASSUME NEW kept \in Kept, NEW lost \in Kept, Inflight = kept \o lost,
           Inflight' = kept, terminalSubmitted' = TRUE, ledger' = ledger
    PROVE  Implemented
  <1>1. Len(kept) \in 0..Len(Inflight) /\ SubSeq(Inflight, 1, Len(kept)) = kept
      BY Split
  <1>2. KindsOf(ledger)' = KindsOf(ledger)
      BY DEF KindsOf
  <1>3. \E n \in 0..Len(Inflight) : Inflight' = SubSeq(Inflight, 1, n)
      BY <1>1
  <1>4. Abstract!Close
      BY <1>2, <1>3 DEF Abstract!Close
  <1> QED
      BY <1>4 DEF Implemented, Abstract!Next

(* The run has not ended for the abstract specification either.            *)
LEMMA NotEnded ==
    ASSUME TypeOK, ~RunClosed
    PROVE  ~Abstract!Ended
  <1>1. ledger \in Seq(Rows)
      BY DEF TypeOK, TypeRows
  <1>2. \A i \in 1..Len(ledger) : ledger[i].kind \notin TerminalStatuses
      BY DEF RunClosed, LedgerTerminal, ClosesRun
  <1>3. /\ Len(KindsOf(ledger)) = Len(ledger)
        /\ \A i \in 1..Len(ledger) : KindsOf(ledger)[i] = ledger[i].kind
      BY <1>1, KindsTyped
  <1>4. \A i \in 1..Len(KindsOf(ledger)) : KindsOf(ledger)[i] \notin TerminalStatuses
      BY <1>2, <1>3
  <1> QED
      BY <1>4 DEF Abstract!Ended

(* A batch is committed from the front.                                    *)
LEMMA Commits ==
    ASSUME TypeOK, ~RunClosed, NEW rows \in Seq(Rows), NEW rest \in Kept,
           ledger' = ledger \o rows, Inflight = KindsOf(rows) \o rest,
           Inflight' = rest, terminalSubmitted' = terminalSubmitted
    PROVE  Implemented
  <1> DEFINE batch == KindsOf(rows)
  <1>0. ledger \in Seq(Rows) /\ batch \in Kept
      BY KindsTyped DEF TypeOK, TypeRows, Kept
  <1>1. KindsOf(ledger)' = KindsOf(ledger) \o batch
      BY <1>0, KindsJoined DEF KindsOf
  <1>2. CASE batch = <<>>
    <2>1. Inflight = rest
        BY <1>2, Joined
    <2>2. KindsOf(ledger)' = KindsOf(ledger)
        BY <1>0, <1>1, <1>2, KindsTyped, Joined DEF Kept
    <2> QED
        BY <2>1, <2>2 DEF Implemented, Abstract!ledgerVars
  <1>3. CASE batch # <<>>
    <2> DEFINE n == Len(batch)
    <2>1. /\ n \in 1..Len(Inflight) /\ SubSeq(Inflight, 1, n) = batch
          /\ SubSeq(Inflight, n + 1, Len(Inflight)) = rest
        BY <1>0, <1>3, Split
    <2>2. \E m \in 1..Len(Inflight) :
             /\ KindsOf(ledger)' = KindsOf(ledger) \o SubSeq(Inflight, 1, m)
             /\ Inflight' = SubSeq(Inflight, m + 1, Len(Inflight))
        BY <1>1, <2>1
    <2>3. Abstract!Commit
        BY <2>2, NotEnded DEF Abstract!Commit
    <2> QED
        BY <2>3 DEF Implemented, Abstract!Next
  <1> QED
      BY <1>2, <1>3

(* A closed outbox is opened again.                                        *)
LEMMA Reopens ==
    ASSUME TypeOK, ~RunClosed, terminalSubmitted, terminalSubmitted' = FALSE,
           Inflight = <<>>, Inflight' = <<>>, ledger' = ledger
    PROVE  Implemented
  <1>1. KindsOf(ledger)' = KindsOf(ledger)
      BY DEF KindsOf
  <1>2. Abstract!Reopen
      BY <1>1, NotEnded DEF Abstract!Reopen
  <1> QED
      BY <1>2 DEF Implemented, Abstract!Next

----------------------------------------------------------------------------
(*                      Steps of the outbox, mapped                        *)

(* What is in flight, by control state.                                    *)
LEMMA InflightParts ==
    /\ Failing => Inflight = <<>>
    /\ ~Failing => Inflight = (UncommittedBatch \o HeldCheckpoint) \o QueuedEvents
    /\ pc \in {"recv", "commit", "drain", "pause"} =>
            ~Failing /\ UncommittedBatch = KindsOf(pending)
    /\ pc = "deliver" => UncommittedBatch = <<>>
    /\ pc \in {"recv", "drain"} => HeldCheckpoint = <<>>
    /\ pc \in {"commit", "deliver"} =>
            HeldCheckpoint = IF after = "pause" THEN <<"paused">> ELSE <<>>
    /\ pc = "pause" => HeldCheckpoint = <<"paused">>
  BY DEF Inflight, Failing, UncommittedBatch, HeldCheckpoint

(* A submitted command joins what is in flight.                            *)
LEMMA CommandJoins ==
    ASSUME TypeOK, CoreInv, ~terminalSubmitted, Live, NEW c \in Commands,
           queue' = Append(queue, c), UNCHANGED <<pc, after, pending>>
    PROVE  Inflight' = Inflight \o One(c)
  <1>1. ~Failing
      BY DEF Failing, Live, CoreInv, ClosedOnFailure
  <1>2. /\ Failing' = Failing /\ UncommittedBatch' = UncommittedBatch
        /\ HeldCheckpoint' = HeldCheckpoint
      BY DEF Failing, UncommittedBatch, HeldCheckpoint, KindsOf
  <1> DEFINE held == UncommittedBatch \o HeldCheckpoint
  <1>3. queue \in Seq(Commands)
      BY DEF TypeOK, TypeRows, Commands
  <1>4. QueuedEvents' = QueuedEvents \o One(c)
      BY <1>3, EventsAppended DEF QueuedEvents
  <1>5. Inflight = held \o QueuedEvents
      BY <1>1 DEF Inflight
  <1>6. Inflight' = held \o (QueuedEvents \o One(c))
      BY <1>1, <1>2, <1>4 DEF Inflight
  <1>7. held \in Kept /\ QueuedEvents \in Kept /\ One(c) \in Kept
      BY PartsTyped, OneTyped, Joined DEF Kept
  <1> HIDE DEF held
  <1> QED
      BY <1>5, <1>6, <1>7, Joined

LEMMA ProducerMapped ==
    ASSUME TypeOK, CoreInv, Producer
    PROVE  Implemented
  <1> USE DEF durableVars, actorVars, sharedVars
  <1>1. ASSUME NEW k \in Kinds, Submit(k) PROVE Implemented
    <2>1. /\ Live /\ ~terminalSubmitted /\ IsDurable(k)
          /\ UNCHANGED <<ledger, pc, after, pending>>
        BY <1>1 DEF Submit, SubmissionOpen
    <2>2. CASE QueueFull
      <3>1. terminalSubmitted' = TRUE /\ queue' = queue
          BY <1>1, <2>2 DEF Submit, SaturateQueue
      <3>2. Inflight' = Inflight
          BY <2>1, <3>1 DEF Inflight, Failing, UncommittedBatch, HeldCheckpoint,
                QueuedEvents, KindsOf
      <3>3. Inflight \in Kept /\ <<>> \in Kept /\ Inflight = Inflight \o <<>>
          BY PartsTyped, Joined
      <3> QED
          BY <2>1, <3>1, <3>2, <3>3, Closes
    <2>3. CASE ~QueueFull
      <3>1. terminalSubmitted' = ClosesRun(k) /\ queue' = Append(queue, k)
          BY <1>1, <2>3 DEF Submit, Enqueue
      <3>2. k \in EventKinds /\ k \in Commands /\ k # "pause" /\ k \in DurableKinds
          BY <2>1, ConstantsAssumption
             DEF Commands, EventKinds, TerminalStatuses, DurableKinds, IsDurable
      <3>3. One(k) = <<k>>
          BY <2>1, <3>2 DEF One, EventOf
      <3>4. Inflight' = Inflight \o <<k>>
          BY <2>1, <3>1, <3>2, <3>3, CommandJoins
      <3> QED
          BY <2>1, <3>1, <3>2, <3>4, Accepts
    <2> QED
        BY <2>2, <2>3
  <1>2. CASE PublishEphemeral
    <2>1. /\ Live /\ ~terminalSubmitted
          /\ UNCHANGED <<ledger, terminalSubmitted, pc, after, pending>>
        BY <1>2 DEF PublishEphemeral, SubmissionOpen
    <2>2. CASE queue' = queue
      <3>1. Inflight' = Inflight
          BY <2>1, <2>2 DEF Inflight, Failing, UncommittedBatch, HeldCheckpoint,
                QueuedEvents, KindsOf
      <3> QED
          BY <2>1, <3>1, Stutters
    <2>3. CASE queue' = Append(queue, "preview")
      <3>1. "preview" \in Commands /\ One("preview") = <<>>
          BY DEF Commands, EventKinds, One, IsDurable
      <3>2. Inflight' = Inflight \o <<>>
          BY <2>1, <2>3, <3>1, CommandJoins
      <3>3. Inflight' = Inflight
          BY <3>2, PartsTyped, Joined
      <3> QED
          BY <2>1, <3>3, Stutters
    <2> QED
        BY <1>2, <2>2, <2>3 DEF PublishEphemeral, Enqueue
  <1> QED
      BY <1>1, <1>2 DEF Producer

LEMMA PauseMapped ==
    ASSUME TypeOK, CoreInv, PauseWithCheckpoint
    PROVE  Implemented
  <1> USE DEF durableVars, actorVars
  <1>1. /\ Live /\ ~terminalSubmitted
        /\ UNCHANGED <<ledger, pc, after, pending>>
      BY DEF PauseWithCheckpoint, SubmissionOpen
  <1>2. CASE QueueFull
    <2>1. terminalSubmitted' = TRUE /\ queue' = queue
        BY <1>2 DEF PauseWithCheckpoint, SaturateQueue
    <2>2. Inflight' = Inflight
        BY <1>1, <2>1 DEF Inflight, Failing, UncommittedBatch, HeldCheckpoint,
              QueuedEvents, KindsOf
    <2>3. Inflight \in Kept /\ <<>> \in Kept /\ Inflight = Inflight \o <<>>
        BY PartsTyped, Joined
    <2> QED
        BY <1>1, <2>1, <2>2, <2>3, Closes
  <1>3. CASE ~QueueFull
    <2>1. terminalSubmitted' = FALSE /\ queue' = Append(queue, "pause")
        BY <1>1, <1>3 DEF PauseWithCheckpoint, Enqueue, TypeOK, TypeFlags
    <2>2. /\ "pause" \in Commands /\ "paused" \in DurableKinds
          /\ ClosesRun("paused") = FALSE /\ One("pause") = <<"paused">>
        BY DEF Commands, DurableKinds, ClosesRun, TerminalStatuses, One, EventOf, IsDurable
    <2>3. Inflight' = Inflight \o <<"paused">>
        BY <1>1, <2>1, <2>2, CommandJoins
    <2> QED
        BY <1>1, <2>1, <2>2, <2>3, Accepts
  <1> QED
      BY <1>2, <1>3

(* Taking a command from the queue.                                        *)
LEMMA CommandTaken ==
    ASSUME TypeOK, queue # <<>>, queue' = Tail(queue)
    PROVE  /\ QueuedEvents = One(Head(queue)) \o QueuedEvents'
           /\ Head(queue) \in Commands /\ Tail(queue) \in Seq(Commands)
           /\ One(Head(queue)) \in Kept /\ QueuedEvents' \in Kept
  <1>1. queue \in Seq(Commands)
      BY DEF TypeOK, TypeRows, Commands
  <1>2. Head(queue) \in Commands /\ Tail(queue) \in Seq(Commands)
      BY <1>1
  <1>3. QueuedEvents' = EventsIn(Tail(queue))
      BY DEF QueuedEvents
  <1> QED
      BY <1>1, <1>2, <1>3, EventsTaken, OneTyped, EventsInTyped DEF QueuedEvents, Kept

(* A durable command moves from the queue into the batch.                  *)
LEMMA EventTakenIntoBatch ==
    ASSUME TypeOK, pc \in {"recv", "drain"}, queue # <<>>, queue' = Tail(queue),
           Head(queue) \notin {"preview", "pause"},
           pending' = Append(pending, Row(NextSequence, Head(queue))),
           \/ pc' \in {"recv", "drain"}
           \/ pc' = "commit" /\ after' # "pause"
    PROVE  Inflight' = Inflight
  <1> DEFINE k == Head(queue)
             row == Row(NextSequence, k)
             b == KindsOf(pending)
             q == QueuedEvents'
  <1>1. QueuedEvents = One(k) \o q /\ k \in Commands /\ q \in Kept
      BY CommandTaken
  <1>2. k \in DurableKinds /\ One(k) = <<k>>
      BY <1>1 DEF Commands, DurableKinds, One, IsDurable, EventOf
  <1>3. row \in Rows /\ row.kind = k
      BY <1>2, RowTyped DEF NextSequence, TypeOK, TypeNumbers, Row
  <1>4. pending \in Seq(Rows) /\ b \in Kept
      BY KindsTyped DEF TypeOK, TypeRows, Kept
  <1>5. KindsOf(pending)' = b \o <<k>>
    <2>1. KindsOf(Append(pending, row)) = b \o <<row.kind>>
        BY <1>3, <1>4, KindsAppended
    <2> QED
        BY <1>3, <2>1 DEF KindsOf
  <1>6. Inflight = (b \o <<>>) \o (<<k>> \o q)
      BY <1>1, <1>2, InflightParts
  <1>7. ~Failing' /\ UncommittedBatch' = KindsOf(pending)' /\ HeldCheckpoint' = <<>>
      BY DEF Failing, UncommittedBatch, HeldCheckpoint
  <1>8. Inflight' = ((b \o <<k>>) \o <<>>) \o q
      BY <1>5, <1>7 DEF Inflight
  <1>9. <<k>> \in Kept
      BY <1>2, Joined
  <1> HIDE DEF k, b, q
  <1>10. Inflight = b \o (<<k>> \o q)
      BY <1>4, <1>6, Joined
  <1>11. b \o <<k>> \in Kept
      BY <1>4, <1>9, Joined
  <1>12. Inflight' = (b \o <<k>>) \o q
      BY <1>8, <1>11, Joined
  <1> QED
      BY <1>1, <1>4, <1>9, <1>10, <1>12, Joined DEF q

(* Receiving changes where a command is, not what is in flight.            *)
LEMMA ReceiveMapped ==
    ASSUME TypeOK, RecvDurable \/ RecvPreview \/ RecvPause \/ FlushTick \/ BeginDrain
    PROVE  Implemented
  <1> USE DEF durableVars, sharedVars
  <1>0. UNCHANGED <<ledger, terminalSubmitted>>
      BY DEF RecvDurable, RecvPreview, RecvPause, FlushTick, BeginDrain
  <1>1. CASE RecvDurable
    <2>1. /\ pc = "recv" /\ queue # <<>> /\ queue' = Tail(queue)
          /\ Head(queue) \notin {"preview", "pause"}
          /\ pending' = Append(pending, Row(NextSequence, Head(queue)))
        BY <1>1 DEF RecvDurable
    <2>2. pc' = "recv" \/ (pc' = "commit" /\ after' # "pause")
        BY <1>1 DEF RecvDurable
    <2>3. Inflight' = Inflight
        BY <2>1, <2>2, EventTakenIntoBatch
    <2> QED
        BY <1>0, <2>3, Stutters
  <1>2. CASE RecvPreview
    <2>1. /\ pc = "recv" /\ queue # <<>> /\ queue' = Tail(queue)
          /\ Head(queue) = "preview" /\ pending' = pending
        BY <1>2 DEF RecvPreview
    <2>2. pc' = "recv" \/ (pc' = "commit" /\ after' = "preview")
        BY <1>2 DEF RecvPreview
    <2>3. One("preview") = <<>>
        BY DEF One, IsDurable
    <2>4. QueuedEvents' = QueuedEvents
        BY <2>1, <2>3, CommandTaken, Joined
    <2>5. /\ ~Failing' /\ UncommittedBatch' = KindsOf(pending)
          /\ HeldCheckpoint' = <<>>
        BY <2>1, <2>2 DEF Failing, UncommittedBatch, HeldCheckpoint, KindsOf
    <2>6. /\ ~Failing /\ UncommittedBatch = KindsOf(pending)
          /\ HeldCheckpoint = <<>>
        BY <2>1, InflightParts
    <2>7. Inflight' = Inflight
        BY <2>4, <2>5, <2>6 DEF Inflight
    <2> QED
        BY <1>0, <2>7, Stutters
  <1>3. CASE RecvPause
    <2>1. /\ pc = "recv" /\ queue # <<>> /\ queue' = Tail(queue)
          /\ Head(queue) = "pause" /\ pending' = pending
        BY <1>3 DEF RecvPause
    <2>2. pc' = "pause" \/ (pc' = "commit" /\ after' = "pause")
        BY <1>3 DEF RecvPause
    <2>3. One("pause") = <<"paused">>
        BY DEF One, IsDurable, EventOf
    <2> DEFINE b == KindsOf(pending)
               q == QueuedEvents'
               p == <<"paused">>
    <2>4. QueuedEvents = p \o q /\ q \in Kept /\ p \in Kept
        BY <2>1, <2>3, CommandTaken
    <2>5. /\ ~Failing' /\ UncommittedBatch' = b /\ HeldCheckpoint' = p
        BY <2>1, <2>2 DEF Failing, UncommittedBatch, HeldCheckpoint, KindsOf
    <2>6. /\ ~Failing /\ UncommittedBatch = b /\ HeldCheckpoint = <<>>
        BY <2>1, InflightParts
    <2>7. b \in Kept
        BY KindsTyped DEF TypeOK, TypeRows, Kept
    <2>8. Inflight = (b \o <<>>) \o (p \o q) /\ Inflight' = (b \o p) \o q
        BY <2>4, <2>5, <2>6 DEF Inflight
    <2>9. Inflight' = Inflight
      <3> HIDE DEF b, p, q
      <3>1. b \o <<>> = b
          BY <2>7, Joined
      <3>2. (b \o p) \o q = b \o (p \o q)
          BY <2>4, <2>7, Joined
      <3> QED
          BY <2>8, <3>1, <3>2
    <2> QED
        BY <1>0, <2>9, Stutters
  <1>4. CASE FlushTick \/ BeginDrain
    <2>1. /\ pc = "recv" /\ (pc' = "drain" \/ (pc' = "commit" /\ after' = "loop"))
          /\ pending' = pending /\ queue' = queue
        BY <1>4 DEF FlushTick, BeginDrain
    <2>2. Inflight' = Inflight
        BY <2>1 DEF Inflight, Failing, UncommittedBatch, HeldCheckpoint, QueuedEvents,
              KindsOf
    <2> QED
        BY <1>0, <2>2, Stutters
  <1> QED
      BY <1>1, <1>2, <1>3, <1>4

(* A transaction commits what is first in flight, ...                      *)
LEMMA CommitMapped ==
    ASSUME TypeOK, CoreInv, CommitBatch \/ CommitCheckpoint
    PROVE  Implemented
  <1> USE DEF durableVars, sharedVars
  <1>0. pending \in Seq(Rows) /\ sequence \in Nat /\ ledger \in Seq(Rows)
      BY DEF TypeOK, TypeRows, TypeNumbers
  <1>1. CASE CommitBatch
    <2>1. /\ pc = "commit" /\ ~RunClosed /\ ledger' = ledger \o pending
          /\ pc' = "deliver" /\ after # "failed"
          /\ UNCHANGED <<queue, after, terminalSubmitted>>
        BY <1>1 DEF CommitBatch, WithRows, CoreInv, BatchDropped
    <2> DEFINE b == KindsOf(pending)
               h == HeldCheckpoint
               q == QueuedEvents
               rest == h \o q
    <2>2. Inflight = (b \o h) \o q
        BY <2>1, InflightParts
    <2>3. /\ ~Failing' /\ UncommittedBatch' = <<>>
          /\ HeldCheckpoint' = h /\ QueuedEvents' = q
        BY <2>1 DEF Failing, UncommittedBatch, HeldCheckpoint, QueuedEvents
    <2>4. Inflight' = (<<>> \o h) \o q
        BY <2>3 DEF Inflight
    <2>5. b \in Kept /\ h \in Kept /\ q \in Kept
        BY <1>0, KindsTyped, PartsTyped DEF Kept
    <2>6. Inflight = b \o rest /\ Inflight' = rest /\ rest \in Kept
      <3> HIDE DEF b, h, q
      <3>1. <<>> \o h = h /\ (b \o h) \o q = b \o (h \o q) /\ h \o q \in Kept
          BY <2>5, Joined
      <3> QED
          BY <2>2, <2>4, <3>1
    <2> HIDE DEF rest
    <2> QED
        BY <1>0, <2>1, <2>6, Commits
  <1>2. CASE CommitCheckpoint
    <2> DEFINE row == Row(sequence, "paused")
               rows == <<row>>
               q == QueuedEvents
               p == <<"paused">>
    <2>1. /\ pc = "pause" /\ ~RunClosed /\ ledger' = Append(ledger, row)
          /\ pc' = "deliver" /\ after' = "paused" /\ pending = <<>>
          /\ UNCHANGED <<queue, terminalSubmitted>>
        BY <1>2 DEF CommitCheckpoint, CanCheckpoint, CoreInv, BatchDropped
    <2>2. row \in Rows /\ row.kind = "paused"
        BY <1>0, RowTyped DEF DurableKinds, Row
    <2> HIDE DEF row
    <2>3. rows \in Seq(Rows) /\ ledger' = ledger \o rows /\ KindsOf(rows) = p
        BY <1>0, <2>1, <2>2, AppendIsConcat, KindsOfOne
    <2>4. Inflight = (<<>> \o p) \o q
        BY <2>1, InflightParts, KindsOfNone
    <2>5. Inflight' = (<<>> \o <<>>) \o q
        BY <2>1 DEF Inflight, Failing, UncommittedBatch, HeldCheckpoint, QueuedEvents
    <2>6. p \in Kept /\ q \in Kept /\ <<>> \in Kept
        BY <2>3, KindsTyped, PartsTyped, Joined DEF Kept
    <2>7. Inflight = p \o q /\ Inflight' = q
      <3> HIDE DEF p, q
      <3>1. <<>> \o p = p /\ <<>> \o <<>> = <<>> /\ <<>> \o q = q
          BY <2>6, Joined
      <3> QED
          BY <2>4, <2>5, <3>1
    <2> HIDE DEF rows, p, q
    <2> QED
        BY <2>1, <2>3, <2>6, <2>7, Commits
  <1> QED
      BY <1>1, <1>2

(* ... or loses all of it with the outbox.                                 *)
LEMMA GivesUp ==
    ASSUME TypeOK, ledger' = ledger, terminalSubmitted' = TRUE, Failing'
    PROVE  Implemented
  <1>1. Inflight' = <<>>
      BY DEF Inflight
  <1>2. Inflight \in Kept /\ <<>> \in Kept /\ Inflight = <<>> \o Inflight
      BY PartsTyped, Joined
  <1> QED
      BY <1>1, <1>2, Closes

LEMMA FailureMapped ==
    ASSUME TypeOK, CoreInv,
           \/ CommitFails \/ CommitRefused \/ CheckpointRefused
           \/ ClaimFailure \/ DeliverFailure \/ ClaimLost \/ ClaimFails
    PROVE  Implemented
  <1> USE DEF durableVars, sharedVars
  <1>1. CASE CommitFails \/ CommitRefused \/ CheckpointRefused
    <2>1. ledger' = ledger /\ terminalSubmitted' = TRUE /\ pc' = "claim"
        BY <1>1 DEF CommitFails, CommitRefused, CheckpointRefused, BeginFailClosed
    <2> QED
        BY <2>1, GivesUp DEF Failing
  <1>2. CASE ClaimFailure \/ DeliverFailure \/ ClaimLost \/ ClaimFails
    <2>1. /\ ledger' = ledger /\ terminalSubmitted' = terminalSubmitted
          /\ Failing /\ Failing'
        BY <1>2 DEF ClaimFailure, DeliverFailure, ClaimLost, ClaimFails, Failing
    <2>2. Inflight' = Inflight
        BY <2>1 DEF Inflight
    <2> QED
        BY <2>1, <2>2, Stutters
  <1> QED
      BY <1>1, <1>2

(* A delivery is of rows that are durable; after a terminal the actor      *)
(* stops, and what the queue still holds is lost with submission closed.   *)
LEMMA DeliveryMapped ==
    ASSUME TypeOK, CoreInv,
           \/ DeliverBatch \/ DeliverBeforePreview \/ DeliverBeforePause
           \/ DeliverCheckpoint
    PROVE  Implemented
  <1> USE DEF durableVars, sharedVars
  <1>0. /\ pc = "deliver" /\ pending' = <<>> /\ after' = after /\ queue' = queue
        /\ UNCHANGED <<ledger, terminalSubmitted>>
      BY DEF DeliverBatch, DeliverBeforePreview, DeliverBeforePause, DeliverCheckpoint
  <1>1. CASE pc' = "stopped"
    <2>1. after = "terminal"
        BY <1>1 DEF DeliverBatch, DeliverBeforePreview, DeliverBeforePause,
              DeliverCheckpoint
    <2>2. terminalSubmitted' = TRUE
        BY <1>0, <2>1 DEF CoreInv, ClosedOnFailure, TypeOK, TypeFlags
    <2> QED
        BY <1>0, <1>1, <2>2, GivesUp DEF Failing
  <1>2. CASE pc' # "stopped"
    <2>1. \/ pc' \in {"recv", "drain"} /\ after \notin {"failed", "pause"}
          \/ pc' = "pause" /\ after = "pause"
        BY <1>2 DEF DeliverBatch, DeliverBeforePreview, DeliverBeforePause,
              DeliverCheckpoint
    <2>2. ~Failing /\ ~Failing'
        BY <1>0, <2>1 DEF Failing
    <2>3. UncommittedBatch = <<>> /\ UncommittedBatch' = <<>>
        BY <1>0, <2>1, KindsOfNone DEF UncommittedBatch, KindsOf
    <2>4. HeldCheckpoint' = HeldCheckpoint
        BY <1>0, <2>1 DEF HeldCheckpoint
    <2>5. QueuedEvents' = QueuedEvents
        BY <1>0 DEF QueuedEvents
    <2>6. Inflight' = Inflight
        BY <2>2, <2>3, <2>4, <2>5 DEF Inflight
    <2> QED
        BY <1>0, <2>6, Stutters
  <1> QED
      BY <1>1, <1>2

(* The drain of a saturated queue keeps the accepted prefix and refuses a  *)
(* queued checkpoint, which is the last command of the queue.              *)
LEMMA DrainMapped ==
    ASSUME TypeOK, CoreInv, PauseInv, DrainCommand \/ DrainEnds
    PROVE  Implemented
  <1> USE DEF durableVars
  <1>0. /\ pc = "drain" /\ terminalSubmitted = TRUE /\ ledger' = ledger
        /\ queue \in Seq(Commands) /\ pending \in Seq(Rows)
      BY DEF DrainCommand, DrainEnds, CoreInv, ClosedOnFailure, TypeOK, TypeFlags,
             TypeRows, Commands
  <1> DEFINE b == KindsOf(pending)
  <1>1. b \in Kept
      BY <1>0, KindsTyped DEF Kept
  <1>2. CASE DrainCommand
    <2>1. queue # <<>> /\ queue' = Tail(queue) /\ terminalSubmitted' = terminalSubmitted
        BY <1>2 DEF DrainCommand
    <2>2. CASE Head(queue) \notin {"pause", "preview"}
      <3>1. /\ pending' = Append(pending, Row(NextSequence, Head(queue)))
            /\ pc' = "drain" \/ (pc' = "commit" /\ after' = "drain")
          BY <1>2, <2>2, DrainEffect
      <3>2. Inflight' = Inflight
          BY <1>0, <2>1, <2>2, <3>1, EventTakenIntoBatch
      <3> QED
          BY <1>0, <2>1, <3>2, Stutters
    <2>3. CASE Head(queue) = "preview"
      <3>1. pending' = pending /\ pc' = "drain" /\ after' = after
          BY <1>0, <1>2, <2>3 DEF DrainCommand
      <3>2. One("preview") = <<>>
          BY DEF One, IsDurable
      <3>3. QueuedEvents' = QueuedEvents
          BY <2>1, <2>3, <3>2, CommandTaken, Joined
      <3>4. Inflight' = Inflight
          BY <1>0, <3>1, <3>3 DEF Inflight, Failing, UncommittedBatch, HeldCheckpoint,
                KindsOf
      <3> QED
          BY <1>0, <2>1, <3>4, Stutters
    <2>4. CASE Head(queue) = "pause"
      <3>1. pending' = pending /\ pc' = "drain" /\ after' = after
          BY <1>0, <1>2, <2>4 DEF DrainCommand
      <3>2. Len(queue) = 1
        <4>1. 1 \in 1..Len(queue) /\ queue[1] = "pause"
            BY <1>0, <2>1, <2>4
        <4>2. PauseQueued /\ Live
            BY <1>0, <4>1 DEF PauseQueued, Live
        <4>3. \A i \in 1..Len(queue) : queue[i] = "pause" => i = Len(queue)
            BY <4>2 DEF PauseInv, CheckpointIsLast
        <4> QED
            BY <4>1, <4>3
      <3>3. queue' = <<>>
          BY <1>0, <2>1, <3>2
      <3>4. QueuedEvents' = <<>>
          BY <3>3, EventsOfNone DEF QueuedEvents
      <3>5. One("pause") = <<"paused">>
          BY DEF One, IsDurable, EventOf
      <3> DEFINE p == <<"paused">>
      <3>6. QueuedEvents = p \o <<>> /\ p \in Kept
          BY <2>1, <2>4, <3>4, <3>5, CommandTaken
      <3>7. Inflight = (b \o <<>>) \o (p \o <<>>)
          BY <1>0, <3>6, InflightParts
      <3>8. Inflight' = (b \o <<>>) \o <<>>
          BY <3>1, <3>4 DEF Inflight, Failing, UncommittedBatch, HeldCheckpoint, KindsOf
      <3> HIDE DEF b, p
      <3>9. Inflight = b \o p /\ Inflight' = b
          BY <1>1, <3>6, <3>7, <3>8, Joined
      <3> QED
          BY <1>0, <1>1, <2>1, <3>6, <3>9, Closes
    <2> QED
        BY <2>2, <2>3, <2>4
  <1>3. CASE DrainEnds
    <2>1. CASE pending # <<>>
      <3>1. /\ pc' = "commit" /\ after' = "drain" /\ pending' = pending
            /\ queue' = queue /\ terminalSubmitted' = terminalSubmitted
          BY <1>3, <2>1 DEF DrainEnds
      <3>2. Inflight' = Inflight
          BY <1>0, <3>1 DEF Inflight, Failing, UncommittedBatch, HeldCheckpoint,
                QueuedEvents, KindsOf
      <3> QED
          BY <1>0, <3>1, <3>2, Stutters
    <2>2. CASE pending = <<>>
      <3>1. terminalSubmitted' = TRUE /\ pc' = "claim"
          BY <1>3, <2>2 DEF DrainEnds, BeginFailClosed
      <3> QED
          BY <1>0, <3>1, GivesUp DEF Failing
    <2> QED
        BY <2>1, <2>2
  <1> QED
      BY <1>2, <1>3

(* A new actor has nothing in flight.                                      *)
LEMMA OpenMapped ==
    ASSUME TypeOK, Open
    PROVE  Implemented
  <1>1. Inflight = <<>> /\ ledger' = ledger
      BY DEF Open, Live, Inflight, Failing, durableVars
  <1>2. /\ queue' = <<>> /\ pending' = <<>> /\ after' = "loop"
        /\ pc' = (IF RunClosed THEN "stopped" ELSE "recv")
        /\ terminalSubmitted' = (RunClosed \/ <<>> # <<>>)
      BY Zenon DEF Open, OpenOutbox
  <1>3. Inflight' = <<>>
    <2>1. CASE RunClosed
        BY <1>2, <2>1 DEF Inflight, Failing
    <2>2. CASE ~RunClosed
      <3>1. QueuedEvents' = <<>> /\ UncommittedBatch' = <<>> /\ HeldCheckpoint' = <<>>
          BY <1>2, <2>2, EventsOfNone, KindsOfNone
             DEF QueuedEvents, UncommittedBatch, HeldCheckpoint, KindsOf
      <3>2. Inflight' = (<<>> \o <<>>) \o <<>>
          BY <1>2, <2>2, <3>1 DEF Inflight, Failing
      <3> QED
          BY <3>2, Joined
    <2> QED
        BY <2>1, <2>2
  <1>4. terminalSubmitted \in BOOLEAN
      BY DEF TypeOK, TypeFlags
  <1>5. CASE RunClosed
    <2>1. terminalSubmitted' = TRUE
        BY <1>2, <1>5, Zenon
    <2>2. <<>> \in Kept /\ <<>> = <<>> \o <<>>
        BY Joined
    <2> QED
        BY <1>1, <1>3, <2>1, <2>2, Closes
  <1>6. CASE ~RunClosed
    <2>1. terminalSubmitted' = FALSE
        BY <1>2, <1>6, Zenon
    <2>2. CASE terminalSubmitted
        BY <1>1, <1>3, <1>6, <2>1, <2>2, Reopens
    <2>3. CASE ~terminalSubmitted
        BY <1>1, <1>3, <1>4, <2>1, <2>3, Stutters
    <2> QED
        BY <2>2, <2>3
  <1> QED
      BY <1>5, <1>6

(* The host commands and the executor do not touch what is in flight.      *)
LEMMA QuietMapped ==
    ASSUME Quiet
    PROVE  Implemented
  <1>1. UNCHANGED <<ledger, queue, terminalSubmitted, pc, after, pending>>
      BY QuietFrame
  <1>2. Inflight' = Inflight
      BY <1>1 DEF Inflight, Failing, UncommittedBatch, HeldCheckpoint, QueuedEvents,
            KindsOf
  <1> QED
      BY <1>1, <1>2, Stutters

LEMMA StepMapped ==
    ASSUME TypeOK, CoreInv, PauseInv, [Next]_vars
    PROVE  [Abstract!Next]_(Abstract!ledgerVars)
  <1> SUFFICES Implemented
      BY DEF Implemented
  <1>1. CASE Producer
      BY <1>1, ProducerMapped
  <1>2. CASE Actor
      BY <1>2, ReceiveMapped, CommitMapped, FailureMapped, DeliveryMapped, DrainMapped
         DEF Actor
  <1>3. CASE Host
      BY <1>3, PauseMapped, OpenMapped, QuietMapped DEF Host, Quiet
  <1>4. CASE UNCHANGED vars
      BY <1>4, QuietMapped DEF Quiet
  <1> QED
      BY <1>1, <1>2, <1>3, <1>4 DEF Next

LEMMA InitMapped == Init => Abstract!Init
  <1> SUFFICES ASSUME Init PROVE Abstract!Init
      OBVIOUS
  <1>1. /\ ledger = <<>> /\ queue = <<>> /\ pending = <<>> /\ pc = "recv"
        /\ terminalSubmitted = FALSE
      BY DEF Init
  <1>2. QueuedEvents = <<>> /\ UncommittedBatch = <<>> /\ HeldCheckpoint = <<>>
      BY <1>1, EventsOfNone, KindsOfNone DEF QueuedEvents, UncommittedBatch, HeldCheckpoint
  <1>3. Inflight = (<<>> \o <<>>) \o <<>>
      BY <1>1, <1>2 DEF Inflight, Failing
  <1>4. Inflight = <<>>
      BY <1>3, Joined
  <1> QED
      BY <1>1, <1>4, KindsOfNone DEF Abstract!Init

(* The safety part of ImplementsLedger, for every instance in which no     *)
(* tool has asked the user: durable history is a concatenation of prefixes *)
(* of what was accepted, an accepted event is lost only together with      *)
(* everything behind it, every loss closes the outbox, and nothing follows *)
(* a terminal, whatever saturates, fails, is paused or reopened.           *)
THEOREM OutboxImplementsLedger ==
    Spec /\ [](interactions = 0) => Abstract!Spec
  <1>1. interactions = 0 /\ UnaskedPauseInv => PauseInv
      BY DEF UnaskedPauseInv
  <1>2. TypeOK /\ CoreInv /\ PauseInv /\ [Next]_vars => [Abstract!Next]_(Abstract!ledgerVars)
      BY StepMapped
  <1> QED
      BY <1>1, <1>2, InitMapped, CoreCorrect, UnaskedPauseCorrect, PTL
         DEF Spec, Abstract!Spec
=============================================================================
