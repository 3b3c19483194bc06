-------------------------- MODULE HttpParser_proofs --------------------------
(* Theorems about HttpParser, for every set of messages, any number of them *)
(* in a buffer and every cut, and their proofs.                              *)
EXTENDS HttpParser, Integers, FiniteSetTheorems, SequenceTheorems, TLAPS

-----------------------------------------------------------------------------
(* Joined sequences *)

\* A set of numbers with 0 and the successors of its elements has them all.
LEMMA Induction ==
    ASSUME NEW S \in SUBSET Nat, 0 \in S, \A n \in S : n + 1 \in S
    PROVE  S = Nat
<1> SUFFICES ASSUME Nat \ S # {} PROVE FALSE
  OBVIOUS
<1>1. PICK m \in Nat \ S : \A k \in Nat \ S : <<k, m>> \notin OpToRel(<, Nat)
  BY WFMin, NatLessThanWellFounded, Zenon
<1>2. \A k \in Nat \ S : ~(k < m)
  BY <1>1, Zenon DEF OpToRel
<1>3. m \in Nat /\ m # 0
  BY <1>1
<1>4. m - 1 \in Nat /\ m - 1 < m /\ (m - 1) + 1 = m
  BY <1>3
<1>5. m - 1 \in S
  BY <1>2, <1>4
<1> QED BY <1>1, <1>4, <1>5

\* The sequences Concat joins its argument up to.
Joined(f) ==
    LET upTo[i \in 0 .. Len(f)] == IF i = 0 THEN <<>> ELSE upTo[i - 1] \o f[i]
    IN  upTo

LEMMA ConcatIsJoined == \A f : Concat(f) = Joined(f)[Len(f)]
BY DEF Concat, Joined

\* What is joined up to i is what is joined up to i - 1 and the i-th sequence.
LEMMA JoinedFacts ==
    ASSUME NEW S, NEW f \in Seq(Seq(S))
    PROVE  /\ Joined(f)[0] = <<>>
           /\ \A i \in 1 .. Len(f) : Joined(f)[i] = Joined(f)[i - 1] \o f[i]
           /\ \A i \in 0 .. Len(f) : Joined(f)[i] \in Seq(S)
<1> DEFINE Step(g, i) == IF i = 0 THEN <<>> ELSE g[i - 1] \o f[i]
           Law(g, n) == g = [i \in 0 .. n |-> Step(g, i)]
           Good == {n \in Nat : \E g : Law(g, n)}
<1>1. 0 \in Good
  <2> DEFINE g == [i \in 0 .. 0 |-> <<>>]
  <2>1. Law(g, 0)
    OBVIOUS
  <2> QED BY <2>1
<1>2. ASSUME NEW n \in Good
      PROVE  n + 1 \in Good
  <2>1. PICK g : Law(g, n)
    OBVIOUS
  <2> DEFINE h == [i \in 0 .. n + 1 |-> Step(g, i)]
  <2>2. ASSUME NEW i \in 0 .. n + 1
        PROVE  Step(h, i) = Step(g, i)
    <3>1. CASE i = 0
      BY <3>1
    <3>2. CASE i # 0
      <4>1. i - 1 \in 0 .. n /\ i - 1 \in 0 .. n + 1
        BY <3>2
      <4>2. h[i - 1] = Step(g, i - 1) /\ g[i - 1] = Step(g, i - 1)
        <5> HIDE DEF Step
        <5> QED BY <2>1, <4>1
      <4> HIDE DEF h
      <4> QED BY <3>2, <4>2
    <3> QED BY <3>1, <3>2
  <2>3. Law(h, n + 1)
    BY <2>2
  <2>4. \E k : Law(k, n + 1)
    <3> HIDE DEF Law, h
    <3> QED BY <2>3
  <2> HIDE DEF Law
  <2> QED BY <2>4
<1> HIDE DEF Good
<1>3. Good = Nat
  BY <1>1, <1>2, Induction DEF Good
<1>4. Len(f) \in Nat
  OBVIOUS
<1>5. PICK up : Law(up, Len(f))
  BY <1>3, <1>4 DEF Good
<1>6. Joined(f) = CHOOSE g : Law(g, Len(f))
  BY DEF Joined
<1>7. Law(Joined(f), Len(f))
  <2> HIDE DEF Law
  <2> QED BY <1>5, <1>6
<1> DEFINE j == Joined(f)
<1> HIDE DEF j
<1>8. /\ j[0] = <<>>
      /\ \A i \in 1 .. Len(f) : j[i] = j[i - 1] \o f[i]
  <2>1. \A i \in 0 .. Len(f) : j[i] = Step(j, i)
    <3> HIDE DEF Step
    <3> QED BY <1>7 DEF j
  <2>2. j[0] = <<>>
    <3>1. 0 \in 0 .. Len(f)
      BY <1>4
    <3> QED BY <2>1, <3>1
  <2>3. ASSUME NEW i \in 1 .. Len(f)
        PROVE  j[i] = j[i - 1] \o f[i]
    <3>1. i \in 0 .. Len(f) /\ i # 0
      BY <1>4
    <3> QED BY <2>1, <3>1
  <2> QED BY <2>2, <2>3
<1> DEFINE Typed == {n \in Nat : n <= Len(f) => j[n] \in Seq(S)}
<1> HIDE DEF Step
<1>9. 0 \in Typed
  <2>1. <<>> \in Seq(S)
    OBVIOUS
  <2> QED BY <1>8, <2>1
<1>10. ASSUME NEW n \in Typed
       PROVE  n + 1 \in Typed
  <2> SUFFICES ASSUME n + 1 <= Len(f) PROVE j[n + 1] \in Seq(S)
    OBVIOUS
  <2>1. j[n] \in Seq(S) /\ f[n + 1] \in Seq(S) /\ n + 1 \in 1 .. Len(f)
    BY <1>4
  <2>2. (n + 1) - 1 = n
    OBVIOUS
  <2> HIDE DEF Typed
  <2>3. j[n + 1] = j[n] \o f[n + 1]
    BY <1>8, <2>1, <2>2
  <2> QED BY <2>1, <2>3
<1>11. Typed = Nat
  <2> HIDE DEF Typed
  <2> QED BY <1>9, <1>10, Induction DEF Typed
<1>12. \A i \in 0 .. Len(f) : j[i] \in Seq(S)
  BY <1>4, <1>11
<1> QED BY <1>8, <1>12 DEF j

-----------------------------------------------------------------------------
(* The events llhttp reports *)

Kinds == {"method", "url", "version", "field", "value", "complete", "body", "error"}
Arguments == {"", "part", "pause"} \union STRING \union Seq(STRING)
                \union UNION {{m.method, m.path, m.version} : m \in Messages}

Reported == {e \in [kind : Kinds, arg : Arguments] :
                /\ e.kind \in {"url", "version"} => e.arg \in Texts
                /\ e.kind = "body" => e.arg \in Seq(STRING)}

\* A value comes right after its header's field, the header's end right after both.
Ordered(s) ==
    \A i \in 1 .. Len(s) :
        /\ s[i].kind = "value" => i > 1 /\ s[i - 1].kind = "field"
        /\ s[i].kind = "complete" =>
                i > 2 /\ s[i - 1].kind = "value" /\ s[i - 2].kind = "field"

\* Ordered sequences that are joined are ordered.
LEMMA OrderedConcat ==
    ASSUME NEW S, NEW s \in Seq(S), NEW t \in Seq(S), Ordered(s), Ordered(t)
    PROVE  Ordered(s \o t)
<1> DEFINE st == s \o t
<1>1. /\ Len(s) \in Nat /\ Len(t) \in Nat /\ Len(st) = Len(s) + Len(t)
      /\ \A i \in 1 .. Len(s) + Len(t) : st[i] = IF i <= Len(s) THEN s[i] ELSE t[i - Len(s)]
  BY ConcatProperties, LenProperties
<1> HIDE DEF st
<1> SUFFICES ASSUME NEW i \in 1 .. Len(st)
             PROVE  /\ st[i].kind = "value" => i > 1 /\ st[i - 1].kind = "field"
                    /\ st[i].kind = "complete" =>
                            i > 2 /\ st[i - 1].kind = "value" /\ st[i - 2].kind = "field"
  BY DEF Ordered, st
<1>2. CASE i <= Len(s)
  <2>1. i \in 1 .. Len(s) /\ st[i] = s[i]
    BY <1>1, <1>2
  <2>2. i > 1 => st[i - 1] = s[i - 1]
    BY <1>1, <1>2
  <2>3. i > 2 => st[i - 2] = s[i - 2]
    BY <1>1, <1>2
  <2> QED BY <2>1, <2>2, <2>3 DEF Ordered
<1>3. CASE i > Len(s)
  <2> DEFINE k == i - Len(s)
  <2>1. k \in 1 .. Len(t) /\ st[i] = t[k]
    BY <1>1, <1>3
  <2>2. ASSUME k > 1 PROVE i > 1 /\ st[i - 1] = t[k - 1]
    <3>1. i - 1 \in 1 .. Len(s) + Len(t) /\ i - 1 > Len(s) /\ (i - 1) - Len(s) = k - 1
      BY <1>1, <1>3, <2>2
    <3>2. st[i - 1] = t[(i - 1) - Len(s)]
      BY <1>1, <3>1
    <3> QED BY <1>1, <1>3, <2>2, <3>1, <3>2
  <2>3. ASSUME k > 2 PROVE i > 2 /\ st[i - 2] = t[k - 2]
    <3>1. i - 2 \in 1 .. Len(s) + Len(t) /\ i - 2 > Len(s) /\ (i - 2) - Len(s) = k - 2
      BY <1>1, <1>3, <2>3
    <3>2. st[i - 2] = t[(i - 2) - Len(s)]
      BY <1>1, <3>1
    <3> QED BY <1>1, <1>3, <2>3, <3>1, <3>2
  <2> HIDE DEF k
  <2> QED BY <2>1, <2>2, <2>3 DEF Ordered
<1> QED BY <1>1, <1>2, <1>3

\* The events of a buffer that is cut, as far as it holds whole tokens, are those
\* of its text; one more may follow, of a token that is cut or of an error.
LEMMA CutFacts ==
    ASSUME NEW all \in Seq(Reported), Ordered(all), NEW n \in 0 .. Len(all),
           NEW es \in CutAfter(all, n)
    PROVE  /\ es \in Seq(Reported) /\ Ordered(es)
           /\ Len(es) \in {n, n + 1} /\ \A i \in 1 .. n : es[i] = all[i]
           /\ Len(es) = n + 1 =>
                \/ es[n + 1].kind = "error"
                \/ n < Len(all) /\ es[n + 1] \in Partial(all[n + 1])
<1> DEFINE whole == SubSeq(all, 1, n)
<1>1. n \in Nat /\ Len(all) \in Nat /\ n <= Len(all) /\ \A i \in 1 .. n : all[i] \in Reported
  OBVIOUS
<1>2. /\ whole \in Seq(Reported) /\ Len(whole) = n /\ \A i \in 1 .. n : whole[i] = all[i]
  <2>1. /\ SubSeq(all, 1, n) \in Seq(Reported)
        /\ Len(SubSeq(all, 1, n)) = IF 1 <= n THEN n - 1 + 1 ELSE 0
        /\ \A i \in 1 .. n - 1 + 1 : SubSeq(all, 1, n)[i] = all[1 + i - 1]
    BY <1>1, SubSeqProperties
  <2>2. n - 1 + 1 = n /\ \A i \in 1 .. n : 1 + i - 1 = i
    BY <1>1
  <2> HIDE DEF whole
  <2>3. Len(whole) = n /\ \A i \in 1 .. n : whole[i] = all[i]
    BY <1>1, <2>1, <2>2 DEF whole
  <2> QED BY <2>1, <2>3 DEF whole
<1> HIDE DEF whole
<1>3. Ordered(whole)
  BY <1>1, <1>2 DEF Ordered
<1>4. CASE es = whole
  BY <1>1, <1>2, <1>3, <1>4
<1>5. ASSUME NEW e \in Reported, es = Append(whole, e),
             \/ e.kind = "error"
             \/ n < Len(all) /\ e \in Partial(all[n + 1]) /\ e.kind = all[n + 1].kind
                /\ e.kind # "complete"
      PROVE  /\ es \in Seq(Reported) /\ Ordered(es)
             /\ Len(es) = n + 1 /\ \A i \in 1 .. n : es[i] = all[i]
             /\ es[n + 1].kind = "error" \/ (n < Len(all) /\ es[n + 1] \in Partial(all[n + 1]))
  <2>1. /\ es \in Seq(Reported) /\ Len(es) = n + 1
        /\ \A i \in 1 .. n : es[i] = all[i]
        /\ es[n + 1] = e
    BY <1>2, <1>5, AppendProperties
  <2>2. ASSUME e.kind = "value"
        PROVE  n + 1 > 1 /\ all[n].kind = "field"
    <3>1. n < Len(all) /\ all[n + 1].kind = "value"
      BY <1>5, <2>2
    <3>2. n + 1 \in 1 .. Len(all) /\ (n + 1) - 1 = n
      BY <1>1, <3>1
    <3> QED BY <3>1, <3>2 DEF Ordered
  <2>3. Ordered(es)
    <3> SUFFICES ASSUME NEW i \in 1 .. n + 1
                 PROVE  /\ es[i].kind = "value" => i > 1 /\ es[i - 1].kind = "field"
                        /\ es[i].kind = "complete" =>
                                i > 2 /\ es[i - 1].kind = "value" /\ es[i - 2].kind = "field"
      BY <2>1 DEF Ordered
    <3>1. CASE i = n + 1
      <4>1. e.kind # "complete"
        BY <1>5
      <4>2. e.kind = "value" => n + 1 > 1 /\ es[n].kind = "field"
        BY <1>1, <2>1, <2>2
      <4>3. (n + 1) - 1 = n
        BY <1>1
      <4> QED BY <2>1, <3>1, <4>1, <4>2, <4>3
    <3>2. CASE i \in 1 .. n
      <4>1. i \in 1 .. Len(all) /\ es[i] = all[i]
        BY <1>1, <2>1, <3>2
      <4>2. i > 1 => es[i - 1] = all[i - 1]
        BY <1>1, <2>1, <3>2
      <4>3. i > 2 => es[i - 2] = all[i - 2]
        BY <1>1, <2>1, <3>2
      <4> QED BY <4>1, <4>2, <4>3 DEF Ordered
    <3> QED BY <1>1, <3>1, <3>2
  <2> QED BY <1>5, <2>1, <2>3
<1>6. CASE es = Append(whole, Event("error", ""))
  <2>1. Event("error", "") \in Reported /\ Event("error", "").kind = "error"
    BY DEF Event, Reported, Kinds, Arguments
  <2> QED BY <1>1, <1>5, <1>6, <2>1
<1>7. ASSUME n # Len(all), NEW e \in Partial(all[n + 1]), es = Append(whole, e)
      PROVE  /\ es \in Seq(Reported) /\ Ordered(es)
             /\ Len(es) = n + 1 /\ \A i \in 1 .. n : es[i] = all[i]
             /\ es[n + 1].kind = "error" \/ (n < Len(all) /\ es[n + 1] \in Partial(all[n + 1]))
  <2>1. n < Len(all) /\ all[n + 1] \in Reported
    BY <1>1, <1>7
  <2>2. e \in Reported /\ e.kind = all[n + 1].kind /\ e.kind # "complete"
    <3> DEFINE a == all[n + 1]
    <3> HIDE DEF a
    <3> SUFFICES e \in Reported /\ e.kind = a.kind /\ e.kind # "complete"
      BY DEF a
    <3>1. a \in Reported /\ e \in Partial(a)
      BY <1>7, <2>1 DEF a
    <3>2. CASE a.kind = "body"
      <4>1. PICK k \in 1 .. Len(a.arg) - 1 : e = Event("body", SubSeq(a.arg, 1, k))
        BY <3>1, <3>2 DEF Partial
      <4>2. a.arg \in Seq(STRING) /\ Len(a.arg) \in Nat
        BY <3>1, <3>2 DEF Reported
      <4>3. \A i \in 1 .. k : a.arg[i] \in STRING
        BY <4>2
      <4>4. SubSeq(a.arg, 1, k) \in Seq(STRING)
        BY <4>2, <4>3, SubSeqProperties
      <4>5. SubSeq(a.arg, 1, k) \in Arguments
        BY <4>4 DEF Arguments
      <4> QED BY <3>2, <4>1, <4>4, <4>5 DEF Reported, Kinds, Event
    <3>3. CASE a.kind # "body"
      <4>1. a.kind \in {"method", "url", "version", "field", "value"} /\ e = Event(a.kind, "part")
        BY <3>1, <3>3 DEF Partial
      <4>2. "part" \in Arguments /\ "part" \in Texts
        BY DEF Arguments, Texts
      <4>3. a.kind # "body" /\ a.kind # "complete" /\ a.kind \in Kinds
        BY <3>3, <4>1 DEF Kinds
      <4>4. e \in [kind : Kinds, arg : Arguments] /\ e.kind = a.kind /\ e.arg = "part"
        BY <4>1, <4>2, <4>3 DEF Event
      <4> QED BY <4>2, <4>3, <4>4 DEF Reported
    <3> QED BY <3>2, <3>3
  <2> QED BY <1>5, <1>7, <2>1, <2>2
<1>8. \/ es = whole \/ es = Append(whole, Event("error", ""))
      \/ n # Len(all) /\ \E e \in Partial(all[n + 1]) : es = Append(whole, e)
  BY DEF CutAfter, whole
<1> QED BY <1>4, <1>6, <1>7, <1>8

\* A sequence of ordered sequences joins to an ordered one.
LEMMA OrderedJoin ==
    ASSUME NEW S, NEW f \in Seq(Seq(S)), \A i \in 1 .. Len(f) : Ordered(f[i])
    PROVE  Concat(f) \in Seq(S) /\ Ordered(Concat(f))
<1> DEFINE j == Joined(f)
           Good == {n \in Nat : n <= Len(f) => Ordered(j[n])}
<1> HIDE DEF j
<1>1. /\ Len(f) \in Nat /\ j[0] = <<>>
      /\ \A i \in 1 .. Len(f) : j[i] = j[i - 1] \o f[i]
      /\ \A i \in 0 .. Len(f) : j[i] \in Seq(S)
  BY JoinedFacts, LenProperties DEF j
<1>2. 0 \in Good
  BY <1>1 DEF Ordered
<1>3. ASSUME NEW n \in Good
      PROVE  n + 1 \in Good
  <2> SUFFICES ASSUME n + 1 <= Len(f) PROVE Ordered(j[n + 1])
    OBVIOUS
  <2>1. Ordered(j[n]) /\ n \in 0 .. Len(f) /\ n + 1 \in 1 .. Len(f) /\ (n + 1) - 1 = n
    BY <1>1
  <2> HIDE DEF Good
  <2>2. j[n + 1] = j[(n + 1) - 1] \o f[n + 1] /\ j[n] \in Seq(S)
    BY <1>1, <2>1
  <2>3. f[n + 1] \in Seq(S) /\ Ordered(f[n + 1])
    BY <2>1, ElementOfSeq
  <2>4. Ordered(j[n] \o f[n + 1])
    BY <2>1, <2>2, <2>3, OrderedConcat
  <2> QED BY <2>1, <2>2, <2>4
<1>4. Good = Nat
  <2> HIDE DEF Good
  <2> QED BY <1>2, <1>3, Induction DEF Good
<1>5. Ordered(j[Len(f)]) /\ j[Len(f)] \in Seq(S)
  BY <1>1, <1>4
<1> QED BY <1>5, ConcatIsJoined DEF j

\* The events of a header.
LEMMA HeaderFacts ==
    ASSUME NEW h \in STRING \X STRING
    PROVE  LET es == HeaderEvents(h)
           IN  /\ es \in Seq(Reported) /\ Ordered(es) /\ Len(es) = 3
               /\ es[1] = Event("field", h[1])
               /\ es[2] = Event("value", h[2])
               /\ es[3] = Event("complete", "")
<1> DEFINE es == HeaderEvents(h)
<1>1. h[1] \in STRING /\ h[2] \in STRING
  OBVIOUS
<1>2. Event("field", h[1]) \in Reported /\ Event("value", h[2]) \in Reported
      /\ Event("complete", "") \in Reported
  BY <1>1 DEF Event, Reported, Kinds, Arguments
<1>3. es \in Seq(Reported) /\ Len(es) = 3 /\ es[1] = Event("field", h[1])
      /\ es[2] = Event("value", h[2]) /\ es[3] = Event("complete", "")
  <2> DEFINE a == Event("field", h[1])
             b == Event("value", h[2])
             c == Event("complete", "")
  <2> HIDE DEF a, b, c
  <2>1. es = <<a, b, c>> /\ a \in Reported /\ b \in Reported /\ c \in Reported
    BY <1>2 DEF HeaderEvents, a, b, c
  <2> HIDE DEF es
  <2>2. es \in Seq(Reported) /\ Len(es) = 3 /\ es[1] = a /\ es[2] = b /\ es[3] = c
    BY <2>1
  <2> QED BY <2>2 DEF a, b, c
<1> HIDE DEF es
<1>4. Ordered(es)
  <2>1. es[1].kind = "field" /\ es[2].kind = "value" /\ es[3].kind = "complete"
    <3>1. /\ es[1].kind = Event("field", h[1]).kind
          /\ es[2].kind = Event("value", h[2]).kind
          /\ es[3].kind = Event("complete", "").kind
      BY <1>3
    <3> QED BY <3>1 DEF Event
  <2>2. ASSUME NEW k \in 1 .. 3
        PROVE  /\ es[k].kind = "value" => k > 1 /\ es[k - 1].kind = "field"
               /\ es[k].kind = "complete" =>
                        k > 2 /\ es[k - 1].kind = "value" /\ es[k - 2].kind = "field"
    <3>1. CASE k = 1
      BY <2>1, <3>1
    <3>2. CASE k = 2
      BY <2>1, <3>2
    <3>3. CASE k = 3
      BY <2>1, <3>3
    <3> QED BY <3>1, <3>2, <3>3
  <2> QED BY <1>3, <2>2 DEF Ordered
<1> QED BY <1>3, <1>4 DEF es

\* The events of headers: three of each.
LEMMA HeadersFacts ==
    ASSUME NEW hs \in Seq(STRING \X STRING)
    PROVE  /\ HeadersEvents(hs) \in Seq(Reported) /\ Ordered(HeadersEvents(hs))
           /\ Len(hs) \in Nat /\ Len(HeadersEvents(hs)) = 3 * Len(hs)
           /\ \A i \in 1 .. Len(hs) :
                /\ HeadersEvents(hs)[3 * i - 2] = Event("field", hs[i][1])
                /\ HeadersEvents(hs)[3 * i - 1] = Event("value", hs[i][2])
                /\ HeadersEvents(hs)[3 * i] = Event("complete", "")
<1> DEFINE f == [i \in DOMAIN hs |-> HeaderEvents(hs[i])]
           h == Len(hs)
           j == Joined(f)
           Has(s, i) == /\ s[3 * i - 2] = Event("field", hs[i][1])
                        /\ s[3 * i - 1] = Event("value", hs[i][2])
                        /\ s[3 * i] = Event("complete", "")
           Good == {n \in Nat : n <= h => Len(j[n]) = 3 * n /\ \A i \in 1 .. n : Has(j[n], i)}
<1>1. h \in Nat /\ DOMAIN hs = 1 .. h /\ \A i \in 1 .. h : hs[i] \in STRING \X STRING
  OBVIOUS
<1>2. \A i \in 1 .. h : /\ f[i] \in Seq(Reported) /\ Ordered(f[i]) /\ Len(f[i]) = 3
                        /\ f[i][1] = Event("field", hs[i][1])
                        /\ f[i][2] = Event("value", hs[i][2])
                        /\ f[i][3] = Event("complete", "")
  BY <1>1, HeaderFacts
<1>3. f \in Seq(Seq(Reported)) /\ Len(f) = h
  <2>1. f \in [1 .. h -> Seq(Reported)]
    BY <1>1, <1>2
  <2> HIDE DEF f, h
  <2> QED BY <1>1, <2>1
<1> HIDE DEF f, h, j, Has
<1>4. /\ j[0] = <<>>
      /\ \A i \in 1 .. h : j[i] = j[i - 1] \o f[i]
      /\ \A i \in 0 .. h : j[i] \in Seq(Reported)
  BY <1>3, JoinedFacts DEF j
<1>5. 0 \in Good
  <2>1. Len(j[0]) = 0 /\ \A i \in 1 .. 0 : FALSE
    BY <1>4
  <2> QED BY <2>1
<1>6. ASSUME NEW n \in Good
      PROVE  n + 1 \in Good
  <2> SUFFICES ASSUME n + 1 <= h
               PROVE  Len(j[n + 1]) = 3 * (n + 1) /\ \A i \in 1 .. n + 1 : Has(j[n + 1], i)
    OBVIOUS
  <2>1. /\ Len(j[n]) = 3 * n /\ \A i \in 1 .. n : Has(j[n], i)
        /\ n \in Nat /\ n \in 0 .. h /\ n + 1 \in 1 .. h /\ (n + 1) - 1 = n
    <3>1. n \in Nat /\ n <= h
      BY <1>1
    <3>2. Len(j[n]) = 3 * n /\ \A i \in 1 .. n : Has(j[n], i)
      BY <3>1
    <3> QED BY <1>1, <3>1, <3>2
  <2> DEFINE s == j[n]
             t == f[n + 1]
             st == s \o t
  <2> HIDE DEF Good, Has
  <2>2. j[n + 1] = st /\ s \in Seq(Reported) /\ t \in Seq(Reported)
    BY <1>2, <1>4, <2>1
  <2>3. Len(t) = 3 /\ Len(s) = 3 * n
    BY <1>2, <2>1
  <2> HIDE DEF s, t
  <2>4. /\ Len(st) = Len(s) + Len(t)
        /\ \A i \in 1 .. Len(s) + Len(t) :
                st[i] = IF i <= Len(s) THEN s[i] ELSE t[i - Len(s)]
    BY <2>2, ConcatProperties
  <2> HIDE DEF st
  <2>5. /\ \A i \in 1 .. 3 * n : st[i] = s[i]
        /\ st[3 * n + 1] = t[1] /\ st[3 * n + 2] = t[2] /\ st[3 * n + 3] = t[3]
        /\ Len(st) = 3 * n + 3
    BY <2>1, <2>3, <2>4
  <2>6. ASSUME NEW i \in 1 .. n
        PROVE  Has(st, i)
    <3>1. /\ 3 * i - 2 \in 1 .. 3 * n /\ 3 * i - 1 \in 1 .. 3 * n /\ 3 * i \in 1 .. 3 * n
      BY <2>1
    <3> QED BY <2>1, <2>5, <3>1 DEF Has, s
  <2>7. Has(st, n + 1)
    <3>1. /\ 3 * (n + 1) - 2 = 3 * n + 1 /\ 3 * (n + 1) - 1 = 3 * n + 2
          /\ 3 * (n + 1) = 3 * n + 3
      BY <2>1
    <3> QED BY <1>2, <2>1, <2>5, <3>1 DEF Has, t
  <2>8. \A i \in 1 .. n + 1 : i \in 1 .. n \/ i = n + 1
    BY <2>1
  <2>9. 3 * n + 3 = 3 * (n + 1)
    BY <2>1
  <2> QED BY <2>2, <2>5, <2>6, <2>7, <2>8, <2>9
<1>7. Good = Nat
  <2> HIDE DEF Good
  <2> QED BY <1>5, <1>6, Induction DEF Good
<1>8. Len(j[h]) = 3 * h /\ \A i \in 1 .. h : Has(j[h], i)
  BY <1>1, <1>7
<1>9. HeadersEvents(hs) = j[h]
  BY <1>3, ConcatIsJoined DEF HeadersEvents, j, f
<1>10. HeadersEvents(hs) \in Seq(Reported) /\ Ordered(HeadersEvents(hs))
  <2>1. Concat(f) \in Seq(Reported) /\ Ordered(Concat(f))
    BY <1>2, <1>3, OrderedJoin
  <2> QED BY <2>1 DEF HeadersEvents, f
<1> QED BY <1>1, <1>8, <1>9, <1>10 DEF h, Has

\* Where the parts of two joined sequences are.
LEMMA PartsFacts ==
    ASSUME NEW s \in Seq(Reported), NEW t \in Seq(Reported), Ordered(s), Ordered(t)
    PROVE  /\ s \o t \in Seq(Reported) /\ Ordered(s \o t)
           /\ Len(s) \in Nat /\ Len(t) \in Nat /\ Len(s \o t) = Len(s) + Len(t)
           /\ \A i \in 1 .. Len(s) : (s \o t)[i] = s[i]
           /\ \A i \in 1 .. Len(t) : (s \o t)[Len(s) + i] = t[i]
<1> DEFINE st == s \o t
           a == Len(s)
           b == Len(t)
<1>1. a \in Nat /\ b \in Nat
  BY LenProperties
<1>2. /\ st \in Seq(Reported) /\ Len(st) = a + b
      /\ \A i \in 1 .. a + b : st[i] = IF i <= a THEN s[i] ELSE t[i - a]
  BY ConcatProperties
<1>3. Ordered(st)
  BY OrderedConcat
<1> HIDE DEF st, a, b
<1>4. ASSUME NEW i \in 1 .. a
      PROVE  st[i] = s[i]
  <2>1. i \in 1 .. a + b /\ i <= a
    BY <1>1
  <2> QED BY <1>2, <2>1
<1>5. ASSUME NEW i \in 1 .. b
      PROVE  st[a + i] = t[i]
  <2>1. a + i \in 1 .. a + b /\ ~(a + i <= a) /\ (a + i) - a = i
    BY <1>1
  <2> QED BY <1>2, <2>1
<1> QED BY <1>1, <1>2, <1>3, <1>4, <1>5 DEF st, a, b

\* The headers before the body and the trailers.
LEMMA SplitHeaders ==
    ASSUME NEW m \in Messages
    PROVE  LET h == Len(m.headers)
               p == m.lead
               lead == SubSeq(m.headers, 1, p)
               trailers == SubSeq(m.headers, p + 1, h)
           IN  /\ h \in Nat /\ p \in Nat /\ p <= h
               /\ lead \in Seq(STRING \X STRING) /\ trailers \in Seq(STRING \X STRING)
               /\ Len(lead) = p /\ Len(trailers) = h - p
               /\ \A i \in 1 .. p : lead[i] = m.headers[i]
               /\ \A i \in 1 .. h - p : trailers[i] = m.headers[p + i]
<1> DEFINE hs == m.headers
           h == Len(hs)
           p == m.lead
           lead == SubSeq(hs, 1, p)
           trailers == SubSeq(hs, p + 1, h)
           S == STRING \X STRING
<1>1. hs \in Seq(S) /\ p \in 0 .. h
  BY MessagesAssumption
<1> HIDE DEF hs, p, S
<1>2. h \in Nat /\ p \in Nat /\ p <= h /\ \A i \in 1 .. h : hs[i] \in S
  <2>1. h \in Nat /\ \A i \in 1 .. h : hs[i] \in S
    BY <1>1, LenProperties, ElementOfSeq
  <2> HIDE DEF h
  <2> QED BY <1>1, <2>1
<1>3. /\ lead \in Seq(S) /\ Len(lead) = p /\ \A i \in 1 .. p : lead[i] = hs[i]
  <2>1. \A i \in 1 .. p : hs[i] \in S
    <3> HIDE DEF h
    <3> QED BY <1>2
  <2>2. /\ SubSeq(hs, 1, p) \in Seq(S)
        /\ Len(SubSeq(hs, 1, p)) = IF 1 <= p THEN p - 1 + 1 ELSE 0
        /\ \A i \in 1 .. p - 1 + 1 : SubSeq(hs, 1, p)[i] = hs[1 + i - 1]
    BY <1>2, <2>1, SubSeqProperties
  <2>3. p - 1 + 1 = p /\ \A i \in 1 .. p : 1 + i - 1 = i
    BY <1>2
  <2> HIDE DEF lead
  <2> QED BY <1>2, <2>2, <2>3 DEF lead
<1>4. /\ trailers \in Seq(S) /\ Len(trailers) = h - p
      /\ \A i \in 1 .. h - p : trailers[i] = hs[p + i]
  <2> DEFINE q == p + 1
  <2>1. q \in Int /\ h \in Int /\ \A i \in q .. h : hs[i] \in S
    <3> HIDE DEF h
    <3> QED BY <1>2
  <2> HIDE DEF q, h
  <2>2. /\ SubSeq(hs, q, h) \in Seq(S)
        /\ Len(SubSeq(hs, q, h)) = IF q <= h THEN h - q + 1 ELSE 0
        /\ \A i \in 1 .. h - q + 1 : SubSeq(hs, q, h)[i] = hs[q + i - 1]
    BY <2>1, SubSeqProperties
  <2>3. /\ h - q + 1 = h - p /\ (~(q <= h) => h - p = 0)
        /\ \A i \in 1 .. h - p : q + i - 1 = p + i
    BY <1>2 DEF q
  <2>4. trailers = SubSeq(hs, q, h)
    BY DEF q
  <2> HIDE DEF trailers
  <2> QED BY <2>2, <2>3, <2>4
<1> QED BY <1>2, <1>3, <1>4 DEF hs, p, S, h, lead, trailers

\* The pause is an error, whatever its argument.
LEMMA PauseIsReported ==
    /\ Event("error", "") \in Reported /\ Event("error", "").kind = "error"
    /\ PauseAtOnce \in Reported /\ PauseAtOnce.kind = "error"
<1>1. \A x \in {"", "pause"} :
            Event("error", x) \in Reported /\ Event("error", x).kind = "error"
  BY DEF Event, Reported, Kinds, Arguments
<1> QED BY <1>1 DEF PauseAtOnce

\* The place before the events of header j, and the number of events without a pause.
Place(m, j) == 3 * j + (IF j <= m.lead THEN 0 ELSE Len(m.chunks))
Size(m) == 3 + 3 * Len(m.headers) + Len(m.chunks)

\* The d-th event of the t-th of n headers.
LEMMA PlaceInHeaders ==
    ASSUME NEW n \in Int, NEW t \in Int, 1 <= t, t <= n, NEW d \in 1 .. 3
    PROVE  3 * t - (3 - d) \in 1 .. 3 * n
<1>1. d = 1 \/ d = 2 \/ d = 3
  OBVIOUS
<1> QED BY <1>1

\* The events of a message: its line, three of each header, one of each chunk after
\* the headers before the body, and the pause if it asks for an upgrade.
LEMMA MessageFacts ==
    ASSUME NEW m \in Messages
    PROVE  LET es == EventsOf(m)
               h == Len(m.headers)
               c == Len(m.chunks)
               p == m.lead
           IN  /\ es \in Seq(Reported) /\ Ordered(es)
               /\ h \in Nat /\ c \in Nat /\ p \in Nat /\ p <= h /\ Size(m) = 3 + 3 * h + c
               /\ m.connection # "upgrade" => Len(es) = Size(m)
               /\ m.connection = "upgrade" =>
                    /\ Len(es) = Size(m) + 1 /\ es[Size(m) + 1].kind = "error"
                    /\ ~m.chunked => es[Size(m) + 1] = PauseAtOnce
               /\ es[1] = Event("method", m.method) /\ es[2] = Event("url", m.path)
               /\ es[3] = Event("version", m.version)
               /\ \A i \in 1 .. h :
                    /\ es[Place(m, i) + 1] = Event("field", m.headers[i][1])
                    /\ es[Place(m, i) + 2] = Event("value", m.headers[i][2])
                    /\ es[Place(m, i) + 3] = Event("complete", "")
               /\ \A i \in 1 .. c : es[3 + 3 * p + i] = Event("body", m.chunks[i])
<1> DEFINE h == Len(m.headers)
           c == Len(m.chunks)
           p == m.lead
           line == <<Event("method", m.method), Event("url", m.path), Event("version", m.version)>>
           leading == SubSeq(m.headers, 1, p)
           trailing == SubSeq(m.headers, p + 1, h)
           head == HeadersEvents(leading)
           body == [i \in DOMAIN m.chunks |-> Event("body", m.chunks[i])]
           tail == HeadersEvents(trailing)
           es == (((line \o head) \o body) \o tail) \o Pause(m)
<1>1. m.chunks \in Seq(Seq(STRING) \ {<<>>})
  BY MessagesAssumption
<1>2. c \in Nat /\ DOMAIN m.chunks = 1 .. c /\ \A i \in 1 .. c : m.chunks[i] \in Seq(STRING)
  BY <1>1
<1>3. Event("method", m.method) \in Reported /\ Event("url", m.path) \in Reported
      /\ Event("version", m.version) \in Reported
  <2>1. m.method \in Arguments /\ m.path \in Arguments /\ m.version \in Arguments
    BY DEF Arguments
  <2>2. m.path \in Texts /\ m.version \in Texts
    BY DEF Texts
  <2> QED BY <2>1, <2>2 DEF Event, Reported, Kinds
<1>4. line \in Seq(Reported) /\ Len(line) = 3 /\ Ordered(line)
      /\ line[1] = Event("method", m.method) /\ line[2] = Event("url", m.path)
      /\ line[3] = Event("version", m.version)
  <2> DEFINE a == Event("method", m.method)
             b == Event("url", m.path)
             v == Event("version", m.version)
  <2>1. a.kind = "method" /\ b.kind = "url" /\ v.kind = "version"
    BY DEF Event
  <2> HIDE DEF a, b, v
  <2>2. line = <<a, b, v>> /\ a \in Reported /\ b \in Reported /\ v \in Reported
    BY <1>3 DEF a, b, v
  <2> HIDE DEF line
  <2>3. line \in Seq(Reported) /\ Len(line) = 3 /\ line[1] = a /\ line[2] = b /\ line[3] = v
    BY <2>2
  <2>4. \A k \in 1 .. 3 : line[k].kind # "value" /\ line[k].kind # "complete"
    <3>1. \A k \in 1 .. 3 : k = 1 \/ k = 2 \/ k = 3
      OBVIOUS
    <3> QED BY <2>1, <2>3, <3>1
  <2>5. Ordered(line)
    BY <2>3, <2>4 DEF Ordered
  <2> QED BY <2>3, <2>5 DEF a, b, v
<1>5. body \in Seq(Reported) /\ Len(body) = c /\ Ordered(body)
      /\ \A i \in 1 .. c : body[i] = Event("body", m.chunks[i])
  <2>1. ASSUME NEW i \in 1 .. c
        PROVE  /\ Event("body", m.chunks[i]) \in Reported
               /\ Event("body", m.chunks[i]).kind = "body"
    BY <1>2 DEF Event, Reported, Kinds, Arguments
  <2>2. body \in [1 .. c -> Reported] /\ \A i \in 1 .. c : body[i].kind = "body"
    BY <1>2, <2>1
  <2>3. \A i \in 1 .. c : body[i] = Event("body", m.chunks[i])
    BY <1>2
  <2> HIDE DEF body, c
  <2>4. body \in Seq(Reported) /\ Len(body) = c
    BY <1>2, <2>2
  <2>5. Ordered(body)
    BY <2>2, <2>4 DEF Ordered
  <2> QED BY <2>3, <2>4, <2>5
<1>6. h \in Nat /\ p \in Nat /\ p <= h
  BY SplitHeaders
<1>7. head \in Seq(Reported) /\ Len(head) = 3 * p /\ Ordered(head)
      /\ \A i \in 1 .. p :
            /\ head[3 * i - 2] = Event("field", m.headers[i][1])
            /\ head[3 * i - 1] = Event("value", m.headers[i][2])
            /\ head[3 * i] = Event("complete", "")
  <2>1. /\ leading \in Seq(STRING \X STRING) /\ Len(leading) = p
        /\ \A i \in 1 .. p : leading[i] = m.headers[i]
    BY SplitHeaders
  <2> HIDE DEF leading
  <2>2. /\ head \in Seq(Reported) /\ Ordered(head) /\ Len(head) = 3 * Len(leading)
        /\ \A i \in 1 .. Len(leading) :
            /\ head[3 * i - 2] = Event("field", leading[i][1])
            /\ head[3 * i - 1] = Event("value", leading[i][2])
            /\ head[3 * i] = Event("complete", "")
    BY <2>1, HeadersFacts
  <2> HIDE DEF head
  <2> QED BY <2>1, <2>2
<1>8. tail \in Seq(Reported) /\ Len(tail) = 3 * (h - p) /\ Ordered(tail)
      /\ \A i \in 1 .. h - p :
            /\ tail[3 * i - 2] = Event("field", m.headers[p + i][1])
            /\ tail[3 * i - 1] = Event("value", m.headers[p + i][2])
            /\ tail[3 * i] = Event("complete", "")
  <2>1. /\ trailing \in Seq(STRING \X STRING) /\ Len(trailing) = h - p
        /\ \A i \in 1 .. h - p : trailing[i] = m.headers[p + i]
    BY SplitHeaders
  <2> HIDE DEF trailing
  <2>2. /\ tail \in Seq(Reported) /\ Ordered(tail) /\ Len(tail) = 3 * Len(trailing)
        /\ \A i \in 1 .. Len(trailing) :
            /\ tail[3 * i - 2] = Event("field", trailing[i][1])
            /\ tail[3 * i - 1] = Event("value", trailing[i][2])
            /\ tail[3 * i] = Event("complete", "")
    BY <2>1, HeadersFacts
  <2> HIDE DEF tail
  <2> QED BY <2>1, <2>2
<1>9. /\ Pause(m) \in Seq(Reported) /\ Ordered(Pause(m))
      /\ m.connection # "upgrade" => Len(Pause(m)) = 0
      /\ m.connection = "upgrade" => /\ Len(Pause(m)) = 1 /\ Pause(m)[1].kind = "error"
                                     /\ ~m.chunked => Pause(m)[1] = PauseAtOnce
  <2>1. CASE m.connection # "upgrade"
    <3>1. Pause(m) = <<>>
      BY <2>1 DEF Pause
    <3>2. Ordered(<<>>)
      BY DEF Ordered
    <3> QED BY <2>1, <3>1, <3>2
  <2>2. CASE m.connection = "upgrade"
    <3> DEFINE e == IF m.chunked THEN Event("error", "") ELSE PauseAtOnce
    <3>1. e \in Reported /\ e.kind = "error" /\ (~m.chunked => e = PauseAtOnce)
      BY PauseIsReported
    <3>2. Pause(m) = <<e>>
      BY <2>2 DEF Pause
    <3> HIDE DEF e
    <3>3. Pause(m) \in Seq(Reported) /\ Len(Pause(m)) = 1 /\ Pause(m)[1] = e
      BY <3>1, <3>2
    <3>4. \A i \in 1 .. 1 : Pause(m)[i].kind = "error"
      BY <3>1, <3>3
    <3>5. Ordered(Pause(m))
      BY <3>3, <3>4 DEF Ordered
    <3> QED BY <2>2, <3>1, <3>3, <3>5
  <2> QED BY <2>1, <2>2
<1>10. EventsOf(m) = es
  BY DEF EventsOf
<1> HIDE DEF h, c, p, line, head, body, tail
<1> DEFINE two == line \o head
           three == two \o body
           four == three \o tail
<1>11. /\ two \in Seq(Reported) /\ Ordered(two) /\ Len(two) = 3 + 3 * p
       /\ \A i \in 1 .. 3 : two[i] = line[i]
       /\ \A i \in 1 .. 3 * p : two[3 + i] = head[i]
  <2>1. /\ two \in Seq(Reported) /\ Ordered(two) /\ Len(two) = Len(line) + Len(head)
        /\ \A i \in 1 .. Len(line) : two[i] = line[i]
        /\ \A i \in 1 .. Len(head) : two[Len(line) + i] = head[i]
    BY <1>4, <1>7, PartsFacts
  <2> HIDE DEF two
  <2> QED BY <1>4, <1>7, <2>1
<1> HIDE DEF two
<1>12. /\ three \in Seq(Reported) /\ Ordered(three) /\ Len(three) = 3 + 3 * p + c
       /\ \A i \in 1 .. 3 + 3 * p : three[i] = two[i]
       /\ \A i \in 1 .. c : three[3 + 3 * p + i] = body[i]
  <2>1. /\ three \in Seq(Reported) /\ Ordered(three) /\ Len(three) = Len(two) + Len(body)
        /\ \A i \in 1 .. Len(two) : three[i] = two[i]
        /\ \A i \in 1 .. Len(body) : three[Len(two) + i] = body[i]
    BY <1>5, <1>11, PartsFacts
  <2> HIDE DEF three
  <2> QED BY <1>5, <1>11, <2>1
<1> HIDE DEF three
<1>13. /\ four \in Seq(Reported) /\ Ordered(four) /\ Len(four) = 3 + 3 * p + c + 3 * (h - p)
       /\ \A i \in 1 .. 3 + 3 * p + c : four[i] = three[i]
       /\ \A i \in 1 .. 3 * (h - p) : four[3 + 3 * p + c + i] = tail[i]
  <2>1. /\ four \in Seq(Reported) /\ Ordered(four) /\ Len(four) = Len(three) + Len(tail)
        /\ \A i \in 1 .. Len(three) : four[i] = three[i]
        /\ \A i \in 1 .. Len(tail) : four[Len(three) + i] = tail[i]
    BY <1>8, <1>12, PartsFacts
  <2> HIDE DEF four
  <2> QED BY <1>8, <1>12, <2>1
<1>14. es = four \o Pause(m)
  BY DEF two, three
<1> HIDE DEF four
<1>15. Size(m) = 3 + 3 * h + c /\ Len(four) = Size(m)
  <2>1. Size(m) = 3 + 3 * h + c
    BY DEF Size, h, c
  <2> QED BY <1>2, <1>6, <1>13, <2>1
<1>16. /\ es \in Seq(Reported) /\ Ordered(es) /\ Len(es) = Size(m) + Len(Pause(m))
       /\ \A i \in 1 .. Size(m) : es[i] = four[i]
       /\ \A i \in 1 .. Len(Pause(m)) : es[Size(m) + i] = Pause(m)[i]
  <2> HIDE DEF es
  <2> QED BY <1>9, <1>13, <1>14, <1>15, PartsFacts
<1> HIDE DEF es
<1>17. es[1] = line[1] /\ es[2] = line[2] /\ es[3] = line[3]
  BY <1>2, <1>6, <1>11, <1>12, <1>13, <1>15, <1>16
<1>18. ASSUME NEW i \in 1 .. h
       PROVE  /\ es[Place(m, i) + 1] = Event("field", m.headers[i][1])
              /\ es[Place(m, i) + 2] = Event("value", m.headers[i][2])
              /\ es[Place(m, i) + 3] = Event("complete", "")
  <2>1. CASE i <= p
    <3>1. Place(m, i) = 3 * i /\ i \in 1 .. p
      <4>1. Place(m, i) = 3 * i + (IF i <= p THEN 0 ELSE c)
        BY DEF Place, p, c
      <4> QED BY <1>6, <2>1, <4>1
    <3>2. ASSUME NEW d \in 1 .. 3
          PROVE  es[3 * i + d] = head[3 * i - (3 - d)]
      <4> DEFINE k == 3 * i - (3 - d)
      <4>1. k \in 1 .. 3 * p /\ 3 * i + d = 3 + k /\ 3 * i + d \in 1 .. 3 + 3 * p
            /\ 3 * i + d \in 1 .. 3 + 3 * p + c /\ 3 * i + d \in 1 .. Size(m)
        BY <1>2, <1>6, <1>15, <2>1
      <4> HIDE DEF k
      <4>2. es[3 * i + d] = two[3 * i + d]
        BY <1>12, <1>13, <1>16, <4>1
      <4>3. two[3 + k] = head[k]
        BY <1>11, <4>1
      <4> QED BY <4>1, <4>2, <4>3 DEF k
    <3>3. 3 * i - (3 - 1) = 3 * i - 2 /\ 3 * i - (3 - 2) = 3 * i - 1 /\ 3 * i - (3 - 3) = 3 * i
      BY <1>6
    <3>4. /\ es[3 * i + 1] = head[3 * i - 2] /\ es[3 * i + 2] = head[3 * i - 1]
          /\ es[3 * i + 3] = head[3 * i]
      BY <3>2, <3>3
    <3> QED BY <1>7, <3>1, <3>4
  <2>2. CASE i > p
    <3> DEFINE t == i - p
    <3>1. t \in 1 .. h - p /\ p + t = i
      BY <1>6, <2>2
    <3>2. Place(m, i) = 3 * i + c
      <4>1. Place(m, i) = 3 * i + (IF i <= p THEN 0 ELSE c)
        BY DEF Place, p, c
      <4> QED BY <1>6, <2>2, <4>1
    <3>3. 3 * i = 3 * p + 3 * t
      BY <1>6
    <3> HIDE DEF t
    <3>4. ASSUME NEW d \in 1 .. 3
          PROVE  es[(3 * i + c) + d] = tail[3 * t - (3 - d)]
      <4> DEFINE k == 3 * t - (3 - d)
      <4>0. d = 1 \/ d = 2 \/ d = 3
        OBVIOUS
      <4>4. t \in Int /\ i \in Int /\ p \in Int /\ h \in Int /\ c \in Nat /\ p >= 0
            /\ 1 <= t /\ t <= h - p /\ p + t = i /\ i <= h /\ 1 <= i
        BY <1>2, <1>6, <3>1
      <4>5. k \in 1 .. 3 * (h - p)
        <5>1. h - p \in Int
          BY <4>4
        <5> QED BY <4>4, <5>1, PlaceInHeaders
      <4>6. (3 * i + c) + d = 3 + 3 * p + c + k
        BY <3>3, <4>0, <4>4
      <4>7. (3 * i + c) + d \in 1 .. Size(m)
        BY <1>2, <1>15, <4>0, <4>4
      <4>1. k \in 1 .. 3 * (h - p) /\ (3 * i + c) + d = 3 + 3 * p + c + k
            /\ (3 * i + c) + d \in 1 .. Size(m)
        BY <4>5, <4>6, <4>7
      <4> HIDE DEF k
      <4>2. es[(3 * i + c) + d] = four[(3 * i + c) + d]
        BY <1>16, <4>1
      <4>3. four[3 + 3 * p + c + k] = tail[k]
        BY <1>13, <4>1
      <4> QED BY <4>1, <4>2, <4>3 DEF k
    <3>5. 3 * t - (3 - 1) = 3 * t - 2 /\ 3 * t - (3 - 2) = 3 * t - 1 /\ 3 * t - (3 - 3) = 3 * t
      BY <1>6, <3>1
    <3>6. /\ es[(3 * i + c) + 1] = tail[3 * t - 2] /\ es[(3 * i + c) + 2] = tail[3 * t - 1]
          /\ es[(3 * i + c) + 3] = tail[3 * t]
      BY <3>4, <3>5
    <3> QED BY <1>8, <3>1, <3>2, <3>6
  <2>3. i <= p \/ i > p
    BY <1>6
  <2> QED BY <2>1, <2>2, <2>3, Zenon
<1>19. ASSUME NEW i \in 1 .. c
       PROVE  es[3 + 3 * p + i] = body[i]
  <2>1. 3 + 3 * p + i \in 1 .. 3 + 3 * p + c /\ 3 + 3 * p + i \in 1 .. Size(m)
    BY <1>2, <1>6, <1>15
  <2> QED BY <1>12, <1>13, <1>16, <2>1
<1>20. /\ m.connection # "upgrade" => Len(es) = Size(m)
       /\ m.connection = "upgrade" =>
            /\ Len(es) = Size(m) + 1 /\ es[Size(m) + 1].kind = "error"
            /\ ~m.chunked => es[Size(m) + 1] = PauseAtOnce
  <2>1. Size(m) \in Nat
    BY <1>2, <1>6, <1>15
  <2>2. ASSUME m.connection = "upgrade"
        PROVE  es[Size(m) + 1] = Pause(m)[1]
    <3>1. 1 \in 1 .. Len(Pause(m))
      BY <1>9, <2>2
    <3> QED BY <1>16, <3>1
  <2> QED BY <1>9, <1>16, <2>1, <2>2
<1> QED BY <1>2, <1>4, <1>5, <1>6, <1>10, <1>15, <1>16, <1>17, <1>18, <1>19, <1>20 DEF h, c, p

\* Where the events of each kind are among those of a message.
LEMMA MessageKinds ==
    ASSUME NEW m \in Messages, NEW k \in 1 .. Len(EventsOf(m))
    PROVE  LET kind == EventsOf(m)[k].kind
           IN  /\ kind = "error" => m.connection = "upgrade" /\ k = Size(m) + 1
               /\ kind = "method" => k = 1
               /\ kind = "url" => k = 2
               /\ kind = "version" => k = 3
               /\ kind = "complete" => \E i \in 1 .. Len(m.headers) : k = Place(m, i) + 3
               /\ kind = "body" => \E i \in 1 .. Len(m.chunks) : k = 3 + 3 * m.lead + i
<1> DEFINE es == EventsOf(m)
           h == Len(m.headers)
           c == Len(m.chunks)
           p == m.lead
           n == Len(es)
<1> HIDE DEF es, h, c, p, n
<1>1. /\ h \in Nat /\ c \in Nat /\ p \in Nat /\ p <= h /\ Size(m) = 3 + 3 * h + c
      /\ m.connection # "upgrade" => n = Size(m)
      /\ m.connection = "upgrade" => n = Size(m) + 1 /\ es[Size(m) + 1].kind = "error"
      /\ es[1] = Event("method", m.method) /\ es[2] = Event("url", m.path)
      /\ es[3] = Event("version", m.version)
      /\ \A i \in 1 .. h :
            /\ es[Place(m, i) + 1] = Event("field", m.headers[i][1])
            /\ es[Place(m, i) + 2] = Event("value", m.headers[i][2])
            /\ es[Place(m, i) + 3] = Event("complete", "")
      /\ \A i \in 1 .. c : es[3 + 3 * p + i] = Event("body", m.chunks[i])
  BY MessageFacts DEF es, h, c, p, n
<1>2. /\ es[1].kind = "method" /\ es[2].kind = "url" /\ es[3].kind = "version"
      /\ \A i \in 1 .. h : /\ es[Place(m, i) + 1].kind = "field"
                           /\ es[Place(m, i) + 2].kind = "value"
                           /\ es[Place(m, i) + 3].kind = "complete"
      /\ \A i \in 1 .. c : es[3 + 3 * p + i].kind = "body"
  <2>1. /\ es[1].kind = Event("method", m.method).kind
        /\ es[2].kind = Event("url", m.path).kind
        /\ es[3].kind = Event("version", m.version).kind
    BY <1>1
  <2>2. \A i \in 1 .. h :
            /\ es[Place(m, i) + 1].kind = Event("field", m.headers[i][1]).kind
            /\ es[Place(m, i) + 2].kind = Event("value", m.headers[i][2]).kind
            /\ es[Place(m, i) + 3].kind = Event("complete", "").kind
    BY <1>1
  <2>3. \A i \in 1 .. c : es[3 + 3 * p + i].kind = Event("body", m.chunks[i]).kind
    BY <1>1
  <2> QED BY <2>1, <2>2, <2>3 DEF Event
<1>3. /\ h \in Nat /\ c \in Nat /\ p \in Nat /\ p <= h
      /\ k \in 1 .. n /\ n \in Nat /\ n <= 3 + 3 * h + c + 1
      /\ k > 3 + 3 * h + c => m.connection = "upgrade" /\ k = Size(m) + 1
  <2>1. k \in 1 .. n
    BY DEF es, n
  <2>2. n = Size(m) \/ (m.connection = "upgrade" /\ n = Size(m) + 1)
    BY <1>1
  <2>3. Size(m) = 3 + 3 * h + c /\ h \in Nat /\ c \in Nat /\ p \in Nat /\ p <= h
    BY <1>1
  <2> QED BY <2>1, <2>2, <2>3
<1>4. \A i \in 1 .. h : Place(m, i) = IF i <= p THEN 3 * i ELSE 3 * i + c
  <2> SUFFICES ASSUME NEW i \in 1 .. h
               PROVE  Place(m, i) = IF i <= p THEN 3 * i ELSE 3 * i + c
    OBVIOUS
  <2> DEFINE place == Place(m, i)
  <2>1. place = 3 * i + (IF i <= p THEN 0 ELSE c)
    BY DEF Place, p, c
  <2>2. h \in Nat /\ c \in Nat /\ p \in Nat
    BY <1>1
  <2>3. i \in Nat
    BY <2>2
  <2> HIDE DEF place
  <2>4. place = IF i <= p THEN 3 * i ELSE 3 * i + c
    BY <2>1, <2>2, <2>3
  <2> QED BY <2>4 DEF place
<1>5. \/ k = 1 \/ k = 2 \/ k = 3
      \/ \E i \in 1 .. h : k = Place(m, i) + 1 \/ k = Place(m, i) + 2 \/ k = Place(m, i) + 3
      \/ \E i \in 1 .. c : k = 3 + 3 * p + i
      \/ m.connection = "upgrade" /\ k = Size(m) + 1
  <2>1. CASE k <= 3
    BY <1>3, <2>1
  <2>2. CASE k > 3 /\ k <= 3 + 3 * p
    <3> DEFINE i == (k - 1) \div 3
    <3>1. i \in 1 .. h /\ i <= p /\ (k = 3 * i + 1 \/ k = 3 * i + 2 \/ k = 3 * i + 3)
      BY <1>3, <2>2
    <3> HIDE DEF i
    <3> QED BY <1>4, <3>1
  <2>3. CASE k > 3 + 3 * p /\ k <= 3 + 3 * p + c
    <3> DEFINE i == k - (3 + 3 * p)
    <3>1. i \in 1 .. c /\ k = 3 + 3 * p + i
      BY <1>3, <2>3
    <3> HIDE DEF i
    <3> QED BY <3>1
  <2>4. CASE k > 3 + 3 * p + c /\ k <= 3 + 3 * h + c
    <3> DEFINE i == (k - c - 1) \div 3
    <3>1. /\ i \in 1 .. h /\ i > p
          /\ k = 3 * i + c + 1 \/ k = 3 * i + c + 2 \/ k = 3 * i + c + 3
      BY <1>3, <2>4
    <3> HIDE DEF i
    <3>2. Place(m, i) = 3 * i + c
      BY <1>3, <1>4, <3>1
    <3> QED BY <3>1, <3>2
  <2>5. CASE k > 3 + 3 * h + c
    BY <1>3, <2>5
  <2> QED BY <1>3, <2>1, <2>2, <2>3, <2>4, <2>5
<1> QED BY <1>1, <1>2, <1>5 DEF es, h, c, p

\* What is reported of text that is no HTTP, at the end of what came before.
LEMMA ErrorFacts ==
    LET error == <<Event("error", "")>>
    IN  /\ error \in Seq(Reported) /\ Ordered(error)
        /\ \A front \in Seq(Reported) :
                \E i \in 1 .. Len(front \o error) : (front \o error)[i].kind = "error"
<1> DEFINE e == Event("error", "")
           error == <<e>>
<1>1. e \in Reported /\ e.kind = "error"
  BY DEF Event, Reported, Kinds, Arguments
<1> HIDE DEF e
<1>2. error \in Seq(Reported) /\ Len(error) = 1 /\ error[1] = e
  BY <1>1
<1> HIDE DEF error
<1>3. \A i \in 1 .. 1 : error[i].kind = "error"
  BY <1>1, <1>2
<1>4. Ordered(error)
  BY <1>2, <1>3 DEF Ordered
<1>5. ASSUME NEW front \in Seq(Reported)
      PROVE  \E i \in 1 .. Len(front \o error) : (front \o error)[i].kind = "error"
  <2> DEFINE all == front \o error
             b == Len(front)
  <2>1. b \in Nat /\ Len(all) = b + 1
        /\ \A i \in 1 .. b + 1 : all[i] = IF i <= b THEN front[i] ELSE error[i - b]
    <3>1. /\ Len(all) = Len(front) + Len(error)
          /\ \A i \in 1 .. Len(front) + Len(error) :
                all[i] = IF i <= Len(front) THEN front[i] ELSE error[i - Len(front)]
      BY <1>2, ConcatProperties
    <3>2. Len(front) \in Nat
      BY LenProperties
    <3> HIDE DEF all
    <3> QED BY <1>2, <3>1, <3>2
  <2> HIDE DEF all, b
  <2>2. b + 1 \in 1 .. b + 1 /\ ~(b + 1 <= b) /\ (b + 1) - b = 1
    BY <2>1
  <2>3. all[b + 1] = e
    BY <1>2, <2>1, <2>2
  <2> QED BY <1>1, <2>1, <2>2, <2>3 DEF all
<1> QED BY <1>2, <1>4, <1>5 DEF error, e

\* The events of a buffer: those of its messages, or of an error where one before
\* the last closes the connection.
LEMMA BufferFacts ==
    ASSUME NEW ms \in Seq(Messages), ms # <<>>
    PROVE  /\ AllEvents(ms) \in Seq(Reported) /\ Ordered(AllEvents(ms))
           /\ Len(ms) = 1 => AllEvents(ms) = EventsOf(ms[1])
           /\ \E front \in Seq(Reported) :
                \/ AllEvents(ms) = front \o <<Event("error", "")>>
                \/ AllEvents(ms) = front \o EventsOf(ms[Len(ms)])
<1> DEFINE closed(i) == i > 1 /\ ms[i - 1].connection = "close"
           f == [i \in DOMAIN ms |->
                    IF closed(i) THEN <<Event("error", "")>> ELSE EventsOf(ms[i])]
           n == Len(ms)
           error == <<Event("error", "")>>
<1>1. n \in Nat /\ n > 0 /\ DOMAIN ms = 1 .. n /\ \A i \in 1 .. n : ms[i] \in Messages
  BY EmptySeq, ElementOfSeq
<1>2. error \in Seq(Reported) /\ Ordered(error)
  BY ErrorFacts
<1>3. \A i \in 1 .. n : f[i] \in {error, EventsOf(ms[i])}
  BY <1>1
<1>4. f[1] = EventsOf(ms[1])
  <2>1. ~closed(1) /\ 1 \in DOMAIN ms
    BY <1>1
  <2> HIDE DEF closed
  <2> QED BY <2>1
<1> HIDE DEF error, closed
<1>5. \A i \in 1 .. n : f[i] \in Seq(Reported) /\ Ordered(f[i])
  <2> HIDE DEF f, n
  <2> QED BY <1>1, <1>2, <1>3, MessageFacts
<1>6. f \in Seq(Seq(Reported)) /\ Len(f) = n
  <2>1. f \in [1 .. n -> Seq(Reported)]
    BY <1>1, <1>5
  <2> HIDE DEF f, n
  <2> QED BY <1>1, <2>1
<1>7. AllEvents(ms) = Concat(f)
  BY DEF AllEvents, closed
<1> HIDE DEF f, n
<1>8. AllEvents(ms) \in Seq(Reported) /\ Ordered(AllEvents(ms))
  BY <1>5, <1>6, <1>7, OrderedJoin
<1> DEFINE front == Joined(f)[n - 1]
<1>9. AllEvents(ms) = front \o f[n] /\ front \in Seq(Reported) /\ (n = 1 => front = <<>>)
  <2>1. n \in 1 .. n /\ n - 1 \in 0 .. n /\ (n = 1 => n - 1 = 0)
    BY <1>1
  <2>2. /\ Joined(f)[0] = <<>> /\ Joined(f)[n] = Joined(f)[n - 1] \o f[n]
        /\ Joined(f)[n - 1] \in Seq(Reported)
    BY <1>6, <2>1, JoinedFacts
  <2> QED BY <1>6, <1>7, <2>1, <2>2, ConcatIsJoined
<1> HIDE DEF front
<1>10. n = 1 => AllEvents(ms) = EventsOf(ms[1])
  <2> SUFFICES ASSUME n = 1 PROVE AllEvents(ms) = EventsOf(ms[1])
    OBVIOUS
  <2>1. AllEvents(ms) = <<>> \o f[1]
    BY <1>9
  <2>2. <<>> \o f[1] = f[1]
    BY <1>1, <1>5, ConcatEmptySeq
  <2> QED BY <1>4, <2>1, <2>2
<1>11. AllEvents(ms) = front \o error \/ AllEvents(ms) = front \o EventsOf(ms[n])
  <2>1. f[n] = error \/ f[n] = EventsOf(ms[n])
    BY <1>1, <1>3
  <2> QED BY <1>9, <2>1
<1> QED BY <1>8, <1>9, <1>10, <1>11 DEF n, error

\* The line of the last message is the last line, if the buffer has no error.
LEMMA LastLine ==
    ASSUME NEW ms \in Seq(Messages), ms # <<>>,
           \A i \in 1 .. Len(AllEvents(ms)) : AllEvents(ms)[i].kind # "error"
    PROVE  LET all == AllEvents(ms)
               m == ms[Len(ms)]
           IN  \E b \in Nat :
                /\ b + 3 <= Len(all)
                /\ all[b + 1] = Event("method", m.method)
                /\ all[b + 2] = Event("url", m.path)
                /\ all[b + 3] = Event("version", m.version)
                /\ \A i \in b + 1 .. Len(all) :
                    /\ all[i].kind = "method" => i = b + 1
                    /\ all[i].kind = "url" => i = b + 2
                    /\ all[i].kind = "version" => i = b + 3
<1> DEFINE all == AllEvents(ms)
           m == ms[Len(ms)]
           es == EventsOf(m)
<1>1. PICK front \in Seq(Reported) :
            all = front \o <<Event("error", "")>> \/ all = front \o es
  BY BufferFacts
<1>2. m \in Messages
  <2>1. Len(ms) \in 1 .. Len(ms)
    BY EmptySeq
  <2> QED BY <2>1, ElementOfSeq
<1> HIDE DEF all, m
<1>3. all = front \o es
  <2> SUFFICES ASSUME all = front \o <<Event("error", "")>> PROVE FALSE
    BY <1>1
  <2>1. \E i \in 1 .. Len(all) : all[i].kind = "error"
    BY ErrorFacts
  <2> QED BY <2>1 DEF all
<1> DEFINE b == Len(front)
           n == Len(es)
<1>4. /\ es \in Seq(Reported) /\ n \in Nat /\ n >= 3
      /\ es[1] = Event("method", m.method) /\ es[2] = Event("url", m.path)
      /\ es[3] = Event("version", m.version)
      /\ \A k \in 1 .. n : /\ es[k].kind = "method" => k = 1
                           /\ es[k].kind = "url" => k = 2
                           /\ es[k].kind = "version" => k = 3
  <2>1. es \in Seq(Reported)
    BY <1>2, MessageFacts
  <2>2. n \in Nat /\ n >= 3
    <3> DEFINE h == Len(m.headers)
               c == Len(m.chunks)
    <3>1. h \in Nat /\ c \in Nat /\ Size(m) = 3 + 3 * h + c /\ n \in {Size(m), Size(m) + 1}
      BY <1>2, MessageFacts
    <3> HIDE DEF h, c, n, es
    <3> QED BY <3>1
  <2>3. /\ es[1] = Event("method", m.method) /\ es[2] = Event("url", m.path)
        /\ es[3] = Event("version", m.version)
    BY <1>2, MessageFacts
  <2>4. \A k \in 1 .. n : /\ es[k].kind = "method" => k = 1
                          /\ es[k].kind = "url" => k = 2
                          /\ es[k].kind = "version" => k = 3
    BY <1>2, MessageKinds
  <2> QED BY <2>1, <2>2, <2>3, <2>4
<1> HIDE DEF es
<1>5. /\ b \in Nat /\ Len(all) = b + n
      /\ \A i \in 1 .. b + n : all[i] = IF i <= b THEN front[i] ELSE es[i - b]
  BY <1>3, <1>4, ConcatProperties, LenProperties
<1> HIDE DEF b, n
<1>6. \A i \in b + 1 .. Len(all) : i - b \in 1 .. n /\ all[i] = es[i - b]
  <2>1. \A i \in b + 1 .. b + n : i - b \in 1 .. n /\ i \in 1 .. b + n /\ ~(i <= b)
    BY <1>4, <1>5
  <2> QED BY <1>5, <2>1
<1>7. /\ b + 1 \in b + 1 .. Len(all) /\ b + 2 \in b + 1 .. Len(all) /\ b + 3 \in b + 1 .. Len(all)
      /\ (b + 1) - b = 1 /\ (b + 2) - b = 2 /\ (b + 3) - b = 3 /\ b + 3 <= Len(all)
      /\ \A i \in b + 1 .. Len(all) : \A d \in 1 .. 3 : i - b = d => i = b + d
  BY <1>4, <1>5
<1>8. all[b + 1] = es[1] /\ all[b + 2] = es[2] /\ all[b + 3] = es[3]
  BY <1>6, <1>7
<1>9. \A i \in b + 1 .. Len(all) :
            /\ all[i].kind = "method" => i = b + 1
            /\ all[i].kind = "url" => i = b + 2
            /\ all[i].kind = "version" => i = b + 3
  <2> SUFFICES ASSUME NEW i \in b + 1 .. Len(all)
               PROVE  /\ all[i].kind = "method" => i = b + 1
                      /\ all[i].kind = "url" => i = b + 2
                      /\ all[i].kind = "version" => i = b + 3
    OBVIOUS
  <2> DEFINE k == i - b
  <2>1. k \in 1 .. n /\ all[i] = es[k]
    BY <1>6
  <2>2. (k = 1 => i = b + 1) /\ (k = 2 => i = b + 2) /\ (k = 3 => i = b + 3)
    BY <1>5
  <2> HIDE DEF k
  <2> QED BY <1>4, <2>1, <2>2
<1> QED BY <1>4, <1>5, <1>7, <1>8, <1>9 DEF all, m

\* A token that is cut has the kind of the whole one, and ends no header; of a piece
\* of a body it is a shorter piece.
LEMMA PartialFacts ==
    ASSUME NEW a \in Reported, NEW e \in Partial(a)
    PROVE  /\ e.kind = a.kind /\ e.kind # "complete"
           /\ a.kind = "body" =>
                /\ Len(a.arg) \in Nat /\ Len(e.arg) < Len(a.arg)
                /\ \E n \in 1 .. Len(a.arg) : e.arg = SubSeq(a.arg, 1, n)
<1>1. CASE a.kind = "body"
  <2> DEFINE body == a.arg
  <2>1. PICK k \in 1 .. Len(body) - 1 : e = Event("body", SubSeq(body, 1, k))
    BY <1>1 DEF Partial
  <2>2. e.kind = "body" /\ e.arg = SubSeq(body, 1, k)
    BY <2>1 DEF Event
  <2>3. body \in Seq(STRING)
    BY <1>1 DEF Reported
  <2> HIDE DEF body
  <2>4. Len(body) \in Nat
    BY <2>3, LenProperties
  <2>5. k \in Nat /\ k >= 1 /\ k < Len(body)
    BY <2>4
  <2>6. \A j \in 1 .. k : body[j] \in STRING
    <3>1. \A j \in 1 .. k : j \in 1 .. Len(body)
      BY <2>4, <2>5
    <3> QED BY <2>3, <3>1, ElementOfSeq
  <2>7. Len(SubSeq(body, 1, k)) = IF 1 <= k THEN k - 1 + 1 ELSE 0
    BY <2>3, <2>5, <2>6, SubSeqProperties
  <2>8. (IF 1 <= k THEN k - 1 + 1 ELSE 0) = k /\ k \in 1 .. Len(body)
    BY <2>4, <2>5
  <2>9. Len(e.arg) < Len(body) /\ \E n \in 1 .. Len(body) : e.arg = SubSeq(body, 1, n)
    BY <2>2, <2>5, <2>7, <2>8
  <2>10. e.kind = a.kind /\ e.kind # "complete"
    BY <1>1, <2>2
  <2> QED BY <2>4, <2>9, <2>10 DEF body
<1>2. CASE a.kind # "body"
  <2>1. a.kind \in {"method", "url", "version", "field", "value"} /\ e = Event(a.kind, "part")
    BY <1>2 DEF Partial
  <2>2. e.kind = a.kind
    BY <2>1 DEF Event
  <2> QED BY <1>2, <2>1, <2>2
<1> QED BY <1>1, <1>2

\* The events es are those of a text in kind, and no errors; only the last can be of
\* a cut token.  If none is, they do not end where the text pauses at once, and are
\* all of it if they reach its end.
Begins(es, all) ==
    /\ Len(es) \in Nat /\ Len(es) <= Len(all)
    /\ \A i \in 1 .. Len(es) :
        /\ es[i].kind = all[i].kind
        /\ es[i] = all[i] \/ es[i] \in Partial(all[i])
        /\ es[i].kind = "complete" \/ i < Len(es) => es[i] = all[i]
        /\ es[i].kind # "error"
    /\ (\A i \in 1 .. Len(es) : es[i] = all[i]) => ~PausesAt(all, Len(es))
    /\ Len(es) = Len(all) /\ (Len(all) > 0 => es[Len(all)] = all[Len(all)]) => es = all

\* So are the events of a cut buffer, unless there is an error.
LEMMA CutWithoutError ==
    ASSUME NEW all \in Seq(Reported), Ordered(all), NEW n \in 0 .. Len(all),
           NEW es \in CutAfter(all, n), \A i \in 1 .. Len(es) : es[i].kind # "error"
    PROVE  Begins(es, all)
<1>1. /\ es \in Seq(Reported) /\ Len(es) \in {n, n + 1}
      /\ \A i \in 1 .. n : es[i] = all[i]
      /\ Len(es) = n + 1 =>
            \/ es[n + 1].kind = "error"
            \/ n < Len(all) /\ es[n + 1] \in Partial(all[n + 1])
  BY CutFacts
<1>2. n \in Nat /\ Len(all) \in Nat /\ n <= Len(all) /\ Len(es) \in Nat
  BY <1>1, LenProperties
<1>3. Len(es) = n + 1 => n < Len(all) /\ es[n + 1] \in Partial(all[n + 1])
  <2> SUFFICES ASSUME Len(es) = n + 1
               PROVE  es[n + 1].kind # "error"
    BY <1>1
  <2>1. n + 1 \in 1 .. Len(es)
    BY <1>2
  <2> QED BY <2>1
<1>4. Len(es) <= Len(all)
  BY <1>1, <1>2, <1>3
<1>5. ASSUME NEW i \in 1 .. Len(es)
      PROVE  /\ es[i].kind = all[i].kind
             /\ es[i] = all[i] \/ es[i] \in Partial(all[i])
             /\ es[i].kind = "complete" \/ i < Len(es) => es[i] = all[i]
  <2>1. CASE i \in 1 .. n
    BY <1>1, <2>1
  <2>2. CASE i = n + 1 /\ Len(es) = n + 1
    <3>1. es[i] \in Partial(all[i])
      BY <1>3, <2>2
    <3>2. es[i].kind = all[i].kind /\ es[i].kind # "complete" /\ ~(i < Len(es))
      <4>1. all[i] \in Reported
        BY <1>2, <1>3, <2>2
      <4> QED BY <1>2, <2>2, <3>1, <4>1, PartialFacts
    <3> QED BY <3>1, <3>2
  <2>3. i \in 1 .. n \/ (i = n + 1 /\ Len(es) = n + 1)
    BY <1>1, <1>2
  <2> QED BY <2>1, <2>2, <2>3
<1>6. ASSUME Len(es) = Len(all), Len(all) > 0 => es[Len(all)] = all[Len(all)]
      PROVE  es = all
  <2>1. ASSUME NEW i \in 1 .. Len(es) PROVE es[i] = all[i]
    <3>1. i < Len(es) \/ (i = Len(all) /\ Len(all) > 0)
      BY <1>2, <1>6
    <3> QED BY <1>5, <1>6, <3>1
  <2> QED BY <1>1, <1>6, <2>1, SeqEqual
<1>7. ASSUME \A i \in 1 .. Len(es) : es[i] = all[i], PausesAt(all, Len(es))
      PROVE  FALSE
  <2>1. CASE Len(es) = n + 1
    <3>1. n + 1 \in 1 .. Len(es) /\ n + 1 \in 1 .. Len(all)
      BY <1>2, <1>3, <2>1
    <3>2. es[n + 1] = all[n + 1] /\ all[n + 1].kind = "body" /\ all[n + 1] \in Reported
      BY <1>7, <2>1, <3>1 DEF PausesAt
    <3>3. Len(es[n + 1].arg) < Len(all[n + 1].arg) /\ Len(all[n + 1].arg) \in Nat
      BY <1>3, <2>1, <3>2, PartialFacts
    <3> QED BY <3>2, <3>3
  <2>2. CASE Len(es) = n
    <3>1. PausesAt(all, n)
      BY <1>7, <2>2
    <3> DEFINE whole == SubSeq(all, 1, n)
    <3>2. \E e : es = Append(whole, e)
      BY <3>1 DEF CutAfter
    <3>3. whole \in Seq(Reported) /\ Len(whole) = n
      <4>1. /\ SubSeq(all, 1, n) \in Seq(Reported)
            /\ Len(SubSeq(all, 1, n)) = IF 1 <= n THEN n - 1 + 1 ELSE 0
        BY <1>2, SubSeqProperties
      <4>2. (IF 1 <= n THEN n - 1 + 1 ELSE 0) = n
        BY <1>2
      <4> QED BY <4>1, <4>2
    <3> HIDE DEF whole
    <3>4. \A e : Len(Append(whole, e)) = n + 1
      BY <3>3
    <3> QED BY <1>2, <2>2, <3>2, <3>4
  <2> QED BY <1>1, <2>1, <2>2
<1> QED BY <1>2, <1>4, <1>5, <1>6, <1>7 DEF Begins

\* What is left of the events after the first k.
LEMMA SuffixFacts ==
    ASSUME NEW S, NEW es \in Seq(S), NEW k \in 0 .. Len(es)
    PROVE  LET rest == SubSeq(es, k + 1, Len(es))
           IN  /\ rest \in Seq(S) /\ (rest = <<>> <=> k = Len(es))
               /\ rest # <<>> => /\ k + 1 \in 1 .. Len(es) /\ Head(rest) = es[k + 1]
                                 /\ Tail(rest) = SubSeq(es, (k + 1) + 1, Len(es))
<1> DEFINE n == Len(es)
           rest == SubSeq(es, k + 1, n)
<1>1. n \in Nat /\ k \in Nat /\ k <= n /\ \A i \in k + 1 .. n : es[i] \in S
  BY LenProperties
<1>2. rest \in Seq(S) /\ Len(rest) = IF k + 1 <= n THEN n - (k + 1) + 1 ELSE 0
  <2>1. k + 1 \in Int /\ n \in Int
    BY <1>1
  <2> HIDE DEF n
  <2> QED BY <1>1, <2>1, SubSeqProperties
<1>3. k = n => rest = <<>>
  <2> SUFFICES ASSUME k = n PROVE rest = <<>>
    OBVIOUS
  <2>1. k + 1 \in Int /\ n \in Int /\ n < k + 1
    BY <1>1
  <2> HIDE DEF n
  <2> QED BY <2>1, SubSeqEmpty
<1>4. k # n => /\ rest # <<>> /\ k + 1 \in 1 .. n /\ Head(rest) = es[k + 1]
               /\ Tail(rest) = SubSeq(es, (k + 1) + 1, n)
  <2> SUFFICES ASSUME k # n
               PROVE  /\ rest # <<>> /\ k + 1 \in 1 .. n /\ Head(rest) = es[k + 1]
                      /\ Tail(rest) = SubSeq(es, (k + 1) + 1, n)
    OBVIOUS
  <2>1. k + 1 \in 1 .. n /\ n \in k + 1 .. n /\ n - (k + 1) + 1 > 0
    BY <1>1
  <2>2. Head(rest) = es[k + 1] /\ Tail(rest) = SubSeq(es, (k + 1) + 1, n)
    BY <2>1, HeadTailOfSubSeq
  <2>3. Len(rest) > 0
    <3> HIDE DEF n, rest
    <3> QED BY <1>1, <1>2, <2>1
  <2>4. rest # <<>>
    <3> HIDE DEF rest
    <3> QED BY <2>3, EmptySeq
  <2> QED BY <2>1, <2>2, <2>4
<1> QED BY <1>2, <1>3, <1>4

-----------------------------------------------------------------------------
(* The callbacks *)

\* The fields of the parser's state.
LEMMA FieldsFacts ==
    /\ DOMAIN Fresh = {"request", "field", "value"}
    /\ DOMAIN NoRequest = {"method", "path", "version", "headers", "body"}
BY DEF Fresh, NoRequest

\* A callback that assigns a part of the request leaves the others.
LEMMA AssignFacts ==
    ASSUME TypeOK, NEW part \in {"method", "path", "version", "body"}, NEW x, Assign(part, x)
    PROVE  LET r == state.request
               s == state'.request
           IN  /\ DOMAIN state' = DOMAIN Fresh /\ DOMAIN s = DOMAIN NoRequest
               /\ s.method = IF part = "method" THEN x ELSE r.method
               /\ s.path = IF part = "path" THEN x ELSE r.path
               /\ s.version = IF part = "version" THEN x ELSE r.version
               /\ s.body = IF part = "body" THEN x ELSE r.body
               /\ s.headers = r.headers
               /\ state'.field = state.field /\ state'.value = state.value
<1> DEFINE r == state.request
           s == [r EXCEPT ![part] = x]
<1>1. DOMAIN state = {"request", "field", "value"}
      /\ DOMAIN r = {"method", "path", "version", "headers", "body"}
  BY FieldsFacts DEF TypeOK
<1>2. state' = [state EXCEPT !.request = s]
  BY DEF Assign
<1> HIDE DEF r
<1>3. /\ DOMAIN s = DOMAIN r
      /\ s.method = IF part = "method" THEN x ELSE r.method
      /\ s.path = IF part = "path" THEN x ELSE r.path
      /\ s.version = IF part = "version" THEN x ELSE r.version
      /\ s.body = IF part = "body" THEN x ELSE r.body
      /\ s.headers = r.headers
  BY <1>1
<1> HIDE DEF s
<1>4. /\ DOMAIN state' = DOMAIN state /\ state'.request = s
      /\ state'.field = state.field /\ state'.value = state.value
  BY <1>1, <1>2
<1> QED BY <1>1, <1>3, <1>4, FieldsFacts DEF r

\* One more event: the last of its kind is that event, the others are what they were.
LEMMA LatestStep ==
    ASSUME NEW x, NEW y, NEW first, NEW kind, NEW es, NEW k \in Nat,
           IsLatest(x, first, kind, es, k),
           y = IF es[k + 1].kind = kind THEN Told(es[k + 1]) ELSE x
    PROVE  IsLatest(y, first, kind, es, k + 1)
<1>0. k + 1 \in 1 .. k + 1 /\ (\A i \in 1 .. k : i \in 1 .. k + 1)
      /\ (\A i \in 1 .. k + 1 : i \in 1 .. k \/ i = k + 1)
  OBVIOUS
<1>1. CASE es[k + 1].kind = kind
  <2>1. \A j \in (k + 1) + 1 .. k + 1 : FALSE
    OBVIOUS
  <2>2. y = Told(es[k + 1])
    BY <1>1
  <2> QED BY <1>0, <1>1, <2>1, <2>2 DEF IsLatest
<1>2. CASE es[k + 1].kind # kind
  <2>1. y = x
    BY <1>2
  <2>2. CASE x = first /\ \A i \in 1 .. k : es[i].kind # kind
    BY <1>0, <1>2, <2>1, <2>2 DEF IsLatest
  <2>3. CASE \E i \in 1 .. k : /\ es[i].kind = kind /\ x = Told(es[i])
                               /\ \A j \in i + 1 .. k : es[j].kind # kind
    <3>1. PICK i \in 1 .. k : /\ es[i].kind = kind /\ x = Told(es[i])
                              /\ \A j \in i + 1 .. k : es[j].kind # kind
      BY <2>3
    <3>2. \A j \in i + 1 .. k + 1 : j \in i + 1 .. k \/ j = k + 1
      OBVIOUS
    <3>3. \A j \in i + 1 .. k + 1 : es[j].kind # kind
      BY <1>2, <3>1, <3>2
    <3> QED BY <1>0, <2>1, <3>1, <3>3 DEF IsLatest
  <2> QED BY <2>2, <2>3 DEF IsLatest
<1> QED BY <1>1, <1>2

\* The line and the body after one more event.
LEMMA LineStep ==
    ASSUME NEW es, NEW k \in Nat, LineIsRead(es, k),
           LET r == state.request
               s == state'.request
               e == es[k + 1]
           IN  /\ s.method = IF e.kind = "method" THEN Told(e) ELSE r.method
               /\ s.path = IF e.kind = "url" THEN Told(e) ELSE r.path
               /\ s.version = IF e.kind = "version" THEN Told(e) ELSE r.version
               /\ s.body = IF e.kind = "body" THEN Told(e) ELSE r.body
    PROVE  LineIsRead(es, k + 1)'
<1> DEFINE r == state.request
           s == state'.request
           e == es[k + 1]
<1>1. /\ IsLatest(r.method, "UNKNOWN", "method", es, k) /\ IsLatest(r.path, "", "url", es, k)
      /\ IsLatest(r.version, "", "version", es, k) /\ IsLatest(r.body, <<>>, "body", es, k)
  BY DEF LineIsRead
<1>2. /\ s.method = IF e.kind = "method" THEN Told(e) ELSE r.method
      /\ s.path = IF e.kind = "url" THEN Told(e) ELSE r.path
      /\ s.version = IF e.kind = "version" THEN Told(e) ELSE r.version
      /\ s.body = IF e.kind = "body" THEN Told(e) ELSE r.body
  OBVIOUS
<1> HIDE DEF r, s
<1>3. IsLatest(s.method, "UNKNOWN", "method", es, k + 1)
  BY <1>1, <1>2, LatestStep
<1>4. IsLatest(s.path, "", "url", es, k + 1)
  BY <1>1, <1>2, LatestStep
<1>5. IsLatest(s.version, "", "version", es, k + 1)
  BY <1>1, <1>2, LatestStep
<1>6. IsLatest(s.body, <<>>, "body", es, k + 1)
  BY <1>1, <1>2, LatestStep
<1> QED BY <1>3, <1>4, <1>5, <1>6 DEF LineIsRead, IsLatest, s

\* The headers after one more event.
LEMMA HeadersStep ==
    ASSUME NEW S, NEW es \in Seq(S), NEW k \in Nat, k + 1 \in 1 .. Len(es), Ordered(es),
           HeadersAreRead(es, k),
           LET r == state.request
               s == state'.request
               e == es[k + 1]
           IN  /\ e.kind = "field" => state'.field = e.arg
               /\ e.kind = "value" => state'.value = e.arg /\ state'.field = state.field
               /\ s.headers = IF e.kind = "complete"
                                THEN Extend(r.headers, state.field, state.value) ELSE r.headers
    PROVE  HeadersAreRead(es, k + 1)'
<1> DEFINE h == state.request.headers
           g == state'.request.headers
           e == es[k + 1]
           name == es[k - 1].arg
           value == es[k].arg
<1>1. /\ e.kind = "field" => state'.field = e.arg
      /\ e.kind = "value" => state'.value = e.arg /\ state'.field = state.field
      /\ g = IF e.kind = "complete" THEN Extend(h, state.field, state.value) ELSE h
  OBVIOUS
<1>2. /\ k > 0 /\ es[k].kind = "field" => state.field = es[k].arg
      /\ k > 0 /\ es[k].kind = "value" => state.value = es[k].arg /\ state.field = es[k - 1].arg
      /\ \A f \in DOMAIN h : \E i \in 1 .. k :
            /\ Completes(es, i, f) /\ h[f] = es[i - 1].arg
            /\ \A j \in 1 .. i - 1 : ~Completes(es, j, f)
      /\ \A i \in 1 .. k : es[i].kind = "complete" => es[i - 2].arg \in DOMAIN h
  BY DEF HeadersAreRead
<1>3. /\ (k + 1) - 1 = k /\ (k + 1) - 2 = k - 1 /\ k + 1 \in 1 .. k + 1
      /\ \A i \in 1 .. k : i \in 1 .. k + 1
      /\ \A i \in 1 .. k + 1 : i \in 1 .. k \/ i = k + 1
  OBVIOUS
<1>4. /\ e.kind = "value" => k + 1 > 1 /\ es[(k + 1) - 1].kind = "field"
      /\ e.kind = "complete" => k + 1 > 2 /\ es[(k + 1) - 1].kind = "value"
  BY DEF Ordered
<1>5. /\ e.kind = "value" => k > 0 /\ es[k].kind = "field"
      /\ e.kind = "complete" => k > 0 /\ es[k].kind = "value"
  BY <1>3, <1>4
<1> HIDE DEF h, g, e
<1>6. e.kind = "field" => state'.field = e.arg
  BY <1>1
<1>7. e.kind = "value" => state'.value = e.arg /\ state'.field = es[k].arg
  BY <1>1, <1>2, <1>5
<1>8. /\ \A f \in DOMAIN g : \E i \in 1 .. k + 1 :
            /\ Completes(es, i, f) /\ g[f] = es[i - 1].arg
            /\ \A j \in 1 .. i - 1 : ~Completes(es, j, f)
      /\ \A i \in 1 .. k + 1 : es[i].kind = "complete" => es[i - 2].arg \in DOMAIN g
  <2>1. CASE e.kind # "complete"
    BY <1>1, <1>2, <1>3, <2>1 DEF e
  <2>2. CASE e.kind = "complete"
    <3>1. state.value = value /\ state.field = name /\ g = Extend(h, name, value)
      BY <1>1, <1>2, <1>5, <2>2
    <3> HIDE DEF name, value
    <3>2. /\ DOMAIN g = DOMAIN h \union {name}
          /\ \A f \in DOMAIN h : g[f] = h[f]
          /\ name \notin DOMAIN h => g[name] = value
      BY <3>1 DEF Extend
    <3>3. Completes(es, k + 1, name) /\ es[(k + 1) - 1].arg = value
      BY <1>3, <2>2 DEF Completes, e, name, value
    <3>4. ASSUME NEW f \in DOMAIN g
          PROVE  \E i \in 1 .. k + 1 :
                    /\ Completes(es, i, f) /\ g[f] = es[i - 1].arg
                    /\ \A j \in 1 .. i - 1 : ~Completes(es, j, f)
      <4>1. CASE f \in DOMAIN h
        BY <1>2, <1>3, <3>2, <4>1
      <4>2. CASE f \notin DOMAIN h
        <5>1. f = name /\ g[f] = value
          BY <3>2, <4>2
        <5>2. \A j \in 1 .. (k + 1) - 1 : ~Completes(es, j, f)
          BY <1>2, <1>3, <4>2 DEF Completes
        <5> QED BY <1>3, <3>3, <5>1, <5>2
      <4> QED BY <4>1, <4>2
    <3>5. ASSUME NEW i \in 1 .. k + 1, es[i].kind = "complete"
          PROVE  es[i - 2].arg \in DOMAIN g
      <4>1. CASE i \in 1 .. k
        BY <1>2, <3>2, <3>5, <4>1
      <4>2. CASE i = k + 1
        BY <3>2, <3>3, <4>2 DEF Completes
      <4> QED BY <1>3, <4>1, <4>2
    <3> QED BY <3>4, <3>5
  <2> QED BY <2>1, <2>2
<1> QED BY <1>3, <1>6, <1>7, <1>8 DEF HeadersAreRead, g, e, Completes

-----------------------------------------------------------------------------
(* The inductive invariant *)

\* While a buffer is read, what has been read of which events.
LEMMA ReadingFacts ==
    ASSUME TypeOK, BufferIsRead, outcome = "parsing"
    PROVE  LET all == AllEvents(buffer.messages)
           IN  /\ all \in Seq(Reported) /\ Ordered(all)
               /\ \E n \in 0 .. Len(all) : \E es \in CutAfter(all, n) :
                    /\ es \in Seq(Reported) /\ Ordered(es)
                    /\ buffer.whole <=> es = all
                    /\ \E k \in 0 .. Len(es) : HasRead(es, k)
<1> DEFINE all == AllEvents(buffer.messages)
<1>1. all \in Seq(Reported) /\ Ordered(all)
  <2>1. buffer.messages \in Seq(Messages) /\ buffer.messages # <<>>
    BY DEF TypeOK
  <2> QED BY <2>1, BufferFacts
<1>2. PICK n \in 0 .. Len(all) : \E es \in CutAfter(all, n) :
            /\ buffer.whole <=> es = all
            /\ \E k \in 0 .. Len(es) : HasRead(es, k)
  BY Zenon DEF BufferIsRead
<1> HIDE DEF all
<1>3. \A es \in CutAfter(all, n) : es \in Seq(Reported) /\ Ordered(es)
  BY <1>1, CutFacts
<1>4. \E es \in CutAfter(all, n) :
            /\ es \in Seq(Reported) /\ Ordered(es)
            /\ buffer.whole <=> es = all
            /\ \E k \in 0 .. Len(es) : HasRead(es, k)
  BY <1>2, <1>3, Zenon
<1> QED BY <1>1, <1>4, Zenon DEF all

\* What the parser is given is an event of a message.
LEMMA HeadFacts ==
    ASSUME TypeOK, BufferIsRead, outcome = "parsing", events # <<>>
    PROVE  Head(events) \in Reported
<1>1. PICK es \in Seq(Reported) : \E k \in 0 .. Len(es) : HasRead(es, k)
  BY ReadingFacts, Zenon
<1>2. PICK k \in 0 .. Len(es) : events = SubSeq(es, k + 1, Len(es))
  BY <1>1 DEF HasRead
<1>3. Head(events) = es[k + 1] /\ k + 1 \in 1 .. Len(es)
  BY <1>2, SuffixFacts
<1> QED BY <1>3, ElementOfSeq

\* What a callback does with an event, of any kind but an error.
Takes(e) ==
    LET r == state.request
        s == state'.request
    IN  /\ DOMAIN state' = DOMAIN Fresh /\ DOMAIN s = DOMAIN NoRequest
        /\ s.method = IF e.kind = "method" THEN Told(e) ELSE r.method
        /\ s.path = IF e.kind = "url" THEN Told(e) ELSE r.path
        /\ s.version = IF e.kind = "version" THEN Told(e) ELSE r.version
        /\ s.body = IF e.kind = "body" THEN Told(e) ELSE r.body
        /\ e.kind = "field" => state'.field = e.arg
        /\ e.kind = "value" => state'.value = e.arg /\ state'.field = state.field
        /\ s.headers = IF e.kind = "complete"
                         THEN Extend(r.headers, state.field, state.value) ELSE r.headers
        /\ e.kind = "complete" => state.field # "" /\ state.value # ""

\* A callback keeps the invariant.
LEMMA ReportIInv ==
    ASSUME IInv, NEW kind, kind # "error", Reports(kind), Takes(Head(events))
    PROVE  IInv'
<1> DEFINE e == Head(events)
           r == state.request
           s == state'.request
<1>1. /\ outcome = "parsing" /\ events # <<>> /\ e.kind = kind
      /\ events' = Tail(events) /\ machine' = "inside" /\ UNCHANGED <<buffer, outcome>>
  BY DEF Reports
<1>2. e \in Reported
  BY <1>1, HeadFacts DEF IInv
<1> HIDE DEF e
<1>3. TypeOK'
  <2>1. s.method \in {"GET", "POST", "UNKNOWN"}
    <3>1. r.method \in {"GET", "POST", "UNKNOWN"}
      BY DEF IInv, TypeOK
    <3>2. s.method = r.method \/ s.method = MethodOf(e.arg)
      BY DEF Takes, Told, e
    <3> QED BY <3>1, <3>2 DEF MethodOf
  <2>2. s.path \in Texts /\ s.version \in Texts
    <3>1. r.path \in Texts /\ r.version \in Texts
      BY DEF IInv, TypeOK
    <3>2. s.path = r.path \/ (e.kind = "url" /\ s.path = e.arg)
      BY DEF Takes, Told, e
    <3>3. s.version = r.version \/ (e.kind = "version" /\ s.version = e.arg)
      BY DEF Takes, Told, e
    <3> QED BY <1>2, <3>1, <3>2, <3>3 DEF Reported
  <2>3. \A f \in DOMAIN s.headers : f # "" /\ s.headers[f] # ""
    <3>1. \A f \in DOMAIN r.headers : f # "" /\ r.headers[f] # ""
      BY DEF IInv, TypeOK
    <3>2. \/ s.headers = r.headers
          \/ /\ s.headers = Extend(r.headers, state.field, state.value)
             /\ state.field # "" /\ state.value # ""
      BY DEF Takes, e
    <3> QED BY <3>1, <3>2 DEF Extend
  <2>4. DOMAIN state' = DOMAIN Fresh /\ DOMAIN s = DOMAIN NoRequest
    BY DEF Takes
  <2> HIDE DEF s
  <2>5. {s.path, s.version} \subseteq Texts
    BY <2>2
  <2>6. /\ outcome \in {"idle", "parsing", "returned", "threw"}
        /\ buffer.messages \in Seq(Messages) /\ buffer.messages # <<>>
    BY <1>1 DEF IInv, TypeOK
  <2> QED BY <1>1, <2>1, <2>3, <2>4, <2>5, <2>6 DEF TypeOK, s
<1>4. BufferIsRead'
  <2> DEFINE all == AllEvents(buffer.messages)
  <2>1. PICK n \in 0 .. Len(all) : \E es \in CutAfter(all, n) :
            /\ es \in Seq(Reported) /\ Ordered(es)
            /\ buffer.whole <=> es = all
            /\ \E k \in 0 .. Len(es) : HasRead(es, k)
    BY <1>1, ReadingFacts, Zenon DEF IInv
  <2>2. PICK es \in CutAfter(all, n) :
            /\ es \in Seq(Reported) /\ Ordered(es)
            /\ buffer.whole <=> es = all
            /\ \E k \in 0 .. Len(es) : HasRead(es, k)
    BY <2>1, Zenon
  <2>3. es \in Seq(Reported) /\ Ordered(es)
    BY <2>2, Zenon
  <2>4. PICK k \in 0 .. Len(es) : HasRead(es, k)
    BY <2>2, Zenon
  <2>5. /\ k \in Nat /\ k + 1 \in 1 .. Len(es) /\ k + 1 \in 0 .. Len(es) /\ k + 1 # 0
        /\ e = es[k + 1] /\ events' = SubSeq(es, (k + 1) + 1, Len(es))
    <3>1. events = SubSeq(es, k + 1, Len(es))
      BY <2>4 DEF HasRead
    <3>2. k + 1 \in 1 .. Len(es) /\ e = es[k + 1] /\ events' = SubSeq(es, (k + 1) + 1, Len(es))
      BY <1>1, <2>3, <3>1, SuffixFacts DEF e
    <3>3. k \in Nat /\ Len(es) \in Nat
      BY <2>3, LenProperties
    <3> QED BY <3>2, <3>3
  <2>6. LineIsRead(es, k + 1)'
    <3>1. LineIsRead(es, k)
      BY <2>4 DEF HasRead
    <3>2. /\ s.method = IF e.kind = "method" THEN Told(e) ELSE r.method
          /\ s.path = IF e.kind = "url" THEN Told(e) ELSE r.path
          /\ s.version = IF e.kind = "version" THEN Told(e) ELSE r.version
          /\ s.body = IF e.kind = "body" THEN Told(e) ELSE r.body
      BY DEF Takes, e
    <3> QED BY <2>5, <3>1, <3>2, LineStep
  <2>7. HeadersAreRead(es, k + 1)'
    <3>1. HeadersAreRead(es, k)
      BY <2>4 DEF HasRead
    <3>2. /\ e.kind = "field" => state'.field = e.arg
          /\ e.kind = "value" => state'.value = e.arg /\ state'.field = state.field
          /\ s.headers = IF e.kind = "complete"
                           THEN Extend(r.headers, state.field, state.value) ELSE r.headers
      BY DEF Takes, e
    <3> QED BY <2>3, <2>5, <3>1, <3>2, HeadersStep
  <2>8. \A i \in 1 .. k + 1 : es[i].kind # "error"
    <3>1. \A i \in 1 .. k : es[i].kind # "error"
      BY <2>4 DEF HasRead
    <3>2. \A i \in 1 .. k + 1 : i \in 1 .. k \/ i = k + 1
      BY <2>5
    <3> QED BY <1>1, <2>5, <3>1, <3>2
  <2>9. HasRead(es, k + 1)'
    BY <1>1, <2>5, <2>6, <2>7, <2>8 DEF HasRead
  <2>10. buffer' = buffer
    BY <1>1
  <2>11. \E j \in 0 .. Len(es) : HasRead(es, j)'
    BY <2>5, <2>9
  <2>12. buffer.whole <=> es = all
    BY <2>2, Zenon
  <2>13. all' = all /\ (buffer'.whole <=> es = all)
    BY <2>10, <2>12
  <2>14. \E m \in 0 .. Len(all) : \E ev \in CutAfter(all, m) :
            /\ buffer'.whole <=> ev = all
            /\ \E j \in 0 .. Len(ev) : HasRead(ev, j)'
    BY <2>11, <2>13, Zenon
  <2> QED BY <2>13, <2>14, Zenon DEF BufferIsRead
<1>5. LoneRequestIsItsMessage' /\ AcceptedPostIsWhole' /\ WellFormedIsAccepted'
      /\ LastOfManyIsReturned'
  BY <1>1 DEF LoneRequestIsItsMessage, AcceptedPostIsWhole, WellFormedIsAccepted,
     LastOfManyIsReturned, Returned
<1> QED BY <1>3, <1>4, <1>5 DEF IInv

\* Each callback does that.
LEMMA OnMethodIInv ==
    ASSUME IInv, OnMethod
    PROVE  IInv'
<1> DEFINE e == Head(events)
<1>1. Reports("method") /\ Assign("method", MethodOf(e.arg)) /\ e.kind = "method"
  BY DEF OnMethod, Reports
<1> HIDE DEF e
<1>2. Told(e) = MethodOf(e.arg)
  BY <1>1 DEF Told
<1>3. Takes(e)
  BY <1>1, <1>2, AssignFacts DEF Takes, IInv
<1> QED BY <1>1, <1>3, ReportIInv DEF e

LEMMA OnUrlIInv ==
    ASSUME IInv, OnUrl
    PROVE  IInv'
<1> DEFINE e == Head(events)
<1>1. Reports("url") /\ Assign("path", e.arg) /\ e.kind = "url"
  BY DEF OnUrl, Reports
<1> HIDE DEF e
<1>2. Told(e) = e.arg
  BY <1>1 DEF Told
<1>3. Takes(e)
  BY <1>1, <1>2, AssignFacts DEF Takes, IInv
<1> QED BY <1>1, <1>3, ReportIInv DEF e

LEMMA OnVersionIInv ==
    ASSUME IInv, OnVersion
    PROVE  IInv'
<1> DEFINE e == Head(events)
<1>1. Reports("version") /\ Assign("version", e.arg) /\ e.kind = "version"
  BY DEF OnVersion, Reports
<1> HIDE DEF e
<1>2. Told(e) = e.arg
  BY <1>1 DEF Told
<1>3. Takes(e)
  BY <1>1, <1>2, AssignFacts DEF Takes, IInv
<1> QED BY <1>1, <1>3, ReportIInv DEF e

LEMMA OnBodyIInv ==
    ASSUME IInv, OnBody
    PROVE  IInv'
<1> DEFINE e == Head(events)
<1>1. Reports("body") /\ Assign("body", e.arg) /\ e.kind = "body"
  BY DEF OnBody, Reports
<1> HIDE DEF e
<1>2. Told(e) = e.arg
  BY <1>1 DEF Told
<1>3. Takes(e)
  BY <1>1, <1>2, AssignFacts DEF Takes, IInv
<1> QED BY <1>1, <1>3, ReportIInv DEF e

LEMMA OnHeaderFieldIInv ==
    ASSUME IInv, OnHeaderField
    PROVE  IInv'
<1> DEFINE e == Head(events)
<1>1. Reports("field") /\ state' = [state EXCEPT !.field = e.arg] /\ e.kind = "field"
  BY DEF OnHeaderField, Reports
<1>2. DOMAIN state = {"request", "field", "value"} /\ DOMAIN state.request = DOMAIN NoRequest
  BY FieldsFacts DEF IInv, TypeOK
<1> HIDE DEF e
<1>3. /\ DOMAIN state' = {"request", "field", "value"} /\ state'.request = state.request
      /\ state'.field = e.arg /\ state'.value = state.value
  BY <1>1, <1>2
<1>4. Takes(e)
  BY <1>1, <1>2, <1>3, FieldsFacts DEF Takes
<1> QED BY <1>1, <1>4, ReportIInv DEF e

LEMMA OnHeaderValueIInv ==
    ASSUME IInv, OnHeaderValue
    PROVE  IInv'
<1> DEFINE e == Head(events)
<1>1. Reports("value") /\ state' = [state EXCEPT !.value = e.arg] /\ e.kind = "value"
  BY DEF OnHeaderValue, Reports
<1>2. DOMAIN state = {"request", "field", "value"} /\ DOMAIN state.request = DOMAIN NoRequest
  BY FieldsFacts DEF IInv, TypeOK
<1> HIDE DEF e
<1>3. /\ DOMAIN state' = {"request", "field", "value"} /\ state'.request = state.request
      /\ state'.field = state.field /\ state'.value = e.arg
  BY <1>1, <1>2
<1>4. Takes(e)
  BY <1>1, <1>2, <1>3, FieldsFacts DEF Takes
<1> QED BY <1>1, <1>4, ReportIInv DEF e

LEMMA OnHeaderValueCompleteIInv ==
    ASSUME IInv, OnHeaderValueComplete
    PROVE  IInv'
<1> DEFINE e == Head(events)
           r == state.request
           h == Extend(r.headers, state.field, state.value)
           s == [r EXCEPT !.headers = h]
<1>1. Reports("complete") /\ e.kind = "complete" /\ state.field # "" /\ state.value # ""
  BY DEF OnHeaderValueComplete, Reports
<1>2. state' = [request |-> s, field |-> "", value |-> ""]
  BY DEF OnHeaderValueComplete, AddHeader
<1>3. DOMAIN r = {"method", "path", "version", "headers", "body"}
  BY FieldsFacts DEF IInv, TypeOK
<1> HIDE DEF e, r, h
<1>4. /\ DOMAIN s = DOMAIN r /\ s.method = r.method /\ s.path = r.path
      /\ s.version = r.version /\ s.body = r.body /\ s.headers = h
  BY <1>3
<1> HIDE DEF s
<1>5. DOMAIN state' = {"request", "field", "value"} /\ state'.request = s
  BY <1>2
<1>6. Takes(e)
  BY <1>1, <1>3, <1>4, <1>5, FieldsFacts DEF Takes, r, h
<1> QED BY <1>1, <1>6, ReportIInv DEF e

\* What parseRequest begins with.
LEMMA FreshFacts ==
    /\ Fresh.request.method = "UNKNOWN" /\ Fresh.request.path = ""
    /\ Fresh.request.version = "" /\ Fresh.request.body = <<>>
    /\ DOMAIN Fresh.request.headers = {} /\ DOMAIN Fresh.request = DOMAIN NoRequest
    /\ "" \in Texts
BY DEF Fresh, NoRequest, NoHeaders, Texts

LEMMA InitIInv ==
    ASSUME Init
    PROVE  IInv
<1>1. buffer.messages = <<>> /\ outcome = "idle" /\ machine = "start" /\ events = <<>>
  BY DEF Init, NoBuffer
<1>2. state = Fresh
  BY DEF Init
<1>3. TypeOK
  <2>1. <<>> \in Seq(Messages)
    OBVIOUS
  <2>2. {state.request.path, state.request.version} \subseteq Texts
    BY <1>2, FreshFacts
  <2>3. state.request.method \in {"GET", "POST", "UNKNOWN"}
    BY <1>2, FreshFacts
  <2>4. \A f \in DOMAIN state.request.headers : FALSE
    BY <1>2, FreshFacts
  <2> QED BY <1>1, <1>2, <2>1, <2>2, <2>3, <2>4, FreshFacts DEF TypeOK
<1> QED BY <1>1, <1>3 DEF IInv, BufferIsRead, LoneRequestIsItsMessage, AcceptedPostIsWhole,
            WellFormedIsAccepted, LastOfManyIsReturned, Returned

\* parseRequest begins with a buffer of which nothing is read.
LEMMA ParseRequestIInv ==
    ASSUME IInv, ParseRequest
    PROVE  IInv'
<1>1. /\ outcome = "idle" /\ state' = Fresh /\ outcome' = "parsing"
      /\ machine = "start" /\ machine' = "start"
  BY DEF ParseRequest, IInv, TypeOK
<1>2. PICK k \in 1 .. MaxTogether : \E ms \in [1 .. k -> Messages] :
        LET all == AllEvents(ms)
        IN  \E n \in 0 .. Len(all) : \E es \in CutAfter(all, n) :
                buffer' = [messages |-> ms, whole |-> es = all] /\ events' = es
  BY <1>1, Zenon DEF ParseRequest
<1>3. PICK ms \in [1 .. k -> Messages] :
        LET all == AllEvents(ms)
        IN  \E n \in 0 .. Len(all) : \E es \in CutAfter(all, n) :
                buffer' = [messages |-> ms, whole |-> es = all] /\ events' = es
  BY <1>2, Zenon
<1> DEFINE all == AllEvents(ms)
<1>4. PICK n \in 0 .. Len(all) : \E es \in CutAfter(all, n) :
            buffer' = [messages |-> ms, whole |-> es = all] /\ events' = es
  BY <1>3, Zenon
<1>5. PICK es \in CutAfter(all, n) :
            buffer' = [messages |-> ms, whole |-> es = all] /\ events' = es
  BY <1>4, Zenon
<1>6. ms \in Seq(Messages) /\ ms # <<>>
  <2>1. k \in Nat /\ k > 0
    OBVIOUS
  <2>2. ms \in Seq(Messages) /\ Len(ms) = k
    BY <2>1
  <2> QED BY <2>1, <2>2
<1>7. es \in Seq(Reported)
  BY <1>6, BufferFacts, CutFacts
<1>8. buffer'.messages = ms
  BY <1>5, Zenon
<1>9. buffer'.whole <=> es = all
  BY <1>5, Zenon
<1> HIDE DEF all
<1>10. TypeOK'
  <2>1. {state'.request.path, state'.request.version} \subseteq Texts
    BY <1>1, FreshFacts
  <2>2. state'.request.method \in {"GET", "POST", "UNKNOWN"}
    BY <1>1, FreshFacts
  <2>3. \A f \in DOMAIN state'.request.headers : FALSE
    BY <1>1, FreshFacts
  <2> QED BY <1>1, <1>6, <1>8, <2>1, <2>2, <2>3, FreshFacts DEF TypeOK
<1>11. HasRead(es, 0)'
  <2>1. events' = SubSeq(es, 0 + 1, Len(es))
    <3>1. SubSeq(es, 1, Len(es)) = es
      BY <1>7, SubSeqFull
    <3> QED BY <1>5, <3>1
  <2>2. \A i \in 1 .. 0 : FALSE
    OBVIOUS
  <2>3. LineIsRead(es, 0)'
    BY <1>1, <2>2, FreshFacts DEF LineIsRead, IsLatest
  <2>4. HeadersAreRead(es, 0)'
    <3>1. DOMAIN state'.request.headers = {}
      BY <1>1, FreshFacts
    <3>2. ~(0 > 0)
      OBVIOUS
    <3> QED BY <2>2, <3>1, <3>2, Zenon DEF HeadersAreRead
  <2> QED BY <1>1, <2>1, <2>2, <2>3, <2>4 DEF HasRead
<1>12. BufferIsRead'
  <2>1. 0 \in 0 .. Len(es)
    BY <1>7, LenProperties
  <2>2. all = AllEvents(buffer'.messages)
    BY <1>8 DEF all
  <2>3. \E j \in 0 .. Len(es) : HasRead(es, j)'
    BY <1>11, <2>1
  <2> QED BY <1>9, <2>2, <2>3, Zenon DEF BufferIsRead
<1> QED BY <1>1, <1>10, <1>12 DEF IInv, LoneRequestIsItsMessage, AcceptedPostIsWhole,
            WellFormedIsAccepted, LastOfManyIsReturned, Returned

LEMMA NextBufferIInv ==
    ASSUME IInv, NextBuffer
    PROVE  IInv'
<1>1. /\ outcome' = "idle" /\ state' = Fresh /\ buffer'.messages = <<>>
      /\ machine' = machine /\ events' = events /\ machine = "start" /\ events = <<>>
  BY DEF NextBuffer, NoBuffer, IInv, TypeOK
<1>2. TypeOK'
  <2>1. <<>> \in Seq(Messages)
    OBVIOUS
  <2>2. {state'.request.path, state'.request.version} \subseteq Texts
    BY <1>1, FreshFacts
  <2>3. state'.request.method \in {"GET", "POST", "UNKNOWN"}
    BY <1>1, FreshFacts
  <2>4. \A f \in DOMAIN state'.request.headers : FALSE
    BY <1>1, FreshFacts
  <2> QED BY <1>1, <2>1, <2>2, <2>3, <2>4, FreshFacts DEF TypeOK
<1> QED BY <1>1, <1>2 DEF IInv, BufferIsRead, LoneRequestIsItsMessage, AcceptedPostIsWhole,
            WellFormedIsAccepted, LastOfManyIsReturned, Returned

-----------------------------------------------------------------------------
(* What is left when the events are at their end *)

\* If p is the last event of a kind, the latest is what p told.
LEMMA LatestAt ==
    ASSUME NEW x, NEW first, NEW kind, NEW es, NEW k \in Nat,
           IsLatest(x, first, kind, es, k), NEW p \in 1 .. k, es[p].kind = kind,
           \A j \in 1 .. k : j > p => es[j].kind # kind
    PROVE  x = Told(es[p])
<1>1. PICK i \in 1 .. k : /\ es[i].kind = kind /\ x = Told(es[i])
                          /\ \A j \in i + 1 .. k : es[j].kind # kind
  BY DEF IsLatest
<1>2. i < p => p \in i + 1 .. k
  OBVIOUS
<1>3. ~(i < p) /\ ~(i > p)
  BY <1>1, <1>2
<1>4. i = p
  BY <1>3
<1> QED BY <1>1, <1>4

\* The body of a message that is not in chunks is one piece, or none.
LEMMA ChunksFacts ==
    ASSUME NEW m \in Messages
    PROVE  LET c == Len(m.chunks)
           IN  /\ c \in Nat /\ ~m.chunked => c <= 1
               /\ c = 0 <=> m.chunks = <<>>
               /\ LastPiece(m) = IF c = 0 THEN <<>> ELSE m.chunks[c]
               /\ \A i \in 1 .. c : m.chunks[i] \in Seq(STRING) \ {<<>>}
<1> DEFINE f == m.chunks
           c == Len(f)
<1>1. f \in Seq(Seq(STRING) \ {<<>>})
  BY MessagesAssumption
<1>2. c \in Nat /\ \A i \in 1 .. c : f[i] \in Seq(STRING) \ {<<>>}
  BY <1>1
<1>3. ASSUME ~m.chunked
      PROVE  c <= 1
  <2>1. c <= Cardinality(Lengths(m)) /\ Cardinality(Lengths(m)) <= 1
    BY <1>3, MessagesAssumption
  <2>2. Lengths(m) \subseteq 1 .. Len(m.headers) /\ Len(m.headers) \in Nat
    BY MessagesAssumption DEF Lengths
  <2>3. IsFiniteSet(Lengths(m))
    <3>1. IsFiniteSet(1 .. Len(m.headers))
      BY <2>2, FS_Interval
    <3> QED BY <2>2, <3>1, FS_Subset
  <2>4. Cardinality(Lengths(m)) \in Nat
    BY <2>3, FS_CardinalityType
  <2> QED BY <1>2, <2>1, <2>4
<1>4. c = 0 <=> f = <<>>
  BY <1>1, EmptySeq
<1>5. LastPiece(m) = IF c = 0 THEN <<>> ELSE f[c]
  BY <1>4 DEF LastPiece
<1> QED BY <1>2, <1>3, <1>4, <1>5

\* The length a message's header states is that of its body, if that is not in chunks.
LEMMA LengthFacts ==
    ASSUME NEW m \in Messages, NEW v, HasFirst(m, ContentLength, v), ~m.chunked
    PROVE  Number[v] = IF m.chunks = <<>> THEN 0 ELSE Len(m.chunks[1])
<1>1. PICK i \in DOMAIN m.headers : m.headers[i] = <<ContentLength, v>>
  BY DEF HasFirst
<1>2. i \in Lengths(m) /\ m.headers[i][2] = v
  BY <1>1 DEF Lengths
<1>3. Number[m.headers[i][2]] = IF m.chunks = <<>> THEN 0 ELSE Len(m.chunks[1])
  BY <1>2, MessagesAssumption
<1> QED BY <1>2, <1>3

\* The places of the headers: in their order, the trailers' after the body.
LEMMA PlaceFacts ==
    ASSUME NEW m \in Messages
    PROVE  \A j \in 1 .. Len(m.headers) :
                /\ Place(m, j) \in Nat /\ Place(m, j) >= 3 /\ Place(m, j) + 3 <= Size(m)
                /\ j > m.lead => Place(m, j) >= 3 + 3 * m.lead + Len(m.chunks)
                /\ \A g \in 1 .. j - 1 : Place(m, g) + 3 <= Place(m, j)
<1> DEFINE h == Len(m.headers)
           c == Len(m.chunks)
           p == m.lead
           at(j) == 3 * j + (IF j <= p THEN 0 ELSE c)
<1>1. h \in Nat /\ c \in Nat /\ p \in Nat /\ p <= h /\ Size(m) = 3 + 3 * h + c
  BY MessageFacts
<1>2. \A j : Place(m, j) = at(j)
  BY DEF Place
<1> HIDE DEF h, c, p
<1>3. ASSUME NEW j \in 1 .. h
      PROVE  /\ at(j) \in Nat /\ at(j) >= 3 /\ at(j) + 3 <= Size(m)
             /\ j > p => at(j) >= 3 + 3 * p + c
             /\ \A g \in 1 .. j - 1 : at(g) + 3 <= at(j)
  BY <1>1
<1> HIDE DEF at
<1> QED BY <1>2, <1>3 DEF h, c, p

\* The body that is read is nothing or a piece of the message's, and its last piece
\* if that is read whole.
LEMMA LoneBody ==
    ASSUME NEW m \in Messages, NEW es, Begins(es, EventsOf(m)), NEW x,
           IsLatest(x, <<>>, "body", es, Len(es))
    PROVE  /\ IsPiece(m, x)
           /\ LET last == 3 + 3 * m.lead + Len(m.chunks)
              IN  (Len(m.chunks) > 0 => last <= Len(es) /\ es[last] = EventsOf(m)[last])
                        => x = LastPiece(m)
<1> DEFINE all == EventsOf(m)
           k == Len(es)
           p == m.lead
           c == Len(m.chunks)
           last == 3 + 3 * p + c
<1>1. /\ p \in Nat /\ c \in Nat /\ all \in Seq(Reported)
      /\ \A i \in 1 .. c : all[3 + 3 * p + i] = Event("body", m.chunks[i])
  BY MessageFacts
<1>2. \A i \in 1 .. Len(all) : all[i].kind = "body" => \E q \in 1 .. c : i = 3 + 3 * p + q
  BY MessageKinds
<1>3. LastPiece(m) = (IF c = 0 THEN <<>> ELSE m.chunks[c])
      /\ \A i \in 1 .. c : m.chunks[i] \in Seq(STRING) \ {<<>>}
  BY ChunksFacts
<1>4. /\ k \in Nat /\ k <= Len(all) /\ Len(all) \in Nat
      /\ \A i \in 1 .. k : es[i].kind = all[i].kind /\ (es[i] = all[i] \/ es[i] \in Partial(all[i]))
  BY <1>1, LenProperties DEF Begins
<1> HIDE DEF all, k, p, c
<1>5. ASSUME c > 0, last <= k, es[last] = all[last]
      PROVE  last \in 1 .. k /\ es[last].kind = "body" /\ c \in 1 .. c
  <2>1. c \in 1 .. c /\ last \in 1 .. k
    BY <1>1, <1>4, <1>5
  <2>2. es[last] = Event("body", m.chunks[c])
    BY <1>1, <1>5, <2>1
  <2> QED BY <2>1, <2>2 DEF Event
<1>6. CASE x = <<>> /\ \A i \in 1 .. k : es[i].kind # "body"
  <2>1. IsPiece(m, x)
    BY <1>6 DEF IsPiece
  <2>2. ASSUME c > 0 => last <= k /\ es[last] = all[last]
        PROVE  x = LastPiece(m)
    <3>1. ~(c > 0)
      BY <1>5, <1>6, <2>2
    <3>2. c = 0
      BY <1>1, <3>1
    <3> QED BY <1>3, <1>6, <3>2
  <2> QED BY <2>1, <2>2 DEF all, k, p, c
<1>7. CASE \E i \in 1 .. k : /\ es[i].kind = "body" /\ x = Told(es[i])
                             /\ \A j \in i + 1 .. k : es[j].kind # "body"
  <2>1. PICK i \in 1 .. k : /\ es[i].kind = "body" /\ x = Told(es[i])
                            /\ \A j \in i + 1 .. k : es[j].kind # "body"
    BY <1>7
  <2>2. x = es[i].arg
    BY <2>1 DEF Told
  <2>3. i \in 1 .. Len(all) /\ all[i].kind = "body" /\ all[i] \in Reported
    BY <1>1, <1>4, <2>1
  <2>4. PICK q \in 1 .. c : i = 3 + 3 * p + q
    BY <1>2, <2>3
  <2> DEFINE piece == m.chunks[q]
  <2>5. all[i].arg = piece /\ piece \in Seq(STRING) \ {<<>>}
    <3>1. all[i] = Event("body", piece) /\ piece \in Seq(STRING) \ {<<>>}
      BY <1>1, <1>3, <2>4
    <3> QED BY <3>1 DEF Event
  <2> HIDE DEF piece
  <2>6. \E n \in 1 .. Len(piece) : x = SubSeq(piece, 1, n)
    <3>1. CASE es[i] = all[i]
      <4>1. x = piece /\ SubSeq(piece, 1, Len(piece)) = piece
        BY <2>2, <2>5, <3>1, SubSeqFull
      <4>2. Len(piece) \in 1 .. Len(piece)
        BY <2>5, EmptySeq, LenProperties
      <4> QED BY <4>1, <4>2
    <3>2. CASE es[i] \in Partial(all[i])
      BY <2>2, <2>3, <2>5, <3>2, PartialFacts
    <3> QED BY <1>4, <3>1, <3>2
  <2>7. IsPiece(m, x)
    <3>1. q \in DOMAIN m.chunks
      <4>1. m.chunks \in Seq(Seq(STRING) \ {<<>>})
        BY MessagesAssumption
      <4> QED BY <4>1, <2>4 DEF c
    <3> QED BY <2>6, <3>1 DEF IsPiece, piece
  <2>8. ASSUME c > 0 => last <= k /\ es[last] = all[last]
        PROVE  x = LastPiece(m)
    <3>1. c > 0 /\ c # 0
      BY <1>1, <2>4
    <3>2. last \in 1 .. k /\ es[last].kind = "body" /\ es[last] = all[last]
      BY <1>5, <2>8, <3>1
    <3>3. ~(i < last) /\ ~(i > last)
      <4>1. i < last => last \in i + 1 .. k
        BY <3>2
      <4>2. ~(i > last)
        BY <1>1, <2>4
      <4> QED BY <2>1, <3>2, <4>1, <4>2
    <3>4. i = last /\ q = c
      BY <1>1, <2>4, <3>3
    <3> QED BY <1>3, <2>2, <2>5, <3>1, <3>2, <3>4 DEF piece
  <2> QED BY <2>7, <2>8 DEF all, k, p, c
<1> QED BY <1>6, <1>7 DEF IsLatest, k

\* The events of a header that is read to its end.
LEMMA HeaderRead ==
    ASSUME NEW m \in Messages, NEW es, Begins(es, EventsOf(m)),
           NEW j \in 1 .. Len(m.headers), Place(m, j) + 3 <= Len(es)
    PROVE  /\ es[Place(m, j) + 1].arg = m.headers[j][1]
           /\ es[Place(m, j) + 2].kind = "value" /\ es[Place(m, j) + 2].arg = m.headers[j][2]
           /\ es[Place(m, j) + 3].kind = "complete"
<1> DEFINE all == EventsOf(m)
           k == Len(es)
           p == Place(m, j)
<1>1. /\ all[p + 1] = Event("field", m.headers[j][1])
      /\ all[p + 2] = Event("value", m.headers[j][2])
      /\ all[p + 3] = Event("complete", "")
  BY MessageFacts
<1>2. p \in Nat
  BY PlaceFacts
<1>3. /\ k \in Nat
      /\ \A i \in 1 .. k : es[i].kind = all[i].kind /\ (i < k => es[i] = all[i])
  BY DEF Begins
<1>4. p + 3 <= k
  OBVIOUS
<1> HIDE DEF all, k, p
<1>5. /\ all[p + 1].arg = m.headers[j][1]
      /\ all[p + 2].kind = "value" /\ all[p + 2].arg = m.headers[j][2]
      /\ all[p + 3].kind = "complete"
  <2>1. /\ all[p + 1].arg = Event("field", m.headers[j][1]).arg
        /\ all[p + 2].kind = Event("value", m.headers[j][2]).kind
        /\ all[p + 2].arg = Event("value", m.headers[j][2]).arg
        /\ all[p + 3].kind = Event("complete", "").kind
    BY <1>1
  <2> QED BY <2>1 DEF Event
<1>6. p + 1 \in 1 .. k /\ p + 2 \in 1 .. k /\ p + 3 \in 1 .. k /\ p + 1 < k /\ p + 2 < k
  BY <1>2, <1>3, <1>4
<1> QED BY <1>3, <1>5, <1>6 DEF p

\* The headers that are read are the message's, the first of each name.
LEMMA LoneHeaders ==
    ASSUME NEW m \in Messages, NEW es, Begins(es, EventsOf(m)), HeadersAreRead(es, Len(es))
    PROVE  LET headers == state.request.headers
           IN  /\ \A f \in DOMAIN headers :
                    /\ HasFirst(m, f, headers[f]) /\ Len(es) > 3
                    /\ \E j \in 1 .. Len(m.headers) :
                            m.headers[j] = <<f, headers[f]>> /\ Place(m, j) + 3 <= Len(es)
               /\ \A j \in 1 .. Len(m.headers) :
                    Place(m, j) + 3 <= Len(es) => m.headers[j][1] \in DOMAIN headers
<1> DEFINE H == state.request.headers
           all == EventsOf(m)
           k == Len(es)
           h == Len(m.headers)
           p(j) == Place(m, j)
<1>1. /\ k \in Nat /\ k <= Len(all) /\ \A i \in 1 .. k : es[i].kind = all[i].kind
  BY DEF Begins
<1>2. /\ \A f \in DOMAIN H : \E i \in 1 .. k :
            /\ Completes(es, i, f) /\ H[f] = es[i - 1].arg
            /\ \A j \in 1 .. i - 1 : ~Completes(es, j, f)
      /\ \A i \in 1 .. k : es[i].kind = "complete" => es[i - 2].arg \in DOMAIN H
  BY DEF HeadersAreRead
<1>3. h \in Nat /\ DOMAIN m.headers = 1 .. h
      /\ \A j \in 1 .. h : m.headers[j] = <<m.headers[j][1], m.headers[j][2]>>
  BY MessagesAssumption
<1>4. Len(all) \in Nat
  BY MessageFacts, LenProperties
<1>5. \A i \in 1 .. k : es[i].kind = "complete" => \E j \in 1 .. h : i = p(j) + 3
  <2> SUFFICES ASSUME NEW i \in 1 .. k, es[i].kind = "complete"
               PROVE  \E j \in 1 .. h : i = p(j) + 3
    OBVIOUS
  <2>1. i \in 1 .. Len(all)
    <3> HIDE DEF k, all
    <3> QED BY <1>1, <1>4
  <2>2. all[i].kind = "complete"
    BY <1>1
  <2> QED BY <2>1, <2>2, MessageKinds
<1>6. \A j \in 1 .. h : p(j) + 3 <= k =>
            /\ es[p(j) + 1].arg = m.headers[j][1] /\ es[p(j) + 2].arg = m.headers[j][2]
            /\ es[p(j) + 3].kind = "complete"
  BY HeaderRead
<1>7. \A j \in 1 .. h : /\ p(j) \in Nat /\ p(j) >= 3
                        /\ \A g \in 1 .. j - 1 : p(g) + 3 <= p(j)
  BY PlaceFacts
<1> HIDE DEF H, all, k, h, p
<1>8. \A j \in 1 .. h : (p(j) + 3) - 2 = p(j) + 1 /\ (p(j) + 3) - 1 = p(j) + 2
                        /\ p(j) + 3 > 3 /\ (p(j) + 3 <= k => p(j) + 3 \in 1 .. k)
  BY <1>1, <1>3, <1>7
<1>9. ASSUME NEW f \in DOMAIN H
      PROVE  /\ HasFirst(m, f, H[f]) /\ k > 3
             /\ \E j \in 1 .. h : m.headers[j] = <<f, H[f]>> /\ p(j) + 3 <= k
  <2>1. PICK i \in 1 .. k : /\ Completes(es, i, f) /\ H[f] = es[i - 1].arg
                            /\ \A j \in 1 .. i - 1 : ~Completes(es, j, f)
    BY <1>2
  <2>2. es[i].kind = "complete" /\ es[i - 2].arg = f
    BY <2>1 DEF Completes
  <2>3. PICK j \in 1 .. h : i = p(j) + 3
    BY <1>5, <2>2
  <2>4. p(j) + 3 <= k /\ k > 3
    BY <1>1, <1>7, <2>3
  <2>5. m.headers[j][1] = f /\ m.headers[j][2] = H[f]
    BY <1>6, <1>8, <2>1, <2>2, <2>3, <2>4
  <2>6. ASSUME NEW g \in 1 .. j - 1
        PROVE  m.headers[g][1] # f
    <3>1. g \in 1 .. h
      BY <1>3
    <3>2. p(g) \in Nat /\ p(j) \in Nat /\ p(g) + 3 <= p(j)
      BY <1>7, <3>1
    <3>3. p(g) + 3 <= k /\ p(g) + 3 \in 1 .. i - 1
      BY <1>1, <2>3, <2>4, <3>2
    <3>4. ~Completes(es, p(g) + 3, f)
      BY <2>1, <3>3
    <3>5. es[p(g) + 3].kind = "complete" /\ es[(p(g) + 3) - 2].arg = m.headers[g][1]
      BY <1>6, <1>8, <3>1, <3>3
    <3> QED BY <3>4, <3>5 DEF Completes
  <2>7. m.headers[j] = <<f, H[f]>>
    BY <1>3, <2>5
  <2> QED BY <1>3, <2>4, <2>6, <2>7 DEF HasFirst
<1>10. ASSUME NEW j \in 1 .. h, p(j) + 3 <= k
       PROVE  m.headers[j][1] \in DOMAIN H
  BY <1>2, <1>6, <1>8, <1>10
<1> QED BY <1>9, <1>10 DEF H, k, h, p

\* The line that is read is the message's, once it is read to its end.
LEMMA LoneLine ==
    ASSUME NEW m \in Messages, NEW es, Begins(es, EventsOf(m)), LineIsRead(es, Len(es)),
           Len(es) >= 3, Len(es) = 3 => es[3] = EventsOf(m)[3]
    PROVE  LET r == state.request
           IN  r.method = MethodOf(m.method) /\ r.path = m.path /\ r.version = m.version
<1> DEFINE r == state.request
           all == EventsOf(m)
           k == Len(es)
<1>1. /\ k \in Nat /\ k <= Len(all)
      /\ \A i \in 1 .. k : es[i].kind = all[i].kind /\ (i < k => es[i] = all[i])
  BY DEF Begins
<1>2. /\ all[1] = Event("method", m.method) /\ all[2] = Event("url", m.path)
      /\ all[3] = Event("version", m.version) /\ Len(all) \in Nat
  BY MessageFacts, LenProperties
<1>3. \A i \in 1 .. Len(all) : /\ all[i].kind = "method" => i = 1
                               /\ all[i].kind = "url" => i = 2
                               /\ all[i].kind = "version" => i = 3
  BY MessageKinds
<1>4. /\ IsLatest(r.method, "UNKNOWN", "method", es, k) /\ IsLatest(r.path, "", "url", es, k)
      /\ IsLatest(r.version, "", "version", es, k)
  BY DEF LineIsRead
<1>5. k >= 3 /\ (k = 3 => es[3] = all[3])
  OBVIOUS
<1> HIDE DEF r, all, k
<1>6. 1 \in 1 .. k /\ 2 \in 1 .. k /\ 3 \in 1 .. k /\ 1 < k /\ 2 < k /\ (3 < k \/ k = 3)
      /\ \A i \in 1 .. k : i \in 1 .. Len(all)
  BY <1>1, <1>2, <1>5
<1>7. es[1] = all[1] /\ es[2] = all[2] /\ es[3] = all[3]
  BY <1>1, <1>5, <1>6
<1>8. /\ es[1].kind = "method" /\ Told(es[1]) = MethodOf(m.method)
      /\ es[2].kind = "url" /\ Told(es[2]) = m.path
      /\ es[3].kind = "version" /\ Told(es[3]) = m.version
  <2>1. es[1].kind = "method" /\ es[2].kind = "url" /\ es[3].kind = "version"
    BY <1>2, <1>7 DEF Event
  <2>2. es[1].arg = m.method /\ es[2].arg = m.path /\ es[3].arg = m.version
    BY <1>2, <1>7 DEF Event
  <2> QED BY <2>1, <2>2 DEF Told
<1>9. \A i \in 1 .. k : /\ es[i].kind = "method" => i = 1
                        /\ es[i].kind = "url" => i = 2
                        /\ es[i].kind = "version" => i = 3
  BY <1>1, <1>3, <1>6
<1>10. \A i \in 1 .. k : (i > 1 => i # 1) /\ (i > 2 => i # 2) /\ (i > 3 => i # 3)
  OBVIOUS
<1>11. r.method = Told(es[1])
  <2> DEFINE p == 1
             x == r.method
             first == "UNKNOWN"
  <2>1. \A i \in 1 .. k : i > p => es[i].kind # "method"
    BY <1>9, <1>10
  <2>2. k \in Nat /\ IsLatest(x, first, "method", es, k) /\ p \in 1 .. k /\ es[p].kind = "method"
    BY <1>1, <1>4, <1>6, <1>8
  <2> HIDE DEF p, x, first
  <2>3. x = Told(es[p])
    BY <2>1, <2>2, LatestAt
  <2> QED BY <2>3 DEF p, x
<1>12. r.path = Told(es[2])
  <2> DEFINE p == 2
             x == r.path
             first == ""
  <2>1. \A i \in 1 .. k : i > p => es[i].kind # "url"
    BY <1>9, <1>10
  <2>2. k \in Nat /\ IsLatest(x, first, "url", es, k) /\ p \in 1 .. k /\ es[p].kind = "url"
    BY <1>1, <1>4, <1>6, <1>8
  <2> HIDE DEF p, x, first
  <2>3. x = Told(es[p])
    BY <2>1, <2>2, LatestAt
  <2> QED BY <2>3 DEF p, x
<1>13. r.version = Told(es[3])
  <2> DEFINE p == 3
             x == r.version
             first == ""
  <2>1. \A i \in 1 .. k : i > p => es[i].kind # "version"
    BY <1>9, <1>10
  <2>2. k \in Nat /\ IsLatest(x, first, "version", es, k) /\ p \in 1 .. k /\ es[p].kind = "version"
    BY <1>1, <1>4, <1>6, <1>8
  <2> HIDE DEF p, x, first
  <2>3. x = Told(es[p])
    BY <2>1, <2>2, LatestAt
  <2> QED BY <2>3 DEF p, x
<1> QED BY <1>8, <1>11, <1>12, <1>13 DEF r

\* The one piece of a body with a length is read whole if it has that length.
LEMMA PieceIsWhole ==
    ASSUME NEW m \in Messages, ~m.chunked, NEW es, Begins(es, EventsOf(m)), NEW x, x # <<>>,
           IsLatest(x, <<>>, "body", es, Len(es)), Len(x) = Len(m.chunks[1])
    PROVE  /\ Len(m.chunks) = 1 /\ Size(m) \in 1 .. Len(es)
           /\ es[Size(m)] = EventsOf(m)[Size(m)] /\ es[Size(m)].kind = "body"
<1> DEFINE all == EventsOf(m)
           k == Len(es)
           h == Len(m.headers)
           c == Len(m.chunks)
           n == Size(m)
<1>1. /\ h \in Nat /\ c \in Nat /\ n = 3 + 3 * h + c /\ m.lead = h /\ all \in Seq(Reported)
      /\ \A i \in 1 .. c : all[3 + 3 * h + i] = Event("body", m.chunks[i])
  BY MessageFacts, MessagesAssumption
<1>2. \A i \in 1 .. Len(all) : all[i].kind = "body" => \E q \in 1 .. c : i = 3 + 3 * h + q
  BY <1>1, MessageKinds
<1>3. c <= 1
  BY ChunksFacts
<1>4. /\ k \in Nat /\ k <= Len(all) /\ Len(all) \in Nat
      /\ \A i \in 1 .. k : es[i].kind = all[i].kind /\ (es[i] = all[i] \/ es[i] \in Partial(all[i]))
  BY <1>1, LenProperties DEF Begins
<1>5. PICK i \in 1 .. k : es[i].kind = "body" /\ x = Told(es[i])
  BY Zenon DEF IsLatest
<1> HIDE DEF all, k, h, c, n
<1>6. x = es[i].arg
  BY <1>5 DEF Told
<1>7. i \in 1 .. Len(all) /\ all[i].kind = "body" /\ all[i] \in Reported
  BY <1>1, <1>4, <1>5
<1>8. PICK q \in 1 .. c : i = 3 + 3 * h + q
  BY <1>2, <1>7
<1>9. c = 1 /\ q = 1 /\ i = n /\ 1 \in 1 .. c
  BY <1>1, <1>3, <1>8
<1>10. all[i].arg = m.chunks[1]
  BY <1>1, <1>8, <1>9 DEF Event
<1>11. es[i] \notin Partial(all[i])
  <2> SUFFICES ASSUME es[i] \in Partial(all[i]) PROVE FALSE
    OBVIOUS
  <2>1. Len(all[i].arg) \in Nat /\ Len(x) < Len(all[i].arg)
    BY <1>6, <1>7, PartialFacts
  <2> QED BY <1>10, <2>1
<1>12. es[i] = all[i]
  BY <1>4, <1>11
<1> QED BY <1>5, <1>9, <1>12 DEF all, k, c, n

\* A POST that passes the validators has the last piece of its message's body, and is
\* read to the end of its message if that is not in chunks.
LEMMA LonePost ==
    ASSUME NEW m \in Messages, NEW es \in Seq(Reported), Begins(es, EventsOf(m)),
           LineIsRead(es, Len(es)), HeadersAreRead(es, Len(es)),
           ValidRequest(state.request), state.request.method = "POST"
    PROVE  state.request.body = LastPiece(m) /\ (~m.chunked => es = EventsOf(m))
<1> DEFINE r == state.request
           all == EventsOf(m)
           k == Len(es)
           c == Len(m.chunks)
           length == r.headers[ContentLength]
<1>1. r.body # <<>> /\ ContentLength \in DOMAIN r.headers /\ Number[length] = Len(r.body)
  BY DEF ValidRequest
<1>2. /\ HasFirst(m, ContentLength, length)
      /\ \E j \in 1 .. Len(m.headers) :
            m.headers[j] = <<ContentLength, length>> /\ Place(m, j) + 3 <= k
  BY <1>1, LoneHeaders
<1>3. IsLatest(r.body, <<>>, "body", es, k)
  BY DEF LineIsRead
<1>4. /\ k \in Nat /\ k <= Len(all) /\ Len(all) \in Nat
      /\ \A i \in 1 .. k : /\ es[i].kind = all[i].kind /\ es[i].kind # "error"
                           /\ i < k => es[i] = all[i]
      /\ (\A i \in 1 .. k : es[i] = all[i]) => ~PausesAt(all, k)
      /\ k = Len(all) /\ (Len(all) > 0 => es[Len(all)] = all[Len(all)]) => es = all
  <2>1. Len(all) \in Nat
    BY MessageFacts, LenProperties
  <2> QED BY <2>1 DEF Begins
<1>5. /\ m.lead \in Nat /\ c \in Nat /\ Len(m.headers) \in Nat
      /\ m.connection # "upgrade" => Len(all) = Size(m)
      /\ m.connection = "upgrade" =>
            /\ Len(all) = Size(m) + 1 /\ all[Size(m) + 1].kind = "error"
            /\ ~m.chunked => all[Size(m) + 1] = PauseAtOnce
  BY MessageFacts
<1>6. (c > 0 => 3 + 3 * m.lead + c <= k /\ es[3 + 3 * m.lead + c] = all[3 + 3 * m.lead + c])
            => r.body = LastPiece(m)
  BY <1>3, LoneBody
<1> HIDE DEF r, all, k, c, length
<1>7. CASE m.chunked
  <2> DEFINE last == 3 + 3 * m.lead + c
  <2>1. PICK j \in 1 .. Len(m.headers) :
            m.headers[j] = <<ContentLength, length>> /\ Place(m, j) + 3 <= k
    BY <1>2
  <2>2. j \in Lengths(m)
    <3>1. m.headers[j][1] = ContentLength /\ DOMAIN m.headers = 1 .. Len(m.headers)
      BY <2>1, MessagesAssumption
    <3> QED BY <3>1 DEF Lengths
  <2>3. j > m.lead
    BY <1>7, <2>2, MessagesAssumption
  <2>4. Place(m, j) \in Nat /\ Place(m, j) >= last
    BY <2>3, PlaceFacts DEF c
  <2> DEFINE a == Place(m, j)
  <2>5. last \in Nat /\ last >= 3 /\ a \in Nat /\ a >= last /\ a + 3 <= k /\ k \in Nat
    <3>1. last \in Nat /\ last >= 3
      BY <1>5
    <3> QED BY <1>4, <2>1, <2>4, <3>1
  <2>6. last <= k /\ es[last] = all[last]
    <3> HIDE DEF last, a
    <3>1. last \in 1 .. k /\ last < k /\ last <= k
      BY <2>5
    <3> QED BY <1>4, <3>1
  <2>7. r.body = LastPiece(m)
    BY <1>6, <2>6
  <2> QED BY <1>7, <2>7 DEF r
<1>8. CASE ~m.chunked
  <2> DEFINE n == Size(m)
  <2>1. Number[length] = IF m.chunks = <<>> THEN 0 ELSE Len(m.chunks[1])
    BY <1>2, <1>8, LengthFacts
  <2>2. m.chunks # <<>>
    <3> SUFFICES ASSUME m.chunks = <<>> PROVE FALSE
      OBVIOUS
    <3>1. c = 0
      BY DEF c
    <3>2. IsPiece(m, r.body) /\ r.body = LastPiece(m) /\ LastPiece(m) = <<>>
      BY <1>3, <1>6, <3>1, LoneBody DEF LastPiece, k
    <3> QED BY <1>1, <3>2
  <2>3. Len(r.body) = Len(m.chunks[1])
    BY <1>1, <2>1, <2>2
  <2>4. c = 1 /\ n \in 1 .. k /\ es[n] = all[n] /\ es[n].kind = "body"
    BY <1>1, <1>3, <1>8, <2>3, PieceIsWhole DEF all, k, c
  <2> HIDE DEF n
  <2>5. m.connection # "upgrade"
    <3> SUFFICES ASSUME m.connection = "upgrade" PROVE FALSE
      OBVIOUS
    <3>1. Len(all) = n + 1 /\ all[n + 1] = PauseAtOnce /\ all[n + 1].kind = "error"
      BY <1>5, <1>8 DEF n
    <3>2. CASE k = n
      <4>1. \A i \in 1 .. k : i < k \/ i = n
        BY <1>4, <3>2
      <4>2. \A i \in 1 .. k : es[i] = all[i]
        BY <1>4, <2>4, <4>1
      <4>3. n \in 1 .. Len(all) - 1
        BY <2>4, <3>1
      <4>4. PausesAt(all, k)
        BY <2>4, <3>1, <3>2, <4>3 DEF PausesAt
      <4> QED BY <1>4, <4>2, <4>4
    <3>3. CASE k = n + 1
      <4>1. n + 1 \in 1 .. k
        BY <1>4, <2>4, <3>3
      <4> QED BY <1>4, <3>1, <4>1
    <3> QED BY <1>4, <2>4, <3>1, <3>2, <3>3
  <2>6. es = all
    <3>1. Len(all) = n
      BY <1>5, <2>5 DEF n
    <3>2. k = Len(all)
      BY <1>4, <2>4, <3>1
    <3> QED BY <1>4, <2>4, <3>1, <3>2
  <2>7. 3 + 3 * m.lead + c = n
    <3>1. m.lead = Len(m.headers)
      BY <1>8, MessagesAssumption
    <3> QED BY <3>1 DEF n, Size, c
  <2>8. r.body = LastPiece(m)
    BY <1>4, <1>6, <2>4, <2>7
  <2> QED BY <2>6, <2>8 DEF r, all
<1> QED BY <1>7, <1>8 DEF r

\* The line of a buffer that is read to its end, and holds its messages whole, is
\* the last message's.
LEMMA LastLineIsRead ==
    ASSUME NEW ms \in Seq(Messages), ms # <<>>,
           HasRead(AllEvents(ms), Len(AllEvents(ms)))
    PROVE  LET m == ms[Len(ms)]
               r == state.request
           IN  r.method = MethodOf(m.method) /\ r.path = m.path /\ r.version = m.version
<1> DEFINE all == AllEvents(ms)
           k == Len(all)
           m == ms[Len(ms)]
           r == state.request
<1>1. k \in Nat /\ \A i \in 1 .. k : all[i].kind # "error"
  <2>1. all \in Seq(Reported)
    BY BufferFacts
  <2> QED BY <2>1, LenProperties DEF HasRead
<1>2. /\ IsLatest(r.method, "UNKNOWN", "method", all, k) /\ IsLatest(r.path, "", "url", all, k)
      /\ IsLatest(r.version, "", "version", all, k)
  BY DEF HasRead, LineIsRead
<1>3. PICK b \in Nat :
            /\ b + 3 <= k
            /\ all[b + 1] = Event("method", m.method)
            /\ all[b + 2] = Event("url", m.path)
            /\ all[b + 3] = Event("version", m.version)
            /\ \A i \in b + 1 .. k : /\ all[i].kind = "method" => i = b + 1
                                     /\ all[i].kind = "url" => i = b + 2
                                     /\ all[i].kind = "version" => i = b + 3
  BY <1>1, LastLine
<1> HIDE DEF all, k, m, r
<1>4. /\ b + 1 \in 1 .. k /\ b + 2 \in 1 .. k /\ b + 3 \in 1 .. k
      /\ \A i \in 1 .. k : \A d \in 1 .. 3 : i > b + d => i \in b + 1 .. k /\ i # b + d
  BY <1>1, <1>3
<1>5. r.method = MethodOf(m.method)
  <2> DEFINE p == b + 1
             x == r.method
             first == "UNKNOWN"
  <2>1. all[p].kind = "method" /\ Told(all[p]) = MethodOf(m.method)
    BY <1>3 DEF Event, Told
  <2>2. p \in 1 .. k /\ \A i \in 1 .. k : i > p => all[i].kind # "method"
    BY <1>3, <1>4
  <2>3. IsLatest(x, first, "method", all, k)
    BY <1>2
  <2> HIDE DEF p, x, first
  <2>4. x = Told(all[p])
    BY <1>1, <2>1, <2>2, <2>3, LatestAt
  <2> QED BY <2>1, <2>4 DEF x
<1>6. r.path = m.path
  <2> DEFINE p == b + 2
             x == r.path
             first == ""
  <2>1. all[p].kind = "url" /\ Told(all[p]) = m.path
    BY <1>3 DEF Event, Told
  <2>2. p \in 1 .. k /\ \A i \in 1 .. k : i > p => all[i].kind # "url"
    BY <1>3, <1>4
  <2>3. IsLatest(x, first, "url", all, k)
    BY <1>2
  <2> HIDE DEF p, x, first
  <2>4. x = Told(all[p])
    BY <1>1, <2>1, <2>2, <2>3, LatestAt
  <2> QED BY <2>1, <2>4 DEF x
<1>7. r.version = m.version
  <2> DEFINE p == b + 3
             x == r.version
             first == ""
  <2>1. all[p].kind = "version" /\ Told(all[p]) = m.version
    BY <1>3 DEF Event, Told
  <2>2. p \in 1 .. k /\ \A i \in 1 .. k : i > p => all[i].kind # "version"
    BY <1>3, <1>4
  <2>3. IsLatest(x, first, "version", all, k)
    BY <1>2
  <2> HIDE DEF p, x, first
  <2>4. x = Told(all[p])
    BY <1>1, <2>1, <2>2, <2>3, LatestAt
  <2> QED BY <2>1, <2>4 DEF x
<1> QED BY <1>5, <1>6, <1>7 DEF r, m

\* With no event left the parser has read all the events of its buffer, which begin
\* those of the text and are all of them if the buffer holds its messages whole.
LEMMA FinishedFacts ==
    ASSUME TypeOK, BufferIsRead, outcome = "parsing", events = <<>>
    PROVE  LET all == AllEvents(buffer.messages)
           IN  \E es \in Seq(Reported) :
                /\ Begins(es, all) /\ HasRead(es, Len(es))
                /\ buffer.whole <=> es = all
<1> DEFINE all == AllEvents(buffer.messages)
<1>1. /\ all \in Seq(Reported) /\ Ordered(all)
      /\ \E n \in 0 .. Len(all) : \E es \in CutAfter(all, n) :
            /\ es \in Seq(Reported) /\ Ordered(es)
            /\ buffer.whole <=> es = all
            /\ \E k \in 0 .. Len(es) : HasRead(es, k)
  BY ReadingFacts, Zenon
<1> HIDE DEF all
<1>2. PICK n \in 0 .. Len(all) : \E es \in CutAfter(all, n) :
            /\ es \in Seq(Reported) /\ Ordered(es)
            /\ buffer.whole <=> es = all
            /\ \E k \in 0 .. Len(es) : HasRead(es, k)
  BY <1>1, Zenon
<1>3. PICK es \in CutAfter(all, n) :
            /\ es \in Seq(Reported) /\ Ordered(es)
            /\ buffer.whole <=> es = all
            /\ \E k \in 0 .. Len(es) : HasRead(es, k)
  BY <1>2, Zenon
<1>4. PICK k \in 0 .. Len(es) : HasRead(es, k)
  BY <1>3, Zenon
<1>5. es \in Seq(Reported)
  BY <1>3, Zenon
<1>6. SubSeq(es, k + 1, Len(es)) = <<>>
  BY <1>4 DEF HasRead
<1>7. k = Len(es)
  BY <1>5, <1>6, SuffixFacts
<1>8. HasRead(es, Len(es))
  BY <1>4, <1>7
<1>9. Begins(es, all)
  <2>1. \A i \in 1 .. Len(es) : es[i].kind # "error"
    BY <1>8 DEF HasRead
  <2> QED BY <1>1, <2>1, CutWithoutError
<1> QED BY <1>3, <1>5, <1>8, <1>9, Zenon DEF all

\* Leaving parseRequest keeps the invariant if what it returns is right.
LEMMA LeaveIInv ==
    ASSUME IInv, NEW how \in {"returned", "threw"}, Leave(how),
           LoneRequestIsItsMessage', AcceptedPostIsWhole', WellFormedIsAccepted',
           LastOfManyIsReturned'
    PROVE  IInv'
<1>1. /\ outcome = "parsing" /\ outcome' = how /\ events' = <<>> /\ machine' = "start"
      /\ buffer' = buffer /\ state' = state
  BY DEF Leave, Recharge
<1>2. TypeOK'
  BY <1>1 DEF IInv, TypeOK
<1>3. BufferIsRead'
  BY <1>1 DEF BufferIsRead
<1> QED BY <1>2, <1>3 DEF IInv

\* What is returned is the request that was sent.
LEMMA ReturnIInv ==
    ASSUME IInv, Return
    PROVE  IInv'
<1> DEFINE ms == buffer.messages
           all == AllEvents(ms)
           r == state.request
<1>1. /\ outcome = "parsing" /\ events = <<>> /\ ValidRequest(r) /\ Leave("returned")
      /\ outcome' = "returned" /\ buffer' = buffer /\ state' = state
  BY DEF Return, Finished, Leave
<1>2. ms \in Seq(Messages) /\ ms # <<>>
  BY <1>1 DEF IInv, TypeOK
<1>3. PICK es \in Seq(Reported) :
            /\ Begins(es, all) /\ HasRead(es, Len(es))
            /\ buffer.whole <=> es = all
  BY <1>1, FinishedFacts, Zenon DEF IInv
<1>4. Begins(es, all) /\ HasRead(es, Len(es))
  BY <1>3, Zenon
<1>5. buffer.whole <=> es = all
  BY <1>3, Zenon
<1>6. LineIsRead(es, Len(es)) /\ HeadersAreRead(es, Len(es))
  BY <1>4 DEF HasRead
<1> DEFINE m == ms[1]
<1>7. ASSUME Len(ms) = 1
      PROVE  m \in Messages /\ all = EventsOf(m)
  <2>1. 1 \in 1 .. Len(ms)
    BY <1>7
  <2> QED BY <1>2, <1>7, <2>1, BufferFacts, ElementOfSeq
<1> HIDE DEF ms, all, m
<1>8. ASSUME Len(ms) = 1, r.method = "POST"
      PROVE  r.body = LastPiece(m) /\ (~m.chunked => es = all)
  BY <1>1, <1>4, <1>6, <1>7, <1>8, LonePost
<1>9. ASSUME Len(ms) = 1
      PROVE  /\ r.method = MethodOf(m.method) /\ r.path = m.path /\ r.version = m.version
             /\ \A f \in DOMAIN r.headers : HasFirst(m, f, r.headers[f])
  <2>1. m \in Messages /\ Begins(es, EventsOf(m))
    BY <1>4, <1>7, <1>9
  <2>2. DOMAIN r.headers # {}
    BY <1>1 DEF ValidRequest
  <2>3. \A f \in DOMAIN r.headers : HasFirst(m, f, r.headers[f]) /\ Len(es) > 3
    BY <1>6, <2>1, LoneHeaders
  <2>4. Len(es) >= 3 /\ Len(es) # 3
    <3> DEFINE n == Len(es)
    <3>1. n > 3
      BY <2>2, <2>3
    <3>2. n \in Nat
      BY LenProperties
    <3> HIDE DEF n
    <3>3. n >= 3 /\ n # 3
      BY <3>1, <3>2
    <3> QED BY <3>3 DEF n
  <2>5. r.method = MethodOf(m.method) /\ r.path = m.path /\ r.version = m.version
    BY <1>6, <2>1, <2>4, LoneLine
  <2> QED BY <2>3, <2>5
<1>10. ASSUME Len(ms) = 1
       PROVE  IsPiece(m, r.body) /\ (es = all => r.body = LastPiece(m))
  <2>1. m \in Messages /\ all = EventsOf(m) /\ Begins(es, EventsOf(m))
    BY <1>4, <1>7, <1>10
  <2>2. IsLatest(r.body, <<>>, "body", es, Len(es))
    BY <1>6 DEF LineIsRead
  <2> DEFINE c == Len(m.chunks)
             last == 3 + 3 * m.lead + c
  <2>3. IsPiece(m, r.body) /\ ((c > 0 => last <= Len(es) /\ es[last] = EventsOf(m)[last])
                                    => r.body = LastPiece(m))
    BY <2>1, <2>2, LoneBody
  <2>4. ASSUME es = all
        PROVE  last <= Len(es)
    <3> DEFINE h == Len(m.headers)
               p == m.lead
               k == Len(EventsOf(m))
    <3>1. /\ h \in Nat /\ c \in Nat /\ p \in Nat /\ p <= h /\ Size(m) = 3 + 3 * h + c
          /\ k \in {Size(m), Size(m) + 1}
      BY <2>1, MessageFacts
    <3> HIDE DEF h, p, k, c
    <3>2. 3 + 3 * p + c <= k
      BY <3>1
    <3> QED BY <2>1, <2>4, <3>2 DEF k, p
  <2> QED BY <2>1, <2>3, <2>4
<1>11. ASSUME Len(ms) = 1, buffer.whole \/ r.method = "POST"
       PROVE  r.body = LastPiece(m)
  BY <1>5, <1>8, <1>10, <1>11, Zenon
<1>12. LoneRequestIsItsMessage'
  <2>1. buffer'.messages = ms /\ state'.request = r
    BY <1>1 DEF ms
  <2>2. buffer'.whole <=> buffer.whole
    BY <1>1, Zenon
  <2> QED BY <1>9, <1>10, <1>11, <2>1, <2>2, Zenon DEF LoneRequestIsItsMessage, Lone, ms, m
<1>13. AcceptedPostIsWhole'
  <2>1. buffer'.messages = ms /\ state'.request = r
    BY <1>1 DEF ms
  <2>2. buffer'.whole <=> buffer.whole
    BY <1>1, Zenon
  <2> QED BY <1>5, <1>8, <2>1, <2>2, Zenon DEF AcceptedPostIsWhole, Lone, ms, m
<1>14. LastOfManyIsReturned'
  <2>1. buffer'.messages = ms /\ state'.request = r
    BY <1>1 DEF ms
  <2>2. buffer'.whole <=> buffer.whole
    BY <1>1, Zenon
  <2>3. ASSUME es = all
        PROVE  LET last == ms[Len(ms)]
               IN  /\ r.method = MethodOf(last.method) /\ r.path = last.path
                   /\ r.version = last.version
    BY <1>2, <1>4, <2>3, LastLineIsRead DEF all
  <2> QED BY <1>5, <2>1, <2>2, <2>3, Zenon DEF LastOfManyIsReturned
<1>15. WellFormedIsAccepted'
  BY <1>1 DEF WellFormedIsAccepted
<1> QED BY <1>1, <1>12, <1>13, <1>14, <1>15, LeaveIInv

\* A well-formed message that is read to its end passes the validators.
LEMMA WellFormedIsValid ==
    ASSUME NEW m \in Messages, WellFormed(m), Begins(EventsOf(m), EventsOf(m)),
           LineIsRead(EventsOf(m), Len(EventsOf(m))),
           HeadersAreRead(EventsOf(m), Len(EventsOf(m)))
    PROVE  ValidRequest(state.request)
<1> DEFINE all == EventsOf(m)
           h == Len(m.headers)
           c == Len(m.chunks)
           r == state.request
<1>1. /\ m.path # "" /\ m.version # "" /\ m.headers # <<>>
      /\ m.method \in {"GET", "POST"}
      /\ m.method = "POST" => /\ ~m.chunked /\ m.chunks # <<>>
                              /\ HasFirst(m, ContentType, Json)
                              /\ \E i \in Lengths(m) : m.headers[i][1] = ContentLength
  BY DEF WellFormed
<1>2. h \in Nat /\ c \in Nat /\ Size(m) = 3 + 3 * h + c /\ Len(all) = Size(m)
  BY MessageFacts DEF WellFormed
<1>3. h > 0 /\ DOMAIN m.headers = 1 .. h
  <2>1. m.headers \in Seq(STRING \X STRING)
    BY MessagesAssumption
  <2>2. h # 0
    BY <1>1, <2>1, EmptySeq
  <2>3. DOMAIN m.headers = 1 .. h
    BY <2>1
  <2> HIDE DEF h
  <2> QED BY <1>2, <2>2, <2>3
<1>4. r.method = m.method /\ r.path = m.path /\ r.version = m.version
  <2>1. Len(all) >= 3
    <3> HIDE DEF all, h, c
    <3> QED BY <1>2
  <2>2. r.method = MethodOf(m.method) /\ r.path = m.path /\ r.version = m.version
    BY <2>1, LoneLine
  <2> QED BY <1>1, <2>2 DEF MethodOf
<1>5. /\ \A f \in DOMAIN r.headers : HasFirst(m, f, r.headers[f])
      /\ \A j \in 1 .. h : m.headers[j][1] \in DOMAIN r.headers
  <2>1. /\ \A f \in DOMAIN r.headers : HasFirst(m, f, r.headers[f])
        /\ \A j \in 1 .. h : Place(m, j) + 3 <= Len(all) => m.headers[j][1] \in DOMAIN r.headers
    BY LoneHeaders
  <2>2. \A j \in 1 .. h : Place(m, j) + 3 <= Len(all)
    BY <1>2, PlaceFacts
  <2> QED BY <2>1, <2>2
<1>6. ASSUME ~m.chunked
      PROVE  r.body = LastPiece(m)
  <2>1. IsLatest(r.body, <<>>, "body", all, Len(all))
    BY DEF LineIsRead
  <2>2. m.lead = h
    BY <1>6, MessagesAssumption
  <2>3. (c > 0 => 3 + 3 * m.lead + c <= Len(all)) => r.body = LastPiece(m)
    BY <2>1, LoneBody
  <2> HIDE DEF all, h, c, r
  <2>4. 3 + 3 * m.lead + c <= Len(all)
    BY <1>2, <2>2
  <2> QED BY <2>3, <2>4
<1>7. ASSUME ~m.chunked, m.chunks # <<>>
      PROVE  r.body = m.chunks[1] /\ r.body # <<>>
  <2>1. c = 1 /\ 1 \in 1 .. c
    <3>1. c <= 1 /\ (c = 0 => m.chunks = <<>>)
      BY <1>7, ChunksFacts
    <3> HIDE DEF c
    <3> QED BY <1>2, <1>7, <3>1
  <2>2. m.chunks[1] # <<>> /\ LastPiece(m) = m.chunks[1]
    BY <2>1, ChunksFacts
  <2> QED BY <1>6, <1>7, <2>2
<1> HIDE DEF all, h, c, r
<1>8. DOMAIN r.headers # {}
  <2>1. 1 \in 1 .. h
    BY <1>2, <1>3
  <2> QED BY <1>5, <2>1
<1>9. ASSUME m.method = "POST"
      PROVE  /\ {ContentLength, ContentType} \subseteq DOMAIN r.headers
             /\ Number[r.headers[ContentLength]] = Len(r.body)
             /\ r.headers[ContentType] = Json
             /\ r.body # <<>>
  <2>1. ~m.chunked /\ m.chunks # <<>> /\ HasFirst(m, ContentType, Json)
    BY <1>1, <1>9
  <2>2. ContentLength \in DOMAIN r.headers
    <3>1. PICK i \in Lengths(m) : m.headers[i][1] = ContentLength
      BY <1>1, <1>9
    <3>2. i \in 1 .. h
      BY <1>3 DEF Lengths
    <3> QED BY <1>5, <3>1, <3>2
  <2>3. PICK j \in 1 .. h : /\ m.headers[j] = <<ContentType, Json>>
                            /\ \A i \in 1 .. j - 1 : m.headers[i][1] # ContentType
    BY <1>3, <2>1 DEF HasFirst
  <2>4. ContentType \in DOMAIN r.headers
    <3>1. m.headers[j][1] = ContentType
      BY <2>3
    <3> QED BY <1>5, <3>1
  <2> DEFINE type == r.headers[ContentType]
             length == r.headers[ContentLength]
  <2>5. HasFirst(m, ContentType, type) /\ HasFirst(m, ContentLength, length)
    BY <1>5, <2>2, <2>4
  <2> HIDE DEF type, length
  <2>6. type = Json
    <3>1. PICK i \in 1 .. h : /\ m.headers[i] = <<ContentType, type>>
                              /\ \A g \in 1 .. i - 1 : m.headers[g][1] # ContentType
      BY <1>3, <2>5 DEF HasFirst
    <3>2. m.headers[i][1] = ContentType /\ m.headers[j][1] = ContentType
      BY <2>3, <3>1
    <3>3. ~(i < j) /\ ~(j < i)
      BY <2>3, <3>1, <3>2
    <3>4. i = j
      BY <3>3
    <3> QED BY <2>3, <3>1, <3>4
  <2>7. Number[length] = Len(m.chunks[1])
    BY <2>1, <2>5, LengthFacts
  <2>8. r.body = m.chunks[1] /\ r.body # <<>>
    BY <1>7, <2>1
  <2> QED BY <2>2, <2>4, <2>6, <2>7, <2>8 DEF type, length
<1>10. r.path # "" /\ r.version # "" /\ (r.method = "GET" \/ r.method = "POST")
  BY <1>1, <1>4
<1>11. r.method = "POST" => m.method = "POST"
  BY <1>4
<1> QED BY <1>8, <1>9, <1>10, <1>11 DEF ValidRequest, r

\* What is read of a buffer that holds one message whole.
LEMMA WholeFacts ==
    ASSUME TypeOK, BufferIsRead, outcome = "parsing", Lone, buffer.whole
    PROVE  LET m == buffer.messages[1]
           IN  /\ m \in Messages /\ EventsOf(m) \in Seq(Reported)
               /\ \E k \in 0 .. Len(EventsOf(m)) : HasRead(EventsOf(m), k)
<1> DEFINE ms == buffer.messages
           all == AllEvents(ms)
           m == ms[1]
<1>1. m \in Messages /\ all = EventsOf(m)
  <2>1. ms \in Seq(Messages) /\ ms # <<>> /\ Len(ms) = 1
    BY DEF TypeOK, Lone
  <2>2. 1 \in 1 .. Len(ms)
    BY <2>1
  <2> QED BY <2>1, <2>2, BufferFacts, ElementOfSeq
<1> HIDE DEF m, all
<1>2. PICK n \in 0 .. Len(all) : \E es \in CutAfter(all, n) :
            /\ buffer.whole <=> es = all
            /\ \E k \in 0 .. Len(es) : HasRead(es, k)
  BY Zenon DEF BufferIsRead, all
<1>3. \E k \in 0 .. Len(all) : HasRead(all, k)
  BY <1>2, Zenon
<1>4. EventsOf(m) \in Seq(Reported)
  BY <1>1, MessageFacts
<1> QED BY <1>1, <1>3, <1>4 DEF m

\* llhttp finds no error in a well-formed message that is whole, and no callback
\* reports one.
LEMMA ThrowParsingIInv ==
    ASSUME IInv, ThrowParsing
    PROVE  IInv'
<1>1. /\ outcome = "parsing" /\ Leave("threw") /\ outcome' = "threw"
      /\ buffer' = buffer /\ state' = state
  BY DEF ThrowParsing, Leave
<1> DEFINE m == buffer.messages[1]
           es == EventsOf(m)
           h == Len(m.headers)
<1>2. ASSUME Lone, buffer.whole, WellFormed(m)
      PROVE  FALSE
  <2>1. m \in Messages /\ es \in Seq(Reported) /\ \E k \in 0 .. Len(es) : HasRead(es, k)
    BY <1>1, <1>2, WholeFacts, Zenon DEF IInv
  <2>2. PICK k \in 0 .. Len(es) : HasRead(es, k)
    BY <2>1
  <2>3. /\ events = SubSeq(es, k + 1, Len(es)) /\ machine = (IF k = 0 THEN "start" ELSE "inside")
        /\ HeadersAreRead(es, k)
    BY <2>2 DEF HasRead
  <2> DEFINE p(j) == Place(m, j)
  <2>4. /\ h \in Nat /\ Len(m.chunks) \in Nat /\ Size(m) = 3 + 3 * h + Len(m.chunks)
        /\ Len(es) = Size(m)
        /\ \A j \in 1 .. h : /\ es[p(j) + 1] = Event("field", m.headers[j][1])
                             /\ es[p(j) + 2] = Event("value", m.headers[j][2])
    BY <1>2, <2>1, MessageFacts DEF WellFormed
  <2>5. \A i \in 1 .. Len(es) : /\ es[i].kind # "error"
                                /\ es[i].kind = "complete" => \E j \in 1 .. h : i = p(j) + 3
    BY <1>2, <2>1, MessageKinds DEF WellFormed
  <2>places. \A j \in 1 .. h : p(j) \in Nat
    BY <2>1, PlaceFacts
  <2>6. \A j \in 1 .. h : m.headers[j][1] # "" /\ m.headers[j][2] # ""
    <3>1. DOMAIN m.headers = 1 .. h
      BY <2>1, MessagesAssumption
    <3>2. \A j \in DOMAIN m.headers : m.headers[j][1] # "" /\ m.headers[j][2] # ""
      BY <1>2 DEF WellFormed
    <3> QED BY <3>1, <3>2
  <2>7. events = <<>> => k = Len(es)
    BY <2>1, <2>3, SuffixFacts
  <2>8. events # <<>> => k + 1 \in 1 .. Len(es) /\ Head(events) = es[k + 1]
    BY <2>1, <2>3, SuffixFacts
  <2> HIDE DEF es, m, h, p
  <2>9. CASE events # <<>> /\ Head(events).kind = "error"
    BY <2>5, <2>8, <2>9
  <2>10. CASE /\ events # <<>> /\ Head(events).kind = "complete"
              /\ state.field = "" \/ state.value = ""
    <3>1. PICK j \in 1 .. h : k + 1 = p(j) + 3
      BY <2>5, <2>8, <2>10
    <3>2. k = p(j) + 2 /\ k > 0 /\ k - 1 = p(j) + 1
      <4>1. k \in Int /\ p(j) \in Nat /\ k + 1 = p(j) + 3
        BY <2>places, <3>1
      <4> QED BY <4>1
    <3>3. es[k] = Event("value", m.headers[j][2]) /\ es[k - 1] = Event("field", m.headers[j][1])
      BY <2>4, <3>2
    <3>4. es[k].kind = "value" /\ es[k].arg = m.headers[j][2] /\ es[k - 1].arg = m.headers[j][1]
      BY <3>3 DEF Event
    <3>5. state.value = es[k].arg /\ state.field = es[k - 1].arg
      BY <2>3, <3>2, <3>4 DEF HeadersAreRead
    <3> QED BY <2>6, <2>10, <3>4, <3>5
  <2>11. CASE events = <<>> /\ machine = "start"
    <3>1. k = 0 /\ k = Len(es)
      BY <2>3, <2>7, <2>11
    <3>2. Len(es) >= 3
      <4> DEFINE c == Len(m.chunks)
      <4>1. h \in Nat /\ c \in Nat /\ Len(es) = 3 + 3 * h + c
        BY <2>4, Zenon
      <4> HIDE DEF c
      <4> QED BY <4>1
    <3> QED BY <3>1, <3>2
  <2> QED BY <2>9, <2>10, <2>11 DEF ThrowParsing
<1>3. WellFormedIsAccepted'
  <2>1. buffer'.messages = buffer.messages /\ (buffer'.whole <=> buffer.whole)
    BY <1>1, Zenon
  <2> QED BY <1>2, <2>1, Zenon DEF WellFormedIsAccepted, Lone
<1> HIDE DEF m, es, h
<1>4. LoneRequestIsItsMessage' /\ AcceptedPostIsWhole' /\ LastOfManyIsReturned'
  BY <1>1 DEF LoneRequestIsItsMessage, AcceptedPostIsWhole, LastOfManyIsReturned, Returned
<1> QED BY <1>1, <1>3, <1>4, LeaveIInv

\* No validator refuses it.
LEMMA ThrowValidationIInv ==
    ASSUME IInv, ThrowValidation
    PROVE  IInv'
<1>1. /\ outcome = "parsing" /\ events = <<>> /\ ~ValidRequest(state.request)
      /\ Leave("threw") /\ outcome' = "threw" /\ buffer' = buffer /\ state' = state
  BY DEF ThrowValidation, Finished, Leave
<1> DEFINE ms == buffer.messages
           m == ms[1]
<1>2. ASSUME Lone, buffer.whole, WellFormed(m)
      PROVE  FALSE
  <2>1. PICK es \in Seq(Reported) :
            /\ Begins(es, AllEvents(ms)) /\ HasRead(es, Len(es))
            /\ buffer.whole <=> es = AllEvents(ms)
    BY <1>1, FinishedFacts, Zenon DEF IInv
  <2>2. es = AllEvents(ms)
    BY <1>2, <2>1, Zenon
  <2>3. Begins(es, es) /\ HasRead(es, Len(es))
    BY <2>1, <2>2, Zenon
  <2>4. m \in Messages /\ es = EventsOf(m)
    <3>1. ms \in Seq(Messages) /\ ms # <<>> /\ Len(ms) = 1
      BY <1>1, <1>2 DEF IInv, TypeOK, Lone
    <3>2. 1 \in 1 .. Len(ms)
      BY <3>1
    <3> QED BY <2>2, <3>1, <3>2, BufferFacts, ElementOfSeq
  <2>5. LineIsRead(es, Len(es)) /\ HeadersAreRead(es, Len(es))
    BY <2>3 DEF HasRead
  <2> HIDE DEF m
  <2> QED BY <1>1, <1>2, <2>3, <2>4, <2>5, WellFormedIsValid
<1>3. WellFormedIsAccepted'
  <2>1. buffer'.messages = ms /\ (buffer'.whole <=> buffer.whole)
    BY <1>1, Zenon
  <2> QED BY <1>2, <2>1, Zenon DEF WellFormedIsAccepted, Lone
<1>4. LoneRequestIsItsMessage' /\ AcceptedPostIsWhole' /\ LastOfManyIsReturned'
  BY <1>1 DEF LoneRequestIsItsMessage, AcceptedPostIsWhole, LastOfManyIsReturned, Returned
<1> QED BY <1>1, <1>3, <1>4, LeaveIInv

-----------------------------------------------------------------------------
(* Theorems *)

\* Every step keeps the inductive invariant: while the parser reads a buffer, its
\* request is what the events read so far tell, in the order of the text.
THEOREM InductiveInvariant == Spec => []IInv
<1>1. Init => IInv
  BY InitIInv
<1>2. IInv /\ [Next]_vars => IInv'
  <2> SUFFICES ASSUME IInv, [Next]_vars
               PROVE  IInv'
    OBVIOUS
  <2>1. CASE ParseRequest
    BY <2>1, ParseRequestIInv
  <2>2. CASE NextBuffer
    BY <2>2, NextBufferIInv
  <2>3. CASE OnMethod
    BY <2>3, OnMethodIInv
  <2>4. CASE OnUrl
    BY <2>4, OnUrlIInv
  <2>5. CASE OnVersion
    BY <2>5, OnVersionIInv
  <2>6. CASE OnBody
    BY <2>6, OnBodyIInv
  <2>7. CASE OnHeaderField
    BY <2>7, OnHeaderFieldIInv
  <2>8. CASE OnHeaderValue
    BY <2>8, OnHeaderValueIInv
  <2>9. CASE OnHeaderValueComplete
    BY <2>9, OnHeaderValueCompleteIInv
  <2>10. CASE ThrowParsing
    BY <2>10, ThrowParsingIInv
  <2>11. CASE ThrowValidation
    BY <2>11, ThrowValidationIInv
  <2>12. CASE Return
    BY <2>12, ReturnIInv
  <2>13. CASE UNCHANGED vars
    <3>1. /\ buffer' = buffer /\ events' = events /\ machine' = machine
          /\ state' = state /\ outcome' = outcome
      BY <2>13 DEF vars
    <3>2. TypeOK'
      BY <3>1 DEF IInv, TypeOK
    <3>3. (buffer'.whole <=> buffer.whole) /\ buffer'.messages = buffer.messages
      BY <3>1, Zenon
    <3>4. BufferIsRead'
      <4>1. ASSUME NEW es, NEW k, HasRead(es, k)
            PROVE  HasRead(es, k)'
        <5>1. LineIsRead(es, k)'
          BY <3>1, <4>1 DEF HasRead, LineIsRead
        <5>2. HeadersAreRead(es, k)'
          BY <3>1, <4>1 DEF HasRead, HeadersAreRead
        <5> QED BY <3>1, <4>1, <5>1, <5>2 DEF HasRead
      <4>2. BufferIsRead
        BY DEF IInv
      <4> QED BY <3>1, <3>3, <4>1, <4>2, Zenon DEF BufferIsRead
    <3>5. LoneRequestIsItsMessage' /\ AcceptedPostIsWhole'
      BY <3>1, <3>3, Zenon
         DEF IInv, LoneRequestIsItsMessage, AcceptedPostIsWhole, Returned, Lone
    <3>6. WellFormedIsAccepted' /\ LastOfManyIsReturned'
      BY <3>1, <3>3, Zenon DEF IInv, WellFormedIsAccepted, LastOfManyIsReturned, Returned, Lone
    <3> QED BY <3>2, <3>4, <3>5, <3>6 DEF IInv
  <2> QED BY <2>1, <2>2, <2>3, <2>4, <2>5, <2>6, <2>7, <2>8, <2>9, <2>10, <2>11, <2>12, <2>13
          DEF Next
<1> QED BY <1>1, <1>2, PTL DEF Spec

\* The state keeps its type; no header that is kept has an empty name or value.
THEOREM TypeCorrect == Spec => []TypeOK
<1>1. IInv => TypeOK
  BY DEF IInv
<1> QED BY <1>1, InductiveInvariant, PTL

\* The request of a buffer with one message is that message's line and the first of
\* each of its headers, however it was cut; the body is nothing or a piece of the
\* message's, and its last piece if the message is whole or the request a POST.
THEOREM LoneRequest == Spec => []LoneRequestIsItsMessage
<1>1. IInv => LoneRequestIsItsMessage
  BY DEF IInv
<1> QED BY <1>1, InductiveInvariant, PTL

\* A POST that is accepted from a buffer with one message arrived whole, unless it
\* is in chunks.
THEOREM PostIsWhole == Spec => []AcceptedPostIsWhole
<1>1. IInv => AcceptedPostIsWhole
  BY DEF IInv
<1> QED BY <1>1, InductiveInvariant, PTL

\* A well-formed message that arrives whole and alone is accepted, whatever the
\* parser was given before.
THEOREM WellFormedAccepted == Spec => []WellFormedIsAccepted
<1>1. IInv => WellFormedIsAccepted
  BY DEF IInv
<1> QED BY <1>1, InductiveInvariant, PTL

\* Of messages that arrive whole in one buffer the line of the last is returned.
THEOREM LastOfMany == Spec => []LastOfManyIsReturned
<1>1. IInv => LastOfManyIsReturned
  BY DEF IInv
<1> QED BY <1>1, InductiveInvariant, PTL

=============================================================================
