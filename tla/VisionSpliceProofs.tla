-------------------------- MODULE VisionSpliceProofs --------------------------
(***************************************************************************)
(* VisionSplice for every number of units, of key updates and of inspected *)
(* packets: the target gets the client's stream, and the client can decode *)
(* what it is sent, across the switches to raw and the hand-over.          *)
(***************************************************************************)
EXTENDS VisionSplice, SequenceTheorems, TLAPS

-----------------------------------------------------------------------------
(***************************************************************************)
(* The inductive invariant has one half per direction; they share no       *)
(* variable but pc.                                                        *)
(***************************************************************************)


\* A record that ends the framing: what follows it is raw.
Switch(it) == it.k = "record" /\ it.cmd = "direct"
Weight(it) == IF it.k = "rekey" THEN 0 ELSE 1

\* What is under way behind lo units that have arrived, in a stream that is already raw or not: each
\* item carries the count of the units up to it, it is raw exactly behind a switch, and from the
\* first raw unit on every item is a unit.
Numbered(s, lo) == \A i \in 1..Len(s) : s[i].n = (IF i = 1 THEN lo ELSE s[i - 1].n) + Weight(s[i])
RawBehind(s, raw) ==
  \A i \in 1..Len(s) : s[i].k = "raw" <=> (raw \/ \E j \in 1..(i - 1) : Switch(s[j]))
RawRun(s) == \A i \in 1..Len(s) : \A j \in 1..i : s[j].k = "raw" => s[i].n = s[j].n + (i - j)
Follows(s, lo, raw) == Numbered(s, lo) /\ RawBehind(s, raw) /\ RawRun(s)
Last(s, lo) == IF s = <<>> THEN lo ELSE s[Len(s)].n

\* n is the number of units the stream ends with, and gone tells whether its sender has gone raw.
Stream(s, lo, raw, n, gone) ==
  /\ Follows(s, lo, raw)
  /\ n = Last(s, lo)
  /\ gone <=> (raw \/ \E j \in 1..Len(s) : Switch(s[j]))

WireItem == [k : {"record", "raw", "rekey"}, cmd : {"continue", "end", "direct", "plain"}, n : Nat]
Line == inbuf \o wire

UpType ==
  /\ inbuf \in Seq(WireItem) /\ wire \in Seq(WireItem) /\ upOut \in Seq(Nat) /\ csent \in Nat
  /\ uspl \in BOOLEAN /\ udone \in BOOLEAN /\ upFin \in BOOLEAN /\ cfin \in BOOLEAN
  /\ cmode \in {"pad", "plain", "raw"}
UpInv ==
  /\ UpType
  /\ Stream(Line, Len(upOut), uspl, csent, cmode = "raw")
  /\ \A i \in 1..Len(upOut) : upOut[i] = i
  /\ upFin => cfin /\ inbuf = <<>> /\ wire = <<>>
  /\ pc = "raw" => uspl /\ inbuf = <<>>

DnItem == [form : {"tls", "raw"}, cmd : {"continue", "end", "direct", "plain", "rekey"},
           uuid : BOOLEAN, n : Nat]
\* The item at place i, a unit, given those in front of it.
Placed(d, i) ==
  /\ \A j \in 1..(i - 1) : d[j].n < d[i].n
  /\ d[i].n = 1 \/ \E j \in 1..(i - 1) : d[j].n = d[i].n - 1
  /\ d[i].uuid <=> d[i].n = 1
  /\ d[i].cmd = "plain" <=> \E j \in 1..(i - 1) : d[j].cmd \in {"end", "direct"}
\* Whatever the item at place i is, it has the form the client is waiting for.
Formed(d, i) == d[i].form = "raw" <=> \E j \in 1..(i - 1) : d[j].cmd = "direct"
\* What was put on the client's socket once m units went through.
Decodable(d, m, raw, pad) ==
  /\ \A i \in 1..Len(d) : d[i].n <= m
  /\ \A n \in 1..m : \E i \in 1..Len(d) : d[i].n = n
  /\ raw <=> \E i \in 1..Len(d) : d[i].cmd = "direct"
  /\ pad <=> \A i \in 1..Len(d) : d[i].cmd \notin {"end", "direct"}
  /\ \A i \in 1..Len(d) : Formed(d, i) /\ (d[i].n > 0 => Placed(d, i))

DnType ==
  /\ dn \in Seq(DnItem) /\ tq \in Seq([kind : Kinds, n : Nat]) /\ tsent \in Nat
  /\ dspl \in BOOLEAN /\ padding \in BOOLEAN /\ uuidOnce \in BOOLEAN /\ tfin \in BOOLEAN
  /\ dnFin \in BOOLEAN /\ answer \in BOOLEAN
DnInv ==
  /\ DnType
  /\ Len(tq) <= tsent
  /\ \A i \in 1..Len(tq) : tq[i].n = (tsent - Len(tq)) + i
  /\ Decodable(dn, tsent - Len(tq), dspl, padding)
  /\ uuidOnce <=> tsent = Len(tq)
  /\ uuidOnce => padding
  /\ dnFin => tfin /\ tq = <<>>
  /\ pc = "raw" => dspl

-----------------------------------------------------------------------------
(* Sequences of items *)

\* The items of a sequence have a number.
LEMMA ItemsOf ==
  ASSUME NEW s \in Seq(WireItem)
  PROVE  /\ Len(s) \in Nat /\ (s = <<>> <=> Len(s) = 0)
         /\ \A i \in 1..Len(s) : s[i] \in WireItem /\ s[i].n \in Nat /\ Weight(s[i]) \in Nat
<1>1. Len(s) \in Nat /\ (s = <<>> <=> Len(s) = 0)
  BY LenProperties, EmptySeq, Zenon
<1>2. ASSUME NEW i \in 1..Len(s) PROVE s[i] \in WireItem
  BY ElementOfSeq, Zenon
<1>3. \A it \in WireItem : it.n \in Nat /\ Weight(it) \in Nat
  BY Zenon DEF WireItem, Weight
<1> QED
  BY <1>1, <1>2, <1>3, Zenon

\* One more item at the end.
LEMMA OneMore ==
  ASSUME NEW s \in Seq(WireItem), NEW it \in WireItem, NEW lo \in Nat, NEW raw \in BOOLEAN,
         Follows(s, lo, raw), it.n = Last(s, lo) + Weight(it),
         it.k = "raw" <=> (raw \/ \E j \in 1..Len(s) : Switch(s[j])),
         it.k = "rekey" => ~raw /\ ~\E j \in 1..Len(s) : Switch(s[j])
  PROVE  Follows(Append(s, it), lo, raw) /\ Last(Append(s, it), lo) = it.n
<1> DEFINE t == Append(s, it)
<1>1. /\ t \in Seq(WireItem) /\ t # <<>> /\ Len(t) = Len(s) + 1
      /\ \A i \in 1..Len(s) : t[i] = s[i]
      /\ t[Len(s) + 1] = it
  BY AppendProperties
<1>a. /\ Len(s) \in Nat /\ (s = <<>> <=> Len(s) = 0)
      /\ \A i \in 1..Len(s) : s[i].n \in Nat
  BY ItemsOf, Zenon
<1> HIDE DEF t
<1>2. Numbered(t, lo)
  <2> SUFFICES ASSUME NEW i \in 1..Len(t)
               PROVE  t[i].n = (IF i = 1 THEN lo ELSE t[i - 1].n) + Weight(t[i])
    BY Zenon DEF Numbered
  <2>1. CASE i \in 1..Len(s)
    <3>1. t[i] = s[i] /\ (i # 1 => t[i - 1] = s[i - 1])
      BY <1>1, <1>a, <2>1, SMTT(30)
    <3>2. s[i].n = (IF i = 1 THEN lo ELSE s[i - 1].n) + Weight(s[i])
      BY <2>1, Zenon DEF Follows, Numbered
    <3> QED
      BY <3>1, <3>2, Zenon
  <2>2. CASE i = Len(s) + 1
    BY <1>1, <1>a, <2>2 DEF Last
  <2> QED
    BY <1>1, <1>a, <2>1, <2>2
<1>3. RawBehind(t, raw)
  <2> SUFFICES ASSUME NEW i \in 1..Len(t)
               PROVE  t[i].k = "raw" <=> (raw \/ \E j \in 1..(i - 1) : Switch(t[j]))
    BY Zenon DEF RawBehind
  <2>1. \A j \in 1..(i - 1) : t[j] = s[j]
    BY <1>1, <1>a
  <2>2. CASE i \in 1..Len(s)
    BY <1>1, <2>1, <2>2, Zenon DEF Follows, RawBehind
  <2>3. CASE i = Len(s) + 1
    <3>1. i - 1 = Len(s)
      BY <1>a, <2>3
    <3> QED
      BY <1>1, <2>1, <2>3, <3>1, Zenon
  <2> QED
    BY <1>1, <1>a, <2>2, <2>3
<1>4. RawRun(t)
  <2> SUFFICES ASSUME NEW i \in 1..Len(t), NEW j \in 1..i, t[j].k = "raw"
               PROVE  t[i].n = t[j].n + (i - j)
    BY Zenon DEF RawRun
  <2>1. CASE i \in 1..Len(s)
    <3>1. t[i] = s[i] /\ t[j] = s[j]
      BY <1>1, <1>a, <2>1
    <3> QED
      BY <2>1, <3>1, Zenon DEF Follows, RawRun
  <2>2. CASE i = Len(s) + 1
    <3>1. CASE j = i
      BY <1>1, <1>a, <2>2, <3>1 DEF WireItem
    <3>2. CASE j # i
      <4>1. j \in 1..Len(s) /\ t[j] = s[j] /\ t[i] = it /\ Len(s) \in 1..Len(s) /\ s # <<>>
        BY <1>1, <1>a, <2>2, <3>2
      <4>2. s[Len(s)].n = s[j].n + (Len(s) - j)
        BY <4>1, Zenon DEF Follows, RawRun
      <4>3. it.k # "rekey"
        <5>1. raw \/ \E l \in 1..(j - 1) : Switch(s[l])
          BY <4>1, Zenon DEF Follows, RawBehind
        <5>2. 1..(j - 1) \subseteq 1..Len(s)
          BY <4>1, <1>a
        <5> QED
          BY <5>1, <5>2, Zenon
      <4>4. it.n = s[Len(s)].n + 1
        BY <4>1, <4>3, Zenon DEF Last, Weight
      <4> QED
        BY <1>a, <2>2, <4>1, <4>2, <4>4
    <3> QED
      BY <3>1, <3>2, Zenon
  <2> QED
    BY <1>1, <1>a, <2>1, <2>2
<1>5. Last(t, lo) = it.n
  BY <1>1, Zenon DEF Last
<1> QED
  BY <1>2, <1>3, <1>4, <1>5, Zenon DEF t, Follows

\* The first item is taken.
LEMMA FirstTaken ==
  ASSUME NEW s \in Seq(WireItem), s # <<>>, NEW lo \in Nat, NEW raw \in BOOLEAN,
         Follows(s, lo, raw)
  PROVE  /\ s[1].n = lo + Weight(s[1]) /\ (s[1].k = "raw" <=> raw)
         /\ Follows(Tail(s), s[1].n, raw \/ Switch(s[1]))
         /\ Last(Tail(s), s[1].n) = Last(s, lo)
<1> DEFINE t == Tail(s)
<1>1. /\ t \in Seq(WireItem) /\ Len(t) = Len(s) - 1
      /\ \A i \in 1..Len(t) : t[i] = s[i + 1]
  BY HeadTailProperties, Zenon
<1>a. Len(s) \in Nat /\ Len(s) # 0 /\ Len(t) \in Nat /\ (t = <<>> <=> Len(t) = 0)
  BY <1>1, ItemsOf, Zenon
<1> HIDE DEF t
<1>2. s[1].n = lo + Weight(s[1]) /\ (s[1].k = "raw" <=> raw)
  <2>1. s[1].n = lo + Weight(s[1])
    BY <1>a DEF Follows, Numbered
  <2>2. 1 \in 1..Len(s) /\ 1..(1 - 1) = {}
    BY <1>a
  <2> QED
    BY <2>1, <2>2, Zenon DEF Follows, RawBehind
<1>3. Numbered(t, s[1].n)
  <2> SUFFICES ASSUME NEW i \in 1..Len(t)
               PROVE  t[i].n = (IF i = 1 THEN s[1].n ELSE t[i - 1].n) + Weight(t[i])
    BY Zenon DEF Numbered
  <2>a. /\ i + 1 \in 1..Len(s) /\ (i + 1) - 1 = i /\ i + 1 # 1
        /\ i # 1 => i - 1 \in 1..Len(t) /\ (i - 1) + 1 = i
    BY <1>1, <1>a
  <2>1. /\ i + 1 \in 1..Len(s) /\ t[i] = s[i + 1] /\ (i + 1) - 1 = i /\ i + 1 # 1
        /\ i # 1 => t[i - 1] = s[i]
    BY <1>1, <2>a, Zenon
  <2>2. s[i + 1].n = s[i].n + Weight(s[i + 1])
    BY <2>1, Zenon DEF Follows, Numbered
  <2> QED
    BY <2>1, <2>2, Zenon
<1>4. RawBehind(t, raw \/ Switch(s[1]))
  <2> SUFFICES ASSUME NEW i \in 1..Len(t)
               PROVE  t[i].k = "raw" <=> ((raw \/ Switch(s[1])) \/ \E j \in 1..(i - 1) : Switch(t[j]))
    BY Zenon DEF RawBehind
  <2>1. i + 1 \in 1..Len(s) /\ t[i] = s[i + 1] /\ (i + 1) - 1 = i
    BY <1>1, <1>a
  <2>2. s[i + 1].k = "raw" <=> (raw \/ \E j \in 1..i : Switch(s[j]))
    BY <2>1, Zenon DEF Follows, RawBehind
  <2>3. (\E j \in 1..i : Switch(s[j])) <=> (Switch(s[1]) \/ \E j \in 1..(i - 1) : Switch(t[j]))
    <3>1. ASSUME NEW j \in 1..i, Switch(s[j]) PROVE Switch(s[1]) \/ \E k \in 1..(i - 1) : Switch(t[k])
      <4>1. CASE j = 1
        BY <3>1, <4>1, Zenon
      <4>2. CASE j # 1
        <5>1. j - 1 \in 1..(i - 1) /\ t[j - 1] = s[j]
          BY <1>1, <1>a, <4>2, SMTT(30)
        <5> QED
          BY <3>1, <5>1, Zenon
      <4> QED
        BY <4>1, <4>2, Zenon
    <3>2. ASSUME NEW j \in 1..(i - 1), Switch(t[j]) PROVE \E k \in 1..i : Switch(s[k])
      <4>1. j + 1 \in 1..i /\ t[j] = s[j + 1]
        BY <1>1, <1>a
      <4> QED
        BY <3>2, <4>1, Zenon
    <3>3. 1 \in 1..i
      BY <1>a
    <3> QED
      BY <3>1, <3>2, <3>3, Zenon
  <2> QED
    BY <2>1, <2>2, <2>3, Zenon
<1>5. RawRun(t)
  <2> SUFFICES ASSUME NEW i \in 1..Len(t), NEW j \in 1..i, t[j].k = "raw"
               PROVE  t[i].n = t[j].n + (i - j)
    BY Zenon DEF RawRun
  <2>1. /\ i + 1 \in 1..Len(s) /\ t[i] = s[i + 1] /\ j + 1 \in 1..(i + 1) /\ t[j] = s[j + 1]
        /\ (i + 1) - (j + 1) = i - j
    <3>1. /\ i + 1 \in 1..Len(s) /\ j \in 1..Len(t) /\ j + 1 \in 1..(i + 1)
          /\ (i + 1) - (j + 1) = i - j
      BY <1>1, <1>a
    <3> QED
      BY <1>1, <3>1, Zenon
  <2> QED
    BY <2>1, Zenon DEF Follows, RawRun
<1>6. Last(t, s[1].n) = Last(s, lo)
  BY <1>1, <1>a DEF Last
<1> QED
  BY <1>2, <1>3, <1>4, <1>5, <1>6, Zenon DEF t, Follows

\* The first m items of a stream that is raw already are taken.
LEMMA RawTaken ==
  ASSUME NEW s \in Seq(WireItem), NEW m \in 0..Len(s), NEW lo \in Nat, Follows(s, lo, TRUE)
  PROVE  /\ \A i \in 1..Len(s) : s[i].k = "raw" /\ s[i].n = lo + i
         /\ Follows(SubSeq(s, m + 1, Len(s)), lo + m, TRUE)
         /\ Last(SubSeq(s, m + 1, Len(s)), lo + m) = Last(s, lo)
<1> DEFINE t == SubSeq(s, m + 1, Len(s))
<1>a. Len(s) \in Nat /\ (s = <<>> <=> Len(s) = 0) /\ \A i \in 1..Len(s) : s[i] \in WireItem
  BY ItemsOf, Zenon
<1>1. /\ t \in Seq(WireItem) /\ Len(t) = Len(s) - m
      /\ \A i \in 1..Len(t) : t[i] = s[m + i]
  BY <1>a, SubSeqProperties
<1>b. Len(t) \in Nat /\ (t = <<>> <=> Len(t) = 0)
  BY <1>1, ItemsOf, Zenon
<1> HIDE DEF t
<1>2. \A i \in 1..Len(s) : s[i].k = "raw"
  BY Zenon DEF Follows, RawBehind
<1>3. \A i \in 1..Len(s) : s[i].n = lo + i
  <2>1. Len(s) > 0 => s[1].n = lo + 1
    BY <1>a, <1>2 DEF Follows, Numbered, Weight
  <2> SUFFICES ASSUME NEW i \in 1..Len(s) PROVE s[i].n = lo + i
    BY Zenon
  <2>2. 1 \in 1..i /\ 1 \in 1..Len(s) /\ Len(s) > 0
    BY <1>a
  <2>3. s[i].n = s[1].n + (i - 1)
    BY <1>2, <2>2, Zenon DEF Follows, RawRun
  <2> QED
    BY <2>1, <2>2, <2>3
<1>4. Numbered(t, lo + m)
  <2> SUFFICES ASSUME NEW i \in 1..Len(t)
               PROVE  t[i].n = (IF i = 1 THEN lo + m ELSE t[i - 1].n) + Weight(t[i])
    BY Zenon DEF Numbered
  <2>1. /\ t[i] = s[m + i] /\ m + i \in 1..Len(s)
        /\ i # 1 => t[i - 1] = s[m + (i - 1)] /\ m + (i - 1) \in 1..Len(s)
    <3>1. /\ m + i \in 1..Len(s)
          /\ i # 1 => i - 1 \in 1..Len(t) /\ m + (i - 1) \in 1..Len(s)
      BY <1>a, <1>1
    <3> QED
      BY <1>1, <3>1, Zenon
  <2>2. Weight(t[i]) = 1
    BY <1>2, <2>1, Zenon DEF Weight
  <2> QED
    <3>1. t[i].n = lo + (m + i)
      BY <1>3, <2>1, Zenon
    <3>2. i # 1 => t[i - 1].n = lo + (m + (i - 1))
      BY <1>3, <2>1, Zenon
    <3> HIDE DEF t
    <3> QED
      BY <2>2, <3>1, <3>2
<1>5. RawBehind(t, TRUE) /\ RawRun(t)
  <2>1. ASSUME NEW i \in 1..Len(t) PROVE t[i].k = "raw" /\ t[i].n = lo + (m + i)
    <3>1. m + i \in 1..Len(s)
      BY <1>a, <1>1
    <3> QED
      BY <1>1, <1>2, <1>3, <3>1, Zenon
  <2>2. RawBehind(t, TRUE)
    BY <2>1, Zenon DEF RawBehind
  <2>3. ASSUME NEW i \in 1..Len(t), NEW j \in 1..i PROVE t[i].n = t[j].n + (i - j)
    <3>1. t[i].n = lo + (m + i)
      BY <2>1, Zenon
    <3>2. j \in 1..Len(t)
      BY <1>b
    <3>3. t[j].n = lo + (m + j)
      BY <2>1, <3>2, Zenon
    <3> QED
      BY <3>1, <3>3
  <2>4. RawRun(t)
    BY <2>3, Zenon DEF RawRun
  <2> QED
    BY <2>2, <2>4, Zenon
<1>6. Last(t, lo + m) = Last(s, lo)
  BY <1>a, <1>1, <1>b, <1>3 DEF Last
<1> QED
  BY <1>2, <1>3, <1>4, <1>5, <1>6, Zenon DEF t, Follows

\* Two sequences end to end: one more at the end, the first one gone, and the second alone.
LEMMA EndToEnd ==
  ASSUME NEW S, NEW a \in Seq(S), NEW b \in Seq(S)
  PROVE  /\ a \o b \in Seq(S) /\ Len(a \o b) = Len(a) + Len(b)
         /\ \A e \in S : a \o Append(b, e) = Append(a \o b, e)
         /\ b = SubSeq(a \o b, Len(a) + 1, Len(a \o b))
         /\ <<>> \o b = b
<1>1. /\ a \o b \in Seq(S) /\ Len(a \o b) = Len(a) + Len(b) /\ Len(a) \in Nat /\ Len(b) \in Nat
      /\ \A i \in 1..(Len(a) + Len(b)) : (a \o b)[i] = IF i <= Len(a) THEN a[i] ELSE b[i - Len(a)]
  BY ConcatProperties, LenProperties, Zenon
<1>2. ASSUME NEW e \in S PROVE a \o Append(b, e) = Append(a \o b, e)
  <2> DEFINE u == a \o Append(b, e)
             v == Append(a \o b, e)
  <2>1. /\ Append(b, e) \in Seq(S) /\ Len(Append(b, e)) = Len(b) + 1
        /\ Append(b, e)[Len(b) + 1] = e /\ \A i \in 1..Len(b) : Append(b, e)[i] = b[i]
    BY AppendProperties
  <2>2. /\ u \in Seq(S) /\ Len(u) = Len(a) + (Len(b) + 1)
        /\ \A i \in 1..(Len(a) + (Len(b) + 1)) :
             u[i] = IF i <= Len(a) THEN a[i] ELSE Append(b, e)[i - Len(a)]
    BY <2>1, ConcatProperties
  <2>3. /\ v \in Seq(S) /\ Len(v) = Len(a) + Len(b) + 1 /\ v[Len(a) + Len(b) + 1] = e
        /\ \A i \in 1..(Len(a) + Len(b)) : v[i] = (a \o b)[i]
    BY <1>1, AppendProperties
  <2> HIDE DEF u, v
  <2>4. ASSUME NEW i \in 1..Len(u) PROVE u[i] = v[i]
    <3>1. CASE i <= Len(a)
      BY <1>1, <2>2, <2>3, <3>1, SMTT(30)
    <3>2. CASE i > Len(a) /\ i <= Len(a) + Len(b)
      <4>1. i - Len(a) \in 1..Len(b) /\ ~(i <= Len(a)) /\ i \in 1..(Len(a) + Len(b))
        BY <1>1, <3>2
      <4>2. u[i] = b[i - Len(a)]
        BY <1>1, <2>1, <2>2, <4>1, Zenon
      <4> QED
        BY <1>1, <2>3, <4>1, <4>2, Zenon
    <3>3. CASE i = Len(a) + (Len(b) + 1)
      <4>1. i - Len(a) = Len(b) + 1 /\ ~(i <= Len(a)) /\ i = Len(a) + Len(b) + 1
        BY <1>1, <3>3
      <4> QED
        BY <2>1, <2>2, <2>3, <4>1, Zenon
    <3> QED
      BY <1>1, <2>2, <3>1, <3>2, <3>3
  <2> QED
    BY <1>1, <2>2, <2>3, <2>4, SeqEqual DEF u, v
<1>3. b = SubSeq(a \o b, Len(a) + 1, Len(a \o b))
  <2> DEFINE u == SubSeq(a \o b, Len(a) + 1, Len(a) + Len(b))
  <2>1. \A i \in (Len(a) + 1)..(Len(a) + Len(b)) : (a \o b)[i] \in S
    BY <1>1, ElementOfSeq
  <2>2. /\ u \in Seq(S) /\ Len(u) = Len(b)
        /\ \A i \in 1..Len(b) : u[i] = (a \o b)[Len(a) + i]
    BY <1>1, <2>1, SubSeqProperties
  <2> HIDE DEF u
  <2>3. ASSUME NEW i \in 1..Len(b) PROVE u[i] = b[i]
    <3>1. Len(a) + i \in 1..(Len(a) + Len(b)) /\ ~(Len(a) + i <= Len(a)) /\ Len(a) + i - Len(a) = i
      BY <1>1
    <3> QED
      BY <1>1, <2>2, <3>1
  <2> QED
    BY <1>1, <2>2, <2>3, SeqEqual, Zenon DEF u
<1> QED
  BY <1>1, <1>2, <1>3, ConcatEmptySeq, Zenon

\* The first item of the two is the first of the first.
LEMMA FirstOfTwo ==
  ASSUME NEW S, NEW a \in Seq(S), NEW b \in Seq(S), a # <<>>
  PROVE  a \o b # <<>> /\ (a \o b)[1] = Head(a) /\ Tail(a) \o b = Tail(a \o b)
<1>1. /\ a \o b \in Seq(S) /\ Len(a \o b) = Len(a) + Len(b) /\ Len(a) \in Nat /\ Len(b) \in Nat
      /\ \A i \in 1..(Len(a) + Len(b)) : (a \o b)[i] = IF i <= Len(a) THEN a[i] ELSE b[i - Len(a)]
  BY ConcatProperties, LenProperties, Zenon
<1>2. Len(a) # 0 /\ 1 \in 1..(Len(a) + Len(b)) /\ a \o b # <<>>
  BY <1>1, EmptySeq
<1>3. (a \o b)[1] = a[1] /\ Head(a) = a[1]
  BY <1>1, <1>2
<1>4. /\ Tail(a) \in Seq(S) /\ Len(Tail(a)) = Len(a) - 1
      /\ \A i \in 1..(Len(a) - 1) : Tail(a)[i] = a[i + 1]
  BY HeadTailProperties, Zenon
<1> DEFINE u == Tail(a) \o b
           v == Tail(a \o b)
<1>5. /\ u \in Seq(S) /\ Len(u) = (Len(a) - 1) + Len(b)
      /\ \A i \in 1..((Len(a) - 1) + Len(b)) :
           u[i] = IF i <= Len(a) - 1 THEN Tail(a)[i] ELSE b[i - (Len(a) - 1)]
  BY <1>4, ConcatProperties
<1>6. /\ v \in Seq(S) /\ Len(v) = (Len(a) + Len(b)) - 1
      /\ \A i \in 1..((Len(a) + Len(b)) - 1) : v[i] = (a \o b)[i + 1]
  BY <1>1, <1>2, HeadTailProperties
<1> HIDE DEF u, v
<1>7. ASSUME NEW i \in 1..Len(u) PROVE u[i] = v[i]
  <2>1. /\ i + 1 \in 1..(Len(a) + Len(b)) /\ i \in 1..((Len(a) + Len(b)) - 1)
        /\ i - (Len(a) - 1) = (i + 1) - Len(a)
        /\ i <= Len(a) - 1 <=> i + 1 <= Len(a)
        /\ i <= Len(a) - 1 => i \in 1..(Len(a) - 1)
        /\ i \in 1..((Len(a) - 1) + Len(b))
    BY <1>1, <1>2, <1>5
  <2> QED
    BY <1>1, <1>4, <1>5, <1>6, <2>1, Zenon
<1> QED
  BY <1>1, <1>2, <1>3, <1>5, <1>6, <1>7, SeqEqual, SMTT(30) DEF u, v

-----------------------------------------------------------------------------
(* The uplink of the splice *)

\* More of the stream is on the wire.
LEMMA MoreSent ==
  ASSUME NEW s \in Seq(WireItem), NEW it \in WireItem, NEW lo \in Nat, NEW raw \in BOOLEAN,
         NEW n \in Nat, NEW gone \in BOOLEAN, Stream(s, lo, raw, n, gone),
         it.n = n + Weight(it), it.k = "raw" <=> gone, it.k = "rekey" => ~gone
  PROVE  Stream(Append(s, it), lo, raw, it.n, gone \/ Switch(it))
<1>1. Follows(Append(s, it), lo, raw) /\ Last(Append(s, it), lo) = it.n
  <2>1. n = Last(s, lo) /\ Follows(s, lo, raw) /\ (gone <=> (raw \/ \E j \in 1..Len(s) : Switch(s[j])))
    BY Zenon DEF Stream
  <2> QED
    BY <2>1, OneMore, Zenon
<1>2. /\ Len(Append(s, it)) = Len(s) + 1 /\ Append(s, it)[Len(s) + 1] = it /\ Len(s) \in Nat
      /\ \A i \in 1..Len(s) : Append(s, it)[i] = s[i]
  BY AppendProperties, ItemsOf
<1>3. (\E j \in 1..(Len(s) + 1) : Switch(Append(s, it)[j])) <=>
        ((\E j \in 1..Len(s) : Switch(s[j])) \/ Switch(it))
  <2>1. 1..(Len(s) + 1) = 1..Len(s) \cup {Len(s) + 1}
    BY <1>2
  <2> QED
    BY <1>2, <2>1, Zenon
<1> QED
  BY <1>1, <1>2, <1>3, Zenon DEF Stream

\* One item is taken off the wire.
LEMMA OneTaken ==
  ASSUME NEW s \in Seq(WireItem), s # <<>>, NEW lo \in Nat, NEW raw \in BOOLEAN, NEW n, NEW gone,
         Stream(s, lo, raw, n, gone)
  PROVE  /\ s[1].n = lo + Weight(s[1]) /\ (s[1].k = "raw" <=> raw)
         /\ Stream(Tail(s), s[1].n, raw \/ Switch(s[1]), n, gone)
<1>1. /\ s[1].n = lo + Weight(s[1]) /\ (s[1].k = "raw" <=> raw)
      /\ Follows(Tail(s), s[1].n, raw \/ Switch(s[1])) /\ Last(Tail(s), s[1].n) = Last(s, lo)
  BY FirstTaken, Zenon DEF Stream
<1>2. /\ Len(s) \in Nat /\ Len(s) # 0 /\ Len(Tail(s)) = Len(s) - 1
      /\ \A i \in 1..(Len(s) - 1) : Tail(s)[i] = s[i + 1]
  BY ItemsOf, HeadTailProperties, Zenon
<1>3. (\E j \in 1..Len(s) : Switch(s[j])) <=>
        (Switch(s[1]) \/ \E j \in 1..(Len(s) - 1) : Switch(Tail(s)[j]))
  <2>1. ASSUME NEW j \in 1..Len(s), Switch(s[j])
        PROVE  Switch(s[1]) \/ \E i \in 1..(Len(s) - 1) : Switch(Tail(s)[i])
    <3>1. j # 1 => j - 1 \in 1..(Len(s) - 1) /\ (j - 1) + 1 = j
      BY <1>2
    <3> QED
      BY <1>2, <2>1, <3>1, Zenon
  <2>2. ASSUME NEW j \in 1..(Len(s) - 1), Switch(Tail(s)[j]) PROVE \E i \in 1..Len(s) : Switch(s[i])
    <3>1. j + 1 \in 1..Len(s)
      BY <1>2
    <3> QED
      BY <1>2, <2>2, <3>1, Zenon
  <2>3. 1 \in 1..Len(s)
    BY <1>2
  <2> QED
    BY <2>1, <2>2, <2>3, Zenon
<1> QED
  BY <1>1, <1>2, <1>3, Zenon DEF Stream

\* Several items are taken off the wire.
LEMMA SomeTaken ==
  ASSUME NEW s \in Seq(WireItem), NEW m \in 0..Len(s), NEW lo \in Nat, NEW n, NEW gone,
         Stream(s, lo, TRUE, n, gone)
  PROVE  /\ \A i \in 1..Len(s) : s[i].k = "raw" /\ s[i].n = lo + i
         /\ Stream(SubSeq(s, m + 1, Len(s)), lo + m, TRUE, n, gone)
<1>1. Follows(s, lo, TRUE) /\ n = Last(s, lo) /\ gone
  BY Zenon DEF Stream
<1>2. /\ \A i \in 1..Len(s) : s[i].k = "raw" /\ s[i].n = lo + i
      /\ Follows(SubSeq(s, m + 1, Len(s)), lo + m, TRUE)
      /\ Last(SubSeq(s, m + 1, Len(s)), lo + m) = Last(s, lo)
  BY <1>1, RawTaken, Zenon
<1> QED
  BY <1>1, <1>2, Zenon DEF Stream

\* The uplink starts empty.
LEMMA UpInit == SpliceInit => UpInv
<1> SUFFICES ASSUME SpliceInit PROVE UpInv
  BY Zenon
<1>1. Line = <<>> /\ Len(upOut) = 0 /\ Len(Line) = 0
  BY ConcatEmptySeq, EmptySeq, Zenon DEF Line, SpliceInit
<1>2. Stream(Line, Len(upOut), uspl, csent, cmode = "raw")
  <2>1. 1..Len(Line) = {}
    BY <1>1
  <2>2. Follows(Line, Len(upOut), uspl)
    BY <2>1, Zenon DEF Follows, Numbered, RawBehind, RawRun
  <2>3. csent = Last(Line, Len(upOut)) /\ ~uspl /\ cmode # "raw"
    BY <1>1, Zenon DEF SpliceInit, Last
  <2> QED
    BY <2>1, <2>2, <2>3, Zenon DEF Stream
<1>3. UpType
  BY EmptySeq, Zenon DEF UpType, SpliceInit
<1> QED
  BY <1>1, <1>2, <1>3 DEF UpInv, SpliceInit

\* Steps that leave the uplink alone.
LEMMA UpSame ==
  ASSUME UpInv, UNCHANGED <<cmode, csent, wire, inbuf, uspl, upOut, upFin>>,
         udone' \in BOOLEAN, cfin' \in BOOLEAN, cfin => cfin', pc' = "raw" => pc = "raw"
  PROVE  UpInv'
<1>1. UpType' /\ Line' = Line
  BY Zenon DEF UpInv, UpType, Line
<1>2. Stream(Line, Len(upOut), uspl, csent, cmode = "raw")'
  BY <1>1, Zenon DEF UpInv
<1> QED
  BY <1>1, <1>2, Zenon DEF UpInv

\* What the client sends gets the next number.
LEMMA UpSends ==
  ASSUME UpInv, ClientSends \/ ClientUpdatesKey
  PROVE  UpInv'
<1>1. UpType /\ Stream(Line, Len(upOut), uspl, csent, cmode = "raw")
  BY Zenon DEF UpInv
<1>2. PICK it \in WireItem :
        /\ wire' = Append(wire, it) /\ csent' = it.n /\ it.n = csent + Weight(it)
        /\ it.k = "raw" <=> cmode = "raw"
        /\ it.k = "rekey" => cmode # "raw"
        /\ cmode' \in {"pad", "plain", "raw"}
        /\ cmode' = "raw" <=> (cmode = "raw" \/ Switch(it))
  <2>1. CASE ClientUpdatesKey
    <3> DEFINE it == [k |-> "rekey", cmd |-> "plain", n |-> csent]
    <3>1. it \in WireItem /\ Weight(it) = 0 /\ ~Switch(it) /\ it.n = csent /\ it.k = "rekey"
      BY <1>1, Zenon DEF WireItem, Weight, Switch, UpType
    <3>2. wire' = Append(wire, it) /\ csent' = csent /\ cmode' = cmode /\ cmode # "raw"
      BY <2>1, Zenon DEF ClientUpdatesKey, OnWire
    <3> HIDE DEF it
    <3> QED
      BY <1>1, <3>1, <3>2 DEF UpType
  <2>2. CASE ClientSends
    <3>1. PICK cmd \in {"continue", "end", "direct", "plain"} :
            /\ wire' = Append(wire, [k |-> IF cmode = "raw" THEN "raw" ELSE "record",
                                     cmd |-> cmd, n |-> csent + 1])
            /\ cmode = "raw" => cmd = "plain"
            /\ cmode' \in {"pad", "plain", "raw"}
            /\ cmode' = "raw" <=> (cmode = "raw" \/ cmd = "direct")
      BY <1>1, <2>2, Zenon DEF ClientSends, OnWire, Commands, NextMode, UpType
    <3> DEFINE it == [k |-> IF cmode = "raw" THEN "raw" ELSE "record", cmd |-> cmd, n |-> csent + 1]
    <3>2. /\ it \in WireItem /\ Weight(it) = 1 /\ it.n = csent + 1
          /\ it.k = "raw" <=> cmode = "raw"
          /\ it.k # "rekey"
          /\ Switch(it) <=> cmode # "raw" /\ cmd = "direct"
      BY <1>1 DEF WireItem, Weight, Switch, UpType
    <3>3. csent' = csent + 1
      BY <2>2, Zenon DEF ClientSends
    <3> HIDE DEF it
    <3> QED
      BY <3>1, <3>2, <3>3, Zenon DEF it
  <2> QED
    BY <2>1, <2>2, Zenon
<1>3. /\ UNCHANGED <<cfin, inbuf, uspl, udone, upOut, upFin, pc>> /\ ~cfin
  BY Zenon DEF ClientSends, ClientUpdatesKey
<1>4. /\ Line \in Seq(WireItem) /\ Len(upOut) \in Nat /\ Line' = Append(Line, it)
      /\ wire' \in Seq(WireItem)
  BY <1>1, <1>2, <1>3, EndToEnd, AppendProperties DEF UpType, Line
<1>5. Stream(Append(Line, it), Len(upOut), uspl, it.n, cmode = "raw" \/ Switch(it))
  <2> DEFINE gone == cmode = "raw"
  <2>1. csent \in Nat /\ uspl \in BOOLEAN /\ gone \in BOOLEAN
    BY <1>1, Zenon DEF UpType
  <2>2. Stream(Line, Len(upOut), uspl, csent, gone)
    BY <1>1, Zenon
  <2>3. (it.k = "raw" <=> gone) /\ (it.k = "rekey" => ~gone) /\ it.n = csent + Weight(it)
    BY <1>2, Zenon
  <2> HIDE DEF gone
  <2>4. Stream(Append(Line, it), Len(upOut), uspl, it.n, gone \/ Switch(it))
    BY <1>4, <2>1, <2>2, <2>3, MoreSent
  <2> QED
    BY <2>4, Zenon DEF gone
<1>6. Stream(Line, Len(upOut), uspl, csent, cmode = "raw")'
  BY <1>2, <1>3, <1>4, <1>5, Zenon DEF Stream
<1>7. UpType'
  BY <1>1, <1>2, <1>3, <1>4, Zenon DEF UpType, WireItem
<1> QED
  BY <1>3, <1>6, <1>7, Zenon DEF UpInv

\* One read of the socket moves the boundary between what was read and what was not.
LEMMA UpFill ==
  ASSUME UpInv, Fill
  PROVE  UpInv'
<1>1. UpType /\ Stream(Line, Len(upOut), uspl, csent, cmode = "raw")
  BY Zenon DEF UpInv
<1>2. PICK k \in 1..Len(wire) : /\ inbuf' = SubSeq(wire, 1, k)
                                /\ wire' = SubSeq(wire, k + 1, Len(wire))
  BY Zenon DEF Fill
<1>3. /\ inbuf = <<>> /\ UNCHANGED <<cmode, csent, cfin, uspl, udone, upOut, upFin, pc>>
      /\ pc = "framed" /\ wire # <<>>
  BY <1>2, EmptySeq DEF Fill, Framed, client
<1>4. wire \in Seq(WireItem) /\ Len(wire) \in Nat /\ \A i \in 1..Len(wire) : wire[i] \in WireItem
  BY <1>1, ItemsOf, Zenon DEF UpType
<1>5. inbuf' \in Seq(WireItem) /\ wire' \in Seq(WireItem)
  BY <1>2, <1>4, SubSeqProperties
<1>6. Line' = Line
  <2>1. inbuf' \o wire' = SubSeq(wire, 1, Len(wire))
    BY <1>2, <1>4, ConcatAdjacentSubSeq
  <2>2. SubSeq(wire, 1, Len(wire)) = wire /\ <<>> \o wire = wire
    BY <1>4, SubSeqFull, ConcatEmptySeq, Zenon
  <2> QED
    BY <1>3, <2>1, <2>2, Zenon DEF Line
<1>7. Stream(Line, Len(upOut), uspl, csent, cmode = "raw")'
  BY <1>1, <1>3, <1>6, Zenon
<1>8. UpType'
  BY <1>1, <1>3, <1>5, Zenon DEF UpType
<1> QED
  BY <1>3, <1>7, <1>8, Zenon DEF UpInv

\* A record goes to the target, an update of the keys does not; the rest of the line moves up.
LEMMA UpRecord ==
  ASSUME UpInv, UplinkRecord \/ UplinkKeyUpdate
  PROVE  UpInv'
<1>1. UpType /\ Stream(Line, Len(upOut), uspl, csent, cmode = "raw")
  BY DEF UpInv
<1>2. /\ inbuf # <<>> /\ ~uspl /\ inbuf' = Tail(inbuf) /\ pc = "framed"
      /\ UNCHANGED <<cmode, csent, cfin, wire, udone, upFin, pc>>
      /\ \/ Head(inbuf).k = "record" /\ upOut' = Append(upOut, Head(inbuf).n)
            /\ uspl' = (Head(inbuf).cmd = "direct")
         \/ Head(inbuf).k = "rekey" /\ upOut' = upOut /\ uspl' = uspl
  BY Zenon DEF UplinkRecord, UplinkKeyUpdate, Framed, client, Spliced
<1>3. /\ Line \in Seq(WireItem) /\ Line # <<>> /\ Line[1] = Head(inbuf) /\ Line' = Tail(Line)
      /\ inbuf' \in Seq(WireItem) /\ Head(inbuf) \in WireItem /\ Len(upOut) \in Nat
  <2>1. inbuf \in Seq(WireItem) /\ wire \in Seq(WireItem) /\ upOut \in Seq(Nat)
    BY <1>1, Zenon DEF UpType
  <2>2. Len(upOut) \in Nat /\ Head(inbuf) \in WireItem /\ Tail(inbuf) \in Seq(WireItem)
    BY <1>2, <2>1, HeadTailProperties, LenProperties, Zenon
  <2>3. /\ inbuf \o wire \in Seq(WireItem) /\ inbuf \o wire # <<>>
        /\ (inbuf \o wire)[1] = Head(inbuf) /\ Tail(inbuf) \o wire = Tail(inbuf \o wire)
    <3>1. inbuf # <<>>
      BY <1>2, Zenon
    <3> QED
      BY <2>1, <3>1, EndToEnd, FirstOfTwo, ZenonT(60)
  <2>4. inbuf' = Tail(inbuf) /\ wire' = wire
    BY <1>2, Zenon
  <2> QED
    BY <2>2, <2>3, <2>4, Zenon DEF Line
<1> DEFINE it == Line[1]
<1>4. /\ it.n = Len(upOut) + Weight(it)
      /\ Stream(Tail(Line), it.n, uspl \/ Switch(it), csent, cmode = "raw")
  <2> DEFINE gone == cmode = "raw"
  <2>1. Stream(Line, Len(upOut), uspl, csent, gone) /\ uspl \in BOOLEAN
    BY <1>1, Zenon DEF UpType
  <2> HIDE DEF gone
  <2>2. /\ it.n = Len(upOut) + Weight(it)
        /\ Stream(Tail(Line), it.n, uspl \/ Switch(it), csent, gone)
    BY <1>3, <2>1, OneTaken, Zenon
  <2> QED
    BY <2>2, Zenon DEF gone
<1>5. it \in WireItem /\ it = Head(inbuf)
  BY <1>3, Zenon
<1> HIDE DEF it
<1>6. /\ Len(upOut') = it.n /\ upOut' \in Seq(Nat) /\ uspl' \in BOOLEAN
      /\ uspl' <=> (uspl \/ Switch(it))
      /\ \A i \in 1..Len(upOut') : upOut'[i] = i
  <2>1. it.n \in Nat /\ \A i \in 1..Len(upOut) : upOut[i] = i
    BY <1>5, Zenon DEF WireItem, UpInv
  <2>2. CASE it.k = "rekey"
    BY <1>1, <1>2, <1>4, <1>5, <2>1, <2>2 DEF Weight, Switch, UpType
  <2>3. CASE it.k = "record"
    <3>1. it.n = Len(upOut) + 1 /\ upOut' = Append(upOut, it.n) /\ uspl' = (it.cmd = "direct")
      BY <1>2, <1>4, <1>5, <2>3, Zenon DEF Weight
    <3>2. /\ upOut' \in Seq(Nat) /\ Len(upOut') = it.n /\ upOut'[it.n] = it.n
          /\ \A i \in 1..Len(upOut) : upOut'[i] = upOut[i]
      BY <1>1, <2>1, <3>1, AppendProperties DEF UpType
    <3>3. \A i \in 1..Len(upOut') : upOut'[i] = i
      BY <1>3, <2>1, <3>1, <3>2
    <3>4. uspl' \in BOOLEAN /\ (uspl' <=> (uspl \/ Switch(it)))
      BY <1>2, <2>3, <3>1, Zenon DEF Switch
    <3> QED
      BY <3>2, <3>3, <3>4, Zenon
  <2> QED
    BY <1>2, <1>5, <2>2, <2>3, Zenon
<1>7. Stream(Line, Len(upOut), uspl, csent, cmode = "raw")'
  <2>1. Stream(Tail(Line), it.n, uspl', csent, cmode = "raw")
    BY <1>4, <1>6, Zenon DEF Stream, Follows, RawBehind
  <2> QED
    BY <1>2, <1>3, <1>6, <2>1, Zenon
<1>8. UpType'
  BY <1>1, <1>2, <1>3, <1>6, Zenon DEF UpType
<1> QED
  BY <1>2, <1>6, <1>7, <1>8, Zenon DEF UpInv

\* The units of a run of raw items, behind what the target has got.
LEMMA RunAppended ==
  ASSUME NEW q \in Seq(WireItem), NEW o \in Seq(Nat), \A i \in 1..Len(o) : o[i] = i,
         \A i \in 1..Len(q) : q[i].k = "raw" /\ q[i].n = Len(o) + i
  PROVE  /\ o \o Numbers(q) \in Seq(Nat) /\ Len(o \o Numbers(q)) = Len(o) + Len(q)
         /\ \A i \in 1..(Len(o) + Len(q)) : (o \o Numbers(q))[i] = i
<1> DEFINE u == Numbers(q)
<1>1. Len(q) \in Nat /\ Len(o) \in Nat
  BY LenProperties, Zenon
<1>2. u = [i \in 1..Len(q) |-> Len(o) + i]
  BY Zenon DEF Numbers
<1>3. u \in Seq(Nat) /\ Len(u) = Len(q) /\ \A i \in 1..Len(q) : u[i] = Len(o) + i
  BY <1>1, <1>2
<1> HIDE DEF u
<1>4. /\ o \o u \in Seq(Nat) /\ Len(o \o u) = Len(o) + Len(q)
      /\ \A i \in 1..(Len(o) + Len(q)) : (o \o u)[i] = IF i <= Len(o) THEN o[i] ELSE u[i - Len(o)]
  BY <1>3, ConcatProperties
<1>5. ASSUME NEW i \in 1..(Len(o) + Len(q)) PROVE (o \o u)[i] = i
  <2>1. CASE i <= Len(o)
    BY <1>1, <1>4, <2>1
  <2>2. CASE ~(i <= Len(o))
    <3>1. i - Len(o) \in 1..Len(q) /\ Len(o) + (i - Len(o)) = i
      BY <1>1, <2>2
    <3> QED
      BY <1>3, <1>4, <2>2, <3>1, Zenon
  <2> QED
    BY <2>1, <2>2, Zenon
<1> QED
  BY <1>4, <1>5, Zenon DEF u

\* Behind the switch what was read goes to the target as it is.
LEMMA UpRaw ==
  ASSUME UpInv, UplinkRaw \/ HandOver
  PROVE  UpInv'
<1>1. UpType /\ Stream(Line, Len(upOut), uspl, csent, cmode = "raw")
  BY DEF UpInv
<1>2. /\ uspl /\ upOut' = upOut \o Numbers(inbuf) /\ inbuf' = <<>>
      /\ UNCHANGED <<cmode, csent, cfin, wire, uspl, udone, upFin>>
  BY Zenon DEF UplinkRaw, HandOver, Leftover, client
<1>3. /\ Line \in Seq(WireItem) /\ Len(inbuf) \in 0..Len(Line) /\ Line' = wire
      /\ wire = SubSeq(Line, Len(inbuf) + 1, Len(Line)) /\ Len(upOut) \in Nat
      /\ \A i \in 1..Len(inbuf) : Line[i] = inbuf[i]
  <2>1. inbuf \in Seq(WireItem) /\ wire \in Seq(WireItem) /\ upOut \in Seq(Nat)
    BY <1>1 DEF UpType
  <2>2. Len(inbuf) \in Nat /\ Len(wire) \in Nat /\ Len(upOut) \in Nat
    BY <2>1, LenProperties, Zenon
  <2>3. Line' = wire /\ wire = SubSeq(Line, Len(inbuf) + 1, Len(Line)) /\ Line \in Seq(WireItem)
        /\ Len(Line) = Len(inbuf) + Len(wire)
    BY <1>2, <2>1, EndToEnd DEF Line
  <2>4. \A i \in 1..Len(inbuf) : Line[i] = inbuf[i]
    BY <2>1, <2>2, ConcatProperties DEF Line
  <2> QED
    BY <2>2, <2>3, <2>4
<1>4. /\ \A i \in 1..Len(Line) : Line[i].k = "raw" /\ Line[i].n = Len(upOut) + i
      /\ Stream(wire, Len(upOut) + Len(inbuf), uspl, csent, cmode = "raw")
  <2> DEFINE gone == cmode = "raw"
  <2>1. Stream(Line, Len(upOut), TRUE, csent, gone) /\ uspl = TRUE
    BY <1>1, <1>2, Zenon DEF UpType
  <2> HIDE DEF gone
  <2>2. /\ \A i \in 1..Len(Line) : Line[i].k = "raw" /\ Line[i].n = Len(upOut) + i
        /\ Stream(wire, Len(upOut) + Len(inbuf), TRUE, csent, gone)
    BY <1>3, <2>1, SomeTaken, Zenon
  <2> QED
    BY <2>1, <2>2, Zenon DEF gone
<1>5. /\ upOut' \in Seq(Nat) /\ Len(upOut') = Len(upOut) + Len(inbuf)
      /\ \A i \in 1..Len(upOut') : upOut'[i] = i
  <2>1. \A i \in 1..Len(inbuf) : inbuf[i].k = "raw" /\ inbuf[i].n = Len(upOut) + i
    BY <1>3, <1>4, SMTT(30)
  <2>2. inbuf \in Seq(WireItem) /\ upOut \in Seq(Nat) /\ \A i \in 1..Len(upOut) : upOut[i] = i
    BY <1>1, Zenon DEF UpType, UpInv
  <2> QED
    BY <1>2, <2>1, <2>2, RunAppended, Zenon
<1>6. Stream(Line, Len(upOut), uspl, csent, cmode = "raw")'
  BY <1>2, <1>3, <1>4, <1>5, Zenon
<1>7. UpType'
  BY <1>1, <1>2, <1>5, EmptySeq, Zenon DEF UpType
<1> QED
  BY <1>2, <1>5, <1>6, <1>7, Zenon DEF UpInv

\* So it does once both directions are copied.
LEMMA UpCopied ==
  ASSUME UpInv, RawUp
  PROVE  UpInv'
<1>1. UpType /\ Stream(Line, Len(upOut), uspl, csent, cmode = "raw")
  BY DEF UpInv
<1>2. /\ pc = "raw" /\ uspl /\ inbuf = <<>>
      /\ UNCHANGED <<cmode, csent, cfin, inbuf, uspl, pc>>
  BY Zenon DEF UpInv, RawUp, client
<1>3. CASE wire = <<>> /\ cfin /\ udone' = TRUE /\ upFin' = TRUE /\ UNCHANGED <<wire, upOut>>
  <2>1. UpType' /\ Line' = Line
    BY <1>1, <1>2, <1>3, Zenon DEF UpType, Line
  <2>2. Stream(Line, Len(upOut), uspl, csent, cmode = "raw")'
    BY <1>1, <1>2, <1>3, <2>1, Zenon
  <2> QED
    BY <1>2, <1>3, <2>1, <2>2, Zenon DEF UpInv
<1>4. CASE /\ wire # <<>> /\ upOut' = upOut \o Numbers(wire) /\ wire' = <<>>
           /\ UNCHANGED <<udone, upFin>>
  <2>1. wire \in Seq(WireItem) /\ upOut \in Seq(Nat) /\ Len(wire) \in Nat /\ Len(upOut) \in Nat
    BY <1>1, LenProperties, Zenon DEF UpType
  <2>2. Line = wire /\ Line' = <<>> /\ SubSeq(wire, Len(wire) + 1, Len(wire)) = <<>>
    BY <1>2, <1>4, <2>1, ConcatEmptySeq, EmptySeq, SubSeqEmpty DEF Line
  <2>3. /\ \A i \in 1..Len(wire) : wire[i].k = "raw" /\ wire[i].n = Len(upOut) + i
        /\ Stream(<<>>, Len(upOut) + Len(wire), uspl, csent, cmode = "raw")
    <3> DEFINE gone == cmode = "raw"
    <3>0. Len(wire) \in 0..Len(wire)
      BY <2>1
    <3>1. Stream(wire, Len(upOut), TRUE, csent, gone) /\ uspl = TRUE /\ Len(wire) \in 0..Len(wire)
      BY <1>1, <1>2, <2>2, <3>0, Zenon DEF UpType
    <3> HIDE DEF gone
    <3>2. /\ \A i \in 1..Len(wire) : wire[i].k = "raw" /\ wire[i].n = Len(upOut) + i
          /\ Stream(SubSeq(wire, Len(wire) + 1, Len(wire)), Len(upOut) + Len(wire), TRUE, csent, gone)
      BY <2>1, <3>1, SomeTaken, Zenon
    <3> QED
      BY <2>2, <3>1, <3>2, Zenon DEF gone
  <2>4. /\ upOut' \in Seq(Nat) /\ Len(upOut') = Len(upOut) + Len(wire)
        /\ \A i \in 1..Len(upOut') : upOut'[i] = i
    <3>1. \A i \in 1..Len(upOut) : upOut[i] = i
      BY Zenon DEF UpInv
    <3> QED
      BY <1>4, <2>1, <2>3, <3>1, RunAppended, Zenon
  <2>5. Stream(Line, Len(upOut), uspl, csent, cmode = "raw")'
    BY <1>2, <2>2, <2>3, <2>4, Zenon
  <2>6. UpType'
    BY <1>1, <1>2, <1>4, <2>4, EmptySeq, Zenon DEF UpType
  <2> QED
    BY <1>2, <1>4, <2>4, <2>5, <2>6, Zenon DEF UpInv
<1> QED
  BY <1>3, <1>4, Zenon DEF RawUp

\* The end of the client's stream is passed on behind everything else.
LEMMA UpEnds ==
  ASSUME UpInv, UplinkEof
  PROVE  UpInv'
<1>1. /\ inbuf = <<>> /\ wire = <<>> /\ cfin /\ udone' = TRUE /\ upFin' = TRUE /\ pc = "framed"
      /\ UNCHANGED <<cmode, csent, cfin, wire, inbuf, uspl, upOut, pc>>
  BY Zenon DEF UplinkEof, Framed, client
<1>2. UpType' /\ Line' = Line
  BY <1>1, Zenon DEF UpInv, UpType, Line
<1>3. Stream(Line, Len(upOut), uspl, csent, cmode = "raw")'
  BY <1>1, <1>2, Zenon DEF UpInv
<1> QED
  BY <1>1, <1>2, <1>3, Zenon DEF UpInv

\* Every step keeps the uplink's half.
LEMMA UpStep ==
  ASSUME UpInv, SpliceNext
  PROVE  UpInv'
<1>1. CASE ClientSends \/ ClientUpdatesKey
  BY <1>1, UpSends, Zenon
<1>2. CASE Fill
  BY <1>2, UpFill, Zenon
<1>3. CASE UplinkRecord \/ UplinkKeyUpdate
  BY <1>3, UpRecord
<1>4. CASE UplinkRaw \/ HandOver
  BY <1>4, UpRaw
<1>5. CASE RawUp
  BY <1>5, UpCopied
<1>6. CASE UplinkEof
  BY <1>6, UpEnds
<1>7. CASE ClientCloses
  <2>1. /\ UNCHANGED <<cmode, csent, wire, inbuf, uspl, upOut, upFin, udone, pc>> /\ cfin' = TRUE
    BY <1>7, Zenon DEF ClientCloses, uplink
  <2>2. udone \in BOOLEAN
    BY Zenon DEF UpInv, UpType
  <2> QED
    BY <2>1, <2>2, UpSame, Zenon
<1>8. CASE \/ TargetSends \/ TargetCloses \/ Downlink \/ DownlinkEof
           \/ RawDown \/ Taken \/ Idle \/ Done \/ RawEnds \/ Fails
  <2>1. /\ UNCHANGED <<cmode, csent, cfin, wire, inbuf, uspl, upOut, upFin, udone>>
        /\ pc' = pc \/ pc' = "ended"
    BY <1>8, Zenon DEF TargetSends, TargetCloses, Downlink, DownlinkEof, RawDown,
                Taken, Idle, Done, RawEnds, Fails, client, uplink
  <2>2. udone \in BOOLEAN /\ cfin \in BOOLEAN
    BY Zenon DEF UpInv, UpType
  <2> QED
    BY <2>1, <2>2, UpSame, Zenon
<1> QED
  BY <1>1, <1>2, <1>3, <1>4, <1>5, <1>6, <1>7, <1>8, Zenon DEF SpliceNext, Relay

\* The uplink's half holds always.
LEMMA UpHolds ==
  ASSUME UpInv
  PROVE  UplinkFaithful
<1>1. UpType /\ Stream(Line, Len(upOut), uspl, csent, cmode = "raw")
  BY Zenon DEF UpInv
<1>2. upOut = [i \in 1..Len(upOut) |-> i]
  BY <1>1 DEF UpInv, UpType
<1>3. ASSUME upFin PROVE Len(upOut) = csent
  <2>1. Line = <<>>
    BY <1>1, <1>3, ConcatEmptySeq, Zenon DEF UpInv, UpType, Line
  <2>2. csent = Last(Line, Len(upOut))
    BY <1>1, Zenon DEF Stream
  <2> QED
    BY <2>1, <2>2, Zenon DEF Last
<1>4. ASSUME ~uspl, inbuf # <<>> PROVE Head(inbuf).k # "raw"
  <2>1. inbuf \in Seq(WireItem) /\ wire \in Seq(WireItem)
    BY <1>1, Zenon DEF UpType
  <2>2. /\ inbuf \o wire \in Seq(WireItem) /\ inbuf \o wire # <<>>
        /\ (inbuf \o wire)[1] = Head(inbuf)
    BY <1>4, <2>1, EndToEnd, FirstOfTwo, Zenon
  <2>3. Line \in Seq(WireItem) /\ Line # <<>> /\ Line[1] = Head(inbuf)
    BY <2>2, Zenon DEF Line
  <2>4. 1 \in 1..Len(Line) /\ 1..(1 - 1) = {}
    BY <2>3, ItemsOf
  <2>5. RawBehind(Line, uspl)
    BY <1>1, Zenon DEF Stream, Follows
  <2> QED
    BY <1>4, <2>3, <2>4, <2>5, Zenon DEF RawBehind
<1> QED
  BY <1>2, <1>3, <1>4, Zenon DEF UplinkFaithful

-----------------------------------------------------------------------------
(* The downlink of the splice *)

\* Whether an item is in place depends on what is in front of it.
LEMMA PlacedAlike ==
  ASSUME NEW d, NEW t, NEW i, t[i] = d[i], \A j \in 1..(i - 1) : t[j] = d[j], Formed(d, i)
  PROVE  Formed(t, i) /\ (Placed(d, i) => Placed(t, i))
<1>1. Formed(t, i)
  BY Zenon DEF Formed
<1>2. ASSUME Placed(d, i) PROVE Placed(t, i)
  <2>1. /\ \A j \in 1..(i - 1) : d[j].n < d[i].n
        /\ d[i].n = 1 \/ \E j \in 1..(i - 1) : d[j].n = d[i].n - 1
        /\ d[i].uuid <=> d[i].n = 1
        /\ d[i].cmd = "plain" <=> \E j \in 1..(i - 1) : d[j].cmd \in {"end", "direct"}
    BY <1>2, Zenon DEF Placed
  <2> QED
    BY <2>1 DEF Placed
<1> QED
  BY <1>1, <1>2, Zenon

\* The answer to a key update carries no unit, and comes before the Direct block.
LEMMA OneAside ==
  ASSUME NEW d \in Seq(DnItem), NEW it \in DnItem, NEW m \in Nat, NEW raw \in BOOLEAN,
         NEW pad \in BOOLEAN, Decodable(d, m, raw, pad), it.n = 0, it.cmd = "rekey", it.form = "tls", ~raw
  PROVE  Append(d, it) \in Seq(DnItem) /\ Decodable(Append(d, it), m, raw, pad)
<1> DEFINE t == Append(d, it)
<1>1. /\ t \in Seq(DnItem) /\ Len(t) = Len(d) + 1 /\ t[Len(d) + 1] = it
      /\ \A i \in 1..Len(d) : t[i] = d[i]
  BY AppendProperties
<1>2. Len(d) \in Nat
  BY LenProperties, Zenon
<1> HIDE DEF t
<1>3. ASSUME NEW i \in 1..Len(t), i # Len(d) + 1
      PROVE  i \in 1..Len(d) /\ t[i] = d[i] /\ \A j \in 1..(i - 1) : j \in 1..Len(d) /\ t[j] = d[j]
  BY <1>1, <1>2, <1>3
<1>4. \A i \in 1..Len(t) : t[i].n <= m
  BY <1>1, <1>2, <1>3 DEF Decodable
<1>5. \A n \in 1..m : \E i \in 1..Len(t) : t[i].n = n
  <2> SUFFICES ASSUME NEW n \in 1..m PROVE \E i \in 1..Len(t) : t[i].n = n
    BY Zenon
  <2>1. PICK i \in 1..Len(d) : d[i].n = n
    BY Zenon DEF Decodable
  <2> QED
    BY <1>1, <1>2, <2>1
<1>6. raw <=> \E i \in 1..Len(t) : t[i].cmd = "direct"
  <2>1. raw <=> \E i \in 1..Len(d) : d[i].cmd = "direct"
    BY Zenon DEF Decodable
  <2> QED
    BY <1>1, <1>2, <2>1
<1>7. pad <=> \A i \in 1..Len(t) : t[i].cmd \notin {"end", "direct"}
  <2>1. pad <=> \A i \in 1..Len(d) : d[i].cmd \notin {"end", "direct"}
    BY Zenon DEF Decodable
  <2> QED
    BY <1>1, <1>2, <2>1
<1>8. ASSUME NEW i \in 1..Len(t)
      PROVE  Formed(t, i) /\ (t[i].n > 0 => Placed(t, i))
  <2>1. CASE i # Len(d) + 1
    <3>1. i \in 1..Len(d) /\ t[i] = d[i] /\ \A j \in 1..(i - 1) : t[j] = d[j]
      BY <1>3, <2>1, Zenon
    <3>2. Formed(d, i) /\ (d[i].n > 0 => Placed(d, i))
      BY <3>1, Zenon DEF Decodable
    <3> QED
      BY <3>1, <3>2, PlacedAlike, Zenon
  <2>2. CASE i = Len(d) + 1
    <3>1. t[i].n = 0 /\ t[i].form = "tls" /\ ~(0 > 0)
      BY <1>1, <2>2
    <3>2. ~\E j \in 1..(i - 1) : t[j].cmd = "direct"
      <4>1. 1..(i - 1) \subseteq 1..Len(t)
        BY <1>1, <1>2
      <4> QED
        BY <1>6, <4>1, Zenon
    <3>3. Formed(t, i)
      BY <3>1, <3>2, Zenon DEF Formed
    <3> QED
      BY <3>1, <3>3, Zenon
  <2> QED
    BY <2>1, <2>2, Zenon
<1> QED
  BY <1>1, <1>4, <1>5, <1>6, <1>7, <1>8, Zenon DEF Decodable, t

\* The next unit, in the form the client is waiting for.
LEMMA OneUnit ==
  ASSUME NEW d \in Seq(DnItem), NEW it \in DnItem, NEW m \in Nat, NEW raw \in BOOLEAN,
         NEW pad \in BOOLEAN, Decodable(d, m, raw, pad), it.n = m + 1, it.uuid <=> m = 0,
         it.form = "raw" <=> raw, it.cmd = "plain" <=> ~pad, it.cmd # "rekey"
  PROVE  /\ Append(d, it) \in Seq(DnItem)
         /\ Decodable(Append(d, it), m + 1, raw \/ it.cmd = "direct", pad /\ it.cmd = "continue")
<1> DEFINE t == Append(d, it)
<1>1. /\ t \in Seq(DnItem) /\ Len(t) = Len(d) + 1 /\ t[Len(d) + 1] = it
      /\ \A i \in 1..Len(d) : t[i] = d[i]
  BY AppendProperties
<1>2. Len(d) \in Nat /\ \A i \in 1..Len(d) : d[i].n \in Nat
  <2>1. \A x \in DnItem : x.n \in Nat
    BY Zenon DEF DnItem
  <2> QED
    BY <2>1, LenProperties, ElementOfSeq, Zenon
<1> HIDE DEF t
<1>3. ASSUME NEW i \in 1..Len(t), i # Len(d) + 1
      PROVE  i \in 1..Len(d) /\ t[i] = d[i] /\ \A j \in 1..(i - 1) : j \in 1..Len(d) /\ t[j] = d[j]
  BY <1>1, <1>2, <1>3
<1>a. /\ \A i \in 1..Len(d) : d[i].n <= m
      /\ \A n \in 1..m : \E i \in 1..Len(d) : d[i].n = n
      /\ raw <=> \E i \in 1..Len(d) : d[i].cmd = "direct"
      /\ pad <=> \A i \in 1..Len(d) : d[i].cmd \notin {"end", "direct"}
  BY Zenon DEF Decodable
<1>b. it.cmd \in {"continue", "end", "direct", "plain"}
  BY Zenon DEF DnItem
<1>4. \A i \in 1..Len(t) : t[i].n <= m + 1
  BY <1>1, <1>2, <1>3, <1>a, SMTT(30)
<1>5. \A n \in 1..(m + 1) : \E i \in 1..Len(t) : t[i].n = n
  <2> SUFFICES ASSUME NEW n \in 1..(m + 1) PROVE \E i \in 1..Len(t) : t[i].n = n
    BY Zenon
  <2>1. CASE n = m + 1
    BY <1>1, <1>2, <2>1
  <2>2. CASE n # m + 1
    <3>1. PICK i \in 1..Len(d) : d[i].n = n
      BY <1>a, <2>2
    <3> QED
      BY <1>1, <1>2, <3>1
  <2> QED
    BY <2>1, <2>2, Zenon
<1>6. (raw \/ it.cmd = "direct") <=> \E i \in 1..Len(t) : t[i].cmd = "direct"
  <2>1. (\E i \in 1..Len(d) : d[i].cmd = "direct") \/ it.cmd = "direct"
          <=> \E i \in 1..Len(t) : t[i].cmd = "direct"
    BY <1>1, <1>2, SMTT(30)
  <2> QED
    BY <1>a, <2>1, Zenon
<1>7. (pad /\ it.cmd = "continue") <=> \A i \in 1..Len(t) : t[i].cmd \notin {"end", "direct"}
  <2>1. (\A i \in 1..Len(d) : d[i].cmd \notin {"end", "direct"}) /\ it.cmd \notin {"end", "direct"}
          <=> \A i \in 1..Len(t) : t[i].cmd \notin {"end", "direct"}
    BY <1>1, <1>2, SMTT(30)
  <2>2. pad => (it.cmd \notin {"end", "direct"} <=> it.cmd = "continue")
    BY <1>b, Zenon
  <2> QED
    BY <1>a, <2>1, <2>2, Zenon
<1>8. ASSUME NEW i \in 1..Len(t)
      PROVE  Formed(t, i) /\ (t[i].n > 0 => Placed(t, i))
  <2>1. CASE i # Len(d) + 1
    <3>1. i \in 1..Len(d) /\ t[i] = d[i] /\ \A j \in 1..(i - 1) : t[j] = d[j]
      BY <1>3, <2>1, Zenon
    <3>2. Formed(d, i) /\ (d[i].n > 0 => Placed(d, i))
      BY <3>1, Zenon DEF Decodable
    <3> QED
      BY <3>1, <3>2, PlacedAlike, Zenon
  <2>2. CASE i = Len(d) + 1
    <3>1. t[i] = it /\ i - 1 = Len(d) /\ \A j \in 1..Len(d) : t[j] = d[j]
      BY <1>1, <1>2, <2>2
    <3>2. \A j \in 1..Len(d) : t[j].n < it.n
      <4>1. \A j \in 1..Len(d) : d[j].n <= m
        BY <1>a, Zenon
      <4> QED
        BY <1>2, <3>1, <4>1, SMTT(30)
    <3>3. it.n = 1 \/ \E j \in 1..Len(d) : t[j].n = it.n - 1
      <4>1. CASE m = 0
        BY <4>1
      <4>2. CASE m # 0
        <5>1. m \in 1..m /\ it.n - 1 = m
          BY <4>2
        <5>2. PICK j \in 1..Len(d) : d[j].n = m
          BY <1>a, <5>1, Zenon
        <5> QED
          BY <3>1, <5>1, <5>2, Zenon
      <4> QED
        BY <4>1, <4>2, Zenon
    <3>4. it.uuid <=> it.n = 1
      <4>1. m = 0 <=> it.n = 1
        OBVIOUS
      <4> QED
        BY <4>1, Zenon
    <3>5. it.form = "raw" <=> \E j \in 1..Len(d) : t[j].cmd = "direct"
      <4>1. (\E j \in 1..Len(d) : d[j].cmd = "direct") <=> \E j \in 1..Len(d) : t[j].cmd = "direct"
        BY <3>1, Zenon
      <4> QED
        BY <1>a, <4>1, Zenon
    <3>6. it.cmd = "plain" <=> \E j \in 1..Len(d) : t[j].cmd \in {"end", "direct"}
      <4>1. (\E j \in 1..Len(d) : d[j].cmd \in {"end", "direct"})
              <=> \E j \in 1..Len(d) : t[j].cmd \in {"end", "direct"}
        BY <3>1, Zenon
      <4> QED
        BY <1>a, <4>1, Zenon
    <3> QED
      BY <3>1, <3>2, <3>3, <3>4, <3>5, <3>6, Zenon DEF Placed, Formed
  <2> QED
    BY <2>1, <2>2, Zenon
<1> QED
  BY <1>1, <1>4, <1>5, <1>6, <1>7, <1>8, Zenon DEF Decodable, t

\* Nothing the downlink is about has changed, or the relay has ended.
LEMMA DnSame ==
  ASSUME DnInv, UNCHANGED <<tsent, tq, dn, dspl, padding, uuidOnce, dnFin>>,
         tfin' \in BOOLEAN, tfin => tfin', answer' \in BOOLEAN, pc' = "raw" => pc = "raw" \/ dspl
  PROVE  DnInv'
<1>1. DnType'
  BY Zenon DEF DnInv, DnType
<1>2. Decodable(dn, tsent - Len(tq), dspl, padding)'
  BY Zenon DEF DnInv
<1> QED
  BY <1>1, <1>2, Zenon DEF DnInv

\* The target's units wait in line.
LEMMA DnSends ==
  ASSUME DnInv, TargetSends
  PROVE  DnInv'
<1>1. /\ DnType /\ Len(tq) <= tsent /\ \A i \in 1..Len(tq) : tq[i].n = (tsent - Len(tq)) + i
      /\ Decodable(dn, tsent - Len(tq), dspl, padding) /\ (uuidOnce <=> tsent = Len(tq))
      /\ uuidOnce => padding
      /\ dnFin => tfin /\ tq = <<>>
      /\ pc = "raw" => dspl
  BY Zenon DEF DnInv
<1>2. PICK it \in [kind : Kinds, n : Nat] : tq' = Append(tq, it) /\ it.n = tsent + 1
  <2>1. tsent \in Nat
    BY <1>1, Zenon DEF DnType
  <2> QED
    BY <2>1 DEF TargetSends
<1>3. /\ ~tfin /\ tsent' = tsent + 1
      /\ UNCHANGED <<tfin, dn, dspl, padding, uuidOnce, dnFin, answer, pc>>
  BY Zenon DEF TargetSends
<1>4. tq \in Seq([kind : Kinds, n : Nat]) /\ tsent \in Nat
  BY <1>1, Zenon DEF DnType
<1>5. /\ Len(tq) \in Nat /\ tq' \in Seq([kind : Kinds, n : Nat]) /\ Len(tq') = Len(tq) + 1
      /\ tq'[Len(tq) + 1] = it /\ \A i \in 1..Len(tq) : tq'[i] = tq[i]
  BY <1>2, <1>4, AppendProperties, LenProperties
<1>6. tsent' - Len(tq') = tsent - Len(tq) /\ Len(tq') <= tsent' /\ (tsent' = Len(tq') <=> tsent = Len(tq))
  BY <1>1, <1>3, <1>4, <1>5
<1>7. \A i \in 1..Len(tq') : tq'[i].n = (tsent' - Len(tq')) + i
  <2> SUFFICES ASSUME NEW i \in 1..Len(tq') PROVE tq'[i].n = (tsent - Len(tq)) + i
    BY <1>6, Zenon
  <2>1. CASE i \in 1..Len(tq)
    BY <1>1, <1>5, <2>1, Zenon
  <2>2. CASE i = Len(tq) + 1
    <3>1. (tsent - Len(tq)) + i = tsent + 1
      BY <1>4, <1>5, <2>2
    <3> QED
      BY <1>2, <1>5, <2>2, <3>1, Zenon
  <2> QED
    BY <1>5, <2>1, <2>2
<1>8. Decodable(dn, tsent - Len(tq), dspl, padding)'
  BY <1>1, <1>3, <1>6, Zenon
<1>9. DnType'
  BY <1>1, <1>3, <1>4, <1>5 DEF DnType
<1> QED
  BY <1>1, <1>3, <1>6, <1>7, <1>8, <1>9, Zenon DEF DnInv

\* The next unit goes out.
LEMMA DnUnit ==
  ASSUME NEW d \in Seq(DnItem), NEW it \in DnItem, DnInv, tq # <<>>, it.n = Head(tq).n,
         Decodable(d, tsent - Len(tq), dspl, padding),
         it.uuid <=> (padding /\ uuidOnce), it.form = "raw" <=> dspl,
         it.cmd = "plain" <=> ~padding, it.cmd # "rekey"
  PROVE  /\ Append(d, it) \in Seq(DnItem) /\ tsent - Len(Tail(tq)) \in Nat
         /\ Decodable(Append(d, it), tsent - Len(Tail(tq)), dspl \/ it.cmd = "direct",
                      padding /\ it.cmd = "continue")
         /\ Tail(tq) \in Seq([kind : Kinds, n : Nat]) /\ Len(Tail(tq)) <= tsent
         /\ tsent # Len(Tail(tq))
         /\ \A i \in 1..Len(Tail(tq)) : Tail(tq)[i].n = (tsent - Len(Tail(tq))) + i
<1>1. /\ DnType /\ Len(tq) <= tsent /\ \A i \in 1..Len(tq) : tq[i].n = (tsent - Len(tq)) + i
      /\ (uuidOnce <=> tsent = Len(tq)) /\ (uuidOnce => padding)
  BY Zenon DEF DnInv
<1>2. /\ tq \in Seq([kind : Kinds, n : Nat]) /\ tsent \in Nat /\ dspl \in BOOLEAN
      /\ padding \in BOOLEAN
  BY <1>1, Zenon DEF DnType
<1> DEFINE rest == Tail(tq)
<1>3. /\ Len(tq) \in Nat /\ Len(tq) > 0 /\ rest \in Seq([kind : Kinds, n : Nat])
      /\ Len(rest) = Len(tq) - 1 /\ \A i \in 1..(Len(tq) - 1) : rest[i] = tq[i + 1]
      /\ Head(tq) = tq[1]
  BY <1>2, HeadTailProperties, LenProperties, EmptySeq
<1> DEFINE m == tsent - Len(tq)
<1> HIDE DEF rest
<1>4. m \in Nat /\ it.n = m + 1 /\ tsent - Len(rest) = m + 1 /\ (m = 0 <=> tsent = Len(tq))
  <2>1. tq[1].n = m + 1 /\ Len(tq) <= tsent
    <3>1. 1 \in 1..Len(tq)
      BY <1>3
    <3> QED
      BY <1>1, <3>1, Zenon
  <2> QED
    BY <1>2, <1>3, <2>1
<1>5. it.uuid <=> m = 0
  BY <1>1, <1>4, Zenon
<1>6. Decodable(d, m, dspl, padding)
  BY Zenon
<1> HIDE DEF m
<1>7. /\ Append(d, it) \in Seq(DnItem)
      /\ Decodable(Append(d, it), m + 1, dspl \/ it.cmd = "direct", padding /\ it.cmd = "continue")
  BY <1>2, <1>4, <1>5, <1>6, OneUnit
<1>8. \A i \in 1..Len(rest) : rest[i].n = (tsent - Len(rest)) + i
  <2> SUFFICES ASSUME NEW i \in 1..Len(rest)
               PROVE  rest[i].n = (tsent - Len(rest)) + i
    BY Zenon
  <2>1. i + 1 \in 1..Len(tq) /\ i \in 1..(Len(tq) - 1)
    BY <1>3
  <2>2. rest[i] = tq[i + 1] /\ tq[i + 1].n = (tsent - Len(tq)) + (i + 1)
    BY <1>1, <1>3, <2>1, Zenon
  <2> QED
    BY <1>2, <1>3, <2>2
<1>9. Len(rest) <= tsent /\ tsent # Len(rest) /\ tsent - Len(rest) \in Nat
  <2>1. Len(tq) <= tsent
    BY <1>1, Zenon
  <2> QED
    BY <1>2, <1>3, <2>1
<1> QED
  BY <1>3, <1>4, <1>7, <1>8, <1>9, Zenon DEF rest

\* The next unit of the target is sent, framed or raw.
LEMMA DnPasses ==
  ASSUME NEW d \in Seq(DnItem), NEW it \in DnItem, DnInv, tq # <<>>, it.n = Head(tq).n,
         Decodable(d, tsent - Len(tq), dspl, padding),
         it.uuid <=> (padding /\ uuidOnce), it.form = "raw" <=> dspl,
         it.cmd = "plain" <=> ~padding, it.cmd # "rekey",
         dn' = Append(d, it), tq' = Tail(tq), dspl' = (dspl \/ it.cmd = "direct"),
         padding' = (padding /\ it.cmd = "continue"), uuidOnce' = FALSE,
         UNCHANGED <<tsent, tfin, dnFin>>, answer' \in BOOLEAN, pc' = pc
  PROVE  DnInv'
<1> DEFINE rest == Tail(tq)
           raw == dspl \/ it.cmd = "direct"
           pad == padding /\ it.cmd = "continue"
<1>1. /\ Append(d, it) \in Seq(DnItem) /\ tsent - Len(rest) \in Nat
      /\ Decodable(Append(d, it), tsent - Len(rest), raw, pad)
      /\ rest \in Seq([kind : Kinds, n : Nat]) /\ Len(rest) <= tsent /\ tsent # Len(rest)
      /\ \A i \in 1..Len(rest) : rest[i].n = (tsent - Len(rest)) + i
  BY DnUnit, Zenon
<1>2. tq' = rest /\ dspl' = raw /\ padding' = pad /\ raw \in BOOLEAN /\ pad \in BOOLEAN /\ tsent' = tsent
  BY Zenon
<1>3. ~dnFin /\ (pc = "raw" => dspl) /\ DnType /\ dnFin' = dnFin /\ tfin' = tfin
  BY Zenon DEF DnInv
<1>4. pc' = "raw" => dspl'
  BY <1>3, Zenon
<1> HIDE DEF rest, raw, pad
<1>5. DnType'
  BY <1>1, <1>2, <1>3, Zenon DEF DnType
<1>6. Decodable(dn, tsent - Len(tq), dspl, padding)'
  BY <1>1, <1>2, Zenon
<1>7. Len(tq') <= tsent' /\ tsent' # Len(tq') /\ \A i \in 1..Len(tq') : tq'[i].n = (tsent' - Len(tq')) + i
  BY <1>1, <1>2, Zenon
<1>8. (uuidOnce' <=> tsent' = Len(tq')) /\ (uuidOnce' => padding') /\ ~dnFin'
  BY <1>3, <1>7
<1> QED
  BY <1>4, <1>5, <1>6, <1>7, <1>8, Zenon DEF DnInv

\* A queued answer that goes out first leaves the rest decodable.
LEMMA DnAnswered ==
  ASSUME DnInv
  PROVE  \E d \in Seq(DnItem) : /\ d = dn \o Answer
                                /\ Decodable(d, tsent - Len(tq), dspl, padding)
<1> DEFINE it == Item("tls", "rekey", FALSE, 0)
<1>1. /\ DnType /\ Len(tq) <= tsent /\ Decodable(dn, tsent - Len(tq), dspl, padding)
  BY Zenon DEF DnInv
<1>2. /\ dn \in Seq(DnItem) /\ tsent - Len(tq) \in Nat /\ dspl \in BOOLEAN /\ padding \in BOOLEAN
  BY <1>1, LenProperties DEF DnType
<1>3. it \in DnItem /\ it.n = 0 /\ it.cmd = "rekey" /\ it.form = "tls"
  BY Zenon DEF Item, DnItem
<1>4. Answer = IF answer /\ ~dspl THEN <<it>> ELSE <<>>
  BY Zenon DEF Answer
<1> HIDE DEF it
<1>5. CASE answer /\ ~dspl
  <2>1. dn \o Answer = Append(dn, it)
    BY <1>2, <1>3, <1>4, <1>5, AppendIsConcat, Zenon
  <2>2. Append(dn, it) \in Seq(DnItem) /\ Decodable(Append(dn, it), tsent - Len(tq), dspl, padding)
    BY <1>1, <1>2, <1>3, <1>5, OneAside, Zenon
  <2> QED
    BY <2>1, <2>2, Zenon
<1>6. CASE ~(answer /\ ~dspl)
  <2>1. dn \o Answer = dn
    BY <1>2, <1>4, <1>6, ConcatEmptySeq, Zenon
  <2> QED
    BY <1>1, <1>2, <2>1, Zenon
<1> QED
  BY <1>5, <1>6, Zenon

\* The downlink task takes a chunk from the target.
LEMMA DnChunk ==
  ASSUME DnInv, Downlink
  PROVE  DnInv'
<1>1. PICK d \in Seq(DnItem) : /\ d = dn \o Answer
                               /\ Decodable(d, tsent - Len(tq), dspl, padding)
  BY DnAnswered, Zenon
<1>2. /\ DnType /\ (uuidOnce => padding)
  BY Zenon DEF DnInv
<1>3. /\ padding \in BOOLEAN /\ uuidOnce \in BOOLEAN /\ dspl \in BOOLEAN
      /\ tq \in Seq([kind : Kinds, n : Nat]) /\ tq # <<>>
  BY <1>2, Zenon DEF DnType, Downlink
<1>4. Head(tq).n \in Nat
  <2>1. Head(tq) \in [kind : Kinds, n : Nat]
    BY <1>3, HeadTailProperties, Zenon
  <2> QED
    BY <2>1, Zenon
<1>5. PICK cmd \in {"continue", "end", "direct", "plain"} :
        /\ cmd = "plain" <=> ~padding
        /\ dn' = dn \o Answer \o <<Item(Form(dspl), cmd, padding /\ uuidOnce, Head(tq).n)>>
        /\ padding' = (padding /\ cmd = "continue") /\ dspl' = (dspl \/ cmd = "direct")
  <2> DEFINE f == IF dspl THEN filter ELSE Filtered(filter, FALSE, Head(tq).kind)
             cmd == IF padding THEN Command(Head(tq).kind, f) ELSE "plain"
  <2>1. cmd \in {"continue", "end", "direct", "plain"} /\ (cmd = "plain" <=> ~padding)
    BY Zenon DEF Command
  <2>2. /\ dn' = dn \o Answer \o <<Item(Form(dspl), cmd, padding /\ uuidOnce, Head(tq).n)>>
        /\ padding' = (padding /\ cmd = "continue") /\ dspl' = (dspl \/ cmd = "direct")
    BY Zenon DEF Downlink
  <2> HIDE DEF cmd
  <2> QED
    BY <2>1, <2>2, Zenon
<1>6. /\ tq' = Tail(tq) /\ answer' \in BOOLEAN /\ uuidOnce' = FALSE
      /\ UNCHANGED <<tsent, tfin, dnFin, pc>>
  BY <1>2, Zenon DEF Downlink, target
<1> DEFINE it == Item(Form(dspl), cmd, padding /\ uuidOnce, Head(tq).n)
<1>7. /\ it \in DnItem /\ it.n = Head(tq).n /\ (it.form = "raw" <=> dspl) /\ it.cmd = cmd
      /\ it.uuid <=> (padding /\ uuidOnce)
  BY <1>3, <1>4, <1>5, Zenon DEF Item, Form, DnItem
<1>8. dn' = d \o <<it>>
  BY <1>1, <1>5, Zenon
<1> HIDE DEF it
<1>9. dn' = Append(d, it)
  BY <1>7, <1>8, AppendIsConcat, Zenon
<1>10. /\ dspl' = (dspl \/ it.cmd = "direct") /\ padding' = (padding /\ it.cmd = "continue")
       /\ (it.cmd = "plain" <=> ~padding) /\ it.cmd # "rekey"
  BY <1>5, <1>7, Zenon
<1> QED
  BY <1>1, <1>3, <1>6, <1>7, <1>9, <1>10, DnPasses, Zenon

\* After the hand-over, the copy passes a unit on.
LEMMA DnCopied ==
  ASSUME DnInv, RawDown
  PROVE  DnInv'
<1>1. /\ DnType /\ (uuidOnce => padding) /\ (pc = "raw" => dspl) /\ (dnFin => tfin /\ tq = <<>>)
      /\ Decodable(dn, tsent - Len(tq), dspl, padding)
  BY Zenon DEF DnInv
<1>2. /\ dn \in Seq(DnItem) /\ answer \in BOOLEAN /\ padding \in BOOLEAN /\ uuidOnce \in BOOLEAN
      /\ tq \in Seq([kind : Kinds, n : Nat]) /\ tfin \in BOOLEAN
  BY <1>1, Zenon DEF DnType
<1>3. pc = "raw" /\ UNCHANGED <<tsent, tfin, dspl, padding, uuidOnce, answer, pc>>
  BY Zenon DEF RawDown, target
<1>4. dspl /\ ~padding /\ ~uuidOnce
  BY <1>1, <1>3, Zenon DEF Decodable
<1>5. CASE /\ tq # <<>> /\ tq' = Tail(tq) /\ dnFin' = dnFin
           /\ dn' = Append(dn, Item("raw", "plain", FALSE, Head(tq).n))
  <2> DEFINE it == Item("raw", "plain", FALSE, Head(tq).n)
  <2>1. Head(tq).n \in Nat
    <3>1. Head(tq) \in [kind : Kinds, n : Nat]
      BY <1>2, <1>5, HeadTailProperties, Zenon
    <3> QED
      BY <3>1, Zenon
  <2>2. it \in DnItem /\ it.n = Head(tq).n /\ it.form = "raw" /\ it.cmd = "plain" /\ it.uuid = FALSE
    BY <2>1, Zenon DEF Item, DnItem
  <2>3. dn' = Append(dn, it)
    BY <1>5, Zenon
  <2> HIDE DEF it
  <2>4. /\ it.uuid <=> (padding /\ uuidOnce)
        /\ it.form = "raw" <=> dspl
        /\ it.cmd = "plain" <=> ~padding
        /\ it.cmd # "rekey"
        /\ dspl' = (dspl \/ it.cmd = "direct")
        /\ padding' = (padding /\ it.cmd = "continue")
        /\ uuidOnce' = FALSE
    BY <1>1, <1>2, <1>3, <1>4, <2>2, Zenon DEF DnType
  <2> QED
    BY <1>1, <1>2, <1>3, <1>5, <2>2, <2>3, <2>4, DnPasses, Zenon
<1>6. CASE tq = <<>> /\ tfin /\ dnFin' = TRUE /\ UNCHANGED <<tq, dn>>
  <2>1. DnType'
    BY <1>1, <1>3, <1>6, Zenon DEF DnType
  <2>2. Decodable(dn, tsent - Len(tq), dspl, padding)'
    BY <1>1, <1>3, <1>6, Zenon
  <2> QED
    BY <1>3, <1>4, <1>6, <2>1, <2>2, Zenon DEF DnInv
<1> QED
  BY <1>5, <1>6, Zenon DEF RawDown

\* The downlink ends.
LEMMA DnEnds ==
  ASSUME DnInv, DownlinkEof
  PROVE  DnInv'
<1>1. /\ tq = <<>> /\ tfin /\ dnFin' = TRUE
      /\ UNCHANGED <<tsent, tfin, tq, dn, dspl, padding, uuidOnce, answer, pc>>
  BY Zenon DEF DownlinkEof, target
<1>2. DnType'
  BY <1>1, Zenon DEF DnInv, DnType
<1>3. Decodable(dn, tsent - Len(tq), dspl, padding)'
  BY <1>1, Zenon DEF DnInv
<1> QED
  BY <1>1, <1>2, <1>3, Zenon DEF DnInv

\* Every step keeps the downlink's half.
LEMMA DnStep ==
  ASSUME DnInv, SpliceNext
  PROVE  DnInv'
<1>1. CASE TargetSends
  BY <1>1, DnSends
<1>2. CASE UplinkKeyUpdate
  <2>1. /\ UNCHANGED <<tsent, tfin, tq, dn, dspl, padding, uuidOnce, dnFin, pc>>
        /\ answer' \in {answer, TRUE}
    BY <1>2, Zenon DEF UplinkKeyUpdate, target, downlink
  <2>2. answer' \in BOOLEAN /\ tfin' \in BOOLEAN
    BY <2>1, Zenon DEF DnInv, DnType
  <2> QED
    BY <2>1, <2>2, DnSame, Zenon
<1>3. CASE Downlink
  BY <1>3, DnChunk
<1>4. CASE DownlinkEof
  BY <1>4, DnEnds
<1>5. CASE RawDown
  BY <1>5, DnCopied
<1>6. CASE TargetCloses
  <2>1. UNCHANGED <<tsent, tq, dn, dspl, padding, uuidOnce, dnFin, answer, pc>> /\ tfin' = TRUE
    BY <1>6, Zenon DEF TargetCloses, downlink
  <2>2. answer \in BOOLEAN
    BY Zenon DEF DnInv, DnType
  <2> QED
    BY <2>1, <2>2, DnSame, Zenon
<1>7. CASE \/ ClientSends \/ ClientUpdatesKey \/ ClientCloses \/ Fill \/ UplinkRecord
           \/ UplinkRaw \/ UplinkEof \/ Taken \/ Idle \/ Done \/ HandOver \/ RawUp
           \/ RawEnds \/ Fails
  <2>1. /\ UNCHANGED <<tsent, tfin, tq, dn, dspl, padding, uuidOnce, dnFin, answer>>
        /\ pc' = pc \/ pc' = "ended" \/ (pc' = "raw" /\ dspl)
    BY <1>7, Zenon DEF ClientSends, ClientUpdatesKey, ClientCloses, Fill, UplinkRecord,
                UplinkRaw, UplinkEof, Taken, Idle, Done, HandOver, RawUp, RawEnds,
                Fails, target, downlink
  <2>2. answer \in BOOLEAN /\ tfin \in BOOLEAN
    BY Zenon DEF DnInv, DnType
  <2>3. pc' = "raw" => pc = "raw" \/ dspl
    BY <2>1, Zenon
  <2> QED
    BY <2>1, <2>2, <2>3, DnSame, Zenon
<1> QED
  BY <1>1, <1>2, <1>3, <1>4, <1>5, <1>6, <1>7, Zenon DEF SpliceNext, Relay

\* The downlink's half holds at the start.
LEMMA DnInit == SpliceInit => DnInv
<1> SUFFICES ASSUME SpliceInit PROVE DnInv
  OBVIOUS
<1>1. /\ tsent = 0 /\ tfin = FALSE /\ tq = <<>> /\ dn = <<>> /\ dspl = FALSE /\ padding = TRUE
      /\ uuidOnce = TRUE /\ dnFin = FALSE /\ answer = FALSE /\ pc = "framed"
  BY Zenon DEF SpliceInit
<1>2. /\ tq \in Seq([kind : Kinds, n : Nat]) /\ dn \in Seq(DnItem) /\ Len(tq) = 0 /\ Len(dn) = 0
  BY <1>1, EmptySeq, Zenon
<1>3. Decodable(dn, tsent - Len(tq), dspl, padding)
  BY <1>1, <1>2 DEF Decodable
<1>4. DnType
  BY <1>1, <1>2, Zenon DEF DnType
<1>5. /\ Len(tq) <= tsent /\ tsent = Len(tq) /\ pc # "raw"
      /\ \A i \in 1..Len(tq) : tq[i].n = (tsent - Len(tq)) + i
  BY <1>1, <1>2
<1> QED
  BY <1>1, <1>3, <1>4, <1>5, Zenon DEF DnInv

\* The downlink's half holds always.
LEMMA DnHolds ==
  ASSUME DnInv
  PROVE  DownlinkDecodable
<1>1. /\ DnType /\ Decodable(dn, tsent - Len(tq), dspl, padding) /\ (dnFin => tq = <<>>)
  BY Zenon DEF DnInv
<1>2. /\ \A n \in 1..(tsent - Len(tq)) : \E i \in 1..Len(dn) : dn[i].n = n
      /\ \A i \in 1..Len(dn) : Formed(dn, i) /\ (dn[i].n > 0 => Placed(dn, i))
  BY <1>1, Zenon DEF Decodable
<1>3. ASSUME dnFin, NEW n \in 1..tsent PROVE \E i \in Units : dn[i].n = n
  <2>1. tsent \in Nat /\ tsent - Len(tq) = tsent
    BY <1>1, <1>3, EmptySeq DEF DnType
  <2>2. PICK i \in 1..Len(dn) : dn[i].n = n
    BY <1>2, <2>1, Zenon
  <2>3. dn[i].n > 0
    BY <2>1, <2>2
  <2> QED
    BY <2>2, <2>3, Zenon DEF Units
<1>4. ASSUME NEW i \in Units
      PROVE  /\ \A j \in 1..(i - 1) : dn[j].n < dn[i].n
             /\ dn[i].n = 1 \/ \E j \in 1..(i - 1) : dn[j].n = dn[i].n - 1
             /\ dn[i].uuid <=> dn[i].n = 1
             /\ dn[i].cmd = "plain" <=> Earlier(i, {"end", "direct"})
  <2>1. Placed(dn, i)
    BY <1>2, Zenon DEF Units
  <2>2. /\ \A j \in 1..(i - 1) : dn[j].n < dn[i].n
        /\ dn[i].n = 1 \/ \E j \in 1..(i - 1) : dn[j].n = dn[i].n - 1
        /\ dn[i].uuid <=> dn[i].n = 1
        /\ dn[i].cmd = "plain" <=> \E j \in 1..(i - 1) : dn[j].cmd \in {"end", "direct"}
    BY <2>1, Zenon DEF Placed
  <2> QED
    BY <2>2, Zenon DEF Earlier
<1>5. ASSUME NEW i \in 1..Len(dn) PROVE dn[i].form = "raw" <=> Earlier(i, {"direct"})
  <2>1. dn[i].form = "raw" <=> \E j \in 1..(i - 1) : dn[j].cmd = "direct"
    BY <1>2, Zenon DEF Formed
  <2> QED
    BY <2>1, Zenon DEF Earlier
<1> QED
  BY <1>3, <1>4, <1>5, Zenon DEF DownlinkDecodable

-----------------------------------------------------------------------------
\* Both halves hold of every behaviour of the splice.
LEMMA SpliceInductive == SpliceSpec => [](UpInv /\ DnInv)
<1>1. SpliceInit => UpInv /\ DnInv
  BY UpInit, DnInit, Zenon
<1>2. ASSUME UpInv, DnInv, SpliceNext PROVE (UpInv /\ DnInv)'
  BY <1>2, UpStep, DnStep, Zenon
<1>3. ASSUME UpInv, DnInv, UNCHANGED spliceVars PROVE (UpInv /\ DnInv)'
  <2>1. UNCHANGED <<cmode, csent, cfin, wire, inbuf, uspl, udone, upOut, upFin, pc>>
    BY <1>3, Zenon DEF spliceVars, client, uplink
  <2>2. UNCHANGED <<tsent, tfin, tq, dn, dspl, padding, uuidOnce, dnFin, answer, pc>>
    BY <1>3, Zenon DEF spliceVars, target, downlink
  <2>3. udone \in BOOLEAN /\ cfin \in BOOLEAN
    BY <1>3, Zenon DEF UpInv, UpType
  <2>4. answer \in BOOLEAN /\ tfin \in BOOLEAN
    BY <1>3, Zenon DEF DnInv, DnType
  <2>5. UpInv'
    BY <1>3, <2>1, <2>3, UpSame, Zenon
  <2>6. DnInv'
    BY <1>3, <2>2, <2>4, DnSame, Zenon
  <2> QED
    BY <2>5, <2>6, Zenon
<1> QED
  BY <1>1, <1>2, <1>3, PTL DEF SpliceSpec

(***************************************************************************)
(* The target gets the client's stream in order and without a gap, across  *)
(* the switch to raw and the hand-over, however reads cut it, and its end  *)
(* only behind the rest; rustls never sees a raw unit.                     *)
(***************************************************************************)
THEOREM UplinkIsFaithful == SpliceSpec => []UplinkFaithful
<1>1. UpInv => UplinkFaithful
  BY UpHolds, Zenon
<1> QED
  BY <1>1, SpliceInductive, PTL

(***************************************************************************)
(* The client can decode all the splice writes to it, whatever answer to a *)
(* key update was queued when the downlink switched to raw bytes.          *)
(***************************************************************************)
THEOREM DownlinkIsDecodable == SpliceSpec => []DownlinkDecodable
<1>1. DnInv => DownlinkDecodable
  BY DnHolds
<1> QED
  BY <1>1, SpliceInductive, PTL

=============================================================================
