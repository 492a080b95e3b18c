------------------------------ MODULE E770Proofs ------------------------------
(* The expander's output discipline, its tag stack and the list of open    *)
(* elements the stack implements, for every set of names, every output     *)
(* limit and every mask. The stack and the list of open elements agree as  *)
(* long as no index is masked to another one.                              *)
EXTENDS E770, SequenceTheorems, FiniteSetTheorems, Iteration, TLAPS

(* In a deeper stack a masked index names another entry. *)
Shallow == Len(stack) <= Mask + 1

Canonical(st) ==
  /\ \A i \in DOMAIN st : st[i].count >= 1
  /\ \A i \in 1..(Len(st) - 1) : st[i].name # st[i + 1].name

(* The second stack holds one element more: a run of its own, or a longer  *)
(* last run.                                                               *)
NewRun(s, t) ==
  /\ Len(t) = Len(s) + 1
  /\ \A i \in 1..Len(s) : t[i] = s[i]
  /\ t[Len(s) + 1].count = 1

LongerRun(s, t) ==
  /\ Len(s) >= 1
  /\ Len(t) = Len(s)
  /\ \A i \in 1..(Len(s) - 1) : t[i] = s[i]
  /\ t[Len(s)].name = s[Len(s)].name
  /\ t[Len(s)].count = s[Len(s)].count + 1

OneMore(s, t) == NewRun(s, t) \/ LongerRun(s, t)

IInv ==
  /\ TypeOK
  /\ ModeFollowsOutput
  /\ StartTagOnTop
  /\ OutputWithinLimit

-----------------------------------------------------------------------------
LEMMA PieceTypes ==
  /\ \A n \in Names : NameSize[n] \in Nat
  /\ \A s \in Sizes : s \in Nat
  /\ Limit \in Nat /\ StopAfter \in Nat /\ Mask \in Nat /\ MaxDepth \in Nat
BY ExpanderAssumption

(* Opening an element: one more in the run, or a run of its own. *)
LEMMA PushedFacts ==
  ASSUME NEW st \in Seq(Entry), Canonical(st), NEW n \in Names
  PROVE  /\ Pushed(st, n) \in Seq(Entry)
         /\ Canonical(Pushed(st, n))
         /\ Len(Pushed(st, n)) <= Len(st) + 1
         /\ Pushed(st, n) # <<>>
         /\ Top(Pushed(st, n)).name = n
         /\ OneMore(st, Pushed(st, n))
<1> DEFINE e == [name |-> n, count |-> 1]
<1>1. CASE st # <<>> /\ Top(st).name = n
  <2> DEFINE t == [st EXCEPT ![Len(st)] = [st[Len(st)] EXCEPT !.count = @ + 1]]
  <2>1. Pushed(st, n) = t
    BY <1>1 DEF Pushed
  <2>2. Len(st) \in 1..Len(st)
    BY <1>1, LenProperties, EmptySeq
  <2>3. st[Len(st)] \in Entry
    BY <2>2, ElementOfSeq
  <2>4. [st[Len(st)] EXCEPT !.count = @ + 1] \in Entry
    BY <2>3 DEF Entry
  <2>5. /\ t \in Seq(Entry) /\ Len(t) = Len(st)
        /\ \A j \in 1..Len(st) :
             t[j] = IF j = Len(st) THEN [st[Len(st)] EXCEPT !.count = @ + 1] ELSE st[j]
    BY <2>2, <2>4, ExceptSeq
  <2>6. /\ t[Len(st)].name = n
        /\ t[Len(st)].count = st[Len(st)].count + 1
    BY <2>2, <2>3, <2>5, <1>1 DEF Entry, Top
  <2>7. Canonical(t)
    <3>1. \A i \in DOMAIN t : t[i].count >= 1
      BY <2>2, <2>3, <2>5, <2>6, LenProperties DEF Canonical, Entry
    <3>2. \A i \in 1..Len(st) : t[i].name = st[i].name
      BY <2>2, <2>3, <2>5, <2>6, <1>1 DEF Top, Entry
    <3>3. \A i \in 1..(Len(t) - 1) : t[i].name # t[i + 1].name
      <4> HIDE DEF t
      <4> QED  BY <2>2, <2>5, <3>2 DEF Canonical
    <3>4. QED  BY <3>1, <3>3 DEF Canonical
  <2>8. t # <<>>
    BY <2>2, <2>5, EmptySeq
  <2>9. LongerRun(st, t)
    <3>1. Len(st) >= 1 /\ t[Len(st)].name = st[Len(st)].name
      BY <1>1, <2>2, <2>6 DEF Top
    <3>2. \A i \in 1..(Len(st) - 1) : i \in 1..Len(st) /\ i # Len(st)
      BY <2>2
    <3> HIDE DEF t
    <3>3. \A i \in 1..(Len(st) - 1) : t[i] = st[i]
      BY <2>5, <3>2
    <3>4. QED  BY <2>5, <2>6, <3>1, <3>3 DEF LongerRun
  <2>10. QED  BY <2>1, <2>2, <2>5, <2>6, <2>7, <2>8, <2>9 DEF Top, OneMore
<1>2. CASE st = <<>> \/ Top(st).name # n
  <2>1. Pushed(st, n) = Append(st, e)
    BY <1>2 DEF Pushed
  <2>2. e \in Entry
    BY DEF Entry
  <2>3. /\ Append(st, e) \in Seq(Entry) /\ Len(Append(st, e)) = Len(st) + 1
        /\ \A i \in 1..Len(st) : Append(st, e)[i] = st[i]
        /\ Append(st, e)[Len(st) + 1] = e
    BY <2>2, AppendProperties
  <2>4. Len(st) \in Nat /\ DOMAIN st = 1..Len(st)
        /\ DOMAIN Append(st, e) = 1..(Len(st) + 1)
    BY <2>3, LenProperties
  <2>5. \A i \in 1..(Len(st) + 1) : Append(st, e)[i].count >= 1
    BY <2>3, <2>4 DEF Canonical
  <2>6. \A i \in 1..Len(st) : Append(st, e)[i].name # Append(st, e)[i + 1].name
    <3>1. SUFFICES ASSUME NEW i \in 1..Len(st)
                   PROVE  Append(st, e)[i].name # Append(st, e)[i + 1].name
      OBVIOUS
    <3>2. CASE i = Len(st)
      <4>1. st # <<>>
        BY <2>4, <3>2, EmptySeq
      <4>2. st[i].name # n
        BY <1>2, <3>2, <4>1 DEF Top
      <4>3. QED  BY <2>3, <2>4, <3>2, <4>2
    <3>3. CASE i # Len(st)
      <4> DEFINE l == Len(st)
      <4>0. l \in Nat /\ i \in 1..l /\ i # l
        BY <2>4, <3>3
      <4>1. i \in 1..(Len(st) - 1) /\ i + 1 \in 1..Len(st)
        <5> HIDE DEF l
        <5>1. i \in 1..(l - 1) /\ i + 1 \in 1..l
          BY <4>0
        <5>2. QED  BY <5>1 DEF l
      <4>2. st[i].name # st[i + 1].name
        BY <4>1 DEF Canonical
      <4>3. QED  BY <2>3, <4>1, <4>2
    <3>4. QED  BY <3>2, <3>3
  <2>7. NewRun(st, Append(st, e))
    BY <2>3 DEF NewRun
  <2>8. QED
    BY <2>1, <2>3, <2>4, <2>5, <2>6, <2>7, EmptySeq DEF Canonical, Top, OneMore
<1>3. QED  BY <1>1, <1>2

(* Whatever became of its runs, a stack stays one of names and counts.     *)
LEMMA PushedTypes ==
  ASSUME NEW st \in Seq(Entry), NEW n \in Names
  PROVE  /\ Pushed(st, n) \in Seq(Entry)
         /\ Pushed(st, n) # <<>> /\ Top(Pushed(st, n)).name = n
<1> DEFINE e == [name |-> n, count |-> 1]
<1>1. CASE st # <<>> /\ Top(st).name = n
  <2> DEFINE f == [st[Len(st)] EXCEPT !.count = @ + 1]
             t == [st EXCEPT ![Len(st)] = f]
  <2>1. Pushed(st, n) = t
    BY <1>1 DEF Pushed
  <2>2. Len(st) \in 1..Len(st)
    BY <1>1, LenProperties, EmptySeq
  <2>3. st[Len(st)] \in Entry
    BY <2>2, ElementOfSeq
  <2>4. f \in Entry /\ f.name = n
    BY <1>1, <2>3 DEF Entry, Top
  <2> HIDE DEF f
  <2>5. /\ t \in Seq(Entry) /\ Len(t) = Len(st)
        /\ \A j \in 1..Len(st) : t[j] = IF j = Len(st) THEN f ELSE st[j]
    BY <2>2, <2>4, ExceptSeq
  <2>6. t # <<>>
    BY <2>2, <2>5, EmptySeq
  <2>7. QED  BY <2>1, <2>2, <2>4, <2>5, <2>6 DEF Top
<1>2. CASE st = <<>> \/ Top(st).name # n
  <2>1. Pushed(st, n) = Append(st, e)
    BY <1>2 DEF Pushed
  <2>2. e \in Entry
    BY DEF Entry
  <2>3. /\ Append(st, e) \in Seq(Entry) /\ Len(Append(st, e)) = Len(st) + 1
        /\ Append(st, e)[Len(st) + 1] = e
    BY <2>2, AppendProperties
  <2>4. Len(st) \in Nat
    BY LenProperties
  <2>5. QED  BY <2>1, <2>3, <2>4, EmptySeq DEF Top
<1>3. QED  BY <1>1, <1>2

LEMMA CutTypes ==
  ASSUME NEW st \in Seq(Entry), NEW p \in 0..Len(st)
  PROVE  SubSeq(st, 1, p) \in Seq(Entry) /\ Len(SubSeq(st, 1, p)) = p
<1>1. \A i \in 1..p : st[i] \in Entry
  BY LenProperties, ElementOfSeq
<1>2. /\ SubSeq(st, 1, p) \in Seq(Entry)
      /\ Len(SubSeq(st, 1, p)) = IF 1 <= p THEN p - 1 + 1 ELSE 0
  BY <1>1, SubSeqProperties
<1>3. QED  BY <1>2, LenProperties

LEMMA DecTagTypes ==
  ASSUME NEW st \in Seq(Entry), NEW p \in 1..Len(st)
  PROVE  DecTag(st, p) \in Seq(Entry)
<1> DEFINE e == [st[p] EXCEPT !.count = @ - 1]
           dec == [st EXCEPT ![p] = e]
<1>1. st[p] \in Entry /\ Len(st) \in Nat
  BY ElementOfSeq, LenProperties
<1>2. e \in Entry
  BY <1>1 DEF Entry
<1> HIDE DEF e
<1>3. dec \in Seq(Entry) /\ Len(dec) = Len(st)
  BY <1>2, ExceptSeq
<1>4. DecTag(st, p) \in {Popped(dec), dec}
  BY DEF DecTag, e
<1> HIDE DEF dec
<1>5. Popped(dec) \in Seq(Entry)
  <2> DEFINE J == {j \in 0..Len(dec) : j = 0 \/ dec[j].count # 0}
  <2>1. J \in SUBSET Nat /\ 0 \in J /\ \A y \in J : y <= Len(st)
    BY <1>1, <1>3
  <2>2. \E x \in J : \A y \in J : x >= y
    <3> HIDE DEF J
    <3>1. QED  BY <1>1, <2>1, GreatestExists
  <2>3. Max(J) \in J
    BY <2>2 DEF Max
  <2>4. Max(J) \in 0..Len(dec)
    BY <2>3
  <2>5. QED  BY <1>3, <2>4, CutTypes DEF Popped
<1>6. QED  BY <1>3, <1>4, <1>5

(* A shorter stack is as canonical as the stack. *)
LEMMA CutFacts ==
  ASSUME NEW st \in Seq(Entry), Canonical(st), NEW p \in 0..Len(st)
  PROVE  /\ SubSeq(st, 1, p) \in Seq(Entry)
         /\ Len(SubSeq(st, 1, p)) = p
         /\ Canonical(SubSeq(st, 1, p))
         /\ \A i \in 1..p : SubSeq(st, 1, p)[i] = st[i]
<1>1. \A i \in 1..p : st[i] \in Entry
  BY LenProperties, ElementOfSeq
<1>2. /\ SubSeq(st, 1, p) \in Seq(Entry)
      /\ Len(SubSeq(st, 1, p)) = p
      /\ \A i \in 1..p : SubSeq(st, 1, p)[i] = st[i]
  <2>1. /\ SubSeq(st, 1, p) \in Seq(Entry)
        /\ Len(SubSeq(st, 1, p)) = IF 1 <= p THEN p - 1 + 1 ELSE 0
        /\ \A i \in 1..(p - 1 + 1) : SubSeq(st, 1, p)[i] = st[1 + i - 1]
    BY <1>1, SubSeqProperties
  <2>2. QED  BY <2>1, LenProperties
<1>3. Canonical(SubSeq(st, 1, p))
  BY <1>2, LenProperties DEF Canonical
<1>4. QED  BY <1>2, <1>3

(* Closing the top entry takes one element off its run, or the run with    *)
(* its last element; the loop that pops never pops two.                    *)
LEMMA DecTagFacts ==
  ASSUME NEW st \in Seq(Entry), Canonical(st), Len(st) >= 1
  PROVE  /\ DecTag(st, Len(st)) \in Seq(Entry)
         /\ Canonical(DecTag(st, Len(st)))
         /\ Len(DecTag(st, Len(st))) <= Len(st)
         /\ OneMore(DecTag(st, Len(st)), st)
<1> DEFINE m == Len(st)
           e == [st[m] EXCEPT !.count = @ - 1]
           dec == [st EXCEPT ![m] = e]
<1>1. m \in 1..m /\ m \in Nat /\ DOMAIN st = 1..m
  BY LenProperties
<1>2. \A j \in 1..m : st[j] \in Entry
  BY ElementOfSeq
<1>3. e \in Entry /\ e.count = st[m].count - 1 /\ e.name = st[m].name
  BY <1>1, <1>2 DEF Entry
<1>4. /\ dec \in Seq(Entry) /\ Len(dec) = m
      /\ \A j \in 1..m : dec[j] = IF j = m THEN e ELSE st[j]
  BY <1>1, <1>3, ExceptSeq
<1>5. DecTag(st, m) = IF dec[m].count = 0 THEN Popped(dec) ELSE dec
  BY DEF DecTag
<1>6. \A j \in 1..m : st[j].count >= 1 /\ st[j].count \in Int
  BY <1>1, <1>2 DEF Canonical, Entry
<1> HIDE DEF dec, e
<1>0. Len(st) = m
  OBVIOUS
<1> HIDE DEF m
<1>7. CASE dec[m].count = 0
  <2> DEFINE J == {j \in 0..Len(dec) : j = 0 \/ dec[j].count # 0}
  <2>1. m - 1 \in J
    BY <1>1, <1>4, <1>6
  <2>2. \A j \in J : m - 1 >= j
    BY <1>1, <1>4, <1>7
  <2>3. Max(J) = m - 1
    <3>1. \E x \in J : \A y \in J : x >= y
      BY <2>1, <2>2
    <3>2. Max(J) \in J /\ \A y \in J : Max(J) >= y
      BY <3>1 DEF Max
    <3>3. QED  BY <1>1, <1>4, <2>1, <2>2, <3>2
  <2>4. DecTag(st, m) = SubSeq(dec, 1, m - 1)
    BY <1>5, <1>7, <2>3 DEF Popped
  <2>5. SubSeq(dec, 1, m - 1) = SubSeq(st, 1, m - 1)
    <3>1. \A i \in 1..(m - 1) : dec[i] = st[i] /\ st[i] \in Entry
      BY <1>1, <1>2, <1>4
    <3>2. /\ SubSeq(dec, 1, m - 1) \in Seq(Entry)
          /\ Len(SubSeq(dec, 1, m - 1)) = m - 1
          /\ \A i \in 1..(m - 1) : SubSeq(dec, 1, m - 1)[i] = dec[i]
      <4>1. \A i \in 1..(m - 1) : dec[i] \in Entry
        BY <3>1
      <4>2. /\ SubSeq(dec, 1, m - 1) \in Seq(Entry)
            /\ Len(SubSeq(dec, 1, m - 1)) = IF 1 <= m - 1 THEN m - 1 - 1 + 1 ELSE 0
            /\ \A i \in 1..(m - 1 - 1 + 1) : SubSeq(dec, 1, m - 1)[i] = dec[1 + i - 1]
        BY <1>1, <4>1, SubSeqProperties
      <4>3. QED  BY <1>1, <4>2
    <3>3. /\ SubSeq(st, 1, m - 1) \in Seq(Entry)
          /\ Len(SubSeq(st, 1, m - 1)) = m - 1
          /\ \A i \in 1..(m - 1) : SubSeq(st, 1, m - 1)[i] = st[i]
      <4>1. m - 1 \in 0..Len(st)
        BY <1>0, <1>1
      <4>2. QED  BY <4>1, CutFacts
    <3>4. QED
      <4> DEFINE u == SubSeq(dec, 1, m - 1)
                 v == SubSeq(st, 1, m - 1)
      <4>1. u \in Seq(Entry) /\ v \in Seq(Entry) /\ Len(u) = Len(v)
            /\ \A i \in 1..Len(u) : u[i] = v[i]
        BY <3>1, <3>2, <3>3
      <4> HIDE DEF u, v
      <4>2. u = v
        BY <4>1, SeqEqual
      <4>3. QED  BY <4>2 DEF u, v
  <2>6. m - 1 \in 0..Len(st)
    BY <1>0, <1>1
  <2>7. /\ SubSeq(st, 1, m - 1) \in Seq(Entry)
        /\ Len(SubSeq(st, 1, m - 1)) = m - 1
        /\ Canonical(SubSeq(st, 1, m - 1))
        /\ \A i \in 1..(m - 1) : SubSeq(st, 1, m - 1)[i] = st[i]
    BY <2>6, CutFacts
  <2>8. DecTag(st, Len(st)) = SubSeq(st, 1, m - 1)
    BY <1>0, <2>4, <2>5
  <2>9. NewRun(SubSeq(st, 1, m - 1), st)
    <3>1. st[m].count = 1 /\ m - 1 + 1 = m
      BY <1>1, <1>3, <1>4, <1>6, <1>7
    <3>2. QED  BY <1>0, <2>7, <3>1 DEF NewRun
  <2>10. QED  BY <1>0, <1>1, <2>7, <2>8, <2>9 DEF OneMore
<1>8. CASE dec[m].count # 0
  <2>1. DecTag(st, m) = dec
    BY <1>5, <1>8
  <2>2. \A i \in 1..m : dec[i].count >= 1
    <3>1. dec[m].count = st[m].count - 1
      BY <1>1, <1>3, <1>4
    <3>2. dec[m].count >= 1
      BY <1>1, <1>6, <1>8, <3>1
    <3>3. QED  BY <1>1, <1>4, <1>6, <3>2
  <2>3. \A i \in 1..m : dec[i].name = st[i].name
    BY <1>3, <1>4
  <2>4. \A i \in 1..(m - 1) : dec[i].name # dec[i + 1].name
    <3>1. \A i \in 1..(m - 1) : st[i].name # st[i + 1].name
      BY <1>0 DEF Canonical
    <3>2. QED  BY <1>1, <2>3, <3>1
  <2>5. Canonical(dec)
    BY <1>4, <2>2, <2>4, LenProperties DEF Canonical
  <2>6. LongerRun(dec, st)
    <3>1. dec[m].name = st[m].name /\ dec[m].count = st[m].count - 1
      BY <1>1, <1>3, <1>4
    <3>2. \A i \in 1..(m - 1) : dec[i] = st[i]
      BY <1>1, <1>4
    <3>3. st[m].count = dec[m].count + 1
      BY <1>1, <1>6, <3>1
    <3>4. QED  BY <1>0, <1>1, <1>4, <3>1, <3>2, <3>3 DEF LongerRun
  <2>7. QED  BY <1>0, <1>1, <1>4, <2>1, <2>5, <2>6 DEF OneMore
<1>9. QED  BY <1>7, <1>8

(* A masked index is none above the one it masks. *)
LEMMA MaskedTypes ==
  ASSUME NEW p \in Nat, p > 0
  PROVE  Masked(p) \in 1..p
<1>1. PICK x, y : x = p - 1 /\ y = Mask + 1
  OBVIOUS
<1>2. x \in Nat /\ y \in Nat /\ y > 0
  BY <1>1, PieceTypes
<1>3. x % y \in 0..x
  <2>1. x % y \in Nat /\ x = y * (x \div y) + (x % y) /\ x \div y \in Nat
    BY <1>2
  <2>2. y * (x \div y) \in Nat
    BY <1>2, <2>1
  <2>3. QED  BY <1>2, <2>1, <2>2
<1>4. QED  BY <1>1, <1>2, <1>3 DEF Masked

(* Within the depth the mask is the identity. *)
LEMMA MaskedFacts ==
  ASSUME NEW p \in 1..(Mask + 1)
  PROVE  Masked(p) = p
<1>1. p - 1 \in 0..Mask
  BY PieceTypes
<1>2. (p - 1) % (Mask + 1) = p - 1
  BY <1>1, PieceTypes
<1>3. QED  BY <1>2 DEF Masked

-----------------------------------------------------------------------------
(* What one token writes: ensuring the last piece that is not empty keeps  *)
(* the whole token within the limit, whatever went before it unchecked.    *)
LEMMA WriteFacts ==
  ASSUME NEW a, NEW b, NEW c, Write(a, b, c), Fits(a, b, c), outLen \in Nat,
         a.size \in Nat, b.size \in Nat, c.size \in Nat,
         a.need \in Nat, b.need \in Nat, c.need \in Nat,
         \/ c.need = c.size /\ c.size > 0
         \/ c.size = 0 /\ b.need = b.size /\ b.size > 0
         \/ c.size = 0 /\ b.size = 0 /\ a.need = a.size /\ a.size > 0
  PROVE  /\ outLen' \in Nat /\ outLen' <= Limit
         /\ status' \in {"expanding", "stopped", "failed"}
         /\ lex' = Lex(Lex(Lex(lex, a), b), c)
<1>1. outLen' = outLen + a.size + b.size + c.size /\ outLen' \in Nat
  BY DEF Write
<1>2. outLen' <= Limit
  BY <1>1, PieceTypes DEF Fits, Room
<1>3. QED  BY <1>1, <1>2 DEF Write

(* Tokens that leave the stack alone. *)
LEMMA RaiseInv == IInv /\ Raise => IInv'
BY DEF IInv, Raise, TypeOK, ModeFollowsOutput, StartTagOnTop,
       OutputWithinLimit

LEMMA StutterInv == IInv /\ UNCHANGED vars => IInv'
BY DEF IInv, vars, TypeOK, ModeFollowsOutput, StartTagOnTop,
       OutputWithinLimit

LEMMA WordInv ==
  ASSUME IInv, NEW s \in Sizes, Word(s)
  PROVE  IInv'
<1> DEFINE word == Copy("word", s, 0)
<1>1. CASE Fits(WordGap, word, Nothing) /\ Write(WordGap, word, Nothing)
           /\ mode' = 1 /\ case' = (IF s > 0 THEN 1 ELSE case)
           /\ event' = [kind |-> "none"] /\ UNCHANGED stack
  <2>1. s \in Nat /\ s > 0 /\ outLen \in Nat /\ mode \in {-1, 0, 1}
    BY ExpanderAssumption DEF IInv, TypeOK
  <2>2. /\ outLen' \in Nat /\ outLen' <= Limit
        /\ status' \in {"expanding", "stopped", "failed"}
        /\ lex' = Lex(Lex(Lex(lex, WordGap), word), Nothing)
    <3>1. /\ WordGap.size \in Nat /\ WordGap.need \in Nat
          /\ word.size = s /\ word.need = s
          /\ Nothing.size = 0 /\ Nothing.need = 0
      BY <2>1 DEF WordGap, TagEnd, Copy, Put, Nothing, Piece
    <3> HIDE DEF word
    <3>2. QED  BY <1>1, <2>1, <3>1, WriteFacts
  <2>3. lex' = "word"
    <3>1. /\ lex = IF mode < 0 THEN "tag" ELSE IF mode > 0 THEN "word" ELSE "content"
          /\ mode \in {-1, 0, 1}
      BY <2>1 DEF IInv, ModeFollowsOutput
    <3>2. Lex(lex, WordGap) \in {"content", "gap"}
      BY <3>1 DEF Lex, Outside, WordGap, TagEnd, Put, Nothing, Piece
    <3>3. \A l \in {"content", "gap"} : Lex(Lex(l, word), Nothing) = "word"
      BY DEF Lex, Copy, Nothing, Piece
    <3> HIDE DEF word
    <3>4. QED  BY <2>2, <3>2, <3>3
  <2>4. QED
    BY <1>1, <2>1, <2>2, <2>3 DEF IInv, TypeOK, ModeFollowsOutput,
       StartTagOnTop, OutputWithinLimit
<1>2. CASE Raise
  BY <1>2, RaiseInv
<1>3. QED  BY <1>1, <1>2 DEF Word

LEMMA TextInv ==
  ASSUME IInv, NEW s \in Sizes, NEW resets \in BOOLEAN, Text(s, resets)
  PROVE  IInv'
<1> DEFINE text == Copy("text", s, 0)
           a == TagEnd(Put(">"))
<1>1. CASE Fits(a, text, Nothing) /\ Write(a, text, Nothing)
           /\ mode' = 0 /\ case' = (IF resets THEN 0 ELSE case)
           /\ event' = [kind |-> "none"] /\ UNCHANGED stack
  <2>1. s \in Nat /\ s > 0 /\ outLen \in Nat /\ mode \in {-1, 0, 1}
    BY ExpanderAssumption DEF IInv, TypeOK
  <2>2. /\ outLen' \in Nat /\ outLen' <= Limit
        /\ status' \in {"expanding", "stopped", "failed"}
        /\ lex' = Lex(Lex(Lex(lex, a), text), Nothing)
    <3>1. /\ a.size \in Nat /\ a.need \in Nat
          /\ text.size = s /\ text.need = s
          /\ Nothing.size = 0 /\ Nothing.need = 0
      BY <2>1 DEF TagEnd, Copy, Put, Nothing, Piece
    <3> HIDE DEF text, a
    <3>2. QED  BY <1>1, <2>1, <3>1, WriteFacts
  <2>3. lex' = "content"
    BY <2>1, <2>2 DEF IInv, ModeFollowsOutput, Lex, Outside, TagEnd,
       Copy, Put, Nothing, Piece
  <2>4. QED
    BY <1>1, <2>1, <2>2, <2>3 DEF IInv, TypeOK, ModeFollowsOutput,
       StartTagOnTop, OutputWithinLimit
<1>2. CASE Raise
  BY <1>2, RaiseInv
<1>3. QED  BY <1>1, <1>2 DEF Text

LEMMA OpenTagInv ==
  ASSUME IInv, NEW n \in Names, OpenTag(n)
  PROVE  IInv'
<1> DEFINE name == Copy("", NameSize[n], 0)
           a == TagEnd(Put(">"))
<1>1. CASE Fits(a, Put("<"), name) /\ Write(a, Put("<"), name)
           /\ mode' = -1 /\ stack' = Pushed(stack, n)
           /\ event' = [kind |-> "open", name |-> n] /\ UNCHANGED case
  <2>1. /\ NameSize[n] \in Nat /\ NameSize[n] > 0
        /\ outLen \in Nat /\ mode \in {-1, 0, 1}
    BY ExpanderAssumption DEF IInv, TypeOK
  <2>2. /\ outLen' \in Nat /\ outLen' <= Limit
        /\ status' \in {"expanding", "stopped", "failed"}
        /\ lex' = Lex(Lex(Lex(lex, a), Put("<")), name)
    <3>1. /\ a.size \in Nat /\ a.need \in Nat
          /\ Put("<").size = 1 /\ Put("<").need = 1
          /\ name.size = NameSize[n] /\ name.need = NameSize[n]
      BY <2>1 DEF TagEnd, Copy, Put, Nothing, Piece
    <3> HIDE DEF name, a
    <3>2. QED  BY <1>1, <2>1, <3>1, WriteFacts
  <2>3. lex' = "tag"
    BY <2>1, <2>2 DEF IInv, ModeFollowsOutput, Lex, Outside, TagEnd,
       Copy, Put, Nothing, Piece
  <2>4. stack' \in Seq(Entry) /\ stack' # <<>> /\ Top(stack').name = n
    BY <1>1, PushedTypes DEF IInv, TypeOK
  <2>6. TypeOK'
    <3>1. lex' \in {"content", "tag", "word"} /\ case' \in {0, 1}
          /\ mode' \in {-1, 0, 1}
      BY <1>1, <2>3 DEF IInv, TypeOK
    <3>2. event'.kind \in {"none", "open", "attribute", "close", "empty"}
      BY <1>1
    <3>3. QED  BY <2>2, <2>4, <3>1, <3>2 DEF TypeOK
  <2>8. StartTagOnTop'
    <3>1. event'.name = n /\ event'.kind = "open"
      BY <1>1
    <3>2. QED  BY <2>4, <3>1 DEF StartTagOnTop
  <2>9. ModeFollowsOutput' /\ OutputWithinLimit'
    <3>1. mode' = -1 /\ lex' = "tag" /\ outLen' <= Limit
      BY <1>1, <2>2, <2>3
    <3>2. QED  BY <3>1 DEF ModeFollowsOutput, OutputWithinLimit
  <2>10. QED  BY <2>6, <2>8, <2>9 DEF IInv
<1>2. CASE Raise
  BY <1>2, RaiseInv
<1>3. QED  BY <1>1, <1>2 DEF OpenTag

LEMMA AttributeInv ==
  ASSUME IInv, NEW a, NEW b, Attribute(a, b),
         a.sym = "attr", b.sym = "attr",
         a.size \in Nat, a.need \in Nat, b.size \in Nat, b.need \in Nat,
         \/ b.need = b.size /\ b.size > 0
         \/ b.size = 0 /\ a.need = a.size /\ a.size > 0
  PROVE  IInv'
<1>1. CASE mode < 0 /\ Fits(a, b, Nothing) /\ Write(a, b, Nothing)
           /\ event' = [kind |-> "attribute"] /\ UNCHANGED <<mode, case, stack>>
  <2>1. outLen \in Nat
    BY DEF IInv, TypeOK
  <2>2. /\ outLen' \in Nat /\ outLen' <= Limit
        /\ status' \in {"expanding", "stopped", "failed"}
        /\ lex' = Lex(Lex(Lex(lex, a), b), Nothing)
    <3>1. Nothing.size = 0 /\ Nothing.need = 0
      BY DEF Nothing, Piece
    <3>2. QED  BY <1>1, <2>1, <3>1, WriteFacts
  <2>3. lex' = "tag"
    BY <1>1, <2>2 DEF IInv, ModeFollowsOutput, Lex, Outside, Nothing, Piece
  <2>4. QED
    BY <1>1, <2>1, <2>2, <2>3 DEF IInv, TypeOK, ModeFollowsOutput,
       StartTagOnTop, OutputWithinLimit
<1>2. CASE Raise
  BY <1>2, RaiseInv
<1>3. QED  BY <1>1, <1>2 DEF Attribute

LEMMA AttributeNameInv ==
  ASSUME IInv, NEW s \in Sizes, AttributeName(s)
  PROVE  IInv'
<1> DEFINE a == Put("attr")
           b == Copy("attr", s, 0)
<1>1. /\ a.sym = "attr" /\ a.size = 1 /\ a.need = 1
      /\ b.sym = "attr" /\ b.size = s /\ b.need = s /\ s \in Nat /\ s > 0
  BY ExpanderAssumption DEF Put, Copy, Piece
<1>2. Attribute(a, b)
  BY DEF AttributeName
<1> HIDE DEF a, b
<1>3. QED  BY <1>1, <1>2, AttributeInv

LEMMA AttributeValueInv ==
  ASSUME IInv, NEW s \in Sizes \cup {0}, AttributeValue(s)
  PROVE  IInv'
<1>0. s \in Nat
  BY ExpanderAssumption
<1>1. CASE Attribute(Put("attr"), Copy("attr", s, 0))
  <2> DEFINE a == Put("attr")
             b == Copy("attr", s, 0)
  <2>1. /\ a.sym = "attr" /\ a.size = 1 /\ a.need = 1
        /\ b.sym = "attr" /\ b.size = s /\ b.need = s
    BY <1>0 DEF Put, Copy, Piece
  <2>2. Attribute(a, b)
    BY <1>1
  <2> HIDE DEF a, b
  <2>3. QED  BY <1>0, <2>1, <2>2, AttributeInv
<1>2. CASE Attribute(Raw("attr", 2), Copy("attr", s, 1))
  <2> DEFINE a == Raw("attr", 2)
             b == Copy("attr", s, 1)
  <2>1. /\ a.sym = "attr" /\ a.size = 2 /\ a.need = 0
        /\ b.sym = "attr" /\ b.size = s + 1 /\ b.need = s + 1
    BY <1>0 DEF Raw, Copy, Piece
  <2>2. Attribute(a, b)
    BY <1>2
  <2> HIDE DEF a, b
  <2>3. QED  BY <1>0, <2>1, <2>2, AttributeInv
<1>3. QED  BY <1>1, <1>2 DEF AttributeValue

LEMMA EndTagPieces ==
  ASSUME IInv, NEW s \in Nat
  PROVE  LET a == TagEnd(Raw(">", 1))
             b == Raw("</", 2)
             c == Copy("", s, 1)
         IN  /\ a.size \in Nat /\ a.need \in Nat
             /\ b.size \in Nat /\ b.need \in Nat
             /\ c.size \in Nat /\ c.need = c.size /\ c.size > 0
<1>1. mode \in {-1, 0, 1}
  BY DEF IInv, TypeOK
<1>2. s + 1 \in Nat /\ s + 1 > 0
  OBVIOUS
<1>3. QED
  BY <1>1, <1>2 DEF TagEnd, Copy, Raw, Nothing, Piece

(* Both end tags: a start tag that is still open is finished first. *)
LEMMA EndTagFacts ==
  ASSUME IInv, NEW s \in Nat,
         Fits(TagEnd(Raw(">", 1)), Raw("</", 2), Copy("", s, 1)),
         Write(TagEnd(Raw(">", 1)), Raw("</", 2), Copy("", s, 1))
  PROVE  /\ outLen' \in Nat /\ outLen' <= Limit
         /\ status' \in {"expanding", "stopped", "failed"}
         /\ lex' = "content"
<1> DEFINE a == TagEnd(Raw(">", 1))
           b == Raw("</", 2)
           c == Copy("", s, 1)
<1>1. outLen \in Nat /\ mode \in {-1, 0, 1}
  BY DEF IInv, TypeOK
<1>2. /\ a.size \in Nat /\ a.need \in Nat
      /\ b.size \in Nat /\ b.need \in Nat
      /\ c.size \in Nat /\ c.need = c.size /\ c.size > 0
  BY EndTagPieces
<1>3. /\ outLen' \in Nat /\ outLen' <= Limit
      /\ status' \in {"expanding", "stopped", "failed"}
      /\ lex' = Lex(Lex(Lex(lex, a), b), c)
  <2> HIDE DEF a, b, c
  <2>1. Fits(a, b, c) /\ Write(a, b, c)
    BY DEF a, b, c
  <2>2. outLen \in Nat
    BY <1>1
  <2>3. QED  BY ONLY <1>2, <2>1, <2>2, WriteFacts
<1>4. lex' = "content"
  BY <1>1, <1>3 DEF IInv, ModeFollowsOutput, Lex, Outside, TagEnd,
     Copy, Raw, Nothing, Piece
<1>5. QED  BY <1>3, <1>4

LEMMA ExplicitCloseInv ==
  ASSUME IInv, NEW s \in Sizes, ExplicitClose(s)
  PROVE  IInv'
<1>0. s \in Nat
  BY ExpanderAssumption
<1>1. CASE Raise
  BY <1>1, RaiseInv
<1>2. CASE ~Raise
  <2>1. /\ Fits(TagEnd(Raw(">", 1)), Raw("</", 2), Copy("", s, 1))
        /\ Write(TagEnd(Raw(">", 1)), Raw("</", 2), Copy("", s, 1))
        /\ mode' = 0 /\ event' = [kind |-> "none"] /\ UNCHANGED <<case, stack>>
    BY <1>2 DEF ExplicitClose
  <2>2. /\ outLen' \in Nat /\ outLen' <= Limit
        /\ status' \in {"expanding", "stopped", "failed"}
        /\ lex' = "content"
    BY <1>0, <2>1, EndTagFacts
  <2>3. mode' = 0 /\ event'.kind = "none" /\ case' = case /\ stack' = stack
    BY <2>1
  <2>4. QED
    BY <2>2, <2>3 DEF IInv, TypeOK, ModeFollowsOutput,
       StartTagOnTop, OutputWithinLimit
<1>3. QED  BY <1>1, <1>2

(* What closing an element leaves of the invariant. *)
LEMMA ClosedInv ==
  ASSUME IInv, outLen' \in Nat, outLen' <= Limit,
         status' \in {"expanding", "stopped", "failed"}, lex' = "content",
         mode' = 0, case' = case, event'.kind \in {"close", "empty"},
         stack' \in Seq(Entry)
  PROVE  IInv'
<1>1. TypeOK'
  BY DEF IInv, TypeOK
<1>2. ModeFollowsOutput' /\ StartTagOnTop' /\ OutputWithinLimit'
  BY DEF ModeFollowsOutput, StartTagOnTop, OutputWithinLimit
<1>3. QED  BY <1>1, <1>2 DEF IInv

LEMMA CloseRefInv ==
  ASSUME IInv, NEW k \in 0..MaxDepth, CloseRef(k)
  PROVE  IInv'
<1> DEFINE p == Referred(k)
           end == Copy("", NameSize[stack[p].name], 1)
<1>1. CASE Raise
  BY <1>1, RaiseInv
<1>2. CASE ~Raise
  <2>1. /\ k < Len(stack)
        /\ Fits(TagEnd(Raw(">", 1)), Raw("</", 2), end)
        /\ Write(TagEnd(Raw(">", 1)), Raw("</", 2), end)
        /\ mode' = 0 /\ UNCHANGED case
        /\ stack' = DecTag(SubSeq(stack, 1, p), p)
        /\ event' = [kind |-> "close", name |-> stack[p].name, run |-> k]
    BY <1>2 DEF CloseRef
  <2>2. stack \in Seq(Entry) /\ Len(stack) \in Nat
    BY LenProperties DEF IInv, TypeOK
  <2>3. p \in 1..Len(stack)
    <3>1. Len(stack) - k \in Nat /\ Len(stack) - k > 0 /\ Len(stack) - k <= Len(stack)
      <4>1. PICK l \in Nat : l = Len(stack)
        BY <2>2
      <4>2. k < l /\ k \in Nat
        <5>1. k \in Nat
          BY PieceTypes
        <5>2. k < l
          BY <2>1, <4>1
        <5>3. QED  BY <5>1, <5>2
      <4>3. l - k \in Nat /\ l - k > 0 /\ l - k <= l
        BY ONLY <4>2, l \in Nat
      <4>4. QED  BY <4>1, <4>3
    <3>2. p \in 1..(Len(stack) - k)
      BY <3>1, MaskedTypes DEF Referred
    <3>3. QED  BY <2>2, <3>1, <3>2
  <2>4. NameSize[stack[p].name] \in Nat
    <3> HIDE DEF p
    <3>1. stack[p] \in Entry
      BY <2>2, <2>3, ElementOfSeq
    <3>2. QED  BY <3>1, PieceTypes DEF Entry
  <2>5. /\ outLen' \in Nat /\ outLen' <= Limit
        /\ status' \in {"expanding", "stopped", "failed"} /\ lex' = "content"
    BY <2>1, <2>4, EndTagFacts
  <2>6. stack' \in Seq(Entry)
    <3>1. p \in 0..Len(stack)
      BY <2>2, <2>3
    <3> HIDE DEF p
    <3>2. SubSeq(stack, 1, p) \in Seq(Entry) /\ Len(SubSeq(stack, 1, p)) = p
      BY <2>2, <3>1, CutTypes
    <3>3. p \in 1..Len(SubSeq(stack, 1, p))
      BY <2>3, <3>2
    <3>4. QED  BY <2>1, <3>2, <3>3, DecTagTypes DEF p
  <2>7. event'.kind = "close"
    BY <2>1
  <2>8. QED  BY <2>1, <2>5, <2>6, <2>7, ClosedInv
<1>3. QED  BY <1>1, <1>2

LEMMA EmptyCloseInv ==
  ASSUME IInv, EmptyClose
  PROVE  IInv'
<1>1. CASE Raise
  BY <1>1, RaiseInv
<1>2. CASE ~Raise
  <2>1. /\ stack # <<>> /\ mode < 0
        /\ Fits(Put2, Nothing, Nothing) /\ Write(Put2, Nothing, Nothing)
        /\ mode' = 0 /\ UNCHANGED case
        /\ stack' = DecTag(stack, Masked(Len(stack)))
        /\ event' = [kind |-> "empty", name |-> Top(stack).name]
    BY <1>2 DEF EmptyClose
  <2>2. stack \in Seq(Entry) /\ Len(stack) \in Nat /\ Len(stack) > 0
    BY <2>1, LenProperties, EmptySeq DEF IInv, TypeOK
  <2>3. stack' \in Seq(Entry)
    <3>1. Masked(Len(stack)) \in 1..Len(stack)
      BY <2>2, MaskedTypes
    <3>2. QED  BY <2>1, <2>2, <3>1, DecTagTypes
  <2>5. /\ outLen' \in Nat /\ outLen' <= Limit
        /\ status' \in {"expanding", "stopped", "failed"}
        /\ lex' = Lex(Lex(Lex(lex, Put2), Nothing), Nothing)
    <3>1. outLen \in Nat
      BY DEF IInv, TypeOK
    <3>2. /\ Put2.size = 2 /\ Put2.need = 2
          /\ Nothing.size = 0 /\ Nothing.need = 0
      BY DEF Put2, Nothing, Piece
    <3>3. QED  BY <2>1, <3>1, <3>2, WriteFacts
  <2>6. lex' = "content"
    BY <2>1, <2>5 DEF IInv, ModeFollowsOutput, Lex, Outside, Put2, Nothing, Piece
  <2>7. event'.kind = "empty"
    BY <2>1
  <2>8. QED  BY <2>1, <2>3, <2>5, <2>6, <2>7, ClosedInv
<1>3. QED  BY <1>1, <1>2

-----------------------------------------------------------------------------
(* While no index is masked to another one, the stack stays canonical. *)
LEMMA StackFacts ==
  ASSUME IInv, StackCanonical, Shallow
  PROVE  /\ stack \in Seq(Entry) /\ Canonical(stack)
         /\ Len(stack) \in Nat /\ Len(stack) <= Mask + 1
BY LenProperties DEF IInv, TypeOK, StackCanonical, Canonical, Shallow

LEMMA CloseRefCanonical ==
  ASSUME IInv, StackCanonical, Shallow, NEW k \in 0..MaxDepth, CloseRef(k)
  PROVE  StackCanonical'
<1>1. CASE Raise
  BY <1>1 DEF Raise, StackCanonical
<1>2. CASE ~Raise
  <2>1. PICK p : p = Referred(k)
    OBVIOUS
  <2>2. k < Len(stack) /\ stack' = DecTag(SubSeq(stack, 1, p), p)
    BY <1>2, <2>1 DEF CloseRef
  <2>3. /\ stack \in Seq(Entry) /\ Canonical(stack)
        /\ Len(stack) \in Nat /\ Len(stack) <= Mask + 1
    BY StackFacts
  <2>4. p \in 1..Len(stack)
    <3>1. Len(stack) - k \in 1..(Mask + 1) /\ Len(stack) - k \in 1..Len(stack)
      BY <2>2, <2>3, PieceTypes
    <3>2. QED  BY <2>1, <3>1, MaskedFacts DEF Referred
  <2>5. PICK st : st = SubSeq(stack, 1, p)
    OBVIOUS
  <2>6. st \in Seq(Entry) /\ Canonical(st) /\ Len(st) = p /\ Len(st) >= 1
    <3>1. p \in 0..Len(stack) /\ p >= 1
      BY <2>3, <2>4
    <3>2. QED  BY <2>3, <2>5, <3>1, CutFacts
  <2>7. Canonical(DecTag(st, Len(st)))
    BY <2>6, DecTagFacts
  <2>8. stack' = DecTag(st, Len(st))
    BY <2>2, <2>5, <2>6
  <2>9. Canonical(stack')
    BY <2>7, <2>8
  <2>10. QED  BY <2>9 DEF StackCanonical, Canonical
<1>3. QED  BY <1>1, <1>2

LEMMA EmptyCloseCanonical ==
  ASSUME IInv, StackCanonical, Shallow, EmptyClose
  PROVE  StackCanonical'
<1>1. CASE Raise
  BY <1>1 DEF Raise, StackCanonical
<1>2. CASE ~Raise
  <2>1. stack # <<>> /\ stack' = DecTag(stack, Masked(Len(stack)))
    BY <1>2 DEF EmptyClose
  <2>2. /\ stack \in Seq(Entry) /\ Canonical(stack)
        /\ Len(stack) \in Nat /\ Len(stack) <= Mask + 1
    BY StackFacts
  <2>3. Len(stack) \in 1..(Mask + 1)
    BY <2>1, <2>2, EmptySeq, PieceTypes
  <2>4. stack' = DecTag(stack, Len(stack))
    BY <2>1, <2>3, MaskedFacts
  <2>5. Len(stack) >= 1
    BY <2>3
  <2>6. Canonical(stack')
    BY <2>2, <2>4, <2>5, DecTagFacts
  <2>7. QED  BY <2>6 DEF StackCanonical, Canonical
<1>3. QED  BY <1>1, <1>2

LEMMA CanonicalNext ==
  ASSUME IInv, StackCanonical, Shallow, [Next]_vars
  PROVE  StackCanonical'
<1>1. ASSUME UNCHANGED stack PROVE StackCanonical'
  BY <1>1 DEF StackCanonical
<1>2. ASSUME NEW s \in Sizes, Word(s) PROVE UNCHANGED stack
  BY <1>2 DEF Word, Raise
<1>3. ASSUME NEW s \in Sizes, NEW r \in BOOLEAN, Text(s, r) PROVE UNCHANGED stack
  BY <1>3 DEF Text, Raise
<1>4. ASSUME NEW n \in Names, OpenTag(n) PROVE StackCanonical'
  <2>1. CASE Raise
    BY <1>1, <2>1 DEF Raise
  <2>2. CASE stack' = Pushed(stack, n)
    <3>1. stack \in Seq(Entry) /\ Canonical(stack)
      BY StackFacts
    <3>2. Canonical(stack')
      BY <2>2, <3>1, PushedFacts
    <3>3. QED  BY <3>2 DEF StackCanonical, Canonical
  <2>3. QED  BY <1>4, <2>1, <2>2 DEF OpenTag
<1>5. ASSUME NEW s \in Sizes, AttributeName(s) PROVE UNCHANGED stack
  BY <1>5 DEF AttributeName, Attribute, Raise
<1>6. ASSUME NEW s \in Sizes \cup {0}, AttributeValue(s) PROVE UNCHANGED stack
  BY <1>6 DEF AttributeValue, Attribute, Raise
<1>7. ASSUME NEW s \in Sizes, ExplicitClose(s) PROVE UNCHANGED stack
  BY <1>7 DEF ExplicitClose, Raise
<1>8. CASE UNCHANGED vars
  BY <1>1, <1>8 DEF vars
<1>9. QED
  BY <1>1, <1>2, <1>3, <1>4, <1>5, <1>6, <1>7, <1>8, CloseRefCanonical, EmptyCloseCanonical DEF Next

-----------------------------------------------------------------------------
LEMMA InitInv == Init => IInv
<1> SUFFICES ASSUME Init PROVE IInv
  OBVIOUS
<1>1. stack = <<>> /\ stack \in Seq(Entry) /\ Len(stack) = 0
  BY EmptySeq DEF Init
<1>2. TypeOK
  BY <1>1 DEF Init, TypeOK
<1>3. QED
  BY <1>1, <1>2, PieceTypes DEF Init, IInv, ModeFollowsOutput, StartTagOnTop,
     OutputWithinLimit

(* Whatever the token sequence, and however deep the stack gets. *)
THEOREM ExpanderInvariant == Spec => []IInv
<1>1. IInv /\ [Next]_vars => IInv'
  <2> SUFFICES ASSUME IInv, [Next]_vars PROVE IInv'
    OBVIOUS
  <2>1. ASSUME NEW s \in Sizes, Word(s) PROVE IInv'
    BY <2>1, WordInv
  <2>2. ASSUME NEW s \in Sizes, NEW r \in BOOLEAN, Text(s, r) PROVE IInv'
    BY <2>2, TextInv
  <2>3. ASSUME NEW n \in Names, OpenTag(n) PROVE IInv'
    BY <2>3, OpenTagInv
  <2>4. ASSUME NEW s \in Sizes, AttributeName(s) PROVE IInv'
    BY <2>4, AttributeNameInv
  <2>5. ASSUME NEW s \in Sizes \cup {0}, AttributeValue(s) PROVE IInv'
    BY <2>5, AttributeValueInv
  <2>6. ASSUME NEW s \in Sizes, ExplicitClose(s) PROVE IInv'
    BY <2>6, ExplicitCloseInv
  <2>7. ASSUME NEW k \in 0..MaxDepth, CloseRef(k) PROVE IInv'
    BY <2>7, CloseRefInv
  <2>8. CASE EmptyClose
    BY <2>8, EmptyCloseInv
  <2>9. QED
    BY <2>1, <2>2, <2>3, <2>4, <2>5, <2>6, <2>7, <2>8, StutterInv DEF Next
<1>2. QED  BY <1>1, InitInv, PTL DEF Spec

(* The output never exceeds out_limit after a token. *)
THEOREM OutputBounded ==
  Spec => []OutputWithinLimit
<1>1. IInv => OutputWithinLimit
  BY DEF IInv
<1>2. QED  BY ExpanderInvariant, <1>1, PTL

(* The markup is well formed and the mode says where it stands. *)
THEOREM MarkupWellFormed ==
  Spec => []ModeFollowsOutput
<1>1. IInv => ModeFollowsOutput
  BY DEF IInv
<1>2. QED  BY ExpanderInvariant, <1>1, PTL

(* The run-length stack stays canonical as long as it never holds more     *)
(* runs than the mask can tell apart (E770State.dec_tag, empty_close); in  *)
(* a deeper one empty_close counts down another run than the top.          *)
THEOREM StackStaysCanonical ==
  Spec /\ []Shallow => []StackCanonical
<1>1. Init => StackCanonical
  BY LenProperties, EmptySeq DEF Init, StackCanonical
<1>2. IInv /\ StackCanonical /\ Shallow /\ [Next]_vars => StackCanonical'
  BY CanonicalNext
<1>3. QED  BY ExpanderInvariant, <1>1, <1>2, PTL DEF Spec

(* An empty close always finds the element its start tag opened. *)
THEOREM StartTagStaysOnTop ==
  Spec => []StartTagOnTop
<1>1. IInv => StartTagOnTop
  BY DEF IInv
<1>2. QED  BY ExpanderInvariant, <1>1, PTL
-----------------------------------------------------------------------------
(* The stack written out.                                                  *)
(* A table that adds one run to the runs before it.                        *)
LEMMA TableExists ==
  ASSUME NEW N \in Nat, NEW run
  PROVE  \E f : f = [i \in 0..N |-> IF i = 0 THEN <<>> ELSE f[i - 1] \o run[i]]
<1> DEFINE Table(n, f) ==
             f = [i \in 0..n |-> IF i = 0 THEN <<>> ELSE f[i - 1] \o run[i]]
           S == {n \in Nat : \E f : Table(n, f)}
<1>1. 0 \in S
  <2>1. PICK f : f = [i \in 0..0 |-> <<>>]
    OBVIOUS
  <2>2. Table(0, f)
    BY <2>1
  <2>3. QED  BY <2>2
<1>2. ASSUME NEW n \in S PROVE n + 1 \in S
  <2>1. n \in Nat /\ n + 1 \in Nat
    OBVIOUS
  <2>2. PICK f : Table(n, f)
    BY <1>2
  <2>3. PICK g : g = [i \in 0..(n + 1) |-> IF i = n + 1 THEN f[n] \o run[n + 1] ELSE f[i]]
    OBVIOUS
  <2>4. \A i \in 0..n : f[i] = IF i = 0 THEN <<>> ELSE f[i - 1] \o run[i]
    BY <2>2
  <2>5. \A i \in 0..n : g[i] = f[i]
    BY <2>1, <2>3
  <2>6. g[n + 1] = f[n] \o run[n + 1]
    <3>1. n + 1 \in 0..(n + 1)
      BY <2>1
    <3>2. QED  BY <2>3, <3>1
  <2>7. \A i \in 0..(n + 1) : g[i] = IF i = 0 THEN <<>> ELSE g[i - 1] \o run[i]
    <3>1. SUFFICES ASSUME NEW i \in 0..(n + 1)
                   PROVE  g[i] = IF i = 0 THEN <<>> ELSE g[i - 1] \o run[i]
      OBVIOUS
    <3>2. CASE i = n + 1
      <4>1. i # 0 /\ i - 1 = n /\ n \in 0..n
        BY <2>1, <3>2
      <4>2. QED  BY <2>5, <2>6, <3>2, <4>1
    <3>3. CASE i \in 0..n /\ i # 0
      <4>1. i - 1 \in 0..n
        BY <2>1, <3>3
      <4>2. g[i] = f[i] /\ g[i - 1] = f[i - 1]
        BY <2>5, <3>3, <4>1
      <4>3. f[i] = f[i - 1] \o run[i]
        BY <2>4, <3>3
      <4>4. QED  BY <3>3, <4>2, <4>3
    <3>4. CASE i = 0
      <4>1. 0 \in 0..n
        BY <2>1
      <4>2. g[0] = f[0] /\ f[0] = <<>>
        BY <2>4, <2>5, <4>1
      <4>3. QED  BY <3>4, <4>2
    <3>5. i = n + 1 \/ i = 0 \/ (i \in 0..n /\ i # 0)
      BY <2>1
    <3>6. QED  BY <3>2, <3>3, <3>4, <3>5
  <2>8. g = [i \in 0..(n + 1) |-> g[i]]
    BY <2>3
  <2>9. Table(n + 1, g)
    BY <2>7, <2>8
  <2>10. QED  BY <2>1, <2>9
<1>3. S = Nat
  <2>1. S \in SUBSET Nat
    OBVIOUS
  <2> HIDE DEF S
  <2>2. QED  BY <1>1, <1>2, <2>1, SetInduction
<1>4. QED  BY <1>3

LEMMA UnrolledRuns ==
  ASSUME NEW st \in Seq(Entry)
  PROVE  /\ Unrolled(st)[0] = <<>>
         /\ \A i \in 1..Len(st) : Unrolled(st)[i] = Unrolled(st)[i - 1] \o Run(st[i])
<1>1. PICK N \in Nat : N = Len(st)
  BY LenProperties
<1>2. PICK run : run = [i \in 1..N |-> Run(st[i])]
  OBVIOUS
<1>3. PICK f : f = [i \in 0..N |-> IF i = 0 THEN <<>> ELSE f[i - 1] \o run[i]]
  BY TableExists
<1> DEFINE Following(g, i) == IF i = 0 THEN <<>> ELSE g[i - 1] \o Run(st[i])
<1>4. \A i \in 0..N : i # 0 => run[i] = Run(st[i])
  BY <1>2
<1>5. f = [i \in 0..N |-> Following(f, i)]
  <2> HIDE DEF Run
  <2>1. \A i \in 0..N : (IF i = 0 THEN <<>> ELSE f[i - 1] \o run[i]) = Following(f, i)
    BY <1>4
  <2> HIDE DEF Following
  <2>2. QED  BY <1>3, <2>1
<1>6. Unrolled(st) = CHOOSE g : g = [i \in 0..N |-> Following(g, i)]
  BY <1>1 DEF Unrolled
<1>7. Unrolled(st) = [i \in 0..N |-> Following(Unrolled(st), i)]
  <2> HIDE DEF Following
  <2>1. QED  BY <1>5, <1>6
<1>8. \A i \in 0..N : Unrolled(st)[i] = Following(Unrolled(st), i)
  <2> HIDE DEF Following
  <2>1. QED  BY <1>7
<1>9. 0 \in 0..N /\ \A i \in 1..N : i \in 0..N /\ i # 0
  OBVIOUS
<1>10. QED
  <2> HIDE DEF Run
  <2>1. QED  BY <1>1, <1>8, <1>9

LEMMA RunFacts ==
  ASSUME NEW e \in Entry, e.count >= 0
  PROVE  /\ Run(e) \in Seq(Names) /\ Len(Run(e)) = e.count /\ e.count \in Nat
         /\ \A j \in 1..e.count : Run(e)[j] = e.name
<1>1. PICK c : c = e.count
  OBVIOUS
<1>2. PICK n : n = e.name
  OBVIOUS
<1>3. c \in Nat /\ n \in Names
  BY <1>1, <1>2 DEF Entry
<1>4. Run(e) = [j \in 1..c |-> n]
  BY <1>1, <1>2 DEF Run
<1>5. [j \in 1..c |-> n] \in Seq(Names) /\ Len([j \in 1..c |-> n]) = c
  BY <1>3
<1>6. QED  BY <1>1, <1>2, <1>3, <1>4, <1>5

(* Stacks that agree up to an entry agree on what is open up to it.        *)
LEMMA SameRuns ==
  ASSUME NEW st \in Seq(Entry), NEW tt \in Seq(Entry),
         NEW m \in Nat, m <= Len(st), m <= Len(tt), \A i \in 1..m : st[i] = tt[i]
  PROVE  \A i \in 0..m : Unrolled(st)[i] = Unrolled(tt)[i]
<1> DEFINE S == {n \in Nat : n <= m => Unrolled(st)[n] = Unrolled(tt)[n]}
<1>0. Len(st) \in Nat /\ Len(tt) \in Nat
  BY LenProperties
<1>1. 0 \in S
  BY UnrolledRuns
<1>2. ASSUME NEW n \in S PROVE n + 1 \in S
  <2>1. n \in Nat /\ (n <= m => Unrolled(st)[n] = Unrolled(tt)[n])
    OBVIOUS
  <2>2. SUFFICES ASSUME n + 1 <= m PROVE Unrolled(st)[n + 1] = Unrolled(tt)[n + 1]
    BY <2>1
  <2>3. PICK i : i = n + 1
    OBVIOUS
  <2>4. i \in 1..m /\ i \in 1..Len(st) /\ i \in 1..Len(tt) /\ i - 1 = n /\ n <= m
    BY <1>0, <2>1, <2>2, <2>3
  <2>5. /\ Unrolled(st)[i] = Unrolled(st)[n] \o Run(st[i])
        /\ Unrolled(tt)[i] = Unrolled(tt)[n] \o Run(tt[i])
    <3>1. /\ Unrolled(st)[i] = Unrolled(st)[i - 1] \o Run(st[i])
          /\ Unrolled(tt)[i] = Unrolled(tt)[i - 1] \o Run(tt[i])
      BY <2>4, UnrolledRuns
    <3>2. QED  BY <2>4, <3>1
  <2>6. QED  BY <2>1, <2>3, <2>4, <2>5
<1>3. S = Nat
  <2>1. S \in SUBSET Nat
    OBVIOUS
  <2> HIDE DEF S
  <2>2. QED  BY <1>1, <1>2, <2>1, SetInduction
<1>4. QED  BY <1>3

(* Where the runs lie among the open elements of the first n entries.      *)
Spread(st, n) ==
  LET upTo == Unrolled(st) IN
  /\ upTo[n] \in Seq(Names)
  /\ \A h \in 0..n : Len(upTo[h]) \in Nat /\ Len(upTo[h]) + (n - h) <= Len(upTo[n])
  /\ \A h \in 1..n, j \in 1..Len(upTo[n]) :
       Len(upTo[h - 1]) < j /\ j <= Len(upTo[h]) => upTo[n][j] = st[h].name
  /\ \A j \in 1..Len(upTo[n]) :
       \E h \in 1..n : Len(upTo[h - 1]) < j /\ j <= Len(upTo[h])

LEMMA SpreadGrows ==
  ASSUME NEW st \in Seq(Entry), Canonical(st), NEW n \in Nat, n < Len(st), Spread(st, n)
  PROVE  /\ Spread(st, n + 1)
         /\ Len(Unrolled(st)[n + 1]) = Len(Unrolled(st)[n]) + st[n + 1].count
<1>1. PICK N \in Nat : N = Len(st)
  BY LenProperties
<1>2. PICK m : m = n + 1
  OBVIOUS
<1>3. m \in 1..N /\ m - 1 = n /\ n < N /\ n \in 0..n /\ m \in Nat
  BY <1>1, <1>2
<1>4. PICK e : e = st[m]
  OBVIOUS
<1>5. e \in Entry /\ e.count >= 1 /\ e.count \in Nat /\ e.count >= 0
  <2>1. m \in 1..Len(st) /\ DOMAIN st = 1..Len(st)
    BY <1>1, <1>3, LenProperties
  <2>2. e \in Entry
    BY <1>4, <2>1, ElementOfSeq
  <2>3. e.count >= 1
    BY <1>4, <2>1 DEF Canonical
  <2>4. QED  BY <2>2, <2>3 DEF Entry
<1>6. PICK run : run = Run(e)
  OBVIOUS
<1>7. PICK c : c = e.count
  OBVIOUS
<1>8. /\ run \in Seq(Names) /\ Len(run) = c /\ c \in Nat /\ c >= 1
      /\ \A j \in 1..c : run[j] = e.name
  BY <1>5, <1>6, <1>7, RunFacts
<1>9. PICK f : f = Unrolled(st)
  OBVIOUS
<1>10. f[m] = f[n] \o run
  <2>1. m \in 1..Len(st)
    BY <1>1, <1>3
  <2>2. f[m] = f[m - 1] \o Run(st[m])
    BY <1>9, <2>1, UnrolledRuns
  <2>3. QED  BY <1>3, <1>4, <1>6, <2>2
<1>11. PICK ends : ends = [h \in 0..m |-> Len(f[h])]
  OBVIOUS
<1>12. \A h \in 0..m : ends[h] = Len(f[h])
  BY <1>11
<1>13. /\ f[n] \in Seq(Names)
       /\ \A h \in 0..n : ends[h] \in Nat /\ ends[h] + (n - h) <= ends[n]
       /\ \A h \in 1..n, j \in 1..ends[n] :
            ends[h - 1] < j /\ j <= ends[h] => f[n][j] = st[h].name
       /\ \A j \in 1..ends[n] : \E h \in 1..n : ends[h - 1] < j /\ j <= ends[h]
  <2>1. \A h \in 0..n : ends[h] = Len(f[h])
    BY <1>2, <1>12
  <2>2. \A h \in 1..n : ends[h - 1] = Len(f[h - 1]) /\ ends[h] = Len(f[h])
    <3>1. \A h \in 1..n : h \in 0..n /\ h - 1 \in 0..n
      OBVIOUS
    <3>2. QED  BY <2>1, <3>1
  <2>3. ends[n] = Len(f[n])
    BY <1>3, <2>1
  <2>4. QED  BY <1>9, <2>1, <2>2, <2>3 DEF Spread
<1>14. /\ f[m] \in Seq(Names) /\ ends[m] = ends[n] + c
       /\ \A j \in 1..ends[m] : f[m][j] = IF j <= ends[n] THEN f[n][j] ELSE e.name
  <2>1. ends[n] = Len(f[n]) /\ ends[m] = Len(f[m]) /\ ends[n] \in Nat
    <3>1. n \in 0..m /\ m \in 0..m
      BY <1>2, <1>3
    <3>2. QED  BY <1>3, <1>12, <1>13, <3>1
  <2>2. /\ f[n] \o run \in Seq(Names) /\ Len(f[n] \o run) = Len(f[n]) + Len(run)
        /\ \A j \in 1..(Len(f[n]) + Len(run)) :
             (f[n] \o run)[j] = IF j <= Len(f[n]) THEN f[n][j] ELSE run[j - Len(f[n])]
    <3>1. f[n] \in Seq(Names) /\ run \in Seq(Names)
      BY <1>8, <1>13
    <3>2. QED  BY ONLY <3>1, ConcatProperties
  <2>3. ends[m] = ends[n] + c
    BY <1>8, <1>10, <2>1, <2>2
  <2>4. ASSUME NEW j \in 1..ends[m]
        PROVE  f[m][j] = IF j <= ends[n] THEN f[n][j] ELSE e.name
    <3>1. f[m][j] = IF j <= ends[n] THEN f[n][j] ELSE run[j - ends[n]]
      BY <1>8, <1>10, <2>1, <2>2, <2>3
    <3>2. ~(j <= ends[n]) => j - ends[n] \in 1..c
      BY <1>8, <2>1, <2>3
    <3>3. QED  BY <1>8, <3>1, <3>2
  <2>5. QED  BY <1>10, <2>2, <2>3, <2>4
<1>15. \A h \in 0..m : ends[h] \in Nat /\ ends[h] + (m - h) <= ends[m]
  <2>1. SUFFICES ASSUME NEW h \in 0..m
                 PROVE  ends[h] \in Nat /\ ends[h] + (m - h) <= ends[m]
    OBVIOUS
  <2>2. ends[n] \in Nat
    BY <1>3, <1>13
  <2>3. CASE h = m
    BY ONLY <1>3, <1>8, <1>14, <2>2, <2>3
  <2>4. CASE h # m
    <3>1. h \in 0..n
      BY <1>3, <2>4
    <3>2. ends[h] \in Nat /\ ends[h] + (n - h) <= ends[n]
      BY <1>13, <3>1
    <3>3. QED  BY ONLY <1>3, <1>8, <1>14, <2>2, <3>1, <3>2, n \in Nat
  <2>5. QED  BY <2>3, <2>4
<1>16. ASSUME NEW h \in 1..m, NEW j \in 1..ends[m], ends[h - 1] < j, j <= ends[h]
       PROVE  f[m][j] = st[h].name
  <2>1. CASE h = m
    <3>1. ~(j <= ends[n]) /\ j \in Nat /\ ends[n] \in Nat
      BY <1>3, <1>13, <1>16, <2>1
    <3>2. QED  BY <1>4, <1>14, <2>1, <3>1
  <2>2. CASE h # m
    <3>1. h \in 1..n /\ h \in 0..n
      BY <1>3, <2>2
    <3>2. ends[h] \in Nat /\ ends[h] + (n - h) <= ends[n] /\ ends[n] \in Nat
      BY <1>3, <1>13, <3>1
    <3>3. j \in 1..ends[n] /\ j <= ends[n]
      BY ONLY <3>1, <3>2, <1>16, <1>15, <1>3, n \in Nat
    <3>4. f[n][j] = st[h].name
      BY <1>13, <1>16, <3>1, <3>3
    <3>5. QED  BY <1>14, <3>3, <3>4
  <2>3. QED  BY <2>1, <2>2
<1>17. ASSUME NEW j \in 1..ends[m]
       PROVE  \E h \in 1..m : ends[h - 1] < j /\ j <= ends[h]
  <2>1. CASE j <= ends[n]
    <3>1. j \in 1..ends[n]
      BY <1>3, <1>13, <1>15, <2>1
    <3>2. PICK h \in 1..n : ends[h - 1] < j /\ j <= ends[h]
      BY <1>13, <3>1
    <3>3. h \in 1..m
      BY <1>3
    <3>4. QED  BY <3>2, <3>3
  <2>2. CASE ~(j <= ends[n])
    <3>1. ends[m - 1] < j /\ j <= ends[m]
      BY <1>3, <1>13, <1>15, <2>2
    <3>2. m \in 1..m
      BY <1>3
    <3>3. QED  BY <3>1, <3>2
  <2>3. QED  BY <2>1, <2>2
<1>18. Spread(st, m)
  <2>1. \A h \in 1..m : h \in 0..m /\ h - 1 \in 0..m
    BY <1>3
  <2>2. m \in 0..m
    BY <1>3
  <2>3. Len(f[m]) = ends[m]
    BY <1>12, <2>2
  <2>4. \A h \in 0..m : Len(f[h]) \in Nat /\ Len(f[h]) + (m - h) <= Len(f[m])
    BY <1>12, <1>15, <2>3
  <2>5. \A h \in 1..m, j \in 1..Len(f[m]) :
          Len(f[h - 1]) < j /\ j <= Len(f[h]) => f[m][j] = st[h].name
    BY <1>12, <1>16, <2>1, <2>3
  <2>6. \A j \in 1..Len(f[m]) : \E h \in 1..m : Len(f[h - 1]) < j /\ j <= Len(f[h])
    BY <1>12, <1>17, <2>1, <2>3
  <2>7. QED  BY <1>9, <1>14, <2>4, <2>5, <2>6 DEF Spread
<1>19. Len(f[m]) = Len(f[n]) + c
  <2>1. n \in 0..m /\ m \in 0..m
    BY <1>2, <1>3
  <2>2. QED  BY <1>12, <1>14, <2>1
<1>20. QED  BY <1>2, <1>4, <1>7, <1>9, <1>18, <1>19

LEMMA SpreadFacts ==
  ASSUME NEW st \in Seq(Entry), Canonical(st)
  PROVE  \A n \in 0..Len(st) : Spread(st, n)
<1> DEFINE S == {n \in Nat : n <= Len(st) => Spread(st, n)}
<1>0. Len(st) \in Nat
  BY LenProperties
<1>1. 0 \in S
  <2>1. Unrolled(st)[0] = <<>>
    BY UnrolledRuns
  <2>2. <<>> \in Seq(Names) /\ Len(<<>>) = 0
    BY EmptySeq
  <2>3. Spread(st, 0)
    BY <2>1, <2>2 DEF Spread
  <2>4. QED  BY <2>3
<1>2. ASSUME NEW n \in S PROVE n + 1 \in S
  <2>1. n \in Nat /\ n + 1 \in Nat /\ (n <= Len(st) => Spread(st, n))
    OBVIOUS
  <2>2. ASSUME n + 1 <= Len(st) PROVE Spread(st, n + 1)
    <3>1. n < Len(st) /\ n <= Len(st)
      BY <1>0, <2>1, <2>2
    <3>2. QED  BY <2>1, <3>1, SpreadGrows
  <2>3. QED  BY <2>1, <2>2
<1>3. S = Nat
  <2>1. S \in SUBSET Nat
    OBVIOUS
  <2> HIDE DEF S
  <2>2. QED  BY <1>1, <1>2, <2>1, SetInduction
<1>4. QED  BY <1>0, <1>3

-----------------------------------------------------------------------------
(* The elements a stack stands for.                                        *)
Opened(st) == Unrolled(st)[Len(st)]

LEMMA OpenedFacts ==
  ASSUME NEW st \in Seq(Entry), Canonical(st)
  PROVE  Opened(st) \in Seq(Names) /\ Len(Opened(st)) \in Nat
<1>1. Len(st) \in 0..Len(st)
  BY LenProperties
<1>2. Spread(st, Len(st))
  BY <1>1, SpreadFacts
<1>3. Opened(st) \in Seq(Names)
  BY <1>2 DEF Spread, Opened
<1>4. QED  BY <1>3, LenProperties

(* A run with one element more.                                            *)
LEMMA RunGrows ==
  ASSUME NEW e \in Entry, NEW f \in Entry, e.count >= 0,
         f.name = e.name, f.count = e.count + 1
  PROVE  Run(f) = Append(Run(e), e.name)
<1>1. PICK c \in Nat : c = e.count
  BY RunFacts
<1>2. PICK n \in Names : n = e.name
  BY DEF Entry
<1>3. PICK r : r = Run(e)
  OBVIOUS
<1>4. r \in Seq(Names) /\ Len(r) = c /\ \A j \in 1..c : r[j] = n
  BY <1>1, <1>2, <1>3, RunFacts
<1>5. PICK t : t = Run(f)
  OBVIOUS
<1>6. t \in Seq(Names) /\ Len(t) = c + 1 /\ \A j \in 1..(c + 1) : t[j] = n
  <2>1. f.count = c + 1 /\ f.count >= 0 /\ f.name = n
    BY <1>1, <1>2
  <2>2. QED  BY <1>5, <2>1, RunFacts
<1>7. /\ Append(r, n) \in Seq(Names) /\ Len(Append(r, n)) = c + 1
      /\ \A j \in 1..c : Append(r, n)[j] = n
      /\ Append(r, n)[c + 1] = n
  BY <1>4, AppendProperties
<1>8. \A j \in 1..(c + 1) : j \in 1..c \/ j = c + 1
  OBVIOUS
<1>9. t = Append(r, n)
  <2>1. PICK u : u = Append(r, n)
    OBVIOUS
  <2>2. \A j \in 1..(c + 1) : t[j] = u[j]
    BY <1>6, <1>7, <1>8, <2>1
  <2>3. t = u
    BY <1>6, <1>7, <2>1, <2>2, SeqEqual
  <2>4. QED  BY <2>1, <2>3
<1>10. QED  BY <1>2, <1>3, <1>5, <1>9

(* One element more on the stack is one element more that is open.         *)
LEMMA OneMoreOpen ==
  ASSUME NEW s \in Seq(Entry), NEW t \in Seq(Entry), Canonical(s), Canonical(t),
         OneMore(s, t)
  PROVE  Opened(t) = Append(Opened(s), Top(t).name) /\ Top(t).name \in Names
<1>1. PICK l \in Nat : l = Len(s)
  BY LenProperties
<1>2. CASE NewRun(s, t)
  <2>1. Len(t) = l + 1 /\ (\A i \in 1..l : t[i] = s[i]) /\ t[l + 1].count = 1
    BY <1>1, <1>2 DEF NewRun
  <2>2. PICK e : e = t[l + 1]
    OBVIOUS
  <2>3. e \in Entry /\ e.count = 1 /\ e.name \in Names
    <3>1. l + 1 \in 1..Len(t)
      BY <2>1
    <3>2. e \in Entry
      BY <2>2, <3>1, ElementOfSeq
    <3>3. QED  BY <2>1, <2>2, <3>2 DEF Entry
  <2>4. Unrolled(t)[l] = Unrolled(s)[l]
    <3>1. l <= Len(s) /\ l <= Len(t) /\ l \in 0..l
      BY <1>1, <2>1
    <3>2. QED  BY <2>1, <3>1, SameRuns
  <2>5. Unrolled(t)[l + 1] = Unrolled(t)[l] \o Run(e)
    <3>1. PICK m : m = l + 1
      OBVIOUS
    <3>2. m \in 1..Len(t) /\ m - 1 = l
      BY <2>1, <3>1
    <3>3. Unrolled(t)[m] = Unrolled(t)[m - 1] \o Run(t[m])
      BY <3>2, UnrolledRuns
    <3>4. QED  BY <2>2, <3>1, <3>2, <3>3
  <2>6. Run(e) = <<e.name>>
    <3>1. PICK r : r = Run(e)
      OBVIOUS
    <3>2. e.count >= 0
      BY <2>3
    <3>3. /\ Run(e) \in Seq(Names) /\ Len(Run(e)) = e.count
          /\ \A j \in 1..e.count : Run(e)[j] = e.name
      BY <2>3, <3>2, RunFacts
    <3>4. r \in Seq(Names) /\ Len(r) = 1 /\ r[1] = e.name
      BY <2>3, <3>1, <3>3
    <3>5. r = <<e.name>>
      BY <3>4
    <3>6. QED  BY <3>1, <3>5
  <2>7. Opened(t) = Opened(s) \o <<e.name>>
    BY <1>1, <2>1, <2>4, <2>5, <2>6 DEF Opened
  <2>8. Opened(s) \in Seq(Names)
    BY OpenedFacts
  <2>9. Append(Opened(s), e.name) = Opened(s) \o <<e.name>>
    BY <2>3, <2>8, AppendIsConcat
  <2>10. QED  BY <2>1, <2>2, <2>3, <2>7, <2>9 DEF Top
<1>3. CASE LongerRun(s, t)
  <2>1. /\ l >= 1 /\ Len(t) = l
        /\ \A i \in 1..(l - 1) : t[i] = s[i]
        /\ t[l].name = s[l].name /\ t[l].count = s[l].count + 1
    BY <1>1, <1>3 DEF LongerRun
  <2>2. PICK e : e = s[l]
    OBVIOUS
  <2>3. PICK f : f = t[l]
    OBVIOUS
  <2>4. /\ e \in Entry /\ f \in Entry /\ e.count >= 1 /\ e.count >= 0
        /\ f.name = e.name /\ f.count = e.count + 1 /\ e.name \in Names
    <3>1. l \in 1..Len(s) /\ l \in 1..Len(t) /\ l \in DOMAIN s
      BY <1>1, <2>1, LenProperties
    <3>2. e \in Entry /\ f \in Entry
      BY <2>2, <2>3, <3>1, ElementOfSeq
    <3>3. e.count >= 1
      BY <2>2, <3>1 DEF Canonical
    <3>4. QED  BY <2>1, <2>2, <2>3, <3>2, <3>3 DEF Entry
  <2>5. PICK below : below = Unrolled(s)[l - 1]
    OBVIOUS
  <2>6. below \in Seq(Names) /\ Unrolled(t)[l - 1] = below
    <3>1. l - 1 \in Nat /\ l - 1 <= Len(s) /\ l - 1 <= Len(t) /\ l - 1 \in 0..(l - 1)
          /\ l - 1 \in 0..Len(s)
      BY <1>1, <2>1
    <3>2. Unrolled(t)[l - 1] = Unrolled(s)[l - 1]
      BY <2>1, <3>1, SameRuns
    <3>3. Spread(s, l - 1)
      BY <3>1, SpreadFacts
    <3>4. QED  BY <2>5, <3>2, <3>3 DEF Spread
  <2>7. Opened(s) = below \o Run(e) /\ Opened(t) = below \o Run(f)
    <3>1. l \in 1..Len(s) /\ l \in 1..Len(t)
      BY <1>1, <2>1
    <3>2. /\ Unrolled(s)[l] = Unrolled(s)[l - 1] \o Run(s[l])
          /\ Unrolled(t)[l] = Unrolled(t)[l - 1] \o Run(t[l])
      BY <3>1, UnrolledRuns
    <3>3. QED  BY <1>1, <2>1, <2>2, <2>3, <2>5, <2>6, <3>2 DEF Opened
  <2>8. PICK r : r = Run(e)
    OBVIOUS
  <2>9. r \in Seq(Names) /\ Run(f) = Append(r, e.name)
    BY <2>4, <2>8, RunFacts, RunGrows
  <2>10. below \o Append(r, e.name) = Append(below \o r, e.name)
    <3>1. PICK n \in Names : n = e.name
      BY <2>4
    <3>2. Append(r, n) = r \o <<n>> /\ <<n>> \in Seq(Names)
      BY <2>9, AppendIsConcat
    <3>3. below \o r \in Seq(Names)
      BY <2>6, <2>9, ConcatProperties
    <3>4. Append(below \o r, n) = (below \o r) \o <<n>>
      BY <3>3, AppendIsConcat
    <3>5. (below \o r) \o <<n>> = below \o (r \o <<n>>)
      BY <2>6, <2>9, <3>2, ConcatAssociative
    <3>6. QED  BY <3>1, <3>2, <3>4, <3>5
  <2>11. Opened(t) = Append(Opened(s), e.name)
    BY <2>7, <2>8, <2>9, <2>10
  <2>12. Top(t).name = e.name
    BY <2>1, <2>2 DEF Top
  <2>13. QED  BY <2>4, <2>11, <2>12
<1>4. QED  BY <1>2, <1>3 DEF OneMore

(* What is open below an entry is where it was.                            *)
LEMMA OpenedBelow ==
  ASSUME NEW st \in Seq(Entry), Canonical(st), NEW p \in 0..Len(st)
  PROVE  /\ Unrolled(st)[p] \in Seq(Names)
         /\ Len(Unrolled(st)[p]) \in Nat
         /\ Len(Unrolled(st)[p]) + (Len(st) - p) <= Len(Opened(st))
         /\ \A j \in 1..Len(Unrolled(st)[p]) : Opened(st)[j] = Unrolled(st)[p][j]
<1>1. PICK m \in Nat : m = Len(st)
  BY LenProperties
<1>2. PICK f : f = Unrolled(st)
  OBVIOUS
<1>3. PICK n \in Nat : n = p /\ n <= m
  BY <1>1
<1>4. Spread(st, m) /\ Spread(st, n)
  <2>1. m \in 0..Len(st) /\ n \in 0..Len(st)
    BY <1>1, <1>3
  <2>2. QED  BY <2>1, SpreadFacts
<1>5. /\ f[n] \in Seq(Names) /\ f[m] \in Seq(Names)
      /\ Len(f[n]) \in Nat /\ Len(f[m]) \in Nat
      /\ Len(f[n]) + (m - n) <= Len(f[m])
  <2>1. n \in 0..m /\ m \in 0..m
    BY <1>3
  <2>2. QED  BY <1>2, <1>4, <2>1 DEF Spread
<1>6. ASSUME NEW j \in 1..Len(f[n]) PROVE f[m][j] = f[n][j]
  <2>1. PICK h \in 1..n : Len(f[h - 1]) < j /\ j <= Len(f[h])
    BY <1>2, <1>4 DEF Spread
  <2>2. f[n][j] = st[h].name
    BY <1>2, <1>4, <2>1 DEF Spread
  <2>3. h \in 1..m /\ j \in 1..Len(f[m])
    BY <1>3, <1>5
  <2>4. f[m][j] = st[h].name
    BY <1>2, <1>4, <2>1, <2>3 DEF Spread
  <2>5. QED  BY <2>2, <2>4
<1>7. Opened(st) = f[m]
  BY <1>1, <1>2 DEF Opened
<1>8. QED  BY <1>1, <1>2, <1>3, <1>5, <1>6, <1>7

(* The runs end one behind the other.                                      *)
LEMMA EndsGrow ==
  ASSUME NEW st \in Seq(Entry), Canonical(st)
  PROVE  \A h \in 0..Len(st) :
           /\ Len(Unrolled(st)[h]) \in Nat
           /\ \A g \in 0..h : Len(Unrolled(st)[g]) + (h - g) <= Len(Unrolled(st)[h])
BY SpreadFacts, LenProperties DEF Spread

(* An element that is innermost or differs from its inner neighbour is the *)
(* last one of an entry, and conversely.                                   *)
LastOfRun(open, j) == j = Len(open) \/ open[j] # open[j + 1]

LEMMA RunEnds ==
  ASSUME NEW st \in Seq(Entry), Canonical(st), NEW j \in 1..Len(Opened(st))
  PROVE  LastOfRun(Opened(st), j) <=> \E h \in 1..Len(st) : j = Len(Unrolled(st)[h])
<1>1. PICK m \in Nat : m = Len(st)
  BY LenProperties
<1>2. PICK f : f = Unrolled(st)
  OBVIOUS
<1>3. PICK ends : ends = [h \in 0..m |-> Len(f[h])]
  OBVIOUS
<1>4. \A h \in 0..m : ends[h] = Len(f[h])
  BY <1>3
<1>5. \A h \in 0..m : ends[h] \in Nat /\ \A g \in 0..h : ends[g] + (h - g) <= ends[h]
  <2>1. \A h \in 0..m : \A g \in 0..h : g \in 0..m
    BY <1>1
  <2>2. QED  BY <1>1, <1>2, <1>4, <2>1, EndsGrow
<1>6. PICK open : open = Opened(st)
  OBVIOUS
<1>7. open = f[m] /\ Len(open) = ends[m] /\ m \in 0..m
  <2>1. m \in 0..m
    BY <1>1
  <2>2. QED  BY <1>1, <1>2, <1>4, <1>6, <2>1 DEF Opened
<1>8. /\ \A h \in 1..m, i \in 1..ends[m] :
           ends[h - 1] < i /\ i <= ends[h] => open[i] = st[h].name
      /\ \A i \in 1..ends[m] : \E h \in 1..m : ends[h - 1] < i /\ i <= ends[h]
  <2>1. Spread(st, m)
    BY <1>1, <1>7, SpreadFacts
  <2>2. \A h \in 1..m : ends[h - 1] = Len(f[h - 1]) /\ ends[h] = Len(f[h])
    <3>1. \A h \in 1..m : h \in 0..m /\ h - 1 \in 0..m
      BY <1>1
    <3>2. QED  BY <1>4, <3>1
  <2>3. QED  BY <1>2, <1>7, <2>1, <2>2 DEF Spread
<1>9. j \in 1..ends[m] /\ j \in Nat /\ ends[m] \in Nat
  BY <1>5, <1>6, <1>7
<1>10. ASSUME NEW h \in 1..m, j = ends[h] PROVE LastOfRun(open, j)
  <2>1. CASE h = m
    BY <1>7, <1>10, <2>1 DEF LastOfRun
  <2>2. CASE h # m
    <3>1. PICK g : g = h + 1
      OBVIOUS
    <3>2. /\ g \in 1..m /\ g \in 0..m /\ g - 1 = h /\ h \in 0..g /\ h \in 0..m
          /\ h - 1 \in 0..h /\ g \in 0..m /\ m \in 0..m /\ h \in 1..(m - 1)
      BY <1>1, <2>2, <3>1
    <3>3. /\ ends[h] \in Nat /\ ends[g] \in Nat /\ ends[h - 1] \in Nat
          /\ ends[h] + (g - h) <= ends[g] /\ ends[g] + (m - g) <= ends[m]
          /\ ends[h - 1] + (h - (h - 1)) <= ends[h]
      <4>1. g \in 0..m /\ h - 1 \in 0..m
        BY <1>1, <3>2
      <4>2. QED  BY <1>5, <3>2, <4>1
    <3>4. j + 1 \in 1..ends[m] /\ ends[h] < j + 1 /\ j + 1 <= ends[g] /\ ends[h - 1] < j
      <4>1. h \in Int /\ h - (h - 1) = 1 /\ g - h = 1 /\ m - g >= 0 /\ m - g \in Int
        BY <1>1, <3>1, <3>2
      <4>2. ends[h] + 1 <= ends[g] /\ ends[g] <= ends[m] /\ ends[h - 1] + 1 <= ends[h]
        BY ONLY <1>9, <3>3, <4>1
      <4>3. QED  BY ONLY <1>9, <1>10, <3>3, <4>2
    <3>5. open[j + 1] = st[g].name
      BY <1>8, <3>2, <3>4
    <3>6. open[j] = st[h].name
      <4>1. j <= ends[h]
        BY <1>9, <1>10
      <4>2. QED  BY <1>8, <1>9, <3>4, <4>1
    <3>7. st[h].name # st[g].name
      BY <1>1, <3>1, <3>2 DEF Canonical
    <3>8. QED  BY <3>5, <3>6, <3>7 DEF LastOfRun
  <2>3. QED  BY <2>1, <2>2
<1>11. ASSUME LastOfRun(open, j) PROVE \E h \in 1..m : j = ends[h]
  <2>1. PICK h \in 1..m : ends[h - 1] < j /\ j <= ends[h]
    BY <1>8, <1>9
  <2>2. SUFFICES ASSUME j # ends[h] PROVE FALSE
    BY <2>1
  <2>3. h \in 0..m /\ h - 1 \in 0..m
    BY <1>1
  <2>4. ends[h] \in Nat /\ ends[h - 1] \in Nat /\ ends[h] + (m - h) <= ends[m]
    BY <1>5, <1>7, <2>3
  <2>5. /\ j + 1 \in 1..ends[m] /\ j # ends[m]
        /\ ends[h - 1] < j + 1 /\ j + 1 <= ends[h]
    BY ONLY <1>9, <2>1, <2>2, <2>4, m \in Nat, h \in 1..m
  <2>6. open[j] = st[h].name /\ open[j + 1] = st[h].name
    BY <1>8, <1>9, <2>1, <2>5
  <2>7. QED  BY <1>7, <1>11, <2>5, <2>6 DEF LastOfRun
<1>12. \A h \in 1..m : ends[h] = Len(Unrolled(st)[h])
  BY <1>2, <1>4
<1>13. QED  BY <1>1, <1>6, <1>10, <1>11, <1>12

(* As many runs end between an entry and the innermost element as entries  *)
(* lie above it.                                                           *)
LEMMA RunsAbove ==
  ASSUME NEW st \in Seq(Entry), Canonical(st), NEW p \in 1..Len(st)
  PROVE  Cardinality({i \in Len(Unrolled(st)[p])..(Len(Opened(st)) - 1) :
                        LastOfRun(Opened(st), i)}) = Len(st) - p
<1>1. PICK m \in Nat : m = Len(st)
  BY LenProperties
<1>2. PICK ends : ends = [h \in 0..m |-> Len(Unrolled(st)[h])]
  OBVIOUS
<1>3. \A h \in 0..m : ends[h] = Len(Unrolled(st)[h])
  BY <1>2
<1>4. \A h \in 0..m : ends[h] \in Nat /\ \A g \in 0..h : ends[g] + (h - g) <= ends[h]
  <2>1. \A h \in 0..m : \A g \in 0..h : g \in 0..m
    BY <1>1
  <2>2. QED  BY <1>1, <1>3, <2>1, EndsGrow
<1>5. p \in 1..m /\ p \in 0..m /\ m \in 0..m /\ 0 \in 0..m
  BY <1>1
<1>6. PICK n \in Nat : n = Len(Opened(st)) /\ n = ends[m]
  <2>1. Len(Opened(st)) = ends[m]
    BY <1>1, <1>3, <1>5 DEF Opened
  <2>2. QED  BY <1>4, <1>5, <2>1
<1>7. ends[p] \in Nat /\ ends[p] >= 1
  <2>1. ends[p] \in Nat /\ ends[0] \in Nat /\ ends[0] + (p - 0) <= ends[p]
    <3>1. 0 \in 0..p
      BY <1>5
    <3>2. QED  BY <1>4, <1>5, <3>1
  <2>2. QED  BY <1>5, <2>1
<1> DEFINE above == p..(m - 1)
           T == {i \in ends[p]..(n - 1) : LastOfRun(Opened(st), i)}
<1>8. PICK F : F = [h \in above |-> ends[h]]
  OBVIOUS
<1>9. ASSUME NEW h \in above PROVE F[h] \in T /\ F[h] = ends[h]
  <2>1. h \in 0..m /\ h \in 1..m /\ p \in 0..h /\ h \in 0..m /\ h < m
    BY <1>5
  <2>2. ends[h] \in Nat /\ ends[p] + (h - p) <= ends[h] /\ ends[h] + (m - h) <= ends[m]
    BY <1>4, <1>5, <2>1
  <2>3. ends[h] \in ends[p]..(n - 1) /\ ends[h] \in 1..n
    BY ONLY <1>5, <1>6, <1>7, <2>1, <2>2, m \in Nat, n \in Nat, h \in p..(m - 1)
  <2>4. LastOfRun(Opened(st), ends[h])
    <3>1. PICK j : j = ends[h]
      OBVIOUS
    <3>2. j \in 1..Len(Opened(st)) /\ h \in 1..Len(st) /\ j = Len(Unrolled(st)[h])
      BY <1>1, <1>3, <1>6, <2>1, <2>3, <3>1
    <3>3. QED  BY <3>1, <3>2, RunEnds
  <2>5. QED  BY <1>8, <2>3, <2>4
<1>10. ASSUME NEW g \in above, NEW h \in above, F[g] = F[h] PROVE g = h
  <2>1. ends[g] = ends[h]
    BY <1>9, <1>10
  <2>2. g \in 0..m /\ h \in 0..m /\ (g \in 0..h \/ h \in 0..g)
    BY <1>5
  <2>3. /\ ends[g] \in Nat /\ ends[h] \in Nat
        /\ g \in 0..h => ends[g] + (h - g) <= ends[h]
        /\ h \in 0..g => ends[h] + (g - h) <= ends[g]
    BY <1>4, <2>2
  <2>4. QED  BY ONLY <2>1, <2>2, <2>3, m \in Nat
<1>11. ASSUME NEW i \in T PROVE \E h \in above : F[h] = i
  <2>1. i \in ends[p]..(n - 1) /\ LastOfRun(Opened(st), i)
    OBVIOUS
  <2>2. i \in 1..Len(Opened(st)) /\ i < ends[m]
    BY <1>6, <1>7, <2>1
  <2>3. PICK h \in 1..m : i = ends[h]
    <3>1. \E h \in 1..Len(st) : i = Len(Unrolled(st)[h])
      BY <2>1, <2>2, RunEnds
    <3>2. \A h \in 1..m : h \in 0..m
      BY <1>1
    <3>3. QED  BY <1>1, <1>3, <3>1, <3>2
  <2>4. h \in 0..m
    BY <1>1
  <2>5. h < p => ends[h] + (p - h) <= ends[p]
    <3>1. h < p => h \in 0..p
      BY <1>5
    <3>2. QED  BY <1>4, <1>5, <3>1
  <2>6. h \in above
    <3>1. h # m
      BY <2>2, <2>3, <1>4, <1>5
    <3>2. ~(h < p)
      BY ONLY <1>5, <1>7, <2>1, <2>3, <2>5, m \in Nat, h \in 1..m, n \in Nat
    <3>3. QED  BY <1>5, <3>1, <3>2
  <2>7. QED  BY <1>9, <2>3, <2>6
<1>12. F \in Bijection(above, T)
  <2>1. F \in [above -> T]
    <3> HIDE DEF above, T
    <3>1. QED  BY <1>8, <1>9
  <2> HIDE DEF above, T
  <2>2. QED
    BY <1>10, <1>11, <2>1 DEF Bijection, Injection, Surjection, IsInjective
<1>13. IsFiniteSet(above) /\ Cardinality(above) = m - p
  <2>1. PICK b \in Int : b = m - 1
    BY <1>1
  <2>2. p \in Int
    BY <1>5
  <2>3. IsFiniteSet(p..b) /\ Cardinality(p..b) = IF p > b THEN 0 ELSE b - p + 1
    BY <2>2, FS_Interval
  <2>4. (IF p > b THEN 0 ELSE b - p + 1) = m - p
    BY <1>5, <2>1
  <2>5. QED  BY <2>1, <2>3, <2>4
<1>14. Cardinality(T) = m - p
  <2> HIDE DEF above, T
  <2>1. ExistsBijection(above, T)
    BY <1>12 DEF ExistsBijection
  <2>2. QED  BY <1>13, <2>1, FS_Bijection
<1>15. QED
  <2>1. ends[p] = Len(Unrolled(st)[p])
    BY <1>3, <1>5
  <2>2. QED  BY <1>1, <1>6, <1>14, <2>1

-----------------------------------------------------------------------------
(* The steps of the expander as steps of the list of open elements.        *)
ElementsStep == [Elements!Next]_(Elements!vars)

LEMMA ElementsInit == Init => Elements!Init
<1> SUFFICES ASSUME Init PROVE Elements!Init
  OBVIOUS
<1>1. stack = <<>> /\ stack \in Seq(Entry) /\ Len(stack) = 0
  BY EmptySeq DEF Init
<1>2. Unrolled(stack)[0] = <<>>
  BY <1>1, UnrolledRuns
<1>3. event = [kind |-> "none"]
  BY DEF Init
<1>4. QED  BY <1>1, <1>2, <1>3 DEF Elements!Init, Elements!Nothing

LEMMA UnchangedElements ==
  ASSUME UNCHANGED <<stack, event>> PROVE ElementsStep
BY DEF ElementsStep, Elements!vars

LEMMA ContentStep ==
  ASSUME event' = [kind |-> "none"], UNCHANGED stack PROVE ElementsStep
<1>1. Elements!Content
  BY DEF Elements!Content, Elements!Nothing
<1>2. QED  BY <1>1 DEF ElementsStep, Elements!Next

LEMMA AttributeStep ==
  ASSUME IInv, NEW a, NEW b, Attribute(a, b) PROVE ElementsStep
<1>1. CASE Raise
  BY <1>1, UnchangedElements DEF Raise
<1>2. CASE ~Raise
  <2>1. mode < 0 /\ event' = [kind |-> "attribute"] /\ UNCHANGED stack
    BY <1>2 DEF Attribute
  <2>2. event.kind \in {"open", "attribute"}
    BY <2>1 DEF IInv, StartTagOnTop
  <2>3. Elements!Attribute
    BY <2>1, <2>2 DEF Elements!Attribute
  <2>4. QED  BY <2>3 DEF ElementsStep, Elements!Next
<1>3. QED  BY <1>1, <1>2

LEMMA OpenStep ==
  ASSUME IInv, StackCanonical, Shallow, NEW n \in Names, OpenTag(n) PROVE ElementsStep
<1>1. CASE Raise
  BY <1>1, UnchangedElements DEF Raise
<1>2. CASE ~Raise
  <2>1. stack' = Pushed(stack, n) /\ event' = [kind |-> "open", name |-> n]
    BY <1>2 DEF OpenTag
  <2>2. stack \in Seq(Entry) /\ Canonical(stack)
    BY StackFacts
  <2>3. PICK t : t = Pushed(stack, n)
    OBVIOUS
  <2>4. t \in Seq(Entry) /\ Canonical(t) /\ Top(t).name = n /\ OneMore(stack, t)
    BY <2>2, <2>3, PushedFacts
  <2>5. Opened(t) = Append(Opened(stack), n)
    BY <2>2, <2>4, OneMoreOpen
  <2>6. Elements!Open(n)
    BY <2>1, <2>3, <2>5 DEF Elements!Open, Opened
  <2>7. QED  BY <2>6 DEF ElementsStep, Elements!Next
<1>3. QED  BY <1>1, <1>2

(* Closing the top entry of a stack ends its innermost element.            *)
LEMMA ClosedTop ==
  ASSUME NEW st \in Seq(Entry), Canonical(st), Len(st) >= 1
  PROVE  /\ Opened(st) = Append(Opened(DecTag(st, Len(st))), Top(st).name)
         /\ Opened(DecTag(st, Len(st))) \in Seq(Names) /\ Top(st).name \in Names
<1>1. PICK s : s = DecTag(st, Len(st))
  OBVIOUS
<1>2. s \in Seq(Entry) /\ Canonical(s) /\ OneMore(s, st)
  BY <1>1, DecTagFacts
<1>3. Opened(st) = Append(Opened(s), Top(st).name) /\ Top(st).name \in Names
  BY <1>2, OneMoreOpen
<1>4. QED  BY <1>1, <1>2, <1>3, OpenedFacts

(* What is left when the last one of a list goes, and how it is cut off a  *)
(* longer list.                                                            *)
LEMMA WithoutLast ==
  ASSUME NEW s \in Seq(Names), NEW x \in Names, NEW open \in Seq(Names),
         Len(s) + 1 <= Len(open),
         \A j \in 1..(Len(s) + 1) : open[j] = Append(s, x)[j]
  PROVE  /\ SubSeq(open, 1, Len(s) + 1 - 1) = s
         /\ open[Len(s) + 1] = x
<1>1. PICK l \in Nat : l = Len(s)
  BY LenProperties
<1>2. /\ \A j \in 1..l : Append(s, x)[j] = s[j]
      /\ Append(s, x)[l + 1] = x
  BY <1>1, AppendProperties
<1>3. \A j \in 1..l : open[j] = s[j] /\ s[j] \in Names
  <2>1. \A j \in 1..l : s[j] \in Names
    BY <1>1, ElementOfSeq
  <2>2. \A j \in 1..l : j \in 1..(l + 1)
    OBVIOUS
  <2>3. QED  BY <1>1, <1>2, <2>1, <2>2
<1>4. PICK u : u = SubSeq(open, 1, l)
  OBVIOUS
<1>5. u \in Seq(Names) /\ Len(u) = l /\ \A j \in 1..l : u[j] = open[j]
  <2>1. \A j \in 1..l : open[j] \in Names
    BY <1>3
  <2>2. /\ SubSeq(open, 1, l) \in Seq(Names)
        /\ Len(SubSeq(open, 1, l)) = IF 1 <= l THEN l - 1 + 1 ELSE 0
        /\ \A j \in 1..(l - 1 + 1) : SubSeq(open, 1, l)[j] = open[1 + j - 1]
    BY <2>1, SubSeqProperties
  <2>3. QED  BY <1>4, <2>2
<1>6. u = s
  BY <1>1, <1>3, <1>5, SeqEqual
<1>7. open[l + 1] = x
  <2>1. l + 1 \in 1..(l + 1)
    OBVIOUS
  <2>2. QED  BY <1>1, <1>2, <2>1
<1>8. l + 1 - 1 = l
  OBVIOUS
<1>9. QED  BY <1>1, <1>4, <1>6, <1>7, <1>8

LEMMA EmptyCloseStep ==
  ASSUME IInv, StackCanonical, Shallow, EmptyClose PROVE ElementsStep
<1>1. CASE Raise
  BY <1>1, UnchangedElements DEF Raise
<1>2. CASE ~Raise
  <2>1. /\ stack # <<>> /\ mode < 0 /\ stack' = DecTag(stack, Masked(Len(stack)))
        /\ event' = [kind |-> "empty", name |-> Top(stack).name]
    BY <1>2 DEF EmptyClose
  <2>2. /\ stack \in Seq(Entry) /\ Canonical(stack) /\ Len(stack) >= 1
        /\ Len(stack) \in 1..(Mask + 1)
    <3>1. stack \in Seq(Entry) /\ Canonical(stack) /\ Len(stack) \in Nat
          /\ Len(stack) <= Mask + 1
      BY StackFacts
    <3>2. Len(stack) # 0
      BY <2>1, <3>1, EmptySeq
    <3>3. QED  BY <3>1, <3>2, PieceTypes
  <2>3. stack' = DecTag(stack, Len(stack))
    BY <2>1, <2>2, MaskedFacts
  <2>4. PICK s : s = Opened(DecTag(stack, Len(stack)))
    OBVIOUS
  <2>5. PICK x : x = Top(stack).name
    OBVIOUS
  <2>6. PICK open : open = Opened(stack)
    OBVIOUS
  <2>7. open = Append(s, x) /\ s \in Seq(Names) /\ x \in Names
    BY <2>2, <2>4, <2>5, <2>6, ClosedTop
  <2>8. open \in Seq(Names) /\ Len(open) = Len(s) + 1
    BY <2>7, AppendProperties
  <2>9. SubSeq(open, 1, Len(open) - 1) = s /\ open[Len(open)] = x
    <3>1. Len(s) + 1 <= Len(open)
      BY <2>7, <2>8, LenProperties
    <3>2. QED  BY <2>7, <2>8, <3>1, WithoutLast
  <2>10. event.kind \in {"open", "attribute"}
    BY <2>1 DEF IInv, StartTagOnTop
  <2>11. Elements!CloseStartTag
    <3>1. /\ Opened(stack)' = SubSeq(Opened(stack), 1, Len(Opened(stack)) - 1)
          /\ event' = [kind |-> "empty", name |-> Opened(stack)[Len(Opened(stack))]]
      BY <2>1, <2>3, <2>4, <2>5, <2>6, <2>9
    <3>2. QED  BY <2>10, <3>1 DEF Elements!CloseStartTag, Opened
  <2>12. QED  BY <2>11 DEF ElementsStep, Elements!Next
<1>3. QED  BY <1>1, <1>2

LEMMA CloseRefStep ==
  ASSUME IInv, StackCanonical, Shallow, NEW k \in 0..MaxDepth, CloseRef(k)
  PROVE  ElementsStep
<1>1. CASE Raise
  BY <1>1, UnchangedElements DEF Raise
<1>2. CASE ~Raise
  <2>1. PICK p : p = Referred(k)
    OBVIOUS
  <2>2. /\ k < Len(stack) /\ stack' = DecTag(SubSeq(stack, 1, p), p)
        /\ event' = [kind |-> "close", name |-> stack[p].name, run |-> k]
    BY <1>2, <2>1 DEF CloseRef
  <2>3. PICK m \in Nat : m = Len(stack) /\ m <= Mask + 1
    BY StackFacts
  <2>4. stack \in Seq(Entry) /\ Canonical(stack)
    BY StackFacts
  <2>5. p = m - k /\ p \in 1..m /\ p \in Nat /\ k = m - p /\ k \in 0..m
    <3>1. k < m /\ k \in Nat /\ Mask \in Nat
      BY <2>2, <2>3, PieceTypes
    <3>2. m - k \in 1..(Mask + 1) /\ m - k \in 1..m /\ m - (m - k) = k /\ k \in 0..m
      BY ONLY <2>3, <3>1
    <3>3. p = m - k
      BY <2>1, <2>3, <3>2, MaskedFacts DEF Referred
    <3>4. QED  BY <3>2, <3>3
  <2>6. PICK cut : cut = SubSeq(stack, 1, p)
    OBVIOUS
  <2>7. /\ cut \in Seq(Entry) /\ Len(cut) = p /\ Canonical(cut)
        /\ \A i \in 1..p : cut[i] = stack[i]
    <3>1. p \in 0..Len(stack)
      BY <2>3, <2>5
    <3>2. QED  BY <2>4, <2>6, <3>1, CutFacts
  <2>8. stack' = DecTag(cut, Len(cut))
    BY <2>2, <2>6, <2>7
  <2>9. Opened(cut) = Unrolled(stack)[p]
    <3>1. p <= Len(cut) /\ p <= Len(stack) /\ p \in 0..p
      BY <2>3, <2>5, <2>7
    <3>2. Unrolled(cut)[p] = Unrolled(stack)[p]
      BY <2>4, <2>5, <2>7, <3>1, SameRuns
    <3>3. QED  BY <2>7, <3>2 DEF Opened
  <2>10. PICK s : s = Opened(DecTag(cut, Len(cut)))
    OBVIOUS
  <2>11. PICK x : x = stack[p].name
    OBVIOUS
  <2>12. Unrolled(stack)[p] = Append(s, x) /\ s \in Seq(Names) /\ x \in Names
    <3>1. Top(cut).name = x
      BY <2>5, <2>7, <2>11 DEF Top
    <3>2. Len(cut) >= 1
      BY <2>5, <2>7
    <3>3. QED  BY <2>7, <2>9, <2>10, <3>1, <3>2, ClosedTop
  <2>13. PICK open : open = Opened(stack)
    OBVIOUS
  <2>14. PICK q \in Nat : q = Len(Unrolled(stack)[p]) /\ q = Len(s) + 1
    <3>1. Len(Append(s, x)) = Len(s) + 1 /\ Len(s) \in Nat
      BY <2>12, AppendProperties, LenProperties
    <3>2. QED  BY <2>12, <3>1
  <2>15. /\ open \in Seq(Names) /\ Len(open) \in Nat /\ q + (m - p) <= Len(open)
         /\ \A j \in 1..q : open[j] = Append(s, x)[j]
    <3>1. p \in 0..Len(stack)
      BY <2>3, <2>5
    <3>2. open \in Seq(Names) /\ Len(open) \in Nat
      BY <2>4, <2>13, OpenedFacts
    <3>3. QED  BY <2>3, <2>4, <2>12, <2>13, <2>14, <3>1, <3>2, OpenedBelow
  <2>16. q \in 1..Len(open) /\ q <= Len(open) /\ k \in 0..Len(open)
    <3>1. Len(s) \in Nat
      BY <2>12, LenProperties
    <3>2. QED  BY ONLY <2>5, <2>14, <2>15, <3>1, m \in Nat
  <2>17. SubSeq(open, 1, q - 1) = s /\ open[q] = x
    <3>1. SubSeq(open, 1, Len(s) + 1 - 1) = s /\ open[Len(s) + 1] = x
      <4>1. Len(s) + 1 <= Len(open) /\ \A j \in 1..(Len(s) + 1) : open[j] = Append(s, x)[j]
        BY <2>14, <2>15, <2>16
      <4>2. s \in Seq(Names) /\ x \in Names /\ open \in Seq(Names)
        BY <2>12, <2>15
      <4>3. QED  BY ONLY <4>1, <4>2, WithoutLast
    <3>2. QED  BY <2>14, <3>1
  <2>18. q = Len(open) \/ open[q] # open[q + 1]
    <3>1. q \in 1..Len(Opened(stack)) /\ p \in 1..Len(stack)
      BY <2>3, <2>5, <2>13, <2>16
    <3>2. LastOfRun(Opened(stack), q)
      BY <2>4, <2>14, <3>1, RunEnds
    <3>3. QED  BY <2>13, <3>2 DEF LastOfRun
  <2>19. Cardinality({i \in q..(Len(open) - 1) :
                        i = Len(open) \/ open[i] # open[i + 1]}) = k
    <3>1. p \in 1..Len(stack)
      BY <2>3, <2>5
    <3>2. Cardinality({i \in q..(Len(open) - 1) : LastOfRun(open, i)}) = m - p
      BY <2>3, <2>4, <2>13, <2>14, <3>1, RunsAbove
    <3>3. QED  BY <2>5, <3>2 DEF LastOfRun
  <2>20. Elements!CloseRef(k)
    <3>1. q \in DOMAIN open
      BY <2>15, <2>16, LenProperties
    <3>2. open = Unrolled(stack)[Len(stack)] /\ s = (Unrolled(stack)[Len(stack)])'
      BY <2>8, <2>10, <2>13 DEF Opened
    <3>3. event' = [kind |-> "close", name |-> open[q], run |-> k]
      BY <2>2, <2>11, <2>17
    <3>4. Elements!EndsRun(q)
      BY <2>18, <3>2 DEF Elements!EndsRun
    <3>5. Elements!RunsInside(q) = k
      <4>1. Cardinality({i \in q..(Len(Unrolled(stack)[Len(stack)]) - 1) :
                           \/ i = Len(Unrolled(stack)[Len(stack)])
                           \/ Unrolled(stack)[Len(stack)][i]
                                # Unrolled(stack)[Len(stack)][i + 1]}) = k
        BY ONLY <2>19, <3>2
      <4>2. \A S : Elements!Cardinality(S) = Cardinality(S)
        BY ONLY TRUE DEF Cardinality, Elements!Cardinality
      <4>3. QED  BY ONLY <4>1, <4>2 DEF Elements!RunsInside, Elements!EndsRun
    <3>6. /\ q \in DOMAIN Unrolled(stack)[Len(stack)]
          /\ (Unrolled(stack)[Len(stack)])' = SubSeq(Unrolled(stack)[Len(stack)], 1, q - 1)
          /\ event' = [kind |-> "close", name |-> Unrolled(stack)[Len(stack)][q], run |-> k]
      BY <2>17, <3>1, <3>2, <3>3
    <3>7. QED  BY ONLY <3>4, <3>5, <3>6 DEF Elements!CloseRef
  <2>21. QED
    <3>1. k \in 0..Len(Unrolled(stack)[Len(stack)])
      BY <2>13, <2>16 DEF Opened
    <3>2. QED  BY <2>20, <3>1 DEF ElementsStep, Elements!Next
<1>3. QED  BY <1>1, <1>2

(* The expander implements the list of open elements: every closing token  *)
(* ends exactly the element it names, whatever the run lengths, as long as *)
(* the stack never holds more runs than the mask can tell apart.           *)
THEOREM ExpanderKeepsPromise ==
  Spec /\ []Shallow => ClosesWhatItNames
<1>1. IInv /\ StackCanonical /\ Shallow /\ [Next]_vars => ElementsStep
  <2> SUFFICES ASSUME IInv, StackCanonical, Shallow, [Next]_vars PROVE ElementsStep
    OBVIOUS
  <2>1. ASSUME NEW s \in Sizes, Word(s) PROVE ElementsStep
    BY <2>1, ContentStep, UnchangedElements DEF Word, Raise
  <2>2. ASSUME NEW s \in Sizes, NEW r \in BOOLEAN, Text(s, r) PROVE ElementsStep
    BY <2>2, ContentStep, UnchangedElements DEF Text, Raise
  <2>3. ASSUME NEW n \in Names, OpenTag(n) PROVE ElementsStep
    BY <2>3, OpenStep
  <2>4. ASSUME NEW s \in Sizes, AttributeName(s) PROVE ElementsStep
    BY <2>4, AttributeStep DEF AttributeName
  <2>5. ASSUME NEW s \in Sizes \cup {0}, AttributeValue(s) PROVE ElementsStep
    BY <2>5, AttributeStep DEF AttributeValue
  <2>6. ASSUME NEW s \in Sizes, ExplicitClose(s) PROVE ElementsStep
    BY <2>6, ContentStep, UnchangedElements DEF ExplicitClose, Raise
  <2>7. ASSUME NEW k \in 0..MaxDepth, CloseRef(k) PROVE ElementsStep
    BY <2>7, CloseRefStep
  <2>8. CASE EmptyClose
    BY <2>8, EmptyCloseStep
  <2>9. CASE UNCHANGED vars
    BY <2>9, UnchangedElements DEF vars
  <2>10. QED
    BY <2>1, <2>2, <2>3, <2>4, <2>5, <2>6, <2>7, <2>8, <2>9 DEF Next
<1>2. QED
  BY ExpanderInvariant, StackStaysCanonical, ElementsInit, <1>1, PTL
     DEF Spec, ClosesWhatItNames, Elements!Spec, ElementsStep

=============================================================================
