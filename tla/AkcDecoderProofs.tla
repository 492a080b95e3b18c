---------------------------- MODULE AkcDecoderProofs ----------------------------
(* Articles do not depend on what was decoded before, and map, loaded map  *)
(* and bulk decoding mean the same article by a refid: for every file,     *)
(* every set of keys and every size of the map's prefixes.                 *)
EXTENDS AkcDecoder, SequenceTheorems, FiniteSetTheorems, Iteration, TLAPS

(* The second sequence goes on where the first one ends.                   *)
Grows(s, t) == Len(s) <= Len(t) /\ \A i \in 1..Len(s) : t[i] = s[i]

TokenStates(count) ==
  {s \in [ok : BOOLEAN, tokens : Seq(Symbols), pos : Nat] : Len(s.tokens) <= count}

(* One turn of the loop of decode_tokens.                                  *)
Turn(body, s, count) ==
  IF s.ok /\ Len(s.tokens) < count THEN Decoded(body, SymbolAt(body, s.pos), s, count) ELSE s

-----------------------------------------------------------------------------
LEMMA GrowsTransitive ==
  ASSUME NEW r \in Seq(Symbols), NEW s \in Seq(Symbols), NEW t \in Seq(Symbols),
         Grows(r, s), Grows(s, t)
  PROVE  Grows(r, t)
<1>1. Len(r) \in Nat /\ Len(s) \in Nat /\ Len(t) \in Nat
  BY LenProperties
<1>2. QED  BY <1>1 DEF Grows

LEMMA GrowsAppend ==
  ASSUME NEW s \in Seq(Symbols), NEW x \in Symbols
  PROVE  /\ Append(s, x) \in Seq(Symbols) /\ Len(Append(s, x)) = Len(s) + 1
         /\ Grows(s, Append(s, x))
<1>1. Len(s) \in Nat
  BY LenProperties
<1>2. QED  BY <1>1, AppendProperties DEF Grows

(* What a sequence begins with.                                            *)
LEMMA PrefixIs ==
  ASSUME NEW s \in Seq(Symbols), NEW t \in Seq(Symbols), Grows(s, t)
  PROVE  s = SubSeq(t, 1, Len(s))
<1>1. PICK n \in Nat : n = Len(s)
  BY LenProperties
<1>2. Len(t) \in Nat /\ n <= Len(t) /\ \A i \in 1..n : t[i] = s[i] /\ t[i] \in Symbols
  <2>1. \A i \in 1..n : s[i] \in Symbols
    BY <1>1, ElementOfSeq
  <2>2. QED  BY <1>1, <2>1, LenProperties DEF Grows
<1>3. /\ SubSeq(t, 1, n) \in Seq(Symbols)
      /\ Len(SubSeq(t, 1, n)) = IF 1 <= n THEN n - 1 + 1 ELSE 0
      /\ \A i \in 1..(n - 1 + 1) : SubSeq(t, 1, n)[i] = t[1 + i - 1]
  BY <1>2, SubSeqProperties
<1>4. Len(SubSeq(t, 1, n)) = n
  BY <1>3
<1>5. \A i \in 1..n : SubSeq(t, 1, n)[i] = s[i]
  <2>1. \A i \in 1..n : i \in 1..(n - 1 + 1) /\ 1 + i - 1 = i
    BY <1>1
  <2>2. QED  BY <1>2, <1>3, <2>1
<1>6. s = SubSeq(t, 1, n)
  BY <1>1, <1>3, <1>4, <1>5, SeqEqual
<1>7. QED  BY <1>1, <1>6

-----------------------------------------------------------------------------
(* A copy appends one token after the other.                               *)
LEMMA CopyTable ==
  ASSUME NEW t \in Seq(Symbols), NEW d \in 1..Len(t), NEW k \in Nat
  PROVE  \E g : /\ Copied(t, d, k) = g[k] /\ g[0] = t
                /\ \A n \in 1..k : g[n] = Append(g[n - 1], g[n - 1][Len(g[n - 1]) - d + 1])
<1>0. PICK S : S = {s \in Seq(Symbols) : Len(s) >= d}
  OBVIOUS
<1> DEFINE Next1(s) == Append(s, s[Len(s) - d + 1])
           After(g, n) == IF n = 0 THEN t ELSE Next1(g[n - 1])
<1>1. ASSUME NEW s \in S PROVE Next1(s) \in S
  <2>1. s \in Seq(Symbols) /\ Len(s) >= d /\ Len(s) \in Nat /\ d \in Nat /\ d >= 1
    BY <1>0, LenProperties
  <2>2. Len(s) - d + 1 \in 1..Len(s)
    BY <2>1
  <2>3. PICK x : x = s[Len(s) - d + 1]
    OBVIOUS
  <2>4. x \in Symbols
    BY <2>1, <2>2, <2>3, ElementOfSeq
  <2>5. Append(s, x) \in Seq(Symbols) /\ Len(Append(s, x)) = Len(s) + 1
    BY <2>1, <2>4, GrowsAppend
  <2>6. QED  BY <1>0, <2>1, <2>3, <2>5
<1>2. t \in S
  BY <1>0, LenProperties
<1>3. PICK step : step = [n \in 1..k |-> [s \in S |-> Next1(s)]]
  OBVIOUS
<1>4. Steps(step, k, S)
  <2> HIDE DEF Next1
  <2>1. QED  BY <1>1, <1>3 DEF Steps
<1>5. PICK f \in [0..k -> S] : f[0] = t /\ \A n \in 1..k : f[n] = step[n][f[n - 1]]
  <2>1. PICK f : IsTable(f, k, S, t, step)
    BY <1>2, <1>4, IterationExists
  <2>2. QED  BY <2>1 DEF IsTable
<1>6. ASSUME NEW n \in 0..k PROVE f[n] = After(f, n)
  <2>1. CASE n = 0
    BY <1>5, <2>1
  <2>2. CASE n # 0
    <3>1. n \in 1..k /\ n - 1 \in 0..k
      BY <2>2
    <3>2. f[n - 1] \in S
      BY <1>5, <3>1
    <3>3. f[n] = step[n][f[n - 1]]
      BY <1>5, <3>1
    <3>4. QED
      <4> HIDE DEF Next1
      <4>1. QED  BY <1>3, <2>2, <3>1, <3>2, <3>3
  <2>3. QED  BY <2>1, <2>2
<1>7. f = [n \in 0..k |-> After(f, n)]
  <2>1. f = [n \in 0..k |-> f[n]]
    BY <1>5
  <2> HIDE DEF After
  <2>2. QED  BY <1>6, <2>1
<1>8. PICK g : g = CHOOSE h : h = [n \in 0..k |-> After(h, n)]
  OBVIOUS
<1>9. g = [n \in 0..k |-> After(g, n)]
  <2> HIDE DEF After
  <2>1. QED  BY <1>7, <1>8
<1>10. Copied(t, d, k) = g[k]
  BY <1>8 DEF Copied
<1>11. \A n \in 0..k : g[n] = After(g, n)
  <2> HIDE DEF After
  <2>1. QED  BY <1>9
<1>12. /\ g[0] = t
       /\ \A n \in 1..k : g[n] = Append(g[n - 1], g[n - 1][Len(g[n - 1]) - d + 1])
  <2>1. 0 \in 0..k /\ \A n \in 1..k : n \in 0..k /\ n # 0
    OBVIOUS
  <2>2. QED  BY <1>11, <2>1
<1>13. QED  BY <1>10, <1>12

LEMMA CopiedStep ==
  ASSUME NEW t \in Seq(Symbols), NEW d \in 1..Len(t)
  PROVE  /\ Copied(t, d, 0) = t
         /\ \A k \in Nat :
              Copied(t, d, k + 1)
                = Append(Copied(t, d, k), Copied(t, d, k)[Len(Copied(t, d, k)) - d + 1])
<1>1. Copied(t, d, 0) = t
  <2>1. PICK z \in Nat : z = 0
    OBVIOUS
  <2>2. PICK g : Copied(t, d, z) = g[z] /\ g[0] = t
    BY CopyTable
  <2>3. QED  BY <2>1, <2>2
<1>2. ASSUME NEW k \in Nat
      PROVE  Copied(t, d, k + 1)
               = Append(Copied(t, d, k), Copied(t, d, k)[Len(Copied(t, d, k)) - d + 1])
  <2>1. PICK m \in Nat : m = k + 1
    OBVIOUS
  <2>2. PICK f : /\ Copied(t, d, k) = f[k] /\ f[0] = t
                 /\ \A n \in 1..k : f[n] = Append(f[n - 1], f[n - 1][Len(f[n - 1]) - d + 1])
    BY CopyTable
  <2>3. PICK g : /\ Copied(t, d, m) = g[m] /\ g[0] = t
                 /\ \A n \in 1..m : g[n] = Append(g[n - 1], g[n - 1][Len(g[n - 1]) - d + 1])
    BY CopyTable
  <2> DEFINE P == {n \in 0..k : f[n] = g[n]}
  <2>4. 0 \in P
    BY <2>2, <2>3
  <2>5. ASSUME NEW n \in 1..k, n - 1 \in P PROVE n \in P
    <3>1. n \in 1..m /\ n \in 0..k /\ f[n - 1] = g[n - 1]
      BY <2>1, <2>5
    <3>2. QED  BY <2>2, <2>3, <3>1
  <2>6. \A n \in 0..k : n \in P
    <3> HIDE DEF P
    <3>1. QED  BY <2>4, <2>5, BoundedInduction
  <2>7. f[k] = g[k]
    BY <2>6
  <2>8. m \in 1..m /\ m - 1 = k
    BY <2>1
  <2>9. g[m] = Append(g[k], g[k][Len(g[k]) - d + 1])
    BY <2>3, <2>8
  <2>10. QED  BY <2>1, <2>2, <2>3, <2>7, <2>9
<1>3. QED  BY <1>1, <1>2

(* It never changes what is there, and a shorter copy is the start of a    *)
(* longer one.                                                             *)
LEMMA CopiedLength ==
  ASSUME NEW t \in Seq(Symbols), NEW d \in 1..Len(t)
  PROVE  \A k \in Nat : /\ Copied(t, d, k) \in Seq(Symbols) /\ Len(Copied(t, d, k)) = Len(t) + k
                        /\ Grows(Copied(t, d, k), Copied(t, d, k + 1))
<1> DEFINE Typed(k) == Copied(t, d, k) \in Seq(Symbols) /\ Len(Copied(t, d, k)) = Len(t) + k
           P == {k \in Nat : Typed(k)}
<1>1. Len(t) \in Nat /\ d \in Nat /\ d >= 1 /\ d <= Len(t)
  BY LenProperties
<1>2. ASSUME NEW k \in Nat, Typed(k) PROVE Typed(k + 1) /\ Grows(Copied(t, d, k), Copied(t, d, k + 1))
  <2>1. PICK s : s = Copied(t, d, k)
    OBVIOUS
  <2>2. s \in Seq(Symbols) /\ Len(s) = Len(t) + k
    BY <1>2, <2>1
  <2>3. Len(s) - d + 1 \in 1..Len(s)
    BY <1>1, <2>2
  <2>4. PICK x : x = s[Len(s) - d + 1]
    OBVIOUS
  <2>5. x \in Symbols
    BY <2>2, <2>3, <2>4, ElementOfSeq
  <2>6. Copied(t, d, k + 1) = Append(s, x)
    BY <2>1, <2>4, CopiedStep
  <2>7. Append(s, x) \in Seq(Symbols) /\ Len(Append(s, x)) = Len(s) + 1 /\ Grows(s, Append(s, x))
    BY <2>2, <2>5, GrowsAppend
  <2>8. Len(Append(s, x)) = Len(t) + (k + 1)
    BY ONLY <1>1, <2>2, <2>7, k \in Nat
  <2>9. QED  BY <2>1, <2>6, <2>7, <2>8
<1>3. 0 \in P
  BY <1>1, CopiedStep
<1>4. ASSUME NEW k \in P PROVE k + 1 \in P
  <2>1. k \in Nat /\ Typed(k)
    BY <1>4
  <2> HIDE DEF Typed
  <2>2. QED  BY <1>2, <2>1
<1>5. P = Nat
  <2>1. P \in SUBSET Nat
    OBVIOUS
  <2> HIDE DEF P
  <2>2. QED  BY <1>3, <1>4, <2>1, SetInduction
<1>6. \A k \in Nat : Typed(k)
  <2> HIDE DEF Typed
  <2>1. QED  BY <1>5
<1>7. QED  BY <1>2, <1>6

LEMMA CopiedGrows ==
  ASSUME NEW t \in Seq(Symbols), NEW d \in 1..Len(t), NEW j \in Nat, NEW k \in Nat, j <= k
  PROVE  Grows(Copied(t, d, j), Copied(t, d, k))
<1> DEFINE P == {n \in Nat : Grows(Copied(t, d, j), Copied(t, d, j + n))}
<1>1. 0 \in P
  <2>0. Copied(t, d, j) \in Seq(Symbols)
    BY CopiedLength
  <2>1. j + 0 = j /\ Copied(t, d, j) \in Seq(Symbols) /\ Len(Copied(t, d, j)) \in Nat
    BY <2>0, LenProperties
  <2>2. QED  BY <2>1 DEF Grows
<1>2. ASSUME NEW n \in P PROVE n + 1 \in P
  <2>1. PICK m \in Nat : m = j + n
    OBVIOUS
  <2>2. j + (n + 1) = m + 1 /\ n \in Nat /\ Grows(Copied(t, d, j), Copied(t, d, m))
    BY <2>1
  <2>3. /\ Copied(t, d, j) \in Seq(Symbols) /\ Copied(t, d, m) \in Seq(Symbols)
        /\ Copied(t, d, m + 1) \in Seq(Symbols) /\ Grows(Copied(t, d, m), Copied(t, d, m + 1))
    <3>1. m + 1 \in Nat
      OBVIOUS
    <3>2. QED  BY <3>1, CopiedLength
  <2>4. Grows(Copied(t, d, j), Copied(t, d, m + 1))
    BY <2>2, <2>3, GrowsTransitive
  <2>5. QED  BY <2>2, <2>4
<1>3. P = Nat
  <2>1. P \in SUBSET Nat
    OBVIOUS
  <2> HIDE DEF P
  <2>2. QED  BY <1>1, <1>2, <2>1, SetInduction
<1>4. PICK n \in Nat : j + n = k
  <2>1. k - j \in Nat /\ j + (k - j) = k
    OBVIOUS
  <2>2. QED  BY <2>1
<1>5. n \in P
  BY <1>3
<1>6. QED  BY <1>4, <1>5

-----------------------------------------------------------------------------
(* One turn of the loop appends at least a token, or ends it.              *)
LEMMA SymbolFacts ==
  ASSUME NEW body \in Bodies, NEW pos \in Nat, NEW sym, sym = SymbolAt(body, pos)
  PROVE  /\ sym \in Symbols
         /\ sym[1] = "copy" => sym[2] \in Nat /\ sym[2] >= 2 /\ sym[3] \in Nat /\ sym[3] >= 1
<1>1. PICK list : list = body.symbols
  OBVIOUS
<1>2. list \in Seq(Symbols) /\ body.zero \in Symbols
  BY <1>1 DEF Bodies
<1>3. sym \in Symbols
  <2>1. CASE pos < Len(list)
    <3>1. pos + 1 \in 1..Len(list)
      BY <1>2, <2>1, LenProperties
    <3>2. list[pos + 1] \in Symbols
      BY <1>2, <3>1, ElementOfSeq
    <3>3. QED  BY <1>1, <2>1, <3>2 DEF SymbolAt
  <2>2. CASE ~(pos < Len(list))
    BY <1>1, <1>2, <2>2 DEF SymbolAt
  <2>3. QED  BY <2>1, <2>2
<1>4. QED
  BY <1>3 DEF Symbols

(* What a turn that is needed does, by the symbol it meets.                *)
Follows(body, s, count) ==
  LET sym == SymbolAt(body, s.pos)
      l == Len(s.tokens)
  IN /\ sym[1] = "copy" /\ sym[3] > l =>
          Turn(body, s, count) = [ok |-> FALSE, tokens |-> s.tokens, pos |-> s.pos]
     /\ sym[1] = "copy" /\ ~(sym[3] > l) =>
          Turn(body, s, count)
            = [ok |-> TRUE, pos |-> s.pos + 1, tokens |-> Copied(s.tokens, sym[3], CopySteps(l, sym[2], count))]
     /\ sym[1] # "copy" /\ InRange(body, sym) =>
          Turn(body, s, count) = [ok |-> TRUE, tokens |-> Append(s.tokens, sym), pos |-> s.pos + 1]
     /\ sym[1] # "copy" /\ ~InRange(body, sym) =>
          Turn(body, s, count) = [ok |-> FALSE, tokens |-> s.tokens, pos |-> s.pos]

LEMMA TurnOf ==
  ASSUME NEW body, NEW count \in Nat, NEW s \in TokenStates(count), s.ok, Len(s.tokens) < count
  PROVE  Follows(body, s, count)
<1>1. PICK t : t = s.tokens
  OBVIOUS
<1>2. PICK p : p = s.pos
  OBVIOUS
<1>3. s = [ok |-> TRUE, tokens |-> t, pos |-> p]
  BY <1>1, <1>2 DEF TokenStates
<1>4. PICK sym : sym = SymbolAt(body, p)
  OBVIOUS
<1>5. PICK u : u = Turn(body, s, count)
  OBVIOUS
<1>6. u = Decoded(body, sym, s, count)
  BY <1>2, <1>4, <1>5 DEF Turn
<1>7. PICK l : l = Len(t)
  OBVIOUS
<1>8. sym[1] = "copy" /\ sym[3] > l => u = [ok |-> FALSE, tokens |-> t, pos |-> p]
  BY ONLY <1>3, <1>6, <1>7 DEF Decoded
<1>9. sym[1] = "copy" /\ ~(sym[3] > l) =>
        u = [ok |-> TRUE, pos |-> p + 1, tokens |-> Copied(t, sym[3], CopySteps(l, sym[2], count))]
  BY ONLY <1>3, <1>6, <1>7 DEF Decoded
<1>10. sym[1] # "copy" /\ InRange(body, sym) => u = [ok |-> TRUE, tokens |-> Append(t, sym), pos |-> p + 1]
  BY ONLY <1>3, <1>6 DEF Decoded
<1>11. sym[1] # "copy" /\ ~InRange(body, sym) => u = [ok |-> FALSE, tokens |-> t, pos |-> p]
  BY ONLY <1>3, <1>6 DEF Decoded
<1>12. QED
  BY ONLY <1>1, <1>2, <1>4, <1>5, <1>7, <1>8, <1>9, <1>10, <1>11 DEF Follows

LEMMA CopyRange ==
  ASSUME NEW have \in Nat, NEW len \in Nat, len >= 2, NEW count \in Nat, have < count
  PROVE  /\ CopySteps(have, len, count) \in Nat
         /\ CopySteps(have, len, count) >= 1
         /\ have + CopySteps(have, len, count) <= count
BY DEF CopySteps

LEMMA TurnFacts ==
  ASSUME NEW body \in Bodies, NEW count \in Nat, NEW s \in TokenStates(count)
  PROVE  /\ Turn(body, s, count) \in TokenStates(count)
         /\ Turn(body, s, count).ok => s.ok
         /\ Grows(s.tokens, Turn(body, s, count).tokens)
         /\ Turn(body, s, count).ok /\ Len(s.tokens) < count =>
              Len(Turn(body, s, count).tokens) > Len(s.tokens)
<1>1. PICK t : t = s.tokens
  OBVIOUS
<1>2. PICK l : l = Len(t)
  OBVIOUS
<1>3. t \in Seq(Symbols) /\ l \in Nat /\ l <= count /\ s.pos \in Nat /\ s.ok \in BOOLEAN
  BY <1>1, <1>2, LenProperties DEF TokenStates
<1>4. Grows(t, t)
  BY <1>2, <1>3 DEF Grows
<1>5. PICK sym : sym = SymbolAt(body, s.pos)
  OBVIOUS
<1>6. sym \in Symbols /\ (sym[1] = "copy" => sym[2] \in Nat /\ sym[2] >= 2 /\ sym[3] \in Nat /\ sym[3] >= 1)
  BY <1>3, <1>5, SymbolFacts
<1>7. CASE ~(s.ok /\ l < count)
  <2>1. Turn(body, s, count) = s
    BY <1>1, <1>2, <1>7 DEF Turn
  <2>2. QED  BY <1>1, <1>2, <1>4, <1>7, <2>1
<1>8. CASE s.ok /\ l < count /\ Turn(body, s, count) = [ok |-> FALSE, tokens |-> t, pos |-> s.pos]
  BY <1>1, <1>2, <1>3, <1>4, <1>8 DEF TokenStates
<1>9. ASSUME s.ok, l < count, NEW u \in Seq(Symbols), Grows(t, u), Len(u) > l, Len(u) <= count,
             Turn(body, s, count) = [ok |-> TRUE, tokens |-> u, pos |-> s.pos + 1]
      PROVE  /\ Turn(body, s, count) \in TokenStates(count)
             /\ Grows(t, Turn(body, s, count).tokens) /\ Len(Turn(body, s, count).tokens) > l
  BY <1>3, <1>9 DEF TokenStates
<1>10. CASE s.ok /\ l < count /\ sym[1] = "copy" /\ ~(sym[3] > l)
  <2>1. PICK k : k = CopySteps(l, sym[2], count)
    OBVIOUS
  <2>2. k \in Nat /\ k >= 1 /\ l + k <= count
    BY <1>3, <1>6, <1>10, <2>1, CopyRange
  <2>3. PICK d : d = sym[3]
    OBVIOUS
  <2>4. d \in 1..Len(t)
    BY <1>2, <1>3, <1>6, <1>10, <2>3
  <2>5. PICK u : u = Copied(t, d, k)
    OBVIOUS
  <2>6. u \in Seq(Symbols) /\ Len(u) = l + k
    BY <1>2, <1>3, <2>2, <2>4, <2>5, CopiedLength
  <2>7. Grows(t, u)
    <3>1. PICK z \in Nat : z = 0
      OBVIOUS
    <3>2. Copied(t, d, z) = t
      BY <1>3, <2>4, <3>1, CopiedStep
    <3>3. Grows(Copied(t, d, z), Copied(t, d, k))
      BY <1>3, <2>2, <2>4, <3>1, CopiedGrows
    <3>4. QED  BY <2>5, <3>2, <3>3
  <2>8. Turn(body, s, count) = [ok |-> TRUE, pos |-> s.pos + 1, tokens |-> u]
    <3>1. Follows(body, s, count)
      BY <1>1, <1>2, <1>10, TurnOf
    <3>2. QED  BY <1>1, <1>2, <1>5, <1>10, <2>1, <2>3, <2>5, <3>1 DEF Follows
  <2>9. Len(u) > l /\ Len(u) <= count
    BY <1>3, <2>2, <2>6
  <2>10. QED  BY <1>1, <1>2, <1>9, <1>10, <2>6, <2>7, <2>8, <2>9
<1>11. CASE s.ok /\ l < count /\ sym[1] # "copy" /\ InRange(body, sym)
  <2>1. PICK u : u = Append(t, sym)
    OBVIOUS
  <2>2. u \in Seq(Symbols) /\ Len(u) = l + 1 /\ Grows(t, u)
    BY <1>2, <1>3, <1>6, <2>1, GrowsAppend
  <2>3. Turn(body, s, count) = [ok |-> TRUE, tokens |-> u, pos |-> s.pos + 1]
    <3>1. Follows(body, s, count)
      BY <1>1, <1>2, <1>11, TurnOf
    <3>2. QED  BY <1>1, <1>2, <1>5, <1>11, <2>1, <3>1 DEF Follows
  <2>4. Len(u) > l /\ Len(u) <= count
    BY <1>3, <1>11, <2>2
  <2>5. QED  BY <1>1, <1>2, <1>9, <1>11, <2>2, <2>3, <2>4
<1>12. s.ok /\ l < count =>
         \/ Turn(body, s, count) = [ok |-> FALSE, tokens |-> t, pos |-> s.pos]
         \/ sym[1] = "copy" /\ ~(sym[3] > l)
         \/ sym[1] # "copy" /\ InRange(body, sym)
  <2>1. s.ok /\ l < count => Follows(body, s, count)
    BY <1>1, <1>2, TurnOf
  <2>2. QED  BY <1>1, <1>2, <1>5, <2>1 DEF Follows
<1>13. QED  BY <1>7, <1>8, <1>10, <1>11, <1>12

(* A turn towards fewer tokens does the same, or stops in a copy.          *)
LEMMA TurnsAgree ==
  ASSUME NEW body \in Bodies, NEW n \in Nat, NEW m \in Nat, n <= m, NEW s \in TokenStates(n),
         s.ok, Len(s.tokens) < n, Turn(body, s, m).ok
  PROVE  /\ Turn(body, s, n).ok
         /\ \/ Turn(body, s, n) = Turn(body, s, m)
            \/ /\ Len(Turn(body, s, n).tokens) = n
               /\ Grows(Turn(body, s, n).tokens, Turn(body, s, m).tokens)
<1>1. PICK t : t = s.tokens
  OBVIOUS
<1>2. PICK l : l = Len(t)
  OBVIOUS
<1>3. t \in Seq(Symbols) /\ l \in Nat /\ l < n /\ l < m /\ s.pos \in Nat /\ s \in TokenStates(m)
  BY <1>1, <1>2, LenProperties DEF TokenStates
<1>4. PICK sym : sym = SymbolAt(body, s.pos)
  OBVIOUS
<1>5. sym \in Symbols /\ (sym[1] = "copy" => sym[2] \in Nat /\ sym[2] >= 2 /\ sym[3] \in Nat /\ sym[3] >= 1)
  BY <1>3, <1>4, SymbolFacts
<1> DEFINE Does(c) ==
             /\ sym[1] = "copy" /\ sym[3] > l =>
                  Turn(body, s, c) = [ok |-> FALSE, tokens |-> t, pos |-> s.pos]
             /\ sym[1] = "copy" /\ ~(sym[3] > l) =>
                  Turn(body, s, c)
                    = [ok |-> TRUE, pos |-> s.pos + 1, tokens |-> Copied(t, sym[3], CopySteps(l, sym[2], c))]
             /\ sym[1] # "copy" /\ InRange(body, sym) =>
                  Turn(body, s, c) = [ok |-> TRUE, tokens |-> Append(t, sym), pos |-> s.pos + 1]
             /\ sym[1] # "copy" /\ ~InRange(body, sym) =>
                  Turn(body, s, c) = [ok |-> FALSE, tokens |-> t, pos |-> s.pos]
<1>9. ASSUME NEW c, Follows(body, s, c) PROVE Does(c)
  BY ONLY <1>1, <1>2, <1>4, <1>9 DEF Follows
<1>10. Does(n) /\ Does(m)
  <2>1. Follows(body, s, n) /\ Follows(body, s, m)
    BY <1>1, <1>2, <1>3, TurnOf
  <2> HIDE DEF Does
  <2>2. QED  BY <1>9, <2>1
<1>6. CASE sym[1] # "copy"
  <2>1. InRange(body, sym)
    BY <1>6, <1>10
  <2>2. Turn(body, s, m) = [ok |-> TRUE, tokens |-> Append(t, sym), pos |-> s.pos + 1]
    BY <1>6, <1>10, <2>1
  <2>3. Turn(body, s, n) = [ok |-> TRUE, tokens |-> Append(t, sym), pos |-> s.pos + 1]
    BY <1>6, <1>10, <2>1
  <2>4. QED  BY <2>2, <2>3
<1>7. CASE sym[1] = "copy"
  <2>1. ~(sym[3] > l)
    BY <1>7, <1>10
  <2>2. PICK len \in Nat : len = sym[2] /\ len >= 2
    BY <1>5, <1>7
  <2>3. PICK d : d = sym[3]
    OBVIOUS
  <2>4. d \in 1..Len(t)
    BY <1>2, <1>3, <1>5, <1>7, <2>1, <2>3
  <2>5. PICK j : j = CopySteps(l, len, n)
    OBVIOUS
  <2>6. PICK k : k = CopySteps(l, len, m)
    OBVIOUS
  <2>7. j \in Nat /\ k \in Nat /\ j <= k /\ (j = k \/ l + j = n)
    BY <1>3, <2>2, <2>5, <2>6 DEF CopySteps
  <2>8. Turn(body, s, n) = [ok |-> TRUE, pos |-> s.pos + 1, tokens |-> Copied(t, d, j)]
    BY <1>7, <1>10, <2>1, <2>2, <2>3, <2>5
  <2>9. Turn(body, s, m) = [ok |-> TRUE, pos |-> s.pos + 1, tokens |-> Copied(t, d, k)]
    BY <1>7, <1>10, <2>1, <2>2, <2>3, <2>6
  <2>10. CASE j = k
    BY <2>8, <2>9, <2>10
  <2>11. CASE l + j = n
    <3>1. Len(Copied(t, d, j)) = n
      BY <1>2, <1>3, <2>4, <2>7, <2>11, CopiedLength
    <3>2. Grows(Copied(t, d, j), Copied(t, d, k))
      BY <1>3, <2>4, <2>7, CopiedGrows
    <3>3. QED  BY <2>8, <2>9, <3>1, <3>2
  <2>12. QED  BY <2>7, <2>10, <2>11
<1>8. QED  BY <1>6, <1>7

-----------------------------------------------------------------------------
(* decode_tokens as its turns.                                             *)
IsRun(g, body, count) ==
  g[0] = Start(0) /\ \A n \in 1..count : g[n] = Turn(body, g[n - 1], count)

LEMMA RunTable ==
  ASSUME NEW body \in Bodies, NEW count \in Nat
  PROVE  \E g : DecodeTokens(body, 0, count) = g[count] /\ IsRun(g, body, count)
<1>1. PICK S : S = TokenStates(count)
  OBVIOUS
<1>2. PICK a : a = Start(0)
  OBVIOUS
<1>3. a \in S
  <2>1. a = [ok |-> TRUE, tokens |-> <<>>, pos |-> 0]
    BY <1>2 DEF Start
  <2>2. <<>> \in Seq(Symbols) /\ Len(<<>>) = 0
    BY EmptySeq
  <2>3. QED  BY <1>1, <2>1, <2>2 DEF TokenStates
<1>4. ASSUME NEW s \in S PROVE Turn(body, s, count) \in S
  BY <1>1, TurnFacts
<1>5. PICK step : step = [n \in 1..count |-> [s \in S |-> Turn(body, s, count)]]
  OBVIOUS
<1>6. Steps(step, count, S)
  BY <1>4, <1>5 DEF Steps
<1>7. PICK f : IsTable(f, count, S, a, step)
  BY <1>3, <1>6, IterationExists
<1> DEFINE After(g, n) == IF n = 0 THEN Start(0) ELSE Turn(body, g[n - 1], count)
<1>8. ASSUME NEW n \in 0..count PROVE f[n] = After(f, n)
  <2>1. CASE n = 0
    BY <1>2, <1>7, <2>1 DEF IsTable
  <2>2. CASE n # 0
    <3>1. n \in 1..count /\ n - 1 \in 0..count
      BY <2>2
    <3>2. f[n - 1] \in S /\ f[n] = step[n][f[n - 1]]
      BY <1>7, <3>1 DEF IsTable
    <3>3. QED  BY <1>5, <2>2, <3>1, <3>2
  <2>3. QED  BY <2>1, <2>2
<1>9. f = [n \in 0..count |-> After(f, n)]
  <2>1. f = [n \in 0..count |-> f[n]]
    BY <1>7 DEF IsTable
  <2> HIDE DEF After
  <2>2. QED  BY <1>8, <2>1
<1>10. PICK g : g = CHOOSE h : h = [n \in 0..count |-> After(h, n)]
  OBVIOUS
<1>11. g = [n \in 0..count |-> After(g, n)]
  <2> HIDE DEF After
  <2>1. QED  BY <1>9, <1>10
<1>12. DecodeTokens(body, 0, count) = g[count]
  BY <1>10 DEF DecodeTokens, Turn
<1>13. \A n \in 0..count : g[n] = After(g, n)
  <2> HIDE DEF After
  <2>1. QED  BY <1>11
<1>14. IsRun(g, body, count)
  <2>1. 0 \in 0..count /\ \A n \in 1..count : n \in 0..count /\ n # 0
    OBVIOUS
  <2>2. QED  BY <1>13, <2>1 DEF IsRun
<1>15. QED  BY <1>12, <1>14

LEMMA RunTyped ==
  ASSUME NEW body \in Bodies, NEW count \in Nat, NEW g, IsRun(g, body, count)
  PROVE  \A n \in 0..count :
           g[n] \in TokenStates(count) /\ (g[n].ok => Len(g[n].tokens) >= n)
<1> DEFINE P == {n \in 0..count : /\ g[n] \in TokenStates(count)
                                  /\ g[n].ok => Len(g[n].tokens) >= n}
<1>1. 0 \in P
  <2>1. g[0] = [ok |-> TRUE, tokens |-> <<>>, pos |-> 0]
    BY DEF IsRun, Start
  <2>2. <<>> \in Seq(Symbols) /\ Len(<<>>) = 0
    BY EmptySeq
  <2>3. PICK u : u = g[0]
    OBVIOUS
  <2>4. u \in TokenStates(count) /\ Len(u.tokens) >= 0
    BY <2>1, <2>2, <2>3 DEF TokenStates
  <2>5. 0 \in 0..count
    OBVIOUS
  <2>6. QED  BY <2>3, <2>4, <2>5
<1>2. ASSUME NEW n \in 1..count, n - 1 \in P PROVE n \in P
  <2>1. PICK s : s = g[n - 1]
    OBVIOUS
  <2>2. s \in TokenStates(count) /\ (s.ok => Len(s.tokens) >= n - 1)
    BY <1>2, <2>1
  <2>3. g[n] = Turn(body, s, count)
    BY <2>1 DEF IsRun
  <2>4. PICK u : u = g[n]
    OBVIOUS
  <2>5. /\ u \in TokenStates(count) /\ (u.ok => s.ok) /\ Grows(s.tokens, u.tokens)
        /\ u.ok /\ Len(s.tokens) < count => Len(u.tokens) > Len(s.tokens)
    BY <2>2, <2>3, <2>4, TurnFacts
  <2>6. Len(s.tokens) \in Nat /\ Len(u.tokens) \in Nat
    <3>1. s.tokens \in Seq(Symbols) /\ u.tokens \in Seq(Symbols)
      BY <2>2, <2>5 DEF TokenStates
    <3>2. QED  BY <3>1, LenProperties
  <2>7. u.ok => Len(u.tokens) >= n
    BY <2>2, <2>5, <2>6 DEF Grows
  <2>8. QED  BY <2>4, <2>5, <2>7
<1>3. \A n \in 0..count : n \in P
  <2> HIDE DEF P
  <2>1. QED  BY <1>1, <1>2, BoundedInduction
<1>4. QED  BY <1>3

(* A decode that asks for fewer tokens is the start of one that asks for   *)
(* more: the two take the same turns until the shorter one has what it     *)
(* wants, and the longer one only appends from there on.                   *)
LEMMA DecodePrefix ==
  ASSUME NEW body \in Bodies, NEW n \in Nat, NEW m \in Nat, n <= m,
         NEW short, short = DecodeTokens(body, 0, n), NEW long, long = DecodeTokens(body, 0, m),
         long.ok
  PROVE  /\ short.ok /\ short.tokens \in Seq(Symbols) /\ long.tokens \in Seq(Symbols)
         /\ Len(short.tokens) = n /\ Len(long.tokens) = m
         /\ Grows(short.tokens, long.tokens)
<1>1. PICK f : short = f[n] /\ IsRun(f, body, n)
  BY RunTable
<1>2. PICK g : long = g[m] /\ IsRun(g, body, m)
  BY RunTable
<1>3. \A i \in 0..n : f[i] \in TokenStates(n) /\ (f[i].ok => Len(f[i].tokens) >= i)
  BY <1>1, RunTyped
<1>4. \A i \in 0..m : g[i] \in TokenStates(m) /\ (g[i].ok => Len(g[i].tokens) >= i)
  BY <1>2, RunTyped
<1>5. n \in 0..n /\ n \in 0..m /\ m \in 0..m
  OBVIOUS
<1>6. short \in TokenStates(n) /\ long \in TokenStates(m) /\ Len(long.tokens) >= m
      /\ (short.ok => Len(short.tokens) >= n)
  BY <1>1, <1>2, <1>3, <1>4, <1>5
<1>7. /\ short.tokens \in Seq(Symbols) /\ Len(short.tokens) <= n /\ Len(short.tokens) \in Nat
      /\ long.tokens \in Seq(Symbols) /\ Len(long.tokens) <= m /\ Len(long.tokens) \in Nat
  <2>1. /\ short.tokens \in Seq(Symbols) /\ Len(short.tokens) <= n
        /\ long.tokens \in Seq(Symbols) /\ Len(long.tokens) <= m
    BY <1>6 DEF TokenStates
  <2>2. QED  BY <2>1, LenProperties
<1> DEFINE Same(i) ==
             g[i].ok =>
               /\ f[i].ok
               /\ \/ f[i] = g[i]
                  \/ Len(f[i].tokens) = n /\ Grows(f[i].tokens, g[i].tokens)
           P == {i \in 0..n : Same(i)}
<1>8. 0 \in P
  BY <1>1, <1>2 DEF IsRun
<1>9. ASSUME NEW i \in 1..n, i - 1 \in P PROVE i \in P
  <2>1. PICK s : s = f[i - 1]
    OBVIOUS
  <2>2. PICK t : t = g[i - 1]
    OBVIOUS
  <2>3. i \in 1..m /\ i - 1 \in 0..n /\ i - 1 \in 0..m /\ i \in 0..n
    OBVIOUS
  <2>4. f[i] = Turn(body, s, n) /\ g[i] = Turn(body, t, m)
    BY <1>1, <1>2, <2>1, <2>2, <2>3 DEF IsRun
  <2>5. s \in TokenStates(n) /\ t \in TokenStates(m)
    BY <1>3, <1>4, <2>1, <2>2, <2>3
  <2>6. t.ok => s.ok /\ (s = t \/ (Len(s.tokens) = n /\ Grows(s.tokens, t.tokens)))
    BY <1>9, <2>1, <2>2
  <2>7. SUFFICES ASSUME Turn(body, t, m).ok
                 PROVE  /\ Turn(body, s, n).ok
                        /\ \/ Turn(body, s, n) = Turn(body, t, m)
                           \/ /\ Len(Turn(body, s, n).tokens) = n
                              /\ Grows(Turn(body, s, n).tokens, Turn(body, t, m).tokens)
    BY <2>3, <2>4
  <2>8. t.ok /\ Grows(t.tokens, Turn(body, t, m).tokens) /\ Turn(body, t, m) \in TokenStates(m)
    BY <2>5, <2>7, TurnFacts
  <2>9. s.ok /\ (s = t \/ (Len(s.tokens) = n /\ Grows(s.tokens, t.tokens)))
    BY <2>6, <2>8
  <2>10. CASE s = t /\ Len(s.tokens) < n
    BY <2>5, <2>7, <2>9, <2>10, TurnsAgree
  <2>11. s.tokens \in Seq(Symbols) /\ Len(s.tokens) \in Nat /\ Len(s.tokens) <= n
         /\ t.tokens \in Seq(Symbols) /\ Turn(body, t, m).tokens \in Seq(Symbols)
    <3>1. s.tokens \in Seq(Symbols) /\ Len(s.tokens) <= n
          /\ t.tokens \in Seq(Symbols) /\ Turn(body, t, m).tokens \in Seq(Symbols)
      BY <2>5, <2>8 DEF TokenStates
    <3>2. QED  BY <3>1, LenProperties
  <2>12. CASE ~(Len(s.tokens) < n)
    <3>1. Len(s.tokens) = n
      BY <2>11, <2>12
    <3>2. Turn(body, s, n) = s
      BY <2>12 DEF Turn
    <3>3. Grows(s.tokens, t.tokens)
      BY <2>9, <2>11 DEF Grows
    <3>4. Grows(s.tokens, Turn(body, t, m).tokens)
      BY <2>8, <2>11, <3>3, GrowsTransitive
    <3>5. QED  BY <2>9, <3>1, <3>2, <3>4
  <2>13. QED  BY <2>9, <2>10, <2>11, <2>12
<1>10. Same(n)
  <2>1. \A i \in 0..n : i \in P
    <3> HIDE DEF P
    <3>1. QED  BY <1>8, <1>9, BoundedInduction
  <2>2. QED  BY <1>5, <2>1
<1> DEFINE Q == {i \in 0..m : i >= n /\ g[i].ok => short.ok /\ Grows(short.tokens, g[i].tokens)}
<1>11. ASSUME g[n].ok PROVE short.ok /\ Len(short.tokens) = n /\ Grows(short.tokens, g[n].tokens)
  <2>1. short.ok /\ (short = g[n] \/ (Len(short.tokens) = n /\ Grows(short.tokens, g[n].tokens)))
    BY <1>1, <1>10, <1>11
  <2>2. Len(short.tokens) = n
    BY <1>6, <1>7, <2>1
  <2>3. QED  BY <1>7, <2>1, <2>2 DEF Grows
<1>12. 0 \in Q
  BY <1>11
<1>13. ASSUME NEW i \in 1..m, i - 1 \in Q PROVE i \in Q
  <2>1. PICK t : t = g[i - 1]
    OBVIOUS
  <2>2. g[i] = Turn(body, t, m) /\ t \in TokenStates(m) /\ g[i] \in TokenStates(m)
    <3>1. i - 1 \in 0..m /\ i \in 0..m
      OBVIOUS
    <3>2. QED  BY <1>2, <1>4, <2>1, <3>1 DEF IsRun
  <2>3. SUFFICES ASSUME i >= n, g[i].ok PROVE short.ok /\ Grows(short.tokens, g[i].tokens)
    OBVIOUS
  <2>4. CASE i = n
    BY <1>11, <2>3, <2>4
  <2>5. CASE i > n
    <3>1. t.ok /\ Grows(t.tokens, g[i].tokens)
      BY <2>2, <2>3, TurnFacts
    <3>2. i - 1 >= n
      BY <2>5
    <3>3. short.ok /\ Grows(short.tokens, t.tokens)
      BY <1>13, <2>1, <3>1, <3>2
    <3>4. t.tokens \in Seq(Symbols) /\ g[i].tokens \in Seq(Symbols)
      BY <2>2 DEF TokenStates
    <3>5. QED  BY <1>7, <3>1, <3>3, <3>4, GrowsTransitive
  <2>6. QED  BY <2>3, <2>4, <2>5
<1>14. m \in Q
  <2>1. \A i \in 0..m : i \in Q
    <3> HIDE DEF Q
    <3>1. QED  BY <1>12, <1>13, BoundedInduction
  <2>2. QED  BY <1>5, <2>1
<1>15. short.ok /\ Grows(short.tokens, long.tokens)
  BY <1>2, <1>14
<1>16. QED  BY <1>6, <1>7, <1>15

-----------------------------------------------------------------------------
(* The values of a function on an interval have a bound.                   *)
LEMMA BoundExists ==
  ASSUME NEW N \in Nat, NEW f \in [0..N -> Nat]
  PROVE  \E x \in Nat : \A i \in 0..N : f[i] <= x
<1> DEFINE P == {n \in 0..N : \E x \in Nat : \A i \in 0..n : f[i] <= x}
<1>1. 0 \in P
  <2>1. f[0] \in Nat /\ \A i \in 0..0 : f[i] <= f[0]
    OBVIOUS
  <2>2. QED  BY <2>1
<1>2. ASSUME NEW n \in 1..N, n - 1 \in P PROVE n \in P
  <2>1. PICK x \in Nat : \A i \in 0..(n - 1) : f[i] <= x
    BY <1>2
  <2>2. PICK y \in Nat : y = f[n]
    OBVIOUS
  <2>3. PICK z \in Nat : x <= z /\ y <= z
    <3>1. x + y \in Nat /\ x <= x + y /\ y <= x + y
      OBVIOUS
    <3>2. QED  BY <3>1
  <2>4. ASSUME NEW i \in 0..n PROVE f[i] <= z
    <3>1. CASE i = n
      BY <2>2, <2>3, <3>1
    <3>2. CASE i # n
      <4>1. i \in 0..(n - 1) /\ f[i] \in Nat
        BY <3>2
      <4>2. QED  BY <2>1, <2>3, <4>1
    <3>3. QED  BY <3>1, <3>2
  <2>5. QED  BY <2>3, <2>4
<1>3. \A n \in 0..N : n \in P
  <2> HIDE DEF P
  <2>1. QED  BY <1>1, <1>2, BoundedInduction
<1>4. N \in P
  <2>1. N \in 0..N
    OBVIOUS
  <2> HIDE DEF P
  <2>2. QED  BY <1>3, <2>1
<1>5. QED  BY <1>4

-----------------------------------------------------------------------------
(* The dictionary of a body is cached with the reader at its first token.  *)
Caches == [DOMAIN akc.bodies -> {NotCached, 0}]

LEMMA WindowFacts ==
  ASSUME akc \in AkcFiles, NEW k \in Keys, NEW win, win = akc.windows[k]
  PROVE  /\ win.body \in DOMAIN akc.bodies /\ win.offset \in Nat /\ win.count \in Nat
         /\ BodyOf(win) \in Bodies /\ Prefix(win) \in Nat /\ Prefix(win) <= win.count
         /\ (Prefix(win) = win.count \/ Prefix(win) = TokenPrefix)
<1>1. PICK list : list = akc.bodies
  OBVIOUS
<1>2. PICK w : w = akc.windows
  OBVIOUS
<1>3. list \in Seq(Bodies) /\ w \in [Keys -> [body : Nat, offset : Nat, count : Nat]]
  BY <1>1, <1>2, DecoderAssumption
<1>4. win \in [body : Nat, offset : Nat, count : Nat]
  BY <1>2, <1>3
<1>5. win.body \in DOMAIN list
  BY <1>1, DecoderAssumption
<1>6. list[win.body] \in Bodies
  <2>1. win.body \in 1..Len(list)
    BY <1>3, <1>5, LenProperties
  <2>2. QED  BY <1>3, <2>1, ElementOfSeq
<1>7. TokenPrefix \in Nat
  BY DecoderAssumption
<1>8. QED  BY <1>1, <1>4, <1>5, <1>6, <1>7 DEF BodyOf, Prefix

LEMMA RawFacts ==
  ASSUME akc \in AkcFiles, NEW k \in Keys, NEW win, win = akc.windows[k],
         NEW c \in Caches, NEW n \in Nat
  PROVE  /\ RawTokens(c, win, n).cache \in Caches
         /\ RawTokens(c, win, n).tokens
              = IF BodyOf(win).good /\ DecodeTokens(BodyOf(win), 0, n).ok
                THEN DecodeTokens(BodyOf(win), 0, n).tokens ELSE Failed
<1>1. PICK b : b = win.body
  OBVIOUS
<1>2. b \in DOMAIN akc.bodies
  BY <1>1, WindowFacts
<1>3. PICK hit : hit = Cached(c, win)
  OBVIOUS
<1>4. hit \in Caches
  BY <1>1, <1>2, <1>3 DEF Cached, Caches
<1>5. BodyOf(win).good => hit[b] = 0
  BY <1>1, <1>2, <1>3 DEF Cached, Caches
<1>6. CASE ~BodyOf(win).good
  BY <1>3, <1>4, <1>6 DEF RawTokens
<1>7. CASE BodyOf(win).good
  <2>1. hit[win.body] = 0
    BY <1>1, <1>5, <1>7
  <2>2. PICK raw : raw = DecodeTokens(BodyOf(win), 0, n)
    OBVIOUS
  <2>3. RawTokens(c, win, n)
          = [cache |-> [hit EXCEPT ![win.body] = hit[win.body]],
             tokens |-> IF raw.ok THEN raw.tokens ELSE Failed]
    BY <1>3, <1>7, <2>1, <2>2 DEF RawTokens, AfterCloning
  <2>4. [hit EXCEPT ![win.body] = hit[win.body]] \in Caches
    BY <1>1, <1>2, <1>4 DEF Caches
  <2>5. QED  BY <1>7, <2>2, <2>3, <2>4
<1>8. QED  BY <1>6, <1>7

LEMMA NoCacheTyped == NoCache \in Caches
BY DEF NoCache, Caches

(* An article is what a new decoder makes of it.                           *)
LEMMA AlwaysFresh ==
  ASSUME akc \in AkcFiles, NEW k \in Keys, NEW win, win = akc.windows[k], NEW c \in Caches
  PROVE  DecodeWindow(c, win).cache \in Caches /\ DecodeWindow(c, win).xml = Fresh(k)
<1>1. PICK n \in Nat : n = win.offset + win.count
  BY WindowFacts
<1>2. RawTokens(c, win, n).cache \in Caches
  BY <1>1, RawFacts
<1>3. RawTokens(c, win, n).tokens = RawTokens(NoCache, win, n).tokens
  <2>1. PICK t : t = IF BodyOf(win).good /\ DecodeTokens(BodyOf(win), 0, n).ok
                     THEN DecodeTokens(BodyOf(win), 0, n).tokens ELSE Failed
    OBVIOUS
  <2>2. RawTokens(c, win, n).tokens = t
    BY <2>1, RawFacts
  <2>3. RawTokens(NoCache, win, n).tokens = t
    BY <2>1, NoCacheTyped, RawFacts
  <2>4. QED  BY <2>2, <2>3
<1>4. QED  BY <1>1, <1>2, <1>3 DEF DecodeWindow, Fresh

-----------------------------------------------------------------------------
(* The slice of a longer list that begins where the shorter one has p      *)
(* tokens left.                                                            *)
Ends(short, long, o, p, c) ==
  /\ short \in Seq(Symbols) /\ long \in Seq(Symbols) /\ Grows(short, long)
  /\ o \in Nat /\ p \in Nat /\ c \in Nat
  /\ Len(short) = o + p /\ p <= c /\ o + c <= Len(long)

Piece(list, o, c) == SubSeq(list, o + 1, o + c)

LEMMA SlicesAgree ==
  ASSUME NEW short, NEW long, NEW o, NEW p, NEW c, Ends(short, long, o, p, c)
  PROVE  /\ Piece(long, o, c) \in Seq(Symbols) /\ Len(Piece(long, o, c)) = c
         /\ \A i \in 1..p : Piece(long, o, c)[i] = short[o + i]
<1>9. PICK slice : slice = Piece(long, o, c) /\ slice = SubSeq(long, o + 1, o + c)
  BY DEF Piece
<1>0. /\ short \in Seq(Symbols) /\ long \in Seq(Symbols) /\ Grows(short, long)
      /\ o \in Nat /\ p \in Nat /\ c \in Nat
      /\ Len(short) = o + p /\ p <= c /\ o + c <= Len(long)
  BY DEF Ends
<1>1. Len(long) \in Nat
  BY <1>0, LenProperties
<1>2. \A i \in (o + 1)..(o + c) : long[i] \in Symbols
  <2>1. \A i \in (o + 1)..(o + c) : i \in 1..Len(long)
    BY <1>0, <1>1
  <2>2. QED  BY <1>0, <2>1, ElementOfSeq
<1>3. o + 1 \in Int /\ o + c \in Int
  BY <1>0
<1>4. /\ slice \in Seq(Symbols)
      /\ Len(slice) = IF o + 1 <= o + c THEN (o + c) - (o + 1) + 1 ELSE 0
      /\ \A i \in 1..((o + c) - (o + 1) + 1) : slice[i] = long[(o + 1) + i - 1]
  BY <1>2, <1>3, <1>9, SubSeqProperties
<1>5. Len(slice) = c
  BY <1>0, <1>4
<1>6. ASSUME NEW i \in 1..p PROVE slice[i] = short[o + i]
  <2>1. PICK j \in Nat : j = o + i
    BY <1>0
  <2>2. i \in 1..((o + c) - (o + 1) + 1) /\ (o + 1) + i - 1 = j /\ j \in 1..Len(short)
    BY <1>0, <2>1
  <2>3. slice[i] = long[j]
    BY <1>4, <2>2
  <2>4. long[j] = short[j]
    BY <1>0, <2>2 DEF Grows
  <2>5. QED  BY <2>1, <2>3, <2>4
<1>7. QED  BY <1>4, <1>5, <1>6, <1>9

LEMMA FirstTokensFacts ==
  ASSUME NEW xml \in Seq(Symbols), NEW n \in Nat, NEW first, first = FirstTokens(xml, n)
  PROVE  /\ first \in Seq(Symbols) /\ Len(first) = (IF n < Len(xml) THEN n ELSE Len(xml))
         /\ Grows(first, xml)
<1>1. PICK q \in Nat : q = (IF n < Len(xml) THEN n ELSE Len(xml)) /\ q <= Len(xml)
  BY LenProperties
<1>2. Len(xml) \in Nat
  BY LenProperties
<1>3. \A i \in 1..q : xml[i] \in Symbols
  <2>1. \A i \in 1..q : i \in 1..Len(xml)
    BY <1>1, <1>2
  <2>2. QED  BY <2>1, ElementOfSeq
<1>4. first = SubSeq(xml, 1, q)
  BY <1>1 DEF FirstTokens
<1>5. /\ first \in Seq(Symbols) /\ Len(first) = IF 1 <= q THEN q - 1 + 1 ELSE 0
      /\ \A i \in 1..(q - 1 + 1) : first[i] = xml[1 + i - 1]
  BY <1>3, <1>4, SubSeqProperties
<1>6. Len(first) = q
  BY <1>5
<1>7. \A i \in 1..q : i \in 1..(q - 1 + 1) /\ 1 + i - 1 = i
  OBVIOUS
<1>8. \A i \in 1..q : xml[i] = first[i]
  BY <1>5, <1>7
<1>9. QED  BY <1>1, <1>5, <1>6, <1>8 DEF Grows

(* The first refid of the beginning of an article is that of the article.  *)
LEMMA FirstRefid ==
  ASSUME NEW head \in Seq(Symbols), NEW article \in Seq(Symbols), Grows(head, article),
         ExtractRefid(head) # NoRefid
  PROVE  ExtractRefid(article) = ExtractRefid(head)
<1>1. PICK n \in Nat : n = HeadTokens
  BY DecoderAssumption
<1>2. PICK q : q = (IF n < Len(head) THEN n ELSE Len(head))
  OBVIOUS
<1>3. PICK r : r = (IF n < Len(article) THEN n ELSE Len(article))
  OBVIOUS
<1>4. Len(head) \in Nat /\ Len(article) \in Nat /\ Len(head) <= Len(article)
      /\ \A i \in 1..Len(head) : article[i] = head[i]
  BY LenProperties DEF Grows
<1>5. q \in Nat /\ r \in Nat /\ q <= r /\ q <= Len(head)
  BY <1>2, <1>3, <1>4
<1>6. DOMAIN FirstTokens(head, n) = 1..q /\ DOMAIN FirstTokens(article, n) = 1..r
  BY <1>2, <1>3, FirstTokensFacts, LenProperties
<1>7. PICK A : A = {i \in 1..q : CarriesRefid(head[i])}
  OBVIOUS
<1>8. PICK B : B = {i \in 1..r : CarriesRefid(article[i])}
  OBVIOUS
<1>9. ExtractRefid(head) = IF A = {} THEN NoRefid ELSE head[CHOOSE i \in A : \A j \in A : i <= j][2]
  BY <1>1, <1>6, <1>7 DEF ExtractRefid
<1>10. ExtractRefid(article) = IF B = {} THEN NoRefid ELSE article[CHOOSE i \in B : \A j \in B : i <= j][2]
  BY <1>1, <1>6, <1>8 DEF ExtractRefid
<1>11. \A i \in 1..q : i \in 1..r /\ (i \in A <=> i \in B) /\ article[i] = head[i]
  BY <1>4, <1>5, <1>7, <1>8
<1>12. A # {} /\ A \in SUBSET Nat /\ \A i \in A : i \in 1..q
  BY <1>7, <1>9
<1>13. PICK a : a = CHOOSE i \in A : \A j \in A : i <= j
  OBVIOUS
<1>14. a \in A /\ \A j \in A : a <= j
  <2>1. \E x \in A : \A y \in A : x <= y
    BY <1>12, LeastExists
  <2>2. QED  BY <1>13, <2>1
<1>15. PICK b : b = CHOOSE i \in B : \A j \in B : i <= j
  OBVIOUS
<1>16. a \in B /\ B \in SUBSET Nat
  BY <1>8, <1>11, <1>12, <1>14
<1>17. b \in B /\ \A j \in B : b <= j
  <2>1. \E x \in B : \A y \in B : x <= y
    BY <1>16, LeastExists
  <2>2. QED  BY <1>15, <2>1
<1>18. b = a
  <2>1. b <= a /\ b \in Nat /\ a \in 1..q
    BY <1>12, <1>14, <1>16, <1>17
  <2>2. b \in 1..q
    BY <1>5, <1>8, <1>17, <2>1
  <2>3. b \in A
    BY <1>11, <1>17, <2>2
  <2>4. a <= b
    BY <1>14, <2>3
  <2>5. QED  BY <2>1, <2>4
<1>19. ExtractRefid(head) = head[a][2] /\ ExtractRefid(article) = article[a][2]
  BY <1>9, <1>10, <1>12, <1>13, <1>15, <1>16, <1>18
<1>20. article[a] = head[a]
  BY <1>11, <1>12, <1>14
<1>21. QED  BY <1>19, <1>20

-----------------------------------------------------------------------------
(* A row says what its article says, though it was made of part of it.     *)
RowTrue(row) ==
  /\ row.key \in Keys /\ row.win = akc.windows[row.key]
  /\ row.refid # NoRefid /\ Fresh(row.key) # Failed => ExtractRefid(Fresh(row.key)) = row.refid

LEMMA RowIsArticle ==
  ASSUME akc \in AkcFiles, NEW k \in Keys, NEW win, win = akc.windows[k],
         NEW G \in Nat, G >= win.offset + Prefix(win),
         NEW raw, raw = DecodeTokens(BodyOf(win), 0, G), raw.ok
  PROVE  RowTrue(RowOf(k, raw.tokens)) /\ RowOf(k, raw.tokens).key = k
<1>1. PICK xml : xml = Expand(FirstTokens(Slice(raw.tokens, win), HeadTokens))
  OBVIOUS
<1>2. PICK row : row = RowOf(k, raw.tokens)
  OBVIOUS
<1>3. row = [key |-> k, win |-> win, ok |-> xml # Failed,
             refid |-> IF xml = Failed \/ ExtractRefid(xml) = 0 THEN NoRefid ELSE ExtractRefid(xml)]
  BY <1>1, <1>2 DEF RowOf
<1>4. row.key = k /\ row.win = win
  BY <1>3
<1>5. ASSUME row.refid # NoRefid, Fresh(k) # Failed PROVE ExtractRefid(Fresh(k)) = row.refid
  <2>1. xml # Failed /\ row.refid = ExtractRefid(xml) /\ ExtractRefid(xml) # NoRefid
    BY <1>3, <1>5
  <2>2. PICK b \in Bodies : b = BodyOf(win)
    BY WindowFacts
  <2>3. PICK o \in Nat, c \in Nat : o = win.offset /\ c = win.count
    BY WindowFacts
  <2>4. PICK p \in Nat : p = Prefix(win) /\ p <= c
    BY <2>3, WindowFacts
  <2>5. PICK m \in Nat : m = o + c
    OBVIOUS
  <2>6. PICK n \in Nat : n = o + p /\ n <= m /\ n <= G
    BY <2>3, <2>4, <2>5
  <2>7. PICK full : full = DecodeTokens(b, 0, m)
    OBVIOUS
  <2>8. PICK article : article = SubSeq(full.tokens, o + 1, o + c)
    OBVIOUS
  <2>9. full.ok /\ Fresh(k) = article
    <3>1. RawTokens(NoCache, win, m).tokens
            = IF b.good /\ full.ok THEN full.tokens ELSE Failed
      BY <2>2, <2>5, <2>7, NoCacheTyped, RawFacts
    <3>2. Fresh(k) = IF RawTokens(NoCache, win, m).tokens = Failed THEN Failed
                     ELSE Expand(SubSeq(RawTokens(NoCache, win, m).tokens, o + 1, o + c))
      BY <2>3, <2>5 DEF Fresh, DecodeWindow
    <3>3. full.ok /\ Fresh(k) = Expand(article)
      BY <1>5, <2>8, <3>1, <3>2
    <3>4. QED  BY <1>5, <3>3 DEF Expand
  <2>10. PICK short : short = DecodeTokens(b, 0, n)
    OBVIOUS
  <2>11. /\ short.tokens \in Seq(Symbols) /\ raw.tokens \in Seq(Symbols)
         /\ Len(short.tokens) = n /\ Len(raw.tokens) = G /\ Grows(short.tokens, raw.tokens)
    <3>1. raw = DecodeTokens(b, 0, G)
      BY <2>2
    <3>2. b \in Bodies /\ n \in Nat /\ G \in Nat /\ n <= G
      BY <2>6
    <3>3. QED  BY ONLY <2>10, <3>1, <3>2, raw.ok, DecodePrefix
  <2>12. /\ full.tokens \in Seq(Symbols) /\ Len(full.tokens) = m
         /\ Grows(short.tokens, full.tokens)
    BY <2>6, <2>7, <2>9, <2>10, DecodePrefix
  <2>13. PICK slice : slice = SubSeq(raw.tokens, o + 1, o + p)
    OBVIOUS
  <2>14. /\ slice \in Seq(Symbols) /\ Len(slice) = p
         /\ \A i \in 1..p : slice[i] = short.tokens[o + i]
    <3>1. PICK s : s = short.tokens
      OBVIOUS
    <3>2. PICK t : t = raw.tokens
      OBVIOUS
    <3>3. Ends(s, t, o, p, p)
      BY <2>6, <2>11, <3>1, <3>2 DEF Ends
    <3>4. slice = Piece(t, o, p)
      BY <2>13, <3>2 DEF Piece
    <3>5. QED  BY <3>1, <3>3, <3>4, SlicesAgree
  <2>15. /\ article \in Seq(Symbols) /\ Len(article) = c
         /\ \A i \in 1..p : article[i] = short.tokens[o + i]
    <3>1. PICK s : s = short.tokens
      OBVIOUS
    <3>2. PICK t : t = full.tokens
      OBVIOUS
    <3>3. Ends(s, t, o, p, c)
      BY <2>4, <2>5, <2>6, <2>11, <2>12, <3>1, <3>2 DEF Ends
    <3>4. article = Piece(t, o, c)
      BY <2>8, <3>2 DEF Piece
    <3>5. QED  BY <3>1, <3>3, <3>4, SlicesAgree
  <2>16. Grows(slice, article)
    BY <2>4, <2>14, <2>15 DEF Grows
  <2>17. PICK head : head = FirstTokens(slice, HeadTokens)
    OBVIOUS
  <2>18. head \in Seq(Symbols) /\ Grows(head, slice)
    BY <2>14, <2>17, DecoderAssumption, FirstTokensFacts
  <2>19. xml = head
    <3>1. xml = Expand(head)
      BY <1>1, <2>3, <2>4, <2>13, <2>17 DEF Slice
    <3>2. QED  BY <2>1, <3>1 DEF Expand
  <2>20. Grows(head, article)
    BY <2>14, <2>15, <2>16, <2>18, GrowsTransitive
  <2>21. ExtractRefid(article) = ExtractRefid(head)
    BY <2>1, <2>15, <2>18, <2>19, <2>20, FirstRefid
  <2>22. QED  BY <2>1, <2>9, <2>19, <2>21
<1>6. QED  BY <1>2, <1>4, <1>5 DEF RowTrue

-----------------------------------------------------------------------------
(* write_map_rows, body by body.                                           *)
TrueRows ==
  {row \in {RowOf(p[1], DecodeTokens(BodyOf(akc.windows[p[1]]), 0, p[2]).tokens) : p \in Keys \X Nat} :
     RowTrue(row)}
MapStates == [ok : BOOLEAN, cache : Caches, rows : SUBSET TrueRows]
NewRows(keys, body, raw) == {RowOf(k, raw) : k \in KeysOf(body, keys)}
MapTurn(keys, n, s) ==
  IF IsFirst(n - 1, keys) THEN MapGroup(s, akc.windows[n - 1].body, keys) ELSE s
NothingMapped == [ok |-> TRUE, cache |-> NoCache, rows |-> {}]

LEMMA GroupCountFacts ==
  ASSUME akc \in AkcFiles, NEW group \in SUBSET Keys, group # {}, NEW N \in Nat, \A k \in group : k < N
  PROVE  /\ GroupCount(group) \in Nat
         /\ \A k \in group : GroupCount(group) >= akc.windows[k].offset + Prefix(akc.windows[k])
<1> DEFINE End(k) == akc.windows[k].offset + Prefix(akc.windows[k])
           T == {End(k) : k \in group}
<1>1. ASSUME NEW k \in group PROVE End(k) \in Nat
  <2>1. k \in Keys
    OBVIOUS
  <2>2. QED  BY <2>1, WindowFacts
<1>2. PICK f : f = [i \in 0..N |-> IF i \in group THEN End(i) ELSE 0]
  OBVIOUS
<1>3. f \in [0..N -> Nat]
  <2> HIDE DEF End
  <2>1. QED  BY <1>1, <1>2
<1>4. PICK top \in Nat : \A i \in 0..N : f[i] <= top
  BY <1>3, BoundExists
<1>5. \A k \in group : k \in 0..N
  BY DecoderAssumption
<1>6. \A k \in group : End(k) <= top
  <2> HIDE DEF End
  <2>1. QED  BY <1>2, <1>4, <1>5
<1>7. T \in SUBSET Nat /\ T # {} /\ \A y \in T : y <= top
  <2> HIDE DEF End
  <2>1. QED  BY <1>1, <1>6
<1>8. \E x \in T : \A y \in T : x >= y
  <2> HIDE DEF T
  <2>1. QED  BY <1>7, GreatestExists
<1>9. PICK c : c = CHOOSE e \in T : \A y \in T : y <= e
  OBVIOUS
<1>10. c \in T /\ \A y \in T : y <= c
  <2>1. \E x \in T : \A y \in T : y <= x
    <3> HIDE DEF T
    <3>1. PICK x \in T : \A y \in T : x >= y
      BY <1>8
    <3>2. \A y \in T : y <= x
      BY <1>7, <3>1
    <3>3. QED  BY <3>2
  <2> HIDE DEF T
  <2>2. QED  BY <1>9, <2>1
<1>11. GroupCount(group) = c
  BY <1>9 DEF GroupCount
<1>12. c \in Nat /\ \A k \in group : c >= End(k)
  <2>1. \A k \in group : End(k) \in T
    OBVIOUS
  <2> HIDE DEF End, T
  <2>2. \A k \in group : End(k) <= c /\ End(k) \in Nat /\ c \in Nat
    BY <1>1, <1>7, <1>10, <2>1
  <2>3. c \in Nat
    BY <1>7, <1>10
  <2>4. QED  BY <2>2, <2>3
<1>13. QED  BY <1>11, <1>12

LEMMA RowKey ==
  ASSUME NEW k, NEW raw PROVE RowOf(k, raw).key = k
BY DEF RowOf

LEMMA MapGroupFacts ==
  ASSUME akc \in AkcFiles, NEW keys \in SUBSET Keys, NEW N \in Nat, \A k \in keys : k < N,
         NEW s \in MapStates, NEW first \in keys, NEW body, body = akc.windows[first].body
  PROVE  /\ MapGroup(s, body, keys) \in MapStates
         /\ \/ MapGroup(s, body, keys).rows = s.rows
            \/ \E raw : MapGroup(s, body, keys).rows = s.rows \cup NewRows(keys, body, raw)
<1>1. PICK group : group = KeysOf(body, keys)
  OBVIOUS
<1>2. first \in group /\ group \in SUBSET Keys /\ \A k \in group : k < N /\ akc.windows[k].body = body
  BY <1>1 DEF KeysOf
<1>3. PICK lead : lead = CHOOSE k \in group : TRUE
  OBVIOUS
<1>4. lead \in group /\ lead \in Keys /\ akc.windows[lead].body = body
  BY <1>2, <1>3
<1>5. PICK G \in Nat : /\ G = GroupCount(group)
                      /\ \A k \in group : G >= akc.windows[k].offset + Prefix(akc.windows[k])
  BY <1>2, GroupCountFacts
<1>6. PICK raw : raw = RawTokens(s.cache, akc.windows[lead], G)
  OBVIOUS
<1>7. PICK b : b = akc.bodies[body]
  OBVIOUS
<1>8. s.cache \in Caches /\ s.rows \in SUBSET TrueRows /\ s.ok \in BOOLEAN
      /\ s = [ok |-> s.ok, cache |-> s.cache, rows |-> s.rows]
  BY DEF MapStates
<1>9. /\ raw.cache \in Caches
      /\ raw.tokens = IF b.good /\ DecodeTokens(b, 0, G).ok THEN DecodeTokens(b, 0, G).tokens ELSE Failed
  <2>1. BodyOf(akc.windows[lead]) = b
    BY <1>4, <1>7 DEF BodyOf
  <2>2. PICK w : w = akc.windows[lead]
    OBVIOUS
  <2>3. /\ RawTokens(s.cache, w, G).cache \in Caches
        /\ RawTokens(s.cache, w, G).tokens
              = IF BodyOf(w).good /\ DecodeTokens(BodyOf(w), 0, G).ok
                THEN DecodeTokens(BodyOf(w), 0, G).tokens ELSE Failed
    BY <1>4, <1>8, <2>2, RawFacts
  <2>4. QED  BY <1>6, <2>1, <2>2, <2>3
<1>10. PICK new : new = NewRows(keys, body, raw.tokens)
  OBVIOUS
<1>11. CASE ~s.ok
  BY <1>11 DEF MapGroup
<1>12. CASE s.ok /\ raw.tokens = Failed
  <2>1. MapGroup(s, body, keys) = [ok |-> FALSE, cache |-> raw.cache, rows |-> s.rows]
    BY <1>1, <1>3, <1>5, <1>6, <1>8, <1>12 DEF MapGroup
  <2>2. QED  BY <1>8, <1>9, <2>1 DEF MapStates
<1>13. CASE s.ok /\ raw.tokens # Failed
  <2>1. MapGroup(s, body, keys) = [ok |-> \A row \in new : row.ok, cache |-> raw.cache, rows |-> s.rows \cup new]
    BY <1>1, <1>3, <1>5, <1>6, <1>8, <1>10, <1>13 DEF MapGroup, NewRows
  <2>2. PICK d : d = DecodeTokens(b, 0, G)
    OBVIOUS
  <2>3. d.ok /\ raw.tokens = d.tokens
    BY <1>9, <1>13, <2>2
  <2>4. ASSUME NEW k \in group PROVE RowOf(k, d.tokens) \in TrueRows
    <3>1. PICK w : w = akc.windows[k]
      OBVIOUS
    <3>2. k \in Keys /\ BodyOf(w) = b /\ G >= w.offset + Prefix(w)
      BY <1>2, <1>5, <1>7, <3>1 DEF BodyOf
    <3>3. RowTrue(RowOf(k, d.tokens))
      BY <2>2, <2>3, <3>1, <3>2, RowIsArticle
    <3>4. PICK p : p = <<k, G>>
      OBVIOUS
    <3>5. p \in Keys \X Nat /\ p[1] = k /\ p[2] = G
      BY <3>2, <3>4
    <3>6. RowOf(k, d.tokens) = RowOf(p[1], DecodeTokens(BodyOf(akc.windows[p[1]]), 0, p[2]).tokens)
      BY <2>2, <3>1, <3>2, <3>5
    <3>7. QED  BY <3>3, <3>5, <3>6 DEF TrueRows
  <2>5. new \in SUBSET TrueRows
    BY <1>1, <1>10, <2>3, <2>4 DEF NewRows
  <2>6. MapGroup(s, body, keys) \in MapStates
    BY <1>8, <1>9, <2>1, <2>5 DEF MapStates
  <2>7. MapGroup(s, body, keys).rows = s.rows \cup NewRows(keys, body, raw.tokens)
    BY <1>10, <2>1
  <2>8. QED  BY <2>6, <2>7
<1>14. QED  BY <1>8, <1>11, <1>12, <1>13

LEMMA MapTable ==
  ASSUME akc \in AkcFiles, NEW keys \in SUBSET Keys, \A k \in keys : k < Cardinality(Keys)
  PROVE  \E g : /\ WriteMapRows(NoCache, keys) = g[Cardinality(Keys)]
                /\ g[0] = NothingMapped
                /\ \A n \in 1..Cardinality(Keys) :
                     g[n] = MapTurn(keys, n, g[n - 1]) /\ (g[n - 1] \in MapStates => g[n] \in MapStates)
<1>1. PICK N \in Nat : N = Cardinality(Keys)
  BY DecoderAssumption, FS_CardinalityType
<1>2. PICK S : S = MapStates
  OBVIOUS
<1>3. PICK a : a = NothingMapped
  OBVIOUS
<1>4. a \in S
  BY <1>2, <1>3, NoCacheTyped DEF NothingMapped, MapStates
<1>5. ASSUME NEW n \in 1..N, NEW s \in S PROVE MapTurn(keys, n, s) \in S
  <2>1. CASE IsFirst(n - 1, keys)
    <3>1. PICK first : first = n - 1
      OBVIOUS
    <3>2. first \in keys
      BY <2>1, <3>1 DEF IsFirst
    <3>3. MapTurn(keys, n, s) = MapGroup(s, akc.windows[first].body, keys)
      BY <2>1, <3>1 DEF MapTurn
    <3>4. PICK body : body = akc.windows[first].body
      OBVIOUS
    <3>5. s \in MapStates /\ \A k \in keys : k < N
      BY <1>1, <1>2
    <3>6. MapGroup(s, body, keys) \in MapStates
      BY ONLY akc \in AkcFiles, keys \in SUBSET Keys, N \in Nat, <3>2, <3>4, <3>5, MapGroupFacts
    <3>7. QED  BY <1>2, <3>3, <3>4, <3>6
  <2>2. CASE ~IsFirst(n - 1, keys)
    BY <2>2 DEF MapTurn
  <2>3. QED  BY <2>1, <2>2
<1>6. PICK step : step = [n \in 1..N |-> [s \in S |-> MapTurn(keys, n, s)]]
  OBVIOUS
<1>7. Steps(step, N, S)
  BY <1>5, <1>6 DEF Steps
<1>8. PICK f : IsTable(f, N, S, a, step)
  BY <1>4, <1>7, IterationExists
<1> DEFINE After(g, n) == IF n = 0 THEN NothingMapped ELSE MapTurn(keys, n, g[n - 1])
<1>9. ASSUME NEW n \in 0..N PROVE f[n] = After(f, n)
  <2>1. CASE n = 0
    BY <1>3, <1>8, <2>1 DEF IsTable
  <2>2. CASE n # 0
    <3>1. n \in 1..N /\ n - 1 \in 0..N
      BY <2>2
    <3>2. f[n - 1] \in S /\ f[n] = step[n][f[n - 1]]
      BY <1>8, <3>1 DEF IsTable
    <3>3. QED  BY <1>6, <2>2, <3>1, <3>2
  <2>3. QED  BY <2>1, <2>2
<1>10. f = [n \in 0..N |-> After(f, n)]
  <2>1. f = [n \in 0..N |-> f[n]]
    BY <1>8 DEF IsTable
  <2> HIDE DEF After
  <2>2. QED  BY <1>9, <2>1
<1>11. PICK g : g = CHOOSE h : h = [n \in 0..N |-> After(h, n)]
  OBVIOUS
<1>12. g = [n \in 0..N |-> After(g, n)]
  <2> HIDE DEF After
  <2>1. QED  BY <1>10, <1>11
<1>13. WriteMapRows(NoCache, keys) = g[N]
  BY <1>1, <1>11 DEF WriteMapRows, MapTurn, NothingMapped
<1>14. \A n \in 0..N : g[n] = After(g, n)
  <2> HIDE DEF After
  <2>1. QED  BY <1>12
<1>15. g[0] = NothingMapped /\ \A n \in 1..N : g[n] = MapTurn(keys, n, g[n - 1])
  <2>1. 0 \in 0..N /\ \A n \in 1..N : n \in 0..N /\ n # 0
    OBVIOUS
  <2>2. QED  BY <1>14, <2>1
<1>16. QED  BY <1>1, <1>2, <1>5, <1>13, <1>15

(* Every key has one row: the rows of a body are made at its first key.    *)
RowsInv(set, keys) ==
  /\ \A row \in set : RowTrue(row) /\ row.key \in keys
  /\ \A row, other \in set : row.key = other.key => row = other

BodiesMet(set, keys, n) ==
  \A row \in set : \E j \in keys : j < n /\ akc.windows[j].body = akc.windows[row.key].body

LEMMA MapRowsFacts ==
  ASSUME akc \in AkcFiles, NEW keys \in SUBSET Keys, \A k \in keys : k < Cardinality(Keys)
  PROVE  RowsInv(WriteMapRows(NoCache, keys).rows, keys)
<1>1. PICK N \in Nat : N = Cardinality(Keys)
  BY DecoderAssumption, FS_CardinalityType
<1>2. PICK g : /\ WriteMapRows(NoCache, keys) = g[N]
              /\ g[0] = NothingMapped
              /\ \A n \in 1..N : g[n] = MapTurn(keys, n, g[n - 1]) /\ (g[n - 1] \in MapStates => g[n] \in MapStates)
  BY <1>1, MapTable
<1> DEFINE P == {n \in 0..N : g[n] \in MapStates /\ RowsInv(g[n].rows, keys) /\ BodiesMet(g[n].rows, keys, n)}
<1>3. 0 \in P
  <2>1. PICK s : s = g[0]
    OBVIOUS
  <2>2. s \in MapStates /\ s.rows = {}
    BY <1>2, <2>1, NoCacheTyped DEF NothingMapped, MapStates
  <2>3. RowsInv(s.rows, keys) /\ BodiesMet(s.rows, keys, 0)
    BY <2>2 DEF RowsInv, BodiesMet
  <2>4. 0 \in 0..N
    OBVIOUS
  <2>5. QED  BY <2>1, <2>2, <2>3, <2>4
<1>4. ASSUME NEW n \in 1..N, n - 1 \in P PROVE n \in P
  <2>0. SUFFICES g[n] \in MapStates /\ RowsInv(g[n].rows, keys) /\ BodiesMet(g[n].rows, keys, n)
    OBVIOUS
  <2> HIDE DEF P
  <2>1. PICK s : s = g[n - 1]
    OBVIOUS
  <2>2. PICK t : t = g[n]
    OBVIOUS
  <2>3. PICK first : first = n - 1
    OBVIOUS
  <2>4. s \in MapStates /\ RowsInv(s.rows, keys) /\ BodiesMet(s.rows, keys, first)
    BY <1>4, <2>1, <2>3 DEF P
  <2>5. t \in MapStates /\ t = MapTurn(keys, n, s)
    BY <1>2, <1>4, <2>1, <2>2, <2>4
  <2>6. \A k \in keys : k < first => k < n
    BY <2>3, DecoderAssumption
  <2>7. CASE t.rows = s.rows
    <3>1. BodiesMet(t.rows, keys, n)
      BY <2>4, <2>6, <2>7 DEF BodiesMet
    <3>2. QED  BY <2>2, <2>4, <2>5, <2>7, <3>1
  <2>8. CASE t.rows # s.rows
    <3>1. IsFirst(first, keys) /\ t = MapGroup(s, akc.windows[first].body, keys)
      BY <2>3, <2>5, <2>8 DEF MapTurn
    <3>2. first \in keys /\ first < n /\ first \in Nat
      BY <2>3, <3>1 DEF IsFirst
    <3>3. PICK body : body = akc.windows[first].body
      OBVIOUS
    <3>4. PICK raw : t.rows = s.rows \cup NewRows(keys, body, raw)
      <4>1. s \in MapStates /\ \A k \in keys : k < N
        BY <1>1, <2>4
      <4>2. PICK u : u = MapGroup(s, body, keys)
        OBVIOUS
      <4>3. u.rows = s.rows \/ \E raw : u.rows = s.rows \cup NewRows(keys, body, raw)
        BY ONLY akc \in AkcFiles, keys \in SUBSET Keys, N \in Nat, <3>2, <3>3, <4>1, <4>2, MapGroupFacts
      <4>4. t = u
        BY <3>1, <3>3, <4>2
      <4>5. QED  BY <2>8, <4>3, <4>4
    <3>5. PICK new : new = NewRows(keys, body, raw)
      OBVIOUS
    <3>6. \A row \in new : /\ row.key \in keys /\ akc.windows[row.key].body = body
                           /\ row = RowOf(row.key, raw)
      BY <3>5, RowKey DEF NewRows, KeysOf
    <3>7. \A row \in t.rows : RowTrue(row)
      BY <2>5 DEF MapStates, TrueRows
    <3>8. \A row \in s.rows : row.key \in keys
      BY <2>4 DEF RowsInv
    <3>9. \A row \in s.rows : akc.windows[row.key].body # body
      <4>1. SUFFICES ASSUME NEW row \in s.rows, akc.windows[row.key].body = body PROVE FALSE
        OBVIOUS
      <4>2. PICK j \in keys : j < first /\ akc.windows[j].body = body
        BY <2>4, <4>1 DEF BodiesMet
      <4>3. first <= j
        BY <3>1, <3>3, <4>2 DEF IsFirst, KeysOf
      <4>4. j \in Nat
        BY DecoderAssumption
      <4>5. QED  BY <3>2, <4>2, <4>3, <4>4
    <3>10. ASSUME NEW row \in t.rows, NEW other \in t.rows, row.key = other.key PROVE row = other
      <4>1. (row \in s.rows \/ row \in new) /\ (other \in s.rows \/ other \in new)
        BY <3>4, <3>5
      <4>2. CASE row \in s.rows /\ other \in s.rows
        BY <2>4, <3>10, <4>2 DEF RowsInv
      <4>3. CASE row \in new /\ other \in new
        BY <3>6, <3>10, <4>3
      <4>4. ~(row \in s.rows /\ other \in new) /\ ~(row \in new /\ other \in s.rows)
        BY <3>6, <3>9, <3>10
      <4>5. QED  BY <4>1, <4>2, <4>3, <4>4
    <3>11. RowsInv(t.rows, keys)
      BY <3>4, <3>5, <3>6, <3>7, <3>8, <3>10 DEF RowsInv
    <3>12. BodiesMet(t.rows, keys, n)
      <4>1. SUFFICES ASSUME NEW row \in t.rows
                     PROVE  \E j \in keys : j < n /\ akc.windows[j].body = akc.windows[row.key].body
        BY DEF BodiesMet
      <4>2. CASE row \in s.rows
        <5>1. PICK j \in keys : j < first /\ akc.windows[j].body = akc.windows[row.key].body
          BY <2>4, <4>2 DEF BodiesMet
        <5>2. QED  BY <2>6, <5>1
      <4>3. CASE row \in new
        BY <3>2, <3>3, <3>6, <4>3
      <4>4. QED  BY <3>4, <3>5, <4>2, <4>3
    <3>13. QED  BY <2>2, <2>5, <3>11, <3>12
  <2>9. QED  BY <2>7, <2>8
<1>5. N \in P
  <2>1. N \in 0..N
    OBVIOUS
  <2> HIDE DEF P
  <2>2. QED  BY <1>3, <1>4, <2>1, BoundedInduction
<1>6. QED  BY <1>2, <1>5

-----------------------------------------------------------------------------
(* decode-portable, target by target.                                      *)
PortableSets ==
  UNION {[D -> {Fresh(k) : k \in Keys}] : D \in SUBSET {row.refid : row \in rows}}
PortableStates == [ok : BOOLEAN, cache : Caches, files : PortableSets]
PortableTurn(n, s) ==
  IF Targets(n - 1) = {} THEN s ELSE PortableStep(s, CHOOSE row \in Targets(n - 1) : TRUE)
NothingWritten == [ok |-> TRUE, cache |-> NoCache, files |-> EmptyFiles]

LEMMA PortableStepFacts ==
  ASSUME akc \in AkcFiles, NEW s \in PortableStates, NEW row \in rows, RowTrue(row)
  PROVE  /\ PortableStep(s, row) \in PortableStates
         /\ PortableStep(s, row).ok =>
              /\ s.ok
              /\ DOMAIN PortableStep(s, row).files = DOMAIN s.files \cup {row.refid}
              /\ \A r \in DOMAIN s.files \cup {row.refid} :
                   PortableStep(s, row).files[r] = IF r = row.refid THEN Fresh(row.key) ELSE s.files[r]
<1>1. s.ok \in BOOLEAN /\ s.cache \in Caches /\ s.files \in PortableSets
      /\ s = [ok |-> s.ok, cache |-> s.cache, files |-> s.files]
  BY DEF PortableStates
<1>2. PICK d : d = DecodeWindow(s.cache, row.win)
  OBVIOUS
<1>3. row.key \in Keys /\ d.cache \in Caches /\ d.xml = Fresh(row.key)
  <2>1. PICK k \in Keys : k = row.key /\ row.win = akc.windows[k]
    BY DEF RowTrue
  <2>2. QED  BY <1>1, <1>2, <2>1, AlwaysFresh
<1>4. CASE ~s.ok
  <2>1. PortableStep(s, row) = s
    BY <1>4 DEF PortableStep
  <2>2. QED  BY <1>4, <2>1
<1>5. CASE s.ok /\ d.xml = Failed
  <2>1. PortableStep(s, row) = [ok |-> FALSE, cache |-> d.cache, files |-> s.files]
    BY <1>1, <1>2, <1>5 DEF PortableStep
  <2>2. QED  BY <1>1, <1>3, <2>1 DEF PortableStates
<1>6. CASE s.ok /\ d.xml # Failed
  <2>1. PICK X : X = {Fresh(k) : k \in Keys}
    OBVIOUS
  <2>2. PICK R : R = {other.refid : other \in rows}
    OBVIOUS
  <2>3. PICK D \in SUBSET R : s.files \in [D -> X]
    BY <1>1, <2>1, <2>2 DEF PortableSets
  <2>4. PICK E : E = D \cup {row.refid}
    OBVIOUS
  <2>5. PICK h : h = [r \in E |-> IF r = row.refid THEN d.xml ELSE s.files[r]]
    OBVIOUS
  <2>6. h \in [E -> X]
    BY <1>3, <2>1, <2>3, <2>4, <2>5
  <2>7. E \in SUBSET R
    BY <2>2, <2>4
  <2>8. h \in PortableSets
    BY <2>1, <2>2, <2>6, <2>7 DEF PortableSets
  <2>9. PortableStep(s, row) = [ok |-> TRUE, cache |-> d.cache, files |-> h]
    BY <1>2, <1>6, <2>3, <2>4, <2>5 DEF PortableStep
  <2>10. PortableStep(s, row) \in PortableStates
    BY <1>3, <2>8, <2>9 DEF PortableStates
  <2>11. DOMAIN s.files \cup {row.refid} = E
    BY <2>3, <2>4
  <2>12. QED  BY <1>3, <1>6, <2>5, <2>9, <2>10, <2>11
<1>7. QED  BY <1>1, <1>4, <1>5, <1>6


LEMMA PortableTable ==
  ASSUME akc \in AkcFiles, \A row \in rows : RowTrue(row)
  PROVE  \E g : /\ PortableRun = g[Cardinality(Keys)]
                /\ g[0] = NothingWritten
                /\ \A n \in 0..Cardinality(Keys) : g[n] \in PortableStates
                /\ \A n \in 1..Cardinality(Keys) : g[n] = PortableTurn(n, g[n - 1])
<1>1. PICK N \in Nat : N = Cardinality(Keys)
  BY DecoderAssumption, FS_CardinalityType
<1>2. PICK S : S = PortableStates
  OBVIOUS
<1>3. PICK a : a = NothingWritten
  OBVIOUS
<1>4. a \in S
  <2>1. PICK X : X = {Fresh(k) : k \in Keys}
    OBVIOUS
  <2>2. PICK R : R = {row.refid : row \in rows}
    OBVIOUS
  <2>3. PICK D : D = {}
    OBVIOUS
  <2>4. EmptyFiles \in [D -> X] /\ D \in SUBSET R
    BY <2>3 DEF EmptyFiles
  <2>5. EmptyFiles \in PortableSets
    BY <2>1, <2>2, <2>4 DEF PortableSets
  <2>6. QED  BY <1>2, <1>3, <2>5, NoCacheTyped DEF NothingWritten, PortableStates
<1>5. ASSUME NEW n \in 1..N, NEW s \in S PROVE PortableTurn(n, s) \in S
  <2>1. CASE Targets(n - 1) = {}
    BY <2>1 DEF PortableTurn
  <2>2. CASE Targets(n - 1) # {}
    <3>1. PICK row : row = CHOOSE other \in Targets(n - 1) : TRUE
      OBVIOUS
    <3>2. row \in rows
      BY <2>2, <3>1 DEF Targets
    <3>3. PortableTurn(n, s) = PortableStep(s, row)
      BY <2>2, <3>1 DEF PortableTurn
    <3>4. QED  BY <1>2, <3>2, <3>3, PortableStepFacts
  <2>3. QED  BY <2>1, <2>2
<1>6. PICK step : step = [n \in 1..N |-> [s \in S |-> PortableTurn(n, s)]]
  OBVIOUS
<1>7. Steps(step, N, S)
  BY <1>5, <1>6 DEF Steps
<1>8. PICK f : IsTable(f, N, S, a, step)
  BY <1>4, <1>7, IterationExists
<1> DEFINE After(g, n) == IF n = 0 THEN NothingWritten ELSE PortableTurn(n, g[n - 1])
<1>9. ASSUME NEW n \in 0..N PROVE f[n] = After(f, n)
  <2>1. CASE n = 0
    BY <1>3, <1>8, <2>1 DEF IsTable
  <2>2. CASE n # 0
    <3>1. n \in 1..N /\ n - 1 \in 0..N
      BY <2>2
    <3>2. f[n - 1] \in S /\ f[n] = step[n][f[n - 1]]
      BY <1>8, <3>1 DEF IsTable
    <3>3. QED  BY <1>6, <2>2, <3>1, <3>2
  <2>3. QED  BY <2>1, <2>2
<1>10. f = [n \in 0..N |-> After(f, n)]
  <2>1. f = [n \in 0..N |-> f[n]]
    BY <1>8 DEF IsTable
  <2> HIDE DEF After
  <2>2. QED  BY <1>9, <2>1
<1>11. PICK g : g = CHOOSE h : h = [n \in 0..N |-> After(h, n)]
  OBVIOUS
<1>12. g = [n \in 0..N |-> After(g, n)]
  <2> HIDE DEF After
  <2>1. QED  BY <1>10, <1>11
<1>13. PortableRun = g[N]
  BY <1>1, <1>11 DEF PortableRun, PortableTurn, NothingWritten
<1>14. \A n \in 0..N : g[n] = After(g, n)
  <2> HIDE DEF After
  <2>1. QED  BY <1>12
<1>15. g[0] = NothingWritten /\ \A n \in 1..N : g[n] = PortableTurn(n, g[n - 1])
  <2>1. 0 \in 0..N /\ \A n \in 1..N : n \in 0..N /\ n # 0
    OBVIOUS
  <2>2. QED  BY <1>14, <2>1
<1> DEFINE P == {n \in 0..N : g[n] \in S}
<1>16. 0 \in P
  BY <1>3, <1>4, <1>15
<1>17. ASSUME NEW n \in 1..N, n - 1 \in P PROVE n \in P
  <2>1. PICK s \in S : s = g[n - 1]
    BY <1>17
  <2>2. g[n] = PortableTurn(n, s)
    BY <1>15, <2>1
  <2>3. PortableTurn(n, s) \in S
    BY <1>5
  <2>4. QED  BY <2>2, <2>3
<1>18. \A n \in 0..N : n \in P
  <2> HIDE DEF P
  <2>1. QED  BY <1>16, <1>17, BoundedInduction
<1>19. \A n \in 0..N : g[n] \in S
  BY <1>18
<1>20. QED  BY <1>1, <1>2, <1>13, <1>15, <1>19

(* The article of a refid is that of the last row, of those below n.       *)
LastBelow(r, n, xml) ==
  \E row \in rows :
    /\ row.refid = r /\ r # NoRefid /\ row.key < n /\ xml = Fresh(row.key)
    /\ \A other \in rows : other.refid = r /\ other.key < n => other.key <= row.key

MapKeys == {k \in Keys : k < Cardinality(Keys)}

LEMMA PortableFacts ==
  ASSUME akc \in AkcFiles, RowsInv(rows, MapKeys), PortableRun.ok
  PROVE  \A r \in DOMAIN PortableRun.files : LastBelow(r, Cardinality(Keys), PortableRun.files[r])
<1>1. PICK N \in Nat : N = Cardinality(Keys)
  BY DecoderAssumption, FS_CardinalityType
<1>2. /\ \A row \in rows : RowTrue(row) /\ row.key \in Nat
      /\ \A row, other \in rows : row.key = other.key => row = other
  BY DecoderAssumption DEF RowsInv, MapKeys
<1>3. PICK g : /\ PortableRun = g[N] /\ g[0] = NothingWritten
              /\ \A m \in 0..N : g[m] \in PortableStates
              /\ \A n \in 1..N : g[n] = PortableTurn(n, g[n - 1])
  BY <1>1, <1>2, PortableTable
<1> DEFINE P == {n \in 0..N : g[n].ok => \A r \in DOMAIN g[n].files : LastBelow(r, n, g[n].files[r])}
<1>4. 0 \in P
  <2>1. DOMAIN g[0].files = {}
    BY <1>3 DEF NothingWritten, EmptyFiles
  <2>2. QED  BY <2>1
<1>5. ASSUME NEW n \in 1..N, n - 1 \in P PROVE n \in P
  <2>1. PICK s : s = g[n - 1]
    OBVIOUS
  <2>2. PICK t : t = g[n]
    OBVIOUS
  <2>3. PICK i \in Nat : i = n - 1 /\ i \in 0..N /\ n = i + 1
    OBVIOUS
  <2>4. s \in PortableStates /\ t = PortableTurn(n, s)
    BY <1>3, <2>1, <2>2, <2>3
  <2>5. s.ok => \A r \in DOMAIN s.files : LastBelow(r, i, s.files[r])
    BY <1>5, <2>1, <2>3
  <2>6. SUFFICES ASSUME t.ok, NEW r \in DOMAIN t.files PROVE LastBelow(r, n, t.files[r])
    BY <2>2
  <2>7. \A row \in rows : row.key < n <=> row.key < i \/ row.key = i
    BY <1>2, <2>3
  <2>8. CASE Targets(i) = {}
    <3>1. t = s
      BY <2>3, <2>4, <2>8 DEF PortableTurn
    <3>2. LastBelow(r, i, t.files[r])
      BY <2>5, <2>6, <3>1
    <3>3. \A row \in rows : row.refid # NoRefid => row.key # i
      BY <2>8 DEF Targets
    <3>4. QED  BY <2>7, <3>2, <3>3 DEF LastBelow
  <2>9. CASE Targets(i) # {}
    <3>1. PICK row : row = CHOOSE other \in Targets(i) : TRUE
      OBVIOUS
    <3>2. row \in rows /\ row.refid # NoRefid /\ row.key = i
      BY <2>9, <3>1 DEF Targets
    <3>3. t = PortableStep(s, row)
      BY <2>3, <2>4, <2>9, <3>1 DEF PortableTurn
    <3>4. /\ s.ok /\ r \in DOMAIN s.files \cup {row.refid}
          /\ t.files[r] = IF r = row.refid THEN Fresh(row.key) ELSE s.files[r]
      BY <1>2, <2>4, <2>6, <3>2, <3>3, PortableStepFacts
    <3>5. CASE r = row.refid
      <4>1. \A other \in rows : other.key < n => other.key <= row.key
        BY <1>2, <2>3, <2>7, <3>2
      <4>2. row.key < n
        BY <2>3, <3>2
      <4>3. QED  BY <3>2, <3>4, <3>5, <4>1, <4>2 DEF LastBelow
    <3>6. CASE r # row.refid
      <4>1. LastBelow(r, i, t.files[r])
        BY <2>5, <3>4, <3>6
      <4>2. \A other \in rows : other.refid = r => other.key # i
        BY <1>2, <3>2, <3>6
      <4>3. QED  BY <2>7, <4>1, <4>2 DEF LastBelow
    <3>7. QED  BY <3>5, <3>6
  <2>10. QED  BY <2>8, <2>9
<1>6. N \in P
  <2>1. N \in 0..N
    OBVIOUS
  <2> HIDE DEF P
  <2>2. QED  BY <1>4, <1>5, <2>1, BoundedInduction
<1>7. QED  BY <1>1, <1>3, <1>6

LEMMA LoadMapFacts ==
  ASSUME RowsInv(rows, MapKeys), NEW r \in DOMAIN LoadMap
  PROVE  /\ r # NoRefid
         /\ \E row \in rows :
              /\ row.refid = r /\ LoadMap[r] = row.key
              /\ \A other \in rows : other.refid = r => other.key <= row.key
<1>1. PICK N \in Nat : N = Cardinality(Keys)
  BY DecoderAssumption, FS_CardinalityType
<1>2. ASSUME NEW row \in rows PROVE row.key \in Nat /\ row.key <= N
  <2>1. row.key \in MapKeys
    BY DEF RowsInv
  <2>2. PICK k : k = row.key
    OBVIOUS
  <2>3. k \in Keys /\ k < N
    BY <1>1, <2>1, <2>2 DEF MapKeys
  <2>4. k \in Nat
    BY <2>3, DecoderAssumption
  <2>5. QED  BY <2>2, <2>3, <2>4
<1>3. PICK T : T = {row.key : row \in WithRefid(r)}
  OBVIOUS
<1>4. r # NoRefid /\ LoadMap[r] = LastKey(T)
  BY <1>3 DEF LoadMap
<1>5. \E row \in rows : row.refid = r
  BY DEF LoadMap
<1>6. T \in SUBSET Nat /\ T # {} /\ \A y \in T : y <= N
  BY <1>2, <1>3, <1>5 DEF WithRefid
<1>7. \E x \in T : \A y \in T : x >= y
  BY <1>6, GreatestExists
<1>8. LastKey(T) \in T /\ \A y \in T : LastKey(T) >= y
  BY <1>7 DEF LastKey
<1>9. PICK row \in rows : row.refid = r /\ row.key = LastKey(T)
  BY <1>3, <1>8 DEF WithRefid
<1>10. ASSUME NEW other \in rows, other.refid = r PROVE other.key <= row.key
  <2>1. other.key \in T
    BY <1>3, <1>10 DEF WithRefid
  <2>2. row.key >= other.key /\ other.key \in Nat /\ row.key \in Nat
    BY <1>2, <1>8, <1>9, <2>1
  <2>3. QED  BY <2>2
<1>11. QED  BY <1>4, <1>9, <1>10


-----------------------------------------------------------------------------
(* The inductive invariant: a body's cached reader stands at its start, the*)
(* map holds one row per key and the refid of the whole article, and what  *)
(* a decoder loaded from an earlier map still names articles of that refid.*)
RefidsTrue ==
  \A r \in DOMAIN refidKeys :
    /\ refidKeys[r] \in Keys
    /\ Fresh(refidKeys[r]) # Failed => ExtractRefid(Fresh(refidKeys[r])) = r

IInv ==
  /\ akc \in AkcFiles /\ cache \in Caches
  /\ RowsInv(rows, MapKeys) /\ RefidsTrue
  /\ AnswerIsFresh /\ RefidsAgree

(* The file is fixed, and with it every article.                           *)
LEMMA FreshSame ==
  ASSUME akc' = akc
  PROVE  NoCache' = NoCache /\ Caches' = Caches /\ \A k : Fresh(k)' = Fresh(k)
<1>1. NoCache' = NoCache
  BY DEF NoCache
<1>2. Caches' = Caches
  BY DEF Caches
<1>3. ASSUME NEW k PROVE Fresh(k)' = Fresh(k)
  BY DEF Fresh, DecodeWindow, RawTokens, Cached, BodyOf, NoCache
<1>4. QED  BY <1>1, <1>2, <1>3

LEMMA RowsSame ==
  ASSUME akc' = akc, NEW set, rows' = set, RowsInv(set, MapKeys)
  PROVE  RowsInv(rows, MapKeys)'
<1>1. MapKeys' = MapKeys
  BY DEF MapKeys
<1>2. \A k : Fresh(k)' = Fresh(k)
  BY FreshSame
<1>3. ASSUME NEW row \in set PROVE RowTrue(row)' /\ row.key \in MapKeys
  BY <1>2 DEF RowsInv, RowTrue
<1>4. QED  BY <1>1, <1>3 DEF RowsInv

LEMMA RefidsSame ==
  ASSUME akc' = akc, refidKeys' = refidKeys, RefidsTrue
  PROVE  RefidsTrue'
<1>1. \A k : Fresh(k)' = Fresh(k)
  BY FreshSame
<1>2. QED  BY <1>1 DEF RefidsTrue

LEMMA InitInv == Init => IInv
<1>1. SUFFICES ASSUME Init PROVE IInv
  OBVIOUS
<1>2. cache \in Caches
  BY <1>1, NoCacheTyped DEF Init
<1>3. RowsInv(rows, MapKeys) /\ RefidsTrue
  BY <1>1 DEF Init, RowsInv, RefidsTrue
<1>4. AnswerIsFresh /\ RefidsAgree
  BY <1>1 DEF Init, AnswerIsFresh, RefidsAgree, RefidRoundTrip, PortableAgrees
<1>5. QED  BY <1>1, <1>2, <1>3, <1>4 DEF Init, IInv

(* Every refid the loaded map knows is that of the article it names.       *)
LEMMA LoadMapTrue ==
  ASSUME RowsInv(rows, MapKeys), NEW r \in DOMAIN LoadMap
  PROVE  /\ LoadMap[r] \in Keys
         /\ Fresh(LoadMap[r]) # Failed => ExtractRefid(Fresh(LoadMap[r])) = r
<1>1. PICK row \in rows : row.refid = r /\ LoadMap[r] = row.key
  BY LoadMapFacts
<1>2. r # NoRefid
  BY LoadMapFacts
<1>3. RowTrue(row)
  BY DEF RowsInv
<1>4. QED  BY <1>1, <1>2, <1>3 DEF RowTrue

LEMMA OpenInv == IInv /\ Open => IInv'
<1>1. SUFFICES ASSUME IInv, Open PROVE IInv'
  OBVIOUS
<1>2. akc' = akc /\ cache' = NoCache /\ rows' = rows /\ refidKeys' = LoadMap /\ answer'.call = "open"
  BY <1>1 DEF Open
<1>3. cache' \in Caches'
  BY <1>2, FreshSame, NoCacheTyped
<1>4. RowsInv(rows, MapKeys)
  BY <1>1 DEF IInv
<1>5. RowsInv(rows, MapKeys)'
  <2>1. PICK set : set = rows
    OBVIOUS
  <2>2. QED  BY <1>2, <1>4, <2>1, RowsSame
<1>6. RefidsTrue'
  <2>1. \A k : Fresh(k)' = Fresh(k)
    BY <1>2, FreshSame
  <2>2. \A r \in DOMAIN LoadMap :
          /\ LoadMap[r] \in Keys
          /\ Fresh(LoadMap[r]) # Failed => ExtractRefid(Fresh(LoadMap[r])) = r
    BY <1>4, LoadMapTrue
  <2>3. QED  BY <1>2, <2>1, <2>2 DEF RefidsTrue
<1>7. AnswerIsFresh' /\ RefidsAgree'
  BY <1>2 DEF AnswerIsFresh, RefidsAgree, RefidRoundTrip, PortableAgrees
<1>8. akc' \in AkcFiles
  BY <1>1, <1>2 DEF IInv
<1>9. QED  BY <1>3, <1>5, <1>6, <1>7, <1>8 DEF IInv

(* What the two commands that decode one article have in common.           *)
LEMMA OneArticle ==
  ASSUME IInv, NEW k \in Keys, UNCHANGED <<akc, rows, refidKeys>>,
         cache' = DecodeWindow(cache, akc.windows[k]).cache,
         answer'.key = k, answer'.xml = DecodeWindow(cache, akc.windows[k]).xml
  PROVE  /\ akc' \in AkcFiles /\ cache' \in Caches' /\ RowsInv(rows, MapKeys)' /\ RefidsTrue'
         /\ answer'.xml = Fresh(k) /\ AnswerIsFresh'
<1>1. akc \in AkcFiles /\ cache \in Caches /\ RowsInv(rows, MapKeys) /\ RefidsTrue
  BY DEF IInv
<1>2. PICK win : win = akc.windows[k]
  OBVIOUS
<1>3. PICK c \in Caches : c = cache
  BY <1>1
<1>4. DecodeWindow(c, win).cache \in Caches /\ DecodeWindow(c, win).xml = Fresh(k)
  BY <1>1, <1>2, AlwaysFresh
<1>5. cache' \in Caches' /\ answer'.xml = Fresh(k)
  BY <1>2, <1>3, <1>4, FreshSame
<1>6. Fresh(k)' = Fresh(k)
  BY FreshSame
<1>7. AnswerIsFresh'
  BY <1>5, <1>6 DEF AnswerIsFresh
<1>8. RowsInv(rows, MapKeys)'
  <2>1. PICK set : set = rows
    OBVIOUS
  <2>2. QED  BY <1>1, <2>1, RowsSame
<1>9. RefidsTrue'
  BY <1>1, RefidsSame
<1>10. QED  BY <1>1, <1>5, <1>7, <1>8, <1>9

LEMMA DecodeKeyInv == ASSUME IInv, NEW k \in Keys, DecodeKey(k) PROVE IInv'
<1>1. /\ UNCHANGED <<akc, rows, refidKeys>>
      /\ cache' = DecodeWindow(cache, akc.windows[k]).cache
      /\ answer'.call = "key" /\ answer'.key = k
      /\ answer'.xml = DecodeWindow(cache, akc.windows[k]).xml
  BY DEF DecodeKey
<1>2. /\ akc' \in AkcFiles /\ cache' \in Caches' /\ RowsInv(rows, MapKeys)' /\ RefidsTrue'
      /\ AnswerIsFresh'
  BY <1>1, OneArticle
<1>3. RefidsAgree'
  BY <1>1 DEF RefidsAgree, RefidRoundTrip, PortableAgrees
<1>4. QED  BY <1>2, <1>3 DEF IInv

LEMMA DecodeRefidInv == ASSUME IInv, NEW r \in Refids, DecodeRefid(r) PROVE IInv'
<1>1. PICK k : k = refidKeys[r]
  OBVIOUS
<1>2. k \in Keys /\ (Fresh(k) # Failed => ExtractRefid(Fresh(k)) = r)
  BY <1>1 DEF IInv, RefidsTrue, DecodeRefid
<1>3. /\ UNCHANGED <<akc, rows, refidKeys>>
      /\ cache' = DecodeWindow(cache, akc.windows[k]).cache
      /\ answer'.call = "refid" /\ answer'.arg = r /\ answer'.key = k
      /\ answer'.xml = DecodeWindow(cache, akc.windows[k]).xml
  BY <1>1 DEF DecodeRefid
<1>4. /\ akc' \in AkcFiles /\ cache' \in Caches' /\ RowsInv(rows, MapKeys)' /\ RefidsTrue'
      /\ answer'.xml = Fresh(k) /\ AnswerIsFresh'
  BY <1>2, <1>3, OneArticle
<1>5. RefidsAgree'
  BY <1>2, <1>3, <1>4 DEF RefidsAgree, RefidRoundTrip, PortableAgrees
<1>6. QED  BY <1>4, <1>5 DEF IInv

LEMMA MapAkcInv == ASSUME IInv, NEW start \in Keys, MapAkc(start) PROVE IInv'
<1>1. PICK range \in SUBSET Keys : range = {k \in Keys : k >= start /\ k < Cardinality(Keys)}
  OBVIOUS
<1>2. \A k \in range : k < Cardinality(Keys)
  BY <1>1
<1>3. akc \in AkcFiles /\ cache \in Caches /\ RefidsTrue
  BY DEF IInv
<1>4. PICK s : s = WriteMapRows(NoCache, range)
  OBVIOUS
<1>5. RowsInv(s.rows, range)
  BY <1>2, <1>3, <1>4, MapRowsFacts
<1>6. range \subseteq MapKeys
  BY <1>1 DEF MapKeys
<1>7. /\ UNCHANGED <<akc, cache, refidKeys>> /\ answer'.call = "map"
      /\ rows' = IF s.ok THEN s.rows ELSE {}
  BY <1>1, <1>4 DEF MapAkc
<1>8. PICK set : set = IF s.ok THEN s.rows ELSE {}
  OBVIOUS
<1>9. RowsInv(set, MapKeys)
  BY <1>5, <1>6, <1>8 DEF RowsInv
<1>10. RowsInv(rows, MapKeys)'
  BY <1>7, <1>8, <1>9, RowsSame
<1>11. RefidsTrue'
  BY <1>3, <1>7, RefidsSame
<1>12. akc' \in AkcFiles /\ cache' \in Caches'
  BY <1>3, <1>7, FreshSame
<1>13. AnswerIsFresh' /\ RefidsAgree'
  BY <1>7 DEF AnswerIsFresh, RefidsAgree, RefidRoundTrip, PortableAgrees
<1>14. QED  BY <1>10, <1>11, <1>12, <1>13 DEF IInv

(* Several keys of one refid: the command leaves the article of the last   *)
(* of them, which is the key the loaded map keeps.                         *)
LEMMA PortableSameKey ==
  ASSUME akc \in AkcFiles, RowsInv(rows, MapKeys), PortableRun.ok, NEW r \in DOMAIN PortableRun.files
  PROVE  PortableRun.files[r] = Fresh(LoadMap[r])
<1>1. PICK row \in rows :
        /\ row.refid = r /\ r # NoRefid /\ row.key < Cardinality(Keys)
        /\ PortableRun.files[r] = Fresh(row.key)
        /\ \A other \in rows : other.refid = r /\ other.key < Cardinality(Keys) => other.key <= row.key
  BY PortableFacts DEF LastBelow
<1>2. r \in DOMAIN LoadMap
  BY <1>1 DEF LoadMap
<1>3. PICK last \in rows :
        /\ last.refid = r /\ LoadMap[r] = last.key
        /\ \A other \in rows : other.refid = r => other.key <= last.key
  BY <1>2, LoadMapFacts
<1>4. row.key \in MapKeys /\ last.key \in MapKeys
  BY DEF RowsInv
<1>5. row.key \in Nat /\ last.key \in Nat /\ last.key < Cardinality(Keys)
  <2>1. \A k \in MapKeys : k \in Nat /\ k < Cardinality(Keys)
    BY DecoderAssumption DEF MapKeys
  <2>2. QED  BY <1>4, <2>1
<1>6. row.key <= last.key /\ last.key <= row.key
  BY <1>1, <1>3, <1>5
<1>7. row.key = last.key
  BY <1>5, <1>6
<1>8. QED  BY <1>1, <1>3, <1>7

LEMMA DecodePortableInv == IInv /\ DecodePortable => IInv'
<1>1. SUFFICES ASSUME IInv, DecodePortable PROVE IInv'
  OBVIOUS
<1>2. akc \in AkcFiles /\ cache \in Caches /\ RowsInv(rows, MapKeys) /\ RefidsTrue
  BY <1>1 DEF IInv
<1>3. PICK run : run = PortableRun
  OBVIOUS
<1>4. PICK map : map = LoadMap
  OBVIOUS
<1>5. /\ UNCHANGED <<akc, cache, rows, refidKeys>> /\ files' = run.files
      /\ answer'.call = "portable" /\ answer'.ok = run.ok /\ answer'.keys = map
  BY <1>1, <1>3, <1>4 DEF DecodePortable
<1>6. RowsInv(rows, MapKeys)'
  <2>1. PICK set : set = rows
    OBVIOUS
  <2>2. QED  BY <1>2, <1>5, <2>1, RowsSame
<1>7. RefidsTrue'
  BY <1>2, <1>5, RefidsSame
<1>8. akc' \in AkcFiles /\ cache' \in Caches'
  BY <1>2, <1>5, FreshSame
<1>9. AnswerIsFresh' /\ RefidRoundTrip'
  BY <1>5 DEF AnswerIsFresh, RefidRoundTrip
<1>10. PortableAgrees'
  <2>1. \A k : Fresh(k)' = Fresh(k)
    BY <1>5, FreshSame
  <2>2. run.ok => \A r \in DOMAIN run.files : run.files[r] = Fresh(map[r])
    BY <1>2, <1>3, <1>4, PortableSameKey
  <2>3. QED  BY <1>5, <2>1, <2>2 DEF PortableAgrees
<1>11. QED  BY <1>6, <1>7, <1>8, <1>9, <1>10 DEF IInv, RefidsAgree

LEMMA StutterInv == IInv /\ UNCHANGED vars => IInv'
<1>1. SUFFICES ASSUME IInv, UNCHANGED vars PROVE IInv'
  OBVIOUS
<1>2. UNCHANGED <<akc, cache, rows, refidKeys, answer, files>>
  BY <1>1 DEF vars
<1>3. \A k : Fresh(k)' = Fresh(k)
  BY <1>2, FreshSame
<1>4. RowsInv(rows, MapKeys)'
  <2>1. PICK set : set = rows
    OBVIOUS
  <2>2. QED  BY <1>1, <1>2, <2>1, RowsSame DEF IInv
<1>5. RefidsTrue'
  BY <1>1, <1>2, RefidsSame DEF IInv
<1>6. akc' \in AkcFiles /\ cache' \in Caches'
  BY <1>1, <1>2, FreshSame DEF IInv
<1>7. AnswerIsFresh'
  BY <1>1, <1>2, <1>3 DEF IInv, AnswerIsFresh
<1>8. RefidsAgree'
  BY <1>1, <1>2, <1>3 DEF IInv, RefidsAgree, RefidRoundTrip, PortableAgrees
<1>9. QED  BY <1>4, <1>5, <1>6, <1>7, <1>8 DEF IInv

LEMMA NextInv == IInv /\ [Next]_vars => IInv'
<1>1. SUFFICES ASSUME IInv, [Next]_vars PROVE IInv'
  OBVIOUS
<1>2. CASE Open
  BY <1>1, <1>2, OpenInv
<1>3. ASSUME NEW k \in Keys, DecodeKey(k) PROVE IInv'
  BY <1>1, <1>3, DecodeKeyInv
<1>4. ASSUME NEW r \in Refids, DecodeRefid(r) PROVE IInv'
  BY <1>1, <1>4, DecodeRefidInv
<1>5. ASSUME NEW start \in Keys, MapAkc(start) PROVE IInv'
  BY <1>1, <1>5, MapAkcInv
<1>6. CASE DecodePortable
  BY <1>1, <1>6, DecodePortableInv
<1>7. CASE UNCHANGED vars
  BY <1>1, <1>7, StutterInv
<1>8. QED  BY <1>1, <1>2, <1>3, <1>4, <1>5, <1>6, <1>7 DEF Next

LEMMA DecoderInvariant == Spec => []IInv
<1>1. QED  BY InitInv, NextInv, PTL DEF Spec

(* Whatever the decoder was asked before, the article it answers is the one*)
(* a decoder that had just opened the file would have answered: decoding   *)
(* works on a clone of the reader that _neg_cache keeps.                   *)
THEOREM ArticlesAlwaysFresh == Spec => []AnswerIsFresh
<1>1. IInv => AnswerIsFresh
  BY DEF IInv
<1>2. QED  BY <1>1, DecoderInvariant, PTL

(* write_map_rows decodes the articles of a body in one go and each only as*)
(* far as token_prefix; a refid it writes is the refid of the whole article*)
(* all the same, for every file, however the windows overlap.              *)
THEOREM RowsAlwaysArticles == Spec => []RowsAreArticles
<1>1. IInv => RowsAreArticles
  BY DEF IInv, RowsInv, RowTrue, RowsAreArticles
<1>2. QED  BY <1>1, DecoderInvariant, PTL

(* map-akc, load_refid_key_map, decode-article --refid and decode-portable *)
(* mean the same article by a refid, also when several keys carry it and   *)
(* when the map was written anew after a decoder loaded it.                *)
THEOREM RefidsAlwaysAgree == Spec => []RefidsAgree
<1>1. IInv => RefidsAgree
  BY DEF IInv
<1>2. QED  BY <1>1, DecoderInvariant, PTL

(* decode_tokens with a smaller count gives the first tokens of the same   *)
(* list, for every file: in the middle of a copy that feeds on itself, and *)
(* behind the last symbol, where the reader goes on with zeros.            *)
THEOREM PrefixAlwaysStable == Spec => []PrefixStable
<1>1. ASSUME akc \in AkcFiles PROVE PrefixStable
  <2>1. SUFFICES ASSUME NEW b \in DOMAIN akc.bodies, NEW m \in 0..(HeadTokens + TokenPrefix),
                        NEW n \in 0..m, DecodeTokens(akc.bodies[b], 0, m).ok
                 PROVE  /\ DecodeTokens(akc.bodies[b], 0, n).ok
                        /\ DecodeTokens(akc.bodies[b], 0, n).tokens
                             = SubSeq(DecodeTokens(akc.bodies[b], 0, m).tokens, 1, n)
    BY DEF PrefixStable
  <2>2. PICK body \in Bodies : body = akc.bodies[b]
    <3>1. PICK all : all = akc.bodies
      OBVIOUS
    <3>2. all \in Seq(Bodies) /\ b \in DOMAIN all
      BY <1>1, <2>1, <3>1, DecoderAssumption
    <3>3. Len(all) \in Nat /\ DOMAIN all = 1..Len(all)
      BY <3>2, LenProperties
    <3>4. all[b] \in Bodies
      BY <3>2, <3>3, ElementOfSeq
    <3>5. QED  BY <3>1, <3>4
  <2>3. m \in Nat /\ n \in Nat /\ n <= m
    BY <2>1, DecoderAssumption
  <2>4. PICK short : short = DecodeTokens(body, 0, n)
    OBVIOUS
  <2>5. PICK long : long = DecodeTokens(body, 0, m)
    OBVIOUS
  <2>6. long.ok
    BY <2>1, <2>2, <2>5
  <2>7. /\ short.ok /\ short.tokens \in Seq(Symbols) /\ long.tokens \in Seq(Symbols)
        /\ Len(short.tokens) = n /\ Grows(short.tokens, long.tokens)
    BY <2>3, <2>4, <2>5, <2>6, DecodePrefix
  <2>8. short.tokens = SubSeq(long.tokens, 1, n)
    BY <2>7, PrefixIs
  <2>9. QED  BY <2>2, <2>4, <2>5, <2>7, <2>8
<1>2. IInv => PrefixStable
  BY <1>1 DEF IInv
<1>3. QED  BY <1>2, DecoderInvariant, PTL

=============================================================================
