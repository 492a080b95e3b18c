--------------------------- MODULE LzxDecodersProofs ---------------------------
(* The two LZX decoders keep in step on every stream, for every size of    *)
(* frames and windows, every code and every match.                         *)
EXTENDS LzxDecoders, Iteration, TLAPS

PyReaders == [pos : Nat, avail : Int, ok : BOOLEAN]
CReaders == [ptr : Nat, left : Int, ok : BOOLEAN]

(* A reader that has loaded whole words, none of them behind the end.      *)
PyWell(r) ==
  r \in PyReaders /\ (r.ok => r.pos % 2 = 0 /\ r.avail \in 0..32 /\ r.pos <= size)
CWell(r) ==
  r \in CReaders /\ r.ok /\ r.ptr % 2 = 0 /\ r.ptr <= size + Faked /\ r.left \in 0..32

(* Both readers at one bit of the stream.                                  *)
Together(r, c) ==
  PyWell(r) /\ (r.ok => CWell(c) /\ PyPosition(r) = CPosition(c))

EvenSize == size \in Nat /\ size % 2 = 0

-----------------------------------------------------------------------------
LEMMA RefillLoads ==
  ASSUME EvenSize, NEW r, PyWell(r), r.ok
  PROVE  \E w \in 0..2 :
           /\ PyRefill(r, size) = [pos |-> r.pos + 2 * w, avail |-> r.avail + 16 * w, ok |-> TRUE]
           /\ r.pos + 2 * w <= size /\ r.avail + 16 * w <= 32
           /\ r.avail > 0 => w <= 1
<1>1. /\ r \in PyReaders /\ r.pos \in Nat /\ r.avail \in Int
      /\ r.pos % 2 = 0 /\ r.avail \in 0..32 /\ r.pos <= size /\ size \in Nat
  BY DEF PyWell, PyReaders, EvenSize
<1>2. PICK wanted : wanted = IF r.avail < 17 THEN CeilDiv(17 - r.avail, WordBits) ELSE 0
  OBVIOUS
<1>3. PICK left : left = WordsLeft(r, size)
  OBVIOUS
<1>4. /\ wanted \in 0..2 /\ r.avail + 16 * wanted <= 32
      /\ r.avail > 0 => wanted <= 1
  BY <1>1, <1>2 DEF CeilDiv, WordBits
<1>5. left \in Nat /\ r.pos + 2 * left <= size
  BY <1>1, <1>3 DEF WordsLeft
<1>6. PICK w : w = Least(wanted, left)
  OBVIOUS
<1>7. /\ w \in 0..2 /\ r.pos + 2 * w <= size /\ r.avail + 16 * w <= 32
      /\ r.avail > 0 => w <= 1
  BY <1>1, <1>4, <1>5, <1>6 DEF Least
<1>8. PyRefill(r, size) = [r EXCEPT !.pos = @ + 2 * w, !.avail = @ + WordBits * w]
  BY <1>2, <1>3, <1>6 DEF PyRefill
<1>9. PyRefill(r, size) = [pos |-> r.pos + 2 * w, avail |-> r.avail + 16 * w, ok |-> TRUE]
  BY <1>1, <1>8 DEF WordBits, PyReaders
<1>10. QED  BY <1>7, <1>9

(* What a peek of n bits, and what a read leaves of the reader.            *)
LEMMA PeekLoads ==
  ASSUME EvenSize, NEW r, PyWell(r), r.ok, NEW n \in 0..17
  PROVE  \E w \in 0..2 : \E ok \in BOOLEAN :
           /\ PyPeek(r, size, n) = [pos |-> r.pos + 2 * w, avail |-> r.avail + 16 * w, ok |-> ok]
           /\ r.pos + 2 * w <= size /\ r.avail + 16 * w <= 32
           /\ r.avail > 0 => w <= 1
           /\ ok => r.avail + 16 * w >= n
           /\ r.avail >= n => w = 0
<1>1. /\ r \in PyReaders /\ r.pos \in Nat /\ r.avail \in 0..32 /\ r.pos <= size /\ size \in Nat
  BY DEF PyWell, PyReaders, EvenSize
<1>2. CASE r.avail >= n
  <2>1. PyPeek(r, size, n) = r
    BY <1>2 DEF PyPeek
  <2>2. r = [pos |-> r.pos + 2 * 0, avail |-> r.avail + 16 * 0, ok |-> TRUE]
    BY <1>1 DEF PyReaders
  <2>3. /\ r.pos + 2 * 0 <= size /\ r.avail + 16 * 0 <= 32 /\ r.avail + 16 * 0 >= n
        /\ 0 \in 0..2 /\ TRUE \in BOOLEAN
    BY <1>1, <1>2
  <2>4. WITNESS 0 \in 0..2, TRUE \in BOOLEAN
  <2>5. QED  BY <2>1, <2>2, <2>3
<1>3. CASE ~(r.avail >= n)
  <2>1. PICK w \in 0..2 :
          /\ PyRefill(r, size) = [pos |-> r.pos + 2 * w, avail |-> r.avail + 16 * w, ok |-> TRUE]
          /\ r.pos + 2 * w <= size /\ r.avail + 16 * w <= 32
          /\ r.avail > 0 => w <= 1
    BY RefillLoads
  <2>2. PICK full : full = PyRefill(r, size)
    OBVIOUS
  <2>3. PyPeek(r, size, n) = [full EXCEPT !.ok = @ /\ full.avail >= n]
    BY <1>3, <2>2 DEF PyPeek
  <2>4. PyPeek(r, size, n) = [pos |-> r.pos + 2 * w, avail |-> r.avail + 16 * w,
                             ok |-> (r.avail + 16 * w >= n)]
    BY <2>1, <2>2, <2>3
  <2>5. (r.avail + 16 * w >= n) \in BOOLEAN
    OBVIOUS
  <2>6. QED  BY <1>3, <2>1, <2>4, <2>5
<1>4. QED  BY <1>2, <1>3

LEMMA ReadLoads ==
  ASSUME EvenSize, NEW r, PyWell(r), r.ok, NEW n \in 0..17
  PROVE  \E w \in 0..2 : \E ok \in BOOLEAN :
           /\ PyRead(r, size, n) = [pos |-> r.pos + 2 * w, avail |-> r.avail + 16 * w - n, ok |-> ok]
           /\ r.pos + 2 * w <= size /\ r.avail + 16 * w <= 32
           /\ r.avail > 0 => w <= 1
           /\ ok => r.avail + 16 * w >= n
           /\ r.avail >= n => w = 0
<1>1. r \in PyReaders /\ r.pos \in Nat /\ r.avail \in 0..32 /\ r.pos <= size
  BY DEF PyWell, PyReaders
<1>2. CASE n = 0
  <2>1. r = [pos |-> r.pos + 2 * 0, avail |-> r.avail + 16 * 0 - n, ok |-> TRUE]
    BY <1>1, <1>2 DEF PyReaders
  <2>2. PyRead(r, size, n) = r
    BY <1>2 DEF PyRead
  <2>3. /\ r.pos + 2 * 0 <= size /\ r.avail + 16 * 0 <= 32 /\ r.avail + 16 * 0 >= n
        /\ 0 \in 0..2 /\ TRUE \in BOOLEAN
    BY <1>1, <1>2
  <2>4. WITNESS 0 \in 0..2, TRUE \in BOOLEAN
  <2>5. QED  BY <2>1, <2>2, <2>3
<1>3. CASE n # 0
  <2>1. PICK w \in 0..2, ok \in BOOLEAN :
          /\ PyPeek(r, size, n) = [pos |-> r.pos + 2 * w, avail |-> r.avail + 16 * w, ok |-> ok]
          /\ r.pos + 2 * w <= size /\ r.avail + 16 * w <= 32
          /\ r.avail > 0 => w <= 1
          /\ ok => r.avail + 16 * w >= n
          /\ r.avail >= n => w = 0
    BY PeekLoads
  <2>2. PyRead(r, size, n) = [pos |-> r.pos + 2 * w, avail |-> r.avail + 16 * w - n, ok |-> ok]
    <3>1. PICK seen : seen = PyPeek(r, size, n)
      OBVIOUS
    <3>2. PyRead(r, size, n) = [seen EXCEPT !.avail = seen.avail - n]
      BY <1>3, <3>1 DEF PyRead, PyDrop
    <3>3. seen = [pos |-> r.pos + 2 * w, avail |-> r.avail + 16 * w, ok |-> ok]
      BY <2>1, <3>1
    <3>4. QED  BY <1>1, <3>2, <3>3
  <2>3. QED  BY <2>1, <2>2
<1>4. QED  BY <1>2, <1>3

(* A reader that has failed does not recover.                              *)
LEMMA DropFailed ==
  ASSUME NEW r \in PyReaders, ~r.ok, NEW n \in Int
  PROVE  PyDrop(r, n) \in PyReaders /\ ~PyDrop(r, n).ok
BY DEF PyDrop, PyReaders

LEMMA PeekFailed ==
  ASSUME EvenSize, NEW r \in PyReaders, ~r.ok, NEW n \in Int
  PROVE  PyPeek(r, size, n) \in PyReaders /\ ~PyPeek(r, size, n).ok
<1>1. r.pos \in Nat /\ r.avail \in Int /\ size \in Nat
  BY DEF PyReaders, EvenSize
<1>2. PyRefill(r, size) \in PyReaders
  <2>1. PICK w : w = Least(IF r.avail < 17 THEN CeilDiv(17 - r.avail, WordBits) ELSE 0,
                           WordsLeft(r, size))
    OBVIOUS
  <2>2. w \in Nat
    BY <1>1, <2>1 DEF Least, CeilDiv, WordBits, WordsLeft
  <2>3. PyRefill(r, size) = [r EXCEPT !.pos = r.pos + 2 * w, !.avail = r.avail + 16 * w]
    BY <2>1 DEF PyRefill, WordBits
  <2>4. r.pos + 2 * w \in Nat /\ r.avail + 16 * w \in Int
    BY <1>1, <2>2
  <2>5. QED  BY <2>3, <2>4 DEF PyReaders
<1>3. PyRefill(r, size).ok = r.ok
  BY DEF PyRefill, PyReaders
<1>4. CASE r.avail >= n
  BY <1>4 DEF PyPeek
<1>5. CASE ~(r.avail >= n)
  <2>1. PICK full : full = PyRefill(r, size)
    OBVIOUS
  <2>2. PyPeek(r, size, n) = [full EXCEPT !.ok = full.ok /\ full.avail >= n]
    BY <1>5, <2>1 DEF PyPeek
  <2>3. full \in PyReaders /\ ~full.ok
    BY <1>2, <1>3, <2>1
  <2>4. QED  BY <2>2, <2>3 DEF PyReaders
<1>6. QED  BY <1>4, <1>5

LEMMA ReadFailed ==
  ASSUME EvenSize, NEW r \in PyReaders, ~r.ok, NEW n \in Int
  PROVE  PyRead(r, size, n) \in PyReaders /\ ~PyRead(r, size, n).ok
<1>1. CASE n = 0
  BY <1>1 DEF PyRead
<1>2. CASE n # 0
  BY <1>2, PeekFailed, DropFailed DEF PyRead
<1>3. QED  BY <1>1, <1>2

LEMMA SymbolFailed ==
  ASSUME EvenSize, NEW r \in PyReaders, ~r.ok, NEW code \in [len : 1..16, table : 1..12]
  PROVE  PySymbol(r, size, code) \in PyReaders /\ ~PySymbol(r, size, code).ok
<1>1. code.len \in Int /\ code.table \in Int
  OBVIOUS
<1>2. PICK seen : seen = PyPeek(r, size, code.table)
  OBVIOUS
<1>3. seen \in PyReaders /\ ~seen.ok
  BY <1>1, <1>2, PeekFailed
<1>4. PySymbol(r, size, code) = PyWalk([seen EXCEPT !.ok = r.ok], size, code.len)
  BY <1>2, <1>3 DEF PySymbol
<1>5. PICK t : t = [seen EXCEPT !.ok = r.ok]
  OBVIOUS
<1>6. t \in PyReaders /\ ~t.ok /\ t.avail \in Int
  BY <1>3, <1>5 DEF PyReaders
<1>7. CASE t.avail >= code.len
  BY <1>1, <1>4, <1>5, <1>6, <1>7, DropFailed DEF PyWalk
<1>8. CASE ~(t.avail >= code.len)
  <2>1. PyDrop(t, t.avail) \in PyReaders /\ ~PyDrop(t, t.avail).ok
    BY <1>6, DropFailed
  <2>2. PySymbol(r, size, code) = PyRead(PyDrop(t, t.avail), size, code.len - t.avail)
    BY <1>4, <1>5, <1>8 DEF PyWalk
  <2>3. code.len - t.avail \in Int
    BY <1>1, <1>6
  <2>4. QED  BY <2>1, <2>2, <2>3, ReadFailed
<1>9. QED  BY <1>7, <1>8

-----------------------------------------------------------------------------
LEMMA CParts ==
  ASSUME NEW c, CWell(c)
  PROVE  \E p \in Nat : \E l \in 0..32 :
           /\ c = [ptr |-> p, left |-> l, ok |-> TRUE]
           /\ p % 2 = 0 /\ p <= size + 2 /\ CPosition(c) = 8 * p - l
<1>1. /\ c \in CReaders /\ c.ok /\ c.ptr \in Nat /\ c.left \in 0..32
      /\ c.ptr % 2 = 0 /\ c.ptr <= size + 2
  BY DEF CWell, CReaders, Faked
<1>2. c = [ptr |-> c.ptr, left |-> c.left, ok |-> TRUE]
  BY <1>1 DEF CReaders
<1>3. CPosition(c) = 8 * c.ptr - c.left
  BY DEF CPosition
<1>4. QED  BY <1>1, <1>2, <1>3

LEMMA EnsureLoads ==
  ASSUME EvenSize, NEW p \in Nat, NEW l \in 0..32, NEW n \in 0..17
  PROVE  \E w \in 0..2 :
           /\ CEnsure([ptr |-> p, left |-> l, ok |-> TRUE], size, n)
                 = [ptr |-> p + 2 * w, left |-> l + 16 * w, ok |-> (p + 2 * w <= size + 2)]
           /\ l + 16 * w >= n
           /\ w > 0 => l + 16 * w < n + 16
<1>1. PICK w : w = IF l < n THEN CeilDiv(n - l, WordBits) ELSE 0
  OBVIOUS
<1>2. w \in 0..2 /\ l + 16 * w >= n /\ (w > 0 => l + 16 * w < n + 16)
  BY <1>1 DEF CeilDiv, WordBits
<1>3. PICK c : c = [ptr |-> p, left |-> l, ok |-> TRUE]
  OBVIOUS
<1>4. PICK far : far = CAdvance(c, size, 2 * w)
  OBVIOUS
<1>5. CEnsure(c, size, n) = [far EXCEPT !.left = far.left + 16 * w]
  BY <1>1, <1>3, <1>4 DEF CEnsure, WordBits
<1>6. PICK q : q = p + 2 * w
  OBVIOUS
<1>7. far = [ptr |-> q, left |-> l, ok |-> (q <= size + 2)]
  <2>1. far = [c EXCEPT !.ptr = c.ptr + 2 * w, !.ok = c.ok /\ c.ptr + 2 * w <= size + 2]
    BY <1>4 DEF CAdvance, Faked
  <2>2. c.ptr + 2 * w = q /\ c.ok
    BY <1>3, <1>6
  <2>3. PICK within : within = (q <= size + 2)
    OBVIOUS
  <2>4. (c.ok /\ c.ptr + 2 * w <= size + 2) = within
    BY <2>2, <2>3
  <2>5. far = [c EXCEPT !.ptr = q, !.ok = within]
    BY <2>1, <2>2, <2>4
  <2>6. far = [ptr |-> q, left |-> l, ok |-> within]
    BY <1>3, <2>5
  <2>7. QED  BY <2>3, <2>6
<1>8. CEnsure(c, size, n) = [ptr |-> q, left |-> l + 16 * w, ok |-> (q <= size + 2)]
  BY <1>5, <1>7
<1>9. QED  BY <1>2, <1>3, <1>6, <1>8

(* What is left behind n bits, the reader having loaded what it needed.    *)
LEMMA CLeaves ==
  ASSUME NEW p \in Nat, NEW l \in 0..32, NEW need \in 0..17, NEW n \in 0..17,
         NEW w \in 0..2, n <= need, need - n < 16,
         p % 2 = 0, l + 16 * w >= need, w > 0 => l + 16 * w < need + 16
  PROVE  /\ p + 2 * w \in Nat /\ (p + 2 * w) % 2 = 0
         /\ l + 16 * w - n \in 0..32
         /\ 8 * (p + 2 * w) - (l + 16 * w - n) = 8 * p - l + n
<1>1. l + 16 * w - n \in Int /\ l + 16 * w - n >= 0
  OBVIOUS
<1>2. l + 16 * w - n <= 32
  <2>1. CASE w = 0
    BY <2>1
  <2>2. CASE w > 0
    BY <2>2
  <2>3. QED  BY <2>1, <2>2
<1>3. (p + 2 * w) % 2 = 0
  OBVIOUS
<1>4. QED  BY <1>1, <1>2, <1>3

LEMMA CWellParts ==
  ASSUME NEW p \in Nat, NEW l \in 0..32, p % 2 = 0, p <= size + 2
  PROVE  /\ CWell([ptr |-> p, left |-> l, ok |-> TRUE])
         /\ CPosition([ptr |-> p, left |-> l, ok |-> TRUE]) = 8 * p - l
BY DEF CWell, CReaders, CPosition, Faked

LEMMA CRemoveLeaves ==
  ASSUME NEW p, NEW l \in Int, NEW n \in Int
  PROVE  CRemove([ptr |-> p, left |-> l, ok |-> TRUE], n) = [ptr |-> p, left |-> l - n, ok |-> TRUE]
<1>1. PICK r : r = [ptr |-> p, left |-> l, ok |-> TRUE]
  OBVIOUS
<1>2. CRemove(r, n) = [r EXCEPT !.left = r.left - n]
  BY DEF CRemove
<1>3. r.left - n = l - n
  BY <1>1
<1>4. QED  BY <1>1, <1>2, <1>3

LEMMA CReadLoads ==
  ASSUME EvenSize, NEW c, CWell(c), NEW n \in 0..17, CPosition(c) + n <= 8 * size
  PROVE  CWell(CRead(c, size, n)) /\ CPosition(CRead(c, size, n)) = CPosition(c) + n
<1>1. PICK p \in Nat, l \in 0..32 :
        /\ c = [ptr |-> p, left |-> l, ok |-> TRUE]
        /\ p % 2 = 0 /\ p <= size + 2 /\ CPosition(c) = 8 * p - l
  BY CParts
<1>2. PICK w \in 0..2 :
        /\ CEnsure(c, size, n)
              = [ptr |-> p + 2 * w, left |-> l + 16 * w, ok |-> (p + 2 * w <= size + 2)]
        /\ l + 16 * w >= n
        /\ w > 0 => l + 16 * w < n + 16
  BY <1>1, EnsureLoads
<1>3. p % 2 = 0 /\ p <= size + 2 /\ 8 * p - l + n <= 8 * size
  BY <1>1
<1>4. l + 16 * w >= n /\ (w > 0 => l + 16 * w < n + 16)
  BY <1>2
<1>5. p + 2 * w <= size + 2
  <2>1. size \in Nat /\ size % 2 = 0
    BY DEF EvenSize
  <2>2. QED  BY <1>3, <1>4, <2>1
<1>6. /\ p + 2 * w \in Nat /\ (p + 2 * w) % 2 = 0
      /\ l + 16 * w - n \in 0..32
      /\ 8 * (p + 2 * w) - (l + 16 * w - n) = 8 * p - l + n
  BY <1>3, <1>4, CLeaves
<1>7. CRead(c, size, n) = CRemove([ptr |-> p + 2 * w, left |-> l + 16 * w, ok |-> TRUE], n)
  BY <1>2, <1>5 DEF CRead
<1>8. CRead(c, size, n) = [ptr |-> p + 2 * w, left |-> l + 16 * w - n, ok |-> TRUE]
  BY <1>7, CRemoveLeaves
<1>9. QED  BY <1>1, <1>5, <1>6, <1>8, CWellParts

LEMMA CSymbolLoads ==
  ASSUME EvenSize, NEW c, CWell(c), NEW code, NEW n \in 1..16, code.len = n,
         CPosition(c) + n <= 8 * size
  PROVE  /\ CWell(CSymbol(c, size, code))
         /\ CPosition(CSymbol(c, size, code)) = CPosition(c) + n
<1>1. PICK p \in Nat, l \in 0..32 :
        /\ c = [ptr |-> p, left |-> l, ok |-> TRUE]
        /\ p % 2 = 0 /\ p <= size + 2 /\ CPosition(c) = 8 * p - l
  BY CParts
<1>2. PICK w \in 0..2 :
        /\ CEnsure(c, size, 16)
              = [ptr |-> p + 2 * w, left |-> l + 16 * w, ok |-> (p + 2 * w <= size + 2)]
        /\ l + 16 * w >= 16
        /\ w > 0 => l + 16 * w < 16 + 16
  <2>1. 16 \in 0..17
    OBVIOUS
  <2>2. QED  BY <1>1, <2>1, EnsureLoads
<1>3. p % 2 = 0 /\ p <= size + 2 /\ 8 * p - l + n <= 8 * size
  BY <1>1
<1>4. l + 16 * w >= 16 /\ (w > 0 => l + 16 * w < 16 + 16)
  BY <1>2
<1>5. p + 2 * w <= size + 2
  <2>1. size \in Nat /\ size % 2 = 0
    BY DEF EvenSize
  <2>2. QED  BY <1>3, <1>4, <2>1
<1>6. /\ p + 2 * w \in Nat /\ (p + 2 * w) % 2 = 0
      /\ l + 16 * w - n \in 0..32
      /\ 8 * (p + 2 * w) - (l + 16 * w - n) = 8 * p - l + n
  BY <1>3, <1>4, CLeaves
<1>7. CSymbol(c, size, code)
        = CRemove([ptr |-> p + 2 * w, left |-> l + 16 * w, ok |-> TRUE], n)
  BY <1>2, <1>5 DEF CSymbol, WordBits
<1>8. CSymbol(c, size, code) = [ptr |-> p + 2 * w, left |-> l + 16 * w - n, ok |-> TRUE]
  BY <1>7, CRemoveLeaves
<1>9. QED  BY <1>1, <1>5, <1>6, <1>8, CWellParts

-----------------------------------------------------------------------------
(* As long as Python has the bits, C has them, and both move on by as many.*)
LEMMA PyMoved ==
  ASSUME EvenSize, NEW r, PyWell(r), r.ok, NEW n \in 0..17, NEW s, NEW w \in 0..2,
         NEW ok \in BOOLEAN,
         s = [pos |-> r.pos + 2 * w, avail |-> r.avail + 16 * w - n, ok |-> ok],
         r.pos + 2 * w <= size, r.avail + 16 * w <= 32, ok => r.avail + 16 * w >= n
  PROVE  /\ PyWell(s)
         /\ s.ok => PyPosition(s) = PyPosition(r) + n /\ PyPosition(r) + n <= 8 * size
<1>1. PICK pos \in Nat, avail \in 0..32 : pos = r.pos /\ avail = r.avail /\ pos % 2 = 0
  BY DEF PyWell, PyReaders
<1>2. /\ s.pos = pos + 2 * w /\ s.avail = avail + 16 * w - n /\ s.ok = ok
      /\ s = [pos |-> pos + 2 * w, avail |-> avail + 16 * w - n, ok |-> ok]
  BY <1>1
<1>3. /\ pos + 2 * w <= size /\ avail + 16 * w <= 32 /\ size \in Nat
      /\ ok => avail + 16 * w >= n
  BY <1>1 DEF EvenSize
<1>4. /\ pos + 2 * w \in Nat /\ avail + 16 * w - n \in Int /\ (pos + 2 * w) % 2 = 0
      /\ ok => avail + 16 * w - n \in 0..32
  <2>1. pos + 2 * w \in Nat /\ avail + 16 * w - n \in Int
    OBVIOUS
  <2>2. (pos + 2 * w) % 2 = 0
    BY <1>1
  <2>3. ASSUME ok PROVE avail + 16 * w - n \in 0..32
    BY <1>3, <2>3
  <2>4. QED  BY <2>1, <2>2, <2>3
<1>5. s \in PyReaders
  BY <1>2, <1>4 DEF PyReaders
<1>6. PyWell(s)
  BY <1>2, <1>3, <1>4, <1>5 DEF PyWell
<1>7. PyPosition(s) = 8 * (pos + 2 * w) - (avail + 16 * w - n) /\ PyPosition(r) = 8 * pos - avail
  BY <1>1, <1>2 DEF PyPosition
<1>8. ASSUME ok
      PROVE  8 * pos - avail + n <= 8 * size
  BY <1>3, <1>8
<1>9. 8 * (pos + 2 * w) - (avail + 16 * w - n) = 8 * pos - avail + n
  OBVIOUS
<1>10. QED  BY <1>2, <1>6, <1>7, <1>8, <1>9

LEMMA ReadTogether ==
  ASSUME EvenSize, NEW r, NEW c, Together(r, c), NEW n \in 0..17
  PROVE  /\ Together(PyRead(r, size, n), CRead(c, size, n))
         /\ PyRead(r, size, n).ok => r.ok
<1>1. CASE ~r.ok
  <2>1. r \in PyReaders /\ n \in Int
    BY DEF Together, PyWell
  <2>2. QED  BY <1>1, <2>1, ReadFailed DEF Together, PyWell
<1>2. CASE r.ok
  <2>1. PICK w \in 0..2, ok \in BOOLEAN :
          /\ PyRead(r, size, n) = [pos |-> r.pos + 2 * w, avail |-> r.avail + 16 * w - n, ok |-> ok]
          /\ r.pos + 2 * w <= size /\ r.avail + 16 * w <= 32
          /\ ok => r.avail + 16 * w >= n
    BY <1>2, ReadLoads DEF Together
  <2>2. PICK s : s = PyRead(r, size, n)
    OBVIOUS
  <2>3. /\ PyWell(s)
        /\ s.ok => PyPosition(s) = PyPosition(r) + n /\ PyPosition(r) + n <= 8 * size
    BY <1>2, <2>1, <2>2, PyMoved DEF Together
  <2>4. ASSUME s.ok
        PROVE  CWell(CRead(c, size, n)) /\ PyPosition(s) = CPosition(CRead(c, size, n))
    BY <1>2, <2>3, <2>4, CReadLoads DEF Together
  <2>5. QED  BY <1>2, <2>2, <2>3, <2>4 DEF Together
<1>3. QED  BY <1>1, <1>2

LEMMA DropMoved ==
  ASSUME EvenSize, NEW t, PyWell(t), t.ok, NEW n \in 0..17, n <= t.avail
  PROVE  /\ PyWell(PyDrop(t, n)) /\ PyDrop(t, n).ok
         /\ PyPosition(PyDrop(t, n)) = PyPosition(t) + n
         /\ PyPosition(t) + n <= 8 * size
<1>1. /\ t \in PyReaders /\ t.pos \in Nat /\ t.avail \in 0..32 /\ t.pos <= size
  BY DEF PyWell, PyReaders
<1>2. PyDrop(t, n) = [pos |-> t.pos + 2 * 0, avail |-> t.avail + 16 * 0 - n, ok |-> TRUE]
  <2>1. PyDrop(t, n) = [t EXCEPT !.avail = t.avail - n]
    BY DEF PyDrop
  <2>2. t.pos + 2 * 0 = t.pos /\ t.avail + 16 * 0 - n = t.avail - n
    BY <1>1
  <2>3. PyDrop(t, n) = [pos |-> t.pos, avail |-> t.avail - n, ok |-> TRUE]
    BY <1>1, <2>1 DEF PyReaders
  <2>4. QED  BY <2>2, <2>3
<1>3. t.pos + 2 * 0 <= size /\ t.avail + 16 * 0 <= 32 /\ t.avail + 16 * 0 >= n
  BY <1>1
<1>4. PICK s : s = PyDrop(t, n)
  OBVIOUS
<1>5. s.ok
  BY <1>2, <1>4
<1>6. 0 \in 0..2 /\ TRUE \in BOOLEAN
  OBVIOUS
<1>7. /\ PyWell(s)
      /\ s.ok => PyPosition(s) = PyPosition(t) + n /\ PyPosition(t) + n <= 8 * size
  BY <1>2, <1>3, <1>4, <1>6, PyMoved
<1>8. QED  BY <1>4, <1>5, <1>7

LEMMA ReadMoved ==
  ASSUME EvenSize, NEW r, PyWell(r), r.ok, NEW n \in 0..17
  PROVE  /\ PyWell(PyRead(r, size, n))
         /\ PyRead(r, size, n).ok =>
              /\ PyPosition(PyRead(r, size, n)) = PyPosition(r) + n
              /\ PyPosition(r) + n <= 8 * size
<1>1. PICK w \in 0..2, ok \in BOOLEAN :
        /\ PyRead(r, size, n) = [pos |-> r.pos + 2 * w, avail |-> r.avail + 16 * w - n, ok |-> ok]
        /\ r.pos + 2 * w <= size /\ r.avail + 16 * w <= 32
        /\ ok => r.avail + 16 * w >= n
  BY ReadLoads
<1>2. PICK s : s = PyRead(r, size, n)
  OBVIOUS
<1>3. /\ PyWell(s)
      /\ s.ok => PyPosition(s) = PyPosition(r) + n /\ PyPosition(r) + n <= 8 * size
  BY <1>1, <1>2, PyMoved
<1>4. QED  BY <1>2, <1>3

LEMMA WalkMoved ==
  ASSUME EvenSize, NEW t, PyWell(t), t.ok, NEW n \in 1..16
  PROVE  /\ PyWell(PyWalk(t, size, n))
         /\ PyWalk(t, size, n).ok =>
              /\ PyPosition(PyWalk(t, size, n)) = PyPosition(t) + n
              /\ PyPosition(t) + n <= 8 * size
<1>1. t.avail \in 0..32 /\ n \in 0..17
  BY DEF PyWell
<1>2. CASE t.avail >= n
  <2>1. PyWalk(t, size, n) = PyDrop(t, n) /\ n <= t.avail
    BY <1>1, <1>2 DEF PyWalk
  <2>2. QED  BY <1>1, <2>1, DropMoved
<1>3. CASE ~(t.avail >= n)
  <2>1. PICK u : u = PyDrop(t, t.avail)
    OBVIOUS
  <2>2. t.avail \in 0..17 /\ t.avail <= t.avail /\ n - t.avail \in 0..17
    BY <1>1, <1>3
  <2>3. PyWell(u) /\ u.ok /\ PyPosition(u) = PyPosition(t) + t.avail
    BY <2>1, <2>2, DropMoved
  <2>4. PyWalk(t, size, n) = PyRead(u, size, n - t.avail)
    BY <1>3, <2>1 DEF PyWalk
  <2>5. /\ PyWell(PyRead(u, size, n - t.avail))
        /\ PyRead(u, size, n - t.avail).ok =>
             /\ PyPosition(PyRead(u, size, n - t.avail)) = PyPosition(u) + (n - t.avail)
             /\ PyPosition(u) + (n - t.avail) <= 8 * size
    BY <2>2, <2>3, ReadMoved
  <2>6. PyPosition(t) \in Int
    BY DEF PyWell, PyReaders, PyPosition
  <2>7. PyPosition(u) + (n - t.avail) = PyPosition(t) + n
    BY <1>1, <2>3, <2>6
  <2>8. QED  BY <2>4, <2>5, <2>7
<1>4. QED  BY <1>2, <1>3

LEMMA SymbolMoved ==
  ASSUME EvenSize, NEW r, PyWell(r), r.ok, NEW code \in [len : 1..16, table : 1..12]
  PROVE  /\ PyWell(PySymbol(r, size, code))
         /\ PySymbol(r, size, code).ok =>
              /\ PyPosition(PySymbol(r, size, code)) = PyPosition(r) + code.len
              /\ PyPosition(r) + code.len <= 8 * size
<1>1. code.len \in 1..16 /\ code.table \in 0..17 /\ code.len \in 0..17 /\ code.table \in 1..12
  OBVIOUS
<1>2. PICK w \in 0..2, ok \in BOOLEAN :
        /\ PyPeek(r, size, code.table) =
             [pos |-> r.pos + 2 * w, avail |-> r.avail + 16 * w, ok |-> ok]
        /\ r.pos + 2 * w <= size /\ r.avail + 16 * w <= 32
        /\ ok => r.avail + 16 * w >= code.table
  BY <1>1, PeekLoads
<1>3. PICK seen : seen = PyPeek(r, size, code.table)
  OBVIOUS
<1>4. r.pos \in Nat /\ r.avail \in 0..32 /\ size \in Nat
  BY DEF PyWell, PyReaders, EvenSize
<1>5. PICK t : t = [seen EXCEPT !.ok = TRUE]
  OBVIOUS
<1>6. t = [pos |-> r.pos + 2 * w, avail |-> r.avail + 16 * w - 0, ok |-> TRUE]
  <2>1. r.avail + 16 * w - 0 = r.avail + 16 * w
    BY <1>4
  <2>2. seen = [pos |-> r.pos + 2 * w, avail |-> r.avail + 16 * w, ok |-> ok]
    BY <1>2, <1>3
  <2>3. t = [pos |-> r.pos + 2 * w, avail |-> r.avail + 16 * w, ok |-> TRUE]
    BY <1>5, <2>2
  <2>4. QED  BY <2>1, <2>3
<1>7. PyWell(t) /\ t.ok /\ PyPosition(t) = PyPosition(r)
  <2>1. 0 \in 0..17 /\ TRUE \in BOOLEAN /\ r.avail + 16 * w >= 0
    BY <1>4
  <2>2. r.pos + 2 * w <= size /\ r.avail + 16 * w <= 32
    BY <1>2
  <2>3. t.ok
    BY <1>6
  <2>4. PyWell(t) /\ PyPosition(t) = PyPosition(r) + 0
    BY <1>6, <2>1, <2>2, <2>3, PyMoved
  <2>5. PyPosition(r) \in Int
    BY <1>4 DEF PyPosition
  <2>6. QED  BY <2>3, <2>4, <2>5
<1>8. CASE seen.ok /\ code.len <= code.table
  <2>1. t.avail = r.avail + 16 * w
    BY <1>4, <1>6
  <2>2. code.len <= t.avail
    BY <1>1, <1>2, <1>3, <1>4, <1>8, <2>1
  <2>3. seen = t
    <3>1. seen = [pos |-> r.pos + 2 * w, avail |-> r.avail + 16 * w, ok |-> ok]
      BY <1>2, <1>3
    <3>2. ok
      BY <1>8, <3>1
    <3>3. QED  BY <1>5, <3>1, <3>2
  <2>4. PySymbol(r, size, code) = PyDrop(t, code.len)
    BY <1>3, <1>8, <2>3 DEF PySymbol
  <2>5. QED  BY <1>1, <1>7, <2>2, <2>4, DropMoved
<1>9. CASE ~(seen.ok /\ code.len <= code.table)
  <2>1. PySymbol(r, size, code) = PyWalk(t, size, code.len)
    BY <1>3, <1>5, <1>9 DEF PySymbol, PyWell
  <2>2. QED  BY <1>1, <1>7, <2>1, WalkMoved
<1>10. QED  BY <1>8, <1>9

LEMMA SymbolTogether ==
  ASSUME EvenSize, NEW r, NEW c, Together(r, c), NEW code \in [len : 1..16, table : 1..12]
  PROVE  /\ Together(PySymbol(r, size, code), CSymbol(c, size, code))
         /\ PySymbol(r, size, code).ok => r.ok
<1>1. CASE ~r.ok
  <2>1. r \in PyReaders
    BY DEF Together, PyWell
  <2>2. QED  BY <1>1, <2>1, SymbolFailed DEF Together, PyWell
<1>2. CASE r.ok
  <2>1. PICK s : s = PySymbol(r, size, code)
    OBVIOUS
  <2>2. /\ PyWell(s)
        /\ s.ok => PyPosition(s) = PyPosition(r) + code.len /\ PyPosition(r) + code.len <= 8 * size
    BY <1>2, <2>1, SymbolMoved DEF Together
  <2>3. ASSUME s.ok
        PROVE  CWell(CSymbol(c, size, code)) /\ PyPosition(s) = CPosition(CSymbol(c, size, code))
    <3>1. code.len \in 1..16
      OBVIOUS
    <3>2. CWell(c) /\ CPosition(c) + code.len <= 8 * size /\ PyPosition(r) = CPosition(c)
      BY <1>2, <2>2, <2>3 DEF Together
    <3>3. QED  BY <2>2, <2>3, <3>1, <3>2, CSymbolLoads
  <2>4. QED  BY <1>2, <2>1, <2>2, <2>3 DEF Together
<1>3. QED  BY <1>1, <1>2

-----------------------------------------------------------------------------
(* Both go to the same word at the end of a frame.                         *)
LEMMA PyFrameAlignMoved ==
  ASSUME EvenSize, NEW r, PyWell(r), r.ok
  PROVE  /\ PyWell(PyFrameAlign(r, size)) /\ PyFrameAlign(r, size).ok
         /\ PyPosition(PyFrameAlign(r, size)) = PyPosition(r) + (r.avail % 16)
<1>1. r.pos \in Nat /\ r.avail \in 0..32 /\ PyPosition(r) \in Int
  BY DEF PyWell, PyReaders, PyPosition
<1>2. CASE r.avail > 0
  <2>1. PICK w \in 0..2 :
          /\ PyRefill(r, size) = [pos |-> r.pos + 2 * w, avail |-> r.avail + 16 * w, ok |-> TRUE]
          /\ r.pos + 2 * w <= size /\ r.avail + 16 * w <= 32
    BY RefillLoads
  <2>2. PICK full : full = PyRefill(r, size)
    OBVIOUS
  <2>3. full = [pos |-> r.pos + 2 * w, avail |-> r.avail + 16 * w - 0, ok |-> TRUE]
    <3>1. r.avail + 16 * w - 0 = r.avail + 16 * w
      BY <1>1
    <3>2. QED  BY <2>1, <2>2, <3>1
  <2>4. PyWell(full) /\ full.ok /\ PyPosition(full) = PyPosition(r)
    <3>1. 0 \in 0..17 /\ TRUE \in BOOLEAN /\ r.avail + 16 * w >= 0
      BY <1>1
    <3>2. r.pos + 2 * w <= size /\ r.avail + 16 * w <= 32
      BY <2>1
    <3>3. full.ok
      BY <2>3
    <3>4. PyWell(full) /\ PyPosition(full) = PyPosition(r) + 0
      BY <2>3, <3>1, <3>2, <3>3, PyMoved
    <3>5. QED  BY <1>1, <3>3, <3>4
  <2>5. full.avail = r.avail + 16 * w
    BY <2>1, <2>2
  <2>6. /\ full.avail % 16 = r.avail % 16 /\ full.avail % 16 \in 0..17
        /\ full.avail % 16 <= full.avail
    BY <1>1, <2>5
  <2>7. PyFrameAlign(r, size) = PyDrop(full, full.avail % 16)
    BY <1>2, <2>2 DEF PyFrameAlign, WordBits
  <2>8. QED  BY <2>4, <2>6, <2>7, DropMoved
<1>3. CASE ~(r.avail > 0)
  <2>1. PyFrameAlign(r, size) = r
    BY <1>3 DEF PyFrameAlign
  <2>2. r.avail % 16 = 0
    BY <1>1, <1>3
  <2>3. QED  BY <1>1, <2>1, <2>2
<1>4. QED  BY <1>2, <1>3

LEMMA CFrameAlignMoved ==
  ASSUME EvenSize, NEW c, CWell(c), c.left \in 1..15 => c.ptr <= size
  PROVE  /\ CWell(CFrameAlign(c, size)) /\ CFrameAlign(c, size).left \in {0, 16, 32}
         /\ CPosition(CFrameAlign(c, size)) = CPosition(c) + (c.left % 16)
<1>1. PICK p \in Nat, l \in 0..32 :
        /\ c = [ptr |-> p, left |-> l, ok |-> TRUE]
        /\ p % 2 = 0 /\ p <= size + 2 /\ CPosition(c) = 8 * p - l
  BY CParts
<1>2. p % 2 = 0 /\ p <= size + 2 /\ (l \in 1..15 => p <= size) /\ size \in Nat /\ c.left = l
  BY <1>1 DEF EvenSize
<1>3. CASE l > 0
  <2>1. PICK w \in 0..2 :
          /\ CEnsure(c, size, 16)
                = [ptr |-> p + 2 * w, left |-> l + 16 * w, ok |-> (p + 2 * w <= size + 2)]
          /\ l + 16 * w >= 16
          /\ w > 0 => l + 16 * w < 16 + 16
    <3>1. 16 \in 0..17
      OBVIOUS
    <3>2. QED  BY <1>1, <3>1, EnsureLoads
  <2>2. l + 16 * w >= 16 /\ (w > 0 => l + 16 * w < 32)
    BY <2>1
  <2>3. p + 2 * w <= size + 2
    BY <1>2, <1>3, <2>2
  <2>4. PICK n : n = (l + 16 * w) % 16
    OBVIOUS
  <2>5. n = l % 16 /\ n \in 0..15
    BY <2>4
  <2>6. /\ p + 2 * w \in Nat /\ (p + 2 * w) % 2 = 0
        /\ l + 16 * w - n \in {0, 16, 32} /\ l + 16 * w - n \in 0..32
        /\ 8 * (p + 2 * w) - (l + 16 * w - n) = 8 * p - l + n
    BY <1>2, <2>2, <2>5
  <2>7. CFrameAlign(c, size)
          = CRemove([ptr |-> p + 2 * w, left |-> l + 16 * w, ok |-> TRUE], n)
    <3>1. PICK full : full = CEnsure(c, size, 16)
      OBVIOUS
    <3>2. full = [ptr |-> p + 2 * w, left |-> l + 16 * w, ok |-> TRUE]
      BY <2>1, <2>3, <3>1
    <3>3. CFrameAlign(c, size) = CRemove(full, full.left % 16)
      BY <1>2, <1>3, <3>1 DEF CFrameAlign, WordBits
    <3>4. QED  BY <2>4, <3>2, <3>3
  <2>8. CFrameAlign(c, size) = [ptr |-> p + 2 * w, left |-> l + 16 * w - n, ok |-> TRUE]
    BY <2>5, <2>7, CRemoveLeaves
  <2>9. /\ CWell([ptr |-> p + 2 * w, left |-> l + 16 * w - n, ok |-> TRUE])
        /\ CPosition([ptr |-> p + 2 * w, left |-> l + 16 * w - n, ok |-> TRUE])
              = 8 * (p + 2 * w) - (l + 16 * w - n)
    BY <2>3, <2>6, CWellParts
  <2>10. QED  BY <1>1, <1>2, <2>5, <2>6, <2>8, <2>9
<1>4. CASE l = 0
  <2>1. CFrameAlign(c, size) = CRemove(c, 0)
    BY <1>2, <1>4 DEF CFrameAlign, WordBits
  <2>2. CRemove(c, 0) = [ptr |-> p, left |-> 0, ok |-> TRUE]
    BY <1>1, <1>4, CRemoveLeaves
  <2>3. CFrameAlign(c, size) = c /\ c.left % 16 = 0
    BY <1>1, <1>2, <1>4, <2>1, <2>2
  <2>4. CPosition(c) = CPosition(c) + 0
    BY <1>1
  <2>5. QED  BY <1>2, <1>4, <2>3, <2>4
<1>5. QED  BY <1>3, <1>4

LEMMA SameWord ==
  ASSUME NEW r, PyWell(r), r.ok, NEW c, CWell(c), PyPosition(r) = CPosition(c), EvenSize
  PROVE  r.avail % 16 = c.left % 16 /\ (c.left \in 1..15 => c.ptr <= size)
<1>0. PICK p \in Nat, l \in 0..32 :
        /\ c = [ptr |-> p, left |-> l, ok |-> TRUE]
        /\ p % 2 = 0 /\ p <= size + 2 /\ CPosition(c) = 8 * p - l
  BY CParts
<1>1. c.ptr = p /\ c.left = l /\ p % 2 = 0 /\ CPosition(c) = 8 * p - l
  BY <1>0
<1>2. PICK q \in Nat, a \in 0..32 :
        r.pos = q /\ r.avail = a /\ q % 2 = 0 /\ PyPosition(r) = 8 * q - a /\ q <= size
  BY DEF PyWell, PyReaders, PyPosition
<1>3. p % 2 = 0 /\ q % 2 = 0 /\ 8 * p - l = 8 * q - a /\ q <= size /\ size \in Nat
  BY <1>1, <1>2 DEF EvenSize
<1>4. a % 16 = l % 16
  BY <1>3
<1>5. l \in 1..15 => p <= size
  BY <1>3, <1>4
<1>6. QED  BY <1>1, <1>2, <1>4, <1>5

LEMMA FrameAlignTogether ==
  ASSUME EvenSize, NEW r, NEW c, Together(r, c), r.ok
  PROVE  /\ PyFrameAlign(r, size).ok
         /\ Together(PyFrameAlign(r, size), CFrameAlign(c, size))
         /\ Together(PyFrameAlign(r, size), CFrameAlign(CFrameAlign(c, size), size))
<1>1. /\ PyWell(r) /\ CWell(c) /\ PyPosition(r) = CPosition(c)
      /\ r.avail % 16 = c.left % 16 /\ (c.left \in 1..15 => c.ptr <= size)
  BY SameWord DEF Together
<1>2. /\ PyWell(PyFrameAlign(r, size)) /\ PyFrameAlign(r, size).ok
      /\ PyPosition(PyFrameAlign(r, size)) = PyPosition(r) + (r.avail % 16)
  BY <1>1, PyFrameAlignMoved
<1>3. PICK d : d = CFrameAlign(c, size)
  OBVIOUS
<1>4. CWell(d) /\ d.left \in {0, 16, 32} /\ CPosition(d) = CPosition(c) + (c.left % 16)
  BY <1>1, <1>3, CFrameAlignMoved
<1>5. ~(d.left \in 1..15) /\ d.left % 16 = 0
  BY <1>4
<1>6. CWell(CFrameAlign(d, size)) /\ CPosition(CFrameAlign(d, size)) = CPosition(d) + 0
  BY <1>4, <1>5, CFrameAlignMoved
<1>7. CPosition(d) \in Int
  BY <1>4 DEF CWell, CReaders, CPosition
<1>8. QED  BY <1>1, <1>2, <1>3, <1>4, <1>6, <1>7 DEF Together

-----------------------------------------------------------------------------
LEMMA FieldsTogether ==
  ASSUME EvenSize, NEW r, NEW c, Together(r, c),
         NEW n \in 0..17, NEW m \in 0..17, NEW k \in 0..17
  PROVE  /\ Together(PyRead(PyRead(PyRead(r, size, n), size, m), size, k),
                     CRead(CRead(CRead(c, size, n), size, m), size, k))
         /\ PyRead(PyRead(PyRead(r, size, n), size, m), size, k).ok => r.ok
<1>1. /\ Together(PyRead(r, size, n), CRead(c, size, n))
      /\ PyRead(r, size, n).ok => r.ok
  BY ReadTogether
<1>2. /\ Together(PyRead(PyRead(r, size, n), size, m), CRead(CRead(c, size, n), size, m))
      /\ PyRead(PyRead(r, size, n), size, m).ok => r.ok
  BY <1>1, ReadTogether
<1>3. QED  BY <1>2, ReadTogether

LEMMA ReadKeeps ==
  ASSUME EvenSize, NEW t, PyWell(t), t.ok, NEW n \in 0..17, NEW u, u = PyRead(t, size, n), u.ok
  PROVE  \E w \in 0..2 : /\ u.avail = t.avail + 16 * w - n
                         /\ t.avail + 16 * w <= 32 /\ t.avail + 16 * w >= n
                         /\ t.avail > 0 => w <= 1
                         /\ t.avail >= n => w = 0
<1>1. PICK w \in 0..2, ok \in BOOLEAN :
        /\ PyRead(t, size, n) = [pos |-> t.pos + 2 * w, avail |-> t.avail + 16 * w - n, ok |-> ok]
        /\ t.pos + 2 * w <= size /\ t.avail + 16 * w <= 32
        /\ t.avail > 0 => w <= 1
        /\ ok => t.avail + 16 * w >= n
        /\ t.avail >= n => w = 0
  BY ReadLoads
<1>2. u.ok = ok /\ u.avail = t.avail + 16 * w - n
  BY <1>1
<1>3. QED  BY <1>1, <1>2

(* How many bits Python has buffered behind a block header.                *)
LEMMA HeaderAvail ==
  ASSUME EvenSize, NEW r, PyWell(r), r.ok,
         NEW s, s = PyRead(PyRead(PyRead(r, size, 3), size, 16), size, 8), s.ok
  PROVE  s.avail \in 0..15 \cup {24}
<1>1. PICK r1 : r1 = PyRead(r, size, 3)
  OBVIOUS
<1>2. PICK r2 : r2 = PyRead(r1, size, 16)
  OBVIOUS
<1>3. 3 \in 0..17 /\ 16 \in 0..17 /\ 8 \in 0..17 /\ s = PyRead(r2, size, 8)
  BY <1>1, <1>2
<1>4. PyWell(r1)
  BY <1>1, <1>3, ReadMoved
<1>5. r1.ok
  <2>1. CASE r1.ok
    BY <2>1
  <2>2. CASE ~r1.ok
    <3>1. r1 \in PyReaders
      BY <1>4 DEF PyWell
    <3>2. r2 \in PyReaders /\ ~r2.ok
      BY <1>2, <2>2, <3>1, ReadFailed
    <3>3. ~s.ok
      BY <1>3, <3>2, ReadFailed
    <3>4. QED  BY <3>3
  <2>3. QED  BY <2>1, <2>2
<1>6. PyWell(r2)
  BY <1>2, <1>3, <1>4, <1>5, ReadMoved
<1>7. r2.ok
  <2>1. CASE ~r2.ok
    <3>1. r2 \in PyReaders
      BY <1>6 DEF PyWell
    <3>2. QED  BY <1>3, <2>1, <3>1, ReadFailed
  <2>2. QED  BY <2>1
<1>8. /\ PyWell(r1) /\ r1.ok /\ PyWell(r2) /\ r2.ok
      /\ r.avail \in 0..32 /\ r1.avail \in 0..32 /\ r2.avail \in 0..32
  BY <1>4, <1>5, <1>6, <1>7 DEF PyWell
<1>9. r1.avail \in 0..29
  <2>1. PICK w \in 0..2 : r1.avail = r.avail + 16 * w - 3 /\ r.avail + 16 * w <= 32
    BY <1>1, <1>3, <1>8, ReadKeeps
  <2>2. QED  BY <1>8, <2>1
<1>10. r2.avail \in 0..16
  <2>1. PICK w \in 0..2 :
          /\ r2.avail = r1.avail + 16 * w - 16 /\ r1.avail + 16 * w <= 32
          /\ r1.avail > 0 => w <= 1
          /\ r1.avail >= 16 => w = 0
    BY <1>2, <1>3, <1>8, ReadKeeps
  <2>2. QED  BY <1>8, <1>9, <2>1
<1>11. s.avail \in 0..15 \cup {24}
  <2>1. PICK w \in 0..2 :
          /\ s.avail = r2.avail + 16 * w - 8 /\ r2.avail + 16 * w <= 32
          /\ r2.avail + 16 * w >= 8
          /\ r2.avail > 0 => w <= 1
          /\ r2.avail >= 8 => w = 0
    BY <1>3, <1>8, ReadKeeps
  <2>2. CASE r2.avail >= 8
    BY <1>10, <2>1, <2>2
  <2>3. CASE r2.avail \in 1..7
    BY <2>1, <2>3
  <2>4. CASE r2.avail = 0
    BY <2>1, <2>4
  <2>5. QED  BY <1>10, <2>2, <2>3, <2>4
<1>12. QED  BY <1>11

(* Where the data of a stored block begins: both go to the next word, but  *)
(* if Python has no bit or one byte left it stays, and C goes on.          *)
LEMMA NextWord ==
  ASSUME NEW q \in Nat, NEW a \in 0..15 \cup {24}, NEW p \in Nat, NEW l \in 0..32,
         NEW w \in 0..2, NEW at, NEW place,
         q % 2 = 0, p % 2 = 0, 8 * p - l = 8 * q - a,
         l + 16 * w >= 16, w > 0 => l + 16 * w < 32,
         at = ((8 * q - a + 8 - 1) \div 8) + (IF a > 8 THEN 1 ELSE 0),
         place = IF l + 16 * w > 16 THEN p + 2 * w - 2 ELSE p + 2 * w
  PROVE  /\ place \in Int /\ at \in Int /\ at + 12 \in Nat
         /\ a \notin {0, 8} => place = at /\ at % 2 = 0 /\ p + 2 * w <= at + 2
         /\ a \in {0, 8} => place # at
<1>1. a % 16 = l % 16
  OBVIOUS
<1>2. CASE a \in 1..7
  <2>1. at = q
    BY <1>2
  <2>2. l + 16 * w = a + 16
    BY <1>1, <1>2
  <2>3. QED  BY <1>2, <2>1, <2>2
<1>3. CASE a \in 9..15
  <2>1. at = q
    BY <1>3
  <2>2. l + 16 * w = a + 16
    BY <1>1, <1>3
  <2>3. QED  BY <1>3, <2>1, <2>2
<1>4. CASE a = 24
  <2>1. at = q - 2
    BY <1>4
  <2>2. l + 16 * w = 24
    BY <1>1, <1>4
  <2>3. QED  BY <1>4, <2>1, <2>2
<1>5. CASE a = 0
  <2>1. at = q
    BY <1>5
  <2>2. l + 16 * w \in {16, 32}
    BY <1>1, <1>5
  <2>3. QED  BY <1>5, <2>1, <2>2
<1>6. CASE a = 8
  <2>1. at = q - 1
    BY <1>6
  <2>2. l + 16 * w = 24
    BY <1>1, <1>6
  <2>3. QED  BY <1>6, <2>1, <2>2
<1>7. QED  BY <1>2, <1>3, <1>4, <1>5, <1>6

LEMMA CAdvanced ==
  ASSUME NEW q \in Int, NEW ok, NEW n \in Nat, size \in Nat
  PROVE  CAdvance([ptr |-> q, left |-> 0, ok |-> ok], size, n)
           = [ptr |-> q + n, left |-> 0, ok |-> (ok /\ q + n <= size + 2)]
<1>1. PICK c : c = [ptr |-> q, left |-> 0, ok |-> ok]
  OBVIOUS
<1>2. CAdvance(c, size, n) = [c EXCEPT !.ptr = c.ptr + n, !.ok = c.ok /\ c.ptr + n <= size + 2]
  BY DEF CAdvance, Faked
<1>3. c.ptr + n = q + n
  BY <1>1
<1>4. PICK within : within = (ok /\ q + n <= size + 2)
  OBVIOUS
<1>5. (c.ok /\ c.ptr + n <= size + 2) = within
  BY <1>1, <1>3, <1>4
<1>6. CAdvance(c, size, n) = [c EXCEPT !.ptr = q + n, !.ok = within]
  BY <1>2, <1>3, <1>5
<1>7. CAdvance(c, size, n) = [ptr |-> q + n, left |-> 0, ok |-> within]
  BY <1>1, <1>6
<1>8. QED  BY <1>1, <1>4, <1>7

LEMMA StoredPlace ==
  ASSUME EvenSize, NEW r, NEW c, Together(r, c), r.ok, r.avail \in 0..15 \cup {24},
         NEW at, at = PyAlign(r).pos, NEW d, d = CAdvance(CAlign(c, size), size, 12)
  PROVE  /\ at \in Int /\ at + 12 \in Nat
         /\ PyAlign(r) = [pos |-> at, avail |-> 0, ok |-> TRUE]
         /\ r.avail \notin {0, 8} /\ at + 12 <= size =>
              d = [ptr |-> at + 12, left |-> 0, ok |-> TRUE] /\ at % 2 = 0
         /\ r.avail \in {0, 8} => CPosition(d) # 8 * (at + 12)
<1>0. size \in Nat /\ 12 \in Nat
  BY DEF EvenSize
<1>1. PICK p \in Nat, l \in 0..32 :
        /\ c = [ptr |-> p, left |-> l, ok |-> TRUE]
        /\ p % 2 = 0 /\ p <= size + 2 /\ CPosition(c) = 8 * p - l
  BY CParts DEF Together
<1>2. PICK q \in Nat, a \in 0..15 \cup {24} :
        r.pos = q /\ r.avail = a /\ q % 2 = 0 /\ PyPosition(r) = 8 * q - a
  BY DEF Together, PyWell, PyReaders, PyPosition
<1>3. PICK w \in 0..2 :
        /\ CEnsure(c, size, 16)
              = [ptr |-> p + 2 * w, left |-> l + 16 * w, ok |-> (p + 2 * w <= size + 2)]
        /\ l + 16 * w >= 16
        /\ w > 0 => l + 16 * w < 16 + 16
  <2>1. 16 \in 0..17
    OBVIOUS
  <2>2. QED  BY <1>1, <2>1, EnsureLoads
<1>4. PICK place : place = IF l + 16 * w > 16 THEN p + 2 * w - 2 ELSE p + 2 * w
  OBVIOUS
<1>5. PyAlign(r) = [pos |-> at, avail |-> 0, ok |-> TRUE]
  <2>1. r = [pos |-> r.pos, avail |-> r.avail, ok |-> TRUE]
    BY DEF Together, PyWell, PyReaders
  <2>2. PICK far : far = CeilDiv(8 * r.pos - r.avail, 8) + IF r.avail > 8 THEN 1 ELSE 0
    OBVIOUS
  <2>3. PyAlign(r) = [r EXCEPT !.pos = far, !.avail = 0]
    BY <2>2 DEF PyAlign
  <2>4. PyAlign(r) = [pos |-> far, avail |-> 0, ok |-> TRUE]
    BY <2>1, <2>3
  <2>5. at = far
    BY <2>4
  <2>6. QED  BY <2>4, <2>5
<1>6. at = ((8 * q - a + 8 - 1) \div 8) + (IF a > 8 THEN 1 ELSE 0)
  BY <1>2 DEF PyAlign, CeilDiv, Together, PyWell, PyReaders
<1>7. 8 * p - l = 8 * q - a
  BY <1>1, <1>2 DEF Together
<1>8. /\ place \in Int /\ at \in Int /\ at + 12 \in Nat
      /\ a \notin {0, 8} => place = at /\ at % 2 = 0 /\ p + 2 * w <= at + 2
      /\ a \in {0, 8} => place # at
  <2>1. q % 2 = 0 /\ p % 2 = 0 /\ l + 16 * w >= 16 /\ (w > 0 => l + 16 * w < 32)
    BY <1>1, <1>2, <1>3
  <2>2. /\ place \in Int /\ at \in Int /\ at + 12 \in Nat
        /\ a \notin {0, 8} => place = at /\ at % 2 = 0 /\ p + 2 * w <= at + 2
        /\ a \in {0, 8} => place # at
    BY ONLY <1>4, <1>6, <1>7, <2>1, NextWord, q \in Nat, a \in 0..15 \cup {24}, p \in Nat,
            l \in 0..32, w \in 0..2
  <2>3. QED  BY <2>2
<1>9. PICK ok : ok = (p + 2 * w <= size + 2)
  OBVIOUS
<1>10. CAlign(c, size) = [ptr |-> place, left |-> 0, ok |-> ok]
  <2>1. PICK full : full = CEnsure(c, size, 16)
    OBVIOUS
  <2>2. full = [ptr |-> p + 2 * w, left |-> l + 16 * w, ok |-> ok]
    BY <1>3, <1>9, <2>1
  <2>3. CAlign(c, size) = [full EXCEPT !.ptr = IF full.left > 16 THEN full.ptr - 2 ELSE full.ptr,
                                      !.left = 0]
    BY <2>1 DEF CAlign, WordBits
  <2>4. (IF full.left > 16 THEN full.ptr - 2 ELSE full.ptr) = place
    BY <1>4, <2>2
  <2>5. CAlign(c, size) = [full EXCEPT !.ptr = place, !.left = 0]
    BY <2>3, <2>4
  <2>6. QED  BY <2>2, <2>5
<1>11. d = [ptr |-> place + 12, left |-> 0, ok |-> (ok /\ place + 12 <= size + 2)]
  BY <1>0, <1>8, <1>10, CAdvanced
<1>12. CPosition(d) = 8 * (place + 12)
  <2>1. d.ptr = place + 12 /\ d.left = 0
    BY <1>11
  <2>2. QED  BY <1>8, <2>1 DEF CPosition
<1>13. ASSUME r.avail \notin {0, 8}, at + 12 <= size
       PROVE  d = [ptr |-> at + 12, left |-> 0, ok |-> TRUE] /\ at % 2 = 0
  <2>1. place = at /\ at % 2 = 0 /\ p + 2 * w <= at + 2 /\ at \in Int
    BY <1>2, <1>8, <1>13
  <2>2. ok
    <3>1. p + 2 * w \in Nat /\ p + 2 * w <= size + 2
      BY <1>0, <1>13, <2>1
    <3>2. QED  BY <1>9, <3>1
  <2>3. place + 12 <= size + 2
    BY <1>0, <1>13, <2>1
  <2>4. QED  BY <1>11, <2>1, <2>2, <2>3
<1>14. ASSUME r.avail \in {0, 8} PROVE CPosition(d) # 8 * (at + 12)
  BY <1>2, <1>8, <1>12, <1>14
<1>15. QED  BY <1>5, <1>8, <1>13, <1>14

-----------------------------------------------------------------------------
(* The tables of slots.                                                    *)
(* A table that adds the width of each slot to the base before it.         *)
LEMMA TableExists ==
  ASSUME NEW N \in Nat, NEW width
  PROVE  \E f : f = [slot \in 0..N |-> IF slot = 0 THEN 0 ELSE f[slot - 1] + width[slot - 1]]
<1> DEFINE Table(n, f) ==
             f = [slot \in 0..n |-> IF slot = 0 THEN 0 ELSE f[slot - 1] + width[slot - 1]]
           S == {n \in Nat : \E f : Table(n, f)}
<1>1. 0 \in S
  <2>1. PICK f : f = [slot \in 0..0 |-> 0]
    OBVIOUS
  <2>2. Table(0, f)
    BY <2>1
  <2>3. QED  BY <2>2
<1>2. ASSUME NEW n \in S PROVE n + 1 \in S
  <2>1. n \in Nat /\ n + 1 \in Nat
    OBVIOUS
  <2>2. PICK f : Table(n, f)
    BY <1>2
  <2>3. PICK g : g = [slot \in 0..(n + 1) |-> IF slot = n + 1 THEN f[n] + width[n] ELSE f[slot]]
    OBVIOUS
  <2>4. \A slot \in 0..n : f[slot] = IF slot = 0 THEN 0 ELSE f[slot - 1] + width[slot - 1]
    BY <2>2
  <2>5. \A slot \in 0..n : g[slot] = f[slot]
    BY <2>1, <2>3
  <2>6. g[n + 1] = f[n] + width[n]
    BY <2>1, <2>3
  <2>7. \A slot \in 0..(n + 1) :
          g[slot] = IF slot = 0 THEN 0 ELSE g[slot - 1] + width[slot - 1]
    <3>1. SUFFICES ASSUME NEW slot \in 0..(n + 1)
                   PROVE  g[slot] = IF slot = 0 THEN 0 ELSE g[slot - 1] + width[slot - 1]
      OBVIOUS
    <3>2. CASE slot = n + 1
      <4>1. slot # 0 /\ slot - 1 = n /\ n \in 0..n
        BY <2>1, <3>2
      <4>2. QED  BY <2>5, <2>6, <3>2, <4>1
    <3>3. CASE slot \in 0..n /\ slot # 0
      <4>1. slot - 1 \in 0..n
        BY <2>1, <3>3
      <4>2. g[slot] = f[slot] /\ g[slot - 1] = f[slot - 1]
        BY <2>5, <3>3, <4>1
      <4>3. f[slot] = f[slot - 1] + width[slot - 1]
        BY <2>4, <3>3
      <4>4. QED  BY <3>3, <4>2, <4>3
    <3>4. CASE slot = 0
      <4>1. 0 \in 0..n
        BY <2>1
      <4>2. g[0] = f[0] /\ f[0] = 0
        BY <2>4, <2>5, <4>1
      <4>3. QED  BY <3>4, <4>2
    <3>5. slot = n + 1 \/ slot = 0 \/ (slot \in 0..n /\ slot # 0)
      BY <2>1
    <3>6. QED  BY <3>2, <3>3, <3>4, <3>5
  <2>8. g = [slot \in 0..(n + 1) |-> g[slot]]
    BY <2>3
  <2>9. Table(n + 1, g)
    BY <2>7, <2>8
  <2>10. QED  BY <2>1, <2>9
<1>3. S = Nat
  <2>1. S \in SUBSET Nat
    OBVIOUS
  <2> HIDE DEF S
  <2>2. QED  BY <1>1, <1>2, <2>1, SetInduction
<1>4. QED  BY <1>3

LEMMA PairTable ==
  \A pair \in 0..24 :
    CPairBits[pair] = IF pair < 2 THEN 0 ELSE IF pair < 19 THEN pair - 1 ELSE 17
<1> DEFINE Closed(pair) == IF pair < 2 THEN 0 ELSE IF pair < 19 THEN pair - 1 ELSE 17
           Following(f, pair) ==
             IF pair = 0 THEN 0
             ELSE IF pair - 1 # 0 /\ f[pair - 1] < 17 THEN f[pair - 1] + 1 ELSE f[pair - 1]
<1>1. \E f : f = [pair \in 0..24 |-> Following(f, pair)]
  <2>1. PICK f : f = [pair \in 0..24 |-> Closed(pair)]
    OBVIOUS
  <2>2. ASSUME NEW pair \in 0..24 PROVE Closed(pair) = Following(f, pair)
    <3>1. CASE pair = 0
      BY <3>1
    <3>2. CASE pair # 0
      <4>1. pair - 1 \in 0..24
        BY <3>2
      <4>2. f[pair - 1] = Closed(pair - 1)
        BY <2>1, <4>1
      <4>3. QED  BY <3>2, <4>2
    <3>3. QED  BY <3>1, <3>2
  <2>3. [pair \in 0..24 |-> Closed(pair)] = [pair \in 0..24 |-> Following(f, pair)]
    <3> HIDE DEF Closed, Following
    <3>1. QED  BY <2>2
  <2>4. QED  BY <2>1, <2>3
<1>2. CPairBits = CHOOSE f : f = [pair \in 0..24 |-> Following(f, pair)]
  BY DEF CPairBits
<1>3. CPairBits = [pair \in 0..24 |-> Following(CPairBits, pair)]
  <2> HIDE DEF Following
  <2>1. QED  BY <1>1, <1>2
<1>4. \A pair \in 0..24 : CPairBits[pair] = Following(CPairBits, pair)
  <2> HIDE DEF Following
  <2>1. QED  BY <1>3
<1> DEFINE S == {n \in Nat : n <= 24 => CPairBits[n] = Closed(n)}
<1>5. 0 \in S
  <2>1. CPairBits[0] = Following(CPairBits, 0)
    BY <1>4
  <2>2. QED  BY <2>1
<1>6. ASSUME NEW n \in S PROVE n + 1 \in S
  <2>1. n + 1 \in Nat /\ n \in Nat
    OBVIOUS
  <2>2. ASSUME n + 1 <= 24 PROVE CPairBits[n + 1] = Closed(n + 1)
    <3>1. n + 1 \in 0..24 /\ n <= 24 /\ (n + 1) - 1 = n /\ n + 1 # 0
      BY <2>1, <2>2
    <3>2. CPairBits[n + 1] = Following(CPairBits, n + 1)
      BY <1>4, <3>1
    <3>3. CPairBits[n] = Closed(n)
      BY <3>1
    <3>4. CPairBits[n + 1] =
            IF n # 0 /\ CPairBits[n] < 17 THEN CPairBits[n] + 1 ELSE CPairBits[n]
      BY <3>1, <3>2
    <3>5. QED  BY <2>1, <3>1, <3>3, <3>4
  <2>3. QED  BY <2>1, <2>2
<1>7. S = Nat
  <2>1. S \in SUBSET Nat
    OBVIOUS
  <2> HIDE DEF S
  <2>2. QED  BY <1>5, <1>6, <2>1, SetInduction
<1>8. QED  BY <1>7

(* Both take the same number of bits for a slot.                           *)
LEMMA ExtraBitsAgree ==
  \A slot \in 0..49 : CExtraBits(slot) = PyExtraBits(slot) /\ PyExtraBits(slot) \in 0..17
<1> SUFFICES ASSUME NEW slot \in 0..49
             PROVE  CExtraBits(slot) = PyExtraBits(slot) /\ PyExtraBits(slot) \in 0..17
  OBVIOUS
<1>1. PICK pair : pair = slot \div 2
  OBVIOUS
<1>2. pair \in 0..24 /\ (slot < 4 <=> pair < 2) /\ (slot < 36 <=> pair < 18)
  BY <1>1
<1>3. CExtraBits(slot) = CPairBits[pair]
  BY <1>1 DEF CExtraBits
<1>4. CPairBits[pair] = IF pair < 2 THEN 0 ELSE IF pair < 19 THEN pair - 1 ELSE 17
  BY <1>2, PairTable
<1>5. PyExtraBits(slot) = IF pair < 2 THEN 0 ELSE IF pair < 18 THEN pair - 1 ELSE 17
  BY <1>1, <1>2 DEF PyExtraBits
<1>6. QED  BY <1>2, <1>3, <1>4, <1>5

LEMMA PyTable ==
  \A slot \in 0..49 :
    PyPosBase[slot] = IF slot = 0 THEN 0 ELSE PyPosBase[slot - 1] + 2^PyExtraBits(slot - 1)
<1> DEFINE Width(slot) == 2^PyExtraBits(slot)
           Following(f, slot) == IF slot = 0 THEN 0 ELSE f[slot - 1] + Width(slot - 1)
<1>1. PICK width : width = [slot \in 0..49 |-> Width(slot)]
  OBVIOUS
<1>2. 49 \in Nat
  OBVIOUS
<1>3. PICK f : f = [slot \in 0..49 |-> IF slot = 0 THEN 0 ELSE f[slot - 1] + width[slot - 1]]
  BY <1>2, TableExists
<1> HIDE DEF Width
<1>4. ASSUME NEW slot \in 0..49, slot # 0 PROVE width[slot - 1] = Width(slot - 1)
  <2>1. slot - 1 \in 0..49
    BY <1>4
  <2>2. QED  BY <1>1, <2>1
<1>5. f = [slot \in 0..49 |-> Following(f, slot)]
  BY <1>3, <1>4
<1>6. PyPosBase = CHOOSE g : g = [slot \in 0..49 |-> Following(g, slot)]
  BY DEF PyPosBase, Width
<1>7. PyPosBase = [slot \in 0..49 |-> Following(PyPosBase, slot)]
  <2> HIDE DEF Following
  <2>1. QED  BY <1>5, <1>6
<1>8. \A slot \in 0..49 : PyPosBase[slot] = Following(PyPosBase, slot)
  <2> HIDE DEF Following
  <2>1. QED  BY <1>7
<1>9. QED  BY <1>8 DEF Width

LEMMA CTable ==
  \A slot \in 0..50 :
    CPositionBase[slot] = IF slot = 0 THEN 0 ELSE CPositionBase[slot - 1] + 2^CExtraBits(slot - 1)
<1> DEFINE Width(slot) == 2^CExtraBits(slot)
           Following(f, slot) == IF slot = 0 THEN 0 ELSE f[slot - 1] + Width(slot - 1)
<1>1. PICK width : width = [slot \in 0..50 |-> Width(slot)]
  OBVIOUS
<1>2. 50 \in Nat
  OBVIOUS
<1>3. PICK f : f = [slot \in 0..50 |-> IF slot = 0 THEN 0 ELSE f[slot - 1] + width[slot - 1]]
  BY <1>2, TableExists
<1> HIDE DEF Width
<1>4. ASSUME NEW slot \in 0..50, slot # 0 PROVE width[slot - 1] = Width(slot - 1)
  <2>1. slot - 1 \in 0..50
    BY <1>4
  <2>2. QED  BY <1>1, <2>1
<1>5. f = [slot \in 0..50 |-> Following(f, slot)]
  BY <1>3, <1>4
<1>6. CPositionBase = CHOOSE g : g = [slot \in 0..50 |-> Following(g, slot)]
  BY DEF CPositionBase, Width
<1>7. CPositionBase = [slot \in 0..50 |-> Following(CPositionBase, slot)]
  <2> HIDE DEF Following
  <2>1. QED  BY <1>5, <1>6
<1>8. \A slot \in 0..50 : CPositionBase[slot] = Following(CPositionBase, slot)
  <2> HIDE DEF Following
  <2>1. QED  BY <1>7
<1>9. QED  BY <1>8 DEF Width

(* Both begin the offsets of a slot at the same base.                      *)
LEMMA BasesAgree ==
  \A slot \in 0..49 : CPositionBase[slot] = PyPosBase[slot] /\ PyPosBase[slot] \in Int
<1> DEFINE S == {n \in Nat : n <= 49 => /\ CPositionBase[n] = PyPosBase[n]
                                        /\ PyPosBase[n] \in Int}
<1>1. 0 \in S
  <2>1. 0 \in 0..49 /\ 0 \in 0..50
    OBVIOUS
  <2>2. PyPosBase[0] = 0 /\ CPositionBase[0] = 0
    BY <2>1, PyTable, CTable
  <2>3. QED  BY <2>2
<1>2. ASSUME NEW n \in S PROVE n + 1 \in S
  <2>1. n + 1 \in Nat /\ n \in Nat
    OBVIOUS
  <2>2. ASSUME n + 1 <= 49
        PROVE  CPositionBase[n + 1] = PyPosBase[n + 1] /\ PyPosBase[n + 1] \in Int
    <3>1. n + 1 \in 0..49 /\ n + 1 \in 0..50 /\ n \in 0..49 /\ (n + 1) - 1 = n /\ n + 1 # 0
      BY <2>1, <2>2
    <3>2. /\ PyPosBase[n + 1] = PyPosBase[n] + 2^PyExtraBits(n)
          /\ CPositionBase[n + 1] = CPositionBase[n] + 2^CExtraBits(n)
      BY <3>1, PyTable, CTable
    <3>3. CPositionBase[n] = PyPosBase[n] /\ PyPosBase[n] \in Int
      BY <3>1
    <3>4. CExtraBits(n) = PyExtraBits(n) /\ PyExtraBits(n) \in Nat
      BY <3>1, ExtraBitsAgree
    <3>5. 2^PyExtraBits(n) \in Int
      BY <3>4
    <3>6. QED  BY <3>2, <3>3, <3>4, <3>5
  <2>3. QED  BY <2>1, <2>2
<1>3. S = Nat
  <2>1. S \in SUBSET Nat
    OBVIOUS
  <2> HIDE DEF S
  <2>2. QED  BY <1>1, <1>2, <2>1, SetInduction
<1>4. QED  BY <1>3

(* A slot and the bits behind it give the same offset in both.             *)
LEMMA OffsetsAgree ==
  ASSUME NEW m, m.slot \in 3..49, NEW type
  PROVE  PyOffset(type, m) = COffset(type, m)
<1>1. PICK slot \in 3..49 : slot = m.slot
  OBVIOUS
<1>2. PICK extra : extra = PyExtraBits(slot)
  OBVIOUS
<1>3. /\ CExtraBits(slot) = extra /\ extra \in 0..17
      /\ CPositionBase[slot] = PyPosBase[slot] /\ PyPosBase[slot] \in Int
  BY <1>2, ExtraBitsAgree, BasesAgree
<1>4. PICK base : base = PyPosBase[slot]
  OBVIOUS
<1>5. Field(m, 0) = 0
  <2>1. 2^0 - 1 = 0
    OBVIOUS
  <2>2. QED  BY <2>1 DEF Field
<1>6. \A n \in Nat : Field(m, n) \in Int
  <2>1. \A n \in Nat : 2^n \in Int
    OBVIOUS
  <2>2. QED  BY <2>1 DEF Field
<1>7. slot = 3 => base = 3 /\ extra = 0
  <2>1. \A s \in 1..3 : PyPosBase[s] = PyPosBase[s - 1] + 2^PyExtraBits(s - 1)
    BY PyTable
  <2>2. PyPosBase[0] = 0
    BY PyTable
  <2>3. \A s \in 0..3 : PyExtraBits(s) = 0
    BY DEF PyExtraBits
  <2>4. 2^0 = 1
    OBVIOUS
  <2>5. ASSUME NEW s \in 1..3 PROVE PyPosBase[s] = PyPosBase[s - 1] + 1
    <3>1. s - 1 \in 0..3
      OBVIOUS
    <3>2. PyExtraBits(s - 1) = 0
      BY <2>3, <3>1
    <3>3. 2^PyExtraBits(s - 1) = 1
      BY <2>4, <3>2
    <3>4. QED  BY <2>1, <3>3
  <2>6. /\ PyPosBase[1] = PyPosBase[1 - 1] + 1 /\ PyPosBase[2] = PyPosBase[2 - 1] + 1
        /\ PyPosBase[3] = PyPosBase[3 - 1] + 1
    <3>1. 1 \in 1..3 /\ 2 \in 1..3 /\ 3 \in 1..3
      OBVIOUS
    <3>2. QED  BY <2>5, <3>1
  <2>7. PyPosBase[3] = 3
    BY <2>2, <2>6
  <2>8. QED  BY <1>2, <1>4, <2>3, <2>7
<1>8. slot # 3 => extra # 0
  BY <1>2 DEF PyExtraBits
<1>9. CASE type # Aligned
  <2>1. PyOffset(type, m) = base - 2 + Field(m, extra)
    BY <1>1, <1>2, <1>4, <1>9 DEF PyOffset
  <2>2. COffset(type, m) = IF slot = 3 THEN 1 ELSE base - 2 + Field(m, extra)
    BY <1>1, <1>3, <1>4, <1>9 DEF COffset, CVerbatimOffset
  <2>3. slot = 3 => base - 2 + Field(m, extra) = 1
    BY <1>5, <1>7
  <2>4. QED  BY <2>1, <2>2, <2>3
<1>10. CASE type = Aligned
  <2>1. PyOffset(type, m) =
          base - 2 + (IF extra >= 3 THEN 8 * Field(m, extra - 3) + Field(m, 3) ELSE Field(m, extra))
    BY <1>1, <1>2, <1>4, <1>10 DEF PyOffset
  <2>2. COffset(type, m) = CAlignedOffset(m)
    BY <1>10 DEF COffset
  <2>3. CASE extra > 3
    <3>1. CAlignedOffset(m) = base - 2 + 8 * Field(m, extra - 3) + Field(m, 3)
      BY <1>1, <1>3, <1>4, <2>3 DEF CAlignedOffset
    <3>2. Field(m, extra - 3) \in Int /\ Field(m, 3) \in Int /\ base \in Int /\ extra >= 3
      BY <1>3, <1>4, <1>6, <2>3
    <3>3. QED  BY <2>1, <2>2, <3>1, <3>2
  <2>4. CASE extra = 3
    <3>1. CAlignedOffset(m) = base - 2 + Field(m, 3)
      BY <1>1, <1>3, <1>4, <2>4 DEF CAlignedOffset
    <3>2. Field(m, 3) \in Int /\ base \in Int /\ 8 * Field(m, extra - 3) = 0
      BY <1>3, <1>4, <1>5, <1>6, <2>4
    <3>3. QED  BY <2>1, <2>2, <2>4, <3>1, <3>2
  <2>5. CASE extra \in {1, 2}
    <3>1. CAlignedOffset(m) = base - 2 + Field(m, extra)
      BY <1>1, <1>3, <1>4, <2>5 DEF CAlignedOffset
    <3>2. QED  BY <2>1, <2>2, <2>5, <3>1
  <2>6. CASE extra = 0
    <3>1. CAlignedOffset(m) = 1
      BY <1>1, <1>3, <1>4, <2>6 DEF CAlignedOffset
    <3>2. base = 3
      BY <1>7, <1>8, <2>6
    <3>3. QED  BY <1>5, <2>1, <2>2, <2>6, <3>1, <3>2
  <2>7. QED  BY <1>3, <2>3, <2>4, <2>5, <2>6
<1>11. QED  BY <1>9, <1>10

-----------------------------------------------------------------------------
(* The inductive invariant, as long as Python decodes.                     *)
Args ==
  /\ size \in StreamSizes /\ total \in Totals /\ produced \in 0..total
  /\ block.len \in Nat

Shape ==
  /\ py = [bits |-> py.bits, upos |-> py.upos, rem |-> py.rem, run |-> py.run,
           out |-> py.out, reps |-> py.reps]
  /\ cd = [bits |-> cd.bits, rem |-> cd.rem, run |-> cd.run, out |-> cd.out, reps |-> cd.reps]
  /\ py.upos \in Nat /\ py.rem \in Nat /\ py.run \in Nat /\ py.out \in Nat
  /\ goal \in Nat /\ opened \in Nat

(* A run never leaves the frame: it ends with the frame or with the block. *)
RunInFrame ==
  /\ phase # "run" => py.run = 0
  /\ phase = "run" => /\ block.type # Stored /\ py.run > 0
                      /\ py.rem = 0 \/ py.out + py.run = goal
                      /\ py.out + py.run <= goal
  /\ phase \in {"start", "trees"} => block.type # Stored

(* Bits are read up to the end, bytes at most two further.                 *)
PyPlace ==
  IF block.type = Stored THEN py.bits.avail = 0 /\ py.upos <= size + 2
  ELSE PyWell(py.bits) /\ py.upos <= size

Counted ==
  py.upos <= size => /\ py.out = opened + block.len - py.rem - py.run
                     /\ py.out <= goal

(* As long as nothing has been treated differently. Behind a stored block  *)
(* both begin at a word.                                                   *)
SamePlace ==
  split = "none" =>
    /\ py.rem = cd.rem /\ py.run = cd.run /\ py.out = cd.out
    /\ goal = CGoal /\ py.out <= goal
    /\ IF block.type = Stored
       THEN /\ cd.bits = [ptr |-> py.upos, left |-> 0, ok |-> TRUE]
            /\ (py.upos + py.rem + block.len) % 2 = 0
       ELSE Together(py.bits, cd.bits)

(* They are back in step only in a stored block that is behind the end.    *)
BehindTheEnd == split # "none" /\ InStep => block.type = Stored /\ py.upos > size

LInv ==
  /\ Args
  /\ PyOk => /\ Shape /\ RunInFrame /\ PyPlace /\ Counted
             /\ py.reps = cd.reps /\ SamePlace /\ BehindTheEnd

-----------------------------------------------------------------------------
LEMMA ArgsFacts ==
  ASSUME Args
  PROVE  /\ EvenSize /\ size \in Nat /\ total \in Nat /\ total >= 1 /\ total <= Window
         /\ produced \in Nat /\ produced <= total /\ Frame \in Nat /\ Frame >= 1 /\ Window \in Nat
         /\ FrameSize \in Nat /\ CGoal \in Nat /\ CGoal <= total
         /\ FrameSize <= total - produced
         /\ block.len \in Nat
<1>1. /\ EvenSize /\ size \in Nat /\ Frame \in Nat /\ Frame >= 1 /\ Window \in Nat
      /\ total \in 1..Window
  BY StreamAssumption DEF Args, EvenSize
<1>2. total \in Nat /\ total >= 1 /\ total <= Window /\ produced \in Nat /\ produced <= total
  BY <1>1 DEF Args
<1>3. FrameSize \in Nat /\ FrameSize <= total - produced
  BY <1>1, <1>2 DEF FrameSize, Least
<1>4. CGoal \in Nat /\ CGoal <= total
  BY <1>2, <1>3 DEF CGoal
<1>5. QED  BY <1>1, <1>2, <1>3, <1>4 DEF Args

LEMMA InitInv == Init => LInv
<1> SUFFICES ASSUME Init PROVE LInv
  OBVIOUS
<1>1. /\ size \in StreamSizes /\ total \in Totals /\ phase = "start"
      /\ block = [type |-> 0, len |-> 0] /\ produced = 0 /\ goal = FrameSize
      /\ py = [bits |-> PyReader(0), upos |-> 0, rem |-> 0, run |-> 0, out |-> 0,
               reps |-> <<1, 1, 1>>]
      /\ cd = [bits |-> CReader, rem |-> 0, run |-> 0, out |-> 0, reps |-> <<1, 1, 1>>]
      /\ opened = 0 /\ split = "none"
  BY DEF Init, PyInit, CInit
<1>2. Args
  <2>1. total \in Nat
    BY <1>1, StreamAssumption
  <2>2. QED  BY <1>1, <2>1 DEF Args
<1>3. FrameSize \in Nat /\ CGoal = FrameSize /\ EvenSize /\ size \in Nat
  BY <1>1, <1>2, ArgsFacts DEF CGoal
<1>4. block.type = 0 /\ block.len = 0 /\ 0 # Stored
  BY <1>1 DEF Stored
<1>5. Shape
  BY <1>1, <1>3 DEF Shape
<1>6. RunInFrame
  BY <1>1, <1>4 DEF RunInFrame
<1>7. PyWell(py.bits) /\ CWell(cd.bits) /\ PyPosition(py.bits) = CPosition(cd.bits)
  <2>1. py.bits = [pos |-> 0, avail |-> 0, ok |-> TRUE]
    BY <1>1 DEF PyReader
  <2>2. PyWell(py.bits) /\ PyPosition(py.bits) = 0
    BY <1>3, <2>1 DEF PyWell, PyReaders, PyPosition
  <2>3. cd.bits = [ptr |-> 0, left |-> 0, ok |-> TRUE]
    BY <1>1 DEF CReader
  <2>4. CWell(cd.bits) /\ CPosition(cd.bits) = 0
    BY <1>3, <2>3 DEF CWell, CReaders, CPosition, Faked
  <2>5. QED  BY <2>2, <2>4
<1>8. PyPlace
  BY <1>1, <1>3, <1>4, <1>7 DEF PyPlace
<1>9. Counted
  BY <1>1, <1>3, <1>4 DEF Counted
<1>10. SamePlace
  BY <1>1, <1>3, <1>4, <1>7 DEF SamePlace, Together
<1>11. BehindTheEnd
  BY <1>1 DEF BehindTheEnd
<1>12. py.reps = cd.reps
  BY <1>1
<1>13. QED  BY <1>2, <1>5, <1>6, <1>8, <1>9, <1>10, <1>11, <1>12 DEF LInv

(* What is known where both go on.                                         *)
LEMMA LiveFacts ==
  ASSUME LInv, Live
  PROVE  /\ EvenSize /\ size \in Nat /\ py.bits.ok
         /\ Shape /\ RunInFrame /\ PyPlace /\ Counted /\ py.reps = cd.reps /\ SamePlace
         /\ block.type # Stored \/ py.upos <= size => split = "none"
         /\ block.type # Stored => Together(py.bits, cd.bits)
<1>1. PyOk /\ InStep
  BY DEF Live
<1>2. /\ Args /\ Shape /\ RunInFrame /\ PyPlace /\ Counted /\ py.reps = cd.reps
      /\ SamePlace /\ BehindTheEnd
  BY <1>1 DEF LInv
<1>3. EvenSize /\ size \in Nat
  BY <1>2, ArgsFacts
<1>4. py.upos \in Nat
  BY <1>2 DEF Shape
<1>5. block.type # Stored \/ py.upos <= size => split = "none"
  BY <1>1, <1>2, <1>3, <1>4 DEF BehindTheEnd
<1>6. block.type # Stored => Together(py.bits, cd.bits)
  BY <1>2, <1>5 DEF SamePlace
<1>7. QED  BY <1>1, <1>2, <1>3, <1>5, <1>6 DEF PyOk

(* A step that only reads bits, as many in both.                           *)
LEMMA BitsInv ==
  ASSUME LInv, Live, block.type # Stored, phase # "run", phase' \in {"trees", "next"},
         NEW p, NEW c, Together(p, c),
         py' = [py EXCEPT !.bits = p], cd' = [cd EXCEPT !.bits = c],
         UNCHANGED <<size, total, block, produced, goal, opened, split>>
  PROVE  LInv'
<1>1. /\ EvenSize /\ size \in Nat /\ py.bits.ok
      /\ Shape /\ RunInFrame /\ PyPlace /\ Counted /\ py.reps = cd.reps /\ SamePlace
      /\ split = "none" /\ Args
  BY LiveFacts DEF LInv
<1>2. /\ py' = [bits |-> p, upos |-> py.upos, rem |-> py.rem, run |-> py.run,
                out |-> py.out, reps |-> py.reps]
      /\ cd' = [bits |-> c, rem |-> cd.rem, run |-> cd.run, out |-> cd.out, reps |-> cd.reps]
  BY <1>1 DEF Shape
<1>3. CGoal' = CGoal
  BY DEF CGoal, FrameSize
<1>4. Together(p, c)'
  BY DEF Together, PyWell, CWell, PyPosition, CPosition
<1>5. Args'
  BY <1>1 DEF Args
<1>6. Shape'
  BY <1>1, <1>2 DEF Shape
<1>7. RunInFrame'
  BY <1>1, <1>2 DEF RunInFrame
<1>8. PyPlace'
  BY <1>1, <1>2, <1>4 DEF PyPlace, Together
<1>9. Counted'
  BY <1>1, <1>2 DEF Counted
<1>10. SamePlace'
  BY <1>1, <1>2, <1>3, <1>4 DEF SamePlace
<1>11. BehindTheEnd'
  BY <1>1 DEF BehindTheEnd
<1>12. QED
  BY <1>1, <1>2, <1>5, <1>6, <1>7, <1>8, <1>9, <1>10, <1>11 DEF LInv

(* Nothing can be read behind the end.                                     *)
LEMMA ReadBehind ==
  ASSUME EvenSize, NEW at \in Nat, at >= size
  PROVE  PyRead(PyReader(at), size, 3) \in PyReaders /\ ~PyRead(PyReader(at), size, 3).ok
<1>1. PICK r : r = PyReader(at)
  OBVIOUS
<1>2. r = [pos |-> at, avail |-> 0, ok |-> TRUE] /\ r.pos = at /\ r.avail = 0 /\ r.ok
  BY <1>1 DEF PyReader
<1>3. WordsLeft(r, size) = 0 /\ size \in Nat
  BY <1>2 DEF WordsLeft, EvenSize
<1>4. PICK w : w = Least(IF r.avail < 17 THEN CeilDiv(17 - r.avail, WordBits) ELSE 0,
                         WordsLeft(r, size))
  OBVIOUS
<1>5. w = 0
  BY <1>2, <1>3, <1>4 DEF Least, CeilDiv, WordBits
<1>6. PyRefill(r, size) = [pos |-> at, avail |-> 0, ok |-> TRUE]
  <2>1. PyRefill(r, size) = [r EXCEPT !.pos = r.pos + 2 * w, !.avail = r.avail + 16 * w]
    BY <1>4 DEF PyRefill, WordBits
  <2>2. r.pos + 2 * w = at /\ r.avail + 16 * w = 0
    BY <1>2, <1>5
  <2>3. PyRefill(r, size) = [r EXCEPT !.pos = at, !.avail = 0]
    BY <2>1, <2>2
  <2>4. QED  BY <1>2, <2>3
<1>7. PICK full : full = PyRefill(r, size)
  OBVIOUS
<1>8. PyPeek(r, size, 3) = [full EXCEPT !.ok = full.ok /\ full.avail >= 3]
  BY <1>2, <1>7 DEF PyPeek
<1>9. (full.ok /\ full.avail >= 3) = FALSE
  BY <1>6, <1>7
<1>10. PyPeek(r, size, 3) = [pos |-> at, avail |-> 0, ok |-> FALSE]
  <2>1. full = [pos |-> at, avail |-> 0, ok |-> TRUE]
    BY <1>6, <1>7
  <2>2. PyPeek(r, size, 3) = [full EXCEPT !.ok = FALSE]
    BY <1>8, <1>9
  <2>3. QED  BY <2>1, <2>2
<1>11. PICK seen : seen = PyPeek(r, size, 3)
  OBVIOUS
<1>12. seen \in PyReaders /\ ~seen.ok
  <2>1. seen = [pos |-> at, avail |-> 0, ok |-> FALSE]
    BY <1>10, <1>11
  <2>2. QED  BY <2>1 DEF PyReaders
<1>13. PyRead(r, size, 3) = PyDrop(seen, 3)
  BY <1>11 DEF PyRead
<1>14. QED  BY <1>1, <1>12, <1>13, DropFailed

LEMMA FieldsFailed ==
  ASSUME EvenSize, NEW r \in PyReaders, ~r.ok, NEW n \in Int, NEW m \in Int
  PROVE  /\ PyRead(PyRead(r, size, n), size, m) \in PyReaders
         /\ ~PyRead(PyRead(r, size, n), size, m).ok
<1>1. PyRead(r, size, n) \in PyReaders /\ ~PyRead(r, size, n).ok
  BY ReadFailed
<1>2. QED  BY <1>1, ReadFailed

(* At the end of a block both stand where the next header begins.          *)
LEMMA LeaveTogether ==
  ASSUME LInv, AtBlock
  PROVE  \E r, c :
           /\ PyLeave(py) = [bits |-> r, upos |-> py.upos, rem |-> py.rem, run |-> py.run,
                             out |-> py.out, reps |-> py.reps]
           /\ CLeave(cd) = [bits |-> c, rem |-> cd.rem, run |-> cd.run,
                            out |-> cd.out, reps |-> cd.reps]
           /\ r.ok
           /\ \/ split = "none" /\ py.upos <= size /\ Together(r, c)
              \/ \E at \in Nat : at >= size /\ r = PyReader(at)
<1>1. /\ EvenSize /\ size \in Nat /\ py.bits.ok /\ Args /\ Live /\ py.rem = 0
      /\ Shape /\ PyPlace /\ SamePlace
      /\ block.type # Stored \/ py.upos <= size => split = "none"
      /\ block.type # Stored => Together(py.bits, cd.bits)
  BY LiveFacts DEF LInv, AtBlock
<1>2. /\ py = [bits |-> py.bits, upos |-> py.upos, rem |-> py.rem, run |-> py.run,
               out |-> py.out, reps |-> py.reps]
      /\ cd = [bits |-> cd.bits, rem |-> cd.rem, run |-> cd.run, out |-> cd.out,
               reps |-> cd.reps]
      /\ py.upos \in Nat
  BY <1>1 DEF Shape
<1>3. CASE block.type # Stored
  <2>1. PyLeave(py) = py /\ CLeave(cd) = cd /\ split = "none" /\ py.upos <= size
    BY <1>1, <1>3 DEF PyLeave, CLeave, PyPlace
  <2>2. QED  BY <1>1, <1>2, <1>3, <2>1
<1>4. CASE block.type = Stored
  <2>1. PICK at : at = py.upos + (block.len % 2)
    OBVIOUS
  <2>2. block.len \in Nat /\ block.len % 2 \in 0..1 /\ at \in Nat /\ at >= py.upos
    BY <1>1, <1>2, <2>1, ArgsFacts
  <2>3. PyLeave(py) = [bits |-> PyReader(at), upos |-> py.upos, rem |-> py.rem, run |-> py.run,
                       out |-> py.out, reps |-> py.reps]
    <3>1. PyLeave(py) = [py EXCEPT !.bits = PyReader(at)]
      BY <1>4, <2>1 DEF PyLeave
    <3>2. QED  BY <1>2, <3>1
  <2>4. PICK c : CLeave(cd) = [bits |-> c, rem |-> cd.rem, run |-> cd.run, out |-> cd.out,
                               reps |-> cd.reps]
                 /\ c = IF block.len % 2 = 1 THEN CAdvance(cd.bits, size, 1) ELSE cd.bits
    <3>1. PICK c : c = IF block.len % 2 = 1 THEN CAdvance(cd.bits, size, 1) ELSE cd.bits
      OBVIOUS
    <3>2. CLeave(cd) = [cd EXCEPT !.bits = c]
      <4>1. CASE block.len % 2 = 1
        BY <1>4, <3>1, <4>1 DEF CLeave
      <4>2. CASE block.len % 2 # 1
        <5>1. CLeave(cd) = cd /\ c = cd.bits
          BY <3>1, <4>2 DEF CLeave
        <5>2. QED  BY <1>2, <5>1
      <4>3. QED  BY <4>1, <4>2
    <3>3. CLeave(cd) = [bits |-> c, rem |-> cd.rem, run |-> cd.run, out |-> cd.out,
                        reps |-> cd.reps]
      BY <1>2, <3>2
    <3>4. QED  BY <3>1, <3>3
  <2>5. PyReader(at).ok
    BY DEF PyReader
  <2>6. CASE py.upos > size
    <3>1. at >= size
      BY <1>1, <1>2, <2>2, <2>6
    <3>2. QED  BY <2>2, <2>3, <2>4, <2>5, <3>1
  <2>7. CASE py.upos <= size
    <3>1. /\ split = "none"
          /\ cd.bits = [ptr |-> py.upos, left |-> 0, ok |-> TRUE]
          /\ (py.upos + py.rem + block.len) % 2 = 0
      BY <1>1, <1>4, <2>7 DEF SamePlace
    <3>2. at % 2 = 0 /\ at <= size
      <4>1. size % 2 = 0
        BY <1>1 DEF EvenSize
      <4>2. (py.upos + block.len) % 2 = 0
        BY <1>1, <1>2, <2>2, <3>1
      <4>3. QED  BY <1>1, <1>2, <2>1, <2>2, <2>7, <4>1, <4>2
    <3>3. c = [ptr |-> at, left |-> 0, ok |-> TRUE]
      <4>1. CASE block.len % 2 = 1
        <5>1. 1 \in Nat /\ py.upos \in Int /\ at = py.upos + 1 /\ size \in Nat
          BY <1>1, <1>2, <2>1, <4>1
        <5>2. CAdvance([ptr |-> py.upos, left |-> 0, ok |-> TRUE], size, 1)
                = [ptr |-> py.upos + 1, left |-> 0, ok |-> (TRUE /\ py.upos + 1 <= size + 2)]
          BY ONLY <5>1, CAdvanced
        <5>3. c = CAdvance([ptr |-> py.upos, left |-> 0, ok |-> TRUE], size, 1)
          BY <2>4, <3>1, <4>1
        <5>4. py.upos + 1 <= size + 2
          BY <1>1, <1>2, <2>7
        <5>5. QED  BY <5>1, <5>2, <5>3, <5>4
      <4>2. CASE block.len % 2 # 1
        <5>1. at = py.upos
          BY <1>2, <2>1, <2>2, <4>2
        <5>2. QED  BY <2>4, <3>1, <4>2, <5>1
      <4>3. QED  BY <4>1, <4>2
    <3>4. Together(PyReader(at), c)
      <4>1. PyReader(at) = [pos |-> at, avail |-> 0, ok |-> TRUE]
        BY DEF PyReader
      <4>2. PyWell(PyReader(at)) /\ PyPosition(PyReader(at)) = 8 * at
        BY <2>2, <3>2, <4>1 DEF PyWell, PyReaders, PyPosition
      <4>3. CWell(c) /\ CPosition(c) = 8 * at
        <5>1. 0 \in 0..32 /\ at <= size + 2 /\ 8 * at - 0 = 8 * at
          BY <1>1, <2>2, <3>2
        <5>2. QED  BY <2>2, <3>2, <3>3, <5>1, CWellParts
      <4>4. QED  BY <4>2, <4>3 DEF Together
    <3>5. QED  BY <2>3, <2>4, <2>5, <2>7, <3>1, <3>4
  <2>8. QED  BY <1>1, <1>2, <2>6, <2>7
<1>5. QED  BY <1>3, <1>4

(* Where Python has read a block header, C has read the same.              *)
LEMMA HeaderTogether ==
  ASSUME LInv, AtBlock, NEW len
  PROVE  \E r, c :
           /\ PyHeader(len) = [bits |-> r, upos |-> py.upos, rem |-> len, run |-> py.run,
                               out |-> py.out, reps |-> py.reps]
           /\ CHeader(len) = [bits |-> c, rem |-> len, run |-> cd.run,
                              out |-> cd.out, reps |-> cd.reps]
           /\ r \in PyReaders
           /\ r.ok => /\ split = "none" /\ py.upos <= size /\ Together(r, c)
                      /\ r.avail \in 0..15 \cup {24}
<1>1. EvenSize
  BY LiveFacts DEF AtBlock
<1>2. PICK r0, c0 :
        /\ PyLeave(py) = [bits |-> r0, upos |-> py.upos, rem |-> py.rem, run |-> py.run,
                          out |-> py.out, reps |-> py.reps]
        /\ CLeave(cd) = [bits |-> c0, rem |-> cd.rem, run |-> cd.run,
                         out |-> cd.out, reps |-> cd.reps]
        /\ r0.ok
        /\ \/ split = "none" /\ py.upos <= size /\ Together(r0, c0)
           \/ \E at \in Nat : at >= size /\ r0 = PyReader(at)
  BY LeaveTogether
<1>3. PICK r : r = PyRead(PyRead(PyRead(r0, size, 3), size, 16), size, 8)
  OBVIOUS
<1>4. PICK c : c = CRead(CRead(CRead(c0, size, 3), size, 16), size, 8)
  OBVIOUS
<1>5. PyHeader(len) = [bits |-> r, upos |-> py.upos, rem |-> len, run |-> py.run,
                       out |-> py.out, reps |-> py.reps]
  <2>1. PICK p : p = PyLeave(py)
    OBVIOUS
  <2>2. PyFields(p, 3, 16, 8)
          = [p EXCEPT !.bits = PyRead(PyRead(PyRead(p.bits, size, 3), size, 16), size, 8)]
    BY DEF PyFields
  <2>3. p.bits = r0
    BY <1>2, <2>1
  <2>4. PyFields(p, 3, 16, 8) = [p EXCEPT !.bits = r]
    BY <1>3, <2>2, <2>3
  <2>5. PyFields(p, 3, 16, 8) = [bits |-> r, upos |-> py.upos, rem |-> py.rem, run |-> py.run,
                                 out |-> py.out, reps |-> py.reps]
    BY <1>2, <2>1, <2>4
  <2>6. PyHeader(len) = [PyFields(p, 3, 16, 8) EXCEPT !.rem = len]
    BY <2>1 DEF PyHeader
  <2>7. QED  BY <2>5, <2>6
<1>6. CHeader(len) = [bits |-> c, rem |-> len, run |-> cd.run,
                      out |-> cd.out, reps |-> cd.reps]
  <2>1. PICK d : d = CLeave(cd)
    OBVIOUS
  <2>2. CFields(d, 3, 16, 8)
          = [d EXCEPT !.bits = CRead(CRead(CRead(d.bits, size, 3), size, 16), size, 8)]
    BY DEF CFields
  <2>3. d.bits = c0
    BY <1>2, <2>1
  <2>4. CFields(d, 3, 16, 8) = [d EXCEPT !.bits = c]
    BY <1>4, <2>2, <2>3
  <2>5. CFields(d, 3, 16, 8) = [bits |-> c, rem |-> cd.rem, run |-> cd.run,
                                out |-> cd.out, reps |-> cd.reps]
    BY <1>2, <2>1, <2>4
  <2>6. CHeader(len) = [CFields(d, 3, 16, 8) EXCEPT !.rem = len]
    BY <2>1 DEF CHeader
  <2>7. QED  BY <2>5, <2>6
<1>7. CASE \E at \in Nat : at >= size /\ r0 = PyReader(at)
  <2>1. PICK at \in Nat : at >= size /\ r0 = PyReader(at)
    BY <1>7
  <2>2. PyRead(r0, size, 3) \in PyReaders /\ ~PyRead(r0, size, 3).ok
    BY <1>1, <2>1, ReadBehind
  <2>3. r \in PyReaders /\ ~r.ok
    BY <1>1, <1>3, <2>2, FieldsFailed
  <2>4. QED  BY <1>5, <1>6, <2>3
<1>8. CASE split = "none" /\ py.upos <= size /\ Together(r0, c0)
  <2>1. 3 \in 0..17 /\ 16 \in 0..17 /\ 8 \in 0..17
    OBVIOUS
  <2>2. Together(r, c)
    BY ONLY <1>1, <1>3, <1>4, <1>8, <2>1, FieldsTogether
  <2>3. PyWell(r0) /\ r0.ok /\ r \in PyReaders
    BY <1>2, <1>8, <2>2 DEF Together, PyWell
  <2>4. ASSUME r.ok PROVE r.avail \in 0..15 \cup {24}
    BY ONLY <1>1, <1>3, <2>3, <2>4, HeaderAvail
  <2>5. QED  BY <1>5, <1>6, <1>8, <2>2, <2>3, <2>4
<1>9. QED  BY <1>2, <1>7, <1>8

LEMMA PyFailed ==
  ASSUME NEW bits, bits = [pos |-> bits.pos, avail |-> bits.avail, ok |-> bits.ok],
         NEW upos, NEW rem, NEW run, NEW out, NEW reps, NEW p,
         p = [bits |-> bits, upos |-> upos, rem |-> rem, run |-> run, out |-> out, reps |-> reps]
  PROVE  \E failed : /\ ~failed.ok
                     /\ PyFail(p) = [bits |-> failed, upos |-> upos, rem |-> rem, run |-> run,
                                     out |-> out, reps |-> reps]
<1>1. PICK failed : failed = [bits EXCEPT !.ok = FALSE]
  OBVIOUS
<1>2. ~failed.ok
  BY <1>1
<1>3. PyFail(p) = [p EXCEPT !.bits = [p.bits EXCEPT !.ok = FALSE]]
  BY DEF PyFail
<1>4. PyFail(p) = [p EXCEPT !.bits = failed]
  BY <1>1, <1>3
<1>5. PyFail(p) = [bits |-> failed, upos |-> upos, rem |-> rem, run |-> run,
                   out |-> out, reps |-> reps]
  BY <1>4
<1>6. QED  BY <1>2, <1>5

(* The fields in front of the first block.                                 *)
LEMMA StartInv ==
  ASSUME LInv, NEW intel \in BOOLEAN, Start(intel)
  PROVE  LInv'
<1>1. PICK n : n = IF intel THEN 16 ELSE 0
  OBVIOUS
<1>2. /\ n \in 0..17 /\ 1 \in 0..17 /\ Live /\ phase = "start" /\ phase' = "next"
      /\ py' = PyFields(py, 1, n, n) /\ cd' = CFields(cd, 1, n, n)
      /\ UNCHANGED <<size, total, block, produced, goal, opened, split>>
  BY <1>1 DEF Start
<1>3. EvenSize /\ block.type # Stored /\ Together(py.bits, cd.bits)
  BY <1>2, LiveFacts DEF RunInFrame
<1>4. PICK p : p = PyRead(PyRead(PyRead(py.bits, size, 1), size, n), size, n)
  OBVIOUS
<1>5. PICK c : c = CRead(CRead(CRead(cd.bits, size, 1), size, n), size, n)
  OBVIOUS
<1>6. Together(p, c)
  BY ONLY <1>2, <1>3, <1>4, <1>5, FieldsTogether
<1>7. py' = [py EXCEPT !.bits = p] /\ cd' = [cd EXCEPT !.bits = c]
  BY <1>2, <1>4, <1>5 DEF PyFields, CFields
<1>8. QED  BY <1>2, <1>3, <1>6, <1>7, BitsInv

(* The trees of a block.                                                   *)
LEMMA TreesInv ==
  ASSUME LInv, NEW p, NEW c, NEW next \in {"trees", "next"}, Trees(p, c, next),
         EvenSize /\ Together(py.bits, cd.bits) => Together(p, c)
  PROVE  LInv'
<1>1. /\ Live /\ phase = "trees" /\ phase' = next
      /\ py' = [py EXCEPT !.bits = p] /\ cd' = [cd EXCEPT !.bits = c]
      /\ UNCHANGED <<size, total, block, produced, goal, opened, split>>
  BY DEF Trees
<1>2. EvenSize /\ block.type # Stored /\ Together(py.bits, cd.bits)
  BY <1>1, LiveFacts DEF RunInFrame
<1>3. QED  BY <1>1, <1>2, BitsInv

LEMMA CodeLoads ==
  ASSUME NEW code \in Codes
  PROVE  code \in [len : 1..16, table : 1..12]
BY StreamAssumption

LEMMA TreeFieldInv ==
  ASSUME LInv, NEW n \in TreeReads, TreeField(n)
  PROVE  LInv'
<1>1. n \in 0..17
  <2>1. n \in 1..16
    BY StreamAssumption
  <2>2. QED  BY <2>1
<1>2. EvenSize /\ Together(py.bits, cd.bits)
        => Together(PyRead(py.bits, size, n), CRead(cd.bits, size, n))
  BY <1>1, ReadTogether
<1>3. QED  BY <1>2, TreesInv DEF TreeField

LEMMA TreeSymbolInv ==
  ASSUME LInv, NEW code \in Codes, TreeSymbol(code)
  PROVE  LInv'
<1>1. EvenSize /\ Together(py.bits, cd.bits)
        => Together(PySymbol(py.bits, size, code), CSymbol(cd.bits, size, code))
  BY CodeLoads, SymbolTogether
<1>2. QED  BY <1>1, TreesInv DEF TreeSymbol

LEMMA TreesBuiltInv == LInv /\ TreesBuilt => LInv'
BY TreesInv DEF TreesBuilt

(* Opening a block.                                                        *)
LEMMA OpenInv ==
  ASSUME LInv, NEW type, NEW len \in BlockLengths, OpenBlock(type, len)
  PROVE  /\ Args' /\ AtBlock /\ Live /\ phase = "next" /\ len \in Nat
         /\ Shape /\ goal' = goal /\ goal \in Nat /\ size' = size /\ size \in Nat /\ EvenSize
         /\ py.run = 0 /\ py.out \in Nat /\ CGoal' = CGoal
         /\ split = "none" => cd.run = 0 /\ py.out = cd.out /\ goal = CGoal /\ py.out <= goal
<1>1. /\ AtBlock /\ Live /\ phase = "next" /\ len \in Nat /\ Args
      /\ block' = [type |-> type, len |-> len] /\ UNCHANGED <<size, total, produced, goal>>
  BY StreamAssumption DEF OpenBlock, AtBlock, LInv
<1>2. EvenSize /\ size \in Nat /\ Shape /\ RunInFrame /\ SamePlace
  BY <1>1, LiveFacts
<1>3. Args'
  BY <1>1 DEF Args
<1>4. CGoal' = CGoal
  BY <1>1 DEF CGoal, FrameSize
<1>5. py.run = 0 /\ py.out \in Nat /\ goal \in Nat
  BY <1>1, <1>2 DEF RunInFrame, Shape
<1>6. split = "none" => cd.run = 0 /\ py.out = cd.out /\ goal = CGoal /\ py.out <= goal
  BY <1>2, <1>5 DEF SamePlace
<1>7. QED  BY <1>1, <1>2, <1>3, <1>4, <1>5, <1>6

LEMMA FailedInv ==
  ASSUME Args', ~PyOk'
  PROVE  LInv'
BY DEF LInv

LEMMA OpenCompressedInv ==
  ASSUME LInv, NEW type \in {Verbatim, Aligned}, NEW len \in BlockLengths,
         OpenCompressed(type, len)
  PROVE  LInv'
<1>1. /\ OpenBlock(type, len)
      /\ py' = PyFailIf(len = 0, PyHeader(len)) /\ cd' = CHeader(len)
      /\ phase' = "trees" /\ split' = split
      /\ block' = [type |-> type, len |-> len] /\ opened' = py.out
  BY DEF OpenCompressed, OpenBlock
<1>2. /\ Args' /\ AtBlock /\ len \in Nat
      /\ Shape /\ goal' = goal /\ goal \in Nat /\ size' = size /\ size \in Nat
      /\ py.run = 0 /\ py.out \in Nat /\ CGoal' = CGoal
      /\ split = "none" => cd.run = 0 /\ py.out = cd.out /\ goal = CGoal /\ py.out <= goal
  BY <1>1, OpenInv
<1>3. PICK r, c :
        /\ PyHeader(len) = [bits |-> r, upos |-> py.upos, rem |-> len, run |-> py.run,
                            out |-> py.out, reps |-> py.reps]
        /\ CHeader(len) = [bits |-> c, rem |-> len, run |-> cd.run,
                           out |-> cd.out, reps |-> cd.reps]
        /\ r \in PyReaders
        /\ r.ok => /\ split = "none" /\ py.upos <= size /\ Together(r, c)
                   /\ r.avail \in 0..15 \cup {24}
  BY <1>2, HeaderTogether
<1>4. CASE len = 0
  <2>1. r = [pos |-> r.pos, avail |-> r.avail, ok |-> r.ok]
    BY <1>3 DEF PyReaders
  <2>2. PICK failed : /\ ~failed.ok
                      /\ PyFail(PyHeader(len)) = [bits |-> failed, upos |-> py.upos,
                           rem |-> len, run |-> py.run, out |-> py.out, reps |-> py.reps]
    BY <1>3, <2>1, PyFailed
  <2>3. py' = PyFail(PyHeader(len))
    BY <1>1, <1>4 DEF PyFailIf
  <2>4. ~PyOk'
    BY <2>2, <2>3 DEF PyOk
  <2>5. QED  BY <1>2, <2>4, FailedInv
<1>5. CASE len # 0 /\ ~r.ok
  <2>1. ~PyOk'
    BY <1>1, <1>3, <1>5 DEF PyFailIf, PyOk
  <2>2. QED  BY <1>2, <2>1, FailedInv
<1>6. CASE len # 0 /\ r.ok
  <2>1. /\ py' = [bits |-> r, upos |-> py.upos, rem |-> len, run |-> 0,
                  out |-> py.out, reps |-> py.reps]
        /\ cd' = [bits |-> c, rem |-> len, run |-> 0, out |-> py.out, reps |-> cd.reps]
        /\ split' = "none" /\ py.upos <= size /\ py.out <= goal /\ goal = CGoal
        /\ Together(r, c)
    BY <1>1, <1>2, <1>3, <1>6 DEF PyFailIf
  <2>2. block'.type # Stored /\ block'.len = len /\ py.upos \in Nat /\ py.reps = cd.reps
    BY <1>1, <1>2, LiveFacts DEF Verbatim, Aligned, Stored, Shape, AtBlock
  <2>3. Together(r, c)'
    BY <1>2, <2>1 DEF Together, PyWell, CWell, PyPosition, CPosition
  <2>4. Shape'
    BY <1>1, <1>2, <2>1, <2>2 DEF Shape
  <2>5. RunInFrame'
    BY <1>1, <2>1, <2>2 DEF RunInFrame
  <2>6. PyPlace'
    BY <1>2, <2>1, <2>2, <2>3 DEF PyPlace, Together
  <2>7. Counted'
    BY <1>1, <1>2, <2>1, <2>2 DEF Counted
  <2>8. SamePlace'
    BY <1>2, <2>1, <2>2, <2>3 DEF SamePlace
  <2>9. BehindTheEnd'
    BY <2>1 DEF BehindTheEnd
  <2>10. py'.reps = cd'.reps
    BY <2>1, <2>2
  <2>11. QED  BY <1>2, <2>4, <2>5, <2>6, <2>7, <2>8, <2>9, <2>10 DEF LInv
<1>7. QED  BY <1>4, <1>5, <1>6

LEMMA OpenInvalidInv ==
  ASSUME LInv, NEW len \in BlockLengths, OpenInvalid(len)
  PROVE  LInv'
<1>1. OpenBlock(0, len) /\ py' = PyFail(PyHeader(len))
  BY DEF OpenInvalid
<1>2. Args' /\ AtBlock
  BY <1>1, OpenInv
<1>3. PICK r \in PyReaders :
        PyHeader(len) = [bits |-> r, upos |-> py.upos, rem |-> len, run |-> py.run,
                         out |-> py.out, reps |-> py.reps]
  BY <1>2, HeaderTogether
<1>4. r = [pos |-> r.pos, avail |-> r.avail, ok |-> r.ok]
  BY <1>3 DEF PyReaders
<1>5. PICK failed : /\ ~failed.ok
                    /\ PyFail(PyHeader(len)) = [bits |-> failed, upos |-> py.upos,
                         rem |-> len, run |-> py.run, out |-> py.out, reps |-> py.reps]
  BY <1>3, <1>4, PyFailed
<1>6. ~PyOk'
  BY <1>1, <1>5 DEF PyOk
<1>7. QED  BY <1>2, <1>6, FailedInv

LEMMA OpenStoredInv ==
  ASSUME LInv, NEW len \in BlockLengths, NEW stored, OpenStored(len, stored)
  PROVE  LInv'
<1>1. PICK h : h = PyHeader(len)
  OBVIOUS
<1>2. /\ OpenBlock(Stored, len)
      /\ py' = PyFailIf(len = 0, [PyStored(h) EXCEPT !.reps = stored])
      /\ cd' = [CStored(CHeader(len)) EXCEPT !.reps = stored]
      /\ split' = (IF h.bits.avail \in {0, 8} THEN "boundary" ELSE split)
      /\ phase' = "next"
      /\ block' = [type |-> Stored, len |-> len] /\ opened' = py.out
  BY <1>1 DEF OpenStored, OpenBlock
<1>3. /\ Args' /\ AtBlock /\ len \in Nat
      /\ Shape /\ goal' = goal /\ goal \in Nat /\ size' = size /\ size \in Nat /\ EvenSize
      /\ py.run = 0 /\ py.out \in Nat /\ CGoal' = CGoal
      /\ split = "none" => cd.run = 0 /\ py.out = cd.out /\ goal = CGoal /\ py.out <= goal
  BY <1>2, OpenInv
<1>4. PICK r, c :
        /\ h = [bits |-> r, upos |-> py.upos, rem |-> len, run |-> py.run,
                out |-> py.out, reps |-> py.reps]
        /\ CHeader(len) = [bits |-> c, rem |-> len, run |-> cd.run,
                           out |-> cd.out, reps |-> cd.reps]
        /\ r \in PyReaders
        /\ r.ok => /\ split = "none" /\ py.upos <= size /\ Together(r, c)
                   /\ r.avail \in 0..15 \cup {24}
  BY <1>1, <1>3, HeaderTogether
<1>5. PICK at : at = PyAlign(r).pos
  OBVIOUS
<1>6. PICK aligned : aligned = PyAlign(r)
  OBVIOUS
<1>7. aligned = [pos |-> at, avail |-> 0, ok |-> r.ok]
  <2>1. r = [pos |-> r.pos, avail |-> r.avail, ok |-> r.ok]
    BY <1>4 DEF PyReaders
  <2>2. PICK far : far = CeilDiv(8 * r.pos - r.avail, 8) + IF r.avail > 8 THEN 1 ELSE 0
    OBVIOUS
  <2>3. aligned = [r EXCEPT !.pos = far, !.avail = 0]
    BY <1>6, <2>2 DEF PyAlign
  <2>4. aligned = [pos |-> far, avail |-> 0, ok |-> r.ok]
    BY <2>1, <2>3
  <2>5. QED  BY <1>5, <1>6, <2>4
<1>8. PICK there : there = [bits |-> aligned, upos |-> at + 12, rem |-> len, run |-> py.run,
                            out |-> py.out, reps |-> py.reps]
  OBVIOUS
<1>9. PyStored(h) = PyFailIf(at + 12 > size, there)
  <2>1. h.bits = r
    BY <1>4
  <2>2. PyStored(h) = PyFailIf(aligned.pos + 12 > size,
                               [h EXCEPT !.bits = aligned, !.upos = aligned.pos + 12])
    BY <1>6, <2>1 DEF PyStored
  <2>3. aligned.pos = at
    BY <1>7
  <2>4. [h EXCEPT !.bits = aligned, !.upos = at + 12] = there
    <3>1. PICK upos : upos = at + 12
      OBVIOUS
    <3>2. PICK q : q = [h EXCEPT !.bits = aligned, !.upos = upos]
      OBVIOUS
    <3>3. q = [bits |-> aligned, upos |-> upos, rem |-> len, run |-> py.run,
               out |-> py.out, reps |-> py.reps]
      BY ONLY <1>4, <3>2
    <3>4. QED  BY ONLY <1>8, <3>1, <3>2, <3>3
  <2>5. QED  BY <2>2, <2>3, <2>4
<1>10. \E bits : /\ PyStored(h) = [bits |-> bits, upos |-> at + 12, rem |-> len, run |-> py.run,
                                   out |-> py.out, reps |-> py.reps]
                 /\ bits = [pos |-> bits.pos, avail |-> bits.avail, ok |-> bits.ok]
                 /\ bits.ok => bits = aligned /\ r.ok /\ ~(at + 12 > size)
  <2>1. CASE at + 12 > size
    <3>1. aligned = [pos |-> aligned.pos, avail |-> aligned.avail, ok |-> aligned.ok]
      BY <1>7
    <3>2. PICK bits : bits = [aligned EXCEPT !.ok = FALSE]
      OBVIOUS
    <3>3. bits = [pos |-> at, avail |-> 0, ok |-> FALSE]
      BY <1>7, <3>2
    <3>4. PyStored(h) = [there EXCEPT !.bits = bits]
      <4>1. PyStored(h) = [there EXCEPT !.bits = [there.bits EXCEPT !.ok = FALSE]]
        BY <1>9, <2>1 DEF PyFailIf, PyFail
      <4>2. there.bits = aligned
        BY <1>8
      <4>3. QED  BY <3>2, <4>1, <4>2
    <3>5. PyStored(h) = [bits |-> bits, upos |-> at + 12, rem |-> len, run |-> py.run,
                         out |-> py.out, reps |-> py.reps]
      BY <1>8, <3>4
    <3>6. bits.pos = at /\ bits.avail = 0 /\ bits.ok = FALSE
      BY <3>3
    <3>7. QED  BY <3>3, <3>5, <3>6
  <2>2. CASE ~(at + 12 > size)
    <3>1. PyStored(h) = there
      BY <1>9, <2>2 DEF PyFailIf
    <3>2. aligned.pos = at /\ aligned.avail = 0 /\ aligned.ok = r.ok
      BY <1>7
    <3>3. QED  BY <1>7, <1>8, <2>2, <3>1, <3>2
  <2>3. QED  BY <2>1, <2>2
<1>11. PICK bits : /\ PyStored(h) = [bits |-> bits, upos |-> at + 12, rem |-> len,
                                     run |-> py.run, out |-> py.out, reps |-> py.reps]
                   /\ bits = [pos |-> bits.pos, avail |-> bits.avail, ok |-> bits.ok]
                   /\ bits.ok => bits = aligned /\ r.ok /\ ~(at + 12 > size)
  BY <1>10
<1>12. PICK p : p = [bits |-> bits, upos |-> at + 12, rem |-> len,
                     run |-> py.run, out |-> py.out, reps |-> stored]
  OBVIOUS
<1>13. py' = PyFailIf(len = 0, p)
  <2>1. [PyStored(h) EXCEPT !.reps = stored] = p
    BY <1>11, <1>12
  <2>2. QED  BY <1>2, <2>1
<1>14. CASE len = 0
  <2>1. PICK failed : /\ ~failed.ok
                      /\ PyFail(p) = [bits |-> failed, upos |-> at + 12, rem |-> len,
                           run |-> py.run, out |-> py.out, reps |-> stored]
    BY <1>11, <1>12, PyFailed
  <2>2. py' = PyFail(p)
    BY <1>13, <1>14 DEF PyFailIf
  <2>3. ~PyOk'
    BY <2>1, <2>2 DEF PyOk
  <2>4. QED  BY <1>3, <2>3, FailedInv
<1>15. CASE len # 0 /\ ~bits.ok
  <2>1. py' = p
    BY <1>13, <1>15 DEF PyFailIf
  <2>2. ~PyOk'
    BY <1>12, <1>15, <2>1 DEF PyOk
  <2>3. QED  BY <1>3, <2>2, FailedInv
<1>16. CASE len # 0 /\ bits.ok
  <2>1. /\ r.ok /\ bits = aligned /\ ~(at + 12 > size)
        /\ split = "none" /\ Together(r, c) /\ r.avail \in 0..15 \cup {24}
    BY <1>4, <1>11, <1>16
  <2>2. PICK d : d = CAdvance(CAlign(c, size), size, 12)
    OBVIOUS
  <2>3. /\ at \in Int /\ at + 12 \in Nat
        /\ r.avail \notin {0, 8} /\ at + 12 <= size =>
             d = [ptr |-> at + 12, left |-> 0, ok |-> TRUE] /\ at % 2 = 0
        /\ r.avail \in {0, 8} => CPosition(d) # 8 * (at + 12)
    BY ONLY <1>3, <1>5, <2>1, <2>2, StoredPlace
  <2>4. PICK upos : upos = at + 12
    OBVIOUS
  <2>5. upos \in Nat /\ upos <= size
    BY <1>3, <2>1, <2>3, <2>4
  <2>6. py' = [bits |-> aligned, upos |-> upos, rem |-> len, run |-> 0,
               out |-> py.out, reps |-> stored]
    BY <1>3, <1>12, <1>13, <1>16, <2>1, <2>4 DEF PyFailIf
  <2>7. cd' = [bits |-> d, rem |-> len, run |-> 0, out |-> py.out, reps |-> stored]
    <3>1. PICK e : e = CHeader(len)
      OBVIOUS
    <3>2. e = [bits |-> c, rem |-> len, run |-> 0, out |-> py.out, reps |-> cd.reps]
      BY <1>3, <1>4, <2>1, <3>1
    <3>3. CStored(e) = [e EXCEPT !.bits = CAdvance(CAlign(e.bits, size), size, 12)]
      BY DEF CStored
    <3>4. CStored(e) = [e EXCEPT !.bits = d]
      BY <2>2, <3>2, <3>3
    <3>5. CStored(e) = [bits |-> d, rem |-> len, run |-> 0, out |-> py.out, reps |-> cd.reps]
      BY <3>2, <3>4
    <3>6. QED  BY <1>2, <3>1, <3>5
  <2>8. block'.type = Stored /\ block'.len = len
    BY <1>2
  <2>9. Shape'
    <3>1. /\ py'.bits = aligned /\ py'.upos = upos /\ py'.rem = len /\ py'.run = 0
          /\ py'.out = py.out /\ py'.reps = stored
          /\ cd'.bits = d /\ cd'.rem = len /\ cd'.run = 0 /\ cd'.out = py.out
          /\ cd'.reps = stored
      BY ONLY <2>6, <2>7
    <3>2. /\ py' = [bits |-> py'.bits, upos |-> py'.upos, rem |-> py'.rem, run |-> py'.run,
                    out |-> py'.out, reps |-> py'.reps]
          /\ cd' = [bits |-> cd'.bits, rem |-> cd'.rem, run |-> cd'.run, out |-> cd'.out,
                    reps |-> cd'.reps]
      BY ONLY <2>6, <2>7, <3>1
    <3>3. goal' \in Nat /\ opened' \in Nat
      BY <1>2, <1>3
    <3>4. QED  BY <1>3, <2>5, <3>1, <3>2, <3>3 DEF Shape
  <2>10. RunInFrame'
    BY <1>2, <2>6 DEF RunInFrame
  <2>11. PyPlace'
    <3>1. py'.bits.avail = 0 /\ py'.upos <= size' + 2
      BY <1>3, <1>7, <2>5, <2>6
    <3>2. QED  BY <2>8, <3>1 DEF PyPlace
  <2>12. py.out <= goal /\ goal = CGoal
    BY <1>3, <2>1
  <2>13. Counted'
    BY <1>2, <1>3, <2>6, <2>8, <2>12 DEF Counted
  <2>14. h.bits.avail = r.avail
    BY <1>4
  <2>15. CASE r.avail \notin {0, 8}
    <3>1. d = [ptr |-> upos, left |-> 0, ok |-> TRUE] /\ at % 2 = 0 /\ split' = "none"
      BY <1>2, <2>1, <2>3, <2>4, <2>5, <2>14, <2>15
    <3>2. (upos + len + len) % 2 = 0
      BY <1>3, <2>3, <2>4, <3>1
    <3>3. SamePlace'
      BY <1>3, <2>6, <2>7, <2>8, <2>12, <3>1, <3>2 DEF SamePlace
    <3>4. BehindTheEnd'
      BY <3>1 DEF BehindTheEnd
    <3>5. QED  BY <1>3, <2>6, <2>7, <2>9, <2>10, <2>11, <2>13, <3>3, <3>4 DEF LInv
  <2>16. CASE r.avail \in {0, 8}
    <3>1. split' = "boundary"
      BY <1>2, <2>14, <2>16
    <3>2. SamePlace'
      BY <3>1 DEF SamePlace
    <3>3. CPosition(d) # 8 * upos
      BY <2>3, <2>4, <2>16
    <3>4. PyAt' = 8 * upos /\ CAt' = CPosition(d)
      BY <2>6, <2>7, <2>8 DEF PyAt, CAt, CPosition
    <3>5. BehindTheEnd'
      BY <3>3, <3>4 DEF BehindTheEnd, InStep
    <3>6. QED  BY <1>3, <2>6, <2>7, <2>9, <2>10, <2>11, <2>13, <3>2, <3>5 DEF LInv
  <2>17. QED  BY <2>15, <2>16
<1>17. QED  BY <1>14, <1>15, <1>16

-----------------------------------------------------------------------------
(* Beginning a run: both take what is left of the block or of the frame.   *)
LEMMA BeginRunInv ==
  ASSUME LInv, BeginRun
  PROVE  LInv'
<1>1. /\ Live /\ phase = "next" /\ ~FrameFull /\ py.rem > 0 /\ block.type # Stored
      /\ py' = PyBegin(py) /\ cd' = [cd EXCEPT !.run = CRun(cd), !.rem = @ - CRun(cd)]
      /\ phase' = (IF PyRun(py) > 0 THEN "run" ELSE "next")
      /\ UNCHANGED <<size, total, block, produced, goal, opened, split>>
  BY DEF BeginRun, AtRun
<1>2. /\ EvenSize /\ size \in Nat
      /\ Shape /\ RunInFrame /\ PyPlace /\ Counted /\ py.reps = cd.reps /\ SamePlace
      /\ split = "none" /\ Args /\ Together(py.bits, cd.bits)
  BY <1>1, LiveFacts DEF LInv
<1>3. /\ py.rem \in Nat /\ py.run = 0 /\ py.out \in Nat /\ goal \in Nat /\ py.upos \in Nat
      /\ opened \in Nat /\ block.len \in Nat /\ py.upos <= size
  BY <1>1, <1>2, ArgsFacts DEF Shape, RunInFrame, PyPlace
<1>4. cd.rem = py.rem /\ cd.run = 0 /\ cd.out = py.out /\ CGoal = goal
  BY <1>2, <1>3 DEF SamePlace
<1>5. PICK n : n = PyRun(py)
  OBVIOUS
<1>6. py.out < goal
  BY <1>1, <1>3 DEF FrameFull
<1>7. /\ n \in Nat /\ n > 0 /\ n <= py.rem /\ py.out + n <= goal
      /\ py.rem - n = 0 \/ py.out + n = goal
  BY <1>1, <1>3, <1>5, <1>6 DEF PyRun, Least
<1>8. CRun(cd) = n
  BY <1>4, <1>5 DEF CRun, PyRun
<1>9. /\ py' = [bits |-> py.bits, upos |-> py.upos, rem |-> py.rem - n, run |-> n,
                out |-> py.out, reps |-> py.reps]
      /\ cd' = [bits |-> cd.bits, rem |-> py.rem - n, run |-> n, out |-> py.out, reps |-> py.reps]
  <2>1. py' = [py EXCEPT !.run = n, !.rem = py.rem - n]
    BY <1>1, <1>5 DEF PyBegin
  <2>2. cd' = [cd EXCEPT !.run = n, !.rem = py.rem - n]
    BY <1>1, <1>4, <1>8
  <2>3. QED  BY <1>2, <1>4, <2>1, <2>2 DEF Shape
<1>10. /\ py'.bits = py.bits /\ py'.upos = py.upos /\ py'.rem = py.rem - n /\ py'.run = n
       /\ py'.out = py.out /\ py'.reps = py.reps
       /\ cd'.bits = cd.bits /\ cd'.rem = py.rem - n /\ cd'.run = n /\ cd'.out = py.out
       /\ cd'.reps = py.reps
       /\ py.rem - n \in Nat /\ phase' = "run"
  <2>1. /\ py'.bits = py.bits /\ py'.upos = py.upos /\ py'.rem = py.rem - n /\ py'.run = n
        /\ py'.out = py.out /\ py'.reps = py.reps
    BY ONLY <1>9
  <2>2. /\ cd'.bits = cd.bits /\ cd'.rem = py.rem - n /\ cd'.run = n /\ cd'.out = py.out
        /\ cd'.reps = py.reps
    BY ONLY <1>9
  <2>3. py.rem - n \in Nat /\ phase' = "run"
    BY <1>1, <1>3, <1>5, <1>7
  <2>4. QED  BY <2>1, <2>2, <2>3
<1>11. Together(py.bits, cd.bits)' /\ CGoal' = CGoal
  <2>1. Together(py'.bits, cd'.bits)
    BY <1>2, <1>10
  <2>2. size' = size /\ total' = total /\ produced' = produced
    BY <1>1
  <2>3. QED
    BY ONLY <2>1, <2>2 DEF Together, PyWell, CWell, PyPosition, CPosition, CGoal, FrameSize
<1>12. Args'
  BY <1>1, <1>2 DEF Args
<1>13. Shape'
  <2>1. /\ py' = [bits |-> py'.bits, upos |-> py'.upos, rem |-> py'.rem, run |-> py'.run,
                  out |-> py'.out, reps |-> py'.reps]
        /\ cd' = [bits |-> cd'.bits, rem |-> cd'.rem, run |-> cd'.run, out |-> cd'.out,
                  reps |-> cd'.reps]
    BY ONLY <1>9, <1>10
  <2>2. QED  BY <1>1, <1>3, <1>7, <1>10, <2>1 DEF Shape
<1>14. RunInFrame'
  BY <1>1, <1>7, <1>10 DEF RunInFrame
<1>15. PyPlace'
  BY <1>1, <1>3, <1>10, <1>11 DEF PyPlace, Together
<1>16. Counted'
  <2>1. py.out = opened + block.len - py.rem - py.run /\ py.out <= goal
    BY <1>2, <1>3 DEF Counted
  <2>2. py.out = opened + block.len - (py.rem - n) - n
    BY <1>3, <1>7, <2>1
  <2>3. QED  BY <1>1, <1>10, <2>1, <2>2 DEF Counted
<1>17. SamePlace'
  BY <1>1, <1>3, <1>4, <1>6, <1>10, <1>11 DEF SamePlace
<1>18. BehindTheEnd'
  BY <1>1, <1>2 DEF BehindTheEnd
<1>19. QED
  BY <1>10, <1>12, <1>13, <1>14, <1>15, <1>16, <1>17, <1>18 DEF LInv

(* Copying stored bytes. What Python adds to its output is what it took    *)
(* off the block, unless the copy begins behind the end.                   *)
LEMMA CopyStoredInv ==
  ASSUME LInv, CopyStored
  PROVE  LInv'
<1>1. /\ Live /\ phase = "next" /\ ~FrameFull /\ py.rem > 0 /\ block.type = Stored
      /\ py' = PyCopy(py) /\ cd' = CCopy(cd)
      /\ split' = (IF py.upos > size THEN "short" ELSE split)
      /\ UNCHANGED <<size, total, phase, block, produced, goal, opened>>
  BY DEF CopyStored, AtRun
<1>2. /\ EvenSize /\ size \in Nat /\ py.bits.ok
      /\ Shape /\ RunInFrame /\ PyPlace /\ Counted /\ py.reps = cd.reps /\ SamePlace
      /\ py.upos <= size => split = "none"
      /\ Args
  BY <1>1, LiveFacts DEF LInv
<1>3. /\ py.rem \in Nat /\ py.run = 0 /\ py.out \in Nat /\ goal \in Nat /\ py.upos \in Nat
      /\ opened \in Nat /\ block.len \in Nat /\ py.upos <= size + 2 /\ py.bits.avail = 0
  BY <1>1, <1>2, ArgsFacts DEF Shape, RunInFrame, PyPlace
<1>4. PICK n : n = PyRun(py)
  OBVIOUS
<1>5. py.out < goal
  BY <1>1, <1>3 DEF FrameFull
<1>6. n \in Nat /\ n > 0 /\ n <= py.rem /\ py.out + n <= goal
  BY <1>1, <1>3, <1>4, <1>5 DEF PyRun, Least
<1>7. PICK missing : missing = (py.upos + n) - size
  OBVIOUS
<1>8. PICK chunk : chunk = IF missing <= 0 THEN n
                           ELSE missing + IF py.upos < size THEN size - py.upos ELSE 0
  OBVIOUS
<1>9. PICK p : p = [bits |-> py.bits, upos |-> py.upos + n, rem |-> py.rem - n,
                    run |-> py.run, out |-> py.out + chunk, reps |-> py.reps]
  OBVIOUS
<1>10. py' = PyFailIf(missing > 2, p)
  <2>1. PyCopy(py) = PyFailIf(missing > 2, [py EXCEPT !.upos = py.upos + n, !.rem = py.rem - n,
                                                      !.out = py.out + chunk])
    BY <1>4, <1>7, <1>8 DEF PyCopy
  <2>2. [py EXCEPT !.upos = py.upos + n, !.rem = py.rem - n, !.out = py.out + chunk] = p
    <3>1. PICK upos, rem, out : upos = py.upos + n /\ rem = py.rem - n /\ out = py.out + chunk
      OBVIOUS
    <3>2. PICK q : q = [py EXCEPT !.upos = upos, !.rem = rem, !.out = out]
      OBVIOUS
    <3>3. py = [bits |-> py.bits, upos |-> py.upos, rem |-> py.rem, run |-> py.run,
                out |-> py.out, reps |-> py.reps]
      BY <1>2 DEF Shape
    <3>4. q = [bits |-> py.bits, upos |-> upos, rem |-> rem, run |-> py.run,
               out |-> out, reps |-> py.reps]
      BY ONLY <3>2, <3>3
    <3>5. QED  BY ONLY <1>9, <3>1, <3>2, <3>4
  <2>3. QED  BY <1>1, <2>1, <2>2
<1>11. Args'
  BY <1>1, <1>2 DEF Args
<1>12. CASE missing > 2
  <2>1. py' = [p EXCEPT !.bits = [p.bits EXCEPT !.ok = FALSE]]
    BY <1>10, <1>12 DEF PyFailIf, PyFail
  <2>2. py'.bits = [py.bits EXCEPT !.ok = FALSE]
    BY <1>9, <2>1
  <2>3. CASE PyOk'
    <3>1. py'.bits.ok
      BY <2>3 DEF PyOk
    <3>2. QED  BY <2>2, <3>1
  <2>4. QED  BY <1>11, <2>3, FailedInv
<1>13. CASE ~(missing > 2)
  <2>1. py' = p
    BY <1>10, <1>13 DEF PyFailIf
  <2>2. PICK upos : upos = py.upos + n
    OBVIOUS
  <2>3. PICK out : out = py.out + chunk
    OBVIOUS
  <2>4. /\ upos \in Nat /\ upos <= size + 2 /\ upos > py.upos
        /\ py.rem - n \in Nat /\ chunk \in Nat /\ out \in Nat
        /\ py.upos <= size => chunk = n
    BY <1>2, <1>3, <1>6, <1>7, <1>8, <1>13, <2>2, <2>3
  <2>5. /\ py'.bits = py.bits /\ py'.upos = upos /\ py'.rem = py.rem - n /\ py'.run = py.run
        /\ py'.out = out /\ py'.reps = py.reps
        /\ py' = [bits |-> py.bits, upos |-> upos, rem |-> py.rem - n, run |-> py.run,
                  out |-> out, reps |-> py.reps]
    BY ONLY <1>9, <2>1, <2>2, <2>3
  <2>6. PICK c : c = CAdvance(cd.bits, size, CRun(cd))
    OBVIOUS
  <2>7. cd' = [bits |-> c, rem |-> cd.rem - CRun(cd), run |-> cd.run, out |-> cd.out + CRun(cd),
               reps |-> cd.reps]
    <3>1. PICK rem, done : rem = cd.rem - CRun(cd) /\ done = cd.out + CRun(cd)
      OBVIOUS
    <3>2. cd' = [cd EXCEPT !.bits = c, !.rem = rem, !.out = done]
      BY <1>1, <2>6, <3>1 DEF CCopy
    <3>3. cd = [bits |-> cd.bits, rem |-> cd.rem, run |-> cd.run, out |-> cd.out,
                reps |-> cd.reps]
      BY <1>2 DEF Shape
    <3>4. cd' = [bits |-> c, rem |-> rem, run |-> cd.run, out |-> done, reps |-> cd.reps]
      BY ONLY <3>2, <3>3
    <3>5. QED  BY ONLY <3>1, <3>4
  <2>8. /\ cd'.bits = c /\ cd'.rem = cd.rem - CRun(cd) /\ cd'.run = cd.run
        /\ cd'.out = cd.out + CRun(cd) /\ cd'.reps = cd.reps
    BY ONLY <2>7
  <2>9. Shape'
    <3>1. /\ py' = [bits |-> py'.bits, upos |-> py'.upos, rem |-> py'.rem, run |-> py'.run,
                    out |-> py'.out, reps |-> py'.reps]
          /\ cd' = [bits |-> cd'.bits, rem |-> cd'.rem, run |-> cd'.run, out |-> cd'.out,
                    reps |-> cd'.reps]
      BY ONLY <2>5, <2>7, <2>8
    <3>2. QED  BY <1>1, <1>3, <2>4, <2>5, <3>1 DEF Shape
  <2>10. RunInFrame'
    BY <1>1, <1>3, <2>5 DEF RunInFrame
  <2>11. PyPlace'
    BY <1>1, <1>3, <2>4, <2>5 DEF PyPlace
  <2>12. py'.reps = cd'.reps
    BY <1>2, <2>5, <2>8
  <2>13. CASE py.upos > size
    <3>1. split' = "short"
      BY <1>1, <2>13
    <3>2. SamePlace'
      BY <3>1 DEF SamePlace
    <3>3. upos > size
      BY <1>2, <1>3, <2>4, <2>13
    <3>4. Counted'
      <4>1. py'.upos = upos /\ size' = size /\ ~(upos <= size)
        BY <1>1, <1>2, <2>4, <2>5, <3>3
      <4>2. QED  BY <4>1 DEF Counted
    <3>5. BehindTheEnd'
      BY <1>1, <2>5, <3>3 DEF BehindTheEnd
    <3>6. QED  BY <1>11, <2>9, <2>10, <2>11, <2>12, <3>2, <3>4, <3>5 DEF LInv
  <2>14. CASE ~(py.upos > size)
    <3>1. py.upos <= size /\ split = "none" /\ split' = "none" /\ chunk = n /\ out = py.out + n
      BY <1>1, <1>2, <1>3, <2>3, <2>4, <2>14
    <3>2. /\ cd.rem = py.rem /\ cd.run = 0 /\ cd.out = py.out /\ CGoal = goal
          /\ cd.bits = [ptr |-> py.upos, left |-> 0, ok |-> TRUE]
          /\ (py.upos + py.rem + block.len) % 2 = 0
      BY <1>1, <1>2, <1>3, <3>1 DEF SamePlace
    <3>3. CRun(cd) = n
      BY <1>4, <3>2 DEF CRun, PyRun
    <3>4. c = [ptr |-> upos, left |-> 0, ok |-> TRUE]
      <4>1. py.upos \in Int /\ n \in Nat /\ size \in Nat
        BY <1>2, <1>3, <1>6
      <4>2. CAdvance([ptr |-> py.upos, left |-> 0, ok |-> TRUE], size, n)
              = [ptr |-> py.upos + n, left |-> 0, ok |-> (TRUE /\ py.upos + n <= size + 2)]
        BY ONLY <4>1, CAdvanced
      <4>3. py.upos + n <= size + 2
        BY <2>2, <2>4
      <4>4. QED  BY <2>2, <2>6, <3>2, <3>3, <4>2, <4>3
    <3>5. CGoal' = CGoal
      BY <1>1 DEF CGoal, FrameSize
    <3>6. upos + (py.rem - n) = py.upos + py.rem
      BY <1>3, <1>6, <2>2
    <3>7. SamePlace'
      <4>1. cd'.rem = py.rem - n /\ cd'.run = 0 /\ cd'.out = out /\ cd'.bits = c
        BY <2>8, <3>1, <3>2, <3>3
      <4>2. out <= goal /\ goal = CGoal
        BY <1>6, <3>1, <3>2
      <4>3. (upos + (py.rem - n) + block.len) % 2 = 0
        BY <3>2, <3>6
      <4>4. QED  BY <1>1, <1>3, <2>5, <3>1, <3>4, <3>5, <4>1, <4>2, <4>3 DEF SamePlace
    <3>8. Counted'
      <4>1. py.out = opened + block.len - py.rem - py.run /\ py.out <= goal
        BY <1>2, <3>1 DEF Counted
      <4>2. out = opened + block.len - (py.rem - n) - py.run /\ out <= goal
        BY <1>3, <1>6, <3>1, <4>1
      <4>3. QED  BY <1>1, <2>5, <4>2 DEF Counted
    <3>9. BehindTheEnd'
      BY <3>1 DEF BehindTheEnd
    <3>10. QED  BY <1>11, <2>9, <2>10, <2>11, <2>12, <3>7, <3>8, <3>9 DEF LInv
  <2>15. QED  BY <2>13, <2>14
<1>14. QED  BY <1>12, <1>13

-----------------------------------------------------------------------------
(* In a run: what is known of it.                                          *)
LEMMA RunFacts ==
  ASSUME LInv, AtToken
  PROVE  /\ EvenSize /\ size \in Nat /\ py.bits.ok /\ Args /\ Shape /\ Counted
         /\ block.type # Stored /\ split = "none" /\ Together(py.bits, cd.bits)
         /\ py.upos \in Nat /\ py.upos <= size /\ py.rem \in Nat /\ py.run \in Nat /\ py.run > 0
         /\ py.out \in Nat /\ goal \in Nat /\ opened \in Nat /\ block.len \in Nat
         /\ py.rem = 0 \/ py.out + py.run = goal
         /\ py.out + py.run <= goal /\ goal = CGoal
         /\ cd.rem = py.rem /\ cd.run = py.run /\ cd.out = py.out /\ cd.reps = py.reps
<1>1. Live /\ phase = "run"
  BY DEF AtToken
<1>2. /\ EvenSize /\ size \in Nat /\ py.bits.ok
      /\ Shape /\ RunInFrame /\ PyPlace /\ Counted /\ py.reps = cd.reps /\ SamePlace
      /\ block.type # Stored \/ py.upos <= size => split = "none"
      /\ block.type # Stored => Together(py.bits, cd.bits)
      /\ Args
  BY <1>1, LiveFacts DEF LInv
<1>3. /\ block.type # Stored /\ py.run > 0 /\ (py.rem = 0 \/ py.out + py.run = goal)
      /\ py.out + py.run <= goal
  BY <1>1, <1>2 DEF RunInFrame
<1>4. /\ split = "none" /\ Together(py.bits, cd.bits) /\ py.upos <= size
  BY <1>2, <1>3 DEF PyPlace
<1>5. goal = CGoal /\ cd.rem = py.rem /\ cd.run = py.run /\ cd.out = py.out
  BY <1>2, <1>4 DEF SamePlace
<1>6. /\ py.upos \in Nat /\ py.rem \in Nat /\ py.run \in Nat
      /\ py.out \in Nat /\ goal \in Nat /\ opened \in Nat /\ block.len \in Nat
  BY <1>2, ArgsFacts DEF Shape
<1>7. QED  BY <1>2, <1>3, <1>4, <1>5, <1>6

(* A token that stays within the run; and if C has decoded it too.         *)
LEMMA TokenKeeps ==
  ASSUME LInv, AtToken, NEW p, PyWell(p), NEW c, NEW n \in Nat, n <= py.run, NEW reps,
         py' = [bits |-> p, upos |-> py.upos, rem |-> py.rem, run |-> py.run - n,
                out |-> py.out + n, reps |-> reps],
         cd' = [bits |-> c, rem |-> py.rem, run |-> py.run - n, out |-> py.out + n,
                reps |-> reps],
         AfterToken, UNCHANGED <<size, total, block, produced, goal, opened>>
  PROVE  Args' /\ Shape' /\ RunInFrame' /\ PyPlace' /\ Counted'
<1>1. /\ EvenSize /\ size \in Nat /\ Args /\ Counted
      /\ block.type # Stored
      /\ py.upos \in Nat /\ py.upos <= size /\ py.rem \in Nat /\ py.run \in Nat /\ py.run > 0
      /\ py.out \in Nat /\ goal \in Nat /\ opened \in Nat /\ block.len \in Nat
      /\ py.rem = 0 \/ py.out + py.run = goal
      /\ py.out + py.run <= goal
  BY RunFacts
<1>2. PICK run, out : run = py.run - n /\ out = py.out + n
  OBVIOUS
<1>3. /\ run \in Nat /\ out \in Nat /\ (py.rem = 0 \/ out + run = goal)
      /\ out + run <= goal /\ out <= goal
  BY <1>1, <1>2
<1>4. /\ py'.bits = p /\ py'.upos = py.upos /\ py'.rem = py.rem /\ py'.run = run
      /\ py'.out = out /\ py'.reps = reps
      /\ cd'.bits = c /\ cd'.rem = py.rem /\ cd'.run = run /\ cd'.out = out /\ cd'.reps = reps
  BY ONLY <1>2, py' = [bits |-> p, upos |-> py.upos, rem |-> py.rem, run |-> py.run - n,
                out |-> py.out + n, reps |-> reps],
         cd' = [bits |-> c, rem |-> py.rem, run |-> py.run - n, out |-> py.out + n,
                reps |-> reps]
<1>5. /\ py' = [bits |-> py'.bits, upos |-> py'.upos, rem |-> py'.rem, run |-> py'.run,
                out |-> py'.out, reps |-> py'.reps]
      /\ cd' = [bits |-> cd'.bits, rem |-> cd'.rem, run |-> cd'.run, out |-> cd'.out,
                reps |-> cd'.reps]
  BY <1>2, <1>4
<1>6. /\ size' = size /\ total' = total /\ produced' = produced /\ block' = block
      /\ goal' = goal /\ opened' = opened
  OBVIOUS
<1>7. phase' = IF run > 0 THEN "run" ELSE "next"
  BY <1>4 DEF AfterToken
<1>8. PyWell(py.bits)'
  <2>1. PyWell(p)
    OBVIOUS
  <2>2. QED  BY ONLY <1>4, <1>6, <2>1 DEF PyWell
<1>9. Args'
  BY <1>1, <1>6 DEF Args
<1>10. Shape'
  BY ONLY <1>1, <1>3, <1>4, <1>5, <1>6 DEF Shape
<1>11. RunInFrame'
  BY ONLY <1>1, <1>3, <1>4, <1>6, <1>7 DEF RunInFrame
<1>12. PyPlace'
  BY ONLY <1>1, <1>4, <1>6, <1>8 DEF PyPlace
<1>13. Counted'
  <2>1. py.out = opened + block.len - py.rem - py.run
    BY <1>1 DEF Counted
  <2>2. out = opened + block.len - py.rem - run
    BY <1>1, <1>2, <2>1
  <2>3. QED  BY ONLY <1>3, <1>4, <1>6, <2>2 DEF Counted
<1>14. QED  BY <1>9, <1>10, <1>11, <1>12, <1>13

LEMMA TokenInv ==
  ASSUME LInv, AtToken, NEW p, NEW c, Together(p, c), NEW n \in Nat, n <= py.run, NEW reps,
         py' = [bits |-> p, upos |-> py.upos, rem |-> py.rem, run |-> py.run - n,
                out |-> py.out + n, reps |-> reps],
         cd' = [bits |-> c, rem |-> py.rem, run |-> py.run - n, out |-> py.out + n,
                reps |-> reps],
         AfterToken, UNCHANGED <<size, total, block, produced, goal, opened, split>>
  PROVE  LInv'
<1>1. /\ split = "none" /\ block.type # Stored /\ goal = CGoal
      /\ py.out + py.run <= goal /\ py.out \in Nat /\ py.run \in Nat /\ goal \in Nat
  BY RunFacts
<1>2. PyWell(p)
  BY DEF Together
<1>3. Args' /\ Shape' /\ RunInFrame' /\ PyPlace' /\ Counted'
  BY <1>2, TokenKeeps
<1>4. /\ py'.bits = p /\ py'.rem = py.rem /\ py'.run = py.run - n
      /\ py'.out = py.out + n /\ py'.reps = reps
      /\ cd'.bits = c /\ cd'.rem = py.rem /\ cd'.run = py.run - n /\ cd'.out = py.out + n
      /\ cd'.reps = reps
  OBVIOUS
<1>5. /\ size' = size /\ total' = total /\ produced' = produced /\ block' = block
      /\ goal' = goal /\ opened' = opened /\ split' = split
  OBVIOUS
<1>6. Together(py.bits, cd.bits)' /\ CGoal' = CGoal
  <2>1. Together(p, c)
    OBVIOUS
  <2>2. QED
    BY ONLY <1>4, <1>5, <2>1
       DEF Together, PyWell, CWell, PyPosition, CPosition, CGoal, FrameSize
<1>7. py.out + n <= goal
  BY <1>1
<1>8. SamePlace'
  BY ONLY <1>1, <1>4, <1>5, <1>6, <1>7 DEF SamePlace
<1>9. BehindTheEnd'
  BY <1>1, <1>5 DEF BehindTheEnd
<1>10. QED  BY <1>3, <1>4, <1>8, <1>9 DEF LInv

LEMMA LiteralInv ==
  ASSUME LInv, NEW code \in Codes, Literal(code)
  PROVE  LInv'
<1>1. /\ AtToken /\ AfterToken
      /\ py' = [py EXCEPT !.bits = PySymbol(@, size, code), !.out = @ + 1, !.run = @ - 1]
      /\ cd' = [cd EXCEPT !.bits = CSymbol(@, size, code), !.out = @ + 1, !.run = @ - 1]
      /\ UNCHANGED <<size, total, block, produced, goal, opened, split>>
  BY DEF Literal
<1>2. /\ EvenSize /\ Shape /\ Together(py.bits, cd.bits) /\ py.run \in Nat /\ py.run > 0
      /\ cd.rem = py.rem /\ cd.run = py.run /\ cd.out = py.out /\ cd.reps = py.reps
  BY <1>1, RunFacts
<1>3. PICK p : p = PySymbol(py.bits, size, code)
  OBVIOUS
<1>4. PICK c : c = CSymbol(cd.bits, size, code)
  OBVIOUS
<1>5. Together(p, c)
  BY <1>2, <1>3, <1>4, CodeLoads, SymbolTogether
<1>6a. PICK n \in Nat : n = 1
  OBVIOUS
<1>6. PICK reps : n = 1 /\ reps = py.reps
  BY <1>6a
<1>7. py' = [bits |-> p, upos |-> py.upos, rem |-> py.rem, run |-> py.run - n,
             out |-> py.out + n, reps |-> reps]
  <2>1. py' = [py EXCEPT !.bits = p, !.out = py.out + 1, !.run = py.run - 1]
    BY <1>1, <1>3
  <2>2. QED  BY <1>2, <1>6, <2>1 DEF Shape
<1>8. cd' = [bits |-> c, rem |-> py.rem, run |-> py.run - n, out |-> py.out + n,
             reps |-> reps]
  <2>1. cd' = [cd EXCEPT !.bits = c, !.out = cd.out + 1, !.run = cd.run - 1]
    BY <1>1, <1>4
  <2>2. QED  BY <1>2, <1>6, <2>1 DEF Shape
<1>9. n <= py.run
  BY <1>2, <1>6
<1>10. AtToken /\ AfterToken /\ UNCHANGED <<size, total, block, produced, goal, opened, split>>
  BY <1>1
<1>11. QED  BY ONLY LInv, <1>5, <1>7, <1>8, <1>9, <1>10, n \in Nat, TokenInv

(* A match: both read as many bits for it.                                 *)
LEMMA MatchFacts ==
  ASSUME NEW m \in Matches
  PROVE  /\ m.code \in [len : 1..16, table : 1..12] /\ m.footer \in BOOLEAN
         /\ m.slot \in 0..49 /\ m.len \in Nat /\ m.len > 0
<1>1. m \in [code : Codes, footer : BOOLEAN, slot : 0..49, ones : BOOLEAN, len : Nat \ {0}]
  BY StreamAssumption
<1>2. m.code \in Codes /\ m.footer \in BOOLEAN /\ m.slot \in 0..49 /\ m.len \in Nat \ {0}
  BY <1>1
<1>3. QED  BY <1>2, CodeLoads

LEMMA MatchTogether ==
  ASSUME EvenSize, NEW r, NEW c, Together(r, c), NEW m \in Matches
  PROVE  Together(PyMatchBits(r, m), CMatchBits(c, m))
<1>1. PICK extra : extra = PyExtraBits(m.slot)
  OBVIOUS
<1>2. /\ m.code \in [len : 1..16, table : 1..12] /\ m.footer \in BOOLEAN
      /\ m.slot \in 0..49
  BY MatchFacts
<1>3. CExtraBits(m.slot) = extra /\ extra \in 0..17
  BY <1>1, <1>2, ExtraBitsAgree
<1>4. PICK p1 : p1 = PySymbol(r, size, m.code)
  OBVIOUS
<1>5. PICK c1 : c1 = CSymbol(c, size, m.code)
  OBVIOUS
<1>6. PICK p2 : p2 = IF m.footer THEN PySymbol(p1, size, m.code) ELSE p1
  OBVIOUS
<1>7. PICK c2 : c2 = IF m.footer THEN CSymbol(c1, size, m.code) ELSE c1
  OBVIOUS
<1>8. Together(p1, c1)
  BY <1>2, <1>4, <1>5, SymbolTogether
<1>9. Together(p2, c2)
  <2>1. Together(PySymbol(p1, size, m.code), CSymbol(c1, size, m.code))
    BY ONLY EvenSize, <1>2, <1>8, SymbolTogether
  <2>2. QED  BY <1>6, <1>7, <1>8, <2>1
<1>10. PyMatchBits(r, m) = PyOffsetBits(p2, m) /\ CMatchBits(c, m) = COffsetBits(c2, m)
  BY <1>4, <1>5, <1>6, <1>7 DEF PyMatchBits, CMatchBits
<1>11. CASE block.type = Aligned /\ extra >= 3
  <2>1. PICK p3 : p3 = PyRead(p2, size, extra - 3)
    OBVIOUS
  <2>2. PICK c3 : c3 = CRead(c2, size, extra - 3)
    OBVIOUS
  <2>3. extra - 3 \in 0..17
    BY <1>3, <1>11
  <2>4. Together(p3, c3)
    BY ONLY EvenSize, <1>9, <2>1, <2>2, <2>3, ReadTogether
  <2>5. Together(PySymbol(p3, size, m.code), CSymbol(c3, size, m.code))
    BY ONLY EvenSize, <1>2, <2>4, SymbolTogether
  <2>6. /\ PyOffsetBits(p2, m) = PySymbol(p3, size, m.code)
        /\ COffsetBits(c2, m) = CSymbol(c3, size, m.code)
    BY <1>1, <1>3, <1>11, <2>1, <2>2 DEF PyOffsetBits, COffsetBits
  <2>7. QED  BY <1>10, <2>5, <2>6
<1>12. CASE ~(block.type = Aligned /\ extra >= 3)
  <2>1. Together(PyRead(p2, size, extra), CRead(c2, size, extra))
    BY ONLY EvenSize, <1>3, <1>9, ReadTogether
  <2>2. /\ PyOffsetBits(p2, m) = PyRead(p2, size, extra)
        /\ COffsetBits(c2, m) = CRead(c2, size, extra)
    BY <1>1, <1>3, <1>12 DEF PyOffsetBits, COffsetBits
  <2>3. QED  BY <1>10, <2>1, <2>2
<1>13. QED  BY <1>11, <1>12

(* A match puts the same offset into the queue of repeated ones.           *)
LEMMA RequeueAgrees ==
  ASSUME NEW m \in Matches, NEW reps, NEW type
  PROVE  Requeue(reps, m.slot, PyOffset(type, m)) = Requeue(reps, m.slot, COffset(type, m))
<1>1. m.slot \in 0..49
  BY MatchFacts
<1>2. CASE m.slot \in {0, 1, 2}
  BY <1>2 DEF Requeue
<1>3. CASE m.slot \notin {0, 1, 2}
  <2>1. m.slot \in 3..49
    BY <1>1, <1>3
  <2>2. QED  BY <2>1, OffsetsAgree
<1>4. QED  BY <1>2, <1>3

(* A match that Python lets pass stays within the run. C fails only on one *)
(* that reaches back too far.                                              *)
LEMMA MatchInv ==
  ASSUME LInv, NEW m \in Matches, Match(m)
  PROVE  LInv'
<1>1. /\ AtToken /\ AfterToken /\ py' = PyMatch(py, m) /\ cd' = CMatch(cd, m)
      /\ split' = (IF TooFar(m) THEN "reach" ELSE split)
      /\ UNCHANGED <<size, total, block, produced, goal, opened>>
  BY DEF Match
<1>2. /\ EvenSize /\ Args /\ Shape /\ Together(py.bits, cd.bits) /\ block.type # Stored
      /\ py.rem \in Nat /\ py.run \in Nat /\ py.out \in Nat /\ goal \in Nat /\ py.bits.ok
      /\ split = "none" /\ py.upos \in Nat /\ py.upos <= size
      /\ py.rem = 0 \/ py.out + py.run = goal
      /\ py.out + py.run <= goal /\ goal = CGoal
      /\ cd.rem = py.rem /\ cd.run = py.run /\ cd.out = py.out /\ cd.reps = py.reps
  BY <1>1, RunFacts
<1>3. PICK n \in Nat : n = m.len /\ n > 0
  BY MatchFacts
<1>4. PICK p : p = PyMatchBits(py.bits, m)
  OBVIOUS
<1>5. PICK c : c = CMatchBits(cd.bits, m)
  OBVIOUS
<1>6. Together(p, c)
  BY ONLY <1>2, <1>4, <1>5, m \in Matches, MatchTogether
<1>7. PICK reps : reps = CReps(m)
  OBVIOUS
<1>8. Requeue(py.reps, m.slot, PyOffset(block.type, m)) = reps
  BY <1>2, <1>7, RequeueAgrees DEF CReps
<1>9. PICK over : over = n - py.run
  OBVIOUS
<1>10. PICK rem : rem = IF over > 0 THEN py.rem - over ELSE py.rem
  OBVIOUS
<1>11. PICK there : there = [bits |-> p, upos |-> py.upos, rem |-> rem, run |-> py.run - n,
                             out |-> py.out + n, reps |-> reps]
  OBVIOUS
<1>12. py' = PyFailIf(over > py.rem \/ py.out + n > goal, there)
  <2>1. PyMatch(py, m) = PyFailIf(over > py.rem \/ py.out + n > goal,
          [py EXCEPT !.bits = p, !.out = py.out + n, !.run = py.run - n,
                     !.rem = rem, !.reps = reps])
    BY <1>3, <1>4, <1>8, <1>9, <1>10 DEF PyMatch
  <2>2. [py EXCEPT !.bits = p, !.out = py.out + n, !.run = py.run - n, !.rem = rem,
                   !.reps = reps] = there
    <3>1. PICK run, out : run = py.run - n /\ out = py.out + n
      OBVIOUS
    <3>2. py = [bits |-> py.bits, upos |-> py.upos, rem |-> py.rem, run |-> py.run,
                out |-> py.out, reps |-> py.reps]
      BY <1>2 DEF Shape
    <3>3. PICK q : q = [py EXCEPT !.bits = p, !.out = out, !.run = run, !.rem = rem,
                                  !.reps = reps]
      OBVIOUS
    <3>4. q = [bits |-> p, upos |-> py.upos, rem |-> rem, run |-> run, out |-> out,
               reps |-> reps]
      BY ONLY <3>2, <3>3
    <3>5. QED  BY ONLY <1>11, <3>1, <3>3, <3>4
  <2>3. QED  BY <1>1, <2>1, <2>2
<1>13. PICK here : here = [bits |-> c, rem |-> rem, run |-> py.run - n,
                           out |-> py.out + n, reps |-> reps]
  OBVIOUS
<1>14. cd' = CFailIf(py.out + n > Window \/ TooFar(m) \/ over > py.rem, here)
  <2>1. CMatch(cd, m) = CFailIf(cd.out + n > Window \/ TooFar(m) \/ over > cd.rem,
          [cd EXCEPT !.bits = c, !.out = cd.out + n, !.run = cd.run - n,
                     !.rem = rem, !.reps = reps])
    BY <1>2, <1>3, <1>5, <1>7, <1>9, <1>10 DEF CMatch
  <2>2. [cd EXCEPT !.bits = c, !.out = cd.out + n, !.run = cd.run - n, !.rem = rem,
                   !.reps = reps] = here
    <3>1. PICK run, out : run = py.run - n /\ out = py.out + n
      OBVIOUS
    <3>2. cd = [bits |-> cd.bits, rem |-> cd.rem, run |-> cd.run, out |-> cd.out,
                reps |-> cd.reps]
      BY <1>2 DEF Shape
    <3>3. cd.run = py.run /\ cd.out = py.out
      BY <1>2
    <3>4. PICK q : q = [cd EXCEPT !.bits = c, !.out = out, !.run = run, !.rem = rem,
                                  !.reps = reps]
      OBVIOUS
    <3>5. q = [bits |-> c, rem |-> rem, run |-> run, out |-> out, reps |-> reps]
      BY ONLY <3>2, <3>4
    <3>6. QED  BY ONLY <1>13, <3>1, <3>3, <3>4, <3>5
  <2>3. QED  BY <1>1, <1>2, <2>1, <2>2
<1>15. Args'
  BY <1>1, <1>2 DEF Args
<1>16. CASE over > py.rem \/ py.out + n > goal
  <2>1. py' = PyFail(there)
    BY <1>12, <1>16 DEF PyFailIf
  <2>2. p = [pos |-> p.pos, avail |-> p.avail, ok |-> p.ok]
    BY <1>6 DEF Together, PyWell, PyReaders
  <2>3. PICK failed : /\ ~failed.ok
                      /\ PyFail(there) = [bits |-> failed, upos |-> py.upos, rem |-> rem,
                           run |-> py.run - n, out |-> py.out + n, reps |-> reps]
    BY <1>11, <2>2, PyFailed
  <2>4. ~PyOk'
    BY <2>1, <2>3 DEF PyOk
  <2>5. QED  BY <1>15, <2>4, FailedInv
<1>17. CASE ~(over > py.rem \/ py.out + n > goal)
  <2>1. n <= py.run /\ rem = py.rem /\ ~(over > py.rem)
    BY <1>2, <1>3, <1>9, <1>10, <1>17
  <2>2. py' = [bits |-> p, upos |-> py.upos, rem |-> py.rem, run |-> py.run - n,
               out |-> py.out + n, reps |-> reps]
    BY <1>11, <1>12, <1>17, <2>1 DEF PyFailIf
  <2>3. ~(py.out + n > Window)
    <3>1. CGoal <= total /\ total <= Window /\ Window \in Nat /\ total \in Nat
      BY <1>2, ArgsFacts
    <3>2. QED  BY <1>2, <1>3, <1>17, <3>1
  <2>4. CASE ~TooFar(m)
    <3>1. cd' = [bits |-> c, rem |-> py.rem, run |-> py.run - n, out |-> py.out + n,
                 reps |-> reps]
      BY <1>13, <1>14, <2>1, <2>3, <2>4 DEF CFailIf
    <3>2. UNCHANGED <<size, total, block, produced, goal, opened, split>>
      BY <1>1, <2>4
    <3>3. QED  BY ONLY LInv, <1>1, <1>3, <1>6, <2>1, <2>2, <3>1, <3>2, TokenInv
  <2>5. CASE TooFar(m)
    <3>1. split' = "reach"
      BY <1>1, <2>5
    <3>2. cd' = [here EXCEPT !.bits = [here.bits EXCEPT !.ok = FALSE]]
      BY <1>14, <2>5 DEF CFailIf
    <3>3. PICK failed : failed = [c EXCEPT !.ok = FALSE]
      OBVIOUS
    <3>4. cd' = [bits |-> failed, rem |-> py.rem, run |-> py.run - n, out |-> py.out + n,
                 reps |-> reps]
      BY <1>13, <2>1, <3>2, <3>3
    <3>5. PyWell(p)
      BY <1>6 DEF Together
    <3>6. UNCHANGED <<size, total, block, produced, goal, opened>>
      BY <1>1
    <3>7. Args' /\ Shape' /\ RunInFrame' /\ PyPlace' /\ Counted'
      BY ONLY LInv, <1>1, <1>3, <2>1, <2>2, <3>4, <3>5, <3>6, TokenKeeps
    <3>8. py'.bits = p /\ py'.reps = reps /\ cd'.bits = failed /\ cd'.reps = reps
      BY <2>2, <3>4
    <3>9. SamePlace'
      BY <3>1 DEF SamePlace
    <3>10. ASSUME p.ok PROVE BehindTheEnd'
      <4>1. c \in CReaders
        BY <1>6, <3>10 DEF Together, CWell
      <4>2. ~failed.ok
        BY <3>3, <4>1 DEF CReaders
      <4>3. ~InStep'
        BY <3>8, <4>2 DEF InStep, COk
      <4>4. QED  BY <4>3 DEF BehindTheEnd
    <3>11. QED  BY <3>7, <3>8, <3>9, <3>10 DEF LInv, PyOk
  <2>6. QED  BY <2>4, <2>5
<1>18. QED  BY <1>16, <1>17

-----------------------------------------------------------------------------
LEMMA CFrameAlignStays ==
  ASSUME NEW at
  PROVE  CFrameAlign([ptr |-> at, left |-> 0, ok |-> TRUE], size)
           = [ptr |-> at, left |-> 0, ok |-> TRUE]
<1>1. PICK c : c = [ptr |-> at, left |-> 0, ok |-> TRUE]
  OBVIOUS
<1>2. c.left = 0
  BY <1>1
<1>3. CFrameAlign(c, size) = CRemove(c, c.left % 16)
  BY <1>2 DEF CFrameAlign, WordBits
<1>4. c.left % 16 = 0
  BY <1>2
<1>5. CRemove(c, 0) = [ptr |-> at, left |-> 0 - 0, ok |-> TRUE]
  BY <1>1, CRemoveLeaves
<1>6. QED  BY <1>1, <1>3, <1>4, <1>5

(* The end of a frame: both align, and both set out for the next.          *)
LEMMA EndFrameInv ==
  ASSUME LInv, EndFrame
  PROVE  LInv'
<1>1. /\ Live /\ phase = "next" /\ FrameFull
      /\ py' = [py EXCEPT !.bits = PyFrameAlign(@, size)]
      /\ cd' = [cd EXCEPT !.bits = CFrames(@)]
      /\ produced' = produced + FrameSize
      /\ goal' = py.out + Least(Frame, total - produced')
      /\ phase' \in {"done", "next"}
      /\ UNCHANGED <<size, total, block, opened, split>>
  BY DEF EndFrame
<1>2. /\ EvenSize /\ size \in Nat /\ py.bits.ok
      /\ Shape /\ RunInFrame /\ PyPlace /\ Counted /\ py.reps = cd.reps /\ SamePlace
      /\ BehindTheEnd /\ InStep /\ Args
      /\ block.type # Stored => Together(py.bits, cd.bits)
  BY <1>1, LiveFacts DEF LInv, Live
<1>3. /\ py.run = 0 /\ py.rem \in Nat /\ py.out \in Nat /\ goal \in Nat /\ py.upos \in Nat
      /\ opened \in Nat
  BY <1>1, <1>2 DEF Shape, RunInFrame
<1>4. /\ total \in Nat /\ produced \in Nat /\ FrameSize \in Nat /\ Frame \in Nat
      /\ FrameSize <= total - produced /\ CGoal = produced + FrameSize
  BY <1>2, ArgsFacts DEF CGoal
<1>5. PICK next : next = Least(Frame, total - (produced + FrameSize))
  OBVIOUS
<1>6. next \in Nat /\ goal' = py.out + next /\ goal' \in Nat /\ py.out <= goal'
  <2>1. next \in Nat
    BY <1>4, <1>5 DEF Least
  <2>2. goal' = py.out + next
    BY <1>1, <1>5
  <2>3. QED  BY <1>3, <2>1, <2>2
<1>7. CGoal' = CGoal + next
  BY <1>1, <1>4, <1>5 DEF CGoal, FrameSize
<1>8. Args'
  <2>1. produced' \in 0..total
    BY <1>1, <1>4
  <2>2. QED  BY <1>1, <1>2, <2>1 DEF Args
<1>9. PICK p : p = PyFrameAlign(py.bits, size)
  OBVIOUS
<1>10. PICK c : c = CFrames(cd.bits)
  OBVIOUS
<1>11. /\ py' = [bits |-> p, upos |-> py.upos, rem |-> py.rem, run |-> py.run,
                 out |-> py.out, reps |-> py.reps]
       /\ cd' = [bits |-> c, rem |-> cd.rem, run |-> cd.run, out |-> cd.out, reps |-> cd.reps]
  BY <1>1, <1>2, <1>9, <1>10 DEF Shape
<1>12. /\ py'.bits = p /\ py'.upos = py.upos /\ py'.rem = py.rem /\ py'.run = py.run
       /\ py'.out = py.out /\ py'.reps = py.reps
       /\ cd'.bits = c /\ cd'.rem = cd.rem /\ cd'.run = cd.run /\ cd'.out = cd.out
       /\ cd'.reps = cd.reps
  BY ONLY <1>11
<1>13. Shape'
  <2>1. /\ py' = [bits |-> py'.bits, upos |-> py'.upos, rem |-> py'.rem, run |-> py'.run,
                  out |-> py'.out, reps |-> py'.reps]
        /\ cd' = [bits |-> cd'.bits, rem |-> cd'.rem, run |-> cd'.run, out |-> cd'.out,
                  reps |-> cd'.reps]
    BY ONLY <1>11, <1>12
  <2>2. opened' \in Nat /\ py'.run \in Nat
    BY <1>1, <1>3, <1>12
  <2>3. QED  BY ONLY <1>3, <1>6, <1>12, <2>1, <2>2 DEF Shape
<1>14. RunInFrame'
  BY <1>1, <1>3, <1>12 DEF RunInFrame
<1>15. Counted'
  <2>1. size' = size /\ opened' = opened /\ block' = block
    BY <1>1
  <2>2. QED  BY ONLY <1>2, <1>6, <1>12, <2>1 DEF Counted
<1>16. py'.reps = cd'.reps
  BY <1>2, <1>12
<1>17. BehindTheEnd'
  <2>1. split # "none" => block.type = Stored /\ py.upos > size
    BY <1>2 DEF BehindTheEnd
  <2>2. size' = size /\ split' = split /\ block' = block
    BY <1>1
  <2>3. QED  BY ONLY <1>12, <2>1, <2>2 DEF BehindTheEnd
<1>18. ASSUME split = "none"
       PROVE  /\ cd.rem = py.rem /\ cd.run = py.run /\ cd.out = py.out
              /\ goal' = CGoal' /\ py.out <= goal'
  <2>1. /\ cd.rem = py.rem /\ cd.run = py.run /\ cd.out = py.out /\ goal = CGoal
        /\ py.out <= goal
    BY <1>2, <1>18 DEF SamePlace
  <2>2. py.out >= goal
    BY <1>1 DEF FrameFull
  <2>3. py.out = CGoal
    BY <1>3, <2>1, <2>2
  <2>4. QED  BY <1>6, <1>7, <2>1, <2>3
<1>19. CASE block.type = Stored
  <2>1. py.bits.avail = 0 /\ py.upos <= size + 2
    BY <1>2, <1>19 DEF PyPlace
  <2>2. p = py.bits
    BY <1>9, <2>1 DEF PyFrameAlign
  <2>3. PyPlace'
    BY <1>1, <1>12, <1>19, <2>1, <2>2 DEF PyPlace
  <2>4. SamePlace'
    <3>1. CASE split # "none"
      BY <1>1, <3>1 DEF SamePlace
    <3>2. CASE split = "none"
      <4>1. /\ cd.bits = [ptr |-> py.upos, left |-> 0, ok |-> TRUE]
            /\ (py.upos + py.rem + block.len) % 2 = 0
        BY <1>2, <1>19, <3>2 DEF SamePlace
      <4>2. CFrameAlign(cd.bits, size) = cd.bits
        BY <4>1, CFrameAlignStays
      <4>3. c = cd.bits
        BY <1>10, <4>2 DEF CFrames
      <4>4. size' = size /\ split' = split /\ block' = block
        BY <1>1
      <4>5. QED  BY ONLY <1>12, <1>18, <1>19, <3>2, <4>1, <4>3, <4>4 DEF SamePlace
    <3>3. QED  BY <3>1, <3>2
  <2>5. QED  BY <1>8, <1>13, <1>14, <1>15, <1>16, <1>17, <2>3, <2>4 DEF LInv
<1>20. CASE block.type # Stored
  <2>1. Together(py.bits, cd.bits) /\ PyWell(py.bits) /\ py.upos <= size
    BY <1>2, <1>20 DEF PyPlace
  <2>2. Together(p, c)
    <3>1. /\ Together(PyFrameAlign(py.bits, size), CFrameAlign(cd.bits, size))
          /\ Together(PyFrameAlign(py.bits, size),
                      CFrameAlign(CFrameAlign(cd.bits, size), size))
      BY ONLY <1>2, <2>1, FrameAlignTogether
    <3>2. \/ c = CFrameAlign(cd.bits, size)
          \/ c = CFrameAlign(CFrameAlign(cd.bits, size), size)
      BY <1>10 DEF CFrames
    <3>3. QED  BY <1>9, <3>1, <3>2
  <2>3. size' = size /\ split' = split /\ block' = block
    BY <1>1
  <2>4. Together(py.bits, cd.bits)'
    BY ONLY <1>12, <2>2, <2>3 DEF Together, PyWell, CWell, PyPosition, CPosition
  <2>5. PyPlace'
    BY ONLY <1>12, <1>20, <2>1, <2>3, <2>4 DEF PyPlace, Together
  <2>6. SamePlace'
    BY ONLY <1>12, <1>18, <1>20, <2>3, <2>4 DEF SamePlace
  <2>7. QED  BY <1>8, <1>13, <1>14, <1>15, <1>16, <1>17, <2>5, <2>6 DEF LInv
<1>21. QED  BY <1>19, <1>20

LEMMA StutterInv ==
  ASSUME LInv, UNCHANGED vars
  PROVE  LInv'
BY DEF vars, LInv, Args, Shape, RunInFrame, PyPlace, Counted, SamePlace, BehindTheEnd, InStep,
       PyOk, COk, PyAt, CAt, CGoal, FrameSize, Together, PyWell, CWell, PyPosition, CPosition

LEMMA StepInv == LInv /\ [Next]_vars => LInv'
<1> SUFFICES ASSUME LInv, [Next]_vars PROVE LInv'
  OBVIOUS
<1>1. CASE \E intel \in BOOLEAN : Start(intel)
  BY <1>1, StartInv
<1>2. CASE \E type \in {Verbatim, Aligned}, len \in BlockLengths : OpenCompressed(type, len)
  BY <1>2, OpenCompressedInv
<1>3. CASE \E len \in BlockLengths, stored \in HeaderOffsets : OpenStored(len, stored)
  BY <1>3, OpenStoredInv
<1>4. CASE \E len \in BlockLengths : OpenInvalid(len)
  BY <1>4, OpenInvalidInv
<1>5. CASE \E n \in TreeReads : TreeField(n)
  BY <1>5, TreeFieldInv
<1>6. CASE \E code \in Codes : TreeSymbol(code)
  BY <1>6, TreeSymbolInv
<1>7. CASE TreesBuilt
  BY <1>7, TreesBuiltInv
<1>8. CASE BeginRun
  BY <1>8, BeginRunInv
<1>9. CASE CopyStored
  BY <1>9, CopyStoredInv
<1>10. CASE \E code \in Codes : Literal(code)
  BY <1>10, LiteralInv
<1>11. CASE \E m \in Matches : Match(m)
  BY <1>11, MatchInv
<1>12. CASE EndFrame
  BY <1>12, EndFrameInv
<1>13. CASE UNCHANGED vars
  BY <1>13, StutterInv
<1>14. QED
  BY <1>1, <1>2, <1>3, <1>4, <1>5, <1>6, <1>7, <1>8, <1>9, <1>10, <1>11, <1>12, <1>13 DEF Next

THEOREM DecodersInvariant == Spec => []LInv
BY InitInv, StepInv, PTL DEF Spec

-----------------------------------------------------------------------------
LEMMA LInvLockstep == LInv => Lockstep
<1> SUFFICES ASSUME LInv, PyOk, split = "none" PROVE InStep
  BY DEF Lockstep, LInv
<1>1. Args /\ Shape /\ PyPlace /\ SamePlace /\ EvenSize
  BY ArgsFacts DEF LInv
<1>2. /\ py.rem = cd.rem /\ py.run = cd.run /\ py.out = cd.out /\ goal = CGoal
      /\ py.out <= goal /\ py.reps = cd.reps /\ py.out \in Nat /\ goal \in Nat
      /\ py.upos \in Nat
  BY <1>1 DEF SamePlace, Shape, LInv
<1>3. Least(py.out, CGoal) = cd.out
  BY <1>2 DEF Least
<1>4. COk /\ PyAt = CAt
  <2>1. CASE block.type = Stored
    <3>1. cd.bits = [ptr |-> py.upos, left |-> 0, ok |-> TRUE]
      BY <1>1, <2>1 DEF SamePlace
    <3>2. CPosition(cd.bits) = 8 * py.upos
      BY <1>2, <3>1 DEF CPosition
    <3>3. QED  BY <2>1, <3>1, <3>2 DEF COk, PyAt, CAt
  <2>2. CASE block.type # Stored
    <3>1. Together(py.bits, cd.bits) /\ py.bits.ok
      BY <1>1, <2>2 DEF SamePlace, PyOk
    <3>2. CWell(cd.bits) /\ PyPosition(py.bits) = CPosition(cd.bits)
      BY <3>1 DEF Together
    <3>3. QED  BY <2>2, <3>2 DEF CWell, COk, PyAt, CAt
  <2>3. QED  BY <2>1, <2>2
<1>5. QED  BY <1>2, <1>3, <1>4 DEF InStep

(* lzx.py stands in for the compiled decoder, whatever the stream says: for *)
(* every size of frame and window, every code, every block and every match *)
(* the two stay at the same bit, at the same place of block, run and frame *)
(* and with the same repeated offsets as long as Python decodes, but for   *)
(* the three ways apart that Lockstep names (decompress in both).          *)
THEOREM AlwaysInLockstep == Spec => []Lockstep
BY DecodersInvariant, LInvLockstep, PTL

(* Runs, chunks and matches count the same bytes off the block and the     *)
(* frame, on every stream (decompress, lines 353 to 441).                  *)
THEOREM BlocksAlwaysCounted == Spec => []BlockCounted
<1>1. LInv => BlockCounted
  BY DEF LInv, Counted, BlockCounted
<1>2. QED  BY <1>1, DecodersInvariant, PTL

(* No stream that decodes was cut off by more than two bytes of a stored   *)
(* block (peek, line 359).                                                 *)
THEOREM NothingAlwaysBehindTheEnd == Spec => []NothingBehindTheEnd
<1>1. LInv => NothingBehindTheEnd
  <2> SUFFICES ASSUME LInv, PyOk PROVE NothingBehindTheEnd
    BY DEF NothingBehindTheEnd
  <2>1. Args /\ Shape /\ PyPlace /\ EvenSize /\ size \in Nat
    BY ArgsFacts DEF LInv
  <2>2. CASE block.type = Stored
    <3>1. py.upos \in Nat /\ py.upos <= size + 2 /\ PyAt = 8 * py.upos
      BY <2>1, <2>2 DEF PyPlace, Shape, PyAt
    <3>2. PyAt <= 8 * (size + 2)
      BY <2>1, <3>1
    <3>3. QED  BY <2>2, <3>2 DEF NothingBehindTheEnd
  <2>3. CASE block.type # Stored
    <3>1. PyWell(py.bits) /\ py.bits.ok /\ PyAt = 8 * py.bits.pos - py.bits.avail
      BY <2>1, <2>3 DEF PyPlace, PyOk, PyAt, PyPosition
    <3>2. py.bits.pos \in Nat /\ py.bits.avail \in 0..32 /\ py.bits.pos <= size
      BY <3>1 DEF PyWell, PyReaders
    <3>3. PyAt <= 8 * size
      BY <2>1, <3>1, <3>2
    <3>4. QED  BY <3>3 DEF NothingBehindTheEnd
  <2>4. QED  BY <2>2, <2>3
<1>2. QED  BY <1>1, DecodersInvariant, PTL

-----------------------------------------------------------------------------
(***************************************************************************)
(* The tables of position slots.                                           *)
(***************************************************************************)
(* A field of n bits counts to width.                                      *)
Wide(n, width) == width \in Nat /\ width >= 1 /\ width = 2^n

LEMMA Widths ==
  /\ Wide(0, 1) /\ Wide(1, 2) /\ Wide(2, 4)
  /\ Wide(3, 8) /\ Wide(4, 16) /\ Wide(5, 32)
  /\ Wide(6, 64) /\ Wide(7, 128) /\ Wide(8, 256)
  /\ Wide(9, 512) /\ Wide(10, 1024) /\ Wide(11, 2048)
  /\ Wide(12, 4096) /\ Wide(13, 8192) /\ Wide(14, 16384)
  /\ Wide(15, 32768) /\ Wide(16, 65536) /\ Wide(17, 131072)
BY SMT DEF Wide

LEMMA PowersAreWidths ==
  ASSUME NEW n \in 0..17
  PROVE  Wide(n, 2^n)
<1>1. \/ n = 0 \/ n = 1 \/ n = 2 \/ n = 3 \/ n = 4 \/ n = 5 \/ n = 6 \/ n = 7 \/ n = 8 \/ n = 9
      \/ n = 10 \/ n = 11 \/ n = 12 \/ n = 13 \/ n = 14 \/ n = 15 \/ n = 16 \/ n = 17
  BY SMT
<1>2. \E width : Wide(n, width)
  BY <1>1, Widths, SMT
<1>3. QED  BY <1>2 DEF Wide

(* A pair of slots takes twice the bytes of one of them.                   *)
LEMMA PairOfBases ==
  ASSUME NEW pair \in 0..24, NEW n, CPairBits[pair] = n, NEW width, Wide(n, width),
         NEW low, CPositionBase[2 * pair] = low
  PROVE  CPositionBase[2 * pair + 2] = low + width + width
<1>1. PICK a, b, c : a = 2 * pair /\ b = a + 1 /\ c = a + 2
  OBVIOUS
<1>2. /\ a \in 0..49 /\ b \in 0..49 /\ b \in 1..50 /\ c \in 1..50 /\ b \in 0..50 /\ c \in 0..50
      /\ b # 0 /\ c # 0 /\ b - 1 = a /\ c - 1 = b /\ a \div 2 = pair /\ b \div 2 = pair
  BY <1>1
<1>3. CExtraBits(a) = CPairBits[pair] /\ CExtraBits(b) = CPairBits[pair]
  BY <1>2 DEF CExtraBits
<1>w. width \in Nat /\ 2^CPairBits[pair] = width
  BY DEF Wide
<1>4. CPositionBase[b] = CPositionBase[a] + width
  BY <1>2, <1>3, <1>w, CTable
<1>5. CPositionBase[c] = CPositionBase[b] + width
  BY <1>2, <1>3, <1>w, CTable
<1>6. CPositionBase[a] \in Int
  BY <1>2, BasesAgree
<1>7. CPositionBase[c] = CPositionBase[a] + width + width
  BY <1>4, <1>5, <1>6, <1>w
<1>8. QED  BY <1>1, <1>7

(* Where the slots of every window end.                                    *)
LEMMA WindowEnds ==
  /\ CPositionBase[30] = 32768 /\ CPositionBase[32] = 65536 /\ CPositionBase[34] = 131072
  /\ CPositionBase[36] = 262144 /\ CPositionBase[38] = 524288 /\ CPositionBase[42] = 1048576
  /\ CPositionBase[50] = 2097152
<1>0. CPositionBase[0] = 0
  BY CTable
<1>1. CPositionBase[2] = 2
  <2>1. CPairBits[0] = 0
    BY PairTable, SMT
  <2>2. CPositionBase[2 * 0] = 0
    BY <1>0, SMT
  <2>3. CPositionBase[2 * 0 + 2] = 0 + 1 + 1
    BY <2>1, <2>2, Widths, PairOfBases, 0 \in 0..24, SMT
  <2>4. QED  BY <2>3, SMT
<1>2. CPositionBase[4] = 4
  <2>1. CPairBits[1] = 0
    BY PairTable, SMT
  <2>2. CPositionBase[2 * 1] = 2
    BY <1>1, SMT
  <2>3. CPositionBase[2 * 1 + 2] = 2 + 1 + 1
    BY <2>1, <2>2, Widths, PairOfBases, 1 \in 0..24, SMT
  <2>4. QED  BY <2>3, SMT
<1>3. CPositionBase[6] = 8
  <2>1. CPairBits[2] = 1
    BY PairTable, SMT
  <2>2. CPositionBase[2 * 2] = 4
    BY <1>2, SMT
  <2>3. CPositionBase[2 * 2 + 2] = 4 + 2 + 2
    BY <2>1, <2>2, Widths, PairOfBases, 2 \in 0..24, SMT
  <2>4. QED  BY <2>3, SMT
<1>4. CPositionBase[8] = 16
  <2>1. CPairBits[3] = 2
    BY PairTable, SMT
  <2>2. CPositionBase[2 * 3] = 8
    BY <1>3, SMT
  <2>3. CPositionBase[2 * 3 + 2] = 8 + 4 + 4
    BY <2>1, <2>2, Widths, PairOfBases, 3 \in 0..24, SMT
  <2>4. QED  BY <2>3, SMT
<1>5. CPositionBase[10] = 32
  <2>1. CPairBits[4] = 3
    BY PairTable, SMT
  <2>2. CPositionBase[2 * 4] = 16
    BY <1>4, SMT
  <2>3. CPositionBase[2 * 4 + 2] = 16 + 8 + 8
    BY <2>1, <2>2, Widths, PairOfBases, 4 \in 0..24, SMT
  <2>4. QED  BY <2>3, SMT
<1>6. CPositionBase[12] = 64
  <2>1. CPairBits[5] = 4
    BY PairTable, SMT
  <2>2. CPositionBase[2 * 5] = 32
    BY <1>5, SMT
  <2>3. CPositionBase[2 * 5 + 2] = 32 + 16 + 16
    BY <2>1, <2>2, Widths, PairOfBases, 5 \in 0..24, SMT
  <2>4. QED  BY <2>3, SMT
<1>7. CPositionBase[14] = 128
  <2>1. CPairBits[6] = 5
    BY PairTable, SMT
  <2>2. CPositionBase[2 * 6] = 64
    BY <1>6, SMT
  <2>3. CPositionBase[2 * 6 + 2] = 64 + 32 + 32
    BY <2>1, <2>2, Widths, PairOfBases, 6 \in 0..24, SMT
  <2>4. QED  BY <2>3, SMT
<1>8. CPositionBase[16] = 256
  <2>1. CPairBits[7] = 6
    BY PairTable, SMT
  <2>2. CPositionBase[2 * 7] = 128
    BY <1>7, SMT
  <2>3. CPositionBase[2 * 7 + 2] = 128 + 64 + 64
    BY <2>1, <2>2, Widths, PairOfBases, 7 \in 0..24, SMT
  <2>4. QED  BY <2>3, SMT
<1>9. CPositionBase[18] = 512
  <2>1. CPairBits[8] = 7
    BY PairTable, SMT
  <2>2. CPositionBase[2 * 8] = 256
    BY <1>8, SMT
  <2>3. CPositionBase[2 * 8 + 2] = 256 + 128 + 128
    BY <2>1, <2>2, Widths, PairOfBases, 8 \in 0..24, SMT
  <2>4. QED  BY <2>3, SMT
<1>10. CPositionBase[20] = 1024
  <2>1. CPairBits[9] = 8
    BY PairTable, SMT
  <2>2. CPositionBase[2 * 9] = 512
    BY <1>9, SMT
  <2>3. CPositionBase[2 * 9 + 2] = 512 + 256 + 256
    BY <2>1, <2>2, Widths, PairOfBases, 9 \in 0..24, SMT
  <2>4. QED  BY <2>3, SMT
<1>11. CPositionBase[22] = 2048
  <2>1. CPairBits[10] = 9
    BY PairTable, SMT
  <2>2. CPositionBase[2 * 10] = 1024
    BY <1>10, SMT
  <2>3. CPositionBase[2 * 10 + 2] = 1024 + 512 + 512
    BY <2>1, <2>2, Widths, PairOfBases, 10 \in 0..24, SMT
  <2>4. QED  BY <2>3, SMT
<1>12. CPositionBase[24] = 4096
  <2>1. CPairBits[11] = 10
    BY PairTable, SMT
  <2>2. CPositionBase[2 * 11] = 2048
    BY <1>11, SMT
  <2>3. CPositionBase[2 * 11 + 2] = 2048 + 1024 + 1024
    BY <2>1, <2>2, Widths, PairOfBases, 11 \in 0..24, SMT
  <2>4. QED  BY <2>3, SMT
<1>13. CPositionBase[26] = 8192
  <2>1. CPairBits[12] = 11
    BY PairTable, SMT
  <2>2. CPositionBase[2 * 12] = 4096
    BY <1>12, SMT
  <2>3. CPositionBase[2 * 12 + 2] = 4096 + 2048 + 2048
    BY <2>1, <2>2, Widths, PairOfBases, 12 \in 0..24, SMT
  <2>4. QED  BY <2>3, SMT
<1>14. CPositionBase[28] = 16384
  <2>1. CPairBits[13] = 12
    BY PairTable, SMT
  <2>2. CPositionBase[2 * 13] = 8192
    BY <1>13, SMT
  <2>3. CPositionBase[2 * 13 + 2] = 8192 + 4096 + 4096
    BY <2>1, <2>2, Widths, PairOfBases, 13 \in 0..24, SMT
  <2>4. QED  BY <2>3, SMT
<1>15. CPositionBase[30] = 32768
  <2>1. CPairBits[14] = 13
    BY PairTable, SMT
  <2>2. CPositionBase[2 * 14] = 16384
    BY <1>14, SMT
  <2>3. CPositionBase[2 * 14 + 2] = 16384 + 8192 + 8192
    BY <2>1, <2>2, Widths, PairOfBases, 14 \in 0..24, SMT
  <2>4. QED  BY <2>3, SMT
<1>16. CPositionBase[32] = 65536
  <2>1. CPairBits[15] = 14
    BY PairTable, SMT
  <2>2. CPositionBase[2 * 15] = 32768
    BY <1>15, SMT
  <2>3. CPositionBase[2 * 15 + 2] = 32768 + 16384 + 16384
    BY <2>1, <2>2, Widths, PairOfBases, 15 \in 0..24, SMT
  <2>4. QED  BY <2>3, SMT
<1>17. CPositionBase[34] = 131072
  <2>1. CPairBits[16] = 15
    BY PairTable, SMT
  <2>2. CPositionBase[2 * 16] = 65536
    BY <1>16, SMT
  <2>3. CPositionBase[2 * 16 + 2] = 65536 + 32768 + 32768
    BY <2>1, <2>2, Widths, PairOfBases, 16 \in 0..24, SMT
  <2>4. QED  BY <2>3, SMT
<1>18. CPositionBase[36] = 262144
  <2>1. CPairBits[17] = 16
    BY PairTable, SMT
  <2>2. CPositionBase[2 * 17] = 131072
    BY <1>17, SMT
  <2>3. CPositionBase[2 * 17 + 2] = 131072 + 65536 + 65536
    BY <2>1, <2>2, Widths, PairOfBases, 17 \in 0..24, SMT
  <2>4. QED  BY <2>3, SMT
<1>19. CPositionBase[38] = 524288
  <2>1. CPairBits[18] = 17
    BY PairTable, SMT
  <2>2. CPositionBase[2 * 18] = 262144
    BY <1>18, SMT
  <2>3. CPositionBase[2 * 18 + 2] = 262144 + 131072 + 131072
    BY <2>1, <2>2, Widths, PairOfBases, 18 \in 0..24, SMT
  <2>4. QED  BY <2>3, SMT
<1>20. CPositionBase[40] = 786432
  <2>1. CPairBits[19] = 17
    BY PairTable, SMT
  <2>2. CPositionBase[2 * 19] = 524288
    BY <1>19, SMT
  <2>3. CPositionBase[2 * 19 + 2] = 524288 + 131072 + 131072
    BY <2>1, <2>2, Widths, PairOfBases, 19 \in 0..24, SMT
  <2>4. QED  BY <2>3, SMT
<1>21. CPositionBase[42] = 1048576
  <2>1. CPairBits[20] = 17
    BY PairTable, SMT
  <2>2. CPositionBase[2 * 20] = 786432
    BY <1>20, SMT
  <2>3. CPositionBase[2 * 20 + 2] = 786432 + 131072 + 131072
    BY <2>1, <2>2, Widths, PairOfBases, 20 \in 0..24, SMT
  <2>4. QED  BY <2>3, SMT
<1>22. CPositionBase[44] = 1310720
  <2>1. CPairBits[21] = 17
    BY PairTable, SMT
  <2>2. CPositionBase[2 * 21] = 1048576
    BY <1>21, SMT
  <2>3. CPositionBase[2 * 21 + 2] = 1048576 + 131072 + 131072
    BY <2>1, <2>2, Widths, PairOfBases, 21 \in 0..24, SMT
  <2>4. QED  BY <2>3, SMT
<1>23. CPositionBase[46] = 1572864
  <2>1. CPairBits[22] = 17
    BY PairTable, SMT
  <2>2. CPositionBase[2 * 22] = 1310720
    BY <1>22, SMT
  <2>3. CPositionBase[2 * 22 + 2] = 1310720 + 131072 + 131072
    BY <2>1, <2>2, Widths, PairOfBases, 22 \in 0..24, SMT
  <2>4. QED  BY <2>3, SMT
<1>24. CPositionBase[48] = 1835008
  <2>1. CPairBits[23] = 17
    BY PairTable, SMT
  <2>2. CPositionBase[2 * 23] = 1572864
    BY <1>23, SMT
  <2>3. CPositionBase[2 * 23 + 2] = 1572864 + 131072 + 131072
    BY <2>1, <2>2, Widths, PairOfBases, 23 \in 0..24, SMT
  <2>4. QED  BY <2>3, SMT
<1>25. CPositionBase[50] = 2097152
  <2>1. CPairBits[24] = 17
    BY PairTable, SMT
  <2>2. CPositionBase[2 * 24] = 1835008
    BY <1>24, SMT
  <2>3. CPositionBase[2 * 24 + 2] = 1835008 + 131072 + 131072
    BY <2>1, <2>2, Widths, PairOfBases, 24 \in 0..24, SMT
  <2>4. QED  BY <2>3, SMT
<1>26. QED  BY <1>15, <1>16, <1>17, <1>18, <1>19, <1>21, <1>25, SMT

(* A later slot begins further on.                                         *)
LEMMA BasesGrow ==
  ASSUME NEW a \in 0..50, NEW b \in 0..50, a < b
  PROVE  CPositionBase[a] < CPositionBase[b] /\ CPositionBase[b] \in Int
<1> DEFINE P == {n \in 0..50 : CPositionBase[n] \in Int /\ (a < n => CPositionBase[a] < CPositionBase[n])}
<1>1. 0 \in P
  BY CTable
<1>2. ASSUME NEW n \in 1..50, n - 1 \in P PROVE n \in P
  <2>1. PICK j : j = n - 1 /\ j \in 0..49 /\ j \in 0..50 /\ n \in 0..50 /\ n = j + 1 /\ n # 0
    OBVIOUS
  <2>2. CExtraBits(j) \in 0..17
    BY <2>1, ExtraBitsAgree
  <2>3. PICK width : width = 2^CExtraBits(j)
    OBVIOUS
  <2>4. width \in Nat /\ width >= 1
    BY <2>2, <2>3, PowersAreWidths DEF Wide
  <2>5. CPositionBase[n] = CPositionBase[j] + width
    BY <2>1, <2>3, CTable
  <2>6. CPositionBase[j] \in Int /\ (a < j => CPositionBase[a] < CPositionBase[j])
    BY <1>2, <2>1
  <2>7. PICK x \in Int : x = CPositionBase[j]
    BY <2>6
  <2>8. CPositionBase[n] \in Int /\ x < CPositionBase[n]
    BY <2>4, <2>5, <2>7
  <2>9. ASSUME a < n PROVE CPositionBase[a] < CPositionBase[n]
    <3>1. a < j \/ a = j
      BY <2>1, <2>9
    <3>2. CASE a = j
      BY <2>7, <2>8, <3>2
    <3>3. CASE a < j
      <4>1. CPositionBase[a] < x
        BY <2>6, <2>7, <3>3
      <4>2. PICK y \in Int : y = CPositionBase[a]
        <5>1. a \in 0..49
          BY <3>3
        <5>2. QED  BY <5>1, BasesAgree
      <4>3. QED  BY <2>7, <2>8, <4>1, <4>2
    <3>4. QED  BY <3>1, <3>2, <3>3
  <2>10. QED  BY <2>1, <2>8, <2>9
<1>3. \A n \in 0..50 : n \in P
  <2>1. \A n \in 1..50 : n - 1 \in P => n \in P
    BY ONLY <1>2
  <2> HIDE DEF P
  <2>2. 50 \in Nat
    OBVIOUS
  <2>3. QED  BY <1>1, <2>1, <2>2, BoundedInduction
<1>4. QED  BY <1>3

(* A window has as many slots as begin inside it.                          *)
LEMMA SlotsOfWindow ==
  ASSUME NEW end \in Int, NEW many \in 1..50, CPositionBase[many] = end
  PROVE  {slot \in 0..49 : PyPosBase[slot] < end} = 0..(many - 1)
<1>1. ASSUME NEW slot \in 0..49 PROVE PyPosBase[slot] < end <=> slot \in 0..(many - 1)
  <2>1. PICK base \in Int : base = PyPosBase[slot] /\ base = CPositionBase[slot]
    BY BasesAgree
  <2>2. slot < many => base < end
    BY <2>1, BasesGrow
  <2>3. many < slot => end < base
    BY <2>1, BasesGrow
  <2>4. many = slot => end = base
    BY <2>1
  <2>5. slot < many \/ many < slot \/ many = slot
    OBVIOUS
  <2>6. base < end <=> slot < many
    BY <2>2, <2>3, <2>4, <2>5
  <2>7. QED  BY <2>1, <2>6
<1>2. \A slot \in 0..(many - 1) : slot \in 0..49
  OBVIOUS
<1>3. QED  BY <1>1, <1>2

(* _build_position_tables and lzxd_static_init make the same tables of     *)
(* slots, and every window has as many as reach to its last offset.        *)
THEOREM SlotTablesAreTheSame == Spec => []SlotsAgree
<1>1. ASSUME NEW slot \in 3..49, NEW ones \in BOOLEAN, NEW type \in {Verbatim, Aligned}
      PROVE  LET m == [slot |-> slot, ones |-> ones]
             IN PyExtraBits(slot) = CExtraBits(slot) /\ PyOffset(type, m) = COffset(type, m)
  <2>1. PICK m : m = [slot |-> slot, ones |-> ones]
    OBVIOUS
  <2>2. m.slot \in 3..49 /\ slot \in 0..49
    BY <2>1
  <2>3. PyOffset(type, m) = COffset(type, m)
    BY <2>2, OffsetsAgree
  <2>4. QED  BY <2>1, <2>2, <2>3, ExtraBitsAgree
<1>2. ASSUME NEW bits \in 15..21
      PROVE  PySlots(bits) = 0..(CPosnSlots(bits) - 1) /\ CPositionBase[CPosnSlots(bits)] = 2^bits

  <2>1. bits = 15 \/ bits = 16 \/ bits = 17 \/ bits = 18 \/ bits = 19 \/ bits = 20 \/ bits = 21
    OBVIOUS
  <2>2. CASE bits = 15
    <3>1. CPosnSlots(bits) = 30 /\ 2^bits = 32768 /\ 30 \in 1..50
      <4>1. 2^15 = 32768
        BY SMT
      <4>2. QED  BY <2>2, <4>1, SMT DEF CPosnSlots
    <3>2. CPositionBase[CPosnSlots(bits)] = 2^bits
      BY <3>1, WindowEnds, SMT
    <3>3. QED  BY <3>1, <3>2, SlotsOfWindow, SMT DEF PySlots
  <2>3. CASE bits = 16
    <3>1. CPosnSlots(bits) = 32 /\ 2^bits = 65536 /\ 32 \in 1..50
      <4>1. 2^16 = 65536
        BY SMT
      <4>2. QED  BY <2>3, <4>1, SMT DEF CPosnSlots
    <3>2. CPositionBase[CPosnSlots(bits)] = 2^bits
      BY <3>1, WindowEnds, SMT
    <3>3. QED  BY <3>1, <3>2, SlotsOfWindow, SMT DEF PySlots
  <2>4. CASE bits = 17
    <3>1. CPosnSlots(bits) = 34 /\ 2^bits = 131072 /\ 34 \in 1..50
      <4>1. 2^17 = 131072
        BY SMT
      <4>2. QED  BY <2>4, <4>1, SMT DEF CPosnSlots
    <3>2. CPositionBase[CPosnSlots(bits)] = 2^bits
      BY <3>1, WindowEnds, SMT
    <3>3. QED  BY <3>1, <3>2, SlotsOfWindow, SMT DEF PySlots
  <2>5. CASE bits = 18
    <3>1. CPosnSlots(bits) = 36 /\ 2^bits = 262144 /\ 36 \in 1..50
      <4>1. 2^18 = 262144
        BY SMT
      <4>2. QED  BY <2>5, <4>1, SMT DEF CPosnSlots
    <3>2. CPositionBase[CPosnSlots(bits)] = 2^bits
      BY <3>1, WindowEnds, SMT
    <3>3. QED  BY <3>1, <3>2, SlotsOfWindow, SMT DEF PySlots
  <2>6. CASE bits = 19
    <3>1. CPosnSlots(bits) = 38 /\ 2^bits = 524288 /\ 38 \in 1..50
      <4>1. 2^19 = 524288
        BY SMT
      <4>2. QED  BY <2>6, <4>1, SMT DEF CPosnSlots
    <3>2. CPositionBase[CPosnSlots(bits)] = 2^bits
      BY <3>1, WindowEnds, SMT
    <3>3. QED  BY <3>1, <3>2, SlotsOfWindow, SMT DEF PySlots
  <2>7. CASE bits = 20
    <3>1. CPosnSlots(bits) = 42 /\ 2^bits = 1048576 /\ 42 \in 1..50
      <4>1. 2^20 = 1048576
        BY SMT
      <4>2. QED  BY <2>7, <4>1, SMT DEF CPosnSlots
    <3>2. CPositionBase[CPosnSlots(bits)] = 2^bits
      BY <3>1, WindowEnds, SMT
    <3>3. QED  BY <3>1, <3>2, SlotsOfWindow, SMT DEF PySlots
  <2>8. CASE bits = 21
    <3>1. CPosnSlots(bits) = 50 /\ 2^bits = 2097152 /\ 50 \in 1..50
      <4>1. 2^21 = 2097152
        BY SMT
      <4>2. QED  BY <2>8, <4>1, SMT DEF CPosnSlots
    <3>2. CPositionBase[CPosnSlots(bits)] = 2^bits
      BY <3>1, WindowEnds, SMT
    <3>3. QED  BY <3>1, <3>2, SlotsOfWindow, SMT DEF PySlots
  <2>9. QED  BY <2>1, <2>2, <2>3, <2>4, <2>5, <2>6, <2>7, <2>8
<1>3. SlotsAgree
  BY <1>1, <1>2 DEF SlotsAgree
<1>4. QED  BY <1>3, PTL

=============================================================================
