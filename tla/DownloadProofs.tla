--------------------------- MODULE DownloadProofs ---------------------------
(***************************************************************************)
(* Proofs about Download, for any files, window, and numbers of blocks and *)
(* messages: the client copies the files it wants, and is never dropped.   *)
(***************************************************************************)
EXTENDS Download, SequenceTheorems, WellFoundedInduction, TLAPS

USE WindowAssumption, BoundsAssumption
-----------------------------------------------------------------------------
(* Arithmetic.                                                             *)

\* Every set of naturals that is not empty has a least element.
LEMMA Least ==
  ASSUME NEW T \in SUBSET Nat, T # {}
  PROVE  \E n \in T : \A m \in T : n <= m
  <1>1. PICK n \in T : \A m \in T : ~(<<m, n>> \in OpToRel(<, Nat))
    BY NatLessThanWellFounded, WFMin, Zenon
  <1>2. \A m \in T : ~(m < n)
    BY <1>1, Zenon DEF OpToRel
  <1>3. QED
    BY <1>2

LEMMA Remainder ==
  ASSUME NEW m \in Nat \ {0}, NEW a \in Nat
  PROVE  a % m \in 0 .. m - 1
  OBVIOUS

LEMMA RemainderOnce ==
  ASSUME NEW m \in Nat \ {0}, NEW a \in 0 .. 2 * m - 1
  PROVE  a % m = IF a < m THEN a ELSE a - m
  <1>1. CASE a < m
    BY <1>1
  <1>2. CASE a >= m
    <2>1. a - m \in 0 .. m - 1
      BY <1>2
    <2>2. (a - m) % m = a - m
      BY <2>1
    <2>3. QED
      BY <1>2, <2>1, <2>2
  <1>3. QED
    BY <1>1, <1>2

\* Numbers less than a window apart have places of their own.
LEMMA Apart ==
  ASSUME NEW m \in Nat \ {0}, NEW a \in Nat, NEW b \in Nat, a < b, b < a + m
  PROVE  a % m # b % m
  <1> DEFINE p == a \div m
             q == b \div m
  <1>1. /\ a = m * p + (a % m) /\ b = m * q + (b % m)
        /\ p \in Int /\ q \in Int
        /\ a % m \in 0 .. m - 1 /\ b % m \in 0 .. m - 1
    OBVIOUS
  <1> HIDE DEF p, q
  <1>2. SUFFICES ASSUME a % m = b % m PROVE FALSE
    OBVIOUS
  <1>3. b - a = m * (q - p)
    BY <1>1, <1>2
  <1> DEFINE d == q - p
  <1>4. d \in Int /\ m * d > 0 /\ m * d < m
    BY <1>1, <1>3
  <1> HIDE DEF d
  <1>5. d >= 1 \/ d <= 0
    BY <1>4
  <1>6. QED
    BY <1>4, <1>5

LEMMA SamePlace ==
  ASSUME NEW a \in Nat, NEW b \in Nat,
         a < b + MAX_DOWNLOAD_WINDOW, b < a + MAX_DOWNLOAD_WINDOW,
         a % MAX_DOWNLOAD_WINDOW = b % MAX_DOWNLOAD_WINDOW
  PROVE  a = b
  <1> DEFINE m == MAX_DOWNLOAD_WINDOW
  <1>1. m \in Nat \ {0} /\ a < b + m /\ b < a + m /\ a % m = b % m
    OBVIOUS
  <1> HIDE DEF m
  <1>2. ~(a < b)
    BY <1>1, Apart
  <1>3. ~(b < a)
    BY <1>1, Apart
  <1>4. QED
    BY <1>2, <1>3

\* A short carries every number up to ShortMax; the numbers that do not fit
\* become negative.
LEMMA ShortKeeps ==
  ASSUME NEW n \in 0 .. 2 * ShortMax + 1
  PROVE  Short(n) = IF n <= ShortMax THEN n ELSE n - 2 * (ShortMax + 1)
  <1> DEFINE half == ShortMax + 1
             m == 2 * half
  <1>1. half \in Nat \ {0} /\ n \in 0 .. m - 1 /\ m = half + half
    OBVIOUS
  <1>2. Short(n) = ((n + half) % m) - half
    BY <1>1 DEF Short
  <1>3. n <= ShortMax <=> n < half
    OBVIOUS
  <1> HIDE DEF m, half
  <1> DEFINE a == n + half
             r == a % m
  <1>4. m \in Nat \ {0} /\ a \in 0 .. 2 * m - 1
    BY <1>1
  <1> HIDE DEF a
  <1>5. r = IF a < m THEN a ELSE a - m
    BY <1>4, RemainderOnce
  <1>6. Short(n) = r - half /\ a = n + half
    BY <1>2 DEF a
  <1> HIDE DEF r
  <1>7. Short(n) = IF n < half THEN n ELSE n - m
    BY <1>1, <1>5, <1>6
  <1>8. QED
    BY <1>3, <1>7 DEF m, half

LEMMA ShortExact ==
  ASSUME NEW n \in 0 .. 2 * ShortMax + 1, Short(n) >= 0
  PROVE  Short(n) = n /\ n <= ShortMax
  BY ShortKeeps
-----------------------------------------------------------------------------
(* The blocks of a message are parsed one after the other.                 *)

IsParse(f, c, m) ==
  /\ f[0] = c
  /\ \A n \in 1 .. Len(m) : f[n] = ParseBlock(f[n - 1], m[n])

IsParseTo(f, c, m, k) ==
  f = [n \in 0 .. k |-> IF n = 0 THEN c ELSE ParseBlock(f[n - 1], m[n])]

\* The parse of the first k blocks of m exists.
LEMMA ParseExists ==
  ASSUME NEW c, NEW m, NEW k \in Nat
  PROVE  \E f : IsParseTo(f, c, m, k)
  <1> DEFINE Missing == {n \in Nat : ~\E f : IsParseTo(f, c, m, n)}
  <1>1. SUFFICES ASSUME Missing # {} PROVE FALSE
    OBVIOUS
  <1>2. PICK n \in Missing : \A i \in Missing : n <= i
    BY <1>1, Least
  <1>3. CASE n = 0
    <2>1. IsParseTo([i \in 0 .. 0 |-> c], c, m, 0)
      BY DEF IsParseTo
    <2>2. QED
      BY <1>2, <1>3, <2>1
  <1>4. CASE n # 0
    <2>1. n \in Nat /\ n - 1 \in Nat /\ ~(n - 1 \in Missing)
      BY <1>2, <1>4
    <2>2. PICK f : IsParseTo(f, c, m, n - 1)
      BY <2>1
    <2> DEFINE g == [i \in 0 .. n |-> IF i = n THEN ParseBlock(f[n - 1], m[n])
                                               ELSE f[i]]
    <2>3. \A i \in 0 .. n : g[i] = IF i = 0 THEN c ELSE ParseBlock(g[i - 1], m[i])
      <3> TAKE i \in 0 .. n
      <3>1. CASE i = n
        <4>1. g[i] = ParseBlock(f[n - 1], m[n]) /\ g[i - 1] = f[n - 1]
          BY <2>1, <3>1
        <4>2. QED
          BY <1>4, <3>1, <4>1
      <3>2. CASE i # n
        <4>1. i \in 0 .. n - 1 /\ g[i] = f[i] /\ (i # 0 => g[i - 1] = f[i - 1])
          BY <2>1, <3>2
        <4>2. f[i] = IF i = 0 THEN c ELSE ParseBlock(f[i - 1], m[i])
          BY <2>2, <4>1 DEF IsParseTo
        <4>3. QED
          BY <4>1, <4>2
      <3>3. QED
        BY <3>1, <3>2
    <2>4. g = [i \in 0 .. n |-> g[i]]
      OBVIOUS
    <2> HIDE DEF g
    <2>5. IsParseTo(g, c, m, n)
      BY <2>3, <2>4 DEF IsParseTo
    <2>6. QED
      BY <1>2, <2>5
  <1>5. QED
    BY <1>3, <1>4

\* A message is parsed as the code's loop does, whatever its length.
LEMMA ParsedIsParse ==
  ASSUME NEW c, NEW m, Len(m) \in Nat
  PROVE  \E f : IsParse(f, c, m) /\ Parsed(c, m) = f[Len(m)]
  <1> DEFINE parsed[n \in 0 .. Len(m)] ==
               IF n = 0 THEN c ELSE ParseBlock(parsed[n - 1], m[n])
  <1>1. \E f : IsParseTo(f, c, m, Len(m))
    BY ParseExists
  <1>2. IsParseTo(parsed, c, m, Len(m))
    BY <1>1 DEF IsParseTo
  <1>3. Parsed(c, m) = parsed[Len(m)]
    BY DEF Parsed
  <1> HIDE DEF parsed
  <1>4. IsParse(parsed, c, m)
    <2>1. \A n \in 0 .. Len(m) :
            parsed[n] = IF n = 0 THEN c ELSE ParseBlock(parsed[n - 1], m[n])
      BY <1>2 DEF IsParseTo
    <2>2. QED
      BY <2>1 DEF IsParse
  <1>5. QED
    BY <1>3, <1>4

\* What each block preserves, a message preserves.
LEMMA ParsedIn ==
  ASSUME NEW c, NEW m, Len(m) \in Nat, NEW P, c \in P[0],
         \A n \in 1 .. Len(m) : \A d \in P[n - 1] : ParseBlock(d, m[n]) \in P[n]
  PROVE  Parsed(c, m) \in P[Len(m)]
  <1>1. PICK f : IsParse(f, c, m) /\ Parsed(c, m) = f[Len(m)]
    BY ParsedIsParse
  <1> DEFINE Bad == {n \in 0 .. Len(m) : ~(f[n] \in P[n])}
  <1>2. SUFFICES ASSUME Bad # {} PROVE FALSE
    BY <1>1
  <1>3. PICK n \in Bad : \A i \in Bad : n <= i
    <2>1. Bad \in SUBSET Nat
      OBVIOUS
    <2> HIDE DEF Bad
    <2>2. QED
      BY <1>2, <2>1, Least
  <1>4. n # 0
    BY <1>1, <1>3 DEF IsParse
  <1>5. n - 1 \in 0 .. Len(m) /\ n \in 1 .. Len(m) /\ ~(n - 1 \in Bad)
    BY <1>3, <1>4
  <1>6. f[n - 1] \in P[n - 1] /\ f[n] = ParseBlock(f[n - 1], m[n])
    BY <1>1, <1>5 DEF IsParse
  <1>7. QED
    BY <1>3, <1>5, <1>6
-----------------------------------------------------------------------------
(* The server's steps.                                                     *)

Places == 0 .. MAX_DOWNLOAD_WINDOW - 1

LEMMA BlocksTypes ==
  /\ Len(Blocks) \in Nat \ {0} /\ File = 1 .. Len(Blocks)
  /\ \A f \in File : Blocks[f] \in Nat \ {0}
  /\ ~(NoFile \in File) /\ ~(Nothing \in File)
  <1>1. Len(Blocks) \in Nat /\ DOMAIN Blocks = 1 .. Len(Blocks) /\ Len(Blocks) # 0
    BY BlocksAssumption, LenProperties, EmptySeq
  <1>2. \A f \in DOMAIN Blocks : Blocks[f] \in Nat \ {0}
    BY BlocksAssumption, ElementOfSeq
  <1>3. QED
    BY <1>1, <1>2 DEF File, NoFile, Nothing

LEMMA BlockContents ==
  ASSUME NEW f \in File, NEW n \in Nat
  PROVE  /\ Block(f, n) \in Contents /\ Block(f, n) # REFUSED
         /\ Block(f, n) = EOF <=> n >= Blocks[f]
         /\ n < Blocks[f] => Block(f, n) = <<f, n>>
  <1>1. f >= 1 /\ f \in Nat /\ Blocks[f] \in Nat
    BY BlocksTypes
  <1>2. <<f, n>> # EOF /\ <<f, n>> # REFUSED /\ EOF # REFUSED
    BY <1>1 DEF EOF, REFUSED
  <1>3. <<f, n>> \in Contents /\ EOF \in Contents
    BY DEF Contents
  <1>4. QED
    BY <1>1, <1>2, <1>3 DEF Block

\* Opening a file empties the window, and only if none was open.
LEMMA OpenedKeeps ==
  ASSUME NEW s \in Servers, NEW win, ServerInv(s, win), s.name \in File \ s.refused
  PROVE  LET t == Opened(s)
         IN  /\ t \in Servers /\ ServerInv(t, win)
             /\ t.open /\ t.name = s.name /\ t.broken = s.broken
             /\ t.refused = s.refused
             /\ s.open => t = s
             /\ ~s.open => t.clientBlock = 0 /\ t.xmitBlock = 0
  <1> DEFINE t == Opened(s)
  <1>1. CASE s.open
    BY <1>1 DEF Opened
  <1>2. CASE ~s.open
    <2>1. t = [s EXCEPT !.open = TRUE, !.currentBlock = 0, !.clientBlock = 0,
                        !.xmitBlock = 0, !.count = 0, !.eof = FALSE]
      BY <1>2 DEF Opened
    <2> HIDE DEF t
    <2>2. t \in Servers
      BY <2>1 DEF Servers
    <2>3. /\ t.currentBlock = 0 /\ t.clientBlock = 0 /\ t.xmitBlock = 0
          /\ t.count = 0 /\ t.name = s.name /\ t.refused = s.refused
      BY <2>1 DEF Servers
    <2>4. t.open /\ ~t.eof
      BY <2>1 DEF Servers
    <2>5. t.broken = s.broken
      BY <2>1 DEF Servers
    <2>6. ServerInv(t, win)
      BY <2>3, <2>4, BlocksTypes DEF ServerInv
    <2>7. QED
      BY <1>2, <2>2, <2>3, <2>4, <2>5, <2>6 DEF t
  <1>3. QED
    BY <1>1, <1>2

\* Filling the window leaves the unacknowledged blocks in their places.
LEMMA FilledKeeps ==
  ASSUME NEW s \in Servers, ServerInv(s, window), s.open,
         window \in [Places -> Contents]
  PROVE  LET t   == Filled(s)
             win == WindowFilled(s, t)
         IN  /\ t \in Servers /\ win \in [Places -> Contents]
             /\ ServerInv(t, win)
             /\ t.open /\ t.name = s.name /\ t.clientBlock = s.clientBlock
             /\ t.xmitBlock = s.xmitBlock /\ t.broken = s.broken
             /\ t.refused = s.refused
             /\ s.currentBlock <= t.currentBlock
             /\ s.currentBlock = Blocks[s.name] + 1 =>
                  t.currentBlock = s.currentBlock
  <1> DEFINE t == Filled(s)
             win == WindowFilled(s, t)
             room == MAX_DOWNLOAD_WINDOW - (s.currentBlock - s.clientBlock)
             left == Blocks[s.name] - s.count
             read == IF left < room THEN left ELSE room
             end  == s.count + read = Blocks[s.name] /\ ~s.eof /\ read < room
             more == IF end THEN 1 ELSE 0
  <1>1. /\ s.name \in File /\ Blocks[s.name] \in Nat \ {0}
        /\ s.currentBlock \in Nat /\ s.clientBlock \in Nat /\ s.count \in Nat
        /\ s.xmitBlock \in Nat /\ s.eof \in BOOLEAN
        /\ room \in Nat /\ left \in Nat /\ read \in Nat
    <2>1. s.name \in File /\ s.count <= Blocks[s.name]
      BY DEF ServerInv
    <2>2. s.currentBlock - s.clientBlock \in 0 .. MAX_DOWNLOAD_WINDOW
      BY DEF ServerInv
    <2>3. /\ s.currentBlock \in Nat /\ s.clientBlock \in Nat /\ s.count \in Nat
          /\ s.xmitBlock \in Nat /\ s.eof \in BOOLEAN
      BY DEF Servers
    <2>4. Blocks[s.name] \in Nat \ {0}
      BY <2>1, BlocksTypes
    <2>5. room \in Nat /\ left \in Nat
      BY <2>1, <2>2, <2>3, <2>4
    <2> HIDE DEF room, left
    <2>6. QED
      BY <2>1, <2>3, <2>4, <2>5
  <1>2. t = [s EXCEPT !.currentBlock = @ + read + more, !.count = @ + read,
                      !.eof = @ \/ end]
    BY DEF Filled
  <1> HIDE DEF t
  <1>3. more \in {0, 1} /\ (more = 1 <=> end)
    OBVIOUS
  <1>4. /\ t.currentBlock = s.currentBlock + read + more
        /\ t.count = s.count + read
        /\ t.open /\ t.name = s.name /\ t.clientBlock = s.clientBlock
        /\ t.xmitBlock = s.xmitBlock /\ t.broken = s.broken
        /\ t.refused = s.refused
    BY <1>2 DEF Servers
  <1>5. t.eof = (s.eof \/ end)
    BY <1>2 DEF Servers
  <1>6. t \in Servers
    <2> HIDE DEF read, more, end
    <2>1. s.currentBlock + read + more \in Nat /\ s.count + read \in Nat
          /\ (s.eof \/ end) \in BOOLEAN
      BY <1>1, <1>3
    <2>2. QED
      BY <1>2, <2>1 DEF Servers
  <1>7. /\ read <= left /\ read + more <= room
        /\ end => read = left
    BY <1>1, <1>3
  <1>8. /\ s.count <= Blocks[s.name] /\ (s.eof => s.count = Blocks[s.name])
        /\ s.currentBlock = s.count + IF s.eof THEN 1 ELSE 0
        /\ s.xmitBlock <= s.currentBlock
        /\ s.currentBlock - s.clientBlock \in 0 .. MAX_DOWNLOAD_WINDOW
    BY DEF ServerInv
  <1>9. s.eof => read = 0 /\ ~end /\ more = 0
    BY <1>1, <1>7, <1>8
  <1>10. /\ t.count <= Blocks[t.name] /\ (t.eof => t.count = Blocks[t.name])
         /\ t.currentBlock = t.count + IF t.eof THEN 1 ELSE 0
    <2>1. left = Blocks[s.name] - s.count
      OBVIOUS
    <2> HIDE DEF left, room, read, end, more
    <2>2. CASE s.eof
      <3>1. t.eof
        BY <1>5, <2>2
      <3>2. s.currentBlock = s.count + 1 /\ s.count = Blocks[s.name]
        BY <1>8, <2>2
      <3>3. t.count = s.count /\ t.currentBlock = s.currentBlock
        BY <1>1, <1>4, <1>9, <2>2
      <3>4. QED
        BY <1>1, <1>4, <3>1, <3>2, <3>3
    <2>3. CASE ~s.eof
      <3>1. s.currentBlock = s.count
        BY <1>1, <1>8, <2>3
      <3>2. t.count = s.count + read /\ t.currentBlock = s.count + read + more
        BY <1>4, <3>1
      <3>3. t.count <= Blocks[t.name] /\ (end => t.count = Blocks[t.name])
        BY <1>1, <1>4, <1>7, <2>1, <3>2
      <3>4. (t.eof <=> more = 1) /\ more \in {0, 1}
        BY <1>3, <1>5, <2>3
      <3>5. t.eof <=> end
        BY <1>5, <2>3
      <3>6. t.currentBlock = t.count + IF t.eof THEN 1 ELSE 0
        <4>1. CASE more = 1
          BY <3>2, <3>4, <4>1
        <4>2. CASE more = 0
          BY <1>1, <3>2, <3>4, <4>2
        <4>3. QED
          BY <3>4, <4>1, <4>2
      <3>7. QED
        BY <3>3, <3>5, <3>6
    <2>4. QED
      BY <2>2, <2>3
  <1>11. /\ t.currentBlock - t.clientBlock \in 0 .. MAX_DOWNLOAD_WINDOW
         /\ t.xmitBlock <= t.currentBlock /\ s.currentBlock <= t.currentBlock
         /\ t.currentBlock <= Blocks[t.name] + 1
    <2>1. room = MAX_DOWNLOAD_WINDOW - (s.currentBlock - s.clientBlock)
      OBVIOUS
    <2>2. t.currentBlock \in Nat /\ t.count \in Nat
      BY <1>6 DEF Servers
    <2> HIDE DEF left, room, read, end, more
    <2>3. QED
      BY <1>1, <1>3, <1>4, <1>7, <1>8, <1>10, <2>1, <2>2
  <1>12. s.currentBlock = Blocks[s.name] + 1 => t.currentBlock = s.currentBlock
    <2> HIDE DEF left, room, read, end, more
    <2>1. s.currentBlock = Blocks[s.name] + 1 => s.eof
      BY <1>1, <1>8
    <2>2. QED
      BY <1>1, <1>4, <1>9, <2>1
  <1> HIDE DEF left, room, read, end, more
  <1> DEFINE new(i) == {n \in s.currentBlock .. t.currentBlock - 1 :
                          n % MAX_DOWNLOAD_WINDOW = i}
             last(i) == CHOOSE n \in new(i) : \A m \in new(i) : m <= n
  <1>13. win = [i \in Places |-> IF new(i) = {} THEN window[i]
                                ELSE Block(t.name, last(i))]
    BY DEF WindowFilled, Block, Places
  <1>14. ASSUME NEW n \in s.currentBlock .. t.currentBlock - 1
         PROVE  win[n % MAX_DOWNLOAD_WINDOW] = Block(t.name, n)
    <2> DEFINE i == n % MAX_DOWNLOAD_WINDOW
    <2>1. n \in Nat /\ i \in Places
      BY <1>1, Remainder DEF Places
    <2>2. ASSUME NEW m \in new(i) PROVE m = n
      <3>1. m \in Nat /\ m < n + MAX_DOWNLOAD_WINDOW /\ n < m + MAX_DOWNLOAD_WINDOW
        BY <1>1, <1>4, <1>6, <1>8, <1>11 DEF Servers
      <3>2. m % MAX_DOWNLOAD_WINDOW = n % MAX_DOWNLOAD_WINDOW
        OBVIOUS
      <3> HIDE DEF new, i
      <3>3. QED
        BY <2>1, <3>1, <3>2, SamePlace
    <2>3. n \in new(i)
      OBVIOUS
    <2> HIDE DEF new
    <2>4. last(i) = n
      BY <2>2, <2>3, <2>1
    <2> HIDE DEF last, i
    <2>5. QED
      BY <1>13, <2>1, <2>3, <2>4 DEF i
  <1>15. ASSUME NEW n \in s.clientBlock .. s.currentBlock - 1
         PROVE  win[n % MAX_DOWNLOAD_WINDOW] = window[n % MAX_DOWNLOAD_WINDOW]
    <2> DEFINE i == n % MAX_DOWNLOAD_WINDOW
    <2>0. n \in Nat
      BY <1>1
    <2>1. n \in Nat /\ i \in Places
      BY <2>0, Remainder DEF Places
    <2>2. ASSUME NEW m \in new(i) PROVE FALSE
      <3>1. m \in Nat /\ n < m /\ m < n + MAX_DOWNLOAD_WINDOW
        BY <1>1, <1>4, <1>6, <1>8, <1>11 DEF Servers
      <3>2. m % MAX_DOWNLOAD_WINDOW = n % MAX_DOWNLOAD_WINDOW
        OBVIOUS
      <3> HIDE DEF new, i
      <3>3. m < n + MAX_DOWNLOAD_WINDOW /\ n < m + MAX_DOWNLOAD_WINDOW
        BY <2>1, <3>1
      <3>4. m = n
        BY <2>1, <3>1, <3>2, <3>3, SamePlace
      <3>5. QED
        BY <2>1, <3>1, <3>4
    <2> HIDE DEF new
    <2>3. new(i) = {}
      BY <2>2
    <2> HIDE DEF last, i
    <2>4. QED
      BY <1>13, <2>1, <2>3 DEF i
  <1>16. win \in [Places -> Contents]
    <2>1. ASSUME NEW i \in Places, new(i) # {} PROVE Block(t.name, last(i)) \in Contents
      <3>1. PICK n \in new(i) : TRUE
        BY <2>1
      <3>2. n \in s.currentBlock .. t.currentBlock - 1 /\ i = n % MAX_DOWNLOAD_WINDOW
        OBVIOUS
      <3>3. win[i] = Block(t.name, n)
        BY <1>14, <3>2
      <3>4. win[i] = Block(t.name, last(i))
        BY <1>13, <2>1
      <3>5. n \in Nat
        BY <1>1, <3>2
      <3>6. Block(t.name, n) \in Contents
        BY <1>1, <1>4, <3>5, BlockContents
      <3> HIDE DEF new, last, win
      <3>7. QED
        BY <3>3, <3>4, <3>6
    <2> HIDE DEF new, last
    <2>2. QED
      BY <1>13, <2>1
  <1> HIDE DEF new, last, win
  <1>17. \A n \in t.clientBlock .. t.currentBlock - 1 :
           win[n % MAX_DOWNLOAD_WINDOW] = Block(t.name, n)
    <2> TAKE n \in t.clientBlock .. t.currentBlock - 1
    <2>1. CASE n \in s.clientBlock .. s.currentBlock - 1
      BY <1>4, <1>15, <2>1 DEF ServerInv
    <2>2. CASE n \in s.currentBlock .. t.currentBlock - 1
      BY <1>14, <2>2
    <2>3. QED
      BY <1>1, <1>4, <1>6, <2>1, <2>2 DEF Servers
  <1>18. t.name \in File \ t.refused
    BY <1>4 DEF ServerInv
  <1>19. ServerInv(t, win)
    BY <1>10, <1>11, <1>17, <1>18 DEF ServerInv
  <1>20. QED
    BY <1>4, <1>6, <1>11, <1>12, <1>16, <1>19 DEF t, win

\* The blocks of m are those of the window from first on.
Sends(s, win, first, m) ==
  /\ Len(m) >= 1
  /\ first + Len(m) <= s.currentBlock
  /\ s.xmitBlock = first + Len(m)
  /\ \A e \in DOMAIN m :
       /\ m[e].block = Short(first + e - 1)
       /\ m[e].data = win[(first + e - 1) % MAX_DOWNLOAD_WINDOW]

Plain == Seq([block : Int, data : Contents])

LEMMA PlainMessage ==
  ASSUME NEW m \in Plain
  PROVE  /\ m \in Message /\ Len(m) \in Nat /\ DOMAIN m = 1 .. Len(m)
         /\ \A e \in DOMAIN m : m[e].block \in Int /\ m[e].data \in Contents
  <1>1. Len(m) \in Nat /\ DOMAIN m = 1 .. Len(m)
    BY LenProperties DEF Plain
  <1>2. \A e \in DOMAIN m : m[e] \in [block : Int, data : Contents]
    BY <1>1, ElementOfSeq DEF Plain
  <1>3. QED
    BY <1>1, <1>2 DEF Plain, Message

LEMMA ShortInt ==
  ASSUME NEW n \in Nat
  PROVE  Short(n) \in Int
  <1> DEFINE m == 2 * (ShortMax + 1)
             a == n + ShortMax + 1
  <1>1. m \in Nat \ {0} /\ a \in Nat /\ Short(n) = (a % m) - (ShortMax + 1)
    BY DEF Short
  <1> HIDE DEF m, a
  <1>2. a % m \in 0 .. m - 1
    BY <1>1, Remainder
  <1>3. QED
    BY <1>1, <1>2

\* The blocks of a snapshot lie between the first to send and currentBlock.
LEMMA BlocksOfSends ==
  ASSUME NEW s \in Servers, NEW win \in [Places -> Contents], NEW first \in Nat,
         first <= s.currentBlock, NEW n \in Nat, BlocksOf(s, win, first, n) # <<>>
  PROVE  LET m == BlocksOf(s, win, first, n)
         IN  m \in Plain /\ Sends([s EXCEPT !.xmitBlock = first + Len(m)], win, first, m)
  <1> DEFINE m == BlocksOf(s, win, first, n)
             len == IF s.currentBlock - first < n THEN s.currentBlock - first ELSE n
  <1>1. s.currentBlock \in Nat
    BY DEF Servers
  <1>2. len \in Nat /\ len <= s.currentBlock - first
    BY <1>1
  <1>3. m = [k \in 1 .. len |->
               [block |-> Short(first + k - 1),
                data  |-> win[(first + k - 1) % MAX_DOWNLOAD_WINDOW]]]
    BY DEF BlocksOf
  <1> HIDE DEF m, len
  <1>4. ASSUME NEW k \in 1 .. len
        PROVE  /\ Short(first + k - 1) \in Int
               /\ win[(first + k - 1) % MAX_DOWNLOAD_WINDOW] \in Contents
    <2> DEFINE a == first + k - 1
    <2>1. a \in Nat
      BY <1>2
    <2> HIDE DEF a
    <2>2. a % MAX_DOWNLOAD_WINDOW \in Places
      BY <2>1, Remainder DEF Places
    <2>3. Short(a) \in Int /\ win[a % MAX_DOWNLOAD_WINDOW] \in Contents
      BY <2>1, <2>2, ShortInt
    <2>4. QED
      BY <2>3 DEF a
  <1>5. \A k \in 1 .. len :
          m[k] \in [block : Int, data : Contents]
          /\ m[k].block = Short(first + k - 1)
          /\ m[k].data = win[(first + k - 1) % MAX_DOWNLOAD_WINDOW]
    BY <1>3, <1>4
  <1>6. m = [k \in 1 .. len |-> m[k]]
    BY <1>3
  <1> DEFINE S == [block : Int, data : Contents]
  <1>7. m \in Plain
    <2>1. \A k \in 1 .. len : m[k] \in S
      BY <1>5
    <2> HIDE DEF S
    <2>2. [k \in 1 .. len |-> m[k]] \in Seq(S)
      BY <1>2, <2>1, IsASeq
    <2>3. m \in Seq(S)
      BY <1>6, <2>2
    <2>4. QED
      BY <2>3 DEF Plain, S
  <1>8. Len(m) = len /\ DOMAIN m = 1 .. len
    <2>1. DOMAIN m = 1 .. len
      BY <1>3
    <2>2. QED
      BY <1>2, <1>7, <2>1, LenProperties DEF Plain
  <1>9. Len(m) >= 1
    BY <1>2, <1>7, <1>8, EmptySeq DEF Plain, m
  <1> DEFINE t == [s EXCEPT !.xmitBlock = first + Len(m)]
  <1>10. t.xmitBlock = first + Len(m) /\ t.currentBlock = s.currentBlock
    BY DEF Servers
  <1> HIDE DEF t
  <1>11. Sends(t, win, first, m)
    BY <1>1, <1>2, <1>5, <1>8, <1>9, <1>10 DEF Sends
  <1>12. QED
    BY <1>7, <1>11 DEF t, m

\* Sending changes nothing that the invariant of the server looks at, but
\* where transmission goes on.
LEMMA SentServer ==
  ASSUME NEW s \in Servers, NEW win, ServerInv(s, win), NEW x \in Nat,
         x <= s.currentBlock
  PROVE  LET t == [s EXCEPT !.xmitBlock = x]
         IN  /\ t \in Servers /\ ServerInv(t, win)
             /\ t.open = s.open /\ t.name = s.name /\ t.broken = s.broken
             /\ t.refused = s.refused /\ t.clientBlock = s.clientBlock
             /\ t.currentBlock = s.currentBlock /\ t.xmitBlock = x
  <1> DEFINE t == [s EXCEPT !.xmitBlock = x]
  <1>1. /\ t \in Servers
        /\ t.open = s.open /\ t.name = s.name /\ t.broken = s.broken
        /\ t.refused = s.refused /\ t.clientBlock = s.clientBlock
        /\ t.currentBlock = s.currentBlock /\ t.xmitBlock = x
        /\ t.count = s.count /\ t.eof = s.eof
    BY DEF Servers
  <1> HIDE DEF t
  <1>2. ServerInv(t, win)
    BY <1>1 DEF ServerInv
  <1>3. QED
    BY <1>1, <1>2 DEF t

\* SV_WriteDownloadToClient sends some blocks of the file that is wanted.
Writes(s, t, win, first, m) ==
  /\ s.name \in File \ s.refused
  /\ t \in Servers
  /\ win \in [Places -> Contents]
  /\ ServerInv(t, win)
  /\ t.open /\ t.name = s.name /\ t.broken = s.broken /\ t.refused = s.refused
  /\ s.open => /\ t.clientBlock = s.clientBlock
               /\ s.currentBlock = Blocks[s.name] + 1 =>
                    t.currentBlock = s.currentBlock
               /\ s.currentBlock <= t.currentBlock
               /\ first \in {s.xmitBlock, s.clientBlock}
  /\ ~s.open => t.clientBlock = 0
  /\ first \in Nat /\ m \in Plain
  /\ Sends(t, win, first, m)

\* All that SV_WriteDownloadToClient does: it opens the file if it has to,
\* reads blocks, and sends some of the window.
LEMMA WriteEffect ==
  ASSUME TypesInv, ServerInv(server, window), NEW expired,
         NEW n \in 1 .. BlocksPerSnap, SV_WriteDownloadToClient(expired, n)
  PROVE  \E first, m : /\ Writes(server, server', window', first, m)
                       /\ down' = InFlight(m)
                       /\ UNCHANGED <<client, commands>>
  <1> DEFINE o == Opened(server)
             s == Filled(o)
             win == WindowFilled(o, s)
             first == FirstBlock(s, expired)
             m == BlocksOf(s, win, first, n)
             t == [s EXCEPT !.xmitBlock = first + Len(m)]
  <1>1. /\ server.name \in File \ server.refused
        /\ m # <<>> /\ server' = t /\ window' = win /\ down' = InFlight(m)
        /\ UNCHANGED <<client, commands>>
    BY DEF SV_WriteDownloadToClient
  <1>2. server \in Servers /\ window \in [Places -> Contents]
    BY DEF TypesInv, Places
  <1>3. /\ o \in Servers /\ ServerInv(o, window) /\ o.open /\ o.name = server.name
        /\ o.broken = server.broken /\ o.refused = server.refused
        /\ server.open => o = server
        /\ ~server.open => o.clientBlock = 0 /\ o.xmitBlock = 0
    BY <1>1, <1>2, OpenedKeeps
  <1> HIDE DEF o
  <1>4. /\ s \in Servers /\ win \in [Places -> Contents] /\ ServerInv(s, win)
        /\ s.open /\ s.name = o.name /\ s.clientBlock = o.clientBlock
        /\ s.xmitBlock = o.xmitBlock /\ s.broken = o.broken /\ s.refused = o.refused
        /\ s.currentBlock >= o.currentBlock
        /\ o.currentBlock = Blocks[o.name] + 1 => s.currentBlock = o.currentBlock
    BY <1>2, <1>3, FilledKeeps
  <1> HIDE DEF s, win
  <1>5. first \in {s.xmitBlock, s.clientBlock} /\ first \in Nat /\ first <= s.currentBlock
    <2>1. s.xmitBlock \in Nat /\ s.clientBlock \in Nat /\ s.currentBlock \in Nat
      BY <1>4 DEF Servers
    <2>2. s.xmitBlock <= s.currentBlock /\ s.clientBlock <= s.currentBlock
      BY <1>4, <2>1 DEF ServerInv
    <2>3. first \in {s.xmitBlock, s.clientBlock}
      BY DEF FirstBlock
    <2>4. QED
      BY <2>1, <2>2, <2>3
  <1> HIDE DEF first
  <1>6. m \in Plain /\ Sends(t, win, first, m)
    <2>1. n \in Nat /\ BlocksOf(s, win, first, n) # <<>>
      BY <1>1
    <2>2. QED
      BY <1>4, <1>5, <2>1, BlocksOfSends
  <1> DEFINE x == first + Len(m)
  <1>7. Len(m) \in Nat /\ x \in Nat
    BY <1>5, <1>6, PlainMessage
  <1>8. x <= s.currentBlock
    <2>1. t.currentBlock = s.currentBlock
      BY <1>4 DEF Servers
    <2>2. QED
      BY <1>6, <2>1 DEF Sends
  <1>9. /\ t \in Servers /\ ServerInv(t, win)
        /\ t.open = s.open /\ t.name = s.name /\ t.broken = s.broken
        /\ t.refused = s.refused /\ t.clientBlock = s.clientBlock
        /\ t.currentBlock = s.currentBlock
    <2> HIDE DEF x
    <2> DEFINE u == [s EXCEPT !.xmitBlock = x]
    <2>1. /\ u \in Servers /\ ServerInv(u, win)
          /\ u.open = s.open /\ u.name = s.name /\ u.broken = s.broken
          /\ u.refused = s.refused /\ u.clientBlock = s.clientBlock
          /\ u.currentBlock = s.currentBlock
      BY <1>4, <1>7, <1>8, SentServer, ZenonT(30)
    <2> HIDE DEF u
    <2>2. u = t
      BY DEF u, x
    <2>3. QED
      BY <2>1, <2>2
  <1> HIDE DEF m, t
  <1>10. Writes(server, t, win, first, m)
    BY <1>1, <1>3, <1>4, <1>5, <1>6, <1>9 DEF Writes
  <1>11. QED
    BY <1>1, <1>10
-----------------------------------------------------------------------------
(* Messages in flight.                                                     *)

LEMMA MessageDomain ==
  ASSUME NEW m \in Message
  PROVE  Len(m) \in Nat /\ DOMAIN m = 1 .. Len(m)
  <1>1. CASE m \in Plain
    BY <1>1, PlainMessage
  <1>2. CASE m = Refusal
    BY <1>2 DEF Refusal
  <1>3. QED
    BY <1>1, <1>2 DEF Message, Plain

LEMMA Suffix ==
  ASSUME NEW q \in Seq(Message), NEW k \in 1 .. Len(q)
  PROVE  LET t == SubSeq(q, k + 1, Len(q))
         IN  /\ t \in Seq(Message) /\ Len(t) = Len(q) - k /\ Len(q) \in Nat
             /\ DOMAIN t = 1 .. Len(q) - k /\ DOMAIN q = 1 .. Len(q)
             /\ \A j \in 1 .. Len(q) - k : t[j] = q[j + k]
  <1> DEFINE t == SubSeq(q, k + 1, Len(q))
  <1>1. Len(q) \in Nat /\ DOMAIN q = 1 .. Len(q)
    BY LenProperties
  <1>2. \A i \in k + 1 .. Len(q) : q[i] \in Message
    BY <1>1, ElementOfSeq
  <1>3. t \in Seq(Message)
    BY <1>1, <1>2, SubSeqProperties
  <1>4. Len(t) = Len(q) - k
    <2>1. k + 1 \in Int /\ Len(q) \in Int /\ k \in 1 .. Len(q)
      BY <1>1
    <2>2. Len(t) = IF k + 1 <= Len(q) THEN Len(q) - (k + 1) + 1 ELSE 0
      BY <1>2, <2>1, SubSeqProperties
    <2> HIDE DEF t
    <2>3. QED
      BY <2>1, <2>2
  <1>5. \A j \in 1 .. Len(q) - k : t[j] = q[j + k]
    BY <1>1
  <1> HIDE DEF t
  <1>6. DOMAIN t = 1 .. Len(t)
    BY <1>3, LenProperties
  <1>7. QED
    BY <1>1, <1>3, <1>4, <1>5, <1>6 DEF t

\* What is lost was of no use to the messages behind it.
LEMMA SuffixLive ==
  ASSUME NEW q \in Seq(Message), NEW k \in 1 .. Len(q), NEW c,
         NEW j \in 1 .. Len(q) - k,
         Live(c, SubSeq(q, k + 1, Len(q)), j)
  PROVE  Live(c, q, j + k)
  <1> DEFINE t == SubSeq(q, k + 1, Len(q))
  <1>1. Len(q) \in Nat /\ \A i \in 1 .. Len(q) - k : t[i] = q[i + k]
    BY Suffix
  <1>2. Live(c, t, j)
    OBVIOUS
  <1> HIDE DEF t
  <1>3. CASE c.block > 0
    BY <1>3 DEF Live
  <1>4. CASE \E i \in 1 .. j : HasBlock(t[i], 0)
    <2>1. PICK i \in 1 .. j : HasBlock(t[i], 0)
      BY <1>4
    <2>2. HasBlock(q[i + k], 0) /\ i + k \in 1 .. j + k
      BY <1>1, <2>1
    <2>3. QED
      BY <2>2 DEF Live
  <1>5. QED
    BY <1>2, <1>3, <1>4 DEF Live

LEMMA SuffixEofLast ==
  ASSUME NEW s, NEW q \in Seq(Message), NEW k \in 1 .. Len(q),
         NEW j \in 1 .. Len(q) - k, EofLast(s, q, j + k)
  PROVE  EofLast(s, SubSeq(q, k + 1, Len(q)), j)
  <1> DEFINE t == SubSeq(q, k + 1, Len(q))
  <1>1. /\ Len(q) \in Nat /\ Len(t) = Len(q) - k
        /\ \A i \in 1 .. Len(q) - k : t[i] = q[i + k]
    BY Suffix
  <1> HIDE DEF t
  <1>2. ASSUME NEW i \in j + 1 .. Len(t), ~HasBlock(q[i + k], 0)
        PROVE  ~HasBlock(t[i], 0)
    BY <1>1, <1>2
  <1>3. \A i \in j + 1 .. Len(t) : i + k \in j + k + 1 .. Len(q)
    BY <1>1
  <1>4. t[j] = q[j + k]
    BY <1>1
  <1>5. EofLast(s, t, j)
    BY <1>2, <1>3, <1>4 DEF EofLast
  <1>6. QED
    BY <1>5 DEF t

LEMMA SuffixDown ==
  ASSUME NEW s, NEW c, NEW cmds, NEW q \in Seq(Message), NEW k \in 1 .. Len(q),
         DownInv(s, c, cmds, q)
  PROVE  DownInv(s, c, cmds, SubSeq(q, k + 1, Len(q)))
  <1> DEFINE t == SubSeq(q, k + 1, Len(q))
  <1>1. /\ Len(q) \in Nat /\ DOMAIN t = 1 .. Len(q) - k /\ DOMAIN q = 1 .. Len(q)
        /\ \A i \in 1 .. Len(q) - k : t[i] = q[i + k]
    BY Suffix
  <1>2. ASSUME c.name \in File, NEW j \in DOMAIN t, Live(c, t, j)
        PROVE  IF c.name \in s.refused
               THEN s.name = NoFile /\ cmds = <<>> /\ t[j] = Refusal
               ELSE s.open /\ s.name = c.name /\ OfFile(s, c, t[j]) /\ EofLast(s, t, j)
    <2>1. j \in 1 .. Len(q) - k /\ j + k \in DOMAIN q /\ t[j] = q[j + k]
      BY <1>1, <1>2
    <2>2. Live(c, q, j + k)
      BY <1>2, <2>1, SuffixLive
    <2>3. EofLast(s, q, j + k) => EofLast(s, t, j)
      BY <2>1, SuffixEofLast
    <2> HIDE DEF t
    <2>4. QED
      BY <1>2, <2>1, <2>2, <2>3 DEF DownInv
  <1> HIDE DEF t
  <1>3. DownInv(s, c, cmds, t)
    BY <1>2 DEF DownInv
  <1>4. QED
    BY <1>3 DEF t

\* A new message behind those in flight.
LEMMA AppendDown ==
  ASSUME NEW s, NEW c, NEW cmds, NEW q \in Seq(Message), NEW m \in Message,
         DownInv(s, c, cmds, q),
         c.name \in File /\ Live(c, Append(q, m), Len(q) + 1) =>
           IF c.name \in s.refused
           THEN s.name = NoFile /\ cmds = <<>> /\ m = Refusal
           ELSE s.open /\ s.name = c.name /\ OfFile(s, c, m) /\ s.xmitBlock >= 1,
         \A j \in DOMAIN q :
           c.name \in File /\ c.name \notin s.refused /\ Live(c, q, j)
             /\ s.name < Len(Blocks) /\ HasBlock(q[j], Blocks[s.name])
             => ~HasBlock(m, 0)
  PROVE  DownInv(s, c, cmds, Append(q, m))
  <1> DEFINE t == Append(q, m)
             n == Len(q) + 1
  <1>1. /\ n \in Nat /\ DOMAIN q = 1 .. n - 1 /\ Len(t) = n /\ DOMAIN t = 1 .. n
        /\ t[n] = m /\ \A j \in 1 .. n - 1 : t[j] = q[j]
    BY AppendProperties, LenProperties
  <1>2. c.name \in File /\ Live(c, t, n) =>
           IF c.name \in s.refused
           THEN s.name = NoFile /\ cmds = <<>> /\ m = Refusal
           ELSE s.open /\ s.name = c.name /\ OfFile(s, c, m) /\ s.xmitBlock >= 1
    OBVIOUS
  <1> HIDE DEF t, n
  <1>3. ASSUME c.name \in File, NEW j \in DOMAIN t, Live(c, t, j)
        PROVE  IF c.name \in s.refused
               THEN s.name = NoFile /\ cmds = <<>> /\ t[j] = Refusal
               ELSE s.open /\ s.name = c.name /\ OfFile(s, c, t[j]) /\ EofLast(s, t, j)
    <2>1. CASE j = n
      <3>1. EofLast(s, t, j) <=> (s.name < Len(Blocks) /\ HasBlock(t[j], Blocks[s.name])
                                    => s.xmitBlock >= 1)
        BY <1>1, <2>1 DEF EofLast
      <3>2. QED
        BY <1>1, <1>2, <1>3, <2>1, <3>1
    <2>2. CASE j # n
      <3>1. j \in DOMAIN q /\ t[j] = q[j] /\ j \in 1 .. n - 1
        BY <1>1, <2>2
      <3>2. Live(c, q, j)
        <4>1. \A i \in 1 .. j : t[i] = q[i]
          BY <1>1, <3>1
        <4>2. QED
          BY <1>3, <4>1 DEF Live
      <3>3. CASE c.name \in s.refused
        BY <1>3, <3>1, <3>2, <3>3 DEF DownInv
      <3>4. CASE c.name \notin s.refused
        <4>1. s.open /\ s.name = c.name /\ OfFile(s, c, q[j]) /\ EofLast(s, q, j)
          BY <1>3, <3>1, <3>2, <3>4 DEF DownInv
        <4>2. ASSUME s.name < Len(Blocks), HasBlock(t[j], Blocks[s.name])
              PROVE  /\ s.xmitBlock >= 1
                     /\ \A i \in j + 1 .. Len(t) : ~HasBlock(t[i], 0)
          <5>1. HasBlock(q[j], Blocks[s.name])
            BY <3>1, <4>2
          <5>2. s.xmitBlock >= 1 /\ \A i \in j + 1 .. Len(q) : ~HasBlock(q[i], 0)
            BY <4>1, <4>2, <5>1 DEF EofLast
          <5>3. ~HasBlock(m, 0)
            BY <1>3, <3>1, <3>2, <3>4, <4>2, <5>1
          <5>4. Len(q) = n - 1
            BY LenProperties DEF n
          <5>5. ASSUME NEW i \in j + 1 .. Len(t) PROVE ~HasBlock(t[i], 0)
            <6>1. CASE i = n
              BY <1>1, <5>3, <6>1
            <6>2. CASE i # n
              <7>1. i \in 1 .. n - 1 /\ i \in j + 1 .. Len(q)
                BY <1>1, <3>1, <5>4, <6>2
              <7>2. QED
                BY <1>1, <5>2, <7>1
            <6>3. QED
              BY <6>1, <6>2
          <5>6. QED
            BY <5>2, <5>5
        <4>3. EofLast(s, t, j)
          BY <4>2 DEF EofLast
        <4>4. QED
          BY <3>1, <3>4, <4>1, <4>3
      <3>5. QED
        BY <3>3, <3>4
    <2>3. QED
      BY <2>1, <2>2
  <1>4. DownInv(s, c, cmds, t)
    BY <1>3 DEF DownInv
  <1>5. QED
    BY <1>4 DEF t
-----------------------------------------------------------------------------
(* SV_WriteDownloadToClient preserves the agreement of the two ends, and   *)
(* what is known of the messages in flight.                                *)

\* The fields of a server are numbers, and the window is never overfull.
LEMMA ServerNumbers ==
  ASSUME NEW s \in Servers, NEW win, ServerInv(s, win)
  PROVE  /\ s.clientBlock \in Nat /\ s.currentBlock \in Nat /\ s.xmitBlock \in Nat
         /\ s.clientBlock <= s.currentBlock
         /\ s.currentBlock <= s.clientBlock + MAX_DOWNLOAD_WINDOW
         /\ s.xmitBlock <= s.currentBlock
         /\ s.open => s.name \in File \ s.refused
  <1>1. /\ s.clientBlock \in Nat /\ s.currentBlock \in Nat /\ s.xmitBlock \in Nat
    BY DEF Servers
  <1>2. /\ s.currentBlock - s.clientBlock \in 0 .. MAX_DOWNLOAD_WINDOW
        /\ s.xmitBlock <= s.currentBlock
        /\ s.open => s.name \in File \ s.refused
    BY DEF ServerInv
  <1>3. QED
    BY <1>1, <1>2

LEMMA NoAcks ==
  ASSUME NEW n \in Int
  PROVE  Acks(n, n) = <<>>
  BY DEF Acks

\* After a write the client's commands still fit the server's window.
LEMMA WriteAgreement ==
  ASSUME NEW s \in Servers, NEW w, ServerInv(s, w), NEW t, NEW win, NEW first, NEW m,
         Writes(s, t, win, first, m), NEW c \in Clients, NEW cmds,
         Agreement(s, c, cmds)
  PROVE  Agreement(t, c, cmds) /\ t.xmitBlock >= 1
  <1>1. /\ s.name \in File \ s.refused /\ t \in Servers /\ ServerInv(t, win)
        /\ t.open /\ t.name = s.name /\ t.refused = s.refused
        /\ first \in Nat /\ m \in Plain /\ Sends(t, win, first, m)
    BY DEF Writes
  <1>2. s.open => /\ t.clientBlock = s.clientBlock
                  /\ s.currentBlock = Blocks[s.name] + 1 =>
                       t.currentBlock = s.currentBlock
                  /\ s.currentBlock <= t.currentBlock
    BY DEF Writes
  <1>3. ~s.open => t.clientBlock = 0
    BY DEF Writes
  <1>4. t.clientBlock \in Nat /\ t.currentBlock \in Nat /\ t.clientBlock <= t.currentBlock
    BY <1>1, ServerNumbers
  <1>5. s.clientBlock \in Nat /\ s.currentBlock \in Nat /\ s.clientBlock <= s.currentBlock
    BY ServerNumbers
  <1>6. t.xmitBlock >= 1
    BY <1>1, PlainMessage DEF Sends
  <1>7. CASE Copying(s, c, cmds)
    <2>1. c.block \in s.clientBlock .. s.currentBlock
      BY <1>7 DEF Copying
    <2>2. c.block \in t.clientBlock .. t.currentBlock
      BY <1>2, <1>4, <1>5, <1>7, <2>1 DEF Copying
    <2>3. Copying(t, c, cmds)
      BY <1>1, <1>2, <1>7, <2>2 DEF Copying
    <2>4. QED
      BY <1>6, <2>3 DEF Agreement
  <1>8. CASE Asked(s, c, cmds)
    <2>1. c.block = 0 /\ cmds = <<>> /\ s.name = c.name /\ ~s.open
      BY <1>1, <1>8, BlocksTypes DEF Asked
    <2>2. c.block \in t.clientBlock .. t.currentBlock /\ t.clientBlock = 0
      BY <1>3, <1>4, <2>1
    <2>3. cmds = Acks(t.clientBlock, c.block)
      BY <2>1, <2>2, NoAcks
    <2>4. Copying(t, c, cmds)
      BY <1>1, <2>1, <2>2, <2>3 DEF Copying
    <2>5. QED
      BY <1>6, <2>4 DEF Agreement
  <1>9. CASE Asking(s, c, cmds)
    BY <1>1, <1>9, BlocksTypes DEF Asking
  <1>10. CASE AskingNext(s, c, cmds)
    <2>1. s.open /\ LeavingFile(s)
      BY <1>10 DEF AskingNext, LeavingFile
    <2>2. LeavingFile(t) /\ t.clientBlock = s.clientBlock
      BY <1>1, <1>2, <2>1 DEF LeavingFile
    <2>3. AskingNext(t, c, cmds)
      BY <1>1, <1>6, <1>10, <2>2 DEF AskingNext
    <2>4. QED
      BY <1>6, <2>3 DEF Agreement
  <1>11. CASE Finishing(s, c, cmds)
    <2>1. PICK rest \in Seq(Parting) :
            \/ cmds = rest
            \/ /\ LeavingFile(s)
               /\ cmds = Acks(s.clientBlock, Blocks[s.name] + 1) \o rest
      BY <1>11 DEF Finishing
    <2>2. LeavingFile(s) => LeavingFile(t) /\ t.clientBlock = s.clientBlock
      BY <1>1, <1>2 DEF LeavingFile
    <2>3. \/ cmds = rest
          \/ /\ LeavingFile(t)
             /\ cmds = Acks(t.clientBlock, Blocks[t.name] + 1) \o rest
      BY <1>1, <2>1, <2>2
    <2>4. Finishing(t, c, cmds)
      BY <1>11, <2>3 DEF Finishing
    <2>5. QED
      BY <1>6, <2>4 DEF Agreement
  <1>12. QED
    BY <1>7, <1>8, <1>9, <1>10, <1>11 DEF Agreement

\* The numbers of the blocks sent are those on the wire, as far as a client
\* can take them.
LEMMA SendsHas ==
  ASSUME NEW t, t.currentBlock \in Nat, NEW win, NEW first \in Nat, NEW m \in Plain,
         Sends(t, win, first, m), NEW b \in Nat, HasBlock(m, b),
         t.currentBlock <= 2 * ShortMax + 2
  PROVE  b \in first .. t.currentBlock - 1
  <1>1. PICK e \in DOMAIN m : m[e].block = b
    BY DEF HasBlock
  <1>2. m[e].block = Short(first + e - 1) /\ first + Len(m) <= t.currentBlock
    BY DEF Sends
  <1>3. Len(m) \in Nat /\ e \in 1 .. Len(m)
    BY PlainMessage
  <1> DEFINE n == first + e - 1
  <1>4. n \in 0 .. 2 * ShortMax + 1 /\ n >= first /\ n < t.currentBlock
    BY <1>2, <1>3, SMTT(20)
  <1>5. Short(n) = b
    BY <1>1, <1>2
  <1> HIDE DEF n
  <1>6. n = b
    BY <1>4, <1>5, ShortExact
  <1>7. QED
    BY <1>4, <1>6

LEMMA OfFileHas ==
  ASSUME NEW s, s.currentBlock \in Nat, NEW c, NEW m \in Message,
         OfFile(s, c, m), NEW b \in Nat, HasBlock(m, b),
         s.currentBlock <= 2 * ShortMax + 2
  PROVE  b < s.currentBlock
  <1>1. PICK first \in Nat :
          /\ first + Len(m) <= s.currentBlock
          /\ \A e \in DOMAIN m : m[e].block = Short(first + e - 1)
    BY DEF OfFile
  <1>2. PICK e \in DOMAIN m : m[e].block = b
    BY DEF HasBlock
  <1>3. Len(m) \in Nat /\ e \in 1 .. Len(m)
    BY MessageDomain
  <1> DEFINE n == first + e - 1
  <1>4. n \in 0 .. 2 * ShortMax + 1 /\ n < s.currentBlock
    BY <1>1, <1>3, SMTT(20)
  <1>5. Short(n) = b
    BY <1>1, <1>2
  <1> HIDE DEF n
  <1>6. n = b
    BY <1>4, <1>5, ShortExact
  <1>7. QED
    BY <1>4, <1>6

\* What is sent has the right content from the block expected on.
LEMMA SendsOfFile ==
  ASSUME NEW t \in Servers, NEW win \in [Places -> Contents], ServerInv(t, win), t.open,
         NEW first \in Nat, NEW m \in Plain, Sends(t, win, first, m),
         NEW c \in Clients, c.block >= t.clientBlock
  PROVE  OfFile(t, c, m)
  <1>1. /\ first + Len(m) <= t.currentBlock
        /\ \A e \in DOMAIN m :
             /\ m[e].block = Short(first + e - 1)
             /\ m[e].data = win[(first + e - 1) % MAX_DOWNLOAD_WINDOW]
    BY DEF Sends
  <1>2. \A n \in t.clientBlock .. t.currentBlock - 1 :
          win[n % MAX_DOWNLOAD_WINDOW] = Block(t.name, n)
    BY DEF ServerInv
  <1>3. t.clientBlock \in Nat /\ t.currentBlock \in Nat /\ c.block \in Nat
    BY DEF Servers, Clients
  <1>4. ASSUME NEW e \in DOMAIN m
        PROVE  /\ m[e].data \in Contents
               /\ first + e - 1 >= c.block => m[e].data = Block(t.name, first + e - 1)
    <2>1. m[e].data \in Contents /\ Len(m) \in Nat /\ e \in 1 .. Len(m)
      BY PlainMessage
    <2>2. ASSUME first + e - 1 >= c.block
          PROVE  first + e - 1 \in t.clientBlock .. t.currentBlock - 1
      <3> DEFINE a == t.clientBlock
                 b == t.currentBlock
                 l == Len(m)
                 n == c.block
      <3>1. /\ a \in Nat /\ b \in Nat /\ n \in Nat /\ l \in Nat /\ e \in 1 .. l
            /\ first + l <= b /\ n >= a /\ first + e - 1 >= n
        BY <1>1, <1>3, <2>1, <2>2
      <3> HIDE DEF a, b, l, n
      <3>2. first + e - 1 \in a .. b - 1
        BY <3>1
      <3>3. QED
        BY <3>2 DEF a, b
    <2>3. QED
      BY <1>1, <1>2, <2>1, <2>2
  <1>5. QED
    BY <1>1, <1>4 DEF OfFile

\* After a write everything in flight is still what its number says.
LEMMA WriteDown ==
  ASSUME NEW s \in Servers, NEW w, ServerInv(s, w), NEW t, NEW win, NEW first, NEW m,
         Writes(s, t, win, first, m), NEW c \in Clients, NEW cmds,
         Agreement(s, c, cmds), NEW q \in Seq(Message), DownInv(s, c, cmds, q)
  PROVE  DownInv(t, c, cmds, Append(q, m))
  <1>1. /\ s.name \in File \ s.refused /\ t \in Servers /\ win \in [Places -> Contents]
        /\ ServerInv(t, win) /\ t.open /\ t.name = s.name /\ t.refused = s.refused
        /\ first \in Nat /\ m \in Plain /\ Sends(t, win, first, m)
    BY DEF Writes
  <1>2. s.open => /\ t.clientBlock = s.clientBlock
                  /\ s.currentBlock <= t.currentBlock
                  /\ first \in {s.xmitBlock, s.clientBlock}
    BY DEF Writes
  <1>3. t.xmitBlock >= 1 /\ m \in Message
    BY <1>1, PlainMessage DEF Sends
  <1>4. /\ t.clientBlock \in Nat /\ t.currentBlock \in Nat
        /\ t.currentBlock <= t.clientBlock + MAX_DOWNLOAD_WINDOW
    BY <1>1, ServerNumbers
  <1>5. /\ s.clientBlock \in Nat /\ s.currentBlock \in Nat /\ s.xmitBlock \in Nat
        /\ s.clientBlock <= s.currentBlock
        /\ s.currentBlock <= s.clientBlock + MAX_DOWNLOAD_WINDOW
    BY ServerNumbers
  <1>6. c.block \in 0 .. ShortMax + 1
    BY DEF Clients
  \* What was in flight before.
  <1>7. DownInv(t, c, cmds, q)
    <2>1. ASSUME c.name \in File, NEW j \in DOMAIN q, Live(c, q, j)
          PROVE  /\ c.name \notin t.refused /\ t.open /\ t.name = c.name
                 /\ OfFile(t, c, q[j]) /\ EofLast(t, q, j)
      <3>1. c.name \notin s.refused
        BY <1>1, <2>1, BlocksTypes DEF DownInv
      <3>2. s.open /\ s.name = c.name /\ OfFile(s, c, q[j]) /\ EofLast(s, q, j)
        BY <2>1, <3>1 DEF DownInv
      <3>3. q[j] \in Message
        BY <2>1, ElementOfSeq, LenProperties
      <3>4. OfFile(t, c, q[j])
        <4>1. PICK f \in Nat :
                /\ f + Len(q[j]) <= s.currentBlock
                /\ \A e \in DOMAIN q[j] :
                     /\ q[j][e].block = Short(f + e - 1)
                     /\ q[j][e].data \in Contents
                     /\ f + e - 1 >= c.block => q[j][e].data = Block(s.name, f + e - 1)
          BY <3>2 DEF OfFile
        <4>2. f + Len(q[j]) <= t.currentBlock
          BY <1>2, <1>4, <1>5, <3>2, <3>3, <4>1, MessageDomain
        <4>3. QED
          BY <1>1, <4>1, <4>2 DEF OfFile
      <3>5. EofLast(t, q, j)
        BY <1>1, <1>3, <3>2 DEF EofLast
      <3>6. QED
        BY <1>1, <3>1, <3>2, <3>4, <3>5
    <2>2. QED
      BY <2>1 DEF DownInv
  \* The new message, when the client wants the file.
  <1>8. ASSUME c.name \in File, c.name = s.name
        PROVE  /\ OfFile(t, c, m)
               /\ \A j \in DOMAIN q :
                    Live(c, q, j) /\ t.name < Len(Blocks) /\ HasBlock(q[j], Blocks[t.name])
                      => ~HasBlock(m, 0)
    <2>1. Copying(t, c, cmds)
      <3>1. Agreement(t, c, cmds)
        BY WriteAgreement
      <3>2. ~(t.name + 1 = c.name) /\ c.name # Nothing
        BY <1>1, <1>8, BlocksTypes
      <3>3. QED
        BY <1>1, <1>8, <3>1, <3>2
        DEF Agreement, Asked, Asking, AskingNext, Finishing
    <2>2. c.block \in t.clientBlock .. t.currentBlock
      BY <2>1 DEF Copying
    <2>3. OfFile(t, c, m)
      BY <1>1, <1>4, <2>2, SendsOfFile
    <2>4. t.currentBlock <= 2 * ShortMax + 2
      BY <1>4, <1>6, <2>2
    <2>5. ASSUME NEW j \in DOMAIN q, Live(c, q, j), t.name < Len(Blocks),
                 HasBlock(q[j], Blocks[t.name]), HasBlock(m, 0)
          PROVE  FALSE
      <3>1. /\ s.open /\ OfFile(s, c, q[j]) /\ EofLast(s, q, j)
        BY <1>1, <1>8, <2>5 DEF DownInv
      <3>2. q[j] \in Message
        BY <2>5, ElementOfSeq, LenProperties
      <3>3. Blocks[s.name] \in Nat /\ s.name \in Nat
        BY <1>1, BlocksTypes
      <3>4. s.currentBlock <= 2 * ShortMax + 2
        BY <1>2, <1>4, <1>5, <2>4, <3>1
      <3>5. Blocks[s.name] < s.currentBlock
        BY <1>1, <1>5, <2>5, <3>1, <3>2, <3>3, <3>4, OfFileHas
      <3>6. Blocks[s.name] >= MAX_DOWNLOAD_WINDOW
        BY <1>1, <2>5, <3>3, LongFilesAssumption DEF File
      <3>7. s.clientBlock >= 1
        BY <1>5, <3>3, <3>5, <3>6
      <3>8. s.xmitBlock >= 1
        BY <1>1, <2>5, <3>1 DEF EofLast
      <3>9. first >= 1
        BY <1>2, <3>1, <3>7, <3>8
      <3>10. 0 \in first .. t.currentBlock - 1
        BY <1>1, <1>4, <2>4, <2>5, SendsHas
      <3>11. QED
        BY <1>1, <3>9, <3>10
    <2>6. QED
      BY <2>3, <2>5, SMTT(20)
  \* The new message, when it is of the file before.
  <1>9. ASSUME c.name \in File, c.name # s.name
        PROVE  ~Live(c, Append(q, m), Len(q) + 1) /\ ~HasBlock(m, 0)
    <2>1. AskingNext(s, c, cmds)
      <3>1. c.name # Nothing
        BY <1>9, BlocksTypes
      <3>2. s.name # NoFile
        BY <1>1, BlocksTypes
      <3>3. QED
        BY <1>9, <3>1, <3>2
        DEF Agreement, Copying, Asked, Asking, Finishing
    <2>2. /\ s.open /\ s.xmitBlock >= 1 /\ s.clientBlock >= 1 /\ c.block = 0
          /\ s.currentBlock = Blocks[s.name] + 1 /\ Blocks[s.name] <= ShortMax
      BY <2>1 DEF AskingNext, LeavingFile
    <2>3. t.currentBlock = s.currentBlock /\ first >= 1
      BY <1>2, <2>2 DEF Writes
    <2>4. t.currentBlock <= 2 * ShortMax + 2
      BY <1>1, <2>2, <2>3, BlocksTypes
    <2>5. ~HasBlock(m, 0)
      <3>1. SUFFICES ASSUME HasBlock(m, 0) PROVE FALSE
        OBVIOUS
      <3>2. 0 \in first .. t.currentBlock - 1
        BY <1>1, <1>4, <2>4, <3>1, SendsHas
      <3>3. QED
        BY <1>1, <2>3, <3>2
    <2>6. ASSUME NEW i \in 1 .. Len(q), HasBlock(q[i], 0)
          PROVE  FALSE
      <3>1. i \in DOMAIN q /\ Live(c, q, i)
        BY <2>6, LenProperties DEF Live
      <3>2. s.name = NoFile \/ s.name = c.name
        BY <1>9, <3>1 DEF DownInv
      <3>3. QED
        BY <1>1, <1>9, <3>2, BlocksTypes
    <2>7. \A i \in 1 .. Len(q) + 1 : ~HasBlock(Append(q, m)[i], 0)
      <3> TAKE i \in 1 .. Len(q) + 1
      <3>1. CASE i = Len(q) + 1
        BY <2>5, <3>1, <1>3, AppendProperties
      <3>2. CASE i # Len(q) + 1
        <4>1. i \in 1 .. Len(q)
          BY <3>2, LenProperties
        <4>2. Append(q, m)[i] = q[i]
          BY <1>3, <4>1, AppendProperties
        <4>3. QED
          BY <2>6, <4>1, <4>2
      <3>3. QED
        BY <3>1, <3>2
    <2>8. ~Live(c, Append(q, m), Len(q) + 1)
      BY <2>2, <2>7 DEF Live
    <2>9. QED
      BY <2>5, <2>8
  <1>10. c.name \in File /\ Live(c, Append(q, m), Len(q) + 1) =>
           IF c.name \in t.refused
           THEN t.name = NoFile /\ cmds = <<>> /\ m = Refusal
           ELSE t.open /\ t.name = c.name /\ OfFile(t, c, m) /\ t.xmitBlock >= 1
    BY <1>1, <1>3, <1>8, <1>9
  <1>11. \A j \in DOMAIN q :
           c.name \in File /\ c.name \notin t.refused /\ Live(c, q, j)
             /\ t.name < Len(Blocks) /\ HasBlock(q[j], Blocks[t.name])
             => ~HasBlock(m, 0)
    BY <1>8, <1>9
  <1>12. QED
    BY <1>3, <1>7, <1>10, <1>11, AppendDown
-----------------------------------------------------------------------------
(* Commands of the client, and what it has copied.                         *)

LEMMA CommandType ==
  ASSUME NEW n \in Nat
  PROVE  /\ Command("nextdl", n) \in ClientCommands
         /\ Command("download", n) \in ClientCommands
         /\ Command("stopdl", n) \in ClientCommands
         /\ Command("donedl", n) \in ClientCommands
  <1>1. Command("nextdl", n) \in ClientCommands
    BY DEF Command, ClientCommands
  <1>2. Command("download", n) \in ClientCommands
    BY DEF Command, ClientCommands
  <1>3. Command("stopdl", n) \in ClientCommands
    BY DEF Command, ClientCommands
  <1>4. Command("donedl", n) \in ClientCommands
    BY DEF Command, ClientCommands
  <1>5. QED
    BY <1>1, <1>2, <1>3, <1>4

LEMMA PartingType ==
  /\ Parting \subseteq ClientCommands
  /\ Command("stopdl", 0) \in Parting /\ Command("donedl", 0) \in Parting
  BY CommandType DEF Parting

LEMMA AcksType ==
  ASSUME NEW a \in Nat, NEW b \in Nat, a <= b
  PROVE  /\ Acks(a, b) \in Seq(ClientCommands) /\ Len(Acks(a, b)) = b - a
         /\ \A i \in 1 .. b - a : Acks(a, b)[i] = Command("nextdl", a + i - 1)
  <1> DEFINE s == Acks(a, b)
  <1>1. s = [i \in 1 .. b - a |-> Command("nextdl", a + i - 1)]
    BY DEF Acks
  <1> HIDE DEF s
  <1>2. \A i \in 1 .. b - a : s[i] = Command("nextdl", a + i - 1)
    BY <1>1
  <1>3. \A i \in 1 .. b - a : s[i] \in ClientCommands
    <2> TAKE i \in 1 .. b - a
    <2>1. a + i - 1 \in Nat
      OBVIOUS
    <2>2. QED
      BY <1>2, <2>1, CommandType
  <1>4. s = [i \in 1 .. b - a |-> s[i]] /\ DOMAIN s = 1 .. b - a /\ b - a \in Nat
    BY <1>1
  <1>5. s \in Seq(ClientCommands)
    <2> DEFINE n == b - a
    <2>1. /\ n \in Nat /\ s = [i \in 1 .. n |-> s[i]]
          /\ \A i \in 1 .. n : s[i] \in ClientCommands
      BY <1>3, <1>4
    <2> HIDE DEF n
    <2>2. QED
      BY <2>1, IsASeq
  <1>6. Len(s) = b - a
    BY <1>4, <1>5, LenProperties
  <1>7. QED
    BY <1>2, <1>5, <1>6 DEF s

\* Acknowledgements that follow each other make one series.
LEMMA AcksConcat ==
  ASSUME NEW a \in Nat, NEW b \in Nat, NEW c \in Nat, a <= b, b <= c
  PROVE  Acks(a, b) \o Acks(b, c) = Acks(a, c)
  <1> DEFINE s == Acks(a, b)
             t == Acks(b, c)
             u == Acks(a, c)
             st == s \o t
  <1>1. /\ s \in Seq(ClientCommands) /\ Len(s) = b - a
        /\ \A i \in 1 .. b - a : s[i] = Command("nextdl", a + i - 1)
    BY AcksType
  <1>2. /\ t \in Seq(ClientCommands) /\ Len(t) = c - b
        /\ \A i \in 1 .. c - b : t[i] = Command("nextdl", b + i - 1)
    BY AcksType
  <1>3. /\ u \in Seq(ClientCommands) /\ Len(u) = c - a
        /\ \A i \in 1 .. c - a : u[i] = Command("nextdl", a + i - 1)
    BY AcksType
  <1> HIDE DEF s, t, u
  <1>4. /\ st \in Seq(ClientCommands) /\ Len(st) = Len(s) + Len(t)
        /\ \A i \in 1 .. Len(s) + Len(t) :
             st[i] = IF i <= Len(s) THEN s[i] ELSE t[i - Len(s)]
    BY <1>1, <1>2, ConcatProperties
  <1> HIDE DEF st
  <1>5. Len(st) = c - a
    BY <1>1, <1>2, <1>4
  <1>6. ASSUME NEW i \in 1 .. c - a PROVE st[i] = u[i]
    <2>1. CASE i <= b - a
      BY <1>1, <1>2, <1>3, <1>4, <2>1
    <2>2. CASE i > b - a
      <3>1. i - (b - a) \in 1 .. c - b /\ b + (i - (b - a)) - 1 = a + i - 1
        BY <2>2
      <3>2. st[i] = t[i - (b - a)]
        <4> DEFINE l == Len(s)
        <4>1. l = b - a /\ i \in 1 .. l + Len(t) /\ ~(i <= l)
          BY <1>1, <1>2, <2>2
        <4> HIDE DEF l
        <4>2. st[i] = t[i - l]
          BY <1>4, <4>1 DEF l
        <4>3. QED
          BY <4>1, <4>2
      <3>3. QED
        BY <1>2, <1>3, <3>1, <3>2
    <2>3. QED
      BY <2>1, <2>2
  <1>7. st = u
    BY <1>3, <1>4, <1>5, <1>6, SeqEqual
  <1>8. QED
    BY <1>7 DEF st, s, t, u

LEMMA AcksThen ==
  ASSUME NEW a \in Nat, NEW b \in Nat, NEW c \in Nat, a <= b, b <= c,
         NEW x \in ClientCommands
  PROVE  /\ Acks(a, b) \o (Acks(b, c) \o <<x>>) = Acks(a, c) \o <<x>>
         /\ Acks(a, c) \o <<x>> \in Seq(ClientCommands)
  <1> DEFINE s == Acks(a, b)
             t == Acks(b, c)
             u == Acks(a, c)
             v == <<x>>
  <1>1. s \in Seq(ClientCommands) /\ t \in Seq(ClientCommands)
    BY AcksType
  <1>2. s \o t = u
    BY AcksConcat
  <1>3. v \in Seq(ClientCommands)
    OBVIOUS
  <1> HIDE DEF s, t, u, v
  <1>4. (s \o t) \o v = s \o (t \o v)
    BY <1>1, <1>3, ConcatAssociative
  <1>5. u \o v \in Seq(ClientCommands)
    BY <1>1, <1>2, <1>3, ConcatProperties
  <1>6. QED
    BY <1>2, <1>4, <1>5 DEF s, t, u, v

LEMMA AcksOne ==
  ASSUME NEW a \in Nat
  PROVE  Acks(a, a + 1) = <<Command("nextdl", a)>>
  <1> DEFINE x == Command("nextdl", a)
             s == Acks(a, a + 1)
  <1>1. s \in Seq(ClientCommands) /\ Len(s) = 1 /\ s[1] = x
    <2> DEFINE b == a + 1
    <2>1. b \in Nat /\ a <= b /\ b - a = 1 /\ a + 1 - 1 = a
      OBVIOUS
    <2> HIDE DEF b
    <2>2. /\ Acks(a, b) \in Seq(ClientCommands) /\ Len(Acks(a, b)) = b - a
          /\ \A i \in 1 .. b - a : Acks(a, b)[i] = Command("nextdl", a + i - 1)
      BY <2>1, AcksType
    <2>3. Acks(a, b)[1] = Command("nextdl", a + 1 - 1)
      BY <2>1, <2>2
    <2>4. QED
      BY <2>1, <2>2, <2>3 DEF b
  <1>2. x \in ClientCommands
    BY CommandType
  <1> HIDE DEF x, s
  <1>3. s = <<x>>
    BY <1>1, <1>2, SeqEqual
  <1>4. QED
    BY <1>3 DEF x, s

LEMMA AcksAppend ==
  ASSUME NEW a \in Nat, NEW b \in Nat, a <= b
  PROVE  Append(Acks(a, b), Command("nextdl", b)) = Acks(a, b + 1)
  <1>1. Acks(a, b) \in Seq(ClientCommands) /\ Command("nextdl", b) \in ClientCommands
    BY AcksType, CommandType
  <1>2. Append(Acks(a, b), Command("nextdl", b))
          = Acks(a, b) \o <<Command("nextdl", b)>>
    BY <1>1, AppendIsConcat
  <1>3. Acks(b, b + 1) = <<Command("nextdl", b)>>
    BY AcksOne
  <1> DEFINE c == b + 1
  <1>4. c \in Nat /\ b <= c
    OBVIOUS
  <1> HIDE DEF c
  <1>5. Acks(a, b) \o Acks(b, c) = Acks(a, c)
    BY <1>4, AcksConcat
  <1>6. QED
    BY <1>2, <1>3, <1>5 DEF c

\* The server executes a series of acknowledgements one by one.
LEMMA AcksHead ==
  ASSUME NEW a \in Nat, NEW b \in Nat, a < b, NEW r \in Seq(ClientCommands)
  PROVE  LET s == Acks(a, b) \o r
         IN  /\ s # <<>> /\ Head(s) = Command("nextdl", a)
             /\ Tail(s) = Acks(a + 1, b) \o r
  <1> DEFINE x == Command("nextdl", a)
             t == Acks(a + 1, b) \o r
             s == Acks(a, b) \o r
  <1>1. a + 1 \in Nat /\ a <= a + 1 /\ a + 1 <= b
    OBVIOUS
  <1>2. Acks(a + 1, b) \in Seq(ClientCommands)
    BY <1>1, AcksType
  <1>3. x \in ClientCommands /\ <<x>> \in Seq(ClientCommands)
    BY CommandType
  <1>4. Acks(a, b) = <<x>> \o Acks(a + 1, b)
    <2>1. Acks(a, a + 1) = <<x>>
      BY AcksOne
    <2> DEFINE c == a + 1
    <2>2. c \in Nat /\ a <= c /\ c <= b
      BY <1>1
    <2> HIDE DEF c
    <2>3. Acks(a, c) \o Acks(c, b) = Acks(a, b)
      BY <2>2, AcksConcat
    <2>4. QED
      BY <2>1, <2>3 DEF c
  <1>5. t \in Seq(ClientCommands)
    BY <1>2, ConcatProperties
  <1>6. s = <<x>> \o t
    BY <1>2, <1>3, <1>4, ConcatAssociative
  <1> HIDE DEF x, s, t
  <1>7. s # <<>> /\ Head(s) = x /\ Tail(s) = t
    <2>1. /\ s \in Seq(ClientCommands) /\ Len(s) = 1 + Len(t)
          /\ \A i \in 1 .. 1 + Len(t) : s[i] = IF i <= 1 THEN <<x>>[i] ELSE t[i - 1]
      BY <1>3, <1>5, <1>6, ConcatProperties
    <2>2. Len(t) \in Nat
      BY <1>5, LenProperties
    <2>3. s # <<>>
      BY <2>1, <2>2
    <2>4. s[1] = x
      BY <2>1, <2>2
    <2>5. /\ Head(s) = s[1] /\ Tail(s) \in Seq(ClientCommands)
          /\ Len(Tail(s)) = Len(s) - 1
          /\ \A i \in 1 .. Len(Tail(s)) : Tail(s)[i] = s[i + 1]
      BY <2>1, <2>3, HeadTailProperties
    <2>6. \A i \in 1 .. Len(t) : Tail(s)[i] = t[i]
      BY <2>1, <2>2, <2>5
    <2>7. Len(Tail(s)) = Len(t)
      BY <2>1, <2>2, <2>5
    <2>8. Tail(s) = t
      BY <1>5, <2>5, <2>6, <2>7, SeqEqual
    <2>9. QED
      BY <2>3, <2>4, <2>5, <2>8
  <1>8. QED
    BY <1>7 DEF x, s, t

\* What is copied of a file grows block by block.
LEMMA PrefixProperties ==
  ASSUME NEW f \in File, NEW n \in Nat
  PROVE  /\ Transfer!Prefix(f, n) \in Seq(File \X Nat)
         /\ Len(Transfer!Prefix(f, n)) = n
         /\ Append(Transfer!Prefix(f, n), <<f, n>>) = Transfer!Prefix(f, n + 1)
  <1> DEFINE S == File \X Nat
             p == Transfer!Prefix(f, n)
             u == Transfer!Prefix(f, n + 1)
             a == Append(p, <<f, n>>)
  <1>1. ASSUME NEW m \in Nat
        PROVE  LET t == Transfer!Prefix(f, m)
               IN  t \in Seq(S) /\ Len(t) = m /\ \A k \in 1 .. m : t[k] = <<f, k - 1>>
    <2> DEFINE t == Transfer!Prefix(f, m)
    <2>1. t = [k \in 1 .. m |-> <<f, k - 1>>]
      BY DEF Transfer!Prefix
    <2> HIDE DEF t
    <2>2. \A k \in 1 .. m : t[k] = <<f, k - 1>> /\ t[k] \in S
      BY <2>1
    <2>3. t = [k \in 1 .. m |-> t[k]] /\ DOMAIN t = 1 .. m
      BY <2>1
    <2> HIDE DEF S
    <2>4. t \in Seq(S)
      BY <2>2, <2>3, IsASeq
    <2>5. Len(t) = m
      BY <2>3, <2>4, LenProperties
    <2>6. QED
      BY <2>2, <2>4, <2>5 DEF t
  <1>2. n + 1 \in Nat /\ <<f, n>> \in S
    OBVIOUS
  <1>3. p \in Seq(S) /\ Len(p) = n /\ \A k \in 1 .. n : p[k] = <<f, k - 1>>
    BY <1>1
  <1>4. u \in Seq(S) /\ Len(u) = n + 1 /\ \A k \in 1 .. n + 1 : u[k] = <<f, k - 1>>
    BY <1>1, <1>2
  <1> HIDE DEF S, p, u
  <1>5. /\ a \in Seq(S) /\ Len(a) = n + 1 /\ \A k \in 1 .. n : a[k] = p[k]
        /\ a[n + 1] = <<f, n>>
    BY <1>2, <1>3, AppendProperties
  <1> HIDE DEF a
  <1>6. ASSUME NEW k \in 1 .. n + 1 PROVE a[k] = u[k]
    <2>1. CASE k = n + 1
      BY <1>4, <1>5, <2>1
    <2>2. CASE k # n + 1
      <3>1. k \in 1 .. n
        BY <2>2
      <3>2. QED
        BY <1>3, <1>4, <1>5, <3>1
    <2>3. QED
      BY <2>1, <2>2
  <1>7. a = u
    BY <1>4, <1>5, <1>6, SeqEqual
  <1>8. QED
    BY <1>3, <1>7 DEF S, p, u, a
-----------------------------------------------------------------------------
(* What a message does to the client.                                      *)

LEMMA ParsedSame ==
  ASSUME NEW c, NEW m, Len(m) \in Nat,
         \A n \in 1 .. Len(m) : ParseBlock(c, m[n]) = c
  PROVE  Parsed(c, m) = c
  <1> DEFINE P == [n \in 0 .. Len(m) |-> {c}]
  <1>1. c \in P[0] /\ Len(m) \in 0 .. Len(m)
    OBVIOUS
  <1>2. \A n \in 1 .. Len(m) : \A d \in P[n - 1] : ParseBlock(d, m[n]) \in P[n]
    OBVIOUS
  <1>3. P[Len(m)] = {c}
    OBVIOUS
  <1> HIDE DEF P
  <1>4. Parsed(c, m) \in P[Len(m)]
    BY <1>1, <1>2, ParsedIn
  <1>5. QED
    BY <1>3, <1>4

LEMMA ContentsNotRefused ==
  ASSUME NEW x \in Contents
  PROVE  x # REFUSED
  <1>1. CASE x = EOF
    BY <1>1 DEF EOF, REFUSED
  <1>2. CASE x \in File \X Nat
    <2>1. PICK f \in File, n \in Nat : x = <<f, n>>
      BY <1>2
    <2>2. f # 0
      BY BlocksTypes
    <2>3. QED
      BY <2>1, <2>2 DEF REFUSED
  <1>3. QED
    BY <1>1, <1>2 DEF Contents

LEMMA ParsedError ==
  ASSUME NEW c, c.error, NEW m \in Message
  PROVE  Parsed(c, m) = c
  <1>1. \A n \in 1 .. Len(m) : ParseBlock(c, m[n]) = c
    BY DEF ParseBlock
  <1>2. QED
    BY <1>1, MessageDomain, ParsedSame

LEMMA ParsedUseless ==
  ASSUME NEW c \in Clients, c.block = 0, NEW m \in Message, ~HasBlock(m, 0)
  PROVE  Parsed(c, m) = c
  <1>1. Len(m) \in Nat /\ DOMAIN m = 1 .. Len(m)
    BY MessageDomain
  <1>2. m # Refusal
    BY DEF Refusal, HasBlock
  <1>3. m \in Plain
    BY <1>2 DEF Message, Plain
  <1>4. ASSUME NEW n \in 1 .. Len(m) PROVE ParseBlock(c, m[n]) = c
    <2>1. m[n].block # 0
      BY <1>1 DEF HasBlock
    <2>2. m[n].data # REFUSED
      BY <1>1, <1>3, PlainMessage, ContentsNotRefused
    <2>3. QED
      BY <2>1, <2>2 DEF ParseBlock
  <1>5. QED
    BY <1>1, <1>4, ParsedSame

LEMMA ParsedRefusal ==
  ASSUME NEW c \in Clients, ~c.error
  PROVE  Parsed(c, Refusal) = [c EXCEPT !.error = TRUE]
  <1> DEFINE e == [c EXCEPT !.error = TRUE]
             P == [n \in 0 .. 1 |-> IF n = 0 THEN {c} ELSE {e}]
  <1>1. Len(Refusal) = 1 /\ Refusal[1].data = REFUSED
    BY DEF Refusal
  <1>2. ParseBlock(c, Refusal[1]) = e
    BY <1>1 DEF ParseBlock
  <1> HIDE DEF e
  <1>3. c \in P[0] /\ P[1] = {e}
    OBVIOUS
  <1>4. \A n \in 1 .. 1 : \A d \in P[n - 1] : ParseBlock(d, Refusal[n]) \in P[n]
    BY <1>2
  <1> HIDE DEF P
  <1>5. \A n \in 1 .. Len(Refusal) :
          \A d \in P[n - 1] : ParseBlock(d, Refusal[n]) \in P[n]
    BY <1>1, <1>4
  <1>6. Len(Refusal) \in Nat
    BY <1>1
  <1>7. Parsed(c, Refusal) \in P[Len(Refusal)]
    BY <1>3, <1>5, <1>6, ParsedIn
  <1>8. QED
    BY <1>1, <1>3, <1>7 DEF e

\* A client that wants nothing more, or has given up its last file.
Parted(c, d) ==
  /\ d \in Clients
  /\ d.name = Nothing
  /\ d.block = c.block
  /\ d.copied = c.copied
  /\ d.unwritable = c.unwritable
  /\ d.out \in Seq(Parting)

LEMMA StoppedParts ==
  ASSUME NEW c, NEW d, Parted(c, d)
  PROVE  Parted(c, Stopped(d))
  <1>1. d.out \in Seq(Parting) /\ d \in Clients
    BY DEF Parted
  <1> DEFINE out == Append(d.out, Command("stopdl", 0))
             e == [d EXCEPT !.out = out]
  <1>2. out \in Seq(Parting)
    BY <1>1, PartingType, AppendProperties
  <1>3. out \in Seq(ClientCommands)
    BY <1>2, PartingType, SeqMonotonic
  <1>4. Stopped(d) = e
    BY DEF Stopped
  <1> HIDE DEF out
  <1>5. e \in Clients
    BY <1>1, <1>3 DEF Clients
  <1>6. /\ e.name = d.name /\ e.block = d.block /\ e.copied = d.copied
        /\ e.unwritable = d.unwritable /\ e.out = out
    BY <1>1 DEF Clients
  <1> HIDE DEF e
  <1>7. Parted(c, e)
    BY <1>2, <1>5, <1>6 DEF Parted
  <1>8. QED
    BY <1>4, <1>7

LEMMA ParseParts ==
  ASSUME NEW c, NEW d, Parted(c, d), NEW b
  PROVE  Parted(c, ParseBlock(d, b))
  <1>1. d \in Clients /\ d.name = Nothing
    BY DEF Parted
  <1>2. Parted(c, [d EXCEPT !.error = TRUE])
    <2> DEFINE e == [d EXCEPT !.error = TRUE]
    <2>1. /\ e.name = d.name /\ e.block = d.block /\ e.copied = d.copied
          /\ e.unwritable = d.unwritable /\ e.out = d.out
      BY <1>1 DEF Clients
    <2>2. e \in Clients
      BY <1>1 DEF Clients
    <2> HIDE DEF e
    <2>3. Parted(c, e)
      BY <2>1, <2>2 DEF Parted
    <2>4. QED
      BY <2>3 DEF e
  <1>3. Parted(c, Stopped(d))
    BY StoppedParts
  <1>4. ParseBlock(d, b) \in {d, [d EXCEPT !.error = TRUE], Stopped(d)}
    BY <1>1 DEF ParseBlock
  <1>5. QED
    BY <1>2, <1>3, <1>4

LEMMA ParsedFinished ==
  ASSUME NEW c \in Clients, c.name = Nothing, c.out = <<>>, NEW m \in Message
  PROVE  Parted(c, Parsed(c, m))
  <1> DEFINE S == {d \in Clients : Parted(c, d)}
             P == [n \in 0 .. Len(m) |-> S]
  <1>1. Len(m) \in Nat
    BY MessageDomain
  <1>2. Parted(c, c)
    BY EmptySeq DEF Parted
  <1>3. c \in P[0] /\ P[Len(m)] = S
    BY <1>1, <1>2
  <1>4. \A n \in 1 .. Len(m) : \A d \in P[n - 1] : ParseBlock(d, m[n]) \in P[n]
    <2> TAKE n \in 1 .. Len(m)
    <2>1. P[n - 1] = S /\ P[n] = S
      BY <1>1
    <2>2. ASSUME NEW d \in S PROVE ParseBlock(d, m[n]) \in S
      <3>1. Parted(c, ParseBlock(d, m[n]))
        BY <2>2, ParseParts
      <3>2. QED
        BY <3>1 DEF Parted
    <2> HIDE DEF S, P
    <2>3. QED
      BY <2>1, <2>2
  <1> HIDE DEF P
  <1>5. Parsed(c, m) \in S
    BY <1>1, <1>3, <1>4, ParsedIn
  <1>6. QED
    BY <1>5

\* The last file cannot be created: it is given up at its first block.
LEMMA ParsedUnwritable ==
  ASSUME NEW c \in Clients, ~c.error, c.name \in File, c.name \in c.unwritable,
         c.block = 0, c.out = <<>>, NEW m \in Plain
  PROVE  Parsed(c, m) = c \/ Parted(c, Parsed(c, m))
  <1> DEFINE S == {c} \cup {d \in Clients : Parted(c, d)}
             P == [n \in 0 .. Len(m) |-> S]
  <1>1. Len(m) \in Nat
    BY PlainMessage
  <1>2. c.name + 1 = Nothing /\ ~(c.name + 1 \in File) /\ c.name # Nothing
    <2>1. c.unwritable \subseteq {Len(Blocks)}
      BY DEF Clients
    <2>2. QED
      BY <2>1, BlocksTypes DEF Nothing
  <1>3. c \in P[0] /\ P[Len(m)] = S
    BY <1>1
  <1>4. Parted(c, NextFile(Stopped(c)))
    <2> DEFINE e == Stopped(c)
               o1 == Append(<<>>, Command("stopdl", 0))
               o2 == Append(o1, Command("donedl", 0))
               g == [e EXCEPT !.name = Nothing, !.out = o2]
    <2>1. o1 \in Seq(Parting) /\ o2 \in Seq(Parting)
      <3>1. o1 \in Seq(Parting)
        BY PartingType, EmptySeq, AppendProperties
      <3> HIDE DEF o1
      <3>2. QED
        BY <3>1, PartingType, AppendProperties
    <2>2. o2 \in Seq(ClientCommands) /\ o1 \in Seq(ClientCommands)
      BY <2>1, PartingType, SeqMonotonic
    <2>3. e = [c EXCEPT !.out = o1]
      BY DEF Stopped
    <2> HIDE DEF e, o1
    <2>4. e \in Clients /\ e.out = o1 /\ e.name = c.name
      BY <2>2, <2>3 DEF Clients
    <2>5. e.block = c.block /\ e.copied = c.copied /\ e.unwritable = c.unwritable
      BY <2>3 DEF Clients
    <2>6. NextFile(e) = g
      BY <1>2, <2>4 DEF NextFile
    <2> HIDE DEF o2
    <2>7. g \in Clients
      BY <2>2, <2>4 DEF Clients
    <2>8. /\ g.name = Nothing /\ g.block = e.block /\ g.copied = e.copied
          /\ g.unwritable = e.unwritable /\ g.out = o2
      BY <2>4 DEF Clients
    <2> HIDE DEF g
    <2>9. Parted(c, g)
      BY <2>1, <2>5, <2>7, <2>8 DEF Parted
    <2>10. QED
      BY <2>6, <2>9 DEF e
  <1>5. \A n \in 1 .. Len(m) : \A d \in P[n - 1] : ParseBlock(d, m[n]) \in P[n]
    <2> TAKE n \in 1 .. Len(m)
    <2>1. P[n - 1] = S /\ P[n] = S
      BY <1>1
    <2>2. ASSUME NEW d \in S PROVE ParseBlock(d, m[n]) \in S
      <3>1. CASE d = c
        <4>1. m[n].data # REFUSED
          BY PlainMessage, ContentsNotRefused
        <4>2. ParseBlock(c, m[n]) \in {c, NextFile(Stopped(c))}
          BY <1>2, <4>1 DEF ParseBlock, Accepted
        <4>3. NextFile(Stopped(c)) \in Clients
          BY <1>4 DEF Parted
        <4>4. QED
          BY <1>4, <3>1, <4>2, <4>3
      <3>2. CASE Parted(c, d)
        <4>1. Parted(c, ParseBlock(d, m[n]))
          BY <3>2, ParseParts
        <4>2. QED
          BY <4>1 DEF Parted
      <3>3. QED
        BY <2>2, <3>1, <3>2
    <2> HIDE DEF S, P
    <2>3. QED
      BY <2>1, <2>2
  <1> HIDE DEF P
  <1>6. Parsed(c, m) \in S
    BY <1>1, <1>3, <1>5, ParsedIn
  <1>7. QED
    BY <1>6

\* The client has taken some more blocks of its file.
Took(s, c, d) ==
  /\ d \in Clients
  /\ ~d.error
  /\ d.name = c.name
  /\ d.unwritable = c.unwritable
  /\ d.block \in c.block .. s.currentBlock
  /\ d.block <= Blocks[c.name]
  /\ d.copied = [c.copied EXCEPT ![c.name] = Transfer!Prefix(c.name, d.block)]
  /\ d.out = Acks(c.block, d.block)

\* The client has taken the last block of its file.
Completed(s, c, m, d) ==
  /\ d \in Clients
  /\ ~d.error
  /\ d.unwritable = c.unwritable
  /\ s.currentBlock = Blocks[c.name] + 1
  /\ Blocks[c.name] <= ShortMax
  /\ HasBlock(m, Blocks[c.name])
  /\ d.copied = [c.copied EXCEPT
                   ![c.name] = Transfer!Prefix(c.name, Blocks[c.name])]
  /\ \/ /\ c.name < Len(Blocks)
        /\ d.name = c.name + 1
        /\ d.block = 0
        /\ d.out = Acks(c.block, Blocks[c.name] + 1)
                     \o <<Command("download", c.name + 1)>>
     \/ /\ d.name = Nothing
        /\ d.block = Blocks[c.name] + 1
        /\ c.name + 1 = Nothing
        /\ d.out = Acks(c.block, Blocks[c.name] + 1) \o <<Command("donedl", 0)>>

\* The server has the file of the client open, and it can be created.
Serving(s, c) ==
  /\ s \in Servers
  /\ c \in Clients
  /\ ClientInv(c)
  /\ ~c.error
  /\ c.out = <<>>
  /\ c.name \in File
  /\ c.name \notin c.unwritable
  /\ s.name = c.name
  /\ s.currentBlock <= Blocks[c.name] + 1
  /\ s.currentBlock <= c.block + MAX_DOWNLOAD_WINDOW
  /\ c.block <= s.currentBlock

LEMMA ServingNumbers ==
  ASSUME NEW s, NEW c, Serving(s, c)
  PROVE  /\ s.currentBlock \in Nat /\ c.block \in 0 .. ShortMax + 1
         /\ Blocks[c.name] \in Nat \ {0} /\ c.block <= Blocks[c.name]
         /\ c.name \in Nat /\ c.name <= Len(Blocks) /\ c.name # Nothing
         /\ s.currentBlock <= 2 * ShortMax + 2
  <1>1. s.currentBlock \in Nat /\ c.block \in 0 .. ShortMax + 1 /\ c.name \in File
    BY DEF Serving, Servers, Clients
  <1>2. /\ Blocks[c.name] \in Nat \ {0} /\ c.name \in Nat /\ c.name <= Len(Blocks)
        /\ c.name # Nothing
    BY <1>1, BlocksTypes
  <1>3. c.block <= Blocks[c.name]
    BY <1>1 DEF Serving, ClientInv
  <1>4. s.currentBlock <= c.block + MAX_DOWNLOAD_WINDOW
    BY DEF Serving
  <1>5. QED
    BY <1>1, <1>2, <1>3, <1>4

LEMMA TookNothing ==
  ASSUME NEW s, NEW c, Serving(s, c)
  PROVE  Took(s, c, c)
  <1>1. /\ c \in Clients /\ ~c.error /\ c.name \in File /\ c.out = <<>>
        /\ c.block <= s.currentBlock
    BY DEF Serving
  <1>2. c.block <= Blocks[c.name] /\ c.copied[c.name] = Transfer!Prefix(c.name, c.block)
    BY <1>1 DEF Serving, ClientInv
  <1>3. c.copied \in [File -> Seq(File \X Nat)]
    BY <1>1 DEF Clients
  <1>4. c.copied = [c.copied EXCEPT ![c.name] = Transfer!Prefix(c.name, c.block)]
    BY <1>1, <1>2, <1>3
  <1>5. c.block \in c.block .. s.currentBlock /\ c.block \in Int
    BY <1>1, ServingNumbers
  <1>6. c.out = Acks(c.block, c.block)
    BY <1>1, <1>5, NoAcks
  <1>7. QED
    BY <1>1, <1>2, <1>4, <1>5, <1>6 DEF Took

\* The block expected is the next one of the file.
LEMMA TakesBlock ==
  ASSUME NEW s, NEW c, Serving(s, c), NEW d, Took(s, c, d), NEW b,
         b.data = Block(c.name, d.block), d.block < s.currentBlock, d.block <= ShortMax,
         NEW m, HasBlock(m, d.block)
  PROVE  \/ Took(s, c, Accepted(d, b))
         \/ d.block = Blocks[c.name] /\ Completed(s, c, m, Accepted(d, b))
  <1>1. /\ d \in Clients /\ ~d.error /\ d.name = c.name
        /\ d.unwritable = c.unwritable /\ d.block \in c.block .. s.currentBlock
        /\ d.block <= Blocks[c.name] /\ d.out = Acks(c.block, d.block)
    BY DEF Took
  <1>2. d.copied = [c.copied EXCEPT ![c.name] = Transfer!Prefix(c.name, d.block)]
    BY DEF Took
  <1>3. /\ s.currentBlock \in Nat /\ c.block \in Nat /\ Blocks[c.name] \in Nat
        /\ c.block <= Blocks[c.name] /\ c.name \in Nat /\ c.name <= Len(Blocks)
        /\ c.name \in File /\ c.name \notin c.unwritable
        /\ c.copied \in [File -> Seq(File \X Nat)]
        /\ s.currentBlock <= Blocks[c.name] + 1
    <2>1. /\ s.currentBlock \in Nat /\ c.block \in Nat /\ Blocks[c.name] \in Nat
          /\ c.block <= Blocks[c.name] /\ c.name \in Nat /\ c.name <= Len(Blocks)
      BY ServingNumbers
    <2>2. /\ c.name \in File /\ c.name \notin c.unwritable /\ c \in Clients
          /\ s.currentBlock <= Blocks[c.name] + 1
      BY DEF Serving
    <2>3. c.copied \in [File -> Seq(File \X Nat)]
      BY <2>2 DEF Clients
    <2>4. QED
      BY <2>1, <2>2, <2>3
  <1> DEFINE k == d.block
             out == Append(d.out, Command("nextdl", k))
             acked == [d EXCEPT !.block = k + 1, !.out = out]
  <1>4. k \in Nat /\ k + 1 \in Nat /\ c.block <= k
    BY <1>1, <1>3
  <1>5. out = Acks(c.block, k + 1) /\ out \in Seq(ClientCommands)
    <2>1. out = Acks(c.block, k + 1)
      BY <1>1, <1>3, <1>4, AcksAppend
    <2> DEFINE n == k + 1
    <2>2. n \in Nat /\ c.block <= n
      BY <1>3, <1>4
    <2> HIDE DEF n
    <2>3. Acks(c.block, n) \in Seq(ClientCommands)
      BY <1>3, <2>2, AcksType
    <2>4. QED
      BY <2>1, <2>3 DEF n
  <1>6. k + 1 \in 0 .. ShortMax + 1
    BY <1>4
  <1> HIDE DEF out
  <1>7. acked \in Clients
    BY <1>1, <1>5, <1>6 DEF Clients
  <1>8. /\ acked.name = c.name /\ acked.block = k + 1 /\ acked.out = out
        /\ acked.copied = d.copied /\ acked.unwritable = c.unwritable
    BY <1>1 DEF Clients
  <1>9. ~acked.error
    BY <1>1 DEF Clients
  <1>10. Accepted(d, b) = IF b.data = EOF THEN NextFile(acked)
                          ELSE [acked EXCEPT !.copied[d.name] = Append(@, b.data)]
    BY <1>1, <1>3 DEF Accepted, out
  <1> HIDE DEF acked
  <1>11. CASE k < Blocks[c.name]
    <2> DEFINE x == <<c.name, k>>
               copied == [d.copied EXCEPT ![c.name] = Append(@, x)]
               e == [acked EXCEPT !.copied[c.name] = Append(@, x)]
    <2>1. b.data = x /\ x # EOF
      <3>1. b.data = x /\ ~(b.data = EOF)
        BY <1>3, <1>4, <1>11, BlockContents
      <3>2. QED
        BY <3>1
    <2>2. Accepted(d, b) = e
      BY <1>1, <1>10, <2>1
    <2>3. e = [acked EXCEPT !.copied = copied]
      BY <1>7, <1>8 DEF Clients
    <2>4. copied = [c.copied EXCEPT ![c.name] = Transfer!Prefix(c.name, k + 1)]
      <3>1. d.copied[c.name] = Transfer!Prefix(c.name, k)
        BY <1>2, <1>3
      <3>2. Append(d.copied[c.name], x) = Transfer!Prefix(c.name, k + 1)
        BY <1>3, <1>4, <3>1, PrefixProperties
      <3>3. QED
        BY <1>2, <1>3, <3>2
    <2>5. copied \in [File -> Seq(File \X Nat)]
      <3>1. Transfer!Prefix(c.name, k + 1) \in Seq(File \X Nat)
        BY <1>3, <1>4, PrefixProperties
      <3> HIDE DEF copied
      <3>2. QED
        BY <1>3, <2>4, <3>1
    <2> HIDE DEF copied, e
    <2>6. e \in Clients
      BY <1>7, <2>3, <2>5 DEF Clients
    <2>7. /\ e.name = acked.name /\ e.block = acked.block /\ e.out = acked.out
          /\ e.copied = copied /\ e.unwritable = acked.unwritable
      BY <1>7, <2>3 DEF Clients
    <2>8. ~e.error
      BY <1>7, <1>9, <2>3 DEF Clients
    <2>9. k + 1 \in c.block .. s.currentBlock /\ k + 1 <= Blocks[c.name]
      <3> DEFINE low == c.block
                 high == s.currentBlock
                 size == Blocks[c.name]
      <3>1. /\ low \in Int /\ high \in Int /\ size \in Int /\ k \in Int
            /\ low <= k /\ k < high /\ k < size
        BY <1>3, <1>4, <1>11
      <3> HIDE DEF low, high, size
      <3>2. k + 1 \in low .. high /\ k + 1 <= size
        BY <3>1
      <3>3. QED
        BY <3>2 DEF low, high, size
    <2>10. Took(s, c, e)
      BY <1>5, <1>8, <2>4, <2>6, <2>7, <2>8, <2>9 DEF Took
    <2>11. QED
      BY <2>2, <2>10
  <1>12. CASE k = Blocks[c.name]
    <2>1. Accepted(d, b) = NextFile(acked)
      <3>1. b.data = EOF
        BY <1>3, <1>4, <1>12, BlockContents
      <3>2. QED
        BY <1>10, <3>1
    <2>2. /\ s.currentBlock = Blocks[c.name] + 1 /\ Blocks[c.name] <= ShortMax
          /\ HasBlock(m, Blocks[c.name])
      BY <1>3, <1>4, <1>12
    <2>3. d.copied = [c.copied EXCEPT
                        ![c.name] = Transfer!Prefix(c.name, Blocks[c.name])]
      BY <1>2, <1>12
    <2>4. CASE c.name < Len(Blocks)
      <3> DEFINE o2 == Append(out, Command("download", c.name + 1))
                 e == [acked EXCEPT !.name = c.name + 1, !.block = 0, !.out = o2]
      <3>1. c.name + 1 \in File /\ c.name + 1 \in Nat
        <4> DEFINE f == c.name
                   len == Len(Blocks)
        <4>1. f \in Nat /\ f < len /\ len \in Nat /\ File = 1 .. len
          BY <1>3, <2>4, BlocksTypes
        <4> HIDE DEF f, len
        <4>2. f + 1 \in File /\ f + 1 \in Nat
          BY <4>1
        <4>3. QED
          BY <4>2 DEF f
      <3>2. NextFile(acked) = e
        BY <1>8, <3>1 DEF NextFile
      <3>3. /\ o2 = out \o <<Command("download", c.name + 1)>>
            /\ o2 \in Seq(ClientCommands)
        BY <1>5, <3>1, CommandType, AppendIsConcat, AppendProperties
      <3> HIDE DEF o2
      <3>4. e \in Clients
        <4> DEFINE f == c.name + 1
        <4>1. e = [acked EXCEPT !.name = f, !.block = 0, !.out = o2]
          OBVIOUS
        <4>2. f \in File /\ 0 \in 0 .. ShortMax + 1
          BY <3>1
        <4> HIDE DEF f, e
        <4>3. QED
          BY <1>7, <3>3, <4>1, <4>2 DEF Clients
      <3>5. /\ e.name = c.name + 1 /\ e.block = 0 /\ e.out = o2
            /\ e.copied = acked.copied /\ e.unwritable = acked.unwritable
        BY <1>7 DEF Clients
      <3>6. ~e.error
        BY <1>7, <1>9, SMTT(20) DEF Clients
      <3> HIDE DEF e
      <3>7. Completed(s, c, m, e)
        BY <1>5, <1>8, <1>12, <2>2, <2>3, <2>4, <3>3, <3>4, <3>5, <3>6 DEF Completed
      <3>8. QED
        BY <1>12, <2>1, <3>2, <3>7
    <2>5. CASE ~(c.name < Len(Blocks))
      <3> DEFINE o2 == Append(out, Command("donedl", 0))
                 e == [acked EXCEPT !.name = Nothing, !.out = o2]
      <3>1. ~(c.name + 1 \in File) /\ c.name + 1 = Nothing
        BY <1>3, <2>5, BlocksTypes DEF Nothing
      <3>2. NextFile(acked) = e
        BY <1>8, <3>1 DEF NextFile
      <3>3. /\ o2 = out \o <<Command("donedl", 0)>>
            /\ o2 \in Seq(ClientCommands)
        BY <1>5, CommandType, AppendIsConcat, AppendProperties
      <3> HIDE DEF o2
      <3>4. e \in Clients
        BY <1>7, <3>3 DEF Clients
      <3>5. /\ e.name = Nothing /\ e.block = acked.block /\ e.out = o2
            /\ e.copied = acked.copied /\ e.unwritable = acked.unwritable
        BY <1>7 DEF Clients
      <3>6. ~e.error
        BY <1>7, <1>9 DEF Clients
      <3> HIDE DEF e
      <3>7. Completed(s, c, m, e)
        BY <1>5, <1>8, <1>12, <2>2, <2>3, <3>1, <3>3, <3>4, <3>5, <3>6 DEF Completed
      <3>8. QED
        BY <1>12, <2>1, <3>2, <3>7
    <2>6. QED
      BY <2>4, <2>5
  <1>13. QED
    BY <1>1, <1>3, <1>4, <1>11, <1>12

\* A message of the client's file gets it further, or completes it.
LEMMA ParsedCopies ==
  ASSUME NEW s, NEW c, Serving(s, c), NEW m \in Plain, OfFile(s, c, m)
  PROVE  Took(s, c, Parsed(c, m)) \/ Completed(s, c, m, Parsed(c, m))
  <1>1. PICK first \in Nat :
          /\ first + Len(m) <= s.currentBlock
          /\ \A e \in DOMAIN m :
               /\ m[e].block = Short(first + e - 1)
               /\ first + e - 1 >= c.block => m[e].data = Block(c.name, first + e - 1)
    BY DEF OfFile, Serving
  <1>2. Len(m) \in Nat /\ DOMAIN m = 1 .. Len(m)
    BY PlainMessage
  <1>3. /\ s.currentBlock \in Nat /\ c.block \in 0 .. ShortMax + 1
        /\ Blocks[c.name] \in Nat /\ s.currentBlock <= 2 * ShortMax + 2
        /\ c.name # Nothing
    BY ServingNumbers
  <1>4. ASSUME NEW n \in 1 .. Len(m), NEW d, Took(s, c, d)
        PROVE  \/ Took(s, c, ParseBlock(d, m[n]))
               \/ n = Len(m) /\ Completed(s, c, m, ParseBlock(d, m[n]))
    <2>1. /\ d \in Clients /\ ~d.error /\ d.name = c.name
          /\ d.block \in c.block .. s.currentBlock
      BY <1>4 DEF Took
    <2>2. m[n].data # REFUSED
      BY <1>2, PlainMessage, ContentsNotRefused
    <2>3. CASE m[n].block # d.block
      BY <1>4, <2>1, <2>2, <2>3 DEF ParseBlock
    <2>4. CASE m[n].block = d.block
      <3> DEFINE k == first + n - 1
      <3>1. ParseBlock(d, m[n]) = Accepted(d, m[n])
        BY <1>3, <2>1, <2>2, <2>4 DEF ParseBlock
      <3>2. k \in 0 .. 2 * ShortMax + 1 /\ k < s.currentBlock
        BY <1>1, <1>2, <1>3
      <3>3. Short(k) = d.block /\ d.block \in Nat
        <4>1. m[n].block = Short(k)
          BY <1>1, <1>2
        <4>2. d.block \in Nat
          BY <1>3, <2>1
        <4>3. QED
          BY <2>4, <4>1, <4>2
      <3>4. k >= c.block => m[n].data = Block(c.name, k)
        BY <1>1, <1>2
      <3>5. k = Blocks[c.name] => n = Len(m)
        <4>1. s.currentBlock <= Blocks[c.name] + 1
          BY DEF Serving
        <4>2. first + Len(m) <= s.currentBlock
          BY <1>1
        <4>3. first + Len(m) <= Blocks[c.name] + 1
          BY <1>2, <1>3, <4>1, <4>2
        <4> DEFINE size == Blocks[c.name]
                   len == Len(m)
        <4>4. size \in Nat /\ len \in Nat /\ n \in 1 .. len /\ first + len <= size + 1
          BY <1>2, <1>3, <4>3
        <4> HIDE DEF size, len
        <4>5. k = size => n = len
          BY <4>4
        <4>6. QED
          BY <4>5 DEF size, len
      <3> HIDE DEF k
      <3>6. k = d.block /\ k <= ShortMax
        BY <3>2, <3>3, ShortExact
      <3>7. m[n].data = Block(c.name, d.block)
        BY <1>3, <2>1, <3>4, <3>6
      <3>8. HasBlock(m, d.block)
        BY <1>2, <2>4 DEF HasBlock
      <3>9. \/ Took(s, c, Accepted(d, m[n]))
            \/ d.block = Blocks[c.name] /\ Completed(s, c, m, Accepted(d, m[n]))
        BY <1>4, <3>2, <3>6, <3>7, <3>8, TakesBlock
      <3>10. QED
        BY <3>1, <3>5, <3>6, <3>9
    <2>5. QED
      BY <2>3, <2>4
  <1> DEFINE Mid == {d \in Clients : Took(s, c, d)}
             Last == {d \in Clients : Completed(s, c, m, d)}
             P == [n \in 0 .. Len(m) |-> IF n = Len(m) THEN Mid \cup Last ELSE Mid]
  <1>5. c \in P[0]
    <2>1. c \in Mid
      BY TookNothing DEF Serving
    <2> HIDE DEF Mid, Last
    <2>2. QED
      BY <1>2, <2>1
  <1>6. \A n \in 1 .. Len(m) : \A d \in P[n - 1] : ParseBlock(d, m[n]) \in P[n]
    <2> TAKE n \in 1 .. Len(m)
    <2>1. P[n - 1] = Mid /\ P[n] = IF n = Len(m) THEN Mid \cup Last ELSE Mid
      <3> HIDE DEF Mid, Last
      <3>1. n - 1 \in 0 .. Len(m) /\ n - 1 # Len(m) /\ n \in 0 .. Len(m)
        BY <1>2
      <3>2. QED
        BY <3>1
    <2>2. ASSUME NEW d \in Mid PROVE ParseBlock(d, m[n]) \in P[n]
      <3>1. \/ Took(s, c, ParseBlock(d, m[n]))
            \/ n = Len(m) /\ Completed(s, c, m, ParseBlock(d, m[n]))
        BY <1>4
      <3>2. \/ ParseBlock(d, m[n]) \in Mid
            \/ n = Len(m) /\ ParseBlock(d, m[n]) \in Last
        BY <3>1 DEF Took, Completed
      <3> HIDE DEF Mid, Last, P
      <3>3. QED
        BY <2>1, <3>2
    <2> HIDE DEF Mid, Last, P
    <2>3. QED
      BY <2>1, <2>2
  <1>7. P[Len(m)] = Mid \cup Last
    BY <1>2
  <1> HIDE DEF P
  <1>8. Parsed(c, m) \in Mid \cup Last
    BY <1>2, <1>5, <1>6, <1>7, ParsedIn
  <1>9. QED
    BY <1>8
-----------------------------------------------------------------------------
(* Every step preserves the invariant.                                     *)

LEMMA InFlightShape ==
  ASSUME down \in Seq(Message), NEW m \in Message
  PROVE  \E q \in Seq(Message) :
           /\ InFlight(m) = Append(q, m)
           /\ \A s, c, cmds :
                DownInv(s, c, cmds, down) => DownInv(s, c, cmds, q)
  <1>1. CASE Len(down) < MaxInFlight
    BY <1>1 DEF InFlight
  <1>2. CASE ~(Len(down) < MaxInFlight)
    <2>1. Len(down) \in Nat /\ 1 \in 1 .. Len(down) /\ down # <<>>
      BY <1>2, LenProperties
    <2> DEFINE q == SubSeq(down, 1 + 1, Len(down))
    <2>2. Tail(down) = q
      BY <2>1, TailIsSubSeq
    <2>3. q \in Seq(Message)
      BY <2>1, Suffix
    <2>4. \A s, c, cmds : DownInv(s, c, cmds, down) => DownInv(s, c, cmds, q)
      BY <2>1, SuffixDown
    <2> HIDE DEF q
    <2>5. QED
      BY <1>2, <2>2, <2>3, <2>4 DEF InFlight
  <1>3. QED
    BY <1>1, <1>2

LEMMA WriteStep ==
  ASSUME IInv, NEW expired, NEW n \in 1 .. BlocksPerSnap,
         SV_WriteDownloadToClient(expired, n)
  PROVE  IInv'
  <1>1. TypesInv /\ ServerInv(server, window) /\ ClientInv(client)
    BY DEF IInv
  <1>2. PICK first, m : /\ Writes(server, server', window', first, m)
                        /\ down' = InFlight(m)
                        /\ UNCHANGED <<client, commands>>
    BY <1>1, WriteEffect
  <1>3. /\ server' \in Servers /\ window' \in [Places -> Contents]
        /\ ServerInv(server', window') /\ server'.broken = server.broken /\ m \in Plain
    BY <1>2 DEF Writes
  <1>4. m \in Message
    BY <1>3, PlainMessage
  <1>5. /\ server \in Servers /\ client \in Clients /\ down \in Seq(Message)
        /\ client.out = <<>> /\ commands \in Seq(ClientCommands)
    BY <1>1 DEF TypesInv
  <1>6. PICK q \in Seq(Message) :
           /\ InFlight(m) = Append(q, m)
           /\ \A s, c, cmds : DownInv(s, c, cmds, down) => DownInv(s, c, cmds, q)
    BY <1>4, <1>5, InFlightShape
  <1>7. down' \in Seq(Message)
    BY <1>2, <1>4, <1>6, AppendProperties
  <1>8. TypesInv'
    BY <1>2, <1>3, <1>5, <1>7 DEF TypesInv, Places
  <1>9. ASSUME ~client.error
        PROVE  /\ Agreement(server', client, commands)
               /\ DownInv(server', client, commands, down')
    <2>1. Agreement(server, client, commands)
      BY <1>9 DEF IInv
    <2>2. DownInv(server, client, commands, q)
      BY <1>6, <1>9 DEF IInv
    <2>3. Agreement(server', client, commands)
      BY <1>1, <1>2, <1>5, <2>1, WriteAgreement
    <2>4. DownInv(server', client, commands, Append(q, m))
      BY <1>1, <1>2, <1>5, <2>1, <2>2, WriteDown
    <2>5. QED
      BY <1>2, <1>6, <2>3, <2>4
  <1>10. client' = client /\ commands' = commands
    BY <1>2
  <1>11. QED
    BY <1>1, <1>3, <1>8, <1>9, <1>10 DEF IInv

LEMMA ClosedServer ==
  ASSUME NEW s \in Servers, NEW win, ServerInv(s, win), NEW f \in File \cup {NoFile}
  PROVE  LET t == [Closed(s) EXCEPT !.name = f]
         IN  /\ t \in Servers /\ ServerInv(t, win) /\ ~t.open /\ t.name = f
             /\ t.broken = s.broken /\ t.refused = s.refused
             /\ f = NoFile => Closed(s) = t
  <1> DEFINE t == [Closed(s) EXCEPT !.name = f]
  <1>1. t = [s EXCEPT !.open = FALSE, !.name = f]
    BY DEF Closed, Servers
  <1>2. f = NoFile => Closed(s) = t
    BY DEF Closed, Servers
  <1> HIDE DEF t
  <1>3. t \in Servers
    BY <1>1 DEF Servers
  <1>4. /\ t.name = f /\ t.refused = s.refused /\ t.currentBlock = s.currentBlock
        /\ t.clientBlock = s.clientBlock /\ t.xmitBlock = s.xmitBlock
    BY <1>1 DEF Servers
  <1>5. ~t.open
    BY <1>1 DEF Servers
  <1>6. t.broken = s.broken
    BY <1>1 DEF Servers
  <1>7. ServerInv(t, win)
    BY <1>4, <1>5 DEF ServerInv
  <1>8. QED
    BY <1>2, <1>3, <1>4, <1>5, <1>6, <1>7 DEF t

\* A refusal is sent when the client waits for a file the server refuses.
LEMMA RefuseStep ==
  ASSUME IInv, SV_RefuseDownload
  PROVE  IInv'
  <1>1. /\ server.name \in server.refused
        /\ server' = [server EXCEPT !.name = NoFile]
        /\ down' = InFlight(Refusal)
        /\ window' = window /\ client' = client /\ commands' = commands
    BY DEF SV_RefuseDownload, Refusal
  <1>2. /\ server \in Servers /\ window \in [Places -> Contents] /\ client \in Clients
        /\ down \in Seq(Message) /\ client.out = <<>> /\ commands \in Seq(ClientCommands)
        /\ ServerInv(server, window) /\ ClientInv(client) /\ ~server.broken
    BY DEF IInv, TypesInv, Places
  <1>3. ~server.open
    BY <1>1, <1>2, ServerNumbers
  <1> DEFINE t == [server EXCEPT !.name = NoFile]
  <1>4. /\ t \in Servers /\ t.name = NoFile /\ t.refused = server.refused
        /\ t.currentBlock = server.currentBlock /\ t.clientBlock = server.clientBlock
        /\ t.xmitBlock = server.xmitBlock
    BY <1>2 DEF Servers
  <1>5. ~t.open
    BY <1>2, <1>3 DEF Servers
  <1>6. ~t.broken
    BY <1>2 DEF Servers
  <1> HIDE DEF t
  <1>7. ServerInv(t, window)
    BY <1>2, <1>4, <1>5 DEF ServerInv
  <1>8. Refusal \in Message
    BY DEF Message
  <1>9. PICK q \in Seq(Message) :
           /\ InFlight(Refusal) = Append(q, Refusal)
           /\ \A s, c, cmds : DownInv(s, c, cmds, down) => DownInv(s, c, cmds, q)
    BY <1>2, <1>8, InFlightShape
  <1>10. Append(q, Refusal) \in Seq(Message)
    BY <1>8, AppendProperties
  <1>11. ASSUME ~client.error
         PROVE  /\ Agreement(t, client, commands)
                /\ DownInv(t, client, commands, Append(q, Refusal))
    <2>1. Agreement(server, client, commands)
      BY <1>11 DEF IInv
    <2>2. DownInv(server, client, commands, q)
      BY <1>9, <1>11 DEF IInv
    <2>3. server.name # NoFile
      <3>1. server.refused \subseteq File
        BY <1>2 DEF Servers
      <3>2. QED
        BY <1>1, <3>1, BlocksTypes
    <2>4. CASE client.name = Nothing
      <3>1. client.name \notin File
        BY <2>4, BlocksTypes
      <3>2. Finishing(server, client, commands)
        BY <2>1, <3>1 DEF Agreement, Copying, Asked, Asking, AskingNext
      <3>3. \E rest \in Seq(Parting) : commands = rest
        BY <1>3, <3>2 DEF Finishing, LeavingFile
      <3>4. Finishing(t, client, commands)
        BY <2>4, <3>3 DEF Finishing
      <3>5. QED
        BY <3>1, <3>4 DEF Agreement, DownInv
    <2>5. CASE client.name # Nothing
      <3>1. Asked(server, client, commands)
        BY <1>3, <2>1, <2>3, <2>5
        DEF Agreement, Copying, Asking, AskingNext, Finishing, LeavingFile
      <3>2. server.name = client.name /\ commands = <<>> /\ client.name \in File
        BY <2>3, <3>1 DEF Asked
      <3>3. Asked(t, client, commands)
        BY <1>1, <1>4, <1>5, <3>1, <3>2 DEF Asked
      <3>4. \A j \in DOMAIN q : ~Live(client, q, j)
        BY <1>1, <2>2, <2>3, <3>2 DEF DownInv
      <3>5. DownInv(t, client, commands, q)
        BY <3>4 DEF DownInv
      <3>6. DownInv(t, client, commands, Append(q, Refusal))
        BY <1>1, <1>4, <1>8, <3>2, <3>4, <3>5, AppendDown
      <3>7. QED
        BY <3>3, <3>6 DEF Agreement
    <2>6. QED
      BY <2>4, <2>5
  <1>12. server' = t /\ down' = Append(q, Refusal)
    BY <1>1, <1>9 DEF t
  <1>13. TypesInv'
    BY <1>1, <1>2, <1>4, <1>10, <1>12 DEF TypesInv, Places
  <1>14. client.error => commands = <<>>
    BY DEF IInv
  <1>15. QED
    BY <1>1, <1>2, <1>6, <1>7, <1>11, <1>12, <1>13, <1>14 DEF IInv

\* An acknowledgement of the first block of the window.
LEMMA AckedServer ==
  ASSUME NEW s \in Servers, NEW win, ServerInv(s, win), s.clientBlock < s.currentBlock
  PROVE  LET t == [s EXCEPT !.clientBlock = @ + 1]
         IN  /\ t \in Servers /\ ServerInv(t, win) /\ t.open = s.open /\ t.name = s.name
             /\ t.broken = s.broken /\ t.refused = s.refused
             /\ t.clientBlock = s.clientBlock + 1 /\ t.currentBlock = s.currentBlock
             /\ t.xmitBlock = s.xmitBlock
  <1> DEFINE cb == s.clientBlock + 1
             t == [s EXCEPT !.clientBlock = cb]
  <1>1. /\ s.clientBlock \in Nat /\ s.currentBlock \in Nat /\ cb \in Nat
        /\ s.currentBlock <= s.clientBlock + MAX_DOWNLOAD_WINDOW
    BY ServerNumbers
  <1>2. s.currentBlock - cb \in 0 .. MAX_DOWNLOAD_WINDOW
    BY <1>1
  <1>3. \A n \in cb .. s.currentBlock - 1 : n \in s.clientBlock .. s.currentBlock - 1
    BY <1>1
  <1> HIDE DEF cb
  <1>4. t \in Servers
    BY <1>1 DEF Servers
  <1>5. /\ t.name = s.name /\ t.refused = s.refused /\ t.clientBlock = cb
        /\ t.currentBlock = s.currentBlock /\ t.xmitBlock = s.xmitBlock
        /\ t.count = s.count
    BY DEF Servers
  <1>6. t.open = s.open /\ t.eof = s.eof /\ t.broken = s.broken
    BY DEF Servers
  <1> HIDE DEF t
  <1>7. ServerInv(t, win)
    BY <1>2, <1>3, <1>5, <1>6 DEF ServerInv
  <1>8. QED
    BY <1>4, <1>5, <1>6, <1>7 DEF t, cb

\* What SV_NextDownload_f does with it.
LEMMA NextEffect ==
  ASSUME TypesInv, ServerInv(server, window), server.open,
         server.clientBlock < server.currentBlock,
         SV_NextDownload_f(Command("nextdl", server.clientBlock))
  PROVE  server' = IF server.clientBlock = Blocks[server.name]
                   THEN Closed(server)
                   ELSE [server EXCEPT !.clientBlock = @ + 1]
  <1>1. server \in Servers
    BY DEF TypesInv
  <1>2. server.clientBlock \in Nat /\ server.currentBlock \in Nat /\ server.name \in File
    BY <1>1, ServerNumbers
  <1>3. server.clientBlock \in server.clientBlock .. server.currentBlock - 1
    BY <1>2
  <1>4. window[server.clientBlock % MAX_DOWNLOAD_WINDOW]
          = Block(server.name, server.clientBlock)
    BY <1>3 DEF ServerInv
  <1>5. \E f \in File : server.currentBlock <= Blocks[f] + 1
    BY DEF ServerInv
  <1>6. server.clientBlock <= Blocks[server.name] /\ Blocks[server.name] \in Nat
    <2>1. /\ server.count <= Blocks[server.name]
          /\ server.currentBlock = server.count + IF server.eof THEN 1 ELSE 0
      BY DEF ServerInv
    <2>2. server.count \in Nat /\ Blocks[server.name] \in Nat
      BY <1>1, <1>2, BlocksTypes DEF Servers
    <2>3. server.currentBlock <= server.count + 1
      BY <2>1, <2>2
    <2>4. QED
      BY <1>2, <2>1, <2>2, <2>3
  <1>7. Block(server.name, server.clientBlock) = EOF
          <=> server.clientBlock = Blocks[server.name]
    BY <1>2, <1>6, BlockContents
  <1>8. QED
    BY <1>4, <1>7 DEF SV_NextDownload_f, Command

LEMMA CommandCases ==
  ASSUME SV_ClientCommand, NEW n, NEW type, Head(commands) = Command(type, n)
  PROVE  /\ type = "nextdl" => SV_NextDownload_f(Command("nextdl", n))
         /\ type = "download" => server' = [Closed(server) EXCEPT !.name = n]
         /\ type = "stopdl" => server' = Closed(server)
         /\ type = "donedl" => server' = server
  <1>1. Head(commands).type = type /\ Head(commands).arg = n
    BY DEF Command
  <1>2. \/ SV_BeginDownload_f(Head(commands))
        \/ SV_NextDownload_f(Head(commands))
        \/ SV_StopDownload_f(Head(commands))
        \/ SV_DoneDownload_f(Head(commands))
    BY DEF SV_ClientCommand
  <1>3. QED
    BY <1>1, <1>2
    DEF SV_BeginDownload_f, SV_NextDownload_f, SV_StopDownload_f, SV_DoneDownload_f

\* A step that only moves the window of the file copied, keeps what is known
\* of the messages in flight.
LEMMA AckedDown ==
  ASSUME NEW s, NEW t, NEW c, NEW cmds, NEW new, NEW q,
         DownInv(s, c, cmds, q), s.open, t.open, s.name \in File \ s.refused,
         t.name = s.name, t.refused = s.refused, t.currentBlock = s.currentBlock,
         t.xmitBlock = s.xmitBlock
  PROVE  DownInv(t, c, new, q)
  <1>1. s.name # NoFile
    BY BlocksTypes
  <1>2. ASSUME c.name \in File, NEW j \in DOMAIN q, Live(c, q, j)
        PROVE  /\ c.name \notin t.refused /\ t.name = c.name
               /\ OfFile(t, c, q[j]) /\ EofLast(t, q, j)
    <2>1. /\ c.name \notin s.refused /\ s.name = c.name
          /\ OfFile(s, c, q[j]) /\ EofLast(s, q, j)
      BY <1>1, <1>2 DEF DownInv
    <2>2. OfFile(t, c, q[j])
      BY <2>1 DEF OfFile
    <2>3. EofLast(t, q, j)
      BY <2>1 DEF EofLast
    <2>4. QED
      BY <2>1, <2>2, <2>3
  <1>3. QED
    BY <1>2 DEF DownInv

\* Each command moves the server to where the client already is.
LEMMA CommandStep ==
  ASSUME IInv, SV_ClientCommand
  PROVE  IInv'
  <1>1. /\ commands # <<>> /\ commands' = Tail(commands)
        /\ window' = window /\ client' = client /\ down' = down
    BY DEF SV_ClientCommand
  <1>2. /\ server \in Servers /\ window \in [Places -> Contents] /\ client \in Clients
        /\ down \in Seq(Message) /\ client.out = <<>> /\ commands \in Seq(ClientCommands)
        /\ ServerInv(server, window) /\ ClientInv(client) /\ ~server.broken
        /\ TypesInv
    BY DEF IInv, TypesInv, Places
  <1>3. /\ ~client.error /\ Agreement(server, client, commands)
        /\ DownInv(server, client, commands, down)
    BY <1>1 DEF IInv
  <1>4. /\ server.clientBlock \in Nat /\ server.currentBlock \in Nat
        /\ server.clientBlock <= server.currentBlock
        /\ server.open => server.name \in File \ server.refused
    BY <1>2, ServerNumbers
  <1>5. client.block \in Nat
    BY <1>2 DEF Clients
  <1>6. Tail(commands) \in Seq(ClientCommands)
    BY <1>1, <1>2, HeadTailProperties
  <1>7. SUFFICES /\ server' \in Servers /\ ServerInv(server', window) /\ ~server'.broken
                 /\ Agreement(server', client, Tail(commands))
                 /\ DownInv(server', client, Tail(commands), down)
    <2>1. TypesInv'
      BY <1>1, <1>2, <1>6, <1>7 DEF TypesInv, Places
    <2>2. QED
      BY <1>1, <1>2, <1>3, <1>7, <2>1 DEF IInv
  <1> DEFINE a == server.clientBlock
             size == Blocks[server.name]
             next == [server EXCEPT !.clientBlock = @ + 1]
             closed == Closed(server)
  <1>8. a < server.currentBlock =>
          /\ next \in Servers /\ ServerInv(next, window) /\ next.open = server.open
          /\ next.name = server.name /\ next.broken = server.broken
          /\ next.refused = server.refused /\ next.clientBlock = a + 1
          /\ next.currentBlock = server.currentBlock /\ next.xmitBlock = server.xmitBlock
    BY <1>2, AckedServer
  <1>9. /\ closed \in Servers /\ ServerInv(closed, window) /\ ~closed.open
        /\ closed.name = NoFile /\ closed.broken = server.broken
        /\ closed.refused = server.refused
    <2> DEFINE t == [Closed(server) EXCEPT !.name = NoFile]
    <2>1. /\ t \in Servers /\ ServerInv(t, window) /\ ~t.open /\ t.name = NoFile
          /\ t.broken = server.broken /\ t.refused = server.refused
          /\ Closed(server) = t
      BY <1>2, ClosedServer
    <2> HIDE DEF t
    <2>2. QED
      BY <2>1
  <1> HIDE DEF next, closed
  <1>10. CASE Copying(server, client, commands)
    <2>1. /\ client.name \in File /\ server.open /\ server.name = client.name
          /\ client.block \in a .. server.currentBlock
          /\ commands = Acks(a, client.block)
      BY <1>10 DEF Copying
    <2>2. a < client.block
      <3>1. a # client.block
        BY <1>1, <1>4, <2>1, NoAcks
      <3>2. QED
        BY <1>4, <2>1, <3>1
    <2>3. commands = Acks(a, client.block) \o <<>>
      BY <1>2, <2>1, ConcatEmptySeq
    <2>4. /\ Head(commands) = Command("nextdl", a)
          /\ Tail(commands) = Acks(a + 1, client.block) \o <<>>
      <3> DEFINE cmds == Acks(a, client.block) \o <<>>
      <3>1. <<>> \in Seq(ClientCommands)
        BY EmptySeq
      <3>2. /\ Head(cmds) = Command("nextdl", a)
            /\ Tail(cmds) = Acks(a + 1, client.block) \o <<>>
        BY <1>4, <1>5, <2>2, <3>1, AcksHead
      <3> HIDE DEF cmds
      <3>3. QED
        BY <2>3, <3>2 DEF cmds
    <2>5. Tail(commands) = Acks(a + 1, client.block)
      <3>1. a + 1 \in Nat /\ a + 1 <= client.block
        BY <1>4, <1>5, <2>2
      <3>2. Acks(a + 1, client.block) \in Seq(ClientCommands)
        BY <1>5, <3>1, AcksType
      <3>3. QED
        BY <2>4, <3>2, ConcatEmptySeq
    <2>6. a < server.currentBlock /\ a # size
      <3>1. client.block <= Blocks[client.name] /\ Blocks[client.name] \in Nat
        BY <1>2, <2>1, BlocksTypes DEF ClientInv
      <3>2. QED
        BY <1>4, <1>5, <2>1, <2>2, <3>1
    <2>7. server' = next
      <3>1. SV_NextDownload_f(Command("nextdl", a))
        BY <2>4, CommandCases
      <3>2. QED
        BY <1>2, <2>1, <2>6, <3>1, NextEffect DEF next
    <2>8. Copying(next, client, Tail(commands))
      <3>1. client.block \in next.clientBlock .. next.currentBlock
        BY <1>4, <1>5, <1>8, <2>1, <2>2, <2>6
      <3>2. QED
        BY <1>8, <2>1, <2>5, <2>6, <3>1 DEF Copying
    <2>9. DownInv(next, client, Tail(commands), down)
      BY <1>3, <1>4, <1>8, <2>1, <2>6, AckedDown
    <2>10. QED
      BY <1>2, <1>8, <2>6, <2>7, <2>8, <2>9 DEF Agreement
  <1>11. CASE Asked(server, client, commands)
    BY <1>1, <1>11 DEF Asked
  <1>12. CASE Asking(server, client, commands)
    <2> DEFINE t == [Closed(server) EXCEPT !.name = client.name]
    <2>1. /\ client.name \in File /\ ~server.open /\ client.block = 0
          /\ commands = <<Command("download", client.name)>>
      BY <1>12 DEF Asking
    <2>2. Head(commands) = Command("download", client.name) /\ Tail(commands) = <<>>
      BY <2>1
    <2>3. server' = t
      BY <2>2, CommandCases
    <2>4. /\ t \in Servers /\ ServerInv(t, window) /\ ~t.open /\ t.name = client.name
          /\ t.broken = server.broken /\ t.refused = server.refused
      BY <1>2, <2>1, ClosedServer
    <2> HIDE DEF t
    <2>5. Asked(t, client, Tail(commands))
      BY <2>1, <2>2, <2>4 DEF Asked
    <2>6. DownInv(t, client, Tail(commands), down)
      BY <1>1, <1>3, <2>1 DEF DownInv
    <2>7. QED
      BY <1>2, <2>3, <2>4, <2>5, <2>6 DEF Agreement
  <1>13. ASSUME LeavingFile(server), NEW rest \in Seq(ClientCommands),
                commands = Acks(a, size + 1) \o rest
         PROVE  \/ /\ server' = next /\ LeavingFile(next) /\ a < server.currentBlock
                   /\ Tail(commands) = Acks(a + 1, size + 1) \o rest
                \/ server' = closed /\ Tail(commands) = rest
    <2>1. /\ server.open /\ server.currentBlock = size + 1 /\ a <= size
          /\ size <= ShortMax
      BY <1>13 DEF LeavingFile
    <2>2. size \in Nat
      BY <1>4, <2>1, BlocksTypes
    <2> DEFINE z == size + 1
    <2>3. z \in Nat /\ a < z /\ a < server.currentBlock
      BY <1>4, <2>1, <2>2
    <2>4. commands = Acks(a, z) \o rest
      BY <1>13
    <2> HIDE DEF z
    <2>5. Head(commands) = Command("nextdl", a) /\ Tail(commands) = Acks(a + 1, z) \o rest
      <3> DEFINE cmds == Acks(a, z) \o rest
      <3>1. Head(cmds) = Command("nextdl", a) /\ Tail(cmds) = Acks(a + 1, z) \o rest
        BY <1>4, <1>13, <2>3, AcksHead
      <3> HIDE DEF cmds
      <3>2. QED
        BY <2>4, <3>1 DEF cmds
    <2>6. server' = IF a = size THEN closed ELSE next
      <3>1. SV_NextDownload_f(Command("nextdl", a))
        BY <2>5, CommandCases
      <3>2. QED
        BY <1>2, <2>1, <2>3, <3>1, NextEffect DEF next, closed
    <2>7. CASE a = size
      <3>1. a + 1 = z /\ z \in Int
        BY <2>2, <2>7 DEF z
      <3>2. Acks(a + 1, z) = <<>>
        BY <3>1, NoAcks
      <3>3. Tail(commands) = rest
        BY <1>13, <2>5, <3>2, ConcatEmptySeq
      <3>4. QED
        BY <2>6, <2>7, <3>3
    <2>8. CASE a # size
      <3>1. LeavingFile(next)
        <4>1. a + 1 <= size
          BY <1>4, <2>1, <2>2, <2>8
        <4>2. QED
          BY <1>8, <2>1, <2>3, <4>1 DEF LeavingFile
      <3>2. QED
        BY <2>3, <2>5, <2>6, <2>8, <3>1 DEF z
    <2>9. QED
      BY <2>7, <2>8
  <1>14. CASE AskingNext(server, client, commands)
    <2> DEFINE rest == <<Command("download", client.name)>>
    <2>1. /\ client.name \in File /\ LeavingFile(server) /\ server.name + 1 = client.name
          /\ server.xmitBlock >= 1 /\ a >= 1 /\ client.block = 0
          /\ commands = Acks(a, size + 1) \o rest
      BY <1>14 DEF AskingNext
    <2>2. rest \in Seq(ClientCommands)
      <3>1. Command("download", client.name) \in ClientCommands
        BY <2>1, BlocksTypes, CommandType
      <3>2. QED
        BY <3>1
    <2>3. \A j \in DOMAIN down : ~Live(client, down, j)
      <3>1. server.open
        BY <2>1 DEF LeavingFile
      <3>2. server.name \in Nat /\ server.name # NoFile
        BY <1>4, <3>1, BlocksTypes
      <3>3. server.name # client.name
        BY <2>1, <3>2
      <3>4. QED
        BY <1>3, <2>1, <3>2, <3>3 DEF DownInv
    <2>4. \A t, cmds : DownInv(t, client, cmds, down)
      BY <2>3 DEF DownInv
    <2> HIDE DEF rest
    <2>5. CASE /\ server' = next /\ LeavingFile(next) /\ a < server.currentBlock
               /\ Tail(commands) = Acks(a + 1, size + 1) \o rest
      <3>1. next.clientBlock >= 1
        BY <1>4, <1>8, <2>1, <2>5
      <3>2. AskingNext(next, client, Tail(commands))
        BY <1>8, <2>1, <2>5, <3>1 DEF AskingNext, rest
      <3>3. QED
        BY <1>2, <1>8, <2>4, <2>5, <3>2 DEF Agreement
    <2>6. CASE server' = closed /\ Tail(commands) = rest
      <3>1. Asking(closed, client, Tail(commands))
        BY <1>9, <2>1, <2>6 DEF Asking, rest
      <3>2. QED
        BY <1>2, <1>9, <2>4, <2>6, <3>1 DEF Agreement
    <2>7. QED
      BY <1>13, <2>1, <2>2, <2>5, <2>6
  <1>15. CASE Finishing(server, client, commands)
    <2>1. client.name = Nothing /\ client.name \notin File
      BY <1>15, BlocksTypes DEF Finishing
    <2>2. \A t, cmds : DownInv(t, client, cmds, down)
      BY <2>1 DEF DownInv
    <2>3. PICK rest \in Seq(Parting) :
            \/ commands = rest
            \/ /\ LeavingFile(server)
               /\ commands = Acks(a, size + 1) \o rest
      BY <1>15 DEF Finishing
    <2>4. CASE commands = rest
      <3>1. Head(commands) \in Parting /\ Tail(commands) \in Seq(Parting)
        BY <1>1, <2>4, HeadTailProperties
      <3>2. server' = closed \/ server' = server
        BY <3>1, CommandCases DEF Parting, closed
      <3>3. \A t : Finishing(t, client, Tail(commands))
        BY <2>1, <3>1 DEF Finishing
      <3>4. QED
        BY <1>2, <1>9, <2>2, <3>2, <3>3 DEF Agreement
    <2>5. CASE LeavingFile(server) /\ commands = Acks(a, size + 1) \o rest
      <3>1. rest \in Seq(ClientCommands)
        BY PartingType, SeqMonotonic
      <3>2. CASE /\ server' = next /\ LeavingFile(next) /\ a < server.currentBlock
                 /\ Tail(commands) = Acks(a + 1, size + 1) \o rest
        <4>1. Finishing(next, client, Tail(commands))
          BY <1>8, <2>1, <3>2 DEF Finishing
        <4>2. QED
          BY <1>2, <1>8, <2>2, <3>2, <4>1 DEF Agreement
      <3>3. CASE server' = closed /\ Tail(commands) = rest
        <4>1. Finishing(closed, client, Tail(commands))
          BY <2>1, <3>3 DEF Finishing
        <4>2. QED
          BY <1>2, <1>9, <2>2, <3>3, <4>1 DEF Agreement
      <3>4. QED
        BY <1>13, <2>5, <3>1, <3>2, <3>3
    <2>6. QED
      BY <2>3, <2>4, <2>5
  <1>16. QED
    BY <1>3, <1>10, <1>11, <1>12, <1>14, <1>15 DEF Agreement
-----------------------------------------------------------------------------
(* A message arrives.                                                      *)

LEMMA LiveAfter ==
  ASSUME NEW c, NEW q, NEW k \in Nat, Live(c, q, k), NEW j \in Nat, k <= j
  PROVE  Live(c, q, j)
  <1>1. CASE c.block > 0
    BY <1>1 DEF Live
  <1>2. CASE \E i \in 1 .. k : HasBlock(q[i], 0)
    <2>1. PICK i \in 1 .. k : HasBlock(q[i], 0)
      BY <1>2
    <2>2. i \in 1 .. j
      BY <2>1
    <2>3. QED
      BY <2>1, <2>2 DEF Live
  <1>3. QED
    BY <1>1, <1>2 DEF Live

\* What the k-th message does to a client.
Useless(k) == Parsed(client, down[k]) = client

Over(k) == client.name = Nothing /\ Parted(client, Parsed(client, down[k]))

Refused(k) == Parsed(client, down[k]) = [client EXCEPT !.error = TRUE]

GivenUp(k) ==
  /\ client.name \in File
  /\ client.name + 1 = Nothing
  /\ client.block = 0
  /\ Parted(client, Parsed(client, down[k]))

Served(k) ==
  /\ Serving(server, client)
  /\ Copying(server, client, commands)
  /\ \A j \in k .. Len(down) : Live(client, down, j)
  /\ \/ Took(server, client, Parsed(client, down[k]))
     \/ Completed(server, client, down[k], Parsed(client, down[k]))

\* A message is useless, finds the client finished, refuses the file, is of a
\* file that cannot be created, or copies blocks.
LEMMA ParseEffect ==
  ASSUME IInv, NEW k \in DOMAIN down
  PROVE  \/ client.error /\ Useless(k)
         \/ ~client.error /\ (Useless(k) \/ Over(k) \/ Refused(k) \/ Served(k))
         \/ ~client.error /\ GivenUp(k) /\ Copying(server, client, commands)
  <1>1. /\ server \in Servers /\ client \in Clients /\ down \in Seq(Message)
        /\ client.out = <<>> /\ ServerInv(server, window) /\ ClientInv(client)
    BY DEF IInv, TypesInv
  <1>2. down[k] \in Message /\ Len(down) \in Nat /\ k \in 1 .. Len(down)
    BY <1>1, ElementOfSeq, LenProperties
  <1>3. client.name \in File \cup {Nothing} /\ client.block \in Nat
    BY <1>1 DEF Clients
  <1>4. CASE client.error
    BY <1>2, <1>4, ParsedError DEF Useless
  <1>5. CASE ~client.error /\ client.name = Nothing
    BY <1>1, <1>2, <1>5, ParsedFinished DEF Over
  <1>6. CASE client.block = 0 /\ ~HasBlock(down[k], 0)
    BY <1>1, <1>2, <1>4, <1>6, ParsedUseless DEF Useless
  <1>7. CASE /\ ~client.error /\ client.name \in File
             /\ client.block > 0 \/ HasBlock(down[k], 0)
    <2>1. Live(client, down, k)
      BY <1>2, <1>7 DEF Live
    <2>2. DownInv(server, client, commands, down) /\ Agreement(server, client, commands)
      BY <1>7 DEF IInv
    <2>3. CASE client.name \in server.refused
      <3>1. down[k] = Refusal
        BY <1>7, <2>1, <2>2, <2>3 DEF DownInv
      <3>2. Refused(k)
        BY <1>1, <1>7, <3>1, ParsedRefusal DEF Refused
      <3>3. QED
        BY <1>7, <3>2
    <2>4. CASE client.name \notin server.refused
      <3>1. /\ server.open /\ server.name = client.name
            /\ OfFile(server, client, down[k])
        BY <1>7, <2>1, <2>2, <2>4 DEF DownInv
      <3>2. Copying(server, client, commands)
        <4>1. client.name # Nothing /\ client.name + 1 # client.name
          BY <1>7, BlocksTypes
        <4>2. QED
          BY <2>2, <3>1, <4>1
          DEF Agreement, Asked, Asking, AskingNext, Finishing
      <3>3. down[k] \in Plain
        <4>1. down[k] # Refusal
          <5>1. SUFFICES ASSUME down[k] = Refusal PROVE FALSE
            OBVIOUS
          <5>2. 1 \in DOMAIN Refusal /\ Refusal[1].data = REFUSED
            BY DEF Refusal
          <5>3. REFUSED \in Contents
            BY <3>1, <5>1, <5>2 DEF OfFile
          <5>4. QED
            BY <5>3, ContentsNotRefused
        <4>2. QED
          BY <1>2, <4>1 DEF Message, Plain
      <3>4. client.block \in server.clientBlock .. server.currentBlock
        BY <3>2 DEF Copying
      <3>5. CASE client.name \in client.unwritable
        <4>1. client.block = 0
          BY <1>1, <1>7, <3>5 DEF ClientInv
        <4>2. \/ Parsed(client, down[k]) = client
              \/ Parted(client, Parsed(client, down[k]))
          BY <1>1, <1>7, <3>3, <3>5, <4>1, ParsedUnwritable
        <4>3. client.name + 1 = Nothing
          <5>1. client.unwritable \subseteq {Len(Blocks)}
            BY <1>1 DEF Clients
          <5>2. QED
            BY <3>5, <5>1 DEF Nothing
        <4>4. QED
          BY <1>7, <3>2, <4>1, <4>2, <4>3 DEF Useless, GivenUp
      <3>6. CASE client.name \notin client.unwritable
        <4>1. /\ server.clientBlock \in Nat /\ server.currentBlock \in Nat
              /\ server.currentBlock <= server.clientBlock + MAX_DOWNLOAD_WINDOW
          BY <1>1, ServerNumbers
        <4>2. server.currentBlock <= client.block + MAX_DOWNLOAD_WINDOW
              /\ client.block <= server.currentBlock
          BY <1>3, <3>4, <4>1
        <4>3. server.currentBlock <= Blocks[client.name] + 1
          <5>1. /\ server.count <= Blocks[client.name]
                /\ server.currentBlock = server.count + IF server.eof THEN 1 ELSE 0
            BY <1>1, <3>1 DEF ServerInv
          <5>2. server.count \in Nat /\ Blocks[client.name] \in Nat
            BY <1>1, <1>7, BlocksTypes DEF Servers
          <5>3. server.currentBlock <= server.count + 1
            BY <5>1, <5>2
          <5>4. QED
            BY <4>1, <5>1, <5>2, <5>3
        <4>4. Serving(server, client)
          BY <1>1, <1>7, <3>1, <3>6, <4>2, <4>3 DEF Serving
        <4>5. \A j \in k .. Len(down) : Live(client, down, j)
          BY <1>2, <2>1, LiveAfter
        <4>6. \/ Took(server, client, Parsed(client, down[k]))
              \/ Completed(server, client, down[k], Parsed(client, down[k]))
          BY <3>1, <3>3, <4>4, ParsedCopies
        <4>7. QED
          BY <1>7, <3>2, <4>4, <4>5, <4>6 DEF Served
      <3>7. QED
        BY <3>5, <3>6
    <2>5. QED
      BY <2>3, <2>4
  <1>8. QED
    BY <1>3, <1>4, <1>5, <1>6, <1>7

\* The commands go out.
LEMMA Cleared ==
  ASSUME NEW d \in Clients
  PROVE  LET c == [d EXCEPT !.out = <<>>]
         IN  /\ c \in Clients /\ c.out = <<>> /\ c.name = d.name /\ c.block = d.block
             /\ c.copied = d.copied /\ c.unwritable = d.unwritable /\ c.error = d.error
             /\ d.out = <<>> => c = d
  <1> DEFINE c == [d EXCEPT !.out = <<>>]
  <1>1. <<>> \in Seq(ClientCommands)
    BY EmptySeq
  <1>2. c \in Clients
    BY <1>1 DEF Clients
  <1>3. /\ c.out = <<>> /\ c.name = d.name /\ c.block = d.block
        /\ c.copied = d.copied /\ c.unwritable = d.unwritable
    BY DEF Clients
  <1>4. c.error = d.error
    BY DEF Clients
  <1>5. d.out = <<>> => c = d
    BY DEF Clients
  <1>6. QED
    BY <1>2, <1>3, <1>4, <1>5

\* A client that wants nothing more may say so again.
LEMMA PartingClient ==
  ASSUME ClientInv(client), NEW d, Parted(client, d)
  PROVE  ClientInv([d EXCEPT !.out = <<>>])
  <1> DEFINE c == [d EXCEPT !.out = <<>>]
  <1>1. d \in Clients /\ d.name = Nothing /\ d.block = client.block
    BY DEF Parted
  <1>2. c.name = Nothing /\ c.block = client.block
    BY <1>1, Cleared
  <1> HIDE DEF c
  <1>3. ClientInv(c)
    BY <1>2, BlocksTypes DEF ClientInv
  <1>4. QED
    BY <1>3 DEF c

\* The invariant, of the client that has parsed a message.
ParsesTo(k, c, cmds) ==
  /\ c \in Clients
  /\ c.out = <<>>
  /\ ClientInv(c)
  /\ cmds \in Seq(ClientCommands)
  /\ c.error => cmds = <<>>
  /\ ~c.error => Agreement(server, c, cmds)
  /\ ~c.error => DownInv(server, c, cmds, SubSeq(down, k + 1, Len(down)))

LEMMA UselessStep ==
  ASSUME IInv, NEW k \in 1 .. Len(down)
  PROVE  ParsesTo(k, client, commands)
  <1>1. /\ client \in Clients /\ down \in Seq(Message)
        /\ client.out = <<>> /\ ClientInv(client) /\ commands \in Seq(ClientCommands)
    BY DEF IInv, TypesInv
  <1>2. ~client.error =>
          DownInv(server, client, commands, SubSeq(down, k + 1, Len(down)))
    BY <1>1, SuffixDown DEF IInv
  <1>3. QED
    BY <1>1, <1>2 DEF IInv, ParsesTo

LEMMA PartedStep ==
  ASSUME IInv, NEW k \in 1 .. Len(down), ~client.error, NEW d, Parted(client, d), ~d.error,
         client.name = Nothing
           \/ (client.block = 0 /\ Copying(server, client, commands))
  PROVE  ParsesTo(k, [d EXCEPT !.out = <<>>], commands \o d.out)
  <1> DEFINE c == [d EXCEPT !.out = <<>>]
  <1>1. /\ client \in Clients /\ ClientInv(client) /\ commands \in Seq(ClientCommands)
        /\ server \in Servers /\ ServerInv(server, window)
    BY DEF IInv, TypesInv
  <1>2. d \in Clients /\ d.name = Nothing /\ d.out \in Seq(Parting)
    BY DEF Parted
  <1>3. d.out \in Seq(ClientCommands)
    BY <1>2, PartingType, SeqMonotonic
  <1>4. c \in Clients /\ c.out = <<>> /\ c.name = Nothing /\ ~c.error
    BY <1>2, Cleared
  <1>5. ClientInv(c)
    BY <1>1, PartingClient
  <1>6. commands \o d.out \in Seq(ClientCommands)
    BY <1>1, <1>3, ConcatProperties
  <1> HIDE DEF c
  <1>7. Finishing(server, c, commands \o d.out)
    <2>1. CASE client.name = Nothing
      <3>1. Finishing(server, client, commands)
        <4>1. Agreement(server, client, commands)
          BY DEF IInv
        <4>2. QED
          BY <2>1, <4>1, BlocksTypes DEF Agreement, Copying, Asked, Asking, AskingNext
      <3>2. PICK rest \in Seq(Parting) :
              \/ commands = rest
              \/ /\ LeavingFile(server)
                 /\ commands = Acks(server.clientBlock, Blocks[server.name] + 1) \o rest
        BY <3>1 DEF Finishing
      <3>3. rest \o d.out \in Seq(Parting)
        BY <1>2, ConcatProperties
      <3>4. CASE commands = rest
        BY <1>4, <3>3, <3>4 DEF Finishing
      <3>5. CASE /\ LeavingFile(server)
                 /\ commands = Acks(server.clientBlock, Blocks[server.name] + 1) \o rest
        <4> DEFINE n == Blocks[server.name] + 1
                   acks == Acks(server.clientBlock, n)
        <4>1. server.clientBlock \in Nat /\ n \in Nat /\ server.clientBlock <= n
          <5>1. server.name \in File /\ server.clientBlock \in Nat
            BY <1>1, <3>5, ServerNumbers DEF LeavingFile
          <5>2. Blocks[server.name] \in Nat
            BY <5>1, BlocksTypes
          <5>3. server.clientBlock <= Blocks[server.name]
            BY <3>5 DEF LeavingFile
          <5>4. QED
            BY <5>1, <5>2, <5>3
        <4> HIDE DEF n
        <4>2. acks \in Seq(ClientCommands)
          BY <4>1, AcksType
        <4>3. commands = acks \o rest
          BY <3>5 DEF n
        <4> HIDE DEF acks
        <4>4. rest \in Seq(ClientCommands)
          BY PartingType, SeqMonotonic
        <4>5. commands \o d.out = acks \o (rest \o d.out)
          <5> DEFINE out == d.out
          <5>1. out \in Seq(ClientCommands)
            BY <1>3
          <5> HIDE DEF out
          <5>2. (acks \o rest) \o out = acks \o (rest \o out)
            BY <4>2, <4>4, <5>1, ConcatAssociative, SMTT(30)
          <5>3. QED
            BY <4>3, <5>2 DEF out
        <4>6. QED
          BY <1>4, <3>3, <3>5, <4>5 DEF Finishing, acks, n
      <3>6. QED
        BY <3>2, <3>4, <3>5
    <2>2. CASE client.block = 0 /\ Copying(server, client, commands)
      <3>1. commands = Acks(server.clientBlock, 0) /\ server.clientBlock <= 0
        BY <1>1, <2>2, ServerNumbers DEF Copying
      <3>2. server.clientBlock = 0
        BY <1>1, <3>1, ServerNumbers
      <3>3. commands = <<>>
        BY <3>1, <3>2, NoAcks
      <3>4. commands \o d.out = d.out
        BY <1>3, <3>3, ConcatEmptySeq
      <3>5. QED
        BY <1>2, <1>4, <3>4 DEF Finishing
    <2>3. QED
      BY <2>1, <2>2
  <1>8. DownInv(server, c, commands \o d.out, SubSeq(down, k + 1, Len(down)))
    BY <1>4, BlocksTypes DEF DownInv
  <1>9. ParsesTo(k, c, commands \o d.out)
    BY <1>4, <1>5, <1>6, <1>7, <1>8 DEF ParsesTo, Agreement
  <1>10. QED
    BY <1>9 DEF c

\* The client has taken blocks, and its file is not complete.
LEMMA TookStep ==
  ASSUME IInv, NEW k \in 1 .. Len(down), Served(k), NEW d, Took(server, client, d)
  PROVE  ParsesTo(k, [d EXCEPT !.out = <<>>], commands \o d.out)
  <1> DEFINE c == [d EXCEPT !.out = <<>>]
             q == SubSeq(down, k + 1, Len(down))
             f == client.name
  <1>1. /\ client \in Clients /\ ClientInv(client) /\ commands \in Seq(ClientCommands)
        /\ server \in Servers /\ ServerInv(server, window) /\ down \in Seq(Message)
    BY DEF IInv, TypesInv
  <1>2. /\ Serving(server, client) /\ Copying(server, client, commands)
        /\ \A j \in k .. Len(down) : Live(client, down, j)
    BY DEF Served
  <1>3. /\ f \in File /\ f \notin client.unwritable /\ ~client.error
        /\ server.name = f /\ server.open
    BY <1>2 DEF Serving, Copying
  <1>4. /\ d \in Clients /\ ~d.error /\ d.name = f
        /\ d.unwritable = client.unwritable
        /\ d.block \in client.block .. server.currentBlock /\ d.block <= Blocks[f]
        /\ d.copied = [client.copied EXCEPT ![f] = Transfer!Prefix(f, d.block)]
        /\ d.out = Acks(client.block, d.block)
    BY DEF Took
  <1>5. /\ c \in Clients /\ c.out = <<>> /\ c.name = f /\ c.block = d.block
        /\ c.copied = d.copied /\ c.unwritable = d.unwritable /\ ~c.error
    BY <1>4, Cleared
  <1> HIDE DEF c
  <1>6. /\ server.clientBlock \in Nat /\ server.currentBlock \in Nat
        /\ client.block \in Nat /\ d.block \in Nat /\ Blocks[f] \in Nat /\ f \in Nat
        /\ client.block <= d.block /\ d.block <= server.currentBlock
        /\ server.clientBlock <= client.block
    BY <1>1, <1>2, <1>3, <1>4, ServerNumbers, BlocksTypes DEF Copying, Clients
  <1>7. ClientInv(c)
    <2>1. client.copied \in [File -> Seq(File \X Nat)]
      BY <1>1 DEF Clients
    <2>2. c.copied[f] = Transfer!Prefix(f, c.block)
      BY <1>3, <1>4, <1>5, <2>1
    <2>3. ASSUME NEW g \in File, g > f PROVE c.copied[g] = <<>>
      <3>1. client.copied[g] = <<>>
        BY <1>1, <1>3, <2>3 DEF ClientInv
      <3>2. g # f
        BY <1>6, <2>3
      <3>3. QED
        BY <1>4, <1>5, <2>1, <3>1, <3>2
    <2>4. c.block <= Blocks[f] + 1
      BY <1>4, <1>5, <1>6
    <2>5. QED
      BY <1>3, <1>4, <1>5, <2>2, <2>3, <2>4 DEF ClientInv
  <1>8. commands \o d.out = Acks(server.clientBlock, d.block)
    <2> DEFINE a == server.clientBlock
               b == client.block
               e == d.block
    <2>1. commands = Acks(a, b) /\ d.out = Acks(b, e)
      BY <1>2, <1>4 DEF Copying
    <2>2. a \in Nat /\ b \in Nat /\ e \in Nat /\ a <= b /\ b <= e
      BY <1>6
    <2> HIDE DEF a, b, e
    <2>3. Acks(a, b) \o Acks(b, e) = Acks(a, e)
      BY <2>2, AcksConcat
    <2>4. QED
      BY <2>1, <2>3 DEF a, e
  <1>9. commands \o d.out \in Seq(ClientCommands)
    <2> DEFINE a == server.clientBlock
               e == d.block
    <2>1. a \in Nat /\ e \in Nat /\ a <= e
      BY <1>6
    <2> HIDE DEF a, e
    <2>2. Acks(a, e) \in Seq(ClientCommands)
      BY <2>1, AcksType
    <2>3. QED
      BY <1>8, <2>2 DEF a, e
  <1>10. Copying(server, c, commands \o d.out)
    <2>1. c.block \in server.clientBlock .. server.currentBlock
      BY <1>5, <1>6
    <2>2. QED
      BY <1>3, <1>5, <1>8, <2>1 DEF Copying
  <1>11. DownInv(server, c, commands \o d.out, q)
    <2>1. /\ Len(down) \in Nat /\ DOMAIN q = 1 .. Len(down) - k
          /\ DOMAIN down = 1 .. Len(down)
          /\ \A j \in 1 .. Len(down) - k : q[j] = down[j + k]
      BY <1>1, Suffix
    <2>2. f \notin server.refused
      BY <1>1, <1>3, ServerNumbers
    <2>3. ASSUME NEW j \in 1 .. Len(down) - k
          PROVE  OfFile(server, c, q[j]) /\ EofLast(server, q, j)
      <3>1. j + k \in DOMAIN down /\ j + k \in k .. Len(down) /\ q[j] = down[j + k]
        BY <2>1
      <3>2. OfFile(server, client, q[j]) /\ EofLast(server, down, j + k)
        <4>1. Live(client, down, j + k)
          BY <1>2, <3>1
        <4>2. DownInv(server, client, commands, down)
          BY <1>3 DEF IInv
        <4>3. QED
          BY <1>3, <2>2, <3>1, <4>1, <4>2 DEF DownInv
      <3>3. EofLast(server, q, j)
        BY <1>1, <3>2, SuffixEofLast
      <3>4. PICK first \in Nat :
              /\ first + Len(q[j]) <= server.currentBlock
              /\ \A e \in DOMAIN q[j] :
                   /\ q[j][e].block = Short(first + e - 1)
                   /\ q[j][e].data \in Contents
                   /\ first + e - 1 >= client.block =>
                        q[j][e].data = Block(server.name, first + e - 1)
        BY <3>2 DEF OfFile
      <3>5. ASSUME NEW e \in DOMAIN q[j], first + e - 1 >= c.block
            PROVE  first + e - 1 >= client.block
        <4>1. q[j] \in Message
          BY <1>1, <3>1, ElementOfSeq
        <4>2. e \in Nat
          BY <4>1, MessageDomain
        <4>3. QED
          BY <1>5, <1>6, <3>5, <4>2
      <3> HIDE DEF q
      <3>6. OfFile(server, c, q[j])
        BY <3>4, <3>5 DEF OfFile
      <3>7. QED
        BY <3>3, <3>6
    <2> HIDE DEF q
    <2>4. QED
      BY <1>3, <1>5, <2>1, <2>2, <2>3 DEF DownInv
  <1>12. ParsesTo(k, c, commands \o d.out)
    BY <1>5, <1>7, <1>9, <1>10, <1>11 DEF ParsesTo, Agreement
  <1>13. QED
    BY <1>12 DEF c

\* The client has taken the last block of its file.
LEMMA CompletedStep ==
  ASSUME IInv, NEW k \in 1 .. Len(down), Served(k), NEW d,
         Completed(server, client, down[k], d)
  PROVE  ParsesTo(k, [d EXCEPT !.out = <<>>], commands \o d.out)
  <1> DEFINE c == [d EXCEPT !.out = <<>>]
             q == SubSeq(down, k + 1, Len(down))
             f == client.name
             size == Blocks[f]
             acks == Acks(client.block, size + 1)
  <1>1. /\ client \in Clients /\ ClientInv(client) /\ commands \in Seq(ClientCommands)
        /\ server \in Servers /\ ServerInv(server, window) /\ down \in Seq(Message)
    BY DEF IInv, TypesInv
  <1>2. /\ Serving(server, client) /\ Copying(server, client, commands)
        /\ \A j \in k .. Len(down) : Live(client, down, j)
    BY DEF Served
  <1>3. /\ f \in File /\ ~client.error /\ server.name = f /\ server.open
    BY <1>2 DEF Serving, Copying
  <1>4. /\ d \in Clients /\ ~d.error /\ d.unwritable = client.unwritable
        /\ server.currentBlock = size + 1 /\ size <= ShortMax
        /\ HasBlock(down[k], size)
        /\ d.copied = [client.copied EXCEPT ![f] = Transfer!Prefix(f, size)]
    BY DEF Completed
  <1>5. \/ /\ f < Len(Blocks) /\ d.name = f + 1 /\ d.block = 0
           /\ d.out = acks \o <<Command("download", f + 1)>>
        \/ /\ d.name = Nothing /\ d.block = size + 1
           /\ d.out = acks \o <<Command("donedl", 0)>>
    BY DEF Completed
  <1>6. /\ c \in Clients /\ c.out = <<>> /\ c.name = d.name /\ c.block = d.block
        /\ c.copied = d.copied /\ c.unwritable = d.unwritable /\ ~c.error
    BY <1>4, Cleared
  <1> HIDE DEF c
  <1>7. /\ server.clientBlock \in Nat /\ server.currentBlock \in Nat
        /\ client.block \in Nat /\ size \in Nat /\ f \in Nat
        /\ client.block <= size /\ server.clientBlock <= client.block
        /\ server.currentBlock <= server.clientBlock + MAX_DOWNLOAD_WINDOW
    BY <1>1, <1>2, <1>3, ServerNumbers, ServingNumbers, BlocksTypes DEF Copying
  <1>8. LeavingFile(server)
    BY <1>3, <1>4, <1>7 DEF LeavingFile
  <1>9. ASSUME NEW x \in ClientCommands, d.out = acks \o <<x>>
        PROVE  /\ commands \o d.out = Acks(server.clientBlock, size + 1) \o <<x>>
               /\ commands \o d.out \in Seq(ClientCommands)
    <2> DEFINE a == server.clientBlock
               b == client.block
               n == size + 1
    <2>1. a \in Nat /\ b \in Nat /\ n \in Nat /\ a <= b /\ b <= n
      BY <1>7, SMTT(20)
    <2>2. commands = Acks(a, b) /\ d.out = Acks(b, n) \o <<x>>
      BY <1>2, <1>9 DEF Copying
    <2> HIDE DEF a, b, n
    <2>3. /\ Acks(a, b) \o (Acks(b, n) \o <<x>>) = Acks(a, n) \o <<x>>
          /\ Acks(a, n) \o <<x>> \in Seq(ClientCommands)
      BY <2>1, AcksThen
    <2>4. QED
      BY <2>2, <2>3 DEF a, n
  <1> HIDE DEF acks
  <1>10. CASE /\ f < Len(Blocks) /\ d.name = f + 1 /\ d.block = 0
              /\ d.out = acks \o <<Command("download", f + 1)>>
    <2> DEFINE next == f + 1
    <2>1. next \in File /\ next \in Nat /\ next # f /\ Blocks[next] \in Nat
      <3> DEFINE len == Len(Blocks)
      <3>1. f \in Nat /\ f < len /\ len \in Nat /\ File = 1 .. len
        BY <1>7, <1>10, BlocksTypes
      <3> HIDE DEF f, len
      <3>2. next \in Nat /\ next # f /\ next \in File
        BY <3>1
      <3> HIDE DEF next
      <3>3. QED
        BY <3>2, BlocksTypes
    <2>2. Command("download", next) \in ClientCommands
      BY <2>1, CommandType
    <2>3. /\ commands \o d.out
               = Acks(server.clientBlock, size + 1) \o <<Command("download", next)>>
          /\ commands \o d.out \in Seq(ClientCommands)
      BY <1>9, <1>10, <2>2
    <2>4. c.name = next /\ c.block = 0
      BY <1>6, <1>10
    <2>5. ASSUME NEW g \in File, g > f PROVE c.copied[g] = <<>>
      <3>1. client.copied[g] = <<>>
        BY <1>1, <1>3, <2>5 DEF ClientInv
      <3>2. g # f
        BY <1>7, <2>5
      <3>3. client.copied \in [File -> Seq(File \X Nat)]
        BY <1>1 DEF Clients
      <3>4. QED
        BY <1>4, <1>6, <3>1, <3>2, <3>3
    <2>6. ClientInv(c)
      <3>1. Transfer!Prefix(next, 0) = <<>>
        BY <2>1, PrefixProperties, EmptySeq
      <3>2. c.copied[next] = Transfer!Prefix(next, 0)
        BY <1>7, <2>1, <2>5, <3>1
      <3>3. \A g \in File : g > next => c.copied[g] = <<>>
        <4> TAKE g \in File
        <4>1. g \in Nat
          BY BlocksTypes
        <4>2. g > next => g > f
          BY <1>7, <4>1
        <4>3. QED
          BY <2>5, <4>2
      <3> HIDE DEF next
      <3>4. 0 <= Blocks[next] /\ 0 <= Blocks[next] + 1
        BY <2>1
      <3>5. QED
        BY <2>1, <2>4, <3>2, <3>3, <3>4 DEF ClientInv
    <2>7. Live(client, down, k)
      BY <1>1, <1>2, LenProperties
    <2>8. EofLast(server, down, k)
      <3>1. k \in DOMAIN down /\ DownInv(server, client, commands, down)
        BY <1>1, <1>3, LenProperties DEF IInv
      <3>2. f \notin server.refused
        BY <1>1, <1>3, ServerNumbers
      <3>3. QED
        BY <1>3, <2>7, <3>1, <3>2 DEF DownInv
    <2>9. server.xmitBlock >= 1 /\ \A i \in k + 1 .. Len(down) : ~HasBlock(down[i], 0)
      BY <1>3, <1>4, <1>10, <2>8 DEF EofLast
    <2>10. server.clientBlock >= 1
      <3>1. size >= MAX_DOWNLOAD_WINDOW
        BY <1>3, <1>7, <1>10, LongFilesAssumption DEF File
      <3>2. QED
        BY <1>4, <1>7, <3>1
    <2>11. AskingNext(server, c, commands \o d.out)
      BY <1>3, <1>8, <2>1, <2>3, <2>4, <2>9, <2>10 DEF AskingNext
    <2>12. DownInv(server, c, commands \o d.out, q)
      <3>1. /\ Len(down) \in Nat /\ DOMAIN q = 1 .. Len(down) - k
            /\ \A j \in 1 .. Len(down) - k : q[j] = down[j + k]
        BY <1>1, Suffix
      <3> HIDE DEF q
      <3>2. ASSUME NEW j \in DOMAIN q, NEW i \in 1 .. j PROVE ~HasBlock(q[i], 0)
        <4>1. i \in 1 .. Len(down) - k /\ i + k \in k + 1 .. Len(down)
          BY <3>1, <3>2
        <4>2. QED
          BY <2>9, <3>1, <4>1
      <3>3. \A j \in DOMAIN q : ~Live(c, q, j)
        BY <2>4, <3>2 DEF Live
      <3>4. QED
        BY <3>3 DEF DownInv
    <2>13. QED
      BY <1>6, <2>3, <2>6, <2>11, <2>12 DEF ParsesTo, Agreement, c
  <1>11. CASE /\ d.name = Nothing /\ d.block = size + 1
              /\ d.out = acks \o <<Command("donedl", 0)>>
    <2> DEFINE x == Command("donedl", 0)
    <2>1. x \in ClientCommands /\ <<x>> \in Seq(Parting)
      <3>1. x \in ClientCommands /\ x \in Parting
        BY PartingType
      <3> HIDE DEF x
      <3>2. QED
        BY <3>1
    <2>2. /\ commands \o d.out = Acks(server.clientBlock, size + 1) \o <<x>>
          /\ commands \o d.out \in Seq(ClientCommands)
      BY <1>9, <1>11, <2>1
    <2>3. c.name = Nothing /\ c.name \notin File
      BY <1>6, <1>11, BlocksTypes
    <2>4. ClientInv(c)
      BY <1>3, <1>6, <1>7, <1>11, <2>3 DEF ClientInv
    <2> HIDE DEF x
    <2>5. Finishing(server, c, commands \o d.out)
      BY <1>3, <1>8, <2>1, <2>2, <2>3 DEF Finishing
    <2>6. DownInv(server, c, commands \o d.out, q)
      BY <2>3 DEF DownInv
    <2>7. QED
      BY <1>6, <2>2, <2>4, <2>5, <2>6 DEF ParsesTo, Agreement, c
  <1>12. QED
    BY <1>5, <1>10, <1>11

LEMMA ParseStep ==
  ASSUME IInv, NEW k \in DOMAIN down, CL_ParseServerMessage(k)
  PROVE  IInv'
  <1> DEFINE d == Parsed(client, down[k])
             c == [d EXCEPT !.out = <<>>]
             cmds == IF d.error THEN <<>> ELSE commands \o d.out
  <1>1. /\ client' = c /\ commands' = cmds /\ server' = server /\ window' = window
        /\ down' = SubSeq(down, k + 1, Len(down))
    BY DEF CL_ParseServerMessage
  <1>2. /\ client \in Clients /\ client.out = <<>> /\ commands \in Seq(ClientCommands)
        /\ server \in Servers /\ ServerInv(server, window) /\ ~server.broken
        /\ window \in [Places -> Contents] /\ down \in Seq(Message)
        /\ ClientInv(client)
    BY DEF IInv, TypesInv, Places
  <1>3. k \in 1 .. Len(down)
    BY <1>2, LenProperties
  <1> HIDE DEF d
  <1>4. ParsesTo(k, c, cmds)
    <2>1. CASE d = client
      <3>1. c = client
        BY <1>2, <2>1, Cleared
      <3>2. cmds = commands
        <4>1. CASE client.error
          BY <2>1, <4>1 DEF IInv
        <4>2. CASE ~client.error
          BY <1>2, <2>1, <4>2, ConcatEmptySeq
        <4>3. QED
          BY <4>1, <4>2
      <3>3. QED
        BY <1>3, <3>1, <3>2, UselessStep
    <2>2. ASSUME d \in Clients, d.error, ClientInv(c) PROVE ParsesTo(k, c, cmds)
      <3>1. c \in Clients /\ c.out = <<>> /\ c.error
        BY <2>2, Cleared
      <3>2. cmds = <<>> /\ cmds \in Seq(ClientCommands)
        BY <2>2, EmptySeq
      <3> HIDE DEF c, cmds
      <3>3. QED
        BY <2>2, <3>1, <3>2 DEF ParsesTo
    <2>3. ASSUME ~client.error, Parted(client, d),
                 client.name = Nothing
                   \/ (client.block = 0 /\ Copying(server, client, commands))
          PROVE  ParsesTo(k, c, cmds)
      <3>1. CASE d.error
        BY <1>2, <2>2, <2>3, <3>1, PartingClient DEF Parted
      <3>2. CASE ~d.error
        BY <1>3, <2>3, <3>2, PartedStep
      <3>3. QED
        BY <3>1, <3>2
    <2>4. CASE ~client.error /\ Refused(k)
      <3>1. d = [client EXCEPT !.error = TRUE]
        BY <2>4 DEF Refused, d
      <3>2. d \in Clients
        BY <1>2, <3>1 DEF Clients
      <3>3. d.error
        BY <1>2, <3>1 DEF Clients
      <3>4. /\ c.name = client.name /\ c.block = client.block /\ c.copied = client.copied
            /\ c.unwritable = client.unwritable
        <4>1. /\ d.name = client.name /\ d.block = client.block
              /\ d.copied = client.copied /\ d.unwritable = client.unwritable
          BY <1>2, <3>1 DEF Clients
        <4>2. QED
          BY <3>2, <4>1, Cleared
      <3> HIDE DEF c
      <3>5. ClientInv(c)
        BY <1>2, <3>4 DEF ClientInv
      <3>6. QED
        BY <2>2, <3>2, <3>3, <3>5
    <2>5. CASE Served(k)
      <3>1. CASE Took(server, client, d)
        <4>1. ~d.error
          BY <3>1 DEF Took
        <4>2. QED
          BY <1>3, <2>5, <3>1, <4>1, TookStep
      <3>2. CASE Completed(server, client, down[k], d)
        <4>1. ~d.error
          BY <3>2 DEF Completed
        <4>2. QED
          BY <1>3, <2>5, <3>2, <4>1, CompletedStep
      <3>3. QED
        BY <2>5, <3>1, <3>2 DEF Served, d
    <2>6. CASE ~client.error /\ Over(k)
      BY <2>3, <2>6 DEF Over, d
    <2>7. CASE ~client.error /\ GivenUp(k) /\ Copying(server, client, commands)
      BY <2>3, <2>7 DEF GivenUp, d
    <2>8. CASE Useless(k)
      BY <2>1, <2>8 DEF Useless, d
    <2>9. QED
      BY <2>4, <2>5, <2>6, <2>7, <2>8, ParseEffect
  <1> HIDE DEF c, cmds
  <1>5. SubSeq(down, k + 1, Len(down)) \in Seq(Message)
    BY <1>2, <1>3, Suffix
  <1>6. TypesInv'
    BY <1>1, <1>2, <1>4, <1>5 DEF TypesInv, ParsesTo, Places
  <1>7. QED
    BY <1>1, <1>2, <1>4, <1>6 DEF IInv, ParsesTo
-----------------------------------------------------------------------------
(* The theorems.                                                           *)

\* The client wants the first file, and the server does not know yet.
LEMMA InitInv == Init => IInv
  <1> SUFFICES ASSUME Init PROVE IInv
    OBVIOUS
  <1>1. /\ server.name = NoFile /\ ~server.open /\ server.currentBlock = 0
        /\ server.clientBlock = 0 /\ server.xmitBlock = 0 /\ ~server.broken
    BY DEF Init
  <1>2. server \in Servers
    <2>1. server.refused \in SUBSET File
      BY RefusedAssumption DEF Init, File
    <2>2. server \in [name : {NoFile}, open : {FALSE}, currentBlock : {0},
                      clientBlock : {0}, xmitBlock : {0}, count : {0},
                      eof : {FALSE}, broken : {FALSE}, refused : SUBSET File]
      BY <2>1 DEF Init
    <2>3. NoFile \in File \cup {NoFile} /\ 0 \in Nat /\ FALSE \in BOOLEAN
      OBVIOUS
    <2> DEFINE names == File \cup {NoFile}
               refusals == SUBSET File
    <2>4. NoFile \in names
      BY <2>3
    <2>5. server \in [name : {NoFile}, open : {FALSE}, currentBlock : {0},
                      clientBlock : {0}, xmitBlock : {0}, count : {0},
                      eof : {FALSE}, broken : {FALSE}, refused : refusals]
      BY <2>2
    <2> HIDE DEF names, refusals
    <2>6. server \in [name : names, open : BOOLEAN, currentBlock : Nat,
                      clientBlock : Nat, xmitBlock : Nat, count : Nat,
                      eof : BOOLEAN, broken : BOOLEAN, refused : refusals]
      BY <2>3, <2>4, <2>5
    <2>7. QED
      BY <2>6 DEF Servers, names, refusals
  <1>3. /\ client.name = 1 /\ client.block = 0 /\ ~client.error
        /\ client.copied = [f \in File |-> <<>>] /\ client.out = <<>>
        /\ client.unwritable \in UnwritableSets
    BY DEF Init
  <1>4. client \in Clients
    <2> DEFINE S == File \X Nat
               none == [f \in File |-> <<>>]
    <2>1. <<>> \in Seq(S) /\ <<>> \in Seq(ClientCommands)
      BY EmptySeq
    <2> HIDE DEF S
    <2>2. none \in [File -> Seq(S)]
      BY <2>1
    <2>3. 1 \in File \cup {Nothing}
      BY BlocksTypes
    <2>4. client.unwritable \in SUBSET {Len(Blocks)}
      BY <1>3, UnwritableAssumption
    <2>5. 0 \in 0 .. ShortMax + 1
      OBVIOUS
    <2>6. client \in [name : {1}, block : {0}, error : {FALSE}, copied : {none},
                      out : {<<>>}, unwritable : SUBSET {Len(Blocks)}]
      BY <2>4 DEF Init
    <2> HIDE DEF none
    <2>7. client \in [name : File \cup {Nothing}, block : 0 .. ShortMax + 1,
                      error : BOOLEAN, copied : [File -> Seq(S)],
                      out : Seq(ClientCommands), unwritable : SUBSET {Len(Blocks)}]
      BY <2>1, <2>2, <2>3, <2>5, <2>6
    <2>8. QED
      BY <2>7 DEF S, Clients
  <1>5. window \in [0 .. MAX_DOWNLOAD_WINDOW - 1 -> Contents]
    BY DEF Init, Contents
  <1>6. down = <<>> /\ down \in Seq(Message) /\ DOMAIN down = {}
    BY EmptySeq DEF Init
  <1>7. 1 \in Nat /\ 1 \in File /\ Blocks[1] \in Nat
    BY BlocksTypes
  <1>8. commands = <<Command("download", 1)>> /\ commands \in Seq(ClientCommands)
    <2> DEFINE x == Command("download", 1)
    <2>1. x \in ClientCommands
      BY <1>7, CommandType
    <2> HIDE DEF x
    <2>2. <<x>> \in Seq(ClientCommands)
      BY <2>1
    <2>3. QED
      BY <2>2 DEF x, Init
  <1>9. TypesInv
    BY <1>2, <1>3, <1>4, <1>5, <1>6, <1>8 DEF TypesInv
  <1>10. ServerInv(server, window)
    <2>1. 0 - 0 \in 0 .. MAX_DOWNLOAD_WINDOW /\ 0 <= Blocks[1] + 1
      BY <1>7
    <2>2. QED
      BY <1>1, <1>7, <2>1 DEF ServerInv
  <1>11. ClientInv(client)
    <2>1. Transfer!Prefix(1, 0) = <<>>
      BY <1>7, PrefixProperties, EmptySeq
    <2>2. \A f \in File : client.copied[f] = <<>>
      BY <1>3
    <2>3. 0 <= Blocks[1] /\ 0 <= Blocks[1] + 1
      BY <1>7
    <2>4. QED
      BY <1>3, <1>7, <2>1, <2>2, <2>3 DEF ClientInv
  <1>12. Agreement(server, client, commands)
    BY <1>1, <1>3, <1>7, <1>8 DEF Agreement, Asking
  <1>13. DownInv(server, client, commands, down)
    BY <1>6 DEF DownInv
  <1>14. QED
    BY <1>1, <1>3, <1>9, <1>10, <1>11, <1>12, <1>13 DEF IInv

\* Every action keeps the invariant.
LEMMA StepInv == IInv /\ [Next]_vars => IInv'
  <1> SUFFICES ASSUME IInv, [Next]_vars PROVE IInv'
    OBVIOUS
  <1>1. ASSUME NEW expired \in BOOLEAN, NEW n \in 1 .. BlocksPerSnap,
               SV_WriteDownloadToClient(expired, n)
        PROVE  IInv'
    BY <1>1, WriteStep
  <1>2. CASE SV_RefuseDownload
    BY <1>2, RefuseStep
  <1>3. CASE SV_ClientCommand
    BY <1>3, CommandStep
  <1>4. ASSUME NEW k \in DOMAIN down, CL_ParseServerMessage(k) PROVE IInv'
    BY <1>4, ParseStep
  <1>5. CASE UNCHANGED vars
    BY <1>5 DEF vars, IInv, TypesInv
  <1>6. QED
    BY <1>1, <1>2, <1>3, <1>4, <1>5 DEF Next

\* Both ends agree on the file, and what is in flight is of use to the client
\* only when it is of that file (SV_WriteDownloadToClient, CL_ParseDownload).
THEOREM Inductive == Spec => []IInv
  BY InitInv, StepInv, PTL DEF Spec

\* The client is never dropped for a broken download: the argument of nextdl is
\* always downloadClientBlock (SV_NextDownload_f).
THEOREM Unbroken == Spec => []NeverBroken
  <1>1. IInv => NeverBroken
    BY DEF IInv, NeverBroken
  <1>2. QED
    BY <1>1, Inductive, PTL

\* The number of every block fits into MSG_WriteShort.
FilesFit == \A f \in File : Blocks[f] <= ShortMax

\* Files whose blocks can all be numbered keep the numbers of both ends within
\* the short, and the window is never overfull (SV_WriteDownloadToClient).
THEOREM TypeCorrect ==
  ASSUME FilesFit
  PROVE  Spec => []TypeOK
  <1>1. IInv => TypeOK
    <2> SUFFICES ASSUME IInv PROVE TypeOK
      OBVIOUS
    <2>1. server \in Servers /\ client \in Clients /\ ServerInv(server, window)
      BY DEF IInv, TypesInv
    <2>2. /\ server.clientBlock \in Nat /\ server.currentBlock \in Nat
          /\ server.xmitBlock \in Nat
          /\ server.clientBlock <= server.currentBlock
          /\ server.xmitBlock <= server.currentBlock
      BY <2>1, ServerNumbers
    <2>3. server.currentBlock <= ShortMax + 1
      <3>1. PICK f \in File : server.currentBlock <= Blocks[f] + 1
        BY <2>1 DEF ServerInv
      <3>2. Blocks[f] \in Nat /\ Blocks[f] <= ShortMax
        BY BlocksTypes DEF FilesFit
      <3>3. QED
        BY <2>2, <3>1, <3>2
    <2>4. /\ server.clientBlock \in BlockNumber /\ server.currentBlock \in BlockNumber
          /\ server.xmitBlock \in BlockNumber
      BY <2>2, <2>3 DEF BlockNumber
    <2>5. server \in [name : File \cup {NoFile}, open : BOOLEAN,
                      currentBlock : BlockNumber, clientBlock : BlockNumber,
                      xmitBlock : BlockNumber, count : Nat, eof : BOOLEAN,
                      broken : BOOLEAN, refused : SUBSET File]
      BY <2>1, <2>4 DEF Servers
    <2>6. client.name \in File \cup {Nothing} /\ client.block \in BlockNumber
      BY <2>1 DEF Clients, BlockNumber
    <2>7. QED
      BY <2>1, <2>5, <2>6 DEF TypeOK, ServerInv
  <1>2. QED
    BY <1>1, Inductive, PTL

\* A message that copies blocks or gives the file up is a step of the abstract
\* transfer, and everything else leaves what is copied alone.
LEMMA StepRefines ==
  IInv /\ [Next]_vars =>
    [Transfer!Copy \/ Transfer!GiveUp]_<<client.name, client.copied>>
  <1> SUFFICES ASSUME IInv, [Next]_vars
               PROVE  \/ Transfer!Copy \/ Transfer!GiveUp
                      \/ UNCHANGED <<client.name, client.copied>>
    OBVIOUS
  <1>1. ASSUME NEW k \in DOMAIN down, CL_ParseServerMessage(k)
        PROVE  \/ Transfer!Copy \/ Transfer!GiveUp
               \/ UNCHANGED <<client.name, client.copied>>
    <2> DEFINE d == Parsed(client, down[k])
               f == client.name
    <2>1. client' = [d EXCEPT !.out = <<>>]
      BY <1>1 DEF CL_ParseServerMessage
    <2> HIDE DEF d
    <2>2. d \in Clients => client'.name = d.name /\ client'.copied = d.copied
      BY <2>1, Cleared
    <2>3. /\ client \in Clients /\ ClientInv(client)
          /\ client.copied \in [File -> Seq(File \X Nat)]
      BY DEF IInv, TypesInv, Clients
    <2>4. CASE d = client
      BY <2>2, <2>3, <2>4
    <2>5. CASE Over(k)
      BY <2>2, <2>5 DEF Over, Parted, d
    <2>6. CASE Refused(k)
      <3>1. d \in Clients /\ d.name = client.name /\ d.copied = client.copied
        BY <2>3, <2>6 DEF Refused, Clients, d
      <3>2. QED
        BY <2>2, <3>1
    <2>7. CASE GivenUp(k)
      <3>1. f \in File /\ f + 1 = Nothing /\ client.block = 0
        BY <2>7 DEF GivenUp
      <3>2. client'.name = Nothing /\ client'.copied = client.copied
        BY <2>2, <2>7 DEF GivenUp, Parted, d
      <3>3. client.copied[f] = <<>>
        <4>1. Transfer!Prefix(f, 0) = <<>>
          BY <3>1, PrefixProperties, EmptySeq
        <4>2. QED
          BY <2>3, <3>1, <4>1 DEF ClientInv
      <3>4. Transfer!GiveUp
        BY <3>1, <3>2, <3>3 DEF Transfer!GiveUp, File
      <3>5. QED
        BY <3>4
    <2>8. CASE Served(k)
      <3>1. f \in File /\ client.block \in Nat /\ Blocks[f] \in Nat
            /\ client.block <= Blocks[f]
        BY <2>8, ServingNumbers DEF Served, Serving
      <3>2. Len(client.copied[f]) = client.block
        BY <2>3, <3>1, PrefixProperties DEF ClientInv
      <3>3. CASE Took(server, client, d)
        <4>1. /\ d \in Clients /\ d.name = f /\ d.block <= Blocks[f]
              /\ d.block \in client.block .. server.currentBlock
              /\ d.copied = [client.copied EXCEPT ![f] = Transfer!Prefix(f, d.block)]
          BY <3>3 DEF Took
        <4>2. d.block \in Len(client.copied[f]) .. Blocks[f]
          BY <3>1, <3>2, <4>1
        <4>3. Transfer!Copy
          BY <2>2, <3>1, <4>1, <4>2 DEF Transfer!Copy, File
        <4>4. QED
          BY <4>3
      <3>4. CASE Completed(server, client, down[k], d)
        <4>1. /\ d \in Clients /\ d.name = f + 1
              /\ d.copied = [client.copied EXCEPT
                               ![f] = Transfer!Prefix(f, Blocks[f])]
          BY <3>4 DEF Completed
        <4>2. Blocks[f] \in Len(client.copied[f]) .. Blocks[f]
          BY <3>1, <3>2
        <4>3. Transfer!Copy
          BY <2>2, <3>1, <4>1, <4>2 DEF Transfer!Copy, File
        <4>4. QED
          BY <4>3
      <3>5. QED
        BY <2>8, <3>3, <3>4 DEF Served, d
    <2>9. QED
      BY <2>4, <2>5, <2>6, <2>7, <2>8, ParseEffect DEF Useless, d
  <1>2. ASSUME client' = client
        PROVE  UNCHANGED <<client.name, client.copied>>
    BY <1>2
  <1>3. ASSUME NEW expired \in BOOLEAN, NEW n \in 1 .. BlocksPerSnap,
               SV_WriteDownloadToClient(expired, n)
        PROVE  client' = client
    BY <1>3 DEF SV_WriteDownloadToClient
  <1>4. CASE SV_RefuseDownload
    BY <1>2, <1>4 DEF SV_RefuseDownload
  <1>5. CASE SV_ClientCommand
    BY <1>2, <1>5 DEF SV_ClientCommand
  <1>6. CASE UNCHANGED vars
    BY <1>2, <1>6 DEF vars
  <1>7. QED
    BY <1>1, <1>2, <1>3, <1>4, <1>5, <1>6 DEF Next

\* Whatever is lost and resent, the client copies every file block by block,
\* none left out, repeated or taken from another file (CL_ParseDownload).
THEOREM Refinement == Spec => ImplementsTransfer
  <1>1. Init => Transfer!Init
    BY DEF Init, Transfer!Init, File
  <1>2. QED
    BY <1>1, StepRefines, Inductive, PTL
    DEF Spec, ImplementsTransfer, Transfer!Spec
=============================================================================
