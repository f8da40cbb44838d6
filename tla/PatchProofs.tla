---------------------------- MODULE PatchProofs ----------------------------
(***************************************************************************)
(* Proofs about Patch for every file, every offset it is opened at and     *)
(* every list of commands.                                                 *)
(***************************************************************************)
EXTENDS Patch, TLAPS

(***************************************************************************)
(* The inductive invariant, of a file whose last byte is n.                *)
(***************************************************************************)
\* The file is a row of bytes as long as it was, and ends with the end of a message.
Row(f, n) == DOMAIN f = 0 .. n /\ \A b \in 0 .. n : f[b] \in Byte
Kept(n) == /\ n \in Nat /\ Row(file, n) /\ DOMAIN origin = 0 .. n
           /\ EndMark(file[n])

\* While the tool runs the decoder has read the file as it is.  It never stands
\* behind its end, and what it takes for its place in the file is not behind where
\* it stands: no edit reaches beyond the end.  Told where it stands, it knows.
Placed(n) == /\ fileoff \in Nat /\ base \in Nat /\ at \in Nat
             /\ fileoff <= base /\ base <= at /\ at <= n + 1
             /\ told => base = fileoff
             /\ status = "running" => buffered = file /\ cut = {}

\* As long as no edit went astray, messages are whole outside those cut short, and
\* only those edited have changed; a decoder that was told where it stands is at
\* the start of a message or at the end of the file.
InPlace(n) == /\ \A b \in (0 .. n) \ cut : InWhole(file, b)
              /\ \A o \in DOMAIN edits \ cut : Whole(file, o) /\ file[o].of.icnt = edits[o]
              /\ \A b \in (0 .. n) \ cut :
                   Start(origin, b) \notin DOMAIN edits => file[b] = origin[b]
              /\ status = "running" /\ told /\ at <= n => file[at].nth = 0

IInv == \E n \in Nat : Kept(n) /\ Placed(n) /\ (~astray => InPlace(n))

-----------------------------------------------------------------------------
(***************************************************************************)
(* Rows of bytes.                                                          *)
(***************************************************************************)
LEMMA ByteFacts ==
  ASSUME NEW b \in Byte
  PROVE  /\ b.of \in Message /\ b.nth \in Nat /\ b.of.size \in Nat /\ b.of.size > 0
         /\ b.of.rest \in Nat /\ b.of.rest > 0 /\ b.nth < b.of.size
         /\ b = [of |-> b.of, nth |-> b.nth]
  BY DEF Byte, Message

LEMMA LastBelow ==
  ASSUME NEW z \in Nat, z > 0
  PROVE  \E i \in 0 .. z - 1 : i = z - 1
  <1>1. z - 1 \in 0 .. z - 1
    OBVIOUS
  <1> QED
    BY <1>1, Zenon

\* What the decoder returns ends within the file.
LEMMA DecodedFits ==
  ASSUME NEW n \in Nat, NEW f, Row(f, n), NEW o \in 0 .. n, NEW m \in Decoded(f, o)
  PROVE  m \in Message /\ o + m.size <= n + 1
  <1>1. CASE Whole(f, o)
    <2>1. m = f[o].of /\ f[o] \in Byte
      BY <1>1 DEF Decoded, Row
    <2>2. m \in Message /\ m.size \in Nat /\ m.size > 0
      BY <2>1, ByteFacts
    <2>3. PICK z \in Nat : z = m.size /\ z > 0
      BY <2>2, Zenon
    <2>4. PICK i \in 0 .. z - 1 : i = z - 1
      BY <2>3, LastBelow, Zenon
    <2>5. f[o].of.size = z
      BY <2>1, <2>3, Zenon
    <2>6. o + i \in 0 .. n
      BY <1>1, <2>4, <2>5 DEF Whole, Row
    <2> QED
      BY <2>2, <2>3, <2>4, <2>6
  <1>2. CASE ~Whole(f, o)
    <2>1. m \in Torn(f, o)
      BY <1>2 DEF Decoded
    <2>2. /\ m \in [size : { k + 1 : k \in DOMAIN f }, icnt : Values \cup {NoIcnt},
                    rest : { k + 1 : k \in DOMAIN f }]
          /\ o + m.size - 1 \in DOMAIN f
      BY <2>1 DEF Torn
    <2>3. { k + 1 : k \in DOMAIN f } \subseteq Nat \ {0}
      BY DEF Row
    <2>4. m \in Message
      BY <2>2, <2>3, PatchAssumption DEF Message
    <2>5. m.size \in Nat
      BY <2>4 DEF Message
    <2> QED
      BY <2>2, <2>4, <2>5 DEF Row
  <1> QED
    BY <1>1, <1>2

\* Of two whole messages one ends before the other starts.
LEMMA Apart ==
  ASSUME NEW f, NEW o \in Nat, NEW p \in Nat, Whole(f, o), Whole(f, p),
         f[o].of.size \in Nat, o < p
  PROVE  o + f[o].of.size <= p
  <1> SUFFICES ASSUME p < o + f[o].of.size PROVE FALSE
    OBVIOUS
  <1>1. PICK i \in Nat : i = p - o
    OBVIOUS
  <1>2. i \in 0 .. f[o].of.size - 1 /\ i > 0 /\ o + i = p
    BY <1>1
  <1>3. f[p] = [of |-> f[o].of, nth |-> i]
    BY <1>2 DEF Whole
  <1>4. f[p].nth = 0
    BY DEF Whole
  <1> QED
    BY <1>2, <1>3, <1>4

\* A byte of a whole message tells where the message starts.
LEMMA StartOfByte ==
  ASSUME NEW f, NEW o \in Nat, Whole(f, o), f[o].of.size \in Nat,
         NEW b \in o .. o + f[o].of.size - 1
  PROVE  Start(f, b) = o /\ b \in DOMAIN f /\ f[b].of = f[o].of /\ f[b].nth = b - o
  <1>1. PICK i \in Nat : i = b - o
    OBVIOUS
  <1>2. i \in 0 .. f[o].of.size - 1 /\ o + i = b
    BY <1>1
  <1>3. b \in DOMAIN f /\ f[b] = [of |-> f[o].of, nth |-> i]
    BY <1>2 DEF Whole
  <1> QED
    BY <1>1, <1>3 DEF Start

\* A byte of a whole message is one of its bytes.
LEMMA InWholeFacts ==
  ASSUME NEW n \in Nat, NEW f, Row(f, n), NEW b \in 0 .. n, InWhole(f, b)
  PROVE  \E s \in 0 .. n : /\ s = Start(f, b) /\ Whole(f, s) /\ f[s].of.size \in Nat
                           /\ s <= b /\ b < s + f[s].of.size
  <1>1. f[b] \in Byte
    BY DEF Row
  <1>2. f[b].nth \in Nat /\ f[b].nth < f[b].of.size /\ f[b].of.size \in Nat
    BY <1>1, ByteFacts
  <1>3. PICK s : s = Start(f, b)
    OBVIOUS
  <1>4. s = b - f[b].nth
    BY <1>3 DEF Start
  <1>5. Whole(f, s) /\ f[s].of = f[b].of
    BY <1>3 DEF InWhole
  <1>6. s \in 0 .. n
    BY <1>5 DEF Whole, Row
  <1> QED
    BY <1>2, <1>3, <1>4, <1>5, <1>6

\* A row of whole messages goes on with a message where one ends.
LEMMA NextStarts ==
  ASSUME NEW n \in Nat, NEW f, Row(f, n), \A b \in 0 .. n : InWhole(f, b),
         NEW o \in 0 .. n, Whole(f, o), o + f[o].of.size <= n
  PROVE  f[o + f[o].of.size].nth = 0
  <1>1. f[o] \in Byte
    BY DEF Row
  <1>2. f[o].of.size \in Nat /\ f[o].of.size > 0
    BY <1>1, ByteFacts
  <1>3. PICK b \in 0 .. n : b = o + f[o].of.size
    BY <1>2
  <1>4. PICK s \in 0 .. n : /\ s = Start(f, b) /\ Whole(f, s) /\ f[s].of.size \in Nat
                            /\ s <= b /\ b < s + f[s].of.size
    BY InWholeFacts
  <1>5. s # o
    BY <1>3, <1>4
  <1>6. ~(s < o)
    <2> SUFFICES ASSUME s < o PROVE FALSE
      OBVIOUS
    <2>1. s + f[s].of.size <= o
      BY <1>4, Apart
    <2> QED
      BY <1>2, <1>3, <1>4, <2>1
  <1>7. o + f[o].of.size <= s
    BY <1>2, <1>4, <1>5, <1>6, Apart
  <1>8. s = b
    BY <1>3, <1>4, <1>7
  <1> QED
    BY <1>3, <1>4, <1>8 DEF Whole

\* What is written over a message leaves the others alone.
LEMMA OthersStay ==
  ASSUME NEW n \in Nat, NEW f, Row(f, n), NEW o \in 0 .. n, Whole(f, o),
         NEW h, NEW k \in Nat, k <= f[o].of.size,
         NEW g, g = Written(f, o, h, k)
  PROVE  /\ \A b \in 0 .. n : b \notin o .. o + f[o].of.size - 1 => g[b] = f[b]
         /\ \A p \in 0 .. n : Whole(f, p) /\ p # o => Whole(g, p) /\ g[p] = f[p]
         /\ \A b \in 0 .. n : InWhole(f, b) /\ b \notin o .. o + f[o].of.size - 1
                                => InWhole(g, b)
  <1>1. f[o] \in Byte
    BY DEF Row
  <1>2. PICK z \in Nat : z = f[o].of.size
    BY <1>1, ByteFacts
  <1>3. ASSUME NEW b \in 0 .. n, b \notin o .. o + z - 1 PROVE g[b] = f[b]
    <2>1. b \in DOMAIN f /\ b \notin o .. o + k - 1
      BY <1>2, <1>3 DEF Row
    <2> QED
      BY <2>1 DEF Written
  <1>4. ASSUME NEW p \in 0 .. n, Whole(f, p), p # o
        PROVE  Whole(g, p) /\ g[p] = f[p]
    <2>1. f[p] \in Byte
      BY DEF Row
    <2>2. PICK y \in Nat : y = f[p].of.size /\ y > 0
      BY <2>1, ByteFacts
    <2>3. p + y <= o \/ o + z <= p
      BY <1>2, <1>4, <2>2, Apart
    <2>4. \A i \in 0 .. y - 1 : p + i \in DOMAIN f /\ f[p + i] = [of |-> f[p].of, nth |-> i]
      BY <1>4, <2>2 DEF Whole
    <2>5. ASSUME NEW i \in 0 .. y - 1
          PROVE  p + i \in DOMAIN g /\ g[p + i] = [of |-> f[p].of, nth |-> i]
      <3>1. p + i \in 0 .. n /\ p + i \notin o .. o + z - 1
        <4>1. p + i \in 0 .. n
          BY <2>4 DEF Row
        <4> QED
          BY <2>3, <4>1
      <3> QED
        BY <1>3, <2>4, <3>1 DEF Written
    <2>6. p \notin o .. o + z - 1
      BY <2>2, <2>3
    <2>7. g[p] = f[p]
      BY <1>3, <2>6
    <2>8. p \in DOMAIN g /\ g[p].nth = 0
      BY <1>4, <2>7 DEF Whole, Written
    <2> QED
      BY <2>2, <2>5, <2>7, <2>8 DEF Whole
  <1>5. ASSUME NEW b \in 0 .. n, InWhole(f, b), b \notin o .. o + z - 1
        PROVE  InWhole(g, b)
    <2>1. PICK s \in 0 .. n : /\ s = Start(f, b) /\ Whole(f, s) /\ f[s].of.size \in Nat
                              /\ s <= b /\ b < s + f[s].of.size
      BY <1>5, InWholeFacts
    <2>2. s # o
      BY <1>2, <1>5, <2>1
    <2>3. Whole(g, s) /\ g[s] = f[s] /\ g[b] = f[b]
      BY <1>3, <1>4, <1>5, <2>1, <2>2
    <2>4. s = Start(g, b) /\ f[s].of = f[b].of
      BY <1>5, <2>1, <2>3 DEF Start, InWhole
    <2> QED
      BY <2>3, <2>4 DEF InWhole
  <1> QED
    BY <1>2, <1>3, <1>4, <1>5

-----------------------------------------------------------------------------
(***************************************************************************)
(* An edit.                                                                *)
(***************************************************************************)
\* The bytes of an edit: the message with its new I-CNT, and idle ones behind it.
LEMMA FilledFacts ==
  ASSUME NEW m \in Message, NEW v \in Values, Fits(m, v)
  PROVE  /\ Encoded(m, v) \in Message /\ Encoded(m, v).icnt = v
         /\ m.size \in Nat /\ m.size > 0
         /\ Encoded(m, v).size \in Nat /\ Encoded(m, v).size > 0
         /\ Encoded(m, v).size <= m.size
         /\ \A i \in 0 .. m.size - 1 :
              Filled(m, v)[i] = [of |-> IF i < Encoded(m, v).size THEN Encoded(m, v) ELSE Idle,
                                 nth |-> IF i < Encoded(m, v).size THEN i ELSE 0]
         /\ \A i \in 0 .. m.size - 1 : Filled(m, v)[i] \in Byte
         /\ EndMark(Filled(m, v)[m.size - 1])
  <1>1. m.size \in Nat /\ m.size > 0 /\ m.rest \in Nat /\ m.rest > 0
    BY DEF Message
  <1>2. IcntBytes[v] \in Nat /\ v \in Nat
    BY PatchAssumption
  <1>3. PICK k \in Nat : k = m.rest + IcntBytes[v] /\ k > 0
    BY <1>1, <1>2
  <1>4. PICK e : e = [m EXCEPT !.icnt = v, !.size = k]
    OBVIOUS
  <1>5. e \in Message /\ e.icnt = v /\ e.size = k /\ e = Encoded(m, v)
    <2>1. e = Encoded(m, v)
      BY <1>3, <1>4 DEF Encoded
    <2>2. PICK x : x = [m EXCEPT !.icnt = v]
      OBVIOUS
    <2>3. x \in Message /\ x.icnt = v
      BY <1>2, <2>2 DEF Message
    <2>4. e = [x EXCEPT !.size = k]
      BY <1>4, <2>2 DEF Message
    <2>5. k \in Nat \ {0}
      BY <1>3
    <2> QED
      BY <2>1, <2>3, <2>4, <2>5 DEF Message
  <1>6. k <= m.size
    BY <1>5 DEF Fits
  <1>7. Idle \in Message /\ Idle.size = 1
    BY DEF Message, Idle
  <1>8. PICK z \in Nat : z = m.size /\ z > 0
    BY <1>1
  <1>9. PICK h : h = Filled(m, v)
    OBVIOUS
  <1>10. \A i \in 0 .. z - 1 : h[i] = [of |-> IF i < k THEN e ELSE Idle,
                                       nth |-> IF i < k THEN i ELSE 0]
    BY <1>5, <1>8, <1>9 DEF Filled
  <1>11. \A i \in 0 .. z - 1 : h[i] \in Byte
    <2> TAKE i \in 0 .. z - 1
    <2>1. CASE i < k
      <3>1. h[i] = [of |-> e, nth |-> i]
        BY <1>10, <2>1
      <3> QED
        BY <1>5, <2>1, <3>1 DEF Byte
    <2>2. CASE ~(i < k)
      <3>1. h[i] = [of |-> Idle, nth |-> 0]
        BY <1>10, <2>2
      <3> QED
        BY <1>7, <3>1 DEF Byte
    <2> QED
      BY <2>1, <2>2
  <1>12. EndMark(h[z - 1])
    <2>1. CASE z - 1 < k
      <3>1. h[z - 1] = [of |-> e, nth |-> z - 1] /\ z = k
        BY <1>3, <1>6, <1>8, <1>10, <2>1
      <3> QED
        BY <1>5, <3>1 DEF EndMark
    <2>2. CASE ~(z - 1 < k)
      <3>1. h[z - 1] = [of |-> Idle, nth |-> 0]
        BY <1>8, <1>10, <2>2
      <3> QED
        BY <1>7, <3>1 DEF EndMark
    <2> QED
      BY <2>1, <2>2
  <1> QED
    BY <1>3, <1>5, <1>6, <1>8, <1>9, <1>10, <1>11, <1>12

\* Bytes written somewhere in the file: it stays a row of bytes, and its last byte
\* ends a message.
LEMMA WriteKeepsRow ==
  ASSUME NEW n \in Nat, NEW f, Row(f, n), EndMark(f[n]),
         NEW m \in Message, NEW v \in Values, Fits(m, v),
         NEW w \in Nat, w + m.size <= n + 1,
         NEW k \in Nat, k <= m.size,
         NEW g, g = Written(f, w, Filled(m, v), k)
  PROVE  Row(g, n) /\ EndMark(g[n])
  <1>1. PICK z \in Nat : z = m.size /\ z > 0
    BY FilledFacts
  <1>2. PICK h : h = Filled(m, v)
    OBVIOUS
  <1>3. (\A i \in 0 .. z - 1 : h[i] \in Byte) /\ EndMark(h[z - 1])
    BY <1>1, <1>2, FilledFacts
  <1>4. DOMAIN g = 0 .. n
    BY DEF Row, Written
  <1>5. \A b \in 0 .. n : g[b] = IF b \in w .. w + k - 1 THEN h[b - w] ELSE f[b]
    BY <1>2 DEF Row, Written
  <1>6. \A b \in 0 .. n : g[b] \in Byte
    <2> TAKE b \in 0 .. n
    <2>1. CASE b \in w .. w + k - 1
      <3>1. b - w \in 0 .. z - 1
        BY <1>1, <2>1
      <3> QED
        BY <1>3, <1>5, <2>1, <3>1
    <2>2. CASE b \notin w .. w + k - 1
      BY <1>5, <2>2 DEF Row
    <2> QED
      BY <2>1, <2>2
  <1>7. EndMark(g[n])
    <2>1. CASE n \in w .. w + k - 1
      <3>1. n - w = z - 1
        BY <1>1, <2>1
      <3> QED
        BY <1>3, <1>5, <2>1, <3>1
    <2>2. CASE n \notin w .. w + k - 1
      BY <1>5, <2>2
    <2> QED
      BY <2>1, <2>2
  <1> QED
    BY <1>4, <1>6, <1>7 DEF Row

\* A message edited where it is: it is whole with its new I-CNT, and idle messages
\* fill what is left of its bytes.
LEMMA EditInPlace ==
  ASSUME NEW n \in Nat, NEW f, Row(f, n), NEW o \in 0 .. n, Whole(f, o),
         NEW v \in Values, Fits(f[o].of, v),
         NEW g, g = Written(f, o, Filled(f[o].of, v), f[o].of.size)
  PROVE  /\ Whole(g, o) /\ g[o].of.icnt = v
         /\ \A b \in o .. o + f[o].of.size - 1 : InWhole(g, b)
  <1>1. f[o] \in Byte
    BY DEF Row
  <1>2. PICK m \in Message : m = f[o].of
    BY <1>1, ByteFacts
  <1>3. PICK z \in Nat : z = m.size /\ z > 0
    BY <1>2, FilledFacts
  <1>4. PICK e : e = Encoded(m, v)
    OBVIOUS
  <1>5. e.icnt = v
    BY <1>2, <1>4, FilledFacts
  <1>6. PICK k \in Nat : k = e.size /\ k > 0 /\ k <= z
    BY <1>2, <1>3, <1>4, FilledFacts
  <1>7. PICK h : h = Filled(m, v)
    OBVIOUS
  <1>8. \A i \in 0 .. z - 1 : h[i] = [of |-> IF i < k THEN e ELSE Idle,
                                      nth |-> IF i < k THEN i ELSE 0]
    BY <1>2, <1>3, <1>4, <1>6, <1>7, FilledFacts
  <1>9. g = Written(f, o, h, z)
    BY <1>2, <1>3, <1>7
  <1>10. \A i \in 0 .. z - 1 : o + i \in DOMAIN f
    BY <1>2, <1>3 DEF Whole
  <1>11. ASSUME NEW i \in 0 .. z - 1
         PROVE  o + i \in DOMAIN g /\ g[o + i] = h[i]
    <2>1. o + i \in DOMAIN f /\ o + i \in o .. o + z - 1 /\ (o + i) - o = i
      BY <1>10
    <2> QED
      BY <1>9, <2>1 DEF Written
  <1>12. g[o] = [of |-> e, nth |-> 0] /\ o \in DOMAIN g
    <2>1. o + 0 = o /\ 0 \in 0 .. z - 1 /\ 0 < k
      BY <1>3, <1>6
    <2>2. g[o] = h[0] /\ o \in DOMAIN g
      BY <1>11, <2>1
    <2> QED
      BY <1>8, <2>1, <2>2
  <1>13. ASSUME NEW i \in 0 .. k - 1
         PROVE  o + i \in DOMAIN g /\ g[o + i] = [of |-> e, nth |-> i]
    <2>1. i \in 0 .. z - 1 /\ i < k
      BY <1>6
    <2> QED
      BY <1>8, <1>11, <2>1
  <1>14. Whole(g, o)
    BY <1>6, <1>12, <1>13 DEF Whole
  <1>15. ASSUME NEW b \in o .. o + z - 1 PROVE InWhole(g, b)
    <2>1. PICK i \in 0 .. z - 1 : i = b - o
      BY <1>3
    <2>2. o + i = b
      BY <2>1
    <2>3. CASE i < k
      <3>1. g[b] = [of |-> e, nth |-> i]
        BY <1>13, <2>2, <2>3
      <3>2. Start(g, b) = o
        BY <2>1, <3>1 DEF Start
      <3> QED
        BY <1>12, <1>14, <3>1, <3>2 DEF InWhole
    <2>4. CASE ~(i < k)
      <3>1. b \in DOMAIN g /\ g[b] = h[i]
        BY <1>11, <2>2
      <3>2. g[b] = [of |-> Idle, nth |-> 0]
        BY <1>8, <2>4, <3>1
      <3>3. Start(g, b) = b
        BY <3>2 DEF Start
      <3>4. Whole(g, b)
        <4>1. \A j \in 0 .. Idle.size - 1 : b + j = b /\ j = 0
          BY DEF Idle
        <4> QED
          BY <3>1, <3>2, <4>1 DEF Whole
      <3> QED
        BY <3>3, <3>4 DEF InWhole
    <2> QED
      BY <2>3, <2>4
  <1> QED
    BY <1>2, <1>3, <1>5, <1>12, <1>14, <1>15

-----------------------------------------------------------------------------
(***************************************************************************)
(* The invariant and the theorems.                                         *)
(***************************************************************************)
LEMMA InitIInv == Init => IInv
  <1> SUFFICES ASSUME Init PROVE IInv
    OBVIOUS
  <1>1. IsFile(file) /\ Whole(file, base) /\ file \in Files /\ base \in OpenAt
    BY PatchAssumption DEF Init
  <1>2. PICK n \in DOMAIN file : DOMAIN file = 0 .. n
    BY <1>1 DEF IsFile
  <1>3. n \in Nat /\ Row(file, n) /\ \A b \in 0 .. n : InWhole(file, b)
    BY <1>1, <1>2 DEF IsFile, Row
  <1>4. EndMark(file[n])
    <2>1. n \in 0 .. n
      BY <1>3
    <2>2. PICK s \in 0 .. n : /\ s = Start(file, n) /\ Whole(file, s)
                              /\ file[s].of.size \in Nat
                              /\ s <= n /\ n < s + file[s].of.size
      BY <1>3, <2>1, InWholeFacts
    <2>3. PICK z \in Nat : z = file[s].of.size /\ z > 0
      BY <1>3, <2>2
    <2>4. PICK i \in 0 .. z - 1 : i = z - 1
      BY <2>3, LastBelow, Zenon
    <2>5. s + i \in 0 .. n /\ file[s + i] = [of |-> file[s].of, nth |-> i]
      BY <1>2, <2>2, <2>3 DEF Whole
    <2>6. s + i = n
      BY <1>3, <2>2, <2>3, <2>4, <2>5
    <2> QED
      BY <2>3, <2>4, <2>5, <2>6 DEF EndMark
  <1>5. base \in 0 .. n
    BY <1>1, <1>2 DEF Whole
  <1>6. Kept(n)
    BY <1>2, <1>3, <1>4 DEF Kept, Init
  <1>7. Placed(n)
    <2>1. /\ fileoff = 0 /\ at = base /\ buffered = file /\ cut = {}
          /\ told => base = 0
      BY Zenon DEF Init
    <2> QED
      BY <1>3, <1>5, <2>1 DEF Placed
  <1>8. InPlace(n)
    <2>1. /\ DOMAIN edits = {} /\ cut = {} /\ file = origin /\ at = base
      BY DEF Init
    <2>2. file[at].nth = 0
      BY <1>1, <2>1 DEF Whole
    <2> QED
      BY <1>3, <2>1, <2>2 DEF InPlace
  <1> QED
    BY <1>3, <1>6, <1>7, <1>8 DEF IInv

\* What a running tool reads.
LEMMA Reads ==
  ASSUME NEW n \in Nat, Kept(n), Placed(n), NEW m \in Decoded(buffered, at), Read(m)
  PROVE  /\ status = "running" /\ buffered = file /\ cut = {} /\ at \in 0 .. n
         /\ m \in Message /\ m.size \in Nat /\ m.size > 0 /\ at + m.size <= n + 1
  <1>1. status = "running" /\ buffered = file /\ cut = {} /\ at \in DOMAIN file
    BY DEF Placed, Read, AtEnd
  <1>2. at \in 0 .. n
    BY <1>1 DEF Kept, Row
  <1>3. m \in Message /\ at + m.size <= n + 1
    BY <1>1, <1>2, DecodedFits DEF Kept
  <1>4. m.size \in Nat /\ m.size > 0
    BY <1>3 DEF Message
  <1> QED
    BY <1>1, <1>2, <1>3, <1>4

\* Told where it stands, and with no edit astray, it reads the message that starts there.
LEMMA ReadsWhole ==
  ASSUME NEW n \in Nat, Kept(n), Placed(n), InPlace(n), told,
         NEW m \in Decoded(buffered, at), Read(m)
  PROVE  Whole(file, at) /\ m = file[at].of
  <1>1. /\ status = "running" /\ buffered = file /\ cut = {} /\ at \in 0 .. n
    BY Reads
  <1>2. file[at].nth = 0 /\ InWhole(file, at)
    BY <1>1 DEF InPlace
  <1>3. Start(file, at) = at
    BY <1>1, <1>2 DEF Start
  <1>4. Whole(file, at)
    BY <1>2, <1>3 DEF InWhole
  <1> QED
    BY <1>1, <1>4 DEF Decoded

\* Where the tool takes itself to be.
LEMMA Offset ==
  ASSUME NEW n \in Nat, Placed(n)
  PROVE  /\ cur_off + fileoff \in Nat /\ cur_off + fileoff <= at
         /\ told => cur_off + fileoff = at
  BY DEF Placed, cur_off

\* The decoder starts again somewhere in the file.
LEMMA ReinitKeeps ==
  ASSUME NEW n \in Nat, Kept(n), Placed(n), ~astray => InPlace(n), status = "running",
         NEW o \in 0 .. n + 1, Reinit(o, file),
         UNCHANGED <<file, origin, edits, cut, astray, status>>,
         ~astray /\ told' /\ o <= n => file[o].nth = 0
  PROVE  IInv'
  <1>1. fileoff' = o /\ base' = o /\ at' = o /\ buffered' = file
    BY DEF Reinit
  <1>2. Kept(n)'
    BY DEF Kept, Row
  <1>3. Placed(n)'
    BY <1>1 DEF Placed
  <1>4. ~astray' => InPlace(n)'
    <2> SUFFICES ASSUME ~astray PROVE InPlace(n)'
      OBVIOUS
    <2>1. cut = {} /\ InPlace(n)
      BY DEF Placed
    <2> QED
      BY <1>1, <2>1 DEF InPlace
  <1> QED
    BY <1>2, <1>3, <1>4 DEF IInv

\* An edit, cut short or not, that went astray: the file is a row of bytes as before.
LEMMA EditKeepsRow ==
  ASSUME NEW n \in Nat, Kept(n), Placed(n), NEW m \in Decoded(buffered, at), Read(m),
         NEW v \in Values, Fits(m, v), NEW k \in Nat, k <= m.size,
         file' = Written(file, cur_off + fileoff, Filled(m, v), k), UNCHANGED origin
  PROVE  Kept(n)'
  <1>1. at \in 0 .. n /\ m \in Message /\ m.size \in Nat /\ at + m.size <= n + 1
    BY Reads
  <1>2. PICK w \in Nat : w = cur_off + fileoff /\ w <= at
    BY Offset
  <1>3. w + m.size <= n + 1
    BY <1>1, <1>2
  <1>4. PICK g : g = file'
    OBVIOUS
  <1>5. g = Written(file, w, Filled(m, v), k)
    BY <1>2, <1>4
  <1>6. Row(file, n) /\ EndMark(file[n]) /\ DOMAIN origin = 0 .. n
    BY DEF Kept
  <1>7. Row(g, n) /\ EndMark(g[n])
    BY <1>1, <1>3, <1>5, <1>6, WriteKeepsRow
  <1> QED
    BY <1>4, <1>6, <1>7 DEF Kept, Row, EndMark

LEMMA SeekIInv ==
  ASSUME IInv, NEW o \in DOMAIN file \cup End(file), SeekTo(o)
  PROVE  IInv'
  <1>1. PICK n \in Nat : Kept(n) /\ Placed(n) /\ (~astray => InPlace(n))
    BY DEF IInv
  <1>2. DOMAIN file = 0 .. n
    BY <1>1 DEF Kept, Row
  <1>3. o \in 0 .. n + 1
    BY <1>2 DEF End
  <1>4. /\ status = "running" /\ Reinit(o, file)
        /\ UNCHANGED <<file, origin, edits, cut, astray, status>>
        /\ o \in DOMAIN file => file[o].nth = 0
    BY DEF SeekTo, Running
  <1> QED
    BY <1>1, <1>2, <1>3, <1>4, ReinitKeeps

LEMMA NextMsgIInv ==
  ASSUME IInv, NextMsg
  PROVE  IInv'
  <1>1. PICK n \in Nat : Kept(n) /\ Placed(n) /\ (~astray => InPlace(n))
    BY DEF IInv
  <1>2. PICK m \in Decoded(buffered, at) : Read(m) /\ at' = at + m.size
    BY DEF NextMsg
  <1>3. UNCHANGED <<file, fileoff, base, buffered, status, origin, edits, cut, told, astray>>
    BY DEF NextMsg, Running, history
  <1>4. /\ status = "running" /\ buffered = file /\ cut = {} /\ at \in 0 .. n
        /\ m.size \in Nat /\ m.size > 0 /\ at + m.size <= n + 1
    BY <1>1, <1>2, Reads
  <1>5. Kept(n)'
    BY <1>1, <1>3 DEF Kept, Row
  <1>6. Placed(n)'
    BY <1>1, <1>2, <1>3, <1>4 DEF Placed
  <1>7. ~astray' => InPlace(n)'
    <2> SUFFICES ASSUME ~astray PROVE InPlace(n)'
      BY <1>3
    <2>1. InPlace(n)
      BY <1>1
    <2>2. ASSUME told, at' <= n PROVE file[at'].nth = 0
      <3>1. Whole(file, at) /\ m = file[at].of
        BY <1>1, <1>2, <2>1, <2>2, ReadsWhole
      <3>2. \A b \in 0 .. n : InWhole(file, b)
        BY <1>4, <2>1 DEF InPlace
      <3>3. Row(file, n)
        BY <1>1 DEF Kept
      <3>4. at + file[at].of.size <= n /\ at' = at + file[at].of.size
        BY <1>2, <2>2, <3>1
      <3>5. file[at + file[at].of.size].nth = 0
        BY <1>4, <3>1, <3>2, <3>3, <3>4, NextStarts
      <3> QED
        BY <3>4, <3>5
    <2> QED
      BY <1>3, <2>1, <2>2 DEF InPlace
  <1> QED
    BY <1>5, <1>6, <1>7 DEF IInv

LEMMA ShowIInv ==
  ASSUME IInv, ShowMsg
  PROVE  IInv'
  <1>1. PICK n \in Nat : Kept(n) /\ Placed(n) /\ (~astray => InPlace(n))
    BY DEF IInv
  <1>2. PICK m \in Decoded(buffered, at) : Read(m)
    BY DEF ShowMsg
  <1>3. status = "running" /\ cut = {} /\ at \in 0 .. n
    BY <1>1, <1>2, Reads
  <1>4. PICK w \in 0 .. n + 1 : w = cur_off + fileoff /\ (told => w = at)
    BY <1>1, <1>3, Offset
  <1>5. /\ Reinit(w, file) /\ told' = told
        /\ UNCHANGED <<file, origin, edits, cut, astray, status>>
    BY <1>4 DEF ShowMsg, Running
  <1>6. ~astray /\ told /\ w <= n => file[w].nth = 0
    BY <1>1, <1>3, <1>4 DEF InPlace
  <1> QED
    BY <1>1, <1>3, <1>5, <1>6, ReinitKeeps

LEMMA SetIcntIInv ==
  ASSUME IInv, NEW v \in Values, SetIcnt(v)
  PROVE  IInv'
  <1>1. PICK n \in Nat : Kept(n) /\ Placed(n) /\ (~astray => InPlace(n))
    BY DEF IInv
  <1>2. PICK m \in Decoded(buffered, at) :
          /\ Read(m) /\ Fits(m, v)
          /\ file' = Written(file, cur_off + fileoff, Filled(m, v), m.size)
    BY DEF SetIcnt
  <1>3. /\ status = "running" /\ cut = {} /\ at \in 0 .. n
        /\ m.size \in Nat /\ m.size > 0
    BY <1>1, <1>2, Reads
  <1>4. PICK w \in 0 .. n + 1 : w = cur_off + fileoff /\ (told => w = at)
    BY <1>1, <1>3, Offset
  <1>5. /\ fileoff' = w /\ base' = w /\ at' = w /\ buffered' = file'
        /\ edits' = EditOf(at, v) /\ astray' = (astray \/ ~told)
        /\ UNCHANGED <<status, origin, cut, told>>
    BY <1>4 DEF SetIcnt, Running, Reinit
  <1>6. m.size <= m.size
    BY <1>3
  <1>7. Kept(n)'
    BY <1>1, <1>2, <1>3, <1>5, <1>6, EditKeepsRow
  <1>8. Placed(n)'
    BY <1>3, <1>5 DEF Placed
  <1>9. ASSUME ~astray' PROVE InPlace(n)'
    <2>1. ~astray /\ told /\ InPlace(n) /\ w = at
      BY <1>1, <1>4, <1>5, <1>9
    <2>2. Whole(file, at) /\ m = file[at].of
      BY <1>1, <1>2, <2>1, ReadsWhole
    <2>3. PICK g : g = file'
      OBVIOUS
    <2>4. g = Written(file, at, Filled(file[at].of, v), file[at].of.size)
      BY <1>2, <1>4, <2>1, <2>2, <2>3
    <2>5. Row(file, n) /\ Fits(file[at].of, v) /\ file[at].of.size \in Nat
          /\ file[at].of.size <= file[at].of.size
      BY <1>1, <1>2, <1>3, <1>6, <2>2 DEF Kept
    <2>6. /\ \A b \in 0 .. n : b \notin at .. at + file[at].of.size - 1 => g[b] = file[b]
          /\ \A p \in 0 .. n : Whole(file, p) /\ p # at => Whole(g, p) /\ g[p] = file[p]
          /\ \A b \in 0 .. n : InWhole(file, b) /\ b \notin at .. at + file[at].of.size - 1
                                 => InWhole(g, b)
      BY <1>3, <2>2, <2>4, <2>5, OthersStay
    <2>7. /\ Whole(g, at) /\ g[at].of.icnt = v
          /\ \A b \in at .. at + file[at].of.size - 1 : InWhole(g, b)
      BY <1>3, <2>2, <2>4, <2>5, EditInPlace
    <2>8. \A b \in 0 .. n : InWhole(g, b)
      BY <1>3, <2>1, <2>6, <2>7 DEF InPlace
    <2>9. /\ DOMAIN edits' = DOMAIN edits \cup {at} /\ edits'[at] = v
          /\ \A o \in DOMAIN edits : o # at => edits'[o] = edits[o]
      BY <1>5 DEF EditOf
    <2>10. ASSUME NEW o \in DOMAIN edits' PROVE Whole(g, o) /\ g[o].of.icnt = edits'[o]
      <3>1. CASE o = at
        BY <2>7, <2>9, <3>1
      <3>2. CASE o # at
        <4>1. o \in DOMAIN edits /\ Whole(file, o) /\ file[o].of.icnt = edits'[o]
          BY <1>3, <2>1, <2>9, <3>2 DEF InPlace
        <4>2. o \in 0 .. n
          BY <2>5, <4>1 DEF Whole, Row
        <4> QED
          BY <2>6, <3>2, <4>1, <4>2
      <3> QED
        BY <3>1, <3>2
    <2>11. ASSUME NEW b \in 0 .. n, Start(origin, b) \notin DOMAIN edits'
           PROVE  g[b] = origin[b]
      <3>1. file[b] = origin[b] /\ Start(origin, b) # at
        BY <1>3, <2>1, <2>9, <2>11 DEF InPlace
      <3>2. b \notin at .. at + file[at].of.size - 1
        <4> SUFFICES ASSUME b \in at .. at + file[at].of.size - 1 PROVE FALSE
          OBVIOUS
        <4>1. Start(file, b) = at
          BY <1>3, <2>2, <2>5, StartOfByte
        <4> QED
          BY <3>1, <4>1 DEF Start
      <3> QED
        BY <2>6, <3>1, <3>2
    <2>12. g[at'].nth = 0
      BY <1>5, <2>1, <2>7 DEF Whole
    <2> QED
      BY <1>3, <1>5, <2>3, <2>8, <2>10, <2>11, <2>12 DEF InPlace, InWhole, Whole, Start
  <1> QED
    BY <1>7, <1>8, <1>9 DEF IInv

\* A write that was cut short damages the message it was to change and no other.
LEMMA ShortIInv ==
  ASSUME IInv, NEW v \in Values, ShortWrite(v)
  PROVE  IInv'
  <1>1. PICK n \in Nat : Kept(n) /\ Placed(n) /\ (~astray => InPlace(n))
    BY DEF IInv
  <1>2. PICK m \in Decoded(buffered, at), k \in Nat :
          /\ Read(m) /\ Fits(m, v) /\ k <= m.size
          /\ file' = Written(file, cur_off + fileoff, Filled(m, v), k)
          /\ cut' = at .. at + m.size - 1
    <2>1. PICK m \in Decoded(buffered, at) :
            /\ Read(m) /\ Fits(m, v)
            /\ \E k \in 0 .. m.size - 1 :
                 file' = Written(file, cur_off + fileoff, Filled(m, v), k)
            /\ cut' = at .. at + m.size - 1
      BY DEF ShortWrite
    <2>2. m.size \in Nat
      BY <1>1, <2>1, Reads
    <2>3. PICK k \in 0 .. m.size - 1 :
            file' = Written(file, cur_off + fileoff, Filled(m, v), k)
      BY <2>1
    <2>4. k \in Nat /\ k <= m.size
      BY <2>2
    <2> QED
      BY <2>1, <2>3, <2>4
  <1>3. /\ status = "running" /\ cut = {} /\ at \in 0 .. n
        /\ m.size \in Nat /\ m.size > 0
    BY <1>1, <1>2, Reads
  <1>4. /\ status' = "short write" /\ astray' = (astray \/ ~told)
        /\ UNCHANGED <<fileoff, base, at, origin, edits, told>>
    BY DEF ShortWrite
  <1>5. Kept(n)'
    BY <1>1, <1>2, <1>4, EditKeepsRow
  <1>6. Placed(n)'
    BY <1>1, <1>4 DEF Placed
  <1>7. ASSUME ~astray' PROVE InPlace(n)'
    <2>1. ~astray /\ told /\ InPlace(n) /\ cur_off + fileoff = at
      BY <1>1, <1>4, <1>7, Offset
    <2>2. Whole(file, at) /\ m = file[at].of
      BY <1>1, <1>2, <2>1, ReadsWhole
    <2>3. PICK g : g = file'
      OBVIOUS
    <2>4. PICK h : h = Filled(m, v)
      OBVIOUS
    <2>5. g = Written(file, at, h, k)
      BY <1>2, <2>1, <2>3, <2>4
    <2>6. Row(file, n) /\ k <= file[at].of.size
      BY <1>1, <1>2, <2>2 DEF Kept
    <2>7. /\ \A b \in 0 .. n : b \notin at .. at + file[at].of.size - 1 => g[b] = file[b]
          /\ \A p \in 0 .. n : Whole(file, p) /\ p # at => Whole(g, p) /\ g[p] = file[p]
          /\ \A b \in 0 .. n : InWhole(file, b) /\ b \notin at .. at + file[at].of.size - 1
                                 => InWhole(g, b)
      <3>1. Whole(file, at) /\ at \in 0 .. n /\ Row(file, n) /\ k \in Nat
        BY <1>3, <2>2, <2>6
      <3>2. k <= file[at].of.size /\ g = Written(file, at, h, k)
        BY <2>5, <2>6
      <3> QED
        BY <3>1, <3>2, OthersStay, SMTT(60)
    <2>8. cut' = at .. at + file[at].of.size - 1 /\ at \in cut'
      BY <1>2, <1>3, <2>2
    <2>9. \A b \in (0 .. n) \ cut' : InWhole(g, b)
      BY <1>3, <2>1, <2>7, <2>8 DEF InPlace
    <2>10. ASSUME NEW o \in DOMAIN edits \ cut'
           PROVE  Whole(g, o) /\ g[o].of.icnt = edits[o]
      <3>1. Whole(file, o) /\ file[o].of.icnt = edits[o] /\ o # at
        BY <1>3, <2>1, <2>8 DEF InPlace
      <3>2. o \in 0 .. n
        BY <2>6, <3>1 DEF Whole, Row
      <3> QED
        BY <2>7, <3>1, <3>2
    <2>11. ASSUME NEW b \in (0 .. n) \ cut', Start(origin, b) \notin DOMAIN edits
           PROVE  g[b] = origin[b]
      BY <1>3, <2>1, <2>7, <2>8, <2>11 DEF InPlace
    <2> QED
      BY <1>4, <2>3, <2>9, <2>10, <2>11 DEF InPlace, InWhole, Whole, Start
  <1> QED
    BY <1>5, <1>6, <1>7 DEF IInv

\* Every command keeps the invariant.
LEMMA NextIInv == IInv /\ [Next]_vars => IInv'
  <1> SUFFICES ASSUME IInv, [Next]_vars PROVE IInv'
    OBVIOUS
  <1>1. CASE /\ UNCHANGED <<file, fileoff, base, at, buffered, history>>
             /\ status' = status \/ status' # "running"
    <2>1. PICK n \in Nat : Kept(n) /\ Placed(n) /\ (~astray => InPlace(n))
      BY DEF IInv
    <2>2. UNCHANGED <<file, fileoff, base, at, buffered, origin, edits, cut, told, astray>>
      BY <1>1 DEF history
    <2>3. Kept(n)' /\ Placed(n)' /\ (~astray' => InPlace(n)')
      BY <1>1, <2>1, <2>2 DEF Kept, Row, Placed, InPlace
    <2> QED
      BY <2>3 DEF IInv
  <1>2. ASSUME NEW how, Stops(how), how # "running" PROVE IInv'
    BY <1>1, <1>2 DEF Stops
  <1>3. CASE EofOnRead \/ NoField \/ Fatal \/ \E v \in Values : NoRoom(v)
    BY <1>2, <1>3 DEF EofOnRead, NoField, Fatal, NoRoom
  <1>4. CASE UNCHANGED vars
    BY <1>1, <1>4 DEF vars, tool
  <1> QED
    BY <1>3, <1>4, SeekIInv, NextMsgIInv, ShowIInv, SetIcntIInv, ShortIInv DEF Next, Exited

LEMMA AlwaysIInv == Spec => []IInv
  BY InitIInv, NextIInv, PTL DEF Spec

\* For every file, every offset it is opened at and every list of commands, short
\* writes included: the file keeps its length and ends with the end of a message,
\* and while no edit went astray its messages are whole but for the one that was
\* being written (patch.c:78-89).
THEOREM FramingAlwaysKept == Spec => []FramingKept
  <1>1. IInv => FramingKept
    <2> SUFFICES ASSUME IInv PROVE FramingKept
      OBVIOUS
    <2>1. PICK n \in Nat : Kept(n) /\ Placed(n) /\ (~astray => InPlace(n))
      BY DEF IInv
    <2>2. DOMAIN file = 0 .. n /\ DOMAIN origin = 0 .. n /\ EndMark(file[n])
      BY <2>1 DEF Kept, Row
    <2>3. \A b \in DOMAIN file : b + 1 \notin DOMAIN file => b = n
      BY <2>2
    <2>4. ~astray => \A b \in DOMAIN file \ cut : InWhole(file, b)
      BY <2>1, <2>2 DEF InPlace
    <2> QED
      BY <2>2, <2>3, <2>4 DEF FramingKept
  <1> QED
    BY <1>1, AlwaysIInv, PTL

\* An edit changes the message that was read and no other, through any chain of
\* seek=, next and show (patch.c:70, 85, 92), wherever the file was opened, if a
\* seek= comes before the first edit when that is not its start.
THEOREM EditsAlwaysLand == Spec => []EditsLand
  <1>1. IInv => EditsLand
    <2> SUFFICES ASSUME IInv, ~astray PROVE EditsInPlace
      BY DEF EditsLand
    <2>1. PICK n \in Nat : Kept(n) /\ InPlace(n)
      BY DEF IInv
    <2>2. DOMAIN file = 0 .. n
      BY <2>1 DEF Kept, Row
    <2> QED
      BY <2>1, <2>2 DEF InPlace, EditsInPlace
  <1> QED
    BY <1>1, AlwaysIInv, PTL

\* What is shown is in the file, at the offset shown, edits included
\* (patch.c:71-74, 92-98), under the same condition.
THEOREM ShownAlwaysCurrent == Spec => ShownIsCurrent
  <1>1. IInv /\ [Next]_vars
          => [shown' # shown /\ told => shown'.off \in DOMAIN file
                /\ shown'.msg \in Decoded(file, shown'.off)]_vars
    <2> SUFFICES ASSUME IInv, Next, shown' # shown, told
                 PROVE  shown'.off \in DOMAIN file /\ shown'.msg \in Decoded(file, shown'.off)
      BY DEF vars
    <2>1. ShowMsg
      BY DEF Next, SeekTo, NextMsg, SetIcnt, ShortWrite, NoRoom, EofOnRead, NoField, Fatal,
             Stops, Exited, vars, history
    <2>2. PICK m \in Decoded(buffered, at) :
            Read(m) /\ shown' = [off |-> cur_off + fileoff, msg |-> m]
      BY <2>1 DEF ShowMsg
    <2>3. PICK n \in Nat : Kept(n) /\ Placed(n)
      BY DEF IInv
    <2>4. buffered = file /\ at \in 0 .. n
      BY <2>2, <2>3, Reads
    <2>5. cur_off + fileoff = at /\ at \in DOMAIN file
      BY <2>3, <2>4, Offset DEF Kept, Row
    <2> QED
      BY <2>2, <2>4, <2>5
  <1> QED
    BY <1>1, AlwaysIInv, PTL DEF Spec, ShownIsCurrent
=============================================================================
