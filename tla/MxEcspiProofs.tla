---------------------------- MODULE MxEcspiProofs ---------------------------
(***************************************************************************)
(* Proofs about MxEcspi: a transfer returns every answer in its place and  *)
(* sends every byte once (FullResult), and only a refill can leave TC set  *)
(* for the next burst (TcOnce).                                            *)
(*                                                                         *)
(* The words that are out (in the transmit FIFO, or received and not read) *)
(* follow each other in the transfer: word number k, counted from the      *)
(* first that is not read, begins at StartOf(k).                           *)
(***************************************************************************)
EXTENDS MxEcspi, TLAPS

-----------------------------------------------------------------------------
(* Types. *)

Types ==
    /\ xlen \in Nat /\ tlen \in Nat /\ bxlen \in Nat /\ btlen \in Nat
    /\ brlen \in Nat /\ count \in Nat /\ pulses \in Nat
    /\ rlen \in Int /\ rlen >= -1
    /\ dlen \in 1..4 /\ dlen \in DLens \cup {1} /\ lsb_adjust \in 0..3
    /\ pc \in {"idle", "burst", "enable", "start", "wait"}
    /\ ipc \in {"idle", "status", "count", "read", "fill", "stuck"}
    /\ istat \in {"none", "tc", "rdr", "wrong"}
    /\ late \in Nat

Stored ==
    /\ pbuf \in [0..Room - 1 -> Int]
    /\ tx \in Seq(Seq(Int)) /\ Len(tx) <= FIFO_SIZE
    /\ rx \in Seq(Seq(Int)) /\ Len(rx) <= FIFO_SIZE
    /\ wire \in Seq(Int)

\* The assumption, one constant at a time.
LEMMA Consts ==
    /\ FIFO_SIZE \in Nat /\ RXMARK \in Nat /\ RXMARK > 0 /\ 2 * RXMARK <= FIFO_SIZE
    /\ BURST_MAX \in Nat /\ BURST_MAX > 0 /\ BURST_MAX % 4 = 0
  BY EcspiAssumption

\* What Send and Shift leave of a FIFO is a FIFO.
LEMMA FitType ==
    ASSUME NEW S, NEW ws \in Seq(S)
    PROVE  Fit(ws) \in Seq(S) /\ Len(Fit(ws)) <= FIFO_SIZE
<1> DEFINE n == Least(Len(ws), FIFO_SIZE)
<1>1. n \in Nat /\ n <= Len(ws) /\ n <= FIFO_SIZE
  BY Consts DEF Least
<1>2. Fit(ws) = SubSeq(ws, 1, n)
  BY DEF Fit
<1> HIDE DEF n
<1>3. SubSeq(ws, 1, n) \in Seq(S) /\ Len(SubSeq(ws, 1, n)) = n
  BY <1>1
<1> QED BY <1>1, <1>2, <1>3

\* A FIFO with room for them takes all the words.
LEMMA FitSmall ==
    ASSUME NEW S, NEW ws \in Seq(S), Len(ws) <= FIFO_SIZE
    PROVE  Fit(ws) = ws
<1>1. Least(Len(ws), FIFO_SIZE) = Len(ws)
  BY Consts DEF Least
<1> QED BY <1>1 DEF Fit

\* The words of a concatenation.
LEMMA ConcatWords ==
    ASSUME NEW S, NEW a \in Seq(S), NEW b \in Seq(S)
    PROVE  /\ a \o b \in Seq(S) /\ Len(a \o b) = Len(a) + Len(b)
           /\ \A k \in 1..Len(a) : (a \o b)[k] = a[k]
           /\ \A k \in 1..Len(b) : (a \o b)[Len(a) + k] = b[k]
OBVIOUS

\* A function on 1..n is a sequence.
LEMMA SeqOf ==
    ASSUME NEW S, NEW n \in Nat, NEW f, f \in [1..n -> S]
    PROVE  f \in Seq(S) /\ Len(f) = n
OBVIOUS

\* Sequences with the same members are the same.
LEMMA SeqEq ==
    ASSUME NEW S, NEW a \in Seq(S), NEW b \in Seq(S), Len(a) = Len(b),
           \A k \in 1..Len(a) : a[k] = b[k]
    PROVE  a = b
OBVIOUS

\* The first word taken off.
LEMMA HeadTail ==
    ASSUME NEW S, NEW s \in Seq(S), s # <<>>
    PROVE  /\ Head(s) \in S /\ Head(s) = s[1] /\ Len(s) >= 1
           /\ Tail(s) \in Seq(S) /\ Len(Tail(s)) = Len(s) - 1
           /\ \A k \in 1..Len(s) - 1 : Tail(s)[k] = s[k + 1]
OBVIOUS

\* One word added.
LEMMA AppendWord ==
    ASSUME NEW S, NEW s \in Seq(S), NEW w \in S
    PROVE  /\ Append(s, w) \in Seq(S) /\ Len(Append(s, w)) = Len(s) + 1
           /\ \A k \in 1..Len(s) : Append(s, w)[k] = s[k]
           /\ Append(s, w)[Len(s) + 1] = w
           /\ s \o <<w>> = Append(s, w)
OBVIOUS

\* The longest transfer is one of the lengths, and none is longer.
LEMMA MaxLenIs ==
    MaxLen \in Nat /\ Room \in Nat /\ Room = MaxLen + 3 /\ \A n \in Lengths : n <= MaxLen
<1>1. MaxLen \in Lengths /\ \A n \in Lengths : n <= MaxLen
  BY EcspiAssumption DEF MaxLen
<1> QED BY <1>1, EcspiAssumption DEF Room

\* What is taken from the buffer is a word of n bytes.
LEMMA BytesType ==
    ASSUME Stored, NEW i \in Nat, NEW n \in Nat
    PROVE  Bytes(i, n) \in Seq(Int) /\ Len(Bytes(i, n)) = n
<1>1. pbuf \in [0..Room - 1 -> Int]
  BY DEF Stored
<1>2. \A k \in 1..n : (IF i + k - 1 \in DOMAIN pbuf THEN pbuf[i + k - 1] ELSE Nothing) \in Int
  BY <1>1 DEF Nothing
<1>3. Bytes(i, n) \in [1..n -> Int]
  BY <1>2 DEF Bytes
<1> QED BY <1>3, SeqOf

\* A word stored leaves a buffer.
LEMMA StoreType ==
    ASSUME Stored, NEW i \in Int, NEW w \in Seq(Int)
    PROVE  Store(pbuf, i, w) \in [0..Room - 1 -> Int]
<1>1. \A j \in 0..Room - 1 : j \in i..i + Len(w) - 1 => w[j - i + 1] \in Int
  BY MaxLenIs
<1> QED BY <1>1 DEF Stored, Store

\* The word read is a word, whether there was one or not.
LEMMA RxWordType ==
    ASSUME Stored
    PROVE  RxWord \in Seq(Int)
<1>1. <<Nothing, Nothing, Nothing, Nothing>> \in Seq(Int)
  BY DEF Nothing
<1>2. rx # <<>> => Head(rx) \in Seq(Int)
  BY HeadTail DEF Stored
<1> QED BY <1>1, <1>2 DEF RxWord

\* The first step of an induction on types.
LEMMA TypesInit == Init => Types /\ Stored
<1>1. Init => Types
  BY Consts DEF Init, Types
<1>2. Init => pbuf \in [0..Room - 1 -> Int]
  BY MaxLenIs DEF Init
<1> QED BY <1>1, <1>2, Consts DEF Init, Stored

\* A data word is one, two or four bytes of the buffer, and the first word of
\* a burst is less than four.
LEMMA UnitIs ==
    ASSUME Types
    PROVE  Unit \in {1, 2, 4} /\ Odd \in 0..3
<1>1. Unit \in {1, 2, 4}
  BY DEF Types, Unit
<1>2. Odd \in 0..3
  BY Consts DEF Types, Odd
<1> QED BY <1>1, <1>2

\* A length made up to a number of words.
LEMMA RoundUp ==
    ASSUME NEW x \in Nat, NEW u \in {1, 2, 4}
    PROVE  LET y == u * ((x + u - 1) \div u)
           IN  y \in Nat /\ x <= y /\ y < x + u /\ y % u = 0
<1>1. CASE u = 1 BY <1>1
<1>2. CASE u = 2 BY <1>2
<1>3. CASE u = 4 BY <1>3
<1> QED BY <1>1, <1>2, <1>3

\* What a transfer exchanges is its length, made up to a number of words when
\* each is a burst of its own; the longest has room for that.
LEMMA WholeIs ==
    ASSUME Types
    PROVE  /\ Whole \in Nat /\ xlen <= Whole /\ Whole < xlen + Unit
           /\ burst => Whole = xlen
           /\ ~burst => Whole % Unit = 0
           /\ xlen \in Lengths => Whole <= Room
<1>1. xlen \in Nat /\ Unit \in {1, 2, 4}
  BY UnitIs DEF Types
<1> DEFINE y == Unit * ((xlen + Unit - 1) \div Unit)
<1>2. y \in Nat /\ xlen <= y /\ y < xlen + Unit /\ y % Unit = 0
  BY <1>1, RoundUp
<1>3. Whole = IF burst THEN xlen ELSE y
  BY DEF Whole
<1> HIDE DEF y
<1>4. xlen \in Lengths => xlen <= MaxLen /\ MaxLen \in Nat /\ Room = MaxLen + 3
  BY MaxLenIs
<1> QED BY <1>1, <1>2, <1>3, <1>4

\* The words of the first fill of a burst: n whole ones after the odd one.
BurstBytes == Least(xlen - tlen, BURST_MAX)
BurstWords == Least((BurstBytes - Odd) \div 4, IF Odd = 0 THEN FIFO_SIZE ELSE FIFO_SIZE - 1)

\* The fill is no more than the burst, the burst no more than the transfer.
LEMMA BurstWordsAre ==
    ASSUME Types, More
    PROVE  /\ BurstBytes \in Nat /\ BurstWords \in Nat
           /\ tlen + BurstBytes <= xlen
           /\ Odd + 4 * BurstWords <= BurstBytes
           /\ (BurstBytes - Odd) % 4 = 0
           /\ BurstWords <= (IF Odd = 0 THEN FIFO_SIZE ELSE FIFO_SIZE - 1)
<1> DEFINE d == xlen - tlen
<1>1. d \in Nat /\ d > 0 /\ tlen \in Nat /\ xlen \in Nat /\ tlen + d = xlen
  BY DEF Types, More
<1>2. Odd = (IF d >= BURST_MAX THEN 0 ELSE d % 4) /\ BurstBytes = Least(d, BURST_MAX)
  BY DEF Odd, BurstBytes
<1> HIDE DEF d
<1>3. /\ BurstBytes \in Nat /\ Odd \in 0..3 /\ Odd <= BurstBytes
      /\ (BurstBytes - Odd) % 4 = 0 /\ BurstBytes <= d
  <2>1. CASE d < BURST_MAX
    <3>1. BurstBytes = d /\ Odd = d % 4
      BY <1>1, <1>2, <2>1, Consts DEF Least
    <3> QED BY <1>1, <3>1
  <2>2. CASE ~(d < BURST_MAX)
    <3>1. BurstBytes = BURST_MAX /\ Odd = 0 /\ BURST_MAX <= d
      BY <1>1, <1>2, <2>2, Consts DEF Least
    <3> QED BY <1>1, <3>1, Consts
  <2> QED BY <2>1, <2>2
<1> DEFINE m == (BurstBytes - Odd) \div 4
           r == IF Odd = 0 THEN FIFO_SIZE ELSE FIFO_SIZE - 1
<1>4. m \in Nat /\ Odd + 4 * m = BurstBytes
  BY <1>3
<1>5. r \in Nat
  BY Consts
<1>6. BurstWords = Least(m, r)
  BY DEF BurstWords
<1> HIDE DEF m, r
<1>7. BurstWords \in Nat /\ BurstWords <= m /\ BurstWords <= r
  BY <1>4, <1>5, <1>6 DEF Least
<1> QED BY <1>1, <1>3, <1>4, <1>7 DEF r

\* The words of the first fill when each is a burst of its own.
UnitWords == Least((xlen - tlen + Unit - 1) \div Unit, FIFO_SIZE)

\* They take no more than the words of the transfer.
LEMMA UnitWordsAre ==
    ASSUME Types, More
    PROVE  /\ UnitWords \in Nat /\ UnitWords <= FIFO_SIZE /\ Unit * UnitWords \in Nat
           /\ (Whole - tlen) % Unit = 0 =>
                /\ tlen + Unit * UnitWords <= Whole
                /\ (Whole - (tlen + Unit * UnitWords)) % Unit = 0
<1> DEFINE d == xlen - tlen
           e == Whole - tlen
           m == (d + Unit - 1) \div Unit
<1>1. d \in Nat /\ d > 0 /\ tlen \in Nat /\ xlen \in Nat /\ tlen + d = xlen
  BY DEF Types, More
<1>2. UnitWords = Least(m, FIFO_SIZE)
  BY DEF UnitWords
<1>3. Unit \in {1, 2, 4}
  BY UnitIs
<1>a. e \in Nat /\ d <= e /\ e < d + Unit /\ Whole \in Nat /\ tlen + e = Whole
  BY <1>1, <1>3, WholeIs
<1> HIDE DEF d, e
<1>4. m \in Nat /\ (e % Unit = 0 => Unit * m = e)
  <2>1. CASE Unit = 1 BY <2>1, <1>1, <1>a
  <2>2. CASE Unit = 2 BY <2>2, <1>1, <1>a
  <2>3. CASE Unit = 4 BY <2>3, <1>1, <1>a
  <2> QED BY <1>3, <2>1, <2>2, <2>3
<1> HIDE DEF m
<1>5. UnitWords \in Nat /\ UnitWords <= m /\ UnitWords <= FIFO_SIZE
  BY <1>2, <1>4, Consts DEF Least
<1>6. e % Unit = 0 => Unit * UnitWords <= e /\ (e - Unit * UnitWords) % Unit = 0
  <2>1. CASE Unit = 1 BY <2>1, <1>a, <1>4, <1>5
  <2>2. CASE Unit = 2 BY <2>2, <1>a, <1>4, <1>5
  <2>3. CASE Unit = 4 BY <2>3, <1>a, <1>4, <1>5
  <2> QED BY <1>3, <2>1, <2>2, <2>3
<1>7. Unit * UnitWords \in Nat
  BY <1>3, <1>5
<1>8. e = Whole - tlen /\ Whole - (tlen + Unit * UnitWords) = e - Unit * UnitWords
  BY <1>1, <1>a, <1>7
<1>9. e % Unit = 0 => tlen + Unit * UnitWords <= Whole
  BY <1>1, <1>a, <1>6, <1>7
<1> QED BY <1>5, <1>6, <1>7, <1>8, <1>9

\* The numbers and flags keep their types.
LEMMA TypesStep == Types /\ Stored /\ [Next]_vars => Types'
<1> SUFFICES ASSUME Types, Stored, [Next]_vars PROVE Types'
  OBVIOUS
<1>1. CASE Begin
  <2>1. xlen' \in Nat /\ dlen' \in 1..4 /\ dlen' \in DLens
    BY <1>1, EcspiAssumption DEF Begin
  <2>2. pc' \in {"idle", "burst"}
    BY <1>1 DEF Begin, Types
  <2> QED BY <1>1, <2>1, <2>2 DEF Begin, Types, intr
<1>2. CASE FillBurst
  <2>1. bxlen' = BurstBytes /\ btlen' = Odd + 4 * BurstWords /\ tlen' = tlen + Odd + 4 * BurstWords
    BY <1>2 DEF FillBurst, BurstBytes, BurstWords
  <2>2. BurstBytes \in Nat /\ BurstWords \in Nat /\ Odd \in 0..3
    BY <1>2, BurstWordsAre, UnitIs DEF FillBurst
  <2>3. bxlen' \in Nat /\ btlen' \in Nat /\ tlen' \in Nat
    BY <2>1, <2>2 DEF Types
  <2> QED BY <1>2, <2>2, <2>3 DEF FillBurst, Types, intr, ghost
<1>3. CASE FillWords
  <2>1. tlen' = tlen + Unit * UnitWords
    BY <1>3 DEF FillWords, UnitWords
  <2>2. tlen' \in Nat
    BY <1>3, <2>1, UnitWordsAre DEF FillWords, Types
  <2> QED BY <1>3, <2>2 DEF FillWords, Types, intr, ghost
<1>4. CASE FillUnsupported
  <2>1. Odd \in 0..3 /\ BurstBytes \in Nat
    BY <1>4, UnitIs, BurstWordsAre DEF FillUnsupported
  <2> QED BY <1>4, <2>1 DEF FillUnsupported, BurstBytes, Types, intr, ghost
<1>5. CASE Enable \/ Start \/ Wake \/ End \/ TimeOut
  <2>1. CASE Enable \/ Start \/ End
    BY <2>1 DEF Enable, Start, End, Types, lens, intr, ghost
  <2>2. CASE Wake
    BY <2>2 DEF Wake, Types, lens, intr, ghost
  <2>3. CASE TimeOut
    BY <2>3 DEF TimeOut, Types, intr
  <2> QED BY <1>5, <2>1, <2>2, <2>3
<1>6. CASE Shift \/ Interrupt \/ IntrStatus \/ IntrWrong \/ IntrReadNone \/ IntrReadDone
  BY <1>6 DEF Shift, Interrupt, IntrStatus, IntrWrong, IntrReadNone, IntrReadDone, Notify,
              Types, lens, thr, intr, ctl, ghost
<1>7. CASE IntrCount
  <2>1. count' \in Nat
    BY <1>7, Consts DEF IntrCount, WordsToRead, Stored
  <2> QED BY <1>7, <2>1 DEF IntrCount, Types, lens, thr, ctl, ghost
<1>8. CASE IntrEnd
  BY <1>8 DEF IntrEnd, Notify, SetXCH, Types, lens, thr, ghost
<1>9. CASE IntrFill \/ IntrReadFirst \/ IntrRead
  <2>1. CASE IntrFill
    BY <2>1 DEF IntrFill, Types, thr
  <2>2. CASE IntrReadFirst
    BY <2>2 DEF IntrReadFirst, Types, thr, ghost
  <2>3. CASE IntrRead
    BY <2>3 DEF IntrRead, Types, thr, ghost
  <2> QED BY <1>9, <2>1, <2>2, <2>3
<1>10. CASE IntrExchange
  <2>1. Unit \in {1, 2, 4}
    BY UnitIs
  <2> QED BY <1>10, <2>1 DEF IntrExchange, Types, thr, ghost
<1>11. CASE BeginUnknown \/ UNCHANGED vars
  BY <1>11 DEF BeginUnknown, vars, lens, thr, intr, ctl, ghost, Types
<1> QED BY <1>1, <1>2, <1>3, <1>4, <1>5, <1>6, <1>7, <1>8, <1>9, <1>10, <1>11
        DEF Next, Thread, Handler

\* Words written to the transmit FIFO: it takes those it has room for.
LEMMA SendType ==
    ASSUME Stored, NEW ws \in Seq(Seq(Int)), Send(ws)
    PROVE  /\ tx' \in Seq(Seq(Int)) /\ Len(tx') <= FIFO_SIZE
           /\ Len(tx) + Len(ws) <= FIFO_SIZE => tx' = tx \o ws
<1>1. tx \o ws \in Seq(Seq(Int)) /\ Len(tx \o ws) = Len(tx) + Len(ws)
  BY ConcatWords DEF Stored
<1>2. tx' = Fit(tx \o ws)
  BY DEF Send
<1> HIDE DEF Send, Fit
<1>3. Fit(tx \o ws) \in Seq(Seq(Int)) /\ Len(Fit(tx \o ws)) <= FIFO_SIZE
  BY <1>1, FitType
<1>4. Len(tx) + Len(ws) <= FIFO_SIZE => Fit(tx \o ws) = tx \o ws
  BY <1>1, FitSmall
<1> QED BY <1>2, <1>3, <1>4

\* The words of a first fill.
LEMMA UnitWordsType ==
    ASSUME Types, Stored, NEW i \in Nat, NEW u \in Nat, NEW n \in Nat
    PROVE  /\ [k \in 1..n |-> Bytes(i + u * (k - 1), u)] \in Seq(Seq(Int))
           /\ Len([k \in 1..n |-> Bytes(i + u * (k - 1), u)]) = n
<1>1. \A k \in 1..n : i + u * (k - 1) \in Nat
  OBVIOUS
<1>2. \A k \in 1..n : Bytes(i + u * (k - 1), u) \in Seq(Int)
  BY <1>1, BytesType
<1>3. [k \in 1..n |-> Bytes(i + u * (k - 1), u)] \in [1..n -> Seq(Int)]
  BY <1>2
<1> QED BY <1>3, SeqOf

\* The words of a first fill that has an odd first word, or none.
IsFill(ws, i, first, n) ==
    /\ first = 0 => \A k \in 1..n : ws[k] = Bytes(i + 4 * (k - 1), 4)
    /\ first # 0 => /\ ws[1] = Bytes(i, first)
                    /\ \A k \in 1..n : ws[1 + k] = Bytes(i + first + 4 * (k - 1), 4)

\* That is what FillBurst writes.
LEMMA WordsType ==
    ASSUME Types, Stored, NEW i \in Nat, NEW first \in Nat, NEW n \in Nat
    PROVE  /\ Words(i, first, n) \in Seq(Seq(Int))
           /\ Len(Words(i, first, n)) = (IF first = 0 THEN n ELSE n + 1)
           /\ IsFill(Words(i, first, n), i, first, n)
<1> DEFINE a == IF first = 0 THEN <<>> ELSE <<Bytes(i, first)>>
           b == [k \in 1..n |-> Bytes(i + first + 4 * (k - 1), 4)]
<1>1. Words(i, first, n) = a \o b
  BY DEF Words
<1>2. a \in Seq(Seq(Int)) /\ Len(a) = (IF first = 0 THEN 0 ELSE 1)
      /\ (first # 0 => a[1] = Bytes(i, first))
  BY BytesType
<1>3. b \in Seq(Seq(Int)) /\ Len(b) = n
  <2>1. i + first \in Nat /\ 4 \in Nat
    OBVIOUS
  <2> QED BY <2>1, UnitWordsType
<1>4. \A k \in 1..n : b[k] = Bytes(i + first + 4 * (k - 1), 4)
  OBVIOUS
<1> HIDE DEF a, b
<1>5. /\ a \o b \in Seq(Seq(Int)) /\ Len(a \o b) = Len(a) + Len(b)
      /\ \A k \in 1..Len(a) : (a \o b)[k] = a[k]
      /\ \A k \in 1..Len(b) : (a \o b)[Len(a) + k] = b[k]
  <2>1. a \in Seq(Seq(Int)) /\ b \in Seq(Seq(Int))
    BY <1>2, <1>3
  <2> QED BY <2>1, ConcatWords
<1>6. first # 0 => (a \o b)[1] = Bytes(i, first)
  BY <1>2, <1>5
<1>7. first = 0 => \A k \in 1..n : (a \o b)[k] = Bytes(i + 4 * (k - 1), 4)
  <2> SUFFICES ASSUME first = 0, NEW k \in 1..n PROVE (a \o b)[k] = Bytes(i + 4 * (k - 1), 4)
    OBVIOUS
  <2>1. (a \o b)[k] = b[k] /\ i + first = i
    BY <1>2, <1>3, <1>5
  <2> QED BY <2>1, <1>4
<1>8. first # 0 => \A k \in 1..n : (a \o b)[1 + k] = Bytes(i + first + 4 * (k - 1), 4)
  <2>1. first # 0 => \A k \in 1..n : (a \o b)[1 + k] = b[k]
    BY <1>2, <1>3, <1>5
  <2> QED BY <2>1, <1>4
<1>9. Len(a \o b) = IF first = 0 THEN n ELSE n + 1
  BY <1>2, <1>3, <1>5
<1>10. IsFill(a \o b, i, first, n)
  BY <1>6, <1>7, <1>8 DEF IsFill
<1> QED BY <1>1, <1>5, <1>9, <1>10

\* The answer to a word.
LEMMA AnswerType ==
    ASSUME NEW w \in Seq(Int)
    PROVE  /\ [k \in DOMAIN w |-> Reply(w[k])] \in Seq(Int)
           /\ Len([k \in DOMAIN w |-> Reply(w[k])]) = Len(w)
           /\ \A k \in 1..Len(w) : [j \in DOMAIN w |-> Reply(w[j])][k] = Reply(w[k])
<1>1. DOMAIN w = 1..Len(w) /\ Len(w) \in Nat /\ \A k \in 1..Len(w) : Reply(w[k]) \in Int
  BY DEF Reply
<1>2. [k \in DOMAIN w |-> Reply(w[k])] \in [1..Len(w) -> Int]
  BY <1>1
<1> QED BY <1>1, <1>2, SeqOf

\* The last bytes of a word; all of them.
LEMMA LsbType ==
    ASSUME NEW w \in Seq(Int), NEW n \in Nat
    PROVE  /\ LSB(w, Least(Len(w), n)) \in Seq(Int)
           /\ n = Len(w) => LSB(w, Least(Len(w), n)) = w
<1> DEFINE m == Least(Len(w), n)
<1>1. m \in 0..Len(w) /\ (n = Len(w) => m = Len(w))
  BY DEF Least
<1> HIDE DEF m
<1>2. Len(w) - m + 1 \in 1..Len(w) + 1
  BY <1>1
<1>3. SubSeq(w, Len(w) - m + 1, Len(w)) \in Seq(Int)
  BY <1>2
<1>4. m = Len(w) => SubSeq(w, Len(w) - m + 1, Len(w)) = w
  BY <1>2
<1> QED BY <1>1, <1>3, <1>4 DEF m, LSB

\* Buffer, FIFOs and record keep their types.
LEMMA StoredStep == Types /\ Stored /\ [Next]_vars => Stored'
<1> SUFFICES ASSUME Types, Stored, [Next]_vars PROVE Stored'
  OBVIOUS
<1>1. CASE Begin
  <2>1. pbuf' \in [0..Room - 1 -> Int]
    BY <1>1, MaxLenIs DEF Begin
  <2>2. wire' \in Seq(Int) /\ rx' \in Seq(Seq(Int)) /\ Len(rx') <= FIFO_SIZE
    <3>1. wire' = <<>> /\ rx' \in {rx, <<>>}
      BY <1>1 DEF Begin
    <3>2. <<>> \in Seq(Seq(Int)) /\ <<>> \in Seq(Int) /\ Len(<<>>) = 0
      OBVIOUS
    <3>3. rx \in Seq(Seq(Int)) /\ Len(rx) <= FIFO_SIZE
      BY DEF Stored
    <3>4. CASE rx' = rx
      BY <3>1, <3>2, <3>3, <3>4
    <3>5. CASE rx' = <<>>
      BY <3>1, <3>2, <3>5, Consts
    <3> QED BY <3>1, <3>4, <3>5
  <2>3. tx' = [k \in DOMAIN tx |-> [j \in DOMAIN tx[k] |-> Old]]
    BY <1>1 DEF Begin
  <2>4. DOMAIN tx = 1..Len(tx) /\ Len(tx) \in Nat
    BY DEF Stored
  <2>5. \A k \in 1..Len(tx) : [j \in DOMAIN tx[k] |-> Old] \in Seq(Int)
    <3> TAKE k \in 1..Len(tx)
    <3>1. tx[k] \in Seq(Int)
      BY DEF Stored
    <3>2. DOMAIN tx[k] = 1..Len(tx[k]) /\ Len(tx[k]) \in Nat
      BY <3>1
    <3>3. [j \in DOMAIN tx[k] |-> Old] \in [1..Len(tx[k]) -> Int]
      BY <3>2 DEF Old
    <3> QED BY <3>2, <3>3, SeqOf
  <2>6. tx' \in [1..Len(tx) -> Seq(Int)]
    BY <2>3, <2>4, <2>5
  <2>7. tx' \in Seq(Seq(Int)) /\ Len(tx') = Len(tx)
    BY <2>4, <2>6, SeqOf
  <2> QED BY <2>1, <2>2, <2>7 DEF Stored
<1>2. CASE FillBurst
  <2>1. Odd \in Nat /\ BurstWords \in Nat /\ tlen \in Nat
    <3>1. More /\ tlen \in Nat
      BY <1>2 DEF FillBurst, Types
    <3>2. Odd \in 0..3
      BY UnitIs
    <3> QED BY <3>1, <3>2, BurstWordsAre
  <2>2. Words(tlen, Odd, BurstWords) \in Seq(Seq(Int))
    BY <2>1, WordsType
  <2>3. Send(Words(tlen, Odd, BurstWords))
    BY <1>2 DEF FillBurst, BurstBytes, BurstWords
  <2>4. tx' \in Seq(Seq(Int)) /\ Len(tx') <= FIFO_SIZE
    BY <2>2, <2>3, SendType
  <2> QED BY <1>2, <2>4 DEF FillBurst, Stored, ghost
<1>3. CASE FillWords
  <2> DEFINE ws == [k \in 1..UnitWords |-> Bytes(tlen + Unit * (k - 1), Unit)]
  <2>1. Unit \in Nat /\ UnitWords \in Nat /\ tlen \in Nat
    BY <1>3, UnitIs, UnitWordsAre DEF FillWords, Types
  <2>2. ws \in Seq(Seq(Int))
    BY <2>1, UnitWordsType
  <2>3. Send(ws)
    BY <1>3 DEF FillWords, UnitWords
  <2> HIDE DEF ws
  <2>4. tx' \in Seq(Seq(Int)) /\ Len(tx') <= FIFO_SIZE
    BY <2>2, <2>3, SendType
  <2> QED BY <1>3, <2>4 DEF FillWords, Stored, ghost
<1>4. CASE FillUnsupported \/ Enable \/ Start \/ Wake \/ End \/ TimeOut
  BY <1>4 DEF FillUnsupported, Enable, Start, Wake, End, TimeOut, Stored, lens, ctl, ghost
<1>5. CASE Interrupt \/ IntrStatus \/ IntrWrong \/ IntrCount \/ IntrReadNone \/ IntrReadDone
           \/ IntrEnd
  BY <1>5 DEF Interrupt, IntrStatus, IntrWrong, IntrCount, IntrReadNone, IntrReadDone, IntrEnd,
              Stored, lens, ctl, ghost
<1>6. CASE Shift
  <2> DEFINE a == [k \in DOMAIN Head(tx) |-> Reply(Head(tx)[k])]
  <2>1. Head(tx) \in Seq(Int) /\ Tail(tx) \in Seq(Seq(Int)) /\ Len(Tail(tx)) <= FIFO_SIZE
    BY <1>6, HeadTail, Consts DEF Shift, Stored
  <2>2. a \in Seq(Int)
    BY <2>1, AnswerType
  <2>3. rx' = Fit(Append(rx, a))
    BY <1>6 DEF Shift
  <2> HIDE DEF a
  <2>4. Append(rx, a) \in Seq(Seq(Int))
    BY <2>2, AppendWord DEF Stored
  <2>5. rx' \in Seq(Seq(Int)) /\ Len(rx') <= FIFO_SIZE
    BY <2>3, <2>4, FitType
  <2>6. wire' \in Seq(Int)
    BY <1>6, <2>1 DEF Shift, Stored
  <2> QED BY <1>6, <2>1, <2>5, <2>6 DEF Shift, Stored, lens
<1>7. CASE IntrReadFirst \/ IntrRead \/ IntrExchange
  <2>1. rx' \in Seq(Seq(Int)) /\ Len(rx') <= FIFO_SIZE
    <3>1. rx' = rx \/ (rx # <<>> /\ rx' = Tail(rx))
      BY <1>7 DEF IntrReadFirst, IntrRead, IntrExchange, PopRx
    <3>2. rx # <<>> => Tail(rx) \in Seq(Seq(Int)) /\ Len(Tail(rx)) <= FIFO_SIZE
      <4>1. rx \in Seq(Seq(Int)) /\ Len(rx) <= FIFO_SIZE
        BY DEF Stored
      <4>2. rx # <<>> => Tail(rx) \in Seq(Seq(Int)) /\ Len(Tail(rx)) = Len(rx) - 1 /\ Len(rx) \in Nat
        BY <4>1, HeadTail
      <4> QED BY <4>1, <4>2, Consts
    <3> QED BY <3>1, <3>2 DEF Stored
  <2>2. LSB(RxWord, Least(Len(RxWord), lsb_adjust)) \in Seq(Int)
    <3>1. RxWord \in Seq(Int) /\ lsb_adjust \in Nat
      BY RxWordType DEF Types
    <3> QED BY <3>1, LsbType
  <2>3. pbuf' \in [0..Room - 1 -> Int]
    BY <1>7, <2>2, RxWordType, StoreType DEF IntrReadFirst, IntrRead, IntrExchange, Types
  <2>4. wire' = wire
    BY <1>7 DEF IntrReadFirst, IntrRead, IntrExchange, ghost
  <2>5. tx' \in Seq(Seq(Int)) /\ Len(tx') <= FIFO_SIZE
    <3>1. tx' = tx \/ Send(<<Bytes(tlen, Unit)>>)
      BY <1>7 DEF IntrReadFirst, IntrRead, IntrExchange
    <3>2. Unit \in Nat /\ tlen \in Nat
      BY UnitIs DEF Types
    <3>3. <<Bytes(tlen, Unit)>> \in Seq(Seq(Int))
      BY <3>2, BytesType
    <3> QED BY <3>1, <3>3, SendType DEF Stored
  <2> QED BY <2>1, <2>3, <2>4, <2>5 DEF Stored
<1>8. CASE IntrFill
  <2>1. <<Bytes(tlen, 4)>> \in Seq(Seq(Int))
    BY BytesType DEF Types
  <2>2. tx' \in Seq(Seq(Int)) /\ Len(tx') <= FIFO_SIZE
    BY <1>8, <2>1, SendType DEF IntrFill
  <2> QED BY <1>8, <2>2 DEF IntrFill, Stored
<1>9. CASE BeginUnknown \/ UNCHANGED vars
  BY <1>9 DEF BeginUnknown, vars, lens, ctl, ghost, Stored
<1> QED BY <1>1, <1>2, <1>3, <1>4, <1>5, <1>6, <1>7, <1>8, <1>9 DEF Next, Thread, Handler

\* Whatever times out and however often, no count leaves its range and no FIFO
\* holds more than its size.
THEOREM SpiTypesInvariant == Spec => [](Types /\ Stored)
<1>1. Types /\ Stored /\ [Next]_vars => (Types /\ Stored)'
  BY TypesStep, StoredStep
<1> QED BY TypesInit, <1>1, PTL DEF Spec

\* spi_intr and mx51_xfer keep every count natural and the FIFOs within their
\* size, after a time-out too (data words of one byte are configured).
THEOREM SpiTypeCorrect == 1 \in DLens => (Spec => []TypeOK)
<1> SUFFICES ASSUME 1 \in DLens PROVE Spec => []TypeOK
  OBVIOUS
<1>1. Types /\ Stored => TypeOK
  BY DEF Types, Stored, TypeOK
<1> QED BY <1>1, SpiTypesInvariant, PTL

-----------------------------------------------------------------------------
(* The words that are out, and where in the transfer each of them begins. *)

\* Word k of words that begin at r, of f bytes the first and u the others.
Place(r, f, u, k) == IF k = 1 THEN r ELSE r + f + u * (k - 2)
SizeAt(f, u, k) == IF k = 1 THEN f ELSE u

\* Each word begins where the one before it ends.
LEMMA PlaceNext ==
    ASSUME NEW r \in Nat, NEW f \in 1..4, NEW u \in {1, 2, 4}
    PROVE  \A k \in Nat \ {0} :
             /\ Place(r, f, u, k) \in Nat /\ Place(r, f, u, k) >= r
             /\ SizeAt(f, u, k) \in 1..4
             /\ Place(r, f, u, k + 1) = Place(r, f, u, k) + SizeAt(f, u, k)
             /\ k > 1 => Place(r, f, u, k) >= r + f
<1>1. CASE u = 1
  BY <1>1 DEF Place, SizeAt
<1>2. CASE u = 2
  BY <1>2 DEF Place, SizeAt
<1>3. CASE u = 4
  BY <1>3 DEF Place, SizeAt
<1> QED BY <1>1, <1>2, <1>3

\* When the first is taken off, the second is the first.
LEMMA PlacePop ==
    ASSUME NEW r \in Nat, NEW f \in 1..4, NEW u \in {1, 2, 4}
    PROVE  \A k \in Nat \ {0} :
             /\ Place(r + f, u, u, k) = Place(r, f, u, k + 1)
             /\ SizeAt(u, u, k) = SizeAt(f, u, k + 1)
<1>1. CASE u = 1
  BY <1>1 DEF Place, SizeAt
<1>2. CASE u = 2
  BY <1>2 DEF Place, SizeAt
<1>3. CASE u = 4
  BY <1>3 DEF Place, SizeAt
<1> QED BY <1>1, <1>2, <1>3

\* The bytes of a word in a FIFO, and of the next to be read.
WordLen == IF burst THEN 4 ELSE Unit
First == IF lsb_adjust = 0 THEN WordLen ELSE lsb_adjust

\* The words sent whose answers are not yet read.
Out == Len(rx) + Len(tx)

StartOf(k) == Place(rlen, First, WordLen, k)
SizeOf(k) == SizeAt(First, WordLen, k)

\* Between two bursts everything is at rest; a pulse is one, and the last of
\* its burst.
RestOK ==
    /\ pc \in {"idle", "burst", "enable"} =>
         ipc = "idle" /\ ~inten /\ pulses = 0 /\ Len(rx) = 0 /\ ~xch
    /\ pc \in {"idle", "burst"} => Len(tx) = 0
    /\ pc = "start" => ipc = "idle" /\ inten /\ pulses = 0 /\ Len(rx) = 0 /\ ~xch /\ ~tc
    /\ pulses # 0 => pulses = 1 /\ pc = "wait" /\ ipc = "idle" /\ ~inten /\ Out = 0
    /\ ~inten => ipc = "idle"
    /\ xch => Len(tx) > 0

\* The handler runs for a reason, and finds as many words as it counts.
HandlerOK ==
    /\ ipc = "status" => tc \/ RDR
    /\ ipc \in {"count", "read", "fill", "stuck"} => istat \in {"tc", "rdr"}
    /\ ipc = "count" /\ istat = "rdr" => Len(rx) >= RXMARK
    /\ ipc = "read" => count <= Len(rx)
    /\ ipc = "fill" => burst /\ count <= RXMARK /\ lsb_adjust = 0

\* What is out has room in one FIFO, and in a refill there is room for what
\* is to come: RXMARK words are read before as many are written, or the
\* transmit FIFO has run empty since the burst began.
RoomOK ==
    /\ Out <= FIFO_SIZE
    /\ burst =>
         /\ ipc \in {"read", "fill"} /\ istat = "rdr" => Out + RXMARK - count <= FIFO_SIZE
         /\ ipc = "count" /\ istat = "tc" => Len(tx) <= RXMARK
         /\ ipc \in {"read", "fill"} /\ istat = "tc" => Out <= count + RXMARK
         /\ pc = "wait" /\ tc /\ ipc \in {"idle", "status"} => Len(tx) <= RXMARK
         /\ pc = "wait" /\ tc /\ ipc = "fill" => Len(tx) <= count
         /\ pc = "wait" /\ tc /\ ipc \in {"count", "read", "stuck"} => Len(tx) = 0

\* The words that are out reach from what is read to what is sent, and the
\* rest of the burst is a number of words.
LensOK ==
    pc # "idle" =>
      /\ tlen = StartOf(Out + 1) /\ tlen <= Whole /\ xlen \in Lengths
      /\ ~burst => lsb_adjust = 0 /\ (Whole - tlen) % Unit = 0
      /\ burst /\ pc # "burst" =>
           /\ tlen - rlen = btlen - brlen /\ btlen <= bxlen /\ (bxlen - btlen) % 4 = 0
           /\ tlen + bxlen - btlen <= xlen

NumInv == rlen \in Nat /\ RestOK /\ HandlerOK /\ RoomOK /\ LensOK

\* The shape of what is out.
LEMMA Shape ==
    ASSUME Types, Stored, rlen \in Nat
    PROVE  /\ WordLen \in {1, 2, 4} /\ First \in 1..4 /\ Out \in Nat
           /\ StartOf(1) = rlen /\ SizeOf(1) = First
           /\ \A k \in Nat \ {0} :
                /\ StartOf(k) \in Nat /\ StartOf(k) >= rlen /\ SizeOf(k) \in 1..4
                /\ StartOf(k + 1) = StartOf(k) + SizeOf(k)
                /\ k > 1 => StartOf(k) >= rlen + First /\ SizeOf(k) = WordLen
<1>1. WordLen \in {1, 2, 4}
  BY UnitIs DEF WordLen
<1>2. First \in 1..4
  BY <1>1 DEF First, Types
<1>3. Out \in Nat
  BY DEF Out, Stored
<1>4. StartOf(1) = rlen /\ SizeOf(1) = First
  BY DEF StartOf, SizeOf, Place, SizeAt
<1>5. \A k \in Nat \ {0} :
         /\ Place(rlen, First, WordLen, k) \in Nat /\ Place(rlen, First, WordLen, k) >= rlen
         /\ SizeAt(First, WordLen, k) \in 1..4
         /\ Place(rlen, First, WordLen, k + 1)
              = Place(rlen, First, WordLen, k) + SizeAt(First, WordLen, k)
         /\ k > 1 => Place(rlen, First, WordLen, k) >= rlen + First
  BY <1>1, <1>2, PlaceNext
<1>6. \A k \in Nat \ {0} : k > 1 => SizeOf(k) = WordLen
  BY DEF SizeOf, SizeAt
<1> QED BY <1>1, <1>2, <1>3, <1>4, <1>5, <1>6 DEF StartOf, SizeOf

\* A step that moves no word and no length keeps the places.
LEMMA LensKept ==
    ASSUME UNCHANGED <<burst, lens, tx, rx>>, LensOK, pc # "idle",
           pc' # "burst" => pc # "burst"
    PROVE  LensOK'
<1>1. StartOf(Out + 1)' = StartOf(Out + 1) /\ Unit' = Unit /\ Whole' = Whole
  BY DEF StartOf, First, WordLen, Unit, Whole, Out, lens
<1> QED BY <1>1 DEF LensOK, lens

\* A FIFO is empty when it holds no word.
LEMMA Empty ==
    ASSUME NEW S, NEW s \in Seq(S)
    PROVE  Len(s) \in Nat /\ (s = <<>> <=> Len(s) = 0)
OBVIOUS

\* A word shifted: it leaves one FIFO, and its answer finds room in the other.
LEMMA ShiftEffect ==
    ASSUME Stored, Out <= FIFO_SIZE, Shift
    PROVE  /\ Head(tx) \in Seq(Int) /\ tx' = Tail(tx) /\ Len(tx) >= 1 /\ Len(tx') = Len(tx) - 1
           /\ rx' = Append(rx, [k \in DOMAIN Head(tx) |-> Reply(Head(tx)[k])])
           /\ [k \in DOMAIN Head(tx) |-> Reply(Head(tx)[k])] \in Seq(Int)
           /\ Len(rx') = Len(rx) + 1
           /\ (xch' <=> Len(tx') > 0) /\ (tc' <=> (tc \/ Len(tx') = 0))
<1> DEFINE a == [k \in DOMAIN Head(tx) |-> Reply(Head(tx)[k])]
<1>1. tx # <<>> /\ tx \in Seq(Seq(Int)) /\ rx \in Seq(Seq(Int))
  BY DEF Shift, Stored
<1>2. /\ Head(tx) \in Seq(Int) /\ Len(tx) >= 1 /\ Len(tx) \in Nat
      /\ Len(Tail(tx)) = Len(tx) - 1
  BY <1>1, HeadTail
<1>3. tx' = Tail(tx) /\ rx' = Fit(Append(rx, a)) /\ (xch' <=> Len(tx) > 1)
      /\ (tc' <=> (tc \/ Len(tx) = 1))
  BY DEF Shift
<1>4. a \in Seq(Int)
  BY <1>2, AnswerType
<1> HIDE DEF a
<1>5. Append(rx, a) \in Seq(Seq(Int)) /\ Len(Append(rx, a)) = Len(rx) + 1 /\ Len(rx) \in Nat
  BY <1>1, <1>4, AppendWord
<1>6. Len(Append(rx, a)) <= FIFO_SIZE
  BY <1>2, <1>5, Consts DEF Out
<1>7. rx' = Append(rx, a)
  BY <1>3, <1>5, <1>6, FitSmall
<1> QED BY <1>2, <1>3, <1>4, <1>5, <1>7 DEF a

\* A word that is counted is there when it is read.
LEMMA PopEffect ==
    ASSUME Types, Stored, count <= Len(rx), count # 0, PopRx
    PROVE  /\ rx # <<>> /\ RxWord = Head(rx) /\ rx' = Tail(rx)
           /\ Len(rx) >= 1 /\ Len(rx') = Len(rx) - 1
<1>1. rx # <<>> /\ rx \in Seq(Seq(Int))
  BY Empty DEF Types, Stored
<1> QED BY <1>1, HeadTail DEF RxWord, PopRx

\* A word is written to a FIFO with room for it.
LEMMA SendEffect ==
    ASSUME Stored, Len(tx) < FIFO_SIZE, NEW w \in Seq(Int), Send(<<w>>)
    PROVE  tx' = Append(tx, w) /\ Len(tx') = Len(tx) + 1
<1>1. tx \in Seq(Seq(Int)) /\ Len(tx) \in Nat
  BY DEF Stored
<1>2. <<w>> \in Seq(Seq(Int)) /\ Len(<<w>>) = 1
  OBVIOUS
<1>3. tx' = tx \o <<w>>
  <2>1. Len(tx) + Len(<<w>>) <= FIFO_SIZE
    BY <1>1, <1>2, Consts
  <2> QED BY <1>2, <2>1, SendType
<1> QED BY <1>1, <1>3, AppendWord

\* An empty FIFO takes all the words of a first fill.
LEMMA SendFirst ==
    ASSUME Stored, Len(tx) = 0, NEW ws \in Seq(Seq(Int)), Len(ws) <= FIFO_SIZE, Send(ws)
    PROVE  tx' = ws
<1>1. tx = <<>>
  BY Empty DEF Stored
<1>2. Len(tx) + Len(ws) <= FIFO_SIZE
  BY Consts
<1>3. tx' = tx \o ws
  BY <1>2, SendType
<1>4. <<>> \o ws = ws
  OBVIOUS
<1> QED BY <1>1, <1>3, <1>4

\* With nothing left in it, the transmit FIFO stays empty when mx51_xfer
\* begins.
LEMMA BeginEmpty ==
    ASSUME Stored, Len(tx) = 0, Begin
    PROVE  Len(tx') = 0 /\ tx' = <<>>
<1>1. DOMAIN tx = 1..0
  BY DEF Stored
<1>2. tx' \in [1..0 -> Seq(Int)]
  BY <1>1 DEF Begin
<1>3. tx' \in Seq(Seq(Int)) /\ Len(tx') = 0
  BY <1>2, SeqOf
<1> QED BY <1>3, Empty

\* What a fill writes lies within the transfer.
LEMMA FillBurstEffect ==
    ASSUME Types, Stored, NumInv, FillBurst
    PROVE  /\ Len(tx) = 0 /\ Len(rx) = 0 /\ tlen = rlen
           /\ Odd \in 0..3 /\ BurstWords \in Nat /\ xlen \in Lengths
           /\ tlen' = tlen + Odd + 4 * BurstWords /\ tlen' <= xlen
           /\ btlen' = Odd + 4 * BurstWords /\ bxlen' = BurstBytes
           /\ btlen' <= bxlen' /\ (bxlen' - btlen') % 4 = 0 /\ tlen' + bxlen' - btlen' <= xlen
           /\ tx' = Words(tlen, Odd, BurstWords) /\ tx' \in Seq(Seq(Int))
           /\ Len(tx') = (IF Odd = 0 THEN BurstWords ELSE BurstWords + 1)
           /\ Len(tx') <= FIFO_SIZE
<1>1. Len(tx) = 0 /\ Len(rx) = 0 /\ More
  BY DEF FillBurst, NumInv, RestOK
<1>2. tlen = rlen /\ xlen \in Lengths
  BY <1>1, Shape DEF FillBurst, NumInv, LensOK, Out
<1>3. Odd \in 0..3
  BY UnitIs
<1>4. /\ BurstBytes \in Nat /\ BurstWords \in Nat
      /\ tlen + BurstBytes <= xlen
      /\ Odd + 4 * BurstWords <= BurstBytes
      /\ (BurstBytes - Odd) % 4 = 0
      /\ BurstWords <= (IF Odd = 0 THEN FIFO_SIZE ELSE FIFO_SIZE - 1)
  BY <1>1, BurstWordsAre
<1>5. tlen' = tlen + Odd + 4 * BurstWords /\ btlen' = Odd + 4 * BurstWords /\ bxlen' = BurstBytes
      /\ Send(Words(tlen, Odd, BurstWords))
  BY DEF FillBurst, BurstBytes, BurstWords
<1>6. tlen \in Nat /\ xlen \in Nat
  BY DEF Types
<1>7. /\ tlen' <= xlen /\ btlen' <= bxlen' /\ (bxlen' - btlen') % 4 = 0
      /\ tlen' + bxlen' - btlen' <= xlen
  BY <1>3, <1>4, <1>5, <1>6
<1>8. /\ Words(tlen, Odd, BurstWords) \in Seq(Seq(Int))
      /\ Len(Words(tlen, Odd, BurstWords)) = (IF Odd = 0 THEN BurstWords ELSE BurstWords + 1)
  <2>1. Odd \in Nat
    BY <1>3
  <2> QED BY <2>1, <1>4, <1>6, WordsType
<1>9. Len(Words(tlen, Odd, BurstWords)) <= FIFO_SIZE
  BY <1>4, <1>8, Consts
<1>10. tx' = Words(tlen, Odd, BurstWords)
  BY <1>1, <1>5, <1>8, <1>9, SendFirst
<1> QED BY <1>1, <1>2, <1>3, <1>4, <1>5, <1>7, <1>8, <1>9, <1>10

\* The same when each word is a burst.
LEMMA FillWordsEffect ==
    ASSUME Types, Stored, NumInv, FillWords
    PROVE  /\ Len(tx) = 0 /\ Len(rx) = 0 /\ tlen = rlen /\ lsb_adjust = 0
           /\ Unit \in {1, 2, 4} /\ UnitWords \in Nat /\ xlen \in Lengths
           /\ tlen' = tlen + Unit * UnitWords /\ tlen' <= Whole
           /\ (Whole - tlen') % Unit = 0
           /\ tx' = [k \in 1..UnitWords |-> Bytes(tlen + Unit * (k - 1), Unit)]
           /\ tx' \in Seq(Seq(Int)) /\ Len(tx') = UnitWords /\ Len(tx') <= FIFO_SIZE
<1> DEFINE ws == [k \in 1..UnitWords |-> Bytes(tlen + Unit * (k - 1), Unit)]
<1>1. Len(tx) = 0 /\ Len(rx) = 0 /\ More
  BY DEF FillWords, NumInv, RestOK
<1>2. tlen = rlen /\ xlen \in Lengths /\ lsb_adjust = 0 /\ (Whole - tlen) % Unit = 0
  BY <1>1, Shape DEF FillWords, NumInv, LensOK, Out
<1>3. Unit \in {1, 2, 4}
  BY UnitIs
<1>4. /\ UnitWords \in Nat /\ UnitWords <= FIFO_SIZE
      /\ tlen + Unit * UnitWords <= Whole
      /\ (Whole - (tlen + Unit * UnitWords)) % Unit = 0
  BY <1>1, <1>2, UnitWordsAre
<1>5. tlen' = tlen + Unit * UnitWords /\ Send(ws)
  BY DEF FillWords, UnitWords
<1>6. ws \in Seq(Seq(Int)) /\ Len(ws) = UnitWords
  <2>1. tlen \in Nat /\ Unit \in Nat /\ UnitWords \in Nat
    BY <1>3, <1>4 DEF Types
  <2> QED BY <2>1, UnitWordsType, Zenon
<1> HIDE DEF ws
<1>7. tx' = ws
  BY <1>1, <1>4, <1>5, <1>6, SendFirst
<1> QED BY <1>1, <1>2, <1>3, <1>4, <1>5, <1>6, <1>7 DEF ws

\* No transfer has timed out before it has, and TC was not stale before.
LEMMA UndisturbedBefore ==
    ASSUME Types, [Next]_vars, Undisturbed'
    PROVE  Undisturbed /\ ~TimeOut
<1>1. late' = late \/ (late' = late + 1 /\ TimeOut)
  BY DEF Next, Thread, Handler, Begin, BeginUnknown, FillBurst, FillUnsupported, FillWords, Enable, Start,
         Wake, End, TimeOut, Shift, Interrupt, IntrStatus, IntrWrong, IntrCount, IntrReadNone,
         IntrReadFirst, IntrRead, IntrReadDone, IntrFill, IntrExchange, IntrEnd, vars, ghost
<1>2. staleTC => staleTC'
  BY DEF Next, Thread, Handler, Begin, BeginUnknown, FillBurst, FillUnsupported, FillWords, Enable, Start,
         Wake, End, TimeOut, Shift, Interrupt, IntrStatus, IntrWrong, IntrCount, IntrReadNone,
         IntrReadFirst, IntrRead, IntrReadDone, IntrFill, IntrExchange, IntrEnd, vars, ghost
<1>3. TimeOut => late' = late + 1
  BY DEF TimeOut
<1>4. late' = 0 /\ ~staleTC'
  BY DEF Undisturbed
<1>5. late = 0 /\ ~TimeOut
  BY <1>1, <1>3, <1>4 DEF Types
<1> QED BY <1>2, <1>4, <1>5 DEF Undisturbed

\* An exchange is started only with something to send.
LEMMA Started ==
    ASSUME Stored, SetXCH, xch => Len(tx) > 0
    PROVE  xch' => Len(tx) > 0
<1>1. xch' => xch \/ tx # <<>>
  BY DEF SetXCH
<1>2. tx # <<>> => Len(tx) > 0
  BY Empty DEF Stored
<1> QED BY <1>1, <1>2

\* A burst is over only when every answer to it is read.
LEMMA OverOnlyWhenRead ==
    ASSUME Types, Stored, NumInv, pc = "wait", BurstOver
    PROVE  Out = 0
<1>1. rlen \in Nat /\ Out \in Nat
  BY DEF NumInv, Out, Stored
<1>2. tlen < rlen + First
  <2>1. /\ tlen <= Whole
        /\ burst => tlen - rlen = btlen - brlen /\ btlen <= bxlen
        /\ ~burst => lsb_adjust = 0
    BY DEF NumInv, LensOK
  <2>2. Whole \in Nat /\ Whole < xlen + Unit /\ (burst => Whole = xlen)
    BY WholeIs
  <2>3. First \in 1..4 /\ Unit \in {1, 2, 4} /\ (~burst => First = Unit)
    BY <1>1, <2>1, Shape, UnitIs DEF First, WordLen
  <2> QED BY <2>1, <2>2, <2>3, <1>1 DEF BurstOver, Types
<1>3. tlen = StartOf(Out + 1)
  BY DEF NumInv, LensOK
<1>4. Out > 0 => StartOf(Out + 1) >= rlen + First /\ First \in 1..4
  <2>1. Out + 1 \in Nat \ {0} /\ (Out > 0 => Out + 1 > 1)
    BY <1>1
  <2> QED BY <2>1, <1>1, Shape
<1> QED BY <1>1, <1>2, <1>3, <1>4 DEF Types

\* The lengths of the words that are out, the registers and the places of
\* the two actors agree after every step.
LEMMA NumStep ==
    ASSUME Types, Stored, NumInv, [Next]_vars, Undisturbed', Types', Stored'
    PROVE  NumInv'
<1>0. Undisturbed /\ ~TimeOut
  BY UndisturbedBefore
<1>a. /\ Len(tx) \in Nat /\ Len(rx) \in Nat /\ (tx = <<>> <=> Len(tx) = 0)
      /\ Len(tx') \in Nat /\ Len(rx') \in Nat
  BY Empty DEF Stored
<1>b. rlen \in Nat
  BY DEF NumInv
<1>c. Unit \in {1, 2, 4} /\ Whole \in Nat /\ (burst => Whole = xlen)
  BY UnitIs, WholeIs
<1>1. CASE Begin
  <2>1. Len(tx') = 0 /\ Len(rx') = 0 /\ rlen' = 0 /\ tlen' = 0
    BY <1>1, BeginEmpty DEF Begin, NumInv, RestOK
  <2>2. RestOK' /\ HandlerOK'
    BY <1>1, <2>1 DEF Begin, NumInv, RestOK, HandlerOK, Out, intr
  <2>3. RoomOK'
    BY <1>1, <2>1, Consts DEF Begin, NumInv, RestOK, RoomOK, Out, intr
  <2>4. xlen' \in Lengths /\ lsb_adjust' = 0 /\ xlen' \in Nat
    BY <1>1, EcspiAssumption DEF Begin
  <2>a. Whole' \in Nat /\ (~burst' => Whole' % Unit' = 0)
    <3>1. Unit' \in {1, 2, 4}
      BY DEF Types, Unit
    <3>2. Unit' * ((xlen' + Unit' - 1) \div Unit') \in Nat
          /\ (Unit' * ((xlen' + Unit' - 1) \div Unit')) % Unit' = 0
      BY <2>4, <3>1, RoundUp
    <3> QED BY <2>4, <3>2 DEF Whole
  <2>5. StartOf(Out + 1)' = 0
    BY <2>1 DEF StartOf, Place, Out
  <2>6. pc' \in {"idle", "burst"}
    BY <1>1 DEF Begin
  <2>7. LensOK'
    BY <2>1, <2>4, <2>a, <2>5, <2>6 DEF LensOK
  <2> QED BY <2>1, <2>2, <2>3, <2>7 DEF NumInv
<1>2. CASE FillBurst
  <2>1. /\ Len(tx) = 0 /\ Len(rx) = 0 /\ tlen = rlen
        /\ Odd \in 0..3 /\ BurstWords \in Nat /\ xlen \in Lengths
        /\ tlen' = tlen + Odd + 4 * BurstWords /\ tlen' <= xlen
        /\ btlen' = Odd + 4 * BurstWords
        /\ btlen' <= bxlen' /\ (bxlen' - btlen') % 4 = 0 /\ tlen' + bxlen' - btlen' <= xlen
        /\ Len(tx') = (IF Odd = 0 THEN BurstWords ELSE BurstWords + 1)
        /\ Len(tx') <= FIFO_SIZE
    BY <1>2, FillBurstEffect
  <2>2. RestOK' /\ HandlerOK' /\ RoomOK'
    BY <1>2, <2>1, <1>a DEF FillBurst, NumInv, RestOK, HandlerOK, RoomOK, Out, intr
  <2>3. First' = (IF Odd = 0 THEN 4 ELSE Odd) /\ WordLen' = 4 /\ Len(rx') = 0 /\ rlen' = rlen
    BY <1>2, <2>1 DEF FillBurst, First, WordLen
  <2>4. StartOf(Out + 1)' = tlen'
    BY <2>1, <2>3, <1>b DEF StartOf, Place, Out
  <2>5. xlen' = xlen /\ brlen' = 0 /\ burst' /\ Whole' = xlen
    BY <1>2 DEF FillBurst, Whole
  <2>6. LensOK'
    BY <2>1, <2>3, <2>4, <2>5, <1>b DEF LensOK
  <2> QED BY <1>b, <2>2, <2>3, <2>6 DEF NumInv
<1>3. CASE FillWords
  <2>1. /\ Len(tx) = 0 /\ Len(rx) = 0 /\ tlen = rlen /\ lsb_adjust = 0
        /\ Unit \in {1, 2, 4} /\ UnitWords \in Nat /\ xlen \in Lengths
        /\ tlen' = tlen + Unit * UnitWords /\ tlen' <= Whole
        /\ (Whole - tlen') % Unit = 0
        /\ Len(tx') = UnitWords /\ Len(tx') <= FIFO_SIZE
    BY <1>3, FillWordsEffect
  <2>2. RestOK' /\ HandlerOK' /\ RoomOK'
    BY <1>3, <2>1, <1>a DEF FillWords, NumInv, RestOK, HandlerOK, RoomOK, Out, intr
  <2>3. First' = Unit /\ WordLen' = Unit /\ Len(rx') = 0 /\ rlen' = rlen /\ Unit' = Unit
    BY <1>3, <2>1 DEF FillWords, First, WordLen, Unit
  <2>4. StartOf(Out + 1)' = tlen'
    <3>1. CASE Unit = 1 BY <3>1, <2>1, <2>3, <1>b DEF StartOf, Place, Out
    <3>2. CASE Unit = 2 BY <3>2, <2>1, <2>3, <1>b DEF StartOf, Place, Out
    <3>3. CASE Unit = 4 BY <3>3, <2>1, <2>3, <1>b DEF StartOf, Place, Out
    <3> QED BY <3>1, <3>2, <3>3, <2>1
  <2>5. xlen' = xlen /\ lsb_adjust' = lsb_adjust /\ ~burst' /\ Whole' = Whole
    BY <1>3 DEF FillWords, Whole, Unit
  <2>6. LensOK'
    BY <2>1, <2>3, <2>4, <2>5, <1>b DEF LensOK
  <2> QED BY <1>b, <2>2, <2>3, <2>6 DEF NumInv
<1>4. CASE FillUnsupported \/ End
  <2>1. pc' = "idle" /\ rlen' = rlen
    BY <1>4 DEF FillUnsupported, End, lens
  <2>2. RestOK' /\ HandlerOK' /\ RoomOK'
    BY <1>4, <1>a DEF FillUnsupported, End, NumInv, RestOK, HandlerOK, RoomOK, RDR, Out, lens, intr
  <2> QED BY <1>b, <2>1, <2>2 DEF NumInv, LensOK
<1>5. CASE Enable \/ Start \/ Wake
  <2>1. LensOK'
    <3>1. UNCHANGED <<burst, lens, tx, rx>> /\ pc # "idle" /\ (pc' # "burst" => pc # "burst")
      BY <1>5 DEF Enable, Start, Wake, ctl
    <3> QED BY <3>1, LensKept DEF NumInv
  <2>2. RestOK' /\ HandlerOK' /\ RoomOK'
    <3>1. CASE Enable
      BY <3>1, <1>a DEF Enable, NumInv, RestOK, HandlerOK, RoomOK, RDR, Out, lens, intr, Undisturbed
    <3>2. CASE Start
      <4>1. /\ UNCHANGED <<tx, rx, tc, inten, pulses, ipc, istat, count, burst>>
            /\ pc = "start" /\ pc' = "wait"
        BY <3>2 DEF Start, intr
      <4>2. xch' => Len(tx) > 0
        BY <3>2, Started DEF Start, NumInv, RestOK
      <4>3. RestOK'
        BY <4>1, <4>2 DEF NumInv, RestOK
      <4>4. HandlerOK'
        BY <4>1 DEF NumInv, RestOK, HandlerOK
      <4>5. RoomOK'
        BY <4>1 DEF NumInv, RestOK, RoomOK, Out
      <4> QED BY <4>3, <4>4, <4>5
    <3>3. CASE Wake
      BY <3>3, <1>a DEF Wake, NumInv, RestOK, HandlerOK, RoomOK, RDR, Out, lens, intr, ctl, Types
    <3> QED BY <1>5, <3>1, <3>2, <3>3
  <2>3. rlen' = rlen
    BY <1>5 DEF Enable, Start, Wake, lens
  <2> QED BY <1>b, <2>1, <2>2, <2>3 DEF NumInv
<1>6. CASE Shift
  <2>1. /\ Len(tx) >= 1 /\ Len(tx') = Len(tx) - 1 /\ Len(rx') = Len(rx) + 1
        /\ (xch' <=> Len(tx') > 0) /\ (tc' <=> (tc \/ Len(tx') = 0))
    BY <1>6, ShiftEffect DEF NumInv, RoomOK
  <2>2. UNCHANGED <<burst, lens, pc, ipc, istat, count, inten, pulses>> /\ xch
    BY <1>6 DEF Shift, thr, intr
  <2>3. Out' = Out /\ pc = "wait"
    BY <2>1, <2>2, <1>a DEF Out, NumInv, RestOK, Types
  <2>4. RestOK' /\ HandlerOK'
    <3>1. pulses = 0
      BY <2>1, <1>a DEF NumInv, RestOK, Out, Types
    <3>2. RestOK'
      BY <2>1, <2>2, <2>3, <3>1 DEF NumInv, RestOK
    <3>3. HandlerOK'
      <4>1. tc \/ RDR => (tc \/ RDR)'
        BY <2>1, <1>a, Consts DEF RDR
      <4>2. lsb_adjust' = lsb_adjust
        BY <2>2 DEF lens
      <4>3. ipc' = "status" => tc' \/ RDR'
        BY <2>2, <4>1 DEF NumInv, HandlerOK
      <4>4. /\ ipc = "count" /\ istat = "rdr" => Len(rx') >= RXMARK
            /\ ipc = "read" => count <= Len(rx')
        <5>1. /\ ipc = "count" /\ istat = "rdr" => Len(rx) >= RXMARK
              /\ ipc = "read" => count <= Len(rx)
          BY DEF NumInv, HandlerOK
        <5>2. count \in Nat
          BY DEF Types
        <5> QED BY <5>1, <5>2, <2>1, <1>a, Consts
      <4> QED BY <2>2, <4>2, <4>3, <4>4 DEF NumInv, HandlerOK
    <3> QED BY <3>2, <3>3
  <2>5. RoomOK'
    <3>1. CASE Len(tx') = 0
      BY <3>1, <2>1, <2>2, <2>3, <1>a, Consts DEF NumInv, RoomOK, Types
    <3>2. CASE Len(tx') # 0
      <4>1. tc' <=> tc
        BY <3>2, <2>1
      <4>2. \A n \in Nat : Len(tx) <= n => Len(tx') <= n
        BY <2>1, <1>a
      <4>3. tc /\ ipc \in {"count", "read", "stuck"} => ~burst
        BY <2>1, <2>3, <1>a DEF NumInv, RoomOK
      <4> QED BY <4>1, <4>2, <4>3, <2>2, <2>3, Consts DEF NumInv, RoomOK, Types
    <3> QED BY <3>1, <3>2
  <2>6. StartOf(Out + 1)' = StartOf(Out + 1) /\ Unit' = Unit /\ Whole' = Whole
    BY <2>2, <2>3 DEF StartOf, First, WordLen, Unit, Whole, lens
  <2>7. LensOK'
    BY <2>2, <2>3, <2>6 DEF NumInv, LensOK, lens
  <2> QED BY <1>b, <2>2, <2>4, <2>5, <2>7 DEF NumInv, lens
<1>7. CASE Interrupt \/ IntrStatus \/ IntrCount \/ IntrReadNone \/ IntrReadDone
  <2>1. UNCHANGED <<burst, lens, tx, rx, pc, pulses, xch, inten>>
    BY <1>7 DEF Interrupt, IntrStatus, IntrCount, IntrReadNone, IntrReadDone, thr, ctl
  <2>2. pc = "wait" /\ inten
    <3>1. CASE Interrupt
      <4>1. inten /\ (tc \/ Len(rx) >= RXMARK)
        BY <3>1 DEF Interrupt, RDR
      <4>2. pc # "start"
        BY <4>1, <1>a, Consts DEF NumInv, RestOK
      <4> QED BY <4>1, <4>2 DEF NumInv, RestOK, Types
    <3>2. CASE ipc # "idle"
      BY <3>2 DEF NumInv, RestOK, Types
    <3> QED BY <1>7, <3>1, <3>2 DEF IntrStatus, IntrCount, IntrReadNone, IntrReadDone
  <2>3. LensOK'
    BY <2>1, <2>2, LensKept DEF NumInv
  <2>4. Out' = Out /\ Out \in Nat
    BY <2>1, <1>a DEF Out
  <2>5. RestOK'
    BY <2>1, <2>2, <2>4, <1>7 DEF NumInv, RestOK, Interrupt
  <2>6. HandlerOK' /\ RoomOK'
    <3>1. CASE Interrupt
      <4>1. ipc = "idle" /\ ipc' = "status" /\ (tc \/ RDR) /\ (tc' <=> tc) /\ UNCHANGED <<istat, count>>
        BY <3>1 DEF Interrupt, ctl
      <4> QED BY <4>1, <2>1, <2>2, <2>4 DEF NumInv, HandlerOK, RoomOK, RDR
    <3>2. CASE IntrStatus
      <4>1. ipc = "status" /\ ipc' = "count" /\ ~tc' /\ count' = count
        BY <3>2 DEF IntrStatus
      <4>2. \/ tc /\ istat' = "tc"
            \/ ~tc /\ RDR /\ istat' = "rdr"
        BY <3>2, <4>1 DEF IntrStatus, NumInv, HandlerOK
      <4> QED BY <4>1, <4>2, <2>1, <2>2, <2>4 DEF NumInv, HandlerOK, RoomOK, RDR
    <3>3. CASE IntrCount
      <4>1. /\ ipc = "count" /\ ipc' = "read" /\ (tc' <=> tc) /\ istat' = istat
            /\ count' = (IF istat = "tc" THEN Len(rx) ELSE RXMARK)
        BY <3>3 DEF IntrCount, WordsToRead, ctl
      <4>2. istat \in {"tc", "rdr"} /\ (istat = "rdr" => Len(rx) >= RXMARK)
        BY <4>1 DEF NumInv, HandlerOK
      <4>3. HandlerOK'
        BY <4>1, <4>2, <2>1, <1>a DEF HandlerOK
      <4>4. RoomOK'
        BY <4>1, <4>2, <2>1, <2>2, <2>4, <1>a, Consts DEF NumInv, RoomOK, Out
      <4> QED BY <4>3, <4>4
    <3>4. CASE IntrReadNone \/ IntrReadDone
      <4>1. /\ ipc = "read" /\ ipc' \in {"fill", "stuck"} /\ (tc' <=> tc) /\ UNCHANGED <<istat, count>>
            /\ burst /\ count = 0 /\ (ipc' = "fill" => lsb_adjust' = 0)
        BY <3>4 DEF IntrReadNone, IntrReadDone, ctl, lens
      <4>2. HandlerOK'
        BY <4>1, <2>1, Consts DEF NumInv, HandlerOK
      <4>3. RoomOK'
        BY <4>1, <2>1, <2>2, <2>4, <1>a, Consts DEF NumInv, RoomOK
      <4> QED BY <4>2, <4>3
    <3> QED BY <1>7, <3>1, <3>2, <3>3, <3>4
  <2> QED BY <1>b, <2>1, <2>3, <2>5, <2>6 DEF NumInv, lens
<1>8. CASE IntrWrong
  BY <1>8 DEF IntrWrong, NumInv, HandlerOK
<1>9. CASE IntrEnd
  <2>1. UNCHANGED <<burst, lens, tx, rx, pc, tc>> /\ ipc \in {"read", "fill"} /\ count' = 0
        /\ ipc' = "idle" /\ (ipc = "read" => ~burst)
    BY <1>9 DEF IntrEnd, Notify, thr
  <2>2. pc = "wait" /\ inten /\ pulses = 0
    BY <2>1 DEF NumInv, RestOK, Types
  <2>3. LensOK'
    BY <2>1, <2>2, LensKept DEF NumInv
  <2>4. Out' = Out /\ Out \in Nat
    BY <2>1, <1>a DEF Out
  <2>5. HandlerOK'
    BY <2>1 DEF HandlerOK
  <2>6. RoomOK'
    BY <2>1, <2>2, <2>4, <1>a, Consts DEF NumInv, RoomOK, HandlerOK, Types
  <2>7. BurstOver => Out = 0
    BY <2>2, OverOnlyWhenRead
  <2>8. RestOK'
    <3>1. CASE BurstOver
      <4>1. ~inten' /\ pulses' = 1 /\ xch' = xch
        BY <1>9, <3>1, <2>2 DEF IntrEnd, Notify
      <4> QED BY <4>1, <3>1, <2>1, <2>2, <2>4, <2>7 DEF NumInv, RestOK
    <3>2. CASE ~BurstOver
      <4>1. inten' = inten /\ pulses' = pulses /\ (xch' => Len(tx) > 0)
        <5>1. SetXCH /\ inten' = inten /\ pulses' = pulses
          BY <1>9, <3>2 DEF IntrEnd
        <5>2. xch => Len(tx) > 0
          BY DEF NumInv, RestOK
        <5> QED BY <5>1, <5>2, Started
      <4> QED BY <4>1, <2>1, <2>2, <2>4 DEF NumInv, RestOK
    <3> QED BY <3>1, <3>2
  <2> QED BY <1>b, <2>1, <2>3, <2>5, <2>6, <2>8 DEF NumInv, lens
<1>10. CASE IntrFill
  <2>1. /\ UNCHANGED <<burst, xlen, rlen, bxlen, brlen, dlen, lsb_adjust, rx, pc, ipc, istat, xch,
                       tc, inten, pulses>>
        /\ tlen' = tlen + 4 /\ btlen' = btlen + 4 /\ count' = count + 1
        /\ ipc = "fill" /\ btlen < bxlen /\ count < RXMARK /\ Send(<<Bytes(tlen, 4)>>)
    BY <1>10 DEF IntrFill, MoreToFill, thr
  <2>2. pc = "wait" /\ inten /\ pulses = 0 /\ burst /\ istat \in {"tc", "rdr"}
    BY <2>1 DEF NumInv, RestOK, HandlerOK, Types
  <2>3. Out < FIFO_SIZE
    BY <2>1, <2>2, <1>a, Consts DEF NumInv, RoomOK, Out, Types
  <2>4. Len(tx') = Len(tx) + 1
    <3>1. Len(tx) < FIFO_SIZE
      BY <2>3, <1>a, Consts DEF Out
    <3>2. Bytes(tlen, 4) \in Seq(Int)
      BY BytesType DEF Types
    <3> QED BY <2>1, <3>1, <3>2, SendEffect
  <2>5. Out' = Out + 1 /\ Out \in Nat
    BY <2>1, <2>4, <1>a DEF Out
  <2>6. RestOK'
    BY <2>1, <2>2, <2>4, <2>5, <1>a DEF NumInv, RestOK
  <2>7. HandlerOK'
    BY <2>1, <2>2, Consts DEF NumInv, HandlerOK, Types
  <2>8. RoomOK'
    <3>1. Out' <= FIFO_SIZE
      BY <2>3, <2>5, Consts
    <3> QED BY <3>1, <2>1, <2>2, <2>4, <2>5, <1>a, Consts DEF NumInv, RoomOK, Types
  <2>9. StartOf(Out + 1)' = tlen'
    <3>1. Out + 1 \in Nat \ {0}
      BY <2>5
    <3>2. StartOf(Out + 2) = StartOf(Out + 1) + SizeOf(Out + 1)
      <4>1. StartOf((Out + 1) + 1) = StartOf(Out + 1) + SizeOf(Out + 1)
        BY <3>1, <1>b, Shape
      <4>2. (Out + 1) + 1 = Out + 2
        BY <2>5
      <4> QED BY <4>1, <4>2
    <3>3. StartOf(Out + 1)' = StartOf(Out + 2)
      BY <2>1, <2>5 DEF StartOf, First, WordLen, Unit
    <3>4. SizeOf(Out + 1) = 4
      <4>1. lsb_adjust = 0
        BY <2>1 DEF NumInv, HandlerOK
      <4> QED BY <4>1, <2>2, <2>5 DEF SizeOf, SizeAt, First, WordLen
    <3>5. StartOf(Out + 1) = tlen
      BY <2>2 DEF NumInv, LensOK
    <3> QED BY <2>1, <3>2, <3>3, <3>4, <3>5
  <2>10. LensOK'
    <3>2. Whole' = xlen
      BY <2>1, <2>2 DEF Whole
    <3>1. /\ tlen' <= xlen' /\ xlen' \in Lengths
          /\ tlen' - rlen' = btlen' - brlen' /\ btlen' <= bxlen' /\ (bxlen' - btlen') % 4 = 0
          /\ tlen' + bxlen' - btlen' <= xlen'
      BY <2>1, <2>2, <1>b DEF NumInv, LensOK, Types
    <3> QED BY <2>1, <2>2, <2>9, <3>1, <3>2 DEF LensOK
  <2> QED BY <1>b, <2>1, <2>6, <2>7, <2>8, <2>10 DEF NumInv
<1>11. CASE IntrReadFirst \/ IntrRead
  <2>1. /\ UNCHANGED <<burst, xlen, tlen, bxlen, btlen, dlen, pc, ipc, istat, tx, xch, tc, inten,
                       pulses>>
        /\ ipc = "read" /\ burst /\ count # 0 /\ PopRx /\ count' = count - 1 /\ lsb_adjust' = 0
        /\ rlen' = rlen + First /\ brlen' = brlen + First
    BY <1>11 DEF IntrReadFirst, IntrRead, First, WordLen, thr
  <2>2. pc = "wait" /\ inten /\ pulses = 0 /\ istat \in {"tc", "rdr"} /\ count <= Len(rx)
    BY <2>1 DEF NumInv, RestOK, HandlerOK, Types
  <2>3. Len(rx') = Len(rx) - 1 /\ Len(rx) >= 1
    BY <2>1, <2>2, PopEffect
  <2>4. Out' = Out - 1 /\ Out \in Nat /\ Out >= 1
    BY <2>1, <2>3, <1>a DEF Out
  <2>5. First \in 1..4 /\ WordLen = 4 /\ WordLen' = 4 /\ First' = 4
    BY <2>1, Shape, <1>b DEF WordLen, First
  <2>6. RestOK'
    BY <2>1, <2>2 DEF NumInv, RestOK
  <2>7. HandlerOK'
    BY <2>1, <2>2, <2>3, <1>a DEF NumInv, HandlerOK, Types
  <2>8. RoomOK'
    BY <2>1, <2>2, <2>4, <1>a, Consts DEF NumInv, RoomOK, Types
  <2>9. StartOf(Out + 1)' = tlen
    <3>1. Place(rlen + First, 4, 4, Out) = Place(rlen, First, 4, Out + 1)
      <4>1. Out \in Nat \ {0}
        BY <2>4
      <4> QED BY <4>1, <2>5, <1>b, PlacePop
    <3>2. StartOf(Out + 1)' = Place(rlen + First, 4, 4, Out)
      <4>1. Out' + 1 = Out
        BY <2>4
      <4> QED BY <4>1, <2>1, <2>5 DEF StartOf
    <3>3. tlen = Place(rlen, First, 4, Out + 1)
      BY <2>2, <2>5 DEF NumInv, LensOK, StartOf
    <3> QED BY <3>1, <3>2, <3>3
  <2>10. LensOK'
    <3>1. /\ tlen <= Whole /\ xlen \in Lengths
          /\ tlen - rlen = btlen - brlen /\ btlen <= bxlen /\ (bxlen - btlen) % 4 = 0
          /\ tlen + bxlen - btlen <= xlen
      BY <2>1, <2>2 DEF NumInv, LensOK
    <3>2. tlen - rlen' = btlen - brlen'
      BY <2>1, <2>5, <3>1, <1>b DEF Types
    <3>3. Whole' = Whole
      BY <2>1 DEF Whole
    <3> QED BY <2>1, <2>2, <2>9, <3>1, <3>2, <3>3 DEF LensOK
  <2>11. rlen' \in Nat
    BY <2>1, <2>5, <1>b
  <2> QED BY <2>6, <2>7, <2>8, <2>10, <2>11 DEF NumInv
<1>12. CASE IntrExchange
  <2>1. /\ UNCHANGED <<burst, xlen, bxlen, btlen, brlen, dlen, lsb_adjust, pc, ipc, istat, xch, tc,
                       inten, pulses>>
        /\ ipc = "read" /\ ~burst /\ count # 0 /\ PopRx /\ count' = count - 1
        /\ rlen' = rlen + Unit
    BY <1>12 DEF IntrExchange, thr
  <2>2. pc = "wait" /\ inten /\ pulses = 0 /\ istat \in {"tc", "rdr"} /\ count <= Len(rx)
    BY <2>1 DEF NumInv, RestOK, HandlerOK, Types
  <2>3. Len(rx') = Len(rx) - 1 /\ Len(rx) >= 1
    BY <2>1, <2>2, PopEffect
  <2>4. \/ tlen < xlen /\ Len(tx') = Len(tx) + 1 /\ tlen' = tlen + Unit
        \/ tx' = tx /\ tlen' = tlen
    <3>1. CASE tlen < xlen
      <4>1. Send(<<Bytes(tlen, Unit)>>) /\ tlen' = tlen + Unit
        BY <1>12, <3>1 DEF IntrExchange
      <4>2. Bytes(tlen, Unit) \in Seq(Int)
        <5>1. Unit \in Nat /\ tlen \in Nat
          BY UnitIs DEF Types
        <5> QED BY <5>1, BytesType
      <4>3. Len(tx) < FIFO_SIZE
        BY <2>3, <1>a, Consts DEF NumInv, RoomOK, Out
      <4> QED BY <3>1, <4>1, <4>2, <4>3, SendEffect
    <3>2. CASE ~(tlen < xlen)
      BY <1>12, <3>2 DEF IntrExchange
    <3> QED BY <3>1, <3>2
  <2>5. Out' <= Out /\ Out' \in Nat /\ Out \in Nat /\ Out >= 1
    BY <2>3, <2>4, <1>a DEF Out
  <2>6. RestOK'
    BY <2>1, <2>2, <2>4, <1>a DEF NumInv, RestOK
  <2>7. HandlerOK'
    BY <2>1, <2>2, <2>3, <1>a DEF NumInv, HandlerOK, Types
  <2>8. RoomOK'
    BY <2>1, <2>5, Consts DEF NumInv, RoomOK
  <2>9. lsb_adjust = 0 /\ First = Unit /\ WordLen = Unit /\ First' = Unit /\ WordLen' = Unit
        /\ Unit' = Unit /\ Unit \in {1, 2, 4} /\ Whole' = Whole
    BY <2>1, <2>2, UnitIs DEF NumInv, LensOK, First, WordLen, Unit, Whole
  <2>10. tlen = StartOf(Out + 1) /\ tlen <= Whole /\ xlen \in Lengths /\ (Whole - tlen) % Unit = 0
    BY <2>1, <2>2 DEF NumInv, LensOK
  <2>11. StartOf(Out + 1)' = tlen'
    <3>1. \A k \in Nat \ {0} : Place(rlen + Unit, Unit, Unit, k) = Place(rlen, Unit, Unit, k + 1)
      <4>1. Unit \in 1..4
        BY <2>9
      <4> QED BY <4>1, <2>9, <1>b, PlacePop
    <3>2. \A k \in Nat \ {0} : Place(rlen, Unit, Unit, k + 1) = Place(rlen, Unit, Unit, k) + Unit
      <4>1. Unit \in 1..4 /\ \A k \in Nat : SizeAt(Unit, Unit, k) = Unit
        BY <2>9 DEF SizeAt
      <4>2. \A k \in Nat \ {0} :
               Place(rlen, Unit, Unit, k + 1) = Place(rlen, Unit, Unit, k) + SizeAt(Unit, Unit, k)
        BY <4>1, <2>9, <1>b, PlaceNext
      <4> QED BY <4>1, <4>2
    <3>3. StartOf(Out + 1)' = Place(rlen + Unit, Unit, Unit, Out' + 1)
      BY <2>1, <2>9 DEF StartOf
    <3>4. tlen = Place(rlen, Unit, Unit, Out + 1)
      BY <2>9, <2>10 DEF StartOf
    <3>5. CASE Len(tx') = Len(tx) + 1 /\ tlen' = tlen + Unit
      <4>1. Out' = Out /\ Out + 1 \in Nat \ {0}
        BY <3>5, <2>3, <2>5, <1>a DEF Out
      <4> QED BY <4>1, <3>1, <3>2, <3>3, <3>4, <3>5
    <3>6. CASE tx' = tx /\ tlen' = tlen
      <4>1. Out' + 1 = Out /\ Out \in Nat \ {0}
        BY <3>6, <2>3, <2>5, <1>a DEF Out
      <4> QED BY <4>1, <3>1, <3>3, <3>4, <3>6
    <3> QED BY <2>4, <3>5, <3>6
  <2>12. tlen' <= Whole /\ (Whole - tlen') % Unit = 0
    <3>1. xlen \in Nat /\ tlen \in Nat /\ Whole \in Nat /\ xlen <= Whole
      BY WholeIs DEF Types
    <3>2. CASE Unit = 1 BY <3>1, <3>2, <2>4, <2>10
    <3>3. CASE Unit = 2 BY <3>1, <3>3, <2>4, <2>10
    <3>4. CASE Unit = 4 BY <3>1, <3>4, <2>4, <2>10
    <3> QED BY <2>9, <3>2, <3>3, <3>4
  <2>13. LensOK'
    BY <2>1, <2>9, <2>10, <2>11, <2>12 DEF LensOK
  <2>14. rlen' \in Nat
    BY <2>1, <2>9, <1>b
  <2> QED BY <2>6, <2>7, <2>8, <2>13, <2>14 DEF NumInv
<1>13. CASE BeginUnknown \/ UNCHANGED vars
  BY <1>13 DEF BeginUnknown, vars, lens, thr, intr, ctl, ghost, NumInv, RestOK, HandlerOK, RoomOK,
               LensOK, StartOf, First, WordLen, Unit, Whole, Out, RDR
<1> QED BY <1>0, <1>1, <1>2, <1>3, <1>4, <1>5, <1>6, <1>7, <1>8, <1>9, <1>10, <1>11, <1>12, <1>13
        DEF Next, Thread, Handler

\* Before the first transfer nothing is out.
LEMMA NumInit == Init => NumInv
<1> SUFFICES ASSUME Init PROVE NumInv
  OBVIOUS
<1>1. Len(tx) = 0 /\ Len(rx) = 0 /\ rlen = 0
  BY DEF Init
<1> QED BY <1>1, Consts DEF Init, NumInv, RestOK, HandlerOK, RoomOK, LensOK, Out

-----------------------------------------------------------------------------
(* What the words hold. *)

\* A word of n bytes that carries the bytes from i on, and the answer to it.
IsWord(w, i, n) == Len(w) = n /\ \A j \in 1..n : w[j] = i + j - 1
IsAnswer(w, i, n) == Len(w) = n /\ \A j \in 1..n : w[j] = Reply(i + j - 1)

\* The buffer has answers up to what is read, and the client's bytes beyond;
\* the FIFOs hold the answers that follow, and then the words that follow
\* those; all before them has been on the wire.
BufOK == \A i \in 0..Room - 1 : pbuf[i] = IF i < rlen THEN Reply(i) ELSE i
RxOK == \A k \in 1..Len(rx) : IsAnswer(rx[k], StartOf(k), SizeOf(k))
TxOK == \A k \in 1..Len(tx) : IsWord(tx[k], StartOf(Len(rx) + k), SizeOf(Len(rx) + k))
WireOK == Len(wire) = StartOf(Len(rx) + 1) /\ \A j \in 1..Len(wire) : wire[j] = j - 1

ContentOK == pc # "idle" => BufOK /\ RxOK /\ TxOK /\ WireOK

\* A word taken from beyond what is read carries the client's bytes.
LEMMA BytesAre ==
    ASSUME Stored, BufOK, rlen \in Nat, NEW i \in Nat, NEW n \in Nat, rlen <= i, i + n <= Room
    PROVE  Bytes(i, n) \in Seq(Int) /\ IsWord(Bytes(i, n), i, n)
<1>1. Bytes(i, n) \in Seq(Int) /\ Len(Bytes(i, n)) = n
  BY BytesType
<1>2. Room \in Nat /\ DOMAIN pbuf = 0..Room - 1
  BY MaxLenIs DEF Stored
<1>3. ASSUME NEW j \in 1..n
      PROVE  Bytes(i, n)[j] = i + j - 1
  <2>1. i + j - 1 \in 0..Room - 1 /\ ~(i + j - 1 < rlen)
    BY <1>2
  <2>2. pbuf[i + j - 1] = i + j - 1
    BY <2>1 DEF BufOK
  <2> QED BY <1>2, <2>1, <2>2 DEF Bytes
<1> QED BY <1>1, <1>3 DEF IsWord

\* The answer to a word of the transfer.
LEMMA AnswerIs ==
    ASSUME NEW w \in Seq(Int), NEW i \in Nat, NEW n \in Nat, IsWord(w, i, n)
    PROVE  IsAnswer([k \in DOMAIN w |-> Reply(w[k])], i, n)
<1> DEFINE a == [k \in DOMAIN w |-> Reply(w[k])]
<1>1. Len(a) = Len(w) /\ \A k \in 1..Len(w) : a[k] = Reply(w[k])
  BY AnswerType
<1> HIDE DEF a
<1>2. Len(w) = n /\ \A j \in 1..n : w[j] = i + j - 1
  BY DEF IsWord
<1>3. Len(a) = n /\ \A j \in 1..n : a[j] = Reply(i + j - 1)
  BY <1>1, <1>2
<1> QED BY <1>3 DEF IsAnswer, a

\* An answer stored where it belongs.
LEMMA StoreAnswer ==
    ASSUME Stored, BufOK, rlen \in Nat, NEW n \in Nat, NEW w \in Seq(Int), IsAnswer(w, rlen, n),
           pbuf' = Store(pbuf, rlen, w), rlen' = rlen + n
    PROVE  BufOK'
<1>1. Room \in Nat /\ DOMAIN pbuf = 0..Room - 1
  BY MaxLenIs DEF Stored
<1>2. Len(w) = n /\ \A j \in 1..n : w[j] = Reply(rlen + j - 1)
  BY DEF IsAnswer
<1>3. ASSUME NEW i \in 0..Room - 1
      PROVE  pbuf'[i] = IF i < rlen' THEN Reply(i) ELSE i
  <2>1. pbuf'[i] = IF i \in rlen..rlen + Len(w) - 1 THEN w[i - rlen + 1] ELSE pbuf[i]
    BY <1>1 DEF Store
  <2>2. CASE i \in rlen..rlen + n - 1
    <3>1. i - rlen + 1 \in 1..n /\ rlen + (i - rlen + 1) - 1 = i /\ i < rlen'
      BY <2>2
    <3>2. w[i - rlen + 1] = Reply(i)
      BY <1>2, <3>1
    <3> QED BY <1>2, <2>1, <2>2, <3>1, <3>2
  <2>3. CASE i \notin rlen..rlen + n - 1
    <3>1. pbuf'[i] = pbuf[i] /\ (i < rlen' <=> i < rlen)
      BY <1>2, <2>1, <2>3
    <3> QED BY <3>1 DEF BufOK
  <2> QED BY <2>2, <2>3
<1> QED BY <1>3 DEF BufOK

\* A step that moves no word and no length keeps the contents.
LEMMA ContentKept ==
    ASSUME UNCHANGED <<burst, lens, tx, rx, wire>>, ContentOK, pc # "idle"
    PROVE  ContentOK'
<1>1. \A k : StartOf(k)' = StartOf(k) /\ SizeOf(k)' = SizeOf(k)
  BY DEF StartOf, SizeOf, First, WordLen, Unit, lens
<1>2. rx' = rx /\ tx' = tx /\ wire' = wire /\ pbuf' = pbuf /\ rlen' = rlen
  BY DEF lens
<1>3. RxOK => RxOK'
  BY <1>1, <1>2 DEF RxOK
<1>4. TxOK => TxOK'
  BY <1>1, <1>2 DEF TxOK
<1>5. StartOf(Len(rx) + 1)' = StartOf(Len(rx) + 1)
  BY <1>1, <1>2
<1>6. WireOK => WireOK'
  BY <1>2, <1>5 DEF WireOK
<1> QED BY <1>2, <1>3, <1>4, <1>6 DEF ContentOK, BufOK

\* The first answer read: what is left is in its place.
LEMMA PopContent ==
    ASSUME Types, Stored, rlen \in Nat, BufOK, RxOK, TxOK, WireOK, rx # <<>>, rx' = Tail(rx),
           rlen' = rlen + First, First' = WordLen, WordLen' = WordLen,
           pbuf' = Store(pbuf, rlen, Head(rx)), wire' = wire
    PROVE  /\ BufOK' /\ RxOK' /\ WireOK'
           /\ \A k \in Nat \ {0} : /\ StartOf(k)' = StartOf(k + 1) /\ SizeOf(k)' = SizeOf(k + 1)
                                   /\ StartOf(Len(rx) + k)' = StartOf(Len(rx) + k)
                                   /\ SizeOf(Len(rx) + k)' = SizeOf(Len(rx) + k)
<1>1. /\ Len(rx) \in Nat /\ Len(rx) >= 1 /\ Head(rx) = rx[1] /\ Head(rx) \in Seq(Int)
      /\ Len(rx') = Len(rx) - 1 /\ \A k \in 1..Len(rx) - 1 : rx'[k] = rx[k + 1]
  BY HeadTail DEF Stored
<1>2. WordLen \in {1, 2, 4} /\ First \in 1..4 /\ StartOf(1) = rlen /\ SizeOf(1) = First
  BY Shape
<1>a. \A k \in Nat \ {0} :
         /\ Place(rlen + First, WordLen, WordLen, k) = Place(rlen, First, WordLen, k + 1)
         /\ SizeAt(WordLen, WordLen, k) = SizeAt(First, WordLen, k + 1)
  BY <1>2, PlacePop
<1>3. ASSUME NEW k \in Nat \ {0}
      PROVE  StartOf(k)' = StartOf(k + 1) /\ SizeOf(k)' = SizeOf(k + 1)
  BY <1>a DEF StartOf, SizeOf
<1>4. ASSUME NEW k \in Nat \ {0}
      PROVE  StartOf(Len(rx) + k)' = StartOf(Len(rx) + k) /\ SizeOf(Len(rx) + k)' = SizeOf(Len(rx) + k)
  <2> DEFINE m == Len(rx) + k - 1
  <2>1. m \in Nat \ {0} /\ m + 1 = Len(rx) + k /\ Len(rx') + k = m
    BY <1>1
  <2> HIDE DEF m
  <2>2. /\ Place(rlen + First, WordLen, WordLen, m) = Place(rlen, First, WordLen, m + 1)
        /\ SizeAt(WordLen, WordLen, m) = SizeAt(First, WordLen, m + 1)
    BY <1>a, <2>1
  <2> QED BY <2>1, <2>2 DEF StartOf, SizeOf
<1>5. BufOK'
  <2>1. IsAnswer(Head(rx), rlen, First)
    BY <1>1, <1>2 DEF RxOK
  <2>2. First \in Nat
    BY <1>2
  <2> QED BY <1>1, <2>1, <2>2, StoreAnswer
<1>6. RxOK'
  <2> SUFFICES ASSUME NEW k \in 1..Len(rx')
               PROVE  IsAnswer(rx'[k], StartOf(k)', SizeOf(k)')
    BY DEF RxOK
  <2>1. k \in Nat \ {0} /\ k \in 1..Len(rx) - 1 /\ k + 1 \in 1..Len(rx)
    BY <1>1
  <2>2. IsAnswer(rx[k + 1], StartOf(k + 1), SizeOf(k + 1))
    BY <2>1 DEF RxOK
  <2> QED BY <1>1, <1>3, <2>1, <2>2
<1>7. WireOK'
  <2>1. StartOf(Len(rx) + 1)' = StartOf(Len(rx) + 1)
    BY <1>4
  <2> QED BY <2>1 DEF WireOK
<1> QED BY <1>3, <1>4, <1>5, <1>6, <1>7

\* Every word that is out, and every byte of the buffer, is what belongs in
\* its place after every step.
LEMMA ContentStep ==
    ASSUME Types, Stored, NumInv, ContentOK, [Next]_vars, Undisturbed', Stored', NumInv'
    PROVE  ContentOK'
<1>0. Undisturbed /\ ~TimeOut
  BY UndisturbedBefore
<1>a. Len(tx) \in Nat /\ Len(rx) \in Nat /\ Len(tx') \in Nat /\ Len(rx') \in Nat
  BY Empty DEF Stored
<1>b. rlen \in Nat /\ Room \in Nat /\ tlen \in Nat /\ xlen \in Nat
  BY MaxLenIs DEF NumInv, Types
<1>c. Whole \in Nat /\ xlen <= Whole /\ (xlen \in Lengths => Whole <= Room)
  BY WholeIs
<1>1. CASE Begin
  <2>1. Len(tx') = 0 /\ Len(rx') = 0 /\ rlen' = 0 /\ wire' = <<>> /\ pbuf' = [i \in 0..Room - 1 |-> i]
    BY <1>1, BeginEmpty DEF Begin, NumInv, RestOK
  <2>2. BufOK'
    BY <2>1 DEF BufOK
  <2>3. RxOK' /\ TxOK'
    BY <2>1 DEF RxOK, TxOK
  <2>4. StartOf(Len(rx) + 1)' = 0
    BY <2>1 DEF StartOf, Place
  <2>5. WireOK'
    BY <2>1, <2>4 DEF WireOK
  <2> QED BY <2>2, <2>3, <2>5 DEF ContentOK
<1>2. CASE FillBurst
  <2>1. /\ Len(tx) = 0 /\ Len(rx) = 0 /\ tlen = rlen
        /\ Odd \in 0..3 /\ BurstWords \in Nat /\ xlen \in Lengths
        /\ tlen' = tlen + Odd + 4 * BurstWords /\ tlen' <= xlen
        /\ tx' = Words(tlen, Odd, BurstWords)
        /\ Len(tx') = (IF Odd = 0 THEN BurstWords ELSE BurstWords + 1)
    BY <1>2, FillBurstEffect
  <2>2. UNCHANGED <<rlen, rx, wire, pbuf>> /\ BufOK /\ WireOK
    BY <1>2 DEF FillBurst, ContentOK, ghost
  <2>3. xlen <= Room /\ Whole <= Room
    BY <2>1, <1>b, <1>c
  <2>4. First' = (IF Odd = 0 THEN 4 ELSE Odd) /\ WordLen' = 4
    BY <1>2, <2>1 DEF FillBurst, First, WordLen
  <2>5. /\ Odd = 0 => \A k \in 1..BurstWords : tx'[k] = Bytes(tlen + 4 * (k - 1), 4)
        /\ Odd # 0 => /\ tx'[1] = Bytes(tlen, Odd)
                      /\ \A k \in 1..BurstWords :
                           tx'[1 + k] = Bytes(tlen + Odd + 4 * (k - 1), 4)
    <3>1. Odd \in Nat /\ BurstWords \in Nat /\ tlen \in Nat
      BY <2>1, <1>b
    <3>2. IsFill(Words(tlen, Odd, BurstWords), tlen, Odd, BurstWords)
      BY <3>1, WordsType
    <3> QED BY <3>2, <2>1 DEF IsFill
  <2>6. BufOK'
    BY <2>2 DEF BufOK
  <2>7. RxOK'
    BY <2>1, <2>2 DEF RxOK
  <2>8. WireOK'
    <3>1. StartOf(Len(rx) + 1) = rlen /\ StartOf(Len(rx) + 1)' = rlen
      BY <2>1, <2>2 DEF StartOf, Place
    <3> QED BY <3>1, <2>2 DEF WireOK
  <2>9. TxOK'
    <3> SUFFICES ASSUME NEW k \in 1..Len(tx')
                 PROVE  IsWord(tx'[k], StartOf(Len(rx) + k)', SizeOf(Len(rx) + k)')
      BY DEF TxOK
    <3>1. StartOf(Len(rx) + k)' = Place(rlen, First', 4, k) /\ SizeOf(Len(rx) + k)' = SizeAt(First', 4, k)
      BY <2>1, <2>2, <2>4 DEF StartOf, SizeOf
    <3>2. CASE Odd = 0
      <4> DEFINE i == tlen + 4 * (k - 1)
      <4>1. k \in 1..BurstWords /\ Place(rlen, First', 4, k) = i /\ SizeAt(First', 4, k) = 4
        BY <3>2, <2>1, <2>4, <1>b DEF Place, SizeAt
      <4>2. i \in Nat /\ rlen <= i /\ i + 4 <= Room
        BY <3>2, <4>1, <2>1, <2>3, <1>b
      <4>3. tx'[k] = Bytes(i, 4)
        BY <3>2, <4>1, <2>5
      <4> HIDE DEF i
      <4>4. IsWord(Bytes(i, 4), i, 4)
        BY <4>2, <2>2, <1>b, BytesAre
      <4> QED BY <3>1, <4>1, <4>3, <4>4
    <3>3. CASE Odd # 0 /\ k = 1
      <4>1. Place(rlen, First', 4, k) = tlen /\ SizeAt(First', 4, k) = Odd
        BY <3>3, <2>1, <2>4 DEF Place, SizeAt
      <4>2. Odd \in Nat /\ tlen + Odd <= Room /\ rlen <= tlen
        BY <2>1, <2>3, <1>b
      <4>3. IsWord(Bytes(tlen, Odd), tlen, Odd)
        BY <4>2, <2>2, <1>b, BytesAre
      <4> QED BY <3>1, <3>3, <4>1, <4>3, <2>5
    <3>4. CASE Odd # 0 /\ k # 1
      <4> DEFINE j == k - 1
                 i == tlen + Odd + 4 * (j - 1)
      <4>1. j \in 1..BurstWords /\ k = 1 + j
        BY <3>4, <2>1
      <4>2. Place(rlen, First', 4, k) = i /\ SizeAt(First', 4, k) = 4
        BY <3>4, <2>1, <2>4, <1>b DEF Place, SizeAt
      <4>3. i \in Nat /\ rlen <= i /\ i + 4 <= Room
        BY <3>4, <4>1, <2>1, <2>3, <1>b
      <4>4. tx'[k] = Bytes(i, 4)
        BY <3>4, <4>1, <2>5
      <4> HIDE DEF i
      <4>5. IsWord(Bytes(i, 4), i, 4)
        BY <4>3, <2>2, <1>b, BytesAre
      <4> QED BY <3>1, <4>2, <4>4, <4>5
    <3> QED BY <3>2, <3>3, <3>4
  <2> QED BY <2>6, <2>7, <2>8, <2>9 DEF ContentOK
<1>3. CASE FillWords
  <2>1. /\ Len(tx) = 0 /\ Len(rx) = 0 /\ tlen = rlen /\ lsb_adjust = 0
        /\ Unit \in {1, 2, 4} /\ UnitWords \in Nat /\ xlen \in Lengths
        /\ tlen' = tlen + Unit * UnitWords /\ tlen' <= Whole
        /\ tx' = [k \in 1..UnitWords |-> Bytes(tlen + Unit * (k - 1), Unit)]
        /\ Len(tx') = UnitWords
    BY <1>3, FillWordsEffect
  <2>2. UNCHANGED <<rlen, rx, wire, pbuf>> /\ BufOK /\ WireOK
    BY <1>3 DEF FillWords, ContentOK, ghost
  <2>3. xlen <= Room /\ Whole <= Room
    BY <2>1, <1>b, <1>c
  <2>4. First' = Unit /\ WordLen' = Unit
    BY <1>3, <2>1 DEF FillWords, First, WordLen, Unit
  <2>5. \A k \in 1..UnitWords : tx'[k] = Bytes(tlen + Unit * (k - 1), Unit)
    BY <2>1
  <2>6. BufOK'
    BY <2>2 DEF BufOK
  <2>7. RxOK'
    BY <2>1, <2>2 DEF RxOK
  <2>8. WireOK'
    <3>1. StartOf(Len(rx) + 1) = rlen /\ StartOf(Len(rx) + 1)' = rlen
      BY <2>1, <2>2 DEF StartOf, Place
    <3> QED BY <3>1, <2>2 DEF WireOK
  <2>9. TxOK'
    <3> SUFFICES ASSUME NEW k \in 1..Len(tx')
                 PROVE  IsWord(tx'[k], StartOf(Len(rx) + k)', SizeOf(Len(rx) + k)')
      BY DEF TxOK
    <3>1. /\ StartOf(Len(rx) + k)' = Place(rlen, Unit, Unit, k)
          /\ SizeOf(Len(rx) + k)' = SizeAt(Unit, Unit, k)
      BY <2>1, <2>2, <2>4 DEF StartOf, SizeOf
    <3> DEFINE i == tlen + Unit * (k - 1)
    <3>2. k \in 1..UnitWords /\ SizeAt(Unit, Unit, k) = Unit
      BY <2>1 DEF SizeAt
    <3>3. Place(rlen, Unit, Unit, k) = i /\ i \in Nat /\ rlen <= i /\ i + Unit <= Room
      <4>1. CASE Unit = 1 BY <4>1, <3>2, <2>1, <2>3, <1>b, <1>c DEF Place
      <4>2. CASE Unit = 2 BY <4>2, <3>2, <2>1, <2>3, <1>b, <1>c DEF Place
      <4>3. CASE Unit = 4 BY <4>3, <3>2, <2>1, <2>3, <1>b, <1>c DEF Place
      <4> QED BY <4>1, <4>2, <4>3, <2>1
    <3>4. tx'[k] = Bytes(i, Unit)
      BY <3>2, <2>5
    <3> HIDE DEF i
    <3>5. IsWord(Bytes(i, Unit), i, Unit)
      <4>1. Unit \in Nat
        BY <2>1
      <4> QED BY <4>1, <3>3, <2>2, <1>b, BytesAre
    <3> QED BY <3>1, <3>2, <3>3, <3>4, <3>5
  <2> QED BY <2>6, <2>7, <2>8, <2>9 DEF ContentOK
<1>4. CASE FillUnsupported \/ End
  BY <1>4 DEF FillUnsupported, End, ContentOK
<1>5. CASE Enable \/ Start \/ Wake
  BY <1>5, ContentKept DEF Enable, Start, Wake, ctl, ghost
<1>6. CASE Shift
  <2> DEFINE w == Head(tx)
             a == [k \in DOMAIN Head(tx) |-> Reply(Head(tx)[k])]
  <2>1. /\ w \in Seq(Int) /\ tx' = Tail(tx) /\ Len(tx) >= 1 /\ Len(tx') = Len(tx) - 1
        /\ rx' = Append(rx, a) /\ a \in Seq(Int) /\ Len(rx') = Len(rx) + 1
    BY <1>6, ShiftEffect DEF NumInv, RoomOK
  <2>2. UNCHANGED <<burst, lens, pc>> /\ pc # "idle" /\ wire' = wire \o w
    BY <1>6, <1>0 DEF Shift, NumInv, RestOK, thr
  <2>3. BufOK /\ RxOK /\ TxOK /\ WireOK
    BY <2>2 DEF ContentOK
  <2>4. \A k : StartOf(k)' = StartOf(k) /\ SizeOf(k)' = SizeOf(k)
    BY <2>2 DEF StartOf, SizeOf, First, WordLen, Unit, lens
  <2> DEFINE i == StartOf(Len(rx) + 1)
             n == SizeOf(Len(rx) + 1)
  <2>5. i \in Nat /\ n \in Nat /\ StartOf(Len(rx) + 2) = i + n
    <3>1. Len(rx) + 1 \in Nat \ {0} /\ (Len(rx) + 1) + 1 = Len(rx) + 2
      BY <1>a
    <3>2. /\ StartOf(Len(rx) + 1) \in Nat /\ SizeOf(Len(rx) + 1) \in 1..4
          /\ StartOf((Len(rx) + 1) + 1) = StartOf(Len(rx) + 1) + SizeOf(Len(rx) + 1)
      BY <3>1, <1>b, Shape
    <3> QED BY <3>1, <3>2
  <2>6. w = tx[1] /\ \A k \in 1..Len(tx) - 1 : tx'[k] = tx[k + 1]
    <3>1. tx \in Seq(Seq(Int)) /\ tx # <<>> /\ tx' = Tail(tx)
      BY <1>6 DEF Shift, Stored
    <3> QED BY <3>1, HeadTail
  <2>7. IsWord(w, i, n)
    <3>1. 1 \in 1..Len(tx)
      BY <2>1, <1>a
    <3>2. IsWord(tx[1], i, n)
      BY <3>1, <2>3 DEF TxOK
    <3> QED BY <3>2, <2>6
  <2>8. IsAnswer(a, i, n)
    BY <2>1, <2>5, <2>7, AnswerIs
  <2> HIDE DEF w, a, i, n
  <2>9. BufOK'
    BY <2>2, <2>3 DEF BufOK, lens
  <2>10. RxOK'
    <3> SUFFICES ASSUME NEW k \in 1..Len(rx')
                 PROVE  IsAnswer(rx'[k], StartOf(k)', SizeOf(k)')
      BY DEF RxOK
    <3>1. /\ \A j \in 1..Len(rx) : rx'[j] = rx[j]
          /\ rx'[Len(rx) + 1] = a
      <4>1. rx \in Seq(Seq(Int))
        BY DEF Stored
      <4> QED BY <4>1, <2>1, AppendWord
    <3>2. CASE k \in 1..Len(rx)
      BY <3>1, <3>2, <2>3, <2>4 DEF RxOK
    <3>3. CASE k = Len(rx) + 1
      BY <3>1, <3>3, <2>4, <2>8 DEF i, n
    <3>4. k \in 1..Len(rx) \/ k = Len(rx) + 1
      <4>1. Len(rx') = Len(rx) + 1
        BY <2>1
      <4> QED BY <4>1, <1>a
    <3> QED BY <3>2, <3>3, <3>4
  <2>11. TxOK'
    <3> SUFFICES ASSUME NEW k \in 1..Len(tx')
                 PROVE  IsWord(tx'[k], StartOf(Len(rx) + k)', SizeOf(Len(rx) + k)')
      BY DEF TxOK
    <3>1. k + 1 \in 1..Len(tx) /\ tx'[k] = tx[k + 1] /\ Len(rx') + k = Len(rx) + (k + 1)
      BY <2>1, <2>6, <1>a
    <3>2. IsWord(tx[k + 1], StartOf(Len(rx) + (k + 1)), SizeOf(Len(rx) + (k + 1)))
      BY <3>1, <2>3 DEF TxOK
    <3>3. /\ StartOf(Len(rx) + k)' = StartOf(Len(rx) + (k + 1))
          /\ SizeOf(Len(rx) + k)' = SizeOf(Len(rx) + (k + 1))
      BY <3>1, <2>2 DEF StartOf, SizeOf, First, WordLen, Unit, lens
    <3> QED BY <3>1, <3>2, <3>3
  <2>12. WireOK'
    <3>1. StartOf(Len(rx) + 1)' = i + n
      <4>1. Len(rx') + 1 = Len(rx) + 2
        BY <2>1, <1>a
      <4> QED BY <4>1, <2>2, <2>5 DEF StartOf, First, WordLen, Unit, lens
    <3>2. Len(w) = n /\ \A j \in 1..n : w[j] = i + j - 1
      BY <2>7 DEF IsWord
    <3>3. Len(wire) = i /\ \A j \in 1..i : wire[j] = j - 1
      BY <2>3 DEF WireOK, i
    <3>4. /\ Len(wire') = i + n
          /\ \A j \in 1..i : wire'[j] = wire[j]
          /\ \A j \in 1..n : wire'[i + j] = w[j]
      <4>1. wire \in Seq(Int) /\ w \in Seq(Int)
        BY <2>1 DEF Stored
      <4>2. /\ Len(wire \o w) = Len(wire) + Len(w)
            /\ \A j \in 1..Len(wire) : (wire \o w)[j] = wire[j]
            /\ \A j \in 1..Len(w) : (wire \o w)[Len(wire) + j] = w[j]
        BY <4>1, ConcatWords
      <4> QED BY <4>2, <2>2, <3>2, <3>3
    <3>5. ASSUME NEW j \in 1..i + n
          PROVE  wire'[j] = j - 1
      <4>1. CASE j \in 1..i
        BY <4>1, <3>3, <3>4
      <4>2. CASE j \notin 1..i
        <5>1. j - i \in 1..n /\ i + (j - i) = j
          BY <4>2, <2>5
        <5>2. wire'[j] = w[j - i]
          BY <5>1, <3>4
        <5>3. w[j - i] = i + (j - i) - 1
          BY <5>1, <3>2
        <5> QED BY <5>1, <5>2, <5>3, <2>5
      <4> QED BY <4>1, <4>2
    <3> QED BY <3>1, <3>4, <3>5 DEF WireOK
  <2> QED BY <2>9, <2>10, <2>11, <2>12 DEF ContentOK
<1>7. CASE Interrupt \/ IntrStatus \/ IntrWrong \/ IntrCount \/ IntrReadNone \/ IntrReadDone
           \/ IntrEnd
  <2>1. UNCHANGED <<burst, lens, tx, rx, wire>>
    BY <1>7 DEF Interrupt, IntrStatus, IntrWrong, IntrCount, IntrReadNone, IntrReadDone, IntrEnd,
                ctl, ghost
  <2>2. pc # "idle"
    BY <1>7 DEF Interrupt, IntrStatus, IntrWrong, IntrCount, IntrReadNone, IntrReadDone, IntrEnd,
                NumInv, RestOK
  <2> QED BY <2>1, <2>2, ContentKept
<1>8. CASE IntrFill
  <2>1. /\ UNCHANGED <<burst, xlen, rlen, dlen, lsb_adjust, pbuf, rx, pc, wire>>
        /\ ipc = "fill" /\ btlen < bxlen /\ count < RXMARK /\ Send(<<Bytes(tlen, 4)>>)
    BY <1>8 DEF IntrFill, MoreToFill, thr
  <2>2. pc # "idle" /\ pc # "burst" /\ burst /\ istat \in {"tc", "rdr"} /\ lsb_adjust = 0
    BY <2>1 DEF NumInv, RestOK, HandlerOK, Types
  <2>3. BufOK /\ RxOK /\ TxOK /\ WireOK
    BY <2>2 DEF ContentOK
  <2>4. Len(tx) < FIFO_SIZE
    BY <2>1, <2>2, <1>a, Consts DEF NumInv, RoomOK, Out, Types
  <2>5. rlen <= tlen /\ tlen + 4 <= Room /\ tlen = StartOf(Out + 1)
    <3>1. /\ tlen = StartOf(Out + 1) /\ xlen \in Lengths /\ (bxlen - btlen) % 4 = 0
          /\ tlen + bxlen - btlen <= xlen
      BY <2>2 DEF NumInv, LensOK
    <3>2. StartOf(Out + 1) >= rlen
      <4>1. Out + 1 \in Nat \ {0}
        BY <1>a DEF Out
      <4> QED BY <4>1, <1>b, Shape
    <3>3. xlen <= Room
      BY <3>1, <1>b, <1>c
    <3>4. bxlen - btlen >= 4
      BY <2>1, <3>1 DEF Types
    <3>5. btlen \in Nat /\ bxlen \in Nat
      BY DEF Types
    <3> QED BY <3>1, <3>2, <3>3, <3>4, <3>5, <1>b
  <2>6. Bytes(tlen, 4) \in Seq(Int) /\ IsWord(Bytes(tlen, 4), tlen, 4)
    BY <2>3, <2>5, <1>b, BytesAre
  <2>7. tx' = Append(tx, Bytes(tlen, 4)) /\ Len(tx') = Len(tx) + 1
    BY <2>1, <2>4, <2>6, SendEffect
  <2>8. \A k : StartOf(k)' = StartOf(k) /\ SizeOf(k)' = SizeOf(k)
    BY <2>1 DEF StartOf, SizeOf, First, WordLen, Unit
  <2>9. BufOK' /\ RxOK'
    BY <2>1, <2>3, <2>8 DEF BufOK, RxOK
  <2>10. WireOK'
    <3>1. StartOf(Len(rx) + 1)' = StartOf(Len(rx) + 1)
      BY <2>1 DEF StartOf, First, WordLen, Unit
    <3> QED BY <2>1, <2>3, <3>1 DEF WireOK
  <2>11. TxOK'
    <3> SUFFICES ASSUME NEW k \in 1..Len(tx')
                 PROVE  IsWord(tx'[k], StartOf(Len(rx) + k)', SizeOf(Len(rx) + k)')
      BY DEF TxOK
    <3>1. /\ StartOf(Len(rx) + k)' = StartOf(Len(rx) + k)
          /\ SizeOf(Len(rx) + k)' = SizeOf(Len(rx) + k)
      BY <2>1 DEF StartOf, SizeOf, First, WordLen, Unit
    <3>2. /\ \A j \in 1..Len(tx) : tx'[j] = tx[j]
          /\ tx'[Len(tx) + 1] = Bytes(tlen, 4)
      <4>1. tx \in Seq(Seq(Int))
        BY DEF Stored
      <4> QED BY <4>1, <2>6, <2>7, AppendWord
    <3>3. CASE k \in 1..Len(tx)
      BY <3>1, <3>2, <3>3, <2>3 DEF TxOK
    <3>4. CASE k = Len(tx) + 1
      <4>1. Len(rx) + k = Out + 1 /\ Out \in Nat
        BY <3>4, <1>a DEF Out
      <4>2. SizeOf(Out + 1) = 4
        BY <4>1, <2>2 DEF SizeOf, SizeAt, First, WordLen
      <4> QED BY <3>1, <3>2, <3>4, <4>1, <4>2, <2>5, <2>6
    <3> QED BY <3>3, <3>4, <2>7, <1>a
  <2> QED BY <2>9, <2>10, <2>11 DEF ContentOK
<1>9. CASE IntrReadFirst \/ IntrRead
  <2>1. /\ UNCHANGED <<burst, xlen, tlen, dlen, pc, tx, wire>>
        /\ ipc = "read" /\ burst /\ count # 0 /\ PopRx /\ lsb_adjust' = 0
        /\ rlen' = rlen + First
    BY <1>9 DEF IntrReadFirst, IntrRead, First, WordLen, thr, ghost
  <2>2. pc # "idle" /\ count <= Len(rx)
    BY <2>1 DEF NumInv, RestOK, HandlerOK, Types
  <2>3. BufOK /\ RxOK /\ TxOK /\ WireOK
    BY <2>2 DEF ContentOK
  <2>4. rx # <<>> /\ RxWord = Head(rx) /\ rx' = Tail(rx) /\ Len(rx) >= 1
    BY <2>1, <2>2, PopEffect
  <2>5. First' = WordLen /\ WordLen' = WordLen
    BY <2>1 DEF WordLen, First
  <2>6. Head(rx) \in Seq(Int) /\ Len(Head(rx)) = First
    <3>1. Head(rx) \in Seq(Int) /\ Head(rx) = rx[1]
      BY <2>4, HeadTail DEF Stored
    <3>2. SizeOf(1) = First
      BY <1>b, Shape
    <3> QED BY <3>1, <3>2, <2>3, <2>4, <1>a DEF RxOK, IsAnswer
  <2>7. pbuf' = Store(pbuf, rlen, Head(rx))
    <3>1. CASE IntrReadFirst
      <4>1. lsb_adjust = Len(Head(rx)) /\ lsb_adjust \in Nat
        BY <3>1, <2>6 DEF IntrReadFirst, First, Types
      <4>2. LSB(Head(rx), Least(Len(Head(rx)), lsb_adjust)) = Head(rx)
        BY <4>1, <2>6, LsbType
      <4> QED BY <3>1, <4>2, <2>4 DEF IntrReadFirst
    <3>2. CASE IntrRead
      BY <3>2, <2>4 DEF IntrRead
    <3> QED BY <1>9, <3>1, <3>2
  <2>8. /\ BufOK' /\ RxOK' /\ WireOK'
        /\ \A k \in Nat \ {0} : /\ StartOf(Len(rx) + k)' = StartOf(Len(rx) + k)
                                /\ SizeOf(Len(rx) + k)' = SizeOf(Len(rx) + k)
    BY <1>b, <2>1, <2>3, <2>4, <2>5, <2>7, PopContent
  <2>9. TxOK'
    <3> SUFFICES ASSUME NEW k \in 1..Len(tx')
                 PROVE  IsWord(tx'[k], StartOf(Len(rx) + k)', SizeOf(Len(rx) + k)')
      BY DEF TxOK
    <3>1. k \in 1..Len(tx) /\ k \in Nat \ {0} /\ tx' = tx
      BY <2>1, <1>a
    <3> QED BY <3>1, <2>3, <2>8 DEF TxOK
  <2> QED BY <2>8, <2>9 DEF ContentOK
<1>10. CASE IntrExchange
  <2>1. /\ UNCHANGED <<burst, xlen, dlen, lsb_adjust, pc, wire>>
        /\ ipc = "read" /\ ~burst /\ count # 0 /\ PopRx /\ rlen' = rlen + Unit
        /\ pbuf' = Store(pbuf, rlen, RxWord)
    BY <1>10 DEF IntrExchange, thr
  <2>2. pc # "idle" /\ count <= Len(rx)
    BY <2>1 DEF NumInv, RestOK, HandlerOK, Types
  <2>3. BufOK /\ RxOK /\ TxOK /\ WireOK
    BY <2>2 DEF ContentOK
  <2>4. rx # <<>> /\ RxWord = Head(rx) /\ rx' = Tail(rx) /\ Len(rx) >= 1 /\ Len(rx') = Len(rx) - 1
    BY <2>1, <2>2, PopEffect
  <2>5. lsb_adjust = 0 /\ First = Unit /\ WordLen = Unit /\ First' = WordLen /\ WordLen' = WordLen
        /\ Unit \in {1, 2, 4}
    BY <2>1, <2>2, UnitIs DEF NumInv, LensOK, First, WordLen, Unit
  <2>6. pbuf' = Store(pbuf, rlen, Head(rx)) /\ rlen' = rlen + First
    BY <2>1, <2>4, <2>5
  <2>7. /\ BufOK' /\ RxOK' /\ WireOK'
        /\ \A k \in Nat \ {0} : /\ StartOf(Len(rx) + k)' = StartOf(Len(rx) + k)
                                /\ SizeOf(Len(rx) + k)' = SizeOf(Len(rx) + k)
    BY <1>b, <2>1, <2>3, <2>4, <2>5, <2>6, PopContent
  <2>8. TxOK'
    <3> SUFFICES ASSUME NEW k \in 1..Len(tx')
                 PROVE  IsWord(tx'[k], StartOf(Len(rx) + k)', SizeOf(Len(rx) + k)')
      BY DEF TxOK
    <3>1. k \in Nat \ {0}
      BY <1>a
    <3>2. /\ StartOf(Len(rx) + k)' = StartOf(Len(rx) + k)
          /\ SizeOf(Len(rx) + k)' = SizeOf(Len(rx) + k)
      BY <3>1, <2>7
    <3>3. CASE ~(tlen < xlen)
      <4>1. tx' = tx
        BY <3>3, <1>10 DEF IntrExchange
      <4> QED BY <4>1, <3>2, <2>3 DEF TxOK
    <3>4. CASE tlen < xlen
      <4>1. Send(<<Bytes(tlen, Unit)>>)
        BY <3>4, <1>10 DEF IntrExchange
      <4>2. Len(tx) < FIFO_SIZE
        BY <2>4, <1>a, Consts DEF NumInv, RoomOK, Out
      <4>3. Unit \in Nat /\ rlen <= tlen /\ tlen + Unit <= Room /\ tlen = StartOf(Out + 1)
        <5>1. tlen = StartOf(Out + 1) /\ xlen \in Lengths /\ (Whole - tlen) % Unit = 0
          BY <2>1, <2>2 DEF NumInv, LensOK
        <5>2. StartOf(Out + 1) >= rlen
          <6>1. Out + 1 \in Nat \ {0}
            BY <1>a DEF Out
          <6> QED BY <6>1, <1>b, Shape
        <5>3. Whole <= Room
          BY <5>1, <1>c
        <5>4. tlen + Unit <= Whole
          <6>1. CASE Unit = 1 BY <6>1, <5>1, <3>4, <1>b, <1>c
          <6>2. CASE Unit = 2 BY <6>2, <5>1, <3>4, <1>b, <1>c
          <6>3. CASE Unit = 4 BY <6>3, <5>1, <3>4, <1>b, <1>c
          <6> QED BY <6>1, <6>2, <6>3, <2>5
        <5> QED BY <5>1, <5>2, <5>3, <5>4, <2>5, <1>b, <1>c
      <4>4. Bytes(tlen, Unit) \in Seq(Int) /\ IsWord(Bytes(tlen, Unit), tlen, Unit)
        BY <4>3, <2>3, <1>b, BytesAre
      <4>5. tx' = Append(tx, Bytes(tlen, Unit)) /\ Len(tx') = Len(tx) + 1
        BY <4>1, <4>2, <4>4, SendEffect
      <4>6. /\ \A j \in 1..Len(tx) : tx'[j] = tx[j]
            /\ tx'[Len(tx) + 1] = Bytes(tlen, Unit)
        <5>1. tx \in Seq(Seq(Int))
          BY DEF Stored
        <5> QED BY <5>1, <4>4, <4>5, AppendWord
      <4>7. CASE k \in 1..Len(tx)
        BY <4>6, <4>7, <3>2, <2>3 DEF TxOK
      <4>8. CASE k = Len(tx) + 1
        <5>1. Len(rx) + k = Out + 1
          BY <4>8, <1>a DEF Out
        <5>2. SizeOf(Out + 1) = Unit
          BY <2>5 DEF SizeOf, SizeAt
        <5> QED BY <3>2, <4>3, <4>4, <4>6, <4>8, <5>1, <5>2
      <4> QED BY <4>5, <4>7, <4>8, <1>a
    <3> QED BY <3>3, <3>4
  <2> QED BY <2>7, <2>8 DEF ContentOK
<1>11. CASE BeginUnknown \/ UNCHANGED vars
  <2>1. CASE pc = "idle"
    BY <2>1, <1>11 DEF BeginUnknown, vars, thr, ContentOK
  <2>2. CASE pc # "idle"
    BY <2>2, <1>11, ContentKept DEF BeginUnknown, vars, ctl, ghost
  <2> QED BY <2>1, <2>2
<1> QED BY <1>0, <1>1, <1>2, <1>3, <1>4, <1>5, <1>6, <1>7, <1>8, <1>9, <1>10, <1>11
        DEF Next, Thread, Handler

-----------------------------------------------------------------------------
(* The results. *)

\* A transfer that has ended was refused, or is complete.
IdleOK ==
    pc = "idle" /\ xfers > 0 =>
      \/ result = -1
      \/ result = Whole /\ Exchanged

\* End finds nothing out, so what is read is all that is sent: everything.
LEMMA IdleStep ==
    ASSUME Types, Stored, NumInv, ContentOK, IdleOK, [Next]_vars, Undisturbed'
    PROVE  IdleOK'
<1>0. Undisturbed /\ ~TimeOut
  BY UndisturbedBefore
<1>1. CASE End
  <2>1. pc = "burst" /\ ~More /\ result' = rlen /\ UNCHANGED <<lens, wire>>
    BY <1>1 DEF End, ghost
  <2>2. Len(tx) = 0 /\ Len(rx) = 0
    BY <2>1 DEF NumInv, RestOK
  <2>3. StartOf(Out + 1) = rlen /\ StartOf(Len(rx) + 1) = rlen
    BY <2>2 DEF StartOf, Place, Out
  <2>4. rlen = Whole /\ Whole \in Nat
    <3>1. /\ tlen = rlen /\ tlen <= Whole /\ xlen \in Lengths /\ rlen \in Nat
          /\ (~burst => (Whole - tlen) % Unit = 0)
      BY <2>1, <2>3 DEF NumInv, LensOK
    <3>2. Unit \in {1, 2, 4} /\ Whole \in Nat /\ Whole < xlen + Unit /\ (burst => Whole = xlen)
      BY UnitIs, WholeIs
    <3>3. xlen \in Nat /\ rlen >= xlen
      BY <3>1, <2>1 DEF More, Types
    <3>4. CASE burst BY <3>1, <3>2, <3>3, <3>4
    <3>5. CASE Unit = 1 /\ ~burst BY <3>1, <3>2, <3>3, <3>5
    <3>6. CASE Unit = 2 /\ ~burst BY <3>1, <3>2, <3>3, <3>6
    <3>7. CASE Unit = 4 /\ ~burst BY <3>1, <3>2, <3>3, <3>7
    <3> QED BY <3>2, <3>4, <3>5, <3>6, <3>7
  <2>5. BufOK /\ WireOK
    BY <2>1 DEF ContentOK
  <2>6. \A i \in 0..Room - 1 : pbuf[i] = IF i < Whole THEN Reply(i) ELSE i
    BY <2>4, <2>5 DEF BufOK
  <2>7. wire = [k \in 1..Whole |-> k - 1]
    <3> DEFINE all == [k \in 1..Whole |-> k - 1]
    <3>1. all \in [1..Whole -> Int] /\ \A k \in 1..Whole : all[k] = k - 1
      BY <2>4
    <3>2. all \in Seq(Int) /\ Len(all) = Whole
      BY <3>1, <2>4, SeqOf
    <3>3. wire \in Seq(Int) /\ Len(wire) = Whole /\ \A j \in 1..Whole : wire[j] = j - 1
      BY <2>3, <2>4, <2>5 DEF WireOK, Stored
    <3> HIDE DEF all
    <3>4. Len(wire) = Len(all) /\ \A j \in 1..Len(wire) : wire[j] = all[j]
      BY <3>1, <3>2, <3>3
    <3>5. wire = all
      BY <3>2, <3>3, <3>4, SeqEq
    <3> QED BY <3>5 DEF all
  <2>8. Exchanged
    BY <2>6, <2>7 DEF Exchanged
  <2>9. Whole' = Whole /\ wire' = wire /\ pbuf' = pbuf
    BY <1>1 DEF End, Whole, Unit, lens, ghost
  <2>10. result' = Whole' /\ Exchanged'
    BY <2>1, <2>4, <2>8, <2>9 DEF Exchanged
  <2> QED BY <2>10 DEF IdleOK
<1>2. CASE Begin \/ BeginUnknown \/ FillUnsupported
  BY <1>2 DEF Begin, BeginUnknown, FillUnsupported, IdleOK
<1>3. CASE FillBurst \/ FillWords \/ Enable \/ Start \/ Wake
  BY <1>3 DEF FillBurst, FillWords, Enable, Start, Wake, IdleOK
<1>4. CASE Shift \/ Interrupt \/ Handler
  <2>1. pc # "idle"
    BY <1>4 DEF Shift, Interrupt, Handler, IntrStatus, IntrWrong, IntrCount, IntrReadNone,
                IntrReadFirst, IntrRead, IntrReadDone, IntrFill, IntrExchange, IntrEnd,
                NumInv, RestOK
  <2>2. pc' = pc
    BY <1>4 DEF Shift, Interrupt, Handler, IntrStatus, IntrWrong, IntrCount, IntrReadNone,
                IntrReadFirst, IntrRead, IntrReadDone, IntrFill, IntrExchange, IntrEnd, thr
  <2> QED BY <2>1, <2>2 DEF IdleOK
<1>5. CASE UNCHANGED vars
  BY <1>5 DEF vars, thr, lens, ghost, IdleOK, Exchanged, Whole, Unit
<1> QED BY <1>0, <1>1, <1>2, <1>3, <1>4, <1>5 DEF Next, Thread

\* What holds until a transfer times out or a burst begins with TC set.
SpiInv == Undisturbed => NumInv /\ ContentOK /\ IdleOK

\* Undisturbed, the words that are out, the buffer and the wire make up the
\* transfer without gap or overlap, whatever the order in which the
\* controller shifts and spi_intr counts, reads and refills.
THEOREM SpiInvariant == Spec => [](Types /\ Stored /\ SpiInv)
<1>1. Init => Types /\ Stored /\ SpiInv
  <2>1. Init => ContentOK /\ IdleOK
    BY DEF Init, ContentOK, IdleOK
  <2> QED BY <2>1, TypesInit, NumInit DEF SpiInv
<1>2. Types /\ Stored /\ SpiInv /\ [Next]_vars => (Types /\ Stored /\ SpiInv)'
  <2> SUFFICES ASSUME Types, Stored, SpiInv, [Next]_vars PROVE (Types /\ Stored /\ SpiInv)'
    OBVIOUS
  <2>1. Types' /\ Stored'
    BY TypesStep, StoredStep
  <2>2. ASSUME Undisturbed'
        PROVE  NumInv' /\ ContentOK' /\ IdleOK'
    <3>1. NumInv /\ ContentOK /\ IdleOK
      BY <2>2, UndisturbedBefore DEF SpiInv
    <3>2. NumInv'
      BY <2>1, <2>2, <3>1, NumStep
    <3>3. ContentOK'
      BY <2>1, <2>2, <3>1, <3>2, ContentStep
    <3>4. IdleOK'
      BY <2>2, <3>1, IdleStep
    <3> QED BY <3>2, <3>3, <3>4
  <2> QED BY <2>1, <2>2 DEF SpiInv
<1> QED BY <1>1, <1>2, PTL DEF Spec

\* As long as no transfer has timed out and no burst has begun with TC set, a
\* transfer of mx51_xfer that is not refused sends every byte of its words once
\* and in order and returns every answer in its place, for every length and
\* word, FIFO size and burst limit.
THEOREM SpiFullResult == Spec => []FullResult
<1>1. SpiInv => FullResult
  BY DEF SpiInv, IdleOK, FullResult
<1> QED BY <1>1, SpiInvariant, PTL

-----------------------------------------------------------------------------
(* TC is raised once. *)

\* Until spi_intr has had words to send: a transmit FIFO that has run empty
\* has raised TC, and the answers to its last words are counted when TC is
\* cleared.
OnceOK ==
    late = 0 /\ ~refilled =>
      /\ ~staleTC
      /\ pc \in {"idle", "burst", "enable"} => ~tc
      /\ pulses # 0 => ~tc
      /\ pc \in {"enable", "start"} => Len(tx) > 0
      /\ pc = "wait" /\ tc => Len(tx) = 0 /\ Len(rx) > 0
      /\ pc = "wait" /\ pulses = 0 /\ ipc \in {"idle", "status"} /\ Len(tx) = 0 => tc
      /\ ipc = "count" /\ istat = "tc" => Len(tx) = 0 /\ ~tc /\ Len(rx) > 0
      /\ ipc \in {"read", "fill"} /\ istat = "tc" => Len(tx) = 0 /\ ~tc /\ Len(rx) = count
      /\ ipc = "read" /\ ~burst /\ istat = "tc" => count > 0 \/ tlen >= xlen
      /\ ipc = "count" /\ istat = "rdr" => Out > RXMARK /\ (Len(tx) = 0 => tc)
      /\ ipc \in {"read", "fill"} /\ istat = "rdr" => Out > count /\ (Len(tx) = 0 => tc)
      /\ ipc = "fill" => count = 0

\* A first fill of a burst is at least one word.
LEMMA FillsSome ==
    ASSUME Types, Stored, NumInv, FillBurst \/ FillWords
    PROVE  Len(tx') > 0
<1>1. More
  BY DEF FillBurst, FillWords
<1>2. tlen \in Nat /\ xlen \in Nat /\ xlen - tlen > 0 /\ xlen - tlen \in Nat
  BY <1>1 DEF More, Types
<1>3. CASE FillBurst
  <2>1. Odd \in 0..3 /\ Len(tx') = (IF Odd = 0 THEN BurstWords ELSE BurstWords + 1)
        /\ BurstWords \in Nat
    BY <1>3, FillBurstEffect
  <2>2. Odd = 0 => BurstWords > 0
    <3> SUFFICES ASSUME Odd = 0 PROVE BurstWords > 0
      OBVIOUS
    <3>1. (BurstBytes - Odd) % 4 = 0 /\ BurstBytes \in Nat
      BY <1>1, BurstWordsAre
    <3>2. BurstBytes > 0
      BY <1>2, Consts DEF BurstBytes, Least
    <3>3. (BurstBytes - Odd) \div 4 > 0 /\ (BurstBytes - Odd) \div 4 \in Nat
      BY <3>1, <3>2
    <3>4. BurstWords = Least((BurstBytes - Odd) \div 4, FIFO_SIZE)
      BY DEF BurstWords
    <3> QED BY <3>3, <3>4, Consts DEF Least
  <2> QED BY <2>1, <2>2
<1>4. CASE FillWords
  <2>1. Len(tx') = UnitWords /\ UnitWords \in Nat /\ Unit \in {1, 2, 4}
    BY <1>4, FillWordsEffect
  <2> DEFINE d == xlen - tlen
             m == (d + Unit - 1) \div Unit
  <2>2. d \in Nat /\ d > 0
    BY <1>2
  <2>3. UnitWords = Least(m, FIFO_SIZE)
    BY DEF UnitWords
  <2> HIDE DEF d
  <2>4. m \in Nat /\ m > 0
    <3>1. CASE Unit = 1 BY <3>1, <2>2
    <3>2. CASE Unit = 2 BY <3>2, <2>2
    <3>3. CASE Unit = 4 BY <3>3, <2>2
    <3> QED BY <2>1, <3>1, <3>2, <3>3
  <2> HIDE DEF m
  <2> QED BY <2>1, <2>3, <2>4, Consts DEF Least
<1> QED BY <1>3, <1>4

\* With nothing out and nothing more to fill, the burst is over.
LEMMA OverWhenRead ==
    ASSUME Types, Stored, NumInv, pc = "wait", Out = 0,
           burst => btlen >= bxlen, ~burst => tlen >= xlen
    PROVE  BurstOver
<1>1. rlen \in Nat /\ tlen = rlen
  <2>1. StartOf(Out + 1) = rlen
    BY DEF StartOf, Place
  <2> QED BY <2>1 DEF NumInv, LensOK
<1>2. burst => tlen - rlen = btlen - brlen /\ btlen <= bxlen
  BY DEF NumInv, LensOK
<1> QED BY <1>1, <1>2 DEF BurstOver, Types

\* TC stays as the FIFOs tell, as long as spi_intr has had nothing to send.
LEMMA OnceStep ==
    ASSUME Types, Stored, SpiInv, OnceOK, [Next]_vars, Types', Stored', SpiInv'
    PROVE  OnceOK'
<1> SUFFICES ASSUME late' = 0, ~refilled' PROVE OnceOK'
  BY DEF OnceOK
<1>0. late = 0 /\ ~refilled /\ ~TimeOut
  <2>1. late' = late \/ (late' = late + 1 /\ TimeOut)
    BY DEF Next, Thread, Handler, Begin, BeginUnknown, FillBurst, FillUnsupported, FillWords, Enable, Start,
           Wake, End, TimeOut, Shift, Interrupt, IntrStatus, IntrWrong, IntrCount, IntrReadNone,
           IntrReadFirst, IntrRead, IntrReadDone, IntrFill, IntrExchange, IntrEnd, vars, ghost
  <2>2. refilled => refilled'
    BY DEF Next, Thread, Handler, Begin, BeginUnknown, FillBurst, FillUnsupported, FillWords, Enable, Start,
           Wake, End, TimeOut, Shift, Interrupt, IntrStatus, IntrWrong, IntrCount, IntrReadNone,
           IntrReadFirst, IntrRead, IntrReadDone, IntrFill, IntrExchange, IntrEnd, vars, ghost
  <2>3. TimeOut => late' = late + 1
    BY DEF TimeOut
  <2> QED BY <2>1, <2>2, <2>3 DEF Types
<1>a. Len(tx) \in Nat /\ Len(rx) \in Nat /\ Len(tx') \in Nat /\ Len(rx') \in Nat
      /\ count \in Nat /\ (tx = <<>> <=> Len(tx) = 0)
  BY Empty DEF Stored, Types
<1>b. ~staleTC /\ NumInv
  BY <1>0 DEF OnceOK, SpiInv, Undisturbed
<1>c. RestOK /\ HandlerOK /\ RoomOK
  BY <1>b DEF NumInv
<1>1. CASE Begin
  <2>1. Len(tx') = Len(tx) /\ ipc' = "idle" /\ pc = "idle" /\ pc' \in {"idle", "burst"}
        /\ UNCHANGED <<tc, staleTC, pulses, istat, count>> /\ pulses = 0
    BY <1>1, <1>c, BeginEmpty DEF Begin, RestOK, intr
  <2> QED BY <2>1, <1>0 DEF OnceOK
<1>2. CASE FillBurst \/ FillWords
  <2>1. Len(tx') > 0
    BY <1>2, <1>b, FillsSome
  <2>2. pc = "burst" /\ pc' = "enable" /\ UNCHANGED <<tc, staleTC, pulses, ipc>> /\ ipc = "idle"
    BY <1>2, <1>c DEF FillBurst, FillWords, ghost, intr, RestOK
  <2> QED BY <2>1, <2>2, <1>0 DEF OnceOK
<1>3. CASE FillUnsupported \/ End
  <2>1. pc = "burst" /\ pc' = "idle" /\ UNCHANGED <<tc, staleTC, pulses, ipc>> /\ ipc = "idle"
    BY <1>3, <1>c DEF FillUnsupported, End, ghost, intr, RestOK
  <2> QED BY <2>1, <1>0 DEF OnceOK
<1>4. CASE Enable
  <2>1. /\ pc = "enable" /\ pc' = "start" /\ UNCHANGED <<tc, pulses, ipc, tx, rx>> /\ ipc = "idle"
        /\ (staleTC' <=> (staleTC \/ tc)) /\ pulses = 0
    BY <1>4, <1>c DEF Enable, intr, RestOK
  <2> QED BY <2>1, <1>0 DEF OnceOK
<1>5. CASE Start
  <2>1. /\ pc = "start" /\ pc' = "wait" /\ UNCHANGED <<tc, pulses, ipc, tx, rx, staleTC>>
        /\ ipc = "idle" /\ ~tc /\ pulses = 0
    BY <1>5, <1>c DEF Start, intr, RestOK, ghost
  <2> QED BY <2>1, <1>0 DEF OnceOK
<1>6. CASE Wake
  <2>1. /\ pc = "wait" /\ pc' = "burst" /\ UNCHANGED <<tc, ipc, tx, rx, staleTC>>
        /\ ipc = "idle" /\ pulses # 0 /\ pulses' = 0
    BY <1>6, <1>c DEF Wake, intr, ctl, RestOK, ghost, Types
  <2> QED BY <2>1, <1>0 DEF OnceOK
<1>7. CASE Shift
  <2>1. /\ Len(tx) >= 1 /\ Len(tx') = Len(tx) - 1 /\ Len(rx') = Len(rx) + 1
        /\ (tc' <=> (tc \/ Len(tx') = 0))
    BY <1>7, <1>c, ShiftEffect DEF RoomOK
  <2>2. /\ UNCHANGED <<burst, tlen, xlen, pc, ipc, istat, count, pulses, staleTC>>
        /\ pc = "wait" /\ pulses = 0
    <3>1. xch /\ UNCHANGED <<burst, tlen, xlen, pc, ipc, istat, count, pulses, staleTC>>
      BY <1>7 DEF Shift, thr, intr, lens
    <3>2. pc = "wait"
      BY <3>1, <1>c DEF RestOK, Types
    <3>3. pulses = 0
      BY <2>1, <1>c, <1>a DEF RestOK, Out, Types
    <3> QED BY <3>1, <3>2, <3>3
  <2>3. Out' = Out
    BY <2>1, <1>a DEF Out
  <2>4. ~tc /\ (ipc \in {"count", "read", "fill"} => istat # "tc")
    BY <2>1, <2>2, <1>0, <1>a DEF OnceOK
  <2>5. tc' <=> Len(tx') = 0
    BY <2>1, <2>4
  <2>6. Len(rx') > 0
    BY <2>1, <1>a
  <2> QED BY <2>2, <2>3, <2>4, <2>5, <2>6, <1>0 DEF OnceOK
<1>8. CASE Interrupt
  <2>1. /\ UNCHANGED <<tx, rx, tc, pc, pulses, staleTC>> /\ ipc = "idle" /\ ipc' = "status"
    BY <1>8 DEF Interrupt, ctl, thr, ghost
  <2> QED BY <2>1, <1>0 DEF OnceOK
<1>9. CASE IntrStatus
  <2>1. /\ UNCHANGED <<tx, rx, pc, pulses, staleTC>> /\ ipc = "status" /\ ipc' = "count"
        /\ ~tc' /\ pc = "wait" /\ pulses = 0
    BY <1>9, <1>c DEF IntrStatus, thr, ghost, RestOK, Types
  <2>2. \/ tc /\ istat' = "tc"
        \/ ~tc /\ Len(rx) >= RXMARK /\ istat' = "rdr"
    BY <1>9, <2>1, <1>c DEF IntrStatus, HandlerOK, RDR
  <2>3. ~tc => Len(tx) > 0
    BY <2>1, <1>0, <1>a DEF OnceOK
  <2>4. ~tc => Out' > RXMARK
    BY <2>1, <2>2, <2>3, <1>a, Consts DEF Out
  <2> QED BY <2>1, <2>2, <2>3, <2>4, <1>0 DEF OnceOK
<1>10. CASE IntrWrong
  BY <1>10, <1>c DEF IntrWrong, HandlerOK
<1>11. CASE IntrCount
  <2>1. /\ UNCHANGED <<burst, tlen, xlen, tx, rx, tc, pc, pulses, staleTC, istat>> /\ ipc = "count"
        /\ ipc' = "read" /\ count' = (IF istat = "tc" THEN Len(rx) ELSE RXMARK)
        /\ pc = "wait" /\ pulses = 0
    BY <1>11, <1>c DEF IntrCount, WordsToRead, thr, ghost, lens, ctl, RestOK, Types
  <2>2. Out' = Out
    BY <2>1 DEF Out
  <2> QED BY <2>1, <2>2, <1>0, <1>a DEF OnceOK
<1>12. CASE IntrReadNone \/ IntrReadDone
  <2>1. /\ UNCHANGED <<burst, tx, rx, tc, pc, pulses, staleTC, istat, count>> /\ ipc = "read"
        /\ ipc' \in {"fill", "stuck"} /\ count = 0 /\ pc = "wait" /\ pulses = 0
    BY <1>12, <1>c DEF IntrReadNone, IntrReadDone, thr, ghost, lens, ctl, RestOK, Types
  <2>2. Out' = Out
    BY <2>1 DEF Out
  <2> QED BY <2>1, <2>2, <1>0, <1>a DEF OnceOK
<1>13. CASE IntrReadFirst \/ IntrRead \/ IntrExchange
  <2>1. /\ UNCHANGED <<burst, xlen, tx, tlen, tc, pc, pulses, staleTC, istat, ipc>> /\ ipc = "read"
        /\ count # 0 /\ PopRx /\ count' = count - 1 /\ pc = "wait" /\ pulses = 0
        /\ (~burst => tlen >= xlen)
    <3>1. /\ UNCHANGED <<burst, xlen, tc, pc, pulses, staleTC, istat, ipc>> /\ ipc = "read"
          /\ count # 0 /\ PopRx /\ count' = count - 1
      BY <1>13 DEF IntrReadFirst, IntrRead, IntrExchange, thr, ghost
    <3>2. UNCHANGED <<tx, tlen>> /\ (~burst => tlen >= xlen)
      BY <1>13, <1>0 DEF IntrReadFirst, IntrRead, IntrExchange, Types
    <3>3. pc = "wait" /\ pulses = 0
      BY <3>1, <1>c DEF RestOK, Types
    <3> QED BY <3>1, <3>2, <3>3
  <2>2. Len(rx') = Len(rx) - 1 /\ Len(rx) >= 1
    BY <2>1, <1>c, PopEffect DEF HandlerOK
  <2>3. Out' = Out - 1 /\ Out \in Nat
    BY <2>1, <2>2, <1>a DEF Out
  <2>4. istat \in {"tc", "rdr"}
    BY <2>1, <1>c DEF HandlerOK
  <2>5. CASE istat = "tc"
    <3>1. Len(tx) = 0 /\ ~tc /\ Len(rx) = count
      BY <2>1, <2>5, <1>0 DEF OnceOK
    <3> QED BY <3>1, <2>1, <2>2, <2>5, <1>0, <1>a DEF OnceOK
  <2>6. CASE istat = "rdr"
    <3>1. Out > count /\ (Len(tx) = 0 => tc) /\ (tc => Len(tx) = 0)
      BY <2>1, <2>6, <1>0 DEF OnceOK
    <3>2. tc => Len(rx') > 0
      BY <3>1, <2>1, <2>2, <1>a DEF Out
    <3>3. Out' > count'
      BY <3>1, <2>1, <2>3, <1>a
    <3> QED BY <3>1, <3>2, <3>3, <2>1, <2>6, <1>0 DEF OnceOK
  <2> QED BY <2>4, <2>5, <2>6
<1>14. CASE IntrFill
  BY <1>14 DEF IntrFill
<1>15. CASE IntrEnd
  <2>1. /\ UNCHANGED <<burst, lens, tx, rx, tc, pc, staleTC>> /\ ipc \in {"read", "fill"}
        /\ ipc' = "idle" /\ (BurstOver => pulses' = pulses + 1) /\ (~BurstOver => pulses' = pulses)
        /\ (ipc = "fill" => ~MoreToFill) /\ (ipc = "read" => ~burst /\ count = 0)
    BY <1>15 DEF IntrEnd, Notify, thr, ghost
  <2>2. pc = "wait" /\ pulses = 0 /\ istat \in {"tc", "rdr"} /\ count = 0 /\ (ipc = "fill" => burst)
    BY <2>1, <1>c, <1>0 DEF RestOK, HandlerOK, OnceOK, Types
  <2>3. CASE istat = "rdr"
    <3>1. Out > 0 /\ (Len(tx) = 0 => tc)
      BY <2>1, <2>2, <2>3, <1>0 DEF OnceOK
    <3>2. ~BurstOver
      BY <3>1, <2>2, <1>b, OverOnlyWhenRead
    <3> QED BY <3>1, <3>2, <2>1, <2>2, <1>0 DEF OnceOK
  <2>4. CASE istat = "tc"
    <3>1. Len(tx) = 0 /\ ~tc /\ Len(rx) = 0
      BY <2>1, <2>2, <2>4, <1>0 DEF OnceOK
    <3>2. Out = 0
      BY <3>1 DEF Out
    <3>3. /\ burst => btlen >= bxlen
          /\ ~burst => tlen >= xlen
      <4>1. burst => btlen >= bxlen
        BY <2>1, <2>2, Consts DEF MoreToFill, Types
      <4>2. ~burst => tlen >= xlen
        BY <2>1, <2>2, <2>4, <1>0 DEF OnceOK
      <4> QED BY <4>1, <4>2
    <3>4. BurstOver
      BY <3>2, <3>3, <2>2, <1>b, OverWhenRead
    <3> QED BY <3>1, <3>4, <2>1, <2>2, <1>0 DEF OnceOK
  <2> QED BY <2>2, <2>3, <2>4
<1>16. CASE BeginUnknown \/ UNCHANGED vars
  BY <1>16, <1>0 DEF BeginUnknown, vars, lens, thr, intr, ctl, ghost, OnceOK, Out
<1> QED BY <1>0, <1>1, <1>2, <1>3, <1>4, <1>5, <1>6, <1>7, <1>8, <1>9, <1>10, <1>11, <1>12, <1>13,
           <1>14, <1>15, <1>16
        DEF Next, Thread, Handler

\* A burst that fits into the FIFO raises TC once: it is spi_intr's refill
\* that can leave it set for the next burst.
THEOREM SpiTcOnce == Spec => []TcOnce
<1>1. Init => OnceOK
  <2> SUFFICES ASSUME Init PROVE OnceOK
    OBVIOUS
  <2> QED BY DEF Init, OnceOK
<1>2. Types /\ Stored /\ SpiInv /\ OnceOK /\ [Next]_vars /\ (Types /\ Stored /\ SpiInv)' => OnceOK'
  BY OnceStep
<1>3. OnceOK => TcOnce
  BY DEF OnceOK, TcOnce
<1> QED BY <1>1, <1>2, <1>3, SpiInvariant, PTL DEF Spec

=============================================================================
