----------------------------- MODULE ProxyProofs ----------------------------
(***************************************************************************)
(* Theorems about Proxy: its types, and that both directions implement     *)
(* DatagramPipe.  A stream is described cell by cell: each cell tells      *)
(* where its frame begins, and all cells within the frame agree with it.   *)
(***************************************************************************)
EXTENDS Proxy, SequenceTheorems, TLAPS

-----------------------------------------------------------------------------
(* Streams.                                                                *)

\* Cell j of s is in the frame of cell i.
InFrame(s, i, j) == i - s[i].at <= j /\ j <= i - s[i].at + s[i].len

Framed(s) ==
  \A i \in DOMAIN s :
    /\ s[i].at < i
    /\ \A j \in DOMAIN s :
         InFrame(s, i, j) => /\ s[j].id = s[i].id /\ s[j].len = s[i].len
                             /\ s[j].at = j - i + s[i].at

\* The numbers of the datagrams go up, and the last frame is whole.
Rising(s) == \A i, j \in DOMAIN s : i < j /\ s[j].at = 0 => s[i].id < s[j].id
AtEnd(s) == s # << >> => s[Len(s)].at = s[Len(s)].len

Numbered(s, low, high) == \A i \in DOMAIN s : low < s[i].id /\ s[i].id <= high

LEMMA CellFields ==
  ASSUME NEW c \in Cells
  PROVE  /\ c.id \in 1 .. MaxUp + MaxDown /\ c.len \in Lengths /\ c.at \in Nat /\ c.at <= c.len
         /\ c.len \in Nat /\ c.id \in Nat
         /\ c = [id |-> c.id, len |-> c.len, at |-> c.at]
<1>1. c \in [id : 1 .. MaxUp + MaxDown, len : Lengths, at : Nat] /\ c.at <= c.len
  BY Zenon DEF Cells
<1>2. c.id \in 1 .. MaxUp + MaxDown /\ c.len \in Lengths /\ c.at \in Nat
  BY <1>1
<1>3. c = [id |-> c.id, len |-> c.len, at |-> c.at]
  BY <1>1
<1>4. c.len \in Nat
  BY <1>2, ProxyAssumption, Zenon
<1>5. c.id \in Nat
  BY <1>2, SMTT(20)
<1> QED
  BY <1>1, <1>2, <1>3, <1>4, <1>5, Zenon

LEMMA StreamFields ==
  ASSUME NEW s \in Seq(Cells)
  PROVE  /\ DOMAIN s = 1 .. Len(s) /\ Len(s) \in Nat
         /\ \A i \in DOMAIN s : /\ s[i] \in Cells /\ s[i].at \in Nat /\ s[i].len \in Nat /\ s[i].id \in Nat
                                /\ s[i].at <= s[i].len
BY CellFields

LEMMA Joined ==
  ASSUME NEW S, NEW a \in Seq(S), NEW b \in Seq(S)
  PROVE  /\ a \o b \in Seq(S) /\ Len(a \o b) = Len(a) + Len(b)
         /\ \A i \in 1 .. Len(a) : (a \o b)[i] = a[i]
         /\ \A i \in 1 .. Len(b) : (a \o b)[Len(a) + i] = b[i]
OBVIOUS

\* A frame, cell by cell.
LEMMA FrameCells ==
  ASSUME NEW id \in 1 .. MaxUp + MaxDown, NEW n \in Lengths
  PROVE  /\ n \in Nat /\ Frame(id, n) \in Datagrams /\ Frame(id, n) \in Seq(Cells)
         /\ Len(Frame(id, n)) = n + 1 /\ DOMAIN Frame(id, n) = 1 .. n + 1
         /\ \A i \in 1 .. n + 1 : Frame(id, n)[i].id = id /\ Frame(id, n)[i].len = n
                                  /\ Frame(id, n)[i].at = i - 1
<1>1. n \in Nat
  BY ProxyAssumption, Zenon
<1>2. Frame(id, n) \in Datagrams
  BY DEF Datagrams
<1>3. \A i \in 1 .. n + 1 : /\ Frame(id, n)[i] = [id |-> id, len |-> n, at |-> i - 1]
                            /\ Frame(id, n)[i] \in Cells
  BY <1>1, ProxyAssumption DEF Frame, Cells
<1>4. DOMAIN Frame(id, n) = 1 .. n + 1
  BY Zenon DEF Frame
<1>5. Frame(id, n) \in Seq(Cells) /\ Len(Frame(id, n)) = n + 1
  <2>1. Frame(id, n) \in [1 .. n + 1 -> Cells]
    BY <1>3, Zenon DEF Frame
  <2> HIDE DEF Frame
  <2> QED
    BY <1>1, <2>1
<1> QED
  BY <1>1, <1>2, <1>3, <1>4, <1>5

LEMMA DatagramIsFrame ==
  ASSUME NEW d \in Datagrams
  PROVE  /\ d # << >> /\ d[1].id \in 1 .. MaxUp + MaxDown /\ d[1].len \in Lengths
         /\ d = Frame(d[1].id, d[1].len) /\ d \in Seq(Cells)
<1>1. PICK id \in 1 .. MaxUp + MaxDown, n \in Lengths : d = Frame(id, n)
  BY DEF Datagrams
<1>2. d \in Seq(Cells) /\ Len(d) = n + 1 /\ n \in Nat /\ d[1].id = id /\ d[1].len = n
  <2>1. /\ d \in Seq(Cells) /\ Len(d) = n + 1 /\ n \in Nat
        /\ \A i \in 1 .. n + 1 : d[i].id = id /\ d[i].len = n
    BY <1>1, FrameCells
  <2>2. 1 \in 1 .. n + 1
    BY <2>1
  <2> QED
    BY <2>1, <2>2, Zenon
<1>3. d # << >>
  BY <1>2
<1> QED
  BY <1>1, <1>2, <1>3, Zenon

\* The frame that a header begins.
LEMMA WholeFrame ==
  ASSUME NEW s \in Seq(Cells), Framed(s), NEW i \in Whole(s)
  PROVE  FrameAt(s, i) = Frame(s[i].id, s[i].len) /\ FrameAt(s, i) \in Datagrams
<1>1. /\ i \in DOMAIN s /\ s[i].at = 0 /\ i + s[i].len <= Len(s) /\ DOMAIN s = 1 .. Len(s)
      /\ s[i].len \in Nat /\ s[i].id \in 1 .. MaxUp + MaxDown /\ s[i].len \in Lengths /\ Len(s) \in Nat
  BY StreamFields, CellFields, Zenon DEF Whole
<1>2. ASSUME NEW k \in 1 .. s[i].len + 1
      PROVE  s[i + k - 1] = [id |-> s[i].id, len |-> s[i].len, at |-> k - 1]
  <2>1. i + k - 1 \in DOMAIN s /\ InFrame(s, i, i + k - 1)
    BY <1>1 DEF InFrame
  <2>2. /\ s[i + k - 1].id = s[i].id /\ s[i + k - 1].len = s[i].len
        /\ s[i + k - 1].at = (i + k - 1) - i + s[i].at
    BY <1>1, <2>1, Zenon DEF Framed
  <2>3. s[i + k - 1].at = k - 1
    BY <1>1, <2>2
  <2> QED
    BY <2>1, <2>2, <2>3, StreamFields, CellFields, Zenon
<1>3. FrameAt(s, i) = Frame(s[i].id, s[i].len)
  BY <1>2, Zenon DEF FrameAt, Frame
<1> QED
  BY <1>1, <1>3, FrameCells

\* Where a stream ends with a whole frame, no frame goes beyond the end.
LEMMA NoneBeyond ==
  ASSUME NEW s \in Seq(Cells), Framed(s), AtEnd(s), NEW i \in DOMAIN s
  PROVE  i - s[i].at + s[i].len <= Len(s)
<1>1. /\ DOMAIN s = 1 .. Len(s) /\ Len(s) \in Nat /\ s[i].at \in Nat /\ s[i].len \in Nat
      /\ s[Len(s)].at \in Nat /\ s[Len(s)].len \in Nat
  BY StreamFields
<1> SUFFICES ASSUME i - s[i].at + s[i].len > Len(s) PROVE FALSE
  BY <1>1
<1>2. Len(s) \in DOMAIN s /\ InFrame(s, i, Len(s)) /\ s # << >>
  BY <1>1 DEF InFrame
<1>3. s[Len(s)].len = s[i].len /\ s[Len(s)].at = Len(s) - i + s[i].at
  BY <1>2, Zenon DEF Framed
<1>4. s[Len(s)].at = s[Len(s)].len
  BY <1>2, Zenon DEF AtEnd
<1> QED
  BY <1>1, <1>3, <1>4

\* A frame is written at the end.
LEMMA JoinFrame ==
  ASSUME NEW s \in Seq(Cells), Framed(s), Rising(s), AtEnd(s),
         NEW id \in 1 .. MaxUp + MaxDown, NEW n \in Lengths,
         \A i \in DOMAIN s : s[i].id < id
  PROVE  LET t == s \o Frame(id, n)
         IN  /\ t \in Seq(Cells) /\ Framed(t) /\ Rising(t) /\ AtEnd(t)
             /\ Frames(t) = Frames(s) \cup {Frame(id, n)}
<1> DEFINE f == Frame(id, n)
           t == s \o f
<1>1. /\ n \in Nat /\ f \in Seq(Cells) /\ Len(f) = n + 1 /\ id \in Nat /\ id \in 1 .. MaxUp + MaxDown
      /\ \A i \in 1 .. n + 1 : f[i].id = id /\ f[i].len = n /\ f[i].at = i - 1
  BY FrameCells, ProxyAssumption
<1>2. /\ DOMAIN s = 1 .. Len(s) /\ Len(s) \in Nat
      /\ \A i \in DOMAIN s : s[i].at \in Nat /\ s[i].len \in Nat /\ s[i].id \in Nat /\ s[i].at <= s[i].len
  BY StreamFields, Zenon
<1> HIDE DEF f
<1>3. /\ t \in Seq(Cells) /\ Len(t) = Len(s) + n + 1 /\ DOMAIN t = 1 .. Len(s) + n + 1
      /\ \A i \in 1 .. Len(s) : t[i] = s[i]
      /\ \A i \in 1 .. n + 1 : t[Len(s) + i] = f[i]
  <2>1. f \in Seq(Cells)
    BY <1>1, Zenon
  <2>2. /\ t \in Seq(Cells) /\ Len(t) = Len(s) + Len(f)
        /\ \A i \in 1 .. Len(s) : t[i] = s[i]
        /\ \A i \in 1 .. Len(f) : t[Len(s) + i] = f[i]
    BY <2>1, Joined
  <2> HIDE DEF t
  <2> QED
    BY <1>1, <1>2, <2>2
<1> HIDE DEF t
<1>4. \A i \in Len(s) + 1 .. Len(s) + n + 1 : t[i].id = id /\ t[i].len = n /\ t[i].at = i - Len(s) - 1
  <2> SUFFICES ASSUME NEW i \in Len(s) + 1 .. Len(s) + n + 1
               PROVE  t[i].id = id /\ t[i].len = n /\ t[i].at = i - Len(s) - 1
    OBVIOUS
  <2>1. i - Len(s) \in 1 .. n + 1 /\ Len(s) + (i - Len(s)) = i
    BY <1>1, <1>2
  <2> QED
    BY <1>1, <1>3, <2>1, Zenon
<1>5. \A i \in DOMAIN s : i - s[i].at + s[i].len <= Len(s)
  BY NoneBeyond, Zenon
<1>6. Framed(t)
  <2>1. ASSUME NEW i \in DOMAIN t PROVE t[i].at < i
    BY <1>1, <1>2, <1>3, <1>4 DEF Framed
  <2>2. ASSUME NEW i \in DOMAIN t, NEW j \in DOMAIN t, InFrame(t, i, j)
        PROVE  t[j].id = t[i].id /\ t[j].len = t[i].len /\ t[j].at = j - i + t[i].at
    <3>1. CASE i \in 1 .. Len(s)
      <4>1. j \in 1 .. Len(s) /\ InFrame(s, i, j)
        BY <1>1, <1>2, <1>3, <1>5, <2>2, <3>1, SMTT(20) DEF InFrame
      <4>2. s[j].id = s[i].id /\ s[j].len = s[i].len /\ s[j].at = j - i + s[i].at
        BY <1>2, <3>1, <4>1, Zenon DEF Framed
      <4> QED
        BY <1>3, <3>1, <4>1, <4>2, Zenon
    <3>2. CASE i \in Len(s) + 1 .. Len(s) + n + 1
      <4>1. j \in Len(s) + 1 .. Len(s) + n + 1
        BY <1>1, <1>2, <1>3, <1>4, <2>2, <3>2 DEF InFrame
      <4> QED
        BY <1>1, <1>2, <1>4, <3>2, <4>1
    <3> QED
      BY <1>1, <1>2, <1>3, <2>2, <3>1, <3>2
  <2> QED
    BY <2>1, <2>2, Zenon DEF Framed
<1>7. Rising(t)
  <2> SUFFICES ASSUME NEW i \in DOMAIN t, NEW j \in DOMAIN t, i < j, t[j].at = 0 PROVE t[i].id < t[j].id
    BY Zenon DEF Rising
  <2>1. CASE j \in 1 .. Len(s)
    <3>1. i \in 1 .. Len(s)
      BY <1>1, <1>2, <1>3, <2>1
    <3> QED
      BY <1>2, <1>3, <2>1, <3>1, Zenon DEF Rising
  <2>2. CASE j \in Len(s) + 1 .. Len(s) + n + 1
    <3>1. i \in 1 .. Len(s) /\ t[j].id = id
      BY <1>1, <1>2, <1>3, <1>4, <2>2
    <3> QED
      BY <1>2, <1>3, <3>1, Zenon
  <2> QED
    BY <1>1, <1>2, <1>3, <2>1, <2>2
<1>8. AtEnd(t)
  BY <1>1, <1>2, <1>3, <1>4 DEF AtEnd
<1>9. Frames(t) = Frames(s) \cup {f}
  <2>1. \A i \in Whole(s) : FrameAt(s, i) = Frame(s[i].id, s[i].len)
    BY WholeFrame, Zenon
  <2>2. \A i \in Whole(t) : FrameAt(t, i) = Frame(t[i].id, t[i].len)
    BY <1>3, <1>6, WholeFrame, Zenon
  <2>3. \A i : i \in Whole(t) <=> i \in Whole(s) \/ i = Len(s) + 1
    <3>1. ASSUME NEW i \in Whole(t) PROVE i \in Whole(s) \/ i = Len(s) + 1
      <4>1. i \in 1 .. Len(s) + n + 1 /\ t[i].at = 0
        BY <1>3, <3>1, Zenon DEF Whole
      <4>2. CASE i \in 1 .. Len(s)
        BY <1>2, <1>3, <1>5, <4>1, <4>2 DEF Whole
      <4>3. CASE i \in Len(s) + 1 .. Len(s) + n + 1
        BY <1>1, <1>2, <1>4, <4>1, <4>3
      <4> QED
        BY <1>1, <1>2, <4>1, <4>2, <4>3
    <3>2. ASSUME NEW i \in Whole(s) PROVE i \in Whole(t)
      BY <1>1, <1>2, <1>3, <3>2 DEF Whole
    <3>3. Len(s) + 1 \in Whole(t)
      BY <1>1, <1>2, <1>3, <1>4 DEF Whole
    <3> QED
      BY <3>1, <3>2, <3>3, Zenon
  <2>4. \A i \in Whole(s) : t[i] = s[i]
    BY <1>2, <1>3, Zenon DEF Whole
  <2>5. Frame(t[Len(s) + 1].id, t[Len(s) + 1].len) = f
    <3>1. t[Len(s) + 1].id = id /\ t[Len(s) + 1].len = n
      BY <1>1, <1>2, <1>4
    <3> QED
      BY <3>1, Zenon DEF f
  <2>6. \A i \in Whole(s) : FrameAt(t, i) = FrameAt(s, i)
    BY <2>1, <2>2, <2>3, <2>4, Zenon
  <2>7. FrameAt(t, Len(s) + 1) = f
    BY <2>2, <2>3, <2>5, Zenon
  <2>8. \A d : d \in Frames(t) <=> d \in Frames(s) \/ d = f
    BY <2>3, <2>6, <2>7, Zenon DEF Frames
  <2> QED
    BY <2>8, Zenon
<1> QED
  BY <1>3, <1>6, <1>7, <1>8, <1>9, Zenon DEF t, f

\* A stream: the cells of frames, in the order of their numbers; the last
\* frame need not be whole.
Stream(s) == s \in Seq(Cells) /\ Framed(s) /\ Rising(s)

LEMMA StreamCell ==
  ASSUME NEW s, Stream(s), NEW i \in 1 .. Len(s)
  PROVE  /\ s[i].at \in Nat /\ s[i].len \in Nat /\ s[i].id \in Nat /\ s[i].at <= s[i].len /\ s[i].at < i
         /\ i \in DOMAIN s /\ Len(s) \in Nat
BY StreamFields, Zenon DEF Stream, Framed

LEMMA FrameAgrees ==
  ASSUME NEW s, Stream(s), NEW i \in 1 .. Len(s), NEW j \in 1 .. Len(s),
         i - s[i].at <= j, j <= i - s[i].at + s[i].len
  PROVE  s[j].id = s[i].id /\ s[j].len = s[i].len /\ s[j].at = j - i + s[i].at
<1>1. i \in DOMAIN s /\ j \in DOMAIN s /\ InFrame(s, i, j)
  BY StreamCell, Zenon DEF InFrame
<1> QED
  BY <1>1, Zenon DEF Stream, Framed

\* The frame of a cell begins with a header of the same number.
LEMMA HeaderOf ==
  ASSUME NEW s, Stream(s), NEW i \in 1 .. Len(s)
  PROVE  \E b \in 1 .. i : s[b].at = 0 /\ s[b].id = s[i].id
<1>1. s[i].at \in Nat /\ s[i].len \in Nat /\ s[i].at < i /\ Len(s) \in Nat
  BY StreamCell, Zenon
<1>2. PICK b \in 1 .. i : b = i - s[i].at
  BY <1>1
<1>3. b \in 1 .. Len(s) /\ i - s[i].at <= b /\ b <= i - s[i].at + s[i].len
  BY <1>1, <1>2
<1>4. s[b].id = s[i].id /\ s[b].at = b - i + s[i].at
  BY <1>3, FrameAgrees, Zenon
<1> QED
  BY <1>1, <1>2, <1>4

\* t is what is left of s when its first frame, with n units, is taken away.
Cut(s, t, n) ==
  /\ t \in Seq(Cells) /\ HasFrame(s) /\ n = s[1].len /\ Len(s) = n + 1 + Len(t)
  /\ \A k \in 1 .. Len(t) : t[k] = s[n + 1 + k]

LEMMA CutDomains ==
  ASSUME NEW s, NEW t, NEW n, Stream(s), Cut(s, t, n)
  PROVE  DOMAIN s = 1 .. Len(s) /\ DOMAIN t = 1 .. Len(t)
BY DEF Stream, Cut

LEMMA CutCells ==
  ASSUME NEW s, NEW t, NEW n, Stream(s), Cut(s, t, n)
  PROVE  /\ Len(s) \in Nat /\ Len(t) \in Nat /\ n \in Nat /\ Len(s) = n + 1 + Len(t)
         /\ n = s[1].len /\ s[1].at = 0 /\ 1 \in 1 .. Len(s) /\ n + 1 \in 1 .. Len(s)
         /\ s[n + 1].len = n /\ s[n + 1].at = n
<1>1. Len(s) \in Nat /\ Len(t) \in Nat /\ Len(s) = n + 1 + Len(t)
  BY DEF Stream, Cut
<1>2. 1 \in 1 .. Len(s)
  BY DEF Stream, Cut, HasFrame
<1>3. s[1].at \in Nat /\ s[1].len \in Nat /\ s[1].at < 1
  BY <1>2, StreamCell, Zenon
<1>4. n = s[1].len /\ n \in Nat /\ s[1].at = 0
  BY <1>3 DEF Cut
<1>5. n \in Nat
  BY <1>4, Zenon
<1>6. n + 1 \in 1 .. Len(s) /\ 1 - 0 <= n + 1 /\ n + 1 <= 1 - 0 + n /\ n + 1 - 1 + 0 = n
  BY <1>1, <1>5
<1>7. s[n + 1].len = n /\ s[n + 1].at = n
  <2>1. PICK h \in 1 .. Len(s), m \in 1 .. Len(s) : h = 1 /\ m = n + 1
    BY <1>2, <1>6, Zenon
  <2>2. h - s[h].at <= m /\ m <= h - s[h].at + s[h].len
    BY <1>4, <1>6, <2>1, Zenon
  <2>3. s[m].len = s[h].len /\ s[m].at = m - h + s[h].at
    BY <2>2, FrameAgrees, Zenon
  <2>4. s[h].len = n /\ s[h].at = 0
    BY <1>4, <2>1, Zenon
  <2>5. m - h + 0 = n
    BY <1>5, <2>1
  <2>6. s[m].len = n /\ s[m].at = n
    BY <2>3, <2>4, <2>5, Zenon
  <2> QED
    BY <2>1, <2>6, Zenon
<1> QED
  BY <1>1, <1>2, <1>4, <1>6, <1>7, Zenon

LEMMA CutCell ==
  ASSUME NEW s, NEW t, NEW n, Stream(s), Cut(s, t, n), NEW k \in 1 .. Len(t)
  PROVE  n + 1 + k \in 1 .. Len(s) /\ t[k] = s[n + 1 + k]
<1>1. n + 1 + k \in 1 .. Len(s)
  BY CutCells
<1> QED
  BY <1>1, Zenon DEF Cut

LEMMA CutFramed ==
  ASSUME NEW s, NEW t, NEW n, Stream(s), Cut(s, t, n)
  PROVE  Framed(t)
<1>1. /\ Len(s) \in Nat /\ Len(t) \in Nat /\ n \in Nat
      /\ n + 1 \in 1 .. Len(s) /\ s[n + 1].len = n /\ s[n + 1].at = n
  BY CutCells, Zenon
<1>2. ASSUME NEW k \in 1 .. Len(t) PROVE t[k].at < k
  <2>1. PICK i \in 1 .. Len(s) : i = n + 1 + k /\ t[k] = s[i]
    BY CutCell
  <2>2. PICK at \in Nat, len \in Nat : at = s[i].at /\ len = s[i].len /\ at <= len
    BY StreamCell, Zenon
  <2>3. n \in Nat /\ i = n + 1 + k /\ at <= len
    BY <1>1, <2>1, <2>2, Zenon
  <2>4. ASSUME k <= at PROVE FALSE
    <3>1. PICK m \in 1 .. Len(s) : m = n + 1
      BY <1>1, Zenon
    <3>2. i - at <= m /\ m <= i - at + len
      BY <2>3, <2>4, <3>1
    <3>3. i - s[i].at <= m /\ m <= i - s[i].at + s[i].len
      BY <2>2, <3>2, Zenon
    <3>4. s[m].len = s[i].len /\ s[m].at = m - i + s[i].at
      BY <3>3, FrameAgrees, Zenon
    <3>5. s[m].len = n /\ s[m].at = n
      BY <1>1, <3>1, Zenon
    <3>6. n = len /\ n = m - i + at
      BY <2>2, <3>4, <3>5, Zenon
    <3> QED
      BY <2>3, <2>4, <3>1, <3>6
  <2>5. at < k
    BY <2>3, <2>4
  <2> QED
    BY <2>1, <2>2, <2>5, Zenon
<1>3. ASSUME NEW k \in 1 .. Len(t), NEW j \in 1 .. Len(t), InFrame(t, k, j)
      PROVE  t[j].id = t[k].id /\ t[j].len = t[k].len /\ t[j].at = j - k + t[k].at
  <2>1. PICK p \in 1 .. Len(s) : p = n + 1 + k /\ t[k] = s[p]
    BY CutCell
  <2>2. PICK q \in 1 .. Len(s) : q = n + 1 + j /\ t[j] = s[q]
    BY CutCell
  <2>3. PICK at \in Nat, len \in Nat : at = s[p].at /\ len = s[p].len
    BY StreamCell, Zenon
  <2>4. k - at <= j /\ j <= k - at + len
    BY <1>3, <2>1, <2>3, Zenon DEF InFrame
  <2>5. n \in Nat /\ p = n + 1 + k /\ q = n + 1 + j
    BY <1>1, <2>1, <2>2, Zenon
  <2>6. p - at <= q /\ q <= p - at + len /\ q - p = j - k
    BY <2>4, <2>5
  <2>7. p - s[p].at <= q /\ q <= p - s[p].at + s[p].len
    BY <2>3, <2>6, Zenon
  <2>8. s[q].id = s[p].id /\ s[q].len = s[p].len /\ s[q].at = q - p + s[p].at
    BY <2>7, FrameAgrees, Zenon
  <2> QED
    BY <2>1, <2>2, <2>6, <2>8, Zenon
<1> QED
  BY <1>2, <1>3, CutDomains, Zenon DEF Framed

LEMMA CutRising ==
  ASSUME NEW s, NEW t, NEW n, Stream(s), Cut(s, t, n)
  PROVE  Stream(t) /\ (AtEnd(s) => AtEnd(t))
<1>1. Len(t) \in Nat /\ n \in Nat /\ Len(s) = n + 1 + Len(t)
  BY CutCells, Zenon
<1>2. DOMAIN s = 1 .. Len(s) /\ DOMAIN t = 1 .. Len(t) /\ t \in Seq(Cells) /\ s # << >>
  BY CutDomains, Zenon DEF Cut, HasFrame
<1>3. ASSUME NEW k \in 1 .. Len(t), NEW j \in 1 .. Len(t), k < j, t[j].at = 0 PROVE t[k].id < t[j].id
  <2>1. PICK p \in 1 .. Len(s) : p = n + 1 + k /\ t[k] = s[p]
    BY CutCell
  <2>2. PICK q \in 1 .. Len(s) : q = n + 1 + j /\ t[j] = s[q]
    BY CutCell
  <2>3. p < q
    BY <1>1, <1>3, <2>1, <2>2
  <2> QED
    BY <1>2, <1>3, <2>1, <2>2, <2>3, Zenon DEF Stream, Rising
<1>4. ASSUME AtEnd(s), t # << >> PROVE t[Len(t)].at = t[Len(t)].len
  <2>1. Len(t) \in 1 .. Len(t)
    BY <1>2, <1>4
  <2>2. t[Len(t)] = s[Len(s)]
    BY <1>1, <2>1, CutCell
  <2> QED
    BY <1>2, <1>4, <2>2, Zenon DEF AtEnd
<1> QED
  BY <1>2, <1>3, <1>4, CutFramed, Zenon DEF Stream, Rising, AtEnd

\* What is left has later numbers, and all the other frames.
LEMMA TakeFrame ==
  ASSUME NEW s, NEW t, NEW n, Stream(s), Cut(s, t, n)
  PROVE  /\ \A k \in DOMAIN t : s[1].id < t[k].id /\ \E i \in DOMAIN s : t[k] = s[i]
         /\ 1 \in Whole(s) /\ Frames(s) = Frames(t) \cup {FrameAt(s, 1)}
<1>1. /\ Len(s) \in Nat /\ Len(t) \in Nat /\ n \in Nat /\ Len(s) = n + 1 + Len(t)
      /\ n = s[1].len /\ s[1].at = 0 /\ 1 \in 1 .. Len(s)
  BY CutCells, Zenon
<1>2. DOMAIN s = 1 .. Len(s) /\ DOMAIN t = 1 .. Len(t)
  BY CutDomains, Zenon
<1>3. Stream(t)
  BY CutRising, Zenon
<1>4. ASSUME NEW k \in 1 .. Len(t) PROVE s[1].id < t[k].id /\ \E i \in DOMAIN s : t[k] = s[i]
  <2>1. PICK b \in 1 .. k : t[b].at = 0 /\ t[b].id = t[k].id
    BY <1>3, HeaderOf, Zenon
  <2>2. b \in 1 .. Len(t)
    BY <1>1, <2>1
  <2>3. PICK p \in 1 .. Len(s) : p = n + 1 + b /\ t[b] = s[p]
    BY <2>2, CutCell, Zenon
  <2>4. 1 < p
    BY <1>1, <2>2, <2>3
  <2>5. s[1].id < s[p].id
    BY <1>1, <1>2, <2>1, <2>3, <2>4, Zenon DEF Stream, Rising
  <2>6. \E i \in 1 .. Len(s) : t[k] = s[i]
    BY CutCell
  <2> QED
    BY <1>2, <2>1, <2>3, <2>5, <2>6, Zenon
<1>5. ASSUME NEW k \in 1 .. Len(t), NEW i \in 1 .. Len(s), i = n + 1 + k
      PROVE  /\ k \in Whole(t) <=> i \in Whole(s)
             /\ k \in Whole(t) => FrameAt(t, k) = FrameAt(s, i)
  <2>1. t[k] = s[i]
    BY <1>5, CutCell
  <2>2. PICK len \in Nat : len = t[k].len
    BY <1>3, StreamCell, Zenon
  <2>3. k + len <= Len(t) <=> i + len <= Len(s)
    <3>1. Len(t) \in Nat /\ n \in Nat /\ Len(s) = n + 1 + Len(t)
      BY <1>1, Zenon
    <3> QED
      BY <1>5, <3>1
  <2>4. k \in Whole(t) <=> i \in Whole(s)
    BY <1>2, <2>1, <2>2, <2>3, Zenon DEF Whole
  <2>5. ASSUME k \in Whole(t) PROVE FrameAt(t, k) = FrameAt(s, i)
    <3>1. FrameAt(t, k) = Frame(t[k].id, t[k].len)
      BY <1>3, <2>5, WholeFrame, Zenon DEF Stream
    <3>2. FrameAt(s, i) = Frame(s[i].id, s[i].len)
      BY <2>4, <2>5, WholeFrame, Zenon DEF Stream
    <3> QED
      BY <2>1, <3>1, <3>2, Zenon
  <2> QED
    BY <2>4, <2>5, Zenon
<1>6. ASSUME NEW i \in 1 .. Len(s), i # 1, s[i].at = 0 PROVE \E k \in 1 .. Len(t) : i = n + 1 + k
  <2>1. ASSUME i <= n + 1 PROVE FALSE
    <3>1. 1 - s[1].at <= i /\ i <= 1 - s[1].at + s[1].len
      BY <1>1, <2>1
    <3>2. s[i].at = i - 1 + s[1].at
      BY <1>1, <3>1, FrameAgrees, Zenon
    <3> QED
      BY <1>1, <1>6, <3>2
  <2>2. Len(s) \in Nat /\ Len(t) \in Nat /\ n \in Nat /\ Len(s) = n + 1 + Len(t)
    BY <1>1, Zenon
  <2>3. i - n - 1 \in 1 .. Len(t) /\ i = n + 1 + (i - n - 1)
    BY <2>1, <2>2
  <2> QED
    BY <2>3, Zenon
<1>7. 1 \in Whole(s)
  BY <1>1, <1>2 DEF Whole
<1>8. \A d : d \in Frames(s) <=> d \in Frames(t) \/ d = FrameAt(s, 1)
  <2>1. ASSUME NEW i \in Whole(s), i # 1 PROVE FrameAt(s, i) \in Frames(t)
    <3>1. i \in 1 .. Len(s) /\ s[i].at = 0
      BY <1>2, Zenon DEF Whole
    <3>2. PICK k \in 1 .. Len(t) : i = n + 1 + k
      BY <1>6, <2>1, <3>1, Zenon
    <3> QED
      BY <1>5, <2>1, <3>1, <3>2, Zenon DEF Frames
  <2>2. ASSUME NEW k \in Whole(t) PROVE FrameAt(t, k) \in Frames(s)
    <3>1. k \in 1 .. Len(t)
      BY <1>2, Zenon DEF Whole
    <3>2. n + 1 + k \in 1 .. Len(s)
      BY <3>1, CutCell, Zenon
    <3> QED
      BY <1>5, <2>2, <3>1, <3>2, Zenon DEF Frames
  <2> QED
    BY <1>7, <2>1, <2>2, Zenon DEF Frames
<1> QED
  BY <1>2, <1>4, <1>7, <1>8, Zenon

-----------------------------------------------------------------------------
(* Buffered writes.                                                        *)

LEMMA SplitAt ==
  ASSUME NEW p \in Seq(Cells), NEW m \in Nat, m <= Len(p)
  PROVE  /\ SubSeq(p, 1, m) \in Seq(Cells) /\ SubSeq(p, m + 1, Len(p)) \in Seq(Cells)
         /\ SubSeq(p, 1, m) \o SubSeq(p, m + 1, Len(p)) = p
<1>1. Len(p) \in Nat /\ 1 \in 1 .. Len(p) + 1 /\ m \in 1 - 1 .. Len(p) /\ Len(p) \in m .. Len(p)
  OBVIOUS
<1>2. SubSeq(p, 1, m) \o SubSeq(p, m + 1, Len(p)) = SubSeq(p, 1, Len(p))
  BY <1>1, ConcatAdjacentSubSeq, Zenon
<1>3. SubSeq(p, 1, Len(p)) = p
  BY SubSeqFull, Zenon
<1>4. SubSeq(p, 1, m) \in Seq(Cells)
  <2>1. \A i \in 1 .. m : p[i] \in Cells
    OBVIOUS
  <2> QED
    BY <2>1, SubSeqProperties
<1>5. SubSeq(p, m + 1, Len(p)) \in Seq(Cells)
  <2>1. \A i \in m + 1 .. Len(p) : p[i] \in Cells
    OBVIOUS
  <2>2. m + 1 \in Int /\ Len(p) \in Int
    OBVIOUS
  <2> QED
    BY <2>1, <2>2, SubSeqProperties, Zenon
<1> QED
  BY <1>2, <1>3, <1>4, <1>5, Zenon

\* The first n cells, and the others.
LEMMA Prefix ==
  ASSUME NEW p \in Seq(Cells), NEW n \in 0 .. Len(p)
  PROVE  /\ SubSeq(p, 1, n) \in Seq(Cells)
         /\ \E rest \in Seq(Cells) : p = SubSeq(p, 1, n) \o rest
<1>1. n \in Nat /\ n <= Len(p)
  OBVIOUS
<1> QED
  BY <1>1, SplitAt, Zenon

LEMMA Regroup ==
  ASSUME NEW a \in Seq(Cells), NEW b \in Seq(Cells), NEW c \in Seq(Cells)
  PROVE  (a \o b) \o c = a \o (b \o c) /\ a \o b \in Seq(Cells)
BY ConcatAssociative, Joined

\* What is written to a buffer b, as the outcome w: the cells that go out and
\* the ones that are kept.
Wrote(w, b, p) ==
  \E out \in Seq(Cells), kept \in Seq(Cells) :
    w = [flushed |-> out, kept |-> kept] /\ out \o kept = b \o p /\ Len(kept) <= BufSize

\* A write loses nothing, keeps the order and stays within the buffer.
LEMMA BufWriteKeeps ==
  ASSUME NEW b \in Seq(Cells), NEW p \in Seq(Cells), Len(b) <= BufSize
  PROVE  Wrote(BufWrite(b, p), b, p)
<1>1. PICK room \in Nat : room = BufSize - Len(b) /\ BufSize \in Nat /\ Len(b) \in Nat /\ Len(p) \in Nat
  <2>1. BufSize - Len(b) \in Nat /\ BufSize \in Nat /\ Len(b) \in Nat /\ Len(p) \in Nat
    BY ProxyAssumption
  <2> QED
    BY <2>1, Zenon
<1> DEFINE rest == SubSeq(p, room + 1, Len(p))
           w == BufWrite(b, p)
<1>2. PICK all \in Seq(Cells) : all = b \o p /\ Len(all) = Len(b) + Len(p) /\ << >> \o all = all /\ all \o << >> = all
  BY Joined, ConcatEmptySeq
<1>3. << >> \in Seq(Cells) /\ Len(<< >>) <= BufSize
  BY <1>1
<1>4. CASE Len(p) <= room
  <2>1. w = [flushed |-> << >>, kept |-> all]
    BY <1>1, <1>2, <1>4, Zenon DEF BufWrite
  <2>2. Len(b) + Len(p) <= BufSize
    BY <1>1, <1>4
  <2> QED
    BY <1>2, <1>3, <2>1, <2>2, Zenon DEF Wrote
<1>5. CASE ~(Len(p) <= room) /\ b = << >>
  <2>1. w = [flushed |-> p, kept |-> << >>]
    BY <1>1, <1>5, Zenon DEF BufWrite
  <2>2. p \o << >> = p /\ << >> \o p = p
    BY ConcatEmptySeq, Zenon
  <2> QED
    BY <1>3, <1>5, <2>1, <2>2, Zenon DEF Wrote
<1>6. CASE ~(Len(p) <= room) /\ b # << >> /\ Len(rest) <= BufSize
  <2>1. w = [flushed |-> b \o SubSeq(p, 1, room), kept |-> rest]
    BY <1>1, <1>6, Zenon DEF BufWrite
  <2>2. room <= Len(p)
    BY <1>1, <1>6
  <2>3. PICK x \in Seq(Cells), y \in Seq(Cells) : x = SubSeq(p, 1, room) /\ y = rest /\ x \o y = p
    <3>1. SubSeq(p, 1, room) \in Seq(Cells) /\ rest \in Seq(Cells) /\ SubSeq(p, 1, room) \o rest = p
      BY <2>2, SplitAt, Zenon
    <3> QED
      BY <3>1, Zenon
  <2>4. PICK z \in Seq(Cells) : z = b \o x /\ z \o y = b \o p
    <3>1. (b \o x) \o y = b \o (x \o y) /\ b \o x \in Seq(Cells)
      BY Regroup, Zenon
    <3> QED
      BY <2>3, <3>1, Zenon
  <2>5. w = [flushed |-> z, kept |-> y] /\ Len(y) <= BufSize
    BY <1>6, <2>1, <2>3, <2>4, Zenon
  <2> QED
    BY <2>4, <2>5, Zenon DEF Wrote
<1>7. CASE ~(Len(p) <= room) /\ b # << >> /\ ~(Len(rest) <= BufSize)
  <2>1. w = [flushed |-> all, kept |-> << >>]
    BY <1>1, <1>2, <1>7, Zenon DEF BufWrite
  <2> QED
    BY <1>2, <1>3, <2>1, Zenon DEF Wrote
<1> QED
  BY <1>4, <1>5, <1>6, <1>7, Zenon

LEMMA WriteFrameKeeps ==
  ASSUME NEW b \in Seq(Cells), NEW d \in Datagrams, Len(b) <= BufSize
  PROVE  Wrote(WriteFrame(b, d), b, d)
<1>1. d \in Seq(Cells) /\ d # << >>
  BY DatagramIsFrame, Zenon
<1>2. Len(d) \in Nat /\ 1 <= Len(d) /\ Tail(d) = SubSeq(d, 1 + 1, Len(d))
  BY <1>1
<1>3. PICK p, q : p \in Seq(Cells) /\ q \in Seq(Cells) /\ p = SubSeq(d, 1, 1) /\ q = Tail(d) /\ p \o q = d
  BY <1>1, <1>2, SplitAt, Zenon
<1>4. PICK hf, hk : /\ hf \in Seq(Cells) /\ hk \in Seq(Cells) /\ Len(hk) <= BufSize
                    /\ BufWrite(b, p) = [flushed |-> hf, kept |-> hk] /\ hf \o hk = b \o p
  <2>1. p \in Seq(Cells)
    BY <1>3, Zenon
  <2>2. Wrote(BufWrite(b, p), b, p)
    BY <2>1, BufWriteKeeps, Zenon
  <2> QED
    BY <2>2, Zenon DEF Wrote
<1>5. PICK rf, rk : /\ rf \in Seq(Cells) /\ rk \in Seq(Cells) /\ Len(rk) <= BufSize
                    /\ BufWrite(hk, q) = [flushed |-> rf, kept |-> rk] /\ rf \o rk = hk \o q
  <2>1. hk \in Seq(Cells) /\ Len(hk) <= BufSize /\ q \in Seq(Cells)
    BY <1>3, <1>4, Zenon
  <2>2. Wrote(BufWrite(hk, q), hk, q)
    BY <2>1, BufWriteKeeps, Zenon
  <2> QED
    BY <2>2, Zenon DEF Wrote
<1>6. WriteFrame(b, d) = [flushed |-> hf \o rf, kept |-> rk]
  <2>1. [flushed |-> hf, kept |-> hk].kept = hk /\ [flushed |-> hf, kept |-> hk].flushed = hf
    OBVIOUS
  <2>2. [flushed |-> rf, kept |-> rk].kept = rk /\ [flushed |-> rf, kept |-> rk].flushed = rf
    OBVIOUS
  <2> QED
    BY <1>3, <1>4, <1>5, <2>1, <2>2, Zenon DEF WriteFrame
<1>7. (hf \o rf) \o rk = hf \o (rf \o rk) /\ hf \o rf \in Seq(Cells)
  <2>1. hf \in Seq(Cells) /\ rf \in Seq(Cells) /\ rk \in Seq(Cells)
    BY <1>4, <1>5, Zenon
  <2> QED
    BY <2>1, Regroup, SMTT(20)
<1>8. (hf \o hk) \o q = hf \o (hk \o q)
  <2>1. hf \in Seq(Cells) /\ hk \in Seq(Cells) /\ q \in Seq(Cells)
    BY <1>3, <1>4, Zenon
  <2> QED
    BY <2>1, Regroup, SMTT(20)
<1>9. (b \o p) \o q = b \o (p \o q)
  <2>1. p \in Seq(Cells) /\ q \in Seq(Cells)
    BY <1>3, Zenon
  <2> QED
    BY <2>1, Regroup, Zenon
<1>10. (hf \o rf) \o rk = b \o d
  BY <1>3, <1>4, <1>5, <1>7, <1>8, <1>9, Zenon
<1> QED
  BY <1>5, <1>6, <1>7, <1>10, Zenon DEF Wrote

-----------------------------------------------------------------------------
(* Parts of a stream.                                                      *)

LEMMA FramesOfParts ==
  ASSUME NEW a \in Seq(Cells), NEW b \in Seq(Cells)
  PROVE  Frames(a) \subseteq Frames(a \o b) /\ Frames(b) \subseteq Frames(a \o b)
<1> DEFINE s == a \o b
<1>1. /\ s \in Seq(Cells) /\ Len(s) = Len(a) + Len(b)
      /\ \A i \in 1 .. Len(a) : s[i] = a[i]
      /\ \A i \in 1 .. Len(b) : s[Len(a) + i] = b[i]
  BY Joined
<1> HIDE DEF s
<1>2. DOMAIN a = 1 .. Len(a) /\ DOMAIN b = 1 .. Len(b) /\ DOMAIN s = 1 .. Len(s) /\ Len(a) \in Nat /\ Len(b) \in Nat
  BY <1>1, StreamFields, Zenon
<1>3. ASSUME NEW i \in Whole(a) PROVE FrameAt(a, i) \in Frames(s)
  <2>1. i \in 1 .. Len(a) /\ a[i].at = 0
    BY <1>2, <1>3, Zenon DEF Whole
  <2>2. PICK len \in Nat : len = a[i].len /\ i + len <= Len(a)
    BY <1>2, <1>3, StreamFields, Zenon DEF Whole
  <2>3. s[i] = a[i]
    BY <1>1, <2>1, Zenon
  <2>4. i \in 1 .. Len(s) /\ i + len <= Len(s)
    <3>1. Len(s) = Len(a) + Len(b) /\ Len(a) \in Nat /\ Len(b) \in Nat /\ i + len <= Len(a)
      BY <1>1, <1>2, <2>2, Zenon
    <3> QED
      BY <2>1, <3>1
  <2>5. i \in Whole(s)
    BY <1>2, <2>1, <2>2, <2>3, <2>4, Zenon DEF Whole
  <2>6. \A k \in 1 .. len + 1 : i + k - 1 \in 1 .. Len(a)
    <3>1. i + len <= Len(a)
      BY <2>2, Zenon
    <3> QED
      BY <1>2, <2>1, <3>1
  <2>7. FrameAt(s, i) = [k \in 1 .. len + 1 |-> s[i + k - 1]]
    BY <2>2, <2>3, Zenon DEF FrameAt
  <2>8. FrameAt(a, i) = [k \in 1 .. len + 1 |-> a[i + k - 1]]
    BY <2>2, Zenon DEF FrameAt
  <2>9. \A k \in 1 .. len + 1 : s[i + k - 1] = a[i + k - 1]
    BY <1>1, <2>6, Zenon
  <2>10. FrameAt(s, i) = FrameAt(a, i)
    BY <2>7, <2>8, <2>9, Zenon
  <2> QED
    BY <2>5, <2>10, Zenon DEF Frames
<1>4. ASSUME NEW i \in Whole(b) PROVE FrameAt(b, i) \in Frames(s)
  <2>1. i \in 1 .. Len(b) /\ b[i].at = 0
    BY <1>2, <1>4, Zenon DEF Whole
  <2>2. PICK len \in Nat : len = b[i].len /\ i + len <= Len(b)
    BY <1>2, <1>4, StreamFields, Zenon DEF Whole
  <2>3. PICK j \in Nat : j = Len(a) + i
    BY <1>2, <2>1
  <2>4. s[j] = b[i]
    BY <1>1, <2>1, <2>3, Zenon
  <2>5. /\ j \in 1 .. Len(s) /\ j + len <= Len(s)
        /\ \A k \in 1 .. len + 1 : i + k - 1 \in 1 .. Len(b) /\ j + k - 1 = Len(a) + (i + k - 1)
    <3>1. Len(s) = Len(a) + Len(b) /\ Len(a) \in Nat /\ Len(b) \in Nat /\ i + len <= Len(b)
      BY <1>1, <1>2, <2>2, Zenon
    <3> QED
      BY <2>1, <2>3, <3>1
  <2>6. j \in Whole(s)
    BY <1>2, <2>1, <2>2, <2>4, <2>5, Zenon DEF Whole
  <2>7. FrameAt(s, j) = [k \in 1 .. len + 1 |-> s[j + k - 1]]
    BY <2>2, <2>4, Zenon DEF FrameAt
  <2>8. FrameAt(b, i) = [k \in 1 .. len + 1 |-> b[i + k - 1]]
    BY <2>2, Zenon DEF FrameAt
  <2>9. \A k \in 1 .. len + 1 : s[j + k - 1] = b[i + k - 1]
    BY <1>1, <2>5, Zenon
  <2>10. FrameAt(s, j) = FrameAt(b, i)
    BY <2>7, <2>8, <2>9, Zenon
  <2> QED
    BY <2>6, <2>10, Zenon DEF Frames
<1>5. ASSUME NEW d \in Frames(a) PROVE d \in Frames(s)
  BY <1>3, <1>5, Zenon DEF Frames
<1>6. ASSUME NEW d \in Frames(b) PROVE d \in Frames(s)
  BY <1>4, <1>6, Zenon DEF Frames
<1> QED
  BY <1>5, <1>6, Zenon DEF s

LEMMA FirstPart ==
  ASSUME NEW a \in Seq(Cells), NEW b \in Seq(Cells), Stream(a \o b)
  PROVE  Stream(a) /\ \A i \in DOMAIN a : i \in DOMAIN (a \o b) /\ (a \o b)[i] = a[i]
<1> DEFINE s == a \o b
<1>1. /\ s \in Seq(Cells) /\ Len(s) = Len(a) + Len(b)
      /\ \A i \in 1 .. Len(a) : s[i] = a[i]
  BY Joined
<1>2. Stream(s)
  OBVIOUS
<1> HIDE DEF s
<1>3. DOMAIN a = 1 .. Len(a) /\ DOMAIN s = 1 .. Len(s) /\ Len(a) \in Nat /\ Len(b) \in Nat
  BY <1>1, StreamFields, Zenon
<1>4. \A i \in DOMAIN a : i \in DOMAIN s /\ s[i] = a[i]
  BY <1>1, <1>3
<1>5. Framed(a)
  <2>1. ASSUME NEW i \in DOMAIN a PROVE a[i].at < i
    BY <1>2, <1>4, Zenon DEF Stream, Framed
  <2>2. ASSUME NEW i \in DOMAIN a, NEW j \in DOMAIN a, InFrame(a, i, j)
        PROVE  a[j].id = a[i].id /\ a[j].len = a[i].len /\ a[j].at = j - i + a[i].at
    <3>1. InFrame(s, i, j) /\ s[i] = a[i] /\ s[j] = a[j] /\ i \in DOMAIN s /\ j \in DOMAIN s
      BY <1>4, <2>2, Zenon DEF InFrame
    <3>2. s[j].id = s[i].id /\ s[j].len = s[i].len /\ s[j].at = j - i + s[i].at
      BY <1>2, <3>1, Zenon DEF Stream, Framed
    <3> QED
      BY <3>1, <3>2, Zenon
  <2> QED
    BY <2>1, <2>2, Zenon DEF Framed
<1>6. Rising(a)
  BY <1>2, <1>4, Zenon DEF Stream, Rising
<1> QED
  BY <1>4, <1>5, <1>6, Zenon DEF Stream, s

LEMMA NoCells ==
  /\ Stream(<< >>) /\ Frames(<< >>) = {} /\ AtEnd(<< >>) /\ << >> \o << >> = << >>
  /\ DOMAIN << >> = {}
BY DEF Stream, Framed, Rising, Frames, Whole, AtEnd

\* The number of a frame is the number of one of the cells.
LEMMA FrameNumber ==
  ASSUME NEW s \in Seq(Cells), NEW d \in Frames(s)
  PROVE  \E i \in DOMAIN s : d[1] = s[i]
<1>1. PICK i \in Whole(s) : d = FrameAt(s, i)
  BY Zenon DEF Frames
<1>2. i \in DOMAIN s /\ s[i].len \in Nat /\ DOMAIN s = 1 .. Len(s)
  BY StreamFields, Zenon DEF Whole
<1>3. PICK len \in Nat : len = s[i].len
  BY <1>2, Zenon
<1>4. i \in Int /\ i + 1 - 1 = i /\ 1 \in 1 .. len + 1
  BY <1>2, <1>3
<1>5. d[1] = s[i + 1 - 1]
  BY <1>1, <1>3, <1>4, Zenon DEF FrameAt
<1> QED
  BY <1>2, <1>4, <1>5, Zenon

\* A frame is read from the first part.
LEMMA HeadFrame ==
  ASSUME NEW a \in Seq(Cells), NEW b \in Seq(Cells), Stream(a \o b), HasFrame(a)
  PROVE  /\ AfterFrame(a) \in Seq(Cells)
         /\ Cut(a \o b, AfterFrame(a) \o b, a[1].len)
         /\ FrameAt(a, 1) = FrameAt(a \o b, 1)
         /\ 1 \in DOMAIN (a \o b) /\ (a \o b)[1] = a[1] /\ a[1].len \in Lengths
<1>1. Len(a) \in Nat /\ Len(b) \in Nat /\ 1 \in 1 .. Len(a) /\ a[1].len \in Nat /\ a[1].len < Len(a)
      /\ a[1].len \in Lengths
  BY StreamFields, CellFields DEF HasFrame
<1>2. PICK n \in Nat : n = a[1].len
  BY <1>1, Zenon
<1>3. n < Len(a)
  BY <1>1, <1>2, Zenon
<1>4. PICK rest : /\ rest = AfterFrame(a) /\ rest \in Seq(Cells) /\ Len(rest) = Len(a) - n - 1
                  /\ \A k \in 1 .. Len(rest) : rest[k] = a[n + 1 + k]
  <2>1. AfterFrame(a) = SubSeq(a, n + 2, Len(a))
    BY <1>2, Zenon DEF AfterFrame
  <2>2. \A i \in n + 2 .. Len(a) : a[i] \in Cells
    OBVIOUS
  <2>3. n + 2 \in Int /\ Len(a) \in Int
    OBVIOUS
  <2>4. /\ SubSeq(a, n + 2, Len(a)) \in Seq(Cells)
        /\ Len(SubSeq(a, n + 2, Len(a))) = IF n + 2 <= Len(a) THEN Len(a) - (n + 2) + 1 ELSE 0
        /\ \A k \in 1 .. Len(a) - (n + 2) + 1 : SubSeq(a, n + 2, Len(a))[k] = a[n + 2 + k - 1]
    BY <2>2, <2>3, SubSeqProperties
  <2>5. PICK rest : rest = SubSeq(a, n + 2, Len(a))
    BY Zenon
  <2>6. Len(rest) = IF n + 2 <= Len(a) THEN Len(a) - (n + 2) + 1 ELSE 0
    BY <2>4, <2>5, Zenon
  <2>7. Len(a) \in Nat
    OBVIOUS
  <2>8. Len(rest) = Len(a) - n - 1 /\ Len(a) - (n + 2) + 1 = Len(a) - n - 1
    BY <1>3, <2>6, <2>7
  <2>9. \A k \in 1 .. Len(rest) : n + 2 + k - 1 = n + 1 + k
    OBVIOUS
  <2>10. \A k \in 1 .. Len(rest) : rest[k] = a[n + 1 + k]
    BY <2>4, <2>5, <2>8, <2>9, Zenon
  <2>11. rest = AfterFrame(a) /\ rest \in Seq(Cells)
    BY <2>1, <2>4, <2>5, Zenon
  <2> QED
    BY <2>8, <2>10, <2>11, Zenon
<1>5. PICK s : /\ s = a \o b /\ s \in Seq(Cells) /\ Len(s) = Len(a) + Len(b)
               /\ \A i \in 1 .. Len(a) : s[i] = a[i]
               /\ \A i \in 1 .. Len(b) : s[Len(a) + i] = b[i]
  <2>1. /\ a \o b \in Seq(Cells) /\ Len(a \o b) = Len(a) + Len(b)
        /\ \A i \in 1 .. Len(a) : (a \o b)[i] = a[i]
        /\ \A i \in 1 .. Len(b) : (a \o b)[Len(a) + i] = b[i]
    BY Joined
  <2> QED
    BY <2>1, Zenon
<1>6. PICK t : /\ t = rest \o b /\ t \in Seq(Cells) /\ Len(t) = Len(rest) + Len(b)
               /\ \A i \in 1 .. Len(rest) : t[i] = rest[i]
               /\ \A i \in 1 .. Len(b) : t[Len(rest) + i] = b[i]
  <2>1. rest \in Seq(Cells)
    BY <1>4, Zenon
  <2>2. /\ rest \o b \in Seq(Cells) /\ Len(rest \o b) = Len(rest) + Len(b)
        /\ \A i \in 1 .. Len(rest) : (rest \o b)[i] = rest[i]
        /\ \A i \in 1 .. Len(b) : (rest \o b)[Len(rest) + i] = b[i]
    BY <2>1, Joined
  <2> QED
    BY <2>2, Zenon
<1>7. s[1] = a[1]
  BY <1>1, <1>5, Zenon
<1>8. PICK la \in Nat, lb \in Nat, lr \in Nat : /\ la = Len(a) /\ lb = Len(b) /\ lr = Len(rest) /\ lr = la - n - 1
                                                /\ Len(s) = la + lb /\ Len(t) = lr + lb
  <2>1. Len(rest) \in Nat
    BY <1>4
  <2> QED
    BY <1>1, <1>4, <1>5, <1>6, <2>1, Zenon
<1>9. lr = la - n - 1 /\ Len(s) = la + lb /\ Len(t) = lr + lb
  BY <1>8, Zenon
<1>10. Len(s) = n + 1 + Len(t) /\ Len(s) > n /\ 1 \in 1 .. Len(s)
  BY <1>9
<1>11. ASSUME NEW k \in 1 .. Len(t) PROVE t[k] = s[n + 1 + k]
  <2>1. CASE k \in 1 .. lr
    <3>1. n + 1 + k \in 1 .. la
      BY <1>9, <2>1
    <3> QED
      BY <1>4, <1>5, <1>6, <1>8, <2>1, <3>1, Zenon
  <2>2. CASE k \notin 1 .. lr
    <3>1. PICK i \in 1 .. lb : k = lr + i /\ n + 1 + k = la + i
      <4>1. k - lr \in 1 .. lb /\ k = lr + (k - lr) /\ n + 1 + k = la + (k - lr)
        BY <1>9, <2>2
      <4> QED
        BY <4>1, Zenon
    <3>2. t[lr + i] = b[i] /\ s[la + i] = b[i]
      BY <1>5, <1>6, <1>8, Zenon
    <3> QED
      BY <3>1, <3>2, Zenon
  <2> QED
    BY <2>1, <2>2, Zenon
<1>12. HasFrame(s)
  <2>1. s # << >>
    BY <1>10
  <2>2. Len(s) > s[1].len
    BY <1>2, <1>7, <1>10, Zenon
  <2> QED
    BY <2>1, <2>2, Zenon DEF HasFrame
<1>13. Cut(s, t, n)
  BY <1>2, <1>6, <1>7, <1>10, <1>11, <1>12, Zenon DEF Cut
<1>14. FrameAt(a, 1) = FrameAt(s, 1)
  <2>1. FrameAt(a, 1) = [k \in 1 .. n + 1 |-> a[1 + k - 1]]
    BY <1>2, Zenon DEF FrameAt
  <2>2. FrameAt(s, 1) = [k \in 1 .. n + 1 |-> s[1 + k - 1]]
    BY <1>2, <1>7, Zenon DEF FrameAt
  <2>3. \A k \in 1 .. n + 1 : 1 + k - 1 \in 1 .. Len(a)
    BY <1>3
  <2>4. \A k \in 1 .. n + 1 : s[1 + k - 1] = a[1 + k - 1]
    BY <1>5, <2>3, Zenon
  <2> QED
    BY <2>1, <2>2, <2>4, Zenon
<1>15. 1 \in DOMAIN s
  BY <1>5, <1>10
<1> QED
  BY <1>1, <1>2, <1>4, <1>5, <1>6, <1>7, <1>13, <1>14, <1>15, Zenon

\* ... so the pipe delivers its oldest datagram.
LEMMA Taken ==
  ASSUME NEW a \in Seq(Cells), NEW b \in Seq(Cells), Stream(a \o b), HasFrame(a)
  PROVE  /\ AfterFrame(a) \in Seq(Cells) /\ a[1].len \in Lengths
         /\ Stream(AfterFrame(a) \o b) /\ (AtEnd(a \o b) => AtEnd(AfterFrame(a) \o b))
         /\ FrameAt(a, 1) \in Datagrams
         /\ Frames(a \o b) = Frames(AfterFrame(a) \o b) \cup {FrameAt(a, 1)}
         /\ \E i \in DOMAIN (a \o b) : FrameAt(a, 1)[1] = (a \o b)[i]
         /\ \A k \in DOMAIN (AfterFrame(a) \o b) :
              /\ FrameAt(a, 1)[1].id < (AfterFrame(a) \o b)[k].id
              /\ \E i \in DOMAIN (a \o b) : (AfterFrame(a) \o b)[k] = (a \o b)[i]
<1>1. PICK s, t, n : s = a \o b /\ t = AfterFrame(a) \o b /\ n = a[1].len
  BY Zenon
<1>2. Stream(s) /\ Cut(s, t, n) /\ FrameAt(a, 1) = FrameAt(s, 1) /\ AfterFrame(a) \in Seq(Cells) /\ n \in Lengths
  BY <1>1, HeadFrame, Zenon
<1>3. Stream(t) /\ (AtEnd(s) => AtEnd(t))
  BY <1>2, CutRising, Zenon
<1>4. /\ \A k \in DOMAIN t : s[1].id < t[k].id /\ \E i \in DOMAIN s : t[k] = s[i]
      /\ 1 \in Whole(s) /\ Frames(s) = Frames(t) \cup {FrameAt(s, 1)}
  BY <1>2, TakeFrame, Zenon
<1>5. FrameAt(s, 1) \in Datagrams
  BY <1>2, <1>4, WholeFrame, Zenon DEF Stream
<1>6. FrameAt(s, 1)[1] = s[1] /\ 1 \in DOMAIN s
  <2>1. n \in Nat /\ n = s[1].len
    BY <1>2, CutCells, Zenon
  <2>2. 1 \in DOMAIN s
    BY <1>4, Zenon DEF Whole
  <2>3. n \in Nat
    BY <2>1, Zenon
  <2>4. 1 \in 1 .. n + 1 /\ 1 + 1 - 1 = 1
    BY <2>3
  <2> QED
    BY <2>1, <2>2, <2>4, Zenon DEF FrameAt
<1> QED
  BY <1>1, <1>2, <1>3, <1>4, <1>5, <1>6, Zenon

-----------------------------------------------------------------------------
(* The inductive invariant.                                                *)

\* Every number in s is below the number of the datagram d, if there is one.
Below(s, d) == d # << >> => \A i \in DOMAIN s : s[i].id < d[1].id
Above(s, d) == d # << >> => \A i \in DOMAIN s : d[1].id < s[i].id
UpTo(s, n) == \A i \in DOMAIN s : s[i].id <= n

\* Towards the network: frames in order, all later than the one send holds.
UpInv ==
  /\ send = "write" => sending # << >>
  /\ sending # << >> => sending[1].id <= ups
  /\ Stream(toServer \o writer)
  /\ UpTo(toServer \o writer, ups)
  /\ Above(toServer \o writer, sending)
  /\ clientOpen => AtEnd(toServer \o writer)

Waiting == IF inbox = << >> THEN << >> ELSE inbox[1]

\* Towards the crawler: frames in order, then the one receive holds and the
\* one that waits.  Once it has closed, the last frame may be cut.
DownInv ==
  /\ receive = "write" => receiving # << >>
  /\ Len(inbox) <= 1
  /\ Waiting # << >> => Waiting[1].id <= MaxUp + downs
  /\ receiving # << >> => /\ receiving[1].id <= MaxUp + downs
                          /\ Waiting # << >> => receiving[1].id < Waiting[1].id
  /\ Stream(toClient \o buffered)
  /\ UpTo(toClient \o buffered, MaxUp + downs)
  /\ Below(toClient \o buffered, receiving)
  /\ Below(toClient \o buffered, Waiting)
  /\ clientOpen => AtEnd(toClient \o buffered)

Inv == TypeOK /\ UpInv /\ DownInv

LEMMA JoinCells ==
  ASSUME NEW s \in Seq(Cells), NEW id \in 1 .. MaxUp + MaxDown, NEW n \in Lengths,
         NEW k \in DOMAIN (s \o Frame(id, n))
  PROVE  (k \in DOMAIN s /\ (s \o Frame(id, n))[k] = s[k]) \/ (s \o Frame(id, n))[k].id = id
<1>1. PICK f : /\ f = Frame(id, n) /\ f \in Seq(Cells) /\ Len(f) = n + 1
               /\ \A i \in 1 .. n + 1 : f[i].id = id
  <2>1. Frame(id, n) \in Seq(Cells) /\ Len(Frame(id, n)) = n + 1 /\ \A i \in 1 .. n + 1 : Frame(id, n)[i].id = id
    BY FrameCells
  <2> QED
    BY <2>1, Zenon
<1>2. PICK t : t = s \o f
  BY Zenon
<1>3. /\ t \in Seq(Cells) /\ Len(t) = Len(s) + Len(f)
      /\ \A i \in 1 .. Len(s) : t[i] = s[i]
      /\ \A i \in 1 .. Len(f) : t[Len(s) + i] = f[i]
  BY <1>1, <1>2, Joined
<1>4. DOMAIN t = 1 .. Len(t) /\ DOMAIN s = 1 .. Len(s) /\ Len(s) \in Nat /\ n \in Nat
  BY <1>3, FrameCells
<1>5. PICK ls \in Nat, m \in Nat : ls = Len(s) /\ m = n /\ Len(t) = ls + m + 1 /\ k \in 1 .. Len(t)
  <2>1. Len(s) + Len(f) = Len(s) + n + 1
    <3>1. Len(f) = n + 1 /\ Len(s) \in Nat /\ n \in Nat
      BY <1>1, <1>4, Zenon
    <3> QED
      BY <3>1
  <2> QED
    BY <1>1, <1>2, <1>3, <1>4, <2>1, Zenon
<1>6. CASE k \in 1 .. ls
  BY <1>1, <1>2, <1>3, <1>4, <1>5, <1>6, Zenon
<1>7. CASE k \notin 1 .. ls
  <2>1. Len(t) = ls + m + 1 /\ k \in 1 .. Len(t)
    BY <1>5, Zenon
  <2>2. k - ls \in 1 .. m + 1 /\ k = ls + (k - ls)
    BY <1>7, <2>1
  <2>3. t[k] = f[k - ls] /\ f[k - ls].id = id
    BY <1>1, <1>3, <1>5, <2>2, Zenon
  <2> QED
    BY <1>1, <1>2, <2>3, Zenon
<1> QED
  BY <1>6, <1>7, Zenon

\* The frame of a datagram d, later than all of s, is written at the end.
LEMMA Added ==
  ASSUME NEW s, Stream(s), AtEnd(s), NEW d \in Datagrams, Below(s, d)
  PROVE  /\ Stream(s \o d) /\ AtEnd(s \o d) /\ Frames(s \o d) = Frames(s) \cup {d}
         /\ \A k \in DOMAIN (s \o d) : (k \in DOMAIN s /\ (s \o d)[k] = s[k]) \/ (s \o d)[k].id = d[1].id
<1>1. PICK id \in 1 .. MaxUp + MaxDown, n \in Lengths : d = Frame(id, n) /\ id = d[1].id
  BY DatagramIsFrame, Zenon
<1>2. s \in Seq(Cells) /\ Framed(s) /\ Rising(s)
  BY Zenon DEF Stream
<1>3. \A i \in DOMAIN s : s[i].id < id
  BY <1>1, DatagramIsFrame, Zenon DEF Below
<1>4. /\ s \o Frame(id, n) \in Seq(Cells) /\ Framed(s \o Frame(id, n)) /\ Rising(s \o Frame(id, n))
      /\ AtEnd(s \o Frame(id, n)) /\ Frames(s \o Frame(id, n)) = Frames(s) \cup {Frame(id, n)}
  BY <1>2, <1>3, JoinFrame, Zenon
<1>5. \A k \in DOMAIN (s \o Frame(id, n)) :
        (k \in DOMAIN s /\ (s \o Frame(id, n))[k] = s[k]) \/ (s \o Frame(id, n))[k].id = id
  BY <1>2, JoinCells, Zenon
<1> QED
  BY <1>1, <1>4, <1>5, Zenon DEF Stream

-----------------------------------------------------------------------------
(* Types.                                                                  *)

\* The stream a frame is written to, and what it becomes.
LEMMA WriteTypes ==
  ASSUME NEW a \in Seq(Cells), NEW b \in Seq(Cells), Len(b) <= BufSize, NEW d \in Datagrams
  PROVE  LET w == WriteFrame(b, d)
         IN  /\ w.kept \in Seq(Cells) /\ Len(w.kept) <= BufSize /\ a \o w.flushed \in Seq(Cells)
             /\ (a \o w.flushed) \o w.kept = (a \o b) \o d
<1>1. PICK f, k : /\ f \in Seq(Cells) /\ k \in Seq(Cells)
                  /\ WriteFrame(b, d) = [flushed |-> f, kept |-> k] /\ f \o k = b \o d /\ Len(k) <= BufSize
  <2>1. Wrote(WriteFrame(b, d), b, d)
    BY WriteFrameKeeps, Zenon
  <2> QED
    BY <2>1, Zenon DEF Wrote
<1>2. [flushed |-> f, kept |-> k].kept = k /\ [flushed |-> f, kept |-> k].flushed = f
  OBVIOUS
<1>3. (a \o f) \o k = a \o (f \o k) /\ a \o f \in Seq(Cells)
  <2>1. f \in Seq(Cells) /\ k \in Seq(Cells)
    BY <1>1, Zenon
  <2> QED
    BY <2>1, Regroup, SMTT(20)
<1>4. (a \o b) \o d = a \o (b \o d)
  <2>1. d \in Seq(Cells)
    BY DatagramIsFrame, Zenon
  <2> QED
    BY <2>1, Regroup, SMTT(20)
<1>5. (a \o f) \o k = (a \o b) \o d
  BY <1>1, <1>3, <1>4, Zenon
<1> QED
  BY <1>1, <1>2, <1>3, <1>5, Zenon

LinkTypes ==
  /\ run \in RunStates /\ greeted \in 0 .. 2
  /\ clientOpen \in BOOLEAN /\ serverOpen \in BOOLEAN /\ cancelled \in BOOLEAN
  /\ localConn \in {"open", "closed", "nil"}

SendTypes ==
  /\ writer \in Seq(Cells) /\ Len(writer) <= BufSize
  /\ toServer \in Seq(Cells)
  /\ send \in {"none", "read", "write", "done"}
  /\ sending \in Datagrams \cup {<< >>}
  /\ pipeLen \in Nat \ {0}
  /\ toNetwork \in Seq(Datagrams)

ReceiveTypes ==
  /\ inbox \in Seq(Datagrams)
  /\ receive \in {"none", "loop", "read", "write", "done"}
  /\ receiving \in Datagrams \cup {<< >>}
  /\ readLen \in Nat
  /\ buffered \in Seq(Cells) /\ Len(buffered) <= BufSize
  /\ toClient \in Seq(Cells)
  /\ toCrawler \in Seq(Datagrams)

BoundTypes == ups \in 0 .. MaxUp /\ downs \in 0 .. MaxDown

LEMMA TypeParts == TypeOK <=> LinkTypes /\ SendTypes /\ ReceiveTypes /\ BoundTypes
BY Zenon DEF TypeOK, LinkTypes, SendTypes, ReceiveTypes, BoundTypes

LEMMA TypePartsNext == TypeOK' <=> LinkTypes' /\ SendTypes' /\ ReceiveTypes' /\ BoundTypes'
BY Zenon DEF TypeOK, LinkTypes, SendTypes, ReceiveTypes, BoundTypes

LEMMA Unchanged ==
  /\ LinkTypes /\ UNCHANGED link => LinkTypes'
  /\ SendTypes /\ UNCHANGED sendSide => SendTypes'
  /\ ReceiveTypes /\ UNCHANGED receiveSide => ReceiveTypes'
  /\ BoundTypes /\ UNCHANGED bounds => BoundTypes'
<1>1. LinkTypes /\ UNCHANGED link => LinkTypes'
  BY Zenon DEF LinkTypes, link
<1>2. SendTypes /\ UNCHANGED sendSide => SendTypes'
  BY Zenon DEF SendTypes, sendSide
<1>3. ReceiveTypes /\ UNCHANGED receiveSide => ReceiveTypes'
  BY Zenon DEF ReceiveTypes, receiveSide
<1>4. BoundTypes /\ UNCHANGED bounds => BoundTypes'
  BY Zenon DEF BoundTypes, bounds
<1> QED
  BY <1>1, <1>2, <1>3, <1>4, Zenon

LEMMA NoCellsType == << >> \in Seq(Cells) /\ Len(<< >>) <= BufSize /\ << >> \in Seq(Datagrams)
BY ProxyAssumption

LEMMA TypeInit == Init => TypeOK
<1> SUFFICES ASSUME Init PROVE TypeOK
  OBVIOUS
<1>1. LinkTypes
  <2>1. 0 \in 0 .. 2
    BY SMTT(20)
  <2> QED
    BY <2>1, Zenon DEF Init, LinkTypes, RunStates
<1>2. SendTypes
  BY ProxyAssumption, NoCellsType, Zenon DEF Init, SendTypes
<1>3. ReceiveTypes
  BY ProxyAssumption, NoCellsType DEF Init, ReceiveTypes
<1>4. BoundTypes
  BY ProxyAssumption DEF Init, BoundTypes
<1> QED
  BY <1>1, <1>2, <1>3, <1>4, TypeParts, Zenon

LEMMA NewFrame ==
  ASSUME BoundTypes
  PROVE  /\ ups < MaxUp => ups + 1 \in 1 .. MaxUp + MaxDown /\ ups + 1 \in 0 .. MaxUp
         /\ downs < MaxDown => MaxUp + downs + 1 \in 1 .. MaxUp + MaxDown /\ downs + 1 \in 0 .. MaxDown
BY ProxyAssumption DEF BoundTypes

LEMMA TypeStep == Inv /\ [Next]_vars => TypeOK'
<1> SUFFICES ASSUME Inv, [Next]_vars PROVE TypeOK'
  OBVIOUS
<1> USE TypePartsNext, Unchanged
<1>1. LinkTypes /\ SendTypes /\ ReceiveTypes /\ BoundTypes /\ UpInv /\ DownInv
  BY TypeParts, Zenon DEF Inv
<1>2. CASE ListenUDP
  <2>1. greeted' \in 0 .. 2
    BY <1>1, <1>2 DEF ListenUDP, LinkTypes
  <2>2. LinkTypes'
    BY <1>1, <1>2, <2>1, Zenon DEF ListenUDP, LinkTypes
  <2> QED
    BY <1>1, <1>2, <2>2, Zenon DEF ListenUDP
<1>3. ASSUME NEW n \in Lengths, WriteTo(n) PROVE TypeOK'
  <2>1. Frame(ups + 1, n) \in Datagrams
    <3>1. ups + 1 \in 1 .. MaxUp + MaxDown
      BY <1>1, <1>3, NewFrame, Zenon DEF WriteTo
    <3> QED
      BY <3>1, FrameCells, Zenon
  <2>2. PICK w : w = WriteFrame(writer, Frame(ups + 1, n))
    BY Zenon
  <2>3. w.kept \in Seq(Cells) /\ Len(w.kept) <= BufSize /\ toServer \o w.flushed \in Seq(Cells)
    BY <1>1, <2>1, <2>2, WriteTypes, Zenon DEF SendTypes
  <2>4. SendTypes'
    BY <1>1, <1>3, <2>2, <2>3, Zenon DEF SendTypes, WriteTo
  <2>5. BoundTypes'
    BY <1>1, <1>3, NewFrame, Zenon DEF BoundTypes, WriteTo
  <2> QED
    BY <1>1, <1>3, <2>4, <2>5, Zenon DEF WriteTo
<1>4. CASE ReadFrom
  <2>1. AfterFrame(toClient) \in Seq(Cells) /\ FrameAt(toClient, 1) \in Datagrams
    BY <1>1, <1>4, Taken, Zenon DEF ReceiveTypes, DownInv, ReadFrom
  <2>2. toCrawler' \in Seq(Datagrams) /\ toClient' \in Seq(Cells)
    BY <1>1, <1>4, <2>1 DEF ReceiveTypes, ReadFrom
  <2>3. ReceiveTypes'
    BY <1>1, <1>4, <2>2, Zenon DEF ReceiveTypes, ReadFrom
  <2> QED
    BY <1>1, <1>4, <2>3, Zenon DEF ReadFrom
<1>5. CASE CloseClient
  <2>1. LinkTypes' /\ SendTypes'
    BY <1>1, <1>5, NoCellsType, Zenon DEF CloseClient, LinkTypes, SendTypes
  <2>2. toClient' \in Seq(Cells)
    BY <1>1, <1>5, Prefix, Zenon DEF CloseClient, ReceiveTypes
  <2>3. ReceiveTypes'
    BY <1>1, <1>5, <2>2, NoCellsType, Zenon DEF CloseClient, ReceiveTypes
  <2> QED
    BY <1>1, <1>5, <2>1, <2>3, Zenon DEF CloseClient
<1>6. ASSUME NEW n \in Lengths, Arrive(n) PROVE TypeOK'
  <2>1. Frame(MaxUp + downs + 1, n) \in Datagrams
    <3>1. MaxUp + downs + 1 \in 1 .. MaxUp + MaxDown
      BY <1>1, <1>6, NewFrame, Zenon DEF Arrive
    <3> QED
      BY <3>1, FrameCells, Zenon
  <2>2. inbox' \in Seq(Datagrams)
    BY <1>6, <2>1 DEF Arrive
  <2>3. ReceiveTypes'
    BY <1>1, <1>6, <2>2, Zenon DEF ReceiveTypes, Arrive
  <2>4. BoundTypes'
    BY <1>1, <1>6, NewFrame, Zenon DEF BoundTypes, Arrive
  <2> QED
    BY <1>1, <1>6, <2>3, <2>4, Zenon DEF Arrive
<1>7. CASE Accept \/ HandshakeRead \/ HandshakeFails \/ Collect \/ RunFails \/ Stop \/ CloseRest
  <2>1. /\ run' \in RunStates /\ serverOpen' \in BOOLEAN /\ cancelled' \in BOOLEAN
        /\ localConn' \in {"open", "closed", "nil"} /\ UNCHANGED <<greeted, clientOpen>>
    BY <1>1, <1>7, Zenon DEF LinkTypes, Accept, HandshakeRead, HandshakeFails, Collect, RunFails, Stop,
                             CloseRest, RunStates
  <2>2. LinkTypes'
    BY <1>1, <2>1, Zenon DEF LinkTypes
  <2> QED
    BY <1>1, <1>7, <2>2, Zenon DEF Accept, HandshakeRead, HandshakeFails, Collect, RunFails, Stop, CloseRest
<1>8. CASE RunOpens
  <2>1. LinkTypes' /\ SendTypes'
    BY <1>1, <1>8, Zenon DEF LinkTypes, SendTypes, RunOpens, RunStates
  <2>2. ReceiveTypes'
    BY <1>1, <1>8, ProxyAssumption, Zenon DEF ReceiveTypes, RunOpens
  <2> QED
    BY <1>1, <1>8, <2>1, <2>2, Zenon DEF RunOpens
<1>9. CASE CloseLocal
  <2>1. LinkTypes' /\ ReceiveTypes'
    BY <1>1, <1>9, NoCellsType, Zenon DEF LinkTypes, ReceiveTypes, CloseLocal, RunStates
  <2> QED
    BY <1>1, <1>9, <2>1, Zenon DEF CloseLocal
<1>10. CASE SendRead
  <2>1. AfterFrame(toServer) \in Seq(Cells) /\ FrameAt(toServer, 1) \in Datagrams /\ toServer[1].len \in Lengths
    BY <1>1, <1>10, Taken, Zenon DEF SendTypes, UpInv, SendRead
  <2>6. pipeLen' \in Nat \ {0}
    BY <1>1, <1>10 DEF SendTypes, SendRead
  <2>7. SendTypes'
    BY <1>1, <1>10, <2>1, <2>6, Zenon DEF SendTypes, SendRead
  <2> QED
    BY <1>1, <1>10, <2>7, Zenon DEF SendRead
<1>11. CASE SendReadFails \/ SendWriteFails
  <2>1. LinkTypes' /\ SendTypes'
    BY <1>1, <1>11, Zenon DEF LinkTypes, SendTypes, SendReadFails, SendWriteFails
  <2> QED
    BY <1>1, <1>11, <2>1, Zenon DEF SendReadFails, SendWriteFails
<1>12. CASE SendWrite
  <2>1. sending \in Datagrams
    BY <1>1, <1>12, Zenon DEF SendTypes, UpInv, SendWrite
  <2>2. toNetwork' \in Seq(Datagrams)
    BY <1>1, <1>12, <2>1 DEF SendTypes, SendWrite
  <2>3. SendTypes'
    BY <1>1, <1>12, <2>2, Zenon DEF SendTypes, SendWrite
  <2> QED
    BY <1>1, <1>12, <2>3, Zenon DEF SendWrite
<1>13. CASE ReceiveLoop
  <2>1. ReceiveTypes'
    BY <1>1, <1>13, Zenon DEF ReceiveTypes, ReceiveLoop
  <2> QED
    BY <1>1, <1>13, <2>1, Zenon DEF ReceiveLoop
<1>14. CASE ReceiveReadFails \/ ReceiveWriteFails
  <2>1. LinkTypes' /\ ReceiveTypes'
    BY <1>1, <1>14, Zenon DEF LinkTypes, ReceiveTypes, ReceiveReadFails, ReceiveWriteFails
  <2> QED
    BY <1>1, <1>14, <2>1, Zenon DEF ReceiveReadFails, ReceiveWriteFails
<1>15. CASE Die
  <2>1. LinkTypes' /\ SendTypes'
    BY <1>1, <1>15, Zenon DEF LinkTypes, SendTypes, Die, RunStates
  <2>2. ReceiveTypes'
    BY <1>1, <1>15, NoCellsType, Zenon DEF ReceiveTypes, Die
  <2> QED
    BY <1>1, <1>15, <2>1, <2>2, Zenon DEF Die
<1>16. CASE ReceiveRead
  <2>1. Head(inbox) \in Datagrams /\ inbox' \in Seq(Datagrams)
    BY <1>1, <1>16 DEF ReceiveTypes, ReceiveRead
  <2>2. 2 * readLen \in Nat
    BY <1>1 DEF ReceiveTypes
  <2>3. ReceiveTypes'
    BY <1>1, <1>16, <2>1, <2>2, Zenon DEF ReceiveTypes, ReceiveRead
  <2> QED
    BY <1>1, <1>16, <2>3, Zenon DEF ReceiveRead
<1>17. CASE ReceiveWrite
  <2>1. receiving \in Datagrams
    BY <1>1, <1>17, Zenon DEF ReceiveTypes, DownInv, ReceiveWrite
  <2>2. PICK w : w = WriteFrame(buffered, receiving)
    BY Zenon
  <2>3. w.kept \in Seq(Cells) /\ Len(w.kept) <= BufSize /\ toClient \o w.flushed \in Seq(Cells)
    BY <1>1, <2>1, <2>2, WriteTypes, Zenon DEF ReceiveTypes
  <2>4. ReceiveTypes'
    BY <1>1, <1>17, <2>2, <2>3, Zenon DEF ReceiveTypes, ReceiveWrite
  <2> QED
    BY <1>1, <1>17, <2>4, Zenon DEF ReceiveWrite
<1>18. CASE UNCHANGED vars
  BY <1>1, <1>18, Zenon DEF vars
<1> QED
  BY <1>2, <1>3, <1>4, <1>5, <1>6, <1>7, <1>8, <1>9, <1>10, <1>11, <1>12, <1>13, <1>14, <1>15, <1>16,
     <1>17, <1>18, Zenon DEF Next, RunSteps, SendSteps, ReceiveSteps, ReadFromFails, Close, Panic, Crash

-----------------------------------------------------------------------------
(* From the crawler to the network.                                        *)

UpPending == Frames(toServer \o writer) \cup Held(sending)

UpLoses == UNCHANGED <<ups, toNetwork>> /\ UpPending' \subseteq UpPending

UpAccepts ==
  /\ ups' = ups + 1 /\ UNCHANGED toNetwork
  /\ \E d \in Datagrams : d[1].id = ups' /\ UpPending' \in {UpPending, UpPending \cup {d}}

UpDelivers ==
  /\ UNCHANGED ups
  /\ \E d \in UpPending : /\ \A e \in UpPending \ {d} : d[1].id < e[1].id
                          /\ toNetwork' = Append(toNetwork, d)
                          /\ UpPending' = UpPending \ {d}

LEMMA UpQuiet ==
  ASSUME UpInv, UNCHANGED <<writer, toServer, sending, ups, toNetwork>>,
         clientOpen' => clientOpen, send' = "write" => send = "write"
  PROVE  UpInv' /\ UpLoses
<1>1. toServer' = toServer /\ writer' = writer /\ sending' = sending /\ ups' = ups /\ toNetwork' = toNetwork
  BY Zenon
<1>2. (toServer \o writer)' = toServer \o writer
  BY <1>1, Zenon
<1>3. UpInv'
  BY <1>1, <1>2, Zenon DEF UpInv
<1>4. UpPending' = UpPending
  BY <1>1, <1>2, Zenon DEF UpPending
<1> QED
  BY <1>1, <1>3, <1>4, Zenon DEF UpLoses

\* What send holds is given up.
LEMMA UpDrops ==
  ASSUME UpInv, UNCHANGED <<writer, toServer, ups, toNetwork>>, sending' = << >>, send' # "write",
         clientOpen' => clientOpen
  PROVE  UpInv' /\ UpLoses
<1>1. toServer' = toServer /\ writer' = writer /\ ups' = ups /\ toNetwork' = toNetwork
  BY Zenon
<1>2. (toServer \o writer)' = toServer \o writer
  BY <1>1, Zenon
<1>3. UpInv'
  <2>1. Above(toServer \o writer, << >>)
    BY Zenon DEF Above
  <2> QED
    BY <1>1, <1>2, <2>1, Zenon DEF UpInv
<1>4. UpPending' \subseteq UpPending
  BY <1>1, <1>2, Zenon DEF UpPending, Held
<1> QED
  BY <1>1, <1>3, <1>4, Zenon DEF UpLoses

\* The writer's cells are lost, and with them perhaps the end of a frame.
LEMMA UpCuts ==
  ASSUME UpInv, writer \in Seq(Cells), toServer \in Seq(Cells),
         UNCHANGED <<ups, toServer, send, sending, toNetwork>>, writer' = << >>, ~clientOpen'
  PROVE  UpInv' /\ UpLoses
<1>1. ups' = ups /\ toServer' = toServer /\ send' = send /\ sending' = sending /\ toNetwork' = toNetwork
  BY Zenon
<1>2. (toServer \o writer)' = toServer
  <2>1. toServer \o << >> = toServer
    BY ConcatEmptySeq, Zenon
  <2> QED
    BY <1>1, <2>1, Zenon
<1>3. /\ Stream(toServer)
      /\ \A i \in DOMAIN toServer : i \in DOMAIN (toServer \o writer) /\ (toServer \o writer)[i] = toServer[i]
  BY FirstPart, Zenon DEF UpInv
<1>4. UpTo(toServer, ups)
  BY <1>3, Zenon DEF UpInv, UpTo
<1>5. Above(toServer, sending)
  BY <1>3, Zenon DEF UpInv, Above
<1>6. UpInv'
  BY <1>1, <1>2, <1>3, <1>4, <1>5, Zenon DEF UpInv
<1>7. Frames(toServer) \subseteq Frames(toServer \o writer)
  BY FramesOfParts, Zenon
<1>8. UpPending' \subseteq UpPending
  BY <1>1, <1>2, <1>7, Zenon DEF UpPending
<1> QED
  BY <1>1, <1>6, <1>8, Zenon DEF UpLoses

LEMMA UpWrites ==
  ASSUME TypeOK, UpInv, NEW n \in Lengths, WriteTo(n)
  PROVE  UpInv' /\ UpAccepts
<1>1. SendTypes /\ BoundTypes
  BY TypeParts, Zenon
<1>2. PICK d : /\ d = Frame(ups + 1, n) /\ d \in Datagrams /\ d[1].id = ups + 1
  <2>1. ups + 1 \in 1 .. MaxUp + MaxDown
    BY <1>1, NewFrame, Zenon DEF WriteTo
  <2>2. PICK id \in 1 .. MaxUp + MaxDown : id = ups + 1
    BY <2>1, Zenon
  <2>3. n \in Nat /\ Frame(id, n) \in Datagrams /\ \A i \in 1 .. n + 1 : Frame(id, n)[i].id = id
    BY FrameCells
  <2>4. 1 \in 1 .. n + 1
    BY <2>3
  <2> QED
    BY <2>2, <2>3, <2>4, Zenon
<1>3. /\ ups' = ups + 1 /\ sending' = sending /\ send' = send /\ toNetwork' = toNetwork
      /\ clientOpen' = clientOpen
  BY Zenon DEF WriteTo, link
<1>4. PICK s : s = toServer \o writer /\ s \in Seq(Cells)
  BY <1>1, Joined, Zenon DEF SendTypes
<1>5. /\ Stream(s) /\ (clientOpen => AtEnd(s)) /\ UpTo(s, ups) /\ Above(s, sending)
      /\ sending # << >> => sending[1].id <= ups
  BY <1>3, <1>4, Zenon DEF UpInv
<1>6. ups \in Nat
  BY <1>1 DEF BoundTypes
<1>7. \A i \in DOMAIN s : s[i].id \in Nat
  BY <1>4, StreamFields, Zenon
<1>8. UpTo(s, ups + 1) /\ \A i \in DOMAIN s : s[i].id < ups + 1
  <2> SUFFICES ASSUME NEW i \in DOMAIN s PROVE s[i].id <= ups + 1 /\ s[i].id < ups + 1
    BY Zenon DEF UpTo
  <2>1. PICK id \in Nat : id = s[i].id /\ id <= ups
    BY <1>5, <1>7, Zenon DEF UpTo
  <2>2. id <= ups + 1 /\ id < ups + 1
    <3>1. id <= ups
      BY <2>1, Zenon
    <3> QED
      BY <1>6, <3>1
  <2> QED
    BY <2>1, <2>2, Zenon
<1>9. sending # << >> => sending[1].id <= ups + 1 /\ sending[1].id < ups + 1
  <2> SUFFICES ASSUME sending # << >> PROVE sending[1].id <= ups + 1 /\ sending[1].id < ups + 1
    OBVIOUS
  <2>1. sending[1].id \in 1 .. MaxUp + MaxDown
    BY <1>1, DatagramIsFrame, Zenon DEF SendTypes
  <2>2. PICK id \in 1 .. MaxUp + MaxDown : id = sending[1].id /\ id <= ups
    BY <1>5, <2>1, Zenon
  <2>3. id <= ups + 1 /\ id < ups + 1
    <3>1. id <= ups
      BY <2>2, Zenon
    <3> QED
      BY <1>6, <3>1
  <2> QED
    BY <2>2, <2>3, Zenon
<1>10. CASE clientOpen /\ serverOpen
  <2>1. (toServer \o writer)' = s \o d
    <3>1. PICK w : w = WriteFrame(writer, d)
      BY Zenon
    <3>2. (toServer \o w.flushed) \o w.kept = (toServer \o writer) \o d
      BY <1>1, <1>2, <3>1, WriteTypes, Zenon DEF SendTypes
    <3>3. writer' = w.kept /\ toServer' = toServer \o w.flushed
      BY <1>2, <1>10, <3>1, Zenon DEF WriteTo
    <3> QED
      BY <1>4, <3>2, <3>3, Zenon
  <2>2. Below(s, d)
    BY <1>2, <1>8, Zenon DEF Below
  <2>3. /\ Stream(s \o d) /\ AtEnd(s \o d) /\ Frames(s \o d) = Frames(s) \cup {d}
        /\ \A k \in DOMAIN (s \o d) : (k \in DOMAIN s /\ (s \o d)[k] = s[k]) \/ (s \o d)[k].id = d[1].id
    BY <1>2, <1>5, <1>10, <2>2, Added, Zenon
  <2>4. UpTo(s \o d, ups + 1)
    <3>1. ups + 1 <= ups + 1
      BY <1>6
    <3> QED
      BY <1>2, <1>8, <2>3, <3>1, Zenon DEF UpTo
  <2>5. Above(s \o d, sending)
    BY <1>2, <1>5, <1>9, <2>3, Zenon DEF Above
  <2>6. UpInv'
    BY <1>3, <1>9, <2>1, <2>3, <2>4, <2>5, Zenon DEF UpInv
  <2>7. UpPending' = UpPending \cup {d}
    BY <1>3, <1>4, <2>1, <2>3, Zenon DEF UpPending
  <2> QED
    BY <1>2, <1>3, <2>6, <2>7, Zenon DEF UpAccepts
<1>11. CASE ~(clientOpen /\ serverOpen)
  <2>1. toServer' = toServer /\ writer' = writer
    BY <1>11, Zenon DEF WriteTo
  <2>2. (toServer \o writer)' = s
    BY <1>4, <2>1, Zenon
  <2>3. UpInv'
    BY <1>3, <1>5, <1>8, <1>9, <2>2, Zenon DEF UpInv
  <2>4. UpPending' = UpPending
    BY <1>3, <1>4, <2>2, Zenon DEF UpPending
  <2> QED
    BY <1>2, <1>3, <2>3, <2>4, Zenon DEF UpAccepts
<1> QED
  BY <1>10, <1>11, Zenon

LEMMA UpReads ==
  ASSUME TypeOK, UpInv, SendRead
  PROVE  UpInv' /\ UpLoses
<1>1. SendTypes
  BY TypeParts, Zenon
<1>2. PICK s, t, d : /\ s = toServer \o writer /\ t = AfterFrame(toServer) \o writer /\ d = FrameAt(toServer, 1)
                     /\ Stream(s) /\ UpTo(s, ups) /\ (clientOpen => AtEnd(s))
  BY Zenon DEF UpInv
<1>3. /\ Stream(t) /\ (AtEnd(s) => AtEnd(t)) /\ d \in Datagrams /\ Frames(s) = Frames(t) \cup {d}
      /\ \E i \in DOMAIN s : d[1] = s[i]
      /\ \A k \in DOMAIN t : d[1].id < t[k].id /\ \E i \in DOMAIN s : t[k] = s[i]
  <2>1. toServer \in Seq(Cells) /\ writer \in Seq(Cells) /\ HasFrame(toServer) /\ Stream(toServer \o writer)
    BY <1>1, <1>2, Zenon DEF SendTypes, SendRead
  <2>2. /\ Stream(AfterFrame(toServer) \o writer)
        /\ (AtEnd(toServer \o writer) => AtEnd(AfterFrame(toServer) \o writer))
        /\ FrameAt(toServer, 1) \in Datagrams
        /\ Frames(toServer \o writer) = Frames(AfterFrame(toServer) \o writer) \cup {FrameAt(toServer, 1)}
        /\ \E i \in DOMAIN (toServer \o writer) : FrameAt(toServer, 1)[1] = (toServer \o writer)[i]
        /\ \A k \in DOMAIN (AfterFrame(toServer) \o writer) :
             /\ FrameAt(toServer, 1)[1].id < (AfterFrame(toServer) \o writer)[k].id
             /\ \E i \in DOMAIN (toServer \o writer) : (AfterFrame(toServer) \o writer)[k] = (toServer \o writer)[i]
    BY <2>1, Taken, Zenon
  <2> QED
    BY <1>2, <2>2, Zenon
<1>4. (toServer \o writer)' = t /\ sending' = d /\ ups' = ups /\ toNetwork' = toNetwork
  BY <1>2, Zenon DEF SendRead, bounds
<1>5. clientOpen' => clientOpen
  BY Zenon DEF SendRead, link
<1>6. UpTo(t, ups) /\ d[1].id <= ups /\ Above(t, d) /\ d # << >>
  BY <1>2, <1>3, DatagramIsFrame, Zenon DEF UpTo, Above
<1>7. UpInv'
  BY <1>2, <1>3, <1>4, <1>5, <1>6, Zenon DEF UpInv
<1>8. UpPending' \subseteq UpPending
  BY <1>2, <1>3, <1>4, Zenon DEF UpPending, Held
<1> QED
  BY <1>4, <1>7, <1>8, Zenon DEF UpLoses

LEMMA UpSends ==
  ASSUME TypeOK, UpInv, SendWrite
  PROVE  UpInv' /\ UpDelivers
<1>1. SendTypes /\ BoundTypes
  BY TypeParts, Zenon
<1>2. PICK s : /\ s = toServer \o writer /\ s \in Seq(Cells) /\ Stream(s) /\ UpTo(s, ups) /\ Above(s, sending)
               /\ (clientOpen => AtEnd(s))
  BY Zenon DEF UpInv, Stream
<1>3. (toServer \o writer)' = s /\ sending' = << >> /\ send' = "read" /\ ups' = ups
  BY <1>2, Zenon DEF SendWrite, bounds
<1>4. clientOpen' => clientOpen
  BY Zenon DEF SendWrite, link
<1>5. sending # << >> /\ sending \in Datagrams /\ toNetwork' = Append(toNetwork, sending)
  BY <1>1, Zenon DEF UpInv, SendWrite, SendTypes
<1>6. Above(s, << >>)
  BY Zenon DEF Above
<1>7. UpInv'
  BY <1>2, <1>3, <1>4, <1>6, Zenon DEF UpInv
<1>8. ASSUME NEW e \in Frames(s) PROVE sending[1].id < e[1].id /\ e # sending
  <2>1. PICK i \in DOMAIN s : e[1] = s[i]
    BY <1>2, FrameNumber, Zenon
  <2>2. sending[1].id < e[1].id
    BY <1>2, <1>5, <2>1, Zenon DEF Above
  <2>3. sending[1].id \in Nat
    <3>1. sending[1].id \in 1 .. MaxUp + MaxDown
      BY <1>5, DatagramIsFrame, Zenon
    <3> QED
      BY <3>1
  <2>4. ~(sending[1].id < sending[1].id)
    BY <2>3
  <2> QED
    BY <2>2, <2>4, Zenon
<1>9. UpPending = Frames(s) \cup {sending} /\ UpPending' = Frames(s)
  BY <1>2, <1>3, <1>5, Zenon DEF UpPending, Held
<1>10. UpPending' = UpPending \ {sending}
  BY <1>8, <1>9, Zenon
<1> QED
  BY <1>3, <1>5, <1>7, <1>8, <1>9, <1>10, Zenon DEF UpDelivers

LEMMA UpStep ==
  ASSUME Inv, [Next]_vars
  PROVE  UpInv' /\ (UpLoses \/ UpAccepts \/ UpDelivers)
<1>1. TypeOK /\ UpInv
  BY Zenon DEF Inv
<1>2. writer \in Seq(Cells) /\ toServer \in Seq(Cells)
  BY <1>1, Zenon DEF TypeOK
<1>3. CASE ListenUDP
  BY <1>1, <1>3, UpQuiet, Zenon DEF ListenUDP, sendSide, bounds
<1>4. CASE \E n \in Lengths : WriteTo(n)
  BY <1>1, <1>4, UpWrites, Zenon
<1>5. CASE CloseClient
  BY <1>1, <1>2, <1>5, UpCuts, Zenon DEF CloseClient, bounds
<1>6. CASE ReadFrom \/ \E n \in Lengths : Arrive(n)
  <2>1. UNCHANGED <<writer, toServer, sending, ups, toNetwork>> /\ UNCHANGED send
    BY <1>6, Zenon DEF ReadFrom, Arrive, link, sendSide, bounds
  <2>2. clientOpen' => clientOpen
    BY <1>6, Zenon DEF ReadFrom, Arrive, link, sendSide, bounds
  <2> QED
    BY <1>1, <2>1, <2>2, UpQuiet, Zenon
<1>7. CASE Accept \/ RunFails \/ Stop \/ CloseLocal \/ CloseRest \/ HandshakeRead \/ HandshakeFails \/ Collect
  <2>1. UNCHANGED <<writer, toServer, sending, ups, toNetwork>> /\ UNCHANGED send
    BY <1>7, Zenon DEF Accept, RunFails, Stop, CloseLocal, CloseRest, HandshakeRead, HandshakeFails, Collect,
                       sendSide, bounds
  <2>2. clientOpen' => clientOpen
    BY <1>7, Zenon DEF Accept, RunFails, Stop, CloseLocal, CloseRest, HandshakeRead, HandshakeFails, Collect
  <2> QED
    BY <1>1, <2>1, <2>2, UpQuiet, Zenon
<1>8. CASE RunOpens
  BY <1>1, <1>8, UpQuiet, Zenon DEF RunOpens, bounds
<1>9. CASE SendReadFails
  BY <1>1, <1>9, UpQuiet, Zenon DEF SendReadFails, bounds
<1>10. CASE SendWriteFails
  BY <1>1, <1>10, UpDrops, Zenon DEF SendWriteFails, bounds
<1>11. CASE Die
  BY <1>1, <1>11, UpDrops, Zenon DEF Die, bounds
<1>12. CASE SendRead
  BY <1>1, <1>12, UpReads, Zenon
<1>13. CASE SendWrite
  BY <1>1, <1>13, UpSends, Zenon
<1>14. CASE ReceiveSteps
  <2>1. UNCHANGED <<writer, toServer, sending, ups, toNetwork>> /\ UNCHANGED send
    BY <1>14, Zenon DEF ReceiveSteps, ReceiveLoop, ReceiveRead, ReceiveReadFails, ReceiveWrite, ReceiveWriteFails,
                         link, sendSide, bounds
  <2>2. clientOpen' => clientOpen
    BY <1>14, Zenon DEF ReceiveSteps, ReceiveLoop, ReceiveRead, ReceiveReadFails, ReceiveWrite, ReceiveWriteFails,
                         link, sendSide, bounds
  <2> QED
    BY <1>1, <2>1, <2>2, UpQuiet, Zenon
<1>15. CASE UNCHANGED vars
  BY <1>1, <1>15, UpQuiet, Zenon DEF vars, link, sendSide, bounds
<1> QED
  BY <1>3, <1>4, <1>5, <1>6, <1>7, <1>8, <1>9, <1>10, <1>11, <1>12, <1>13, <1>14, <1>15, Zenon
     DEF Next, RunSteps, SendSteps, ReadFromFails, Close, Panic, Crash

-----------------------------------------------------------------------------
(* From the network to the crawler.                                        *)

DownPending == Frames(toClient \o buffered) \cup Held(receiving) \cup {inbox[i] : i \in DOMAIN inbox}

DownLoses == UNCHANGED <<downs, toCrawler>> /\ DownPending' \subseteq DownPending

DownAccepts ==
  /\ downs' = downs + 1 /\ UNCHANGED toCrawler
  /\ \E d \in Datagrams : d[1].id = MaxUp + downs + 1 /\ DownPending' \in {DownPending, DownPending \cup {d}}

DownDelivers ==
  /\ UNCHANGED downs
  /\ \E d \in DownPending : /\ \A e \in DownPending \ {d} : d[1].id < e[1].id
                            /\ toCrawler' = Append(toCrawler, d)
                            /\ DownPending' = DownPending \ {d}

\* The socket holds at most one datagram.
LEMMA InboxSet ==
  ASSUME NEW q \in Seq(Datagrams), Len(q) <= 1
  PROVE  /\ q = << >> => {q[i] : i \in DOMAIN q} = {}
         /\ q # << >> => /\ {q[i] : i \in DOMAIN q} = {q[1]} /\ q[1] \in Datagrams
                         /\ Tail(q) = << >> /\ Head(q) = q[1]
<1>1. ASSUME q = << >> PROVE {q[i] : i \in DOMAIN q} = {}
  BY <1>1
<1>2. ASSUME q # << >>
      PROVE  {q[i] : i \in DOMAIN q} = {q[1]} /\ q[1] \in Datagrams /\ Tail(q) = << >> /\ Head(q) = q[1]
  <2>1. Len(q) = 1 /\ DOMAIN q = {1}
    <3>1. Len(q) \in Nat \ {0} /\ DOMAIN q = 1 .. Len(q)
      BY <1>2, EmptySeq, LenProperties, Zenon
    <3>2. PICK n \in Nat \ {0} : n = Len(q) /\ n <= 1
      BY <3>1, Zenon
    <3>3. n = 1 /\ 1 .. 1 = {1}
      BY <3>2
    <3> QED
      BY <3>1, <3>2, <3>3, Zenon
  <2>2. {q[i] : i \in DOMAIN q} = {q[1]}
    BY <2>1, Zenon
  <2>3. Tail(q) \in Seq(Datagrams) /\ Len(Tail(q)) = Len(q) - 1 /\ Head(q) \in Datagrams
    BY <1>2, HeadTailProperties, Zenon
  <2>4. 1 - 1 = 0 /\ 0 \notin Nat \ {0}
    OBVIOUS
  <2>5. Tail(q) = << >>
    BY <2>1, <2>3, <2>4, EmptySeq, Zenon
  <2>6. Head(q) = q[1]
    BY <1>2
  <2> QED
    BY <2>2, <2>3, <2>5, <2>6, Zenon
<1> QED
  BY <1>1, <1>2, Zenon

LEMMA InboxIs ==
  ASSUME inbox \in Seq(Datagrams), Len(inbox) <= 1
  PROVE  /\ {inbox[i] : i \in DOMAIN inbox} = Held(Waiting)
         /\ inbox = << >> <=> Waiting = << >>
         /\ Waiting # << >> => Waiting \in Datagrams
<1>1. CASE inbox = << >>
  BY <1>1, InboxSet, Zenon DEF Waiting, Held
<1>2. CASE inbox # << >>
  <2>1. {inbox[i] : i \in DOMAIN inbox} = {inbox[1]} /\ inbox[1] \in Datagrams /\ Waiting = inbox[1]
    BY <1>2, InboxSet, Zenon DEF Waiting
  <2>2. inbox[1] # << >>
    BY <2>1, DatagramIsFrame, Zenon
  <2> QED
    BY <1>2, <2>1, <2>2, Zenon DEF Held
<1> QED
  BY <1>1, <1>2, Zenon

\* What receive holds, or what waits at the socket, may be given up.
LEMMA DownQuiet ==
  ASSUME DownInv, UNCHANGED <<toClient, buffered, downs, toCrawler>>,
         receiving' = receiving \/ receiving' = << >>,
         inbox' = inbox \/ inbox' = << >>,
         clientOpen' => clientOpen,
         receive' = "write" => receive = "write" /\ receiving' = receiving
  PROVE  DownInv' /\ DownLoses
<1>1. toClient' = toClient /\ buffered' = buffered /\ downs' = downs /\ toCrawler' = toCrawler
  BY Zenon
<1>2. (toClient \o buffered)' = toClient \o buffered
  BY <1>1, Zenon
<1>3. Waiting' = Waiting \/ Waiting' = << >>
  BY Zenon DEF Waiting
<1>4. Len(inbox') <= 1
  <2>1. Len(<< >>) <= 1
    OBVIOUS
  <2> QED
    BY <2>1, Zenon DEF DownInv
<1>5. /\ Waiting' # << >> => Waiting'[1].id <= MaxUp + downs
      /\ receiving' # << >> => /\ receiving'[1].id <= MaxUp + downs
                               /\ Waiting' # << >> => receiving'[1].id < Waiting'[1].id
  BY <1>3, Zenon DEF DownInv
<1>6. Below(toClient \o buffered, receiving') /\ Below(toClient \o buffered, Waiting')
  BY <1>3, Zenon DEF DownInv, Below
<1>7. DownInv'
  BY <1>1, <1>2, <1>4, <1>5, <1>6, Zenon DEF DownInv
<1>8. {inbox'[i] : i \in DOMAIN inbox'} \subseteq {inbox[i] : i \in DOMAIN inbox}
  <2>1. {<< >>[i] : i \in DOMAIN << >>} = {}
    BY NoCells, Zenon
  <2> QED
    BY <2>1, Zenon
<1>9. Held(receiving') \subseteq Held(receiving)
  BY Zenon DEF Held
<1>10. DownPending' \subseteq DownPending
  BY <1>2, <1>8, <1>9, Zenon DEF DownPending
<1> QED
  BY <1>1, <1>7, <1>10, Zenon DEF DownLoses

LEMMA DownSame ==
  ASSUME DownInv, UNCHANGED <<toClient, buffered, downs, toCrawler, receive, receiving, inbox>>,
         clientOpen' => clientOpen
  PROVE  DownInv' /\ DownLoses
<1>1. UNCHANGED <<toClient, buffered, downs, toCrawler>>
  BY Zenon
<1>2. receiving' = receiving /\ inbox' = inbox /\ receive' = receive
  BY Zenon
<1> QED
  BY <1>1, <1>2, DownQuiet, Zenon

\* The crawler closes: the stream keeps its first n cells.
LEMMA DownCuts ==
  ASSUME TypeOK, DownInv, CloseClient
  PROVE  DownInv' /\ DownLoses
<1>1. /\ inbox' = inbox /\ receive' = receive /\ receiving' = receiving /\ downs' = downs
      /\ toCrawler' = toCrawler /\ ~clientOpen'
  BY Zenon DEF CloseClient, bounds
<1>2. Waiting' = Waiting
  BY <1>1, Zenon DEF Waiting
<1>3. toClient \in Seq(Cells) /\ buffered \in Seq(Cells)
  BY Zenon DEF TypeOK
<1>4. PICK a \in Seq(Cells), b \in Seq(Cells) : toClient = a \o b /\ toClient' = a
  BY <1>3, Prefix, Zenon DEF CloseClient
<1>5. (toClient \o buffered)' = a
  <2>1. a \o << >> = a
    BY ConcatEmptySeq, Zenon
  <2> QED
    BY <1>4, <2>1, Zenon DEF CloseClient
<1>6. PICK c \in Seq(Cells) : toClient \o buffered = a \o c
  <2>1. (a \o b) \o buffered = a \o (b \o buffered) /\ b \o buffered \in Seq(Cells)
    BY <1>3, Regroup, ZenonT(40)
  <2> QED
    BY <1>4, <2>1, Zenon
<1>7. Stream(a) /\ \A i \in DOMAIN a : i \in DOMAIN (a \o c) /\ (a \o c)[i] = a[i]
  BY <1>6, FirstPart, Zenon DEF DownInv
<1>8. UpTo(a, MaxUp + downs) /\ Below(a, receiving) /\ Below(a, Waiting)
  BY <1>6, <1>7, Zenon DEF DownInv, UpTo, Below
<1>9. DownInv'
  BY <1>1, <1>2, <1>5, <1>7, <1>8, Zenon DEF DownInv
<1>10. Frames(a) \subseteq Frames(toClient \o buffered)
  BY <1>6, FramesOfParts, Zenon
<1>11. DownPending' \subseteq DownPending
  BY <1>1, <1>5, <1>10, Zenon DEF DownPending
<1> QED
  BY <1>1, <1>9, <1>11, Zenon DEF DownLoses

LEMMA DownArrives ==
  ASSUME TypeOK, DownInv, NEW n \in Lengths, Arrive(n)
  PROVE  DownInv' /\ DownAccepts
<1>1. ReceiveTypes /\ BoundTypes
  BY TypeParts, Zenon
<1>2. PICK m \in Nat : m = MaxUp + downs /\ MaxUp + downs' = m + 1 /\ downs' = downs + 1 /\ m + 1 \in 1 .. MaxUp + MaxDown
  <2>1. MaxUp + downs + 1 \in 1 .. MaxUp + MaxDown /\ downs' = downs + 1
    BY <1>1, NewFrame, Zenon DEF Arrive
  <2>2. MaxUp + downs \in Nat /\ MaxUp + (downs + 1) = MaxUp + downs + 1
    BY <1>1, ProxyAssumption DEF BoundTypes
  <2> QED
    BY <2>1, <2>2, Zenon
<1>3. PICK d : d = Frame(m + 1, n) /\ d \in Datagrams /\ d[1].id = m + 1 /\ d # << >>
  <2>1. PICK id \in 1 .. MaxUp + MaxDown : id = m + 1
    BY <1>2, Zenon
  <2>2. n \in Nat /\ Frame(id, n) \in Datagrams /\ \A i \in 1 .. n + 1 : Frame(id, n)[i].id = id
    BY FrameCells
  <2>3. 1 \in 1 .. n + 1
    BY <2>2
  <2> QED
    BY <2>1, <2>2, <2>3, DatagramIsFrame, Zenon
<1>4. inbox = << >> /\ inbox' = <<d>> /\ receiving' = receiving /\ receive' = receive /\ toCrawler' = toCrawler
  BY <1>2, <1>3, Zenon DEF Arrive
<1>5. (clientOpen' => clientOpen) /\ (toClient \o buffered)' = toClient \o buffered
  BY Zenon DEF Arrive, link
<1>6. <<d>> # << >> /\ <<d>>[1] = d /\ Len(<<d>>) <= 1 /\ {<<d>>[i] : i \in DOMAIN <<d>>} = {d}
  OBVIOUS
<1>7. Waiting' = d
  BY <1>4, <1>6, Zenon DEF Waiting
<1>8. ASSUME NEW id \in Nat, id <= m PROVE id <= m + 1 /\ id < m + 1
  BY <1>8
<1>9. receiving # << >> => receiving[1].id <= m + 1 /\ receiving[1].id < m + 1
  <2> SUFFICES ASSUME receiving # << >> PROVE receiving[1].id <= m + 1 /\ receiving[1].id < m + 1
    OBVIOUS
  <2>1. receiving[1].id \in 1 .. MaxUp + MaxDown
    BY <1>1, DatagramIsFrame, Zenon DEF ReceiveTypes
  <2>2. PICK id \in 1 .. MaxUp + MaxDown : id = receiving[1].id /\ id <= m
    BY <1>2, <2>1, Zenon DEF DownInv
  <2>3. id \in Nat
    OBVIOUS
  <2> QED
    BY <1>8, <2>2, <2>3, Zenon
<1>10. UpTo(toClient \o buffered, m + 1) /\ Below(toClient \o buffered, d)
  <2>1. \A i \in DOMAIN (toClient \o buffered) : (toClient \o buffered)[i].id \in Nat
    BY StreamFields, Zenon DEF DownInv, Stream
  <2>2. UpTo(toClient \o buffered, m)
    BY <1>2, Zenon DEF DownInv
  <2> QED
    BY <1>3, <1>8, <2>1, <2>2, Zenon DEF UpTo, Below
<1>11. m + 1 <= m + 1
  OBVIOUS
<1>12. DownInv'
  BY <1>2, <1>3, <1>4, <1>5, <1>6, <1>7, <1>9, <1>10, <1>11, Zenon DEF DownInv
<1>13. DownPending' = DownPending \cup {d}
  <2>1. {inbox[i] : i \in DOMAIN inbox} = {}
    BY <1>4, NoCells, Zenon
  <2>2. {inbox'[i] : i \in DOMAIN inbox'} = {d}
    BY <1>4, <1>6, Zenon
  <2> QED
    BY <1>4, <1>5, <2>1, <2>2, Zenon DEF DownPending
<1>14. d[1].id = MaxUp + downs + 1
  BY <1>2, <1>3, Zenon
<1> QED
  BY <1>2, <1>3, <1>4, <1>12, <1>13, <1>14, Zenon DEF DownAccepts

LEMMA DownReads ==
  ASSUME TypeOK, DownInv, ReceiveRead
  PROVE  DownInv' /\ DownLoses
<1>1. ReceiveTypes /\ Len(inbox) <= 1
  BY TypeParts, Zenon DEF DownInv
<1>2. inbox # << >> /\ inbox' = << >> /\ Head(inbox) = inbox[1] /\ inbox[1] \in Datagrams
      /\ {inbox[i] : i \in DOMAIN inbox} = {inbox[1]} /\ Waiting = inbox[1]
  BY <1>1, InboxSet, Zenon DEF ReceiveRead, ReceiveTypes, Waiting
<1>3. UNCHANGED <<toClient, buffered, downs, toCrawler>>
  BY Zenon DEF ReceiveRead, bounds
<1>4. clientOpen' => clientOpen
  BY Zenon DEF ReceiveRead, link
<1>5. CASE inbox[1][1].len >= readLen
  <2>1. receiving' = receiving /\ receive' = "loop"
    BY <1>5, Zenon DEF ReceiveRead
  <2> QED
    BY <1>2, <1>3, <1>4, <2>1, DownQuiet, Zenon
<1>6. CASE ~(inbox[1][1].len >= readLen)
  <2>1. receiving' = Waiting /\ receive' = "write" /\ Waiting # << >>
    BY <1>2, <1>6, DatagramIsFrame, Zenon DEF ReceiveRead
  <2>2. Waiting' = << >> /\ (toClient \o buffered)' = toClient \o buffered /\ downs' = downs /\ toCrawler' = toCrawler
    BY <1>2, <1>3, Zenon DEF Waiting
  <2>3. Len(<< >>) <= 1
    OBVIOUS
  <2>4. Below(toClient \o buffered, << >>)
    BY Zenon DEF Below
  <2>5. DownInv'
    BY <1>2, <1>4, <2>1, <2>2, <2>3, <2>4, Zenon DEF DownInv
  <2>6. {inbox'[i] : i \in DOMAIN inbox'} = {}
    BY <1>2, NoCells, Zenon
  <2>7. DownPending' \subseteq DownPending
    BY <1>2, <2>1, <2>2, <2>6, Zenon DEF DownPending, Held
  <2> QED
    BY <2>2, <2>5, <2>7, Zenon DEF DownLoses
<1> QED
  BY <1>5, <1>6, Zenon

LEMMA DownWrites ==
  ASSUME TypeOK, DownInv, ReceiveWrite
  PROVE  DownInv' /\ DownLoses
<1>1. ReceiveTypes
  BY TypeParts, Zenon
<1>2. receiving # << >> /\ receiving \in Datagrams
  BY <1>1, Zenon DEF DownInv, ReceiveWrite, ReceiveTypes
<1>3. inbox' = inbox /\ receiving' = << >> /\ receive' = "loop" /\ downs' = downs /\ toCrawler' = toCrawler
  BY Zenon DEF ReceiveWrite, bounds
<1>4. clientOpen' => clientOpen
  BY Zenon DEF ReceiveWrite, link
<1>5. CASE ~clientOpen
  <2>1. UNCHANGED <<toClient, buffered, downs, toCrawler>>
    BY <1>3, <1>5, Zenon DEF ReceiveWrite
  <2> QED
    BY <1>3, <1>4, <2>1, DownQuiet, Zenon
<1>6. CASE clientOpen
  <2>1. PICK c : /\ c = toClient \o buffered /\ Stream(c) /\ AtEnd(c) /\ UpTo(c, MaxUp + downs)
                 /\ Below(c, receiving) /\ Below(c, Waiting)
    BY <1>6, Zenon DEF DownInv
  <2>2. (toClient \o buffered)' = c \o receiving
    <3>1. PICK w : w = WriteFrame(buffered, receiving)
      BY Zenon
    <3>2. (toClient \o w.flushed) \o w.kept = (toClient \o buffered) \o receiving
      BY <1>1, <1>2, <3>1, WriteTypes, Zenon DEF ReceiveTypes
    <3>3. buffered' = w.kept /\ toClient' = toClient \o w.flushed
      BY <1>6, <3>1, Zenon DEF ReceiveWrite
    <3> QED
      BY <2>1, <3>2, <3>3, Zenon
  <2>3. PICK t : /\ t = c \o receiving /\ Stream(t) /\ AtEnd(t) /\ Frames(t) = Frames(c) \cup {receiving}
                 /\ \A k \in DOMAIN t : (k \in DOMAIN c /\ t[k] = c[k]) \/ t[k].id = receiving[1].id
    <3>1. Stream(c) /\ AtEnd(c) /\ Below(c, receiving) /\ receiving \in Datagrams
      BY <1>2, <2>1, Zenon
    <3>2. /\ Stream(c \o receiving) /\ AtEnd(c \o receiving) /\ Frames(c \o receiving) = Frames(c) \cup {receiving}
          /\ \A k \in DOMAIN (c \o receiving) :
               (k \in DOMAIN c /\ (c \o receiving)[k] = c[k]) \/ (c \o receiving)[k].id = receiving[1].id
      BY <3>1, Added, Zenon
    <3> QED
      BY <3>2, Zenon
  <2>4. Waiting' = Waiting
    BY <1>3, Zenon DEF Waiting
  <2>5. UpTo(t, MaxUp + downs)
    BY <1>2, <2>1, <2>3, Zenon DEF UpTo, DownInv
  <2>6. Below(t, Waiting)
    BY <1>2, <2>1, <2>3, Zenon DEF Below, DownInv
  <2>7. Below(t, << >>)
    BY Zenon DEF Below
  <2>8. DownInv'
    BY <1>3, <2>2, <2>3, <2>4, <2>5, <2>6, <2>7, Zenon DEF DownInv
  <2>9. DownPending' \subseteq DownPending
    BY <1>2, <1>3, <2>1, <2>2, <2>3, Zenon DEF DownPending, Held
  <2> QED
    BY <1>3, <2>8, <2>9, Zenon DEF DownLoses
<1> QED
  BY <1>5, <1>6, Zenon

LEMMA DownReturns ==
  ASSUME TypeOK, DownInv, ReadFrom
  PROVE  DownInv' /\ DownDelivers
<1>1. ReceiveTypes /\ Len(inbox) <= 1 /\ clientOpen' = clientOpen
  BY TypeParts, Zenon DEF DownInv, ReadFrom, link
<1>2. PICK s, t, d : /\ s = toClient \o buffered /\ t = AfterFrame(toClient) \o buffered /\ d = FrameAt(toClient, 1)
                     /\ Stream(s) /\ UpTo(s, MaxUp + downs) /\ Below(s, receiving) /\ Below(s, Waiting)
                     /\ (clientOpen => AtEnd(s))
  BY <1>1, Zenon DEF DownInv
<1>3. /\ Stream(t) /\ (AtEnd(s) => AtEnd(t)) /\ d \in Datagrams /\ Frames(s) = Frames(t) \cup {d}
      /\ \E i \in DOMAIN s : d[1] = s[i]
      /\ \A k \in DOMAIN t : d[1].id < t[k].id /\ \E i \in DOMAIN s : t[k] = s[i]
  <2>1. toClient \in Seq(Cells) /\ buffered \in Seq(Cells) /\ HasFrame(toClient) /\ Stream(toClient \o buffered)
    BY <1>1, <1>2, Zenon DEF ReceiveTypes, ReadFrom
  <2>2. /\ Stream(AfterFrame(toClient) \o buffered)
        /\ (AtEnd(toClient \o buffered) => AtEnd(AfterFrame(toClient) \o buffered))
        /\ FrameAt(toClient, 1) \in Datagrams
        /\ Frames(toClient \o buffered) = Frames(AfterFrame(toClient) \o buffered) \cup {FrameAt(toClient, 1)}
        /\ \E i \in DOMAIN (toClient \o buffered) : FrameAt(toClient, 1)[1] = (toClient \o buffered)[i]
        /\ \A k \in DOMAIN (AfterFrame(toClient) \o buffered) :
             /\ FrameAt(toClient, 1)[1].id < (AfterFrame(toClient) \o buffered)[k].id
             /\ \E i \in DOMAIN (toClient \o buffered) : (AfterFrame(toClient) \o buffered)[k] = (toClient \o buffered)[i]
    BY <2>1, Taken, Zenon
  <2> QED
    BY <1>2, <2>2, Zenon
<1>4. /\ (toClient \o buffered)' = t /\ receiving' = receiving /\ receive' = receive /\ inbox' = inbox
      /\ downs' = downs /\ toCrawler' = Append(toCrawler, d)
  BY <1>2, Zenon DEF ReadFrom, bounds
<1>5. Waiting' = Waiting
  BY <1>4, Zenon DEF Waiting
<1>6. UpTo(t, MaxUp + downs)
  BY <1>2, <1>3, Zenon DEF UpTo
<1>7. Below(t, receiving) /\ Below(t, Waiting)
  BY <1>2, <1>3, Zenon DEF Below
<1>8. DownInv'
  BY <1>1, <1>2, <1>3, <1>4, <1>5, <1>6, <1>7, Zenon DEF DownInv
<1>9. {inbox[i] : i \in DOMAIN inbox} = Held(Waiting)
  BY <1>1, InboxIs, Zenon DEF ReceiveTypes
<1>10. DownPending = Frames(t) \cup {d} \cup Held(receiving) \cup Held(Waiting)
  BY <1>2, <1>3, <1>9, Zenon DEF DownPending
<1>11. DownPending' = Frames(t) \cup Held(receiving) \cup Held(Waiting)
  BY <1>4, <1>9, Zenon DEF DownPending
<1>12. ASSUME NEW e \in DownPending' PROVE d[1].id < e[1].id /\ e # d
  <2>1. d[1].id < e[1].id
    <3>1. CASE e \in Frames(t)
      <4>1. PICK i \in DOMAIN t : e[1] = t[i]
        BY <1>3, <3>1, FrameNumber, Zenon DEF Stream
      <4> QED
        BY <1>3, <4>1, Zenon
    <3>2. CASE e \in Held(receiving)
      BY <1>2, <1>3, <3>2, Zenon DEF Held, Below
    <3>3. CASE e \in Held(Waiting)
      BY <1>2, <1>3, <3>3, Zenon DEF Held, Below
    <3> QED
      BY <1>11, <1>12, <3>1, <3>2, <3>3, Zenon
  <2>2. d[1].id \in Nat
    <3>1. d[1].id \in 1 .. MaxUp + MaxDown
      BY <1>3, DatagramIsFrame, Zenon
    <3> QED
      BY <3>1
  <2>3. ~(d[1].id < d[1].id)
    BY <2>2
  <2> QED
    BY <2>1, <2>3, Zenon
<1>13. DownPending' = DownPending \ {d} /\ d \in DownPending
  BY <1>10, <1>11, <1>12, Zenon
<1> QED
  BY <1>4, <1>8, <1>12, <1>13, Zenon DEF DownDelivers

LEMMA DownStep ==
  ASSUME Inv, [Next]_vars
  PROVE  DownInv' /\ (DownLoses \/ DownAccepts \/ DownDelivers)
<1>1. TypeOK /\ DownInv
  BY Zenon DEF Inv
<1>3. CASE ListenUDP
  BY <1>1, <1>3, DownQuiet, Zenon DEF ListenUDP, receiveSide, bounds
<1>4. CASE \E n \in Lengths : WriteTo(n)
  <2>1. UNCHANGED <<toClient, buffered, downs, toCrawler, receive, receiving, inbox>>
    BY <1>4, Zenon DEF WriteTo, receiveSide
  <2>2. UNCHANGED link
    BY <1>4, Zenon DEF WriteTo
  <2>3. clientOpen' => clientOpen
    BY <2>2, Zenon DEF link
  <2> QED
    BY <1>1, <2>1, <2>3, DownSame, Zenon
<1>5. CASE CloseClient
  BY <1>1, <1>5, DownCuts, Zenon
<1>6. CASE ReadFrom
  BY <1>1, <1>6, DownReturns, Zenon
<1>7. CASE \E n \in Lengths : Arrive(n)
  BY <1>1, <1>7, DownArrives, Zenon
<1>8. CASE Accept \/ RunFails \/ Stop \/ CloseRest \/ HandshakeRead \/ HandshakeFails \/ Collect
  <2>1. UNCHANGED <<toClient, buffered, downs, toCrawler, receive, receiving, inbox>>
    BY <1>8, Zenon DEF Accept, RunFails, Stop, CloseRest, HandshakeRead, HandshakeFails, Collect,
                       receiveSide, bounds
  <2>2. clientOpen' => clientOpen
    BY <1>8, Zenon DEF Accept, RunFails, Stop, CloseRest, HandshakeRead, HandshakeFails, Collect
  <2> QED
    BY <1>1, <2>1, <2>2, DownSame, Zenon
<1>9. CASE RunOpens
  BY <1>1, <1>9, DownQuiet, Zenon DEF RunOpens, bounds
<1>10. CASE CloseLocal
  BY <1>1, <1>10, DownQuiet, Zenon DEF CloseLocal, bounds
<1>11. CASE SendSteps
  <2>1. UNCHANGED <<toClient, buffered, downs, toCrawler, receive, receiving, inbox>>
    BY <1>11, Zenon DEF SendSteps, SendRead, SendReadFails, SendWrite, SendWriteFails, receiveSide, bounds
  <2>2. clientOpen' => clientOpen
    BY <1>11, Zenon DEF SendSteps, SendRead, SendReadFails, SendWrite, SendWriteFails, link
  <2> QED
    BY <1>1, <2>1, <2>2, DownSame, Zenon
<1>12. CASE ReceiveLoop \/ ReceiveReadFails
  <2>1. UNCHANGED <<toClient, buffered, downs, toCrawler, receiving, inbox>> /\ receive' # "write"
    BY <1>12, Zenon DEF ReceiveLoop, ReceiveReadFails, bounds
  <2>2. clientOpen' => clientOpen
    BY <1>12, Zenon DEF ReceiveLoop, ReceiveReadFails, link
  <2> QED
    BY <1>1, <2>1, <2>2, DownQuiet, Zenon
<1>13. CASE ReceiveWriteFails \/ Die
  <2>1. /\ UNCHANGED <<toClient, buffered, downs, toCrawler>> /\ inbox' \in {inbox, << >>}
        /\ receiving' = << >> /\ receive' # "write"
    BY <1>13, Zenon DEF ReceiveWriteFails, Die, bounds
  <2>2. clientOpen' => clientOpen
    BY <1>13, Zenon DEF ReceiveWriteFails, Die
  <2> QED
    BY <1>1, <2>1, <2>2, DownQuiet, Zenon
<1>14. CASE ReceiveRead
  BY <1>1, <1>14, DownReads, Zenon
<1>15. CASE ReceiveWrite
  BY <1>1, <1>15, DownWrites, Zenon
<1>16. CASE UNCHANGED vars
  <2>1. UNCHANGED <<toClient, buffered, downs, toCrawler, receive, receiving, inbox>>
    BY <1>16, Zenon DEF vars, receiveSide, bounds
  <2>2. clientOpen' => clientOpen
    BY <1>16, Zenon DEF vars, link
  <2> QED
    BY <1>1, <2>1, <2>2, DownSame, Zenon
<1> QED
  BY <1>3, <1>4, <1>5, <1>6, <1>7, <1>8, <1>9, <1>10, <1>11, <1>12, <1>13, <1>14, <1>15, <1>16, Zenon
     DEF Next, RunSteps, ReceiveSteps, ReadFromFails, Close, Panic, Crash

-----------------------------------------------------------------------------
(* Theorems.                                                               *)

LEMMA InvInit == Init => Inv
<1> SUFFICES ASSUME Init PROVE Inv
  OBVIOUS
<1>1. TypeOK
  BY TypeInit, Zenon
<1>2. toServer \o writer = << >> /\ toClient \o buffered = << >>
  BY NoCells, Zenon DEF Init
<1>3. UpTo(<< >>, ups) /\ UpTo(<< >>, MaxUp + downs)
  BY NoCells, Zenon DEF UpTo
<1>4. \A d : Below(<< >>, d) /\ Above(<< >>, d)
  BY NoCells, Zenon DEF Below, Above
<1>5. UpInv
  BY <1>2, <1>3, <1>4, NoCells, Zenon DEF Init, UpInv
<1>6. Waiting = << >> /\ Len(inbox) <= 1
  BY DEF Init, Waiting
<1>7. DownInv
  BY <1>2, <1>3, <1>4, <1>6, NoCells, Zenon DEF Init, DownInv
<1> QED
  BY <1>1, <1>5, <1>7, Zenon DEF Inv

LEMMA InvStep == Inv /\ [Next]_vars => Inv'
BY TypeStep, UpStep, DownStep, Zenon DEF Inv

LEMMA InvAlways == Spec => []Inv
BY InvInit, InvStep, PTL DEF Spec

\* Every variable keeps its type.  For any sizes and lengths: the unflushed
\* cells never exceed the writers' buffers, and what send and receive hold, and
\* all that has gone out or come back, are whole frames.
THEOREM TypeCorrect == Spec => []TypeOK
<1>1. Inv => TypeOK
  BY Zenon DEF Inv
<1> QED
  BY <1>1, InvAlways, PTL

\* A session's datagrams go through the proxy as through a pipe that loses some
\* and changes, invents, repeats and reorders none: for any buffer sizes and
\* any lengths, those that make the server panic included.
THEOREM UpImplementsPipe == Spec => RefinesUpPipe
<1>1. Init => Up!Init
  <2> SUFFICES ASSUME Init PROVE Up!Init
    OBVIOUS
  <2>1. toServer \o writer = << >> /\ sending = << >>
    BY NoCells, Zenon DEF Init
  <2>2. Frames(toServer \o writer) \cup Held(sending) = {}
    BY <2>1, NoCells, Zenon DEF Held
  <2> QED
    BY <2>2, Zenon DEF Init, Up!Init
<1>2. Inv /\ [Next]_vars => [Up!Next]_<<ups, UpPending, toNetwork>>
  <2> SUFFICES ASSUME Inv, [Next]_vars PROVE Up!Next
    OBVIOUS
  <2>1. UpLoses \/ UpAccepts \/ UpDelivers
    BY UpStep, Zenon
  <2>2. ASSUME UpLoses PROVE Up!Lose
    BY <2>2, Zenon DEF UpLoses, UpPending, Up!Lose
  <2>3. ASSUME UpAccepts PROVE Up!Accept
    BY <2>3, Zenon DEF UpAccepts, UpPending, Up!Accept, Up!Number
  <2>4. ASSUME UpDelivers PROVE Up!Deliver
    BY <2>4, Zenon DEF UpDelivers, UpPending, Up!Deliver, Up!Number
  <2> QED
    BY <2>1, <2>2, <2>3, <2>4, Zenon DEF Up!Next
<1> QED
  BY <1>1, <1>2, InvAlways, PTL DEF Spec, RefinesUpPipe, Up!Spec, UpPending

\* ... and so do the ones that come back: a datagram cut by readBuf never gets
\* through, and a Close leaves the reader the beginning of the stream.
THEOREM DownImplementsPipe == Spec => RefinesDownPipe
<1>1. Init => Down!Init
  <2> SUFFICES ASSUME Init PROVE Down!Init
    OBVIOUS
  <2>1. toClient \o buffered = << >> /\ receiving = << >> /\ inbox = << >>
    BY NoCells, Zenon DEF Init
  <2>2. {inbox[i] : i \in DOMAIN inbox} = {}
    BY <2>1, NoCells, Zenon
  <2>3. Frames(toClient \o buffered) \cup Held(receiving) \cup {inbox[i] : i \in DOMAIN inbox} = {}
    BY <2>1, <2>2, NoCells, Zenon DEF Held
  <2>4. MaxUp + downs = MaxUp /\ toCrawler = << >>
    BY ProxyAssumption DEF Init
  <2> QED
    BY <2>3, <2>4, Zenon DEF Down!Init
<1>2. Inv /\ [Next]_vars => [Down!Next]_<<MaxUp + downs, DownPending, toCrawler>>
  <2> SUFFICES ASSUME Inv, [Next]_vars PROVE Down!Next
    OBVIOUS
  <2>1. DownLoses \/ DownAccepts \/ DownDelivers
    BY DownStep, Zenon
  <2>2. ASSUME DownLoses PROVE Down!Lose
    BY <2>2, Zenon DEF DownLoses, DownPending, Down!Lose
  <2>3. ASSUME DownAccepts PROVE Down!Accept
    <3>1. downs \in Nat
      BY DEF Inv, TypeOK
    <3>2. MaxUp + (downs + 1) = MaxUp + downs + 1
      BY <3>1, ProxyAssumption
    <3> QED
      BY <2>3, <3>2, Zenon DEF DownAccepts, DownPending, Down!Accept, Down!Number
  <2>4. ASSUME DownDelivers PROVE Down!Deliver
    BY <2>4, Zenon DEF DownDelivers, DownPending, Down!Deliver, Down!Number
  <2> QED
    BY <2>1, <2>2, <2>3, <2>4, Zenon DEF Down!Next
<1> QED
  BY <1>1, <1>2, InvAlways, PTL DEF Spec, RefinesDownPipe, Down!Spec, DownPending
=============================================================================
