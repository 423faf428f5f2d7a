--------------------------- MODULE FramingProofs ----------------------------
(***************************************************************************)
(* Proofs about the framings and the loops that read through them, for     *)
(* every magic, every size of reads and reports, all payloads, and         *)
(* whatever a stream begins with.                                          *)
(***************************************************************************)
EXTENDS Transport, SequenceTheorems, TLAPS

ReportType == [1 .. ReportPayload -> Nat]

-----------------------------------------------------------------------------
(* Numbers of reports.                                                     *)

LEMMA ReportsAreNotEmpty == ReportPayload \in Nat /\ ReportPayload > 0
BY TransportAssumption

LEMMA Quotient ==
  ASSUME NEW n \in Nat
  PROVE  /\ n \div ReportPayload \in Nat
         /\ n % ReportPayload \in 0 .. ReportPayload - 1
         /\ n = (n \div ReportPayload) * ReportPayload + (n % ReportPayload)
BY ReportsAreNotEmpty, SMTT(60)

LEMMA QuotientsGrow ==
  ASSUME NEW m \in Nat, NEW n \in Nat, m <= n
  PROVE  m \div ReportPayload <= n \div ReportPayload
<1> DEFINE q == m \div ReportPayload
           p == n \div ReportPayload
<1>1. q \in Nat /\ p \in Nat /\ ReportPayload \in Nat /\ ReportPayload > 0
  BY Quotient, ReportsAreNotEmpty
<1>2. q * ReportPayload <= m /\ n < p * ReportPayload + ReportPayload
  BY Quotient, <1>1, SMTT(60)
<1> HIDE DEF q, p
<1>3. q * ReportPayload < (p + 1) * ReportPayload
  BY <1>1, <1>2, SMTT(60)
<1>4. q < p + 1
  BY <1>1, <1>3, SMTT(60)
<1>5. QED BY <1>1, <1>4 DEF q, p

(* More cells do not fit into fewer reports.                               *)
LEMMA ReportsGrow ==
  ASSUME NEW m \in Nat, NEW n \in Nat, m <= n
  PROVE  /\ Usb!ReportsFor(m) \in Nat /\ Usb!ReportsFor(n) \in Nat
         /\ Usb!ReportsFor(m) <= Usb!ReportsFor(n)
<1>1. /\ m + ReportPayload - 1 \in Nat /\ n + ReportPayload - 1 \in Nat
      /\ m + ReportPayload - 1 <= n + ReportPayload - 1
  BY ReportsAreNotEmpty
<1>2. QED BY <1>1, Quotient, QuotientsGrow DEF Usb!ReportsFor

(* There is a report for every cell.                                       *)
LEMMA CellInReports ==
  ASSUME NEW n \in Nat, NEW k \in 0 .. n - 1
  PROVE  (k \div ReportPayload) + 1 \in 1 .. Usb!ReportsFor(n)
<1> DEFINE q == k \div ReportPayload
<1>1. k \in Nat /\ q \in Nat /\ ReportPayload \in Nat /\ ReportPayload > 0
  BY Quotient, ReportsAreNotEmpty
<1>2. (k + ReportPayload) \div ReportPayload = q + 1
  <2>1. /\ k = q * ReportPayload + (k % ReportPayload)
        /\ k % ReportPayload \in 0 .. ReportPayload - 1
    BY <1>1, Quotient
  <2>2. k + ReportPayload = (q + 1) * ReportPayload + (k % ReportPayload)
    BY <2>1, <1>1, SMTT(60)
  <2>3. QED BY <2>1, <2>2, <1>1, SMTT(60)
<1>3. k + ReportPayload \in Nat /\ n + ReportPayload - 1 \in Nat
      /\ k + ReportPayload <= n + ReportPayload - 1
  BY <1>1
<1>4. q + 1 <= Usb!ReportsFor(n)
  BY <1>2, <1>3, QuotientsGrow DEF Usb!ReportsFor
<1>5. Usb!ReportsFor(n) \in Nat
  BY ReportsGrow, <1>1
<1>6. QED BY <1>1, <1>4, <1>5

-----------------------------------------------------------------------------
(* Sequences.                                                              *)

LEMMA FunctionIsSequence ==
  ASSUME NEW S, NEW n \in Nat, NEW f \in [1 .. n -> S]
  PROVE  f \in Seq(S) /\ Len(f) = n
<1>1. f \in Seq(S)
  BY SeqDef
<1>2. Len(f) \in Nat /\ DOMAIN f = 1 .. Len(f) /\ DOMAIN f = 1 .. n
  BY <1>1, LenProperties
<1>3. QED BY <1>1, <1>2

(* What stands in the window of a sequence.                                *)
LEMMA Window ==
  ASSUME NEW S, NEW s \in Seq(S), NEW from \in Nat, NEW to \in from .. Len(s)
  PROVE  /\ SubSeq(s, from + 1, to) \in Seq(S)
         /\ Len(SubSeq(s, from + 1, to)) = to - from
         /\ \A i \in 1 .. to - from : SubSeq(s, from + 1, to)[i] = s[from + i]
<1>1. Len(s) \in Nat /\ to \in Nat
  BY LenProperties
<1>2. \A i \in from + 1 .. to : s[i] \in S
  BY <1>1, ElementOfSeq
<1>3. QED BY <1>1, <1>2, SubSeqProperties

LEMMA FirstElements ==
  ASSUME NEW S, NEW s \in Seq(S), NEW n \in 0 .. Len(s)
  PROVE  /\ SubSeq(s, 1, n) \in Seq(S)
         /\ Len(SubSeq(s, 1, n)) = n
         /\ \A i \in 1 .. n : SubSeq(s, 1, n)[i] = s[i]
<1>1. Len(s) \in Nat /\ n \in Nat
  BY LenProperties
<1>2. \A i \in 1 .. n : s[i] \in S
  BY <1>1, ElementOfSeq
<1>3. QED BY <1>1, <1>2, SubSeqProperties

LEMMA PrefixElements ==
  ASSUME NEW S, NEW s \in Seq(S), NEW t \in Seq(S)
  PROVE  IsPrefix(s, t) <=> /\ Len(s) <= Len(t)
                            /\ \A i \in 1 .. Len(s) : s[i] = t[i]
<1>1. Len(s) \in Nat /\ Len(t) \in Nat
  BY LenProperties
<1>2. ASSUME Len(s) <= Len(t)
      PROVE  SubSeq(s, 1, Len(s)) = SubSeq(t, 1, Len(s))
               <=> \A i \in 1 .. Len(s) : s[i] = t[i]
  <2>1. /\ SubSeq(s, 1, Len(s)) \in Seq(S) /\ Len(SubSeq(s, 1, Len(s))) = Len(s)
        /\ \A i \in 1 .. Len(s) : SubSeq(s, 1, Len(s))[i] = s[i]
    BY <1>1, FirstElements
  <2>2. /\ SubSeq(t, 1, Len(s)) \in Seq(S) /\ Len(SubSeq(t, 1, Len(s))) = Len(s)
        /\ \A i \in 1 .. Len(s) : SubSeq(t, 1, Len(s))[i] = t[i]
    BY <1>1, <1>2, FirstElements
  <2>3. QED BY <2>1, <2>2, SeqEqual
<1>3. QED BY <1>1, <1>2 DEF IsPrefix

LEMMA InstancePrefix == \A s, t : Tcp!IsPrefix(s, t) <=> IsPrefix(s, t)
BY DEF Tcp!IsPrefix, IsPrefix

-----------------------------------------------------------------------------
(* Messages cut into reports.                                              *)

Lengthed(body) == <<Len(body)>> \o body

LEMMA LengthComesFirst ==
  ASSUME NEW body \in Seq(Nat)
  PROVE  /\ Lengthed(body) \in Seq(Nat)
         /\ Len(Lengthed(body)) = 1 + Len(body) /\ Len(body) \in Nat
         /\ Lengthed(body)[1] = Len(body)
         /\ \A k \in 1 .. Len(body) : Lengthed(body)[k + 1] = body[k]
<1>1. Len(body) \in Nat
  BY LenProperties
<1>2. /\ <<Len(body)>> \in Seq(Nat) /\ Len(<<Len(body)>>) = 1
      /\ <<Len(body)>>[1] = Len(body)
  BY <1>1
<1>3. QED BY <1>1, <1>2, ConcatProperties DEF Lengthed

LEMMA ReportsOfMessage ==
  ASSUME NEW body \in Seq(Nat)
  PROVE  /\ Usb!ToReports(body) \in Seq(ReportType)
         /\ Len(Usb!ToReports(body)) = Usb!ReportsFor(1 + Len(body))
         /\ Usb!ReportsFor(1 + Len(body)) \in Nat \ {0}
         /\ \A k \in 0 .. Len(body) :
              Usb!ToReports(body)[(k \div ReportPayload) + 1][(k % ReportPayload) + 1]
                = Lengthed(body)[k + 1]
<1> DEFINE f == Lengthed(body)
           n == Usb!ReportsFor(1 + Len(body))
           reports == Usb!ToReports(body)
<1>1. f \in Seq(Nat) /\ Len(f) = 1 + Len(body) /\ Len(body) \in Nat
  BY LengthComesFirst
<1>2. n \in Nat /\ n >= 1
  <2>1. 0 \in 0 .. (1 + Len(body)) - 1 /\ 1 + Len(body) \in Nat
    BY <1>1
  <2>2. n \in Nat
    BY <2>1, ReportsGrow
  <2>3. (0 \div ReportPayload) + 1 \in 1 .. n
    BY <2>1, CellInReports
  <2>4. QED BY <2>2, <2>3
<1>3. reports = [i \in 1 .. n |-> Usb!Chunk(f, i)]
  BY <1>1 DEF Usb!ToReports, Lengthed
<1>4. \A i \in 1 .. n : Usb!Chunk(f, i) \in ReportType
  <2> SUFFICES ASSUME NEW i \in 1 .. n PROVE Usb!Chunk(f, i) \in ReportType
    OBVIOUS
  <2>1. ASSUME NEW j \in 1 .. ReportPayload
        PROVE  (i - 1) * ReportPayload + j \in Nat /\ (i - 1) * ReportPayload + j >= 1
    <3>1. i - 1 \in Nat /\ ReportPayload \in Nat
      BY <1>2, ReportsAreNotEmpty
    <3>2. (i - 1) * ReportPayload \in Nat
      BY <3>1
    <3>3. QED BY <3>2, <3>1
  <2>2. \A k \in 1 .. Len(f) : f[k] \in Nat
    BY <1>1, ElementOfSeq
  <2>3. QED BY <2>1, <2>2, <1>1 DEF Usb!Chunk, ReportType
<1>5. reports \in [1 .. n -> ReportType]
  BY <1>3, <1>4
<1>6. reports \in Seq(ReportType) /\ Len(reports) = n
  BY <1>2, <1>5, FunctionIsSequence
<1>7. ASSUME NEW k \in 0 .. Len(body)
      PROVE  reports[(k \div ReportPayload) + 1][(k % ReportPayload) + 1] = f[k + 1]
  <2> DEFINE q == k \div ReportPayload
             r == k % ReportPayload
  <2>1. /\ q \in Nat /\ r \in 0 .. ReportPayload - 1 /\ k = q * ReportPayload + r
        /\ k \in Nat
    BY <1>1, Quotient
  <2>2. q + 1 \in 1 .. n
    BY <1>1, CellInReports
  <2> HIDE DEF q, r, f, n, reports
  <2>3. reports[q + 1] = Usb!Chunk(f, q + 1)
    BY <1>3, <2>2
  <2>4. r + 1 \in 1 .. ReportPayload
    BY <2>1, ReportsAreNotEmpty
  <2>5. ((q + 1) - 1) * ReportPayload + (r + 1) = k + 1
    BY <2>1, ReportsAreNotEmpty
  <2>6. k + 1 <= Len(f)
    BY <1>1, <2>1
  <2>7. Usb!Chunk(f, q + 1)[r + 1] = f[k + 1]
    BY <2>4, <2>5, <2>6 DEF Usb!Chunk
  <2>8. QED BY <2>3, <2>7 DEF q, r
<1>8. QED BY <1>2, <1>6, <1>7

(* The first report alone tells how long the message is.                   *)
LEMMA FirstReport ==
  ASSUME NEW body \in Seq(Nat), NEW buf \in Seq(ReportType), buf # <<>>,
         buf[1] = Usb!ToReports(body)[1]
  PROVE  /\ Usb!BodyLen(buf) = Len(body)
         /\ Usb!MessageReports(buf) = Len(Usb!ToReports(body))
<1>1. Len(body) \in Nat /\ 0 \in 0 .. Len(body)
  BY LengthComesFirst
<1>2. Usb!ToReports(body)[(0 \div ReportPayload) + 1][(0 % ReportPayload) + 1]
        = Lengthed(body)[0 + 1]
  BY <1>1, ReportsOfMessage
<1>3. 0 \div ReportPayload = 0 /\ 0 % ReportPayload = 0
  BY ReportsAreNotEmpty
<1>4. Usb!ToReports(body)[1][1] = Len(body)
  BY <1>2, <1>3, LengthComesFirst
<1>5. Usb!BodyLen(buf) = Len(body)
  BY <1>4 DEF Usb!BodyLen
<1>6. QED BY <1>5, ReportsOfMessage DEF Usb!MessageReports

(* A message that USB can frame is found whole at the front of a buffer    *)
(* that begins with its reports, whatever comes behind, and is read as it  *)
(* was written (Packet::to_bytes, scan_frame and Packet::from_bytes of     *)
(* usb.rs).                                                                *)
THEOREM UsbMessagesRoundTrip ==
  ASSUME NEW body \in Seq(Nat), Len(body) \in 1 .. MaxMessageLen,
         NEW buf \in Seq(ReportType), IsPrefix(Usb!ToReports(body), buf)
  PROVE  /\ Usb!ScanFrame(buf) = "complete"
         /\ Usb!MessageReports(buf) = Len(Usb!ToReports(body))
         /\ Usb!FromBytes(buf) = body
<1> DEFINE reports == Usb!ToReports(body)
<1>1. /\ reports \in Seq(ReportType) /\ Len(reports) \in Nat \ {0}
      /\ Len(reports) = Usb!ReportsFor(1 + Len(body))
  BY ReportsOfMessage
<1>2. /\ Len(buf) \in Nat /\ Len(reports) <= Len(buf)
      /\ \A i \in 1 .. Len(reports) : reports[i] = buf[i]
  BY <1>1, PrefixElements, LenProperties
<1>3. buf # <<>>
  BY <1>1, <1>2, EmptySeq
<1>4. Usb!BodyLen(buf) = Len(body) /\ Usb!MessageReports(buf) = Len(reports)
  BY <1>1, <1>2, <1>3, FirstReport
<1>5. Usb!ScanFrame(buf) = "complete"
  BY <1>1, <1>2, <1>3, <1>4, TransportAssumption DEF Usb!ScanFrame
<1>6. ASSUME NEW k \in 1 .. Len(body)
      PROVE  buf[(k \div ReportPayload) + 1][(k % ReportPayload) + 1] = body[k]
  <2>1. Len(body) \in Nat /\ k \in 0 .. Len(body) /\ k \in 0 .. (1 + Len(body)) - 1
    BY LengthComesFirst
  <2>2. (k \div ReportPayload) + 1 \in 1 .. Len(reports)
    BY <1>1, <2>1, CellInReports
  <2>3. reports[(k \div ReportPayload) + 1][(k % ReportPayload) + 1]
          = Lengthed(body)[k + 1]
    BY <2>1, ReportsOfMessage
  <2>4. QED BY <1>2, <2>2, <2>3, LengthComesFirst
<1>7. Usb!FromBytes(buf) = [k \in 1 .. Len(body) |-> body[k]]
  BY <1>4, <1>6 DEF Usb!FromBytes
<1>8. body = [k \in 1 .. Len(body) |-> body[k]]
  BY LenProperties
<1>9. QED BY <1>4, <1>5, <1>7, <1>8

-----------------------------------------------------------------------------
(* Frames of bytes.                                                        *)

LEMMA FrameBytes ==
  ASSUME NEW body \in Seq(Nat)
  PROVE  /\ Tcp!ToBytes(body) \in Seq(Nat)
         /\ Len(Magic) \in Nat /\ Tcp!Header = Len(Magic) + 1
         /\ Len(body) \in Nat
         /\ Len(Tcp!ToBytes(body)) = Tcp!Header + Len(body)
         /\ \A i \in 1 .. Len(Magic) : Tcp!ToBytes(body)[i] = Magic[i]
         /\ Tcp!ToBytes(body)[Tcp!Header] = Len(body)
         /\ \A k \in 1 .. Len(body) : Tcp!ToBytes(body)[Tcp!Header + k] = body[k]
<1> DEFINE n == Len(body)
           magic == Magic
           first == magic \o <<n>>
<1>1. magic \in Seq(Nat) /\ Len(magic) \in Nat /\ n \in Nat
  BY TransportAssumption, LenProperties
<1>2. <<n>> \in Seq(Nat) /\ Len(<<n>>) = 1 /\ <<n>>[1] = n
  BY <1>1
<1> HIDE DEF n, magic
<1>3. /\ first \in Seq(Nat) /\ Len(first) = Len(magic) + 1
      /\ \A i \in 1 .. Len(magic) : first[i] = magic[i]
      /\ first[Len(magic) + 1] = n
  BY <1>1, <1>2, ConcatProperties
<1> HIDE DEF first
<1>4. /\ first \o body \in Seq(Nat) /\ Len(first \o body) = Len(first) + n
      /\ \A i \in 1 .. Len(first) + n :
           (first \o body)[i] =
             IF i <= Len(first) THEN first[i] ELSE body[i - Len(first)]
  BY <1>3, ConcatProperties DEF n
<1>5. Tcp!ToBytes(body) = first \o body /\ Tcp!Header = Len(magic) + 1
  BY DEF Tcp!ToBytes, Tcp!Header, first, magic, n
<1>6. /\ \A i \in 1 .. Len(magic) : (first \o body)[i] = magic[i]
      /\ (first \o body)[Len(magic) + 1] = n
      /\ \A k \in 1 .. n : (first \o body)[(Len(magic) + 1) + k] = body[k]
  BY <1>1, <1>3, <1>4
<1>7. QED BY <1>1, <1>3, <1>4, <1>5, <1>6 DEF magic, n

LEMMA MagicComesFirst ==
  ASSUME NEW body \in Seq(Nat), NEW j \in 1 .. Len(Magic)
  PROVE  /\ j \in 1 .. Len(Tcp!ToBytes(body))
         /\ Tcp!ToBytes(body)[j] = Magic[j]
<1>1. /\ Len(Magic) \in Nat /\ Len(body) \in Nat /\ Tcp!Header = Len(Magic) + 1
      /\ Len(Tcp!ToBytes(body)) = Tcp!Header + Len(body)
  BY FrameBytes
<1>2. Len(Magic) <= Len(Tcp!ToBytes(body)) /\ Len(Tcp!ToBytes(body)) \in Nat
  BY <1>1
<1>3. j \in 1 .. Len(Tcp!ToBytes(body))
  BY <1>1, <1>2
<1>4. Tcp!ToBytes(body)[j] = Magic[j]
  BY FrameBytes, Zenon
<1>5. QED BY <1>3, <1>4

(* A frame is known by its header.                                         *)
LEMMA FrameHeader ==
  ASSUME NEW body \in Seq(Nat), NEW buf \in Seq(Nat), Len(buf) >= Tcp!Header,
         \A i \in 1 .. Tcp!Header : buf[i] = Tcp!ToBytes(body)[i]
  PROVE  /\ IsPrefix(Magic, buf)
         /\ Tcp!FrameLen(buf) = Len(Tcp!ToBytes(body))
         /\ buf[Tcp!Header] = Len(body)
<1>1. Len(buf) \in Nat /\ Magic \in Seq(Nat)
  BY LenProperties, TransportAssumption
<1>2. Len(Magic) \in Nat /\ Tcp!Header = Len(Magic) + 1
  BY FrameBytes
<1>3. \A i \in 1 .. Len(Magic) : Magic[i] = buf[i]
  BY <1>2, FrameBytes
<1>4. IsPrefix(Magic, buf)
  <2>1. Len(Magic) <= Len(buf)
    BY <1>1, <1>2
  <2>2. QED BY <1>1, <1>3, <2>1, PrefixElements
<1>5. Tcp!Header \in 1 .. Tcp!Header
  BY <1>2
<1>6. buf[Tcp!Header] = Len(body)
  BY <1>5, FrameBytes
<1>7. QED BY <1>4, <1>6, FrameBytes DEF Tcp!FrameLen

(* A payload is found whole at the front of a buffer that begins with its  *)
(* frame, whatever comes behind, and is read as it was written             *)
(* (Packet::to_bytes, scan_frame and frame_payload of frame.rs).           *)
THEOREM TcpFramesRoundTrip ==
  ASSUME NEW body \in Seq(Nat), NEW buf \in Seq(Nat),
         IsPrefix(Tcp!ToBytes(body), buf)
  PROVE  /\ Tcp!ScanFrame(buf) = "complete"
         /\ Tcp!FrameLen(buf) = Len(Tcp!ToBytes(body))
         /\ Tcp!FramePayload(buf) = body
<1> DEFINE frame == Tcp!ToBytes(body)
           h == Tcp!Header
<1>0. Len(Magic) \in Nat /\ h = Len(Magic) + 1
  BY FrameBytes
<1>1. /\ frame \in Seq(Nat) /\ h \in Nat /\ h >= 1 /\ Len(body) \in Nat
      /\ Len(frame) = h + Len(body)
      /\ \A k \in 1 .. Len(body) : frame[h + k] = body[k]
  <2>1. /\ frame \in Seq(Nat) /\ Len(body) \in Nat
        /\ Len(frame) = h + Len(body)
        /\ \A k \in 1 .. Len(body) : frame[h + k] = body[k]
    BY FrameBytes, Zenon
  <2>2. QED BY <1>0, <2>1
<1>2. Len(buf) \in Nat
  BY LenProperties
<1>3. Len(frame) <= Len(buf) /\ \A i \in 1 .. Len(frame) : frame[i] = buf[i]
  <2>1. IsPrefix(frame, buf)
    OBVIOUS
  <2> HIDE DEF frame
  <2>2. QED BY <1>1, <2>1, PrefixElements
<1>4. /\ IsPrefix(Magic, buf) /\ Tcp!FrameLen(buf) = Len(frame)
      /\ buf[h] = Len(body)
  <2>1. Len(buf) >= h /\ \A i \in 1 .. h : buf[i] = frame[i]
    BY <1>1, <1>2, <1>3
  <2>2. QED BY <2>1, FrameHeader
<1> HIDE DEF h, frame
<1>5. Tcp!ScanFrame(buf) = "complete"
  BY <1>1, <1>2, <1>3, <1>4, InstancePrefix DEF Tcp!ScanFrame, h
<1>6. Tcp!FramePayload(buf) = body
  <2>1. h \in Nat /\ h + Len(body) \in h .. Len(buf)
    BY <1>1, <1>2, <1>3
  <2>2. /\ SubSeq(buf, h + 1, h + Len(body)) \in Seq(Nat)
        /\ Len(SubSeq(buf, h + 1, h + Len(body))) = (h + Len(body)) - h
        /\ \A i \in 1 .. (h + Len(body)) - h :
              SubSeq(buf, h + 1, h + Len(body))[i] = buf[h + i]
    BY <2>1, Window
  <2>3. (h + Len(body)) - h = Len(body)
    BY <1>1
  <2>4. ASSUME NEW i \in 1 .. Len(body) PROVE buf[h + i] = body[i]
    <3>1. h + i \in 1 .. Len(frame)
      BY <1>1
    <3>2. QED BY <1>1, <1>3, <3>1
  <2>5. SubSeq(buf, h + 1, h + Len(body)) = body
    BY <2>2, <2>3, <2>4, SeqEqual
  <2>6. QED BY <2>5, <1>1, <1>4 DEF Tcp!FramePayload, h
<1>7. QED BY <1>4, <1>5, <1>6 DEF frame

-----------------------------------------------------------------------------
(* Both readers as one.  What they have in common is all that the proofs   *)
(* about the transport need.                                               *)

Cell == IF via = "tcp" THEN Nat ELSE ReportType
Sendable == IF via = "tcp" THEN Bodies ELSE UsbBodies
Buffer == SubSeq(stream, pos + 1, read)
Rest == SubSeq(stream, pos + 1, Len(stream))

Scan == IF via = "tcp" THEN Tcp!ScanFrame(Buffer) ELSE Usb!ScanFrame(Buffer)
Payload == IF via = "tcp" THEN Tcp!FramePayload(Buffer) ELSE Usb!FromBytes(Buffer)
Size == IF via = "tcp" THEN Tcp!FrameLen(Buffer) ELSE Usb!MessageReports(Buffer)

Sends ==
  /\ Len(sent) < MaxSent
  /\ \E body \in Sendable : /\ sent' = Append(sent, body)
                            /\ stream' = stream \o Framed(body)
  /\ starts' = Append(starts, Len(stream))
  /\ UNCHANGED <<via, up, delivered, read, pos, lost>>

Loses ==
  /\ via = "usb" /\ lost < MaxLost
  /\ \E i \in read + 1 .. Len(stream) : stream' = Usb!RemoveAt(stream, i)
  /\ lost' = lost + 1
  /\ UNCHANGED <<via, up, sent, delivered, read, pos, starts>>

Reads ==
  /\ Scan = "incomplete"
  /\ read' \in read + 1 .. Len(stream)
  /\ via = "usb" => read' = read + 1
  /\ UNCHANGED <<via, up, sent, delivered, stream, pos, lost, starts>>

Skips ==
  /\ Scan = "desync"
  /\ pos' = pos + 1
  /\ UNCHANGED <<via, up, sent, delivered, stream, read, lost, starts>>

Delivers ==
  /\ Scan = "complete"
  /\ delivered' = Append(delivered, Payload)
  /\ pos' = pos + Size
  /\ UNCHANGED <<via, up, sent, stream, read, lost, starts>>

Rests ==
  /\ up' \in {up, FALSE}
  /\ UNCHANGED <<via, sent, delivered, stream, read, pos, lost, starts>>

Typed ==
  /\ TypeOK /\ BufferIsBounded
  /\ via \in {"tcp", "usb"}
  /\ stream \in Seq(Cell) /\ sent \in Seq(Sendable) /\ starts \in Seq(Nat)

LEMMA StepsOfBoth ==
  ASSUME Typed, [Next]_vars
  PROVE  Sends \/ Loses \/ Reads \/ Skips \/ Delivers \/ Rests
<1>1. /\ via \in {"tcp", "usb"} /\ read \in Nat /\ Len(stream) \in Nat
  BY LenProperties DEF Typed, TypeOK
<1>2. Tcp!Buffer = Buffer /\ Usb!Buffer = Buffer
  BY DEF Tcp!Buffer, Usb!Buffer, Buffer
<1>3. CASE Reader
  <2>1. CASE via = "tcp"
    <3>1. Tcp!Read \/ Tcp!Slide \/ Tcp!Deliver
      BY <1>3, <2>1 DEF Reader
    <3>2. UNCHANGED <<via, up, lost>>
      BY <1>3, <2>1 DEF Reader
    <3>3. Tcp!Read => Reads
      <4>1. ASSUME NEW n \in 1 .. ChunkSize, read + n <= Len(stream), read' = read + n
            PROVE  read' \in read + 1 .. Len(stream)
        <5>1. n \in Nat /\ n >= 1
          BY TransportAssumption
        <5>2. QED BY <1>1, <4>1, <5>1
      <4>2. QED BY <1>2, <2>1, <3>2, <4>1 DEF Tcp!Read, Reads, Scan
    <3>4. Tcp!Slide => Skips
      BY <1>2, <2>1, <3>2 DEF Tcp!Slide, Skips, Scan
    <3>5. Tcp!Deliver => Delivers
      BY <1>2, <2>1, <3>2 DEF Tcp!Deliver, Delivers, Scan, Payload, Size
    <3>6. QED BY <3>1, <3>3, <3>4, <3>5
  <2>2. CASE via = "usb"
    <3>1. Usb!Read \/ Usb!Skip \/ Usb!Deliver
      BY <1>3, <2>2 DEF Reader
    <3>2. UNCHANGED <<via, up>>
      BY <1>3, <2>2 DEF Reader
    <3>3. Usb!Read => Reads
      BY <1>1, <1>2, <2>2, <3>2 DEF Usb!Read, Reads, Scan
    <3>4. Usb!Skip => Skips
      BY <1>2, <2>2, <3>2 DEF Usb!Skip, Skips, Scan
    <3>5. Usb!Deliver => Delivers
      BY <1>2, <2>2, <3>2 DEF Usb!Deliver, Delivers, Scan, Payload, Size
    <3>6. QED BY <3>1, <3>3, <3>4, <3>5
  <2>3. QED BY <1>1, <2>1, <2>2
<1>4. CASE Writer
  <2>1. CASE via = "tcp"
    <3>1. Tcp!Send /\ UNCHANGED <<via, up, lost>>
      BY <1>4, <2>1 DEF Writer
    <3>2. Sends
      BY <2>1, <3>1 DEF Tcp!Send, Sends, Sendable, Framed
    <3>3. QED BY <3>2
  <2>2. CASE via = "usb"
    <3>1. (Usb!Send \/ Usb!Lose) /\ UNCHANGED <<via, up>>
      BY <1>4, <2>2 DEF Writer
    <3>2. Usb!Send => Sends
      BY <2>2, <3>1 DEF Usb!Send, Sends, Sendable, Framed
    <3>3. Usb!Lose => Loses
      BY <2>2, <3>1 DEF Usb!Lose, Loses
    <3>4. QED BY <3>1, <3>2, <3>3
  <2>3. QED BY <1>1, <2>1, <2>2
<1>5. CASE HangUp
  BY <1>5 DEF HangUp, Rests
<1>6. CASE UNCHANGED vars
  BY <1>6 DEF vars, Rests
<1>7. QED BY <1>3, <1>4, <1>5, <1>6 DEF Next

(* What the reader has before it.                                          *)
LEMMA BufferElements ==
  ASSUME Typed
  PROVE  /\ pos \in Nat /\ read \in Nat /\ Len(stream) \in Nat
         /\ pos <= read /\ read <= Len(stream)
         /\ Buffer \in Seq(Cell) /\ Len(Buffer) = read - pos
         /\ \A i \in 1 .. read - pos : Buffer[i] = stream[pos + i]
         /\ Rest \in Seq(Cell) /\ Len(Rest) = Len(stream) - pos
         /\ \A i \in 1 .. Len(stream) - pos : Rest[i] = stream[pos + i]
<1>1. /\ pos \in Nat /\ read \in Nat /\ Len(stream) \in Nat
      /\ pos <= read /\ read <= Len(stream)
  BY LenProperties DEF Typed, TypeOK
<1>2. stream \in Seq(Cell)
  BY DEF Typed
<1>3. read \in pos .. Len(stream) /\ Len(stream) \in pos .. Len(stream)
  BY <1>1
<1> DEFINE c == Cell
<1>4. stream \in Seq(c)
  BY <1>2
<1> HIDE DEF c
<1>5. /\ Buffer \in Seq(c) /\ Len(Buffer) = read - pos
      /\ \A i \in 1 .. read - pos : Buffer[i] = stream[pos + i]
  BY <1>1, <1>3, <1>4, Window DEF Buffer
<1>6. /\ Rest \in Seq(c) /\ Len(Rest) = Len(stream) - pos
      /\ \A i \in 1 .. Len(stream) - pos : Rest[i] = stream[pos + i]
  BY <1>1, <1>3, <1>4, Window DEF Rest
<1>7. QED BY <1>1, <1>5, <1>6 DEF c

(* A scan that finds something finds it in the buffer, and a USB scan that *)
(* wants more does not want more than the longest message has.             *)
LEMMA ScanTells ==
  ASSUME Typed
  PROVE  /\ Scan # "incomplete" => Len(Buffer) >= 1
         /\ Scan = "complete" => Payload \in Seq(Nat) /\ Size \in 1 .. Len(Buffer)
         /\ via = "usb" /\ Scan = "incomplete" =>
              Len(Buffer) < Usb!ReportsFor(1 + MaxMessageLen)
<1> DEFINE buf == Buffer
           n == Len(buf)
<1>1. /\ via \in {"tcp", "usb"} /\ buf \in Seq(Cell) /\ n \in Nat
      /\ Len(Magic) \in Nat /\ Tcp!Header = Len(Magic) + 1
  <2>1. buf \in Seq(Cell) /\ via \in {"tcp", "usb"}
    BY BufferElements DEF Typed
  <2>2. Len(Magic) \in Nat
    BY TransportAssumption, LenProperties
  <2>3. n \in Nat
    <3> DEFINE c == Cell
    <3>1. buf \in Seq(c)
      BY <2>1
    <3> HIDE DEF c, buf
    <3>2. QED BY <3>1, LenProperties
  <2>4. QED BY <2>1, <2>2, <2>3 DEF Tcp!Header
<1>2. CASE via = "tcp"
  <2>1. buf \in Seq(Nat) /\ Scan = Tcp!ScanFrame(buf) /\ via # "usb"
    BY <1>1, <1>2 DEF Cell, Scan
  <2>2. Payload = Tcp!FramePayload(buf) /\ Size = Tcp!FrameLen(buf)
    BY <1>2 DEF Payload, Size
  <2> HIDE DEF buf, n
  <2>3. Scan # "incomplete" => n >= Tcp!Header
    BY <1>1, <2>1 DEF Tcp!ScanFrame, n
  <2>4. ASSUME Scan = "complete"
        PROVE  Payload \in Seq(Nat) /\ Size \in 1 .. n
    <3> DEFINE h == Tcp!Header
    <3>1. h \in 1 .. n /\ h \in Nat /\ h >= 1
      BY <1>1, <2>3, <2>4
    <3>2. buf[h] \in Nat
      BY <2>1, <3>1, ElementOfSeq DEF n
    <3>3. n >= h + buf[h]
      BY <1>1, <2>1, <2>4, <3>1, <3>2 DEF Tcp!ScanFrame, n
    <3>4. Size = h + buf[h]
      BY <2>2 DEF Tcp!FrameLen
    <3> HIDE DEF h
    <3>5. Size \in 1 .. n /\ Size \in h .. Len(buf)
      BY <1>1, <3>1, <3>2, <3>3, <3>4 DEF n
    <3>6. SubSeq(buf, h + 1, Size) \in Seq(Nat)
      BY <2>1, <3>1, <3>5, Window
    <3>7. Payload = SubSeq(buf, h + 1, Size)
      BY <2>2 DEF Tcp!FramePayload, h
    <3>8. QED BY <3>5, <3>6, <3>7
  <2>5. QED BY <1>1, <2>1, <2>3, <2>4 DEF n, buf
<1>3. CASE via = "usb"
  <2>1. buf \in Seq(ReportType) /\ Scan = Usb!ScanFrame(buf) /\ via # "tcp"
    BY <1>1, <1>3 DEF Cell, Scan
  <2>2. Payload = Usb!FromBytes(buf) /\ Size = Usb!MessageReports(buf)
    BY <1>3 DEF Payload, Size
  <2> HIDE DEF buf
  <2>3. buf # <<>> => n >= 1
    BY <1>1, <2>1, EmptySeq
  <2>4. Scan # "incomplete" => buf # <<>>
    BY <2>1 DEF Usb!ScanFrame
  <2>5. \A i \in 1 .. n : \A j \in 1 .. ReportPayload : buf[i][j] \in Nat
    <3>1. \A i \in 1 .. n : buf[i] \in ReportType
      BY <2>1, ElementOfSeq
    <3>2. QED BY <3>1 DEF ReportType
  <2> DEFINE b == Usb!BodyLen(buf)
  <2>6. buf # <<>> => b \in Nat
    BY <2>3, <2>5, <1>1, ReportsAreNotEmpty DEF Usb!BodyLen
  <2>7. Size = Usb!ReportsFor(1 + b)
    BY <2>2 DEF Usb!MessageReports
  <2>8. MaxMessageLen \in Nat /\ Usb!ReportsFor(1 + MaxMessageLen) >= 1
        /\ Usb!ReportsFor(1 + MaxMessageLen) \in Nat
    <3>1. MaxMessageLen \in Nat
      BY TransportAssumption
    <3>2. 1 + MaxMessageLen \in Nat /\ 0 \in 0 .. (1 + MaxMessageLen) - 1
      BY <3>1
    <3>3. /\ Usb!ReportsFor(1 + MaxMessageLen) \in Nat
          /\ (0 \div ReportPayload) + 1 \in 1 .. Usb!ReportsFor(1 + MaxMessageLen)
      BY <3>2, CellInReports, ReportsGrow
    <3>4. 0 \div ReportPayload \in Nat
      BY Quotient
    <3>5. QED BY <3>1, <3>3, <3>4
  <2> HIDE DEF b
  <2>9. ASSUME Scan = "complete"
        PROVE  Payload \in Seq(Nat) /\ Size \in 1 .. n
    <3>1. buf # <<>> /\ b \in Nat /\ n >= 1
      BY <2>3, <2>4, <2>6, <2>9
    <3>2. n >= Size
      <4>1. ~ (n < Size)
        BY <2>1, <2>2, <2>9 DEF Usb!ScanFrame, n
      <4>2. Size \in Nat
        BY <2>7, <3>1, ReportsGrow
      <4>3. QED BY <1>1, <4>1, <4>2
    <3>3. ASSUME NEW k \in 0 .. b
          PROVE  /\ (k \div ReportPayload) + 1 \in 1 .. Size
                 /\ (k % ReportPayload) + 1 \in 1 .. ReportPayload
      <4>1. k \in 0 .. (1 + b) - 1 /\ 1 + b \in Nat /\ k \in Nat
        BY <3>1
      <4>2. (k \div ReportPayload) + 1 \in 1 .. Size
        BY <2>7, <4>1, CellInReports
      <4>3. k % ReportPayload \in 0 .. ReportPayload - 1
        BY <4>1, Quotient
      <4>4. QED BY <4>2, <4>3, ReportsAreNotEmpty
    <3>4. Size \in 1 .. n
      <4>1. (0 \div ReportPayload) + 1 \in 1 .. Size /\ 0 \div ReportPayload \in Nat
        BY <3>1, <3>3, Quotient
      <4>2. Size \in Nat
        BY <2>7, <3>1, ReportsGrow
      <4>3. QED BY <1>1, <3>2, <4>1, <4>2
    <3>5. \A k \in 1 .. b :
            buf[(k \div ReportPayload) + 1][(k % ReportPayload) + 1] \in Nat
      <4> SUFFICES ASSUME NEW k \in 1 .. b
                   PROVE  buf[(k \div ReportPayload) + 1][(k % ReportPayload) + 1]
                            \in Nat
        OBVIOUS
      <4>1. /\ (k \div ReportPayload) + 1 \in 1 .. Size
            /\ (k % ReportPayload) + 1 \in 1 .. ReportPayload
        BY <3>1, <3>3
      <4>2. (k \div ReportPayload) + 1 \in 1 .. n
        BY <1>1, <3>4, <4>1
      <4>3. QED BY <2>5, <4>1, <4>2
    <3>6. Usb!FromBytes(buf) \in [1 .. b -> Nat]
      BY <3>5 DEF Usb!FromBytes, b
    <3>7. Payload \in Seq(Nat)
      BY <2>2, <3>1, <3>6, FunctionIsSequence
    <3>8. QED BY <3>4, <3>7
  <2>10. ASSUME Scan = "incomplete"
         PROVE  n < Usb!ReportsFor(1 + MaxMessageLen)
    <3>1. CASE buf = <<>>
      BY <2>8, <3>1 DEF n
    <3>2. CASE buf # <<>>
      <4>1. b \in Nat /\ b <= MaxMessageLen /\ n < Size
        BY <2>1, <2>2, <2>6, <2>8, <2>10, <3>2 DEF Usb!ScanFrame, b, n
      <4>2. 1 + b \in Nat /\ 1 + MaxMessageLen \in Nat /\ 1 + b <= 1 + MaxMessageLen
        BY <2>8, <4>1
      <4>3. Size <= Usb!ReportsFor(1 + MaxMessageLen) /\ Size \in Nat
        BY <2>7, <4>2, ReportsGrow
      <4>4. QED BY <1>1, <2>8, <4>1, <4>3
    <3>3. QED BY <3>1, <3>2
  <2>11. QED BY <2>3, <2>4, <2>9, <2>10 DEF buf, n
<1>4. QED BY <1>1, <1>2, <1>3

(* What stands whole at the front is read as it was written, however much  *)
(* of what is behind it is in the buffer.                                  *)
LEMMA FrontIsRead ==
  ASSUME Typed, NEW body \in Sendable, IsPrefix(Framed(body), Rest),
         Scan # "incomplete"
  PROVE  Scan = "complete" /\ Payload = body /\ Size = Len(Framed(body))
<1> DEFINE buf == Buffer
           frame == Framed(body)
<1>1. /\ via \in {"tcp", "usb"} /\ body \in Seq(Nat)
      /\ via = "usb" => Len(body) \in 1 .. MaxMessageLen
  <2>1. Bodies \subseteq Seq(Nat)
    BY TransportAssumption
  <2>2. QED BY <2>1 DEF Typed, Sendable, UsbBodies
<1>2. /\ buf \in Seq(Cell) /\ Len(buf) \in Nat /\ Len(buf) >= 1
      /\ Len(buf) <= Len(Rest) /\ Len(Rest) \in Nat /\ Rest \in Seq(Cell)
      /\ \A i \in 1 .. Len(buf) : buf[i] = Rest[i]
  <2>1. buf \in Seq(Cell) /\ Rest \in Seq(Cell)
    BY BufferElements
  <2>2. /\ pos \in Nat /\ read \in Nat /\ Len(stream) \in Nat
        /\ pos <= read /\ read <= Len(stream)
        /\ Len(buf) = read - pos /\ Len(Rest) = Len(stream) - pos
    BY BufferElements
  <2>3. Len(buf) >= 1
    BY ScanTells
  <2>4. /\ \A i \in 1 .. read - pos : buf[i] = stream[pos + i]
        /\ \A i \in 1 .. Len(stream) - pos : Rest[i] = stream[pos + i]
    BY BufferElements
  <2> HIDE DEF buf
  <2>5. \A i \in 1 .. Len(buf) : buf[i] = Rest[i]
    BY <2>2, <2>4
  <2>6. QED BY <2>1, <2>2, <2>3, <2>5
<1>3. frame \in Seq(Cell) /\ Len(frame) \in Nat
  <2>1. via = "tcp" => frame \in Seq(Nat) /\ Len(frame) \in Nat
    BY <1>1, FrameBytes, LenProperties DEF Framed
  <2>2. via = "usb" => frame \in Seq(ReportType) /\ Len(frame) \in Nat
    BY <1>1, ReportsOfMessage DEF Framed
  <2>3. QED BY <1>1, <2>1, <2>2 DEF Cell
<1>4. Len(frame) <= Len(Rest) /\ \A i \in 1 .. Len(frame) : frame[i] = Rest[i]
  <2> DEFINE c == Cell
             r == Rest
  <2>1. r \in Seq(c) /\ frame \in Seq(c) /\ IsPrefix(frame, r)
    BY <1>2, <1>3
  <2> HIDE DEF c, r, frame
  <2>2. QED BY <2>1, PrefixElements DEF r
<1>5. ASSUME Len(frame) <= Len(buf)
      PROVE  IsPrefix(frame, buf)
  <2> DEFINE c == Cell
  <2>1. buf \in Seq(c) /\ frame \in Seq(c)
    BY <1>2, <1>3
  <2>2. \A i \in 1 .. Len(frame) : frame[i] = buf[i]
    BY <1>2, <1>3, <1>4, <1>5
  <2> HIDE DEF c, buf, frame
  <2>3. QED BY <1>5, <2>1, <2>2, PrefixElements
<1>6. CASE via = "tcp"
  <2>1. /\ frame = Tcp!ToBytes(body) /\ Scan = Tcp!ScanFrame(buf)
        /\ Payload = Tcp!FramePayload(buf) /\ Size = Tcp!FrameLen(buf)
        /\ buf \in Seq(Nat)
    BY <1>2, <1>6 DEF Framed, Scan, Payload, Size, Cell
  <2> HIDE DEF frame, buf
  <2>2. /\ Len(Magic) \in Nat /\ Tcp!Header = Len(Magic) + 1 /\ Len(body) \in Nat
        /\ Len(frame) = Tcp!Header + Len(body)
    BY <1>1, <2>1, FrameBytes
  <2>3. Len(buf) >= Tcp!Header
    BY <1>2, <2>1, <2>2 DEF Tcp!ScanFrame
  <2>4. \A i \in 1 .. Tcp!Header : buf[i] = Tcp!ToBytes(body)[i]
    BY <1>2, <1>4, <2>1, <2>2, <2>3
  <2>5. buf[Tcp!Header] = Len(body)
    BY <1>1, <2>1, <2>3, <2>4, FrameHeader
  <2>6. IsPrefix(Magic, buf)
    BY <1>1, <2>1, <2>3, <2>4, FrameHeader
  <2>7. Len(frame) <= Len(buf)
    BY <1>2, <2>1, <2>2, <2>3, <2>5, <2>6, InstancePrefix DEF Tcp!ScanFrame
  <2>8. IsPrefix(Tcp!ToBytes(body), buf)
    BY <1>5, <2>1, <2>7
  <2>9. /\ Tcp!ScanFrame(buf) = "complete" /\ Tcp!FramePayload(buf) = body
        /\ Tcp!FrameLen(buf) = Len(Tcp!ToBytes(body))
    BY <1>1, <2>1, <2>8, TcpFramesRoundTrip
  <2>10. QED BY <2>1, <2>9 DEF frame
<1>7. CASE via = "usb"
  <2>1. /\ frame = Usb!ToReports(body) /\ Scan = Usb!ScanFrame(buf)
        /\ Payload = Usb!FromBytes(buf) /\ Size = Usb!MessageReports(buf)
        /\ buf \in Seq(ReportType)
    BY <1>2, <1>7 DEF Framed, Scan, Payload, Size, Cell
  <2> HIDE DEF frame, buf
  <2>2. Len(frame) \in Nat \ {0}
    BY <1>1, <2>1, ReportsOfMessage
  <2>3. buf # <<>> /\ buf[1] = Usb!ToReports(body)[1]
    BY <1>2, <1>4, <2>1, <2>2
  <2>4. Usb!BodyLen(buf) = Len(body) /\ Usb!MessageReports(buf) = Len(frame)
    BY <1>1, <2>1, <2>3, FirstReport
  <2>5. Len(body) \in 1 .. MaxMessageLen /\ MaxMessageLen \in Nat
    BY <1>1, <1>7, TransportAssumption
  <2>6. Len(frame) <= Len(buf)
    BY <1>2, <2>1, <2>2, <2>3, <2>4, <2>5 DEF Usb!ScanFrame
  <2>7. IsPrefix(Usb!ToReports(body), buf)
    BY <1>5, <2>1, <2>6
  <2>8. /\ Usb!ScanFrame(buf) = "complete" /\ Usb!FromBytes(buf) = body
        /\ Usb!MessageReports(buf) = Len(Usb!ToReports(body))
    BY <1>1, <2>1, <2>5, <2>7, UsbMessagesRoundTrip
  <2>9. QED BY <2>1, <2>8 DEF frame
<1>8. QED BY <1>1, <1>6, <1>7

-----------------------------------------------------------------------------
(* The types are kept.                                                     *)

LEMMA FramedType ==
  ASSUME via \in {"tcp", "usb"}, NEW body \in Sendable
  PROVE  Framed(body) \in Seq(Cell) /\ Len(Framed(body)) \in Nat \ {0}
<1>1. body \in Seq(Nat)
  BY TransportAssumption DEF Sendable, UsbBodies
<1>2. CASE via = "tcp"
  <2>1. Framed(body) = Tcp!ToBytes(body) /\ Cell = Nat
    BY <1>2 DEF Framed, Cell
  <2>2. /\ Tcp!ToBytes(body) \in Seq(Nat) /\ Len(Magic) \in Nat /\ Len(body) \in Nat
        /\ Len(Tcp!ToBytes(body)) = (Len(Magic) + 1) + Len(body)
    BY <1>1, FrameBytes
  <2>3. QED BY <2>1, <2>2
<1>3. CASE via = "usb"
  BY <1>1, <1>3, ReportsOfMessage DEF Framed, Cell
<1>4. QED BY <1>2, <1>3

LEMMA RemovedType ==
  ASSUME NEW S, NEW s \in Seq(S), NEW i \in 1 .. Len(s)
  PROVE  Usb!RemoveAt(s, i) \in Seq(S) /\ Len(Usb!RemoveAt(s, i)) = Len(s) - 1
<1> DEFINE front == SubSeq(s, 1, i - 1)
           back == SubSeq(s, i + 1, Len(s))
<1>1. Len(s) \in Nat /\ i \in Nat /\ i - 1 \in Nat
  BY LenProperties
<1>2. front \in Seq(S) /\ Len(front) = i - 1
  <2>1. i - 1 \in 0 .. Len(s)
    BY <1>1
  <2>2. QED BY <2>1, FirstElements
<1>3. back \in Seq(S) /\ Len(back) = Len(s) - i
  <2>1. Len(s) \in i .. Len(s)
    BY <1>1
  <2>2. QED BY <1>1, <2>1, Window, Zenon
<1>4. Usb!RemoveAt(s, i) = front \o back
  BY DEF Usb!RemoveAt
<1> HIDE DEF front, back
<1>5. front \o back \in Seq(S) /\ Len(front \o back) = Len(front) + Len(back)
  BY <1>2, <1>3, ConcatProperties
<1>6. QED BY <1>1, <1>2, <1>3, <1>4, <1>5

LEMMA LongestMessage == Usb!ReportsFor(1 + MaxMessageLen) \in Nat
<1>1. 1 + MaxMessageLen \in Nat
  BY TransportAssumption
<1>2. QED BY <1>1, ReportsGrow

LEMMA InitTyped == Init => Typed
<1> SUFFICES ASSUME Init PROVE Typed
  OBVIOUS
<1>1. /\ up = TRUE /\ sent = <<>> /\ delivered = <<>> /\ starts = <<>>
      /\ read = 0 /\ pos = 0 /\ lost = 0 /\ via \in {"tcp", "usb"}
  BY DEF Init, Tcp!Init, Usb!Init
<1>2. stream \in Seq(Cell)
  BY TransportAssumption DEF Init, Tcp!Init, Usb!Init, Cell, ReportType
<1>3. Len(stream) \in Nat
  BY <1>2, <1>1, LenProperties DEF Cell
<1>4. MaxSent \in Nat /\ MaxLost \in Nat /\ Usb!ReportsFor(1 + MaxMessageLen) \in Nat
  BY TransportAssumption, LongestMessage
<1>5. TypeOK /\ BufferIsBounded
  BY <1>1, <1>3, <1>4 DEF TypeOK, BufferIsBounded
<1>6. QED BY <1>1, <1>2, <1>5 DEF Typed

LEMMA NextTyped == Typed /\ [Next]_vars => Typed'
<1> SUFFICES ASSUME Typed, [Next]_vars PROVE Typed'
  OBVIOUS
<1>1. /\ pos \in Nat /\ read \in Nat /\ Len(stream) \in Nat /\ pos <= read
      /\ read <= Len(stream) /\ Len(Buffer) = read - pos
  BY BufferElements
<1>2. /\ via \in {"tcp", "usb"} /\ stream \in Seq(Cell) /\ sent \in Seq(Sendable)
      /\ starts \in Seq(Nat) /\ delivered \in Seq(Seq(Nat)) /\ up \in BOOLEAN
      /\ lost \in 0 .. MaxLost /\ MaxLost \in Nat /\ MaxSent \in Nat
      /\ Len(sent) <= MaxSent
  BY TransportAssumption DEF Typed, TypeOK
<1>3. /\ via = "usb" => read - pos <= Usb!ReportsFor(1 + MaxMessageLen)
      /\ Usb!ReportsFor(1 + MaxMessageLen) \in Nat
  BY LongestMessage DEF Typed, BufferIsBounded
<1>4. via' = via
  BY StepsOfBoth DEF Sends, Loses, Reads, Skips, Delivers, Rests
<1>5. Cell' = Cell /\ Sendable' = Sendable
  BY <1>4 DEF Cell, Sendable
<1>6. CASE Sends
  <2>1. PICK body \in Sendable :
          sent' = Append(sent, body) /\ stream' = stream \o Framed(body)
    BY <1>6 DEF Sends
  <2>2. /\ Len(sent) < MaxSent /\ starts' = Append(starts, Len(stream))
        /\ UNCHANGED <<via, up, delivered, read, pos, lost>>
    BY <1>6 DEF Sends
  <2> DEFINE c == Cell
             b == Sendable
             f == Framed(body)
  <2>3. f \in Seq(c) /\ Len(f) \in Nat /\ stream \in Seq(c) /\ sent \in Seq(b)
    BY <1>2, FramedType
  <2> HIDE DEF c, b, f
  <2>4. stream' \in Seq(c) /\ Len(stream') = Len(stream) + Len(f)
    BY <2>1, <2>3, ConcatProperties DEF f
  <2>5. sent' \in Seq(b) /\ Len(sent') = Len(sent) + 1 /\ Len(sent) \in Nat
    BY <2>1, <2>3, AppendProperties, LenProperties DEF b
  <2>6. starts' \in Seq(Nat)
    BY <1>1, <1>2, <2>2, AppendProperties
  <2>7. TypeOK' /\ BufferIsBounded'
    BY <1>1, <1>2, <1>3, <2>2, <2>3, <2>4, <2>5 DEF TypeOK, BufferIsBounded
  <2>8. QED BY <1>2, <1>5, <2>2, <2>4, <2>5, <2>6, <2>7 DEF Typed, c, b
<1>7. CASE Loses
  <2>1. PICK i \in read + 1 .. Len(stream) : stream' = Usb!RemoveAt(stream, i)
    BY <1>7 DEF Loses
  <2>2. /\ lost < MaxLost /\ lost' = lost + 1
        /\ UNCHANGED <<via, up, sent, delivered, read, pos, starts>>
    BY <1>7 DEF Loses
  <2> DEFINE c == Cell
  <2>3. stream \in Seq(c) /\ i \in 1 .. Len(stream) /\ read + 1 <= Len(stream)
    BY <1>1, <1>2
  <2> HIDE DEF c
  <2>4. stream' \in Seq(c) /\ Len(stream') = Len(stream) - 1
    BY <2>1, <2>3, RemovedType
  <2>5. TypeOK' /\ BufferIsBounded'
    BY <1>1, <1>2, <1>3, <2>2, <2>3, <2>4 DEF TypeOK, BufferIsBounded
  <2>6. QED BY <1>2, <1>5, <2>2, <2>4, <2>5 DEF Typed, c
<1>8. CASE Reads
  <2>1. /\ Scan = "incomplete" /\ read' \in read + 1 .. Len(stream)
        /\ via = "usb" => read' = read + 1
        /\ UNCHANGED <<via, up, sent, delivered, stream, pos, lost, starts>>
    BY <1>8 DEF Reads
  <2>2. via = "usb" => read - pos < Usb!ReportsFor(1 + MaxMessageLen)
    BY <1>1, <2>1, ScanTells
  <2>3. TypeOK' /\ BufferIsBounded'
    BY <1>1, <1>2, <1>3, <2>1, <2>2 DEF TypeOK, BufferIsBounded
  <2>4. QED BY <1>2, <1>5, <2>1, <2>3 DEF Typed
<1>9. CASE Skips
  <2>1. /\ pos' = pos + 1 /\ Scan = "desync"
        /\ UNCHANGED <<via, up, sent, delivered, stream, read, lost, starts>>
    BY <1>9 DEF Skips
  <2>2. read - pos >= 1
    BY <1>1, <2>1, ScanTells
  <2>3. TypeOK' /\ BufferIsBounded'
    BY <1>1, <1>2, <1>3, <2>1, <2>2 DEF TypeOK, BufferIsBounded
  <2>4. QED BY <1>2, <1>5, <2>1, <2>3 DEF Typed
<1>10. CASE Delivers
  <2>1. /\ pos' = pos + Size /\ delivered' = Append(delivered, Payload)
        /\ UNCHANGED <<via, up, sent, stream, read, lost, starts>>
    BY <1>10 DEF Delivers
  <2>2. Size \in 1 .. read - pos /\ Payload \in Seq(Nat)
    BY <1>1, <1>10, ScanTells DEF Delivers
  <2>3. delivered' \in Seq(Seq(Nat))
    BY <1>2, <2>1, <2>2, AppendProperties
  <2>4. TypeOK' /\ BufferIsBounded'
    BY <1>1, <1>2, <1>3, <2>1, <2>2, <2>3 DEF TypeOK, BufferIsBounded
  <2>5. QED BY <1>2, <1>5, <2>1, <2>4 DEF Typed
<1>11. CASE Rests
  <2>1. /\ up' \in BOOLEAN
        /\ UNCHANGED <<via, sent, delivered, stream, read, pos, lost, starts>>
    BY <1>2, <1>11 DEF Rests
  <2>2. TypeOK' /\ BufferIsBounded'
    BY <1>1, <1>2, <1>3, <2>1 DEF TypeOK, BufferIsBounded
  <2>3. QED BY <1>2, <1>5, <2>1, <2>2 DEF Typed
<1>12. QED BY <1>6, <1>7, <1>8, <1>9, <1>10, <1>11, StepsOfBoth

LEMMA AlwaysTyped == Spec => []Typed
BY InitTyped, NextTyped, PTL DEF Spec

(* The reader drains no more than it has read and reads no more than was   *)
(* written, whatever the bytes are; what it delivers is bytes.             *)
THEOREM TransportTypes == Spec => []TypeOK
<1>1. Typed => TypeOK
  BY DEF Typed
<1>2. QED BY <1>1, AlwaysTyped, PTL

(* The USB reader's buffer never holds more reports than the longest       *)
(* message has, whatever arrives (usb.rs 63-65).                           *)
THEOREM TransportIsBounded == Spec => []BufferIsBounded
<1>1. Typed => BufferIsBounded
  BY DEF Typed
<1>2. QED BY <1>1, AlwaysTyped, PTL

(* A reader at the start of a message, however it got there, delivers this *)
(* message next and then stands behind it.                                 *)
THEOREM TransportStaysInStep == Spec => StaysInStep
<1>1. Typed /\ [Next]_vars =>
        [pos' # pos => \A m \in AtFront :
           /\ delivered' = Append(delivered, sent[m])
           /\ pos' - pos = Len(Framed(sent[m]))]_vars
  <2> SUFFICES ASSUME Typed, [Next]_vars, pos' # pos, NEW m \in AtFront
               PROVE  /\ delivered' = Append(delivered, sent[m])
                      /\ pos' - pos = Len(Framed(sent[m]))
    OBVIOUS
  <2>1. /\ Skips \/ Delivers
        /\ Scan # "incomplete"
    BY StepsOfBoth DEF Sends, Loses, Reads, Skips, Delivers, Rests
  <2>2. m \in DOMAIN sent /\ IsPrefix(Framed(sent[m]), Rest)
    BY DEF AtFront, Rest
  <2>3. sent[m] \in Sendable
    <3> DEFINE b == Sendable
    <3>1. sent \in Seq(b)
      BY DEF Typed
    <3> HIDE DEF b
    <3>2. m \in 1 .. Len(sent)
      BY <2>2, <3>1, LenProperties
    <3>3. QED BY <3>1, <3>2, ElementOfSeq DEF b
  <2>4. Scan = "complete" /\ Payload = sent[m] /\ Size = Len(Framed(sent[m]))
    BY <2>1, <2>2, <2>3, FrontIsRead
  <2>5. delivered' = Append(delivered, sent[m]) /\ pos' = pos + Len(Framed(sent[m]))
    BY <2>1, <2>4 DEF Skips, Delivers
  <2>6. pos \in Nat /\ Len(Framed(sent[m])) \in Nat
    BY <2>3, BufferElements, FramedType DEF Typed
  <2>7. QED BY <2>5, <2>6
<1>2. QED BY <1>1, AlwaysTyped, PTL DEF Spec, StaysInStep

-----------------------------------------------------------------------------
(* The transport implements the reliable pipe.  As long as no report is    *)
(* lost the messages stand in the stream one behind the other, the first   *)
(* one behind what the stream began with (Located); and a reader that is   *)
(* not led astray stands before them, or at the first that it has not      *)
(* delivered (InPlace).                                                    *)

LeadLen == IF starts = <<>> THEN Len(stream) ELSE starts[1]

Astray == \/ via = "tcp" /\ Tcp!FalseMagic
          \/ via = "usb" /\ Usb!FalseStart

Located ==
  /\ Len(starts) = Len(sent)
  /\ \A m \in 1 .. Len(sent) :
       LET frame == Framed(sent[m])
       IN  /\ starts[m] + Len(frame) <= Len(stream)
           /\ starts[m] + Len(frame) =
                IF m = Len(sent) THEN Len(stream) ELSE starts[m + 1]
           /\ \A i \in 1 .. Len(frame) : stream[starts[m] + i] = frame[i]

NextStart ==
  IF Len(delivered) < Len(sent) THEN starts[Len(delivered) + 1] ELSE Len(stream)

InPlace ==
  /\ Len(delivered) <= Len(sent)
  /\ pos <= NextStart
  /\ delivered # <<>> => pos = NextStart

PipeInv ==
  /\ Typed
  /\ lost # 0 => via = "usb"
  /\ lost = 0 => Located
  /\ lost = 0 /\ ~Astray => InPlace

LEMMA BrokenMeans ==
  ASSUME PipeInv
  PROVE  Broken <=> ~up \/ Astray \/ lost # 0
<1>1. lost \in Nat /\ via \in {"tcp", "usb"} /\ (lost # 0 => via = "usb")
  BY TransportAssumption DEF PipeInv, Typed, TypeOK
<1>2. QED BY <1>1 DEF Broken, Astray

(* The messages in the stream, and how many there are of everything.       *)
LEMMA Messages ==
  ASSUME Typed, Located
  PROVE  /\ Len(sent) \in Nat /\ Len(starts) = Len(sent) /\ Len(delivered) \in Nat
         /\ Len(stream) \in Nat /\ pos \in Nat /\ LeadLen \in 0 .. Len(stream)
         /\ starts = <<>> <=> Len(sent) = 0
         /\ delivered = <<>> <=> Len(delivered) = 0
         /\ \A m \in 1 .. Len(sent) :
              /\ sent[m] \in Sendable /\ starts[m] \in Nat
              /\ Framed(sent[m]) \in Seq(Cell) /\ Len(Framed(sent[m])) \in Nat \ {0}
<1> DEFINE b == Sendable
<1>1. sent \in Seq(b) /\ starts \in Seq(Nat) /\ delivered \in Seq(Seq(Nat))
  BY DEF Typed, TypeOK
<1> HIDE DEF b
<1>2. /\ Len(sent) \in Nat /\ Len(starts) = Len(sent) /\ Len(delivered) \in Nat
      /\ Len(stream) \in Nat /\ pos \in Nat
  BY <1>1, BufferElements, LenProperties DEF Located
<1>3. starts = <<>> <=> Len(starts) = 0
  BY <1>1, EmptySeq
<1>4. delivered = <<>> <=> Len(delivered) = 0
  BY <1>1, EmptySeq
<1>5. \A m \in 1 .. Len(sent) : sent[m] \in b /\ starts[m] \in Nat
  BY <1>1, <1>2, ElementOfSeq
<1>6. \A m \in 1 .. Len(sent) :
        /\ sent[m] \in Sendable /\ starts[m] \in Nat
        /\ Framed(sent[m]) \in Seq(Cell) /\ Len(Framed(sent[m])) \in Nat \ {0}
  BY <1>5, FramedType DEF b, Typed
<1>7. LeadLen \in 0 .. Len(stream)
  <2>1. CASE starts = <<>>
    BY <1>2, <2>1 DEF LeadLen
  <2>2. CASE starts # <<>>
    <3>1. 1 \in 1 .. Len(sent)
      BY <1>2, <1>3, <2>2
    <3>2. starts[1] + Len(Framed(sent[1])) <= Len(stream)
      BY <3>1 DEF Located
    <3>3. QED BY <1>2, <1>6, <2>2, <3>1, <3>2 DEF LeadLen
  <2>3. QED BY <2>1, <2>2
<1>8. QED BY <1>2, <1>3, <1>4, <1>6, <1>7

(* The message to be delivered next stands whole before the reader.        *)
LEMMA NextIsAtFront ==
  ASSUME Typed, Located, Len(delivered) < Len(sent),
         pos = starts[Len(delivered) + 1]
  PROVE  IsPrefix(Framed(sent[Len(delivered) + 1]), Rest)
<1> DEFINE m == Len(delivered) + 1
           frame == Framed(sent[m])
           c == Cell
           r == Rest
<1>1. m \in 1 .. Len(sent)
  BY Messages
<1>2. frame \in Seq(c) /\ Len(frame) \in Nat
  BY <1>1, Messages
<1>3. /\ pos + Len(frame) <= Len(stream)
      /\ \A i \in 1 .. Len(frame) : stream[pos + i] = frame[i]
  BY <1>1 DEF Located
<1>4. /\ r \in Seq(c) /\ Len(r) = Len(stream) - pos
      /\ pos \in Nat /\ Len(stream) \in Nat
      /\ \A i \in 1 .. Len(stream) - pos : r[i] = stream[pos + i]
  BY BufferElements
<1> HIDE DEF m, frame, c, r
<1>5. Len(frame) <= Len(r) /\ \A i \in 1 .. Len(frame) : frame[i] = r[i]
  <2>1. Len(frame) <= Len(stream) - pos
    BY <1>2, <1>3, <1>4
  <2>2. \A i \in 1 .. Len(frame) : i \in 1 .. Len(stream) - pos
    BY <1>2, <1>4, <2>1
  <2>3. QED BY <1>3, <1>4, <2>1, <2>2
<1>6. IsPrefix(frame, r)
  BY <1>2, <1>4, <1>5, PrefixElements
<1>7. QED BY <1>6 DEF m, frame, r

(* In what the stream began with, a reader that is not led astray finds    *)
(* no message.                                                             *)
LEMMA NothingBeforeTheFirst ==
  ASSUME Typed, Located, ~Astray, pos < LeadLen
  PROVE  Scan # "complete"
<1> SUFFICES ASSUME Scan = "complete" PROVE FALSE
  OBVIOUS
<1> DEFINE buf == Buffer
<1>1. /\ pos \in Nat /\ read \in Nat /\ Len(stream) \in Nat /\ read <= Len(stream)
      /\ Len(buf) = read - pos
      /\ \A i \in 1 .. read - pos : buf[i] = stream[pos + i]
  BY BufferElements
<1>2. Len(buf) >= 1 /\ LeadLen \in 0 .. Len(stream) /\ via \in {"tcp", "usb"}
  BY ScanTells, Messages DEF Typed
<1>3. CASE via = "usb"
  <2>1. Usb!ScanFrame(buf) = "complete" /\ buf \in Seq(ReportType) /\ buf # <<>>
    BY <1>2, <1>3, BufferElements DEF Scan, Cell, Usb!ScanFrame
  <2>2. buf[1] \in ReportType /\ buf[1][1] \in Nat
    <3>1. buf[1] \in ReportType
      BY <1>1, <1>2, <2>1, ElementOfSeq
    <3>2. QED BY <3>1, ReportsAreNotEmpty DEF ReportType
  <2>3. buf[1][1] \in 1 .. MaxMessageLen
    BY <2>1, <2>2, TransportAssumption DEF Usb!ScanFrame, Usb!BodyLen
  <2>4. buf[1] = stream[pos + 1] /\ pos + 1 \in 1 .. LeadLen
    BY <1>1, <1>2
  <2>5. Usb!FalseStart
    BY <2>3, <2>4 DEF Usb!FalseStart, LeadLen
  <2>6. QED BY <1>3, <2>5 DEF Astray
<1>4. CASE via = "tcp"
  <2>1. Tcp!ScanFrame(buf) = "complete" /\ buf \in Seq(Nat) /\ stream \in Seq(Nat)
    BY <1>4, BufferElements DEF Scan, Cell, Typed
  <2>2. Magic \in Seq(Nat) /\ Len(Magic) \in Nat /\ Tcp!Header = Len(Magic) + 1
    BY TransportAssumption, LenProperties DEF Tcp!Header
  <2> HIDE DEF buf
  <2>3. Len(buf) >= Len(Magic) + 1 /\ IsPrefix(Magic, buf)
    BY <1>1, <2>1, <2>2, InstancePrefix DEF Tcp!ScanFrame
  <2>4. \A i \in 1 .. Len(Magic) : Magic[i] = buf[i]
    BY <2>1, <2>2, <2>3, PrefixElements
  <2>5. \A i \in 1 .. Len(Magic) : stream[pos + i] = Magic[i]
    BY <1>1, <2>2, <2>3, <2>4
  <2> DEFINE n == LeadLen
             front == SubSeq(stream, 1, n)
             lead == front \o Magic
  <2>6. /\ front \in Seq(Nat) /\ Len(front) = n
        /\ \A i \in 1 .. n : front[i] = stream[i]
    <3>1. n \in 0 .. Len(stream)
      BY <1>2
    <3> HIDE DEF n
    <3>2. QED BY <2>1, <3>1, FirstElements
  <2>7. n \in Nat /\ pos < n /\ n <= Len(stream)
    BY <1>1, <1>2
  <2>8. \A j \in 1 .. Len(Magic) : n + j <= read => stream[n + j] = Magic[j]
    <3>1. CASE starts = <<>>
      BY <1>1, <2>2, <3>1 DEF LeadLen
    <3>2. CASE starts # <<>>
      <4>1. 1 \in 1 .. Len(sent) /\ n = starts[1]
        BY <3>2, Messages DEF LeadLen
      <4>2. \A i \in 1 .. Len(Framed(sent[1])) : stream[n + i] = Framed(sent[1])[i]
        BY <4>1 DEF Located
      <4>3. sent[1] \in Seq(Nat)
        BY <1>4, <4>1, Messages, TransportAssumption DEF Sendable
      <4>4. Framed(sent[1]) = Tcp!ToBytes(sent[1])
        BY <1>4 DEF Framed
      <4>5. \A j \in 1 .. Len(Magic) : /\ j \in 1 .. Len(Tcp!ToBytes(sent[1]))
                                       /\ Tcp!ToBytes(sent[1])[j] = Magic[j]
        BY <4>3, MagicComesFirst
      <4> HIDE DEF n
      <4>6. QED BY <4>2, <4>4, <4>5
    <3>3. QED BY <3>1, <3>2
  <2> HIDE DEF n, front
  <2>9. /\ lead \in Seq(Nat) /\ Len(lead) = n + Len(Magic)
        /\ \A i \in 1 .. n + Len(Magic) :
             lead[i] = IF i <= n THEN front[i] ELSE Magic[i - n]
    BY <2>2, <2>6, ConcatProperties
  <2> HIDE DEF lead
  <2>10. \A i \in 1 .. Len(Magic) : lead[pos + i] = Magic[i]
    <3> SUFFICES ASSUME NEW i \in 1 .. Len(Magic) PROVE lead[pos + i] = Magic[i]
      OBVIOUS
    <3>1. i \in Nat /\ i >= 1 /\ pos + i \in 1 .. n + Len(Magic) /\ pos + i <= read
      BY <1>1, <2>2, <2>3, <2>7
    <3>2. stream[pos + i] = Magic[i]
      BY <2>5
    <3>3. CASE pos + i <= n
      <4>1. pos + i \in 1 .. n
        BY <1>1, <2>7, <3>1, <3>3
      <4>2. QED BY <2>6, <2>9, <3>1, <3>2, <3>3, <4>1
    <3>4. CASE pos + i > n
      <4> DEFINE j == pos + i - n
      <4>1. j \in 1 .. Len(Magic) /\ n + j = pos + i
        BY <1>1, <2>2, <2>7, <3>1, <3>4
      <4>2. lead[pos + i] = Magic[j]
        BY <1>1, <2>7, <2>9, <3>1, <3>4
      <4> HIDE DEF j
      <4>3. stream[n + j] = Magic[j]
        BY <2>8, <3>1, <4>1
      <4>4. QED BY <3>2, <4>1, <4>2, <4>3
    <3>5. QED BY <1>1, <2>7, <3>1, <3>3, <3>4
  <2>11. SubSeq(lead, pos + 1, pos + Len(Magic)) = Magic
    <3> DEFINE end == pos + Len(Magic)
    <3>1. pos \in Nat /\ end \in pos .. Len(lead) /\ end - pos = Len(Magic)
      BY <1>1, <2>2, <2>7, <2>9
    <3> HIDE DEF end
    <3>2. /\ SubSeq(lead, pos + 1, end) \in Seq(Nat)
          /\ Len(SubSeq(lead, pos + 1, end)) = end - pos
          /\ \A i \in 1 .. end - pos : SubSeq(lead, pos + 1, end)[i] = lead[pos + i]
      BY <2>9, <3>1, Window
    <3>3. SubSeq(lead, pos + 1, end) = Magic
      BY <2>2, <2>10, <3>1, <3>2, SeqEqual
    <3>4. QED BY <3>3 DEF end
  <2>12. pos \in 0 .. n - 1
    BY <1>1, <2>7
  <2>13. Tcp!FalseMagic
    BY <2>11, <2>12 DEF Tcp!FalseMagic, lead, front, n, LeadLen
  <2>14. QED BY <1>4, <2>13 DEF Astray
<1>5. QED BY <1>2, <1>3, <1>4

(* What the stream began with stays what it is, as long as nothing is lost. *)
LEMMA LeadStays ==
  ASSUME Typed, Located, Sends
  PROVE  LeadLen' = LeadLen /\ (Astray' <=> Astray)
<1>1. PICK body \in Sendable : stream' = stream \o Framed(body)
  BY DEF Sends
<1>2. starts' = Append(starts, Len(stream)) /\ UNCHANGED via
  BY DEF Sends
<1> DEFINE c == Cell
           f == Framed(body)
           n == LeadLen
<1>3. /\ stream \in Seq(c) /\ f \in Seq(c) /\ Len(f) \in Nat /\ Len(stream) \in Nat
      /\ starts \in Seq(Nat) /\ via \in {"tcp", "usb"}
  BY FramedType, BufferElements DEF Typed
<1>4. /\ n \in 0 .. Len(stream) /\ Len(starts) \in Nat
      /\ starts = <<>> <=> Len(starts) = 0
  BY <1>3, Messages
<1> HIDE DEF c, f
<1>5. /\ stream' \in Seq(c) /\ Len(stream') = Len(stream) + Len(f)
      /\ \A i \in 1 .. Len(stream) : stream'[i] = stream[i]
  BY <1>1, <1>3, ConcatProperties DEF f
<1>6. n' = n
  <2>1. /\ starts' # <<>>
        /\ \A i \in 1 .. Len(starts) : starts'[i] = starts[i]
        /\ starts'[Len(starts) + 1] = Len(stream)
    BY <1>2, <1>3, AppendProperties
  <2>2. CASE starts = <<>>
    BY <1>4, <2>1, <2>2 DEF LeadLen
  <2>3. CASE starts # <<>>
    <3>1. 1 \in 1 .. Len(starts)
      BY <1>4, <2>3
    <3>2. QED BY <2>1, <2>3, <3>1 DEF LeadLen
  <2>4. QED BY <2>2, <2>3
<1>7. via = "usb" => (Usb!FalseStart' <=> Usb!FalseStart)
  <2>1. Usb!FalseStart <=> \E i \in 1 .. n : stream[i][1] \in 1 .. MaxMessageLen
    BY DEF Usb!FalseStart, LeadLen
  <2>2. Usb!FalseStart' <=> \E i \in 1 .. n' : stream'[i][1] \in 1 .. MaxMessageLen
    BY DEF Usb!FalseStart, LeadLen
  <2>3. \A i \in 1 .. n : stream'[i] = stream[i]
    BY <1>3, <1>4, <1>5
  <2> HIDE DEF n
  <2>4. QED BY <1>6, <2>1, <2>2, <2>3
<1>8. via = "tcp" => (Tcp!FalseMagic' <=> Tcp!FalseMagic)
  <2> DEFINE Holds(front) ==
        \E i \in 0 .. n - 1 : SubSeq(front \o Magic, i + 1, i + Len(Magic)) = Magic
  <2>1. Tcp!FalseMagic <=> Holds(SubSeq(stream, 1, n))
    BY DEF Tcp!FalseMagic, LeadLen
  <2>2. Tcp!FalseMagic' <=>
          \E i \in 0 .. n' - 1 :
            SubSeq(SubSeq(stream', 1, n') \o Magic, i + 1, i + Len(Magic)) = Magic
    BY DEF Tcp!FalseMagic, LeadLen
  <2> HIDE DEF n
  <2>3. n \in 0 .. Len(stream) /\ n \in 0 .. Len(stream')
    BY <1>3, <1>4, <1>5
  <2>4. /\ SubSeq(stream, 1, n) \in Seq(c) /\ Len(SubSeq(stream, 1, n)) = n
        /\ \A i \in 1 .. n : SubSeq(stream, 1, n)[i] = stream[i]
    BY <1>3, <2>3, FirstElements
  <2>5. /\ SubSeq(stream', 1, n) \in Seq(c) /\ Len(SubSeq(stream', 1, n)) = n
        /\ \A i \in 1 .. n : SubSeq(stream', 1, n)[i] = stream'[i]
    BY <1>5, <2>3, FirstElements
  <2>6. \A i \in 1 .. n : stream'[i] = stream[i]
    BY <1>3, <1>4, <1>5, <2>3
  <2>7. SubSeq(stream', 1, n) = SubSeq(stream, 1, n)
    BY <2>4, <2>5, <2>6, SeqEqual
  <2>8. Tcp!FalseMagic' <=> Holds(SubSeq(stream', 1, n))
    BY <1>6, <2>2
  <2>9. QED BY <2>1, <2>7, <2>8
<1>9. QED BY <1>2, <1>6, <1>7, <1>8 DEF Astray

LEMMA SendKeepsPlaces ==
  ASSUME Typed, Located, Sends
  PROVE  Located' /\ (InPlace => InPlace')
<1>1. PICK body \in Sendable :
        sent' = Append(sent, body) /\ stream' = stream \o Framed(body)
  BY DEF Sends
<1>2. starts' = Append(starts, Len(stream)) /\ UNCHANGED <<via, delivered, pos>>
  BY DEF Sends
<1> DEFINE b == Sendable
           c == Cell
           f == Framed(body)
           n == Len(sent)
           len == Len(stream)
<1>3. /\ stream \in Seq(c) /\ f \in Seq(c) /\ Len(f) \in Nat /\ len \in Nat
      /\ starts \in Seq(Nat) /\ sent \in Seq(b) /\ n \in Nat /\ Len(starts) = n
      /\ Len(delivered) \in Nat
  BY FramedType, Messages DEF Typed
<1> HIDE DEF b, c, f
<1>4. /\ Len(stream') = len + Len(f)
      /\ \A i \in 1 .. len + Len(f) :
           stream'[i] = IF i <= len THEN stream[i] ELSE f[i - len]
  BY <1>1, <1>3, ConcatProperties DEF f
<1>5. /\ Len(sent') = n + 1 /\ sent'[n + 1] = body
      /\ \A m \in 1 .. n : sent'[m] = sent[m]
  BY <1>1, <1>3, AppendProperties DEF b
<1>6. /\ Len(starts') = n + 1 /\ starts'[n + 1] = len
      /\ \A m \in 1 .. n : starts'[m] = starts[m]
  BY <1>2, <1>3, AppendProperties
<1>7. Located'
  <2>1. SUFFICES
          ASSUME NEW m \in 1 .. n + 1
          PROVE  LET frame == Framed(sent'[m])
                 IN  /\ starts'[m] + Len(frame) <= Len(stream')
                     /\ starts'[m] + Len(frame) =
                          IF m = n + 1 THEN Len(stream') ELSE starts'[m + 1]
                     /\ \A i \in 1 .. Len(frame) : stream'[starts'[m] + i] = frame[i]
    BY <1>2, <1>5, <1>6 DEF Located, Framed
  <2>2. CASE m = n + 1
    <3>1. sent'[m] = body /\ starts'[m] = len
      BY <1>5, <1>6, <2>2
    <3>2. \A i \in 1 .. Len(f) : stream'[len + i] = f[i]
      <4> SUFFICES ASSUME NEW i \in 1 .. Len(f) PROVE stream'[len + i] = f[i]
        OBVIOUS
      <4>1. len + i \in 1 .. len + Len(f) /\ ~ (len + i <= len) /\ (len + i) - len = i
        BY <1>3
      <4>2. QED BY <1>4, <4>1
    <3>3. QED BY <1>3, <1>4, <2>2, <3>1, <3>2 DEF f
  <2>3. CASE m # n + 1
    <3> DEFINE frame == Framed(sent[m])
    <3>1. m \in 1 .. n /\ m \in Nat
      BY <1>3, <2>3
    <3>2. /\ starts[m] + Len(frame) <= len
          /\ starts[m] + Len(frame) = IF m = n THEN len ELSE starts[m + 1]
          /\ \A i \in 1 .. Len(frame) : stream[starts[m] + i] = frame[i]
          /\ starts[m] \in Nat /\ Len(frame) \in Nat
      BY <3>1, Messages DEF Located
    <3>3. sent'[m] = sent[m] /\ starts'[m] = starts[m]
      BY <1>5, <1>6, <3>1
    <3> HIDE DEF frame, n, len
    <3>4. starts'[m + 1] = IF m = n THEN len ELSE starts[m + 1]
      <4>1. CASE m = n
        BY <1>6, <4>1
      <4>2. CASE m # n
        <5>1. m + 1 \in 1 .. n
          BY <1>3, <3>1, <4>2
        <5>2. QED BY <1>6, <4>2, <5>1
      <4>3. QED BY <4>1, <4>2
    <3>5. ASSUME NEW i \in 1 .. Len(frame)
          PROVE  stream'[starts[m] + i] = frame[i]
      <4>1. starts[m] + i \in 1 .. len
        BY <1>3, <3>2
      <4>2. starts[m] + i \in 1 .. len + Len(f) /\ starts[m] + i <= len
        BY <1>3, <4>1
      <4>3. QED BY <1>4, <3>2, <4>2
    <3>6. starts[m] + Len(frame) <= Len(stream')
      BY <1>3, <1>4, <3>2
    <3>7. QED BY <2>3, <3>2, <3>3, <3>4, <3>5, <3>6 DEF frame
  <2>4. QED BY <2>2, <2>3
<1>8. ASSUME InPlace PROVE InPlace'
  <2> DEFINE d == Len(delivered)
  <2>1. d <= n /\ pos <= NextStart /\ (delivered # <<>> => pos = NextStart)
    BY <1>8 DEF InPlace
  <2>2. NextStart' = NextStart
    <3>1. CASE d < n
      <4>1. d + 1 \in 1 .. n /\ d < n + 1
        BY <1>3, <3>1
      <4>2. QED BY <1>2, <1>5, <1>6, <3>1, <4>1 DEF NextStart
    <3>2. CASE d = n
      <4>1. ~ (d < n) /\ d < n + 1
        BY <1>3, <3>2
      <4>2. QED BY <1>2, <1>5, <1>6, <3>2, <4>1 DEF NextStart
    <3>3. QED BY <1>3, <2>1, <3>1, <3>2
  <2>3. d <= n + 1
    BY <1>3, <2>1
  <2>4. QED BY <1>2, <1>5, <2>1, <2>2, <2>3 DEF InPlace
<1>9. QED BY <1>7, <1>8

LEMMA InitPipe == Init => PipeInv
<1> SUFFICES ASSUME Init PROVE PipeInv
  OBVIOUS
<1>1. /\ sent = <<>> /\ delivered = <<>> /\ starts = <<>> /\ pos = 0 /\ lost = 0
  BY DEF Init, Tcp!Init, Usb!Init
<1>2. Typed
  BY InitTyped
<1>3. Len(stream) \in Nat
  BY <1>2, BufferElements
<1>4. Located
  BY <1>1 DEF Located
<1>5. InPlace
  BY <1>1, <1>3 DEF InPlace, NextStart
<1>6. QED BY <1>1, <1>2, <1>4, <1>5 DEF PipeInv

(* What a reader that is not led astray drains, and what it delivers.      *)
LEMMA ReaderStaysInPlace ==
  ASSUME Typed, Located, InPlace, ~Astray, Skips \/ Delivers
  PROVE  /\ Located' /\ InPlace' /\ (Astray' <=> Astray)
         /\ Delivers => /\ Len(delivered) < Len(sent)
                        /\ delivered' = Append(delivered, sent[Len(delivered) + 1])
<1> DEFINE d == Len(delivered)
           n == Len(sent)
<1>1. UNCHANGED <<via, sent, stream, starts>>
  BY DEF Skips, Delivers
<1>2. Located' /\ (Astray' <=> Astray)
  BY <1>1 DEF Located, Framed, Astray, Tcp!FalseMagic, Usb!FalseStart
<1>3. /\ d \in Nat /\ n \in Nat /\ d <= n /\ pos <= NextStart
      /\ (delivered # <<>> => pos = NextStart) /\ pos \in Nat /\ Len(stream) \in Nat
      /\ (delivered = <<>> <=> d = 0) /\ (starts = <<>> <=> n = 0)
  BY Messages DEF InPlace
<1>4. Scan # "incomplete" /\ Len(Buffer) >= 1
  BY ScanTells DEF Skips, Delivers
<1>5. Len(Buffer) = read - pos /\ read <= Len(stream) /\ read \in Nat
  BY BufferElements
<1>6. NextStart \in Nat
  <2>1. CASE d < n
    <3>1. d + 1 \in 1 .. n
      BY <1>3, <2>1
    <3>2. QED BY <2>1, <3>1, Messages DEF NextStart
  <2>2. CASE ~ (d < n)
    BY <1>3, <2>2 DEF NextStart
  <2>3. QED BY <2>1, <2>2
<1>7. CASE pos < NextStart
  <2>1. delivered = <<>> /\ d = 0
    BY <1>3, <1>6, <1>7
  <2>2. NextStart = LeadLen
    <3>1. CASE n = 0
      BY <1>3, <2>1, <3>1 DEF NextStart, LeadLen
    <3>2. CASE n # 0
      <4>1. d < n /\ d + 1 = 1 /\ starts # <<>>
        BY <1>3, <2>1, <3>2
      <4>2. QED BY <4>1 DEF NextStart, LeadLen
    <3>3. QED BY <3>1, <3>2
  <2>3. Scan # "complete"
    BY <1>7, <2>2, NothingBeforeTheFirst
  <2>4. Skips /\ ~Delivers
    BY <2>3 DEF Delivers
  <2>5. pos' = pos + 1 /\ UNCHANGED delivered
    BY <2>4 DEF Skips
  <2>6. NextStart' = NextStart
    BY <1>1, <2>5 DEF NextStart
  <2>7. InPlace'
    BY <1>1, <1>3, <1>6, <1>7, <2>1, <2>5, <2>6 DEF InPlace
  <2>8. QED BY <1>2, <2>4, <2>7
<1>8. CASE pos = NextStart
  <2>1. d < n
    <3> SUFFICES ASSUME ~ (d < n) PROVE FALSE
      OBVIOUS
    <3>1. pos = Len(stream)
      BY <1>8 DEF NextStart
    <3>2. QED BY <1>3, <1>4, <1>5, <3>1
  <2> DEFINE m == d + 1
             body == sent[m]
             f == Framed(body)
  <2>2. m \in 1 .. n /\ pos = starts[m]
    BY <1>3, <1>8, <2>1 DEF NextStart
  <2>3. IsPrefix(f, Rest) /\ body \in Sendable
    BY <2>1, <2>2, NextIsAtFront, Messages
  <2>4. Scan = "complete" /\ Payload = body /\ Size = Len(f)
    BY <1>4, <2>3, FrontIsRead
  <2>5. Delivers /\ delivered' = Append(delivered, body) /\ pos' = pos + Len(f)
    BY <2>4 DEF Skips, Delivers
  <2>6. pos' = IF m = n THEN Len(stream) ELSE starts[m + 1]
    BY <2>2, <2>5 DEF Located
  <2>7. Len(delivered') = m
    <3>1. Payload \in Seq(Nat) /\ delivered \in Seq(Seq(Nat))
      BY <2>4, ScanTells DEF Typed, TypeOK
    <3>2. QED BY <2>4, <2>5, <3>1, AppendProperties
  <2>8. NextStart' = IF m < n THEN starts[m + 1] ELSE Len(stream)
    BY <1>1, <2>7 DEF NextStart
  <2> HIDE DEF body, f
  <2>9. pos' = NextStart' /\ pos' \in Nat /\ m <= n
    <3>1. pos' = NextStart'
      BY <1>3, <2>2, <2>6, <2>8
    <3>2. Len(f) \in Nat
      BY <2>2, Messages DEF f, body
    <3>3. QED BY <1>3, <2>2, <2>5, <3>1, <3>2
  <2>10. InPlace'
    BY <1>1, <2>7, <2>9 DEF InPlace
  <2>11. QED BY <1>2, <2>1, <2>5, <2>10 DEF body
<1>9. QED BY <1>3, <1>6, <1>7, <1>8

LEMMA NextPipe == PipeInv /\ [Next]_vars => PipeInv'
<1> SUFFICES ASSUME PipeInv, [Next]_vars PROVE PipeInv'
  OBVIOUS
<1>1. Typed /\ Typed' /\ (lost # 0 => via = "usb") /\ lost \in Nat
  BY NextTyped, TransportAssumption DEF PipeInv, Typed, TypeOK
<1>2. CASE lost # 0
  <2>1. CASE Loses
    <3>1. via' = "usb" /\ lost' = lost + 1
      BY <2>1 DEF Loses
    <3>2. QED BY <1>1, <3>1 DEF PipeInv
  <2>2. CASE ~Loses
    <3>1. UNCHANGED <<via, lost>>
      BY <1>1, <2>2, StepsOfBoth DEF Sends, Reads, Skips, Delivers, Rests
    <3>2. QED BY <1>1, <1>2, <3>1 DEF PipeInv
  <2>3. QED BY <2>1, <2>2
<1>3. CASE lost = 0
  <2>1. Located /\ (~Astray => InPlace)
    BY <1>3 DEF PipeInv
  <2>2. CASE Loses
    <3>1. via' = "usb" /\ lost' # 0
      BY <1>3, <2>2 DEF Loses
    <3>2. QED BY <1>1, <3>1 DEF PipeInv
  <2>3. CASE Sends
    <3>1. lost' = 0
      BY <1>3, <2>3 DEF Sends
    <3>2. Located' /\ (InPlace => InPlace') /\ (Astray' <=> Astray)
      BY <1>1, <2>1, <2>3, SendKeepsPlaces, LeadStays
    <3>3. QED BY <1>1, <2>1, <3>1, <3>2 DEF PipeInv
  <2>4. CASE Skips \/ Delivers
    <3>1. lost' = 0 /\ UNCHANGED <<via, sent, stream, starts>>
      BY <1>3, <2>4 DEF Skips, Delivers
    <3>2. Located' /\ (Astray' <=> Astray)
      BY <2>1, <3>1 DEF Located, Framed, Astray, Tcp!FalseMagic, Usb!FalseStart
    <3>3. ~Astray => InPlace'
      BY <1>1, <2>1, <2>4, ReaderStaysInPlace
    <3>4. QED BY <1>1, <3>1, <3>2, <3>3 DEF PipeInv
  <2>5. CASE Reads \/ Rests
    <3>1. lost' = 0 /\ UNCHANGED <<via, sent, delivered, stream, pos, starts>>
      BY <1>3, <2>5 DEF Reads, Rests
    <3>2. Located' /\ (Astray' <=> Astray)
      BY <2>1, <3>1 DEF Located, Framed, Astray, Tcp!FalseMagic, Usb!FalseStart
    <3>3. InPlace' <=> InPlace
      BY <3>1 DEF InPlace, NextStart
    <3>4. QED BY <1>1, <2>1, <3>1, <3>2, <3>3 DEF PipeInv
  <2>6. QED BY <1>1, <2>2, <2>3, <2>4, <2>5, StepsOfBoth
<1>4. QED BY <1>2, <1>3

LEMMA AlwaysPipe == Spec => []PipeInv
BY InitPipe, NextPipe, PTL DEF Spec

(* Whatever the payloads hold and however the bytes are cut into reads or  *)
(* reports, the transport delivers every payload whole, once and in order, *)
(* until the connection ends, a report is lost, or what the stream began   *)
(* with can be taken for a message: every step of it is one of the         *)
(* reliable pipe, or none.                                                 *)
THEOREM TransportRefinesPipe == Spec => Pipe!Safety
<1>1. Init => Pipe!Init
  <2>1. Init => sent = <<>> /\ delivered = <<>>
    BY DEF Init, Tcp!Init, Usb!Init
  <2>2. Broken \in BOOLEAN
    BY DEF Broken
  <2>3. QED BY <2>1, <2>2 DEF Pipe!Init
<1>2. PipeInv /\ PipeInv' /\ [Next]_vars => [Pipe!Next]_(Pipe!pipe)
  <2> SUFFICES ASSUME PipeInv, PipeInv', [Next]_vars
               PROVE  Pipe!Next \/ UNCHANGED Pipe!pipe
    OBVIOUS
  <2>1. /\ Broken <=> ~up \/ Astray \/ lost # 0
        /\ (Broken <=> ~up \/ Astray \/ lost # 0)'
    BY BrokenMeans, PTL
  <2>2. Typed /\ (lost = 0 => Located) /\ up \in BOOLEAN /\ lost \in Nat
    BY TransportAssumption DEF PipeInv, Typed, TypeOK
  <2>3. CASE lost = 0 /\ Sends
    <3>1. Astray' <=> Astray
      BY <2>2, <2>3, LeadStays
    <3>2. UNCHANGED <<up, lost, delivered>>
      BY <2>3 DEF Sends
    <3>3. Broken' = Broken
      BY <2>1, <3>1, <3>2 DEF Broken
    <3>4. \E body \in Bodies : sent' = Append(sent, body)
      BY <2>3 DEF Sends, Sendable, UsbBodies
    <3>5. QED BY <3>2, <3>3, <3>4 DEF Pipe!Next, Pipe!Send
  <2>4. CASE Loses
    <3>1. lost' = lost + 1 /\ UNCHANGED <<sent, delivered>>
      BY <2>4 DEF Loses
    <3>2. Broken'
      BY <2>1, <2>2, <3>1
    <3>3. QED
      BY <3>1, <3>2 DEF Pipe!Next, Pipe!Break, Pipe!Anything, Broken
  <2>5. CASE lost # 0 /\ ~Loses
    <3>1. lost' = lost
      BY <2>2, <2>5, StepsOfBoth DEF Sends, Reads, Skips, Delivers, Rests
    <3>2. Broken /\ Broken'
      BY <2>1, <2>5, <3>1
    <3>3. QED BY <3>2 DEF Pipe!Next, Pipe!Anything, Broken
  <2>6. CASE lost = 0 /\ (Reads \/ Skips \/ Delivers \/ Rests)
    <3>1. UNCHANGED <<via, sent, stream, starts, lost>>
      BY <2>6 DEF Reads, Skips, Delivers, Rests
    <3>2. Astray' <=> Astray
      BY <3>1 DEF Astray, Tcp!FalseMagic, Usb!FalseStart
    <3>3. CASE Broken
      <4>1. ~up => ~up'
        BY <2>6 DEF Reads, Skips, Delivers, Rests
      <4>2. Broken'
        BY <2>1, <2>6, <3>2, <3>3, <4>1
      <4>3. QED BY <3>3, <4>2 DEF Pipe!Next, Pipe!Anything, Broken
    <3>4. CASE ~Broken /\ Delivers
      <4>1. up' = up
        BY <3>4 DEF Delivers
      <4>2. Broken' = Broken
        BY <2>1, <3>1, <3>2, <4>1 DEF Broken
      <4>3. InPlace /\ ~Astray
        BY <2>1, <2>6, <3>4 DEF PipeInv
      <4>4. /\ Len(delivered) < Len(sent)
            /\ delivered' = Append(delivered, sent[Len(delivered) + 1])
        BY <2>2, <2>6, <3>4, <4>3, ReaderStaysInPlace
      <4>5. QED BY <3>1, <3>4, <4>2, <4>4 DEF Pipe!Next, Pipe!Deliver
    <3>5. CASE ~Broken /\ ~Delivers
      <4>1. UNCHANGED <<sent, delivered>> /\ up' \in {up, FALSE}
        BY <2>6, <3>5 DEF Reads, Skips, Rests
      <4>2. CASE up' = up
        <5>1. Broken' = Broken
          BY <2>1, <3>1, <3>2, <4>2 DEF Broken
        <5>2. QED BY <4>1, <5>1 DEF Pipe!pipe
      <4>3. CASE up' = FALSE
        <5>1. Broken'
          BY <2>1, <4>3
        <5>2. QED BY <3>5, <4>1, <5>1 DEF Pipe!Next, Pipe!Break, Broken
      <4>4. QED BY <4>1, <4>2, <4>3
    <3>6. QED BY <3>3, <3>4, <3>5
  <2>7. QED BY <2>2, <2>3, <2>4, <2>5, <2>6, StepsOfBoth
<1>3. QED BY <1>1, <1>2, AlwaysPipe, PTL DEF Spec, Pipe!Safety
=============================================================================
