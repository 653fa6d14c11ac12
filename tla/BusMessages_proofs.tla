-------------------------- MODULE BusMessages_proofs --------------------------
(* Theorems about BusMessages for payloads of every length.                *)
EXTENDS BusMessages, DataLemmas

(* The bytes of s are n consecutive ones of a payload, from first on.      *)
Run(s, first, n) ==
    /\ s \in Seq(Nat) /\ n \in Nat /\ first \in Nat
    /\ Len(s) = n
    /\ \A i \in 1..n : s[i] = first + i - 1

AtMost(m, n) == IF m <= n THEN m ELSE n
NotBelow(m, n) == IF m >= n THEN m ELSE n

LEMMA RunUnique ==
    ASSUME NEW s, NEW t, NEW first, NEW n, Run(s, first, n), Run(t, first, n)
    PROVE  s = t
<1>1. s \in Seq(Nat) /\ t \in Seq(Nat) /\ Len(s) = Len(t)
  BY DEF Run
<1>2. \A i \in 1..Len(s) : s[i] = t[i]
  BY DEF Run
<1> QED
  BY <1>1, <1>2, SeqEqual

LEMMA RunEmpty ==
    ASSUME NEW s, NEW first, NEW other \in Nat, Run(s, first, 0)
    PROVE  Run(s, other, 0) /\ s = <<>>
<1>1. Run(s, other, 0)
  BY DEF Run
<1>2. s = <<>>
  BY EmptySeq DEF Run
<1> QED
  BY <1>1, <1>2

LEMMA RunConcat ==
    ASSUME NEW s, NEW t, NEW first, NEW m, NEW n, Run(s, first, m), Run(t, first + m, n)
    PROVE  Run(s \o t, first, m + n)
<1>1. /\ s \in Seq(Nat) /\ t \in Seq(Nat) /\ m \in Nat /\ n \in Nat /\ first \in Nat
      /\ Len(s) = m /\ Len(t) = n
  BY DEF Run
<1>2. s \o t \in Seq(Nat) /\ Len(s \o t) = m + n
  BY <1>1
<1>3. ASSUME NEW i \in 1..(m + n) PROVE (s \o t)[i] = first + i - 1
  <2>1. CASE i <= m
    <3>1. i \in 1..m /\ (s \o t)[i] = s[i]
      BY <1>1, <2>1
    <3> QED
      BY <3>1 DEF Run
  <2>2. CASE ~(i <= m)
    <3>1. i - m \in 1..n /\ (s \o t)[i] = t[i - m]
      BY <1>1, <2>2
    <3>2. t[i - m] = first + m + (i - m) - 1
      BY <3>1 DEF Run
    <3> QED
      BY <1>1, <3>1, <3>2
  <2> QED
    BY <2>1, <2>2
<1>4. m + n \in Nat
  BY <1>1
<1> QED
  BY <1>1, <1>2, <1>3, <1>4 DEF Run

LEMMA MinOfTwo ==
    ASSUME NEW m \in Nat, NEW n \in Nat
    PROVE  Min({m, n}) = AtMost(m, n)
  BY DEF Min, AtMost

(* Some of the consecutive bytes.                                          *)
LEMMA RunBytes ==
    ASSUME NEW s, NEW first, NEW n, Run(s, first, n), NEW a \in Nat \ {0}, NEW b \in Nat
    PROVE  Run(Bytes(s, a, b), first + a - 1, NotBelow(AtMost(b, n) - a + 1, 0))
<1> DEFINE e == AtMost(b, n)
<1>1. s \in Seq(Nat) /\ n \in Nat /\ first \in Nat /\ Len(s) = n /\ e \in 0..n
  BY DEF Run, AtMost
<1>2. Bytes(s, a, b) = SubSeq(s, a, e)
  BY <1>1, MinOfTwo DEF Bytes
<1> HIDE DEF e
<1>3. /\ SubSeq(s, a, e) \in Seq(Nat)
      /\ Len(SubSeq(s, a, e)) = NotBelow(e - a + 1, 0)
      /\ \A i \in 1..(e - a + 1) : SubSeq(s, a, e)[i] = s[a + i - 1]
  BY <1>1 DEF NotBelow
<1>4. \A i \in 1..NotBelow(e - a + 1, 0) :
        SubSeq(s, a, e)[i] = (first + a - 1) + i - 1
  <2> TAKE i \in 1..NotBelow(e - a + 1, 0)
  <2>1. i \in 1..(e - a + 1)
    BY <1>1 DEF NotBelow
  <2>2. a + i - 1 \in 1..n
    BY <1>1, <2>1
  <2>3. s[a + i - 1] = first + (a + i - 1) - 1
    BY <2>2 DEF Run
  <2> QED
    BY <1>1, <1>3, <2>1, <2>3
<1>5. NotBelow(e - a + 1, 0) \in Nat /\ first + a - 1 \in Nat
  BY <1>1 DEF NotBelow
<1>6. Run(SubSeq(s, a, e), first + a - 1, NotBelow(e - a + 1, 0))
  BY <1>3, <1>4, <1>5 DEF Run
<1> QED
  BY <1>2, <1>6 DEF e

LEMMA PayloadRun ==
    ASSUME NEW f \in BusFrame
    PROVE  f.length \in Nat /\ Run(Payload(f), 1, f.length)
<1>1. f.length \in Nat
  BY DEF BusFrame
<1>2. Payload(f) \in [1..f.length -> Nat]
  BY <1>1 DEF Payload
<1>3. Payload(f) \in Seq(Nat) /\ Len(Payload(f)) = f.length
  BY <1>1, <1>2
<1>4. \A i \in 1..f.length : Payload(f)[i] = 1 + i - 1
  BY <1>1 DEF Payload
<1> QED
  BY <1>1, <1>3, <1>4 DEF Run

-------------------------------------------------------------------------------
(* What every unwrapped message is.                                        *)
Unwrapped(f, m) ==
    /\ f \in BusFrame /\ f.length <= f.room
    /\ \E network : \/ f.length <= DataBytes /\ m = Can(f, network)
                    \/ m = CanFd(f, network)
                    \/ m = Lin(f, network)

BusInv ==
    /\ native.unwrapped => Unwrapped(frame, native)
    /\ reread.unwrapped => native.unwrapped /\ reread = ReadMessage(SaveMessage(native))

LEMMA TryUnwrapUnwraps ==
    ASSUME NEW f \in Frames, TryUnwrap(f).unwrapped
    PROVE  Unwrapped(f, TryUnwrap(f))
<1> DEFINE network == LookupNetwork(f.device, f.interface)
<1>1. f \in BusFrame /\ f.length \in Nat /\ f.room \in Int /\ f.kind \in {"can", "canfd", "lin"}
  BY FramesAssumption DEF BusFrame
<1> HIDE DEF network
<1>2. ~NotUnwrapped.unwrapped
  BY DEF NotUnwrapped
<1>3. Fits(f) /\ network # NoNetwork
  <2> SUFFICES ASSUME ~Fits(f) \/ network = NoNetwork PROVE FALSE
    OBVIOUS
  <2>1. TryUnwrap(f) = NotUnwrapped
    BY DEF TryUnwrap, network
  <2> QED
    BY <1>2, <2>1
<1>4. CASE f.kind = "can"
  <2>1. TryUnwrap(f) = IF f.length > DataBytes THEN NotUnwrapped ELSE Can(f, network)
    BY <1>3, <1>4 DEF TryUnwrap, network
  <2>2. f.length <= DataBytes /\ TryUnwrap(f) = Can(f, network)
    BY <1>1, <1>2, <2>1 DEF DataBytes
  <2> QED
    BY <1>1, <1>3, <2>2 DEF Unwrapped, Fits
<1>5. CASE f.kind = "canfd"
  <2>1. TryUnwrap(f) = CanFd(f, network)
    BY <1>3, <1>5 DEF TryUnwrap, network
  <2> QED
    BY <1>1, <1>3, <2>1 DEF Unwrapped, Fits
<1>6. CASE f.kind = "lin"
  <2>1. TryUnwrap(f) = Lin(f, network)
    BY <1>3, <1>6 DEF TryUnwrap, network
  <2> QED
    BY <1>1, <1>3, <2>1 DEF Unwrapped, Fits
<1> QED
  BY <1>1, <1>4, <1>5, <1>6

LEMMA BusStep ==
    ASSUME BusInv, [BusNext]_busVars
    PROVE  BusInv'
<1>1. CASE LoadCmpNetworkMapFromVsdb
  <2>1. native' = NotUnwrapped /\ reread' = NotUnwrapped
    BY <1>1 DEF LoadCmpNetworkMapFromVsdb
  <2> QED
    BY <2>1 DEF BusInv, NotUnwrapped
<1>2. CASE UnwrapBusMessage
  <2>1. PICK f \in Frames : frame' = f /\ native' = TryUnwrap(f)
    BY <1>2 DEF UnwrapBusMessage
  <2>2. native'.unwrapped => Unwrapped(frame', native')
    BY <2>1, TryUnwrapUnwraps
  <2>3. ~reread'.unwrapped
    BY <1>2 DEF UnwrapBusMessage, NotUnwrapped
  <2> QED
    BY <2>2, <2>3 DEF BusInv, Unwrapped
<1>3. CASE StoreAndRead
  <2>1. /\ native.unwrapped /\ native' = native /\ frame' = frame
        /\ reread' = ReadMessage(SaveMessage(native))
    BY <1>3 DEF StoreAndRead
  <2> QED
    BY <2>1 DEF BusInv
<1>4. CASE UNCHANGED busVars
  BY <1>4 DEF BusInv, busVars
<1> QED
  BY <1>1, <1>2, <1>3, <1>4 DEF BusNext

(* Every message that was unwrapped is made of a frame as one of the three *)
(* unwrappers makes it, and every reread one comes from it.                *)
THEOREM BusInvariant == BusSpec => []BusInv
<1>1. BusInit => BusInv
  BY DEF BusInit, BusInv, NotUnwrapped
<1>2. BusInv /\ [BusNext]_busVars => BusInv'
  BY BusStep
<1> QED
  BY <1>1, <1>2, PTL DEF BusSpec

-------------------------------------------------------------------------------
(* How many bytes of a payload are kept, and which the parts of a message  *)
(* hold.                                                                   *)
Kept(f, m) ==
    IF m.protocol = "LIN" THEN AtMost(f.length, LinHeaderBytes + DataBytes) ELSE f.length

Stored(m) == IF m.extraEnabled THEN m.extra ELSE Bytes(m.data, 1, m.count)

LEMMA RunWhole ==
    ASSUME NEW s, NEW first, NEW n, Run(s, first, n), NEW b \in Nat, n <= b
    PROVE  Bytes(s, 1, b) = s
<1>1. n \in Nat /\ first \in Nat
  BY DEF Run
<1>2. Run(Bytes(s, 1, b), first + 1 - 1, NotBelow(AtMost(b, n) - 1 + 1, 0))
  BY RunBytes
<1>3. first + 1 - 1 = first /\ NotBelow(AtMost(b, n) - 1 + 1, 0) = n
  BY <1>1 DEF NotBelow, AtMost
<1> QED
  BY <1>2, <1>3, RunUnique

(* A LIN payload's parts: h bytes in the header, d in the data.            *)
LEMMA LinParts ==
    ASSUME NEW f \in BusFrame, NEW network, NEW m, m = Lin(f, network)
    PROVE  LET h == AtMost(f.length, LinHeaderBytes) IN
           /\ h \in Nat /\ Kept(f, m) - h \in Nat
           /\ Run(m.header, 1, h) /\ Run(m.data, 1 + h, Kept(f, m) - h)
           /\ m.count = f.length - h /\ m.count \in Nat
           /\ Kept(f, m) - h <= m.count
           /\ Kept(f, m) - h = m.count <=> f.length <= LinHeaderBytes + DataBytes
<1> DEFINE h == AtMost(f.length, LinHeaderBytes)
           d == NotBelow(AtMost(LinHeaderBytes + DataBytes, f.length) - (LinHeaderBytes + 1) + 1, 0)
<1>1. f.length \in Nat /\ Run(Payload(f), 1, f.length)
  BY PayloadRun
<1>2. /\ m.header = Bytes(Payload(f), 1, LinHeaderBytes) /\ m.protocol = "LIN"
      /\ m.data = LinData(f) /\ m.count = f.length - Len(m.header)
  BY DEF Lin
<1>3. Run(m.header, 1, h)
  <2>1. Run(m.header, 1 + 1 - 1, NotBelow(AtMost(LinHeaderBytes, f.length) - 1 + 1, 0))
    BY <1>1, <1>2, RunBytes DEF LinHeaderBytes
  <2>2. 1 + 1 - 1 = 1 /\ NotBelow(AtMost(LinHeaderBytes, f.length) - 1 + 1, 0) = h
    BY <1>1 DEF NotBelow, AtMost, LinHeaderBytes
  <2> QED
    BY <2>1, <2>2
<1>4. Run(m.data, 3, d)
  <2>1. Run(m.data, 1 + (LinHeaderBytes + 1) - 1, d)
    BY <1>1, <1>2, RunBytes DEF LinData, LinHeaderBytes, DataBytes
  <2>2. 1 + (LinHeaderBytes + 1) - 1 = 3
    BY DEF LinHeaderBytes
  <2> QED
    BY <2>1, <2>2
<1>5. h \in Nat /\ h <= f.length /\ Len(m.header) = h
  BY <1>1, <1>3 DEF AtMost, LinHeaderBytes, Run
<1>6. /\ Kept(f, m) - h \in Nat /\ Kept(f, m) - h = d
      /\ h # 2 => d = 0
      /\ d <= f.length - h
      /\ d = f.length - h <=> f.length <= LinHeaderBytes + DataBytes
  BY <1>1, <1>2 DEF Kept, AtMost, NotBelow, LinHeaderBytes, DataBytes
<1> HIDE DEF d, h
<1>7. Run(m.data, 1 + h, d)
  <2>1. CASE h = 2
    BY <1>4, <2>1
  <2>2. CASE h # 2
    <3>1. d = 0 /\ 1 + h \in Nat
      BY <1>5, <1>6, <2>2
    <3> QED
      BY <1>4, <3>1, RunEmpty
  <2> QED
    BY <2>1, <2>2
<1>8. m.count = f.length - h /\ m.count \in Nat
  BY <1>1, <1>2, <1>5
<1> QED
  BY <1>3, <1>5, <1>6, <1>7, <1>8 DEF h

LEMMA PartsOfMessage ==
    ASSUME NEW f, NEW m, Unwrapped(f, m)
    PROVE  \E h \in Nat : /\ Run(m.header, 1, h)
                          /\ Kept(f, m) - h \in Nat
                          /\ Run(Stored(m), 1 + h, Kept(f, m) - h)
<1>1. f \in BusFrame /\ f.length \in Nat /\ Run(Payload(f), 1, f.length)
  BY PayloadRun DEF Unwrapped
<1>2. ASSUME m.header = <<>>, Kept(f, m) = f.length, Stored(m) = Payload(f)
      PROVE  \E h \in Nat : /\ Run(m.header, 1, h)
                            /\ Kept(f, m) - h \in Nat
                            /\ Run(Stored(m), 1 + h, Kept(f, m) - h)
  <2>1. f.length - 0 = f.length /\ 1 + 0 = 1 /\ 0 \in Nat
    BY <1>1
  <2>2. Run(<<>>, 1, 0)
    BY EmptySeq DEF Run
  <2> QED
    BY <1>1, <1>2, <2>1, <2>2
<1>3. PICK network : \/ f.length <= DataBytes /\ m = Can(f, network)
                     \/ m = CanFd(f, network)
                     \/ m = Lin(f, network)
  BY DEF Unwrapped
<1>4. CASE m = Can(f, network)
  <2>1. /\ m.header = <<>> /\ m.protocol = "CAN" /\ ~m.extraEnabled
        /\ m.data = Payload(f) /\ m.count = f.length
    BY <1>4 DEF Can
  <2>2. Bytes(Payload(f), 1, f.length) = Payload(f)
    BY <1>1, RunWhole
  <2> QED
    BY <1>2, <2>1, <2>2 DEF Kept, Stored
<1>5. CASE m = CanFd(f, network)
  <2>1. /\ m.header = <<>> /\ m.protocol = "CANFD" /\ m.extraEnabled /\ m.extra = Payload(f)
    BY <1>5 DEF CanFd
  <2> QED
    BY <1>2, <2>1 DEF Kept, Stored
<1>6. CASE m = Lin(f, network)
  <2>1. PICK h \in Nat : /\ Kept(f, m) - h \in Nat /\ Run(m.header, 1, h)
                         /\ Run(m.data, 1 + h, Kept(f, m) - h)
                         /\ m.count \in Nat /\ Kept(f, m) - h <= m.count
    BY <1>1, <1>6, LinParts
  <2>2. Bytes(m.data, 1, m.count) = m.data
    BY <2>1, RunWhole
  <2>3. ~m.extraEnabled
    BY <1>6 DEF Lin
  <2>4. Run(Stored(m), 1 + h, Kept(f, m) - h)
    BY <2>1, <2>2, <2>3 DEF Stored
  <2> QED
    BY <2>1, <2>4
<1> QED
  BY <1>3, <1>4, <1>5, <1>6

LEMMA PayloadOfRun ==
    ASSUME NEW f, NEW m, Unwrapped(f, m)
    PROVE  /\ Run(PayloadOf(m), 1, Kept(f, m))
           /\ PayloadOf(m) = m.header \o Stored(m)
<1>1. PICK h \in Nat : /\ Run(m.header, 1, h)
                       /\ Kept(f, m) - h \in Nat
                       /\ Run(Stored(m), 1 + h, Kept(f, m) - h)
  BY PartsOfMessage
<1>2. PayloadOf(m) = m.header \o Stored(m)
  BY DEF PayloadOf, Stored
<1>3. Run(m.header \o Stored(m), 1, h + (Kept(f, m) - h))
  BY <1>1, RunConcat
<1>4. Kept(f, m) \in Nat
  <2>1. f.length \in Nat
    BY PayloadRun DEF Unwrapped
  <2> QED
    BY <2>1 DEF Kept, AtMost, LinHeaderBytes, DataBytes
<1>5. h + (Kept(f, m) - h) = Kept(f, m)
  BY <1>4
<1> QED
  BY <1>2, <1>3, <1>5

(* Every byte of a payload is kept, in its place; of a LIN payload as many *)
(* as fit. This holds of frames of every length.                           *)
THEOREM PayloadsKept == BusSpec => []PayloadKept
<1>1. BusInv => PayloadKept
  <2> SUFFICES ASSUME BusInv, native.unwrapped
               PROVE  PayloadOf(native) =
                        IF native.protocol = "LIN"
                          THEN Bytes(Payload(frame), 1, LinHeaderBytes + DataBytes)
                          ELSE Payload(frame)
    BY DEF PayloadKept
  <2>1. Unwrapped(frame, native) /\ Run(PayloadOf(native), 1, Kept(frame, native))
    BY PayloadOfRun DEF BusInv
  <2>2. frame.length \in Nat /\ Run(Payload(frame), 1, frame.length)
    BY <2>1, PayloadRun DEF Unwrapped
  <2>3. CASE native.protocol = "LIN"
    <3> DEFINE most == Bytes(Payload(frame), 1, LinHeaderBytes + DataBytes)
    <3>1. Run(most, 1 + 1 - 1, NotBelow(AtMost(LinHeaderBytes + DataBytes, frame.length) - 1 + 1, 0))
      BY <2>2, RunBytes DEF LinHeaderBytes, DataBytes
    <3>2. /\ 1 + 1 - 1 = 1
          /\ NotBelow(AtMost(LinHeaderBytes + DataBytes, frame.length) - 1 + 1, 0) = Kept(frame, native)
      BY <2>2, <2>3 DEF NotBelow, AtMost, Kept, LinHeaderBytes, DataBytes
    <3>3. Run(most, 1, Kept(frame, native))
      BY <3>1, <3>2
    <3> HIDE DEF most
    <3>4. PayloadOf(native) = most
      BY <2>1, <3>3, RunUnique
    <3> QED
      BY <2>3, <3>4 DEF most
  <2>4. CASE native.protocol # "LIN"
    <3>1. Kept(frame, native) = frame.length
      BY <2>4 DEF Kept
    <3>2. PayloadOf(native) = Payload(frame)
      BY <2>1, <2>2, <3>1, RunUnique
    <3> QED
      BY <2>4, <3>2
  <2> QED
    BY <2>3, <2>4
<1> QED
  BY <1>1, BusInvariant, PTL

(* No byte comes from beyond the frame, whatever length it states.         *)
THEOREM NothingFromBeyond == BusSpec => []NoByteFromBeyond
<1>1. BusInv => NoByteFromBeyond
  <2> SUFFICES ASSUME BusInv, native.unwrapped, NEW i \in DOMAIN PayloadOf(native)
               PROVE  PayloadOf(native)[i] <= frame.room
    BY DEF NoByteFromBeyond
  <2>1. Unwrapped(frame, native) /\ Run(PayloadOf(native), 1, Kept(frame, native))
    BY PayloadOfRun DEF BusInv
  <2>2. frame.length \in Nat /\ frame.room \in Int /\ frame.length <= frame.room
    BY <2>1 DEF Unwrapped, BusFrame
  <2>3. Kept(frame, native) \in Nat /\ Kept(frame, native) <= frame.length
    BY <2>2 DEF Kept, AtMost, LinHeaderBytes, DataBytes
  <2>4. i \in 1..Kept(frame, native)
    BY <2>1 DEF Run
  <2>5. PayloadOf(native)[i] = 1 + i - 1
    BY <2>1, <2>4 DEF Run
  <2> QED
    BY <2>2, <2>3, <2>4, <2>5
<1> QED
  BY <1>1, BusInvariant, PTL

(* What is stored in a row begins with what the message holds, and goes on *)
(* only for LIN payloads longer than ten bytes.                            *)
LeadsInto(s, t) ==
    /\ s \in Seq(Nat) /\ t \in Seq(Nat)
    /\ Len(s) <= Len(t)
    /\ \A i \in 1..Len(s) : t[i] = s[i]

LEMMA LeadsWhole ==
    ASSUME NEW s, NEW t, LeadsInto(s, t), Len(s) = Len(t)
    PROVE  s = t
  BY SeqEqual DEF LeadsInto

LEMMA Leading ==
    ASSUME NEW s \in Seq(Nat), NEW n \in Nat, n <= Len(s)
    PROVE  /\ SubSeq(s, 1, n) \in Seq(Nat) /\ Len(SubSeq(s, 1, n)) = n
           /\ \A i \in 1..n : SubSeq(s, 1, n)[i] = s[i]
<1>1. n \in 0..Len(s) /\ n - 1 + 1 = n
  OBVIOUS
<1> QED
  BY <1>1, SubSeqProperties

LEMMA SameLeading ==
    ASSUME NEW u \in Seq(Nat), NEW v \in Seq(Nat), NEW n \in Nat, n <= Len(u), n <= Len(v),
           \A i \in 1..n : u[i] = v[i]
    PROVE  SubSeq(u, 1, n) = SubSeq(v, 1, n)
<1>1. PICK x \in Seq(Nat) : /\ x = SubSeq(u, 1, n) /\ Len(x) = n
                            /\ \A i \in 1..n : x[i] = u[i]
  BY Leading
<1>2. PICK y \in Seq(Nat) : /\ y = SubSeq(v, 1, n) /\ Len(y) = n
                            /\ \A i \in 1..n : y[i] = v[i]
  BY Leading
<1>3. \A i \in 1..Len(x) : x[i] = y[i]
  BY <1>1, <1>2
<1>4. Len(x) = Len(y)
  BY <1>1, <1>2
<1>5. x = y
  BY <1>3, <1>4, SeqEqual
<1> QED
  BY <1>1, <1>2, <1>5

LEMMA LeadsAfter ==
    ASSUME NEW h \in Seq(Nat), NEW s, NEW t, LeadsInto(s, t)
    PROVE  /\ IsPrefix(h \o s, h \o t)
           /\ Len(h \o t) - Len(h) = Len(t)
           /\ h \o s # h \o t <=> Len(s) # Len(t)
<1>1. s \in Seq(Nat) /\ t \in Seq(Nat) /\ Len(s) <= Len(t) /\ \A i \in 1..Len(s) : t[i] = s[i]
  BY DEF LeadsInto
<1>2. PICK a \in Nat, b \in Nat, c \in Nat : a = Len(h) /\ b = Len(s) /\ c = Len(t)
  BY <1>1
<1>3. PICK u \in Seq(Nat), v \in Seq(Nat) :
        /\ u = h \o s /\ v = h \o t /\ Len(u) = a + b /\ Len(v) = a + c
        /\ \A i \in 1..(a + b) : u[i] = v[i]
  <2>1. /\ h \o s \in Seq(Nat) /\ h \o t \in Seq(Nat)
        /\ Len(h \o s) = a + b /\ Len(h \o t) = a + c
    BY <1>1, <1>2
  <2>2. ASSUME NEW i \in 1..(a + b) PROVE (h \o s)[i] = (h \o t)[i]
    <3>1. CASE i <= a
      BY <1>1, <1>2, <3>1
    <3>2. CASE ~(i <= a)
      <4>1. i - a \in 1..b
        BY <3>2
      <4>2. (h \o s)[i] = s[i - a] /\ (h \o t)[i] = t[i - a]
        BY <1>1, <1>2, <3>2
      <4> QED
        BY <1>1, <1>2, <4>1, <4>2
    <3> QED
      BY <3>1, <3>2
  <2> QED
    BY <2>1, <2>2
<1>4. SubSeq(u, 1, a + b) = SubSeq(v, 1, a + b)
  <2>1. /\ a + b \in Nat /\ a + b <= Len(u) /\ a + b <= Len(v)
        /\ \A i \in 1..(a + b) : u[i] = v[i]
    BY <1>1, <1>2, <1>3
  <2> QED
    BY <2>1, SameLeading
<1>5. IsPrefix(u, v)
  BY <1>1, <1>2, <1>3, <1>4 DEF IsPrefix
<1>6. u # v <=> b # c
  <2>1. CASE b = c
    BY <1>1, <1>2, <1>3, <2>1, LeadsWhole
  <2>2. CASE b # c
    BY <1>3, <2>2
  <2> QED
    BY <2>1, <2>2
<1>7. (a + c) - a = c
  OBVIOUS
<1> QED
  BY <1>2, <1>3, <1>5, <1>6, <1>7

LEMMA ReadAsStored ==
    ASSUME NEW m, ~m.extraEnabled, m.extra = <<>>, NEW first, NEW n, Run(m.data, first, n),
           m.count \in Nat, n <= m.count
    PROVE  /\ LeadsInto(Stored(m), Blob(m))
           /\ Len(Stored(m)) = n /\ Len(Blob(m)) = m.count
           /\ n = m.count => Blob(m) = m.data
<1>1. m.data \in Seq(Nat) /\ Len(m.data) = n /\ n \in Nat
  BY DEF Run
<1>2. Stored(m) = m.data
  BY RunWhole DEF Stored
<1>3. Blob(m) = [i \in 1..m.count |-> IF i <= n THEN m.data[i] ELSE 0]
  BY <1>1 DEF Blob, DataRead, Beyond
<1>4. Blob(m) \in [1..m.count -> Nat]
  BY <1>1, <1>3
<1>5. Blob(m) \in Seq(Nat) /\ Len(Blob(m)) = m.count
  BY <1>4, FunctionIsSequence
<1>6. \A i \in 1..n : Blob(m)[i] = m.data[i]
  BY <1>1, <1>3
<1>7. LeadsInto(Stored(m), Blob(m))
  BY <1>1, <1>2, <1>5, <1>6 DEF LeadsInto
<1> QED
  BY <1>1, <1>2, <1>5, <1>7, LeadsWhole

LEMMA BlobFacts ==
    ASSUME NEW f, NEW m, Unwrapped(f, m)
    PROVE  /\ LeadsInto(Stored(m), Blob(m))
           /\ Len(Stored(m)) # Len(Blob(m)) <=> m.protocol = "LIN" /\ f.length > LinHeaderBytes + DataBytes
           /\ Len(Blob(m)) <= DataBytes => Blob(m) = m.data /\ Len(Blob(m)) = m.count
<1>1. f \in BusFrame /\ f.length \in Nat /\ Run(Payload(f), 1, f.length)
  BY PayloadRun DEF Unwrapped
<1>2. PICK network : \/ f.length <= DataBytes /\ m = Can(f, network)
                     \/ m = CanFd(f, network)
                     \/ m = Lin(f, network)
  BY DEF Unwrapped
<1>3. CASE m = Can(f, network)
  <2>1. /\ m.protocol = "CAN" /\ ~m.extraEnabled /\ m.extra = <<>>
        /\ m.data = Payload(f) /\ m.count = f.length
    BY <1>3 DEF Can
  <2>2. Run(m.data, 1, f.length) /\ m.count \in Nat /\ f.length <= m.count
    BY <1>1, <2>1
  <2> QED
    BY <2>1, <2>2, ReadAsStored
<1>4. CASE m = CanFd(f, network)
  <2>1. /\ m.protocol = "CANFD" /\ m.extraEnabled /\ m.extra = Payload(f)
        /\ m.data = Bytes(Payload(f), 1, DataBytes) /\ m.count = f.length
    BY <1>4 DEF CanFd
  <2>2. Blob(m) = Payload(f)
    <3>1. CASE Payload(f) # <<>>
      BY <2>1, <3>1 DEF Blob
    <3>2. CASE Payload(f) = <<>>
      <4>1. f.length = 0
        BY <1>1, <3>2, EmptySeq DEF Run
      <4>2. Blob(m) = [i \in 1..0 |-> IF i <= Len(m.data) THEN m.data[i] ELSE Beyond]
        BY <2>1, <3>2, <4>1 DEF Blob, DataRead
      <4>3. Blob(m) \in [1..0 -> Nat]
        BY <4>2
      <4>4. Blob(m) \in Seq(Nat) /\ Len(Blob(m)) = 0
        BY <4>3, FunctionIsSequence
      <4> QED
        BY <3>2, <4>4, EmptySeq
    <3> QED
      BY <3>1, <3>2
  <2>3. Stored(m) = Payload(f)
    BY <2>1 DEF Stored
  <2>4. LeadsInto(Payload(f), Payload(f)) /\ Len(Payload(f)) = f.length
    BY <1>1 DEF LeadsInto, Run
  <2>5. f.length <= DataBytes => m.data = Payload(f)
    BY <1>1, <2>1, RunWhole DEF DataBytes
  <2> QED
    BY <2>1, <2>2, <2>3, <2>4, <2>5
<1>5. CASE m = Lin(f, network)
  <2>1. PICK h \in Nat : /\ Kept(f, m) - h \in Nat
                         /\ Run(m.data, 1 + h, Kept(f, m) - h)
                         /\ m.count \in Nat /\ Kept(f, m) - h <= m.count
                         /\ Kept(f, m) - h = m.count <=> f.length <= LinHeaderBytes + DataBytes
                         /\ h <= LinHeaderBytes /\ m.count = f.length - h
    <3>1. AtMost(f.length, LinHeaderBytes) <= LinHeaderBytes
      BY <1>1 DEF AtMost, LinHeaderBytes
    <3> QED
      BY <1>1, <1>5, <3>1, LinParts
  <2>2. ~m.extraEnabled /\ m.extra = <<>> /\ m.protocol = "LIN"
    BY <1>5 DEF Lin
  <2>3. /\ LeadsInto(Stored(m), Blob(m))
        /\ Len(Stored(m)) = Kept(f, m) - h /\ Len(Blob(m)) = m.count
        /\ Kept(f, m) - h = m.count => Blob(m) = m.data
    BY <2>1, <2>2, ReadAsStored
  <2>4. Kept(f, m) - h # m.count <=> f.length > LinHeaderBytes + DataBytes
    BY <1>1, <2>1 DEF LinHeaderBytes, DataBytes
  <2>5. m.count <= DataBytes => f.length <= LinHeaderBytes + DataBytes
    BY <1>1, <2>1 DEF LinHeaderBytes, DataBytes
  <2> QED
    BY <2>1, <2>2, <2>3, <2>4, <2>5
<1> QED
  BY <1>2, <1>3, <1>4, <1>5

(* Through a row of the database a message of any length keeps its header, *)
(* network, status and payload, and gets bytes that are not its own just   *)
(* if it is LIN of more than ten bytes (VSBDatabase.cpp:110-114).          *)
THEOREM DatabaseSurvived == BusSpec => []SurvivesDatabase
<1>1. BusInv => SurvivesDatabase
  <2> SUFFICES ASSUME BusInv, reread.unwrapped
               PROVE  LET before == PayloadOf(native)
                          after == PayloadOf(reread)
                      IN  /\ IsPrefix(before, after)
                          /\ before # after <=>
                                native.protocol = "LIN" /\ frame.length > LinHeaderBytes + DataBytes
                          /\ \A c \in {"network", "protocol", "header", "status", "ack"} :
                                reread[c] = native[c]
                          /\ reread.extraEnabled <=> Len(after) - Len(reread.header) > DataBytes
                          /\ ~reread.extraEnabled =>
                                reread.data = native.data /\ reread.count = native.count
                          /\ reread.description # native.description => native.protocol = "LIN"
    BY DEF SurvivesDatabase
  <2> DEFINE blob == Blob(native)
             small == Len(blob) <= DataBytes
  <2>1. /\ Unwrapped(frame, native) /\ reread = ReadMessage(SaveMessage(native))
        /\ PayloadOf(native) = native.header \o Stored(native)
    BY PayloadOfRun DEF BusInv
  <2>2. /\ LeadsInto(Stored(native), blob)
        /\ Len(Stored(native)) # Len(blob) <=>
              native.protocol = "LIN" /\ frame.length > LinHeaderBytes + DataBytes
        /\ small => blob = native.data /\ Len(blob) = native.count
    BY <2>1, BlobFacts
  <2>3. native.header \in Seq(Nat) /\ blob \in Seq(Nat)
    BY <2>1, <2>2, PartsOfMessage DEF LeadsInto, Run
  <2>4. reread = [unwrapped |-> TRUE, protocol |-> native.protocol, network |-> native.network,
                  header |-> native.header, status |-> native.status, ack |-> native.ack,
                  description |-> 0,
                  data |-> IF small THEN blob ELSE <<>>,
                  count |-> IF small THEN Len(blob) ELSE 0,
                  extraEnabled |-> ~small,
                  extra |-> IF small THEN <<>> ELSE blob]
    BY <2>1 DEF ReadMessage, SaveMessage
  <2>5. native.protocol # "LIN" => native.description = 0
    <3>1. PICK network : \/ native = Can(frame, network)
                         \/ native = CanFd(frame, network)
                         \/ native = Lin(frame, network)
      BY <2>1 DEF Unwrapped
    <3> QED
      BY <3>1 DEF Can, CanFd, Lin
  <2> HIDE DEF blob
  <2>6. PayloadOf(reread) = native.header \o blob
    <3>1. Bytes(blob, 1, Len(blob)) = blob
      <4>1. Min({Len(blob), Len(blob)}) = Len(blob)
        BY <2>3, MinOfTwo DEF AtMost
      <4>2. SubSeq(blob, 1, Len(blob)) = blob
        BY <2>3
      <4> QED
        BY <4>1, <4>2 DEF Bytes
    <3>2. /\ reread.header = native.header
          /\ reread.data = (IF small THEN blob ELSE <<>>)
          /\ reread.count = (IF small THEN Len(blob) ELSE 0)
          /\ reread.extraEnabled = ~small
          /\ reread.extra = (IF small THEN <<>> ELSE blob)
      BY <2>4
    <3> QED
      BY <3>1, <3>2 DEF PayloadOf
  <2>7. /\ IsPrefix(PayloadOf(native), PayloadOf(reread))
        /\ Len(PayloadOf(reread)) - Len(native.header) = Len(blob)
        /\ PayloadOf(native) # PayloadOf(reread) <=> Len(Stored(native)) # Len(blob)
    <3>1. LeadsInto(Stored(native), blob)
      BY <2>2
    <3>2. /\ IsPrefix(native.header \o Stored(native), native.header \o blob)
          /\ Len(native.header \o blob) - Len(native.header) = Len(blob)
          /\ native.header \o Stored(native) # native.header \o blob <=>
                Len(Stored(native)) # Len(blob)
      BY <2>3, <3>1, LeadsAfter
    <3> QED
      BY <2>1, <2>6, <3>2
  <2>8. ~small <=> Len(blob) > DataBytes
    BY <2>3 DEF DataBytes
  <2>9. \A c \in {"network", "protocol", "header", "status", "ack"} : reread[c] = native[c]
    BY <2>4
  <2>10. /\ reread.header = native.header /\ reread.extraEnabled = ~small /\ reread.description = 0
         /\ reread.data = (IF small THEN blob ELSE <<>>)
         /\ reread.count = (IF small THEN Len(blob) ELSE 0)
    BY <2>4
  <2> QED
    BY <2>2, <2>5, <2>7, <2>8, <2>9, <2>10
<1> QED
  BY <1>1, BusInvariant, PTL

-------------------------------------------------------------------------------
(* The map that is loaded is a fold of the entries of a file.  Its value   *)
(* for a pair is what the last valid entry of the pair says.               *)
Loaded(s) == FoldLeft(AddEntry, <<>>, s)

Maps == UNION {[K -> Nat] : K \in SUBSET (Nat \X Nat)}
Adding == [p \in Maps \X EntryElement |-> AddEntry(p[1], p[2])]

LEMMA EmptyMap == <<>> \in Maps /\ DOMAIN <<>> = {}
<1>1. <<>> \in [{} -> Nat] /\ {} \in SUBSET (Nat \X Nat)
  OBVIOUS
<1> QED
  BY <1>1 DEF Maps

LEMMA EntryValues ==
    ASSUME NEW e \in EntryElement, Parses(e)
    PROVE  KeyOf(e) \in Nat \X Nat /\ NetworkValue(e.network) \in Nat
<1>1. e.device \in Nat /\ e.interface \in Nat /\ e.network \in NetworkElement
  BY DEF EntryElement
<1>2. PICK i \in Nat, w \in Nat \ {0} : i = e.interface /\ w = Word
  BY <1>1, MapAssumption
<1>3. i % w \in Nat
  OBVIOUS
<1>4. NetworkValue(e.network) \in Nat
  <2>1. CASE e.network.form = "word"
    BY <1>1, <2>1 DEF NetworkElement, NetworkValue
  <2>2. CASE e.network.form # "word"
    <3>1. PICK low \in Nat, high \in Nat : e.network.low = low /\ e.network.high = high
      BY <1>1, <2>2 DEF NetworkElement, Parses
    <3>2. PICK b \in Nat : b = Byte
      BY MapAssumption
    <3>3. high * b + low \in Nat
      OBVIOUS
    <3> QED
      BY <2>2, <3>1, <3>2, <3>3 DEF NetworkValue
  <2> QED
    BY <2>1, <2>2
<1> QED
  BY <1>1, <1>2, <1>3, <1>4 DEF KeyOf

LEMMA AddEntryType ==
    ASSUME NEW loaded \in Maps, NEW e \in EntryElement
    PROVE  AddEntry(loaded, e) \in Maps
<1>1. CASE ~Parses(e)
  BY <1>1 DEF AddEntry
<1>2. CASE Parses(e)
  <2>1. PICK K \in SUBSET (Nat \X Nat) : loaded \in [K -> Nat]
    BY DEF Maps
  <2>2. PICK key \in Nat \X Nat, v \in Nat : key = KeyOf(e) /\ v = NetworkValue(e.network)
    BY <1>2, EntryValues
  <2>3. PICK L \in SUBSET (Nat \X Nat) : L = K \cup {key}
    BY <2>1
  <2>4. AddEntry(loaded, e) = [k \in L |-> IF k = key THEN v ELSE loaded[k]]
    BY <1>2, <2>1, <2>2, <2>3 DEF AddEntry
  <2>5. AddEntry(loaded, e) \in [L -> Nat]
    BY <2>1, <2>3, <2>4
  <2> QED
    BY <2>5 DEF Maps
<1> QED
  BY <1>1, <1>2

LEMMA AddingType == Adding \in [Maps \X EntryElement -> Maps]
  BY AddEntryType DEF Adding

LEMMA LoadedIsFold ==
    ASSUME NEW s \in Seq(EntryElement)
    PROVE  /\ FoldType(Maps, EntryElement, Adding, <<>>, s)
           /\ Loaded(s) = FoldOf(Adding, <<>>, s)
<1> DEFINE Eq(it) == it = [t \in SUBSET (DOMAIN s) |->
                             IF t = {} THEN <<>> ELSE AddEntry(it[t \ {Max(t)}], s[Max(t)])]
           j == CHOOSE it : Eq(it)
<1>1. FoldType(Maps, EntryElement, Adding, <<>>, s)
  BY AddingType, EmptyMap DEF FoldType
<1>2. DOMAIN s = 1..Len(s)
  OBVIOUS
<1>3. Loaded(s) = j[1..Len(s)]
  BY <1>2 DEF Loaded, FoldLeft, MapThenFoldSet
<1>4. \E it : Eq(it)
  <2>1. PICK it \in [SUBSET (1..Len(s)) -> Maps] : Folding(it, Len(s), Adding, <<>>, s)
    BY <1>1, FoldingExists
  <2>2. ASSUME NEW t \in SUBSET (1..Len(s)), t # {}
        PROVE  it[t] = AddEntry(it[t \ {Max(t)}], s[Max(t)])
    <3>1. it[t] = Adding[<<it[t \ {Max(t)}], s[Max(t)]>>]
      BY <2>1, <2>2 DEF Folding
    <3>2. it[t \ {Max(t)}] \in Maps /\ s[Max(t)] \in EntryElement
      BY <2>1, <2>2, MaxIn
    <3> QED
      BY <3>1, <3>2 DEF Adding
  <2>3. it[{}] = <<>>
    BY <2>1 DEF Folding
  <2>4. Eq(it)
    BY <1>2, <2>1, <2>2, <2>3
  <2> QED
    BY <2>4
<1>5. Eq(j)
  <2> HIDE DEF Eq
  <2> QED
    BY <1>4
<1> HIDE DEF j
<1>6. j[{}] = <<>>
  BY <1>5
<1>7. ASSUME NEW t \in SUBSET (1..Len(s)), t # {}, j[t \ {Max(t)}] \in Maps
      PROVE  j[t] = Adding[<<j[t \ {Max(t)}], s[Max(t)]>>]
  <2>1. s[Max(t)] \in EntryElement
    BY <1>7, MaxIn
  <2>2. j[t] = AddEntry(j[t \ {Max(t)}], s[Max(t)])
    BY <1>2, <1>5, <1>7
  <2> HIDE DEF Eq
  <2> QED
    BY <1>7, <2>1, <2>2 DEF Adding
<1> HIDE DEF Eq
<1>8. j[1..Len(s)] = FoldOf(Adding, <<>>, s)
  <2>1. FoldsWithin(j, Maps, Adding, <<>>, s)
    BY <1>6, <1>7 DEF FoldsWithin
  <2> QED
    BY <1>1, <2>1, FoldOfFolding
<1> QED
  BY <1>1, <1>3, <1>8

LEMMA LoadedFacts ==
    /\ Loaded(<<>>) = <<>>
    /\ \A s \in Seq(EntryElement) : Loaded(s) \in Maps
    /\ \A s \in Seq(EntryElement), e \in EntryElement :
          Loaded(Append(s, e)) = AddEntry(Loaded(s), e)
<1>1. Loaded(<<>>) = <<>>
  <2>1. <<>> \in Seq(EntryElement)
    OBVIOUS
  <2> QED
    BY <2>1, LoadedIsFold, FoldOfEmpty
<1>2. ASSUME NEW s \in Seq(EntryElement) PROVE Loaded(s) \in Maps
  <2>1. FoldOf(Adding, <<>>, s) \in Maps
    BY LoadedIsFold, FoldOfType
  <2> QED
    BY <2>1, LoadedIsFold
<1>3. ASSUME NEW s \in Seq(EntryElement), NEW e \in EntryElement
      PROVE  Loaded(Append(s, e)) = AddEntry(Loaded(s), e)
  <2>1. FoldOf(Adding, <<>>, Append(s, e)) = Adding[<<FoldOf(Adding, <<>>, s), e>>]
    BY LoadedIsFold, FoldOfAppend
  <2>2. Append(s, e) \in Seq(EntryElement)
    BY AppendFacts
  <2>3. Loaded(Append(s, e)) = Adding[<<Loaded(s), e>>]
    BY <2>1, <2>2, LoadedIsFold
  <2> QED
    BY <1>2, <2>3 DEF Adding
<1> QED
  BY <1>1, <1>2, <1>3

Says(s, pair) == {i \in 1..Len(s) : Parses(s[i]) /\ KeyOf(s[i]) = pair}

LastSaid(s, pair, i) == i \in Says(s, pair) /\ \A j \in Says(s, pair) : j <= i

LastSays(s, pair) ==
    \/ Says(s, pair) = {} /\ pair \notin DOMAIN Loaded(s)
    \/ /\ pair \in DOMAIN Loaded(s)
       /\ \E i \in 1..Len(s) :
             LastSaid(s, pair, i) /\ Loaded(s)[pair] = NetworkValue(s[i].network)

LEMMA LastSaysStep ==
    ASSUME NEW s \in Seq(EntryElement), NEW e \in EntryElement, NEW pair, LastSays(s, pair)
    PROVE  LastSays(Append(s, e), pair)
<1>1. PICK g \in Seq(EntryElement) : EndsIn(g, s, e)
  BY EndsInAppended
<1>2. PICK n \in Nat : n = Len(s) /\ Len(g) = n + 1 /\ g[n + 1] = e /\ \A i \in 1..n : g[i] = s[i]
  BY <1>1 DEF EndsIn
<1>3. Loaded(g) = AddEntry(Loaded(s), e)
  BY <1>1, LoadedFacts DEF EndsIn
<1>4. CASE Parses(e) /\ KeyOf(e) = pair
  <2>1. LastSaid(g, pair, n + 1)
    BY <1>2, <1>4 DEF LastSaid, Says
  <2>2. pair \in DOMAIN Loaded(g) /\ Loaded(g)[pair] = NetworkValue(e.network)
    BY <1>3, <1>4 DEF AddEntry
  <2>3. n + 1 \in 1..(n + 1)
    OBVIOUS
  <2> QED
    BY <1>1, <1>2, <2>1, <2>2, <2>3 DEF LastSays, EndsIn
<1>5. CASE ~(Parses(e) /\ KeyOf(e) = pair)
  <2>1. Says(g, pair) = Says(s, pair)
    <3>1. \A i \in 1..(n + 1) : i \in 1..n \/ i = n + 1
      OBVIOUS
    <3>2. 1..n \subseteq 1..(n + 1)
      OBVIOUS
    <3> QED
      BY <1>2, <1>5, <3>1, <3>2 DEF Says
  <2>2. /\ pair \in DOMAIN Loaded(g) <=> pair \in DOMAIN Loaded(s)
        /\ pair \in DOMAIN Loaded(s) => Loaded(g)[pair] = Loaded(s)[pair]
    BY <1>3, <1>5 DEF AddEntry
  <2>3. CASE Says(s, pair) = {} /\ pair \notin DOMAIN Loaded(s)
    BY <1>1, <2>1, <2>2, <2>3 DEF LastSays, EndsIn
  <2>4. ASSUME NEW i \in 1..n, pair \in DOMAIN Loaded(s), LastSaid(s, pair, i),
               Loaded(s)[pair] = NetworkValue(s[i].network)
        PROVE  LastSays(g, pair)
    <3>1. i \in 1..(n + 1) /\ g[i] = s[i]
      BY <1>2
    <3>2. LastSaid(g, pair, i)
      BY <2>1, <2>4 DEF LastSaid
    <3> QED
      BY <1>2, <2>2, <2>4, <3>1, <3>2 DEF LastSays
  <2> QED
    BY <1>1, <1>2, <2>3, <2>4 DEF LastSays, EndsIn
<1> QED
  BY <1>4, <1>5

LEMMA LoadedSaysLast ==
    ASSUME NEW s \in Seq(EntryElement), NEW pair
    PROVE  LastSays(s, pair)
<1> DEFINE S == {u \in Seq(EntryElement) : LastSays(u, pair)}
<1>1. <<>> \in S
  BY LoadedFacts, EmptyMap DEF LastSays, Says
<1>2. ASSUME NEW u \in S, NEW e \in EntryElement PROVE Append(u, e) \in S
  <2>1. u \in Seq(EntryElement) /\ LastSays(u, pair)
    OBVIOUS
  <2> QED
    BY <2>1, LastSaysStep, AppendFacts
<1>3. S = Seq(EntryElement)
  <2>1. S \in SUBSET Seq(EntryElement)
    OBVIOUS
  <2> HIDE DEF S
  <2> QED
    BY <1>1, <1>2, <2>1, SequenceInduction
<1> QED
  BY <1>3

(* The map in force is that of the file loaded last, and the last message  *)
(* was looked up in it.                                                    *)
LookedUp(f, m) ==
    m.unwrapped => /\ m.network = LookupNetwork(f.device, f.interface)
                   /\ m.network # NoNetwork

MapInv ==
    /\ latest \in Document
    /\ override = IF latest.hasMap THEN Loaded(latest.entries) ELSE <<>>
    /\ active <=> DOMAIN override # {}
    /\ LookedUp(frame, native)

LEMMA MapInvInit ==
    ASSUME BusInit
    PROVE  MapInv
<1>1. latest = NoDocument /\ override = <<>> /\ ~active /\ ~native.unwrapped
  BY DEF BusInit, MapInit, NotUnwrapped
<1>2. NoDocument \in Document /\ ~NoDocument.hasMap
  BY EmptySeq DEF NoDocument, Document
<1> QED
  BY <1>1, <1>2, EmptyMap DEF MapInv, LookedUp

LEMMA TryUnwrapLooksUp ==
    ASSUME NEW f \in Frames
    PROVE  LookedUp(f, TryUnwrap(f))
<1> DEFINE network == LookupNetwork(f.device, f.interface)
<1> SUFFICES ASSUME TryUnwrap(f).unwrapped
             PROVE  TryUnwrap(f).network = network /\ network # NoNetwork
  BY DEF LookedUp
<1>1. ~NotUnwrapped.unwrapped
  BY DEF NotUnwrapped
<1> HIDE DEF network
<1>2. Fits(f) /\ network # NoNetwork
  <2> SUFFICES ASSUME ~Fits(f) \/ network = NoNetwork PROVE FALSE
    OBVIOUS
  <2>1. TryUnwrap(f) = NotUnwrapped
    BY DEF TryUnwrap, network
  <2> QED
    BY <1>1, <2>1
<1>3. TryUnwrap(f) \in {NotUnwrapped, Can(f, network), CanFd(f, network), Lin(f, network)}
  <2>1. f.kind \in {"can", "canfd", "lin"}
    BY FramesAssumption DEF BusFrame
  <2> QED
    BY <1>2, <2>1 DEF TryUnwrap, network
<1>4. /\ Can(f, network).network = network
      /\ CanFd(f, network).network = network
      /\ Lin(f, network).network = network
  BY DEF Can, CanFd, Lin
<1> QED
  BY <1>1, <1>2, <1>3, <1>4

LEMMA MapStep ==
    ASSUME MapInv, [BusNext]_busVars
    PROVE  MapInv'
<1>1. CASE LoadCmpNetworkMapFromVsdb
  <2>1. PICK d \in Documents : LoadMap(d) /\ latest' = d
    BY <1>1 DEF LoadCmpNetworkMapFromVsdb
  <2>2. PICK loaded : loaded = IF d.hasMap THEN FoldLeft(AddEntry, <<>>, d.entries) ELSE <<>>
    OBVIOUS
  <2>3. override' = loaded /\ active' = (DOMAIN loaded # {})
    BY <2>1, <2>2 DEF LoadMap
  <2>4. ~native'.unwrapped
    BY <1>1 DEF LoadCmpNetworkMapFromVsdb, NotUnwrapped
  <2> QED
    BY <2>1, <2>2, <2>3, <2>4, DocumentsAssumption DEF MapInv, Loaded, LookedUp
<1>2. CASE UnwrapBusMessage
  <2>1. PICK f \in Frames : frame' = f /\ native' = TryUnwrap(f)
    BY <1>2 DEF UnwrapBusMessage
  <2>2. override' = override /\ active' = active /\ latest' = latest
    BY <1>2 DEF UnwrapBusMessage, mapVars
  <2>3. LookedUp(f, TryUnwrap(f))
    BY TryUnwrapLooksUp
  <2> QED
    BY <2>1, <2>2, <2>3 DEF MapInv, LookedUp, LookupNetwork
<1>3. CASE StoreAndRead
  BY <1>3 DEF StoreAndRead, mapVars, MapInv, LookedUp, LookupNetwork
<1>4. CASE UNCHANGED busVars
  BY <1>4 DEF busVars, mapVars, MapInv, LookedUp, LookupNetwork
<1> QED
  BY <1>1, <1>2, <1>3, <1>4 DEF BusNext

LEMMA LastIsChosen ==
    ASSUME NEW s \in Seq(EntryElement), NEW pair, NEW i \in 1..Len(s), LastSaid(s, pair, i)
    PROVE  (CHOOSE k \in Says(s, pair) : \A j \in Says(s, pair) : j <= k) = i
<1>1. \A k \in Says(s, pair) : (\A j \in Says(s, pair) : j <= k) => k = i
  <2> TAKE k \in Says(s, pair)
  <2> HAVE \A j \in Says(s, pair) : j <= k
  <2>1. k \in Int /\ i \in Int
    BY DEF Says
  <2>2. i <= k /\ k <= i
    BY DEF LastSaid
  <2> QED
    BY <2>1, <2>2
<1>2. i \in Says(s, pair) /\ \A j \in Says(s, pair) : j <= i
  BY DEF LastSaid
<1> QED
  BY <1>1, <1>2

(* A message has the network that the last valid entry of the file loaded  *)
(* last gives its device and interface, or the built-in one, for files of  *)
(* any length and whatever was loaded before (CMPNetworkMap.cpp:194-244).  *)
THEOREM LatestMapDecides == BusSpec => []NetworkFromLatestMap
<1>1. BusInit => MapInv
  BY MapInvInit
<1>2. MapInv /\ [BusNext]_busVars => MapInv'
  BY MapStep
<1>3. MapInv => NetworkFromLatestMap
  <2> SUFFICES ASSUME MapInv, native.unwrapped,
                      NEW pair, pair = <<frame.device, frame.interface>>
               PROVE  LET said == SaidBy(latest, pair) IN
                      native.network =
                        IF said # {}
                          THEN NetworkValue(latest.entries[CHOOSE i \in said : \A j \in said : j <= i].network)
                          ELSE BuiltIn[pair]
    BY DEF NetworkFromLatestMap
  <2>1. PICK s \in Seq(EntryElement) : s = latest.entries
    BY DEF MapInv, Document
  <2>2. /\ native.network # NoNetwork
        /\ native.network =
             CASE active /\ pair \in DOMAIN override -> override[pair]
               [] ~(active /\ pair \in DOMAIN override) /\ pair \in DOMAIN BuiltIn -> BuiltIn[pair]
               [] OTHER -> NoNetwork
    BY DEF MapInv, LookedUp, LookupNetwork
  <2>3. native.network = IF pair \in DOMAIN override THEN override[pair] ELSE BuiltIn[pair]
    BY <2>2 DEF MapInv
  <2>4. CASE latest.hasMap
    <3>1. override = Loaded(s)
      BY <2>1, <2>4 DEF MapInv
    <3>2. SaidBy(latest, pair) = Says(s, pair)
      BY <2>1, <2>4 DEF SaidBy, Says
    <3>3. CASE Says(s, pair) = {} /\ pair \notin DOMAIN Loaded(s)
      BY <2>3, <3>1, <3>2, <3>3
    <3>4. ASSUME NEW i \in 1..Len(s), pair \in DOMAIN Loaded(s), LastSaid(s, pair, i),
                 Loaded(s)[pair] = NetworkValue(s[i].network)
          PROVE  LET said == SaidBy(latest, pair) IN
                 native.network =
                   IF said # {}
                     THEN NetworkValue(latest.entries[CHOOSE k \in said : \A j \in said : j <= k].network)
                     ELSE BuiltIn[pair]
      <4>1. (CHOOSE k \in Says(s, pair) : \A j \in Says(s, pair) : j <= k) = i
        BY <3>4, LastIsChosen
      <4>2. Says(s, pair) # {}
        BY <3>4 DEF LastSaid
      <4>3. native.network = NetworkValue(s[i].network)
        BY <2>3, <3>1, <3>4
      <4> QED
        BY <2>1, <3>2, <4>1, <4>2, <4>3
    <3> QED
      BY <3>3, <3>4, LoadedSaysLast DEF LastSays
  <2>5. CASE ~latest.hasMap
    <3>1. SaidBy(latest, pair) = {} /\ DOMAIN override = {}
      BY <2>5, EmptyMap DEF SaidBy, MapInv
    <3> QED
      BY <2>3, <3>1
  <2> QED
    BY <2>4, <2>5
<1> QED
  BY <1>1, <1>2, <1>3, PTL DEF BusSpec
===============================================================================
