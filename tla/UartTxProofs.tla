---------------------------- MODULE UartTxProofs ----------------------------
(***************************************************************************)
(* Proofs about UartTx for every size of the ring: the ring and its        *)
(* counters stay consistent, and the wire carries the accepted bytes in    *)
(* order, each once, as long as no interrupt came inside IFullSlotsCount++.*)
(***************************************************************************)
EXTENDS UartTx, TLAPS

(* What holds whether or not the counter was torn: a transfer lies in the  *)
(* ring and within the counter, and a counter loaded is not too small.     *)
Bounds ==
  /\ IDmaIsIdle => dma.left = 0
  /\ ~IDmaIsIdle => /\ ITransSize <= IFullSlotsCount
                    /\ PRead + ITransSize <= Size
                    /\ dma.addr + dma.left = PRead + ITransSize
                    /\ dma.left <= ITransSize
  /\ print = "Store" => IFullSlotsCount <= loaded /\ loaded < Size

(* What a torn counter destroys.                                           *)
Exact ==
  /\ InRing <= Size /\ InRing <= accepted
  /\ PWrite = Circulate(PRead + InRing)
  /\ \A i \in 0 .. Size - 1 :
       Behind(i, PRead) < InRing => TXBuf[i] + InRing = accepted + 1 + Behind(i, PRead)
  /\ print = "Store" => loaded = IFullSlotsCount
  /\ IDmaIsIdle => sent + InRing = accepted
  /\ ~IDmaIsIdle => sent + dma.left + InRing = accepted + ITransSize
  /\ out = sent
  /\ IDmaIsIdle /\ print = "No" => IFullSlotsCount = 0

Inv == TypeOK /\ Bounds /\ (~torn => Exact)

USE UAssumption DEF UAssumption

LEMMA InitInv == Init => Inv
<1> SUFFICES ASSUME Init PROVE Inv
  OBVIOUS
<1>1. TypeOK
  <2>1. TXBuf \in [0 .. Size - 1 -> 0 .. MaxBytes]
    BY DEF Init
  <2>2. dma \in [addr : 0 .. Size, left : 0 .. Size]
    BY DEF Init
  <2>3. IDmaIsIdle \in BOOLEAN /\ torn \in BOOLEAN /\ print \in {"No", "Put", "Store"}
    BY DEF Init
  <2>4. /\ PRead \in 0 .. Size - 1 /\ PWrite \in 0 .. Size - 1
        /\ IFullSlotsCount \in 0 .. Size /\ ITransSize \in 0 .. Size
        /\ loaded \in 0 .. Size /\ accepted \in 0 .. MaxBytes
        /\ sent \in Nat /\ out \in 0 .. MaxBytes
    BY DEF Init
  <2> QED
    BY <2>1, <2>2, <2>3, <2>4 DEF TypeOK
<1>2. Bounds
  BY DEF Init, Bounds
<1>3. Exact
  BY DEF Init, Exact, InRing, Circulate, Behind
<1> QED
  BY <1>1, <1>2, <1>3 DEF Inv

-----------------------------------------------------------------------------
(* The start of a transfer, from the pointer and the counter it is given.  *)
LEMMA Transfer ==
  ASSUME NEW read \in 0 .. Size - 1, NEW count \in 0 .. Size,
         IDmaIsIdle \in BOOLEAN, dma \in [addr : 0 .. Size, left : 0 .. Size],
         ISendViaDMA(read, count)
  PROVE  /\ ITransSize' \in 0 .. Size
         /\ dma' \in [addr : 0 .. Size, left : 0 .. Size]
         /\ IDmaIsIdle' \in BOOLEAN
         /\ ITransSize' <= count /\ read + ITransSize' <= Size
         /\ count # 0 => /\ IDmaIsIdle' = FALSE
                         /\ dma'.addr = read /\ dma'.left = ITransSize'
         /\ count = 0 => UNCHANGED <<IDmaIsIdle, dma>>
<1>1. ITransSize' \in 0 .. Size /\ ITransSize' <= count /\ read + ITransSize' <= Size
  BY DEF ISendViaDMA, Least
<1>2. CASE count # 0
  <2>1. IDmaIsIdle' = FALSE /\ dma' = [addr |-> read, left |-> ITransSize']
    BY <1>2 DEF ISendViaDMA
  <2>2. read \in 0 .. Size
    OBVIOUS
  <2> QED
    BY <1>1, <1>2, <2>1, <2>2
<1>3. CASE count = 0
  BY <1>1, <1>3 DEF ISendViaDMA
<1> QED
  BY <1>2, <1>3

(* Bytes put behind those in the ring leave them alone.                    *)
LEMMA Ring ==
  ASSUME Inv, ~torn, print # "Store", NEW n \in Nat, PutBytes(n)
  PROVE  /\ PWrite' = Circulate(PRead + (InRing + n))
         /\ \A i \in 0 .. Size - 1 :
              Behind(i, PRead) < InRing + n =>
                TXBuf'[i] + InRing = accepted + 1 + Behind(i, PRead)
         /\ InRing + n <= Size
<1>1. /\ InRing = IFullSlotsCount /\ IFullSlotsCount \in 0 .. Size
      /\ n <= Size - IFullSlotsCount
      /\ PRead \in 0 .. Size - 1 /\ accepted \in Nat
      /\ PWrite = Circulate(PRead + InRing) /\ PWrite \in 0 .. Size - 1
  BY DEF Inv, TypeOK, Exact, PutBytes, InRing
<1>2. PWrite' = Circulate(PRead + (InRing + n))
  <2>1. PWrite' = Circulate(PWrite + n)
    BY DEF PutBytes
  <2> QED
    BY <1>1, <2>1 DEF Circulate
<1>3. ASSUME NEW i \in 0 .. Size - 1, Behind(i, PRead) < InRing + n
      PROVE  TXBuf'[i] + InRing = accepted + 1 + Behind(i, PRead)
  <2>1. TXBuf'[i] = IF Behind(i, PWrite) < n THEN accepted + 1 + Behind(i, PWrite) ELSE TXBuf[i]
    BY DEF PutBytes
  <2>2. CASE Behind(i, PRead) < InRing
    <3>1. ~(Behind(i, PWrite) < n)
      BY <1>1, <2>2 DEF Behind, Circulate
    <3>2. TXBuf[i] + InRing = accepted + 1 + Behind(i, PRead)
      BY <2>2 DEF Inv, Exact
    <3> QED
      BY <2>1, <3>1, <3>2
  <2>3. CASE ~(Behind(i, PRead) < InRing)
    <3>1. Behind(i, PWrite) = Behind(i, PRead) - InRing
      BY <1>1, <1>3, <2>3 DEF Behind, Circulate
    <3>2. Behind(i, PRead) \in Int
      BY <1>1 DEF Behind
    <3> QED
      BY <1>1, <1>3, <2>1, <3>1, <3>2
  <2> QED
    BY <2>2, <2>3
<1> QED
  BY <1>1, <1>2, <1>3

LEMMA RingTypes ==
  ASSUME TypeOK, NEW n \in Nat, n <= MaxBytes - accepted, PutBytes(n)
  PROVE  /\ TXBuf' \in [0 .. Size - 1 -> 0 .. MaxBytes]
         /\ PWrite' \in 0 .. Size - 1
         /\ accepted' \in 0 .. MaxBytes /\ accepted' = accepted + n
  BY DEF TypeOK, PutBytes, Circulate, Behind

LEMMA StartIfIdle ==
  ASSUME TypeOK, Bounds, NEW count \in 0 .. Size, IFullSlotsCount <= count,
         IStartTransmissionIfNotYet(count)
  PROVE  /\ ITransSize' \in 0 .. Size
         /\ dma' \in [addr : 0 .. Size, left : 0 .. Size]
         /\ IDmaIsIdle' \in BOOLEAN
         /\ IDmaIsIdle' => dma'.left = 0 /\ (IDmaIsIdle /\ count = 0)
         /\ ~IDmaIsIdle' => /\ ITransSize' <= count
                            /\ PRead + ITransSize' <= Size
                            /\ dma'.addr + dma'.left = PRead + ITransSize'
                            /\ dma'.left <= ITransSize'
         /\ IDmaIsIdle /\ ~IDmaIsIdle' => dma'.left = ITransSize'
         /\ ~IDmaIsIdle => ITransSize' = ITransSize /\ dma' = dma /\ ~IDmaIsIdle'
<1>1. CASE IDmaIsIdle
  <2>1. ISendViaDMA(PRead, count)
    BY <1>1 DEF IStartTransmissionIfNotYet
  <2>2. PRead \in 0 .. Size - 1 /\ IDmaIsIdle \in BOOLEAN
        /\ dma \in [addr : 0 .. Size, left : 0 .. Size]
    BY DEF TypeOK
  <2>3. IFullSlotsCount \in 0 .. Size /\ dma.left = 0
    BY <1>1 DEF TypeOK, Bounds
  <2>4. CASE count = 0
    BY <1>1, <2>1, <2>2, <2>3, <2>4, Transfer
  <2>5. CASE count # 0
    <3>1. ITransSize' \in 0 .. Size /\ ITransSize' <= count /\ PRead + ITransSize' <= Size
      BY <2>1, <2>2, <2>5, Transfer
    <3>2. ~IDmaIsIdle' /\ IDmaIsIdle' \in BOOLEAN
      BY <2>1, <2>2, <2>5, Transfer
    <3>3. dma'.addr = PRead /\ dma'.left = ITransSize'
      BY <2>1, <2>2, <2>5, Transfer
    <3>4. dma' \in [addr : 0 .. Size, left : 0 .. Size]
      BY <2>1, <2>2, Transfer
    <3>5. PRead \in Int
      BY <2>2
    <3>6. dma'.addr + dma'.left = PRead + ITransSize' /\ dma'.left <= ITransSize'
      BY <3>1, <3>3, <3>5
    <3> QED
      BY <1>1, <3>1, <3>2, <3>3, <3>4, <3>6
  <2> QED
    BY <2>4, <2>5
<1>2. CASE ~IDmaIsIdle
  <2>1. ITransSize' = ITransSize /\ IDmaIsIdle' = IDmaIsIdle /\ dma' = dma
    BY <1>2 DEF IStartTransmissionIfNotYet, transfer
  <2> QED
    BY <1>2, <2>1 DEF TypeOK, Bounds
<1> QED
  BY <1>1, <1>2

-----------------------------------------------------------------------------
LEMMA PrintfInv == Inv /\ Printf => Inv'
<1> SUFFICES ASSUME Inv, Printf PROVE Inv'
  OBVIOUS
<1> PICK n \in 0 .. MaxBytes - accepted :
      /\ PutBytes(n)
      /\ IFullSlotsCount' = IFullSlotsCount + n
      /\ IStartTransmissionIfNotYet(IFullSlotsCount + n)
  BY DEF Printf
<1> DEFINE count == IFullSlotsCount + n
<1>1. TypeOK /\ Bounds /\ (~torn => Exact)
  BY DEF Inv
<1>2. print = "No" /\ print' = "No" /\ PRead' = PRead /\ loaded' = loaded
      /\ sent' = sent /\ out' = out /\ torn' = torn
  BY DEF Printf, wire
<1>3. n \in Nat /\ n <= MaxBytes - accepted /\ count \in 0 .. Size /\ IFullSlotsCount <= count
  BY <1>1 DEF TypeOK, PutBytes
<1>4. /\ ITransSize' \in 0 .. Size
      /\ dma' \in [addr : 0 .. Size, left : 0 .. Size]
      /\ IDmaIsIdle' \in BOOLEAN
      /\ IDmaIsIdle' => dma'.left = 0 /\ (IDmaIsIdle /\ count = 0)
      /\ ~IDmaIsIdle' => /\ ITransSize' <= count
                         /\ PRead + ITransSize' <= Size
                         /\ dma'.addr + dma'.left = PRead + ITransSize'
                         /\ dma'.left <= ITransSize'
      /\ IDmaIsIdle /\ ~IDmaIsIdle' => dma'.left = ITransSize'
      /\ ~IDmaIsIdle => ITransSize' = ITransSize /\ dma' = dma /\ ~IDmaIsIdle'
  <2> HIDE DEF count
  <2>1. IStartTransmissionIfNotYet(count)
    BY DEF count
  <2> QED
    BY <1>1, <1>3, <2>1, StartIfIdle
<1>5. TypeOK'
  BY <1>1, <1>2, <1>3, <1>4, RingTypes DEF TypeOK
<1>6. Bounds'
  BY <1>2, <1>4 DEF Bounds
<1>7. ASSUME ~torn' PROVE Exact'
  <2>1. ~torn /\ Exact
    BY <1>1, <1>2, <1>7
  <2>2. InRing' = InRing + n /\ InRing' = count /\ InRing = IFullSlotsCount
    BY <1>1, <1>2 DEF InRing, TypeOK
  <2>3. /\ PWrite' = Circulate(PRead + (InRing + n))
        /\ \A i \in 0 .. Size - 1 :
             Behind(i, PRead) < InRing + n => TXBuf'[i] + InRing = accepted + 1 + Behind(i, PRead)
    BY <1>2, <1>3, <2>1, Ring
  <2>4. /\ accepted' = accepted + n /\ TXBuf' \in [0 .. Size - 1 -> 0 .. MaxBytes]
        /\ accepted \in Nat /\ IFullSlotsCount \in Nat /\ PRead \in 0 .. Size - 1 /\ sent \in Nat
    BY <1>1, <1>3, RingTypes DEF TypeOK
  <2> PRead' = PRead /\ sent' = sent
    BY <1>2
  <2>5. InRing' <= Size /\ InRing' <= accepted' /\ PWrite' = Circulate(PRead' + InRing')
    BY <1>2, <1>3, <2>1, <2>2, <2>3, <2>4 DEF Exact
  <2>6. ASSUME NEW i \in 0 .. Size - 1, Behind(i, PRead') < InRing'
        PROVE  TXBuf'[i] + InRing' = accepted' + 1 + Behind(i, PRead')
    <3>1. TXBuf'[i] + InRing = accepted + 1 + Behind(i, PRead)
      BY <1>2, <2>2, <2>3, <2>6
    <3>2. TXBuf'[i] \in 0 .. MaxBytes
      BY <2>4
    <3> PICK x \in Int : TXBuf'[i] = x
      BY <3>2
    <3>3. Behind(i, PRead) \in Int
      <4>1. PRead \in Int /\ i \in Int
        BY <2>4
      <4> QED
        BY <4>1 DEF Behind
    <3> PICK b \in Int : Behind(i, PRead) = b
      BY <3>3
    <3> QED
      BY <1>3, <2>2, <2>4, <3>1, <3>2, <3>3
  <2>7. IDmaIsIdle' => sent' + InRing' = accepted'
    BY <1>1, <1>2, <1>3, <1>4, <2>1, <2>2, <2>4 DEF Exact, TypeOK
  <2>8. ASSUME ~IDmaIsIdle' PROVE sent' + dma'.left + InRing' = accepted' + ITransSize'
    <3>1. CASE IDmaIsIdle
      <4>1. sent + InRing = accepted /\ dma'.left = ITransSize'
        BY <1>4, <2>1, <2>8, <3>1 DEF Exact
      <4>2. PICK size \in 0 .. Size : ITransSize' = size
        BY <1>4
      <4> QED
        BY <1>3, <2>2, <2>4, <4>1, <4>2
    <3>2. CASE ~IDmaIsIdle
      <4>1. /\ sent + dma.left + InRing = accepted + ITransSize
            /\ ITransSize' = ITransSize /\ dma' = dma
        BY <1>4, <2>1, <3>2 DEF Exact
      <4>2. ITransSize \in Nat /\ \E left \in Nat : dma.left = left
        BY <1>1 DEF TypeOK
      <4> QED
        BY <1>3, <2>2, <2>4, <4>1, <4>2
    <3> QED
      BY <3>1, <3>2
  <2>9. out' = sent'
    BY <1>2, <2>1 DEF Exact
  <2>10. IDmaIsIdle' => IFullSlotsCount' = 0
    BY <1>4
  <2> QED
    BY <1>2, <2>5, <2>6, <2>7, <2>8, <2>9, <2>10 DEF Exact
<1> QED
  BY <1>5, <1>6, <1>7 DEF Inv

LEMMA PrintBeginsInv == Inv /\ PrintBegins => Inv'
  BY DEF Inv, TypeOK, Bounds, Exact, InRing, PrintBegins, ring, transfer, wire

LEMMA PrintByteInv == Inv /\ PrintByte => Inv'
<1> SUFFICES ASSUME Inv, PrintByte PROVE Inv'
  OBVIOUS
<1>1. TypeOK /\ Bounds /\ (~torn => Exact)
  BY DEF Inv
<1>2. /\ print = "Put" /\ print' = "Store" /\ accepted < MaxBytes /\ PutBytes(1)
      /\ loaded' = IFullSlotsCount /\ PRead' = PRead /\ IFullSlotsCount' = IFullSlotsCount
      /\ ITransSize' = ITransSize /\ IDmaIsIdle' = IDmaIsIdle /\ dma' = dma
      /\ sent' = sent /\ out' = out
  BY DEF PrintByte, transfer, wire
<1>3. torn' = torn
  BY DEF PrintByte
<1>4. 1 \in Nat /\ 1 <= MaxBytes - accepted /\ IFullSlotsCount < Size
  BY <1>1, <1>2 DEF TypeOK, PutBytes
<1>5. TypeOK'
  BY <1>1, <1>2, <1>3, <1>4, RingTypes DEF TypeOK
<1>6. Bounds'
  BY <1>1, <1>2, <1>4 DEF Bounds, TypeOK
<1>7. ASSUME ~torn' PROVE Exact'
  <2>1. ~torn /\ Exact
    BY <1>1, <1>3, <1>7
  <2>2. /\ accepted' = accepted + 1 /\ TXBuf' \in [0 .. Size - 1 -> 0 .. MaxBytes]
        /\ accepted \in Nat /\ IFullSlotsCount \in Nat /\ PRead \in 0 .. Size - 1 /\ sent \in Nat
    BY <1>1, <1>2, <1>4, RingTypes DEF TypeOK
  <2>3. InRing' = InRing + 1 /\ InRing = IFullSlotsCount
    BY <1>2, <2>2 DEF InRing
  <2>4. /\ PWrite' = Circulate(PRead + (InRing + 1))
        /\ \A i \in 0 .. Size - 1 :
             Behind(i, PRead) < InRing + 1 => TXBuf'[i] + InRing = accepted + 1 + Behind(i, PRead)
    BY <1>2, <1>4, <2>1, Ring
  <2> PRead' = PRead /\ sent' = sent
    BY <1>2
  <2>5. InRing' <= Size /\ InRing' <= accepted' /\ PWrite' = Circulate(PRead' + InRing')
    BY <1>4, <2>1, <2>2, <2>3, <2>4 DEF Exact
  <2>6. ASSUME NEW i \in 0 .. Size - 1, Behind(i, PRead') < InRing'
        PROVE  TXBuf'[i] + InRing' = accepted' + 1 + Behind(i, PRead')
    <3>1. TXBuf'[i] + InRing = accepted + 1 + Behind(i, PRead)
      BY <2>3, <2>4, <2>6
    <3>2. TXBuf'[i] \in 0 .. MaxBytes
      BY <2>2
    <3> PICK x \in Int : TXBuf'[i] = x
      BY <3>2
    <3>3. Behind(i, PRead) \in Int
      <4>1. PRead \in Int /\ i \in Int
        BY <2>2
      <4> QED
        BY <4>1 DEF Behind
    <3> PICK b \in Int : Behind(i, PRead) = b
      BY <3>3
    <3> QED
      BY <2>2, <2>3, <3>1
  <2>7. ASSUME IDmaIsIdle' PROVE sent' + InRing' = accepted'
    <3>1. sent + InRing = accepted
      BY <1>2, <2>1, <2>7 DEF Exact
    <3> QED
      BY <2>2, <2>3, <3>1
  <2>8. ASSUME ~IDmaIsIdle' PROVE sent' + dma'.left + InRing' = accepted' + ITransSize'
    <3>1. sent + dma.left + InRing = accepted + ITransSize /\ dma' = dma /\ ITransSize' = ITransSize
      BY <1>2, <2>1, <2>8 DEF Exact
    <3>2. ITransSize \in Nat /\ \E left \in Nat : dma.left = left
      BY <1>1 DEF TypeOK
    <3> QED
      BY <2>2, <2>3, <3>1, <3>2
  <2> QED
    BY <1>2, <2>1, <2>5, <2>6, <2>7, <2>8 DEF Exact
<1> QED
  BY <1>5, <1>6, <1>7 DEF Inv

LEMMA PrintStoreInv == Inv /\ PrintStore => Inv'
<1> SUFFICES ASSUME Inv, PrintStore PROVE Inv'
  OBVIOUS
<1>1. TypeOK /\ Bounds /\ (~torn => Exact)
  BY DEF Inv
<1>2. /\ print = "Store" /\ print' = "Put" /\ IFullSlotsCount' = loaded + 1
      /\ UNCHANGED <<TXBuf, PWrite, accepted, PRead, ITransSize, IDmaIsIdle, dma, loaded, sent, out>>
  BY DEF PrintStore, ring, transfer, wire
<1>3. torn' = torn
  BY DEF PrintStore
<1>4. IFullSlotsCount <= loaded /\ loaded < Size
  BY <1>1, <1>2 DEF Bounds
<1>5. TypeOK'
  BY <1>1, <1>2, <1>3, <1>4 DEF TypeOK
<1>6. Bounds'
  BY <1>1, <1>2, <1>4 DEF Bounds, TypeOK
<1>7. ASSUME ~torn' PROVE Exact'
  <2>1. ~torn /\ Exact
    BY <1>1, <1>3, <1>7
  <2>2. InRing' = InRing
    BY <1>1, <1>2, <2>1 DEF InRing, Exact, TypeOK
  <2> QED
    BY <1>2, <2>1, <2>2 DEF Exact
<1> QED
  BY <1>5, <1>6, <1>7 DEF Inv

LEMMA PrintEndsInv == Inv /\ PrintEnds => Inv'
<1> SUFFICES ASSUME Inv, PrintEnds PROVE Inv'
  OBVIOUS
<1>1. TypeOK /\ Bounds /\ (~torn => Exact)
  BY DEF Inv
<1>2. /\ print = "Put" /\ print' = "No"
      /\ UNCHANGED <<TXBuf, PWrite, accepted, PRead, IFullSlotsCount, loaded, sent, out>>
  BY DEF PrintEnds, ring, wire
<1>3. torn' = torn
  BY DEF PrintEnds
<1>4. /\ ITransSize' \in 0 .. Size
      /\ dma' \in [addr : 0 .. Size, left : 0 .. Size]
      /\ IDmaIsIdle' \in BOOLEAN
      /\ IDmaIsIdle' => dma'.left = 0 /\ (IDmaIsIdle /\ IFullSlotsCount = 0)
      /\ ~IDmaIsIdle' => /\ ITransSize' <= IFullSlotsCount
                         /\ PRead + ITransSize' <= Size
                         /\ dma'.addr + dma'.left = PRead + ITransSize'
                         /\ dma'.left <= ITransSize'
      /\ IDmaIsIdle /\ ~IDmaIsIdle' => dma'.left = ITransSize'
      /\ ~IDmaIsIdle => ITransSize' = ITransSize /\ dma' = dma /\ ~IDmaIsIdle'
  <2>1. IStartTransmissionIfNotYet(IFullSlotsCount)
    BY DEF PrintEnds
  <2>2. IFullSlotsCount \in 0 .. Size /\ IFullSlotsCount <= IFullSlotsCount
    BY <1>1 DEF TypeOK
  <2> QED
    BY <1>1, <2>1, <2>2, StartIfIdle
<1>5. TypeOK'
  BY <1>1, <1>2, <1>3, <1>4 DEF TypeOK
<1>6. Bounds'
  BY <1>2, <1>4 DEF Bounds
<1>7. ASSUME ~torn' PROVE Exact'
  <2>1. ~torn /\ Exact
    BY <1>1, <1>3, <1>7
  <2>2. InRing' = InRing /\ InRing \in Nat /\ sent \in Nat /\ accepted \in Nat
    BY <1>1, <1>2 DEF InRing, TypeOK
  <2>3. IDmaIsIdle' => sent' + InRing' = accepted'
    BY <1>2, <1>4, <2>1, <2>2 DEF Exact
  <2>4. ASSUME ~IDmaIsIdle' PROVE sent' + dma'.left + InRing' = accepted' + ITransSize'
    <3>1. CASE IDmaIsIdle
      <4>1. sent + InRing = accepted /\ dma'.left = ITransSize'
        BY <1>4, <2>1, <2>4, <3>1 DEF Exact
      <4>2. PICK size \in 0 .. Size : ITransSize' = size
        BY <1>4
      <4> QED
        BY <1>2, <2>2, <4>1, <4>2
    <3>2. CASE ~IDmaIsIdle
      BY <1>2, <1>4, <2>1, <2>2, <3>2 DEF Exact
    <3> QED
      BY <3>1, <3>2
  <2> QED
    BY <1>2, <1>4, <2>1, <2>2, <2>3, <2>4 DEF Exact
<1> QED
  BY <1>5, <1>6, <1>7 DEF Inv

LEMMA DmaByteInv == Inv /\ DmaByte => Inv'
<1> SUFFICES ASSUME Inv, DmaByte PROVE Inv'
  OBVIOUS
<1>1. TypeOK /\ Bounds /\ (~torn => Exact)
  BY DEF Inv
<1>2. /\ out' = TXBuf[dma.addr] /\ sent' = sent + 1
      /\ dma' = [addr |-> dma.addr + 1, left |-> dma.left - 1]
      /\ UNCHANGED <<TXBuf, PWrite, accepted, PRead, IFullSlotsCount, ITransSize, IDmaIsIdle, print, loaded>>
  BY DEF DmaByte, ring
<1>3. torn' = torn
  BY DEF DmaByte
<1>4. /\ dma.left > 0 /\ ~IDmaIsIdle /\ dma.left \in 0 .. Size /\ dma.addr \in 0 .. Size
      /\ ITransSize <= IFullSlotsCount /\ PRead + ITransSize <= Size
      /\ dma.addr + dma.left = PRead + ITransSize /\ dma.left <= ITransSize
      /\ ITransSize \in 0 .. Size /\ PRead \in 0 .. Size - 1 /\ IFullSlotsCount \in 0 .. Size
  BY <1>1 DEF DmaByte, Bounds, TypeOK
<1>5. dma.addr \in 0 .. Size - 1 /\ dma.addr + 1 \in 0 .. Size /\ dma.left - 1 \in 0 .. Size
  BY <1>4
<1>6. TypeOK'
  BY <1>1, <1>2, <1>3, <1>5 DEF TypeOK
<1>7. Bounds'
  BY <1>1, <1>2, <1>4 DEF Bounds
<1>8. ASSUME ~torn' PROVE Exact'
  <2>1. ~torn /\ Exact
    BY <1>1, <1>3, <1>8
  <2>2. InRing' = InRing /\ InRing \in Nat /\ sent \in Nat /\ accepted \in Nat /\ IFullSlotsCount <= InRing
    BY <1>1, <1>2 DEF InRing, TypeOK
  <2>3. sent + dma.left + InRing = accepted + ITransSize
    BY <1>4, <2>1 DEF Exact
  <2>4. sent' + dma'.left + InRing' = accepted' + ITransSize'
    BY <1>2, <1>4, <2>2, <2>3
  <2>5. out' = sent'
    <3>1. Behind(dma.addr, PRead) + PRead = dma.addr
      BY <1>4, <1>5 DEF Behind
    <3>2. Behind(dma.addr, PRead) < InRing
      BY <1>4, <1>5, <2>2 DEF Behind
    <3>3. TXBuf[dma.addr] + InRing = accepted + 1 + Behind(dma.addr, PRead)
      BY <1>5, <2>1, <3>2 DEF Exact
    <3>4. TXBuf[dma.addr] \in 0 .. MaxBytes
      BY <1>1, <1>5 DEF TypeOK
    <3>5. Behind(dma.addr, PRead) \in Int
      BY <1>4, <1>5 DEF Behind
    <3>6. TXBuf[dma.addr] = sent + 1
      BY <1>4, <2>2, <2>3, <3>1, <3>3, <3>4, <3>5
    <3> QED
      BY <1>2, <3>6
  <2> QED
    BY <1>2, <1>4, <2>1, <2>2, <2>4, <2>5 DEF Exact
<1> QED
  BY <1>6, <1>7, <1>8 DEF Inv

LEMMA IRQInv == Inv /\ IRQDmaTxHandler => Inv'
<1> SUFFICES ASSUME Inv, IRQDmaTxHandler PROVE Inv'
  OBVIOUS
<1>1. TypeOK /\ Bounds /\ (~torn => Exact)
  BY DEF Inv
<1>2. /\ ~IDmaIsIdle /\ dma.left = 0
      /\ IFullSlotsCount' = IFullSlotsCount - ITransSize
      /\ PRead' = Circulate(PRead + ITransSize)
      /\ UNCHANGED <<TXBuf, PWrite, accepted, print, loaded, sent, out>>
  BY DEF IRQDmaTxHandler, ring, wire
<1>3. torn' = (torn \/ print = "Store")
  BY DEF IRQDmaTxHandler
<1>4. /\ ITransSize <= IFullSlotsCount /\ PRead + ITransSize <= Size
      /\ ITransSize \in 0 .. Size /\ PRead \in 0 .. Size - 1 /\ IFullSlotsCount \in 0 .. Size
  BY <1>1, <1>2 DEF Bounds, TypeOK
<1>5. PICK left \in 0 .. Size : IFullSlotsCount' = left
  BY <1>2, <1>4
<1>6. PICK read \in 0 .. Size - 1 : PRead' = read
  BY <1>2, <1>4 DEF Circulate
<1>7. /\ ITransSize' \in 0 .. Size
      /\ dma' \in [addr : 0 .. Size, left : 0 .. Size]
      /\ IDmaIsIdle' \in BOOLEAN
      /\ IDmaIsIdle' => left = 0 /\ dma'.left = 0
      /\ ~IDmaIsIdle' => /\ ITransSize' <= left /\ read + ITransSize' <= Size
                         /\ dma'.addr = read /\ dma'.left = ITransSize'
  <2>1. IDmaIsIdle \in BOOLEAN /\ dma \in [addr : 0 .. Size, left : 0 .. Size]
    BY <1>1 DEF TypeOK
  <2>2. CASE left = 0
    <3>1. IDmaIsIdle' = TRUE /\ ITransSize' = ITransSize /\ dma' = dma
      BY <1>5, <2>2 DEF IRQDmaTxHandler
    <3> QED
      BY <1>2, <1>4, <2>1, <2>2, <3>1
  <2>3. CASE left # 0
    <3>1. ISendViaDMA(read, left)
      BY <1>5, <1>6, <2>3 DEF IRQDmaTxHandler, ISendViaDMA
    <3>2. /\ ITransSize' \in 0 .. Size /\ ITransSize' <= left /\ read + ITransSize' <= Size
      BY <2>1, <3>1, Transfer
    <3>3. dma' \in [addr : 0 .. Size, left : 0 .. Size]
      BY <2>1, <3>1, Transfer
    <3>4. IDmaIsIdle' = FALSE /\ dma'.addr = read /\ dma'.left = ITransSize'
      BY <2>1, <2>3, <3>1, Transfer
    <3> QED
      BY <3>2, <3>3, <3>4
  <2> QED
    BY <2>2, <2>3
<1>8. TypeOK'
  <2>1. torn' \in BOOLEAN
    BY <1>3
  <2> QED
    BY <1>1, <1>2, <1>5, <1>6, <1>7, <2>1 DEF TypeOK
<1>9. Bounds'
  <2>1. IDmaIsIdle' => dma'.left = 0
    BY <1>7
  <2>2. ASSUME ~IDmaIsIdle'
        PROVE  /\ ITransSize' <= IFullSlotsCount' /\ PRead' + ITransSize' <= Size
               /\ dma'.addr + dma'.left = PRead' + ITransSize' /\ dma'.left <= ITransSize'
    <3> PICK size \in 0 .. Size : ITransSize' = size
      BY <1>7
    <3> QED
      BY <1>5, <1>6, <1>7, <2>2
  <2>3. ASSUME print' = "Store" PROVE IFullSlotsCount' <= loaded' /\ loaded' < Size
    <3>1. IFullSlotsCount <= loaded /\ loaded < Size /\ loaded \in Nat
      BY <1>1, <1>2, <2>3 DEF Bounds, TypeOK
    <3> QED
      BY <1>2, <1>4, <1>5, <3>1
  <2> QED
    BY <2>1, <2>2, <2>3 DEF Bounds
<1>10. ASSUME ~torn' PROVE Exact'
  <2>1. ~torn /\ Exact /\ print # "Store"
    BY <1>1, <1>3, <1>10
  <2>2. /\ InRing = IFullSlotsCount /\ InRing' = left /\ left + ITransSize = IFullSlotsCount
        /\ sent \in Nat /\ accepted \in Nat /\ PWrite \in 0 .. Size - 1
    BY <1>1, <1>2, <1>4, <1>5, <2>1 DEF InRing, TypeOK
  <2>3. sent + left = accepted
    <3>1. sent + dma.left + InRing = accepted + ITransSize
      BY <1>2, <2>1 DEF Exact
    <3> QED
      BY <1>2, <1>4, <2>2, <3>1
  <2>4. left <= Size /\ left <= accepted
    BY <2>2, <2>3
  <2>5. PWrite = Circulate(read + left)
    <3>1. PWrite = Circulate(PRead + IFullSlotsCount) /\ read = Circulate(PRead + ITransSize)
      BY <1>2, <1>6, <2>1, <2>2 DEF Exact
    <3> QED
      BY <1>4, <2>2, <3>1 DEF Circulate
  <2>6. ASSUME NEW i \in 0 .. Size - 1, Behind(i, read) < left
        PROVE  TXBuf[i] + left = accepted + 1 + Behind(i, read)
    <3>1. read = Circulate(PRead + ITransSize)
      BY <1>2, <1>6
    <3>2. Behind(i, PRead) = Behind(i, read) + ITransSize
      BY <1>4, <2>2, <2>6, <3>1 DEF Behind, Circulate
    <3>3. Behind(i, read) \in Int
      <4>1. i \in Int /\ read \in Int
        OBVIOUS
      <4> QED
        BY <4>1 DEF Behind
    <3>4. TXBuf[i] + InRing = accepted + 1 + Behind(i, PRead)
      BY <1>4, <2>1, <2>2, <2>6, <3>2, <3>3 DEF Exact
    <3>5. TXBuf[i] \in 0 .. MaxBytes
      BY <1>1 DEF TypeOK
    <3> QED
      BY <1>4, <2>2, <3>2, <3>3, <3>4, <3>5
  <2>7. ASSUME ~IDmaIsIdle' PROVE sent' + dma'.left + InRing' = accepted' + ITransSize'
    <3> PICK size \in 0 .. Size : ITransSize' = size
      BY <1>7
    <3>1. dma'.left = size /\ sent' = sent /\ accepted' = accepted
      BY <1>2, <1>7, <2>7
    <3> QED
      BY <2>2, <2>3, <3>1
  <2>8. IDmaIsIdle' => sent' + InRing' = accepted' /\ IFullSlotsCount' = 0
    BY <1>2, <1>5, <1>7, <2>2, <2>3
  <2>9. out' = sent' /\ print' # "Store"
    BY <1>2, <2>1 DEF Exact
  <2>10. /\ InRing' <= Size /\ InRing' <= accepted' /\ PWrite' = Circulate(PRead' + InRing')
         /\ \A i \in 0 .. Size - 1 :
              Behind(i, PRead') < InRing' => TXBuf'[i] + InRing' = accepted' + 1 + Behind(i, PRead')
    BY <1>2, <1>6, <2>2, <2>4, <2>5, <2>6
  <2> QED
    BY <2>7, <2>8, <2>9, <2>10 DEF Exact
<1> QED
  BY <1>8, <1>9, <1>10 DEF Inv

LEMMA Inductive == Spec => []Inv
<1>1. Inv /\ UNCHANGED vars => Inv'
  BY DEF Inv, TypeOK, Bounds, Exact, InRing, vars, ring, transfer, wire
<1>2. Inv /\ Next => Inv'
  BY PrintfInv, PrintBeginsInv, PrintByteInv, PrintStoreInv, PrintEndsInv, DmaByteInv, IRQInv
     DEF Next, PrintGoesOn
<1> QED
  BY <1>1, <1>2, InitInv, PTL DEF Spec

-----------------------------------------------------------------------------
(* The counters and the indices stay in their ranges, whatever an          *)
(* interrupt does to the counter inside a print without the lock           *)
(* (uart2.cpp:177-211): no access beyond the ring.                         *)
THEOREM TypeCorrect == Spec => []TypeOK
<1>1. Inv => TypeOK
  BY DEF Inv
<1> QED
  BY <1>1, Inductive, PTL

(* The ring holds exactly the bytes accepted last (uart2.cpp:201-207).     *)
THEOREM RingCorrect == Spec => []RingIntact
<1>1. ASSUME Inv PROVE RingIntact
  <2> SUFFICES ASSUME ~torn
               PROVE  /\ PWrite = Circulate(PRead + InRing)
                      /\ \A j \in 0 .. InRing - 1 :
                           TXBuf[Circulate(PRead + j)] = accepted - InRing + 1 + j
    BY DEF RingIntact
  <2>1. Exact /\ PRead \in 0 .. Size - 1 /\ InRing \in Nat /\ accepted \in Nat
    BY <1>1 DEF Inv, TypeOK, InRing
  <2>2. ASSUME NEW j \in 0 .. InRing - 1
        PROVE  TXBuf[Circulate(PRead + j)] = accepted - InRing + 1 + j
    <3> DEFINE i == Circulate(PRead + j)
    <3>1. i \in 0 .. Size - 1 /\ Behind(i, PRead) = j
      BY <2>1 DEF Circulate, Behind, Exact
    <3>2. TXBuf[i] + InRing = accepted + 1 + j
      BY <2>1, <3>1 DEF Exact
    <3>3. TXBuf[i] \in 0 .. MaxBytes
      BY <1>1, <3>1 DEF Inv, TypeOK
    <3> QED
      BY <2>1, <3>2, <3>3
  <2> QED
    BY <2>1, <2>2 DEF Exact
<1> QED
  BY <1>1, Inductive, PTL

LEMMA InvIdle == Inv => IdleMeansSent
<1> SUFFICES ASSUME Inv, IDmaIsIdle, print = "No", ~torn PROVE sent = accepted
  BY DEF IdleMeansSent
<1>1. sent + InRing = accepted /\ InRing = 0 /\ sent \in Nat
  BY DEF Inv, Exact, InRing, TypeOK
<1> QED
  BY <1>1

(* What FlushTx (uart2.h:81) relies on: an idle channel has sent all.      *)
THEOREM IdleCorrect == Spec => []IdleMeansSent
  BY InvIdle, Inductive, PTL

(* The wire carries what was accepted, in order and without loss, until an *)
(* interrupt comes inside IFullSlotsCount++ (uart2.cpp:177-211,            *)
(* uart2.h:104-109).                                                       *)
THEOREM StreamRefinement == Spec => ImplementsStream
<1>1. Init => Stream!Init
  BY DEF Init, Stream!Init
<1>2. ASSUME Inv, Inv', [Next]_vars PROVE [Stream!Next]_(Stream!vars)
  <2> USE DEF Stream!Next, Stream!vars, Stream!Accept, Stream!Send, Stream!Corrupt, Stream!Corrupted
  <2>1. TypeOK /\ TypeOK' /\ (~torn => Exact) /\ (~torn' => Exact')
    BY <1>2 DEF Inv
  <2>2. torn \in BOOLEAN /\ torn' \in BOOLEAN /\ accepted \in Nat /\ sent \in Nat
    BY <2>1 DEF TypeOK
  <2>3. CASE Printf \/ PrintByte
    <3>1. PICK n \in Nat : accepted' = accepted + n
      BY <2>2, <2>3 DEF Printf, PrintByte, PutBytes
    <3>2. accepted' >= accepted
      BY <2>2, <3>1
    <3>3. UNCHANGED <<sent, out, torn>>
      BY <2>3 DEF Printf, PrintByte, wire
    <3> QED
      BY <2>2, <3>2, <3>3, Zenon
  <2>4. CASE PrintBegins \/ PrintStore \/ PrintEnds
    <3>1. UNCHANGED <<accepted, sent, out, torn>>
      BY <2>4 DEF PrintBegins, PrintStore, PrintEnds, ring, wire
    <3>2. accepted' >= accepted
      BY <2>2, <3>1
    <3> QED
      BY <2>2, <3>1, <3>2, Zenon
  <2>5. CASE DmaByte
    <3>1. UNCHANGED <<accepted, print, torn>> /\ sent' = sent + 1
      BY <2>5 DEF DmaByte, ring
    <3>2. CASE torn
      BY <3>1, <3>2, Zenon
    <3>3. CASE ~torn
      <4>1. Exact /\ Exact'
        BY <2>1, <3>1, <3>3
      <4>2. sent < accepted
        <5>1. dma.left \in Nat /\ dma.left > 0 /\ ITransSize \in Nat /\ IFullSlotsCount \in Nat
          BY <2>1, <2>5 DEF TypeOK, DmaByte
        <5>2. ~IDmaIsIdle /\ ITransSize <= IFullSlotsCount
          BY <1>2, <5>1 DEF Inv, Bounds
        <5>3. sent + dma.left + InRing = accepted + ITransSize
          BY <4>1, <5>2 DEF Exact
        <5>4. IFullSlotsCount <= InRing /\ InRing \in Nat
          BY <5>1 DEF InRing
        <5> QED
          BY <2>2, <5>1, <5>2, <5>3, <5>4
      <4>3. out' = sent'
        BY <4>1 DEF Exact
      <4> QED
        BY <3>1, <3>3, <4>2, <4>3, Zenon
    <3> QED
      BY <3>2, <3>3
  <2>6. CASE IRQDmaTxHandler
    <3>1. UNCHANGED <<accepted, sent, out, print>> /\ torn' = (torn \/ print = "Store")
      BY <2>6 DEF IRQDmaTxHandler, ring, wire
    <3> QED
      BY <2>2, <3>1, Zenon
  <2>7. CASE UNCHANGED vars
    BY <2>7, Zenon DEF vars, ring, wire
  <2> QED
    BY <1>2, <2>3, <2>4, <2>5, <2>6, <2>7 DEF Next, PrintGoesOn
<1> QED
  BY <1>1, <1>2, Inductive, PTL DEF Spec, ImplementsStream, Stream!Spec

-----------------------------------------------------------------------------
(* What makes every byte leave: the safety core of EveryByteLeaves.  With  *)
(* fairness, which only TLC's run assumes, a channel that always has a     *)
(* byte or an interrupt to give comes to the end.                          *)

(* A transfer under way goes on byte by byte: no print and no interrupt    *)
(* starts it again, cuts it short or moves a byte of its own.              *)
TransferKept ==
  \/ UNCHANGED <<dma, sent>>
  \/ /\ dma.left > 0
     /\ dma' = [addr |-> dma.addr + 1, left |-> dma.left - 1]
     /\ sent' = sent + 1
  \/ dma.left = 0 /\ sent' = sent

(* The interrupt leaves an idle channel only with everything sent, and     *)
(* else a transfer with bytes to move, as does the end of a print.         *)
ChainKept ==
  IRQDmaTxHandler \/ Printf \/ PrintEnds =>
    \/ IDmaIsIdle' /\ (torn' \/ print' # "No" \/ sent' = accepted')
    \/ ~IDmaIsIdle' /\ (IRQDmaTxHandler \/ IDmaIsIdle => dma'.left > 0)

LEMMA SendMoves ==
  ASSUME NEW read \in 0 .. Size - 1, NEW count \in Nat, TypeOK, ISendViaDMA(read, count)
  PROVE  \/ count # 0 /\ IDmaIsIdle' = FALSE /\ dma'.left > 0
         \/ count = 0 /\ IDmaIsIdle' = IDmaIsIdle /\ dma' = dma
<1>1. CASE count = 0
  BY <1>1 DEF ISendViaDMA
<1>2. CASE count # 0
  <2>1. dma' = [addr |-> read, left |-> ITransSize'] /\ IDmaIsIdle' = FALSE
    BY <1>2 DEF ISendViaDMA
  <2>2. ITransSize' = Least(count, Size - read)
    BY DEF ISendViaDMA
  <2>3. Least(count, Size - read) > 0
    BY <1>2 DEF Least
  <2> QED
    BY <1>2, <2>1, <2>2, <2>3
<1> QED
  BY <1>1, <1>2

LEMMA TransferStep == ASSUME Inv, [Next]_vars PROVE TransferKept
<1>0. /\ IDmaIsIdle => dma.left = 0
      /\ dma.left \in Nat
  BY DEF Inv, Bounds, TypeOK
<1>1. CASE Printf \/ PrintEnds
  <2>1. sent' = sent /\ (dma' = dma \/ IDmaIsIdle)
    BY <1>1 DEF Printf, PrintEnds, IStartTransmissionIfNotYet, transfer, wire
  <2> QED
    BY <1>0, <2>1 DEF TransferKept
<1>2. CASE IRQDmaTxHandler
  BY <1>2 DEF IRQDmaTxHandler, TransferKept, wire
<1>3. CASE DmaByte
  BY <1>3 DEF DmaByte, TransferKept
<1>4. CASE PrintBegins \/ PrintByte \/ PrintStore \/ UNCHANGED vars
  BY <1>4 DEF PrintBegins, PrintByte, PrintStore, vars, transfer, wire, TransferKept
<1> QED
  BY <1>1, <1>2, <1>3, <1>4 DEF Next, PrintGoesOn

LEMMA ChainStep == ASSUME Inv, Inv', [Next]_vars PROVE ChainKept
<1> SUFFICES ASSUME IRQDmaTxHandler \/ Printf \/ PrintEnds
    PROVE  \/ IDmaIsIdle' /\ (torn' \/ print' # "No" \/ sent' = accepted')
           \/ ~IDmaIsIdle' /\ (IRQDmaTxHandler \/ IDmaIsIdle => dma'.left > 0)
  BY DEF ChainKept
<1>0. TypeOK /\ TypeOK' /\ (~torn' => Exact')
  BY DEF Inv
<1>1. IDmaIsIdle' /\ ~torn' /\ print' = "No" => sent' = accepted'
  <2> SUFFICES ASSUME IDmaIsIdle', ~torn', print' = "No" PROVE sent' = accepted'
    OBVIOUS
  <2>1. sent' + InRing' = accepted' /\ IFullSlotsCount' = 0
    BY <1>0, Zenon DEF Exact
  <2>2. InRing' = 0
    BY <2>1 DEF InRing
  <2>3. sent' \in Nat
    BY <1>0 DEF TypeOK
  <2> QED
    BY <2>1, <2>2, <2>3
<1>2. CASE IRQDmaTxHandler
  <2>1. CASE IFullSlotsCount' = 0
    <3>1. IDmaIsIdle'
      BY <1>2, <2>1 DEF IRQDmaTxHandler
    <3> QED
      BY <1>1, <3>1
  <2>2. CASE IFullSlotsCount' # 0
    <3>1. ISendViaDMA(PRead', IFullSlotsCount')
      BY <1>2, <2>2 DEF IRQDmaTxHandler
    <3>2. PRead' \in 0 .. Size - 1 /\ IFullSlotsCount' \in Nat
      BY <1>0 DEF TypeOK
    <3>3. IDmaIsIdle' = FALSE /\ dma'.left > 0
      <4>1. PICK read \in 0 .. Size - 1 : read = PRead'
        BY <3>2
      <4>2. PICK count \in Nat : count = IFullSlotsCount'
        BY <3>2
      <4>3. ISendViaDMA(read, count) /\ count # 0
        BY <2>2, <3>1, <4>1, <4>2
      <4> QED
        BY <1>0, <4>3, SendMoves
    <3> QED
      BY <3>3
  <2> QED
    BY <2>1, <2>2
<1>3. ASSUME NEW count \in Nat, IStartTransmissionIfNotYet(count), ~IRQDmaTxHandler
      PROVE  IDmaIsIdle' \/ (~IDmaIsIdle' /\ (IDmaIsIdle => dma'.left > 0))
  <2>1. CASE IDmaIsIdle
    <3>1. ISendViaDMA(PRead, count) /\ PRead \in 0 .. Size - 1
      BY <1>0, <1>3, <2>1 DEF IStartTransmissionIfNotYet, TypeOK
    <3> QED
      BY <1>0, <2>1, <3>1, SendMoves
  <2>2. CASE ~IDmaIsIdle
    BY <2>2
  <2> QED
    BY <2>1, <2>2
<1>4. CASE ~IRQDmaTxHandler /\ Printf
  <2>1. PICK n \in 0 .. MaxBytes - accepted : IStartTransmissionIfNotYet(IFullSlotsCount + n)
    BY <1>4 DEF Printf
  <2>2. IFullSlotsCount + n \in Nat
    BY <1>0, <2>1 DEF TypeOK
  <2>3. IDmaIsIdle' \/ (~IDmaIsIdle' /\ (IDmaIsIdle => dma'.left > 0))
    BY <1>3, <1>4, <2>1, <2>2
  <2> QED
    BY <1>1, <1>4, <2>3, Zenon
<1>5. CASE ~IRQDmaTxHandler /\ PrintEnds
  <2>1. IStartTransmissionIfNotYet(IFullSlotsCount) /\ IFullSlotsCount \in Nat
    BY <1>0, <1>5 DEF PrintEnds, TypeOK
  <2>2. IDmaIsIdle' \/ (~IDmaIsIdle' /\ (IDmaIsIdle => dma'.left > 0))
    BY <1>3, <1>5, <2>1
  <2> QED
    BY <1>1, <1>5, <2>2, Zenon
<1> QED
  BY <1>2, <1>4, <1>5

(* uart2.cpp:177-211: the DMA channel is started by whoever finds it idle, *)
(* and only then; with its flag and the ring it makes a chain without a    *)
(* gap, from the first byte accepted to the last.                          *)
THEOREM TransfersCorrect == Spec => [][TransferKept /\ ChainKept]_vars
<1>1. Inv /\ Inv' /\ [Next]_vars => TransferKept /\ ChainKept
  BY TransferStep, ChainStep
<1> QED
  BY <1>1, Inductive, PTL DEF Spec
=============================================================================
