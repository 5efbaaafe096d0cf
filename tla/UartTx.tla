------------------------------- MODULE UartTx -------------------------------
(***************************************************************************)
(* The transmit side of the debug UART (Tirusse_fw/kl_lib/uart2.cpp): a    *)
(* ring of bytes filled by whoever prints and emptied by a DMA channel,    *)
(* whose interrupt starts the next transfer.                               *)
(*                                                                         *)
(* Printf holds the kernel lock, so the interrupt waits.  The replies of   *)
(* the shell (CmdUart_t::Print) do not: the interrupt may come between any *)
(* two of their steps, also inside IFullSlotsCount++, a load and a store.  *)
(* Both are called by the main thread, one print at a time.                *)
(***************************************************************************)
EXTENDS Integers

CONSTANTS Size,      \* UART_TXBUF_SZ
          MaxBytes   \* bound on the number of bytes accepted

ASSUME UAssumption == Size \in Nat \ {0} /\ MaxBytes \in Nat

VARIABLES
  TXBuf,             \* the ring; byte number i has the value i
  PRead, PWrite,     \* indices into it
  IFullSlotsCount, ITransSize, IDmaIsIdle,
  dma,               \* the channel: next address, bytes left to move
  print, loaded,     \* where an unlocked print is, and the counter it has loaded
  accepted,          \* bytes put into the ring so far
  sent, out,         \* bytes on the wire so far, and the last of them
  torn               \* the interrupt came between a load and its store

ring == <<TXBuf, PWrite, accepted>>
transfer == <<ITransSize, IDmaIsIdle, dma>>
wire == <<sent, out>>
vars == <<ring, PRead, IFullSlotsCount, transfer, print, loaded, wire, torn>>

Init ==
  /\ TXBuf = [i \in 0 .. Size - 1 |-> 0]
  /\ PRead = 0 /\ PWrite = 0
  /\ IFullSlotsCount = 0 /\ ITransSize = 0 /\ IDmaIsIdle = TRUE
  /\ dma = [addr |-> 0, left |-> 0]
  /\ print = "No" /\ loaded = 0
  /\ accepted = 0 /\ sent = 0 /\ out = 0
  /\ torn = FALSE

Least(a, b) == IF a <= b THEN a ELSE b

(* A variant that circulates one slot late.                                *)
CirculateLate(p) == IF p > Size THEN p - Size ELSE p
Circulate(p) == IF p >= Size THEN p - Size ELSE p

(* How many slots slot i is behind slot p.                                 *)
Behind(i, p) == IF i >= p THEN i - p ELSE i - p + Size

(* A variant that asks for room once, not for every byte.                  *)
PutBytesUnchecked(n) ==
  /\ IFullSlotsCount < Size
  /\ TXBuf' = [i \in 0 .. Size - 1 |->
                 IF Behind(i, PWrite) < n THEN accepted + 1 + Behind(i, PWrite) ELSE TXBuf[i]]
  /\ PWrite' = Circulate(PWrite + n)
  /\ accepted' = accepted + n

(* IPutByte n times, as long as there is room; without the counter.        *)
PutBytes(n) ==
  /\ n <= Size - IFullSlotsCount
  /\ TXBuf' = [i \in 0 .. Size - 1 |->
                 IF Behind(i, PWrite) < n THEN accepted + 1 + Behind(i, PWrite) ELSE TXBuf[i]]
  /\ PWrite' = Circulate(PWrite + n)
  /\ accepted' = accepted + n

(* ISendViaDMA with the read pointer and the counter it finds: what is in  *)
(* the ring, but not beyond its end.                                       *)
ISendViaDMA(read, count) ==
  /\ ITransSize' = Least(count, Size - read)
  /\ IF count # 0
     THEN IDmaIsIdle' = FALSE /\ dma' = [addr |-> read, left |-> ITransSize']
     ELSE UNCHANGED <<IDmaIsIdle, dma>>

(* A variant that leaves the start to the interrupt.                       *)
LeaveToInterrupt(count) == UNCHANGED transfer

IStartTransmissionIfNotYet(count) ==
  IF IDmaIsIdle THEN ISendViaDMA(PRead, count) ELSE UNCHANGED transfer

-----------------------------------------------------------------------------
(* Printf of a line: what does not fit is cut off.                         *)
Printf ==
  /\ print = "No"
  /\ \E n \in 0 .. MaxBytes - accepted :
       /\ PutBytes(n)
       /\ IFullSlotsCount' = IFullSlotsCount + n
       /\ IStartTransmissionIfNotYet(IFullSlotsCount + n)
  /\ UNCHANGED <<PRead, print, loaded, wire, torn>>

(* CmdUart_t::Print, byte by byte.                                         *)
PrintBegins ==
  /\ print = "No"
  /\ print' = "Put"
  /\ UNCHANGED <<ring, PRead, IFullSlotsCount, transfer, loaded, wire, torn>>

PrintByte ==
  /\ print = "Put" /\ accepted < MaxBytes
  /\ PutBytes(1)
  /\ loaded' = IFullSlotsCount
  /\ print' = "Store"
  /\ UNCHANGED <<PRead, IFullSlotsCount, transfer, wire, torn>>

PrintStore ==
  /\ print = "Store"
  /\ IFullSlotsCount' = loaded + 1
  /\ print' = "Put"
  /\ UNCHANGED <<ring, PRead, transfer, loaded, wire, torn>>

(* End of the text, or no room.                                            *)
PrintEnds ==
  /\ print = "Put"
  /\ IStartTransmissionIfNotYet(IFullSlotsCount)
  /\ print' = "No"
  /\ UNCHANGED <<ring, PRead, IFullSlotsCount, loaded, wire, torn>>

-----------------------------------------------------------------------------
DmaByte ==
  /\ dma.left > 0
  /\ out' = TXBuf[dma.addr]
  /\ sent' = sent + 1
  /\ dma' = [addr |-> dma.addr + 1, left |-> dma.left - 1]
  /\ UNCHANGED <<ring, PRead, IFullSlotsCount, ITransSize, IDmaIsIdle, print, loaded, torn>>

(* Variants: one that does not move the read pointer, and one that does    *)
(* not look for bytes that have come in meanwhile.                         *)
IRQKeepsPRead ==
  /\ ~IDmaIsIdle /\ dma.left = 0
  /\ IFullSlotsCount' = IFullSlotsCount - ITransSize
  /\ IF IFullSlotsCount' = 0
     THEN IDmaIsIdle' = TRUE /\ UNCHANGED <<ITransSize, dma>>
     ELSE ISendViaDMA(PRead, IFullSlotsCount')
  /\ torn' = (torn \/ print = "Store")
  /\ UNCHANGED <<ring, PRead, print, loaded, wire>>

IRQWithoutChain ==
  /\ ~IDmaIsIdle /\ dma.left = 0
  /\ IFullSlotsCount' = IFullSlotsCount - ITransSize
  /\ PRead' = Circulate(PRead + ITransSize)
  /\ IDmaIsIdle' = TRUE
  /\ torn' = (torn \/ print = "Store")
  /\ UNCHANGED <<ring, ITransSize, dma, print, loaded, wire>>

(* The interrupt at the end of a transfer.                                 *)
IRQDmaTxHandler ==
  /\ ~IDmaIsIdle /\ dma.left = 0
  /\ IFullSlotsCount' = IFullSlotsCount - ITransSize
  /\ PRead' = Circulate(PRead + ITransSize)
  /\ IF IFullSlotsCount' = 0
     THEN IDmaIsIdle' = TRUE /\ UNCHANGED <<ITransSize, dma>>
     ELSE ISendViaDMA(PRead', IFullSlotsCount')
  /\ torn' = (torn \/ print = "Store")
  /\ UNCHANGED <<ring, print, loaded, wire>>

PrintGoesOn == PrintByte \/ PrintStore \/ PrintEnds

Next == Printf \/ PrintBegins \/ PrintGoesOn \/ DmaByte \/ IRQDmaTxHandler

Spec == Init /\ [][Next]_vars

(* Fairness: the hardware goes on, and a print that has begun.             *)
FairSpec == Spec /\ WF_vars(DmaByte) /\ WF_vars(IRQDmaTxHandler) /\ WF_vars(PrintGoesOn)

-----------------------------------------------------------------------------
TypeOK ==
  /\ TXBuf \in [0 .. Size - 1 -> 0 .. MaxBytes]
  /\ PRead \in 0 .. Size - 1 /\ PWrite \in 0 .. Size - 1
  /\ IFullSlotsCount \in 0 .. Size /\ ITransSize \in 0 .. Size
  /\ IDmaIsIdle \in BOOLEAN /\ torn \in BOOLEAN
  /\ dma \in [addr : 0 .. Size, left : 0 .. Size]
  /\ print \in {"No", "Put", "Store"} /\ loaded \in 0 .. Size
  /\ accepted \in 0 .. MaxBytes
  /\ sent \in Nat /\ out \in 0 .. MaxBytes

(* Bytes in the ring: the one whose counter update is under way counts.    *)
InRing == IFullSlotsCount + (IF print = "Store" THEN 1 ELSE 0)

(* As long as no interrupt came inside IFullSlotsCount++: the pointers are *)
(* as far apart as the counter says, and the ring holds the last bytes     *)
(* accepted, so no byte was overwritten before its slot was freed.         *)
RingIntact ==
  ~torn => /\ PWrite = Circulate(PRead + InRing)
           /\ \A j \in 0 .. InRing - 1 :
                TXBuf[Circulate(PRead + j)] = accepted - InRing + 1 + j

(* uart2.h:81, FlushTx: an idle channel means that all has been sent, and  *)
(* no print leaves bytes behind that only the next print would start.      *)
IdleMeansSent == IDmaIsIdle /\ print = "No" /\ ~torn => sent = accepted

(* The wire carries the accepted bytes, in order, each once, unless an     *)
(* interrupt came inside a print without the lock.                         *)
Stream == INSTANCE ByteStream WITH unlocked <- (print # "No"), corrupt <- torn
ImplementsStream == Stream!Spec

(* Each byte accepted leaves in the end.                                   *)
EveryByteLeaves == \A i \in 1 .. MaxBytes : accepted >= i ~> sent >= i \/ torn
=============================================================================
