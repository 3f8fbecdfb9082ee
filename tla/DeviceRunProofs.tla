--------------------------- MODULE DeviceRunProofs ---------------------------
(***************************************************************************)
(* The pace of the transfer.  Pace alone is not inductive: PaceInv follows *)
(* the time from one stored pixel to the next.  Each stage of a packet     *)
(* adds one access to the packet memory to the earliest time at which the  *)
(* thread that handles it runs again.                                      *)
(***************************************************************************)
EXTENDS DeviceRun, PacketTransferProofs

\* The time that n accesses to the packet memory take.
Spent(n) == ComTimeout * n

Base == Stored * PacketTime

\* The time at which a thread runs again.
Due(t) == now + delay[t]

SlotPace == SlotFull => Base + Spent(PacketWords + 1) <= now

GeneratorPace ==
    /\ genPc = "poll" /\ flag # 1 => Base + Spent(1) <= Due("generator")
    /\ genPc = "send" => Base + Spent(sent + 1) <= Due("generator")

CommunicationPace ==
    /\ comPc = "op" /\ read_en = 1 =>
          Base + Spent(PacketWords + 2) <= Due("communication")
    /\ comPc = "receive" =>
          Base + Spent(PacketWords + 2 + Len(packet)) <= Due("communication")
    /\ comPc = "store" => Base + PacketTime <= Due("communication")

\* At the end of the run nobody is due any more.
PaceInv ==
    /\ now \in Nat /\ now <= RunTime
    /\ Pace /\ SlotPace
    /\ now < RunTime => GeneratorPace /\ CommunicationPace

-----------------------------------------------------------------------------
(* Arithmetic. *)

LEMMA SpentType ==
    \A n \in Nat : Spent(n) \in Nat /\ Spent(n + 1) = Spent(n) + ComTimeout
BY WiringAssumption DEF Spent

\* A packet: both reads of the flag, each word twice, and the pixel's write.
LEMMA PacketTimeType ==
    /\ PacketTime \in Nat
    /\ PacketTime = Spent(PacketWords + 2 + PacketWords) + Timeout
<1>1. PacketWords \in Nat /\ Timeout \in Nat /\ ComTimeout \in Nat
  BY WiringAssumption DEF PacketWords
<1>2. 2 * PacketWords + 2 \in Nat
      /\ 2 * PacketWords + 2 = PacketWords + 2 + PacketWords
  BY <1>1
<1>3. PacketTime = Spent(PacketWords + 2 + PacketWords) + Timeout
  BY <1>2 DEF PacketTime, Spent
<1> QED
  BY <1>1, <1>2, <1>3, SpentType

\* memory_idx counts the stored pixels.
LEMMA StoredType ==
    ASSUME CommunicationTypeOK
    PROVE  /\ Stored \in Nat /\ memory_idx = 16 + 4 * Stored
           /\ Base \in Nat
<1>1. PICK n \in 0..Len(Lines) : memory_idx = 16 + 4 * n
  BY DEF CommunicationTypeOK
<1>2. n \in Nat
  BY LinesAssumption
<1>3. Stored = n
  BY <1>1, <1>2 DEF Stored
<1>4. Base \in Nat
  BY <1>2, <1>3, PacketTimeType DEF Base
<1> QED
  BY <1>1, <1>2, <1>3, <1>4

LEMMA BaseGrows ==
    ASSUME CommunicationTypeOK, memory_idx' = memory_idx + 4
    PROVE  Base' = Base + PacketTime
<1>1. Stored \in Nat /\ memory_idx = 16 + 4 * Stored
  BY StoredType
<1>2. Stored' = Stored + 1
  BY <1>1 DEF Stored
<1>3. (Stored + 1) * PacketTime = Stored * PacketTime + PacketTime
  BY <1>1, PacketTimeType
<1>4. Base' = Stored' * PacketTime
  BY DEF Base, PacketTime, PacketWords
<1> QED
  BY <1>2, <1>3, <1>4 DEF Base

LEMMA BaseStays ==
    ASSUME UNCHANGED memory_idx
    PROVE  Base' = Base
BY DEF Base, Stored, PacketTime, PacketWords

-----------------------------------------------------------------------------
(* The steps. *)

\* What a thread's wait does to the times at which the threads run again.
LEMMA WaitDue ==
    ASSUME KernelTypeOK, now \in Nat, UNCHANGED now,
           NEW t \in Thread, NEW T \in Nat, Wait(t, T)
    PROVE  /\ Due(t)' = now + T
           /\ \A u \in Thread : u # t => Due(u)' = Due(u)
BY DEF KernelTypeOK, Wait, Due

\* A thread that is ready is due now.
LEMMA ReadyDue ==
    ASSUME KernelTypeOK, now \in Nat, NEW t \in Thread, Ready(t)
    PROVE  Due(t) = now
BY DEF KernelTypeOK, Ready, Due

\* Each word that the generator writes takes an access.
LEMMA GeneratorKeepsPace ==
    ASSUME TypeInv, PaceInv, now < RunTime, UNCHANGED now, GeneratorStep
    PROVE  PaceInv'
<1>1. /\ KernelTypeOK /\ now \in Nat /\ "generator" \in Thread
      /\ "communication" \in Thread /\ ComTimeout \in Nat
      /\ Base \in Nat /\ PacketWords \in Nat \ {0} /\ sent \in 0..PacketWords
      /\ pmem \in [PacketAddr -> Word] /\ {0, 1} \subseteq Word
  BY StoredType, WiringAssumption, WordAssumption
  DEF TypeInv, TypeOK, PaceInv, Thread, PacketWords, GeneratorTypeOK
<1>2. UNCHANGED <<comPc, read_en, packet, memory_idx>> /\ UNCHANGED Base
  BY BaseStays DEF GeneratorStep, comVars
<1>3. /\ Ready("generator") /\ Wait("generator", ComTimeout)
  BY DEF GeneratorStep, GenNext, GenStart, GenPoll, GenReadEndFlag,
         GenSignalEnd, GenTakeLine, GenSendWord, GenRaiseFlag, GenReady, GenGoto
<1>4. /\ Due("generator") = now /\ Due("generator")' = now + ComTimeout
      /\ UNCHANGED Due("communication")
  BY <1>1, <1>3, WaitDue, ReadyDue
<1>5. CommunicationPace'
  BY <1>2, <1>4 DEF PaceInv, CommunicationPace, Spent, PacketTime, PacketWords
<1>6. Pace'
  BY <1>2 DEF PaceInv, Pace, Base
<1>7. SlotPace' /\ GeneratorPace' => PaceInv'
  BY <1>1, <1>5, <1>6 DEF PaceInv
<1>8. Base <= now /\ SlotPace /\ GeneratorPace
  BY DEF PaceInv, Pace, Base
<1>9. Spent(1) = ComTimeout /\ Spent(2) = Spent(1) + ComTimeout
  BY <1>1 DEF Spent
<1>10. CASE GenStart
  <2>1. genPc' = "poll" /\ PacketWrite(ComOpflag, 0)
    BY <1>10 DEF GenStart, GenGoto
  <2>2. ~SlotFull'
    BY <1>1, <2>1, PacketAddrType, PacketWriteType DEF SlotFull
  <2>3. Base' + Spent(1) <= Due("generator")'
    BY <1>1, <1>2, <1>4, <1>8, <1>9
  <2> QED
    BY <1>7, <2>1, <2>2, <2>3 DEF SlotPace, GeneratorPace, Spent
<1>11. CASE GenPoll
  <2>1. genPc # "start" /\ genPc' = "poll" /\ UNCHANGED pmem
    BY <1>11 DEF GenPoll, GenReady, GenGoto
  <2>2. SlotPace'
    BY <1>2, <1>8, <2>1 DEF SlotPace, SlotFull, Spent, PacketWords
  <2>3. Base' + Spent(1) <= Due("generator")'
    BY <1>1, <1>2, <1>4, <1>8, <1>9
  <2> QED
    BY <1>7, <2>1, <2>2, <2>3 DEF GeneratorPace, Spent
<1>12. CASE GenReadEndFlag
  <2>1. genPc = "poll" /\ genPc' = "flags" /\ UNCHANGED pmem
    BY <1>12 DEF GenReadEndFlag, GenReady, GenGoto
  <2>2. SlotPace'
    BY <1>2, <1>8, <2>1 DEF SlotPace, SlotFull, Spent, PacketWords
  <2> QED
    BY <1>7, <2>1, <2>2 DEF GeneratorPace
<1>13. CASE GenSignalEnd
  <2>1. genPc = "flags" /\ genPc' = "top"
    BY <1>13 DEF GenSignalEnd, GenReady, GenGoto
  <2>2. pmem'[ComOpflag] = pmem[ComOpflag]
    BY <1>1, <1>13, PacketAddrType, PacketWriteType
    DEF GenSignalEnd, ComOpflag, ComEndOpflag
  <2>3. SlotPace'
    BY <1>2, <1>8, <2>1, <2>2 DEF SlotPace, SlotFull, Spent, PacketWords
  <2> QED
    BY <1>7, <2>1, <2>3 DEF GeneratorPace
<1>14. CASE GenTakeLine
  <2>1. genPc = "poll" /\ flag # 1 /\ genPc' = "send" /\ sent' = 1
    BY <1>14 DEF GenTakeLine, GenReady, GenGoto
  <2>2. ~SlotFull'
    BY <1>14, NextType DEF GeneratorStep, GenNext, Next, TypeInv, StoreBound, GenTakeLine, GenGoto
  <2>3. Base + Spent(1) <= now
    BY <1>4, <1>8, <2>1 DEF GeneratorPace
  <2>4. Base' + Spent(2) <= Due("generator")'
    BY <1>1, <1>2, <1>4, <1>9, <2>3
  <2> QED
    BY <1>7, <2>1, <2>2, <2>4 DEF SlotPace, GeneratorPace, Spent
<1>15. CASE GenSendWord
  <2>1. genPc = "send" /\ genPc' = "send" /\ sent' = sent + 1
    BY <1>15 DEF GenSendWord, GenReady, GenGoto
  <2>2. ~SlotFull'
    BY <1>15, <2>1, NextType DEF Next, TypeInv, StoreBound
  <2>3. Base + Spent(sent + 1) <= now
    BY <1>4, <1>8, <2>1 DEF GeneratorPace
  <2>4. /\ Spent(sent + 1) \in Nat
        /\ Spent(sent + 1 + 1) = Spent(sent + 1) + ComTimeout
    <3>1. sent + 1 \in Nat
      BY <1>1
    <3> QED
      BY <3>1, SpentType
  <2>5. Base' + Spent(sent + 1 + 1) <= Due("generator")'
    BY <1>1, <1>2, <1>4, <2>3, <2>4
  <2> QED
    BY <1>7, <2>1, <2>2, <2>5 DEF SlotPace, GeneratorPace, Spent
<1>16. CASE GenRaiseFlag
  <2>1. genPc = "send" /\ genPc' = "top" /\ sent = PacketWords
    BY <1>16 DEF GenRaiseFlag, GenReady, GenGoto
  <2>2. Base' + Spent(PacketWords + 1) <= now
    BY <1>2, <1>4, <1>8, <2>1 DEF GeneratorPace
  <2> QED
    BY <1>7, <2>1, <2>2 DEF SlotPace, GeneratorPace, Spent, PacketWords
<1> QED
  BY <1>10, <1>11, <1>12, <1>13, <1>14, <1>15, <1>16 DEF GeneratorStep, GenNext

\* Each word that the communication module reads takes one too, and so do its
\* reads of the flag and the write of the pixel.
LEMMA CommunicationKeepsPace ==
    ASSUME TypeInv, LinkInv, PaceInv, now < RunTime, UNCHANGED now,
           CommunicationStep
    PROVE  PaceInv'
<1>1. /\ KernelTypeOK /\ now \in Nat /\ "generator" \in Thread
      /\ "communication" \in Thread /\ ComTimeout \in Nat /\ Timeout \in Nat
      /\ Base \in Nat /\ PacketWords \in Nat \ {0} /\ Len(packet) \in Nat
      /\ packet \in Seq(Word)
      /\ pmem \in [PacketAddr -> Word] /\ {0, 1} \subseteq Word
  BY StoredType, WiringAssumption, WordAssumption
  DEF TypeInv, TypeOK, PaceInv, Thread, PacketWords, CommunicationTypeOK
<1>2. UNCHANGED <<genPc, flag, sent>>
  BY DEF CommunicationStep, genVars
<1>3. PICK T \in {ComTimeout, Timeout} : Wait("communication", T)
  BY DEF CommunicationStep, ComNext, ComStart, ComPoll, ComReadOpflag,
         ComReceiveWord, ComStorePixel, ComRelease, ComSaveBegin, ComSaveEnd,
         ComStartCrypto, ComClearEnd, ComGoto
<1>4. Ready("communication")
  BY DEF CommunicationStep, ComNext, ComStart, ComPoll, ComReadOpflag,
         ComReceiveWord, ComStorePixel, ComRelease, ComSaveBegin, ComSaveEnd,
         ComStartCrypto, ComClearEnd, ComReady, PacketReceived
<1>5. Due("communication") = now /\ UNCHANGED Due("generator")
  BY <1>1, <1>3, <1>4, WaitDue, ReadyDue
<1>6. \A t \in Nat : Wait("communication", t) => Due("communication")' = now + t
  BY <1>1, WaitDue
<1>7. /\ Base <= now /\ SlotPace /\ GeneratorPace /\ CommunicationPace
  BY DEF PaceInv, Pace, Base
<1>8. ASSUME UNCHANGED <<pmem, memory_idx>>, CommunicationPace'
      PROVE  PaceInv'
  <2>1. UNCHANGED Base /\ Pace'
    BY <1>8, BaseStays DEF PaceInv, Pace, Base
  <2>2. SlotPace' /\ GeneratorPace'
    BY <1>2, <1>5, <1>7, <1>8, <2>1
    DEF SlotPace, GeneratorPace, SlotFull, Spent, PacketWords
  <2> QED
    BY <1>1, <1>8, <2>1, <2>2 DEF PaceInv
<1>9. CASE \/ ComStart \/ ComPoll \/ ComSaveBegin \/ ComSaveEnd
           \/ ComStartCrypto
  <2>1. CommunicationPace'
    BY <1>9 DEF ComStart, ComPoll, ComSaveBegin, ComSaveEnd, ComStartCrypto,
                ComGoto, CommunicationPace
  <2> QED
    BY <1>8, <1>9, <2>1
    DEF ComStart, ComPoll, ComSaveBegin, ComSaveEnd, ComStartCrypto
<1>10. CASE ComClearEnd
  <2>1. pmem'[ComOpflag] = pmem[ComOpflag] /\ UNCHANGED Base /\ Pace'
    BY <1>1, <1>10, PacketAddrType, PacketWriteType, BaseStays
    DEF ComClearEnd, ComOpflag, ComEndOpflag, PaceInv, Pace, Base
  <2>2. SlotPace' /\ GeneratorPace' /\ CommunicationPace'
    BY <1>2, <1>5, <1>7, <1>10, <2>1
    DEF SlotPace, GeneratorPace, CommunicationPace, SlotFull, Spent, PacketWords,
        ComClearEnd, ComGoto
  <2> QED
    BY <1>1, <2>1, <2>2 DEF PaceInv
<1>11. CASE ComReadOpflag
  <2>1. /\ comPc = "end" /\ comPc' = "op" /\ read_en' = pmem[ComOpflag]
        /\ Wait("communication", ComTimeout) /\ UNCHANGED <<pmem, memory_idx>>
    BY <1>11 DEF ComReadOpflag, ComReady, ComGoto
  <2>2. read_en' = 1 => SlotFull
    BY <1>4, <2>1 DEF TypeInv, StoreBound, SlotFull, Ready
  <2>3. /\ Spent(PacketWords + 1) \in Nat
        /\ Spent(PacketWords + 2) = Spent(PacketWords + 1) + ComTimeout
    <3>1. PacketWords + 1 \in Nat /\ (PacketWords + 1) + 1 = PacketWords + 2
      BY <1>1
    <3> QED
      BY <3>1, SpentType
  <2>4. Due("communication")' = now + ComTimeout /\ UNCHANGED Base
    BY <1>1, <1>6, <2>1, BaseStays
  <2>5. read_en' = 1 => Base' + Spent(PacketWords + 2) <= Due("communication")'
    BY <1>1, <1>7, <2>2, <2>3, <2>4 DEF SlotPace
  <2> QED
    BY <1>8, <2>1, <2>5 DEF CommunicationPace, Spent, PacketWords
<1>12. CASE ComReceiveWord
  <2>1. /\ comPc' = "receive" /\ Len(packet') = Len(packet) + 1
        /\ Wait("communication", ComTimeout) /\ UNCHANGED <<pmem, memory_idx>>
    BY <1>1, <1>12 DEF ComReceiveWord, ComGoto
  <2> DEFINE n == PacketWords + 2 + Len(packet)
  <2>2. Base + Spent(n) <= now
    <3>1. CASE comPc = "receive"
      BY <1>5, <1>7, <3>1 DEF CommunicationPace
    <3>2. CASE comPc = "op" /\ read_en = 1
      <4>1. n >= PacketWords + 2 /\ Base + Spent(PacketWords + 2) <= now
        BY <1>1, <1>5, <1>7, <3>2 DEF CommunicationPace
      <4>2. n = PacketWords + 2
        BY <1>1, <3>2 DEF LinkInv
      <4> QED
        BY <4>1, <4>2
    <3> QED
      BY <1>12, <3>1, <3>2 DEF ComReceiveWord, ComReady
  <2>3. n \in Nat /\ PacketWords + 2 + Len(packet') = n + 1
    BY <1>1, <2>1
  <2>4. Due("communication")' = now + ComTimeout /\ UNCHANGED Base
    BY <1>1, <1>6, <2>1, BaseStays
  <2> HIDE DEF n
  <2>5. Spent(n) \in Nat /\ Spent(n + 1) = Spent(n) + ComTimeout
    BY <2>3, SpentType
  <2>6. Base' + Spent(PacketWords + 2 + Len(packet')) <= Due("communication")'
    BY <1>1, <2>2, <2>3, <2>4, <2>5
  <2> QED
    BY <1>8, <2>1, <2>6 DEF CommunicationPace, Spent, PacketWords
<1>13. CASE ComStorePixel
  <2>1. /\ comPc = "receive" /\ Len(packet) = PacketWords /\ comPc' = "store"
        /\ Wait("communication", Timeout) /\ UNCHANGED <<pmem, memory_idx>>
    BY <1>13 DEF ComStorePixel, PacketReceived, ComReady, ComGoto
  <2>2. Base + Spent(PacketWords + 2 + PacketWords) <= now
    BY <1>5, <1>7, <2>1 DEF CommunicationPace
  <2>3. Due("communication")' = now + Timeout /\ UNCHANGED Base
    BY <1>1, <1>6, <2>1, BaseStays
  <2>4. Spent(PacketWords + 2 + PacketWords) \in Nat
    <3>1. PacketWords + 2 + PacketWords \in Nat
      BY <1>1
    <3> QED
      BY <3>1, SpentType
  <2>5. Base' + PacketTime <= Due("communication")'
    BY <1>1, <2>2, <2>3, <2>4, PacketTimeType
  <2> QED
    BY <1>8, <2>1, <2>5 DEF CommunicationPace, PacketTime, PacketWords
<1>14. CASE ComRelease
  <2>1. comPc' = "ack" /\ SlotFull /\ PacketWrite(ComOpflag, 0)
    BY <1>14 DEF ComRelease, ComGoto, PacketReceived, ComReady, TypeInv, StoreBound
  <2>2. ~SlotFull'
    BY <1>1, <2>1, PacketAddrType, PacketWriteType DEF SlotFull
  <2>3. genPc # "send" /\ ~(genPc = "poll" /\ flag # 1)
    BY <2>1 DEF TypeInv, StoreBound
  <2>4. Base' <= now
    <3>1. CASE UNCHANGED memory_idx
      BY <1>7, <3>1, BaseStays
    <3>2. CASE comPc = "store" /\ memory_idx' = memory_idx + 4
      <4>1. Base + PacketTime <= now
        BY <1>5, <1>7, <3>2 DEF CommunicationPace
      <4> QED
        BY <3>2, <4>1, BaseGrows DEF TypeInv, TypeOK
    <3> QED
      BY <1>14, <3>1, <3>2 DEF ComRelease, ComReady
  <2> QED
    BY <1>1, <1>2, <2>1, <2>2, <2>3, <2>4
    DEF PaceInv, Pace, Base, SlotPace, GeneratorPace, CommunicationPace
<1> QED
  BY <1>9, <1>10, <1>11, <1>12, <1>13, <1>14 DEF CommunicationStep, ComNext

\* The other two threads do not touch the packet memory.
LEMMA OthersKeepPace ==
    ASSUME TypeInv, PaceInv, UNCHANGED now, EncryptionStep \/ GpuStep
    PROVE  PaceInv'
<1>1. /\ KernelTypeOK /\ now \in Nat /\ Timeout \in Nat
      /\ Thread = {"generator", "communication", "encryption", "gpu"}
  BY WiringAssumption DEF TypeInv, TypeOK, PaceInv, Thread
<1>2. UNCHANGED <<pmem, genVars, comVars>>
  BY DEF EncryptionStep, GpuStep
<1>3. Wait("encryption", Timeout) \/ Wait("gpu", Timeout)
  <2>1. CASE EncryptionStep
    BY <2>1 DEF EncryptionStep, EncNext, EncPoll, EncAcknowledge, EncReadBegin,
                EncReadEnd, EncReadWord, EncWriteWord, EncStartGpu, EncSaveBase,
                EncGoto
  <2>2. CASE GpuStep
    BY <2>2 DEF GpuStep, GpuNext, GpuPoll, GpuReadBase, GpuReadWidth,
                GpuReadHeight, GpuFetchPixel, GpuRotate, GpuSaveHeight,
                GpuWritePixel, GpuStop, GpuGoto
  <2> QED
    BY <2>1, <2>2
<1>4. UNCHANGED <<Due("generator"), Due("communication")>>
  BY <1>1, <1>3, WaitDue
<1>5. UNCHANGED Base /\ Pace'
  BY <1>2, BaseStays DEF PaceInv, Pace, Base, comVars
<1>6. SlotPace' /\ GeneratorPace' /\ CommunicationPace'
      <=> SlotPace /\ GeneratorPace /\ CommunicationPace
  BY <1>2, <1>4, <1>5
  DEF SlotPace, GeneratorPace, CommunicationPace, SlotFull, Spent, PacketTime,
      PacketWords, genVars, comVars
<1>7. SlotPace' <=> SlotPace
  BY <1>2, <1>5 DEF SlotPace, SlotFull, Spent, PacketWords, genVars
<1> QED
  BY <1>1, <1>5, <1>6, <1>7 DEF PaceInv

\* Time passes towards what is due, or ends before it.
LEMMA TimeKeepsPace ==
    ASSUME TypeInv, PaceInv, RunTimeStep
    PROVE  PaceInv'
<1>1. /\ KernelTypeOK /\ now \in Nat /\ RunTime \in Nat /\ Base \in Nat
      /\ Thread = {"generator", "communication", "encryption", "gpu"}
  BY StoredType, RunAssumption DEF TypeInv, TypeOK, PaceInv, Thread
<1>2. UNCHANGED <<pmem, genVars, comVars>>
  BY DEF RunTimeStep, TimeStep
<1>3. PICK t \in Thread :
         /\ delay[t] > 0 /\ \A u \in Thread : delay[t] <= delay[u]
         /\ delay' = [u \in Thread |-> delay[u] - delay[t]]
  BY DEF RunTimeStep, TimeStep, Advance
<1>4. /\ delay \in [Thread -> Nat]
      /\ \A u \in Thread : delay'[u] = delay[u] - delay[t]
  BY <1>1, <1>3 DEF KernelTypeOK
<1>5. now' = IF now + delay[t] > RunTime THEN RunTime ELSE now + delay[t]
  <2>1. now + delay["gpu"] - delay'["gpu"] = now + delay[t]
    BY <1>1, <1>4
  <2> QED
    BY <2>1 DEF RunTimeStep
<1>6. now' \in Nat /\ now' <= RunTime /\ now <= now'
  BY <1>1, <1>3, <1>4, <1>5 DEF PaceInv
<1>7. now' < RunTime => UNCHANGED <<Due("generator"), Due("communication")>>
  BY <1>1, <1>4, <1>5 DEF Due
<1>8. UNCHANGED Base /\ Base <= now
  BY <1>2, BaseStays DEF PaceInv, Pace, Base, comVars
<1>9. Pace'
  BY <1>1, <1>6, <1>8 DEF Pace, Base
<1>10. SlotPace'
  <2>1. Spent(PacketWords + 1) \in Nat
    <3>1. PacketWords + 1 \in Nat
      BY WiringAssumption DEF PacketWords
    <3> QED
      BY <3>1, SpentType
  <2>2. SlotFull' => Base + Spent(PacketWords + 1) <= now
    BY <1>2 DEF PaceInv, SlotPace, SlotFull, genVars
  <2> QED
    BY <1>1, <1>6, <1>8, <2>1, <2>2 DEF SlotPace, Spent, PacketWords
<1>11. now' < RunTime => GeneratorPace' /\ CommunicationPace'
  <2> SUFFICES ASSUME now' < RunTime PROVE GeneratorPace' /\ CommunicationPace'
    OBVIOUS
  <2>1. GeneratorPace /\ CommunicationPace
    BY DEF PaceInv, RunTimeStep
  <2>2. UNCHANGED <<Due("generator"), Due("communication")>>
    BY <1>7
  <2> QED
    BY <1>2, <1>8, <2>1, <2>2
    DEF GeneratorPace, CommunicationPace, Spent, PacketTime, PacketWords,
        genVars, comVars
<1> QED
  BY <1>6, <1>9, <1>10, <1>11 DEF PaceInv

-----------------------------------------------------------------------------
(* The theorems. *)

\* The device that runs is the device.
LEMMA RunNextIsNext == [RunNext]_runVars => [Next]_vars
BY DEF RunNext, RunThread, RunTimeStep, Next, runVars

LEMMA InitPace == Init /\ now = 0 => PaceInv
<1> SUFFICES ASSUME Init, now = 0 PROVE PaceInv
  OBVIOUS
<1>1. genPc = "start" /\ comPc = "start" /\ memory_idx = 16
  BY DEF Init, GeneratorInit, CommunicationInit
<1>2. Stored = 0
  BY <1>1 DEF Stored
<1>3. Pace
  BY <1>2, PacketTimeType DEF Pace
<1> QED
  BY <1>1, <1>3, RunAssumption
  DEF PaceInv, SlotPace, SlotFull, GeneratorPace, CommunicationPace

LEMMA NextPace ==
    TypeInv /\ LinkInv /\ PaceInv /\ [RunNext]_runVars => PaceInv'
<1> SUFFICES ASSUME TypeInv, LinkInv, PaceInv, [RunNext]_runVars PROVE PaceInv'
  OBVIOUS
<1>1. CASE UNCHANGED runVars
  BY <1>1 DEF PaceInv, Pace, Stored, SlotPace, SlotFull, GeneratorPace,
              CommunicationPace, Base, Due, Spent, PacketTime, PacketWords,
              runVars, vars, genVars, comVars
<1> QED
  BY <1>1, GeneratorKeepsPace, CommunicationKeepsPace, OthersKeepPace,
     TimeKeepsPace
  DEF RunNext, RunThread

RunInv == TypeInv /\ LinkInv /\ PaceInv

THEOREM RunInvariance == RunSpec => []RunInv
<1>1. RunInit => RunInv
  BY InitType, InitLink, InitPace DEF RunInit, RunInv
<1>2. RunInv /\ [RunNext]_runVars => RunInv'
  BY NextType, NextLink, NextPace, RunNextIsNext DEF RunInv
<1> QED
  BY <1>1, <1>2, PTL DEF RunSpec

(***************************************************************************)
(* The pace of the transfer, for every file, packet length and pair of     *)
(* periods: each stored pixel has taken PacketTime at least.               *)
(***************************************************************************)
THEOREM PaceHolds == RunSpec => []Pace
BY RunInvariance, PTL DEF RunInv, PaceInv

-----------------------------------------------------------------------------
(* A run that is too short for the transfer shows no rotated image. *)

\* The stages behind the transfer are at rest.
Quiet ==
    /\ mem[CryptoOpflag] # 1 /\ mem[GpuOpflag] # 1
    /\ encPc \in {"start", "poll"} /\ control # 1
    /\ gpuPc \in {"start", "poll"} /\ start # 1

\* The flags of the two stages are words of the memory.
LEMMA FlagAddrType == CryptoOpflag \in GlobalAddr /\ GpuOpflag \in GlobalAddr
<1>1. MemoryEnd \div 4 \in Nat /\ MemoryEnd \div 4 >= 3
  BY WiringAssumption
<1>2. CryptoOpflag = 4 * 2 /\ GpuOpflag = 4 * 3
  BY DEF CryptoOpflag, GpuOpflag
<1>3. 2 \in 0..MemoryEnd \div 4 /\ 3 \in 0..MemoryEnd \div 4
  BY <1>1
<1> QED
  BY <1>2, <1>3 DEF GlobalAddr

\* Until an image is announced, the communication module raises no flag.
LEMMA CommunicationKeepsQuiet ==
    ASSUME TypeInv, Quiet, ~Announcing, CommunicationStep
    PROVE  Quiet'
<1>1. MemTypeOK /\ memory_idx >= 16
  <2>1. PICK n \in 0..Len(Lines) : memory_idx = 16 + 4 * n
    BY DEF TypeInv, TypeOK, CommunicationTypeOK
  <2> QED
    BY <2>1, LinesAssumption DEF TypeInv, TypeOK
<1>2. mem'[CryptoOpflag] # 1 /\ mem'[GpuOpflag] # 1
  <2>1. CASE UNCHANGED mem
    BY <2>1 DEF Quiet
  <2>2. CASE ComStart
    BY <1>1, <2>2, FlagAddrType DEF ComStart, MemTypeOK, CryptoOpflag, GpuOpflag
  <2>3. ASSUME NEW a, NEW v, DirectWrite(a, v),
               a # CryptoOpflag, a # GpuOpflag
        PROVE  mem'[CryptoOpflag] # 1 /\ mem'[GpuOpflag] # 1
    BY <1>1, <2>3, FlagAddrType DEF DirectWrite, MemTypeOK, Quiet
  <2>4. CASE ComStorePixel
    BY <1>1, <2>3, <2>4 DEF ComStorePixel, CryptoOpflag, GpuOpflag
  <2>5. CASE ComSaveBegin
    BY <2>3, <2>5
    DEF ComSaveBegin, CryptoOpflag, GpuOpflag, ComOpflag
  <2> QED
    BY <2>1, <2>2, <2>4, <2>5
    DEF CommunicationStep, ComNext, ComPoll, ComReadOpflag, ComReceiveWord,
        ComRelease, ComSaveEnd, ComStartCrypto, ComClearEnd, ComReady,
        Announcing
<1> QED
  BY <1>2 DEF CommunicationStep, encVars, gpuVars, Quiet

\* The two stages only poll then.
LEMMA NextQuiet ==
    TypeInv /\ Quiet /\ ~Announcing /\ [Next]_vars => Quiet'
<1> SUFFICES ASSUME TypeInv, Quiet, ~Announcing, [Next]_vars PROVE Quiet'
  OBVIOUS
<1>1. CASE EncryptionStep
  <2>1. EncPoll
    BY <1>1
    DEF EncryptionStep, EncNext, EncAcknowledge, EncReadBegin, EncReadEnd,
        EncReadWord, EncWriteWord, EncStartGpu, EncSaveBase, EncReady, Quiet
  <2> QED
    BY <1>1, <2>1
    DEF EncryptionStep, EncPoll, EncGoto, DirectRead, Quiet, gpuVars
<1>2. CASE GpuStep
  <2>1. GpuPoll
    BY <1>2
    DEF GpuStep, GpuNext, GpuReadBase, GpuReadWidth, GpuReadHeight,
        GpuFetchPixel, GpuRotate, GpuSaveHeight, GpuWritePixel, GpuStop,
        GpuReady, Quiet
  <2> QED
    BY <1>2, <2>1
    DEF GpuStep, GpuPoll, GpuGoto, DirectRead, Quiet, encVars
<1>3. CASE GeneratorStep \/ TimeStep \/ UNCHANGED vars
  BY <1>3 DEF GeneratorStep, TimeStep, vars, encVars, gpuVars, Quiet
<1> QED
  BY <1>1, <1>2, <1>3, CommunicationKeepsQuiet DEF Next

LEMMA InitQuiet == Init => Quiet
BY FlagAddrType DEF Init, MemInit, EncryptionInit, GpuInit, Quiet

\* An announcement takes the time of all packets.
LEMMA NoTimeToAnnounce ==
    ASSUME RunInv, ImageComplete, RunTime < Len(Lines) * PacketTime
    PROVE  ~Announcing
<1> SUFFICES ASSUME Announcing PROVE FALSE
  OBVIOUS
<1>1. memory_idx = 16 + 4 * Stored /\ Stored \in Nat /\ Len(Lines) \in Nat
  BY StoredType, LinesAssumption DEF RunInv, TypeInv, TypeOK
<1>2. Stored = Len(Lines)
  BY <1>1 DEF ImageComplete
<1>3. Len(Lines) * PacketTime <= now /\ now \in Nat /\ now <= RunTime
  BY <1>2 DEF RunInv, PaceInv, Pace
<1>4. Len(Lines) * PacketTime \in Nat
  BY <1>1, PacketTimeType
<1> QED
  BY <1>3, <1>4, RunAssumption

(***************************************************************************)
(* A run shorter than the transfer of its lines ends without a rotated     *)
(* image, whatever the order of the threads.  With the shipped constants   *)
(* (ComTimeout = 5, Timeout = 30, CrcWords = 16) PacketTime is 210, and    *)
(* the 16386 lines of the shipped file need more than RunTime = 3000000.   *)
(***************************************************************************)
THEOREM RunTooShort ==
    ASSUME AllValid, RunTime < Len(Lines) * PacketTime
    PROVE  RunSpec /\ EndFlagClear => ~RotatedInTime
<1> DEFINE Inv == RunInv /\ EndInv /\ CountInv /\ Quiet
<1>1. RunInv /\ EndInv /\ CountInv => ~Announcing
  BY NoTimeToAnnounce, EndedCount DEF EndInv, ImageComplete
<1>2. RunInit /\ EndFlagClear => Inv
  BY InitType, InitLink, InitPace, InitEnd, InitCount, InitQuiet
  DEF RunInit, RunInv
<1>3. Inv /\ [RunNext]_runVars => Inv'
  <2> SUFFICES ASSUME Inv, [RunNext]_runVars PROVE Inv'
    OBVIOUS
  <2>1. [Next]_vars
    BY RunNextIsNext
  <2>2. RunInv'
    BY <2>1, NextType, NextLink, NextPace DEF RunInv
  <2>3. EndInv'
    BY <2>1, NextEnd DEF RunInv
  <2>4. CountInv'
    BY <2>1, <2>2, NextChannel, ChannelKeepsCount DEF RunInv
  <2>5. Quiet'
    BY <1>1, <2>1, NextQuiet DEF RunInv
  <2> QED
    BY <2>2, <2>3, <2>4, <2>5
<1>4. Inv => ~(gpuPc = "stop")
  BY DEF Quiet
<1> HIDE DEF Inv
<1> QED
  BY <1>2, <1>3, <1>4, PTL DEF RunSpec, RotatedInTime
=============================================================================
