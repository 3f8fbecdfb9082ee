----------------------------- MODULE TypeProofs -----------------------------
(***************************************************************************)
(* Type correctness of the composition.  TypeOK alone is not inductive:    *)
(*   - memory_idx stays below the end of the lines because a pixel is      *)
(*     stored only while a line is in the channel (StoreBound);            *)
(*   - the GPU's indices stay inside its buffers because it passed the     *)
(*     test size <= m_max_size before (GpuBounds).                         *)
(***************************************************************************)
EXTENDS PacketTransfer, Rc4Proofs

StoreBound ==
    /\ genPc = "start" =>
          /\ line = 0 /\ delay["generator"] = 0
          /\ memory_idx = 16
          /\ comPc = "start" \/ (comPc = "end" /\ delay["communication"] > 0)
    /\ comPc \in {"receive", "store"} \/ (comPc = "op" /\ read_en = 1) => SlotFull
    /\ SlotFull => genPc = "top" \/ (genPc = "poll" /\ flag = 1)
    /\ genPc = "send" => line > 0
    /\ SlotFull => line > 0 /\ memory_idx <= 16 + 4 * (line - 1)
    /\ genPc = "send" => memory_idx <= 16 + 4 * (line - 1)
    /\ memory_idx <= 16 + 4 * line

GpuBounds ==
    /\ gpuPc \in {"fetch", "newWidth", "newHeight", "write"} =>
          Size <= ImageMaxSize
    /\ k \in Nat

TypeInv == TypeOK /\ StoreBound /\ GpuBounds

-----------------------------------------------------------------------------
(* The kernel and the memories. *)

\* A thread that waits leaves every delay a natural number.
LEMMA WaitType ==
    ASSUME KernelTypeOK, NEW t \in Thread, NEW T \in Nat, Wait(t, T)
    PROVE  KernelTypeOK'
BY DEF KernelTypeOK, Wait

\* So does time when it advances.
LEMMA AdvanceType ==
    ASSUME KernelTypeOK, Advance
    PROVE  KernelTypeOK'
BY DEF KernelTypeOK, Advance

\* A direct access moves words only.
LEMMA DirectReadType ==
    ASSUME MemTypeOK, NEW a, NEW old \in Word
    PROVE  DirectRead(a, old) \in Word
BY DEF MemTypeOK, DirectRead

\* A write through the bus leaves a memory of words.
LEMMA DirectWriteType ==
    ASSUME MemTypeOK, NEW a, NEW v \in Word, DirectWrite(a, v)
    PROVE  MemTypeOK'
BY DEF MemTypeOK, DirectWrite

\* The flags and the words of a packet are words of the packet memory.
LEMMA PacketAddrType ==
    /\ ComOpflag \in PacketAddr /\ ComEndOpflag \in PacketAddr
    /\ \A n \in 1..PacketWords : WordAddr(n) \in PacketAddr
<1>1. PacketWords \in Nat \ {0}
  BY WiringAssumption DEF PacketWords
<1>2. ComOpflag = 4 * 0 /\ ComEndOpflag = 4 * 1
  BY DEF ComOpflag, ComEndOpflag
<1>3. ASSUME NEW n \in 1..PacketWords PROVE WordAddr(n) = 4 * (n + 1)
  BY <1>1 DEF WordAddr, ComMemoryBegin
<1>4. ASSUME NEW n \in 0..PacketWords + 1 PROVE 4 * n \in PacketAddr
  BY DEF PacketAddr
<1>5. ComOpflag \in PacketAddr /\ ComEndOpflag \in PacketAddr
  <2>1. 0 \in 0..PacketWords + 1 /\ 1 \in 0..PacketWords + 1
    BY <1>1
  <2> QED
    BY <1>2, <1>4, <2>1
<1>6. ASSUME NEW n \in 1..PacketWords PROVE WordAddr(n) \in PacketAddr
  <2>1. n + 1 \in 0..PacketWords + 1
    BY <1>1
  <2> QED
    BY <1>3, <1>4, <2>1
<1> QED
  BY <1>5, <1>6

\* The words of a packet, for a line of the file.
LEMMA StreamType ==
    ASSUME NEW l \in 1..Len(Lines), NEW n \in 1..PacketWords
    PROVE  Stream(Lines[l])[n] \in Word
<1>1. Lines[l] \in Line
  BY LinesAssumption
<1> QED
  BY <1>1, WiringAssumption DEF Stream, Line, PacketWords

\* Writing a word keeps the packet memory typed and the other words as they
\* are; the words of a packet are not the flags.
LEMMA PacketWriteType ==
    ASSUME pmem \in [PacketAddr -> Word],
           NEW a \in PacketAddr, NEW v \in Word, PacketWrite(a, v)
    PROVE  /\ pmem' \in [PacketAddr -> Word]
           /\ pmem'[a] = v
           /\ \A b \in PacketAddr : b # a => pmem'[b] = pmem[b]
BY DEF PacketWrite

\* No word of a packet lies on the operation flag.
LEMMA WordIsNotFlag ==
    \A n \in 1..PacketWords : WordAddr(n) # ComOpflag
BY WiringAssumption DEF WordAddr, ComMemoryBegin, ComOpflag, PacketWords

-----------------------------------------------------------------------------
(* The generator. *)

\* Every step of the generator preserves the strengthened invariant.
LEMMA GeneratorKeepsType ==
    ASSUME TypeInv, GeneratorStep
    PROVE  TypeInv'
<1> USE DEF TypeInv, TypeOK
<1>1. PacketWords \in Nat \ {0} /\ ComTimeout \in Nat /\ Len(Lines) \in Nat
  BY WiringAssumption, LinesAssumption DEF PacketWords
<1>2. {0, 1} \subseteq Word
  BY WordAssumption
<1>3. /\ MemTypeOK' /\ CommunicationTypeOK' /\ EncryptionTypeOK'
      /\ GpuTypeOK' /\ GpuBounds'
  BY DEF GeneratorStep, MemTypeOK, CommunicationTypeOK, EncryptionTypeOK,
         GpuTypeOK, GpuBounds, comVars, encVars, gpuVars, Size
<1>4. UNCHANGED <<comPc, read_en, memory_idx>>
  BY DEF GeneratorStep, comVars
<1>5. ASSUME NEW pc, GenGoto(pc) PROVE KernelTypeOK'
  BY <1>1, <1>5, WaitType DEF GenGoto, Thread
<1>6. /\ ComOpflag \in PacketAddr /\ ComEndOpflag \in PacketAddr
      /\ ComOpflag # ComEndOpflag
  BY PacketAddrType DEF ComOpflag, ComEndOpflag
<1>7. CASE GenStart
  <2>1. pmem' \in [PacketAddr -> Word] /\ pmem'[ComOpflag] = 0
    BY <1>2, <1>6, <1>7, PacketWriteType DEF GenStart
  <2>2. GeneratorTypeOK' /\ KernelTypeOK'
    BY <1>2, <1>5, <1>7 DEF GenStart, GenGoto, GeneratorTypeOK
  <2>3. StoreBound'
    BY <1>4, <1>7, <2>1 DEF GenStart, GenReady, GenGoto, StoreBound, SlotFull
  <2> QED
    BY <1>3, <2>1, <2>2, <2>3
<1>8. CASE GenPoll
  <2>1. GeneratorTypeOK' /\ KernelTypeOK'
    BY <1>5, <1>6, <1>8 DEF GenPoll, GenGoto, GeneratorTypeOK
  <2>2. StoreBound'
    BY <1>4, <1>8 DEF GenPoll, GenReady, GenGoto, StoreBound, SlotFull
  <2> QED
    BY <1>3, <1>8, <2>1, <2>2 DEF GenPoll
<1>9. CASE GenReadEndFlag
  <2>1. GeneratorTypeOK' /\ KernelTypeOK'
    BY <1>5, <1>6, <1>9 DEF GenReadEndFlag, GenGoto, GeneratorTypeOK
  <2>2. StoreBound'
    BY <1>4, <1>9 DEF GenReadEndFlag, GenReady, GenGoto, StoreBound, SlotFull
  <2> QED
    BY <1>3, <1>9, <2>1, <2>2 DEF GenReadEndFlag
<1>10. CASE GenSignalEnd
  <2>1. pmem' \in [PacketAddr -> Word] /\ pmem'[ComOpflag] = pmem[ComOpflag]
    BY <1>2, <1>6, <1>10, PacketWriteType DEF GenSignalEnd
  <2>2. GeneratorTypeOK' /\ KernelTypeOK'
    BY <1>2, <1>5, <1>10 DEF GenSignalEnd, GenGoto, GeneratorTypeOK
  <2>3. StoreBound'
    BY <1>4, <1>10, <2>1
    DEF GenSignalEnd, GenReady, GenGoto, StoreBound, SlotFull
  <2> QED
    BY <1>3, <2>1, <2>2, <2>3
<1>11. CASE GenTakeLine
  <2>1. 1 \in 1..PacketWords /\ line + 1 \in 1..Len(Lines)
    BY <1>1, <1>11 DEF GenTakeLine, FileEmpty, GeneratorTypeOK
  <2>2. /\ WordAddr(1) \in PacketAddr /\ WordAddr(1) # ComOpflag
        /\ Stream(Lines[line + 1])[1] \in Word
    BY <2>1, PacketAddrType, WordIsNotFlag, StreamType
  <2>3. pmem' \in [PacketAddr -> Word] /\ pmem'[ComOpflag] = pmem[ComOpflag]
    BY <1>6, <1>11, <2>2, PacketWriteType DEF GenTakeLine
  <2>4. GeneratorTypeOK' /\ KernelTypeOK'
    BY <1>1, <1>5, <1>11, <2>1 DEF GenTakeLine, GenGoto, GeneratorTypeOK
  <2>5. line \in Nat /\ memory_idx \in Int /\ line' = line + 1
    BY <1>1, <1>11 DEF GenTakeLine, GeneratorTypeOK, CommunicationTypeOK
  <2>6. ~SlotFull /\ genPc = "poll" /\ genPc' = "send" /\ ~SlotFull'
    BY <1>11, <2>3 DEF GenTakeLine, GenReady, GenGoto, StoreBound, SlotFull
  <2>7. StoreBound'
    BY <1>4, <2>5, <2>6 DEF StoreBound
  <2> QED
    BY <1>3, <2>3, <2>4, <2>7
<1>12. CASE GenSendWord
  <2>1. sent + 1 \in 1..PacketWords /\ line \in 1..Len(Lines)
    BY <1>1, <1>12 DEF GenSendWord, GenReady, GeneratorTypeOK, StoreBound
  <2>2. /\ WordAddr(sent + 1) \in PacketAddr
        /\ WordAddr(sent + 1) # ComOpflag
        /\ Stream(Lines[line])[sent + 1] \in Word
    BY <2>1, PacketAddrType, WordIsNotFlag, StreamType
  <2>3. pmem' \in [PacketAddr -> Word] /\ pmem'[ComOpflag] = pmem[ComOpflag]
    BY <1>6, <1>12, <2>2, PacketWriteType DEF GenSendWord
  <2>4. GeneratorTypeOK' /\ KernelTypeOK'
    BY <1>1, <1>5, <1>12, <2>1 DEF GenSendWord, GenGoto, GeneratorTypeOK
  <2>5. StoreBound'
    BY <1>4, <1>12, <2>3
    DEF GenSendWord, GenReady, GenGoto, StoreBound, SlotFull
  <2> QED
    BY <1>3, <2>3, <2>4, <2>5
<1>13. CASE GenRaiseFlag
  <2>1. pmem' \in [PacketAddr -> Word] /\ pmem'[ComOpflag] = 1
    BY <1>2, <1>6, <1>13, PacketWriteType DEF GenRaiseFlag
  <2>2. GeneratorTypeOK' /\ KernelTypeOK'
    BY <1>2, <1>5, <1>13 DEF GenRaiseFlag, GenGoto, GeneratorTypeOK
  <2>3. StoreBound'
    BY <1>4, <1>13, <2>1
    DEF GenRaiseFlag, GenReady, GenGoto, StoreBound, SlotFull
  <2> QED
    BY <1>3, <2>1, <2>2, <2>3
<1> QED
  BY <1>7, <1>8, <1>9, <1>10, <1>11, <1>12, <1>13 DEF GeneratorStep, GenNext

-----------------------------------------------------------------------------
(* The communication module. *)

\* Every step of the communication module preserves it.
LEMMA CommunicationKeepsType ==
    ASSUME TypeInv, CommunicationStep
    PROVE  TypeInv'
<1> USE DEF TypeInv, TypeOK
<1>1. /\ PacketWords \in Nat \ {0} /\ Len(Lines) \in Nat
      /\ ComTimeout \in Nat \ {0} /\ Timeout \in Nat \ {0}
  BY WiringAssumption, LinesAssumption DEF PacketWords
<1>2. {0, 1, 16} \subseteq Word
  BY WordAssumption
<1>3. GeneratorTypeOK' /\ EncryptionTypeOK' /\ GpuTypeOK' /\ GpuBounds'
  BY DEF CommunicationStep, GeneratorTypeOK, EncryptionTypeOK,
         GpuTypeOK, GpuBounds, genVars, encVars, gpuVars, Size
<1>4. UNCHANGED <<genPc, flag, line>>
  BY DEF CommunicationStep, genVars
<1>5. ASSUME NEW pc, NEW T \in Nat, ComGoto(pc, T) PROVE KernelTypeOK'
  BY <1>5, WaitType DEF ComGoto, Thread
<1>6. /\ ComOpflag \in PacketAddr /\ ComEndOpflag \in PacketAddr
      /\ ComOpflag # ComEndOpflag
  BY PacketAddrType DEF ComOpflag, ComEndOpflag
<1>7. /\ memory_idx \in Int /\ memory_idx \in Word /\ line \in Nat
      /\ packet \in Seq(Word)
  BY LinesAssumption DEF CommunicationTypeOK, GeneratorTypeOK
<1>8. CASE ComStart
  <2>1. MemTypeOK'
    BY <1>2, <1>8 DEF ComStart, MemTypeOK
  <2>2. CommunicationTypeOK' /\ KernelTypeOK'
    BY <1>1, <1>5, <1>6, <1>8 DEF ComStart, ComGoto, CommunicationTypeOK
  <2>3. StoreBound'
    BY <1>1, <1>4, <1>8
    DEF ComStart, ComReady, ComGoto, StoreBound, SlotFull, Wait,
        KernelTypeOK, Thread
  <2> QED
    BY <1>3, <1>8, <2>1, <2>2, <2>3 DEF ComStart
<1>9. CASE ComPoll
  <2>1. CommunicationTypeOK' /\ KernelTypeOK' /\ MemTypeOK'
    BY <1>1, <1>5, <1>6, <1>9
    DEF ComPoll, ComGoto, CommunicationTypeOK, MemTypeOK
  <2>2. StoreBound'
    BY <1>4, <1>9 DEF ComPoll, ComReady, ComGoto, StoreBound, SlotFull
  <2> QED
    BY <1>3, <1>9, <2>1, <2>2 DEF ComPoll
<1>10. CASE ComReadOpflag
  <2>1. CommunicationTypeOK' /\ KernelTypeOK' /\ MemTypeOK'
    BY <1>1, <1>5, <1>6, <1>10
    DEF ComReadOpflag, ComGoto, CommunicationTypeOK, MemTypeOK
  <2>2. genPc # "start"
    BY <1>10 DEF ComReadOpflag, ComReady, Ready, StoreBound
  <2>3. StoreBound'
    BY <1>4, <1>10, <2>2
    DEF ComReadOpflag, ComReady, ComGoto, StoreBound, SlotFull
  <2> QED
    BY <1>3, <1>10, <2>1, <2>3 DEF ComReadOpflag
<1>11. CASE ComReceiveWord
  <2>1. Len(packet) + 1 \in 1..PacketWords
    BY <1>1, <1>7, <1>11 DEF ComReceiveWord
  <2>2. pmem[WordAddr(Len(packet) + 1)] \in Word
    BY <2>1, PacketAddrType
  <2>3. packet' \in Seq(Word) /\ Len(packet') <= PacketWords
    BY <1>7, <1>11, <2>1, <2>2 DEF ComReceiveWord
  <2>4. CommunicationTypeOK' /\ KernelTypeOK' /\ MemTypeOK'
    BY <1>1, <1>5, <1>11, <2>3
    DEF ComReceiveWord, ComGoto, CommunicationTypeOK, MemTypeOK
  <2>5. StoreBound'
    BY <1>4, <1>11 DEF ComReceiveWord, ComReady, ComGoto, StoreBound, SlotFull
  <2> QED
    BY <1>3, <1>11, <2>4, <2>5 DEF ComReceiveWord
<1>12. CASE ComStorePixel
  <2>1. packet[PacketWords] \in Word
    BY <1>1, <1>7, <1>12 DEF ComStorePixel, PacketReceived
  <2>2. MemTypeOK'
    BY <1>12, <2>1, DirectWriteType DEF ComStorePixel
  <2>3. CommunicationTypeOK' /\ KernelTypeOK'
    BY <1>1, <1>5, <1>12 DEF ComStorePixel, ComGoto, CommunicationTypeOK
  <2>4. StoreBound'
    BY <1>4, <1>12
    DEF ComStorePixel, PacketReceived, ComReady, ComGoto, StoreBound, SlotFull
  <2> QED
    BY <1>3, <1>12, <2>2, <2>3, <2>4 DEF ComStorePixel
<1>13. CASE ComRelease
  <2>1. pmem' \in [PacketAddr -> Word] /\ pmem'[ComOpflag] = 0
    BY <1>2, <1>6, <1>13, PacketWriteType DEF ComRelease
  <2>2. SlotFull /\ line > 0 /\ memory_idx <= 16 + 4 * (line - 1)
    BY <1>13 DEF ComRelease, PacketReceived, ComReady, StoreBound
  <2>3. line <= Len(Lines)
    BY <1>1 DEF GeneratorTypeOK
  <2>4. memory_idx' \in {16 + 4 * n : n \in 0..Len(Lines)}
    <3>1. CASE memory_idx' = memory_idx
      BY <3>1 DEF CommunicationTypeOK
    <3>2. CASE memory_idx' = memory_idx + 4
      <4>1. PICK n \in 0..Len(Lines) : memory_idx = 16 + 4 * n
        BY DEF CommunicationTypeOK
      <4>2. n + 1 \in 0..Len(Lines) /\ memory_idx' = 16 + 4 * (n + 1)
        BY <1>1, <1>7, <2>2, <2>3, <3>2, <4>1
      <4> QED
        BY <4>2
    <3> QED
      BY <1>13, <3>1, <3>2 DEF ComRelease
  <2>5. CommunicationTypeOK' /\ KernelTypeOK' /\ MemTypeOK'
    BY <1>1, <1>5, <1>13, <2>4
    DEF ComRelease, ComGoto, CommunicationTypeOK, MemTypeOK
  <2>6. memory_idx' <= 16 + 4 * line
    BY <1>7, <1>13, <2>2 DEF ComRelease
  <2>7. genPc \notin {"start", "send"} /\ comPc' = "ack" /\ ~SlotFull'
    BY <1>4, <1>13, <2>1, <2>2
    DEF ComRelease, ComGoto, StoreBound, SlotFull
  <2>8. StoreBound'
    BY <1>4, <2>6, <2>7 DEF StoreBound
  <2> QED
    BY <1>3, <2>1, <2>5, <2>8
<1>14. CASE ComSaveBegin
  <2>1. MemTypeOK'
    BY <1>2, <1>14, DirectWriteType DEF ComSaveBegin, ComMemoryBegin
  <2>2. CommunicationTypeOK' /\ KernelTypeOK'
    BY <1>1, <1>5, <1>14 DEF ComSaveBegin, ComGoto, CommunicationTypeOK
  <2>3. genPc # "start"
    BY <1>14 DEF ComSaveBegin, ComReady, Ready, StoreBound
  <2>4. StoreBound'
    BY <1>4, <1>14, <2>3
    DEF ComSaveBegin, ComReady, ComGoto, StoreBound, SlotFull
  <2> QED
    BY <1>3, <1>14, <2>1, <2>2, <2>4 DEF ComSaveBegin
<1>15. CASE ComSaveEnd
  <2>1. MemTypeOK'
    BY <1>7, <1>15, DirectWriteType DEF ComSaveEnd
  <2>2. CommunicationTypeOK' /\ KernelTypeOK'
    BY <1>1, <1>5, <1>15 DEF ComSaveEnd, ComGoto, CommunicationTypeOK
  <2>3. StoreBound'
    BY <1>4, <1>15 DEF ComSaveEnd, ComReady, ComGoto, StoreBound, SlotFull
  <2> QED
    BY <1>3, <1>15, <2>1, <2>2, <2>3 DEF ComSaveEnd
<1>16. CASE ComStartCrypto
  <2>1. MemTypeOK'
    BY <1>2, <1>16, DirectWriteType DEF ComStartCrypto
  <2>2. CommunicationTypeOK' /\ KernelTypeOK'
    BY <1>1, <1>5, <1>16 DEF ComStartCrypto, ComGoto, CommunicationTypeOK
  <2>3. StoreBound'
    BY <1>4, <1>16
    DEF ComStartCrypto, ComReady, ComGoto, StoreBound, SlotFull
  <2> QED
    BY <1>3, <1>16, <2>1, <2>2, <2>3 DEF ComStartCrypto
<1>17. CASE ComClearEnd
  <2>1. pmem' \in [PacketAddr -> Word] /\ pmem'[ComOpflag] = pmem[ComOpflag]
    BY <1>2, <1>6, <1>17, PacketWriteType DEF ComClearEnd
  <2>2. CommunicationTypeOK' /\ KernelTypeOK' /\ MemTypeOK'
    BY <1>1, <1>2, <1>5, <1>17
    DEF ComClearEnd, ComGoto, CommunicationTypeOK, MemTypeOK
  <2>3. StoreBound'
    BY <1>4, <1>17, <2>1
    DEF ComClearEnd, ComReady, ComGoto, StoreBound, SlotFull
  <2> QED
    BY <1>3, <2>1, <2>2, <2>3
<1> QED
  BY <1>8, <1>9, <1>10, <1>11, <1>12, <1>13, <1>14, <1>15, <1>16, <1>17
  DEF CommunicationStep, ComNext

-----------------------------------------------------------------------------
(* The encryption module.  It leaves everything StoreBound and GpuBounds   *)
(* speak of alone, but for its own delay.                                  *)

\* Every step of the encryption module preserves it.
LEMMA EncryptionKeepsType ==
    ASSUME TypeInv, EncryptionStep
    PROVE  TypeInv'
<1> USE DEF TypeInv, TypeOK
<1>1. Timeout \in Nat \ {0} /\ {0, 1, 24} \subseteq Word /\ Word \subseteq Int
  BY WiringAssumption, WordAssumption, WordSizeType
<1>2. PICK pc : EncGoto(pc)
  BY DEF EncryptionStep, EncNext, EncPoll, EncAcknowledge, EncReadBegin,
         EncReadEnd, EncReadWord, EncWriteWord, EncStartGpu, EncSaveBase
<1>3. KernelTypeOK' /\ UNCHANGED <<delay["generator"], delay["communication"]>>
  <2>1. KernelTypeOK'
    BY <1>1, <1>2, WaitType DEF EncGoto, Thread
  <2>2. UNCHANGED <<delay["generator"], delay["communication"]>>
    BY <1>2 DEF EncGoto, Wait, KernelTypeOK, Thread
  <2> QED
    BY <2>1, <2>2
<1>4. pmem' \in [PacketAddr -> Word] /\ GeneratorTypeOK' /\ CommunicationTypeOK'
  BY DEF EncryptionStep, GeneratorTypeOK, CommunicationTypeOK, genVars, comVars
<1>5. StoreBound'
  BY <1>3 DEF EncryptionStep, StoreBound, SlotFull, genVars, comVars
<1>6. GpuTypeOK' /\ GpuBounds'
  BY DEF EncryptionStep, GpuTypeOK, GpuBounds, gpuVars, Size
<1>7. \A a : DirectRead(a, control) \in Word /\ DirectRead(a, mydata) \in Word
             /\ DirectRead(a, read_start) \in Word
             /\ DirectRead(a, read_end) \in Word
  BY DirectReadType DEF EncryptionTypeOK
<1>8. KeyState \in Rc4State
  BY KeyScheduleType DEF KeyState, EncryptionTypeOK
<1>9. MemTypeOK' /\ EncryptionTypeOK'
  <2>1. CASE EncPoll
    BY <1>7, <2>1 DEF EncPoll, EncGoto, EncryptionTypeOK, MemTypeOK
  <2>2. CASE EncAcknowledge
    BY <1>1, <2>2, DirectWriteType DEF EncAcknowledge, EncGoto, EncryptionTypeOK
  <2>3. CASE EncReadBegin
    BY <1>7, <2>3 DEF EncReadBegin, EncGoto, EncryptionTypeOK, MemTypeOK
  <2>4. CASE EncReadEnd
    BY <1>7, <2>4 DEF EncReadEnd, EncGoto, EncryptionTypeOK, MemTypeOK
  <2>5. CASE EncReadWord
    <3>1. NextWord \in Int
      BY <1>1 DEF NextWord, EncryptionTypeOK
    <3>2. NextKey(KeyState) \in Rc4State
      BY <1>8, NextKeyType
    <3> QED
      BY <1>7, <2>5, <3>1, <3>2
      DEF EncReadWord, EncGoto, EncryptionTypeOK, MemTypeOK
  <2>6. CASE EncWriteWord
    <3>1. KeyByte(rc4) \in Byte /\ mydata \in Int
      BY <1>1, KeyByteType DEF EncryptionTypeOK
    <3>2. XorWord(mydata, KeyByte(rc4)) \in Word
      BY <3>1, XorWordType
    <3> QED
      BY <2>6, <3>2, DirectWriteType DEF EncWriteWord, EncGoto, EncryptionTypeOK
  <2>7. CASE EncStartGpu
    BY <1>1, <1>8, <2>7, DirectWriteType
    DEF EncStartGpu, EncGoto, EncryptionTypeOK
  <2>8. CASE EncSaveBase
    BY <1>1, <2>8, DirectWriteType DEF EncSaveBase, EncGoto, EncryptionTypeOK
  <2> QED
    BY <2>1, <2>2, <2>3, <2>4, <2>5, <2>6, <2>7, <2>8
    DEF EncryptionStep, EncNext
<1> QED
  BY <1>3, <1>4, <1>5, <1>6, <1>9

-----------------------------------------------------------------------------
(* The GPU. *)

\* The pixel addresses of an image lie below its size.
LEMMA PixelAddrBound ==
    ASSUME NEW wd \in Int, NEW ht \in Int,
           NEW x \in 0..wd - 1, NEW y \in 0..ht - 1
    PROVE  pixelAddr(x, y, wd) \in 0..(wd * ht) - 1
<1>1. x >= 0 /\ y >= 0 /\ wd >= 1 /\ x <= wd - 1 /\ y <= ht - 1
  OBVIOUS
<1>2. y * wd >= 0
  BY <1>1
<1>3. y * wd <= (ht - 1) * wd
  BY <1>1
<1>4. (ht - 1) * wd = (wd * ht) - wd
  OBVIOUS
<1> QED
  BY <1>1, <1>2, <1>3, <1>4 DEF pixelAddr

\* So the rotated buffer holds words of the fetched one, or its old words.
LEMMA RotatedType ==
    ASSUME GpuTypeOK, InBuffers
    PROVE  Rotated \in [Cell -> Word]
<1> DEFINE P == (0..width - 1) \X (0..height - 1)
           T(p) == pixelAddr(height - 1 - p[2], p[1], height)
<1>1. width \in Int /\ height \in Int /\ ImageMaxSize \in Nat
  BY WordSizeType, WiringAssumption DEF GpuTypeOK
<1>2. ASSUME NEW p \in P
      PROVE  bufferA[pixelAddr(p[1], p[2], width)] \in Word
  <2>1. p[1] \in 0..width - 1 /\ p[2] \in 0..height - 1
    OBVIOUS
  <2>2. pixelAddr(p[1], p[2], width) \in 0..(width * height) - 1
    BY <1>1, <2>1, PixelAddrBound
  <2>3. pixelAddr(p[1], p[2], width) \in Cell
    BY <1>1, <2>1, <2>2 DEF Cell, InBuffers
  <2> QED
    BY <2>3 DEF GpuTypeOK
<1>3. ASSUME NEW n \in Cell
      PROVE  (IF \E p \in P : T(p) = n
                THEN LET p == CHOOSE p \in P : T(p) = n
                     IN  bufferA[pixelAddr(p[1], p[2], width)]
                ELSE bufferB[n]) \in Word
  <2>1. CASE \E p \in P : T(p) = n
    <3>1. (CHOOSE p \in P : T(p) = n) \in P
      BY <2>1
    <3> HIDE DEF P, T
    <3> QED
      BY <1>2, <2>1, <3>1
  <2>2. CASE ~\E p \in P : T(p) = n
    <3> HIDE DEF P, T
    <3> QED
      BY <2>2 DEF GpuTypeOK
  <2> QED
    BY <2>1, <2>2
<1> QED
  BY <1>3 DEF Rotated

\* Every step of the GPU preserves it.
LEMMA GpuKeepsType ==
    ASSUME TypeInv, GpuStep
    PROVE  TypeInv'
<1> USE DEF TypeInv, TypeOK
<1>1. /\ Timeout \in Nat \ {0} /\ ImageMaxSize \in Nat
      /\ {0, 1} \subseteq Word /\ Word \subseteq Int
  BY WiringAssumption, WordAssumption, WordSizeType
<1>2. PICK pc : GpuGoto(pc)
  BY DEF GpuStep, GpuNext, GpuPoll, GpuReadBase, GpuReadWidth, GpuReadHeight,
         GpuFetchPixel, GpuRotate, GpuSaveHeight, GpuWritePixel, GpuStop
<1>3. KernelTypeOK' /\ UNCHANGED <<delay["generator"], delay["communication"]>>
  <2>1. KernelTypeOK'
    BY <1>1, <1>2, WaitType DEF GpuGoto, Thread
  <2>2. UNCHANGED <<delay["generator"], delay["communication"]>>
    BY <1>2 DEF GpuGoto, Wait, KernelTypeOK, Thread
  <2> QED
    BY <2>1, <2>2
<1>4. pmem' \in [PacketAddr -> Word] /\ GeneratorTypeOK' /\ CommunicationTypeOK'
  BY DEF GpuStep, GeneratorTypeOK, CommunicationTypeOK, genVars, comVars
<1>5. StoreBound'
  BY <1>3 DEF GpuStep, StoreBound, SlotFull, genVars, comVars
<1>6. EncryptionTypeOK'
  BY DEF GpuStep, EncryptionTypeOK, encVars
<1>7. \A a : DirectRead(a, start) \in Word /\ DirectRead(a, rd_addr) \in Word
             /\ DirectRead(a, width) \in Word /\ DirectRead(a, height) \in Word
  BY DirectReadType DEF GpuTypeOK
<1>8. \A pc1 : NextIndex(pc1) \in Nat
  BY DEF NextIndex, GpuBounds
<1>9. MemTypeOK' /\ GpuTypeOK' /\ GpuBounds'
  <2>1. CASE GpuPoll
    BY <1>7, <2>1 DEF GpuPoll, GpuGoto, GpuTypeOK, GpuBounds, MemTypeOK
  <2>2. CASE GpuReadBase
    BY <1>7, <2>2 DEF GpuReadBase, GpuGoto, GpuTypeOK, GpuBounds, MemTypeOK
  <2>3. CASE GpuReadWidth
    BY <1>7, <2>3 DEF GpuReadWidth, GpuGoto, GpuTypeOK, GpuBounds, MemTypeOK
  <2>4. CASE GpuReadHeight
    BY <1>7, <2>4 DEF GpuReadHeight, GpuGoto, GpuTypeOK, GpuBounds, MemTypeOK
  <2>5. CASE GpuFetchPixel
    <3>1. bufferA' \in [Cell -> Word]
      <4>1. \A n \in Cell : DirectRead(rd_addr + 4 * k', bufferA[n]) \in Word
        BY DirectReadType DEF GpuTypeOK
      <4> QED
        BY <2>5, <4>1 DEF GpuFetchPixel, GpuTypeOK
    <3>2. Size <= ImageMaxSize /\ UNCHANGED Size /\ k' \in Nat
      BY <1>8, <2>5 DEF GpuFetchPixel, GpuReady, GpuBounds, Size
    <3> QED
      BY <2>5, <3>1, <3>2
      DEF GpuFetchPixel, GpuGoto, GpuTypeOK, GpuBounds, MemTypeOK
  <2>6. CASE GpuRotate
    <3>1. Size <= ImageMaxSize /\ UNCHANGED Size
      BY <2>6 DEF GpuRotate, GpuReady, GpuBounds, Size
    <3>2. bufferB' \in [Cell -> Word]
      BY <2>6, RotatedType DEF GpuRotate
    <3>3. i' \in Int
      BY <1>1, <2>6 DEF GpuRotate, GpuTypeOK
    <3>4. MemTypeOK'
      BY <2>6, DirectWriteType DEF GpuRotate, GpuTypeOK
    <3> QED
      BY <2>6, <3>1, <3>2, <3>3, <3>4
      DEF GpuRotate, GpuGoto, GpuTypeOK, GpuBounds
  <2>7. CASE GpuSaveHeight
    <3>1. MemTypeOK'
      BY <2>7, DirectWriteType DEF GpuSaveHeight, GpuTypeOK
    <3> QED
      BY <2>7, <3>1
      DEF GpuSaveHeight, GpuReady, GpuGoto, GpuTypeOK, GpuBounds, Size
  <2>8. CASE GpuWritePixel
    <3>1. k' \in Nat /\ k' < Size /\ Size <= ImageMaxSize /\ UNCHANGED Size
      BY <1>8, <2>8 DEF GpuWritePixel, GpuReady, GpuBounds, Size
    <3>2. Size \in Int
      <4>1. width * height \in Int
        BY <1>1 DEF GpuTypeOK
      <4> QED
        BY <1>1, <4>1, WrapType DEF Size
    <3>3. bufferB[k'] \in Word
      BY <1>1, <3>1, <3>2 DEF GpuTypeOK, Cell
    <3>4. MemTypeOK'
      BY <2>8, <3>3, DirectWriteType DEF GpuWritePixel
    <3> QED
      BY <2>8, <3>1, <3>4 DEF GpuWritePixel, GpuGoto, GpuTypeOK, GpuBounds
  <2>9. CASE GpuStop
    <3>1. MemTypeOK'
      BY <1>1, <2>9, DirectWriteType DEF GpuStop
    <3> QED
      BY <2>9, <3>1 DEF GpuStop, GpuGoto, GpuTypeOK, GpuBounds
  <2> QED
    BY <2>1, <2>2, <2>3, <2>4, <2>5, <2>6, <2>7, <2>8, <2>9
    DEF GpuStep, GpuNext
<1> QED
  BY <1>3, <1>4, <1>5, <1>6, <1>9

-----------------------------------------------------------------------------
(* Time, the initial states, and the theorem. *)

\* The passing of time preserves it.
LEMMA TimeKeepsType ==
    ASSUME TypeInv, TimeStep
    PROVE  TypeInv'
<1> USE DEF TypeInv, TypeOK
<1>1. KernelTypeOK'
  BY AdvanceType DEF TimeStep
<1>2. /\ MemTypeOK' /\ pmem' \in [PacketAddr -> Word] /\ GeneratorTypeOK'
      /\ CommunicationTypeOK' /\ EncryptionTypeOK' /\ GpuTypeOK' /\ GpuBounds'
  BY DEF TimeStep, MemTypeOK, GeneratorTypeOK, CommunicationTypeOK,
         EncryptionTypeOK, GpuTypeOK, GpuBounds, genVars, comVars, encVars,
         gpuVars, Size
<1>3. delay["generator"] # 0
  BY DEF TimeStep, Advance, KernelTypeOK, Thread
<1>4. StoreBound'
  BY <1>3 DEF TimeStep, StoreBound, SlotFull, genVars, comVars
<1> QED
  BY <1>1, <1>2, <1>4

\* The strengthened invariant holds when the simulation starts.
LEMMA InitType == Init => TypeInv
<1> SUFFICES ASSUME Init PROVE TypeInv
  OBVIOUS
<1> USE DEF Init
<1>1. /\ {0, 1} \subseteq Word /\ FreshMem \subseteq Word
      /\ PacketWords \in Nat /\ Len(Lines) \in Nat
  BY WordAssumption, WordSizeType, FreshMemAssumption, WiringAssumption,
     LinesAssumption
  DEF PacketWords
<1>2. 0 \in Byte
  BY ByteAssumption DEF Byte
<1>3. KernelTypeOK /\ MemTypeOK /\ pmem \in [PacketAddr -> Word]
  BY <1>1 DEF KernelInit, KernelTypeOK, MemInit, MemTypeOK, PacketMemInit
<1>4. GeneratorTypeOK /\ EncryptionTypeOK /\ GpuTypeOK
  BY <1>1, <1>2 DEF GeneratorInit, GeneratorTypeOK, EncryptionInit,
                    EncryptionTypeOK, Rc4State, GpuInit, GpuTypeOK
<1>5. CommunicationTypeOK
  <2>1. 16 = 16 + 4 * 0 /\ 0 \in 0..Len(Lines)
    BY <1>1
  <2>2. <<>> \in Seq(Word) /\ Len(<<>>) <= PacketWords
    BY <1>1
  <2> QED
    BY <1>1, <2>1, <2>2 DEF CommunicationInit, CommunicationTypeOK
<1>6. StoreBound /\ GpuBounds
  BY DEF StoreBound, SlotFull, GpuBounds, GeneratorInit, CommunicationInit,
         GpuInit, KernelInit, Thread
<1> QED
  BY <1>3, <1>4, <1>5, <1>6 DEF TypeInv, TypeOK

\* Every step of the device preserves the strengthened invariant.
LEMMA NextType == TypeInv /\ [Next]_vars => TypeInv'
<1> SUFFICES ASSUME TypeInv, [Next]_vars PROVE TypeInv'
  OBVIOUS
<1>1. CASE UNCHANGED vars
  BY <1>1 DEF TypeInv, TypeOK, KernelTypeOK, MemTypeOK, GeneratorTypeOK,
              CommunicationTypeOK, EncryptionTypeOK, GpuTypeOK, StoreBound,
              SlotFull, GpuBounds, Size, vars, genVars, comVars, encVars, gpuVars
<1> QED
  BY <1>1, GeneratorKeepsType, CommunicationKeepsType, EncryptionKeepsType,
     GpuKeepsType, TimeKeepsType DEF Next

\* The strengthened invariant holds in every reachable state.
THEOREM TypeInvariance == Spec => []TypeInv
BY InitType, NextType, PTL DEF Spec

(***************************************************************************)
(* Type correctness, for every file, packet length, period, memory size    *)
(* and initial content of the packet memory: no packet outgrows its words, *)
(* no more pixels are stored than there are lines, and the GPU's rotation  *)
(* and write-back read no pixel outside its buffers.                       *)
(***************************************************************************)
THEOREM TypeCorrect == Spec => []TypeOK
BY TypeInvariance, PTL DEF TypeInv
=============================================================================
