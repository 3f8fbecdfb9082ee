------------------------ MODULE PacketTransferProofs ------------------------
(***************************************************************************)
(* The transfer of a packet delivers the words of one line, the two        *)
(* threads implement the one-slot channel, and an image is announced only  *)
(* when it is complete.  None of it needs the timing: the proofs hold for  *)
(* any order of the threads' steps, because the flags alone keep them      *)
(* apart.                                                                  *)
(***************************************************************************)
EXTENDS TypeProofs

\* The first m words of the packet memory are those of the current line.
Written(m) ==
    \A n \in 1..m : pmem[WordAddr(n)] = Stream(Lines[line])[n]

LinkInv ==
    /\ SlotFull => Written(PacketWords)
    /\ genPc = "send" => sent \in 1..PacketWords /\ Written(sent)
    /\ PacketIntegrity
    /\ comPc = "store" => Len(packet) = PacketWords /\ CheckCrc(packet)
    /\ comPc \notin {"receive", "store", "ack"} => packet = <<>>

-----------------------------------------------------------------------------

\* Words at different positions have different addresses.
LEMMA WordAddrInjective ==
    \A m, n \in Nat : m # n => WordAddr(m) # WordAddr(n)
BY DEF WordAddr, ComMemoryBegin

\* No word of the packet memory changes: what was written stays written.
LEMMA WrittenStays ==
    ASSUME NEW m, Written(m), UNCHANGED line,
           \A n \in 1..m : pmem'[WordAddr(n)] = pmem[WordAddr(n)]
    PROVE  Written(m)'
BY DEF Written

\* No word of a packet lies on the end flag.
LEMMA WordIsNotEndFlag ==
    \A n \in 1..PacketWords : WordAddr(n) # ComEndOpflag
BY WiringAssumption DEF WordAddr, ComMemoryBegin, ComEndOpflag, PacketWords

\* A write to one of the flags leaves the words of the packet alone.
LEMMA FlagWriteKeepsWords ==
    ASSUME pmem \in [PacketAddr -> Word], NEW v \in Word,
           NEW a \in {ComOpflag, ComEndOpflag}, PacketWrite(a, v)
    PROVE  \A n \in 1..PacketWords : pmem'[WordAddr(n)] = pmem[WordAddr(n)]
BY PacketAddrType, PacketWriteType, WordIsNotFlag, WordIsNotEndFlag

-----------------------------------------------------------------------------

\* The generator touches the words of a packet only while the slot is empty.
LEMMA GeneratorKeepsLink ==
    ASSUME TypeInv, LinkInv, GeneratorStep
    PROVE  LinkInv'
<1> USE DEF TypeInv, TypeOK
<1>1. /\ PacketWords \in Nat \ {0} /\ Len(Lines) \in Nat
      /\ {0, 1} \subseteq Word /\ line \in Nat /\ sent \in 0..PacketWords
  BY WiringAssumption, LinesAssumption, WordAssumption
  DEF PacketWords, GeneratorTypeOK
<1>2. UNCHANGED <<comPc, packet>>
  BY DEF GeneratorStep, comVars
<1>3. (comPc = "store" => Len(packet) = PacketWords /\ CheckCrc(packet))'
  BY <1>2 DEF LinkInv, CheckCrc
<1>4. (comPc \notin {"receive", "store", "ack"} => packet = <<>>)'
  BY <1>2 DEF LinkInv
<1>5. UNCHANGED line => PacketIntegrity'
  BY <1>2 DEF LinkInv, PacketIntegrity
<1>6. CASE GenStart
  <2>1. ~SlotFull' /\ genPc' # "send" /\ UNCHANGED line
    BY <1>1, <1>6, PacketAddrType, PacketWriteType
    DEF GenStart, GenGoto, SlotFull
  <2> QED
    BY <1>3, <1>4, <1>5, <2>1 DEF LinkInv
<1>7. CASE GenPoll
  <2>1. (SlotFull' => SlotFull) /\ genPc' # "send" /\ UNCHANGED <<line, pmem>>
    BY <1>7 DEF GenPoll, GenReady, GenGoto, SlotFull
  <2>2. (SlotFull => Written(PacketWords))'
    BY <2>1 DEF LinkInv, Written
  <2> QED
    BY <1>3, <1>4, <1>5, <2>1, <2>2 DEF LinkInv
<1>8. CASE GenReadEndFlag
  <2>1. ~SlotFull' /\ genPc' # "send" /\ UNCHANGED line
    BY <1>8 DEF GenReadEndFlag, GenReady, GenGoto, StoreBound, SlotFull
  <2> QED
    BY <1>3, <1>4, <1>5, <2>1 DEF LinkInv
<1>9. CASE GenSignalEnd
  <2>1. pmem'[ComOpflag] = pmem[ComOpflag]
    BY <1>1, <1>9, PacketAddrType, PacketWriteType
    DEF GenSignalEnd, ComOpflag, ComEndOpflag
  <2>2. ~SlotFull' /\ genPc' # "send" /\ UNCHANGED line
    BY <1>9, <2>1 DEF GenSignalEnd, GenReady, GenGoto, StoreBound, SlotFull
  <2> QED
    BY <1>3, <1>4, <1>5, <2>2 DEF LinkInv
<1>10. CASE GenTakeLine
  <2>1. 1 \in 1..PacketWords /\ line + 1 \in 1..Len(Lines)
    BY <1>1, <1>10 DEF GenTakeLine, FileEmpty, GeneratorTypeOK
  <2>2. /\ WordAddr(1) \in PacketAddr /\ WordAddr(1) # ComOpflag
        /\ Stream(Lines[line + 1])[1] \in Word
    BY <2>1, PacketAddrType, WordIsNotFlag, StreamType
  <2>3. /\ pmem'[WordAddr(1)] = Stream(Lines[line + 1])[1]
        /\ pmem'[ComOpflag] = pmem[ComOpflag]
    BY <1>10, <2>2, PacketAddrType, PacketWriteType DEF GenTakeLine
  <2>4. ~SlotFull /\ ~SlotFull'
    BY <1>10, <2>3 DEF GenTakeLine, GenReady, GenGoto, StoreBound, SlotFull
  <2>5. (genPc = "send" => sent \in 1..PacketWords /\ Written(sent))'
    BY <1>10, <2>1, <2>3 DEF GenTakeLine, Written
  <2>6. comPc \notin {"receive", "store"}
    BY <2>4 DEF StoreBound
  <2>7. PacketIntegrity'
    BY <1>2, <2>6 DEF PacketIntegrity
  <2> QED
    BY <1>3, <1>4, <2>4, <2>5, <2>7 DEF LinkInv
<1>11. CASE GenSendWord
  <2>1. /\ sent + 1 \in 1..PacketWords /\ line \in 1..Len(Lines)
        /\ genPc = "send" /\ sent' = sent + 1 /\ UNCHANGED line
    BY <1>1, <1>11
    DEF GenSendWord, GenReady, GeneratorTypeOK, StoreBound
  <2>2. /\ WordAddr(sent + 1) \in PacketAddr
        /\ WordAddr(sent + 1) # ComOpflag
        /\ Stream(Lines[line])[sent + 1] \in Word
    BY <2>1, PacketAddrType, WordIsNotFlag, StreamType
  <2>3. /\ pmem'[WordAddr(sent + 1)] = Stream(Lines[line])[sent + 1]
        /\ \A b \in PacketAddr :
              b # WordAddr(sent + 1) => pmem'[b] = pmem[b]
    BY <1>11, <2>2, PacketWriteType DEF GenSendWord
  <2>4. ~SlotFull'
    <3>1. pmem'[ComOpflag] = pmem[ComOpflag]
      BY <2>2, <2>3, PacketAddrType
    <3> QED
      BY <2>1, <3>1 DEF StoreBound, SlotFull
  <2>5. Written(sent)'
    <3> SUFFICES ASSUME NEW n \in 1..sent'
                 PROVE  pmem'[WordAddr(n)] = Stream(Lines[line])[n]
      BY <2>1 DEF Written
    <3>1. CASE n = sent + 1
      BY <2>3, <3>1
    <3>2. CASE n \in 1..sent
      <4>1. n \in 1..PacketWords /\ WordAddr(n) # WordAddr(sent + 1)
        BY <1>1, <3>2, WordAddrInjective
      <4>2. pmem'[WordAddr(n)] = pmem[WordAddr(n)]
        BY <2>3, <4>1, PacketAddrType
      <4> QED
        BY <2>1, <3>2, <4>2 DEF LinkInv, Written
    <3> QED
      BY <1>1, <2>1, <3>1, <3>2
  <2>6. (genPc = "send" => sent \in 1..PacketWords /\ Written(sent))'
    BY <2>1, <2>5
  <2> QED
    BY <1>3, <1>4, <1>5, <2>1, <2>4, <2>6 DEF LinkInv
<1>12. CASE GenRaiseFlag
  <2>1. /\ genPc = "send" /\ sent = PacketWords /\ genPc' # "send"
        /\ UNCHANGED line
    BY <1>12 DEF GenRaiseFlag, GenReady, GenGoto
  <2>2. Written(PacketWords)
    BY <2>1 DEF LinkInv
  <2>3. \A n \in 1..PacketWords : pmem'[WordAddr(n)] = pmem[WordAddr(n)]
    BY <1>1, <1>12, FlagWriteKeepsWords DEF GenRaiseFlag
  <2>4. Written(PacketWords)'
    BY <2>1, <2>2, <2>3 DEF Written
  <2> QED
    BY <1>3, <1>4, <1>5, <2>1, <2>4 DEF LinkInv
<1> QED
  BY <1>6, <1>7, <1>8, <1>9, <1>10, <1>11, <1>12 DEF GeneratorStep, GenNext

\* The communication module reads the words only while the slot is full.
LEMMA CommunicationKeepsLink ==
    ASSUME TypeInv, LinkInv, CommunicationStep
    PROVE  LinkInv'
<1> USE DEF TypeInv, TypeOK
<1>1. /\ PacketWords \in Nat \ {0} /\ {0, 1} \subseteq Word
      /\ packet \in Seq(Word) /\ Len(packet) \in Nat
  BY WiringAssumption, WordAssumption DEF PacketWords, CommunicationTypeOK
<1>2. UNCHANGED <<genPc, line, sent>>
  BY DEF CommunicationStep, genVars
<1>3. ASSUME \A n \in 1..PacketWords : pmem'[WordAddr(n)] = pmem[WordAddr(n)],
             SlotFull' => SlotFull
      PROVE  /\ (SlotFull => Written(PacketWords))'
             /\ (genPc = "send" => sent \in 1..PacketWords /\ Written(sent))'
  <2>1. \A m \in 0..PacketWords : Written(m) => Written(m)'
    BY <1>1, <1>2, <1>3 DEF Written
  <2> QED
    BY <1>1, <1>2, <1>3, <2>1 DEF LinkInv
<1>4. pmem' = pmem => /\ SlotFull' => SlotFull
                      /\ \A n \in 1..PacketWords :
                            pmem'[WordAddr(n)] = pmem[WordAddr(n)]
  BY <1>2 DEF SlotFull
<1>5. ASSUME comPc' \notin {"receive", "store", "ack"}, packet' = <<>>
      PROVE  /\ PacketIntegrity'
             /\ (comPc = "store" => Len(packet) = PacketWords /\ CheckCrc(packet))'
             /\ (comPc \notin {"receive", "store", "ack"} => packet = <<>>)'
  BY <1>5 DEF PacketIntegrity
<1>6. CASE ComStart \/ ComPoll \/ ComReadOpflag
           \/ ComSaveBegin \/ ComSaveEnd \/ ComStartCrypto
  <2>1. pmem' = pmem
    BY <1>6 DEF ComStart, ComPoll, ComReadOpflag, ComSaveBegin, ComSaveEnd,
                ComStartCrypto
  <2>2. comPc' \notin {"receive", "store", "ack"} /\ packet' = <<>>
    BY <1>6 DEF ComStart, ComPoll, ComReadOpflag, ComSaveBegin, ComSaveEnd,
                ComStartCrypto, ComReady, ComGoto, LinkInv
  <2> QED
    BY <1>3, <1>4, <1>5, <2>1, <2>2 DEF LinkInv
<1>7. CASE ComReceiveWord
  <2>1. SlotFull /\ Written(PacketWords)
    BY <1>7 DEF ComReceiveWord, ComReady, StoreBound, LinkInv
  <2>2. \A n \in 1..Len(packet) : packet[n] = Stream(Lines[line])[n]
    BY <1>1, <1>7
    DEF ComReceiveWord, ComReady, LinkInv, PacketIntegrity
  <2>3. /\ Len(packet) + 1 \in 1..PacketWords
        /\ packet' = Append(packet, Stream(Lines[line])[Len(packet) + 1])
    BY <1>1, <1>7, <2>1 DEF ComReceiveWord, Written
  <2>4. \A n \in 1..Len(packet') : packet'[n] = Stream(Lines[line])[n]
    BY <1>1, <2>2, <2>3
  <2>5. comPc' = "receive" /\ pmem' = pmem
    BY <1>7 DEF ComReceiveWord, ComGoto
  <2>6. PacketIntegrity'
    BY <1>2, <2>4 DEF PacketIntegrity
  <2> QED
    BY <1>3, <1>4, <2>5, <2>6 DEF LinkInv
<1>8. CASE ComStorePixel
  <2>1. /\ comPc = "receive" /\ comPc' = "store" /\ UNCHANGED <<packet, pmem>>
        /\ Len(packet) = PacketWords /\ CheckCrc(packet)
    BY <1>8 DEF ComStorePixel, PacketReceived, ComReady, ComGoto
  <2>2. PacketIntegrity' /\ CheckCrc(packet)'
    BY <1>2, <2>1 DEF PacketIntegrity, LinkInv, CheckCrc
  <2> QED
    BY <1>3, <1>4, <2>1, <2>2 DEF LinkInv
<1>9. CASE ComRelease
  <2>1. \A n \in 1..PacketWords : pmem'[WordAddr(n)] = pmem[WordAddr(n)]
    BY <1>1, <1>9, FlagWriteKeepsWords DEF ComRelease
  <2>2. comPc' = "ack" /\ ~SlotFull'
    BY <1>1, <1>9, PacketAddrType, PacketWriteType
    DEF ComRelease, ComGoto, SlotFull
  <2> QED
    BY <1>3, <2>1, <2>2 DEF LinkInv, PacketIntegrity
<1>10. CASE ComClearEnd
  <2>1. \A n \in 1..PacketWords : pmem'[WordAddr(n)] = pmem[WordAddr(n)]
    BY <1>1, <1>10, FlagWriteKeepsWords DEF ComClearEnd
  <2>2. SlotFull' => SlotFull
    BY <1>1, <1>2, <1>10, PacketAddrType, PacketWriteType
    DEF ComClearEnd, SlotFull, ComOpflag, ComEndOpflag
  <2>3. comPc' = "finish" /\ packet' = <<>>
    BY <1>10 DEF ComClearEnd, ComReady, ComGoto, LinkInv
  <2> QED
    BY <1>3, <1>5, <2>1, <2>2, <2>3 DEF LinkInv
<1> QED
  BY <1>6, <1>7, <1>8, <1>9, <1>10 DEF CommunicationStep, ComNext

\* When the simulation starts the slot counts as empty.
LEMMA InitLink == Init => LinkInv
BY DEF Init, LinkInv, SlotFull, PacketIntegrity, GeneratorInit, CommunicationInit

\* The other steps leave everything LinkInv speaks of alone.
LEMMA OthersKeepLink ==
    ASSUME LinkInv, UNCHANGED <<pmem, genVars, comVars>>
    PROVE  LinkInv'
BY DEF LinkInv, SlotFull, Written, PacketIntegrity, CheckCrc, genVars, comVars

\* Every step of the device preserves LinkInv.
LEMMA NextLink == TypeInv /\ LinkInv /\ [Next]_vars => LinkInv'
<1> SUFFICES ASSUME TypeInv, LinkInv, [Next]_vars PROVE LinkInv'
  OBVIOUS
<1>1. CASE EncryptionStep \/ GpuStep \/ TimeStep \/ UNCHANGED vars
  <2>1. UNCHANGED <<pmem, genVars, comVars>>
    BY <1>1 DEF EncryptionStep, GpuStep, TimeStep, vars
  <2> QED
    BY <2>1, OthersKeepLink
<1> QED
  BY <1>1, GeneratorKeepsLink, CommunicationKeepsLink DEF Next

\* LinkInv holds in every reachable state.
THEOREM LinkInvariance == Spec => []LinkInv
BY InitLink, NextLink, TypeInvariance, PTL DEF Spec

(***************************************************************************)
(* Packet integrity, for every file, packet length and initial content of  *)
(* the packet memory: the communication module never mixes the words of    *)
(* two packets and never reads a word before the generator wrote it.       *)
(***************************************************************************)
THEOREM PacketIntegrityHolds == Spec => []PacketIntegrity
BY LinkInvariance, PTL DEF LinkInv

-----------------------------------------------------------------------------
(* The two threads implement the channel. *)

\* The words of a line, anywhere in a memory m, decode to the line.
LEMMA WordsDecode ==
    ASSUME NEW l \in Line, NEW m,
           \A n \in 1..PacketWords : m[WordAddr(n)] = Stream(l)[n]
    PROVE  l = [crc   |-> [n \in 1..CrcWords |-> m[WordAddr(n)]],
                pixel |-> m[WordAddr(PacketWords)]]
<1>1. CrcWords \in Nat /\ PacketWords = CrcWords + 1
  BY WiringAssumption DEF PacketWords
<1>2. \A n \in 1..CrcWords : m[WordAddr(n)] = l.crc[n]
  BY <1>1 DEF Stream
<1>3. m[WordAddr(PacketWords)] = l.pixel
  BY <1>1 DEF Stream
<1>4. [n \in 1..CrcWords |-> m[WordAddr(n)]] = l.crc
  BY <1>2 DEF Line
<1> QED
  BY <1>3, <1>4 DEF Line

\* A full slot decodes to the line the generator sent last.
LEMMA SlotIsLine ==
    ASSUME TypeInv, LinkInv, SlotFull
    PROVE  Lines[line] \in Line /\ DecodedLine = Lines[line]
<1>1. Lines[line] \in Line
  BY LinesAssumption DEF TypeInv, TypeOK, GeneratorTypeOK, StoreBound
<1> QED
  BY <1>1, WordsDecode DEF LinkInv, Written, DecodedLine

\* The check of a complete packet agrees with the validity of its line.
LEMMA CheckIsValid ==
    ASSUME NEW l \in Line,
           NEW pk, \A n \in 1..PacketWords : pk[n] = Stream(l)[n]
    PROVE  CheckCrc(pk) <=> ValidLine(l)
<1>1. CrcWords \in Nat /\ PacketWords = CrcWords + 1
  BY WiringAssumption DEF PacketWords
<1>2. pk[PacketWords] = l.pixel /\ \A n \in 1..CrcWords : pk[n] = l.crc[n]
  BY <1>1 DEF Stream
<1>3. Sha(l.pixel) \in [1..CrcWords -> Word] /\ l.crc \in [1..CrcWords -> Word]
  BY LinesAssumption DEF Line
<1>4. CheckCrc(pk) <=> \A n \in 1..CrcWords : l.crc[n] = Sha(l.pixel)[n]
  BY <1>2 DEF CheckCrc
<1>5. l.crc = Sha(l.pixel) <=> \A n \in 1..CrcWords : l.crc[n] = Sha(l.pixel)[n]
  <2>1. ASSUME NEW f \in [1..CrcWords -> Word], NEW g \in [1..CrcWords -> Word]
        PROVE  f = g <=> \A n \in 1..CrcWords : f[n] = g[n]
    <3>1. /\ f = [n \in 1..CrcWords |-> f[n]]
          /\ g = [n \in 1..CrcWords |-> g[n]]
      OBVIOUS
    <3>2. ASSUME \A n \in 1..CrcWords : f[n] = g[n] PROVE f = g
      BY <3>1, <3>2
    <3> QED
      BY <3>2
  <2> QED
    BY <1>3, <2>1
<1> QED
  BY <1>4, <1>5 DEF ValidLine

-----------------------------------------------------------------------------

\* Initially the channel is empty.
LEMMA InitChannel == Init => Channel!Init
BY DEF Init, GeneratorInit, CommunicationInit, Channel!Init, SlotFull, LinesPut

\* A step that leaves the slot, the count of lines and the image's end as they
\* are is a stuttering step of the channel.
LEMMA Stutter ==
    ASSUME SlotFull' <=> SlotFull,
           SlotFull => UNCHANGED DecodedLine,
           UNCHANGED <<LinesPut, memory_idx>>
    PROVE  UNCHANGED Channel!chanVars
BY DEF Channel!chanVars

\* The slot's content is the words of the packet alone.
LEMMA DecodedStays ==
    ASSUME \A n \in 1..PacketWords : pmem'[WordAddr(n)] = pmem[WordAddr(n)]
    PROVE  UNCHANGED DecodedLine
<1>1. CrcWords \in Nat /\ PacketWords = CrcWords + 1
  BY WiringAssumption DEF PacketWords
<1> QED
  BY <1>1 DEF DecodedLine

\* What one step of the device is for the channel.
ChannelStep == [Channel!Put \/ Channel!Take]_(Channel!chanVars)

\* Of the generator's steps, raising the flag puts a line into the channel.
LEMMA GeneratorIsSender ==
    ASSUME TypeInv, LinkInv, TypeInv', LinkInv', GeneratorStep
    PROVE  ChannelStep
<1>1. /\ PacketWords \in Nat \ {0} /\ {0, 1} \subseteq Word
      /\ line \in Nat /\ Len(Lines) \in Nat
      /\ pmem \in [PacketAddr -> Word]
  BY WiringAssumption, WordAssumption, LinesAssumption
  DEF PacketWords, TypeInv, TypeOK, GeneratorTypeOK
<1>2. UNCHANGED <<comVars, memory_idx>>
  BY DEF GeneratorStep, comVars
<1>3. CASE GenStart
  <2>1. ~SlotFull /\ ~SlotFull'
    BY <1>1, <1>3, PacketAddrType, PacketWriteType
    DEF GenStart, GenReady, GenGoto, SlotFull
  <2>2. genPc # "send" /\ genPc' # "send" /\ UNCHANGED line
    BY <1>3 DEF GenStart, GenReady, GenGoto
  <2> QED
    BY <1>2, <2>1, <2>2, Stutter DEF ChannelStep, LinesPut
<1>4. CASE GenPoll \/ GenReadEndFlag
  <2>1. genPc \notin {"start", "send"} /\ genPc' \notin {"start", "send"}
        /\ UNCHANGED <<line, pmem>>
    BY <1>4 DEF GenPoll, GenReadEndFlag, GenReady, GenGoto
  <2>2. (SlotFull' <=> SlotFull) /\ UNCHANGED DecodedLine
    BY <2>1 DEF SlotFull, DecodedLine
  <2> QED
    BY <1>2, <2>1, <2>2, Stutter DEF ChannelStep, LinesPut
<1>5. CASE GenSignalEnd
  <2>1. /\ genPc = "flags" /\ genPc' = "top" /\ UNCHANGED line
    BY <1>5 DEF GenSignalEnd, GenReady, GenGoto
  <2>2. ~SlotFull /\ pmem'[ComOpflag] = pmem[ComOpflag]
    BY <1>1, <1>5, <2>1, PacketAddrType, PacketWriteType
    DEF GenSignalEnd, ComOpflag, ComEndOpflag, TypeInv, StoreBound
  <2>3. ~SlotFull'
    BY <2>1, <2>2 DEF SlotFull
  <2> QED
    BY <1>2, <2>1, <2>2, <2>3, Stutter DEF ChannelStep, LinesPut
<1>6. CASE GenTakeLine
  <2>1. /\ genPc = "poll" /\ genPc' = "send" /\ flag # 1 /\ flag' # 1
        /\ line' = line + 1
    BY <1>6 DEF GenTakeLine, GenReady, GenGoto
  <2>2. ~SlotFull /\ ~SlotFull'
    BY <2>1 DEF TypeInv, StoreBound
  <2> QED
    BY <1>1, <1>2, <2>1, <2>2, Stutter DEF ChannelStep, LinesPut
<1>7. CASE GenSendWord
  <2>1. genPc = "send" /\ genPc' = "send" /\ UNCHANGED line
    BY <1>7 DEF GenSendWord, GenReady, GenGoto
  <2>2. ~SlotFull /\ ~SlotFull'
    BY <2>1 DEF TypeInv, StoreBound
  <2> QED
    BY <1>2, <2>1, <2>2, Stutter DEF ChannelStep, LinesPut
<1>8. CASE GenRaiseFlag
  <2>1. /\ genPc = "send" /\ genPc' = "top" /\ UNCHANGED line
        /\ PacketWrite(ComOpflag, 1)
    BY <1>8 DEF GenRaiseFlag, GenReady, GenGoto
  <2>2. ~SlotFull /\ SlotFull'
    BY <1>1, <2>1, PacketAddrType, PacketWriteType
    DEF SlotFull, TypeInv, StoreBound
  <2>3. line \in 1..Len(Lines) /\ Lines[line] \in Line
    BY <1>1, <2>1, LinesAssumption
    DEF TypeInv, TypeOK, StoreBound, GeneratorTypeOK
  <2>4. DecodedLine' = Lines[line]
    BY <2>1, <2>2, <2>3, WordsDecode DEF LinkInv, Written, DecodedLine
  <2>5. Channel!Put
    BY <1>1, <1>2, <2>1, <2>2, <2>3, <2>4 DEF Channel!Put, LinesPut
  <2> QED
    BY <2>5 DEF ChannelStep
<1> QED
  BY <1>3, <1>4, <1>5, <1>6, <1>7, <1>8 DEF GeneratorStep, GenNext

\* Of the communication module's steps, clearing the flag takes the line out.
LEMMA CommunicationIsReceiver ==
    ASSUME TypeInv, LinkInv, CommunicationStep
    PROVE  ChannelStep
<1>1. /\ PacketWords \in Nat \ {0} /\ {0, 1} \subseteq Word
      /\ pmem \in [PacketAddr -> Word]
  BY WiringAssumption, WordAssumption DEF PacketWords, TypeInv, TypeOK
<1>2. UNCHANGED <<genPc, line>>
  BY DEF CommunicationStep, genVars
<1>3. CASE UNCHANGED <<pmem, memory_idx>>
  <2>1. (SlotFull' <=> SlotFull) /\ UNCHANGED DecodedLine
    BY <1>2, <1>3 DEF SlotFull, DecodedLine
  <2> QED
    BY <1>2, <1>3, <2>1, Stutter DEF ChannelStep, LinesPut
<1>4. CASE ComClearEnd
  <2>1. pmem'[ComOpflag] = pmem[ComOpflag]
    BY <1>1, <1>4, PacketAddrType, PacketWriteType
    DEF ComClearEnd, ComOpflag, ComEndOpflag
  <2>2. (SlotFull' <=> SlotFull) /\ UNCHANGED memory_idx
    BY <1>2, <1>4, <2>1 DEF SlotFull, ComClearEnd
  <2>3. \A n \in 1..PacketWords : pmem'[WordAddr(n)] = pmem[WordAddr(n)]
    BY <1>1, <1>4, FlagWriteKeepsWords DEF ComClearEnd
  <2> QED
    BY <1>2, <2>2, <2>3, DecodedStays, Stutter DEF ChannelStep, LinesPut
<1>5. CASE ComRelease
  <2>1. SlotFull /\ ~SlotFull'
    BY <1>1, <1>5, PacketAddrType, PacketWriteType
    DEF ComRelease, PacketReceived, ComReady, SlotFull, TypeInv, StoreBound
  <2>2. genPc # "send" /\ DecodedLine = Lines[line] /\ Lines[line] \in Line
    BY <2>1, SlotIsLine DEF TypeInv, StoreBound
  <2>3. Len(packet) = PacketWords
    BY <1>5 DEF ComRelease, PacketReceived, ComReady, LinkInv
  <2>4. CheckCrc(packet) <=> ValidLine(Lines[line])
    <3>1. \A n \in 1..PacketWords : packet[n] = Stream(Lines[line])[n]
      BY <1>5, <2>3
      DEF ComRelease, PacketReceived, ComReady, LinkInv, PacketIntegrity
    <3> QED
      BY <2>2, <3>1, CheckIsValid
  <2>5. memory_idx' = IF ValidLine(DecodedLine) THEN memory_idx + 4
                                                ELSE memory_idx
    BY <1>5, <2>2, <2>4
    DEF ComRelease, PacketReceived, ComReady, LinkInv
  <2>6. Channel!Take
    BY <1>2, <2>1, <2>2, <2>5 DEF Channel!Take, LinesPut
  <2> QED
    BY <2>6 DEF ChannelStep
<1> QED
  BY <1>3, <1>4, <1>5
  DEF CommunicationStep, ComNext, ComStart, ComPoll, ComReadOpflag,
      ComReceiveWord, ComStorePixel, ComSaveBegin, ComSaveEnd, ComStartCrypto

\* Every step of the device is a step of the channel or leaves it alone.
LEMMA NextChannel ==
    TypeInv /\ LinkInv /\ TypeInv' /\ LinkInv' /\ [Next]_vars => ChannelStep
<1> SUFFICES ASSUME TypeInv, LinkInv, TypeInv', LinkInv', [Next]_vars
             PROVE  ChannelStep
  OBVIOUS
<1>1. CASE EncryptionStep \/ GpuStep \/ TimeStep \/ UNCHANGED vars
  <2>1. UNCHANGED <<pmem, genVars, comVars>>
    BY <1>1 DEF EncryptionStep, GpuStep, TimeStep, vars
  <2>2. (SlotFull' <=> SlotFull) /\ UNCHANGED <<genPc, line, memory_idx, DecodedLine>>
    BY <2>1 DEF genVars, comVars, SlotFull, DecodedLine
  <2> QED
    BY <2>2, Stutter DEF ChannelStep, LinesPut
<1> QED
  BY <1>1, GeneratorIsSender, CommunicationIsReceiver DEF Next

(***************************************************************************)
(* The generator and the communication module implement the one-slot       *)
(* channel (the safety part of it): every line of the file is put exactly  *)
(* once and in order, none is overwritten before it was taken, and the     *)
(* image grows by a word exactly when the line taken has the right CRC.    *)
(***************************************************************************)
THEOREM ImplementsChannel == Spec => ChannelSafe
<1>1. Init => Channel!Init
  BY InitChannel
<1>2. TypeInv /\ LinkInv /\ TypeInv' /\ LinkInv' /\ [Next]_vars
         => [Channel!Put \/ Channel!Take]_(Channel!chanVars)
  BY NextChannel DEF ChannelStep
<1> QED
  BY <1>1, <1>2, TypeInvariance, LinkInvariance, PTL
  DEF Spec, ChannelSafe, Channel!Safe

-----------------------------------------------------------------------------
(* An image is announced only when it is complete, if the packet memory    *)
(* starts cleared: the end flag is then raised by the generator alone, and *)
(* from then on no line is left, neither in the file nor in the slot       *)
(* (Ended is stable).                                                      *)

\* What an end of the file that somebody saw guarantees from then on.
Ended ==
    /\ line = Len(Lines) /\ genPc \notin {"start", "send"}
    /\ pmem[ComOpflag] # 1

Announcing == comPc \in {"begin", "range", "crypto"}

EndInv ==
    /\ genPc = "flags" => Ended
    /\ pmem[ComEndOpflag] # 0 => Ended
    /\ comPc = "end" /\ read_en # 0 => Ended
    /\ Announcing => Ended

-----------------------------------------------------------------------------

\* Once the file has ended, the invariant says no more.
LEMMA EndedSuffices ==
    ASSUME Ended'
    PROVE  EndInv'
BY DEF EndInv

\* Before, nobody can have seen an end; so a step shows none to anybody.
LEMMA NotEndedStays ==
    ASSUME EndInv, ~Ended, genPc' # "flags",
           pmem'[ComEndOpflag] = pmem[ComEndOpflag],
           UNCHANGED <<comPc, read_en>>
    PROVE  EndInv'
BY DEF EndInv, Announcing

\* The generator raises the end flag only when the file and the slot are empty.
LEMMA GeneratorKeepsEnd ==
    ASSUME TypeInv, EndInv, GeneratorStep
    PROVE  EndInv'
<1>1. /\ {0, 1} \subseteq Word /\ pmem \in [PacketAddr -> Word]
      /\ PacketWords \in Nat \ {0} /\ sent \in 0..PacketWords
      /\ line \in 0..Len(Lines) /\ Len(Lines) \in Nat
  BY WordAssumption, WiringAssumption, LinesAssumption
  DEF TypeInv, TypeOK, GeneratorTypeOK, PacketWords
<1>2. UNCHANGED <<comPc, read_en>>
  BY DEF GeneratorStep, comVars
<1>3. CASE GenStart
  <2>1. genPc = "start" /\ genPc' = "poll" /\ PacketWrite(ComOpflag, 0)
    BY <1>3 DEF GenStart, GenReady, GenGoto
  <2>2. pmem'[ComEndOpflag] = pmem[ComEndOpflag]
    BY <1>1, <2>1, PacketAddrType, PacketWriteType DEF ComOpflag, ComEndOpflag
  <2> QED
    BY <1>2, <2>1, <2>2, NotEndedStays DEF Ended
<1>4. CASE GenPoll
  <2>1. genPc \in {"top", "poll"} /\ genPc' = "poll" /\ UNCHANGED <<line, pmem>>
    BY <1>4 DEF GenPoll, GenReady, GenGoto
  <2>2. CASE Ended
    BY <2>1, <2>2, EndedSuffices DEF Ended
  <2> QED
    BY <1>2, <2>1, <2>2, NotEndedStays
<1>5. CASE GenReadEndFlag
  <2>1. genPc = "poll" /\ genPc' = "flags" /\ flag # 1 /\ UNCHANGED <<line, pmem>>
    BY <1>5 DEF GenReadEndFlag, GenReady, GenGoto
  <2>2. ~SlotFull /\ line = Len(Lines)
    BY <1>5, <2>1 DEF GenReadEndFlag, FileEmpty, TypeInv, StoreBound
  <2> QED
    BY <2>1, <2>2, EndedSuffices DEF Ended, SlotFull
<1>6. CASE GenSignalEnd
  <2>1. genPc = "flags" /\ genPc' = "top" /\ UNCHANGED line
    BY <1>6 DEF GenSignalEnd, GenReady, GenGoto
  <2>2. pmem'[ComOpflag] = pmem[ComOpflag]
    BY <1>1, <1>6, PacketAddrType, PacketWriteType
    DEF GenSignalEnd, ComOpflag, ComEndOpflag
  <2> QED
    BY <2>1, <2>2, EndedSuffices DEF EndInv, Ended
<1>7. CASE GenTakeLine
  <2>1. 1 \in 1..PacketWords /\ line + 1 \in 1..Len(Lines)
    BY <1>1, <1>7 DEF GenTakeLine, FileEmpty
  <2>2. WordAddr(1) \in PacketAddr /\ Stream(Lines[line + 1])[1] \in Word
    BY <2>1, PacketAddrType, StreamType
  <2>3. pmem'[ComEndOpflag] = pmem[ComEndOpflag]
    BY <1>1, <1>7, <2>1, <2>2, PacketAddrType, WordIsNotEndFlag, PacketWriteType
    DEF GenTakeLine
  <2>4. ~Ended /\ genPc' = "send"
    BY <1>1, <1>7, <2>1 DEF GenTakeLine, GenGoto, Ended
  <2> QED
    BY <1>2, <2>3, <2>4, NotEndedStays
<1>8. CASE GenSendWord
  <2>1. genPc = "send" /\ genPc' = "send" /\ line > 0 /\ sent < PacketWords
    BY <1>8 DEF GenSendWord, GenReady, GenGoto, TypeInv, StoreBound
  <2>2. sent + 1 \in 1..PacketWords /\ line \in 1..Len(Lines)
    BY <1>1, <2>1
  <2>3. WordAddr(sent + 1) \in PacketAddr /\ Stream(Lines[line])[sent + 1] \in Word
    BY <2>2, PacketAddrType, StreamType
  <2>4. pmem'[ComEndOpflag] = pmem[ComEndOpflag]
    BY <1>1, <1>8, <2>2, <2>3, PacketAddrType, WordIsNotEndFlag, PacketWriteType
    DEF GenSendWord
  <2> QED
    BY <1>2, <2>1, <2>4, NotEndedStays DEF Ended
<1>9. CASE GenRaiseFlag
  <2>1. genPc = "send" /\ genPc' = "top" /\ PacketWrite(ComOpflag, 1)
    BY <1>9 DEF GenRaiseFlag, GenReady, GenGoto
  <2>2. pmem'[ComEndOpflag] = pmem[ComEndOpflag]
    BY <1>1, <2>1, PacketAddrType, PacketWriteType DEF ComOpflag, ComEndOpflag
  <2> QED
    BY <1>2, <2>1, <2>2, NotEndedStays DEF Ended
<1> QED
  BY <1>3, <1>4, <1>5, <1>6, <1>7, <1>8, <1>9 DEF GeneratorStep, GenNext

\* The communication module only lowers the flags.
LEMMA CommunicationKeepsEnd ==
    ASSUME TypeInv, EndInv, CommunicationStep
    PROVE  EndInv'
<1>1. {0, 1} \subseteq Word /\ pmem \in [PacketAddr -> Word]
  BY WordAssumption DEF TypeInv, TypeOK
<1>2. UNCHANGED <<genPc, line>>
  BY DEF CommunicationStep, genVars
<1>3. /\ pmem'[ComOpflag] \in {0, pmem[ComOpflag]}
      /\ pmem'[ComEndOpflag] \in {0, pmem[ComEndOpflag]}
  <2>1. CASE UNCHANGED pmem
    BY <2>1
  <2>2. CASE PacketWrite(ComOpflag, 0) \/ PacketWrite(ComEndOpflag, 0)
    BY <1>1, <2>2, PacketAddrType, PacketWriteType DEF ComOpflag, ComEndOpflag
  <2> QED
    BY <2>1, <2>2
    DEF CommunicationStep, ComNext, ComStart, ComPoll, ComReadOpflag,
        ComReceiveWord, ComStorePixel, ComRelease, ComSaveBegin, ComSaveEnd,
        ComStartCrypto, ComClearEnd
<1>4. CASE Ended
  BY <1>2, <1>3, <1>4, EndedSuffices DEF Ended
<1>5. CASE ~Ended
  <2>1. pmem[ComEndOpflag] = 0 /\ ~Announcing /\ genPc # "flags"
        /\ (comPc = "end" => read_en = 0)
    BY <1>5 DEF EndInv
  <2>2. pmem'[ComEndOpflag] = 0 /\ genPc' # "flags"
    BY <1>2, <1>3, <2>1
  <2>3. comPc' = "end" => read_en' = 0
    BY <2>1
    DEF CommunicationStep, ComNext, ComStart, ComPoll, ComReadOpflag,
        ComReceiveWord, ComStorePixel, ComRelease, ComSaveBegin, ComSaveEnd,
        ComStartCrypto, ComClearEnd, ComGoto
  <2>4. ~Announcing'
    BY <2>1
    DEF CommunicationStep, ComNext, ComStart, ComPoll, ComReadOpflag,
        ComReceiveWord, ComStorePixel, ComRelease, ComSaveBegin, ComSaveEnd,
        ComStartCrypto, ComClearEnd, ComGoto, ComReady, PacketReceived,
        Announcing
  <2> QED
    BY <2>2, <2>3, <2>4 DEF EndInv
<1> QED
  BY <1>4, <1>5

\* A cleared end flag shows no end.
LEMMA InitEnd == EndFlagClear /\ Init => EndInv
BY DEF EndFlagClear, Init, GeneratorInit, CommunicationInit, EndInv, Announcing

\* Every step of the device preserves EndInv.
LEMMA NextEnd == TypeInv /\ EndInv /\ [Next]_vars => EndInv'
<1> SUFFICES ASSUME TypeInv, EndInv, [Next]_vars PROVE EndInv'
  OBVIOUS
<1>1. CASE EncryptionStep \/ GpuStep \/ TimeStep \/ UNCHANGED vars
  <2>1. UNCHANGED <<pmem, genVars, comVars>>
    BY <1>1 DEF EncryptionStep, GpuStep, TimeStep, vars
  <2> QED
    BY <2>1 DEF EndInv, Ended, Announcing, genVars, comVars
<1> QED
  BY <1>1, GeneratorKeepsEnd, CommunicationKeepsEnd DEF Next

(***************************************************************************)
(* Complete announcements, for every file, packet length and period: if    *)
(* the end flag starts cleared, as the constructor of the packet memory    *)
(* means it to, the communication module announces an image only when      *)
(* every line of the file went through the channel, whatever the other     *)
(* words of the memory hold.  (With what the heap holds in the end flag it *)
(* does not: run fresh_memory.)                                            *)
(***************************************************************************)
THEOREM FinishHolds == Spec /\ EndFlagClear => []FinishOnlyWhenComplete
<1>1. Init /\ EndFlagClear => EndInv
  BY InitEnd
<1>2. EndInv => FinishOnlyWhenComplete
  BY DEF EndInv, Announcing, Ended, FinishOnlyWhenComplete
<1> QED
  BY <1>1, <1>2, NextEnd, TypeInvariance, PTL DEF Spec

-----------------------------------------------------------------------------
(* What is announced is the whole image, if no line is damaged. *)

AllValid == \A n \in 1..Len(Lines) : ValidLine(Lines[n])

\* Every line put into the channel and taken from it is a stored pixel.
LinesTaken == IF SlotFull THEN LinesPut - 1 ELSE LinesPut

CountInv == memory_idx = 16 + 4 * LinesTaken

\* A line in the slot is counted when it is taken.
LEMMA ChannelKeepsCount ==
    ASSUME AllValid, TypeInv, LinkInv, CountInv, ChannelStep
    PROVE  CountInv'
<1> DEFINE slot == IF SlotFull THEN <<DecodedLine>> ELSE <<>>
<1>1. (slot = <<>> <=> ~SlotFull) /\ (slot' = <<>> <=> ~SlotFull')
  OBVIOUS
<1>2. LinesPut \in Int /\ memory_idx \in Int
  BY DEF LinesPut, TypeInv, TypeOK, GeneratorTypeOK, CommunicationTypeOK
<1>3. CASE UNCHANGED Channel!chanVars
  BY <1>1, <1>3 DEF Channel!chanVars, CountInv, LinesTaken
<1>4. CASE Channel!Put
  <2>1. ~SlotFull /\ SlotFull' /\ LinesPut' = LinesPut + 1 /\ UNCHANGED memory_idx
    BY <1>1, <1>4 DEF Channel!Put
  <2> QED
    BY <1>2, <2>1 DEF CountInv, LinesTaken
<1>5. CASE Channel!Take
  <2>1. SlotFull /\ ~SlotFull' /\ UNCHANGED LinesPut
    BY <1>1, <1>5 DEF Channel!Take
  <2>2. DecodedLine = Lines[line] /\ line \in 1..Len(Lines)
    BY <2>1, SlotIsLine DEF TypeInv, TypeOK, StoreBound, GeneratorTypeOK
  <2>3. memory_idx' = memory_idx + 4
    BY <1>5, <2>1, <2>2 DEF Channel!Take, AllValid
  <2> QED
    BY <1>2, <2>1, <2>3 DEF CountInv, LinesTaken
<1> QED
  BY <1>3, <1>4, <1>5 DEF ChannelStep

\* At first nothing was put and nothing is stored.
LEMMA InitCount == Init => CountInv
BY DEF Init, GeneratorInit, CommunicationInit, CountInv, LinesTaken, LinesPut,
       SlotFull

\* After the end of the file every line was taken.
LEMMA EndedCount ==
    ASSUME CountInv, Ended
    PROVE  memory_idx = 16 + 4 * Len(Lines)
BY DEF CountInv, Ended, LinesTaken, LinesPut, SlotFull

ImageComplete == Announcing => memory_idx = 16 + 4 * Len(Lines)

(***************************************************************************)
(* The announced image is the whole one: if moreover every line is valid,  *)
(* the range that ComSaveEnd writes has a word for each line of the file.  *)
(***************************************************************************)
THEOREM AnnouncedImageComplete ==
    ASSUME AllValid
    PROVE  Spec /\ EndFlagClear => []ImageComplete
<1>1. Init /\ EndFlagClear => EndInv /\ CountInv
  BY InitEnd, InitCount
<1>2. /\ TypeInv /\ LinkInv /\ TypeInv' /\ LinkInv' /\ CountInv /\ [Next]_vars
         => CountInv'
  BY NextChannel, ChannelKeepsCount
<1>3. EndInv /\ CountInv => ImageComplete
  BY EndedCount DEF EndInv, ImageComplete
<1> QED
  BY <1>1, <1>2, <1>3, NextEnd, TypeInvariance, LinkInvariance, PTL DEF Spec
=============================================================================
