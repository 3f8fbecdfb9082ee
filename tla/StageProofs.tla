----------------------------- MODULE StageProofs -----------------------------
(***************************************************************************)
(* The image passes from stage to stage.  The state of the device goes     *)
(* through four phases, each of which no step leaves but to the next:      *)
(*   - Before: nothing is announced, the stages behind the communication   *)
(*     module poll;                                                        *)
(*   - Announced: the crypto flag is up, and the communication module will *)
(*     never handle a packet or raise a flag again (Done);                 *)
(*   - Decrypting: the encryption module works, and writes no flag, as its *)
(*     sweep starts behind the flags;                                      *)
(*   - Decrypted: the GPU may work, and writes no flag but its own.        *)
(***************************************************************************)
EXTENDS ImageFlow, DeviceRunProofs, FiniteSetTheorems

\* The beginning of the image is 0 until it is announced, and from then on
\* the address of the image or of its first pixel: the stages that read it
\* write behind the flags.  This holds whatever the end flag starts with.
BeginInv ==
    /\ mem[ImageBeginAddr] \in {0, 16, 24}
    /\ mem[ImageBeginAddr] = 0 =>
          Quiet /\ comPc \notin {"begin", "range", "crypto", "finish"}
    /\ encPc \in {"begin", "range", "read", "write"} => read_start \in {16, 24}
    /\ encPc \in {"read", "write"} => w >= 16
    /\ gpuPc \notin {"start", "poll"} => rd_addr \in {16, 24}
    /\ gpuPc \in {"newWidth", "newHeight", "write"} => i >= 0

\* The end flag was raised, by the generator, which does it once.
EndRaised ==
    \/ pmem[ComEndOpflag] # 0
    \/ comPc = "end" /\ read_en # 0
    \/ Announcing

RaisedInv == EndRaised => change = 1

\* The communication module has announced the image and only polls.
Done ==
    /\ change = 1 /\ Ended
    /\ \/ comPc = "crypto"
       \/ /\ pmem[ComEndOpflag] = 0
          /\ \/ comPc = "finish"
             \/ comPc = "end" /\ read_en = 0
             \/ comPc = "op" /\ read_en # 1

Before ==
    /\ Quiet
    /\ comPc \notin {"crypto", "finish"}
    /\ comPc \in {"begin", "range"} => mem[ImageBeginAddr] = 16

GpuIdle ==
    mem[GpuOpflag] # 1 /\ gpuPc \in {"start", "poll"} /\ start # 1

Announced ==
    /\ Done /\ GpuIdle
    /\ encPc \in {"start", "poll"}
    /\ mem[ImageBeginAddr] = 16 /\ mem[CryptoOpflag] = 1

Decrypting ==
    /\ Done /\ GpuIdle
    /\ encPc \in {"clear", "begin", "range", "read", "write"}
    /\ mem[ImageBeginAddr] = 16 /\ mem[CryptoOpflag] # 1
    /\ encPc # "clear" => read_start = 16

Decrypted ==
    /\ Done
    /\ encPc \in {"signal", "base", "poll"}
    /\ encPc = "poll" => control # 1
    /\ mem[ImageBeginAddr] # 0 /\ mem[CryptoOpflag] # 1

GpuAtWork ==
    \/ gpuPc \in {"base", "width", "height", "fetch", "newWidth", "newHeight",
                  "write"}
    \/ gpuPc = "poll" /\ start = 1

Phases == Before \/ Announced \/ Decrypting \/ Decrypted

StageInv == BeginInv /\ EndInv /\ RaisedInv /\ Phases

-----------------------------------------------------------------------------
(* The memories. *)

LEMMA FlagAddresses ==
    /\ CryptoOpflag \in GlobalAddr /\ GpuOpflag \in GlobalAddr
    /\ ImageBeginAddr \in GlobalAddr /\ ImageEndAddr \in GlobalAddr
    /\ CryptoOpflag = 8 /\ GpuOpflag = 12
    /\ ImageBeginAddr = 0 /\ ImageEndAddr = 4
<1>1. MemoryEnd \div 4 \in Nat /\ MemoryEnd \div 4 >= 3
  BY WiringAssumption
<1>2. ImageBeginAddr = 4 * 0 /\ ImageEndAddr = 4 * 1
  BY DEF ImageBeginAddr, ImageEndAddr
<1>3. 0 \in 0..MemoryEnd \div 4 /\ 1 \in 0..MemoryEnd \div 4
  BY <1>1
<1>4. ImageBeginAddr \in GlobalAddr /\ ImageEndAddr \in GlobalAddr
  BY <1>2, <1>3 DEF GlobalAddr
<1> QED
  BY <1>2, <1>4, FlagAddrType DEF CryptoOpflag, GpuOpflag

LEMMA DirectWritten ==
    ASSUME MemTypeOK, NEW a, NEW v, DirectWrite(a, v)
    PROVE  /\ a \in GlobalAddr => mem'[a] = v
           /\ \A b \in GlobalAddr : b # a => mem'[b] = mem[b]
<1>1. mem \in [GlobalAddr -> Word]
  BY DEF MemTypeOK
<1>2. CASE a \in GlobalAddr
  BY <1>1, <1>2 DEF DirectWrite
<1>3. CASE a \notin GlobalAddr
  BY <1>3 DEF DirectWrite
<1> QED
  BY <1>2, <1>3

\* A write behind the flags.
LEMMA WrittenBehind ==
    ASSUME MemTypeOK, NEW a \in Int, a >= 16, NEW v, DirectWrite(a, v)
    PROVE  /\ mem'[CryptoOpflag] = mem[CryptoOpflag]
           /\ mem'[GpuOpflag] = mem[GpuOpflag]
           /\ mem'[ImageBeginAddr] = mem[ImageBeginAddr]
<1>1. a # CryptoOpflag /\ a # GpuOpflag /\ a # ImageBeginAddr
  BY FlagAddresses
<1>2. \A b \in GlobalAddr : b # a => mem'[b] = mem[b]
  BY DirectWritten
<1> QED
  BY <1>1, <1>2, FlagAddresses

-----------------------------------------------------------------------------
(* The end of the file. *)

\* The generator touches the end flag only to raise it.
LEMMA GeneratorEndFlag ==
    ASSUME TypeInv, GeneratorStep
    PROVE  \/ GenSignalEnd
           \/ pmem'[ComEndOpflag] = pmem[ComEndOpflag] /\ UNCHANGED change
<1>1. /\ {0, 1} \subseteq Word /\ pmem \in [PacketAddr -> Word]
      /\ PacketWords \in Nat \ {0} /\ sent \in 0..PacketWords
      /\ line \in 0..Len(Lines) /\ Len(Lines) \in Nat
  BY WordAssumption, WiringAssumption, LinesAssumption
  DEF TypeInv, TypeOK, GeneratorTypeOK, PacketWords
<1>2. CASE GenPoll \/ GenReadEndFlag
  BY <1>2 DEF GenPoll, GenReadEndFlag
<1>3. CASE GenStart \/ GenRaiseFlag
  BY <1>1, <1>3, PacketAddrType, PacketWriteType
  DEF GenStart, GenRaiseFlag, ComOpflag, ComEndOpflag
<1>4. CASE GenTakeLine
  <2>1. 1 \in 1..PacketWords /\ line + 1 \in 1..Len(Lines)
    BY <1>1, <1>4 DEF GenTakeLine, FileEmpty
  <2>2. WordAddr(1) \in PacketAddr /\ Stream(Lines[line + 1])[1] \in Word
    BY <2>1, PacketAddrType, StreamType
  <2> QED
    BY <1>1, <1>4, <2>1, <2>2, PacketAddrType, WordIsNotEndFlag, PacketWriteType
    DEF GenTakeLine
<1>5. CASE GenSendWord
  <2>1. genPc = "send" /\ line > 0 /\ sent < PacketWords
    BY <1>5 DEF GenSendWord, GenReady, TypeInv, StoreBound
  <2>2. sent + 1 \in 1..PacketWords /\ line \in 1..Len(Lines)
    BY <1>1, <2>1
  <2>3. WordAddr(sent + 1) \in PacketAddr /\ Stream(Lines[line])[sent + 1] \in Word
    BY <2>2, PacketAddrType, StreamType
  <2> QED
    BY <1>1, <1>5, <2>2, <2>3, PacketAddrType, WordIsNotEndFlag, PacketWriteType
    DEF GenSendWord
<1> QED
  BY <1>2, <1>3, <1>4, <1>5 DEF GeneratorStep, GenNext

\* Raising it is recorded, and not done again.
LEMMA SignalEnd ==
    ASSUME TypeInv, GenSignalEnd
    PROVE  /\ pmem'[ComOpflag] = pmem[ComOpflag]
           /\ \/ change' = 1
              \/ pmem' = pmem /\ change' = change
           /\ change = 1 => pmem' = pmem /\ change' = 1
<1>1. {0, 1} \subseteq Word /\ pmem \in [PacketAddr -> Word]
  BY WordAssumption DEF TypeInv, TypeOK
<1>2. pmem'[ComOpflag] = pmem[ComOpflag]
  BY <1>1, PacketAddrType, PacketWriteType
  DEF GenSignalEnd, ComOpflag, ComEndOpflag
<1> QED
  BY <1>2 DEF GenSignalEnd

\* The communication module only lowers the flags.
LEMMA CommunicationFlags ==
    ASSUME TypeInv, CommunicationStep
    PROVE  /\ pmem'[ComOpflag] \in {0, pmem[ComOpflag]}
           /\ pmem'[ComEndOpflag] \in {0, pmem[ComEndOpflag]}
<1>1. {0, 1} \subseteq Word /\ pmem \in [PacketAddr -> Word]
  BY WordAssumption DEF TypeInv, TypeOK
<1>2. CASE UNCHANGED pmem
  BY <1>2
<1>3. CASE PacketWrite(ComOpflag, 0) \/ PacketWrite(ComEndOpflag, 0)
  BY <1>1, <1>3, PacketAddrType, PacketWriteType DEF ComOpflag, ComEndOpflag
<1> QED
  BY <1>2, <1>3
  DEF CommunicationStep, ComNext, ComStart, ComPoll, ComReadOpflag,
      ComReceiveWord, ComStorePixel, ComRelease, ComSaveBegin, ComSaveEnd,
      ComStartCrypto, ComClearEnd

\* The file stays at its end.
LEMMA EndedStays ==
    ASSUME TypeInv, Ended, [Next]_vars
    PROVE  Ended'
<1>1. CASE GeneratorStep
  <2>1. GenPoll \/ GenReadEndFlag \/ GenSignalEnd
    BY <1>1
    DEF GeneratorStep, GenNext, GenStart, GenTakeLine, GenSendWord,
        GenRaiseFlag, GenReady, FileEmpty, Ended
  <2>2. CASE GenPoll \/ GenReadEndFlag
    BY <2>2 DEF GenPoll, GenReadEndFlag, GenGoto, Ended
  <2>3. CASE GenSignalEnd
    BY <2>3, SignalEnd DEF GenSignalEnd, GenGoto, Ended
  <2> QED
    BY <2>1, <2>2, <2>3
<1>2. CASE CommunicationStep
  BY <1>2, CommunicationFlags DEF CommunicationStep, genVars, Ended
<1>3. CASE EncryptionStep \/ GpuStep \/ TimeStep \/ UNCHANGED vars
  BY <1>3 DEF EncryptionStep, GpuStep, TimeStep, vars, genVars, Ended
<1> QED
  BY <1>1, <1>2, <1>3 DEF Next

LEMMA RaisedStays ==
    ASSUME TypeInv, EndInv, RaisedInv, [Next]_vars
    PROVE  RaisedInv'
<1>1. CASE GeneratorStep
  <2>1. UNCHANGED <<comPc, read_en>>
    BY <1>1 DEF GeneratorStep, comVars
  <2>2. CASE GenSignalEnd
    <3>1. change' = 1 \/ UNCHANGED <<pmem, change>>
      BY <2>2, SignalEnd
    <3> QED
      BY <2>1, <3>1 DEF RaisedInv, EndRaised, Announcing
  <2>3. CASE pmem'[ComEndOpflag] = pmem[ComEndOpflag] /\ UNCHANGED change
    BY <2>1, <2>3 DEF RaisedInv, EndRaised, Announcing
  <2> QED
    BY <1>1, <2>2, <2>3, GeneratorEndFlag
<1>2. CASE CommunicationStep
  <2>1. UNCHANGED change
    BY <1>2 DEF CommunicationStep, genVars
  <2>2. pmem'[ComEndOpflag] # 0 => pmem[ComEndOpflag] # 0
    BY <1>2, CommunicationFlags
  <2>3. comPc' = "end" => read_en' = pmem[ComEndOpflag]
    BY <1>2
    DEF CommunicationStep, ComNext, ComStart, ComPoll, ComReadOpflag,
        ComReceiveWord, ComStorePixel, ComRelease, ComSaveBegin, ComSaveEnd,
        ComStartCrypto, ComClearEnd, ComGoto
  <2>4. Announcing' => EndRaised
    BY <1>2
    DEF CommunicationStep, ComNext, ComStart, ComPoll, ComReadOpflag,
        ComReceiveWord, ComStorePixel, ComRelease, ComSaveBegin, ComSaveEnd,
        ComStartCrypto, ComClearEnd, ComGoto, ComReady, PacketReceived,
        Announcing, EndRaised
  <2>5. EndRaised' => EndRaised
    BY <2>2, <2>3, <2>4 DEF EndRaised
  <2> QED
    BY <2>1, <2>5 DEF RaisedInv
<1>3. CASE EncryptionStep \/ GpuStep \/ TimeStep \/ UNCHANGED vars
  BY <1>3
  DEF EncryptionStep, GpuStep, TimeStep, vars, genVars, comVars, RaisedInv,
      EndRaised, Announcing
<1> QED
  BY <1>1, <1>2, <1>3 DEF Next

\* After the announcement the communication module only polls, for ever,
\* and writes nothing to the global memory.
LEMMA DoneStays ==
    ASSUME TypeInv, Done, [Next]_vars
    PROVE  Done' /\ (CommunicationStep => UNCHANGED mem)
<1>1. Ended'
  BY EndedStays DEF Done
<1>2. CASE GeneratorStep
  <2>1. UNCHANGED <<comPc, read_en>>
    BY <1>2 DEF GeneratorStep, comVars
  <2>2. change' = 1 /\ pmem'[ComEndOpflag] = pmem[ComEndOpflag]
    BY <1>2, GeneratorEndFlag, SignalEnd DEF Done
  <2>3. ~CommunicationStep \/ UNCHANGED mem
    BY <1>2 DEF GeneratorStep
  <2> QED
    BY <1>1, <2>1, <2>2, <2>3 DEF Done
<1>3. CASE CommunicationStep
  <2>1. UNCHANGED change /\ pmem[ComOpflag] # 1
    BY <1>3 DEF CommunicationStep, genVars, Done, Ended
  <2>2. ComPoll \/ ComReadOpflag \/ ComClearEnd
    BY <1>3
    DEF CommunicationStep, ComNext, ComStart, ComReceiveWord, ComStorePixel,
        ComRelease, ComSaveBegin, ComSaveEnd, ComStartCrypto, ComReady,
        PacketReceived, Done
  <2>3. CASE ComPoll
    <3>1. comPc' = "end" /\ read_en' = pmem[ComEndOpflag] /\ UNCHANGED <<mem, pmem>>
      BY <2>3 DEF ComPoll, ComGoto
    <3>2. pmem[ComEndOpflag] = 0
      BY <2>3 DEF ComPoll, ComReady, Done
    <3> QED
      BY <1>1, <2>1, <3>1, <3>2 DEF Done
  <2>4. CASE ComReadOpflag
    <3>1. comPc' = "op" /\ read_en' = pmem[ComOpflag] /\ UNCHANGED <<mem, pmem>>
      BY <2>4 DEF ComReadOpflag, ComGoto
    <3>2. pmem[ComEndOpflag] = 0
      BY <2>4 DEF ComReadOpflag, ComReady, Done
    <3> QED
      BY <1>1, <2>1, <3>1, <3>2 DEF Done
  <2>5. CASE ComClearEnd
    <3>1. comPc' = "finish" /\ PacketWrite(ComEndOpflag, 0) /\ UNCHANGED mem
      BY <2>5 DEF ComClearEnd, ComGoto
    <3>2. pmem \in [PacketAddr -> Word] /\ 0 \in Word
      BY WordAssumption DEF TypeInv, TypeOK
    <3>3. pmem'[ComEndOpflag] = 0
      BY <3>1, <3>2, PacketAddrType, PacketWriteType
    <3> QED
      BY <1>1, <2>1, <3>1, <3>3 DEF Done
  <2> QED
    BY <2>2, <2>3, <2>4, <2>5
<1>4. CASE EncryptionStep \/ GpuStep \/ TimeStep \/ UNCHANGED vars
  <2>1. UNCHANGED <<pmem, change, comPc, read_en>>
    BY <1>4
    DEF EncryptionStep, GpuStep, TimeStep, vars, genVars, comVars
  <2>2. CommunicationStep => UNCHANGED mem
    <3>1. CommunicationStep => comPc' # comPc \/ UNCHANGED mem
      BY DEF CommunicationStep, ComNext, ComStart, ComPoll, ComReadOpflag,
             ComReceiveWord, ComStorePixel, ComRelease, ComSaveBegin,
             ComSaveEnd, ComStartCrypto, ComClearEnd, ComGoto, ComReady,
             PacketReceived
    <3> QED
      BY <2>1, <3>1
  <2> QED
    BY <1>1, <2>1, <2>2 DEF Done
<1> QED
  BY <1>2, <1>3, <1>4 DEF Next

-----------------------------------------------------------------------------
(* The beginning of the image. *)

LEMMA PollingKeepsMemory ==
    ASSUME Quiet, EncryptionStep \/ GpuStep
    PROVE  UNCHANGED mem
<1>1. CASE EncryptionStep
  BY <1>1
  DEF EncryptionStep, EncNext, EncPoll, EncAcknowledge, EncReadBegin,
      EncReadEnd, EncReadWord, EncWriteWord, EncStartGpu, EncSaveBase,
      EncReady, Quiet
<1>2. CASE GpuStep
  BY <1>2
  DEF GpuStep, GpuNext, GpuPoll, GpuReadBase, GpuReadWidth, GpuReadHeight,
      GpuFetchPixel, GpuRotate, GpuSaveHeight, GpuWritePixel, GpuStop,
      GpuReady, Quiet
<1> QED
  BY <1>1, <1>2

LEMMA CommunicationBegin ==
    ASSUME TypeInv, BeginInv, CommunicationStep
    PROVE  BeginInv' /\ (mem[ImageBeginAddr] # 0 => mem'[ImageBeginAddr] # 0)
<1>1. /\ MemTypeOK /\ memory_idx \in Int /\ memory_idx >= 16
      /\ UNCHANGED <<encVars, gpuVars>>
  BY DEF CommunicationStep, TypeInv, TypeOK, CommunicationTypeOK
<1>2. ASSUME mem'[ImageBeginAddr] = mem[ImageBeginAddr],
             comPc \notin {"begin", "range", "crypto", "finish"} =>
                 comPc' \notin {"begin", "range", "crypto", "finish"}
      PROVE  BeginInv'
  <2>1. mem[ImageBeginAddr] = 0 => Quiet'
    <3> SUFFICES ASSUME mem[ImageBeginAddr] = 0 PROVE Quiet'
      OBVIOUS
    <3>1. Quiet /\ ~Announcing
      BY DEF BeginInv, Announcing
    <3> QED
      BY <3>1, CommunicationKeepsQuiet
  <2> QED
    BY <1>1, <1>2, <2>1 DEF BeginInv, encVars, gpuVars
<1>3. CASE ComSaveBegin
  <2>1. DirectWrite(ImageBeginAddr, 16)
    BY <1>3 DEF ComSaveBegin, ComOpflag, ImageBeginAddr, ComMemoryBegin
  <2>2. mem'[ImageBeginAddr] = 16
    BY <1>1, <2>1, DirectWritten, FlagAddresses
  <2> QED
    BY <1>1, <2>2 DEF BeginInv, encVars, gpuVars
<1>4. CASE ~ComSaveBegin
  <2>1. mem'[ImageBeginAddr] = mem[ImageBeginAddr]
    <3>1. CASE UNCHANGED mem
      BY <3>1
    <3>2. CASE ComStart
      BY <1>1, <3>2, FlagAddresses DEF ComStart, MemTypeOK
    <3>3. CASE ComStorePixel
      BY <1>1, <3>3, WrittenBehind DEF ComStorePixel
    <3>4. CASE ComSaveEnd \/ ComStartCrypto
      BY <1>1, <3>4, DirectWritten, FlagAddresses
      DEF ComSaveEnd, ComStartCrypto, ComEndOpflag
    <3> QED
      BY <1>4, <3>1, <3>2, <3>3, <3>4
      DEF CommunicationStep, ComNext, ComPoll, ComReadOpflag, ComReceiveWord,
          ComRelease, ComClearEnd
  <2>2. comPc \notin {"begin", "range", "crypto", "finish"} =>
            comPc' \notin {"begin", "range", "crypto", "finish"}
    BY <1>4
    DEF CommunicationStep, ComNext, ComStart, ComPoll, ComReadOpflag,
        ComReceiveWord, ComStorePixel, ComRelease, ComSaveEnd, ComStartCrypto,
        ComClearEnd, ComGoto, ComReady
  <2> QED
    BY <1>2, <2>1, <2>2
<1> QED
  BY <1>3, <1>4

LEMMA EncryptionBegin ==
    ASSUME TypeInv, BeginInv, EncryptionStep
    PROVE  BeginInv' /\ (mem[ImageBeginAddr] # 0 => mem'[ImageBeginAddr] # 0)
<1>1. MemTypeOK /\ w \in Int /\ UNCHANGED <<comVars, gpuVars>>
  BY DEF EncryptionStep, TypeInv, TypeOK, EncryptionTypeOK
<1>2. UNCHANGED <<comPc, gpuPc, start, rd_addr, i>>
  BY <1>1 DEF comVars, gpuVars
<1>3. CASE Quiet
  <2>1. EncPoll
    BY <1>3
    DEF EncryptionStep, EncNext, EncAcknowledge, EncReadBegin, EncReadEnd,
        EncReadWord, EncWriteWord, EncStartGpu, EncSaveBase, EncReady, Quiet
  <2>2. encPc' = "poll" /\ control' # 1 /\ UNCHANGED mem
    BY <1>3, <2>1 DEF EncPoll, EncGoto, DirectRead, Quiet
  <2> QED
    BY <1>2, <1>3, <2>2 DEF BeginInv, Quiet
<1>4. CASE ~Quiet
  <2>1. mem[ImageBeginAddr] \in {16, 24}
    BY <1>4 DEF BeginInv
  <2>2. ASSUME mem'[ImageBeginAddr] \in {16, 24},
               encPc' \in {"begin", "range", "read", "write"} =>
                   read_start' \in {16, 24},
               encPc' \in {"read", "write"} => w' >= 16
        PROVE  BeginInv' /\ mem'[ImageBeginAddr] # 0
    BY <1>2, <2>2 DEF BeginInv
  <2>3. CASE EncPoll
    BY <2>1, <2>2, <2>3 DEF EncPoll, EncGoto
  <2>4. CASE EncAcknowledge
    <3>1. encPc' = "clear" /\ mem'[ImageBeginAddr] = mem[ImageBeginAddr]
      BY <1>1, <2>4, DirectWritten, FlagAddresses DEF EncAcknowledge, EncGoto
    <3> QED
      BY <2>1, <2>2, <3>1
  <2>5. CASE EncReadBegin
    <3>1. read_start' = mem[ImageBeginAddr] /\ encPc' = "begin" /\ UNCHANGED mem
      BY <2>5, FlagAddresses DEF EncReadBegin, EncGoto, DirectRead
    <3> QED
      BY <2>1, <2>2, <3>1
  <2>6. CASE EncReadEnd
    <3>1. encPc = "begin" /\ encPc' = "range" /\ UNCHANGED <<mem, read_start>>
      BY <2>6 DEF EncReadEnd, EncReady, EncGoto
    <3> QED
      BY <2>1, <2>2, <3>1 DEF BeginInv
  <2>7. CASE EncReadWord
    <3>1. /\ encPc \in {"range", "write"} /\ encPc' = "read"
          /\ w' = NextWord /\ UNCHANGED <<mem, read_start>>
      BY <2>7 DEF EncReadWord, EncReady, EncGoto
    <3>2. NextWord >= 16
      BY <1>1, <3>1 DEF NextWord, BeginInv
    <3> QED
      BY <2>1, <2>2, <3>1, <3>2 DEF BeginInv
  <2>8. CASE EncWriteWord
    <3>1. /\ encPc = "read" /\ encPc' = "write" /\ UNCHANGED <<read_start, w>>
          /\ DirectWrite(w, XorWord(mydata, KeyByte(rc4)))
      BY <2>8 DEF EncWriteWord, EncReady, EncGoto
    <3>2. w >= 16 /\ read_start \in {16, 24}
      BY <3>1 DEF BeginInv
    <3>3. mem'[ImageBeginAddr] = mem[ImageBeginAddr]
      BY <1>1, <3>1, <3>2, WrittenBehind
    <3> QED
      BY <2>1, <2>2, <3>1, <3>2, <3>3
  <2>9. CASE EncStartGpu
    <3>1. encPc' = "signal" /\ mem'[ImageBeginAddr] = mem[ImageBeginAddr]
      BY <1>1, <2>9, DirectWritten, FlagAddresses DEF EncStartGpu, EncGoto
    <3> QED
      BY <2>1, <2>2, <3>1
  <2>10. CASE EncSaveBase
    <3>1. encPc' = "base" /\ mem'[ImageBeginAddr] = 24
      BY <1>1, <2>10, DirectWritten, FlagAddresses DEF EncSaveBase, EncGoto
    <3> QED
      BY <2>2, <3>1
  <2> QED
    BY <2>3, <2>4, <2>5, <2>6, <2>7, <2>8, <2>9, <2>10 DEF EncryptionStep, EncNext
<1> QED
  BY <1>3, <1>4

LEMMA GpuBegin ==
    ASSUME TypeInv, BeginInv, GpuStep
    PROVE  BeginInv' /\ (mem[ImageBeginAddr] # 0 => mem'[ImageBeginAddr] # 0)
<1>1. /\ MemTypeOK /\ i \in Int /\ width \in Int /\ UNCHANGED <<comVars, encVars>>
  BY WordSizeType DEF GpuStep, TypeInv, TypeOK, GpuTypeOK
<1>2. UNCHANGED <<comPc, encPc, control, read_start, w>>
  BY <1>1 DEF comVars, encVars
<1>3. CASE Quiet
  <2>1. GpuPoll
    BY <1>3
    DEF GpuStep, GpuNext, GpuReadBase, GpuReadWidth, GpuReadHeight,
        GpuFetchPixel, GpuRotate, GpuSaveHeight, GpuWritePixel, GpuStop,
        GpuReady, Quiet
  <2>2. gpuPc' = "poll" /\ start' # 1 /\ UNCHANGED mem
    BY <1>3, <2>1 DEF GpuPoll, GpuGoto, DirectRead, Quiet
  <2> QED
    BY <1>2, <1>3, <2>2 DEF BeginInv, Quiet
<1>4. CASE ~Quiet
  <2>1. mem[ImageBeginAddr] \in {16, 24}
    BY <1>4 DEF BeginInv
  <2>2. ASSUME mem'[ImageBeginAddr] = mem[ImageBeginAddr],
               gpuPc' \notin {"start", "poll"} => rd_addr' \in {16, 24},
               gpuPc' \in {"newWidth", "newHeight", "write"} => i' >= 0
        PROVE  BeginInv' /\ mem'[ImageBeginAddr] # 0
    BY <1>2, <2>1, <2>2 DEF BeginInv
  <2>3. CASE GpuPoll
    BY <2>2, <2>3 DEF GpuPoll, GpuGoto
  <2>4. CASE GpuReadBase
    <3>1. rd_addr' = mem[ImageBeginAddr] /\ gpuPc' = "base" /\ UNCHANGED mem
      BY <2>4, FlagAddresses DEF GpuReadBase, GpuGoto, DirectRead
    <3> QED
      BY <2>1, <2>2, <3>1
  <2>5. CASE GpuReadWidth \/ GpuReadHeight \/ GpuFetchPixel
    <3>1. /\ gpuPc \notin {"start", "poll"} /\ UNCHANGED <<mem, rd_addr>>
          /\ gpuPc' \in {"width", "height", "fetch"}
      BY <2>5 DEF GpuReadWidth, GpuReadHeight, GpuFetchPixel, GpuReady, GpuGoto
    <3> QED
      BY <2>2, <3>1 DEF BeginInv
  <2>6. CASE GpuRotate
    <3>1. /\ gpuPc \notin {"start", "poll"} /\ UNCHANGED rd_addr
          /\ gpuPc' = "newWidth" /\ DirectWrite(ImageWidthAddr, height)
          /\ i' = IF width > 0 /\ height > 0 THEN width - 1 ELSE 0
      BY <2>6 DEF GpuRotate, GpuReady, GpuGoto
    <3>2. i' >= 0
      BY <1>1, <3>1
    <3>3. mem'[ImageBeginAddr] = mem[ImageBeginAddr]
      BY <1>1, <3>1, WrittenBehind DEF ImageWidthAddr
    <3> QED
      BY <2>2, <3>1, <3>2, <3>3 DEF BeginInv
  <2>7. CASE GpuSaveHeight
    <3>1. /\ gpuPc = "newWidth" /\ UNCHANGED <<rd_addr, i>>
          /\ gpuPc' = "newHeight" /\ DirectWrite(ImageHeightAddr, width)
      BY <2>7 DEF GpuSaveHeight, GpuReady, GpuGoto
    <3>2. mem'[ImageBeginAddr] = mem[ImageBeginAddr]
      BY <1>1, <3>1, WrittenBehind DEF ImageHeightAddr
    <3> QED
      BY <2>2, <3>1, <3>2 DEF BeginInv
  <2>8. CASE GpuWritePixel
    <3>1. /\ gpuPc \in {"newHeight", "write"} /\ UNCHANGED <<rd_addr, i>>
          /\ gpuPc' = "write" /\ DirectWrite(rd_addr + 4 * i, bufferB[k'])
      BY <2>8 DEF GpuWritePixel, GpuReady, GpuGoto
    <3>2. rd_addr \in {16, 24} /\ i >= 0
      BY <3>1 DEF BeginInv
    <3>3. rd_addr + 4 * i \in Int /\ rd_addr + 4 * i >= 16
      BY <1>1, <3>2
    <3>4. mem'[ImageBeginAddr] = mem[ImageBeginAddr]
      BY <1>1, <3>1, <3>3, WrittenBehind
    <3> QED
      BY <2>2, <3>1, <3>2, <3>4
  <2>9. CASE GpuStop
    <3>1. /\ gpuPc \in {"newHeight", "write"} /\ UNCHANGED rd_addr
          /\ gpuPc' = "stop" /\ DirectWrite(GpuOpflag, 0)
      BY <2>9 DEF GpuStop, GpuReady, GpuGoto
    <3>2. mem'[ImageBeginAddr] = mem[ImageBeginAddr]
      BY <1>1, <3>1, DirectWritten, FlagAddresses
    <3> QED
      BY <2>2, <3>1, <3>2 DEF BeginInv
  <2> QED
    BY <2>3, <2>4, <2>5, <2>6, <2>7, <2>8, <2>9 DEF GpuStep, GpuNext
<1> QED
  BY <1>3, <1>4

LEMMA BeginStart == Init => BeginInv
<1> SUFFICES ASSUME Init PROVE BeginInv
  OBVIOUS
<1>1. Quiet /\ mem[ImageBeginAddr] = 0
  BY InitQuiet, FlagAddresses DEF Init, MemInit
<1>2. comPc = "start" /\ encPc = "start" /\ gpuPc = "start"
  BY DEF Init, CommunicationInit, EncryptionInit, GpuInit
<1> QED
  BY <1>1, <1>2 DEF BeginInv

\* An image stays announced.
LEMMA BeginStep ==
    TypeInv /\ BeginInv /\ [Next]_vars =>
        BeginInv' /\ (mem[ImageBeginAddr] # 0 => mem'[ImageBeginAddr] # 0)
<1> SUFFICES ASSUME TypeInv, BeginInv, [Next]_vars
             PROVE  BeginInv' /\ (mem[ImageBeginAddr] # 0 => mem'[ImageBeginAddr] # 0)
  OBVIOUS
<1>1. CASE GeneratorStep \/ TimeStep \/ UNCHANGED vars
  BY <1>1
  DEF GeneratorStep, TimeStep, vars, comVars, encVars, gpuVars, BeginInv, Quiet
<1> QED
  BY <1>1, CommunicationBegin, EncryptionBegin, GpuBegin DEF Next

-----------------------------------------------------------------------------
(* The phases. *)

\* A step of the generator or of the clock concerns no phase.
LEMMA QuietSteps ==
    ASSUME TypeInv, StageInv, [Next]_vars,
           UNCHANGED <<mem, comVars, encVars, gpuVars>>
    PROVE  Phases'
<1>1. Done => Done'
  BY DoneStays
<1>2. CASE Before
  BY <1>2 DEF Phases, Before, Quiet, comVars, encVars, gpuVars
<1>3. CASE Announced
  BY <1>1, <1>3 DEF Phases, Announced, GpuIdle, encVars, gpuVars
<1>4. CASE Decrypting
  BY <1>1, <1>4 DEF Phases, Decrypting, GpuIdle, encVars, gpuVars
<1>5. CASE Decrypted
  BY <1>1, <1>5 DEF Phases, Decrypted, encVars, gpuVars
<1> QED
  BY <1>2, <1>3, <1>4, <1>5 DEF StageInv, Phases

\* Once decrypted, the image is the GPU's for good: the encryption module
\* only moves its beginning, and the GPU lowers no flag but its own.
LEMMA DecryptedStays ==
    ASSUME TypeInv, StageInv, Decrypted, [Next]_vars
    PROVE  Decrypted'
<1>1. Done' /\ (CommunicationStep => UNCHANGED mem) /\ MemTypeOK
  BY DoneStays DEF Decrypted, TypeInv, TypeOK
<1>2. CASE UNCHANGED <<mem, encVars>>
  BY <1>1, <1>2 DEF Decrypted, encVars
<1>3. CASE EncryptionStep
  <2>1. EncSaveBase \/ EncPoll
    BY <1>3
    DEF EncryptionStep, EncNext, EncAcknowledge, EncReadBegin, EncReadEnd,
        EncReadWord, EncWriteWord, EncStartGpu, EncReady, Decrypted
  <2>2. CASE EncSaveBase
    <3>1. encPc' = "base" /\ DirectWrite(ImageBeginAddr, 24)
      BY <2>2 DEF EncSaveBase, EncGoto
    <3>2. mem'[CryptoOpflag] = mem[CryptoOpflag] /\ mem'[ImageBeginAddr] = 24
      BY <1>1, <3>1, DirectWritten, FlagAddresses
    <3> QED
      BY <1>1, <3>1, <3>2 DEF Decrypted
  <2>3. CASE EncPoll
    <3>1. /\ encPc' = "poll" /\ UNCHANGED mem
          /\ control' = DirectRead(CryptoOpflag, control)
      BY <2>3 DEF EncPoll, EncGoto
    <3>2. control' # 1
      BY <1>3, <3>1, FlagAddresses DEF DirectRead, Decrypted
    <3> QED
      BY <1>1, <3>1, <3>2 DEF Decrypted
  <2> QED
    BY <2>1, <2>2, <2>3
<1>4. CASE GpuStep
  <2>1. mem[ImageBeginAddr] # 0 /\ mem'[ImageBeginAddr] # 0
    BY BeginStep DEF Decrypted, StageInv
  <2>2. mem'[CryptoOpflag] = mem[CryptoOpflag]
    <3>1. CASE UNCHANGED mem
      BY <3>1
    <3>2. CASE GpuRotate \/ GpuSaveHeight
      <4>1. PICK a \in {16, 20} : \E v : DirectWrite(a, v)
        BY <3>2 DEF GpuRotate, GpuSaveHeight, ImageWidthAddr, ImageHeightAddr
      <4> QED
        BY <1>1, <4>1, WrittenBehind
    <3>3. CASE GpuWritePixel
      <4>1. /\ gpuPc \in {"newHeight", "write"}
            /\ DirectWrite(rd_addr + 4 * i, bufferB[k'])
        BY <3>3 DEF GpuWritePixel, GpuReady
      <4>2. rd_addr \in {16, 24} /\ i \in Int /\ i >= 0
        BY <4>1 DEF TypeInv, TypeOK, GpuTypeOK, StageInv, BeginInv
      <4>3. rd_addr + 4 * i \in Int /\ rd_addr + 4 * i >= 16
        BY <4>2
      <4> QED
        BY <1>1, <4>1, <4>3, WrittenBehind
    <3>4. CASE GpuStop
      BY <1>1, <3>4, DirectWritten, FlagAddresses DEF GpuStop
    <3> QED
      BY <1>4, <3>1, <3>2, <3>3, <3>4
      DEF GpuStep, GpuNext, GpuPoll, GpuReadBase, GpuReadWidth, GpuReadHeight,
          GpuFetchPixel
  <2> QED
    BY <1>1, <1>4, <2>1, <2>2 DEF GpuStep, Decrypted, encVars
<1> QED
  BY <1>1, <1>2, <1>3, <1>4
  DEF Next, vars, GeneratorStep, CommunicationStep, TimeStep

\* The communication module announces the image, once.
LEMMA CommunicationSteps ==
    ASSUME TypeInv, StageInv, CommunicationStep
    PROVE  Phases'
<1>1. UNCHANGED <<encVars, gpuVars>> /\ [Next]_vars /\ MemTypeOK
  BY DEF CommunicationStep, Next, TypeInv, TypeOK
<1>2. CASE ~Before
  <2>1. Done /\ Done' /\ UNCHANGED mem
    BY <1>1, <1>2, DoneStays
    DEF StageInv, Phases, Announced, Decrypting, Decrypted
  <2> QED
    BY <1>1, <1>2, <2>1
    DEF StageInv, Phases, Announced, Decrypting, Decrypted, GpuIdle, encVars,
        gpuVars
<1>3. CASE Before /\ ~Announcing
  <2>1. Quiet'
    BY <1>3, CommunicationKeepsQuiet DEF Before
  <2>2. comPc' \notin {"crypto", "finish", "range"}
    BY <1>3
    DEF CommunicationStep, ComNext, ComStart, ComPoll, ComReadOpflag,
        ComReceiveWord, ComStorePixel, ComRelease, ComSaveBegin, ComSaveEnd,
        ComStartCrypto, ComClearEnd, ComGoto, ComReady, Before, Announcing
  <2>3. comPc' = "begin" => ComSaveBegin
    BY DEF CommunicationStep, ComNext, ComStart, ComPoll, ComReadOpflag,
           ComReceiveWord, ComStorePixel, ComRelease, ComSaveBegin, ComSaveEnd,
           ComStartCrypto, ComClearEnd, ComGoto
  <2>4. ComSaveBegin => DirectWrite(ImageBeginAddr, 16)
    BY DEF ComSaveBegin, ComMemoryBegin, ComOpflag, ImageBeginAddr
  <2>5. comPc' = "begin" => mem'[ImageBeginAddr] = 16
    BY <1>1, <2>3, <2>4, DirectWritten, FlagAddresses
  <2> QED
    BY <2>1, <2>2, <2>5 DEF Phases, Before
<1>4. CASE Before /\ comPc = "begin"
  <2>1. ComSaveEnd
    BY <1>4
    DEF CommunicationStep, ComNext, ComStart, ComPoll, ComReadOpflag,
        ComReceiveWord, ComStorePixel, ComRelease, ComSaveBegin,
        ComStartCrypto, ComClearEnd, ComReady, PacketReceived
  <2>2. DirectWrite(ImageEndAddr, memory_idx) /\ comPc' = "range"
    BY <2>1 DEF ComSaveEnd, ComEndOpflag, ImageEndAddr, ComGoto
  <2>3. \A b \in {CryptoOpflag, GpuOpflag, ImageBeginAddr} : mem'[b] = mem[b]
    BY <1>1, <2>2, DirectWritten, FlagAddresses
  <2> QED
    BY <1>1, <1>4, <2>2, <2>3 DEF Phases, Before, Quiet, encVars, gpuVars
<1>5. CASE Before /\ comPc = "range"
  <2>1. ComStartCrypto
    BY <1>5
    DEF CommunicationStep, ComNext, ComStart, ComPoll, ComReadOpflag,
        ComReceiveWord, ComStorePixel, ComRelease, ComSaveBegin, ComSaveEnd,
        ComClearEnd, ComReady, PacketReceived
  <2>2. DirectWrite(CryptoOpflag, 1) /\ comPc' = "crypto"
    BY <2>1 DEF ComStartCrypto, ComGoto
  <2>3. /\ mem'[CryptoOpflag] = 1 /\ mem'[GpuOpflag] = mem[GpuOpflag]
        /\ mem'[ImageBeginAddr] = mem[ImageBeginAddr]
    BY <1>1, <2>2, DirectWritten, FlagAddresses
  <2>4. Announcing /\ Ended /\ change = 1
    BY <1>5 DEF StageInv, Announcing, EndInv, RaisedInv, EndRaised
  <2>5. Ended' /\ change' = 1
    BY <1>1, <2>4, EndedStays DEF CommunicationStep, genVars
  <2>6. Done'
    BY <2>2, <2>5 DEF Done
  <2> QED
    BY <1>1, <1>5, <2>3, <2>6
    DEF Phases, Before, Quiet, Announced, GpuIdle, encVars, gpuVars
<1> QED
  BY <1>2, <1>3, <1>4, <1>5 DEF Announcing, Before

\* The encryption module takes the image up, and hands it over.
LEMMA EncryptionSteps ==
    ASSUME TypeInv, StageInv, EncryptionStep
    PROVE  Phases'
<1>1. UNCHANGED <<pmem, genVars, comVars, gpuVars>> /\ [Next]_vars /\ MemTypeOK
  BY DEF EncryptionStep, Next, TypeInv, TypeOK
<1>2. Done => Done'
  BY <1>1, DoneStays
<1>3. UNCHANGED <<comPc, gpuPc, start, rd_addr, i>>
  BY <1>1 DEF comVars, gpuVars
<1>4. CASE Before
  <2>1. EncPoll
    BY <1>4
    DEF EncryptionStep, EncNext, EncAcknowledge, EncReadBegin, EncReadEnd,
        EncReadWord, EncWriteWord, EncStartGpu, EncSaveBase, EncReady, Before,
        Quiet
  <2>2. encPc' = "poll" /\ control' # 1 /\ UNCHANGED mem
    BY <1>4, <2>1 DEF EncPoll, EncGoto, DirectRead, Before, Quiet
  <2> QED
    BY <1>3, <1>4, <2>2 DEF Phases, Before, Quiet
<1>5. CASE Announced
  <2>1. EncPoll \/ EncAcknowledge
    BY <1>5
    DEF EncryptionStep, EncNext, EncReadBegin, EncReadEnd, EncReadWord,
        EncWriteWord, EncStartGpu, EncSaveBase, EncReady, Announced
  <2>2. CASE EncPoll
    <3>1. encPc' = "poll" /\ UNCHANGED mem
      BY <2>2 DEF EncPoll, EncGoto
    <3> QED
      BY <1>2, <1>3, <1>5, <3>1 DEF Phases, Announced, GpuIdle
  <2>3. CASE EncAcknowledge
    <3>1. encPc' = "clear" /\ DirectWrite(CryptoOpflag, 0)
      BY <2>3 DEF EncAcknowledge, EncGoto
    <3>2. /\ mem'[CryptoOpflag] = 0 /\ mem'[GpuOpflag] = mem[GpuOpflag]
          /\ mem'[ImageBeginAddr] = mem[ImageBeginAddr]
      BY <1>1, <3>1, DirectWritten, FlagAddresses
    <3> QED
      BY <1>2, <1>3, <1>5, <3>1, <3>2 DEF Phases, Announced, Decrypting, GpuIdle
  <2> QED
    BY <2>1, <2>2, <2>3
<1>6. CASE Decrypting
  <2>1. \/ EncReadBegin \/ EncReadEnd \/ EncReadWord \/ EncWriteWord
        \/ EncStartGpu
    BY <1>6
    DEF EncryptionStep, EncNext, EncPoll, EncAcknowledge, EncSaveBase,
        EncReady, Decrypting
  <2>2. CASE EncReadBegin
    <3>1. /\ encPc' = "begin" /\ UNCHANGED mem
          /\ read_start' = DirectRead(ImageBeginAddr, read_start)
      BY <2>2 DEF EncReadBegin, EncGoto
    <3>2. read_start' = 16
      BY <1>6, <3>1, FlagAddresses DEF DirectRead, Decrypting
    <3> QED
      BY <1>2, <1>3, <1>6, <3>1, <3>2 DEF Phases, Decrypting, GpuIdle
  <2>3. CASE EncReadEnd
    <3>1. encPc = "begin" /\ encPc' = "range" /\ UNCHANGED <<mem, read_start>>
      BY <2>3 DEF EncReadEnd, EncReady, EncGoto
    <3> QED
      BY <1>2, <1>3, <1>6, <3>1 DEF Phases, Decrypting, GpuIdle
  <2>4. CASE EncReadWord
    <3>1. /\ encPc \in {"range", "write"} /\ encPc' = "read"
          /\ UNCHANGED <<mem, read_start>>
      BY <2>4 DEF EncReadWord, EncReady, EncGoto
    <3> QED
      BY <1>2, <1>3, <1>6, <3>1 DEF Phases, Decrypting, GpuIdle
  <2>5. CASE EncWriteWord
    <3>1. /\ encPc = "read" /\ encPc' = "write" /\ UNCHANGED <<read_start, w>>
          /\ DirectWrite(w, XorWord(mydata, KeyByte(rc4)))
      BY <2>5 DEF EncWriteWord, EncReady, EncGoto
    <3>2. w \in Int /\ w >= 16
      BY <3>1 DEF TypeInv, TypeOK, EncryptionTypeOK, StageInv, BeginInv
    <3>3. /\ mem'[CryptoOpflag] = mem[CryptoOpflag]
          /\ mem'[GpuOpflag] = mem[GpuOpflag]
          /\ mem'[ImageBeginAddr] = mem[ImageBeginAddr]
      BY <1>1, <3>1, <3>2, WrittenBehind
    <3> QED
      BY <1>2, <1>3, <1>6, <3>1, <3>2, <3>3 DEF Phases, Decrypting, GpuIdle
  <2>6. CASE EncStartGpu
    <3>1. encPc' = "signal" /\ DirectWrite(GpuOpflag, 1)
      BY <2>6 DEF EncStartGpu, EncGoto
    <3>2. /\ mem'[CryptoOpflag] = mem[CryptoOpflag]
          /\ mem'[ImageBeginAddr] = mem[ImageBeginAddr]
      BY <1>1, <3>1, DirectWritten, FlagAddresses
    <3> QED
      BY <1>2, <1>3, <1>6, <3>1, <3>2 DEF Phases, Decrypting, Decrypted, GpuIdle
  <2> QED
    BY <2>1, <2>2, <2>3, <2>4, <2>5, <2>6
<1>7. CASE Decrypted
  BY <1>1, <1>7, DecryptedStays DEF Phases
<1> QED
  BY <1>4, <1>5, <1>6, <1>7 DEF StageInv, Phases

\* The GPU only polls until the image is decrypted, and from then on writes
\* behind the flags or lowers its own.
LEMMA GpuSteps ==
    ASSUME TypeInv, StageInv, GpuStep
    PROVE  Phases'
<1>1. UNCHANGED <<pmem, genVars, comVars, encVars>> /\ [Next]_vars /\ MemTypeOK
  BY DEF GpuStep, Next, TypeInv, TypeOK
<1>2. Done => Done'
  BY <1>1, DoneStays
<1>3. UNCHANGED <<comPc, encPc, control, read_start, w>>
  BY <1>1 DEF comVars, encVars
<1>4. ASSUME GpuIdle
      PROVE  GpuIdle' /\ UNCHANGED mem
  <2>1. GpuPoll
    BY <1>4
    DEF GpuStep, GpuNext, GpuReadBase, GpuReadWidth, GpuReadHeight,
        GpuFetchPixel, GpuRotate, GpuSaveHeight, GpuWritePixel, GpuStop,
        GpuReady, GpuIdle
  <2> QED
    BY <1>4, <2>1 DEF GpuPoll, GpuGoto, DirectRead, GpuIdle
<1>5. CASE Before
  BY <1>3, <1>4, <1>5 DEF Phases, Before, Quiet, GpuIdle
<1>6. CASE Announced
  BY <1>2, <1>3, <1>4, <1>6 DEF Phases, Announced
<1>7. CASE Decrypting
  BY <1>2, <1>3, <1>4, <1>7 DEF Phases, Decrypting
<1>8. CASE Decrypted
  BY <1>1, <1>8, DecryptedStays DEF Phases
<1> QED
  BY <1>5, <1>6, <1>7, <1>8 DEF StageInv, Phases

-----------------------------------------------------------------------------
(* The specification. *)

LEMMA StageStart == EndFlagClear /\ Init => StageInv
<1> SUFFICES ASSUME EndFlagClear, Init PROVE StageInv
  OBVIOUS
<1>1. BeginInv /\ EndInv /\ Quiet
  BY BeginStart, InitEnd, InitQuiet
<1>2. comPc = "start" /\ pmem[ComEndOpflag] = 0
  BY DEF EndFlagClear, Init, CommunicationInit
<1> QED
  BY <1>1, <1>2 DEF StageInv, RaisedInv, EndRaised, Announcing, Phases, Before

LEMMA StageStep == TypeInv /\ StageInv /\ [Next]_vars => StageInv'
<1> SUFFICES ASSUME TypeInv, StageInv, [Next]_vars PROVE StageInv'
  OBVIOUS
<1>1. BeginInv' /\ EndInv' /\ RaisedInv'
  BY BeginStep, NextEnd, RaisedStays DEF StageInv
<1>2. Phases'
  <2>1. CASE GeneratorStep \/ TimeStep \/ UNCHANGED vars
    BY <2>1, QuietSteps
    DEF GeneratorStep, TimeStep, vars, comVars, encVars, gpuVars
  <2> QED
    BY <2>1, CommunicationSteps, EncryptionSteps, GpuSteps DEF Next
<1> QED
  BY <1>1, <1>2 DEF StageInv

\* In each phase at most one stage has the image.
LEMMA PhaseStages ==
    ASSUME Phases, NEW s \in Stages, NEW t \in Stages, HasImage(s), HasImage(t)
    PROVE  s = t
<1>1. CASE Before
  <2>1. \A r \in Stages : HasImage(r) => r = "communication"
    BY <1>1 DEF Stages, HasImage, Before, Quiet
  <2> QED
    BY <2>1
<1>2. CASE Announced
  <2>1. \A r \in Stages : HasImage(r) => r = "toEncryption"
    BY <1>2 DEF Stages, HasImage, Announced, Done, GpuIdle
  <2> QED
    BY <2>1
<1>3. CASE Decrypting
  <2>1. \A r \in Stages : HasImage(r) => r = "encryption"
    BY <1>3 DEF Stages, HasImage, Decrypting, Done, GpuIdle
  <2> QED
    BY <2>1
<1>4. CASE Decrypted
  <2>1. \A r \in Stages :
           HasImage(r) => r = IF gpuPc = "poll" THEN "toGpu" ELSE "gpu"
    BY <1>4 DEF Stages, HasImage, Decrypted, Done
  <2> QED
    BY <2>1
<1> QED
  BY <1>1, <1>2, <1>3, <1>4 DEF Phases

(***************************************************************************)
(* One stage at a time, for every file, damaged or not, packet length,     *)
(* memory and pair of periods, if the end flag starts cleared: the flags   *)
(* alone, polled and raised in any order of the threads, keep the stages   *)
(* from working on the image together.                                     *)
(***************************************************************************)
THEOREM OneStageHolds == Spec /\ EndFlagClear => []OneStageAtATime
<1>1. Init /\ EndFlagClear => StageInv
  BY StageStart
<1>2. StageInv => OneStageAtATime
  <2> DEFINE S == {s \in Stages : HasImage(s)}
  <2> SUFFICES ASSUME StageInv
               PROVE  Cardinality(S) <= 1
    BY DEF OneStageAtATime
  <2>1. \A s, t \in S : s = t
    BY PhaseStages DEF StageInv
  <2> HIDE DEF S
  <2>2. CASE S = {}
    BY <2>2, FS_EmptySet
  <2>3. CASE S # {}
    <3>1. PICK s : s \in S
      BY <2>3
    <3>2. S = {s}
      BY <2>1, <3>1
    <3>3. Cardinality({s}) = 1
      BY FS_Singleton, Zenon
    <3>4. Cardinality(S) = 1
      BY <3>2, <3>3, Zenon
    <3> QED
      BY <3>4
  <2> QED
    BY <2>2, <2>3
<1> QED
  BY <1>1, <1>2, StageStep, TypeInvariance, PTL DEF Spec

-----------------------------------------------------------------------------
(* The GPU is given one image, and turns it once or never. *)

\* The GPU has saved an image, or was never given one.
GpuDone == Decrypted /\ mem[GpuOpflag] # 1 /\ ~GpuAtWork

\* The dimensions the GPU has read are still those in the header, and it
\* rotates once at most.
HeaderKept ==
    /\ gpuPc \in {"width", "height"} => width = mem[ImageWidthAddr]
    /\ gpuPc = "height" => height = mem[ImageHeightAddr]

GpuInv ==
    /\ GpuAtWork => mem[GpuOpflag] = 1
    /\ HeaderKept
    /\ bufferB = Cleared \/ Saving \/ GpuDone
    /\ gpuPc = "stop" => GpuDone

\* The GPU goes round the loop that ends at the size test.
Stuck ==
    /\ Decrypted /\ mem[GpuOpflag] = 1 /\ bufferB = Cleared
    /\ GpuAtWork /\ gpuPc \in {"poll", "base", "width", "height"}
    /\ HeaderKept
    /\ Wrap(mem[ImageWidthAddr] * mem[ImageHeightAddr]) > ImageMaxSize

LEMMA HeaderAddresses ==
    ImageWidthAddr \in GlobalAddr /\ ImageHeightAddr \in GlobalAddr
<1>1. MemoryEnd \div 4 \in Nat /\ MemoryEnd \div 4 >= 5
  BY WiringAssumption
<1>2. ImageWidthAddr = 4 * 4 /\ ImageHeightAddr = 4 * 5
  BY DEF ImageWidthAddr, ImageHeightAddr
<1>3. 4 \in 0..MemoryEnd \div 4 /\ 5 \in 0..MemoryEnd \div 4
  BY <1>1
<1> QED
  BY <1>2, <1>3 DEF GlobalAddr

\* The GPU works on what is decrypted, and no other thread changes the header
\* or its flag then.
LEMMA OthersKeepHeader ==
    ASSUME TypeInv, StageInv, Decrypted, [Next]_vars, ~GpuStep
    PROVE  /\ UNCHANGED gpuVars
           /\ \A a \in GlobalAddr : a # ImageBeginAddr => mem'[a] = mem[a]
<1>1. UNCHANGED gpuVars
  BY DEF Next, vars, GeneratorStep, CommunicationStep, EncryptionStep, TimeStep
<1>2. CASE UNCHANGED mem
  BY <1>1, <1>2
<1>3. CASE CommunicationStep
  BY <1>1, <1>2, <1>3, DoneStays DEF Decrypted
<1>4. CASE EncryptionStep
  <2>1. EncSaveBase \/ EncPoll
    BY <1>4
    DEF EncryptionStep, EncNext, EncAcknowledge, EncReadBegin, EncReadEnd,
        EncReadWord, EncWriteWord, EncStartGpu, EncReady, Decrypted
  <2>2. CASE EncSaveBase
    BY <1>1, <2>2, DirectWritten DEF EncSaveBase, TypeInv, TypeOK
  <2> QED
    BY <1>2, <2>1, <2>2 DEF EncPoll
<1> QED
  BY <1>2, <1>3, <1>4 DEF Next, vars, GeneratorStep, TimeStep

LEMMA WorksDecrypted ==
    ASSUME StageInv, GpuAtWork
    PROVE  Decrypted
BY DEF StageInv, Phases, Before, Quiet, Announced, Decrypting, GpuIdle, GpuAtWork

LEMMA GpuStart == Init => GpuInv
BY DEF Init, GpuInit, GpuInv, HeaderKept, GpuAtWork, Cleared

LEMMA GpuKept ==
    TypeInv /\ StageInv /\ GpuInv /\ [Next]_vars => GpuInv'
<1> SUFFICES ASSUME TypeInv, StageInv, GpuInv, [Next]_vars PROVE GpuInv'
  OBVIOUS
<1>1. /\ MemTypeOK /\ ImageWidthAddr \in GlobalAddr /\ ImageHeightAddr \in GlobalAddr
      /\ Decrypted => Decrypted'
  BY HeaderAddresses, DecryptedStays DEF TypeInv, TypeOK
<1>2. CASE ~GpuStep
  <2>1. UNCHANGED gpuVars
    BY <1>2
    DEF Next, vars, GeneratorStep, CommunicationStep, EncryptionStep, TimeStep
  <2>2. UNCHANGED <<gpuPc, start, width, height, bufferB, GpuAtWork, Saving, Cleared>>
    BY <2>1 DEF gpuVars, GpuAtWork, Saving, Cleared
  <2>3. CASE ~Decrypted
    <3>1. /\ ~GpuAtWork /\ gpuPc \notin {"width", "height", "stop"}
          /\ bufferB = Cleared
      BY <2>3, WorksDecrypted DEF GpuInv, GpuDone, Saving, GpuAtWork
    <3> QED
      BY <2>2, <3>1 DEF GpuInv, HeaderKept
  <2>4. CASE Decrypted
    <3>1. /\ mem'[GpuOpflag] = mem[GpuOpflag]
          /\ mem'[ImageWidthAddr] = mem[ImageWidthAddr]
          /\ mem'[ImageHeightAddr] = mem[ImageHeightAddr]
      BY <1>1, <1>2, <2>4, OthersKeepHeader, FlagAddresses
      DEF ImageWidthAddr, ImageHeightAddr
    <3> QED
      BY <1>1, <2>2, <2>4, <3>1 DEF GpuInv, HeaderKept, GpuDone
  <2> QED
    BY <2>3, <2>4
<1>3. CASE GpuPoll
  <2>1. /\ gpuPc' = "poll" /\ start' = mem[GpuOpflag] /\ UNCHANGED <<mem, bufferB>>
        /\ ~Saving
    BY <1>3, FlagAddresses
    DEF GpuPoll, GpuGoto, GpuReady, DirectRead, Saving
  <2>2. GpuDone => GpuDone'
    BY <1>1, <2>1 DEF GpuDone, GpuAtWork
  <2> QED
    BY <2>1, <2>2 DEF GpuInv, HeaderKept, GpuAtWork, Cleared
<1>4. CASE GpuReadBase \/ GpuReadWidth \/ GpuReadHeight \/ GpuFetchPixel
  <2>1. GpuAtWork /\ ~Saving /\ UNCHANGED <<mem, bufferB>>
    BY <1>4
    DEF GpuReadBase, GpuReadWidth, GpuReadHeight, GpuFetchPixel, GpuReady,
        GpuAtWork, Saving
  <2>2. mem'[GpuOpflag] = 1 /\ bufferB' = Cleared'
    BY <2>1 DEF GpuInv, GpuDone, Cleared
  <2>3. HeaderKept' /\ gpuPc' # "stop"
    BY <1>1, <1>4
    DEF GpuReadBase, GpuReadWidth, GpuReadHeight, GpuFetchPixel, GpuReady,
        GpuGoto, DirectRead, GpuInv, HeaderKept
  <2> QED
    BY <2>2, <2>3 DEF GpuInv
<1>5. CASE GpuRotate \/ GpuSaveHeight \/ GpuWritePixel
  <2>1. GpuAtWork /\ Saving'
    BY <1>5
    DEF GpuRotate, GpuSaveHeight, GpuWritePixel, GpuReady, GpuGoto, GpuAtWork,
        Saving
  <2>2. PICK a \in Int : a >= 16 /\ \E v : DirectWrite(a, v)
    <3>1. CASE GpuRotate \/ GpuSaveHeight
      BY <3>1 DEF GpuRotate, GpuSaveHeight, ImageWidthAddr, ImageHeightAddr
    <3>2. CASE GpuWritePixel
      <4>1. rd_addr \in {16, 24} /\ i \in Int /\ i >= 0
        BY <3>2
        DEF GpuWritePixel, GpuReady, StageInv, BeginInv, TypeInv, TypeOK, GpuTypeOK
      <4>2. rd_addr + 4 * i \in Int /\ rd_addr + 4 * i >= 16
        BY <4>1
      <4> QED
        BY <3>2, <4>2 DEF GpuWritePixel
    <3> QED
      BY <1>5, <3>1, <3>2
  <2>3. mem'[GpuOpflag] = 1
    BY <1>1, <2>1, <2>2, WrittenBehind DEF GpuInv
  <2> QED
    BY <2>1, <2>3 DEF GpuInv, HeaderKept, Saving
<1>6. CASE GpuStop
  <2>1. gpuPc' = "stop" /\ DirectWrite(GpuOpflag, 0) /\ GpuAtWork
    BY <1>6 DEF GpuStop, GpuGoto, GpuReady, GpuAtWork
  <2>2. mem'[GpuOpflag] = 0
    BY <1>1, <2>1, DirectWritten, FlagAddresses
  <2> QED
    BY <1>1, <2>1, <2>2, WorksDecrypted
    DEF GpuInv, HeaderKept, GpuDone, GpuAtWork
<1> QED
  BY <1>2, <1>3, <1>4, <1>5, <1>6 DEF GpuStep, GpuNext

\* A refused image leaves the GPU in the loop, with the dimensions it read.
LEMMA RefusedIsStuck ==
    ASSUME StageInv, GpuInv, Refused
    PROVE  Stuck
<1>1. gpuPc = "height" /\ GpuAtWork /\ ~Saving
  BY DEF Refused, GpuAtWork, Saving
<1>2. Decrypted
  BY <1>1, WorksDecrypted
<1> QED
  BY <1>1, <1>2 DEF GpuInv, GpuDone, HeaderKept, Refused, Size, Stuck

LEMMA StuckStays ==
    ASSUME TypeInv, StageInv, Stuck, [Next]_vars
    PROVE  Stuck'
<1>1. Decrypted' /\ ImageWidthAddr \in GlobalAddr /\ ImageHeightAddr \in GlobalAddr
  BY HeaderAddresses, DecryptedStays DEF Stuck
<1>2. CASE ~GpuStep
  <2>1. UNCHANGED gpuVars
    BY <1>2, OthersKeepHeader DEF Stuck
  <2>2. /\ mem'[GpuOpflag] = mem[GpuOpflag]
        /\ mem'[ImageWidthAddr] = mem[ImageWidthAddr]
        /\ mem'[ImageHeightAddr] = mem[ImageHeightAddr]
    BY <1>1, <1>2, OthersKeepHeader, FlagAddresses
    DEF Stuck, ImageWidthAddr, ImageHeightAddr
  <2> QED
    BY <1>1, <2>1, <2>2 DEF Stuck, HeaderKept, GpuAtWork, Cleared, gpuVars
<1>3. CASE GpuStep
  <2>1. gpuPc = "height" => Size > ImageMaxSize
    BY DEF Stuck, HeaderKept, Size
  <2>2. Size \in Word /\ Word \subseteq Int /\ ImageMaxSize \in Int
    <3>1. width \in Int /\ height \in Int /\ ImageMaxSize \in Nat
      BY WiringAssumption, WordSizeType DEF TypeInv, TypeOK, GpuTypeOK
    <3>2. width * height \in Int
      BY <3>1
    <3> QED
      BY <3>1, <3>2, WrapType, WordSizeType DEF Size
  <2>3. GpuPoll \/ GpuReadBase \/ GpuReadWidth \/ GpuReadHeight
    BY <1>3, <2>1, <2>2
    DEF GpuStep, GpuNext, GpuFetchPixel, GpuRotate, GpuSaveHeight,
        GpuWritePixel, GpuStop, GpuReady, Stuck
  <2>4. UNCHANGED <<mem, bufferB>>
    BY <2>3 DEF GpuPoll, GpuReadBase, GpuReadWidth, GpuReadHeight
  <2>5. GpuAtWork' /\ gpuPc' \in {"poll", "base", "width", "height"} /\ HeaderKept'
    BY <1>1, <2>3, FlagAddresses
    DEF GpuPoll, GpuReadBase, GpuReadWidth, GpuReadHeight, GpuReady, GpuGoto,
        DirectRead, GpuAtWork, Stuck, HeaderKept
  <2> QED
    BY <1>1, <2>4, <2>5 DEF Stuck, Cleared
<1> QED
  BY <1>2, <1>3

(***************************************************************************)
(* For every file, memory and buffer size: once the GPU has refused an     *)
(* image the flag stays raised and nothing is ever rotated.  An image that *)
(* is being saved, or is saved, is never refused; a refused one is in the  *)
(* memory as it was, so that it is refused again.                          *)
(***************************************************************************)
THEOREM RefusedImageHolds == Spec => RefusedImageStays
<1> DEFINE Inv == TypeInv /\ StageInv /\ GpuInv
           Kept == mem[GpuOpflag] = 1 /\ bufferB = Cleared
<1>1. EndFlagClear /\ Init => Inv
  BY InitType, StageStart, GpuStart
<1>2. Inv /\ [Next]_vars => Inv'
  BY NextType, StageStep, GpuKept
<1>3. Inv /\ Refused => Stuck
  BY RefusedIsStuck
<1>4. Inv /\ Stuck /\ [Next]_vars => Stuck'
  BY StuckStays
<1>5. Stuck => Kept
  BY DEF Stuck
<1> HIDE DEF Inv, Kept
<1>6. Spec /\ EndFlagClear => [](Refused => []Kept)
  BY <1>1, <1>2, <1>3, <1>4, <1>5, PTL DEF Spec
<1> QED
  BY <1>6 DEF RefusedImageStays, Kept

LEMMA DoneForGood ==
    ASSUME TypeInv, StageInv, GpuInv, GpuDone, [Next]_vars
    PROVE  GpuDone'
<1>1. Decrypted' /\ MemTypeOK
  BY DecryptedStays DEF GpuDone, TypeInv, TypeOK
<1>2. CASE ~GpuStep
  <2>1. UNCHANGED gpuVars /\ mem'[GpuOpflag] = mem[GpuOpflag]
    BY <1>2, OthersKeepHeader, FlagAddresses DEF GpuDone
  <2> QED
    BY <1>1, <2>1 DEF GpuDone, GpuAtWork, gpuVars
<1>3. CASE GpuStep
  <2>1. GpuPoll
    BY <1>3
    DEF GpuStep, GpuNext, GpuReadBase, GpuReadWidth, GpuReadHeight,
        GpuFetchPixel, GpuRotate, GpuSaveHeight, GpuWritePixel, GpuStop,
        GpuReady, GpuDone, GpuAtWork
  <2>2. gpuPc' = "poll" /\ start' = mem[GpuOpflag] /\ UNCHANGED mem
    BY <2>1, FlagAddresses DEF GpuPoll, GpuGoto, DirectRead
  <2> QED
    BY <1>1, <2>2 DEF GpuDone, GpuAtWork
<1> QED
  BY <1>2, <1>3

(***************************************************************************)
(* The image is processed once: when the GPU has stopped, no flag is up or *)
(* ever raised again, and neither the encryption module nor the GPU ever   *)
(* touches an image again.  So the rotated image is never encrypted (what  *)
(* the README announces), for any file.                                    *)
(***************************************************************************)
THEOREM ProcessedOnce ==
    Spec /\ EndFlagClear =>
        [](gpuPc = "stop" =>
              []( /\ mem[CryptoOpflag] # 1 /\ mem[GpuOpflag] # 1
                  /\ encPc \notin {"clear", "begin", "range", "read", "write"}
                  /\ gpuPc \in {"start", "poll", "stop"} ))
<1> DEFINE Inv == TypeInv /\ StageInv /\ GpuInv
           Idle == /\ mem[CryptoOpflag] # 1 /\ mem[GpuOpflag] # 1
                   /\ encPc \notin {"clear", "begin", "range", "read", "write"}
                   /\ gpuPc \in {"start", "poll", "stop"}
           Stopped == gpuPc = "stop"
<1>1. EndFlagClear /\ Init => Inv
  BY InitType, StageStart, GpuStart
<1>2. Inv /\ [Next]_vars => Inv'
  BY NextType, StageStep, GpuKept
<1>3. Inv /\ Stopped => GpuDone
  BY DEF GpuInv
<1>4. Inv /\ GpuDone /\ [Next]_vars => GpuDone'
  BY DoneForGood
<1>5. Inv /\ GpuDone => Idle
  BY DEF TypeInv, TypeOK, GpuTypeOK, GpuDone, GpuAtWork, Decrypted
<1> HIDE DEF Inv, Idle, Stopped
<1>6. Spec /\ EndFlagClear => [](Stopped => []Idle)
  BY <1>1, <1>2, <1>3, <1>4, <1>5, PTL DEF Spec
<1> QED
  BY <1>6 DEF Idle, Stopped
-----------------------------------------------------------------------------
(* The stored pixels. *)

\* The pixels of the valid lines that were taken from the channel are stored.
KeptInv == memory_idx = Place(LinesTaken) + 4

LEMMA NextPlace ==
    ASSUME NEW n \in 1..Len(Lines)
    PROVE  /\ Place(n) \in Int /\ Place(n - 1) \in Int
           /\ Place(n) = Place(n - 1) + IF ValidLine(Lines[n]) THEN 4 ELSE 0
<1>1. n \in Nat /\ n - 1 \in Nat
  BY LinesAssumption
<1>2. IsFiniteSet(ValidLines(n - 1))
  <2>1. IsFiniteSet(1..n - 1)
    BY <1>1, FS_Interval
  <2> QED
    BY <2>1, FS_Subset DEF ValidLines
<1>3. Cardinality(ValidLines(n - 1)) \in Nat
  BY <1>2, FS_CardinalityType
<1>4. CASE ValidLine(Lines[n])
  <2>1. ValidLines(n) = ValidLines(n - 1) \cup {n} /\ n \notin ValidLines(n - 1)
    BY <1>1, <1>4 DEF ValidLines
  <2>2. Cardinality(ValidLines(n)) = Cardinality(ValidLines(n - 1)) + 1
    BY <1>2, <2>1, FS_AddElement
  <2> QED
    BY <1>3, <1>4, <2>2 DEF Place
<1>5. CASE ~ValidLine(Lines[n])
  <2>1. ValidLines(n) = ValidLines(n - 1)
    BY <1>1, <1>5 DEF ValidLines
  <2> QED
    BY <1>3, <1>5, <2>1 DEF Place
<1> QED
  BY <1>4, <1>5

LEMMA InitKept == Init => KeptInv
<1> SUFFICES ASSUME Init PROVE KeptInv
  OBVIOUS
<1>1. LinesTaken = 0 /\ memory_idx = 16
  BY DEF Init, GeneratorInit, CommunicationInit, LinesTaken, LinesPut, SlotFull
<1>2. ValidLines(0) = {}
  BY DEF ValidLines
<1>3. Cardinality(ValidLines(0)) = 0
  BY <1>2, FS_EmptySet
<1> QED
  BY <1>1, <1>3 DEF KeptInv, Place

\* A line is counted when it is taken, and stored if it is valid.
LEMMA ChannelKeepsKept ==
    ASSUME TypeInv, LinkInv, KeptInv, ChannelStep
    PROVE  KeptInv'
<1> DEFINE slot == IF SlotFull THEN <<DecodedLine>> ELSE <<>>
<1>1. (slot = <<>> <=> ~SlotFull) /\ (slot' = <<>> <=> ~SlotFull')
  OBVIOUS
<1>2. LinesPut \in Int /\ memory_idx \in Int
  BY DEF LinesPut, TypeInv, TypeOK, GeneratorTypeOK, CommunicationTypeOK
<1>3. ASSUME UNCHANGED <<LinesTaken, memory_idx>> PROVE KeptInv'
  BY <1>3 DEF KeptInv, Place, ValidLines, ValidLine
<1>4. CASE UNCHANGED Channel!chanVars
  BY <1>1, <1>3, <1>4 DEF Channel!chanVars, LinesTaken
<1>5. CASE Channel!Put
  <2>1. ~SlotFull /\ SlotFull' /\ LinesPut' = LinesPut + 1 /\ UNCHANGED memory_idx
    BY <1>1, <1>5 DEF Channel!Put
  <2> QED
    BY <1>2, <1>3, <2>1 DEF LinesTaken
<1>6. CASE Channel!Take
  <2>1. SlotFull /\ ~SlotFull' /\ UNCHANGED LinesPut
    BY <1>1, <1>6 DEF Channel!Take
  <2>2. DecodedLine = Lines[line] /\ line \in 1..Len(Lines) /\ LinesPut = line
    BY <2>1, SlotIsLine
    DEF TypeInv, TypeOK, StoreBound, GeneratorTypeOK, LinesPut
  <2>3. memory_idx' = memory_idx + IF ValidLine(Lines[line]) THEN 4 ELSE 0
    BY <1>2, <1>6, <2>1, <2>2 DEF Channel!Take
  <2>4. LinesTaken = line - 1 /\ LinesTaken' = line
    BY <2>1, <2>2 DEF LinesTaken
  <2>5. Place(LinesTaken)' = Place(LinesTaken')
    BY DEF Place, ValidLines, ValidLine
  <2> QED
    BY <1>2, <2>2, <2>3, <2>4, <2>5, NextPlace DEF KeptInv
<1> QED
  BY <1>4, <1>5, <1>6 DEF ChannelStep

\* What is stored of the pixels, while the image is collected.
StoredAt(a) ==
    IF a < StoredEnd
      THEN \E n \in ValidLines(Len(Lines)) :
               Place(n) = a /\ mem[a] = Lines[n].pixel
      ELSE mem[a] = 0

\* The communication module's steps that are not the store.
LEMMA KeepsStored ==
    ASSUME NEW a, StoredAt(a), mem'[a] = mem[a], UNCHANGED StoredEnd
    PROVE  StoredAt(a)'
BY DEF StoredAt, ValidLines, ValidLine, Place

\* The pixel that is stored is the one of the line taken next.
LEMMA StoreInPlace ==
    ASSUME TypeInv, LinkInv, KeptInv, ComStorePixel
    PROVE  /\ line \in ValidLines(Len(Lines)) /\ Place(line) = memory_idx
           /\ packet[PacketWords] = Lines[line].pixel
<1>1. SlotFull /\ comPc = "receive" /\ Len(packet) = PacketWords /\ CheckCrc(packet)
  BY DEF ComStorePixel, PacketReceived, ComReady, TypeInv, StoreBound
<1>2. line \in 1..Len(Lines) /\ LinesTaken = line - 1
  BY <1>1 DEF TypeInv, TypeOK, GeneratorTypeOK, StoreBound, LinesTaken, LinesPut
<1>3. \A n \in 1..PacketWords : packet[n] = Stream(Lines[line])[n]
  BY <1>1 DEF LinkInv, PacketIntegrity
<1>4. Lines[line] \in Line
  BY <1>2, LinesAssumption
<1>5. ValidLine(Lines[line])
  BY <1>1, <1>3, <1>4, CheckIsValid
<1>6. packet[PacketWords] = Lines[line].pixel
  <2>1. PacketWords \in 1..PacketWords /\ ~(PacketWords <= CrcWords)
    BY WiringAssumption DEF PacketWords
  <2> QED
    BY <1>3, <2>1 DEF Stream
<1>7. Place(line) = memory_idx
  BY <1>2, <1>5, NextPlace DEF KeptInv
<1> QED
  BY <1>2, <1>5, <1>6, <1>7 DEF ValidLines

\* Pixels and addresses are both words apart.
LEMMA WordAligned ==
    ASSUME TypeInv, NEW a \in GlobalAddr, a # memory_idx
    PROVE  a < memory_idx + 4 <=> a < memory_idx
<1>1. PICK m \in 0..MemoryEnd \div 4 : a = 4 * m
  BY DEF GlobalAddr
<1>2. PICK n \in 0..Len(Lines) : memory_idx = 16 + 4 * n
  BY DEF TypeInv, TypeOK, CommunicationTypeOK
<1>3. m \in Int /\ n \in Int
  BY WiringAssumption, LinesAssumption
<1> QED
  BY <1>1, <1>2, <1>3

\* At first nothing is stored.
LEMMA NothingStored == Init => StoredInOrder
<1> SUFFICES ASSUME Init, NEW a \in GlobalAddr, a >= 16 PROVE StoredAt(a)
  BY DEF StoredInOrder, StoredAt
<1>1. StoredEnd = 16 /\ mem[a] = 0
  BY DEF Init, CommunicationInit, MemInit, StoredEnd
<1>2. a \in Int
  BY WiringAssumption DEF GlobalAddr
<1> QED
  BY <1>1, <1>2 DEF StoredAt

LEMMA StoresInOrder ==
    ASSUME TypeInv, LinkInv, KeptInv, BeginInv, StoredInOrder, [Next]_vars
    PROVE  StoredInOrder'
<1> SUFFICES ASSUME mem'[ImageBeginAddr] = 0,
                    NEW a \in GlobalAddr, a >= 16
             PROVE  StoredAt(a)'
  BY DEF StoredInOrder, StoredAt, GlobalAddr
<1>1. mem[ImageBeginAddr] = 0 /\ StoredAt(a)
  BY BeginStep DEF StoredInOrder, StoredAt
<1>2. Quiet /\ comPc \notin {"begin", "range", "crypto", "finish"}
  BY <1>1 DEF BeginInv
<1>3. MemTypeOK /\ memory_idx \in Int /\ memory_idx >= 16 /\ a \in Int
  BY WiringAssumption DEF TypeInv, TypeOK, CommunicationTypeOK, GlobalAddr
<1>4. CASE UNCHANGED <<mem, comPc, memory_idx>>
  BY <1>1, <1>4, KeepsStored DEF StoredEnd
<1>5. CASE CommunicationStep
  <2>1. CASE ComStart
    <3>1. mem'[a] = mem[a]
      BY <1>3, <2>1, FlagAddresses DEF ComStart, MemTypeOK
    <3>2. UNCHANGED StoredEnd
      BY <2>1 DEF ComStart, ComReady, ComGoto, StoredEnd
    <3> QED
      BY <1>1, <3>1, <3>2, KeepsStored
  <2>2. CASE ComPoll \/ ComReadOpflag \/ ComReceiveWord \/ ComRelease
    <3>1. UNCHANGED <<mem, StoredEnd>>
      BY <2>2
      DEF ComPoll, ComReadOpflag, ComReceiveWord, ComRelease, ComReady,
          ComGoto, PacketReceived, StoredEnd
    <3> QED
      BY <1>1, <3>1, KeepsStored
  <2>3. CASE ComStorePixel
    <3>1. /\ line \in ValidLines(Len(Lines)) /\ Place(line) = memory_idx
          /\ packet[PacketWords] = Lines[line].pixel
      BY <2>3, StoreInPlace
    <3>2. DirectWrite(memory_idx, packet[PacketWords])
      BY <2>3 DEF ComStorePixel
    <3>3. StoredEnd = memory_idx /\ StoredEnd' = memory_idx + 4
      BY <2>3 DEF ComStorePixel, PacketReceived, ComReady, ComGoto, StoredEnd
    <3>4. CASE a = memory_idx
      <4>1. mem'[a] = Lines[line].pixel
        BY <1>3, <3>1, <3>2, <3>4, DirectWritten
      <4>2. a < StoredEnd'
        BY <1>3, <3>3, <3>4
      <4> QED
        BY <3>1, <3>4, <4>1, <4>2 DEF StoredAt, ValidLines, ValidLine, Place
    <3>5. CASE a # memory_idx
      <4>1. mem'[a] = mem[a]
        BY <1>3, <3>2, <3>5, DirectWritten
      <4>2. a < StoredEnd' <=> a < StoredEnd
        BY <1>3, <3>3, <3>5, WordAligned
      <4> QED
        BY <1>1, <4>1, <4>2 DEF StoredAt, ValidLines, ValidLine, Place
    <3> QED
      BY <3>4, <3>5
  <2>4. CASE ComSaveBegin
    <3>1. DirectWrite(ImageBeginAddr, 16)
      BY <2>4 DEF ComSaveBegin, ComOpflag, ImageBeginAddr, ComMemoryBegin
    <3> QED
      BY <1>3, <3>1, DirectWritten, FlagAddresses
  <2> QED
    BY <1>2, <1>5, <2>1, <2>2, <2>3, <2>4
    DEF CommunicationStep, ComNext, ComSaveEnd, ComStartCrypto, ComClearEnd,
        ComReady
<1>6. CASE EncryptionStep \/ GpuStep
  BY <1>2, <1>4, <1>6, PollingKeepsMemory DEF EncryptionStep, GpuStep, comVars
<1>7. CASE GeneratorStep \/ TimeStep \/ UNCHANGED vars
  BY <1>4, <1>7 DEF GeneratorStep, TimeStep, vars, comVars
<1> QED
  BY <1>5, <1>6, <1>7 DEF Next

(***************************************************************************)
(* Until the image is announced, the memory holds the pixels of the valid  *)
(* lines in the order of the file and nothing behind them, for every file, *)
(* damaged or not, packet length, memory and initial packet memory.        *)
(***************************************************************************)
THEOREM StoredInOrderHolds == Spec => []StoredInOrder
<1> DEFINE Inv == TypeInv /\ LinkInv /\ KeptInv /\ BeginInv /\ StoredInOrder
<1>1. Init => Inv
  BY InitType, InitLink, InitKept, BeginStart, NothingStored
<1>2. Inv /\ [Next]_vars => Inv'
  BY NextType, NextLink, NextChannel, ChannelKeepsKept, BeginStep, StoresInOrder
<1>3. Inv => StoredInOrder
  OBVIOUS
<1> HIDE DEF Inv
<1> QED
  BY <1>1, <1>2, <1>3, PTL DEF Spec
=============================================================================
