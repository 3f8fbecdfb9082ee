------------------------------ MODULE Generator ------------------------------
(***************************************************************************)
(* simple_bus_master_gerad::main_action: the thread that plays the network *)
(* side.  It feeds the lines of the input file, one packet at a time, into *)
(* the packet memory, raises the operation flag for each, and raises the   *)
(* end flag once when the file is exhausted.                               *)
(*                                                                         *)
(* genPc names the wait the thread is at; an action runs from that wait to *)
(* the next.  Erasing the first line of the file is counting it in "line": *)
(* the lines not taken yet are those after Lines[line].                    *)
(***************************************************************************)
EXTENDS SystemCKernel, PacketMemory, Packet

VARIABLES
    genPc,      \* the wait the generator is at
    flag,       \* last operation flag read or written
    flags,      \* last end flag read or written
    change,     \* 1 once the end flag was raised
    line,       \* number of lines taken from the file
    sent        \* words of the current packet written so far

genVars == <<genPc, flag, flags, change, line, sent>>

GeneratorTypeOK ==
    /\ genPc \in {"start", "top", "poll", "send", "flags"}
    /\ flag \in Word
    /\ flags \in Word
    /\ change \in {0, 1}
    /\ line \in 0..Len(Lines)
    /\ sent \in 0..PacketWords

GeneratorInit ==
    /\ genPc = "start"
    /\ flag = 0 /\ flags = 0 /\ change = 0
    /\ line = 0 /\ sent = 0

GenGoto(pc) ==
    /\ genPc' = pc
    /\ Wait("generator", ComTimeout)

GenReady(pc) == Ready("generator") /\ genPc = pc

\* Mutant: the last line counts as the end of the file.
FileEmptyEarly == line + 1 >= Len(Lines)

\* file.size() == 0
FileEmpty == line = Len(Lines)

\* Clear the operation flag, read the file, read the flag back.
GenStart ==
    /\ GenReady("start")
    /\ PacketWrite(ComOpflag, 0)
    /\ flag' = 0
    /\ GenGoto("poll")
    /\ UNCHANGED <<flags, change, line, sent>>

\* The top of the loop, reached from its end or by "continue".
GenPoll ==
    /\ GenReady("top") \/ (GenReady("poll") /\ flag = 1)
    /\ flag' = pmem[ComOpflag]
    /\ GenGoto("poll")
    /\ UNCHANGED <<pmem, flags, change, line, sent>>

GenReadEndFlag ==
    /\ GenReady("poll") /\ flag # 1
    /\ FileEmpty
    /\ flags' = pmem[ComEndOpflag]
    /\ GenGoto("flags")
    /\ UNCHANGED <<pmem, flag, change, line, sent>>

\* Mutant: the end flag is only raised in the thread's own variable.
GenSignalEndLocally ==
    /\ GenReady("flags")
    /\ IF flags = 0 /\ change = 0
         THEN flags' = 1 /\ change' = 1
         ELSE UNCHANGED <<flags, change>>
    /\ GenGoto("top")
    /\ UNCHANGED <<pmem, flag, line, sent>>

GenSignalEnd ==
    /\ GenReady("flags")
    /\ IF flags = 0 /\ change = 0
         THEN /\ flags' = 1 /\ change' = 1
              /\ PacketWrite(ComEndOpflag, 1)
         ELSE UNCHANGED <<pmem, flags, change>>
    /\ GenGoto("top")
    /\ UNCHANGED <<flag, line, sent>>

\* Mutant: a line is taken while the slot may still be full.
GenTakeLineUnchecked ==
    /\ GenReady("poll")
    /\ ~FileEmpty
    /\ line' = line + 1
    /\ PacketWrite(WordAddr(1), Stream(Lines[line + 1])[1])
    /\ sent' = 1
    /\ GenGoto("send")
    /\ UNCHANGED <<flag, flags, change>>

\* Take the next line, make the packet, write its first word.
GenTakeLine ==
    /\ GenReady("poll") /\ flag # 1
    /\ ~FileEmpty
    /\ line' = line + 1
    /\ PacketWrite(WordAddr(1), Stream(Lines[line + 1])[1])
    /\ sent' = 1
    /\ GenGoto("send")
    /\ UNCHANGED <<flag, flags, change>>

GenSendWord ==
    /\ GenReady("send") /\ sent < PacketWords
    /\ PacketWrite(WordAddr(sent + 1), Stream(Lines[line])[sent + 1])
    /\ sent' = sent + 1
    /\ GenGoto("send")
    /\ UNCHANGED <<flag, flags, change, line>>

GenRaiseFlag ==
    /\ GenReady("send") /\ sent = PacketWords
    /\ flag' = 1
    /\ PacketWrite(ComOpflag, 1)
    /\ GenGoto("top")
    /\ UNCHANGED <<flags, change, line, sent>>

GenNext ==
    \/ GenStart \/ GenPoll \/ GenReadEndFlag \/ GenSignalEnd
    \/ GenTakeLine \/ GenSendWord \/ GenRaiseFlag
=============================================================================
