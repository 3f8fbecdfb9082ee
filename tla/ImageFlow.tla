------------------------------ MODULE ImageFlow ------------------------------
(***************************************************************************)
(* What is expected of the image on its way through the global memory,     *)
(* when the file is the offline tool's, so that all its packets are valid, *)
(* and the end flag starts cleared.                                        *)
(***************************************************************************)
EXTENDS PacketTransfer, InputFile

CONSTANT Image      \* what the tool was given: the image with its header

\* The file holds what the tool made of the image.
ASSUME FileAssumption == Image \in Seq(Word) /\ Lines = File(Image)

\* Word 1 of the image is its width, word 2 its height.
Plain(n) == Image[n]
ImageWidth == Plain(1)
ImageHeight == Plain(2)
Pixel(x, y) == Plain(3 + x + y * ImageWidth)

WordOf(n) == 16 + 4 * (n - 1)

(***************************************************************************)
(* The image passes from stage to stage, and one stage at most handles it. *)
(* A raised flag is a stage of its own: the image waits for the thread     *)
(* that polls it.  (The encryption module still moves the beginning of the *)
(* image after it has raised the GPU's flag: see RotatesReceivedImage.)    *)
(***************************************************************************)
Stages == {"communication", "toEncryption", "encryption", "toGpu", "gpu"}

HasImage(stage) ==
    CASE stage = "communication" -> comPc \in {"receive", "store", "begin", "range"}
      [] stage = "toEncryption"  -> mem[CryptoOpflag] = 1
      [] stage = "encryption"    -> encPc \in {"clear", "begin", "range", "read", "write"}
      [] stage = "toGpu"         -> mem[GpuOpflag] = 1 /\ gpuPc = "poll"
      [] stage = "gpu"           -> gpuPc \notin {"start", "poll", "stop"}

OneStageAtATime == Cardinality({s \in Stages : HasImage(s)}) <= 1

(***************************************************************************)
(* Decryption sweeps the image once: behind the word PRGA is at every word *)
(* is decrypted, from it on none is, so no word is decrypted twice and     *)
(* every word meets its own byte of the key stream.                        *)
(***************************************************************************)
DecryptionSweep ==
    encPc \in {"read", "write"} =>
        \A n \in 1..Len(Lines) :
            mem[WordOf(n)] =
                IF WordOf(n) < w \/ (WordOf(n) = w /\ encPc = "write")
                  THEN Plain(n) ELSE Lines[n].pixel

(***************************************************************************)
(* The GPU rotates the received image by 90 degrees clockwise: the pixel   *)
(* at column x and row y of the result is the one at column y and row      *)
(* height - 1 - x of the image.                                            *)
(***************************************************************************)
Rotating == gpuPc \in {"newWidth", "newHeight", "write", "stop"}

RotatedImage ==
    /\ width = ImageWidth /\ height = ImageHeight
    /\ \A x \in 0..ImageHeight - 1, y \in 0..ImageWidth - 1 :
          bufferB[x + y * ImageHeight] = Pixel(y, ImageHeight - 1 - x)

RotatesReceivedImage == Rotating => RotatedImage

\* The same, if the GPU read the beginning of the image in time.
RotatesImageAtBase == Rotating /\ rd_addr = 24 => RotatedImage

(***************************************************************************)
(* The three threads behind the generator, their flags and the memory      *)
(* between them implement the pipeline: each word of the image arrives and *)
(* is decrypted once, the GPU turns what was decrypted and nothing else,   *)
(* and no step of any thread changes a word of the image or the picture    *)
(* but as the pipeline does.                                               *)
(***************************************************************************)
Arrived == (StoredEnd - 16) \div 4

Arriving == mem[ImageBeginAddr] = 0 \/ comPc \in {"begin", "range"}
InDecryption == HasImage("toEncryption") \/ HasImage("encryption")
Saving == gpuPc \in {"newWidth", "newHeight", "write"}

StageNow ==
    IF Arriving THEN "receive"
    ELSE IF InDecryption THEN "decrypt"
    ELSE IF Saving THEN "save"
    ELSE IF mem[GpuOpflag] = 1 THEN "rotate" ELSE "done"

Turned == StageNow \in {"save", "done"}

SentWords == [n \in 1..Len(Lines) |-> Lines[n].pixel]

StoredWords == [n \in 1..Arrived |-> mem[WordOf(n)]]

\* The word at rd_addr.
First == (rd_addr - 16) \div 4 + 1

FirstTaken == IF Turned THEN First ELSE 0

\* The rotated image, by column and row.
Picture ==
    IF Turned
      THEN [p \in (0..height - 1) \X (0..width - 1) |->
                bufferB[pixelAddr(p[1], p[2], height)]]
      ELSE <<>>

Pipeline == INSTANCE ImagePipeline WITH
    Sent    <- SentWords,
    stage   <- StageNow,
    words   <- StoredWords,
    first   <- FirstTaken,
    picture <- Picture

PipelineSpec == Pipeline!Spec

(***************************************************************************)
(* The image gets through all stages: the GPU processes it, clears its     *)
(* flag, and no flag is raised again; if the GPU read the beginning of the *)
(* image in time, the dimensions in the header are swapped for good.       *)
(***************************************************************************)
ImageProcessed ==
    <>[]( /\ mem[CryptoOpflag] = 0 /\ mem[GpuOpflag] = 0
          /\ gpuPc = "poll" /\ start = 0 /\ rd_addr \in {16, 24}
          /\ rd_addr = 24 => /\ mem[ImageWidthAddr] = ImageHeight
                             /\ mem[ImageHeightAddr] = ImageWidth )

\* README: after the rotation the image is encrypted again.
RotatedImageReencrypted == gpuPc = "stop" ~> encPc = "read"
=============================================================================
