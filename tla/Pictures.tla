------------------------------ MODULE Pictures ------------------------------
(***************************************************************************)
(* The way of a picture's bytes from a decoder to the PNG file it is saved *)
(* as: WebpToDib, DdsToDib and CollectorIconChunk store rows in a DIB,     *)
(* CreatePremultipliedBitmap makes the copy that is drawn if there is      *)
(* transparency, and SavePngFile turns the DIB into rows for the encoder.  *)
(* Each has its own loops, with its own length of a row, order of rows and *)
(* of colours.                                                             *)
(*                                                                         *)
(* A byte is named by what it says: <<x, y, c>> is colour c of the pixel   *)
(* in column x and row y of the picture as it is meant to be seen.  Every  *)
(* loop runs inside __try: a read behind a block goes unnoticed or ends    *)
(* the loop.                                                               *)
(***************************************************************************)
EXTENDS Integers, Sequences

CONSTANTS
  Widths, Heights,  \* sizes of pictures to look at
  AlphaValues       \* values of alpha: 0, 255 and others

VARIABLES
  pc,        \* "load", "read", "decode", "allocate", "lock", "rows", "section", "blend",
             \* "blended", "save", "buffer", "png", "encode", "write", "done"
  picture,   \* what is decoded, and into which kind of DIB
  hDib,      \* the bytes of the DIB
  bits,      \* its biBitCount
  topdown,   \* is its biHeight negative?
  row,       \* the row of the loop
  alphas,    \* the values of alpha that the blending has seen
  hbmpDib,   \* the bytes of the blended copy
  lpRGBA,    \* the bytes for the encoder
  held,      \* the blocks that are allocated, but for the DIB of the picture
  hasDib,    \* is that DIB allocated?
  saved,     \* was the file written?
  faulted,   \* history: did a loop end early?
  overrun    \* history: was a byte written behind a block?

shape  == <<picture, bits, topdown>>
buffers == <<hDib, hbmpDib, lpRGBA>>
vars == <<pc, shape, buffers, row, alphas, held, hasDib, saved, faulted, overrun>>

-----------------------------------------------------------------------------
W == picture.width
H == picture.height

Zero    == <<-1, -1, "zero">>     \* a new block is filled with zeros
Outside == <<-2, -2, "outside">>  \* what stands behind a block
Padding == <<-3, -3, "padding">>
Opaque  == <<-4, -4, "opaque">>

WIDTHBYTES(n) == 4 * ((n + 31) \div 32)
Memory(n) == [i \in 1..n |-> Zero]
ByteAt(block, at) == IF at < Len(block) THEN block[at + 1] ELSE Outside
Bytes(block, at, n) == [i \in 1..n |-> ByteAt(block, at + i - 1)]
Put(block, at, bytes) ==
  [i \in DOMAIN block |-> IF i - at \in DOMAIN bytes THEN bytes[i - at] ELSE block[i]]

(* The colours of a pixel, in their order in memory.                        *)
Colours(n, cmyk) == CASE n = 32 /\ cmyk  -> <<"Y", "M", "C", "K">>
                      [] n = 32 /\ ~cmyk -> <<"B", "G", "R", "A">>
                      [] n = 24 -> <<"B", "G", "R">>
                      [] n = 16 -> <<"low", "high">>
                      [] n = 8  -> <<"index">>
RowsOf(y, colours, length) ==
  LET n == Len(colours)
  IN  [i \in 1..(H * length) |->
         LET at == (i - 1) % length
         IN  IF at < W * n THEN <<at \div n, y[(i - 1) \div length], colours[1 + (at % n)]>>
                           ELSE Padding]
UpDown == [s \in 0..(H - 1) |-> s]
DownUp == [s \in 0..(H - 1) |-> (H - 1) - s]

(* GetColorValue, and the formulas for CMYK: a colour of a pixel, if the    *)
(* bytes are those of one pixel.                                            *)
Colour(bytes, n, c) ==
  LET x == bytes[1][1]
      y == bytes[1][2]
      colours == Colours(n, picture.cmyk)
  IN  CASE bytes = [i \in DOMAIN colours |-> <<x, y, colours[i]>>] -> <<x, y, c>>
        [] \A i \in DOMAIN bytes : bytes[i] = Zero -> Zero
        [] OTHER -> Outside
Alpha(byte) == CASE byte = Zero -> 0
                 [] byte = Outside -> 255
                 [] OTHER -> picture.alpha[1 + ((byte[1] + byte[2]) % 2)]

-----------------------------------------------------------------------------
(* Files with a picture; a DIB may be cut off, and is stored in either      *)
(* order.                                                                   *)
Picture(formats, depths, flips, orders, cuts) ==
  [format : formats, bits : depths, cmyk : BOOLEAN, mask : BOOLEAN, bFlipImage : flips,
   topdown : orders, cut : cuts, width : Widths, height : Heights,
   alpha : AlphaValues \X AlphaValues]
Files ==
  {file \in Picture({"webp"}, {24, 32}, BOOLEAN, {FALSE}, {0}) \cup
            Picture({"dds"}, {32}, {FALSE}, {FALSE}, {0}) \cup
            Picture({"icon"}, {32}, {TRUE}, {FALSE}, {0}) \cup
            Picture({"dib"}, {8, 16, 24, 32}, {FALSE}, BOOLEAN, {0, 1}) :
     /\ file.cmyk => file.format = "dib" /\ file.bits = 32 /\ ~file.mask
     /\ file.mask => file.bits \in {16, 32}
     /\ ~file.mask => file.alpha = <<255, 255>>
     /\ file.format # "dib" /\ file.bits = 32 => file.mask
     /\ file.bits = 8 => file.cut = 0}

(* A DIB of another decoder or of a bitmap file is there already.           *)
GivenDib ==
  LET all == RowsOf(IF picture.topdown THEN UpDown ELSE DownUp,
                  Colours(picture.bits, picture.cmyk), WIDTHBYTES(W * picture.bits))
  IN  [i \in 1..(Len(all) - picture.cut) |-> all[i]]

Init ==
  /\ picture \in Files
  /\ bits = picture.bits /\ topdown = picture.topdown
  /\ IF picture.format = "dib" THEN pc = "section" /\ hDib = GivenDib /\ hasDib = TRUE
                               ELSE pc = "load" /\ hDib = <<>> /\ hasDib = FALSE
  /\ row = 0 /\ alphas = {} /\ hbmpDib = <<>> /\ lpRGBA = <<>> /\ held = {}
  /\ saved = FALSE /\ faulted = FALSE /\ overrun = FALSE

Goto(place) == pc' = place /\ row' = 0

(* One more row of a loop, or its end.                                      *)
MoreRows(place) == pc = place /\ row < H
EndOfRows(place) == pc = place /\ row = H
NextRow == row' = row + 1 /\ UNCHANGED pc
Reads(block, at, n) == at + n <= Len(block)
Writes(block, at, bytes) == overrun' = (overrun \/ at + Len(bytes) > Len(block))

-----------------------------------------------------------------------------
(* WebpToDib and DdsToDib, and the copy of an uncompressed icon.  Pictures  *)
(* in a collector's file are stored from bottom to top (bFlipImage).        *)
Channels == picture.bits \div 8
lpBits == RowsOf(IF picture.bFlipImage THEN DownUp ELSE UpDown,
               IF picture.format = "dds" THEN <<"R", "G", "B", "A">>
                                         ELSE Colours(picture.bits, FALSE), W * Channels)
nIncrement == IF picture.format = "webp" THEN WIDTHBYTES(W * Channels * 8) ELSE W * 4
nSrcPtr == (IF picture.bFlipImage THEN row ELSE (H - 1) - row) * W * Channels

(* A row of WebP is copied with as many bytes as a row of the DIB has, the  *)
(* next row or what stands behind the block included; of DDS, red and blue  *)
(* are exchanged.                                                           *)
Exchanged(bytes) ==
  [i \in DOMAIN bytes |-> CASE i % 4 = 1 -> bytes[i + 2] [] i % 4 = 3 -> bytes[i - 2]
                            [] OTHER -> bytes[i]]
DecodedRow == IF picture.format = "dds" THEN Exchanged(Bytes(lpBits, nSrcPtr, nIncrement))
                                        ELSE Bytes(lpBits, nSrcPtr, nIncrement)

(* The caller's copy of the file (DumpWebP, DisplayDDS, CollectorIconChunk).*)
Load ==
  /\ pc = "load"
  /\ \/ Goto("read") /\ held' = {"lpData"}
     \/ Goto("done") /\ UNCHANGED held
  /\ UNCHANGED <<shape, buffers, alphas, hasDib, saved, faulted, overrun>>

ReadFile ==
  /\ pc = "read"
  /\ \/ Goto(IF picture.format = "icon" THEN "allocate" ELSE "decode") /\ UNCHANGED held
     \/ Goto("done") /\ held' = held \ {"lpData"}
  /\ UNCHANGED <<shape, buffers, alphas, hasDib, saved, faulted, overrun>>

(* No picture: the caller marks the file as unsupported and frees its copy. *)
NoPicture(blocks) == Goto("done") /\ held' = held \ (blocks \cup {"lpData"})

(* The decoder reports an error, or an exception that the caller catches.   *)
Decode ==
  /\ pc = "decode"
  /\ \/ Goto("allocate") /\ held' = held \cup {"lpBits"}
     \/ NoPicture({})
  /\ UNCHANGED <<shape, buffers, alphas, hasDib, saved, faulted, overrun>>

AllocateDib ==
  /\ pc = "allocate"
  /\ \/ /\ Goto("lock")
        /\ hDib' = Memory(nIncrement * H) /\ hasDib' = TRUE
        /\ UNCHANGED held
     \/ NoPicture({"lpBits"}) /\ UNCHANGED <<hDib, hasDib>>
  /\ UNCHANGED <<shape, hbmpDib, lpRGBA, alphas, saved, faulted, overrun>>

(* A DIB that cannot be locked is freed, but for that of an icon.           *)
LockDib ==
  /\ pc = "lock"
  /\ \/ Goto("rows") /\ UNCHANGED <<held, hasDib>>
     \/ picture.format # "icon" /\ NoPicture({"lpBits"}) /\ hasDib' = FALSE
     \/ /\ picture.format = "icon"
        /\ Goto("done") /\ held' = (held \ {"lpData"}) \cup {"hDib"} /\ hasDib' = FALSE
  /\ UNCHANGED <<shape, buffers, alphas, saved, faulted, overrun>>

(* A fault comes with the first byte behind the block.                      *)
DecodeRow ==
  /\ MoreRows("rows")
  /\ hDib' = Put(hDib, row * nIncrement, DecodedRow)
  /\ Writes(hDib, row * nIncrement, DecodedRow)
  /\ \/ NextRow /\ UNCHANGED faulted
     \/ /\ ~Reads(lpBits, nSrcPtr, nIncrement)
        /\ row' = H /\ faulted' = TRUE /\ UNCHANGED pc
  /\ UNCHANGED <<shape, hbmpDib, lpRGBA, alphas, held, hasDib, saved>>

Decoded ==
  /\ EndOfRows("rows")
  /\ Goto("section")
  /\ held' = held \ {"lpBits"}
  /\ UNCHANGED <<shape, buffers, alphas, hasDib, saved, faulted, overrun>>

-----------------------------------------------------------------------------
(* CreatePremultipliedBitmap                                                *)
dwIncrement == WIDTHBYTES(W * bits)
nBytes      == bits \div 8
Pixel(stored, x) == Bytes(hDib, stored * dwIncrement + x * nBytes, nBytes)
Pixels(stored, colours) ==
  LET n == Len(colours)
  IN  [i \in 1..(W * n) |->
         LET c == colours[1 + ((i - 1) % n)]
         IN  IF c = "opaque" THEN Opaque ELSE Colour(Pixel(stored, (i - 1) \div n), bits, c)]

CreateDIBSection ==
  /\ pc = "section"
  /\ \/ /\ bits \in {16, 32} /\ ~picture.cmyk
        /\ Goto(IF picture.mask THEN "blend" ELSE "blended")
        /\ hbmpDib' = Memory(W * H * 4) /\ held' = held \cup {"hbmpDib"}
     \/ Goto("blended") /\ UNCHANGED <<hbmpDib, held>>
  /\ UNCHANGED <<shape, hDib, lpRGBA, alphas, hasDib, saved, faulted, overrun>>

BlendRow ==
  LET bytes == Pixels(row, <<"B", "G", "R", "A">>)
  IN  /\ MoreRows("blend")
      /\ \/ /\ NextRow
            /\ hbmpDib' = Put(hbmpDib, row * W * 4, bytes)
            /\ Writes(hbmpDib, row * W * 4, bytes)
            /\ alphas' = alphas \cup {Alpha(bytes[4 * x]) : x \in 1..W}
            /\ UNCHANGED faulted
         \/ /\ ~Reads(hDib, row * dwIncrement, W * nBytes)
            /\ row' = H /\ faulted' = TRUE
            /\ UNCHANGED <<pc, hbmpDib, alphas, overrun>>
      /\ UNCHANGED <<shape, hDib, lpRGBA, held, hasDib, saved>>

BlendedAll ==
  /\ EndOfRows("blend")
  /\ Goto("blended")
  /\ UNCHANGED <<shape, buffers, alphas, held, hasDib, saved, faulted, overrun>>

(* A copy that shows nothing or hides nothing is deleted.  The caller frees *)
(* its copy of the file.                                                    *)
Blended ==
  /\ pc = "blended"
  /\ Goto("save")
  /\ IF alphas \ {0} = {} \/ alphas \ {255} = {}
     THEN held' = held \ {"hbmpDib", "lpData"} /\ hbmpDib' = <<>>
     ELSE held' = held \ {"lpData"} /\ UNCHANGED hbmpDib
  /\ UNCHANGED <<shape, hDib, lpRGBA, alphas, hasDib, saved, faulted, overrun>>

-----------------------------------------------------------------------------
(* SavePngFile.  A DIB with a palette is converted, and the function calls  *)
(* itself with the new one.                                                 *)
SaveConverted ==
  /\ pc = "save" /\ bits < 16
  /\ bits' = 24 /\ topdown' = FALSE
  /\ hDib' = RowsOf(DownUp, Colours(24, FALSE), WIDTHBYTES(W * 24))
  /\ held' = held \cup {"hNewDib"}
  /\ UNCHANGED <<pc, picture, hbmpDib, lpRGBA, row, alphas, hasDib, saved, faulted, overrun>>

Save ==
  /\ pc = "save" /\ bits >= 16
  /\ Goto("buffer")
  /\ UNCHANGED <<shape, buffers, alphas, held, hasDib, saved, faulted, overrun>>

(* What the inner and the outer call free.  (Mutant: the encoded file is    *)
(* forgotten.)                                                              *)
FreedBlocksButPng == {"lpRGBA", "hNewDib"}
FreedBlocks == {"lpRGBA", "lpPNG", "hNewDib"}
Return(success) ==
  /\ Goto("done")
  /\ held' = held \ FreedBlocks
  /\ saved' = success

(* An unknown compression, no memory, no file, or the disk is full.         *)
SaveFails ==
  /\ pc \in {"save", "buffer", "encode", "write"}
  /\ Return(FALSE)
  /\ UNCHANGED <<shape, buffers, alphas, hasDib, faulted, overrun>>

nNumChannels == CASE nBytes = 2 -> IF picture.mask THEN 4 ELSE 3
                  [] nBytes = 3 -> 3
                  [] nBytes = 4 -> IF picture.cmyk THEN 3 ELSE 4
lSizeImage == H * W * (IF bits = 16 THEN 4 ELSE nBytes)

AllocateBuffer ==
  /\ pc = "buffer"
  /\ Goto("png")
  /\ lpRGBA' = Memory(lSizeImage) /\ held' = held \cup {"lpRGBA"}
  /\ UNCHANGED <<shape, hDib, hbmpDib, alphas, hasDib, saved, faulted, overrun>>

(* (Mutant: all DIBs are taken to be stored from bottom to top.)            *)
StoredRowBottomUp == (H - 1) - row
StoredRow == IF topdown THEN row ELSE (H - 1) - row

PngColours == CASE nNumChannels = 3 -> <<"R", "G", "B">>
                [] nNumChannels = 4 -> <<"R", "G", "B", IF picture.mask THEN "A" ELSE "opaque">>

PngRow ==
  LET bytes == Pixels(StoredRow, PngColours)
      at    == row * W * nNumChannels
  IN  /\ MoreRows("png")
      /\ \/ /\ NextRow
            /\ lpRGBA' = Put(lpRGBA, at, bytes) /\ Writes(lpRGBA, at, bytes)
            /\ UNCHANGED faulted
         \/ /\ ~Reads(hDib, StoredRow * dwIncrement, W * nBytes)
            /\ row' = H /\ faulted' = TRUE
            /\ UNCHANGED <<pc, lpRGBA, overrun>>
      /\ UNCHANGED <<shape, hDib, hbmpDib, alphas, held, hasDib, saved>>

Encode ==
  /\ EndOfRows("png")
  /\ Goto("encode")
  /\ UNCHANGED <<shape, buffers, alphas, held, hasDib, saved, faulted, overrun>>

(* tdefl_write_image_to_png_file_in_memory                                  *)
Encoded ==
  /\ pc = "encode"
  /\ Goto("write")
  /\ held' = held \cup {"lpPNG"}
  /\ UNCHANGED <<shape, buffers, alphas, hasDib, saved, faulted, overrun>>

Write ==
  /\ pc = "write"
  /\ Return(TRUE)
  /\ UNCHANGED <<shape, buffers, alphas, hasDib, faulted, overrun>>

Next ==
  \/ Load \/ ReadFile \/ Decode \/ AllocateDib \/ LockDib \/ DecodeRow \/ Decoded
  \/ CreateDIBSection \/ BlendRow \/ BlendedAll \/ Blended
  \/ SaveConverted \/ Save \/ SaveFails \/ AllocateBuffer \/ PngRow \/ Encode \/ Encoded \/ Write

Spec == Init /\ [][Next]_vars

-----------------------------------------------------------------------------
(* The bytes of a pixel.  Those of one that was cut off mean nothing, and   *)
(* after a read that failed, bytes are missing.                             *)
Missing == IF faulted THEN {Zero} ELSE {}
CutOff  == IF picture.cut > 0 THEN {Outside} ELSE {}
Means(bytes, x, y, colours) ==
  \A c \in DOMAIN colours : bytes[c] \in {<<x, y, colours[c]>>} \cup CutOff \cup Missing

(* Every pixel keeps its column, its row and its colours: in the DIB that   *)
(* WebpToDib and DdsToDib make, in the copy that CreatePremultipliedBitmap  *)
(* makes for the same rows, and in what SavePngFile gives to the encoder,   *)
(* whatever the length of a row, the order of the rows, and the number of   *)
(* bits.  Nothing is written behind the end of a block.  A read that failed *)
(* leaves pixels black or transparent, but none that is another one's.      *)
Pixel0(x, y) == Pixel(IF topdown THEN y ELSE (H - 1) - y, x)
DibAsDecoded ==
  pc \notin {"load", "read", "decode", "allocate", "lock", "rows", "done"} =>
    \A x \in 0..(W - 1), y \in 0..(H - 1) :
      Means(Pixel0(x, y), x, y, Colours(bits, picture.cmyk))
CopyAsDib ==
  pc \in {"blended", "save"} /\ picture.mask /\ "hbmpDib" \in held =>
    \A x \in 0..(W - 1), y \in 0..(H - 1) :
      Means(Bytes(hbmpDib, ((IF topdown THEN y ELSE (H - 1) - y) * W + x) * 4, 4), x, y,
            <<"B", "G", "R", "A">>)
FileAsDib ==
  saved =>
    \A x \in 0..(W - 1), y \in 0..(H - 1) :
      LET n  == nNumChannels
          at == (y * W + x) * n
      IN  /\ Means(Bytes(lpRGBA, at, 3), x, y, <<"R", "G", "B">>)
          /\ n = 4 => IF picture.mask THEN Means(Bytes(lpRGBA, at + 3, 1), x, y, <<"A">>)
                                      ELSE ByteAt(lpRGBA, at + 3) \in {Opaque} \cup Missing
SavedAsShown == ~overrun /\ DibAsDecoded /\ CopyAsDib /\ FileAsDib

(* Whichever step fails, nothing stays allocated but the DIB, if it was     *)
(* made, and the copy, if it both shows and hides something; and nothing is *)
(* used that was freed.  An icon's DIB that cannot be locked is left.       *)
GivenBack ==
  /\ pc = "done" =>
       held \subseteq {"hbmpDib"} \cup (IF picture.format = "icon" THEN {"hDib"} ELSE {})
  /\ pc \notin {"section", "blend", "blended"} =>
       ("hbmpDib" \in held <=> alphas \ {0} # {} /\ alphas \ {255} # {})
  /\ pc \notin {"load", "read", "decode", "allocate", "done"} => hasDib
  /\ ~hasDib => alphas = {} /\ ~saved
=============================================================================
