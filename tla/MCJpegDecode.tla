---------------------------- MODULE MCJpegDecode ----------------------------
(***************************************************************************)
(* The thumbnail's picture, for TLC: a JPEG picture is decoded             *)
(* (JpegDecode), another picture is decoded, blended and saved (Pictures), *)
(* or a bitmap file becomes a DIB (BitmapFile).  Those that are not looked *)
(* at are over.                                                            *)
(*                                                                         *)
(* The DWORDs of JpegDecode have five bits, so that its largest picture    *)
(* (three rows of ten) overflows with any header.                          *)
(***************************************************************************)
EXTENDS Integers, JpegDecode

CONSTANTS PictureWidths, PictureHeights, AlphaValues
CONSTANTS HeaderSizes, BitCounts, ClrUsed, Gaps, Overlaps, ProfileSizes, TagCounts, Image

VARIABLES picPc, picFile, picDib, bits, topdown, row, alphas, hbmpDib, lpRGBA, held, hasDib,
          saved, picFaulted, overrun
VARIABLES bmpPc, file, bmpSize, colours, offBits, bitsAt, cleared, owner, allocated, shown

picVars == <<picPc, picFile, picDib, bits, topdown, row, alphas, hbmpDib, lpRGBA, held, hasDib,
             saved, picFaulted, overrun>>
bmpVars == <<bmpPc, file, bmpSize, colours, offBits, bitsAt, cleared, owner, allocated, shown>>

Pic == INSTANCE Pictures WITH
  pc <- picPc, picture <- picFile, hDib <- picDib, faulted <- picFaulted,
  Widths <- PictureWidths, Heights <- PictureHeights
Bmp == INSTANCE BitmapFile WITH pc <- bmpPc, size <- bmpSize, result <- shown

(* A picture has at least one row and one column.                           *)
ASSUME PictureAssumption ==
  /\ PictureWidths \subseteq Nat \ {0}
  /\ PictureHeights \subseteq Nat \ {0}

(* What a bitmap file counts are numbers without a sign, and no file comes  *)
(* near the size at which a DWORD wraps around.                             *)
ASSUME BitmapAssumption ==
  /\ HeaderSizes \subseteq Nat /\ BitCounts \subseteq Nat /\ ClrUsed \subseteq Nat
  /\ Gaps \subseteq Nat /\ Overlaps \subseteq Nat
  /\ ProfileSizes \subseteq Nat /\ TagCounts \subseteq Nat /\ Image \in Nat
  /\ \A f \in Bmp!Files : Bmp!Length(f) < Bmp!Huge

NoJpeg ==
  /\ pc = "over" /\ data = FALSE
  /\ jpeg = "none" /\ bNeedDestroy = FALSE /\ destroys = 0
  /\ profile = "none" /\ dib = "none" /\ locked = FALSE /\ hDib = FALSE
  /\ shape = NoShape /\ size = 0 /\ bFlipImage = FALSE /\ scanline = 0
  /\ written = {} /\ embedded = FALSE
  /\ result = "null" /\ lost = FALSE /\ faulted = FALSE

NoPicture ==
  /\ picPc = "done" /\ picFile = [width |-> 1, height |-> 1, cut |-> 0, format |-> "webp"]
  /\ picDib = <<>> /\ bits = 24
  /\ topdown = FALSE /\ row = 0 /\ alphas = {} /\ hbmpDib = <<>> /\ lpRGBA = <<>>
  /\ held = {} /\ hasDib = FALSE /\ saved = FALSE /\ picFaulted = FALSE /\ overrun = FALSE

NoBitmap ==
  /\ bmpPc = "done" /\ shown = "failed" /\ owner = "none" /\ allocated = 0
  /\ file = [header |-> 12, bits |-> 24, compression |-> "RGB", clrUsed |-> 0, gap |-> 0]
  /\ bmpSize = 0 /\ colours = 0 /\ offBits = 0 /\ bitsAt = 12 /\ cleared = {}

PicturesInit == \/ Init /\ NoPicture /\ NoBitmap
                \/ NoJpeg /\ Pic!Init /\ NoBitmap
                \/ NoJpeg /\ NoPicture /\ Bmp!Init
PicturesNext == \/ Next /\ UNCHANGED <<picVars, bmpVars>>
                \/ Pic!Next /\ UNCHANGED <<vars, bmpVars>>
                \/ Bmp!Next /\ UNCHANGED <<vars, picVars>>
PicturesSpec == PicturesInit /\ [][PicturesNext]_<<vars, picVars, bmpVars>>

(* A picture's pixels are where the file has them, but for the gaps that    *)
(* BitmapFile!BitsFound leaves out; and they keep their place and colours   *)
(* until they are saved, or are missing where a read failed                 *)
(* (Pictures!SavedAsShown).                                                 *)
PixelsKept == Pic!SavedAsShown /\ Bmp!BitsFound
(* Blocks of memory are freed on every way out (Pictures!GivenBack,         *)
(* BitmapFile!GivenBack).                                                   *)
BlocksFreed == Pic!GivenBack /\ Bmp!GivenBack
=============================================================================
