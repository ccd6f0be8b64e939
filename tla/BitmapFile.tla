----------------------------- MODULE BitmapFile -----------------------------
(***************************************************************************)
(* DumpBitmap: a bitmap file is read into one block, printed section by    *)
(* section, and the block becomes the thumbnail, unless a section is not   *)
(* there or GDI cannot show the picture.                                   *)
(*                                                                         *)
(* Only the file header says where the picture's bits begin, and the block *)
(* is without it.  The functions that show, copy and save the thumbnail    *)
(* find the bits behind the colour table (DibBitsOffset).  So where the    *)
(* file has a gap before the bits, or bits that begin in the colour table, *)
(* DumpBitmap changes the number of colours, or moves the bits.            *)
(*                                                                         *)
(* The block is known by the places of what it contains.                   *)
(***************************************************************************)
EXTENDS Integers, FiniteSets

CONSTANTS
  HeaderSizes,  \* sizes of DIB headers to look at
  BitCounts,    \* biBitCount
  ClrUsed,      \* biClrUsed
  Gaps,         \* bytes between the colour table and the bits
  Overlaps,     \* bytes of the colour table that the bits overlap
  ProfileSizes, \* sizes of an ICC profile or its file name
  TagCounts,    \* tags of an ICC profile
  Image         \* bytes of the picture

VARIABLES
  pc,        \* "file", "array", "allocate", "lock", "read", "header", "masks", "colours",
             \* "gap", "realloc", "relock", "profile", "tags", "exit", "done"
  file,      \* what the file says
  size,      \* dwDibSize
  colours,   \* bV5ClrUsed, as changed
  offBits,   \* bfOffBits, as changed
  bitsAt,    \* history: where in the block the picture's bits are
  cleared,   \* history: the places of the block that were filled with zeros
  owner,     \* who has the block: "none", "DumpBitmap", "thumbnail" or "lost"
  allocated, \* history: how often the block was allocated, less how often it was freed
  result     \* "none", "failed", "unsupported" or "shown"

vars == <<pc, file, size, colours, offBits, bitsAt, cleared, owner, allocated, result>>

-----------------------------------------------------------------------------
Core  == 12   \* BITMAPCOREHEADER
Info  == 40   \* BITMAPINFOHEADER
V2    == 52   \* BITMAPV2INFOHEADER
V3    == 56   \* BITMAPV3INFOHEADER
Info2 == 64   \* BITMAPINFOHEADER2
V4    == 108  \* BITMAPV4HEADER
V5    == 124  \* BITMAPV5HEADER
Supported == {Core, Info, V2, V3, Info2, V4, V5}

FileHeader    == 14   \* BITMAPFILEHEADER
ProfileHeader == 128  \* PROFILEHEADER
MaxColors     == 4096

dwFileHeaderSize == IF file.array THEN 2 * FileHeader ELSE FileHeader

(* A header with a number of colours that fits has as many, another one as  *)
(* many as its bits can tell apart.                                         *)
DibNumColorsOf(header, bits, used) ==
  IF header # Core /\ used \in 1..MaxColors THEN used
  ELSE IF bits \in 1..12 THEN 2^bits ELSE 0
EntrySize(header) == IF header = Core THEN 3 ELSE 4
ColorMasksSizeOf(header, compression) ==
  CASE header = Info /\ compression = "BITFIELDS"      -> 12
    [] header = Info /\ compression = "ALPHABITFIELDS" -> 16
    [] OTHER -> 0
Offset(header, bits, used, compression) ==
  header + ColorMasksSizeOf(header, compression)
         + DibNumColorsOf(header, bits, used) * EntrySize(header)

DibNumColors   == DibNumColorsOf(file.header, file.bits, colours)
ColorMasksSize == ColorMasksSizeOf(file.header, file.compression)
DibBitsOffset  == Offset(file.header, file.bits, colours, file.compression)

(* DWORDs wrap around: less than nothing is more than any block.            *)
Huge == 2^30
Less(m, n) == IF m >= n THEN m - n ELSE Huge

-----------------------------------------------------------------------------
(* Files: the bits begin at a gap's distance from the colour table, but not *)
(* before the end of the header, or the file header does not say (0), or    *)
(* says nonsense (1); the file ends behind the bits or the profile, or      *)
(* somewhere before.                                                        *)
Ends == {"complete", "bits", "colours", "header", "core"}
Files ==
  {f \in [array : BOOLEAN, offNext : BOOLEAN, bitmap : BOOLEAN, header : HeaderSizes,
          bits : BitCounts, compression : {"RGB", "BITFIELDS", "ALPHABITFIELDS"},
          clrUsed : ClrUsed, says : {"offset", "nothing", "nonsense"},
          gap : Gaps \cup {-n : n \in Overlaps}, profile : {"none", "linked", "embedded"},
          profileSize : ProfileSizes, tags : TagCounts, ends : Ends] :
     /\ f.array \/ (~f.offNext /\ f.bitmap)
     /\ f.array => f.says = "offset" /\ f.header = Info /\ f.profile = "none"
     /\ f.compression # "RGB" => f.bits \in {16, 32} /\ f.header = Info
     /\ f.header = Core => f.clrUsed = 0
     /\ f.says # "offset" => f.gap = 0
     /\ f.profile # "none" => f.header = V5
     /\ f.profileSize = 0 <=> f.profile = "none"
     /\ f.profile # "embedded" => f.tags = 0
     /\ Offset(f.header, f.bits, f.clrUsed, f.compression) + f.gap >= f.header}

BitsIn(f) == Offset(f.header, f.bits, f.clrUsed, f.compression) + f.gap
ProfileData(f) == BitsIn(f) + Image
Length(f) == CASE f.ends = "complete" -> ProfileData(f) + f.profileSize
               [] f.ends = "bits"     -> BitsIn(f) + Image - 1
               [] f.ends = "colours"  -> BitsIn(f) - 1
               [] f.ends = "header"   -> f.header - 1
               [] f.ends = "core"     -> Core - 1

Init ==
  /\ file \in Files
  /\ pc = "file" /\ size = 0 /\ colours = file.clrUsed
  /\ offBits = CASE file.says = "offset"   -> dwFileHeaderSize + BitsIn(file)
                 [] file.says = "nothing"  -> 0
                 [] file.says = "nonsense" -> 1
  /\ bitsAt = BitsIn(file) /\ cleared = {}
  /\ owner = "none" /\ allocated = 0 /\ result = "none"

-----------------------------------------------------------------------------
block   == <<owner, allocated>>
contents == <<size, colours, offBits, bitsAt, cleared>>

Goto(place) == pc' = place /\ UNCHANGED <<block, result>>

(* The returns before and behind the block's allocation.                    *)
Return(outcome) == pc' = "done" /\ result' = outcome /\ UNCHANGED block
FreeDib == owner' = "none" /\ allocated' = allocated - 1
FreeAndReturn(outcome) == pc' = "done" /\ result' = outcome /\ FreeDib

(* FileSeekBegin, ReadData and the size of the file.                        *)
ReadFileHeader ==
  /\ pc = "file"
  /\ \/ ~file.array /\ Goto("allocate")
     \/ file.array /\ file.offNext /\ Return("unsupported")
     \/ file.array /\ ~file.offNext /\ Goto("array")
     \/ Return("failed")
  /\ UNCHANGED <<file, contents>>

ReadArrayHeader ==
  /\ pc = "array"
  /\ \/ file.bitmap /\ Goto("allocate")
     \/ ~file.bitmap /\ Return("unsupported")
     \/ Return("failed")
  /\ UNCHANGED <<file, contents>>

AllocateDib ==
  /\ pc = "allocate"
  /\ size' = Length(file)
  /\ \/ /\ size' >= Core
        /\ pc' = "lock" /\ owner' = "DumpBitmap" /\ allocated' = allocated + 1
        /\ UNCHANGED result
     \/ Return("failed")
  /\ UNCHANGED <<file, colours, offBits, bitsAt, cleared>>

LockDib ==
  /\ pc = "lock"
  /\ Goto("read") \/ FreeAndReturn("failed")
  /\ UNCHANGED <<file, contents>>

ReadDib ==
  /\ pc = "read"
  /\ Goto("header") \/ FreeAndReturn("failed")
  /\ UNCHANGED <<file, contents>>

(* Headers of OS/2 2.0 are printed, but GDI cannot show such bitmaps.       *)
DumpHeader ==
  /\ pc = "header"
  /\ \/ file.header > size /\ FreeAndReturn("failed")
     \/ file.header <= size /\ file.header \notin Supported /\ FreeAndReturn("unsupported")
     \/ file.header <= size /\ file.header = Info2 /\ FreeAndReturn("unsupported")
     \/ file.header <= size /\ file.header \in Supported \ {Info2} /\ Goto("masks")
  /\ UNCHANGED <<file, contents>>

DumpColorMasks ==
  /\ pc = "masks"
  /\ IF file.header + ColorMasksSize > size THEN FreeAndReturn("failed") ELSE Goto("colours")
  /\ UNCHANGED <<file, contents>>

DumpColors ==
  /\ pc = "colours"
  /\ IF DibNumColors > 0 /\ DibBitsOffset > size THEN FreeAndReturn("failed") ELSE Goto("gap")
  /\ UNCHANGED <<file, contents>>

-----------------------------------------------------------------------------
(* The gap between the colour table and the bits.                           *)
dwOffBits == dwFileHeaderSize + DibBitsOffset
TooShort == Less(IF offBits # 0 THEN offBits ELSE dwOffBits, dwFileHeaderSize) > size

(* A gap becomes additional colours.  (Mutant: it replaces the colours.)    *)
ColoursWithGapOnly(gap) == gap \div 4
ColoursWithGap(gap) == colours + gap \div 4

CheckGap ==
  /\ pc = "gap"
  /\ UNCHANGED <<file, size, offBits, bitsAt, cleared>>
  /\ \/ /\ TooShort
        /\ FreeAndReturn("failed") /\ UNCHANGED colours
     \/ /\ ~TooShort /\ offBits > dwOffBits
        /\ Goto("profile")
        /\ colours' = IF file.header >= Info THEN ColoursWithGap(offBits - dwOffBits)
                                             ELSE colours
     \/ /\ ~TooShort /\ offBits \in {0, dwOffBits}
        /\ Goto("profile") /\ UNCHANGED colours
     \/ /\ ~TooShort /\ offBits # 0 /\ offBits < dwOffBits
        /\ IF DibNumColors > 0 /\ file.header = Core
           THEN Goto("realloc") /\ UNCHANGED colours
           ELSE LET dwAddEntries == (dwOffBits - offBits) \div 4
                IN  /\ Goto("profile")
                    /\ colours' = IF DibNumColors > dwAddEntries
                                  THEN DibNumColors - dwAddEntries ELSE colours

(* The bits of a core bitmap are moved behind its colour table; the         *)
(* overlapped part of the table gets zeros.  If there is no memory, the old *)
(* block is still there, and freed.                                         *)
ReAlloc ==
  /\ pc = "realloc"
  /\ size' = size + (dwOffBits - offBits)
  /\ Goto("relock") \/ FreeAndReturn("failed")
  /\ UNCHANGED <<file, colours, offBits, bitsAt, cleared>>

MoveBits ==
  /\ pc = "relock"
  /\ \/ /\ Goto("profile")
        /\ bitsAt' = dwOffBits - dwFileHeaderSize
        /\ cleared' = (offBits - dwFileHeaderSize)..(bitsAt' - 1)
        /\ offBits' = dwOffBits
     \/ FreeAndReturn("failed") /\ UNCHANGED <<offBits, bitsAt, cleared>>
  /\ UNCHANGED <<file, size, colours>>

-----------------------------------------------------------------------------
(* A linked profile is a file name; of an embedded one the header and the   *)
(* tags are printed, unless it is not of a known kind or has no tags.       *)
DumpProfile ==
  /\ pc = "profile"
  /\ \/ file.profile = "none" /\ Goto("exit")
     \/ /\ file.profile # "none"
        /\ IF \/ ProfileData(file) + file.profileSize > size
              \/ file.profile = "embedded" /\ file.profileSize < ProfileHeader + 4
           THEN FreeAndReturn("failed")
           ELSE \/ Goto("exit")
                \/ file.profile = "embedded" /\ file.tags > 0 /\ Goto("tags")
  /\ UNCHANGED <<file, contents>>

DumpTags ==
  /\ pc = "tags"
  /\ IF file.profileSize < ProfileHeader + 4 + 12 * file.tags
     THEN FreeAndReturn("failed") ELSE Goto("exit")
  /\ UNCHANGED <<file, contents>>

(* ReplaceThumbnail takes the block, or GDI cannot show it.                 *)
Exit ==
  /\ pc = "exit"
  /\ \/ /\ pc' = "done" /\ result' = "shown" /\ owner' = "thumbnail"
        /\ UNCHANGED allocated
     \/ FreeAndReturn("unsupported")
  /\ UNCHANGED <<file, contents>>

Next ==
  \/ ReadFileHeader \/ ReadArrayHeader \/ AllocateDib \/ LockDib \/ ReadDib
  \/ DumpHeader \/ DumpColorMasks \/ DumpColors \/ CheckGap \/ ReAlloc \/ MoveBits
  \/ DumpProfile \/ DumpTags \/ Exit

Spec == Init /\ [][Next]_vars

-----------------------------------------------------------------------------
(* Where the bits can be found behind a colour table: there is no gap, or   *)
(* whole entries make up for it, and DibNumColors still takes the number.   *)
InEntries ==
  \/ file.gap = 0
  \/ /\ file.gap < 0 /\ (file.gap % 4 = 0 \/ file.header = Core)
     /\ -file.gap < 4 * DibNumColorsOf(file.header, file.bits, file.clrUsed)
  \/ /\ file.gap > 0 /\ file.gap % 4 = 0 /\ file.header # Core
     /\ colours <= MaxColors
Packed == result = "shown" => DibBitsOffset = bitsAt

(* The thumbnail is a packed DIB, as the comment at DumpBmp.cpp:585 has it: *)
(* its bits are where the file has them, however many colours it has.       *)
GapDeclared == InEntries => Packed

(* That holds but for a gap behind a colour table of implied length.  Bits  *)
(* that were moved are not overwritten, and are still within the block as   *)
(* far as the file had them.  Nothing is said of where the picture is taken *)
(* from if the gap is not of whole entries, follows a core bitmap's table,  *)
(* would make more than 4096 colours, or reaches into the colour masks.     *)
BitsFound ==
  /\ InEntries /\ (file.gap > 0 => file.clrUsed > 0 \/ file.bits \notin 1..12) => Packed
  /\ result = "shown" => /\ cleared \cap bitsAt..(size - 1) = {}
                         /\ size - bitsAt = Length(file) - BitsIn(file)
                         /\ bitsAt <= size

(* Whichever section is missing, the block is freed once or becomes the     *)
(* thumbnail, and a file is shown only with a block.                        *)
GivenBack ==
  /\ allocated \in {0, 1} /\ (allocated = 1 <=> owner # "none")
  /\ pc = "done" => (owner = "thumbnail" <=> result = "shown") /\ owner # "DumpBitmap"
=============================================================================
