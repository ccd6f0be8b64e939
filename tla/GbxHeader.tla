------------------------------ MODULE GbxHeader ------------------------------
(***************************************************************************)
(* DumpGbx: the fixed fields at the start of a GameBox file, and the       *)
(* functions that its class selects (DumpChallenge, DumpReplay, ...).      *)
(* Each of them reads the table of the header chunks -- an identifier and  *)
(* a size per chunk, the offset is the sum of the sizes so far -- keeps    *)
(* one slot for every section it knows, and then parses the sections in an *)
(* order of its own, which is not the order of the table.                  *)
(*                                                                         *)
(* What is in a file is not known before it is read: every field is a      *)
(* choice made at the moment of the read, and every read can fail.         *)
(***************************************************************************)
EXTENDS Naturals, Sequences

CONSTANTS
  Word,         \* size of the address space of a DWORD (2^32 in the code)
  MaxChunks,    \* largest number of chunks taken for sane (255)
  MaxUserData,  \* user data must be smaller (0x400000)
  FileSizes,    \* sizes of the files to look at
  FileVersions, \* file versions to look at
  FileClasses,  \* base classes to look at
  Lines,        \* lengths of a line in a text file
  UserSizes,    \* values of the field dwUserDataSize to look at
  ChunkCounts,  \* values of the field dwNumHeaderChunks to look at
  RawSizes      \* values of a chunk's size field, with the "heavy" bit

Half == Word \div 2   \* the weight of a DWORD's highest bit

POS_NUMBER_CHUNKS == 17
GET_CHUNK_OFFSET(num) == num * 8 + 21

ASSUME WordAssumption ==
  /\ Word \in Nat /\ MaxChunks \in Nat /\ MaxUserData \in Nat
  /\ Half \in Nat \ {0}
  /\ GET_CHUNK_OFFSET(MaxChunks) < Word
ASSUME FieldAssumption ==
  /\ FileSizes \subseteq Nat /\ FileVersions \subseteq Nat /\ Lines \subseteq Nat
  /\ UserSizes \subseteq Nat /\ ChunkCounts \subseteq Nat /\ RawSizes \subseteq Nat

-----------------------------------------------------------------------------
(* The sections that the functions of the classes know, in the order they   *)
(* are parsed.                                                              *)
ChallengeSections  == <<"TmDesc", "Common", "Version", "Community", "Thumbnail", "Author",
                        "VskDesc">>
ReplaySections     == <<"Version", "Community", "Author">>
CollectorSections  == <<"Folder", "Desc", "Icon", "Time", "Skin", "Type", "Version",
                        "GameSkin", "Mood", "Unknown">>
CollectionSections == <<"Folder", "OldDesc", "Desc", "Folders", "MenuIcons">>
SkinSections       == <<"GameSkin">>
ProfileSections    == <<"Profile">>
PlugSections       == <<"Version">>
HmsSections        == <<"Version">>
OtherSections      == <<"Folder">>

(* Mutant: the picture of a map is shown before the map is identified.      *)
OrderPictureFirst(class) ==
  CASE class = "Challenge" -> <<"TmDesc", "Thumbnail", "Common", "Version", "Community",
                                "Author", "VskDesc">>
    [] class = "Replay"    -> ReplaySections
    [] OTHER               -> OtherSections

Order(class) ==
  CASE class = "Challenge"  -> ChallengeSections
    [] class = "Replay"     -> ReplaySections
    [] class = "Collector"  -> CollectorSections
    [] class = "Collection" -> CollectionSections
    [] class = "Profile"    -> ProfileSections
    [] class = "Skin"       -> SkinSections
    [] class = "Plug"       -> PlugSections
    [] class = "Hms"        -> HmsSections
    [] class = "Other"      -> OtherSections

BaseClasses == {"Challenge", "Replay", "Collector", "Collection", "Profile", "Skin",
                "Plug", "Hms", "Other"}

ASSUME FileClassAssumption == FileClasses \subseteq BaseClasses

Known(class) == {Order(class)[i] : i \in DOMAIN Order(class)}
Sections == UNION {Known(class) : class \in BaseClasses}

(* The sections that write s_szUid and s_szEnvi, and those with a picture.  *)
Naming(class) == CASE class = "Challenge" -> {"Common"}
                   [] class = "Replay"    -> {"Version"}
                   [] OTHER               -> {}
Pictured(class) == CASE class = "Challenge" -> {"Thumbnail"}
                     [] class = "Collector" -> {"Icon"}
                     [] OTHER               -> {}

VARIABLES
  pc,         \* the field that is read next, or "dispatch", "sections", "done"
  size,       \* size of the file
  pos,        \* position in the file
  version,    \* wVersion
  isText,     \* IS_GBX_TEXT(achStorageSettings)
  class,      \* eBaseClass
  userData,   \* dwUserDataSize
  count,      \* dwNumHeaderChunks
  offset,     \* dwChunkOffset
  slots,      \* the CHUNK of every section
  toParse,    \* sections that have not been looked at, in order
  success,    \* bSuccess
  dataAt,     \* history: where the user data starts
  table,      \* history: the entries of the table read so far
  wrapped,    \* history: has dwChunkOffset overflowed?
  parsed      \* history: the sections that were parsed, and from where

fields == <<version, isText, class, userData, count>>
scan == <<offset, slots, table, wrapped>>
gbxVars == <<pc, size, pos, fields, scan, toParse, success, dataAt, parsed>>

Chunk == [size : 0..(Half - 1), offset : 0..(Word - 1)]
NoChunk == [size |-> 0, offset |-> 0]

GbxInit ==
  /\ pc = "version" /\ size \in FileSizes /\ pos = 3
  /\ version = 0 /\ isText = FALSE /\ class = "Other" /\ userData = 0 /\ count = 0
  /\ offset = 0 /\ slots = [s \in Sections |-> NoChunk]
  /\ table = <<>> /\ wrapped = FALSE
  /\ toParse = <<>> /\ success = TRUE
  /\ dataAt = 0 /\ parsed = <<>>

-----------------------------------------------------------------------------
(* A field of n bytes, or a line of a text file.                            *)
ReadBytes(n) ==
  /\ \E k \in IF isText THEN Lines ELSE {n} : pos' = pos + k
  /\ pos' <= size
  /\ UNCHANGED size

End(result) == pc' = "done" /\ success' = result

(* The file is too short, unreadable, or a field is out of its range.       *)
Reading == {"version", "settings", "class", "userdata", "refs", "count", "table"}
ReadDataFails ==
  /\ pc \in Reading
  /\ End(FALSE)
  /\ UNCHANGED <<size, pos, fields, scan, toParse, dataAt, parsed>>

ReadFileVersion ==
  /\ pc = "version"
  /\ ReadBytes(2)
  /\ \E v \in FileVersions :
       /\ version' = v
       /\ IF v < 3 THEN End(TRUE) ELSE pc' = "settings" /\ UNCHANGED success
  /\ UNCHANGED <<isText, class, userData, count, scan, toParse, dataAt, parsed>>

ReadSettings ==
  /\ pc = "settings"
  /\ pc' = "class"
  /\ ReadBytes(IF version >= 4 THEN 4 ELSE 3)
  /\ isText' \in BOOLEAN
  /\ UNCHANGED <<version, class, userData, count, scan, toParse, success, dataAt, parsed>>

ReadClass ==
  /\ pc = "class"
  /\ pc' = "userdata"
  /\ ReadBytes(4)
  /\ class' \in FileClasses
  /\ UNCHANGED <<version, isText, userData, count, scan, toParse, success, dataAt, parsed>>

(* User data came with version 6; it is skipped, possibly past the end.     *)
SkipUserData ==
  /\ pc = "userdata"
  /\ pc' = "refs"
  /\ \/ /\ version >= 6
        /\ \E n \in UserSizes, k \in IF isText THEN Lines ELSE {4} :
             /\ pos + k <= size
             /\ n < MaxUserData
             /\ userData' = n /\ dataAt' = pos + k /\ pos' = pos + k + n
     \/ /\ version < 6
        /\ dataAt' = pos
        /\ UNCHANGED <<userData, pos>>
  /\ UNCHANGED <<size, version, isText, class, count, scan, toParse, success, parsed>>

ReadNumberRefs ==
  /\ pc = "refs"
  /\ pc' = "reftable"
  /\ ReadBytes(4)
  /\ UNCHANGED <<fields, scan, toParse, success, dataAt, parsed>>

(* ReadRefTable and the sizes of the body: nothing here is fatal.           *)
ReadReferences ==
  /\ pc = "reftable"
  /\ pc' = "dispatch"
  /\ pos' \in pos..size
  /\ UNCHANGED <<size, fields, scan, toParse, success, dataAt, parsed>>

(* Only binary files with user data go on, from a fixed position.           *)
Dispatch ==
  /\ pc = "dispatch"
  /\ \/ /\ userData = 0 \/ isText
        /\ End(TRUE)
        /\ UNCHANGED pos
     \/ /\ userData # 0 /\ ~isText
        /\ pc' = "count" /\ pos' = POS_NUMBER_CHUNKS
        /\ UNCHANGED success
  /\ UNCHANGED <<size, fields, scan, toParse, dataAt, parsed>>

-----------------------------------------------------------------------------
(* The function of the class: the table ...                                 *)
ReadNumberChunks ==
  /\ pc = "count"
  /\ ReadBytes(4)
  /\ \E n \in ChunkCounts :
       /\ count' = n
       /\ CASE n = 0         -> End(TRUE) /\ UNCHANGED offset
            [] n > MaxChunks -> End(FALSE) /\ UNCHANGED offset
            [] OTHER         -> /\ pc' = "table" /\ UNCHANGED success
                                /\ offset' = GET_CHUNK_OFFSET(n)
  /\ UNCHANGED <<version, isText, class, userData, slots, table, wrapped, toParse, dataAt,
                 parsed>>

(* The heavy bit is no part of the size.                                    *)
Masked(raw) == raw % Half

(* Mutants: a chunk that is not known does not move the offset, or a chunk  *)
(* is recorded with the offset of the next one.                             *)
ReadEntryOfKnown ==
  /\ pc = "table" /\ Len(table) < count
  /\ ReadBytes(8)
  /\ \E s \in Known(class) \cup {"other"}, raw \in RawSizes :
       /\ slots' = IF s = "other" THEN slots
                   ELSE [slots EXCEPT ![s] = [size |-> Masked(raw), offset |-> offset]]
       /\ offset' = IF s = "other" THEN offset ELSE (offset + Masked(raw)) % Word
       /\ wrapped' = (wrapped \/ offset + Masked(raw) >= Word)
       /\ table' = Append(table, [section |-> s, raw |-> raw])
  /\ UNCHANGED <<pc, fields, toParse, success, dataAt, parsed>>
ReadEntryTooLate ==
  /\ pc = "table" /\ Len(table) < count
  /\ ReadBytes(8)
  /\ \E s \in Known(class) \cup {"other"}, raw \in RawSizes :
       /\ offset' = (offset + Masked(raw)) % Word
       /\ slots' = IF s = "other" THEN slots
                   ELSE [slots EXCEPT ![s] = [size |-> Masked(raw), offset |-> offset']]
       /\ wrapped' = (wrapped \/ offset + Masked(raw) >= Word)
       /\ table' = Append(table, [section |-> s, raw |-> raw])
  /\ UNCHANGED <<pc, fields, toParse, success, dataAt, parsed>>

ReadEntry ==
  /\ pc = "table" /\ Len(table) < count
  /\ ReadBytes(8)
  /\ \E s \in Known(class) \cup {"other"}, raw \in RawSizes :
       /\ slots' = IF s = "other" THEN slots
                   ELSE [slots EXCEPT ![s] = [size |-> Masked(raw), offset |-> offset]]
       /\ offset' = (offset + Masked(raw)) % Word
       /\ wrapped' = (wrapped \/ offset + Masked(raw) >= Word)
       /\ table' = Append(table, [section |-> s, raw |-> raw])
  /\ UNCHANGED <<pc, fields, toParse, success, dataAt, parsed>>

EndTable ==
  /\ pc = "table" /\ Len(table) = count
  /\ pc' = "sections"
  /\ toParse' = Order(class)
  /\ UNCHANGED <<size, pos, fields, scan, success, dataAt, parsed>>

(* ... and the sections.  A section seeks to its offset, as a signed number,*)
(* and needs at least one byte there.  All are tried, also after a failure. *)
SkipSection ==
  /\ pc = "sections" /\ toParse # <<>>
  /\ slots[Head(toParse)].size = 0
  /\ toParse' = Tail(toParse)
  /\ UNCHANGED <<pc, size, pos, fields, scan, success, dataAt, parsed>>

Reachable(chunk) == chunk.offset < Half /\ chunk.offset < size

(* Mutant: the result of the last section is the result of all.             *)
ParseSectionForgetting(ok) ==
  /\ pc = "sections" /\ toParse # <<>>
  /\ LET chunk == slots[Head(toParse)]
     IN  /\ chunk.size > 0
         /\ ok => Reachable(chunk)
         /\ pos' = IF Reachable(chunk) THEN chunk.offset ELSE pos
         /\ parsed' = Append(parsed, [section |-> Head(toParse), at |-> chunk.offset, ok |-> ok])
  /\ success' = ok
  /\ toParse' = Tail(toParse)
  /\ UNCHANGED <<pc, size, fields, scan, dataAt>>

ParseSection(ok) ==
  /\ pc = "sections" /\ toParse # <<>>
  /\ LET chunk == slots[Head(toParse)]
     IN  /\ chunk.size > 0
         /\ ok => Reachable(chunk)
         /\ pos' = IF Reachable(chunk) THEN chunk.offset ELSE pos
         /\ parsed' = Append(parsed, [section |-> Head(toParse), at |-> chunk.offset, ok |-> ok])
  /\ success' = (success /\ ok)
  /\ toParse' = Tail(toParse)
  /\ UNCHANGED <<pc, size, fields, scan, dataAt>>

EndSections ==
  /\ pc = "sections" /\ toParse = <<>>
  /\ pc' = "done"
  /\ UNCHANGED <<size, pos, fields, scan, toParse, success, dataAt, parsed>>

GbxNext ==
  \/ ReadDataFails
  \/ ReadFileVersion \/ ReadSettings \/ ReadClass \/ SkipUserData
  \/ ReadNumberRefs \/ ReadReferences \/ Dispatch
  \/ ReadNumberChunks \/ ReadEntry \/ EndTable
  \/ SkipSection \/ (\E ok \in BOOLEAN : ParseSection(ok)) \/ EndSections

GbxSpec == GbxInit /\ [][GbxNext]_gbxVars

-----------------------------------------------------------------------------
TypeOK ==
  /\ pc \in Reading \cup {"reftable", "dispatch", "sections", "done"}
  /\ size \in Nat /\ pos \in Nat /\ version \in Nat /\ isText \in BOOLEAN
  /\ class \in BaseClasses /\ userData \in Nat /\ count \in Nat
  /\ offset \in 0..(Word - 1) /\ slots \in [Sections -> Chunk]
  /\ toParse \in Seq(Sections) /\ success \in BOOLEAN
  /\ dataAt \in Nat /\ wrapped \in BOOLEAN
  /\ table \in Seq([section : Sections \cup {"other"}, raw : Nat])
  /\ parsed \in Seq([section : Sections, at : 0..(Word - 1), ok : BOOLEAN])

(* The constant POS_NUMBER_CHUNKS that every class seeks to is where the    *)
(* user data of this file started, whatever its version and format made of  *)
(* the fields before it.                                                    *)
TableAtUserData == pc = "count" => pos = dataAt

(* Every slot is what the table says as a whole: the last entry of its      *)
(* section, at the sum of all the sizes before that entry, known or not,    *)
(* without their heavy bits and modulo the width of a DWORD.                *)
SizesUpTo(t) ==
  LET sum[n \in Nat] ==
        IF n = 0 THEN 0
        ELSE sum[n - 1] + (IF n \in DOMAIN t THEN t[n].raw % Half ELSE 0)
  IN  sum
ChunkOf(i) == [size   |-> table[i].raw % Half,
               offset |-> (GET_CHUNK_OFFSET(count) + SizesUpTo(table)[i - 1]) % Word]
SlotsFollowTable ==
  \A s \in Sections :
    \/ /\ \A i \in DOMAIN table : table[i].section # s
       /\ slots[s] = NoChunk
    \/ \E last \in DOMAIN table :
         /\ table[last].section = s
         /\ \A i \in DOMAIN table : table[i].section = s => i <= last
         /\ slots[s] = ChunkOf(last)

(* The table is the one in the file, from where it starts to its last entry. *)
TableAsInFile == TableAtUserData /\ SlotsFollowTable

(* As long as the offsets have not overflowed, the sections lie behind the  *)
(* table, before the end that the sizes add up to, and no two share a byte. *)
EndOf(chunk) == chunk.offset + chunk.size
InTable(s) == slots[s].size > 0
SectionsDisjoint ==
  ~wrapped =>
    /\ \A s \in Sections : InTable(s) =>
         /\ GET_CHUNK_OFFSET(count) <= slots[s].offset
         /\ EndOf(slots[s]) <= offset
    /\ \A s, t \in Sections : s # t /\ InTable(s) /\ InTable(t) =>
         EndOf(slots[s]) <= slots[t].offset \/ EndOf(slots[t]) <= slots[s].offset

(* One unreadable section does not hide the others: when the sections have  *)
(* been parsed, each one that is in the table was tried once, in the order  *)
(* of the class, from its own offset, and the result tells whether all of   *)
(* them were read.                                                          *)
Before(s, t) ==
  \E k, l \in DOMAIN Order(class) : k < l /\ Order(class)[k] = s /\ Order(class)[l] = t
TriedUpTo(n) ==
  /\ \A k \in 1..n : InTable(Order(class)[k]) =>
       \E i \in DOMAIN parsed : parsed[i].section = Order(class)[k]
  /\ \A i \in DOMAIN parsed :
       /\ \E k \in 1..n : parsed[i].section = Order(class)[k]
       /\ InTable(parsed[i].section)
       /\ parsed[i].at = slots[parsed[i].section].offset
  /\ \A i, j \in DOMAIN parsed : i < j => Before(parsed[i].section, parsed[j].section)
  /\ success <=> \A i \in DOMAIN parsed : parsed[i].ok
AllSectionsTried == pc = "done" /\ parsed # <<>> => TriedUpTo(Len(Order(class)))

(* Whatever the order of the table, a section that names the track is       *)
(* parsed before the one with the picture: decoding a picture can run other *)
(* handlers, and those must not be overwritten afterwards (Viewer).         *)
IdsBeforePicture ==
  \A i, j \in DOMAIN parsed :
    parsed[i].section \in Pictured(class) /\ parsed[j].section \in Naming(class) => j < i
=============================================================================
