--------------------------- MODULE GbxHeaderProofs ---------------------------
(***************************************************************************)
(* What TLAPS proves of GbxHeader, for every width of a DWORD, every file  *)
(* and every table: the types, that the table is read from where the user  *)
(* data starts, that the slots say what the table says, that no two        *)
(* sections overlap, and that all of them are tried, in their order.       *)
(***************************************************************************)
EXTENDS GbxHeader, Induction, TLAPS

(* The fields of a binary file have fixed lengths, which only differ by     *)
(* version; they come to POS_NUMBER_CHUNKS for a file that has user data.   *)
Settings == IF version >= 4 THEN 4 ELSE 3
PositionInv ==
  /\ pc = "version"  => pos = 3 /\ isText = FALSE /\ userData = 0
  /\ pc = "settings" => pos = 5 /\ isText = FALSE /\ userData = 0
  /\ pc = "class"    => pos = 5 + Settings /\ userData = 0
  /\ pc = "userdata" => userData = 0 /\ (isText = FALSE => pos = 9 + Settings)
  /\ userData # 0 /\ isText = FALSE => dataAt = 17
  /\ pc = "count" => pos = 17 /\ userData # 0 /\ isText = FALSE

(* Before the table is read there are no slots; while it is read the next   *)
(* chunk lies behind the table unless the offset has overflowed.            *)
BeforeTable == {"version", "settings", "class", "userdata", "refs", "reftable",
                "dispatch", "count"}
OffsetInv ==
  /\ pc \in BeforeTable => wrapped = FALSE /\ \A s \in Sections : slots[s].size = 0
  /\ pc = "table" => count <= MaxChunks /\ (wrapped = FALSE => GET_CHUNK_OFFSET(count) <= offset)

-----------------------------------------------------------------------------
(* The numbers that describe chunks.                                        *)
LEMMA Widths ==
  /\ Half \in Nat \ {0} /\ Word \in Nat \ {0}
  /\ \A raw \in Nat : Masked(raw) \in 0..(Half - 1)
  /\ \A n \in Nat : n % Word \in 0..(Word - 1)
  /\ \A n \in 0..(Word - 1) : n % Word = n
<1>1. Half \in Nat \ {0} /\ Word \in Nat
  BY WordAssumption
<1>2. Word # 0
  BY WordAssumption DEF GET_CHUNK_OFFSET
<1>3. \A raw \in Nat : Masked(raw) \in 0..(Half - 1)
  BY <1>1 DEF Masked
<1> QED
  BY <1>1, <1>2, <1>3

(* The sections a class parses are sections.                                *)
LEMMA OrderType ==
  ASSUME NEW c \in BaseClasses
  PROVE  /\ Order(c) \in Seq(Sections) /\ Known(c) \subseteq Sections
         /\ "other" \notin Known(c)
<1>1. Known(c) \subseteq Sections
  BY DEF Sections
<1> DEFINE Names == {"TmDesc", "Common", "Version", "Community", "Thumbnail", "Author",
                     "VskDesc", "Folder", "Desc", "Icon", "Time", "Skin", "Type",
                     "GameSkin", "Mood", "Unknown", "OldDesc", "Folders", "MenuIcons",
                     "Profile"}
<1>3. Order(c) \in Seq(Names)
  <2>1. /\ ChallengeSections \in Seq(Names) /\ ReplaySections \in Seq(Names)
        /\ SkinSections \in Seq(Names) /\ ProfileSections \in Seq(Names)
    BY DEF ChallengeSections, ReplaySections, SkinSections, ProfileSections
  <2>2. CollectorSections \in Seq(Names) /\ CollectionSections \in Seq(Names)
    BY DEF CollectorSections, CollectionSections
  <2>3. /\ PlugSections \in Seq(Names) /\ HmsSections \in Seq(Names)
        /\ OtherSections \in Seq(Names)
    BY DEF PlugSections, HmsSections, OtherSections
  <2> QED
    BY <2>1, <2>2, <2>3, Zenon DEF Order, BaseClasses
<1>4. \A i \in DOMAIN Order(c) : Order(c)[i] \in Sections
  BY <1>1 DEF Known
<1>5. "other" \notin Known(c)
  <2>1. \A i \in DOMAIN Order(c) : Order(c)[i] \in Names
    BY <1>3
  <2>2. "other" \notin Names
    OBVIOUS
  <2> QED
    BY <2>1, <2>2 DEF Known
<1> QED
  BY <1>1, <1>3, <1>4, <1>5

-----------------------------------------------------------------------------
(* Types.                                                                   *)
LEMMA HeaderTypeInit == GbxInit => TypeOK
<1>1. SUFFICES ASSUME GbxInit PROVE TypeOK
  OBVIOUS
<1>2. NoChunk \in Chunk /\ 0 \in 0..(Word - 1)
  BY Widths DEF NoChunk, Chunk
<1>3. size \in Nat
  BY <1>1, FieldAssumption DEF GbxInit
<1>4. slots \in [Sections -> Chunk]
  BY <1>1, <1>2 DEF GbxInit
<1>5. /\ pc \in Reading /\ pos \in Nat /\ version \in Nat /\ class \in BaseClasses
      /\ userData \in Nat /\ count \in Nat /\ dataAt \in Nat
  BY <1>1 DEF GbxInit, Reading, BaseClasses
<1>6. isText \in BOOLEAN /\ success \in BOOLEAN /\ wrapped \in BOOLEAN
  BY <1>1, Zenon DEF GbxInit
<1>7. /\ toParse \in Seq(Sections)
      /\ table \in Seq([section : Sections \cup {"other"}, raw : Nat])
      /\ parsed \in Seq([section : Sections, at : 0..(Word - 1), ok : BOOLEAN])
  BY <1>1 DEF GbxInit
<1>8. offset \in 0..(Word - 1)
  BY <1>1, <1>2 DEF GbxInit
<1> QED
  BY <1>3, <1>4, <1>5, <1>6, <1>7, <1>8 DEF TypeOK

LEMMA ReadType ==
  ASSUME NEW n \in Nat, pos \in Nat, ReadBytes(n)
  PROVE  pos' \in Nat /\ size' = size /\ (isText = FALSE => pos' = pos + n)
BY FieldAssumption DEF ReadBytes

LEMMA TableEndType == \A n \in Nat : GET_CHUNK_OFFSET(n) \in Nat
BY DEF GET_CHUNK_OFFSET

LEMMA HeaderTypeStep == TypeOK /\ [GbxNext]_gbxVars => TypeOK'
<1> SUFFICES ASSUME TypeOK, [GbxNext]_gbxVars PROVE TypeOK'
  OBVIOUS
<1> USE DEF TypeOK
<1>1. CASE ReadDataFails
  BY <1>1 DEF ReadDataFails, End, fields, scan
<1>2. CASE ReadFileVersion
  BY <1>2, FieldAssumption, ReadType DEF ReadFileVersion, End, scan, Reading
<1>3. CASE ReadSettings
  BY <1>3, ReadType DEF ReadSettings, scan, Reading
<1>4. CASE ReadClass
  BY <1>4, FileClassAssumption, ReadType DEF ReadClass, scan, Reading
<1>5. CASE SkipUserData
  <2>1. pos' \in Nat /\ dataAt' \in Nat /\ userData' \in Nat
    BY <1>5, FieldAssumption DEF SkipUserData
  <2> QED
    BY <1>5, <2>1 DEF SkipUserData, scan, Reading
<1>6. CASE ReadNumberRefs
  BY <1>6, ReadType DEF ReadNumberRefs, fields, scan
<1>7. CASE ReadReferences
  <2>1. pos' \in Nat
    BY <1>7 DEF ReadReferences
  <2> QED
    BY <1>7, <2>1 DEF ReadReferences, fields, scan
<1>8. CASE Dispatch
  <2>1. pos' \in Nat /\ pc' \in {"count", "done"}
    BY <1>8 DEF Dispatch, End, POS_NUMBER_CHUNKS
  <2>2. success' \in BOOLEAN
    BY <1>8, Zenon DEF Dispatch, End
  <2> QED
    BY <1>8, <2>1, <2>2 DEF Dispatch, fields, scan, Reading
<1>9. CASE ReadNumberChunks
  <2>1. PICK n \in ChunkCounts :
          /\ count' = n
          /\ CASE n = 0         -> End(TRUE) /\ UNCHANGED offset
               [] n > MaxChunks -> End(FALSE) /\ UNCHANGED offset
               [] OTHER         -> /\ pc' = "table" /\ UNCHANGED success
                                   /\ offset' = GET_CHUNK_OFFSET(n)
    BY <1>9 DEF ReadNumberChunks
  <2>2. n \in Nat /\ MaxChunks \in Nat /\ Word \in Nat
    BY FieldAssumption, WordAssumption
  <2>3. n <= MaxChunks => GET_CHUNK_OFFSET(n) \in 0..(Word - 1)
    BY <2>2, WordAssumption DEF GET_CHUNK_OFFSET
  <2>4. offset' \in 0..(Word - 1) /\ pc' \in {"table", "done"}
    BY <2>1, <2>2, <2>3 DEF End
  <2>5. success' \in BOOLEAN
    BY <2>1, Zenon DEF End
  <2>6. pos' \in Nat /\ size' = size
    BY <1>9, ReadType DEF ReadNumberChunks
  <2> QED
    BY <1>9, <2>1, <2>2, <2>4, <2>5, <2>6 DEF ReadNumberChunks, Reading
<1>10. CASE ReadEntry
  <2>1. PICK s \in Known(class) \cup {"other"}, raw \in RawSizes :
          /\ slots' = IF s = "other" THEN slots
                      ELSE [slots EXCEPT ![s] = [size |-> Masked(raw), offset |-> offset]]
          /\ offset' = (offset + Masked(raw)) % Word
          /\ wrapped' = (wrapped \/ offset + Masked(raw) >= Word)
          /\ table' = Append(table, [section |-> s, raw |-> raw])
    BY <1>10 DEF ReadEntry
  <2>2. raw \in Nat /\ Masked(raw) \in 0..(Half - 1) /\ Masked(raw) \in Nat
    BY Widths, FieldAssumption
  <2>3. offset' \in 0..(Word - 1)
    <3>1. offset + Masked(raw) \in Nat
      <4>1. Word \in Nat /\ offset \in 0..(Word - 1)
        BY Widths
      <4>2. offset \in Nat
        BY <4>1
      <4> QED
        BY <2>2, <4>2
    <3> QED
      BY <2>1, <3>1, Widths
  <2>4. [size |-> Masked(raw), offset |-> offset] \in Chunk
    BY <2>2 DEF Chunk
  <2>5. slots' \in [Sections -> Chunk]
    BY <2>1, <2>4
  <2>6. [section |-> s, raw |-> raw] \in [section : Sections \cup {"other"}, raw : Nat]
    BY <2>2, OrderType
  <2>7. table' \in Seq([section : Sections \cup {"other"}, raw : Nat])
    BY <2>1, <2>6
  <2>8. wrapped' \in BOOLEAN
    BY <2>1
  <2>9. pos' \in Nat /\ size' = size
    BY <1>10, ReadType DEF ReadEntry
  <2> QED
    BY <1>10, <2>3, <2>5, <2>7, <2>8, <2>9 DEF ReadEntry, fields
<1>11. CASE EndTable
  <2>1. toParse' \in Seq(Sections)
    BY <1>11, OrderType DEF EndTable
  <2> QED
    BY <1>11, <2>1 DEF EndTable, fields, scan
<1>12. CASE SkipSection
  <2>1. toParse' \in Seq(Sections)
    BY <1>12 DEF SkipSection
  <2> QED
    BY <1>12, <2>1 DEF SkipSection, fields, scan
<1>13. ASSUME NEW ok \in BOOLEAN, ParseSection(ok) PROVE TypeOK'
  <2>1. Head(toParse) \in Sections /\ toParse' \in Seq(Sections)
    BY <1>13 DEF ParseSection
  <2>2. slots[Head(toParse)].offset \in 0..(Word - 1)
    BY <2>1 DEF Chunk
  <2>3. pos' \in Nat
    BY <1>13, <2>2, Widths DEF ParseSection
  <2>4. [section |-> Head(toParse), at |-> slots[Head(toParse)].offset, ok |-> ok]
          \in [section : Sections, at : 0..(Word - 1), ok : BOOLEAN]
    BY <2>1, <2>2
  <2>5. parsed' \in Seq([section : Sections, at : 0..(Word - 1), ok : BOOLEAN])
    BY <1>13, <2>4 DEF ParseSection
  <2>6. success' \in BOOLEAN
    BY <1>13 DEF ParseSection
  <2> QED
    BY <1>13, <2>1, <2>3, <2>5, <2>6 DEF ParseSection, fields, scan
<1>14. CASE EndSections
  BY <1>14 DEF EndSections, fields, scan
<1>15. CASE UNCHANGED gbxVars
  BY <1>15 DEF gbxVars, fields, scan
<1> QED
  BY <1>1, <1>2, <1>3, <1>4, <1>5, <1>6, <1>7, <1>8, <1>9, <1>10, <1>11, <1>12, <1>13,
     <1>14, <1>15 DEF GbxNext

(* The state of the header's reader is well-typed.                          *)
THEOREM HeaderTypeCorrect == GbxSpec => []TypeOK
BY HeaderTypeInit, HeaderTypeStep, PTL DEF GbxSpec

-----------------------------------------------------------------------------
(* Where the table is read from.                                            *)
LEMMA PositionStep == TypeOK /\ PositionInv /\ [GbxNext]_gbxVars => PositionInv'
<1> SUFFICES ASSUME TypeOK, PositionInv, [GbxNext]_gbxVars PROVE PositionInv'
  OBVIOUS
<1> USE DEF PositionInv, Settings
<1>1. pos \in Nat /\ version \in Nat /\ userData \in Nat
  BY DEF TypeOK
<1>2. CASE ReadDataFails
  BY <1>2 DEF ReadDataFails, End, fields
<1>3. CASE ReadFileVersion
  <2>1. /\ ReadBytes(2) /\ pos = 3
        /\ isText = FALSE /\ isText' = isText /\ userData = 0 /\ userData' = userData
    BY <1>3 DEF ReadFileVersion
  <2>2. pos' = 5 /\ isText' = FALSE /\ userData' = 0
    BY <1>1, <2>1 DEF ReadBytes
  <2>3. pc' \in {"settings", "done"}
    BY <1>3 DEF ReadFileVersion, End
  <2> QED
    BY <2>2, <2>3
<1>4. CASE ReadSettings
  BY <1>1, <1>4, ReadType DEF ReadSettings
<1>5. CASE ReadClass
  <2>1. ReadBytes(4) /\ pos = 5 + Settings
    BY <1>5 DEF ReadClass
  <2>2. isText = FALSE => pos' = 9 + Settings
    BY <1>1, <2>1 DEF ReadBytes
  <2>3. pc' = "userdata" /\ userData' = 0 /\ isText' = isText /\ version' = version
    BY <1>5 DEF ReadClass
  <2> QED
    BY <2>2, <2>3
<1>6. CASE SkipUserData
  <2>1. isText = FALSE => pos = 9 + Settings
    BY <1>6 DEF SkipUserData
  <2>2. userData' # 0 => version >= 6 /\ (isText = FALSE => dataAt' = pos + 4)
    BY <1>6 DEF SkipUserData
  <2> QED
    BY <1>1, <1>6, <2>1, <2>2 DEF SkipUserData
<1>7. CASE ReadNumberRefs
  BY <1>7 DEF ReadNumberRefs, fields
<1>8. CASE ReadReferences
  BY <1>8 DEF ReadReferences, fields
<1>9. CASE Dispatch
  <2>1. isText \in BOOLEAN
    BY DEF TypeOK
  <2> QED
    BY <1>9, <2>1 DEF Dispatch, End, fields, POS_NUMBER_CHUNKS
<1>10. CASE ReadNumberChunks
  <2>1. pc' # "count" /\ pc' \in {"done", "table"}
    BY <1>10 DEF ReadNumberChunks, End
  <2> QED
    BY <1>10, <2>1 DEF ReadNumberChunks
<1>11. CASE ReadEntry
  BY <1>11 DEF ReadEntry, fields
<1>12. CASE EndTable
  BY <1>12 DEF EndTable, fields
<1>13. CASE SkipSection
  BY <1>13 DEF SkipSection, fields
<1>14. ASSUME NEW ok \in BOOLEAN, ParseSection(ok) PROVE PositionInv'
  BY <1>14 DEF ParseSection, fields
<1>15. CASE EndSections
  BY <1>15 DEF EndSections, fields
<1>16. CASE UNCHANGED gbxVars
  BY <1>16 DEF gbxVars, fields
<1> QED
  BY <1>2, <1>3, <1>4, <1>5, <1>6, <1>7, <1>8, <1>9, <1>10, <1>11, <1>12, <1>13, <1>14,
     <1>15, <1>16 DEF GbxNext

(* DumpChallenge and the others find the table where the user data starts.  *)
THEOREM TableIsAtUserData == GbxSpec => []TableAtUserData
<1>1. GbxInit => PositionInv
  BY DEF GbxInit, PositionInv
<1>2. TypeOK /\ PositionInv => TableAtUserData
  BY DEF PositionInv, TableAtUserData, TypeOK
<1> QED
  BY <1>1, <1>2, HeaderTypeCorrect, PositionStep, PTL DEF GbxSpec

-----------------------------------------------------------------------------
(* Sections do not overlap.  Only three actions touch the table, its count  *)
(* or its slots.                                                            *)
LEMMA OffsetStep ==
  TypeOK /\ OffsetInv /\ SectionsDisjoint /\ [GbxNext]_gbxVars => OffsetInv' /\ SectionsDisjoint'
<1> SUFFICES ASSUME TypeOK, OffsetInv, SectionsDisjoint, [GbxNext]_gbxVars
             PROVE  OffsetInv' /\ SectionsDisjoint'
  OBVIOUS
<1>1. ASSUME UNCHANGED <<count, offset, slots, wrapped>>,
             pc' \in BeforeTable => pc \in BeforeTable,
             pc' = "table" => pc = "table"
      PROVE  OffsetInv' /\ SectionsDisjoint'
  BY <1>1 DEF OffsetInv, SectionsDisjoint, InTable, EndOf
<1>2. CASE ReadNumberChunks
  <2>1. (\A s \in Sections : slots'[s].size = 0) /\ wrapped' = FALSE
    BY <1>2 DEF ReadNumberChunks, OffsetInv, BeforeTable
  <2>2. SectionsDisjoint'
    BY <2>1 DEF SectionsDisjoint, InTable
  <2>3. ASSUME pc' = "table" PROVE count' <= MaxChunks /\ GET_CHUNK_OFFSET(count') <= offset'
    <3>1. count' \in Nat /\ MaxChunks \in Nat
      BY <1>2, FieldAssumption, WordAssumption DEF ReadNumberChunks
    <3>2. ~(count' > MaxChunks) /\ offset' = GET_CHUNK_OFFSET(count')
      BY <1>2, <2>3 DEF ReadNumberChunks, End
    <3>3. count' <= MaxChunks /\ GET_CHUNK_OFFSET(count') \in Nat
      BY <3>1, <3>2, TableEndType
    <3> QED
      BY <3>2, <3>3
  <2>4. pc' \notin BeforeTable
    BY <1>2 DEF ReadNumberChunks, End, BeforeTable
  <2> QED
    BY <2>2, <2>3, <2>4 DEF OffsetInv
<1>3. CASE ReadEntry
  <2>1. PICK s \in Known(class) \cup {"other"}, raw \in RawSizes :
          /\ slots' = IF s = "other" THEN slots
                      ELSE [slots EXCEPT ![s] = [size |-> Masked(raw), offset |-> offset]]
          /\ offset' = (offset + Masked(raw)) % Word
          /\ wrapped' = (wrapped \/ offset + Masked(raw) >= Word)
    BY <1>3 DEF ReadEntry
  <2>2. /\ pc = "table" /\ pc' = pc /\ count' = count
        /\ count \in Nat /\ offset \in Nat /\ Word \in Nat /\ Masked(raw) \in Nat
    <3>1. offset \in 0..(Word - 1) /\ Word \in Nat /\ Masked(raw) \in 0..(Half - 1) /\ Half \in Nat
      BY Widths, FieldAssumption DEF TypeOK
    <3>2. pc = "table" /\ pc' = pc /\ count' = count
      BY <1>3 DEF ReadEntry, fields
    <3>3. count \in Nat
      BY DEF TypeOK
    <3> QED
      BY <3>1, <3>2, <3>3
  <2>3. SUFFICES ASSUME wrapped' = FALSE PROVE OffsetInv' /\ SectionsDisjoint'
    <3>1. wrapped' \in BOOLEAN
      BY HeaderTypeStep DEF TypeOK
    <3>2. CASE wrapped' = TRUE
      <4>1. OffsetInv'
        BY <2>2, <3>2 DEF OffsetInv, BeforeTable
      <4> QED
        BY <3>2, <4>1 DEF SectionsDisjoint
    <3> QED
      BY <2>3, <3>1, <3>2
  <2>4. wrapped = FALSE /\ offset + Masked(raw) < Word
    <3>1. wrapped \in BOOLEAN
      BY DEF TypeOK
    <3>2. wrapped = FALSE
      BY <2>1, <2>3, <3>1, Zenon
    <3>3. ~(offset + Masked(raw) >= Word)
      BY <2>1, <2>3
    <3> QED
      BY <2>2, <3>2, <3>3
  <2>5. offset' = offset + Masked(raw)
    <3>1. offset + Masked(raw) \in 0..(Word - 1)
      BY <2>2, <2>4
    <3> QED
      BY <2>1, <3>1, Widths
  <2>6. /\ count <= MaxChunks /\ GET_CHUNK_OFFSET(count) <= offset
        /\ GET_CHUNK_OFFSET(count) \in Nat
    BY <2>2, <2>4 DEF OffsetInv, GET_CHUNK_OFFSET
  <2>7. OffsetInv'
    BY <2>2, <2>5, <2>6 DEF OffsetInv, BeforeTable
  <2>8. \A t \in Sections : slots[t].size \in Nat /\ slots[t].offset \in Nat
    <3>1. Word \in Nat /\ Half \in Nat
      BY Widths
    <3> QED
      BY <3>1 DEF TypeOK, Chunk
  <2>9. \A t \in Sections :
          \/ slots'[t] = slots[t]
          \/ t = s /\ slots'[t] = [size |-> Masked(raw), offset |-> offset]
    BY <2>1 DEF TypeOK
  <2>10. \A t \in Sections : InTable(t) =>
           GET_CHUNK_OFFSET(count) <= slots[t].offset /\ EndOf(slots[t]) <= offset
    BY <2>4 DEF SectionsDisjoint
  <2>11. \A t \in Sections : InTable(t)' =>
           GET_CHUNK_OFFSET(count) <= slots'[t].offset /\ EndOf(slots'[t]) <= offset'
    BY <2>2, <2>5, <2>6, <2>8, <2>9, <2>10 DEF InTable, EndOf
  <2>12. \A t, u \in Sections : t # u /\ InTable(t)' /\ InTable(u)' =>
           EndOf(slots'[t]) <= slots'[u].offset \/ EndOf(slots'[u]) <= slots'[t].offset
    <3> SUFFICES ASSUME NEW t \in Sections, NEW u \in Sections,
                        t # u, InTable(t)', InTable(u)'
                 PROVE  EndOf(slots'[t]) <= slots'[u].offset \/ EndOf(slots'[u]) <= slots'[t].offset
      OBVIOUS
    <3>1. CASE slots'[t] = slots[t] /\ slots'[u] = slots[u]
      BY <2>4, <3>1 DEF SectionsDisjoint, InTable
    <3>2. CASE u = s /\ slots'[u].offset = offset /\ slots'[t] = slots[t]
      BY <2>10, <3>2 DEF InTable
    <3>3. CASE t = s /\ slots'[t].offset = offset /\ slots'[u] = slots[u]
      BY <2>10, <3>3 DEF InTable
    <3> QED
      BY <2>9, <3>1, <3>2, <3>3
  <2>13. SectionsDisjoint'
    BY <2>2, <2>11, <2>12 DEF SectionsDisjoint
  <2> QED
    BY <2>7, <2>13
<1>4. CASE ReadDataFails \/ EndTable \/ SkipSection \/ EndSections
  BY <1>1, <1>4 DEF ReadDataFails, EndTable, SkipSection, EndSections, End, fields, scan, BeforeTable
<1>5. CASE ReadFileVersion \/ ReadSettings \/ ReadClass \/ SkipUserData
  BY <1>1, <1>5 DEF ReadFileVersion, ReadSettings, ReadClass, SkipUserData, End, scan, BeforeTable
<1>6. CASE ReadNumberRefs \/ ReadReferences \/ Dispatch
  BY <1>1, <1>6 DEF ReadNumberRefs, ReadReferences, Dispatch, End, fields, scan, BeforeTable
<1>7. ASSUME NEW ok \in BOOLEAN, ParseSection(ok) PROVE OffsetInv' /\ SectionsDisjoint'
  BY <1>1, <1>7 DEF ParseSection, fields, scan, BeforeTable
<1>8. CASE UNCHANGED gbxVars
  BY <1>1, <1>8 DEF gbxVars, fields, scan
<1> QED
  BY <1>2, <1>3, <1>4, <1>5, <1>6, <1>7, <1>8 DEF GbxNext

(* Sections are parsed from byte ranges that have nothing in common.        *)
THEOREM SectionsNeverOverlap == GbxSpec => []SectionsDisjoint
<1>1. GbxInit => OffsetInv /\ SectionsDisjoint
  BY DEF GbxInit, OffsetInv, SectionsDisjoint, InTable, NoChunk
<1> QED
  BY <1>1, HeaderTypeCorrect, OffsetStep, PTL DEF GbxSpec
-----------------------------------------------------------------------------
(* A section with identifiers is parsed before the one with the picture:    *)
(* no order of a class has one behind it, and what is still to be parsed is *)
(* the end of that order.                                                   *)
OrderInv ==
  /\ pc \in Reading \cup {"reftable", "dispatch"} => parsed = <<>>
  /\ pc = "sections" =>
       /\ Len(toParse) <= Len(Order(class))
       /\ \A i \in 1..Len(toParse) : toParse[i] = Order(class)[i + (Len(Order(class)) - Len(toParse))]
       /\ \A i \in 1..Len(parsed), k \in 1..Len(toParse) :
            parsed[i].section \in Pictured(class) => toParse[k] \notin Naming(class)

LEMMA OrderFacts ==
  ASSUME NEW cl \in BaseClasses
  PROVE  /\ Order(cl) \in Seq(Sections)
         /\ \A i, k \in 1..Len(Order(cl)) :
              i <= k /\ Order(cl)[i] \in Pictured(cl) => Order(cl)[k] \notin Naming(cl)
<1>1. Order(cl) \in Seq(Sections)
  BY OrderType
<1>2. CASE cl = "Challenge"
  <2>1. Order(cl) = ChallengeSections /\ Len(Order(cl)) = 7
    BY <1>2 DEF Order, ChallengeSections
  <2>2. /\ Order(cl)[1] = "TmDesc" /\ Order(cl)[2] = "Common" /\ Order(cl)[3] = "Version"
        /\ Order(cl)[4] = "Community" /\ Order(cl)[5] = "Thumbnail"
        /\ Order(cl)[6] = "Author" /\ Order(cl)[7] = "VskDesc"
    BY <2>1 DEF ChallengeSections
  <2>3. Pictured(cl) = {"Thumbnail"} /\ Naming(cl) = {"Common"}
    BY <1>2 DEF Pictured, Naming
  <2>4. \A i, k \in 1..7 : i <= k /\ Order(cl)[i] = "Thumbnail" => Order(cl)[k] # "Common"
    BY <2>2
  <2> QED
    BY <1>1, <2>1, <2>3, <2>4
<1>3. CASE cl # "Challenge"
  <2>1. Pictured(cl) = {} \/ Naming(cl) = {}
    BY <1>3 DEF Pictured, Naming
  <2> QED
    BY <1>1, <2>1
<1> QED
  BY <1>2, <1>3

LEMMA IdsBeforePictureStep ==
  TypeOK /\ OrderInv /\ IdsBeforePicture /\ [GbxNext]_gbxVars => OrderInv' /\ IdsBeforePicture'
<1> SUFFICES ASSUME TypeOK, OrderInv, IdsBeforePicture, [GbxNext]_gbxVars
             PROVE  OrderInv' /\ IdsBeforePicture'
  OBVIOUS
<1> DEFINE entries == [section : Sections, at : 0..(Word - 1), ok : BOOLEAN]
<1>t. class \in BaseClasses /\ toParse \in Seq(Sections) /\ parsed \in Seq(entries)
  BY DEF TypeOK
<1>1. ASSUME UNCHANGED parsed, parsed = <<>>, pc' # "sections" PROVE OrderInv' /\ IdsBeforePicture'
  BY <1>1 DEF OrderInv, IdsBeforePicture
<1>2. ASSUME pc' = "done", UNCHANGED <<class, parsed>> PROVE OrderInv' /\ IdsBeforePicture'
  BY <1>2 DEF OrderInv, IdsBeforePicture, Reading
<1>3. CASE ReadDataFails
  BY <1>2, <1>3 DEF ReadDataFails, End, fields
<1>4. CASE ReadFileVersion \/ ReadSettings \/ ReadClass \/ SkipUserData \/ ReadNumberRefs
  BY <1>1, <1>4 DEF ReadFileVersion, ReadSettings, ReadClass, SkipUserData, ReadNumberRefs, End,
     OrderInv, Reading
<1>5. CASE ReadReferences \/ Dispatch \/ ReadNumberChunks \/ ReadEntry
  BY <1>1, <1>5 DEF ReadReferences, Dispatch, ReadNumberChunks, ReadEntry, End, OrderInv, Reading
<1>6. CASE EndTable
  <2>1. parsed = <<>> /\ parsed' = <<>> /\ class' = class /\ toParse' = Order(class) /\ pc' = "sections"
    BY <1>6 DEF EndTable, OrderInv, Reading, fields
  <2>2. Order(class) \in Seq(Sections)
    BY <1>t, OrderFacts
  <2>3. OrderInv'
    BY <2>1, <2>2 DEF OrderInv, Reading
  <2> QED
    BY <2>1, <2>3 DEF IdsBeforePicture
<1>7. ASSUME pc = "sections", pc' = "sections", toParse # <<>>, toParse' = Tail(toParse), class' = class,
             parsed' \in Seq(entries),
             \/ parsed' = parsed
             \/ \E e \in entries : e.section = Head(toParse) /\ parsed' = Append(parsed, e)
      PROVE  OrderInv' /\ IdsBeforePicture'
  <2> DEFINE n == Len(Order(class))
  <2>1. /\ Len(toParse) \in 1..n /\ n \in Nat /\ Len(toParse') = Len(toParse) - 1
        /\ Head(toParse) = toParse[1]
        /\ \A i \in 1..Len(toParse') : toParse'[i] = toParse[i + 1]
    BY <1>7, <1>t, OrderFacts DEF OrderInv
  <2>2. \A i \in 1..Len(toParse) : toParse[i] = Order(class)[i + (n - Len(toParse))]
    BY <1>7 DEF OrderInv
  <2>3. \A i \in 1..Len(toParse') : toParse'[i] = Order(class)[i + (n - Len(toParse'))]
    <3> SUFFICES ASSUME NEW i \in 1..Len(toParse') PROVE toParse'[i] = Order(class)[i + (n - Len(toParse'))]
      OBVIOUS
    <3>1. i + 1 \in 1..Len(toParse) /\ (i + 1) + (n - Len(toParse)) = i + (n - Len(toParse'))
      BY <2>1
    <3> QED
      BY <2>1, <2>2, <3>1
  <2>4. \A i \in 1..Len(parsed), k \in 1..Len(toParse) :
          parsed[i].section \in Pictured(class) => toParse[k] \notin Naming(class)
    BY <1>7 DEF OrderInv
  <2>5. ASSUME Head(toParse) \in Pictured(class), NEW k \in 1..Len(toParse)
        PROVE  toParse[k] \notin Naming(class)
    <3>1. /\ 1 + (n - Len(toParse)) \in 1..n /\ k + (n - Len(toParse)) \in 1..n
          /\ 1 + (n - Len(toParse)) <= k + (n - Len(toParse))
      BY <2>1
    <3>2. /\ toParse[1] = Order(class)[1 + (n - Len(toParse))]
          /\ toParse[k] = Order(class)[k + (n - Len(toParse))]
      BY <2>1, <2>2
    <3> QED
      BY <1>t, <2>1, <2>5, <3>1, <3>2, OrderFacts
  <2>6. CASE parsed' = parsed
    <3>1. OrderInv'
      BY <1>7, <2>1, <2>3, <2>4, <2>6 DEF OrderInv, Reading
    <3> QED
      BY <1>7, <2>6, <3>1 DEF IdsBeforePicture
  <2>7. ASSUME NEW e \in entries, e.section = Head(toParse), parsed' = Append(parsed, e)
        PROVE  OrderInv' /\ IdsBeforePicture'
    <3>1. /\ Len(parsed) \in Nat /\ Len(parsed') = Len(parsed) + 1
          /\ parsed'[Len(parsed')] = e
          /\ \A i \in 1..Len(parsed) : parsed'[i] = parsed[i]
      BY <1>t, <2>7
    <3>2. \A i \in 1..Len(parsed'), k \in 1..Len(toParse') :
            parsed'[i].section \in Pictured(class) => toParse'[k] \notin Naming(class)
      <4> SUFFICES ASSUME NEW i \in 1..Len(parsed'), NEW k \in 1..Len(toParse'),
                          parsed'[i].section \in Pictured(class)
                   PROVE  toParse'[k] \notin Naming(class)
        OBVIOUS
      <4>1. k + 1 \in 1..Len(toParse) /\ toParse'[k] = toParse[k + 1]
        BY <2>1
      <4>2. CASE i = Len(parsed')
        BY <2>5, <2>7, <3>1, <4>1, <4>2
      <4>3. CASE i # Len(parsed')
        BY <2>4, <3>1, <4>1, <4>3
      <4> QED
        BY <4>2, <4>3
    <3>3. OrderInv'
      BY <1>7, <2>1, <2>3, <3>2 DEF OrderInv, Reading
    <3>4. IdsBeforePicture'
      <4> SUFFICES ASSUME NEW i \in 1..Len(parsed'), NEW j \in 1..Len(parsed'),
                          parsed'[i].section \in Pictured(class),
                          parsed'[j].section \in Naming(class)
                   PROVE  j < i
        BY <1>7, <1>t, <3>1 DEF IdsBeforePicture
      <4>1. CASE i \in 1..Len(parsed) /\ j \in 1..Len(parsed)
        BY <1>t, <3>1, <4>1 DEF IdsBeforePicture
      <4>2. CASE i = Len(parsed') /\ j \in 1..Len(parsed)
        BY <3>1, <4>2
      <4>3. CASE j = Len(parsed')
        <5>1. toParse[1] \in Naming(class) /\ 1 \in 1..Len(toParse)
          BY <2>1, <2>7, <3>1, <4>3
        <5>2. CASE i = Len(parsed')
          BY <2>1, <2>5, <2>7, <3>1, <5>1, <5>2
        <5>3. CASE i \in 1..Len(parsed)
          BY <2>4, <3>1, <5>1, <5>3
        <5> QED
          BY <3>1, <5>2, <5>3
      <4> QED
        BY <3>1, <4>1, <4>2, <4>3
    <3> QED
      BY <3>3, <3>4
  <2> QED
    BY <1>7, <2>6, <2>7
<1>8. CASE SkipSection
  BY <1>7, <1>8, <1>t DEF SkipSection, fields
<1>9. ASSUME NEW ok \in BOOLEAN, ParseSection(ok) PROVE OrderInv' /\ IdsBeforePicture'
  <2> DEFINE e == [section |-> Head(toParse), at |-> slots[Head(toParse)].offset, ok |-> ok]
  <2>1. Head(toParse) \in Sections /\ slots[Head(toParse)].offset \in 0..(Word - 1)
    BY <1>9, <1>t DEF ParseSection, TypeOK, Chunk
  <2>2. e \in entries /\ e.section = Head(toParse) /\ parsed' = Append(parsed, e)
    BY <1>9, <2>1 DEF ParseSection
  <2>3. parsed' \in Seq(entries)
    BY <1>t, <2>2
  <2>4. pc = "sections" /\ pc' = "sections" /\ toParse # <<>> /\ toParse' = Tail(toParse) /\ class' = class
    BY <1>9 DEF ParseSection, fields
  <2> HIDE DEF e
  <2> QED
    BY <1>7, <2>2, <2>3, <2>4
<1>10. CASE EndSections
  BY <1>2, <1>10 DEF EndSections, fields
<1>11. CASE UNCHANGED gbxVars
  BY <1>11 DEF gbxVars, fields, OrderInv, IdsBeforePicture
<1> QED
  BY <1>3, <1>4, <1>5, <1>6, <1>8, <1>9, <1>10, <1>11 DEF GbxNext

(* The picture of a map is decoded only when the map has been identified,   *)
(* in whatever order the file has its sections.                             *)
THEOREM IdsAlwaysBeforePicture == GbxSpec => []IdsBeforePicture
<1>1. GbxInit => OrderInv /\ IdsBeforePicture
  BY DEF GbxInit, OrderInv, IdsBeforePicture
<1> QED
  BY <1>1, HeaderTypeCorrect, IdsBeforePictureStep, PTL DEF GbxSpec

-----------------------------------------------------------------------------
(* The slots and the table.  The sizes are summed up from the start of the  *)
(* table, so that the sums of its first entries do not change when one is   *)
(* appended; the next offset is the whole sum.                              *)
Entries == [section : Sections \cup {"other"}, raw : Nat]

SumsSizes(f, t) ==
  /\ f[0] = 0
  /\ \A n \in Nat : /\ f[n] \in Nat
                    /\ f[n + 1] = f[n] + (IF n + 1 \in DOMAIN t THEN t[n + 1].raw % Half ELSE 0)
LEMMA SizesAreSums ==
  ASSUME NEW t \in Seq(Entries)
  PROVE  SumsSizes(SizesUpTo(t), t)
<1> DEFINE weight(n) == IF n \in DOMAIN t THEN t[n].raw % Half ELSE 0
           step == [x \in Nat \X Nat |-> x[2] + weight(x[1] + 1)]
           Sum(f) == f = [n \in Nat |-> IF n = 0 THEN 0 ELSE f[n - 1] + weight(n)]
<1>1. \A n \in Nat : weight(n) \in Nat
  <2>1. \A n \in DOMAIN t : t[n] \in Entries
    OBVIOUS
  <2>2. \A r \in Nat : r % Half \in Nat
    BY WordAssumption
  <2> QED
    BY <2>1, <2>2 DEF Entries
<1>2. StepsIn(Nat, step)
  BY <1>1 DEF StepsIn
<1>3. \A n, v \in Nat : step[<<n, v>>] = v + weight(n + 1)
  OBVIOUS
<1>4. SizesUpTo(t) = CHOOSE f : Sum(f)
  BY DEF SizesUpTo
<1> HIDE DEF weight, step
<1>5. PICK f : Iterates(f, Nat, 0, step)
  BY <1>2, RecursionExists
<1>6. f \in [Nat -> Nat] /\ f[0] = 0 /\ \A n \in Nat : f[n + 1] = step[<<n, f[n]>>]
  BY <1>5 DEF Iterates
<1>7. Sum(f)
  <2>1. \A n \in Nat \ {0} : f[n] = f[n - 1] + weight(n)
    <3> SUFFICES ASSUME NEW n \in Nat \ {0} PROVE f[n] = f[n - 1] + weight(n)
      OBVIOUS
    <3>1. n - 1 \in Nat /\ (n - 1) + 1 = n
      OBVIOUS
    <3>2. f[n - 1] \in Nat
      BY <1>6, <3>1
    <3> QED
      BY <1>3, <1>6, <3>1, <3>2
  <2> QED
    BY <1>6, <2>1
<1>8. Sum(SizesUpTo(t))
  <2> HIDE DEF Sum
  <2> QED
    BY <1>4, <1>7
<1>9. PICK g : g = SizesUpTo(t) /\ g[0] = 0 /\ \A n \in Nat : g[n + 1] = g[n] + weight(n + 1)
  BY <1>8
<1>10. \A n \in Nat : g[n] \in Nat
  <2>1. ASSUME NEW n \in Nat, g[n] \in Nat PROVE g[n + 1] \in Nat
    <3>1. PICK m \in Nat : m = n + 1
      OBVIOUS
    <3>2. weight(m) \in Nat /\ g[m] = g[n] + weight(m)
      BY <1>1, <1>9, <3>1
    <3> QED
      BY <2>1, <3>1, <3>2
  <2>2. StaysIn(Nat, g)
    BY <1>9, <2>1 DEF StaysIn
  <2> QED
    BY <2>2, ValuesIn
<1>11. /\ SizesUpTo(t)[0] = 0 /\ \A n \in Nat : SizesUpTo(t)[n] \in Nat
       /\ \A n \in Nat : SizesUpTo(t)[n + 1] = SizesUpTo(t)[n] + weight(n + 1)
  BY <1>9, <1>10
<1> QED
  BY <1>11 DEF weight, SumsSizes

LEMMA SizesAppend ==
  ASSUME NEW t \in Seq(Entries), NEW e \in Entries
  PROVE  /\ \A i \in 0..Len(t) : SizesUpTo(Append(t, e))[i] = SizesUpTo(t)[i]
         /\ SizesUpTo(Append(t, e))[Len(t) + 1] = SizesUpTo(t)[Len(t)] + (e.raw % Half)
<1>a. Append(t, e) \in Seq(Entries)
  OBVIOUS
<1>1. PICK u \in Seq(Entries) : u = Append(t, e)
  BY <1>a
<1>2. /\ Len(t) \in Nat /\ DOMAIN t = 1..Len(t) /\ DOMAIN u = 1..(Len(t) + 1)
      /\ \A i \in 1..Len(t) : u[i] = t[i]
      /\ u[Len(t) + 1] = e
  BY <1>1
<1>b. PICK f, g : f = SizesUpTo(t) /\ g = SizesUpTo(u) /\ SumsSizes(f, t) /\ SumsSizes(g, u)
  BY SizesAreSums
<1>3. /\ f[0] = g[0]
      /\ \A n \in Nat : f[n + 1] = f[n] + (IF n + 1 \in DOMAIN t THEN t[n + 1].raw % Half ELSE 0)
      /\ \A n \in Nat : g[n + 1] = g[n] + (IF n + 1 \in DOMAIN u THEN u[n + 1].raw % Half ELSE 0)
  BY <1>b DEF SumsSizes
<1>4. ASSUME NEW i \in 0..(Len(t) - 1), f[i] = g[i] PROVE f[i + 1] = g[i + 1]
  <2>1. i \in Nat /\ i + 1 \in DOMAIN t /\ i + 1 \in DOMAIN u /\ u[i + 1] = t[i + 1]
    BY <1>2
  <2>2. f[i + 1] = f[i] + (t[i + 1].raw % Half)
    BY <1>3, <2>1
  <2>3. g[i + 1] = g[i] + (u[i + 1].raw % Half)
    BY <1>3, <2>1
  <2> QED
    BY <1>4, <2>1, <2>2, <2>3
<1>5. \A i \in 0..Len(t) : f[i] = g[i]
  <2>1. StepsAgree(f, g, Len(t))
    BY <1>3, <1>4 DEF StepsAgree
  <2> QED
    BY <1>2, <2>1, AgreeUpTo
<1>6. g[Len(t) + 1] = g[Len(t)] + (e.raw % Half)
  <2>1. Len(t) + 1 \in DOMAIN u
    BY <1>2
  <2>2. g[Len(t) + 1] = g[Len(t)] + (u[Len(t) + 1].raw % Half)
    BY <1>2, <1>3, <2>1
  <2> QED
    BY <1>2, <2>2
<1> QED
  <2>1. \A i \in 0..Len(t) : SizesUpTo(u)[i] = SizesUpTo(t)[i]
    BY <1>b, <1>5
  <2>2. SizesUpTo(u)[Len(t) + 1] = SizesUpTo(t)[Len(t)] + (e.raw % Half)
    <3>1. f[Len(t)] = g[Len(t)]
      BY <1>2, <1>5
    <3> QED
      BY <1>b, <1>6, <3>1
  <2> QED
    BY <1>1, <2>1, <2>2

(* Before the table there are no slots; behind its entries the sum is next. *)
TableInv ==
  /\ pc \in BeforeTable => table = <<>> /\ \A s \in Sections : slots[s] = NoChunk
  /\ pc = "table" =>
       offset = (GET_CHUNK_OFFSET(count) + SizesUpTo(table)[Len(table)]) % Word

LEMMA SlotsStep ==
  TypeOK /\ TableInv /\ OffsetInv /\ SlotsFollowTable /\ [GbxNext]_gbxVars => TableInv' /\ SlotsFollowTable'
<1> SUFFICES ASSUME TypeOK, TableInv, OffsetInv, SlotsFollowTable, [GbxNext]_gbxVars
             PROVE  TableInv' /\ SlotsFollowTable'
  OBVIOUS
<1>1. ASSUME UNCHANGED <<count, offset, slots, table>>,
             pc' \in BeforeTable => pc \in BeforeTable,
             pc' = "table" => pc = "table"
      PROVE  TableInv' /\ SlotsFollowTable'
  <2>1. TableInv'
    BY <1>1 DEF TableInv
  <2>2. SlotsFollowTable'
    BY <1>1 DEF SlotsFollowTable, ChunkOf
  <2> QED
    BY <2>1, <2>2
<1>2. CASE ReadNumberChunks
  <2>1. /\ table = <<>> /\ table' = <<>>
        /\ \A s \in Sections : slots[s] = NoChunk /\ slots'[s] = NoChunk
    BY <1>2 DEF ReadNumberChunks, TableInv, BeforeTable
  <2>2. SlotsFollowTable'
    BY <2>1 DEF SlotsFollowTable
  <2>3. pc' \notin BeforeTable
    BY <1>2 DEF ReadNumberChunks, End, BeforeTable
  <2>4. ASSUME pc' = "table"
        PROVE  offset' = (GET_CHUNK_OFFSET(count') + SizesUpTo(table')[Len(table')]) % Word
    <3>1. SizesUpTo(table')[Len(table')] = 0
      <4>1. table' \in Seq(Entries) /\ Len(table') = 0
        BY <2>1
      <4> QED
        BY <4>1, SizesAreSums DEF SumsSizes
    <3>2. count' \in Nat /\ ~(count' > MaxChunks) /\ offset' = GET_CHUNK_OFFSET(count')
      BY <1>2, <2>4, FieldAssumption DEF ReadNumberChunks, End
    <3>3. offset' \in 0..(Word - 1) /\ GET_CHUNK_OFFSET(count') + 0 = offset'
      <4>1. offset' \in 0..(Word - 1)
        BY HeaderTypeStep DEF TypeOK
      <4>2. GET_CHUNK_OFFSET(count') \in Nat
        BY <3>2, TableEndType
      <4> QED
        BY <3>2, <4>1, <4>2
    <3> QED
      BY <3>1, <3>3, Widths
  <2> QED
    BY <2>2, <2>3, <2>4 DEF TableInv
<1>3. CASE ReadEntry
  <2>1. PICK s \in Known(class) \cup {"other"}, raw \in RawSizes :
          /\ slots' = IF s = "other" THEN slots
                      ELSE [slots EXCEPT ![s] = [size |-> Masked(raw), offset |-> offset]]
          /\ offset' = (offset + Masked(raw)) % Word
          /\ table' = Append(table, [section |-> s, raw |-> raw])
    BY <1>3 DEF ReadEntry
  <2>n. PICK n \in Nat : n = Len(table)
    BY DEF TypeOK
  <2> DEFINE e == [section |-> s, raw |-> raw]
             base == GET_CHUNK_OFFSET(count)
  <2>2. /\ pc = "table" /\ pc' = pc /\ count' = count
        /\ raw \in Nat /\ Masked(raw) \in Nat /\ Masked(raw) = raw % Half
        /\ base \in Nat /\ table \in Seq(Entries)
    <3>1. pc = "table" /\ pc' = pc /\ count' = count
      BY <1>3 DEF ReadEntry, fields
    <3>2. raw \in Nat /\ Masked(raw) \in Nat /\ Masked(raw) = raw % Half
      BY Widths, FieldAssumption DEF Masked
    <3>3. base \in Nat /\ table \in Seq(Entries)
      BY TableEndType DEF TypeOK, Entries
    <3> QED
      BY <3>1, <3>2, <3>3
  <2>3. s \in Sections \cup {"other"} /\ "other" \notin Sections
    <3>1. s \in Sections \cup {"other"}
      BY OrderType DEF TypeOK
    <3>2. "other" \notin Sections
      BY OrderType DEF Sections
    <3> QED
      BY <3>1, <3>2
  <2>4. e \in Entries /\ e.raw = raw /\ e.section = s
    BY <2>2, <2>3 DEF Entries
  <2>5. /\ table' \in Seq(Entries) /\ n = Len(table) /\ Len(table') = n + 1
        /\ DOMAIN table = 1..n /\ DOMAIN table' = 1..(n + 1)
        /\ \A i \in 1..n : table'[i] = table[i]
        /\ table'[n + 1] = e
    BY <2>1, <2>2, <2>4, <2>n
  <2>6. /\ \A i \in 0..n : SizesUpTo(table')[i] = SizesUpTo(table)[i]
        /\ SizesUpTo(table')[n + 1] = SizesUpTo(table)[n] + (raw % Half)
        /\ SizesUpTo(table)[n] \in Nat
      <3>1. SumsSizes(SizesUpTo(table), table)
      BY <2>2, SizesAreSums
    <3>2. table' = Append(table, e)
      BY <2>1
    <3>3. /\ \A i \in 0..n : SizesUpTo(Append(table, e))[i] = SizesUpTo(table)[i]
          /\ SizesUpTo(Append(table, e))[n + 1] = SizesUpTo(table)[n] + (e.raw % Half)
      <4> HIDE DEF e
      <4> QED
        BY <2>2, <2>4, <2>n, SizesAppend
    <3>4. SizesUpTo(table)[n] \in Nat
      BY <2>5, <3>1 DEF SumsSizes
    <3> QED
      BY <2>4, <3>2, <3>3, <3>4
  <2>7. offset = (base + SizesUpTo(table)[n]) % Word
    BY <2>2, <2>n DEF TableInv
  <2>8. offset' = (base + SizesUpTo(table')[n + 1]) % Word
    <3>1. Word \in Nat \ {0}
      BY Widths
    <3>2. PICK a \in Nat, b \in Nat : a = base + SizesUpTo(table)[n] /\ b = raw % Half
      BY <2>2, <2>6
    <3>3. ((a % Word) + b) % Word = (a + b) % Word
      BY <3>1, RemainderOfSum
    <3>4. base + SizesUpTo(table')[n + 1] = a + b
      BY <2>2, <2>6, <3>2
    <3> QED
      BY <2>1, <2>2, <2>7, <3>2, <3>3, <3>4
  <2>9. TableInv'
    BY <2>2, <2>5, <2>8 DEF TableInv, BeforeTable
  <2>10. \A i \in 1..n : ChunkOf(i)' = ChunkOf(i)
    <3> SUFFICES ASSUME NEW i \in 1..n PROVE ChunkOf(i)' = ChunkOf(i)
      OBVIOUS
    <3>1. i - 1 \in 0..n
      BY <2>5
    <3>2. table'[i] = table[i] /\ SizesUpTo(table')[i - 1] = SizesUpTo(table)[i - 1]
      BY <2>5, <2>6, <3>1
    <3> QED
      BY <2>2, <3>2 DEF ChunkOf
  <2>11. ChunkOf(n + 1)' = [size |-> Masked(raw), offset |-> offset]
    <3>1. (n + 1) - 1 = n /\ n \in 0..n
      BY <2>5
    <3>2. SizesUpTo(table')[(n + 1) - 1] = SizesUpTo(table)[n]
      BY <2>6, <3>1
    <3>3. table'[n + 1].raw % Half = Masked(raw)
      BY <2>2, <2>4, <2>5
    <3>4. ChunkOf(n + 1)' = [size   |-> table'[n + 1].raw % Half,
                             offset |-> (GET_CHUNK_OFFSET(count')
                                           + SizesUpTo(table')[(n + 1) - 1]) % Word]
      BY DEF ChunkOf
    <3> QED
      BY <2>2, <2>7, <3>2, <3>3, <3>4
  <2>12. ASSUME NEW t \in Sections
         PROVE  \/ /\ \A i \in DOMAIN table' : table'[i].section # t
                   /\ slots'[t] = NoChunk
                \/ \E last \in DOMAIN table' :
                     /\ table'[last].section = t
                     /\ \A i \in DOMAIN table' : table'[i].section = t => i <= last
                     /\ slots'[t] = ChunkOf(last)'
    <3>1. CASE t = s
      <4>1. slots'[t] = ChunkOf(n + 1)'
        BY <2>1, <2>3, <2>11, <3>1 DEF TypeOK
      <4>2. n + 1 \in DOMAIN table' /\ \A i \in DOMAIN table' : i <= n + 1
        BY <2>5
      <4>3. table'[n + 1].section = t
        BY <2>4, <2>5, <3>1
      <4>4. PICK last \in DOMAIN table' : last = n + 1
        BY <4>2
      <4> QED
        BY <4>1, <4>2, <4>3, <4>4
    <3>2. CASE t # s
      <4>1. slots'[t] = slots[t] /\ table'[n + 1].section # t
        BY <2>1, <2>4, <2>5, <3>2 DEF TypeOK
      <4>2. CASE (\A i \in DOMAIN table : table[i].section # t) /\ slots[t] = NoChunk
        BY <2>5, <4>1, <4>2
      <4>3. ASSUME NEW last \in DOMAIN table, table[last].section = t,
                   \A i \in DOMAIN table : table[i].section = t => i <= last,
                   slots[t] = ChunkOf(last)
            PROVE  \E k \in DOMAIN table' :
                     /\ table'[k].section = t
                     /\ \A i \in DOMAIN table' : table'[i].section = t => i <= k
                     /\ slots'[t] = ChunkOf(k)'
        <5>1. last \in DOMAIN table' /\ last \in 1..n /\ table'[last].section = t
          BY <2>5, <4>3
        <5>2. \A i \in DOMAIN table' : table'[i].section = t => i <= last
          BY <2>5, <4>1, <4>3
        <5>3. slots'[t] = ChunkOf(last)'
          BY <2>10, <4>1, <4>3, <5>1
        <5> QED
          BY <5>1, <5>2, <5>3
      <4> QED
        BY <4>2, <4>3 DEF SlotsFollowTable
    <3> QED
      BY <3>1, <3>2
  <2>13. SlotsFollowTable'
    BY <2>12 DEF SlotsFollowTable
  <2> QED
    BY <2>9, <2>13
<1>4. CASE ReadDataFails \/ EndTable \/ SkipSection \/ EndSections
  BY <1>1, <1>4 DEF ReadDataFails, EndTable, SkipSection, EndSections, End, fields, scan, BeforeTable
<1>5. CASE ReadFileVersion \/ ReadSettings \/ ReadClass \/ SkipUserData
  BY <1>1, <1>5 DEF ReadFileVersion, ReadSettings, ReadClass, SkipUserData, End, scan, BeforeTable
<1>6. CASE ReadNumberRefs \/ ReadReferences \/ Dispatch
  BY <1>1, <1>6 DEF ReadNumberRefs, ReadReferences, Dispatch, End, fields, scan, BeforeTable
<1>7. ASSUME NEW ok \in BOOLEAN, ParseSection(ok) PROVE TableInv' /\ SlotsFollowTable'
  BY <1>1, <1>7 DEF ParseSection, fields, scan, BeforeTable
<1>8. CASE UNCHANGED gbxVars
  BY <1>1, <1>8 DEF gbxVars, fields, scan
<1> QED
  BY <1>2, <1>3, <1>4, <1>5, <1>6, <1>7, <1>8 DEF GbxNext

(* Whatever the table says, in whatever order and with whatever sizes, every *)
(* slot is the last entry of its section at the sum of the sizes before it.  *)
THEOREM SlotsAlwaysFollowTable == GbxSpec => []SlotsFollowTable
<1>1. GbxInit => TableInv /\ SlotsFollowTable /\ OffsetInv /\ SectionsDisjoint
  BY DEF GbxInit, TableInv, SlotsFollowTable, BeforeTable, OffsetInv, SectionsDisjoint, InTable, NoChunk
<1> QED
  BY <1>1, HeaderTypeCorrect, OffsetStep, SlotsStep, PTL DEF GbxSpec

(* The table that is read is the one in the file: it is found where the      *)
(* file has it and it ends up in the slots as it stands there.               *)
THEOREM TableAlwaysAsInFile == GbxSpec => []TableAsInFile
<1>1. TableAtUserData /\ SlotsFollowTable => TableAsInFile
  BY DEF TableAsInFile
<1> QED
  BY <1>1, TableIsAtUserData, SlotsAlwaysFollowTable, PTL

-----------------------------------------------------------------------------
(* What is left to do is the end of the order of the class, and the        *)
(* sections before it have been tried.                                      *)
Left == Len(Order(class)) - Len(toParse)
TriedInv ==
  /\ pc \in Reading \cup {"reftable", "dispatch"} => parsed = <<>> /\ success = TRUE
  /\ pc = "sections" =>
       /\ Len(toParse) <= Len(Order(class))
       /\ \A i \in 1..Len(toParse) : toParse[i] = Order(class)[i + Left]
       /\ TriedUpTo(Left)
  /\ AllSectionsTried

LEMMA TriedStep == TypeOK /\ TriedInv /\ [GbxNext]_gbxVars => TriedInv'
<1> SUFFICES ASSUME TypeOK, TriedInv, [GbxNext]_gbxVars PROVE TriedInv'
  OBVIOUS
<1> DEFINE entries == [section : Sections, at : 0..(Word - 1), ok : BOOLEAN]
<1>t. class \in BaseClasses /\ toParse \in Seq(Sections) /\ parsed \in Seq(entries)
  BY DEF TypeOK
<1>o. /\ Order(class) \in Seq(Sections) /\ Len(Order(class)) \in Nat /\ Len(toParse) \in Nat
      /\ DOMAIN Order(class) = 1..Len(Order(class))
  BY <1>t, OrderType
<1>1. ASSUME UNCHANGED <<parsed, success>>, parsed = <<>>, success = TRUE, pc' # "sections"
      PROVE  TriedInv'
  BY <1>1 DEF TriedInv, AllSectionsTried
<1>2. ASSUME pc' = "done", parsed = <<>>, UNCHANGED parsed PROVE TriedInv'
  BY <1>2 DEF TriedInv, AllSectionsTried, Reading
<1>3. CASE ReadDataFails
  BY <1>2, <1>3 DEF ReadDataFails, End, TriedInv
<1>4. CASE ReadFileVersion \/ ReadSettings \/ ReadClass \/ SkipUserData \/ ReadNumberRefs
  BY <1>1, <1>2, <1>4 DEF ReadFileVersion, ReadSettings, ReadClass, SkipUserData, ReadNumberRefs, End,
     TriedInv, Reading
<1>5. CASE ReadReferences \/ Dispatch \/ ReadNumberChunks \/ ReadEntry
  BY <1>1, <1>2, <1>5 DEF ReadReferences, Dispatch, ReadNumberChunks, ReadEntry, End, TriedInv, Reading
<1>6. CASE EndTable
  <2>1. /\ parsed = <<>> /\ parsed' = <<>> /\ class' = class /\ toParse' = Order(class)
        /\ pc' = "sections" /\ success = TRUE /\ success' = TRUE
    BY <1>6 DEF EndTable, TriedInv, Reading, fields
  <2>2. Left' = 0
    BY <2>1, <1>o DEF Left
  <2>3. TriedUpTo(0)'
    BY <2>1 DEF TriedUpTo
  <2>4. \A i \in 1..Len(toParse') : toParse'[i] = Order(class')[i + Left']
    BY <1>o, <2>1, <2>2
  <2> QED
    BY <1>o, <2>1, <2>2, <2>3, <2>4 DEF TriedInv, Reading, AllSectionsTried
<1>d. PICK d : d = Left
  OBVIOUS
<1>7. ASSUME pc = "sections", pc' = "sections", toParse # <<>>, toParse' = Tail(toParse), class' = class,
             TriedUpTo(d + 1)'
      PROVE  TriedInv'
  <2>1. d \in Nat /\ d = Len(Order(class)) - Len(toParse)
    BY <1>d, <1>o, <1>7 DEF TriedInv, Left
  <2>2. Left' = d + 1 /\ Len(toParse') = Len(toParse) - 1 /\ Len(toParse) \in Nat \ {0}
    BY <1>t, <1>o, <1>7, <2>1 DEF Left
  <2>3. \A i \in 1..Len(toParse') : toParse'[i] = toParse[i + 1] /\ i + 1 \in 1..Len(toParse)
    BY <1>t, <1>o, <1>7
  <2>4. \A i \in 1..Len(toParse) : toParse[i] = Order(class)[i + d]
    BY <1>7, <1>d DEF TriedInv
  <2>5. \A i \in 1..Len(toParse') : toParse'[i] = Order(class')[i + Left']
    <3> SUFFICES ASSUME NEW i \in 1..Len(toParse') PROVE toParse'[i] = Order(class)[i + (d + 1)]
      BY <1>7, <2>2
    <3>1. PICK j \in 1..Len(toParse) : j = i + 1 /\ toParse'[i] = toParse[j]
      BY <2>3
    <3>2. toParse[j] = Order(class)[j + d]
      BY <2>4
    <3>3. j + d = i + (d + 1)
      BY <2>1, <3>1
    <3> QED
      BY <3>1, <3>2, <3>3
  <2>6. Len(toParse') <= Len(Order(class'))
    BY <1>7, <1>o, <2>2 DEF TriedInv
  <2>7. TriedUpTo(Left)'
    BY <1>7, <2>2 DEF TriedUpTo
  <2> QED
    BY <1>7, <2>5, <2>6, <2>7 DEF TriedInv, Reading, AllSectionsTried
<1>8. ASSUME pc = "sections", toParse # <<>>
      PROVE  /\ d \in Nat /\ d + 1 \in 1..Len(Order(class)) /\ Head(toParse) = Order(class)[d + 1]
             /\ TriedUpTo(d) /\ Head(toParse) \in Sections
  <2>1. d \in Nat /\ d = Len(Order(class)) - Len(toParse) /\ Len(toParse) \in Nat \ {0}
    BY <1>d, <1>o, <1>t, <1>8 DEF TriedInv, Left
  <2>2. d + 1 \in 1..Len(Order(class)) /\ Head(toParse) = toParse[1] /\ 1 \in 1..Len(toParse)
    BY <1>o, <1>t, <1>8, <2>1
  <2>3. toParse[1] = Order(class)[1 + d] /\ 1 + d = d + 1
    BY <1>8, <1>d, <2>1, <2>2 DEF TriedInv
  <2>4. TriedUpTo(d)
    BY <1>8, <1>d DEF TriedInv
  <2> QED
    BY <1>t, <1>8, <2>1, <2>2, <2>3, <2>4
<1>9. CASE SkipSection
  <2>1. /\ pc = "sections" /\ pc' = "sections" /\ toParse # <<>> /\ toParse' = Tail(toParse)
        /\ slots[Head(toParse)].size = 0 /\ UNCHANGED <<class, slots, parsed, success>>
    BY <1>9 DEF SkipSection, fields, scan
  <2>2. ~InTable(Order(class)[d + 1])
    BY <1>8, <2>1 DEF InTable
  <2>3. d \in Nat /\ TriedUpTo(d)
    BY <1>8, <2>1
  <2>4. ASSUME NEW k \in 1..(d + 1), InTable(Order(class)[k])
        PROVE  \E i \in DOMAIN parsed : parsed[i].section = Order(class)[k]
    <3>1. k \in 1..d
      BY <2>2, <2>3, <2>4
    <3> QED
      BY <2>3, <2>4, <3>1 DEF TriedUpTo
  <2>5. \A i \in DOMAIN parsed :
          /\ \E k \in 1..(d + 1) : parsed[i].section = Order(class)[k]
          /\ InTable(parsed[i].section)
          /\ parsed[i].at = slots[parsed[i].section].offset
    BY <2>3 DEF TriedUpTo
  <2>6. TriedUpTo(d + 1)'
    BY <2>1, <2>3, <2>4, <2>5 DEF TriedUpTo, Before, InTable
  <2> QED
    BY <1>7, <2>1, <2>6
<1>10. ASSUME NEW ok \in BOOLEAN, ParseSection(ok) PROVE TriedInv'
  <2> DEFINE e == [section |-> Head(toParse), at |-> slots[Head(toParse)].offset, ok |-> ok]
  <2>1. /\ pc = "sections" /\ pc' = "sections" /\ toParse # <<>> /\ toParse' = Tail(toParse)
        /\ slots[Head(toParse)].size > 0 /\ UNCHANGED <<class, slots>>
        /\ parsed' = Append(parsed, e) /\ success' = (success /\ ok)
    BY <1>10 DEF ParseSection, fields, scan
  <2>2. /\ d \in Nat /\ d + 1 \in 1..Len(Order(class)) /\ Head(toParse) = Order(class)[d + 1]
        /\ TriedUpTo(d) /\ Head(toParse) \in Sections
    BY <1>8, <2>1
  <2>3. PICK m \in Nat : m = Len(parsed)
    BY <1>t
  <2>4. slots[Head(toParse)].offset \in 0..(Word - 1)
    BY <2>2 DEF TypeOK, Chunk
  <2>5. /\ parsed' \in Seq(entries) /\ DOMAIN parsed = 1..m /\ DOMAIN parsed' = 1..(m + 1)
        /\ \A i \in 1..m : parsed'[i] = parsed[i]
        /\ parsed'[m + 1] = e
    BY <1>t, <2>1, <2>2, <2>3, <2>4
  <2>6. /\ parsed'[m + 1].section = Order(class)[d + 1] /\ parsed'[m + 1].ok = ok
        /\ parsed'[m + 1].at = slots'[parsed'[m + 1].section].offset
        /\ slots'[parsed'[m + 1].section].size > 0
    <3>1. e.section = Head(toParse) /\ e.ok = ok /\ e.at = slots[Head(toParse)].offset
      OBVIOUS
    <3> HIDE DEF e
    <3> QED
      BY <2>1, <2>2, <2>5, <3>1
  <2>7. ASSUME NEW k \in 1..(d + 1), InTable(Order(class)[k])
        PROVE  \E i \in 1..(m + 1) : parsed'[i].section = Order(class)[k]
    <3>1. CASE k = d + 1
      BY <2>3, <2>6, <3>1
    <3>2. CASE k # d + 1
      <4>1. k \in 1..d
        BY <2>2, <3>2
      <4>2. PICK i \in 1..m : parsed[i].section = Order(class)[k]
        BY <2>2, <2>5, <2>7, <4>1 DEF TriedUpTo
      <4> QED
        BY <2>3, <2>5, <4>2
    <3> QED
      BY <3>1, <3>2
  <2>8. ASSUME NEW i \in 1..m
        PROVE  /\ \E k \in 1..d : parsed'[i].section = Order(class)[k]
               /\ slots'[parsed'[i].section].size > 0
               /\ parsed'[i].at = slots'[parsed'[i].section].offset
    <3>1. parsed'[i] = parsed[i] /\ i \in DOMAIN parsed
      BY <2>5
    <3>2. /\ \E k \in 1..d : parsed[i].section = Order(class)[k]
          /\ slots[parsed[i].section].size > 0
          /\ parsed[i].at = slots[parsed[i].section].offset
      BY <2>2, <3>1 DEF TriedUpTo, InTable
    <3> QED
      BY <2>1, <3>1, <3>2
  <2>9. ASSUME NEW i \in 1..(m + 1)
        PROVE  /\ \E k \in 1..(d + 1) : parsed'[i].section = Order(class)[k]
               /\ slots'[parsed'[i].section].size > 0
               /\ parsed'[i].at = slots'[parsed'[i].section].offset
    <3>1. CASE i = m + 1
      BY <2>2, <2>6, <3>1
    <3>2. CASE i # m + 1
      <4>1. i \in 1..m
        BY <2>3, <3>2
      <4>2. PICK k \in 1..d : parsed'[i].section = Order(class)[k]
        BY <2>8, <4>1
      <4>3. k \in 1..(d + 1)
        BY <2>2
      <4> QED
        BY <2>8, <4>1, <4>2, <4>3
    <3> QED
      BY <3>1, <3>2
  <2>10. ASSUME NEW i \in 1..(m + 1), NEW j \in 1..(m + 1), i < j
         PROVE  Before(parsed'[i].section, parsed'[j].section)
    <3>1. i \in 1..m
      BY <2>3, <2>10
    <3>2. CASE j = m + 1
      <4>1. PICK k \in 1..d : parsed'[i].section = Order(class)[k]
        BY <2>8, <3>1
      <4>2. k \in DOMAIN Order(class) /\ d + 1 \in DOMAIN Order(class) /\ k < d + 1
        BY <1>o, <2>2
      <4> QED
        BY <2>6, <3>2, <4>1, <4>2 DEF Before
    <3>3. CASE j # m + 1
      <4>1. j \in 1..m /\ parsed'[i] = parsed[i] /\ parsed'[j] = parsed[j]
        BY <2>3, <2>5, <3>1, <3>3
      <4> QED
        BY <2>2, <2>5, <2>10, <3>1, <4>1 DEF TriedUpTo
    <3> QED
      BY <3>2, <3>3
  <2>11. success' <=> \A i \in 1..(m + 1) : parsed'[i].ok
    <3>1. success <=> \A i \in 1..m : parsed[i].ok
      BY <2>2, <2>5 DEF TriedUpTo
    <3>2. (\A i \in 1..(m + 1) : parsed'[i].ok) <=> (\A i \in 1..m : parsed[i].ok) /\ ok
      <4>1. \A i \in 1..(m + 1) : i \in 1..m \/ i = m + 1
        BY <2>3
      <4>2. m + 1 \in 1..(m + 1) /\ \A i \in 1..m : i \in 1..(m + 1)
        BY <2>3
      <4>3. (\A i \in 1..(m + 1) : parsed'[i].ok) => (\A i \in 1..m : parsed[i].ok) /\ ok
        BY <2>5, <2>6, <4>2
      <4>4. (\A i \in 1..m : parsed[i].ok) /\ ok => \A i \in 1..(m + 1) : parsed'[i].ok
        BY <2>5, <2>6, <4>1
      <4> QED
        BY <4>3, <4>4
    <3> QED
      BY <2>1, <3>1, <3>2, Zenon
  <2>12. TriedUpTo(d + 1)'
    <3>1. class' = class /\ slots' = slots /\ DOMAIN parsed' = 1..(m + 1)
      BY <2>1, <2>5
    <3>2. \A k \in 1..(d + 1) : slots'[Order(class')[k]].size > 0 =>
            \E i \in DOMAIN parsed' : parsed'[i].section = Order(class')[k]
      BY <2>7, <3>1 DEF InTable
    <3>3. \A i \in DOMAIN parsed' :
            /\ \E k \in 1..(d + 1) : parsed'[i].section = Order(class')[k]
            /\ slots'[parsed'[i].section].size > 0
            /\ parsed'[i].at = slots'[parsed'[i].section].offset
      BY <2>9, <3>1
    <3>4. \A i, j \in DOMAIN parsed' : i < j =>
            \E k, l \in DOMAIN Order(class') :
              k < l /\ Order(class')[k] = parsed'[i].section /\ Order(class')[l] = parsed'[j].section
      BY <2>10, <3>1 DEF Before
    <3>5. success' <=> \A i \in DOMAIN parsed' : parsed'[i].ok
      BY <2>11, <3>1
    <3> HIDE DEF entries, e
    <3> QED
      BY <3>2, <3>3, <3>4, <3>5 DEF TriedUpTo, Before, InTable
  <2> QED
    BY <1>7, <2>1, <2>12
<1>11. CASE EndSections
  <2>1. /\ pc = "sections" /\ pc' = "done" /\ toParse = <<>>
        /\ UNCHANGED <<class, slots, parsed, success>>
    BY <1>11 DEF EndSections, fields, scan
  <2>2. Left = Len(Order(class))
    BY <1>o, <2>1 DEF Left
  <2>3. TriedUpTo(Len(Order(class)))
    BY <2>1, <2>2 DEF TriedInv
  <2>4. TriedUpTo(Len(Order(class)))'
    BY <2>1, <2>3 DEF TriedUpTo, Before, InTable
  <2> QED
    BY <2>1, <2>4 DEF TriedInv, AllSectionsTried, Reading
<1>12. CASE UNCHANGED gbxVars
  BY <1>12 DEF gbxVars, fields, scan, TriedInv, Left, TriedUpTo, Before, InTable, AllSectionsTried
<1> QED
  BY <1>3, <1>4, <1>5, <1>6, <1>9, <1>10, <1>11, <1>12 DEF GbxNext

(* A section that cannot be read hides no other one, whatever the table.     *)
THEOREM AllSectionsAreTried == GbxSpec => []AllSectionsTried
<1>1. GbxInit => TriedInv
  BY DEF GbxInit, TriedInv, AllSectionsTried, Reading
<1>2. TriedInv => AllSectionsTried
  BY DEF TriedInv
<1> QED
  BY <1>1, <1>2, HeaderTypeCorrect, TriedStep, PTL DEF GbxSpec
=============================================================================
