-------------------------- MODULE PackHeaderProofs --------------------------
(***************************************************************************)
(* Proofs about PackHeader: for packs of any version, with any number of   *)
(* included packs, folders and files, the blocks of the comment, of the    *)
(* XML text and of the checksums are freed once on every return, and the   *)
(* comment is printed behind the last included pack (PackPrinted).         *)
(*                                                                         *)
(* The invariant tells the phases of DumpPack apart by the fields that     *)
(* still wait to be read: in all of them but the first, the fields are of  *)
(* a kind that says which blocks there are.                                *)
(***************************************************************************)
EXTENDS PackHeader, SequenceTheorems, TLAPS

(* The fields with a block each, the states of reading such a block, the    *)
(* fields that DumpPackHeader reads as well, all that DumpPack collects,    *)
(* and what it prints in the end.                                           *)
TextBlocks == {"Txt", "Xml"}
DataFields  == {"checksum data", "Txt data", "Xml data"}
RestFields  == Plain \cup {"checksum", "crypt flags", "num folders", "num files"}
Collected   == RestFields \cup {"num packs", "end of pack"}
PrintFields == {"print Txt", "print Xml", "header"}
AllFields   == Collected \cup TextBlocks \cup DataFields \cup PrintFields \cup {"version"}

(* The fields that follow the block that is being read.                     *)
InBlock == packTodo # <<>> /\ Head(packTodo) \in DataFields
Waiting == IF InBlock THEN Tail(packTodo) ELSE packTodo

(* A field is not among those that wait, or is there at most once.          *)
Never(s, b) == \A i \in 1..Len(s) : s[i] # b
Once(s, b)  == \A i, j \in 1..Len(s) : s[i] = b /\ s[j] = b => i = j

(* Fields of which at most one is the comment and one the XML text, and     *)
(* behind them what is printed.                                             *)
Collects(s) ==
  /\ s \in Seq(Collected \cup TextBlocks \cup PrintFields) /\ Len(s) >= 3
  /\ s[Len(s) - 2] = "print Txt" /\ s[Len(s) - 1] = "print Xml" /\ s[Len(s)] = "header"
  /\ \A i \in 1..(Len(s) - 3) : s[i] \in Collected \cup TextBlocks
  /\ \A b \in TextBlocks : Once(s, b)

(* A block is there exactly if its pointer is not NULL.                     *)
Owns(b) == owned[b] = IF b \in lpData THEN 1 ELSE 0

(* The included packs are printed first; the comment, if there is one, is   *)
(* printed.                                                                 *)
PacksFirst  == \A i, j \in 1..Len(printed) : i <= j /\ printed[j] = "pack" => printed[i] = "pack"
TextPrinted == "Txt" \in lpData => \E i \in 1..Len(printed) : printed[i] = "Txt"

(* The phases: only the version is known to come; fields are collected      *)
(* while the two blocks may wait; the comment is printed, then the XML      *)
(* text; DumpPackHeader is called; its fields are read, or those of an old  *)
(* pack that has no blocks; done.                                           *)
Starting   == /\ packPc = "DumpPack" /\ packTodo = <<"version">>
              /\ lpData = {} /\ owned["Txt"] = 0 /\ owned["Xml"] = 0 /\ printed = <<>>
Collecting == /\ packPc = "DumpPack" /\ Collects(Waiting)
              /\ \A b \in TextBlocks : Owns(b) /\ (b \in lpData => Never(Waiting, b))
              /\ \A i \in 1..Len(printed) : printed[i] = "pack"
Printing   == /\ packPc = "DumpPack" /\ packTodo = <<"print Xml", "header">>
              /\ owned["Txt"] = 0 /\ Owns("Xml") /\ TextPrinted
Calling    == /\ packPc = "DumpPack" /\ packTodo = <<"header">>
              /\ owned["Txt"] = 0 /\ owned["Xml"] = 0 /\ TextPrinted
Finishing  == /\ packPc \in {"DumpPack", "DumpPackHeader"} /\ (packPc = "DumpPack" => lpData = {})
              /\ Waiting \in Seq(RestFields)
              /\ owned["Txt"] = 0 /\ owned["Xml"] = 0 /\ TextPrinted
Finished   == /\ packPc = "done" /\ packTodo = <<>>
              /\ owned["Txt"] = 0 /\ owned["Xml"] = 0 /\ (bRet = TRUE => TextPrinted)

Phases == Starting \/ Collecting \/ Printing \/ Calling \/ Finishing \/ Finished

PackTypes ==
  /\ dwVersion \in Nat /\ packTodo \in Seq(AllFields) /\ lpData \subseteq TextBlocks
  /\ owned \in [Blocks -> Int] /\ printed \in Seq({"pack", "Txt", "Xml"}) /\ PacksFirst

(* The block of a checksum lasts for one read.                              *)
ChecksumOwned ==
  owned["Checksum"] = IF packTodo # <<>> /\ Head(packTodo) = "checksum data" THEN 1 ELSE 0

PackInv == PackTypes /\ ChecksumOwned /\ Phases

-----------------------------------------------------------------------------
LEMMA Tuples ==
  ASSUME NEW S
  PROVE  /\ \A a \in S : <<a>> \in Seq(S)
         /\ \A a, b \in S : <<a, b>> \in Seq(S)
         /\ \A a, b, c \in S : <<a, b, c>> \in Seq(S)
         /\ \A a, b, c, d \in S : <<a, b, c, d>> \in Seq(S)
         /\ \A a, b, c, d, e \in S : <<a, b, c, d, e>> \in Seq(S)
         /\ \A a, b, c, d, e, f, g \in S : <<a, b, c, d, e, f, g>> \in Seq(S)
OBVIOUS

AuthorNames == {"author version", "login", "nick name", "zone", "extra info"}

LEMMA AuthorSet == {AuthorInfo[i] : i \in 1..5} = AuthorNames
<1>1. AuthorInfo = <<"author version", "login", "nick name", "zone", "extra info">>
  BY DEF AuthorInfo
<1>2. /\ AuthorInfo[1] = "author version" /\ AuthorInfo[2] = "login" /\ AuthorInfo[3] = "nick name"
      /\ AuthorInfo[4] = "zone" /\ AuthorInfo[5] = "extra info"
  BY <1>1
<1>3. 1..5 = {1, 2, 3, 4, 5}
  OBVIOUS
<1> QED
  BY <1>2, <1>3, Zenon DEF AuthorNames

LEMMA AuthorFields == AuthorInfo \in Seq(Plain) /\ AuthorNames \subseteq Plain
<1>1. AuthorInfo = <<"author version", "login", "nick name", "zone", "extra info">>
  BY DEF AuthorInfo
<1>2. AuthorNames \subseteq Plain
  BY AuthorSet, Zenon DEF Plain
<1>3. /\ "author version" \in Plain /\ "login" \in Plain /\ "nick name" \in Plain
      /\ "zone" \in Plain /\ "extra info" \in Plain
  BY <1>2, Zenon DEF AuthorNames
<1> QED
  BY <1>1, <1>2, <1>3, Tuples

LEMMA FieldKinds ==
  /\ \A f \in RestFields : f \notin {"num packs", "end of pack"}
  /\ \A f \in Collected : f \notin TextBlocks \cup PrintFields \cup DataFields \cup {"version"}
<1>1. Plain = {"skip", "comment", "build info", "url", "manialink", "download url",
            "creation time", "creation date", "title id", "usage", "name", "depth",
            "header max size", "headers start", "data start", "headers size",
            "compressed size", "file size", "flags", "folder index", "unknown", "size",
            "offset", "class", "file flags"} \cup AuthorNames
  BY AuthorSet, Zenon DEF Plain
<1> QED
  BY <1>1 DEF AuthorNames, RestFields, Collected, TextBlocks, PrintFields, DataFields

(* A part of the fields, in which each of some texts is found once.         *)
Piece(s, bs) == s \in Seq(Collected \cup bs) /\ \A b \in bs : Once(s, b)

(* Two parts joined are a part with the texts of both.                      *)
LEMMA PieceConcat ==
  ASSUME NEW as \in SUBSET TextBlocks, NEW bs \in SUBSET TextBlocks, as \cap bs = {},
         NEW s, NEW t, Piece(s, as), Piece(t, bs)
  PROVE  Piece(s \o t, as \cup bs)
<1>1. s \in Seq(Collected \cup as) /\ t \in Seq(Collected \cup bs)
  BY DEF Piece
<1>2. s \in Seq(Collected \cup (as \cup bs)) /\ t \in Seq(Collected \cup (as \cup bs))
  <2>1. Collected \cup as \subseteq Collected \cup (as \cup bs) /\ Collected \cup bs \subseteq Collected \cup (as \cup bs)
    OBVIOUS
  <2> QED
    BY <1>1, <2>1, SeqMonotonic
<1>3. /\ s \o t \in Seq(Collected \cup (as \cup bs)) /\ Len(s) \in Nat /\ Len(t) \in Nat
      /\ Len(s \o t) = Len(s) + Len(t)
      /\ \A i \in 1..(Len(s) + Len(t)) : (s \o t)[i] = IF i <= Len(s) THEN s[i] ELSE t[i - Len(s)]
  BY <1>2, ConcatProperties, LenProperties
<1>4. ASSUME NEW b \in TextBlocks, b \notin as PROVE Never(s, b)
  <2>1. b \notin Collected \cup as
    BY <1>4, FieldKinds
  <2>2. \A i \in 1..Len(s) : s[i] \in Collected \cup as
    BY <1>1, ElementOfSeq
  <2> QED
    BY <2>1, <2>2 DEF Never
<1>5. ASSUME NEW b \in TextBlocks, b \notin bs PROVE Never(t, b)
  <2>1. b \notin Collected \cup bs
    BY <1>5, FieldKinds
  <2>2. \A i \in 1..Len(t) : t[i] \in Collected \cup bs
    BY <1>1, ElementOfSeq
  <2> QED
    BY <2>1, <2>2 DEF Never
<1>6. ASSUME NEW b \in as \cup bs, NEW i \in 1..Len(s \o t), NEW j \in 1..Len(s \o t),
             (s \o t)[i] = b, (s \o t)[j] = b PROVE i = j
  <2>1. CASE b \in as
    <3>1. Never(t, b) /\ Once(s, b)
      BY <1>5, <2>1 DEF Piece
    <3>2. i <= Len(s) /\ j <= Len(s)
      BY <1>3, <1>6, <3>1 DEF Never
    <3> QED
      BY <1>3, <1>6, <3>1, <3>2 DEF Once
  <2>2. CASE b \in bs
    <3>1. Never(s, b) /\ Once(t, b)
      BY <1>4, <2>2 DEF Piece
    <3>2. i > Len(s) /\ j > Len(s)
      BY <1>3, <1>6, <3>1 DEF Never
    <3>3. i - Len(s) \in 1..Len(t) /\ j - Len(s) \in 1..Len(t) /\ t[i - Len(s)] = b /\ t[j - Len(s)] = b
      BY <1>3, <1>6, <3>2
    <3>4. i - Len(s) = j - Len(s)
      BY <3>1, <3>3 DEF Once
    <3> QED
      BY <1>3, <3>4
  <2> QED
    BY <2>1, <2>2
<1> QED
  BY <1>3, <1>6 DEF Piece, Once

LEMMA PiecePlain ==
  ASSUME NEW s, s \in Seq(Collected)
  PROVE  Piece(s, {})
<1>1. Collected \cup {} = Collected
  OBVIOUS
<1> QED
  BY <1>1 DEF Piece

LEMMA OneText ==
  ASSUME NEW b \in TextBlocks, NEW f \in Collected
  PROVE  Piece(<<f, b>>, {b}) /\ Piece(<<b, f>>, {b})
<1>1. f # b
  BY FieldKinds
<1>2. f \in Collected \cup {b} /\ b \in Collected \cup {b}
  OBVIOUS
<1>3. <<f, b>> \in Seq(Collected \cup {b}) /\ <<b, f>> \in Seq(Collected \cup {b})
  BY <1>2, Tuples
<1>4. \A i, j \in 1..2 : i = j \/ (i = 1 /\ j = 2) \/ (i = 2 /\ j = 1)
  OBVIOUS
<1>5. Once(<<f, b>>, b) /\ Once(<<b, f>>, b)
  BY <1>1, <1>4 DEF Once
<1> QED
  BY <1>3, <1>5 DEF Piece

LEMMA PieceCollects ==
  ASSUME NEW s, Piece(s, TextBlocks)
  PROVE  Collects(s \o Printouts)
<1>1. PICK z : z = <<"print Txt", "print Xml", "header">>
  OBVIOUS
<1>0. PICK all : all = Collected \cup TextBlocks \cup PrintFields
  OBVIOUS
<1>2. /\ z \in Seq(PrintFields) /\ Len(z) = 3 /\ z[1] = "print Txt" /\ z[2] = "print Xml" /\ z[3] = "header"
      /\ \A b \in TextBlocks : Never(z, b)
  <2>1. z \in Seq(PrintFields)
    <3>1. "print Txt" \in PrintFields /\ "print Xml" \in PrintFields /\ "header" \in PrintFields
      BY DEF PrintFields
    <3> QED
      BY <1>1, <3>1, Tuples
  <2>2. Len(z) = 3 /\ z[1] = "print Txt" /\ z[2] = "print Xml" /\ z[3] = "header"
    BY <1>1
  <2>3. \A i \in 1..3 : z[i] \notin TextBlocks
    <3>1. \A i \in 1..3 : i = 1 \/ i = 2 \/ i = 3
      OBVIOUS
    <3> QED
      BY <2>2, <3>1 DEF TextBlocks
  <2> QED
    BY <2>1, <2>2, <2>3 DEF Never
<1>3. s \in Seq(Collected \cup TextBlocks) /\ \A b \in TextBlocks : Once(s, b)
  BY DEF Piece
<1>4. s \in Seq(all) /\ z \in Seq(all)
  <2>1. Collected \cup TextBlocks \subseteq all /\ PrintFields \subseteq all
    BY <1>0
  <2> QED
    BY <1>2, <1>3, <2>1, SeqMonotonic
<1>5. /\ s \o z \in Seq(all) /\ Len(s) \in Nat /\ Len(s \o z) = Len(s) + 3
      /\ \A i \in 1..(Len(s) + 3) : (s \o z)[i] = IF i <= Len(s) THEN s[i] ELSE z[i - Len(s)]
  <2>1. /\ s \o z \in Seq(all) /\ Len(s \o z) = Len(s) + Len(z)
        /\ \A i \in 1..(Len(s) + Len(z)) : (s \o z)[i] = IF i <= Len(s) THEN s[i] ELSE z[i - Len(s)]
    BY ONLY <1>4, ConcatProperties
  <2>2. Len(s) \in Nat /\ Len(z) = 3
    BY <1>2, <1>4, LenProperties
  <2> QED
    BY ONLY <2>1, <2>2
<1>6. \A i \in 1..Len(s) : (s \o z)[i] \in Collected \cup TextBlocks
  BY <1>3, <1>5, ElementOfSeq
<1>7. ASSUME NEW b \in TextBlocks PROVE Once(s \o z, b)
  <2>1. \A i \in 1..(Len(s) + 3) : i > Len(s) => i - Len(s) \in 1..3
    BY <1>5
  <2>2. \A i \in 1..(Len(s) + 3) : (s \o z)[i] = b => i <= Len(s)
    <3>1. \A k \in 1..3 : z[k] # b
      BY <1>2 DEF Never
    <3> QED
      BY ONLY <1>5, <2>1, <3>1
  <2> QED
    BY <1>3, <1>5, <2>2 DEF Once
<1>8. /\ (s \o z)[Len(s) + 1] = "print Txt" /\ (s \o z)[Len(s) + 2] = "print Xml"
      /\ (s \o z)[Len(s) + 3] = "header"
  <2>1. \A k \in 1..3 : (s \o z)[Len(s) + k] = z[k]
    BY ONLY <1>5
  <2>2. 1 \in 1..3 /\ 2 \in 1..3 /\ 3 \in 1..3
    OBVIOUS
  <2> QED
    BY <1>2, <2>1, <2>2
<1>9. Collects(s \o z)
  <2>1. Len(s) + 3 >= 3 /\ (Len(s) + 3) - 2 = Len(s) + 1 /\ (Len(s) + 3) - 1 = Len(s) + 2 /\ (Len(s) + 3) - 3 = Len(s)
    BY <1>5
  <2> QED
    BY <1>0, <1>5, <1>6, <1>7, <1>8, <2>1 DEF Collects
<1> QED
  BY <1>1, <1>9 DEF Printouts

-----------------------------------------------------------------------------
(* The fields of each version.                                              *)
LEMMA PlainFields ==
  /\ "skip" \in Plain /\ "comment" \in Plain /\ "build info" \in Plain /\ "url" \in Plain
  /\ "manialink" \in Plain /\ "download url" \in Plain /\ "creation time" \in Plain
  /\ "creation date" \in Plain /\ "title id" \in Plain /\ "usage" \in Plain /\ "name" \in Plain
  /\ "depth" \in Plain /\ "header max size" \in Plain /\ "headers start" \in Plain
  /\ "data start" \in Plain /\ "headers size" \in Plain /\ "compressed size" \in Plain
  /\ "file size" \in Plain /\ "flags" \in Plain /\ "folder index" \in Plain
  /\ "unknown" \in Plain /\ "size" \in Plain /\ "offset" \in Plain /\ "class" \in Plain
  /\ "file flags" \in Plain
BY Zenon DEF Plain

LEMMA RestContents ==
  /\ Plain \subseteq RestFields /\ RestFields \subseteq Collected
  /\ "checksum" \in RestFields /\ "crypt flags" \in RestFields
  /\ "num folders" \in RestFields /\ "num files" \in RestFields
  /\ "num packs" \in Collected /\ "end of pack" \in Collected
  /\ Collected \subseteq AllFields /\ RestFields \subseteq AllFields
BY DEF RestFields, Collected, AllFields

LEMMA OldFields ==
  ASSUME NEW v \in Nat, v < 9
  PROVE  PackFields(v) \in Seq(RestFields)
<1>1. <<"checksum", "crypt flags">> \in Seq(RestFields)
  BY RestContents, Tuples
<1>2. FieldsOf7(v) \in Seq(RestFields)
  <2>1. AuthorInfo \in Seq(RestFields)
    BY AuthorFields, RestContents, SeqMonotonic
  <2>2. <<"comment", "skip">> \in Seq(RestFields)
    BY PlainFields, RestContents, Tuples
  <2>3. Only(v = 8, <<"build info", "url">>) \in Seq(RestFields)
    <3>1. <<"build info", "url">> \in Seq(RestFields)
      BY PlainFields, RestContents, Tuples
    <3> QED
      BY <3>1, EmptySeq DEF Only
  <2>4. AuthorInfo \o <<"comment", "skip">> \in Seq(RestFields)
    BY <2>1, <2>2, ConcatProperties
  <2> QED
    BY <2>3, <2>4, ConcatProperties DEF FieldsOf7
<1>3. PICK first : first = <<"checksum", "crypt flags">>
  OBVIOUS
<1>4. PICK rest : rest = CASE v < 7 -> <<>> [] v \in {7, 8} -> FieldsOf7(v) [] OTHER -> FieldsOf9(v) \o Printouts
  OBVIOUS
<1>5. rest = <<>> \/ rest = FieldsOf7(v)
  <2>1. v < 7 \/ v \in {7, 8}
    OBVIOUS
  <2> QED
    BY <1>4, <2>1
<1>6. first \in Seq(RestFields) /\ rest \in Seq(RestFields)
  BY <1>1, <1>2, <1>3, <1>5, EmptySeq
<1>7. PackFields(v) = first \o rest
  BY <1>3, <1>4 DEF PackFields
<1> QED
  BY <1>6, <1>7, ConcatProperties

LEMMA NewFields ==
  ASSUME NEW v \in Nat, v >= 9
  PROVE  Piece(FieldsOf9(v), TextBlocks)
<1>1. PICK sizes : sizes = Only(v >= 15, <<"header max size">>)
  OBVIOUS
<1>2. PICK links : links = Only(v >= 13, <<"download url">>)
  OBVIOUS
<1>3. PICK xml : xml = Only(v >= 12, <<"Xml", "title id">>)
  OBVIOUS
<1>4. PICK packs : packs = Only(v >= 10, <<"num packs">>)
  OBVIOUS
<1>5. sizes \o AuthorInfo \o <<"manialink">> \o links \in Seq(Collected)
  <2>1. <<"header max size">> \in Seq(Collected) /\ <<"manialink">> \in Seq(Collected)
        /\ <<"download url">> \in Seq(Collected)
    BY PlainFields, RestContents, Tuples
  <2>2. AuthorInfo \in Seq(Collected)
    <3>1. Plain \subseteq Collected
      BY RestContents
    <3> QED
      BY <3>1, AuthorFields, SeqMonotonic
  <2>3. sizes \in Seq(Collected)
    BY <1>1, <2>1, EmptySeq DEF Only
  <2>4. links \in Seq(Collected)
    BY <1>2, <2>1, EmptySeq DEF Only
  <2>5. sizes \o AuthorInfo \in Seq(Collected)
    BY <2>2, <2>3, ConcatProperties
  <2>6. sizes \o AuthorInfo \o <<"manialink">> \in Seq(Collected)
    BY <2>1, <2>5, ConcatProperties
  <2> QED
    BY <2>4, <2>6, ConcatProperties
<1>6. Piece(<<"creation time", "Txt">>, {"Txt"})
  BY OneText, PlainFields, RestContents DEF TextBlocks
<1>7. Piece(xml, {"Xml"})
  <2>1. Piece(<<"Xml", "title id">>, {"Xml"})
    BY OneText, PlainFields, RestContents DEF TextBlocks
  <2>2. Piece(<<>>, {"Xml"})
    BY EmptySeq DEF Piece, Once
  <2> QED
    BY <1>3, <2>1, <2>2 DEF Only
<1>8. Piece(<<"usage", "build info", "skip">>, {})
  <2>1. <<"usage", "build info", "skip">> \in Seq(Collected)
    BY PlainFields, RestContents, Tuples
  <2> QED
    BY <2>1, PiecePlain
<1>9. Piece(packs, {})
  <2>1. <<"num packs">> \in Seq(Collected)
    BY RestContents, Tuples
  <2>2. Piece(<<"num packs">>, {})
    BY <2>1, PiecePlain
  <2>3. Piece(<<>>, {})
    BY EmptySeq, PiecePlain
  <2> QED
    BY <1>4, <2>2, <2>3 DEF Only
<1>10. /\ {} \in SUBSET TextBlocks /\ {"Txt"} \in SUBSET TextBlocks /\ {"Xml"} \in SUBSET TextBlocks
       /\ TextBlocks \in SUBSET TextBlocks /\ {"Txt"} \cap {"Xml"} = {} /\ TextBlocks \cap {} = {}
       /\ {"Txt"} \cup {"Xml"} = TextBlocks /\ {} \cup {"Txt"} = {"Txt"} /\ TextBlocks \cup {} = TextBlocks
       /\ {} \cap {"Txt"} = {}
  BY DEF TextBlocks
<1>11. PICK t : t = {"Txt"}
  OBVIOUS
<1>12. PICK x : x = {"Xml"}
  OBVIOUS
<1>13. PICK first : first = sizes \o AuthorInfo \o <<"manialink">> \o links
  OBVIOUS
<1>14. Piece(first, {})
  BY <1>5, <1>13, PiecePlain
<1>15. PICK time : time = <<"creation time", "Txt">>
  OBVIOUS
<1>16. PICK usage : usage = <<"usage", "build info", "skip">>
  OBVIOUS
<1>17. /\ Piece(first, {}) /\ Piece(time, t) /\ Piece(xml, x) /\ Piece(usage, {}) /\ Piece(packs, {})
       /\ {} \in SUBSET TextBlocks /\ t \in SUBSET TextBlocks /\ x \in SUBSET TextBlocks
       /\ TextBlocks \in SUBSET TextBlocks /\ t \cap x = {} /\ TextBlocks \cap {} = {}
       /\ t \cup x = TextBlocks /\ {} \cup t = t /\ TextBlocks \cup {} = TextBlocks /\ {} \cap t = {}
  BY <1>6, <1>7, <1>8, <1>9, <1>10, <1>11, <1>12, <1>14, <1>15, <1>16
<1>18. Piece(first \o time, {} \cup t)
  BY ONLY <1>17, PieceConcat
<1>19. Piece(first \o time \o xml, t \cup x)
  BY ONLY <1>17, <1>18, PieceConcat
<1>20. Piece(first \o time \o xml \o usage, TextBlocks \cup {})
  BY ONLY <1>17, <1>19, PieceConcat
<1>21. Piece(first \o time \o xml \o usage \o packs, TextBlocks \cup {})
  BY ONLY <1>17, <1>20, PieceConcat
<1>22. FieldsOf9(v) = first \o time \o xml \o usage \o packs
  BY <1>1, <1>2, <1>3, <1>4, <1>13, <1>15, <1>16, Zenon DEF FieldsOf9
<1> QED
  BY ONLY <1>17, <1>21, <1>22

LEMMA PackCollects ==
  ASSUME NEW v \in Nat, v >= 9
  PROVE  Collects(PackFields(v))
<1>1. PICK first : first = <<"checksum", "crypt flags">>
  OBVIOUS
<1>2. PICK fields : fields = FieldsOf9(v)
  OBVIOUS
<1>3. PackFields(v) = first \o (fields \o Printouts)
  <2>1. ~(v < 7) /\ v \notin {7, 8}
    OBVIOUS
  <2> QED
    BY <1>1, <1>2, <2>1 DEF PackFields
<1>4. Piece(fields, TextBlocks)
  BY <1>2, NewFields
<1>5. Piece(first, {})
  <2>1. first \in Seq(Collected)
    BY <1>1, RestContents, Tuples
  <2> QED
    BY <2>1, PiecePlain
<1>6. Piece(first \o fields, TextBlocks)
  <2>1. /\ {} \in SUBSET TextBlocks /\ TextBlocks \in SUBSET TextBlocks
        /\ {} \cap TextBlocks = {} /\ {} \cup TextBlocks = TextBlocks
    OBVIOUS
  <2>2. Piece(first \o fields, {} \cup TextBlocks)
    BY ONLY <1>4, <1>5, <2>1, PieceConcat
  <2> QED
    BY <2>1, <2>2
<1>7. Collects((first \o fields) \o Printouts)
  BY <1>6, PieceCollects
<1>8. PICK S : S = Collected \cup TextBlocks \cup PrintFields
  OBVIOUS
<1>9. first \in Seq(Collected) /\ fields \in Seq(Collected \cup TextBlocks)
  <2>1. Collected \cup {} = Collected
    OBVIOUS
  <2> QED
    BY <1>4, <1>5, <2>1 DEF Piece
<1>10. first \in Seq(S) /\ fields \in Seq(S)
  <2>1. Collected \subseteq S /\ Collected \cup TextBlocks \subseteq S
    BY <1>8
  <2> QED
    BY <1>9, <2>1, SeqMonotonic
<1>11. Printouts \in Seq(S)
  <2>1. "print Txt" \in S /\ "print Xml" \in S /\ "header" \in S
    BY <1>8 DEF PrintFields
  <2> QED
    BY <2>1, Tuples DEF Printouts
<1>12. (first \o fields) \o Printouts = first \o (fields \o Printouts)
  BY ONLY <1>10, <1>11, ConcatAssociative
<1> QED
  BY <1>3, <1>7, <1>12

LEMMA RepeatedFields ==
  ASSUME NEW S, NEW s \in Seq(S), NEW n \in Nat
  PROVE  Times(n, s) \in Seq(S)
<1>1. PICK k \in Nat : k = Len(s)
  BY LenProperties
<1>2. n * k \in Nat
  OBVIOUS
<1>3. ASSUME NEW i \in 1..(n * k) PROVE s[1 + ((i - 1) % Len(s))] \in S
  <2>1. k # 0
    BY <1>3
  <2>2. (i - 1) % k \in 0..(k - 1)
    BY <2>1
  <2>3. 1 + ((i - 1) % Len(s)) \in 1..Len(s)
    BY <1>1, <2>2
  <2> QED
    BY <2>3, ElementOfSeq
<1> QED
  BY <1>1, <1>2, <1>3 DEF Times

LEMMA FieldsOfPacks ==
  ASSUME NEW v \in Nat
  PROVE  IncludedPackFields(v) \in Seq(Collected)
<1>1. PICK depth : depth = Only(v >= 11, <<"depth">>)
  OBVIOUS
<1>2. /\ <<"checksum", "name">> \in Seq(Collected) /\ <<"end of pack">> \in Seq(Collected)
      /\ <<"manialink", "creation date", "name">> \in Seq(Collected)
  BY PlainFields, RestContents, Tuples
<1>3. AuthorInfo \in Seq(Collected)
  <2>1. Plain \subseteq Collected
    BY RestContents
  <2> QED
    BY <2>1, AuthorFields, SeqMonotonic
<1>4. depth \in Seq(Collected)
  <2>1. <<"depth">> \in Seq(Collected)
    BY PlainFields, RestContents, Tuples
  <2> QED
    BY <1>1, <2>1, EmptySeq DEF Only
<1>5. <<"checksum", "name">> \o AuthorInfo \in Seq(Collected)
  BY ONLY <1>2, <1>3, ConcatProperties
<1>6. <<"checksum", "name">> \o AuthorInfo \o <<"manialink", "creation date", "name">> \in Seq(Collected)
  BY ONLY <1>2, <1>5, ConcatProperties
<1>7. <<"checksum", "name">> \o AuthorInfo \o <<"manialink", "creation date", "name">> \o depth \in Seq(Collected)
  BY ONLY <1>4, <1>6, ConcatProperties
<1>8. <<"checksum", "name">> \o AuthorInfo \o <<"manialink", "creation date", "name">> \o depth
      \o <<"end of pack">> \in Seq(Collected)
  BY ONLY <1>2, <1>7, ConcatProperties
<1> QED
  BY <1>1, <1>8, Zenon DEF IncludedPackFields

LEMMA FieldsOfHeader ==
  ASSUME NEW v \in Nat
  PROVE  HeaderFields(v) \in Seq(RestFields)
<1>1. PICK start : start = Only(v < 15, <<"data start">>)
  OBVIOUS
<1>2. PICK skip : skip = Only(v >= 14, <<"skip">>)
  OBVIOUS
<1>3. PICK size : size = Only(v >= 16, <<"file size">>)
  OBVIOUS
<1>4. /\ <<"checksum", "headers start">> \in Seq(RestFields) /\ <<"data start">> \in Seq(RestFields)
      /\ <<"headers size", "compressed size">> \in Seq(RestFields) /\ <<"skip">> \in Seq(RestFields)
      /\ <<"file size">> \in Seq(RestFields)
      /\ <<"skip", "flags", "num folders", "num files">> \in Seq(RestFields)
  BY PlainFields, RestContents, Tuples
<1>5. start \in Seq(RestFields) /\ skip \in Seq(RestFields) /\ size \in Seq(RestFields)
  <2>1. start \in Seq(RestFields)
    BY <1>1, <1>4, EmptySeq DEF Only
  <2>2. skip \in Seq(RestFields)
    BY <1>2, <1>4, EmptySeq DEF Only
  <2>3. size \in Seq(RestFields)
    BY <1>3, <1>4, EmptySeq DEF Only
  <2> QED
    BY <2>1, <2>2, <2>3
<1>6. PICK a : a = <<"checksum", "headers start">>
  OBVIOUS
<1>7. PICK b : b = <<"headers size", "compressed size">>
  OBVIOUS
<1>8. PICK c : c = <<"skip", "flags", "num folders", "num files">>
  OBVIOUS
<1>9. a \in Seq(RestFields) /\ b \in Seq(RestFields) /\ c \in Seq(RestFields)
  BY <1>4, <1>6, <1>7, <1>8
<1>10. a \o start \in Seq(RestFields)
  BY ONLY <1>5, <1>9, ConcatProperties
<1>11. a \o start \o b \in Seq(RestFields)
  BY ONLY <1>9, <1>10, ConcatProperties
<1>12. a \o start \o b \o skip \in Seq(RestFields)
  BY ONLY <1>5, <1>11, ConcatProperties
<1>13. a \o start \o b \o skip \o size \in Seq(RestFields)
  BY ONLY <1>5, <1>12, ConcatProperties
<1>14. a \o start \o b \o skip \o size \o c \in Seq(RestFields)
  BY ONLY <1>9, <1>13, ConcatProperties
<1> QED
  BY <1>1, <1>2, <1>3, <1>6, <1>7, <1>8, <1>14, Zenon DEF HeaderFields

LEMMA FieldsOfFiles ==
  ASSUME NEW v \in Nat
  PROVE  FileFields(v) \in Seq(RestFields) /\ FolderFields \in Seq(RestFields)
<1>1. PICK size : size = Only(v >= 17, <<"size">>)
  OBVIOUS
<1>2. PICK checksum : checksum = Only(v >= 14, <<"checksum">>)
  OBVIOUS
<1>3. PICK a : a = <<"folder index", "name", "unknown", "size", "compressed size", "offset", "class">>
  OBVIOUS
<1>4. /\ <<"size">> \in Seq(RestFields) /\ <<"checksum">> \in Seq(RestFields)
      /\ <<"file flags">> \in Seq(RestFields) /\ <<"folder index", "name">> \in Seq(RestFields)
  BY PlainFields, RestContents, Tuples
<1>5. a \in Seq(RestFields)
  <2>1. /\ "folder index" \in RestFields /\ "name" \in RestFields /\ "unknown" \in RestFields
        /\ "size" \in RestFields /\ "compressed size" \in RestFields /\ "offset" \in RestFields
        /\ "class" \in RestFields
    BY PlainFields, RestContents
  <2> QED
    BY <1>3, <2>1, Tuples
<1>6. size \in Seq(RestFields)
  BY <1>1, <1>4, EmptySeq DEF Only
<1>7. checksum \in Seq(RestFields)
  BY <1>2, <1>4, EmptySeq DEF Only
<1>8. a \o size \in Seq(RestFields)
  BY ONLY <1>5, <1>6, ConcatProperties
<1>9. a \o size \o checksum \in Seq(RestFields)
  BY ONLY <1>7, <1>8, ConcatProperties
<1>10. a \o size \o checksum \o <<"file flags">> \in Seq(RestFields)
  BY ONLY <1>4, <1>9, ConcatProperties
<1>11. FileFields(v) \in Seq(RestFields)
  BY <1>1, <1>2, <1>3, <1>10, Zenon DEF FileFields
<1> QED
  BY <1>4, <1>11 DEF FolderFields

LEMMA FieldsOfItems ==
  ASSUME NEW field \in Counts, NEW n \in Nat, dwVersion \in Nat
  PROVE  /\ Times(n, Items(field)) \in Seq(Collected)
         /\ field # "num packs" => Times(n, Items(field)) \in Seq(RestFields)
<1>1. CASE field = "num packs"
  <2>1. Items(field) = IncludedPackFields(dwVersion)
    BY <1>1 DEF Items
  <2> QED
    BY <1>1, <2>1, FieldsOfPacks, RepeatedFields
<1>2. CASE field # "num packs"
  <2>1. Items(field) = FolderFields \/ Items(field) = FileFields(dwVersion)
    BY <1>2 DEF Items, Counts
  <2>2. Items(field) \in Seq(RestFields)
    BY <2>1, FieldsOfFiles
  <2>3. Times(n, Items(field)) \in Seq(RestFields)
    BY <2>2, RepeatedFields
  <2> QED
    BY <2>3, RestContents, SeqMonotonic
<1> QED
  BY <1>1, <1>2

-----------------------------------------------------------------------------
(* What happens to the fields that wait.                                    *)
LEMMA FirstField ==
  ASSUME NEW S, NEW s \in Seq(S), s # <<>>
  PROVE  Head(s) = s[1] /\ Len(s) \in Nat \ {0}
BY EmptySeq

LEMMA FrontOf ==
  ASSUME NEW S, NEW d \in S, NEW s \in Seq(S)
  PROVE  /\ <<d>> \o s \in Seq(S) /\ <<d>> \o s # <<>>
         /\ Head(<<d>> \o s) = d /\ Tail(<<d>> \o s) = s
<1>1. PICK t : t = <<d>> \o s
  OBVIOUS
<1>2. <<d>> \in Seq(S) /\ Len(<<d>>) = 1 /\ <<d>>[1] = d /\ s \in Seq(S)
  BY Tuples
<1>3. PICK n \in Nat : n = Len(s)
  BY LenProperties
<1>4. /\ t \in Seq(S) /\ Len(t) = 1 + n
      /\ \A i \in 1..(1 + n) : t[i] = IF i <= 1 THEN <<d>>[i] ELSE s[i - 1]
  <2>1. /\ <<d>> \o s \in Seq(S) /\ Len(<<d>> \o s) = Len(<<d>>) + Len(s)
        /\ \A i \in 1..(Len(<<d>>) + Len(s)) :
             (<<d>> \o s)[i] = IF i <= Len(<<d>>) THEN <<d>>[i] ELSE s[i - Len(<<d>>)]
    BY ONLY <1>2, ConcatProperties
  <2> QED
    BY <1>1, <1>2, <1>3, <2>1
<1>5. t # <<>>
  BY <1>3, <1>4, EmptySeq
<1>6. Head(t) = d
  BY <1>2, <1>3, <1>4, <1>5, FirstField
<1>7. /\ Tail(t) \in Seq(S) /\ Len(Tail(t)) = n
      /\ \A i \in 1..n : Tail(t)[i] = t[i + 1]
  <2>1. Tail(t) \in Seq(S) /\ Len(Tail(t)) = Len(t) - 1 /\ \A i \in 1..Len(Tail(t)) : Tail(t)[i] = t[i + 1]
    BY ONLY <1>4, <1>5, HeadTailProperties
  <2> QED
    BY <1>3, <1>4, <2>1
<1>8. \A i \in 1..n : Tail(t)[i] = s[i]
  <2> TAKE i \in 1..n
  <2>1. i + 1 \in 1..(1 + n) /\ ~(i + 1 <= 1) /\ (i + 1) - 1 = i
    BY <1>3
  <2> QED
    BY <1>4, <1>7, <2>1
<1>9. Tail(t) = s
  BY <1>3, <1>7, <1>8, SeqEqual
<1> QED
  BY <1>1, <1>4, <1>5, <1>6, <1>9

LEMMA Heads ==
  ASSUME NEW a, NEW b, NEW c
  PROVE  /\ Head(<<a>>) = a /\ Head(<<a, b>>) = a /\ Head(<<a, b, c>>) = a
         /\ Tail(<<a>>) = <<>> /\ Tail(<<a, b>>) = <<b>>
         /\ <<a>> # <<>> /\ <<a, b>> # <<>> /\ <<a, b, c>> # <<>>
<1>1. PICK S : S = {a, b, c}
  OBVIOUS
<1>2. <<a>> \in Seq(S) /\ <<b>> \in Seq(S) /\ <<a, b>> \in Seq(S) /\ <<b, c>> \in Seq(S) /\ <<a, b, c>> \in Seq(S)
  BY <1>1, Tuples
<1>3. Len(<<a>>) = 1 /\ Len(<<a, b>>) = 2 /\ Len(<<a, b, c>>) = 3 /\ Len(<<b>>) = 1 /\ Len(<<b, c>>) = 2
  OBVIOUS
<1>4. <<a>> # <<>> /\ <<a, b>> # <<>> /\ <<a, b, c>> # <<>>
  BY <1>3, EmptySeq
<1>5. <<a>>[1] = a /\ <<a, b>>[1] = a /\ <<a, b, c>>[1] = a
  OBVIOUS
<1>6. Head(<<a>>) = a /\ Head(<<a, b>>) = a /\ Head(<<a, b, c>>) = a
  BY <1>2, <1>4, <1>5, FirstField
<1>7. PICK s : s = <<a>>
  OBVIOUS
<1>8. PICK t : t = <<a, b>>
  OBVIOUS
<1>10. Tail(s) = <<>>
  <2>1. Tail(s) \in Seq(S) /\ Len(Tail(s)) = Len(s) - 1
    BY <1>2, <1>4, <1>7, HeadTailProperties
  <2>2. Len(Tail(s)) = 0
    BY <1>3, <1>7, <2>1
  <2>3. Tail(s) # <<>> => Len(Tail(s)) # 0
    BY <2>1, EmptySeq
  <2> QED
    BY <2>2, <2>3
<1>11. Tail(t) = <<b>>
  <2>1. /\ Tail(t) \in Seq(S) /\ Len(Tail(t)) = Len(t) - 1
        /\ \A i \in 1..Len(Tail(t)) : Tail(t)[i] = t[i + 1]
    BY <1>2, <1>4, <1>8, HeadTailProperties
  <2>2. Len(Tail(t)) = 1
    BY <1>3, <1>8, <2>1
  <2>3. t[2] = b /\ <<b>>[1] = b
    BY <1>8
  <2>4. \A i \in 1..1 : Tail(t)[i] = <<b>>[i]
    <3>1. \A i \in 1..1 : i = 1 /\ i + 1 = 2
      OBVIOUS
    <3> QED
      BY <2>1, <2>2, <2>3, <3>1
  <2> QED
    BY <1>2, <1>3, <2>1, <2>2, <2>4, SeqEqual
<1> QED
  BY <1>4, <1>6, <1>7, <1>8, <1>10, <1>11

LEMMA RestOfThree ==
  ASSUME NEW a, NEW b, NEW c, NEW u, u = <<a, b, c>>
  PROVE  Tail(u) = <<b, c>>
<1>1. PICK S : S = {a, b, c}
  OBVIOUS
<1>2. u \in Seq(S) /\ <<b, c>> \in Seq(S)
  BY <1>1, Tuples
<1>3. Len(u) = 3 /\ Len(<<b, c>>) = 2 /\ u # <<>>
  BY <1>2, EmptySeq
<1>4. u[2] = b /\ u[3] = c /\ <<b, c>>[1] = b /\ <<b, c>>[2] = c
  OBVIOUS
<1>5. /\ Tail(u) \in Seq(S) /\ Len(Tail(u)) = Len(u) - 1
      /\ \A i \in 1..Len(Tail(u)) : Tail(u)[i] = u[i + 1]
  BY ONLY <1>2, <1>3, HeadTailProperties
<1>6. Len(Tail(u)) = 2
  BY <1>3, <1>5
<1>7. \A i \in 1..2 : Tail(u)[i] = <<b, c>>[i]
  <2>1. \A i \in 1..2 : (i = 1 /\ i + 1 = 2) \/ (i = 2 /\ i + 1 = 3)
    OBVIOUS
  <2> QED
    BY <1>4, <1>5, <1>6, <2>1
<1> QED
  BY <1>2, <1>3, <1>5, <1>6, <1>7, SeqEqual

(* Fields are taken from the front, and more are put before them, until     *)
(* only what is printed is left.                                            *)
LEMMA CollectsTail ==
  ASSUME NEW w, Collects(w), NEW f, f = Head(w), f \notin PrintFields
  PROVE  /\ w # <<>> /\ Collects(Tail(w)) /\ f \in Collected \cup TextBlocks
         /\ \A b \in TextBlocks : /\ f = b => Never(Tail(w), b)
                                  /\ Never(w, b) => f # b /\ Never(Tail(w), b)
<1>1. PICK S : S = Collected \cup TextBlocks \cup PrintFields
  OBVIOUS
<1>2. PICK n \in Nat : n = Len(w) /\ n >= 3
  BY LenProperties DEF Collects
<1>3. /\ w \in Seq(S) /\ w[n - 2] = "print Txt" /\ w[n - 1] = "print Xml" /\ w[n] = "header"
      /\ \A i \in 1..(n - 3) : w[i] \in Collected \cup TextBlocks
      /\ \A b \in TextBlocks : Once(w, b)
  BY <1>1, <1>2 DEF Collects
<1>4. w # <<>>
  BY <1>2, EmptySeq
<1>5. /\ f = w[1] /\ Tail(w) \in Seq(S) /\ Len(Tail(w)) = n - 1
      /\ \A i \in 1..(n - 1) : Tail(w)[i] = w[i + 1]
  <2>1. f = w[1]
    BY <1>3, <1>4, FirstField
  <2>2. Tail(w) \in Seq(S) /\ Len(Tail(w)) = Len(w) - 1 /\ \A i \in 1..Len(Tail(w)) : Tail(w)[i] = w[i + 1]
    BY ONLY <1>3, <1>4, HeadTailProperties
  <2> QED
    BY <1>2, <2>1, <2>2
<1>6. n # 3
  <2>1. f # "print Txt"
    BY DEF PrintFields
  <2>2. n = 3 => n - 2 = 1
    OBVIOUS
  <2> QED
    BY <1>3, <1>5, <2>1, <2>2
<1>7. Collects(Tail(w))
  <2>1. Len(Tail(w)) >= 3
    BY <1>2, <1>5, <1>6
  <2>2. /\ Tail(w)[(n - 1) - 2] = w[n - 2] /\ Tail(w)[(n - 1) - 1] = w[n - 1] /\ Tail(w)[n - 1] = w[n]
    BY <1>2, <1>5, <1>6
  <2>3. \A i \in 1..((n - 1) - 3) : Tail(w)[i] \in Collected \cup TextBlocks
    <3> SUFFICES ASSUME NEW i \in 1..((n - 1) - 3) PROVE Tail(w)[i] \in Collected \cup TextBlocks
      OBVIOUS
    <3>1. i + 1 \in 1..(n - 3) /\ Tail(w)[i] = w[i + 1]
      BY <1>2, <1>5, <1>6
    <3> QED
      BY <1>3, <3>1
  <2>4. ASSUME NEW b \in TextBlocks PROVE Once(Tail(w), b)
    <3> SUFFICES ASSUME NEW i \in 1..(n - 1), NEW j \in 1..(n - 1), Tail(w)[i] = b, Tail(w)[j] = b PROVE i = j
      BY <1>5 DEF Once
    <3>1. i + 1 \in 1..n /\ j + 1 \in 1..n /\ w[i + 1] = b /\ w[j + 1] = b
      BY <1>2, <1>5
    <3>2. i + 1 = j + 1
      BY <1>2, <1>3, <3>1 DEF Once
    <3> QED
      BY <3>2
  <2> QED
    BY <1>1, <1>3, <1>5, <2>1, <2>2, <2>3, <2>4 DEF Collects
<1>8. ASSUME NEW b \in TextBlocks, f = b PROVE Never(Tail(w), b)
  <2> SUFFICES ASSUME NEW i \in 1..(n - 1), Tail(w)[i] = b PROVE FALSE
    BY <1>5 DEF Never
  <2>1. i + 1 \in 1..n /\ 1 \in 1..n /\ w[i + 1] = b /\ w[1] = b /\ i + 1 # 1
    BY <1>2, <1>5, <1>8
  <2> QED
    BY <1>2, <1>3, <2>1 DEF Once
<1>9. ASSUME NEW b \in TextBlocks, Never(w, b) PROVE f # b /\ Never(Tail(w), b)
  <2>1. \A i \in 1..(n - 1) : i + 1 \in 1..n
    BY <1>2
  <2>2. 1 \in 1..n
    BY <1>2
  <2> QED
    BY <1>2, <1>5, <1>9, <2>1, <2>2 DEF Never
<1>10. f \in Collected \cup TextBlocks
  <2>1. 1 \in 1..(n - 3)
    BY <1>2, <1>6
  <2> QED
    BY <1>3, <1>5, <2>1
<1> QED
  BY <1>4, <1>7, <1>8, <1>9, <1>10

LEMMA CollectsMore ==
  ASSUME NEW w, Collects(w), NEW p \in Seq(Collected)
  PROVE  Collects(p \o w) /\ \A b \in TextBlocks : Never(w, b) => Never(p \o w, b)
<1>1. PICK S : S = Collected \cup TextBlocks \cup PrintFields
  OBVIOUS
<1>2. PICK n \in Nat : n = Len(w) /\ n >= 3
  BY LenProperties DEF Collects
<1>3. /\ w \in Seq(S) /\ w[n - 2] = "print Txt" /\ w[n - 1] = "print Xml" /\ w[n] = "header"
      /\ \A i \in 1..(n - 3) : w[i] \in Collected \cup TextBlocks
      /\ \A b \in TextBlocks : Once(w, b)
  BY <1>1, <1>2 DEF Collects
<1>4. PICK m \in Nat : m = Len(p)
  BY LenProperties
<1>5. p \in Seq(S)
  <2>1. Collected \subseteq S
    BY <1>1
  <2> QED
    BY <2>1, SeqMonotonic
<1>6. /\ p \o w \in Seq(S) /\ Len(p \o w) = m + n
      /\ \A i \in 1..(m + n) : (p \o w)[i] = IF i <= m THEN p[i] ELSE w[i - m]
  <2>1. /\ p \o w \in Seq(S) /\ Len(p \o w) = Len(p) + Len(w)
        /\ \A i \in 1..(Len(p) + Len(w)) : (p \o w)[i] = IF i <= Len(p) THEN p[i] ELSE w[i - Len(p)]
    BY ONLY <1>3, <1>5, ConcatProperties
  <2> QED
    BY ONLY <1>2, <1>4, <2>1
<1>7. \A i \in 1..m : p[i] \in Collected
  BY <1>4, ElementOfSeq
<1>8. \A b \in TextBlocks : \A i \in 1..m : (p \o w)[i] # b
  <2>1. \A b \in TextBlocks : b \notin Collected
    BY FieldKinds
  <2> QED
    BY <1>6, <1>7, <2>1
<1>9. \A i \in 1..n : (p \o w)[m + i] = w[i] /\ m + i \in 1..(m + n)
  BY <1>6
<1>10. \A i \in 1..(m + n) : i > m => i - m \in 1..n /\ (p \o w)[i] = w[i - m]
  BY <1>6
<1>11. Collects(p \o w)
  <2>1. /\ (p \o w)[(m + n) - 2] = w[n - 2] /\ (p \o w)[(m + n) - 1] = w[n - 1]
        /\ (p \o w)[m + n] = w[n] /\ m + n >= 3
    BY <1>2, <1>6
  <2>2. ASSUME NEW i \in 1..((m + n) - 3) PROVE (p \o w)[i] \in Collected \cup TextBlocks
    <3>1. CASE i <= m
      <4>1. i \in 1..m
        BY <3>1
      <4> QED
        BY <1>6, <1>7, <3>1, <4>1
    <3>2. CASE i > m
      <4>1. i - m \in 1..(n - 3) /\ (p \o w)[i] = w[i - m]
        BY <1>2, <1>6, <3>2
      <4> QED
        BY <1>3, <4>1
    <3>3. i <= m \/ i > m
      OBVIOUS
    <3> QED
      BY <3>1, <3>2, <3>3
  <2>3. ASSUME NEW b \in TextBlocks PROVE Once(p \o w, b)
    <3> SUFFICES ASSUME NEW i \in 1..(m + n), NEW j \in 1..(m + n), (p \o w)[i] = b, (p \o w)[j] = b PROVE i = j
      BY <1>6 DEF Once
    <3>1. i > m /\ j > m
      <4>1. i \notin 1..m /\ j \notin 1..m
        BY <1>8
      <4> QED
        BY <4>1
    <3>2. i - m \in 1..n /\ j - m \in 1..n /\ w[i - m] = b /\ w[j - m] = b
      BY <1>10, <3>1
    <3>3. i - m = j - m
      BY <1>2, <1>3, <3>2 DEF Once
    <3> QED
      BY <3>3
  <2> QED
    BY <1>1, <1>3, <1>6, <2>1, <2>2, <2>3 DEF Collects
<1>12. ASSUME NEW b \in TextBlocks, Never(w, b) PROVE Never(p \o w, b)
  <2> SUFFICES ASSUME NEW i \in 1..(m + n), (p \o w)[i] = b PROVE FALSE
    BY <1>6 DEF Never
  <2>1. i > m
    <3>1. i \notin 1..m
      BY <1>8
    <3> QED
      BY <3>1
  <2>2. i - m \in 1..n /\ w[i - m] = b
    BY <1>10, <2>1
  <2> QED
    BY <1>2, <1>12, <2>2 DEF Never
<1> QED
  BY <1>11, <1>12

LEMMA CollectsEnd ==
  ASSUME NEW w, Collects(w), Head(w) \in PrintFields
  PROVE  w = Printouts
<1>1. PICK S : S = Collected \cup TextBlocks \cup PrintFields
  OBVIOUS
<1>2. PICK n \in Nat : n = Len(w) /\ n >= 3
  BY LenProperties DEF Collects
<1>3. /\ w \in Seq(S) /\ w[n - 2] = "print Txt" /\ w[n - 1] = "print Xml" /\ w[n] = "header"
      /\ \A i \in 1..(n - 3) : w[i] \in Collected \cup TextBlocks
  BY <1>1, <1>2 DEF Collects
<1>4. Head(w) = w[1]
  <2>1. w # <<>>
    BY <1>2, EmptySeq
  <2> QED
    BY <1>3, <2>1, FirstField
<1>5. ~(1 \in 1..(n - 3))
  <2>1. \A f \in Collected \cup TextBlocks : f \notin PrintFields
    <3>1. \A f \in TextBlocks : f \notin PrintFields
      BY DEF TextBlocks, PrintFields
    <3> QED
      BY <3>1, FieldKinds
  <2> QED
    BY <1>3, <1>4, <2>1
<1>6. n = 3
  BY <1>2, <1>5
<1>7. w[1] = "print Txt" /\ w[2] = "print Xml" /\ w[3] = "header"
  <2>1. n - 2 = 1 /\ n - 1 = 2
    BY <1>6
  <2> QED
    BY <1>3, <1>6, <2>1
<1>8. /\ Printouts \in Seq(S) /\ Len(Printouts) = 3
      /\ Printouts[1] = "print Txt" /\ Printouts[2] = "print Xml" /\ Printouts[3] = "header"
  <2>1. "print Txt" \in S /\ "print Xml" \in S /\ "header" \in S
    BY <1>1 DEF PrintFields
  <2>2. Printouts \in Seq(S)
    BY <2>1, Tuples DEF Printouts
  <2> QED
    BY <2>2 DEF Printouts
<1>9. \A i \in 1..Len(w) : w[i] = Printouts[i]
  <2>1. \A i \in 1..3 : i = 1 \/ i = 2 \/ i = 3
    OBVIOUS
  <2> QED
    BY <1>2, <1>6, <1>7, <1>8, <2>1
<1> QED
  BY <1>2, <1>3, <1>6, <1>8, <1>9, SeqEqual

-----------------------------------------------------------------------------
(* The fields that may wait behind the first.                               *)
Late == Collected \cup TextBlocks \cup PrintFields

LEMMA LateKinds ==
  /\ Late \subseteq AllFields /\ DataFields \subseteq AllFields
  /\ \A f \in Late : f \notin DataFields \cup {"version"}
  /\ \A f \in TextBlocks : f \notin PrintFields
BY FieldKinds DEF Late, AllFields, TextBlocks, PrintFields, DataFields

(* What waits after a step.                                                 *)
LEMMA NoData ==
  ASSUME NEW s \in Seq(Late), packTodo' = s
  PROVE  Waiting' = s /\ packTodo' \in Seq(AllFields) /\ ~(packTodo' # <<>> /\ Head(packTodo') = "checksum data")
<1>1. s \in Seq(AllFields)
  BY LateKinds, SeqMonotonic
<1>2. s # <<>> => Head(s) \in Late
  BY HeadTailProperties
<1>3. s # <<>> => Head(s) \notin DataFields /\ Head(s) # "checksum data"
  BY <1>2, LateKinds DEF DataFields
<1> QED
  BY <1>1, <1>3 DEF Waiting, InBlock

LEMMA DataFirst ==
  ASSUME NEW s \in Seq(Late), NEW d \in DataFields, packTodo' = <<d>> \o s
  PROVE  Waiting' = s /\ packTodo' \in Seq(AllFields) /\ packTodo' # <<>> /\ Head(packTodo') = d
<1>1. s \in Seq(AllFields) /\ d \in AllFields
  BY LateKinds, SeqMonotonic
<1>2. /\ <<d>> \o s \in Seq(AllFields) /\ <<d>> \o s # <<>>
      /\ Head(<<d>> \o s) = d /\ Tail(<<d>> \o s) = s
  BY <1>1, FrontOf
<1> QED
  BY <1>2 DEF Waiting, InBlock

(* What is read next tells how far the dump is.                             *)
LEMMA PhaseOf ==
  ASSUME PackInv, packTodo # <<>>, NEW f, f = Head(packTodo)
  PROVE  /\ f = "version" => Starting
         /\ f \in Collected \cup TextBlocks =>
              Waiting = packTodo /\ (Collecting \/ (Finishing /\ f \in RestFields))
         /\ f = "print Txt" => Collecting /\ packTodo = Printouts
         /\ f = "print Xml" => Printing
         /\ f = "header" => Calling
         /\ f \in DataFields => Waiting = Tail(packTodo) /\ (Collecting \/ Finishing)
         /\ Waiting = packTodo \/ Waiting = Tail(packTodo)
<1>1. Phases /\ packTodo \in Seq(AllFields)
  BY DEF PackInv, PackTypes
<1>2. InBlock <=> f \in DataFields
  BY DEF InBlock
<1>3. Waiting = IF f \in DataFields THEN Tail(packTodo) ELSE packTodo
  BY <1>2 DEF Waiting
<1>4. Starting => f = "version"
  BY DEF Starting
<1>5. Printing => f = "print Xml"
  <2>1. Head(<<"print Xml", "header">>) = "print Xml"
    BY Heads
  <2> QED
    BY <2>1 DEF Printing
<1>6. Calling => f = "header"
  BY DEF Calling
<1>7. ~Finished
  BY DEF Finished
<1>8. Collecting /\ f \notin DataFields => f \in Late /\ (f \in PrintFields => packTodo = Printouts)
  <2> SUFFICES ASSUME Collecting, f \notin DataFields PROVE f \in Late /\ (f \in PrintFields => packTodo = Printouts)
    OBVIOUS
  <2>1. Collects(packTodo)
    BY <1>3 DEF Collecting
  <2>2. packTodo \in Seq(Late)
    BY <2>1 DEF Collects, Late
  <2> QED
    BY <2>1, <2>2, HeadTailProperties, CollectsEnd
<1>9. Finishing /\ f \notin DataFields => f \in RestFields
  BY <1>3, HeadTailProperties DEF Finishing
<1>10. packTodo = Printouts => f = "print Txt"
  <2>1. Head(Printouts) = "print Txt"
    BY Heads DEF Printouts
  <2> QED
    BY <2>1
<1>11. /\ \A g \in RestFields : g \in Late /\ g \notin PrintFields
       /\ \A g \in Collected \cup TextBlocks : g \in Late /\ g \notin PrintFields
       /\ "print Xml" \in PrintFields /\ "header" \in PrintFields /\ "print Txt" \in PrintFields
  <2>1. \A g \in Collected : g \notin PrintFields
    BY FieldKinds
  <2> QED
    BY <2>1, RestContents, LateKinds DEF Late, PrintFields
<1>12. /\ "print Xml" # "print Txt" /\ "header" # "print Txt" /\ "header" # "print Xml"
       /\ "version" \notin DataFields /\ "version" \notin Late /\ "version" \notin PrintFields
       /\ \A g \in Late : g \notin DataFields
       /\ "version" # "print Xml" /\ "version" # "header"
  BY LateKinds DEF DataFields, PrintFields
<1>13. \A g \in PrintFields : g \in Late
  BY DEF Late
<1>14. f = "version" => Starting
  BY <1>1, <1>5, <1>6, <1>7, <1>8, <1>9, <1>11, <1>12 DEF Phases
<1>15. f \in Collected \cup TextBlocks => Collecting \/ (Finishing /\ f \in RestFields)
  BY <1>1, <1>4, <1>5, <1>6, <1>7, <1>9, <1>11, <1>12 DEF Phases
<1>16. f = "print Txt" => Collecting /\ packTodo = Printouts
  BY <1>1, <1>4, <1>5, <1>6, <1>7, <1>8, <1>9, <1>11, <1>12, <1>13 DEF Phases
<1>17. f = "print Xml" => Printing
  BY <1>1, <1>4, <1>6, <1>7, <1>8, <1>9, <1>10, <1>11, <1>12, <1>13 DEF Phases
<1>18. f = "header" => Calling
  BY <1>1, <1>4, <1>5, <1>7, <1>8, <1>9, <1>10, <1>11, <1>12, <1>13 DEF Phases
<1>19. f \in DataFields => Collecting \/ Finishing
  BY <1>1, <1>4, <1>5, <1>6, <1>7, <1>11, <1>12, <1>13 DEF Phases
<1>20. f \in Collected \cup TextBlocks => f \notin DataFields
  BY <1>11, <1>12
<1> QED
  BY <1>3, <1>14, <1>15, <1>16, <1>17, <1>18, <1>19, <1>20

-----------------------------------------------------------------------------
(* Blocks that are allocated and freed.                                     *)
LEMMA Owned ==
  ASSUME owned \in [Blocks -> Int]
  PROVE  /\ \A bs : Freed(bs) \in [Blocks -> Int]
         /\ \A bs : \A b \in Blocks : Freed(bs)[b] = IF b \in bs THEN owned[b] - 1 ELSE owned[b]
         /\ \A b \in Blocks : Allocated(b) \in [Blocks -> Int]
         /\ \A a, b \in Blocks : Allocated(b)[a] = IF a = b THEN owned[b] + 1 ELSE owned[a]
<1>1. \A b \in Blocks : owned[b] \in Int
  OBVIOUS
<1>2. \A bs : Freed(bs) \in [Blocks -> Int]
  BY <1>1 DEF Freed
<1>3. \A bs : \A b \in Blocks : Freed(bs)[b] = IF b \in bs THEN owned[b] - 1 ELSE owned[b]
  BY DEF Freed
<1>4. ASSUME NEW b \in Blocks PROVE Allocated(b) \in [Blocks -> Int]
  <2>1. \A D, S : \A f \in [D -> S], v \in S : \A k : [f EXCEPT ![k] = v] \in [D -> S]
    OBVIOUS
  <2>2. owned[b] + 1 \in Int
    BY <1>1
  <2> QED
    BY <2>1, <2>2, Zenon DEF Allocated
<1>5. \A a, b \in Blocks : Allocated(b)[a] = IF a = b THEN owned[b] + 1 ELSE owned[a]
  BY DEF Allocated
<1> QED
  BY <1>2, <1>3, <1>4, <1>5

LEMMA BlockNames ==
  /\ "Txt" \in Blocks /\ "Xml" \in Blocks /\ "Checksum" \in Blocks /\ "Checksum" \notin TextBlocks
  /\ "Txt" \in TextBlocks /\ "Xml" \in TextBlocks /\ "Txt" # "Xml" /\ "Checksum" # "Txt" /\ "Checksum" # "Xml"
  /\ \A b \in TextBlocks : b \in Blocks /\ (b = "Txt" \/ b = "Xml")
BY DEF Blocks, TextBlocks

(* Where a block is, whatever the phase.                                    *)
LEMMA PhaseOwns ==
  ASSUME PackInv, Starting \/ Collecting \/ Finishing
  PROVE  /\ owned["Txt"] = IF "Txt" \in HeldBlocks THEN 1 ELSE 0
         /\ owned["Xml"] = IF "Xml" \in HeldBlocks THEN 1 ELSE 0
         /\ "Checksum" \notin HeldBlocks
<1>1. lpData \subseteq TextBlocks
  BY DEF PackInv, PackTypes
<1>2. CASE Starting
  BY <1>1, <1>2, BlockNames DEF Starting, HeldBlocks
<1>3. CASE Collecting
  BY <1>1, <1>3, BlockNames DEF Collecting, Owns, HeldBlocks
<1>4. CASE Finishing
  BY <1>1, <1>4, BlockNames DEF Finishing, HeldBlocks
<1> QED
  BY <1>2, <1>3, <1>4

OpenChecksum == IF packTodo # <<>> /\ Head(packTodo) = "checksum data" THEN {"Checksum"} ELSE {}

LEMMA FailStep ==
  ASSUME PackInv, Starting \/ Collecting \/ Finishing, NEW own, Fails(own), own = OpenChecksum
  PROVE  PackInv'
<1>1. /\ dwVersion \in Nat /\ lpData \subseteq TextBlocks /\ owned \in [Blocks -> Int]
      /\ printed \in Seq({"pack", "Txt", "Xml"}) /\ PacksFirst
  BY DEF PackInv, PackTypes
<1>2. /\ packPc' = "done" /\ bRet' = FALSE /\ packTodo' = <<>> /\ UNCHANGED <<dwVersion, lpData, printed>>
      /\ owned' = Freed(HeldBlocks \cup own)
  BY DEF Fails, Return
<1>3. PackTypes'
  <2>1. packTodo' \in Seq(AllFields)
    BY <1>2, EmptySeq
  <2>2. owned' \in [Blocks -> Int]
    BY <1>1, <1>2, Owned
  <2> QED
    BY <1>1, <1>2, <2>1, <2>2 DEF PackTypes, PacksFirst
<1>4. \A b \in Blocks : owned'[b] = IF b \in HeldBlocks \cup own THEN owned[b] - 1 ELSE owned[b]
  BY <1>1, <1>2, Owned
<1>5. owned'["Txt"] = 0 /\ owned'["Xml"] = 0
  <2>1. \A b \in TextBlocks : b \notin own
    BY BlockNames DEF OpenChecksum
  <2>2. \A b \in TextBlocks : owned'[b] = IF b \in HeldBlocks THEN owned[b] - 1 ELSE owned[b]
    BY <1>4, <2>1, BlockNames
  <2>3. /\ owned["Txt"] = IF "Txt" \in HeldBlocks THEN 1 ELSE 0
        /\ owned["Xml"] = IF "Xml" \in HeldBlocks THEN 1 ELSE 0
    BY PhaseOwns
  <2> QED
    BY ONLY <2>2, <2>3, BlockNames
<1>6. owned'["Checksum"] = 0
  <2>1. "Checksum" \notin HeldBlocks /\ "Checksum" \in Blocks
    BY PhaseOwns, BlockNames
  <2>2. owned'["Checksum"] = IF "Checksum" \in own THEN owned["Checksum"] - 1 ELSE owned["Checksum"]
    BY <1>4, <2>1
  <2>3. CASE packTodo # <<>> /\ Head(packTodo) = "checksum data"
    <3>1. owned["Checksum"] = 1 /\ "Checksum" \in own
      BY <2>3 DEF PackInv, ChecksumOwned, OpenChecksum
    <3>2. owned'["Checksum"] = owned["Checksum"] - 1
      BY <2>2, <3>1
    <3>3. 1 - 1 = 0
      OBVIOUS
    <3> QED
      BY <3>1, <3>2, <3>3, Zenon
  <2>4. CASE ~(packTodo # <<>> /\ Head(packTodo) = "checksum data")
    <3>1. owned["Checksum"] = 0 /\ "Checksum" \notin own
      BY <2>4 DEF PackInv, ChecksumOwned, OpenChecksum
    <3> QED
      BY <2>2, <3>1
  <2> QED
    BY <2>3, <2>4
<1> QED
  BY <1>2, <1>3, <1>5, <1>6 DEF PackInv, ChecksumOwned, Phases, Finished

(* A field is read and nothing but other fields take its place.             *)
LEMMA ReadOn ==
  ASSUME PackInv, packTodo # <<>>, NEW f \in Collected, f = Head(packTodo),
         NEW p \in Seq(Collected), f # "num packs" => p \in Seq(RestFields),
         packTodo' = p \o Tail(packTodo), UNCHANGED <<packPc, lpData, owned, printed>>,
         dwVersion' \in Nat
  PROVE  PackInv'
<1>1. Waiting = packTodo /\ (Collecting \/ (Finishing /\ f \in RestFields))
  BY PhaseOf
<1>2. /\ lpData \subseteq TextBlocks /\ owned \in [Blocks -> Int]
      /\ printed \in Seq({"pack", "Txt", "Xml"}) /\ PacksFirst
  BY DEF PackInv, PackTypes
<1>3. f \notin DataFields \cup PrintFields
  BY FieldKinds
<1>4. owned["Checksum"] = 0
  BY <1>3 DEF PackInv, ChecksumOwned, DataFields
<1>5. PICK s : s = p \o Tail(packTodo)
  OBVIOUS
<1>6. CASE Collecting
  <2>1. Collects(packTodo) /\ \A b \in TextBlocks : b \in lpData => Never(packTodo, b)
    BY <1>1, <1>6 DEF Collecting
  <2>2. Collects(Tail(packTodo)) /\ \A b \in TextBlocks : b \in lpData => Never(Tail(packTodo), b)
    BY <1>3, <2>1, CollectsTail
  <2>3. Collects(s) /\ \A b \in TextBlocks : b \in lpData => Never(s, b)
    BY <1>5, <2>2, CollectsMore
  <2>4. s \in Seq(Late)
    BY <2>3 DEF Collects, Late
  <2>5. Waiting' = s /\ packTodo' \in Seq(AllFields) /\ ~(packTodo' # <<>> /\ Head(packTodo') = "checksum data")
    BY <1>5, <2>4, NoData
  <2>6. Collecting'
    BY <1>6, <2>3, <2>5 DEF Collecting, Owns
  <2> QED
    BY <1>2, <1>4, <2>5, <2>6 DEF PackInv, PackTypes, ChecksumOwned, Phases, PacksFirst
<1>7. CASE Finishing /\ f \in RestFields
  <2>1. packTodo \in Seq(RestFields)
    BY <1>1, <1>7 DEF Finishing
  <2>2. Tail(packTodo) \in Seq(RestFields) /\ p \in Seq(RestFields)
    BY <1>7, <2>1, HeadTailProperties, FieldKinds
  <2>3. s \in Seq(RestFields)
    BY <1>5, <2>2, ConcatProperties
  <2>4. s \in Seq(Late)
    <3>1. RestFields \subseteq Late
      BY RestContents DEF Late
    <3> QED
      BY <2>3, <3>1, SeqMonotonic
  <2>5. Waiting' = s /\ packTodo' \in Seq(AllFields) /\ ~(packTodo' # <<>> /\ Head(packTodo') = "checksum data")
    BY <1>5, <2>4, NoData
  <2>6. Finishing'
    BY <1>7, <2>3, <2>5 DEF Finishing, TextPrinted
  <2> QED
    BY <1>2, <1>4, <2>5, <2>6 DEF PackInv, PackTypes, ChecksumOwned, Phases, PacksFirst
<1> QED
  BY <1>1, <1>6, <1>7

(* The invariant holds at the start, and every action preserves it.         *)
LEMMA PackStarts == PackInit => PackInv
<1> SUFFICES ASSUME PackInit PROVE PackInv
  OBVIOUS
<1>1. PackTypes
  <2>1. packTodo \in Seq(AllFields)
    <3>1. "version" \in AllFields
      BY DEF AllFields
    <3> QED
      BY <3>1, Tuples DEF PackInit
  <2>2. owned \in [Blocks -> Int]
    BY DEF PackInit
  <2>3. printed = <<>> /\ printed \in Seq({"pack", "Txt", "Xml"}) /\ Len(printed) = 0
    BY EmptySeq DEF PackInit
  <2> QED
    BY <2>1, <2>2, <2>3 DEF PackInit, PackTypes, PacksFirst
<1>2. owned["Txt"] = 0 /\ owned["Xml"] = 0 /\ owned["Checksum"] = 0
  BY BlockNames DEF PackInit
<1>3. Head(packTodo) = "version"
  BY Heads DEF PackInit
<1>4. ChecksumOwned
  BY <1>2, <1>3 DEF ChecksumOwned
<1> QED
  BY <1>1, <1>2, <1>4 DEF PackInv, Phases, Starting, PackInit

LEMMA VersionStep ==
  ASSUME PackInv, NEW v \in Versions, ReadVersion(v)
  PROVE  PackInv'
<1>1. packTodo # <<>> /\ Head(packTodo) = "version"
  BY DEF ReadVersion, At
<1>2. Starting
  BY <1>1, PhaseOf
<1>3. /\ lpData \subseteq TextBlocks /\ owned \in [Blocks -> Int] /\ UNCHANGED <<lpData, owned, printed>>
      /\ printed \in Seq({"pack", "Txt", "Xml"}) /\ PacksFirst /\ v \in Nat /\ dwVersion' = v
      /\ owned["Checksum"] = 0 /\ owned["Txt"] = 0 /\ owned["Xml"] = 0 /\ lpData = {}
      /\ packPc = "DumpPack"
  <2>1. /\ lpData \subseteq TextBlocks /\ owned \in [Blocks -> Int]
        /\ printed \in Seq({"pack", "Txt", "Xml"}) /\ PacksFirst
    BY DEF PackInv, PackTypes
  <2>2. owned["Checksum"] = 0
    BY <1>1 DEF PackInv, ChecksumOwned
  <2>3. UNCHANGED <<lpData, owned, printed>> /\ dwVersion' = v /\ v \in Nat
    BY PackAssumption DEF ReadVersion
  <2> QED
    BY <1>2, <2>1, <2>2, <2>3 DEF Starting
<1>7. v >= 6 => packTodo' = PackFields(v) /\ packPc' = packPc
  <2> SUFFICES ASSUME v >= 6 PROVE packTodo' = PackFields(v) /\ packPc' = packPc
    OBVIOUS
  <2>1. ~(v < 6)
    BY <1>3
  <2>2. Read(PackFields(v))
    BY <2>1 DEF ReadVersion
  <2> QED
    BY <2>2 DEF Read
<1>4. CASE v < 6
  <2>1. packTodo' = <<>> /\ packPc' = "done"
    BY <1>4 DEF ReadVersion, Return
  <2>2. packTodo' \in Seq(AllFields)
    BY <2>1, EmptySeq
  <2> QED
    BY <1>3, <2>1, <2>2 DEF PackInv, PackTypes, ChecksumOwned, Phases, PacksFirst, Finished, TextPrinted
<1>5. CASE v >= 6 /\ v < 9
  <2>1. packTodo' = PackFields(v) /\ PackFields(v) \in Seq(RestFields)
    BY <1>3, <1>5, <1>7, OldFields
  <2>2. PackFields(v) \in Seq(Late)
    <3>1. RestFields \subseteq Late
      BY RestContents DEF Late
    <3> QED
      BY <2>1, <3>1, SeqMonotonic
  <2>3. /\ Waiting' = PackFields(v) /\ packTodo' \in Seq(AllFields)
        /\ ~(packTodo' # <<>> /\ Head(packTodo') = "checksum data")
    BY <2>1, <2>2, NoData
  <2>4. Finishing'
    BY <1>3, <1>5, <1>7, <2>1, <2>3 DEF Finishing, TextPrinted
  <2> QED
    BY <1>3, <2>3, <2>4 DEF PackInv, PackTypes, ChecksumOwned, Phases, PacksFirst
<1>6. CASE v >= 9
  <2>1. packTodo' = PackFields(v) /\ Collects(PackFields(v))
    BY <1>3, <1>6, <1>7, PackCollects
  <2>2. PackFields(v) \in Seq(Late)
    BY <2>1 DEF Collects, Late
  <2>3. /\ Waiting' = PackFields(v) /\ packTodo' \in Seq(AllFields)
        /\ ~(packTodo' # <<>> /\ Head(packTodo') = "checksum data")
    BY <2>1, <2>2, NoData
  <2>4. printed = <<>>
    BY <1>2 DEF Starting
  <2>5. Collecting'
    <3>1. packPc' = "DumpPack" /\ Collects(Waiting')
      <4>1. v >= 6
        BY <1>3, <1>6
      <4>2. packPc' = packPc
        BY <1>7, <4>1
      <4> QED
        BY <1>3, <2>1, <2>3, <4>2
    <3>2. ASSUME NEW b \in TextBlocks PROVE Owns(b)' /\ b \notin lpData'
      BY <1>3, BlockNames DEF Owns
    <3>3. Len(printed') = 0
      BY <1>3, <2>4, EmptySeq
    <3> QED
      BY <3>1, <3>2, <3>3 DEF Collecting
  <2> QED
    BY <1>3, <2>3, <2>5 DEF PackInv, PackTypes, ChecksumOwned, Phases, PacksFirst
<1> QED
  BY <1>3, <1>4, <1>5, <1>6

LEMMA TailStep ==
  ASSUME PackInv, packTodo # <<>>, NEW f \in RestFields, f = Head(packTodo),
         packTodo' = Tail(packTodo), UNCHANGED <<packPc, dwVersion, lpData, owned, printed>>
  PROVE  PackInv'
<1>1. packTodo \in Seq(AllFields) /\ dwVersion \in Nat
  BY DEF PackInv, PackTypes
<1>2. Tail(packTodo) \in Seq(AllFields)
  BY <1>1, HeadTailProperties
<1>3. <<>> \o Tail(packTodo) = Tail(packTodo)
  BY <1>2, ConcatEmptySeq
<1>4. PICK p : p = <<>>
  OBVIOUS
<1>5. p \in Seq(RestFields) /\ p \in Seq(Collected) /\ packTodo' = p \o Tail(packTodo)
  BY <1>3, <1>4, EmptySeq
<1>6. f \in Collected /\ dwVersion' \in Nat
  BY <1>1, RestContents
<1> QED
  BY <1>5, <1>6, ReadOn

LEMMA FieldFailsStep ==
  ASSUME PackInv, FieldFails
  PROVE  PackInv'
<1>1. PICK f : f = Head(packTodo)
  OBVIOUS
<1>2. packTodo # <<>> /\ Fails({})
  BY DEF FieldFails
<1>3. f \in Collected \cup TextBlocks \/ f = "version"
  BY <1>1 DEF FieldFails, Counts, Collected, RestFields, TextBlocks
<1>4. Starting \/ Collecting \/ Finishing
  BY <1>1, <1>2, <1>3, PhaseOf
<1>5. f # "checksum data"
  <2>1. "checksum data" \in DataFields
    BY DEF DataFields
  <2> QED
    BY <1>3, <2>1, LateKinds DEF Late, DataFields
<1>6. OpenChecksum = {}
  BY <1>1, <1>5 DEF OpenChecksum
<1> QED
  BY <1>2, <1>4, <1>6, FailStep

(* A block of memory that is being read.                                    *)
LEMMA DataStep ==
  ASSUME PackInv, packTodo # <<>>, Head(packTodo) \in DataFields,
         packTodo' = Tail(packTodo), UNCHANGED <<packPc, dwVersion, lpData, printed>>,
         owned' = Freed(OpenChecksum)
  PROVE  PackInv'
<1>1. /\ lpData \subseteq TextBlocks /\ owned \in [Blocks -> Int] /\ dwVersion \in Nat
      /\ printed \in Seq({"pack", "Txt", "Xml"}) /\ PacksFirst
  BY DEF PackInv, PackTypes
<1>2. Waiting = Tail(packTodo) /\ (Collecting \/ Finishing)
  BY PhaseOf
<1>3. \A b \in Blocks : owned'[b] = IF b \in OpenChecksum THEN owned[b] - 1 ELSE owned[b]
  BY <1>1, Owned
<1>4. owned'["Txt"] = owned["Txt"] /\ owned'["Xml"] = owned["Xml"]
  BY <1>3, BlockNames DEF OpenChecksum
<1>5. owned'["Checksum"] = 0
  <2>1. owned'["Checksum"] = IF "Checksum" \in OpenChecksum THEN owned["Checksum"] - 1 ELSE owned["Checksum"]
    BY <1>3, BlockNames
  <2>2. CASE Head(packTodo) = "checksum data"
    <3>1. owned["Checksum"] = 1 /\ "Checksum" \in OpenChecksum
      BY <2>2 DEF PackInv, ChecksumOwned, OpenChecksum
    <3> QED
      BY <2>1, <3>1
  <2>3. CASE Head(packTodo) # "checksum data"
    <3>1. owned["Checksum"] = 0 /\ "Checksum" \notin OpenChecksum
      BY <2>3 DEF PackInv, ChecksumOwned, OpenChecksum
    <3> QED
      BY <2>1, <3>1
  <2> QED
    BY <2>2, <2>3
<1>6. owned' \in [Blocks -> Int]
  BY <1>1, Owned
<1>7. Waiting \in Seq(Late)
  <2>1. RestFields \subseteq Late
    BY RestContents DEF Late
  <2>2. Finishing => Waiting \in Seq(Late)
    BY <2>1, SeqMonotonic DEF Finishing
  <2>3. Collecting => Waiting \in Seq(Late)
    BY DEF Collecting, Collects, Late
  <2> QED
    BY <1>2, <2>2, <2>3
<1>8. PICK s : s = Waiting
  OBVIOUS
<1>9. Waiting' = s /\ packTodo' \in Seq(AllFields) /\ ~(packTodo' # <<>> /\ Head(packTodo') = "checksum data")
  BY <1>2, <1>7, <1>8, NoData
<1>10. Collecting => Collecting'
  <2> SUFFICES ASSUME Collecting PROVE Collecting'
    OBVIOUS
  <2>1. ASSUME NEW b \in TextBlocks PROVE Owns(b)' /\ (b \in lpData' => Never(s, b))
    <3>1. owned'[b] = owned[b]
      BY <1>4, BlockNames
    <3> QED
      BY <1>8, <3>1 DEF Collecting, Owns
  <2> QED
    BY <1>8, <1>9, <2>1 DEF Collecting
<1>11. Finishing => Finishing'
  BY <1>4, <1>8, <1>9 DEF Finishing, TextPrinted
<1> QED
  BY <1>1, <1>2, <1>5, <1>6, <1>9, <1>10, <1>11 DEF PackInv, PackTypes, ChecksumOwned, Phases, PacksFirst

LEMMA ReadChecksumStep ==
  ASSUME PackInv, ReadChecksum
  PROVE  PackInv'
<1>1. packTodo # <<>> /\ Head(packTodo) = "checksum data" /\ "checksum data" \in DataFields
  BY DEF ReadChecksum, At, DataFields
<1>2. OpenChecksum = {"Checksum"}
  BY <1>1 DEF OpenChecksum
<1>3. Collecting \/ Finishing
  BY <1>1, PhaseOf
<1>4. CASE Fails({"Checksum"})
  BY <1>2, <1>3, <1>4, FailStep
<1>5. CASE ~Fails({"Checksum"})
  <2>1. /\ owned' = Freed(OpenChecksum) /\ packTodo' = Tail(packTodo)
        /\ UNCHANGED <<packPc, dwVersion, lpData, printed>>
    BY <1>2, <1>5 DEF ReadChecksum, Read
  <2> QED
    BY <1>1, <2>1, DataStep
<1> QED
  BY <1>4, <1>5

LEMMA ReadBlockStep ==
  ASSUME PackInv, NEW b \in TextBlocks, ReadBlock(b)
  PROVE  PackInv'
<1>1. packTodo # <<>> /\ Head(packTodo) \in DataFields /\ Head(packTodo) # "checksum data"
  BY DEF ReadBlock, At, Data, DataFields
<1>2. OpenChecksum = {}
  BY <1>1 DEF OpenChecksum
<1>3. Collecting \/ Finishing
  BY <1>1, PhaseOf
<1>4. CASE Fails({})
  BY <1>2, <1>3, <1>4, FailStep
<1>5. CASE ~Fails({})
  <2>1. packTodo' = Tail(packTodo) /\ UNCHANGED <<packPc, dwVersion, lpData, owned, printed>>
    BY <1>5 DEF ReadBlock, Read
  <2>2. owned' = Freed(OpenChecksum)
    <3>1. owned \in [Blocks -> Int]
      BY DEF PackInv, PackTypes
    <3>2. owned = [a \in Blocks |-> owned[a]]
      BY <3>1
    <3> QED
      BY <1>2, <2>1, <3>2 DEF Freed
  <2> QED
    BY <1>1, <2>1, <2>2, DataStep
<1> QED
  BY <1>4, <1>5

LEMMA AllocateChecksumStep ==
  ASSUME PackInv, AllocateChecksum
  PROVE  PackInv'
<1>1. /\ packTodo # <<>> /\ Head(packTodo) = "checksum" /\ owned' = Allocated("Checksum")
      /\ packTodo' = <<"checksum data">> \o Tail(packTodo)
      /\ UNCHANGED <<packPc, dwVersion, lpData, printed>>
  BY DEF AllocateChecksum, At, Read
<1>2. /\ lpData \subseteq TextBlocks /\ owned \in [Blocks -> Int] /\ dwVersion \in Nat
      /\ printed \in Seq({"pack", "Txt", "Xml"}) /\ PacksFirst
  BY DEF PackInv, PackTypes
<1>3. "checksum" \in Collected /\ "checksum" \in RestFields /\ "checksum" \notin PrintFields
      /\ "checksum data" \in DataFields
  BY RestContents, FieldKinds DEF DataFields
<1>4. Waiting = packTodo /\ (Collecting \/ Finishing)
  BY <1>1, <1>3, PhaseOf
<1>5. owned["Checksum"] = 0
  <2>1. Head(packTodo) # "checksum data"
    BY <1>1
  <2> QED
    BY <2>1 DEF PackInv, ChecksumOwned
<1>6. owned' \in [Blocks -> Int] /\ owned'["Checksum"] = 1
      /\ owned'["Txt"] = owned["Txt"] /\ owned'["Xml"] = owned["Xml"]
  <2>1. \A a \in Blocks : owned'[a] = IF a = "Checksum" THEN owned["Checksum"] + 1 ELSE owned[a]
    BY <1>1, <1>2, Owned, BlockNames
  <2>2. owned' \in [Blocks -> Int]
    BY <1>1, <1>2, Owned, BlockNames
  <2> QED
    BY <1>5, <2>1, <2>2, BlockNames
<1>7. PICK s : s = Tail(packTodo)
  OBVIOUS
<1>8. CASE Collecting
  <2>1. Collects(packTodo) /\ \A b \in TextBlocks : b \in lpData => Never(packTodo, b)
    BY <1>4, <1>8 DEF Collecting
  <2>2. Collects(s) /\ \A b \in TextBlocks : b \in lpData => Never(s, b)
    BY <1>1, <1>3, <1>7, <2>1, CollectsTail
  <2>3. s \in Seq(Late)
    BY <2>2 DEF Collects, Late
  <2>4. Waiting' = s /\ packTodo' \in Seq(AllFields) /\ packTodo' # <<>> /\ Head(packTodo') = "checksum data"
    BY <1>1, <1>3, <1>7, <2>3, DataFirst
  <2>5. Collecting'
    <3>1. ASSUME NEW b \in TextBlocks PROVE Owns(b)' /\ (b \in lpData' => Never(s, b))
      <4>1. owned'[b] = owned[b]
        BY <1>6, BlockNames
      <4> QED
        BY <1>1, <1>8, <2>2, <4>1 DEF Collecting, Owns
    <3> QED
      BY <1>1, <1>8, <2>2, <2>4, <3>1 DEF Collecting
  <2> QED
    BY <1>1, <1>2, <1>6, <2>4, <2>5 DEF PackInv, PackTypes, ChecksumOwned, Phases, PacksFirst
<1>9. CASE Finishing
  <2>1. packTodo \in Seq(RestFields)
    BY <1>4, <1>9 DEF Finishing
  <2>2. s \in Seq(RestFields)
    BY <1>1, <1>7, <2>1, HeadTailProperties
  <2>3. s \in Seq(Late)
    <3>1. RestFields \subseteq Late
      BY RestContents DEF Late
    <3> QED
      BY <2>2, <3>1, SeqMonotonic
  <2>4. Waiting' = s /\ packTodo' \in Seq(AllFields) /\ packTodo' # <<>> /\ Head(packTodo') = "checksum data"
    BY <1>1, <1>3, <1>7, <2>3, DataFirst
  <2>5. Finishing'
    BY <1>1, <1>6, <1>9, <2>2, <2>4 DEF Finishing, TextPrinted
  <2> QED
    BY <1>1, <1>2, <1>6, <2>4, <2>5 DEF PackInv, PackTypes, ChecksumOwned, Phases, PacksFirst
<1> QED
  BY <1>4, <1>8, <1>9

LEMMA AllocateBlockStep ==
  ASSUME PackInv, NEW b \in TextBlocks, AllocateBlock(b)
  PROVE  PackInv'
<1>1. packTodo # <<>> /\ Head(packTodo) = b /\ UNCHANGED <<packPc, dwVersion, printed>>
  BY DEF AllocateBlock, At, Read
<1>2. /\ lpData \subseteq TextBlocks /\ owned \in [Blocks -> Int] /\ dwVersion \in Nat
      /\ printed \in Seq({"pack", "Txt", "Xml"}) /\ PacksFirst
  BY DEF PackInv, PackTypes
<1>3. b \notin DataFields /\ b \notin PrintFields /\ b \notin RestFields /\ b \in Late
      /\ Data(b) \in DataFields /\ Data(b) # "checksum data"
  BY BlockNames, LateKinds, RestContents, FieldKinds DEF Late, Data, DataFields
<1>4. Waiting = packTodo /\ Collecting
  BY <1>1, <1>3, PhaseOf
<1>5. owned["Checksum"] = 0
  <2>1. Head(packTodo) # "checksum data"
    BY <1>1, <1>3 DEF DataFields
  <2> QED
    BY <2>1 DEF PackInv, ChecksumOwned
<1>6. PICK s : s = Tail(packTodo)
  OBVIOUS
<1>7. Collects(packTodo) /\ \A a \in TextBlocks : Owns(a) /\ (a \in lpData => Never(packTodo, a))
  BY <1>4 DEF Collecting
<1>8. /\ Collects(s) /\ Never(s, b) /\ b \notin lpData
      /\ \A a \in TextBlocks : a \in lpData => Never(s, a)
  BY <1>1, <1>3, <1>6, <1>7, CollectsTail
<1>9. s \in Seq(Late)
  BY <1>8 DEF Collects, Late
<1>10. \A i \in 1..Len(printed) : printed[i] = "pack"
  BY <1>4 DEF Collecting
<1>11. packPc' = "DumpPack"
  BY <1>1, <1>4 DEF Collecting
<1>12. CASE packTodo' = s /\ UNCHANGED <<lpData, owned>>
  <2>1. Waiting' = s /\ packTodo' \in Seq(AllFields) /\ ~(packTodo' # <<>> /\ Head(packTodo') = "checksum data")
    BY <1>9, <1>12, NoData
  <2>2. ASSUME NEW a \in TextBlocks PROVE Owns(a)' /\ (a \in lpData' => Never(s, a))
    BY <1>7, <1>8, <1>12 DEF Owns
  <2>3. Collecting'
    BY <1>1, <1>8, <1>10, <1>11, <2>1, <2>2 DEF Collecting
  <2> QED
    BY <1>1, <1>2, <1>5, <1>12, <2>1, <2>3 DEF PackInv, PackTypes, ChecksumOwned, Phases, PacksFirst
<1>13. CASE /\ packTodo' = <<Data(b)>> \o s
            /\ lpData' = lpData \cup {b} /\ owned' = Allocated(b)
  <2>1. Waiting' = s /\ packTodo' \in Seq(AllFields) /\ packTodo' # <<>> /\ Head(packTodo') = Data(b)
    BY <1>3, <1>9, <1>13, DataFirst
  <2>2. /\ owned' \in [Blocks -> Int]
        /\ \A a \in Blocks : owned'[a] = IF a = b THEN owned[b] + 1 ELSE owned[a]
    BY <1>2, <1>13, Owned, BlockNames
  <2>3. owned[b] = 0
    BY <1>7, <1>8 DEF Owns
  <2>4. ASSUME NEW a \in TextBlocks PROVE Owns(a)' /\ (a \in lpData' => Never(s, a))
    <3>1. CASE a = b
      <4>1. owned'[a] = 1 /\ a \in lpData'
        BY <1>13, <2>2, <2>3, <3>1, BlockNames
      <4> QED
        BY <1>8, <3>1, <4>1 DEF Owns
    <3>2. CASE a # b
      <4>1. owned'[a] = owned[a] /\ (a \in lpData' <=> a \in lpData)
        BY <1>13, <2>2, <3>2, BlockNames
      <4> QED
        BY <1>7, <1>8, <4>1 DEF Owns
    <3> QED
      BY <3>1, <3>2
  <2>5. Collecting'
    BY <1>1, <1>8, <1>10, <1>11, <2>1, <2>4 DEF Collecting
  <2>6. owned'["Checksum"] = 0
    BY <1>5, <2>2, BlockNames
  <2>7. lpData' \subseteq TextBlocks
    BY <1>2, <1>13
  <2> QED
    BY <1>1, <1>2, <1>3, <2>1, <2>2, <2>5, <2>6, <2>7 DEF PackInv, PackTypes, ChecksumOwned, Phases, PacksFirst
<1> QED
  BY <1>6, <1>12, <1>13 DEF AllocateBlock, Read

LEMMA ReadCountStep ==
  ASSUME PackInv, NEW n \in 0..MaxItems, ReadCount(n)
  PROVE  PackInv'
<1>1. PICK field \in Counts : At(field) /\ Read(Times(n, Items(field)) \o Tail(packTodo))
  BY DEF ReadCount
<1>2. n \in Nat /\ dwVersion \in Nat
  BY PackAssumption DEF PackInv, PackTypes
<1>3. PICK p : p = Times(n, Items(field))
  OBVIOUS
<1>4. p \in Seq(Collected) /\ (field # "num packs" => p \in Seq(RestFields))
  BY <1>2, <1>3, FieldsOfItems
<1>5. field \in Collected
  BY DEF Counts, Collected, RestFields
<1>6. packTodo # <<>> /\ Head(packTodo) = field /\ packTodo' = p \o Tail(packTodo)
  BY <1>1, <1>3 DEF At, Read
<1>7. UNCHANGED <<packPc, lpData, owned, printed>> /\ dwVersion' \in Nat
  BY <1>1, <1>2 DEF ReadCount, Read
<1> QED
  BY <1>4, <1>5, <1>6, <1>7, ReadOn

(* What is printed.                                                         *)
Outputs == {"pack", "Txt", "Xml"}

LEMMA PrintedMore ==
  ASSUME printed \in Seq(Outputs), PacksFirst, NEW o \in Outputs, printed' = Append(printed, o),
         o = "pack" => \A i \in 1..Len(printed) : printed[i] = "pack"
  PROVE  /\ printed' \in Seq(Outputs) /\ PacksFirst' /\ Len(printed') \in Nat /\ Len(printed') = Len(printed) + 1
         /\ \A i \in 1..Len(printed) : printed'[i] = printed[i] /\ i \in 1..Len(printed')
         /\ Len(printed') \in 1..Len(printed') /\ printed'[Len(printed')] = o
<1>1. PICK n \in Nat : n = Len(printed)
  BY LenProperties
<1>2. /\ printed' \in Seq(Outputs) /\ Len(printed') = n + 1
      /\ \A i \in 1..n : printed'[i] = printed[i] /\ i \in 1..(n + 1)
      /\ printed'[n + 1] = o
  BY <1>1, AppendProperties
<1>3. \A i, j \in 1..n : i <= j /\ printed[j] = "pack" => printed[i] = "pack"
  BY <1>1 DEF PacksFirst
<1>4. ASSUME NEW i \in 1..(n + 1), NEW j \in 1..(n + 1), i <= j, printed'[j] = "pack" PROVE printed'[i] = "pack"
  <2>1. CASE j = n + 1
    <3>1. \A k \in 1..n : printed[k] = "pack"
      BY <1>1, <1>2, <1>4, <2>1
    <3>2. i \in 1..n \/ i = n + 1
      OBVIOUS
    <3> QED
      BY <1>2, <1>4, <2>1, <3>1, <3>2
  <2>2. CASE j # n + 1
    <3>1. i \in 1..n /\ j \in 1..n
      BY <1>4, <2>2
    <3> QED
      BY <1>2, <1>3, <1>4, <3>1
  <2> QED
    BY <2>1, <2>2
<1> QED
  BY <1>1, <1>2, <1>4 DEF PacksFirst

LEMMA EndPackStep ==
  ASSUME PackInv, EndIncludedPack
  PROVE  PackInv'
<1>1. /\ packTodo # <<>> /\ Head(packTodo) = "end of pack" /\ printed' = Append(printed, "pack")
      /\ packTodo' = Tail(packTodo) /\ UNCHANGED <<packPc, dwVersion, lpData, owned>>
  BY DEF EndIncludedPack, At, Read
<1>2. /\ lpData \subseteq TextBlocks /\ owned \in [Blocks -> Int] /\ dwVersion \in Nat
      /\ printed \in Seq(Outputs) /\ PacksFirst
  BY DEF PackInv, PackTypes, Outputs
<1>3. "end of pack" \in Collected /\ "end of pack" \notin RestFields /\ "end of pack" \notin PrintFields
  BY RestContents, FieldKinds
<1>4. Waiting = packTodo /\ Collecting
  BY <1>1, <1>3, PhaseOf
<1>5. owned["Checksum"] = 0
  <2>1. Head(packTodo) # "checksum data"
    BY <1>1
  <2> QED
    BY <2>1 DEF PackInv, ChecksumOwned
<1>6. PICK s : s = Tail(packTodo)
  OBVIOUS
<1>7. /\ Collects(packTodo) /\ \A a \in TextBlocks : Owns(a) /\ (a \in lpData => Never(packTodo, a))
      /\ packPc = "DumpPack" /\ \A i \in 1..Len(printed) : printed[i] = "pack"
  BY <1>4 DEF Collecting
<1>8. Collects(s) /\ \A a \in TextBlocks : a \in lpData => Never(s, a)
  BY <1>1, <1>3, <1>6, <1>7, CollectsTail
<1>9. s \in Seq(Late)
  BY <1>8 DEF Collects, Late
<1>10. Waiting' = s /\ packTodo' \in Seq(AllFields) /\ ~(packTodo' # <<>> /\ Head(packTodo') = "checksum data")
  BY <1>1, <1>6, <1>9, NoData
<1>11. /\ printed' \in Seq(Outputs) /\ PacksFirst'
       /\ \A i \in 1..Len(printed') : printed'[i] = "pack"
  <2>1. "pack" \in Outputs
    BY DEF Outputs
  <2>2. /\ printed' \in Seq(Outputs) /\ PacksFirst' /\ Len(printed') = Len(printed) + 1
        /\ \A i \in 1..Len(printed) : printed'[i] = printed[i]
        /\ printed'[Len(printed')] = "pack"
    BY <1>1, <1>2, <1>7, <2>1, PrintedMore
  <2>3. Len(printed) \in Nat
    BY <1>2, LenProperties
  <2>4. \A i \in 1..Len(printed') : i \in 1..Len(printed) \/ i = Len(printed')
    BY <2>2, <2>3
  <2> QED
    BY <1>7, <2>2, <2>4
<1>12. Collecting'
  <2>1. ASSUME NEW a \in TextBlocks PROVE Owns(a)' /\ (a \in lpData' => Never(s, a))
    BY <1>1, <1>7, <1>8 DEF Owns
  <2> QED
    BY <1>1, <1>7, <1>8, <1>10, <1>11, <2>1 DEF Collecting
<1> QED
  BY <1>1, <1>2, <1>5, <1>10, <1>11, <1>12 DEF PackInv, PackTypes, ChecksumOwned, Phases, Outputs

LEMMA PrintTxtStep ==
  ASSUME PackInv, PrintTxt
  PROVE  PackInv'
<1>1. /\ packTodo # <<>> /\ Head(packTodo) = "print Txt"
      /\ printed' = IF "Txt" \in lpData THEN Append(printed, "Txt") ELSE printed
      /\ owned' = Freed(lpData \cap {"Txt"})
      /\ packTodo' = Tail(packTodo) /\ UNCHANGED <<packPc, dwVersion, lpData>>
  BY DEF PrintTxt, At, Read
<1>2. /\ lpData \subseteq TextBlocks /\ owned \in [Blocks -> Int] /\ dwVersion \in Nat
      /\ printed \in Seq(Outputs) /\ PacksFirst
  BY DEF PackInv, PackTypes, Outputs
<1>3. Collecting /\ packTodo = Printouts
  BY <1>1, PhaseOf
<1>4. packTodo' = <<"print Xml", "header">> /\ packTodo' # <<>> /\ Head(packTodo') = "print Xml"
  <2>1. Tail(Printouts) = <<"print Xml", "header">>
    <3>1. Printouts = <<"print Txt", "print Xml", "header">>
      BY DEF Printouts
    <3> QED
      BY <3>1, RestOfThree
  <2>2. Head(<<"print Xml", "header">>) = "print Xml" /\ <<"print Xml", "header">> # <<>>
    BY Heads
  <2>3. packTodo' = <<"print Xml", "header">>
    BY <1>1, <1>3, <2>1
  <2> QED
    BY <2>2, <2>3
<1>5. packTodo' \in Seq(AllFields)
  <2>1. packTodo \in Seq(AllFields)
    BY DEF PackInv, PackTypes
  <2> QED
    BY <1>1, <2>1, HeadTailProperties
<1>6. owned["Checksum"] = 0 /\ packPc = "DumpPack" /\ Owns("Txt") /\ Owns("Xml")
  <2>1. Head(packTodo) # "checksum data"
    BY <1>1
  <2> QED
    BY <1>3, <2>1, BlockNames DEF PackInv, ChecksumOwned, Collecting
<1>7. /\ owned' \in [Blocks -> Int]
      /\ \A b \in Blocks : owned'[b] = IF b \in lpData \cap {"Txt"} THEN owned[b] - 1 ELSE owned[b]
  BY <1>1, <1>2, Owned
<1>8. owned'["Checksum"] = 0 /\ owned'["Xml"] = owned["Xml"]
  BY <1>6, <1>7, BlockNames
<1>9. owned'["Txt"] = 0
  <2>1. CASE "Txt" \in lpData
    <3>1. owned["Txt"] = 1 /\ owned'["Txt"] = owned["Txt"] - 1
      BY <1>6, <1>7, <2>1, BlockNames DEF Owns
    <3> QED
      BY <3>1
  <2>2. CASE "Txt" \notin lpData
    BY <1>6, <1>7, <2>2, BlockNames DEF Owns
  <2> QED
    BY <2>1, <2>2
<1>10. printed' \in Seq(Outputs) /\ PacksFirst' /\ TextPrinted'
  <2>1. CASE "Txt" \in lpData
    <3>1. printed' = Append(printed, "Txt") /\ "Txt" \in Outputs /\ "Txt" # "pack"
      BY <1>1, <2>1 DEF Outputs
    <3>2. /\ printed' \in Seq(Outputs) /\ PacksFirst'
          /\ Len(printed') \in 1..Len(printed') /\ printed'[Len(printed')] = "Txt"
      BY <1>2, <3>1, PrintedMore
    <3> QED
      BY <3>2 DEF TextPrinted
  <2>2. CASE "Txt" \notin lpData
    BY <1>1, <1>2, <2>2 DEF TextPrinted, PacksFirst
  <2> QED
    BY <2>1, <2>2
<1>11. Printing'
  BY <1>1, <1>4, <1>6, <1>8, <1>9, <1>10 DEF Printing, Owns
<1> QED
  BY <1>1, <1>2, <1>4, <1>5, <1>7, <1>8, <1>10, <1>11 DEF PackInv, PackTypes, ChecksumOwned, Phases, Outputs

LEMMA PrintXmlStep ==
  ASSUME PackInv, PrintXml
  PROVE  PackInv'
<1>1. /\ packTodo # <<>> /\ Head(packTodo) = "print Xml"
      /\ printed' = Append(printed, "Xml") \/ printed' = printed
      /\ owned' = Freed(lpData \cap {"Xml"})
      /\ packTodo' = Tail(packTodo) /\ UNCHANGED <<packPc, dwVersion, lpData>>
  BY DEF PrintXml, At, Read
<1>2. /\ lpData \subseteq TextBlocks /\ owned \in [Blocks -> Int] /\ dwVersion \in Nat
      /\ printed \in Seq(Outputs) /\ PacksFirst
  BY DEF PackInv, PackTypes, Outputs
<1>3. Printing
  BY <1>1, PhaseOf
<1>4. packTodo' = <<"header">> /\ packTodo' # <<>> /\ Head(packTodo') = "header"
  <2>1. Tail(<<"print Xml", "header">>) = <<"header">>
    BY Heads
  <2>2. Head(<<"header">>) = "header" /\ <<"header">> # <<>>
    BY Heads
  <2>3. packTodo' = <<"header">>
    BY <1>1, <1>3, <2>1 DEF Printing
  <2> QED
    BY <2>2, <2>3
<1>5. packTodo' \in Seq(AllFields)
  <2>1. packTodo \in Seq(AllFields)
    BY DEF PackInv, PackTypes
  <2> QED
    BY <1>1, <2>1, HeadTailProperties
<1>6. owned["Checksum"] = 0 /\ packPc = "DumpPack" /\ owned["Txt"] = 0 /\ Owns("Xml") /\ TextPrinted
  <2>1. Head(packTodo) # "checksum data"
    BY <1>1
  <2> QED
    BY <1>3, <2>1 DEF PackInv, ChecksumOwned, Printing
<1>7. /\ owned' \in [Blocks -> Int]
      /\ \A b \in Blocks : owned'[b] = IF b \in lpData \cap {"Xml"} THEN owned[b] - 1 ELSE owned[b]
  BY <1>1, <1>2, Owned
<1>8. owned'["Checksum"] = 0 /\ owned'["Txt"] = 0
  BY <1>6, <1>7, BlockNames
<1>9. owned'["Xml"] = 0
  <2>1. CASE "Xml" \in lpData
    <3>1. owned["Xml"] = 1 /\ owned'["Xml"] = owned["Xml"] - 1
      BY <1>6, <1>7, <2>1, BlockNames DEF Owns
    <3> QED
      BY <3>1
  <2>2. CASE "Xml" \notin lpData
    BY <1>6, <1>7, <2>2, BlockNames DEF Owns
  <2> QED
    BY <2>1, <2>2
<1>10. printed' \in Seq(Outputs) /\ PacksFirst' /\ TextPrinted'
  <2>1. CASE printed' = Append(printed, "Xml")
    <3>1. "Xml" \in Outputs /\ "Xml" # "pack"
      BY DEF Outputs
    <3>2. /\ printed' \in Seq(Outputs) /\ PacksFirst'
          /\ \A i \in 1..Len(printed) : printed'[i] = printed[i] /\ i \in 1..Len(printed')
      BY <1>2, <2>1, <3>1, PrintedMore
    <3>3. TextPrinted'
      <4> SUFFICES ASSUME "Txt" \in lpData PROVE \E i \in 1..Len(printed') : printed'[i] = "Txt"
        BY <1>1 DEF TextPrinted
      <4>1. PICK i \in 1..Len(printed) : printed[i] = "Txt"
        BY <1>6 DEF TextPrinted
      <4> QED
        BY <3>2, <4>1
    <3> QED
      BY <3>2, <3>3
  <2>2. CASE printed' = printed
    BY <1>1, <1>2, <1>6, <2>2 DEF TextPrinted, PacksFirst
  <2> QED
    BY <1>1, <2>1, <2>2
<1>11. Calling'
  BY <1>1, <1>4, <1>6, <1>8, <1>9, <1>10 DEF Calling
<1> QED
  BY <1>1, <1>2, <1>4, <1>5, <1>7, <1>8, <1>10, <1>11 DEF PackInv, PackTypes, ChecksumOwned, Phases, Outputs

(* The dump of the pack ends, or another function reads on.                 *)
LEMMA EndStep ==
  ASSUME PackInv, TextPrinted, owned["Txt"] = 0, owned["Xml"] = 0, owned["Checksum"] = 0,
         packPc' = "done", packTodo' = <<>>, UNCHANGED <<dwVersion, lpData, owned, printed>>
  PROVE  PackInv'
<1>1. /\ lpData \subseteq TextBlocks /\ owned \in [Blocks -> Int] /\ dwVersion \in Nat
      /\ printed \in Seq({"pack", "Txt", "Xml"}) /\ PacksFirst
  BY DEF PackInv, PackTypes
<1>2. packTodo' \in Seq(AllFields)
  BY EmptySeq
<1>3. Finished'
  BY DEF Finished, TextPrinted
<1> QED
  BY <1>1, <1>2, <1>3 DEF PackInv, PackTypes, ChecksumOwned, Phases, PacksFirst

LEMMA CallStep ==
  ASSUME PackInv, CallDumpPackHeader
  PROVE  PackInv'
<1>1. packTodo # <<>> /\ Head(packTodo) = "header" /\ UNCHANGED <<dwVersion, lpData, owned, printed>>
  BY DEF CallDumpPackHeader, At
<1>2. Calling
  BY <1>1, PhaseOf
<1>3. owned["Checksum"] = 0
  <2>1. Head(packTodo) # "checksum data"
    BY <1>1
  <2> QED
    BY <2>1 DEF PackInv, ChecksumOwned
<1>4. /\ lpData \subseteq TextBlocks /\ owned \in [Blocks -> Int] /\ dwVersion \in Nat
      /\ printed \in Seq({"pack", "Txt", "Xml"}) /\ PacksFirst
  BY DEF PackInv, PackTypes
<1>5. CASE bPrivate
  BY <1>1, <1>2, <1>3, <1>5, EndStep DEF Calling, CallDumpPackHeader, Return
<1>6. CASE ~bPrivate
  <2>1. packPc' = "DumpPackHeader" /\ packTodo' = HeaderFields(dwVersion)
    BY <1>6 DEF CallDumpPackHeader
  <2>2. PICK s : s = HeaderFields(dwVersion)
    OBVIOUS
  <2>3. s \in Seq(RestFields)
    BY <1>4, <2>2, FieldsOfHeader
  <2>4. s \in Seq(Late)
    <3>1. RestFields \subseteq Late
      BY RestContents DEF Late
    <3> QED
      BY <2>3, <3>1, SeqMonotonic
  <2>5. Waiting' = s /\ packTodo' \in Seq(AllFields) /\ ~(packTodo' # <<>> /\ Head(packTodo') = "checksum data")
    BY <2>1, <2>2, <2>4, NoData
  <2>6. Finishing'
    BY <1>1, <1>2, <2>1, <2>3, <2>5 DEF Finishing, Calling, TextPrinted
  <2> QED
    BY <1>1, <1>3, <1>4, <2>5, <2>6 DEF PackInv, PackTypes, ChecksumOwned, Phases, PacksFirst
<1> QED
  BY <1>5, <1>6

LEMMA EndOfFieldsStep ==
  ASSUME PackInv, EndOfFields
  PROVE  PackInv'
<1>1. /\ packPc # "done" /\ packTodo = <<>> /\ packPc' = "done" /\ packTodo' = <<>>
      /\ UNCHANGED <<dwVersion, lpData, owned, printed>>
  BY DEF EndOfFields, Return
<1>2. Waiting = <<>>
  BY <1>1 DEF Waiting, InBlock
<1>3. ~Collecting
  <2>1. ~Collects(<<>>)
    BY EmptySeq DEF Collects
  <2> QED
    BY <1>2, <2>1 DEF Collecting
<1>4. ~Starting /\ ~Printing /\ ~Calling
  BY <1>1, Heads DEF Starting, Printing, Calling
<1>5. Finishing
  BY <1>1, <1>3, <1>4 DEF PackInv, Phases, Finished
<1>6. owned["Checksum"] = 0
  BY <1>1 DEF PackInv, ChecksumOwned
<1> QED
  BY <1>1, <1>5, <1>6, EndStep DEF Finishing

LEMMA PackStep ==
  ASSUME PackInv, [PackNext]_packVars
  PROVE  PackInv'
<1>1. CASE ReadField
  <2>1. /\ packTodo # <<>> /\ Head(packTodo) \in RestFields /\ packTodo' = Tail(packTodo)
        /\ UNCHANGED <<packPc, dwVersion, lpData, owned, printed>>
    BY <1>1, RestContents DEF ReadField, Read
  <2> QED
    BY <2>1, TailStep
<1>2. CASE ReadCryptFlags
  <2>1. /\ packTodo # <<>> /\ Head(packTodo) \in RestFields /\ packTodo' = Tail(packTodo)
        /\ UNCHANGED <<packPc, dwVersion, lpData, owned, printed>>
    BY <1>2, RestContents DEF ReadCryptFlags, Read, At
  <2> QED
    BY <2>1, TailStep
<1>3. ASSUME NEW b \in {"Txt", "Xml"}, AllocateBlock(b) \/ ReadBlock(b) PROVE PackInv'
  BY <1>3, AllocateBlockStep, ReadBlockStep DEF TextBlocks
<1>4. CASE UNCHANGED packVars
  <2>1. Waiting' = Waiting
    BY <1>4 DEF packVars, Waiting, InBlock
  <2> QED
    BY <1>4, <2>1 DEF packVars, PackInv, PackTypes, ChecksumOwned, Phases, PacksFirst, TextPrinted,
                      Owns, Starting, Collecting, Printing, Calling, Finishing, Finished
<1>5. ASSUME NEW v \in Versions, ReadVersion(v) PROVE PackInv'
  BY <1>5, VersionStep
<1>6. ASSUME NEW n \in 0..MaxItems, ReadCount(n) PROVE PackInv'
  BY <1>6, ReadCountStep
<1> QED
  BY <1>1, <1>2, <1>3, <1>4, <1>5, <1>6, FieldFailsStep, AllocateChecksumStep, ReadChecksumStep,
     EndPackStep, PrintTxtStep, PrintXmlStep, CallStep, EndOfFieldsStep DEF PackNext

(* Only a function that is over has returned TRUE.                          *)
Returned == bRet \in BOOLEAN /\ (bRet = TRUE => packPc = "done")

LEMMA ReturnedStep ==
  ASSUME PackInv, Returned, [PackNext]_packVars
  PROVE  Returned'
<1>1. packPc = "done" => packTodo = <<>>
  BY DEF PackInv, Phases, Starting, Collecting, Printing, Calling, Finishing, Finished
<1>2. CASE UNCHANGED <<packPc, bRet>>
  BY <1>2 DEF Returned
<1>3. CASE packPc' = "done" /\ bRet' \in BOOLEAN
  BY <1>3 DEF Returned
<1>4. CASE CallDumpPackHeader
  <2>1. packPc # "done"
    BY <1>1, <1>4 DEF CallDumpPackHeader, At
  <2> QED
    BY <1>3, <1>4, <2>1 DEF CallDumpPackHeader, Return, Returned
<1>5. ASSUME NEW v \in Versions, ReadVersion(v) PROVE Returned'
  BY <1>2, <1>3, <1>5 DEF ReadVersion, Return, Read
<1>6. ASSUME NEW b \in {"Txt", "Xml"}, AllocateBlock(b) \/ ReadBlock(b) PROVE Returned'
  BY <1>2, <1>3, <1>6 DEF AllocateBlock, ReadBlock, Fails, Return, Read
<1>7. ASSUME NEW n \in 0..MaxItems, ReadCount(n) PROVE Returned'
  BY <1>2, <1>7 DEF ReadCount, Read
<1>8. CASE ReadField \/ ReadCryptFlags \/ EndIncludedPack \/ PrintTxt \/ PrintXml \/ AllocateChecksum
           \/ UNCHANGED packVars
  BY <1>2, <1>8 DEF ReadField, ReadCryptFlags, EndIncludedPack, PrintTxt, PrintXml, AllocateChecksum, Read, packVars
<1>9. CASE FieldFails \/ ReadChecksum \/ EndOfFields
  BY <1>2, <1>3, <1>9 DEF FieldFails, ReadChecksum, EndOfFields, Fails, Return, Read
<1> QED
  BY <1>4, <1>5, <1>6, <1>7, <1>8, <1>9 DEF PackNext

(* The invariant says what PackPrinted asks for at the end.                 *)
LEMMA PackGood == PackInv /\ Returned => PackPrinted
<1> SUFFICES ASSUME PackInv, Returned PROVE PackPrinted
  OBVIOUS
<1>1. /\ lpData \subseteq TextBlocks /\ owned \in [Blocks -> Int] /\ PacksFirst
      /\ printed \in Seq({"pack", "Txt", "Xml"})
  BY DEF PackInv, PackTypes
<1>2. owned["Checksum"] \in {0, 1} /\ (packTodo = <<>> => owned["Checksum"] = 0)
  BY DEF PackInv, ChecksumOwned
<1>3. owned["Txt"] \in {0, 1} /\ owned["Xml"] \in {0, 1}
  <2>1. Collecting => owned["Txt"] \in {0, 1} /\ owned["Xml"] \in {0, 1}
    BY BlockNames DEF Collecting, Owns
  <2>2. Printing => owned["Txt"] \in {0, 1} /\ owned["Xml"] \in {0, 1}
    BY DEF Printing, Owns
  <2> QED
    BY <2>1, <2>2 DEF PackInv, Phases, Starting, Calling, Finishing, Finished
<1>4. packPc = "done" => Finished
  BY DEF PackInv, Phases, Starting, Collecting, Printing, Calling, Finishing
<1>5. \A b \in Blocks : owned[b] \in IF packPc = "done" THEN {0} ELSE {0, 1}
  <2>1. CASE packPc = "done"
    <3>1. owned["Txt"] = 0 /\ owned["Xml"] = 0 /\ owned["Checksum"] = 0
      BY <1>2, <1>4, <2>1 DEF Finished
    <3> QED
      BY <2>1, <3>1 DEF Blocks
  <2>2. CASE packPc # "done"
    BY <1>2, <1>3, <2>2 DEF Blocks
  <2> QED
    BY <2>1, <2>2
<1>6. ASSUME NEW i \in DOMAIN printed, printed[i] # "pack"
      PROVE  ~Contains(SubSeq(printed, i, Len(printed)), "pack")
  <2>1. PICK n \in Nat : n = Len(printed) /\ i \in 1..n
    BY <1>1, LenProperties
  <2>2. \A k \in i..n : printed[k] # "pack"
    <3> SUFFICES ASSUME NEW k \in i..n, printed[k] = "pack" PROVE FALSE
      OBVIOUS
    <3>1. k \in 1..n /\ i <= k
      BY <2>1
    <3> QED
      BY <1>1, <1>6, <2>1, <3>1 DEF PacksFirst
  <2>3. PICK s : s = SubSeq(printed, i, n)
    OBVIOUS
  <2>4. /\ Len(s) = n - i + 1 /\ \A k \in 1..(n - i + 1) : s[k] = printed[i + k - 1]
    <3>1. \A k \in i..n : printed[k] \in {"pack", "Txt", "Xml"}
      <4>1. \A k \in i..n : k \in 1..n
        BY <2>1
      <4> QED
        BY <1>1, <2>1, <4>1, ElementOfSeq
    <3>2. i \in Int /\ n \in Int /\ i <= n
      BY <2>1
    <3> QED
      BY <2>3, <3>1, <3>2, SubSeqProperties
  <2>5. \A k \in 1..Len(s) : s[k] # "pack"
    <3> SUFFICES ASSUME NEW k \in 1..(n - i + 1) PROVE s[k] # "pack"
      BY <2>4
    <3>1. i + k - 1 \in i..n
      BY <2>1
    <3> QED
      BY <2>2, <2>4, <3>1
  <2> QED
    BY <2>1, <2>3, <2>5 DEF Contains
<1>7. bRet /\ "Txt" \in lpData => Contains(printed, "Txt")
  BY <1>4 DEF Contains, Returned, Finished, TextPrinted
<1> QED
  BY <1>5, <1>6, <1>7 DEF PackPrinted

(* Whatever is in the header of a pack of whichever version, each block is  *)
(* freed exactly once and the comment is printed behind the last pack.      *)
THEOREM PackAlwaysPrinted == PackSpec => []PackPrinted
<1>1. PackInv /\ Returned /\ [PackNext]_packVars => PackInv' /\ Returned'
  BY PackStep, ReturnedStep
<1>2. PackInit => Returned
  BY DEF PackInit, Returned
<1> QED
  BY PackStarts, <1>2, PackGood, <1>1, PTL DEF PackSpec
=============================================================================
