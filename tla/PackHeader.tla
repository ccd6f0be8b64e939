----------------------------- MODULE PackHeader -----------------------------
(***************************************************************************)
(* DumpPack: the header of a pack, whose fields depend on its version.     *)
(* Its comment and its XML text stand before the headers of the included   *)
(* packs but are printed behind them, so they wait in two blocks of memory *)
(* that each of the returns in between has to free; a checksum has a block *)
(* of its own while it is read.                                            *)
(*                                                                         *)
(* A field that is read, printed and forgotten is only a name.             *)
(***************************************************************************)
EXTENDS Integers, Sequences, SequencesExt

CONSTANTS
  Versions,  \* versions of packs
  MaxItems   \* bound: included packs, folders and files

ASSUME PackAssumption == Versions \subseteq Nat /\ MaxItems \in Nat

Blocks == {"Txt", "Xml", "Checksum"}

VARIABLES
  packPc,    \* the function that returns: "DumpPack", "DumpPackHeader", "done"
  dwVersion,
  bPrivate,  \* IsHeaderPrivate or UseDefaultHeaderKey
  packTodo,  \* the fields that are still to be read, in their order
  lpData,    \* which of lpDataTxt and lpDataXml are not NULL
  owned,     \* how often each block was allocated, less how often it was freed
  bRet,
  printed    \* history: what was printed, in its order

packVars == <<packPc, dwVersion, bPrivate, packTodo, lpData, owned, bRet, printed>>

PackInit ==
  /\ packPc = "DumpPack" /\ dwVersion = 0 /\ bPrivate = FALSE /\ packTodo = <<"version">>
  /\ lpData = {} /\ owned = [b \in Blocks |-> 0] /\ bRet = FALSE /\ printed = <<>>

-----------------------------------------------------------------------------
(* The fields of each version.                                              *)
Only(condition, fields) == IF condition THEN fields ELSE <<>>
Times(n, fields) == [i \in 1..(n * Len(fields)) |-> fields[1 + ((i - 1) % Len(fields))]]

AuthorInfo == <<"author version", "login", "nick name", "zone", "extra info">>

FieldsOf7(v) ==
  AuthorInfo \o <<"comment", "skip">> \o Only(v = 8, <<"build info", "url">>)

FieldsOf9(v) ==
  Only(v >= 15, <<"header max size">>) \o AuthorInfo \o <<"manialink">> \o
  Only(v >= 13, <<"download url">>) \o <<"creation time", "Txt">> \o
  Only(v >= 12, <<"Xml", "title id">>) \o <<"usage", "build info", "skip">> \o
  Only(v >= 10, <<"num packs">>)

Printouts == <<"print Txt", "print Xml", "header">>

PackFields(v) ==
  <<"checksum", "crypt flags">> \o
  (CASE v < 7 -> <<>> [] v \in {7, 8} -> FieldsOf7(v) [] OTHER -> FieldsOf9(v) \o Printouts)

IncludedPackFields(v) ==
  <<"checksum", "name">> \o AuthorInfo \o <<"manialink", "creation date", "name">> \o
  Only(v >= 11, <<"depth">>) \o <<"end of pack">>

(* DumpPackHeader; its fields of versions before 9 are never reached.       *)
HeaderFields(v) ==
  <<"checksum", "headers start">> \o Only(v < 15, <<"data start">>) \o
  <<"headers size", "compressed size">> \o Only(v >= 14, <<"skip">>) \o
  Only(v >= 16, <<"file size">>) \o <<"skip", "flags", "num folders", "num files">>

FolderFields == <<"folder index", "name">>

FileFields(v) ==
  <<"folder index", "name", "unknown", "size", "compressed size", "offset", "class">> \o
  Only(v >= 17, <<"size">>) \o Only(v >= 14, <<"checksum">>) \o <<"file flags">>

Counts == {"num packs", "num folders", "num files"}
Items(field) == CASE field = "num packs"   -> IncludedPackFields(dwVersion)
                  [] field = "num folders" -> FolderFields
                  [] field = "num files"   -> FileFields(dwVersion)

Plain   == {"skip", "comment", "build info", "url", "manialink", "download url",
            "creation time", "creation date", "title id", "usage", "name", "depth",
            "header max size", "headers start", "data start", "headers size",
            "compressed size", "file size", "flags", "folder index", "unknown", "size",
            "offset", "class", "file flags"} \cup {AuthorInfo[i] : i \in 1..5}

-----------------------------------------------------------------------------
Allocated(b) == [owned EXCEPT ![b] = @ + 1]
Freed(bs)    == [b \in Blocks |-> IF b \in bs THEN owned[b] - 1 ELSE owned[b]]

(* Every return of DumpPack frees what is there; DumpPackHeader has nothing *)
(* to free.  (Mutant: one block is forgotten.)                              *)
HeldBlocksButTxt == IF packPc = "DumpPack" THEN lpData \ {"Txt"} ELSE {}
HeldBlocks == IF packPc = "DumpPack" THEN lpData ELSE {}

At(field)  == packTodo # <<>> /\ Head(packTodo) = field
Read(rest) == packTodo' = rest /\ UNCHANGED <<packPc, bRet>>
Return(b)  == packPc' = "done" /\ bRet' = b /\ packTodo' = <<>>

(* The field or its memory is missing, or its size is absurd.               *)
Fails(own) == /\ Return(FALSE)
              /\ owned' = Freed(HeldBlocks \cup own)
              /\ UNCHANGED <<dwVersion, bPrivate, lpData, printed>>

ReadVersion(v) ==
  /\ At("version")
  /\ dwVersion' = v
  /\ IF v < 6 THEN Return(TRUE) ELSE Read(PackFields(v))
  /\ UNCHANGED <<bPrivate, lpData, owned, printed>>

ReadField ==
  /\ packTodo # <<>> /\ Head(packTodo) \in Plain
  /\ Read(Tail(packTodo))
  /\ UNCHANGED <<dwVersion, bPrivate, lpData, owned, printed>>

ReadCryptFlags ==
  /\ At("crypt flags")
  /\ bPrivate' \in BOOLEAN
  /\ Read(Tail(packTodo))
  /\ UNCHANGED <<dwVersion, lpData, owned, printed>>

FieldFails ==
  /\ packTodo # <<>>
  /\ Head(packTodo) \in Plain \cup Counts \cup {"version", "crypt flags", "checksum", "Txt", "Xml"}
  /\ Fails({})

(* DumpChecksum                                                             *)
AllocateChecksum ==
  /\ At("checksum")
  /\ owned' = Allocated("Checksum")
  /\ Read(<<"checksum data">> \o Tail(packTodo))
  /\ UNCHANGED <<dwVersion, bPrivate, lpData, printed>>

ReadChecksum ==
  /\ At("checksum data")
  /\ \/ /\ owned' = Freed({"Checksum"})
        /\ Read(Tail(packTodo))
        /\ UNCHANGED <<dwVersion, bPrivate, lpData, printed>>
     \/ Fails({"Checksum"})

Data(b) == IF b = "Txt" THEN "Txt data" ELSE "Xml data"

(* The comment and the XML text; neither has a block if it is empty.        *)
AllocateBlock(b) ==
  /\ At(b)
  /\ \/ Read(Tail(packTodo)) /\ UNCHANGED <<lpData, owned>>
     \/ /\ Read(<<Data(b)>> \o Tail(packTodo))
        /\ lpData' = lpData \cup {b} /\ owned' = Allocated(b)
  /\ UNCHANGED <<dwVersion, bPrivate, printed>>

ReadBlock(b) ==
  /\ At(Data(b))
  /\ \/ /\ Read(Tail(packTodo))
        /\ UNCHANGED <<dwVersion, bPrivate, lpData, owned, printed>>
     \/ Fails({})

(* The loops over included packs, folders and files.                        *)
ReadCount(n) ==
  /\ \E field \in Counts : At(field) /\ Read(Times(n, Items(field)) \o Tail(packTodo))
  /\ UNCHANGED <<dwVersion, bPrivate, lpData, owned, printed>>

EndIncludedPack ==
  /\ At("end of pack")
  /\ printed' = Append(printed, "pack")
  /\ Read(Tail(packTodo))
  /\ UNCHANGED <<dwVersion, bPrivate, lpData, owned>>

(* The comment is printed and freed; its pointer is not used any more.      *)
PrintTxt ==
  /\ At("print Txt")
  /\ printed' = IF "Txt" \in lpData THEN Append(printed, "Txt") ELSE printed
  /\ owned' = Freed(lpData \cap {"Txt"})
  /\ Read(Tail(packTodo))
  /\ UNCHANGED <<dwVersion, bPrivate, lpData>>

(* The XML text is not printed if there is no memory to convert it.         *)
PrintXml ==
  /\ At("print Xml")
  /\ \/ printed' = IF "Xml" \in lpData THEN Append(printed, "Xml") ELSE printed
     \/ UNCHANGED printed
  /\ owned' = Freed(lpData \cap {"Xml"})
  /\ Read(Tail(packTodo))
  /\ UNCHANGED <<dwVersion, bPrivate, lpData>>

(* What follows is encrypted, or DumpPackHeader reads it.                   *)
CallDumpPackHeader ==
  /\ At("header")
  /\ IF bPrivate THEN Return(TRUE)
     ELSE packPc' = "DumpPackHeader" /\ packTodo' = HeaderFields(dwVersion) /\ UNCHANGED bRet
  /\ UNCHANGED <<dwVersion, bPrivate, lpData, owned, printed>>

EndOfFields ==
  /\ packPc # "done" /\ packTodo = <<>>
  /\ Return(TRUE)
  /\ UNCHANGED <<dwVersion, bPrivate, lpData, owned, printed>>

PackNext ==
  \/ \E v \in Versions : ReadVersion(v)
  \/ ReadField \/ ReadCryptFlags \/ FieldFails
  \/ AllocateChecksum \/ ReadChecksum
  \/ \E b \in {"Txt", "Xml"} : AllocateBlock(b) \/ ReadBlock(b)
  \/ \E n \in 0..MaxItems : ReadCount(n)
  \/ EndIncludedPack \/ PrintTxt \/ PrintXml \/ CallDumpPackHeader \/ EndOfFields

PackSpec == PackInit /\ [][PackNext]_packVars

-----------------------------------------------------------------------------
(* Whichever field is missing in whichever version, each block is freed     *)
(* exactly once, by the function that has it.  The comment and the XML text *)
(* are printed behind the last included pack, and a dump that counts as     *)
(* successful has printed the comment of the pack.                          *)
PackPrinted ==
  /\ \A b \in Blocks : owned[b] \in IF packPc = "done" THEN {0} ELSE {0, 1}
  /\ \A i \in DOMAIN printed : printed[i] # "pack" => ~Contains(SubSeq(printed, i, Len(printed)), "pack")
  /\ bRet /\ "Txt" \in lpData => Contains(printed, "Txt")
=============================================================================
