----------------------------- MODULE MCContents -----------------------------
(***************************************************************************)
(* A GameBox file for TLC: its fixed fields and the table of its header    *)
(* chunks (GbxHeader), and what the header's contents are read as -- its   *)
(* identifiers (Identifiers), its reference table (RefTable), one of its   *)
(* formatted texts (Strings), or the fields of a pack (PackHeader).  Those *)
(* that are not looked at are over.                                        *)
(*                                                                         *)
(* DWORDs have seven bits, so that the offset behind two large chunks      *)
(* overflows; 67 is the size 3 with the heavy bit set.  A file ends in its *)
(* table of two chunks, or behind everything but the largest chunks.       *)
(* Sections have up to four identifiers, so that a table of two names      *)
(* overflows; names of folders fit a buffer alone, with others, or not.    *)
(***************************************************************************)
EXTENDS GbxHeader, Identifiers, RefTable, Strings, PackHeader

NamesOfFolders == {<<>>, <<"a">>, <<"b", "c">>, <<"d", "d", "d", "d", "d", "d">>}

NoHeader ==
  /\ pc = "done" /\ size = 0 /\ pos = 0
  /\ version = 0 /\ isText = FALSE /\ class = "Other" /\ userData = 0 /\ count = 0
  /\ offset = 0 /\ slots = [s \in Sections |-> NoChunk] /\ table = <<>> /\ wrapped = FALSE
  /\ toParse = <<>> /\ success = TRUE /\ dataAt = 0 /\ parsed = <<>>

NoIdentifiers ==
  /\ todo = <<>> /\ section = "none" /\ idVersion = 0 /\ index = 0
  /\ names = [i \in 1..ID_DIM |-> NoName]
  /\ uid = NoName /\ envi = NoName /\ tmx = FALSE /\ dedi = FALSE /\ tokens = <<>> /\ got = <<>>

NoReferences ==
  /\ file = [text |-> FALSE, compressed |-> TRUE, version5 |-> TRUE]
  /\ refPc = "done" /\ dwExtEntries = 0 /\ dwCount = 0 /\ resource = FALSE
  /\ dwNumSubFolders = 0 /\ dwIndex = 0 /\ stack = <<>> /\ result = 0 /\ announced = 0
  /\ output = [index |-> 0, text |-> <<>>, path |-> <<>>]

NoText ==
  /\ text = <<>> /\ written = <<>> /\ textPc = "done" /\ lpszOriginal = <<>> /\ lpszOrigPtr = 1
  /\ lpszReturn = <<>> /\ cchRetLen = 0 /\ held = {} /\ lpszTemp = <<>> /\ bClean = FALSE
  /\ lpszOutput = <<"CR", "LF">>

NoPack ==
  /\ packPc = "done" /\ dwVersion = 0 /\ bPrivate = FALSE /\ packTodo = <<>> /\ lpData = {}
  /\ owned = [b \in Blocks |-> 0] /\ bRet = FALSE /\ printed = <<>>

ContentsInit ==
  \/ GbxInit /\ NoIdentifiers /\ NoReferences /\ NoText /\ NoPack
  \/ NoHeader /\ Init /\ NoReferences /\ NoText /\ NoPack
  \/ NoHeader /\ NoIdentifiers /\ RefInit /\ NoText /\ NoPack
  \/ NoHeader /\ NoIdentifiers /\ NoReferences /\ TextInit /\ NoPack
  \/ NoHeader /\ NoIdentifiers /\ NoReferences /\ NoText /\ PackInit
ContentsNext ==
  \/ GbxNext /\ UNCHANGED <<vars, refVars, textVars, packVars>>
  \/ Next /\ UNCHANGED <<gbxVars, refVars, textVars, packVars>>
  \/ RefNext /\ UNCHANGED <<gbxVars, vars, textVars, packVars>>
  \/ TextNext /\ UNCHANGED <<gbxVars, vars, refVars, packVars>>
  \/ PackNext /\ UNCHANGED <<gbxVars, vars, refVars, textVars>>
ContentsSpec ==
  ContentsInit /\ [][ContentsNext]_<<gbxVars, vars, refVars, textVars, packVars>>
=============================================================================
