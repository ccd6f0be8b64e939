------------------------------ MODULE MxAnswer ------------------------------
(***************************************************************************)
(* How an answer of Mania Exchange is read: ParseAndOutputXml asks XmlLite *)
(* for one node after the other and prints as it goes.  What belongs to a  *)
(* record is kept in locals until its end tag; none of them is cleared     *)
(* between records.  The memory of the answer belongs to RequestMxData,    *)
(* the stream over it and the reader to the function itself.               *)
(*                                                                         *)
(* The answer is what XmlLite can deliver: a prefix of a well-formed tree, *)
(* cut off anywhere -- by the size of the buffer (ReadInternetFile), by an *)
(* error in it, or at its end.  A text is represented by the number of the *)
(* record it stands in.                                                    *)
(***************************************************************************)
EXTENDS Naturals, Sequences, SequencesExt

CONSTANTS
  Arrays,     \* the kinds of records in the answer
  MaxRecords  \* bound: records in an answer

(* The texts of a record, in the order in which Mania Exchange writes them. *)
(* Any of them may be missing.  "Name" stands for all other elements.       *)
Contents(array) ==
  CASE array = "TrackInfo"   -> <<"MapID", "Comments", "Name">>
    [] array = "TrackObject" -> <<"ObjectPath", "ObjectAuthor", "Username">>
    [] array = "Replay"      -> <<"Username", "ReplayTime", "StuntScore", "Position">>
    [] array = "Item"        -> <<"Name">>

Kept  == {"ObjectPath", "ObjectAuthor", "Username", "ReplayTime", "StuntScore", "Position"}
Names == Kept \cup {"MapID", "Comments", "Name"} \cup Arrays

VARIABLES
  mxPc,       \* "stream", "reader", "property", "input", "read", "done", "freed"
  held,       \* of "memory", "stream" and "reader", what is not yet released
  hr,         \* "none", "failed", "ok"
  open,       \* the elements whose end tags are still to come, below the root
  leaf,       \* may a text come next? (there is no mixed content)
  rank,       \* place of the last element in its record
  record,     \* number of records that were begun
  lastSent,   \* history: the last record with each of the texts that are kept
  arrayType,
  wszElement, \* the name kept in the local, and has ":" been appended to it?
  field,      \* the locals that wait for the end tag: whose text each holds
  pnTrackId,  \* whose MapID the caller's variable holds, 0 for none
  idSent,     \* history: the last record with a MapID
  printed,    \* history: the last record that was printed
  labelled    \* history: the last text printed at once, with its label

resources == <<mxPc, held, hr>>
answer    == <<open, leaf, rank, record>>
output    == <<field, pnTrackId, printed, labelled>>
mxVars    == <<resources, answer, lastSent, arrayType, wszElement, output, idSent>>

NeverSent       == [f \in Kept |-> 0]
NothingPrinted  == [array |-> "none", record |-> 0, lastSent |-> NeverSent, field |-> NeverSent]
NothingLabelled == [label |-> "none", element |-> "none"]

MxInit ==
  /\ mxPc = "stream" /\ held = {"memory"} /\ hr = "none"
  /\ open = <<>> /\ leaf = FALSE /\ rank = 0 /\ record = 0
  /\ lastSent = NeverSent /\ arrayType = "none" /\ wszElement = <<"", FALSE>>
  /\ field = [f \in Kept |-> 0]
  /\ pnTrackId = 0 /\ idSent = 0
  /\ printed = NothingPrinted /\ labelled = NothingLabelled

-----------------------------------------------------------------------------
(* The label CleanUp: the reader is detached and released, then the stream. *)
(* (Mutant: after a failure only the reader is released.)                   *)
CleanUpReaderOnly(result) ==
  /\ mxPc' = "done" /\ hr' = result
  /\ held' = IF result = "ok" THEN held \ {"reader", "stream"} ELSE held \ {"reader"}

CleanUp(result) ==
  /\ mxPc' = "done" /\ hr' = result
  /\ held' = held \ {"reader", "stream"}

(* CreateStreamOnHGlobal and CreateXmlReader create, SetProperty and        *)
(* SetInput prepare; each may fail.                                         *)
Prepare(from, to, created) ==
  /\ mxPc = from
  /\ \/ mxPc' = to /\ held' = held \cup created /\ UNCHANGED hr
     \/ CleanUp("failed")
  /\ UNCHANGED <<answer, lastSent, arrayType, wszElement, output, idSent>>

CreateStream    == Prepare("stream", "reader", {"stream"})
CreateXmlReader == Prepare("reader", "property", {"reader"})
SetProperty     == Prepare("property", "input", {})
SetInput        == Prepare("input", "read", {})

-----------------------------------------------------------------------------
(* What XmlLite delivers next: the start of a record, of one of its texts   *)
(* or of another element between the records; an element without content    *)
(* has no end tag.                                                          *)
InRecord == open # <<>> /\ Last(open) \in Arrays

Starts(name) ==
  \/ /\ open = <<>> /\ name \in Arrays /\ record < MaxRecords
     /\ rank' = 0 /\ record' = record + 1
  \/ /\ open = <<>> /\ name = "Name"
     /\ UNCHANGED <<rank, record>>
  \/ /\ InRecord
     /\ \E k \in DOMAIN Contents(Last(open)) :
          /\ k > rank /\ name = Contents(Last(open))[k]
          /\ rank' = k
     /\ UNCHANGED record

Opens(name) ==
  \/ open' = Append(open, name) /\ leaf' = (name \notin Arrays)
  \/ leaf' = FALSE /\ UNCHANGED open

(* XmlNodeType_Element.                                                     *)
(* (Mutant: only the names of arrays are kept.)                             *)
ReadElementOfArray(name) ==
  /\ mxPc = "read"
  /\ Starts(name) /\ Opens(name)
  /\ arrayType' = IF name \in Arrays THEN name ELSE arrayType
  /\ wszElement' = IF name \in Arrays THEN <<name, FALSE>> ELSE wszElement
  /\ UNCHANGED <<resources, lastSent, output, idSent>>

ReadElement(name) ==
  /\ mxPc = "read"
  /\ Starts(name) /\ Opens(name)
  /\ arrayType' = IF name \in Arrays THEN name ELSE arrayType
  /\ wszElement' = IF arrayType' # "none" THEN <<name, FALSE>> ELSE wszElement
  /\ UNCHANGED <<resources, lastSent, output, idSent>>

(* A text inside an array is printed at once (TrackInfo, but the comments;  *)
(* Item) or kept for the end tag.                                           *)
Element(name) == wszElement = <<name, FALSE>>

PrintText ==
  /\ labelled' = [label |-> wszElement[1], element |-> Last(open)]
  /\ wszElement' = <<wszElement[1], TRUE>>
  /\ UNCHANGED <<field, printed>>

(* Mutant: the user name of the record before is not forgotten.             *)
KeepTextOnly(f) == field' = [field EXCEPT ![f] = record]
KeepText(f) ==
  field' = [field EXCEPT ![f] = record,
                         !["Username"] = IF f = "ObjectAuthor" THEN 0
                                         ELSE IF f = "Username" THEN record ELSE @]

KeptFor(array) == CASE array = "TrackObject" -> {"ObjectPath", "ObjectAuthor", "Username"}
                    [] array = "Replay" -> {"Username", "ReplayTime", "StuntScore", "Position"}
                    [] OTHER -> {}

TextOf ==
  CASE arrayType = "TrackInfo" ->
         IF Element("Comments") THEN UNCHANGED <<wszElement, output>>
         ELSE /\ PrintText
              /\ pnTrackId' = IF Element("MapID") THEN record ELSE pnTrackId
    [] arrayType = "Item" -> PrintText /\ UNCHANGED pnTrackId
    [] OTHER ->
         /\ \/ \E f \in KeptFor(arrayType) : Element(f) /\ KeepText(f)
            \/ wszElement[1] \notin KeptFor(arrayType) /\ UNCHANGED field
         /\ UNCHANGED <<wszElement, pnTrackId, printed, labelled>>

(* XmlNodeType_Text.  A comment or a CDATA section, which are passed over,  *)
(* can divide a text into several.                                          *)
ReadText ==
  /\ mxPc = "read"
  /\ leaf /\ open # <<>>
  /\ lastSent' = [f \in Kept |-> IF f = Last(open) THEN record ELSE lastSent[f]]
  /\ idSent' = IF Last(open) = "MapID" THEN record ELSE idSent
  /\ TextOf
  /\ UNCHANGED <<resources, answer, arrayType>>

(* XmlNodeType_EndElement: a record of objects or replays is printed with   *)
(* what the locals hold.                                                    *)
ReadEndElement ==
  /\ mxPc = "read"
  /\ open # <<>>
  /\ open' = Front(open) /\ leaf' = FALSE
  /\ arrayType' = IF Last(open) \in Arrays THEN "none" ELSE arrayType
  /\ printed' = IF Last(open) \in {"TrackObject", "Replay"}
                THEN [array |-> Last(open), record |-> record, lastSent |-> lastSent,
                      field |-> field]
                ELSE printed
  /\ UNCHANGED <<resources, rank, record, lastSent, wszElement, field, pnTrackId, labelled,
                 idSent>>

(* GetLocalName or GetValue fails.                                          *)
NodeFails ==
  /\ mxPc = "read"
  /\ CleanUp("failed")
  /\ UNCHANGED <<answer, lastSent, arrayType, wszElement, output, idSent>>

(* Read has no further node: the answer is at its end, cut off or broken.   *)
(* "hr = S_OK" makes no difference between them.                            *)
ReadStops ==
  /\ mxPc = "read"
  /\ CleanUp("ok")
  /\ UNCHANGED <<answer, lastSent, arrayType, wszElement, output, idSent>>

(* RequestMxData frees the answer, whatever came of it.                     *)
FreeAnswer ==
  /\ mxPc = "done"
  /\ mxPc' = "freed" /\ held' = held \ {"memory"}
  /\ UNCHANGED <<hr, answer, lastSent, arrayType, wszElement, output, idSent>>

MxNext ==
  \/ CreateStream \/ CreateXmlReader \/ SetProperty \/ SetInput
  \/ \E name \in Names : ReadElement(name)
  \/ ReadText \/ ReadEndElement
  \/ NodeFails \/ ReadStops \/ FreeAnswer

MxSpec == MxInit /\ [][MxNext]_mxVars

-----------------------------------------------------------------------------
(* What a text is printed as: the one sent last, but an author takes the    *)
(* user's name away.                                                        *)
Latest(f, sentAt) ==
  IF f = "Username" /\ sentAt["Username"] < sentAt["ObjectAuthor"] THEN 0 ELSE sentAt[f]

(* A record of objects or replays is printed, wherever the answer breaks    *)
(* off, with the text of each kind that was sent last.  So a text that the  *)
(* record has is never that of another one, and an object that has an       *)
(* author but no user's name is not credited to the user of an earlier      *)
(* record.  But a text that a record lacks is printed as that of the last   *)
(* record that had one: see UserIsOwn.                                      *)
RecordsAsSent ==
  \A f \in KeptFor(printed.array) : printed.field[f] = Latest(f, printed.lastSent)

(* "Username element can be empty or missing": a record without a user's    *)
(* name is not printed with the name of an earlier record's user.           *)
UserIsOwn == printed.field["Username"] \in {0, printed.record}

(* A text printed at once stands under the name of the element that it is   *)
(* in, comments are not printed, and the caller gets the last identifier    *)
(* that was sent -- although the name is kept in a local that is written,   *)
(* appended to and compared in three different nodes.                       *)
TextsAsLabelled ==
  /\ labelled.label = labelled.element
  /\ labelled.element # "Comments"
  /\ pnTrackId = idSent

(* Both hold wherever the answer breaks off: every text is printed under    *)
(* its own name, and for its own record if that has one.                    *)
PrintedAsSent == RecordsAsSent /\ TextsAsLabelled

(* Whatever fails, the stream never outlives the memory it reads from, the  *)
(* reader never outlives the stream, and at the end all are released.       *)
AnswerReleased ==
  /\ "stream" \in held => "memory" \in held
  /\ "reader" \in held => "stream" \in held
  /\ mxPc = "freed" => held = {}
=============================================================================
