------------------------------ MODULE MCAnswers ------------------------------
(***************************************************************************)
(* A query and the answers of its services, for TLC: OnlineQuery is about  *)
(* the requests and takes an answer as something that says the map is      *)
(* known or not; here it is composed with the two ways in which an answer  *)
(* is read, cut into lines and fields (TMX, Dedimania: AnswerLines) or     *)
(* node by node (Mania Exchange: MxAnswer).  A behaviour looks at one of   *)
(* them; the others stand still.                                           *)
(***************************************************************************)
EXTENDS MCOnlineQuery, MxAnswer

CONSTANT MaxAnswer

VARIABLES format, received, lpszData, linesPc, lpsz, lpszNewLine, uRecords, place, token,
          column, fields, noRecords

linesVars == <<format, received, lpszData, linesPc, lpsz, lpszNewLine, uRecords, place, token,
               column, fields, noRecords>>

Lines == INSTANCE AnswerLines
         WITH MaxLength <- MaxAnswer, pc <- linesPc, answer <- received, last <- place, i <- column

NoQuery ==
  /\ pc = "idle" /\ service = "tmx" /\ group = "Stadium" /\ button = FALSE /\ uid = "first"
  /\ chain = <<>> /\ endpoint = "TMU" /\ request = 1
  /\ success = TRUE /\ found = FALSE /\ notFound = FALSE
  /\ buffer = FALSE /\ session = FALSE /\ file = FALSE /\ total = 0 /\ length = 0
  /\ told = Unasked /\ urls = {} /\ failed = FALSE

NoLines ==
  /\ format = "track" /\ received = <<Lines!Sep>> /\ lpszData = <<Lines!Sep, Lines!Nul>>
  /\ linesPc = "unused" /\ lpsz = 1 /\ lpszNewLine = Lines!NULL /\ uRecords = 0
  /\ place = Lines!NULL /\ token = Lines!NULL /\ column = 0 /\ fields = {} /\ noRecords = FALSE

NoMx ==
  /\ mxPc = "unused" /\ held = {} /\ hr = "none" /\ open = <<>> /\ leaf = FALSE
  /\ rank = 0 /\ record = 0 /\ lastSent = NeverSent /\ arrayType = "none" /\ wszElement = <<"", FALSE>>
  /\ field = [f \in Kept |-> 0] /\ pnTrackId = 0 /\ idSent = 0
  /\ printed = NothingPrinted /\ labelled = NothingLabelled

AnswersInit == \/ Init /\ NoLines /\ NoMx
               \/ NoQuery /\ Lines!Init /\ NoMx
               \/ NoQuery /\ NoLines /\ MxInit
AnswersNext == \/ Next /\ UNCHANGED <<linesVars, mxVars>>
               \/ Lines!Next /\ UNCHANGED <<vars, mxVars>>
               \/ MxNext /\ UNCHANGED <<vars, linesVars>>
AnswersSpec == AnswersInit /\ [][AnswersNext]_<<vars, linesVars, mxVars>> /\ WF_vars(Program)

(* Answers are cut into their fields (AnswerLines!FieldsAsSplit).           *)
FieldsAsSplit == Lines!FieldsAsSplit
=============================================================================
