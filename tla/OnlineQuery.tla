---------------------------- MODULE OnlineQuery ----------------------------
(***************************************************************************)
(* One online query: DumpTmx asks the exchanges that may know a track, the *)
(* newest first, and DumpDedimania one or two record systems.  Every       *)
(* question is a sequence of requests; every request owns a buffer, a      *)
(* WinINet session and a file handle, and every step of it can fail.       *)
(*                                                                         *)
(* The callers pass s_szUid itself, not a copy of it.  While WinINet asks  *)
(* whether to go online, a dropped file is dumped (Viewer) and rewrites    *)
(* that buffer under the query.                                            *)
(*                                                                         *)
(* An answer is only text: ReadInternetFile does not look at the status of *)
(* a response, and the parsers take what they do not recognise for "not    *)
(* known".  Two switches say what answers the environment gives.           *)
(***************************************************************************)
EXTENDS Naturals, Sequences, FiniteSets

CONSTANTS
  Groups,     \* the groups of environments to look at, see Exchanges
  Capacity,   \* bound: chunks of data a buffer holds besides its final NUL
  MaxLength,  \* bound: chunks of data in an answer
  MayNest,    \* can a file be dumped while WinINet's prompt is open?
  ErrorPages, \* may a server answer with something else than it was asked?
  XmlBreaks   \* may an answer in XML break off before its identifier?

ASSUME BoundsAssumption == Capacity \in Nat \ {0} /\ MaxLength \in Nat
ASSUME SwitchAssumption ==
  MayNest \in BOOLEAN /\ ErrorPages \in BOOLEAN /\ XmlBreaks \in BOOLEAN

-----------------------------------------------------------------------------
(* The chains of endpoints.  Groups of environments are named after the     *)
(* game they come from; "Original" are the five of the first TrackMania.    *)
AllGroups == {"Stadium", "Maniaplanet", "Shootmania", "Questmania", "Sunrise", "Original"}

ASSUME GroupsAssumption == Groups \subseteq AllGroups

Exchanges(group) ==
  CASE group = "Maniaplanet" -> <<"TM2">>
    [] group = "Shootmania"  -> <<"SM">>
    [] group = "Questmania"  -> <<"QM">>
    [] group = "Stadium"     -> <<"TM2020", "TM2", "TMNF", "TMU", "TMN">>
    [] group = "Sunrise"     -> <<"TMU", "TMS">>
    [] group = "Original"    -> <<"TMU", "TMO">>

RecordSystems(group) ==
  CASE group = "Stadium"                 -> <<"DediMP", "DediTM1">>
    [] group \in {"Sunrise", "Original"} -> <<"DediTM1">>
    [] OTHER                             -> <<"DediMP">>

Chain(service, group) ==
  IF service = "tmx" THEN Exchanges(group) ELSE RecordSystems(group)

(* The button IDC_DEDIMANIA is not enabled for the others.                  *)
DediGroups == AllGroups \ {"Shootmania", "Questmania"}

Tmx  == {"TMNF", "TMU", "TMN", "TMS", "TMO"}
Mx   == {"TM2020", "TM2", "SM", "QM"}
Dedi == {"DediMP", "DediTM1"}
Endpoints == Tmx \cup Mx \cup Dedi

(* Track data, then objects or awards, then the records.                    *)
Requests(endpoint) == IF endpoint \in Dedi THEN 1
                      ELSE IF endpoint \in {"SM", "QM"} THEN 2 ELSE 3

Uids == {"first", "dropped"}

VARIABLES
  pc,         \* where the thread is
  service,    \* "tmx" or "dedi"
  group,      \* the group the track's environment is in
  button,     \* is the service's button enabled?
  uid,        \* the track whose UID s_szUid holds
  chain,      \* the endpoints that have not been asked
  endpoint,   \* the endpoint being asked
  request,    \* which of its requests is being made
  success,    \* bSuccess
  found,      \* bTrackFound
  notFound,   \* has "track not found" been printed?
  buffer,     \* is the answer's buffer allocated?
  session,    \* is the WinINet session open?
  file,       \* is the answer's file handle open?
  total,      \* chunks read (dwReadTotal)
  length,     \* chunks in the answer
  told,       \* history: what each endpoint has answered, see Sayings
  urls,       \* history: the UIDs that have been put into requests
  failed      \* history: has a request failed?

handles == <<buffer, session, file>>
reading == <<total, length>>
outcome == <<success, found, notFound>>
history == <<told, urls, failed>>
track   == <<service, group, uid>>
vars == <<pc, track, button, chain, endpoint, request, outcome, handles, reading, history>>

(* "error": a page about an error, taken for an unknown track; "mistaken":  *)
(* one taken for track data; "unread": track data without an identifier.    *)
Sayings == {"nothing", "unknown", "known", "failed", "error", "mistaken", "unread"}

Unasked == [e \in Endpoints |-> "nothing"]

Init ==
  /\ pc = "idle"
  /\ group \in Groups
  /\ service \in IF group \in DediGroups THEN {"tmx", "dedi"} ELSE {"tmx"}
  /\ button = TRUE /\ uid = "first"
  /\ chain = <<>> /\ endpoint = "TMU" /\ request = 1
  /\ success = TRUE /\ found = FALSE /\ notFound = FALSE
  /\ buffer = FALSE /\ session = FALSE /\ file = FALSE
  /\ total = 0 /\ length = 0
  /\ told = Unasked /\ urls = {} /\ failed = FALSE

-----------------------------------------------------------------------------
(* IDC_TMX and IDC_DEDIMANIA.                                               *)
(* (Mutant: the click does not disable the button.)                         *)
ClickKeepingButton ==
  /\ pc = "idle" /\ button
  /\ pc' = "choose" /\ UNCHANGED button
  /\ chain' = Chain(service, group)
  /\ success' = TRUE /\ found' = FALSE /\ notFound' = FALSE
  /\ told' = Unasked /\ urls' = {} /\ failed' = FALSE
  /\ UNCHANGED <<track, endpoint, request, handles, reading>>

Click ==
  /\ pc = "idle" /\ button
  /\ pc' = "choose" /\ button' = FALSE
  /\ chain' = Chain(service, group)
  /\ success' = TRUE /\ found' = FALSE /\ notFound' = FALSE
  /\ told' = Unasked /\ urls' = {} /\ failed' = FALSE
  /\ UNCHANGED <<track, endpoint, request, handles, reading>>

(* Mutants: a track is looked for although it was found, or although the    *)
(* last request failed.                                                     *)
WantedThoughFound == chain # <<>> /\ success
WantedThoughFailed == chain # <<>> /\ ~found

(* The next endpoint is asked when all before it answered that they do not  *)
(* know the track.                                                          *)
Wanted == chain # <<>> /\ success /\ ~found

AskEndpoint ==
  /\ pc = "choose" /\ Wanted
  /\ pc' = "allocate"
  /\ endpoint' = Head(chain) /\ chain' = Tail(chain) /\ request' = 1
  /\ found' = FALSE
  /\ urls' = urls \cup {uid}
  /\ UNCHANGED <<track, button, success, notFound, handles, reading, told, failed>>

(* Mutant: a failed query keeps its button.                                 *)
FinishKeepingButton ==
  /\ pc = "choose" /\ ~Wanted
  /\ pc' = "idle"
  /\ notFound' = (success /\ ~found)
  /\ UNCHANGED <<button, track, chain, endpoint, request, success, found, handles, reading,
                 history>>

Finish ==
  /\ pc = "choose" /\ ~Wanted
  /\ pc' = "idle"
  /\ notFound' = (success /\ ~found)
  /\ button' = (button \/ ~success)
  /\ UNCHANGED <<track, chain, endpoint, request, success, found, handles, reading, history>>

-----------------------------------------------------------------------------
(* The endpoint's function returns, with the buffer freed.  DumpTmx drops   *)
(* the result of the last exchange of the "Original" group.                 *)
ReturnTrue ==
  /\ pc' = "choose"
  /\ buffer' = FALSE
  /\ UNCHANGED <<success, failed>>

(* Mutant: the buffer is not freed when a request fails.                    *)
ReturnFalseKeepingBuffer ==
  /\ pc' = "choose"
  /\ session' = FALSE /\ file' = FALSE
  /\ success' = (endpoint = "TMO")
  /\ failed' = TRUE
  /\ told' = IF request = 1 THEN [told EXCEPT ![endpoint] = "failed"] ELSE told
  /\ UNCHANGED <<track, button, chain, endpoint, request, found, notFound, buffer, reading,
                 urls>>

ReturnFalse ==
  /\ pc' = "choose"
  /\ buffer' = FALSE /\ session' = FALSE /\ file' = FALSE
  /\ success' = (endpoint = "TMO")
  /\ failed' = TRUE
  /\ told' = IF request = 1 THEN [told EXCEPT ![endpoint] = "failed"] ELSE told
  /\ UNCHANGED <<track, button, chain, endpoint, request, found, notFound, reading, urls>>

Allocate ==
  /\ pc = "allocate"
  /\ pc' = "session" /\ buffer' = TRUE
  /\ UNCHANGED <<track, button, chain, endpoint, request, outcome, session, file,
                 reading, history>>

OutOfMemory == pc = "allocate" /\ ReturnFalse

(* ReadInternetFile.                                                        *)
OpenSession ==
  /\ pc = "session"
  /\ pc' = "url" /\ session' = TRUE
  /\ UNCHANGED <<track, button, chain, endpoint, request, outcome, buffer, file,
                 reading, history>>

NoSession == pc = "session" /\ ReturnFalse

OpenUrl ==
  /\ pc \in {"url", "retry"}
  /\ pc' = "read" /\ file' = TRUE
  /\ total' = 0 /\ length' \in 0..MaxLength
  /\ UNCHANGED <<track, button, chain, endpoint, request, outcome, buffer, session, history>>

(* The connection fails although the user is online, or fails again.        *)
UrlFails == pc \in {"url", "retry"} /\ ReturnFalse

(* InternetGoOnline asks the user.  A file dumped meanwhile writes s_szUid   *)
(* and sets the button by its own environment.                              *)
FindOffline ==
  /\ pc = "url"
  /\ pc' = "prompt"
  /\ UNCHANGED <<track, button, chain, endpoint, request, outcome, handles, reading, history>>

DropDumped ==
  /\ pc = "prompt" /\ MayNest
  /\ uid' = "dropped" /\ button' \in BOOLEAN
  /\ UNCHANGED <<pc, service, group, chain, endpoint, request, outcome, handles,
                 reading, history>>

GoOnline ==
  /\ pc = "prompt"
  /\ pc' = "retry"
  /\ UNCHANGED <<track, button, chain, endpoint, request, outcome, handles, reading, history>>

StayOffline == pc = "prompt" /\ ReturnFalse

(* InternetReadFile returns at most what the buffer still has room for, one *)
(* place kept for the NUL, and nothing when there is no room or no data.    *)
Room == IF length < Capacity THEN length - total ELSE Capacity - total

ReadSome ==
  /\ pc = "read"
  /\ \E n \in 1..Room : total' = total + n
  /\ UNCHANGED <<pc, track, button, chain, endpoint, request, outcome, handles, length,
                 history>>

ReadEnds ==
  /\ pc = "read" /\ Room = 0
  /\ pc' = "parse" /\ file' = FALSE /\ session' = FALSE
  /\ UNCHANGED <<track, button, chain, endpoint, request, outcome, buffer, reading, history>>

ReadFails == pc = "read" /\ ReturnFalse

-----------------------------------------------------------------------------
(* What the answer says.  An empty one has no separator in it.              *)
parseFrame == <<track, button, chain, endpoint, notFound, session, file, reading, urls>>

Says(what) == told' = [told EXCEPT ![endpoint] = what]

(* Mutant: the same request is made again.                                  *)
NextRequestAgain ==
  /\ request < Requests(endpoint)
  /\ IF endpoint \in Tmx THEN pc' = "session" /\ UNCHANGED buffer
                         ELSE pc' = "allocate" /\ buffer' = FALSE
  /\ UNCHANGED <<request, success, failed>>

(* The next request about a known track: a TMX buffer is used again, an MX  *)
(* buffer belongs to its request.                                           *)
NextRequest ==
  /\ request < Requests(endpoint)
  /\ request' = request + 1
  /\ IF endpoint \in Tmx THEN pc' = "session" /\ UNCHANGED buffer
                         ELSE pc' = "allocate" /\ buffer' = FALSE
  /\ UNCHANGED <<success, failed>>

LastRequest == request = Requests(endpoint) /\ ReturnTrue /\ UNCHANGED request

(* No track data in the answer: the service does not know the track, or it  *)
(* is a page about an error.                                                *)
NoTrackData ==
  /\ pc = "parse" /\ request = 1
  /\ ReturnTrue
  /\ Says("unknown") \/ (ErrorPages /\ Says("error"))
  /\ UNCHANGED <<found, request, parseFrame>>

(* All that TMX and Dedimania data needs is a separator somewhere in it.    *)
TrackData ==
  /\ total > 0 /\ found' = TRUE
  /\ Says("known") \/ (ErrorPages /\ endpoint \notin Mx /\ Says("mistaken"))

TrackKnown ==
  /\ pc = "parse" /\ request = 1
  /\ TrackData
  /\ NextRequest \/ LastRequest
  /\ UNCHANGED parseFrame

(* TMX has data of the track but no identifier to go on with.               *)
TrackWithoutId ==
  /\ pc = "parse" /\ request = 1 /\ endpoint \in Tmx
  /\ TrackData
  /\ ReturnTrue
  /\ UNCHANGED <<request, parseFrame>>

(* RequestMxData lets an answer pass as valid data for the mere text        *)
(* <TrackInfo, <SmMapInfo or <QmMapInfo in it.  ParseAndOutputXml reads the *)
(* identifier inside <TrackInfo only, and if XmlLite stops before it, that  *)
(* is no failure either: the identifier stays 0.                            *)
IdNotRead ==
  /\ pc = "parse" /\ request = 1 /\ total > 0 /\ endpoint \in Mx
  /\ endpoint \in {"SM", "QM"} \/ XmlBreaks
  /\ Says("unread")
  /\ ReturnTrue
  /\ UNCHANGED <<found, request, parseFrame>>

(* XmlLite cannot be set up.                                                *)
XmlFails == pc = "parse" /\ total > 0 /\ endpoint \in Mx /\ ReturnFalse

(* Awards, objects and records.  Without valid data TMX is done, MX goes on.*)
ParseMore ==
  /\ pc = "parse" /\ request > 1
  /\ \/ (total > 0 \/ endpoint \in Mx) /\ (NextRequest \/ LastRequest)
     \/ endpoint \in Tmx /\ ReturnTrue /\ UNCHANGED request
  /\ UNCHANGED <<found, told, parseFrame>>

-----------------------------------------------------------------------------
User == Click \/ DropDumped \/ GoOnline \/ StayOffline

Program ==
  \/ AskEndpoint \/ Finish
  \/ Allocate \/ OutOfMemory
  \/ OpenSession \/ NoSession \/ OpenUrl \/ UrlFails \/ FindOffline
  \/ ReadSome \/ ReadEnds \/ ReadFails
  \/ NoTrackData \/ TrackKnown \/ TrackWithoutId \/ IdNotRead
  \/ XmlFails \/ ParseMore

Next == User \/ Program

Spec == Init /\ [][Next]_vars

(* WinINet's connect and receive timeouts end every call; nothing is        *)
(* assumed of the user.                                                     *)
FairSpec == Spec /\ WF_vars(Program)

-----------------------------------------------------------------------------
TypeOK ==
  /\ pc \in {"idle", "choose", "allocate", "session", "url", "prompt", "retry", "read",
             "parse"}
  /\ service \in {"tmx", "dedi"} /\ group \in Groups
  /\ button \in BOOLEAN /\ uid \in Uids
  /\ chain \in Seq(Endpoints) /\ endpoint \in Endpoints /\ request \in 1..3
  /\ success \in BOOLEAN /\ found \in BOOLEAN /\ notFound \in BOOLEAN
  /\ buffer \in BOOLEAN /\ session \in BOOLEAN /\ file \in BOOLEAN
  /\ total \in 0..Capacity /\ length \in 0..MaxLength
  /\ told \in [Endpoints -> Sayings]
  /\ urls \subseteq Uids /\ failed \in BOOLEAN

(* Whatever fails, every request gives back what it took: between two       *)
(* endpoints nothing is held, the connection is closed before the answer is *)
(* parsed, data is only ever read into a live buffer, and of this one place *)
(* is left for the NUL.                                                     *)
NothingLeaks ==
  /\ total <= Capacity
  /\ pc \in {"idle", "choose", "allocate"} => ~buffer /\ ~session /\ ~file
  /\ pc \in {"session", "parse"} => buffer /\ ~session /\ ~file
  /\ pc \in {"url", "prompt", "retry"} => buffer /\ session /\ ~file
  /\ pc = "read" => buffer /\ session /\ file

(* "Map not found" is printed only when every endpoint that may know the    *)
(* track has answered that it does not.                                     *)
Members(s) == {s[i] : i \in DOMAIN s}
NotFoundIsTruthful ==
  notFound => \A e \in Members(Chain(service, group)) : told[e] = "unknown"

(* An endpoint that has answered, without failure and without data that was *)
(* taken for the track: it does not know it, or one of the three cases has  *)
(* happened in which the program cannot tell that from an answer it did not *)
(* understand.                                                              *)
TakenForUnknown(what, e) ==
  \/ what = "unknown"
  \/ ErrorPages /\ what = "error"
  \/ what = "unread" /\ (e \in {"SM", "QM"} \/ (XmlBreaks /\ e \in Mx))

(* "Not found" is printed only when every endpoint that may know the track  *)
(* has been asked and has answered, and nothing in the answers was taken    *)
(* for the track: no request failed, none was left out.  With servers that  *)
(* answer what they are asked in full, this is NotFoundIsTruthful for all   *)
(* groups but Shootmania and Questmania; otherwise "not found" also stands  *)
(* for an error page and for data that breaks off.  (The last failure of    *)
(* the "Original" group is not noticed.)                                    *)
NotFoundOnlyAfterAnswers ==
  ~(service = "tmx" /\ group = "Original") /\ notFound
    => \A e \in Members(Chain(service, group)) : TakenForUnknown(told[e], e)

(* An older endpoint is asked only after each newer one has answered and    *)
(* nothing in the answer was taken for the track; not after a request that  *)
(* failed, and not about a track that a newer one has been found to know.   *)
NewestFirst ==
  LET c == Chain(service, group)
  IN  \A i, j \in DOMAIN c :
        i < j /\ told[c[j]] # "nothing" => TakenForUnknown(told[c[i]], c[i])

(* A query gives its button back exactly when one of its requests failed,   *)
(* and then "not found" is not printed as well (but for the "Original"      *)
(* group, where the last failure is not noticed; and a file dumped inside   *)
(* the query sets the button for itself).                                   *)
FailureGivesButtonBack ==
  (/\ pc = "idle" /\ told # Unasked /\ uid = "first"
   /\ ~(service = "tmx" /\ group = "Original"))
  => (button <=> failed) /\ ~(failed /\ notFound)

(* "... information for a specific map": all requests of a query name one   *)
(* UID.                                                                     *)
OneMapPerQuery == Cardinality(urls) <= 1

(* A query comes to an end, or waits for the user in the prompt.            *)
QueryEnds == [](pc # "idle" => <>(pc \in {"idle", "prompt"}))

(* In the dialog a query is one handler, which asks or waits in WinINet's   *)
(* prompt: the mapping to Viewer, for a dialog that does nothing else.      *)
Dialog == INSTANCE Viewer WITH
  MAX_FILES <- 1, MaxDrop <- 0, MaxDumps <- 0, MaxPosted <- 0, MaxDepth <- 1,
  mode <- "running", queue <- <<>>, offered <- 0, bAboutBox <- FALSE,
  depth <- IF pc = "idle" THEN 0 ELSE 1,
  stack <- [i \in 1..1 |->
              [kind |-> IF pc = "idle" THEN "none" ELSE service,
               pc   |-> CASE pc = "idle"   -> "idle"
                          [] pc = "prompt" -> "prompt"
                          [] OTHER         -> "ask",
               left |-> 0, dump |-> 0, media |-> "plain"]],
  latest <- IF uid = "first" THEN 1 ELSE 2,
  uidOf  <- IF uid = "first" THEN 1 ELSE 2,
  enviOf <- IF uid = "first" THEN 1 ELSE 2,
  envi <- "Stadium", tmx <- service = "tmx" /\ button, dedi <- service = "dedi" /\ button,
  thumbOf <- 0, bitmapOf <- 0, titleOf <- 0, jmpOf <- 0, boxed <- FALSE,
  overtaken <- uid # "first"

(* Many steps of Viewer: a batch runs to its end inside the prompt.         *)
BatchInPrompt == Dialog!At("prompt") /\ UNCHANGED Dialog!frameVars

(* Whatever its requests do, for the dialog a query is what Viewer says: a  *)
(* click spends the button, only the prompt lets anything else happen, and  *)
(* the handler returns once, with the button as it is or given back.        *)
QueryAsInDialog == [][Dialog!Next \/ BatchInPrompt]_Dialog!vars
=============================================================================
