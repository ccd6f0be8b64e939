--------------------------- MODULE AnswersProofs ---------------------------
(***************************************************************************)
(* Proofs about a query and its answers.  OnlineQuery, for every set of    *)
(* groups, every size of the buffer and of the answers, with or without    *)
(* nested dumps, error pages and answers that break off: its types, its resources (NothingLeaks), and what *)
(* it may conclude from the answers (NewestFirst,                          *)
(* NotFoundOnlyAfterAnswers, FailureGivesButtonBack).  MxAnswer, for any   *)
(* number of records of whatever kinds: an answer is printed as it was     *)
(* sent, wherever it breaks off, and nothing that was created for it is    *)
(* left.  AnswerLines, for answers of any length: the services' lines are  *)
(* cut into exactly their fields.                                          *)
(***************************************************************************)
EXTENDS MCAnswers, Induction, Integers, SequenceTheorems, FiniteSetTheorems, TLAPS

-----------------------------------------------------------------------------
(* The chains of endpoints.                                                 *)
Asking == pc \notin {"idle", "choose"}

OriginalTmx == service = "tmx" /\ group = "Original"

(* An endpoint is in a chain once, and the one whose failure is not noticed *)
(* is the last of the chain that NotFoundOnlyAfterAnswers excepts.          *)
LEMMA ChainFacts ==
  ASSUME NEW s \in {"tmx", "dedi"}, NEW g \in AllGroups
  PROVE  /\ Chain(s, g) \in Seq(Endpoints)
         /\ Len(Chain(s, g)) \in 1..5
         /\ \A i, j \in 1..Len(Chain(s, g)) : Chain(s, g)[i] = Chain(s, g)[j] => i = j
         /\ \A i \in 1..Len(Chain(s, g)) :
              Chain(s, g)[i] = "TMO" => i = Len(Chain(s, g)) /\ s = "tmx" /\ g = "Original"
<1>1. CASE s = "tmx"
  <2>1. Chain(s, g) = Exchanges(g)
    BY <1>1 DEF Chain
  <2>2. CASE g = "Maniaplanet"
    <3>1. Chain(s, g) = <<"TM2">>
      BY <2>1, <2>2 DEF Exchanges
    <3>2. Chain(s, g) \in Seq(Endpoints) /\ Len(Chain(s, g)) = 1
      BY <3>1 DEF Endpoints, Tmx, Mx, Dedi
    <3>3. /\ Chain(s, g)[1] = "TM2"
      BY <3>1
    <3> QED BY <1>1, <2>2, <3>2, <3>3
  <2>3. CASE g = "Shootmania"
    <3>1. Chain(s, g) = <<"SM">>
      BY <2>1, <2>3 DEF Exchanges
    <3>2. Chain(s, g) \in Seq(Endpoints) /\ Len(Chain(s, g)) = 1
      BY <3>1 DEF Endpoints, Tmx, Mx, Dedi
    <3>3. /\ Chain(s, g)[1] = "SM"
      BY <3>1
    <3> QED BY <1>1, <2>3, <3>2, <3>3
  <2>4. CASE g = "Questmania"
    <3>1. Chain(s, g) = <<"QM">>
      BY <2>1, <2>4 DEF Exchanges
    <3>2. Chain(s, g) \in Seq(Endpoints) /\ Len(Chain(s, g)) = 1
      BY <3>1 DEF Endpoints, Tmx, Mx, Dedi
    <3>3. /\ Chain(s, g)[1] = "QM"
      BY <3>1
    <3> QED BY <1>1, <2>4, <3>2, <3>3
  <2>5. CASE g = "Stadium"
    <3>1. Chain(s, g) = <<"TM2020", "TM2", "TMNF", "TMU", "TMN">>
      BY <2>1, <2>5 DEF Exchanges
    <3>2. Chain(s, g) \in Seq(Endpoints) /\ Len(Chain(s, g)) = 5
      BY <3>1 DEF Endpoints, Tmx, Mx, Dedi
    <3>3. /\ Chain(s, g)[1] = "TM2020"
          /\ Chain(s, g)[2] = "TM2"
          /\ Chain(s, g)[3] = "TMNF"
          /\ Chain(s, g)[4] = "TMU"
          /\ Chain(s, g)[5] = "TMN"
      BY <3>1
    <3> QED BY <1>1, <2>5, <3>2, <3>3
  <2>6. CASE g = "Sunrise"
    <3>1. Chain(s, g) = <<"TMU", "TMS">>
      BY <2>1, <2>6 DEF Exchanges
    <3>2. Chain(s, g) \in Seq(Endpoints) /\ Len(Chain(s, g)) = 2
      BY <3>1 DEF Endpoints, Tmx, Mx, Dedi
    <3>3. /\ Chain(s, g)[1] = "TMU"
          /\ Chain(s, g)[2] = "TMS"
      BY <3>1
    <3> QED BY <1>1, <2>6, <3>2, <3>3
  <2>7. CASE g = "Original"
    <3>1. Chain(s, g) = <<"TMU", "TMO">>
      BY <2>1, <2>7 DEF Exchanges
    <3>2. Chain(s, g) \in Seq(Endpoints) /\ Len(Chain(s, g)) = 2
      BY <3>1 DEF Endpoints, Tmx, Mx, Dedi
    <3>3. /\ Chain(s, g)[1] = "TMU"
          /\ Chain(s, g)[2] = "TMO"
      BY <3>1
    <3>4. \A i \in 1..Len(Chain(s, g)) : i = 1 \/ i = 2
      BY <3>2
    <3>5. \A i, j \in 1..Len(Chain(s, g)) : Chain(s, g)[i] = Chain(s, g)[j] => i = j
      BY <3>3, <3>4
    <3> QED BY <1>1, <2>7, <3>2, <3>3, <3>4, <3>5
  <2> QED BY <2>2, <2>3, <2>4, <2>5, <2>6, <2>7 DEF AllGroups
<1>2. CASE s = "dedi"
  <2>1. Chain(s, g) = RecordSystems(g)
    BY <1>2 DEF Chain
  <2>2. CASE g = "Stadium"
    <3>1. Chain(s, g) = <<"DediMP", "DediTM1">>
      BY <2>1, <2>2 DEF RecordSystems
    <3>2. Chain(s, g) \in Seq(Endpoints) /\ Len(Chain(s, g)) = 2
      BY <3>1 DEF Endpoints, Tmx, Mx, Dedi
    <3>3. /\ Chain(s, g)[1] = "DediMP"
          /\ Chain(s, g)[2] = "DediTM1"
      BY <3>1
    <3> QED BY <1>2, <2>2, <3>2, <3>3
  <2>3. CASE g \in {"Sunrise", "Original"}
    <3>1. Chain(s, g) = <<"DediTM1">>
      BY <2>1, <2>3 DEF RecordSystems
    <3>2. Chain(s, g) \in Seq(Endpoints) /\ Len(Chain(s, g)) = 1
      BY <3>1 DEF Endpoints, Tmx, Mx, Dedi
    <3>3. /\ Chain(s, g)[1] = "DediTM1"
      BY <3>1
    <3> QED BY <1>2, <2>3, <3>2, <3>3
  <2>4. CASE g \notin {"Stadium", "Sunrise", "Original"}
    <3>1. Chain(s, g) = <<"DediMP">>
      BY <2>1, <2>4 DEF RecordSystems
    <3>2. Chain(s, g) \in Seq(Endpoints) /\ Len(Chain(s, g)) = 1
      BY <3>1 DEF Endpoints, Tmx, Mx, Dedi
    <3>3. /\ Chain(s, g)[1] = "DediMP"
      BY <3>1
    <3> QED BY <1>2, <2>4, <3>2, <3>3
  <2> QED BY <2>2, <2>3, <2>4
<1> QED BY <1>1, <1>2

-----------------------------------------------------------------------------
(* Types.                                                                   *)
LEMMA TypeInit == Init => TypeOK
<1> SUFFICES ASSUME Init PROVE TypeOK
  OBVIOUS
<1>1. service \in {"tmx", "dedi"} /\ group \in Groups
  BY DEF Init
<1>2. told \in [Endpoints -> Sayings]
  BY DEF Init, Unasked, Sayings
<1>3. chain \in Seq(Endpoints) /\ request \in 1..3
  BY DEF Init
<1>4. endpoint \in Endpoints
  BY DEF Init, Endpoints, Tmx
<1>5. total \in 0..Capacity /\ length \in 0..MaxLength
  BY BoundsAssumption DEF Init
<1>6. /\ success \in BOOLEAN /\ found \in BOOLEAN /\ notFound \in BOOLEAN
      /\ buffer \in BOOLEAN /\ session \in BOOLEAN /\ file \in BOOLEAN
      /\ button \in BOOLEAN /\ uid \in Uids /\ urls \subseteq Uids /\ failed \in BOOLEAN
  BY DEF Init, Uids
<1>7. pc = "idle"
  BY DEF Init
<1> QED BY <1>1, <1>2, <1>3, <1>4, <1>5, <1>6, <1>7 DEF TypeOK

LEMMA SaysType ==
  ASSUME TypeOK, NEW what \in Sayings, told' = [told EXCEPT ![endpoint] = what]
  PROVE  told' \in [Endpoints -> Sayings]
BY DEF TypeOK, Sayings

LEMMA ReturnFalseType ==
  ASSUME TypeOK, ReturnFalse
  PROVE  TypeOK'
<1>1. told' \in [Endpoints -> Sayings]
  <2>1. CASE request = 1
    BY <2>1, SaysType DEF ReturnFalse, Sayings
  <2>2. CASE request # 1
    BY <2>2 DEF ReturnFalse, TypeOK, Sayings
  <2> QED BY <2>1, <2>2
<1>2. success' \in BOOLEAN /\ failed' \in BOOLEAN
  BY DEF ReturnFalse
<1>3. buffer' \in BOOLEAN /\ session' \in BOOLEAN /\ file' \in BOOLEAN
  BY DEF ReturnFalse
<1>4. pc' = "choose"
  BY DEF ReturnFalse
<1> QED BY <1>1, <1>2, <1>3, <1>4 DEF TypeOK, ReturnFalse, track, reading, Sayings

(* How the parser goes on: with the next request, or back to the chain.     *)
LEMMA GoOnType ==
  ASSUME TypeOK, pc = "parse", NextRequest \/ LastRequest
  PROVE  /\ pc' \in {"session", "allocate", "choose"} /\ request' \in 1..3
         /\ buffer' \in BOOLEAN
         /\ success' = success /\ failed' = failed
<1>1. CASE NextRequest
  <2>1. Requests(endpoint) \in 1..3
    BY DEF Requests
  <2>2. request' \in 1..3
    BY <1>1, <2>1 DEF NextRequest, TypeOK
  <2> QED BY <1>1, <2>2 DEF NextRequest, TypeOK
<1>2. CASE LastRequest
  BY <1>2 DEF LastRequest, ReturnTrue, TypeOK
<1> QED BY <1>1, <1>2

LEMMA TypeStep == TypeOK /\ [Next]_vars => TypeOK'
<1> SUFFICES ASSUME TypeOK, [Next]_vars PROVE TypeOK'
  OBVIOUS
<1>1. CASE Click
  <2>1. Chain(service, group) \in Seq(Endpoints)
    BY ChainFacts, GroupsAssumption DEF TypeOK
  <2> QED BY <1>1, <2>1 DEF TypeOK, Click, track, handles, reading, Unasked, Sayings
<1>2. CASE AskEndpoint
  <2>1. chain \in Seq(Endpoints) /\ chain # <<>>
    BY <1>2 DEF TypeOK, AskEndpoint, Wanted
  <2>2. Head(chain) \in Endpoints /\ Tail(chain) \in Seq(Endpoints)
    BY <2>1
  <2>3. endpoint' \in Endpoints /\ chain' \in Seq(Endpoints) /\ request' \in 1..3
    BY <1>2, <2>2 DEF AskEndpoint
  <2>4. urls' \subseteq Uids
    BY <1>2 DEF AskEndpoint, TypeOK
  <2> QED BY <1>2, <2>3, <2>4 DEF TypeOK, AskEndpoint, track, handles, reading
<1>3. CASE Finish
  BY <1>3 DEF TypeOK, Finish, track, handles, reading, history
<1>4. CASE Allocate
  BY <1>4 DEF TypeOK, Allocate, track, outcome, reading, history
<1>5. CASE OpenSession
  BY <1>5 DEF TypeOK, OpenSession, track, outcome, reading, history
<1>6. CASE OpenUrl
  BY <1>6, BoundsAssumption DEF TypeOK, OpenUrl, track, outcome, history
<1>7. CASE FindOffline
  BY <1>7 DEF TypeOK, FindOffline, track, outcome, handles, reading, history
<1>8. CASE DropDumped
  BY <1>8 DEF TypeOK, DropDumped, outcome, handles, reading, history, Uids
<1>9. CASE GoOnline
  BY <1>9 DEF TypeOK, GoOnline, track, outcome, handles, reading, history
<1>10. CASE ReadSome
  <2>1. total' \in 0..Capacity
    BY <1>10, BoundsAssumption DEF TypeOK, ReadSome, Room
  <2> QED BY <1>10, <2>1 DEF TypeOK, ReadSome, track, outcome, handles, history
<1>11. CASE ReadEnds
  BY <1>11 DEF TypeOK, ReadEnds, track, outcome, reading, history
<1>12. CASE OutOfMemory \/ NoSession \/ UrlFails \/ StayOffline \/ ReadFails \/ XmlFails
  BY <1>12, ReturnFalseType
     DEF OutOfMemory, NoSession, UrlFails, StayOffline, ReadFails, XmlFails
<1>13. CASE NoTrackData
  <2>1. told' \in [Endpoints -> Sayings]
    BY <1>13, SaysType DEF NoTrackData, Says, Sayings
  <2> QED BY <1>13, <2>1 DEF TypeOK, NoTrackData, ReturnTrue, parseFrame, track, reading
<1>14. CASE TrackKnown
  <2>1. told' \in [Endpoints -> Sayings]
    BY <1>14, SaysType DEF TrackKnown, TrackData, Says, Sayings
  <2>2. pc = "parse" /\ (NextRequest \/ LastRequest) /\ found' \in BOOLEAN
    BY <1>14 DEF TrackKnown, TrackData
  <2> QED BY <1>14, <2>1, <2>2, GoOnType
          DEF TypeOK, TrackKnown, parseFrame, track, reading
<1>15. CASE TrackWithoutId
  <2>1. told' \in [Endpoints -> Sayings]
    BY <1>15, SaysType DEF TrackWithoutId, TrackData, Says, Sayings
  <2>2. found' \in BOOLEAN
    BY <1>15 DEF TrackWithoutId, TrackData
  <2> QED BY <1>15, <2>1, <2>2
          DEF TypeOK, TrackWithoutId, ReturnTrue, parseFrame, track, reading
<1>16. CASE IdNotRead
  <2>1. told' \in [Endpoints -> Sayings]
    BY <1>16, SaysType DEF IdNotRead, Says, Sayings
  <2> QED BY <1>16, <2>1 DEF TypeOK, IdNotRead, ReturnTrue, parseFrame, track, reading
<1>17. CASE ParseMore
  <2>1. CASE NextRequest \/ LastRequest
    BY <1>17, <2>1, GoOnType DEF TypeOK, ParseMore, parseFrame, track, reading
  <2>2. CASE ReturnTrue /\ UNCHANGED request
    BY <1>17, <2>2 DEF TypeOK, ParseMore, ReturnTrue, parseFrame, track, reading
  <2> QED BY <1>17, <2>1, <2>2 DEF ParseMore
<1>18. CASE UNCHANGED vars
  BY <1>18 DEF TypeOK, vars, track, outcome, handles, reading, history
<1> QED
  BY <1>1, <1>2, <1>3, <1>4, <1>5, <1>6, <1>7, <1>8, <1>9, <1>10, <1>11, <1>12, <1>13,
     <1>14, <1>15, <1>16, <1>17, <1>18 DEF Next, User, Program

(* Every variable keeps its type: in particular no more is counted as read  *)
(* than the buffer holds besides its NUL.                                   *)
THEOREM QueryTypeCorrect == Spec => []TypeOK
BY TypeInit, TypeStep, PTL DEF Spec

-----------------------------------------------------------------------------
(* Resources.                                                               *)
LEMMA LeaksInit == Init => NothingLeaks
BY BoundsAssumption DEF Init, NothingLeaks

LEMMA LeaksStep == TypeOK /\ NothingLeaks /\ [Next]_vars => NothingLeaks'
<1> SUFFICES ASSUME TypeOK, NothingLeaks, [Next]_vars PROVE NothingLeaks'
  OBVIOUS
<1>0. total' <= Capacity
  BY TypeStep, BoundsAssumption DEF TypeOK
<1>1. CASE Click
  BY <1>0, <1>1 DEF NothingLeaks, Click, handles
<1>2. CASE AskEndpoint
  BY <1>0, <1>2 DEF NothingLeaks, AskEndpoint, handles
<1>3. CASE Finish
  BY <1>0, <1>3 DEF NothingLeaks, Finish, handles
<1>4. CASE Allocate
  BY <1>0, <1>4 DEF NothingLeaks, Allocate
<1>5. CASE OpenSession
  BY <1>0, <1>5 DEF NothingLeaks, OpenSession
<1>6. CASE OpenUrl
  BY <1>0, <1>6 DEF NothingLeaks, OpenUrl
<1>7. CASE FindOffline
  BY <1>0, <1>7 DEF NothingLeaks, FindOffline, handles
<1>8. CASE DropDumped
  BY <1>0, <1>8 DEF NothingLeaks, DropDumped, handles
<1>9. CASE GoOnline
  BY <1>0, <1>9 DEF NothingLeaks, GoOnline, handles
<1>10. CASE ReadSome
  BY <1>0, <1>10 DEF NothingLeaks, ReadSome, handles
<1>11. CASE ReadEnds
  BY <1>0, <1>11 DEF NothingLeaks, ReadEnds
<1>12. CASE OutOfMemory \/ NoSession \/ UrlFails \/ StayOffline \/ ReadFails \/ XmlFails
  <2>1. ReturnFalse
    BY <1>12 DEF OutOfMemory, NoSession, UrlFails, StayOffline, ReadFails, XmlFails
  <2> QED BY <1>0, <2>1 DEF NothingLeaks, ReturnFalse
<1>13. ASSUME pc = "parse", UNCHANGED <<session, file>>,
              NextRequest \/ LastRequest \/ ReturnTrue
       PROVE  NothingLeaks'
  <2>1. CASE NextRequest
    BY <1>0, <1>13, <2>1 DEF NothingLeaks, NextRequest
  <2>2. CASE LastRequest \/ ReturnTrue
    BY <1>0, <1>13, <2>2 DEF NothingLeaks, LastRequest, ReturnTrue
  <2> QED BY <1>13, <2>1, <2>2
<1>14. CASE NoTrackData \/ TrackKnown \/ TrackWithoutId \/ IdNotRead \/ ParseMore
  BY <1>13, <1>14 DEF NoTrackData, TrackKnown, TrackWithoutId, IdNotRead, ParseMore,
                      parseFrame
<1>15. CASE UNCHANGED vars
  BY <1>15 DEF NothingLeaks, vars, handles, reading
<1> QED
  BY <1>1, <1>2, <1>3, <1>4, <1>5, <1>6, <1>7, <1>8, <1>9, <1>10, <1>11, <1>12, <1>14, <1>15
     DEF Next, User, Program

(* Whatever fails, every request gives back its buffer, its session and its *)
(* handle, and the answer leaves the place for its NUL.                     *)
THEOREM NothingEverLeaks == Spec => []NothingLeaks
<1>1. Init => TypeOK /\ NothingLeaks
  BY TypeInit, LeaksInit
<1>2. TypeOK /\ NothingLeaks /\ [Next]_vars => (TypeOK /\ NothingLeaks)'
  BY TypeStep, LeaksStep
<1> QED BY <1>1, <1>2, PTL DEF Spec

-----------------------------------------------------------------------------
(* What a query concludes.  Asked counts the endpoints that were taken from *)
(* the chain.                                                               *)
Endpts == Chain(service, group)
Asked  == Len(Endpts) - Len(chain)

(* The chain is what remains, nothing was said by the others, and the       *)
(* answers of all but the last one asked were taken for "not known".        *)
OrderInv ==
  \/ pc = "idle" /\ told = Unasked
  \/ /\ Len(chain) <= Len(Endpts)
     /\ \A j \in 1..Len(chain) : chain[j] = Endpts[Asked + j]
     /\ \A i \in 1..Len(Endpts) : i < Asked => TakenForUnknown(told[Endpts[i]], Endpts[i])
     /\ \A i \in 1..Len(Endpts) : i > Asked => told[Endpts[i]] = "nothing"

(* While an endpoint is asked it is the last one taken from the chain; the  *)
(* first request is about a track that was not found.                       *)
AskingInv ==
  Asking => /\ Asked >= 1 /\ endpoint = Endpts[Asked]
            /\ success = TRUE /\ (request > 1 => found = TRUE)

(* Between two endpoints: the answer of the last one was taken for "not     *)
(* known", if the query goes on, or if it ends and no failure was dropped.  *)
LastAnswer == Asked >= 1 => TakenForUnknown(told[Endpts[Asked]], Endpts[Asked])

ChooseInv ==
  pc = "choose" /\ success = TRUE /\ found = FALSE /\ (chain # <<>> \/ ~OriginalTmx) => LastAnswer

NotFoundInv ==
  notFound = TRUE =>
    pc = "idle" /\ (~OriginalTmx => \A i \in 1..Len(Endpts) : TakenForUnknown(told[Endpts[i]], Endpts[i]))

(* The button, while a query is under way.                                  *)
ButtonInv ==
  OriginalTmx \/
    /\ Asking => failed = FALSE
    /\ pc = "choose" => (failed = TRUE <=> success = FALSE)
    /\ pc # "idle" /\ uid = "first" => button = FALSE
    /\ pc = "idle" /\ told # Unasked /\ uid = "first"
         => (button = TRUE <=> failed = TRUE) /\ (failed = TRUE => notFound = FALSE)

OutcomeInv == OrderInv /\ AskingInv /\ ChooseInv /\ NotFoundInv /\ ButtonInv

LEMMA OutcomeInit == Init => OutcomeInv
BY DEF Init, OutcomeInv, OrderInv, AskingInv, ChooseInv, NotFoundInv, ButtonInv, Asking

LEMMA EndpointFacts ==
  ASSUME TypeOK
  PROVE  /\ Endpts \in Seq(Endpoints) /\ Len(Endpts) \in 1..5
         /\ chain \in Seq(Endpoints) /\ Len(chain) \in Nat /\ Asked \in Int
         /\ \A i, j \in 1..Len(Endpts) : Endpts[i] = Endpts[j] => i = j
         /\ \A i \in 1..Len(Endpts) :
              Endpts[i] = "TMO" => i = Len(Endpts) /\ OriginalTmx
<1>1. service \in {"tmx", "dedi"} /\ group \in AllGroups /\ chain \in Seq(Endpoints)
  BY GroupsAssumption DEF TypeOK
<1>2. chain \in Seq(Endpoints) /\ Len(chain) \in Nat
  BY <1>1
<1>3. /\ Endpts \in Seq(Endpoints) /\ Len(Endpts) \in 1..5
      /\ \A i, j \in 1..Len(Endpts) : Endpts[i] = Endpts[j] => i = j
  BY <1>1, ChainFacts DEF Endpts
<1>4. \A i \in 1..Len(Endpts) :
        Endpts[i] = "TMO" => i = Len(Endpts) /\ OriginalTmx
  BY <1>1, ChainFacts DEF Endpts, OriginalTmx
<1>5. Asked \in Int
  BY <1>2, <1>3 DEF Asked
<1> QED BY <1>2, <1>3, <1>4, <1>5

(* A step inside a request says and decides nothing.                        *)
LEMMA QuietStep ==
  ASSUME OutcomeInv, Asking, Asking',
         UNCHANGED <<service, group, chain, endpoint, request, success, found, notFound,
                     told, failed>>,
         uid' # "first" \/ UNCHANGED <<uid, button>>
  PROVE  OutcomeInv'
<1>1. Endpts' = Endpts /\ Asked' = Asked
  BY DEF Endpts, Asked
<1>2. OrderInv'
  BY <1>1 DEF OutcomeInv, OrderInv, Asking
<1>3. AskingInv' /\ ChooseInv' /\ NotFoundInv'
  BY <1>1 DEF OutcomeInv, AskingInv, ChooseInv, NotFoundInv, Asking
<1>4. ButtonInv'
  BY DEF OutcomeInv, ButtonInv, OriginalTmx, Asking
<1> QED BY <1>2, <1>3, <1>4 DEF OutcomeInv

(* What an endpoint says concerns no other one.                             *)
LEMMA SaysStep ==
  ASSUME TypeOK, OutcomeInv, Asking, UNCHANGED <<service, group, chain>>,
         NEW what, told' = [told EXCEPT ![endpoint] = what]
  PROVE  OrderInv' /\ Asked' = Asked /\ told'[Endpts'[Asked']] = what
<1>1. Endpts' = Endpts /\ Asked' = Asked
  BY DEF Endpts, Asked
<1>2. /\ Len(chain) <= Len(Endpts)
      /\ \A j \in 1..Len(chain) : chain[j] = Endpts[Asked + j]
      /\ \A i \in 1..Len(Endpts) : i < Asked => TakenForUnknown(told[Endpts[i]], Endpts[i])
      /\ \A i \in 1..Len(Endpts) : i > Asked => told[Endpts[i]] = "nothing"
  BY DEF OutcomeInv, OrderInv, Asking
<1>3. Asked \in 1..Len(Endpts) /\ endpoint = Endpts[Asked]
  BY <1>2, EndpointFacts DEF OutcomeInv, AskingInv, Asked
<1>4. \A i \in 1..Len(Endpts) : Endpts[i] \in Endpoints
  BY EndpointFacts
<1>5. \A i \in 1..Len(Endpts) : i # Asked => told'[Endpts[i]] = told[Endpts[i]]
  BY <1>3, <1>4, EndpointFacts DEF TypeOK
<1>6. told'[Endpts[Asked]] = what
  BY <1>3, <1>4 DEF TypeOK
<1> QED
  BY <1>1, <1>2, <1>3, <1>5, <1>6, EndpointFacts DEF OrderInv

(* A request fails.                                                         *)
LEMMA ReturnFalseStep ==
  ASSUME TypeOK, OutcomeInv, Asking, ReturnFalse
  PROVE  OutcomeInv'
<1>1. /\ UNCHANGED <<service, group, uid, button, chain, endpoint, request, found, notFound>>
      /\ pc' = "choose" /\ failed' = TRUE
  BY DEF ReturnFalse, track
<1>2. Endpts' = Endpts /\ Asked' = Asked
  BY <1>1 DEF Endpts, Asked
<1>3. OrderInv'
  <2>1. CASE request = 1
    BY <1>1, <2>1, SaysStep DEF ReturnFalse
  <2>2. CASE request # 1
    BY <1>1, <1>2, <2>2 DEF ReturnFalse, OutcomeInv, OrderInv, Asking
  <2> QED BY <2>1, <2>2
<1>4. Asked \in 1..Len(Endpts) /\ endpoint = Endpts[Asked]
  BY EndpointFacts DEF OutcomeInv, AskingInv, OrderInv, Asking, Asked
<1>5. success' = TRUE => chain' = <<>> /\ OriginalTmx'
  <2> SUFFICES ASSUME success' = TRUE
               PROVE  chain' = <<>> /\ OriginalTmx'
    OBVIOUS
  <2>1. endpoint = "TMO"
    BY DEF ReturnFalse
  <2>2. Asked = Len(Endpts) /\ OriginalTmx
    BY <1>4, <2>1, EndpointFacts
  <2>3. Len(chain) = 0
    BY <2>2, EndpointFacts DEF Asked
  <2>4. chain = <<>>
    BY <2>3, EndpointFacts
  <2> QED BY <1>1, <2>2, <2>4 DEF OriginalTmx
<1>6. AskingInv' /\ ChooseInv' /\ NotFoundInv'
  BY <1>1, <1>5 DEF OutcomeInv, AskingInv, ChooseInv, NotFoundInv, Asking
<1>7. success' \in BOOLEAN
  BY DEF ReturnFalse
<1>8. ButtonInv'
  BY <1>1, <1>5, <1>7 DEF OutcomeInv, ButtonInv, OriginalTmx, Asking
<1> QED BY <1>3, <1>6, <1>8 DEF OutcomeInv

(* An answer is understood: the next request follows or the endpoint's      *)
(* function returns.                                                        *)
LEMMA UnderstoodStep ==
  ASSUME TypeOK, OutcomeInv, pc = "parse",
         UNCHANGED <<service, group, uid, button, chain, endpoint, notFound, success, failed>>,
         \/ UNCHANGED told
         \/ \E what \in Sayings : told' = [told EXCEPT ![endpoint] = what],
         \/ pc' \in {"session", "allocate"} /\ found' = TRUE
         \/ pc' = "choose" /\ (\/ found' = TRUE
                               \/ \E what \in Sayings :
                                    /\ TakenForUnknown(what, endpoint)
                                    /\ told' = [told EXCEPT ![endpoint] = what])
  PROVE  OutcomeInv'
<1>1. Asking /\ Endpts' = Endpts /\ Asked' = Asked
  BY DEF Asking, Endpts, Asked
<1>2. OrderInv'
  <2>1. CASE UNCHANGED told
    BY <1>1, <2>1 DEF OutcomeInv, OrderInv, Asking
  <2>2. CASE \E what \in Sayings : told' = [told EXCEPT ![endpoint] = what]
    BY <1>1, <2>2, SaysStep
  <2> QED BY <2>1, <2>2
<1>3. Asked \in 1..Len(Endpts) /\ endpoint = Endpts[Asked]
  BY <1>1, EndpointFacts DEF OutcomeInv, AskingInv, OrderInv, Asking, Asked
<1>4. AskingInv' /\ NotFoundInv'
  BY <1>1 DEF OutcomeInv, AskingInv, NotFoundInv, Asking
<1>5. ChooseInv'
  <2>1. CASE found' = TRUE
    BY <2>1 DEF ChooseInv
  <2>2. CASE \E what \in Sayings : /\ TakenForUnknown(what, endpoint)
                                   /\ told' = [told EXCEPT ![endpoint] = what]
    <3>1. PICK what \in Sayings : /\ TakenForUnknown(what, endpoint)
                                  /\ told' = [told EXCEPT ![endpoint] = what]
      BY <2>2
    <3>2. told'[Endpts'[Asked']] = what
      BY <1>1, <3>1, SaysStep
    <3>3. Endpts'[Asked'] = endpoint
      BY <1>1, <1>3
    <3> QED BY <3>1, <3>2, <3>3 DEF ChooseInv, LastAnswer
  <2>4. CASE pc' \in {"session", "allocate"}
    BY <2>4 DEF ChooseInv
  <2> QED BY <2>1, <2>2, <2>4
<1>6. ButtonInv'
  BY <1>1 DEF OutcomeInv, AskingInv, ButtonInv, OriginalTmx, Asking
<1> QED BY <1>2, <1>4, <1>5, <1>6 DEF OutcomeInv

LEMMA ClickStep ==
  ASSUME TypeOK, OutcomeInv, Click
  PROVE  OutcomeInv'
<1>1. /\ pc' = "choose" /\ chain' = Endpts /\ UNCHANGED <<service, group>>
      /\ success' = TRUE /\ found' = FALSE /\ notFound' = FALSE /\ failed' = FALSE
      /\ button' = FALSE /\ told' = [e \in Endpoints |-> "nothing"]
  BY DEF Click, track, Endpts, Unasked
<1>2. Endpts' = Endpts
  BY <1>1 DEF Endpts
<1>3. Asked' = 0
  BY <1>1, <1>2, EndpointFacts DEF Asked
<1>4. \A i \in 1..Len(Endpts) : Endpts[i] \in Endpoints
  BY EndpointFacts
<1>5. OrderInv'
  BY <1>1, <1>2, <1>3, <1>4, EndpointFacts DEF OrderInv
<1>6. AskingInv' /\ ChooseInv' /\ NotFoundInv' /\ ButtonInv'
  BY <1>1, <1>3 DEF AskingInv, ChooseInv, NotFoundInv, ButtonInv, Asking, LastAnswer
<1> QED BY <1>5, <1>6 DEF OutcomeInv

LEMMA AskEndpointStep ==
  ASSUME TypeOK, OutcomeInv, AskEndpoint
  PROVE  OutcomeInv'
<1>1. /\ pc = "choose" /\ pc' = "allocate"
      /\ endpoint' = Head(chain) /\ chain' = Tail(chain) /\ request' = 1 /\ found' = FALSE
      /\ UNCHANGED <<service, group, uid, button, success, notFound, told, failed>>
  BY DEF AskEndpoint, track
<1>2. chain # <<>> /\ success = TRUE /\ found = FALSE
  BY DEF AskEndpoint, Wanted, TypeOK
<1>3. Len(chain) >= 1 /\ Len(Tail(chain)) = Len(chain) - 1 /\ Head(chain) = chain[1]
      /\ \A j \in 1..Len(Tail(chain)) : Tail(chain)[j] = chain[j + 1]
  BY <1>2, EndpointFacts
<1>4. /\ Len(chain) <= Len(Endpts)
      /\ \A j \in 1..Len(chain) : chain[j] = Endpts[Asked + j]
      /\ \A i \in 1..Len(Endpts) : i < Asked => TakenForUnknown(told[Endpts[i]], Endpts[i])
      /\ \A i \in 1..Len(Endpts) : i > Asked => told[Endpts[i]] = "nothing"
  BY <1>1 DEF OutcomeInv, OrderInv
<1>5. Asked >= 1 => TakenForUnknown(told[Endpts[Asked]], Endpts[Asked])
  BY <1>1, <1>2 DEF OutcomeInv, ChooseInv, LastAnswer
<1>6. Endpts' = Endpts
  BY <1>1 DEF Endpts
<1>7. Asked' = Asked + 1
  <2>1. Len(chain') = Len(chain) - 1
    BY <1>1, <1>3
  <2>2. Len(Endpts') \in Nat /\ Len(chain) \in Nat
    BY <1>6, EndpointFacts
  <2> QED BY <1>6, <2>1, <2>2 DEF Asked
<1>8. Asked >= 0
  BY <1>4, EndpointFacts DEF Asked
<1>9. OrderInv'
  <2>1. Len(chain') <= Len(Endpts')
    BY <1>1, <1>3, <1>4, <1>6, EndpointFacts
  <2>2. \A j \in 1..Len(chain') : chain'[j] = Endpts'[Asked' + j]
    BY <1>1, <1>3, <1>4, <1>6, <1>7, EndpointFacts
  <2>3. /\ \A i \in 1..Len(Endpts') : i < Asked' => TakenForUnknown(told'[Endpts'[i]], Endpts'[i])
        /\ \A i \in 1..Len(Endpts') : i > Asked' => told'[Endpts'[i]] = "nothing"
    <3> SUFFICES ASSUME NEW i \in 1..Len(Endpts)
                 PROVE  /\ i < Asked + 1 => TakenForUnknown(told[Endpts[i]], Endpts[i])
                        /\ i > Asked + 1 => told[Endpts[i]] = "nothing"
      BY <1>1, <1>6, <1>7, Zenon
    <3>0. Asked \in Int /\ Len(Endpts) \in Nat /\ i \in Int /\ i >= 1
      BY EndpointFacts
    <3>1. i < Asked + 1 => i < Asked \/ (i = Asked /\ Asked >= 1)
      BY <3>0
    <3>2. i > Asked + 1 => i > Asked
      BY <3>0
    <3>3. i < Asked => TakenForUnknown(told[Endpts[i]], Endpts[i])
      BY <1>4
    <3>4. i > Asked => told[Endpts[i]] = "nothing"
      BY <1>4
    <3>5. i = Asked /\ Asked >= 1 => TakenForUnknown(told[Endpts[i]], Endpts[i])
      BY <1>5
    <3> QED BY <3>1, <3>2, <3>3, <3>4, <3>5
  <2> QED BY <2>1, <2>2, <2>3 DEF OrderInv
<1>10. AskingInv'
  <2>1. Asked' >= 1
    BY <1>7, <1>8, EndpointFacts
  <2>2. endpoint' = Endpts'[Asked']
    BY <1>1, <1>3, <1>4, <1>6, <1>7, EndpointFacts
  <2>3. success' = TRUE /\ request' = 1
    BY <1>1, <1>2
  <2> QED BY <2>1, <2>2, <2>3 DEF AskingInv
<1>11. ChooseInv' /\ NotFoundInv'
  BY <1>1 DEF OutcomeInv, ChooseInv, NotFoundInv
<1>12. ButtonInv'
  BY <1>1, <1>2 DEF OutcomeInv, ButtonInv, OriginalTmx, TypeOK
<1> QED BY <1>9, <1>10, <1>11, <1>12 DEF OutcomeInv

LEMMA FinishStep ==
  ASSUME TypeOK, OutcomeInv, Finish
  PROVE  OutcomeInv'
<1>1. /\ pc = "choose" /\ pc' = "idle"
      /\ UNCHANGED <<service, group, uid, chain, endpoint, success, found, told, failed>>
  BY DEF Finish, track, history
<1>2. /\ notFound' = TRUE <=> success = TRUE /\ found = FALSE
      /\ button' = TRUE <=> button = TRUE \/ success = FALSE
  BY DEF Finish, TypeOK
<1>3. success = TRUE /\ found = FALSE => chain = <<>>
  BY DEF Finish, Wanted
<1>4. Endpts' = Endpts /\ Asked' = Asked
  BY <1>1 DEF Endpts, Asked
<1>5. /\ Len(chain) <= Len(Endpts)
      /\ \A j \in 1..Len(chain) : chain[j] = Endpts[Asked + j]
      /\ \A i \in 1..Len(Endpts) : i < Asked => TakenForUnknown(told[Endpts[i]], Endpts[i])
      /\ \A i \in 1..Len(Endpts) : i > Asked => told[Endpts[i]] = "nothing"
  BY <1>1 DEF OutcomeInv, OrderInv
<1>6. OrderInv'
  BY <1>1, <1>4, <1>5 DEF OrderInv
<1>7. NotFoundInv'
  <2> SUFFICES ASSUME notFound' = TRUE, ~OriginalTmx
               PROVE  \A i \in 1..Len(Endpts) : TakenForUnknown(told[Endpts[i]], Endpts[i])
    BY <1>1, <1>4 DEF NotFoundInv, OriginalTmx
  <2>1. success = TRUE /\ found = FALSE /\ chain = <<>>
    BY <1>2, <1>3
  <2>2. Asked = Len(Endpts)
    BY <2>1, EndpointFacts DEF Asked
  <2>3. TakenForUnknown(told[Endpts[Asked]], Endpts[Asked])
    BY <1>1, <2>1, <2>2, EndpointFacts DEF OutcomeInv, ChooseInv, LastAnswer
  <2> SUFFICES ASSUME NEW i \in 1..Len(Endpts) PROVE TakenForUnknown(told[Endpts[i]], Endpts[i])
    OBVIOUS
  <2>4. Len(Endpts) \in Nat /\ i \in Int
    BY EndpointFacts
  <2>5. i < Asked \/ i = Asked
    BY <2>2, <2>4
  <2>6. i < Asked => TakenForUnknown(told[Endpts[i]], Endpts[i])
    BY <1>5
  <2> QED BY <2>3, <2>5, <2>6
<1>8. AskingInv' /\ ChooseInv'
  BY <1>1 DEF AskingInv, ChooseInv, Asking
<1>9. ButtonInv'
  BY <1>1, <1>2 DEF OutcomeInv, ButtonInv, OriginalTmx, Asking, TypeOK
<1> QED BY <1>6, <1>7, <1>8, <1>9 DEF OutcomeInv

LEMMA OutcomeStep == TypeOK /\ OutcomeInv /\ [Next]_vars => OutcomeInv'
<1> SUFFICES ASSUME TypeOK, OutcomeInv, [Next]_vars PROVE OutcomeInv'
  OBVIOUS
<1>1. CASE Click \/ AskEndpoint \/ Finish
  BY <1>1, ClickStep, AskEndpointStep, FinishStep
<1>2. CASE Allocate \/ OpenSession \/ OpenUrl \/ FindOffline \/ GoOnline \/ ReadSome \/ ReadEnds
  BY <1>2, QuietStep
     DEF Allocate, OpenSession, OpenUrl, FindOffline, GoOnline, ReadSome, ReadEnds,
         Asking, track, outcome, history
<1>3. CASE DropDumped
  BY <1>3, QuietStep DEF DropDumped, Asking, outcome, history
<1>4. CASE OutOfMemory \/ NoSession \/ UrlFails \/ StayOffline \/ ReadFails \/ XmlFails
  BY <1>4, ReturnFalseStep
     DEF OutOfMemory, NoSession, UrlFails, StayOffline, ReadFails, XmlFails, Asking
<1>5. CASE NoTrackData
  <2>1. \E what \in Sayings : /\ TakenForUnknown(what, endpoint)
                              /\ told' = [told EXCEPT ![endpoint] = what]
    BY <1>5 DEF NoTrackData, Says, Sayings, TakenForUnknown
  <2> QED BY <1>5, <2>1, UnderstoodStep DEF NoTrackData, ReturnTrue, parseFrame, track
<1>6. CASE TrackKnown
  <2>1. \E what \in Sayings : told' = [told EXCEPT ![endpoint] = what]
    BY <1>6 DEF TrackKnown, TrackData, Says, Sayings
  <2>2. /\ pc' \in {"session", "allocate", "choose"} /\ pc = "parse"
        /\ success' = success /\ failed' = failed /\ found' = TRUE
    BY <1>6, GoOnType DEF TrackKnown, TrackData
  <2> QED BY <1>6, <2>1, <2>2, UnderstoodStep DEF TrackKnown, parseFrame, track
<1>7. CASE TrackWithoutId
  <2>1. \E what \in Sayings : told' = [told EXCEPT ![endpoint] = what]
    BY <1>7 DEF TrackWithoutId, TrackData, Says, Sayings
  <2>2. found' = TRUE
    BY <1>7 DEF TrackWithoutId, TrackData
  <2> QED BY <1>7, <2>1, <2>2, UnderstoodStep DEF TrackWithoutId, ReturnTrue, parseFrame, track
<1>8. CASE IdNotRead
  <2>1. \E what \in Sayings : /\ TakenForUnknown(what, endpoint)
                              /\ told' = [told EXCEPT ![endpoint] = what]
    BY <1>8 DEF IdNotRead, Says, Sayings, TakenForUnknown
  <2> QED BY <1>8, <2>1, UnderstoodStep DEF IdNotRead, ReturnTrue, parseFrame, track
<1>9. CASE ParseMore
  <2>1. /\ pc' \in {"session", "allocate", "choose"} /\ pc = "parse"
        /\ success' = success /\ failed' = failed
    BY <1>9, GoOnType DEF ParseMore, ReturnTrue
  <2>2. found' = TRUE
    BY <1>9 DEF ParseMore, OutcomeInv, AskingInv, Asking
  <2> QED BY <1>9, <2>1, <2>2, UnderstoodStep DEF ParseMore, parseFrame, track
<1>10. CASE UNCHANGED vars
  <2>1. Endpts' = Endpts /\ Asked' = Asked
    BY <1>10 DEF vars, track, Endpts, Asked
  <2> QED
    BY <1>10, <2>1
       DEF vars, track, outcome, history, OutcomeInv, OrderInv, AskingInv, ChooseInv, NotFoundInv,
           ButtonInv, Asking, LastAnswer, OriginalTmx
<1> QED
  BY <1>1, <1>2, <1>3, <1>4, <1>5, <1>6, <1>7, <1>8, <1>9, <1>10 DEF Next, User, Program

IInv == TypeOK /\ OutcomeInv

LEMMA OutcomeHolds == Spec => []IInv
<1>1. Init => IInv
  BY TypeInit, OutcomeInit DEF IInv
<1>2. IInv /\ [Next]_vars => IInv'
  BY TypeStep, OutcomeStep DEF IInv
<1> QED BY <1>1, <1>2, PTL DEF Spec

-----------------------------------------------------------------------------
(* An endpoint has been asked only if each newer one has answered and       *)
(* nothing in the answer was taken for the track.                           *)
THEOREM NewestAlwaysFirst == Spec => []NewestFirst
<1>1. IInv => NewestFirst
  <2> SUFFICES ASSUME IInv, NEW i \in DOMAIN Endpts, NEW j \in DOMAIN Endpts,
                      i < j, told[Endpts[j]] # "nothing"
               PROVE  TakenForUnknown(told[Endpts[i]], Endpts[i])
    BY DEF NewestFirst, Endpts
  <2>1. i \in 1..Len(Endpts) /\ j \in 1..Len(Endpts) /\ Endpts[j] \in Endpoints
    BY EndpointFacts DEF IInv
  <2>2. told # Unasked
    BY <2>1 DEF Unasked
  <2>3. /\ \A k \in 1..Len(Endpts) : k < Asked => TakenForUnknown(told[Endpts[k]], Endpts[k])
        /\ \A k \in 1..Len(Endpts) : k > Asked => told[Endpts[k]] = "nothing"
    BY <2>2 DEF IInv, OutcomeInv, OrderInv
  <2>4. ~(j > Asked)
    BY <2>1, <2>3
  <2>5. i \in Int /\ j \in Int /\ Asked \in Int
    BY <2>1, EndpointFacts DEF IInv
  <2>6. i < Asked
    BY <2>4, <2>5
  <2> QED BY <2>1, <2>3, <2>6
<1> QED BY <1>1, OutcomeHolds, PTL

(* "Not found" is printed only after every endpoint of the chain has        *)
(* answered and nothing in the answers was taken for the track, for all     *)
(* queries but the one whose last failure is not noticed.                   *)
THEOREM NotFoundAlwaysAfterAnswers == Spec => []NotFoundOnlyAfterAnswers
<1>1. IInv => NotFoundOnlyAfterAnswers
  <2> SUFFICES ASSUME IInv, ~OriginalTmx, notFound, NEW e \in Members(Chain(service, group))
               PROVE  TakenForUnknown(told[e], e)
    BY DEF NotFoundOnlyAfterAnswers, OriginalTmx
  <2>1. PICK i \in DOMAIN Endpts : e = Endpts[i]
    BY DEF Members, Endpts
  <2>2. i \in 1..Len(Endpts)
    BY EndpointFacts DEF IInv
  <2>3. notFound = TRUE
    BY DEF IInv, TypeOK
  <2> QED BY <2>1, <2>2, <2>3 DEF IInv, OutcomeInv, NotFoundInv
<1> QED BY <1>1, OutcomeHolds, PTL

(* With servers that answer what they are asked, in full, "not found" is    *)
(* the truth: every endpoint that may know the track has said that it does  *)
(* not, for all groups of environments but three.                           *)
THEOREM HonestAnswersAreTruthful ==
  ASSUME ErrorPages = FALSE, XmlBreaks = FALSE
  PROVE  Spec => [](service = "dedi" \/ group \notin {"Shootmania", "Questmania", "Original"}
                      => NotFoundIsTruthful)
<1>1. TypeOK /\ NotFoundOnlyAfterAnswers
        => (service = "dedi" \/ group \notin {"Shootmania", "Questmania", "Original"}
              => NotFoundIsTruthful)
  <2> SUFFICES ASSUME TypeOK, NotFoundOnlyAfterAnswers,
                      service = "dedi" \/ group \notin {"Shootmania", "Questmania", "Original"},
                      notFound, NEW e \in Members(Endpts)
               PROVE  told[e] = "unknown"
    BY DEF NotFoundIsTruthful, Endpts
  <2>1. PICK i \in DOMAIN Endpts : e = Endpts[i]
    BY DEF Members
  <2>2. service \in {"tmx", "dedi"} /\ group \in AllGroups
    BY GroupsAssumption DEF TypeOK
  <2>3. e \notin {"SM", "QM"}
    BY <2>1, <2>2 DEF Endpts, Chain, Exchanges, RecordSystems, AllGroups
  <2>4. TakenForUnknown(told[e], e)
    BY DEF NotFoundOnlyAfterAnswers, Endpts
  <2> QED BY <2>3, <2>4 DEF TakenForUnknown
<1> QED BY <1>1, QueryTypeCorrect, NotFoundAlwaysAfterAnswers, PTL

(* The button comes back exactly after a failed request, and then the map   *)
(* is not called unknown.                                                   *)
THEOREM FailureAlwaysGivesButtonBack == Spec => []FailureGivesButtonBack
<1>1. IInv => FailureGivesButtonBack
  <2> SUFFICES ASSUME IInv, pc = "idle", told # Unasked, uid = "first", ~OriginalTmx
               PROVE  (button <=> failed) /\ ~(failed /\ notFound)
    BY DEF FailureGivesButtonBack, OriginalTmx
  <2>1. (button = TRUE <=> failed = TRUE) /\ (failed = TRUE => notFound = FALSE)
    BY DEF IInv, OutcomeInv, ButtonInv
  <2> QED BY <2>1 DEF IInv, TypeOK
<1> QED BY <1>1, OutcomeHolds, PTL

-----------------------------------------------------------------------------
(* The dialog.                                                              *)
(* While the query asks, Viewer's handler asks.                             *)
LEMMA AskingOn ==
  ASSUME pc \notin {"idle", "prompt"}, pc' \notin {"idle", "prompt"},
         UNCHANGED <<service, uid, button>>
  PROVE  UNCHANGED Dialog!vars
BY DEF Dialog!vars, Dialog!frameVars, Dialog!panelVars

LEMMA ClickInDialog ==
  ASSUME TypeOK, Click
  PROVE  Dialog!ClickTmx \/ Dialog!ClickDedimania
<1>1. service \in {"tmx", "dedi"} /\ UNCHANGED <<service, uid>>
  BY DEF TypeOK, Click, track
<1>2. /\ pc = "idle" /\ pc' = "choose" /\ button = TRUE /\ button' = FALSE
  BY DEF TypeOK, Click
<1>3. Dialog!Input
  BY <1>2 DEF Dialog!Input, Dialog!Idle, Dialog!AtPump, Dialog!DialogEnabled, Dialog!OwnedPcs
<1>4. Dialog!Push(Dialog!Activation(service, "ask", 0))
  BY <1>1, <1>2 DEF Dialog!Push, Dialog!Activation
<1>5. UNCHANGED Dialog!queryFrame
  BY <1>1, <1>2 DEF Dialog!queryFrame
<1>6. CASE service = "tmx"
  BY <1>1, <1>2, <1>3, <1>4, <1>5, <1>6 DEF Dialog!ClickTmx
<1>7. CASE service = "dedi"
  BY <1>1, <1>2, <1>3, <1>4, <1>5, <1>7 DEF Dialog!ClickDedimania
<1> QED
  BY <1>1, <1>6, <1>7

LEMMA FinishInDialog ==
  ASSUME TypeOK, Finish
  PROVE  Dialog!QuerySucceeds \/ Dialog!NetworkFails
<1>1. service \in {"tmx", "dedi"} /\ UNCHANGED <<service, uid>>
  BY DEF TypeOK, Finish, track
<1>2. /\ pc = "choose" /\ pc' = "idle"
      /\ button' = (button \/ ~success) /\ button \in BOOLEAN /\ success \in BOOLEAN
  BY DEF TypeOK, Finish
<1>3. Dialog!At("ask") /\ Dialog!Top.kind = service
  BY <1>2 DEF Dialog!At, Dialog!Top
<1>4. Dialog!Return
  BY <1>2 DEF Dialog!Return, Dialog!NoFrame, Dialog!Activation
<1>5. UNCHANGED Dialog!queryFrame
  BY <1>1, <1>2 DEF Dialog!queryFrame
<1>6. CASE success
  <2>1. button' = button
    BY <1>2, <1>6
  <2> QED
    BY <1>1, <1>3, <1>4, <1>5, <2>1 DEF Dialog!QuerySucceeds, Dialog!QueryEnds
<1>7. CASE ~success
  <2>1. button' = TRUE
    BY <1>2, <1>7
  <2>2. Dialog!QueryFails
    BY <1>1, <1>3, <1>4, <1>5, <2>1 DEF Dialog!QueryFails
  <2> QED
    BY <1>3, <2>2 DEF Dialog!NetworkFails
<1> QED
  BY <1>6, <1>7

LEMMA PromptInDialog ==
  ASSUME TypeOK, FindOffline
  PROVE  Dialog!PromptOffline
<1>1. pc = "url" /\ pc' = "prompt" /\ UNCHANGED <<service, uid, button>>
  BY DEF FindOffline, track
<1>2. Dialog!At("ask")
  BY <1>1 DEF Dialog!At, Dialog!Top
<1>3. Dialog!Goto("prompt")
  BY <1>1 DEF Dialog!Goto
<1> QED
  BY <1>1, <1>2, <1>3 DEF Dialog!PromptOffline, Dialog!queryFrame

LEMMA OnlineInDialog ==
  ASSUME pc = "prompt", pc' \notin {"idle", "prompt"}, UNCHANGED <<service, uid, button>>
  PROVE  Dialog!GoOnline
<1>1. Dialog!At("prompt")
  BY DEF Dialog!At, Dialog!Top
<1>2. Dialog!Idle
  BY <1>1 DEF Dialog!Idle, Dialog!AtPump, Dialog!PumpPcs
<1>3. Dialog!Goto("ask")
  BY DEF Dialog!Goto
<1> QED
  BY <1>1, <1>2, <1>3 DEF Dialog!GoOnline, Dialog!queryFrame

LEMMA DumpInDialog ==
  ASSUME DropDumped
  PROVE  BatchInPrompt
BY DEF DropDumped, BatchInPrompt, Dialog!At, Dialog!Top, Dialog!frameVars

LEMMA QueryDialogStep ==
  ASSUME TypeOK, [Next]_vars
  PROVE  [Dialog!Next \/ BatchInPrompt]_Dialog!vars
<1> USE DEF Dialog!Next
<1>1. CASE Click
  BY <1>1, ClickInDialog DEF Dialog!User
<1>2. CASE DropDumped
  BY <1>2, DumpInDialog
<1>3. CASE GoOnline
  <2>1. pc = "prompt" /\ pc' \notin {"idle", "prompt"} /\ UNCHANGED <<service, uid, button>>
    BY <1>3 DEF GoOnline, track
  <2> QED
    BY <2>1, OnlineInDialog DEF Dialog!User
<1>4. CASE StayOffline
  <2>1. pc = "prompt" /\ pc' \notin {"idle", "prompt"} /\ UNCHANGED <<service, uid, button>>
    BY <1>4 DEF StayOffline, ReturnFalse, track
  <2> QED
    BY <2>1, OnlineInDialog DEF Dialog!User
<1>5. CASE Finish
  BY <1>5, FinishInDialog DEF Dialog!Program
<1>6. CASE FindOffline
  BY <1>6, PromptInDialog DEF Dialog!Program
<1>7. CASE \/ AskEndpoint \/ Allocate \/ OutOfMemory \/ OpenSession \/ NoSession
           \/ OpenUrl \/ UrlFails \/ ReadSome \/ ReadEnds \/ ReadFails
  <2>1. /\ pc \notin {"idle", "prompt"} /\ pc' \notin {"idle", "prompt"}
        /\ UNCHANGED <<service, uid, button>>
    BY <1>7 DEF AskEndpoint, Allocate, OutOfMemory, OpenSession, NoSession, OpenUrl, UrlFails,
                ReadSome, ReadEnds, ReadFails, ReturnFalse, track
  <2> QED
    BY <2>1, AskingOn
<1>8. CASE NoTrackData \/ TrackKnown \/ TrackWithoutId \/ IdNotRead \/ XmlFails \/ ParseMore
  <2>1. /\ pc \notin {"idle", "prompt"} /\ pc' \notin {"idle", "prompt"}
        /\ UNCHANGED <<service, uid, button>>
    BY <1>8 DEF NoTrackData, TrackKnown, TrackData, TrackWithoutId, IdNotRead, XmlFails, ParseMore,
                ReturnFalse, ReturnTrue, NextRequest, LastRequest, parseFrame, track
  <2> QED
    BY <2>1, AskingOn
<1>9. CASE UNCHANGED vars
  BY <1>9 DEF vars, track, Dialog!vars, Dialog!frameVars, Dialog!panelVars
<1> QED
  BY <1>1, <1>2, <1>3, <1>4, <1>5, <1>6, <1>7, <1>8, <1>9 DEF Next, User, Program

(* Whatever its requests do, a query is for the dialog the handler that     *)
(* Viewer has for it.                                                       *)
THEOREM QueryImplementsDialog == Spec => QueryAsInDialog
<1>1. TypeOK /\ [Next]_vars => [Dialog!Next \/ BatchInPrompt]_Dialog!vars
  BY QueryDialogStep
<1> QED
  BY <1>1, QueryTypeCorrect, PTL DEF Spec, QueryAsInDialog

-----------------------------------------------------------------------------
(* Answers of Mania Exchange.                                               *)

Kinds == {"TrackInfo", "TrackObject", "Replay", "Item"}
Tags  == {"Name", "MapID", "Comments"} \cup Kept

-----------------------------------------------------------------------------
(* Where the reader is in the tree: between the records, in an element      *)
(* there, in a record, or in the last text of the record that was begun.    *)
Between == open = <<>>
Aside   == open = <<"Name">>
Within(array)  == open = <<array>>
Inside(array)  == rank \in DOMAIN Contents(array) /\ open = <<array, Contents(array)[rank]>>

TreeInv ==
  /\ Between \/ Aside \/ \E array \in Kinds : Within(array) \/ Inside(array)
  /\ record \in Nat /\ rank \in Nat
  /\ leaf => ~Between /\ \A array \in Kinds : ~Within(array)

(* The type of the array is that of the record around the reader; an array  *)
(* without content leaves its type behind.                                  *)
ArrayInv ==
  /\ arrayType \in Kinds \cup {"none"}
  /\ \A array \in Kinds : Within(array) \/ Inside(array) => arrayType = array

(* Whenever a text may come, the local has the name of its element, with a  *)
(* colon only if a part of this text was printed.                           *)
Fresh(local, name) == local = <<name, FALSE>>
Used(local, name)  == local = <<name, TRUE>>
Label(name) == Fresh(wszElement, name) \/ Used(wszElement, name)
NameInv ==
  /\ Aside /\ leaf /\ arrayType # "none" => Label("Name")
  /\ \A array \in Kinds : Inside(array) /\ leaf =>
       /\ Label(Contents(array)[rank])
       /\ array \in {"TrackObject", "Replay"} => Fresh(wszElement, Contents(array)[rank])
       /\ ~Used(wszElement, "Comments")
       /\ Used(wszElement, "MapID") => idSent = record

(* Every local holds what was sent last, and the texts of a record arrive   *)
(* in their order: what comes after the last one has not been sent in it.   *)
SentInv ==
  /\ lastSent \in [Kept -> Nat] /\ \A f \in Kept : lastSent[f] <= record
  /\ \A f \in Kept : field[f] = Latest(f, lastSent)
  /\ \A array \in Kinds : Within(array) \/ Inside(array) =>
       \A f \in Kept : lastSent[f] = record =>
         \E k \in DOMAIN Contents(array) : k <= rank /\ f = Contents(array)[k]

(* What each step of the preparation has created.                           *)
HeldInv ==
  /\ mxPc \in {"stream", "reader", "property", "input", "read", "done", "freed"}
  /\ held = CASE mxPc = "reader"                        -> {"memory", "stream"}
              [] mxPc \in {"property", "input", "read"} -> {"memory", "stream", "reader"}
              [] mxPc = "freed"                         -> {}
              [] OTHER                                  -> {"memory"}

MxInv ==
  /\ field \in [Kept -> Nat]
  /\ TreeInv /\ ArrayInv /\ NameInv /\ SentInv
  /\ PrintedAsSent

-----------------------------------------------------------------------------
(* Tuples of one and two elements.                                          *)
LEMMA Tuples ==
  /\ \A a : Last(<<a>>) = a /\ Front(<<a>>) = <<>> /\ Append(<<>>, a) = <<a>> /\ <<a>> # <<>>
  /\ \A a, b : /\ Last(<<a, b>>) = b /\ Front(<<a, b>>) = <<a>> /\ Append(<<a>>, b) = <<a, b>>
               /\ <<a, b>> # <<>>
  /\ \A a, b, c : <<a, b>> # <<c>> /\ (<<a>> = <<c>> => a = c)
  /\ \A a, b, c, d : <<a, b>> = <<c, d>> => a = c /\ b = d
<1>1. \A a : Last(<<a>>) = a /\ Append(<<>>, a) = <<a>> /\ <<a>> # <<>>
  BY DEF Last
<1>2. ASSUME NEW a, NEW b
      PROVE  Last(<<a, b>>) = b /\ Append(<<a>>, b) = <<a, b>> /\ <<a, b>> # <<>>
  <2>1. Last(<<a, b>>) = b
    BY DEF Last
  <2>2. <<a, b>> # <<>>
    OBVIOUS
  <2>3. <<a>> \in Seq({a, b}) /\ Len(<<a>>) = 1 /\ <<a>>[1] = a /\ b \in {a, b}
    OBVIOUS
  <2>4. /\ Append(<<a>>, b) \in Seq({a, b}) /\ Len(Append(<<a>>, b)) = 2
        /\ Append(<<a>>, b)[1] = a /\ Append(<<a>>, b)[2] = b
    BY <2>3, AppendProperties
  <2>5. /\ <<a, b>> \in Seq({a, b}) /\ Len(<<a, b>>) = 2
        /\ <<a, b>>[1] = a /\ <<a, b>>[2] = b
    OBVIOUS
  <2>6. \A i \in 1..2 : i = 1 \/ i = 2
    OBVIOUS
  <2>7. Append(<<a>>, b) = <<a, b>>
    BY <2>4, <2>5, <2>6, SeqEqual
  <2> QED
    BY <2>1, <2>2, <2>7
<1>3. \A a, b, c : <<a, b>> # <<c>> /\ (<<a>> = <<c>> => a = c)
  OBVIOUS
<1>4. \A a, b, c, d : <<a, b>> = <<c, d>> => a = c /\ b = d
  OBVIOUS
<1>5. ASSUME NEW a PROVE Front(<<a>>) = <<>>
  <2>1. <<a>> \in Seq({a}) /\ Len(<<a>>) - 1 = 0
    OBVIOUS
  <2>2. SubSeq(<<a>>, 1, 0) = <<>>
    BY SubSeqEmpty
  <2> QED
    BY <2>1, <2>2 DEF Front
<1>6. ASSUME NEW a, NEW b PROVE Front(<<a, b>>) = <<a>>
  <2>1. <<a, b>> \in Seq({a, b}) /\ Len(<<a, b>>) - 1 = 1 /\ <<a, b>>[1] = a
    OBVIOUS
  <2>2. /\ SubSeq(<<a, b>>, 1, 1) \in Seq({a, b}) /\ Len(SubSeq(<<a, b>>, 1, 1)) = 1
        /\ SubSeq(<<a, b>>, 1, 1)[1] = a
    <3>1. \A i \in 1..1 : <<a, b>>[i] \in {a, b}
      BY <2>1
    <3> QED
      BY <2>1, <3>1, SubSeqProperties
  <2>3. \A s \in Seq({a, b}) : Len(s) = 1 /\ s[1] = a => s = <<a>>
    OBVIOUS
  <2> QED
    BY <2>1, <2>2, <2>3 DEF Front
<1> QED
  BY <1>1, <1>2, <1>3, <1>4, <1>5, <1>6

(* A local names one element and has one colon or none.                     *)
LEMMA LocalNames ==
  \A w, a, b : /\ Fresh(w, a) /\ Fresh(w, b) => a = b
               /\ Used(w, a) /\ Used(w, b) => a = b
               /\ ~(Fresh(w, a) /\ Used(w, b))
               /\ Fresh(w, a) \/ Used(w, a) => w[1] = a
<1>1. \A a, b, c, d : <<a, b>> = <<c, d>> => a = c /\ b = d
  BY Tuples
<1>2. \A a, b : <<a, b>>[1] = a
  OBVIOUS
<1>3. ASSUME NEW w, NEW a, NEW b
      PROVE  /\ Fresh(w, a) /\ Fresh(w, b) => a = b
             /\ Used(w, a) /\ Used(w, b) => a = b
             /\ ~(Fresh(w, a) /\ Used(w, b))
  BY <1>1, Zenon DEF Fresh, Used
<1>4. ASSUME NEW w, NEW a, Fresh(w, a) \/ Used(w, a) PROVE w[1] = a
  BY <1>2, <1>4, Zenon DEF Fresh, Used
<1> QED
  BY <1>3, <1>4

(* The texts of the four kinds of records.                                  *)
LEMMA ContentsFacts ==
  /\ Contents("TrackInfo") = <<"MapID", "Comments", "Name">>
  /\ Contents("TrackObject") = <<"ObjectPath", "ObjectAuthor", "Username">>
  /\ Contents("Replay") = <<"Username", "ReplayTime", "StuntScore", "Position">>
  /\ Contents("Item") = <<"Name">>
BY DEF Contents

LEMMA ContentsType ==
  ASSUME NEW array \in Kinds, NEW k \in DOMAIN Contents(array)
  PROVE  /\ k \in Nat \ {0} /\ Contents(array)[k] \in Tags \ Kinds
         /\ array \in {"TrackObject", "Replay"} => Contents(array)[k] \in KeptFor(array)
         /\ Contents(array)[k] \in Kept => array \in {"TrackObject", "Replay"}
         /\ Contents(array)[k] \in {"MapID", "Comments"} => array = "TrackInfo"
         /\ array = "TrackObject" /\ Contents(array)[k] = "ObjectAuthor" => k = 2
         /\ array = "TrackObject" /\ Contents(array)[k] = "Username" => k = 3
<1>1. CASE array = "TrackInfo"
  BY <1>1, ContentsFacts DEF Tags, Kept, Kinds, KeptFor
<1>2. CASE array = "TrackObject"
  BY <1>2, ContentsFacts DEF Tags, Kept, Kinds, KeptFor
<1>3. CASE array = "Replay"
  BY <1>3, ContentsFacts DEF Tags, Kept, Kinds, KeptFor
<1>4. CASE array = "Item"
  BY <1>4, ContentsFacts DEF Tags, Kept, Kinds, KeptFor
<1> QED
  BY <1>1, <1>2, <1>3, <1>4 DEF Kinds

(* A tuple tells where the reader is.                                       *)
LEMMA OnePlace ==
  ASSUME NEW array \in Kinds
  PROVE  /\ Within(array) => /\ ~Between /\ ~Aside /\ Last(open) = array /\ Front(open) = <<>>
                             /\ \A a \in Kinds : ~Inside(a) /\ (Within(a) => a = array)
         /\ Inside(array) => /\ ~Between /\ ~Aside /\ Last(open) = Contents(array)[rank]
                             /\ Front(open) = <<array>>
                             /\ \A a \in Kinds : ~Within(a) /\ (Inside(a) => a = array)
<1>1. "Name" \notin Kinds
  BY DEF Kinds
<1> QED
  BY <1>1, Tuples DEF Within, Inside, Between, Aside

-----------------------------------------------------------------------------
(* What a text does to the locals, by the type of the array.                *)
LEMMA TextEffect ==
  ASSUME TextOf, NEW name, Last(open) = name,
         arrayType \in Kinds \cup {"none"}, arrayType # "none" => Label(name)
  PROVE  /\ UNCHANGED printed
         /\ arrayType \in {"TrackInfo", "Item"} =>
              /\ UNCHANGED field
              /\ \/ /\ arrayType = "TrackInfo" /\ Fresh(wszElement, "Comments")
                    /\ UNCHANGED <<wszElement, pnTrackId, labelled>>
                 \/ /\ ~(arrayType = "TrackInfo" /\ Fresh(wszElement, "Comments"))
                    /\ labelled' = [label |-> name, element |-> name]
                    /\ Used(wszElement', name)
                    /\ pnTrackId' = IF arrayType = "TrackInfo" /\ Fresh(wszElement, "MapID")
                                    THEN record ELSE pnTrackId
         /\ arrayType \in {"TrackObject", "Replay"} =>
              /\ UNCHANGED <<wszElement, pnTrackId, labelled>>
              /\ name \in KeptFor(arrayType) => KeepText(name)
              /\ name \notin KeptFor(arrayType) => UNCHANGED field
         /\ arrayType = "none" => UNCHANGED <<wszElement, field, pnTrackId, labelled>>
<1>n. arrayType # "none" => wszElement[1] = name
  BY LocalNames DEF Label
<1>e. \A f : Element(f) <=> Fresh(wszElement, f)
  BY DEF Element, Fresh
<1>p. PrintText => /\ labelled' = [label |-> wszElement[1], element |-> name]
                   /\ Used(wszElement', wszElement[1]) /\ UNCHANGED <<field, printed>>
  BY DEF PrintText, Used
<1>1. CASE arrayType = "TrackInfo"
  <2>1. IF Element("Comments") THEN UNCHANGED <<wszElement, output>>
        ELSE PrintText /\ pnTrackId' = IF Element("MapID") THEN record ELSE pnTrackId
    BY <1>1 DEF TextOf
  <2> QED
    BY <1>1, <1>n, <1>e, <1>p, <2>1 DEF output
<1>2. CASE arrayType = "Item"
  <2>1. PrintText /\ UNCHANGED pnTrackId
    BY <1>2 DEF TextOf
  <2> QED
    BY <1>2, <1>n, <1>p, <2>1
<1>3. CASE arrayType \in {"TrackObject", "Replay", "none"}
  <2>1. /\ \/ \E f \in KeptFor(arrayType) : Element(f) /\ KeepText(f)
           \/ wszElement[1] \notin KeptFor(arrayType) /\ UNCHANGED field
        /\ UNCHANGED <<wszElement, pnTrackId, printed, labelled>>
    BY <1>3 DEF TextOf
  <2>2. \A f : Element(f) => wszElement[1] = f
    BY <1>e, LocalNames
  <2>3. arrayType = "none" => KeptFor(arrayType) = {}
    BY DEF KeptFor
  <2> QED
    BY <1>3, <1>n, <2>1, <2>2, <2>3
<1> QED
  BY <1>1, <1>2, <1>3 DEF Kinds

(* What is kept of a record.                                                *)
LEMMA KeepEffect ==
  ASSUME field \in [Kept -> Nat], record \in Nat, NEW f \in Kept, KeepText(f)
  PROVE  /\ field' \in [Kept -> Nat] /\ field'[f] = record
         /\ \A g \in Kept : g # f /\ g # "Username" => field'[g] = field[g]
         /\ f = "ObjectAuthor" => field'["Username"] = 0
         /\ f \notin {"ObjectAuthor", "Username"} => field'["Username"] = field["Username"]
<1>1. "Username" \in Kept /\ "ObjectAuthor" \in Kept /\ "ObjectAuthor" # "Username"
  BY DEF Kept
<1> QED
  BY <1>1 DEF KeepText

-----------------------------------------------------------------------------
(* The invariant speaks of nothing that the other steps change.             *)
LEMMA OtherSteps ==
  ASSUME MxInv, UNCHANGED <<answer, lastSent, arrayType, wszElement, output, idSent>>
  PROVE  MxInv'
BY DEF MxInv, answer, output, TreeInv, ArrayInv, NameInv, SentInv, PrintedAsSent, RecordsAsSent,
       TextsAsLabelled, Latest, Between, Aside, Within, Inside, Label

(* A text that is kept replaces the one of its kind, an author also the     *)
(* user's name, which has not come yet.                                     *)
LEMMA KeptInOrder ==
  ASSUME MxInv, ReadText, NEW array \in Kinds, Inside(array)
  PROVE  /\ field' \in [Kept -> Nat]
         /\ lastSent' \in [Kept -> Nat] /\ \A f \in Kept : lastSent'[f] <= record
         /\ \A f \in Kept : field'[f] = Latest(f, lastSent')
         /\ \A f \in Kept : lastSent'[f] = record =>
              \E k \in DOMAIN Contents(array) : k <= rank /\ f = Contents(array)[k]
<1> DEFINE name == Contents(array)[rank]
<1>1. /\ rank \in DOMAIN Contents(array) /\ Last(open) = name /\ arrayType = array
      /\ record \in Nat /\ rank \in Nat /\ field \in [Kept -> Nat]
      /\ lastSent' = [f \in Kept |-> IF f = name THEN record ELSE lastSent[f]]
      /\ TextOf /\ leaf /\ Label(name)
  BY OnePlace DEF MxInv, TreeInv, ArrayInv, NameInv, ReadText, Inside
<1>2. /\ lastSent \in [Kept -> Nat] /\ \A f \in Kept : lastSent[f] <= record
      /\ \A f \in Kept : field[f] = Latest(f, lastSent)
      /\ \A f \in Kept : lastSent[f] = record =>
           \E k \in DOMAIN Contents(array) : k <= rank /\ f = Contents(array)[k]
  BY DEF MxInv, SentInv
<1>3. /\ \A k \in DOMAIN Contents(array) : k \in Nat
      /\ array \in {"TrackObject", "Replay"} => name \in KeptFor(array)
      /\ name \in Kept => array \in {"TrackObject", "Replay"}
      /\ array = "TrackObject" /\ name = "ObjectAuthor" => rank = 2
      /\ \A k \in DOMAIN Contents(array) :
           array = "TrackObject" /\ Contents(array)[k] = "Username" => k = 3
      /\ name = "ObjectAuthor" => array = "TrackObject"
  <2>1. name = "ObjectAuthor" => array = "TrackObject"
    BY <1>1, ContentsFacts DEF Kinds
  <2> QED
    BY <1>1, <2>1, ContentsType
<1>4. /\ lastSent' \in [Kept -> Nat] /\ \A f \in Kept : lastSent'[f] <= record
      /\ \A f \in Kept : lastSent'[f] = record =>
           \E k \in DOMAIN Contents(array) : k <= rank /\ f = Contents(array)[k]
  <2>1. \A f \in Kept : lastSent'[f] = IF f = name THEN record ELSE lastSent[f]
    BY <1>1
  <2>2. lastSent' \in [Kept -> Nat] /\ \A f \in Kept : lastSent'[f] <= record
    BY <1>1, <1>2
  <2>3. rank <= rank
    BY <1>1
  <2> QED
    BY <1>1, <1>2, <2>1, <2>2, <2>3
<1>5. CASE array \in {"TrackInfo", "Item"}
  <2>1. UNCHANGED field
    BY <1>1, <1>5, TextEffect
  <2>2. name \notin Kept
    BY <1>3, <1>5
  <2>3. lastSent' = lastSent
    BY <1>1, <1>2, <2>2
  <2> QED
    BY <1>1, <1>2, <1>4, <2>1, <2>3
<1>6. CASE array \in {"TrackObject", "Replay"}
  <2>1. KeepText(name)
    BY <1>1, <1>3, <1>6, TextEffect
  <2>2. name \in Kept
    BY <1>3, <1>6 DEF KeptFor, Kept
  <2>3. /\ field' \in [Kept -> Nat] /\ field'[name] = record
        /\ \A g \in Kept : g # name /\ g # "Username" => field'[g] = field[g]
        /\ name = "ObjectAuthor" => field'["Username"] = 0
        /\ name \notin {"ObjectAuthor", "Username"} => field'["Username"] = field["Username"]
    BY <1>1, <2>1, <2>2, KeepEffect
  <2>4. name = "ObjectAuthor" => lastSent["Username"] < record
    <3>1. ASSUME name = "ObjectAuthor" PROVE lastSent["Username"] # record
      <4>1. array = "TrackObject" /\ rank = 2 /\ "Username" \in Kept
        BY <1>3, <3>1 DEF Kept
      <4>2. \A k \in DOMAIN Contents(array) : Contents(array)[k] = "Username" => k = 3
        BY <1>3, <4>1
      <4> QED
        BY <1>2, <4>1, <4>2
    <3>2. "Username" \in Kept
      BY DEF Kept
    <3>3. lastSent["Username"] \in Nat /\ lastSent["Username"] <= record
      BY <1>2, <3>2
    <3> QED
      BY <1>1, <3>1, <3>3
  <2> HIDE DEF name
  <2>5. \A f \in Kept : lastSent'[f] = IF f = name THEN record ELSE lastSent[f]
    BY <1>1
  <2>k. "Username" \in Kept /\ "ObjectAuthor" \in Kept /\ "ObjectAuthor" # "Username"
    BY DEF Kept
  <2>6. ASSUME NEW f \in Kept, f # "Username" PROVE field'[f] = Latest(f, lastSent')
    <3>1. Latest(f, lastSent') = lastSent'[f] /\ field[f] = lastSent[f]
      BY <1>2, <2>6 DEF Latest
    <3> QED
      BY <2>3, <2>5, <2>6, <3>1
  <2>7. field'["Username"] = Latest("Username", lastSent')
    <3>1. Latest("Username", lastSent') =
            IF lastSent'["Username"] < lastSent'["ObjectAuthor"] THEN 0 ELSE lastSent'["Username"]
      BY DEF Latest
    <3>2. field["Username"] =
            IF lastSent["Username"] < lastSent["ObjectAuthor"] THEN 0 ELSE lastSent["Username"]
      BY <1>2, <2>k DEF Latest
    <3>3. /\ lastSent["Username"] \in Nat /\ lastSent["ObjectAuthor"] \in Nat
          /\ lastSent["ObjectAuthor"] <= record
      BY <1>2, <2>k
    <3>4. CASE name = "ObjectAuthor"
      <4>1. lastSent'["ObjectAuthor"] = record /\ lastSent'["Username"] = lastSent["Username"]
        BY <2>5, <2>k, <3>4
      <4> QED
        BY <2>3, <2>4, <3>1, <3>4, <4>1
    <3>5. CASE name = "Username"
      <4>1. /\ lastSent'["Username"] = record
            /\ lastSent'["ObjectAuthor"] = lastSent["ObjectAuthor"]
        BY <2>5, <2>k, <3>5
      <4>2. ~(record < lastSent["ObjectAuthor"])
        BY <1>1, <3>3
      <4> QED
        BY <2>3, <3>1, <3>5, <4>1, <4>2
    <3>6. CASE name \notin {"ObjectAuthor", "Username"}
      <4>1. /\ lastSent'["Username"] = lastSent["Username"]
            /\ lastSent'["ObjectAuthor"] = lastSent["ObjectAuthor"]
        BY <2>5, <2>k, <3>6
      <4> QED
        BY <2>3, <3>1, <3>2, <3>6, <4>1
    <3> QED
      BY <3>4, <3>5, <3>6
  <2> QED
    BY <1>4, <2>3, <2>6, <2>7
<1> QED
  BY <1>5, <1>6 DEF Kinds

-----------------------------------------------------------------------------
(* A text leaves the reader where it is.                                    *)
LEMMA TextStep ==
  ASSUME MxInv, ReadText
  PROVE  MxInv'
<1>1. /\ UNCHANGED answer /\ UNCHANGED arrayType /\ leaf /\ TextOf
      /\ open # <<>> /\ arrayType \in Kinds \cup {"none"} /\ record \in Nat
      /\ field \in [Kept -> Nat]
  BY DEF ReadText, MxInv, ArrayInv, TreeInv
<1>2. Aside \/ \E array \in Kinds : Inside(array)
  BY <1>1 DEF MxInv, TreeInv, Between
<1>3. TreeInv' /\ ArrayInv'
  BY <1>1 DEF MxInv, TreeInv, ArrayInv, answer, Between, Aside, Within, Inside
<1>4. RecordsAsSent /\ TextsAsLabelled
  BY DEF MxInv, PrintedAsSent
<1>5. Aside' = Aside /\ \A array \in Kinds : Within(array)' = Within(array) /\ Inside(array)' = Inside(array)
  BY <1>1 DEF answer, Aside, Within, Inside
<1>6. CASE Aside
  <2>1. Last(open) = "Name" /\ \A array \in Kinds : ~Within(array) /\ ~Inside(array)
    BY <1>6, Tuples DEF Aside, Within, Inside, Kinds
  <2>2. arrayType # "none" => Label("Name")
    BY <1>1, <1>6 DEF MxInv, NameInv
  <2>3. /\ ~Fresh(wszElement, "Comments") \/ arrayType = "none"
        /\ ~Fresh(wszElement, "MapID") \/ arrayType = "none"
    BY <2>2, LocalNames DEF Label
  <2>4. UNCHANGED <<field, printed, pnTrackId>>
    <3>1. "Name" \notin KeptFor(arrayType)
      BY <1>1 DEF KeptFor, Kinds
    <3> QED
      BY <1>1, <2>1, <2>2, <2>3, <3>1, TextEffect DEF Kinds
  <2>5. UNCHANGED labelled \/ labelled' = [label |-> "Name", element |-> "Name"]
    BY <1>1, <2>1, <2>2, TextEffect DEF Kinds
  <2>6. arrayType # "none" => Label("Name")'
    BY <1>1, <2>1, <2>2, TextEffect DEF Kinds, Label
  <2>7. idSent' = idSent
    BY <2>1 DEF ReadText
  <2>8. NameInv'
    BY <1>1, <1>5, <2>1, <2>6 DEF NameInv
  <2>10. SentInv'
    <3>1. UNCHANGED <<record, rank>> /\ "Name" \notin Kept
      BY <1>1 DEF answer, Kept
    <3>2. /\ lastSent \in [Kept -> Nat]
          /\ lastSent' = [f \in Kept |-> IF f = Last(open) THEN record ELSE lastSent[f]]
      BY DEF ReadText, MxInv, SentInv
    <3>3. lastSent' = lastSent
      BY <2>1, <3>1, <3>2
    <3> QED
      BY <1>5, <2>1, <2>4, <3>1, <3>3 DEF MxInv, SentInv
  <2>9. PrintedAsSent'
    BY <1>4, <2>4, <2>5, <2>7 DEF PrintedAsSent, RecordsAsSent, TextsAsLabelled
  <2> QED
    BY <1>1, <1>3, <2>4, <2>8, <2>9, <2>10 DEF MxInv
<1>7. ASSUME NEW array \in Kinds, Inside(array) PROVE MxInv'
  <2> DEFINE name == Contents(array)[rank]
  <2>1. /\ Last(open) = name /\ ~Aside /\ rank \in DOMAIN Contents(array) /\ arrayType = array
        /\ \A a \in Kinds : ~Within(a) /\ (Inside(a) => a = array)
    BY <1>7, OnePlace DEF MxInv, ArrayInv, Inside
  <2>2. /\ Label(name)
        /\ array \in {"TrackObject", "Replay"} => Fresh(wszElement, name)
        /\ ~Used(wszElement, "Comments")
        /\ Used(wszElement, "MapID") => idSent = record
    BY <1>1, <1>7 DEF MxInv, NameInv
  <2>3. /\ name \in {"MapID", "Comments"} => array = "TrackInfo"
        /\ array \in {"TrackObject", "Replay"} => name \in KeptFor(array)
    BY <2>1, ContentsType
  <2>4. UNCHANGED <<rank, record>> /\ idSent' = IF name = "MapID" THEN record ELSE idSent
    BY <1>1, <2>1 DEF ReadText, answer
  <2>5. SentInv' /\ field' \in [Kept -> Nat]
    <3>1. /\ field' \in [Kept -> Nat]
          /\ lastSent' \in [Kept -> Nat] /\ \A f \in Kept : lastSent'[f] <= record
          /\ \A f \in Kept : field'[f] = Latest(f, lastSent')
          /\ \A f \in Kept : lastSent'[f] = record =>
               \E k \in DOMAIN Contents(array) : k <= rank /\ f = Contents(array)[k]
      BY <1>7, KeptInOrder
    <3> QED
      BY <1>5, <2>1, <2>4, <3>1 DEF SentInv
  <2>n. /\ Fresh(wszElement, "Comments") <=> name = "Comments"
        /\ Fresh(wszElement, "MapID") \/ Used(wszElement, "MapID") <=> name = "MapID"
    BY <2>2, LocalNames DEF Label
  <2> HIDE DEF name
  <2>6. /\ UNCHANGED printed /\ (Fresh(wszElement', name) \/ Used(wszElement', name))
        /\ array \in {"TrackObject", "Replay"} => Fresh(wszElement', name)
        /\ ~Used(wszElement', "Comments")
        /\ TextsAsLabelled'
        /\ Used(wszElement', "MapID") => idSent' = record
    <3>1. CASE array \in {"TrackInfo", "Item"}
      <4>1. /\ UNCHANGED printed
            /\ \/ /\ array = "TrackInfo" /\ name = "Comments"
                  /\ UNCHANGED <<wszElement, pnTrackId, labelled>>
               \/ /\ name # "Comments"
                  /\ labelled' = [label |-> name, element |-> name]
                  /\ Used(wszElement', name)
                  /\ pnTrackId' = IF array = "TrackInfo" /\ Fresh(wszElement, "MapID")
                                  THEN record ELSE pnTrackId
        BY <1>1, <2>1, <2>2, <2>3, <2>n, <3>1, TextEffect
      <4>2. CASE name = "Comments" /\ UNCHANGED <<wszElement, pnTrackId, labelled>>
        BY <1>4, <2>2, <2>4, <2>n, <3>1, <4>1, <4>2, LocalNames DEF TextsAsLabelled, Label
      <4>3. CASE name # "Comments" /\ Used(wszElement', name)
        <5>1. pnTrackId' = idSent'
          BY <1>4, <2>2, <2>3, <2>4, <2>n, <4>1, <4>3 DEF TextsAsLabelled
        <5>2. ~Used(wszElement', "Comments") /\ (Used(wszElement', "MapID") => idSent' = record)
          BY <2>4, <4>3, LocalNames
        <5> QED
          BY <3>1, <4>1, <4>3, <5>1, <5>2 DEF TextsAsLabelled, Label
      <4> QED
        BY <4>1, <4>2, <4>3
    <3>2. CASE array \in {"TrackObject", "Replay"}
      <4>1. UNCHANGED <<printed, wszElement, pnTrackId, labelled>>
        BY <1>1, <2>1, <2>2, <3>2, TextEffect
      <4>2. name # "MapID"
        BY <2>3, <3>2
      <4> QED
        BY <1>4, <2>2, <2>4, <4>1, <4>2 DEF TextsAsLabelled, Label
    <3> QED
      BY <3>1, <3>2 DEF Kinds
  <2>7. NameInv'
    BY <1>5, <2>1, <2>4, <2>6 DEF NameInv, Label, name
  <2>8. PrintedAsSent'
    BY <1>4, <2>6 DEF PrintedAsSent, RecordsAsSent
  <2> QED
    BY <1>3, <2>5, <2>7, <2>8 DEF MxInv
<1> QED
  BY <1>2, <1>6, <1>7

-----------------------------------------------------------------------------
(* The start of an element, between the records or in one.                  *)
LEMMA ElementStep ==
  ASSUME Arrays \subseteq Kinds, MxInv, NEW name, ReadElement(name)
  PROVE  MxInv'
<1>1. /\ record \in Nat /\ rank \in Nat /\ field \in [Kept -> Nat]
      /\ arrayType \in Kinds \cup {"none"} /\ UNCHANGED <<field, pnTrackId, printed, labelled>>
      /\ "Name" \notin Kinds /\ UNCHANGED <<lastSent, idSent>>
      /\ lastSent \in [Kept -> Nat] /\ \A f \in Kept : lastSent[f] <= record
      /\ \A f \in Kept : field[f] = Latest(f, lastSent)
  BY DEF MxInv, TreeInv, ArrayInv, SentInv, ReadElement, output, Kinds
<1>2. /\ \/ open' = Append(open, name) /\ leaf' = (name \notin Arrays)
         \/ leaf' = FALSE /\ UNCHANGED open
      /\ arrayType' = IF name \in Arrays THEN name ELSE arrayType
      /\ arrayType' # "none" => Fresh(wszElement', name)
      /\ Starts(name)
  <2>1. wszElement' = IF arrayType' # "none" THEN <<name, FALSE>> ELSE wszElement
    BY DEF ReadElement
  <2>2. arrayType' # "none" => Fresh(wszElement', name)
    <3>1. CASE arrayType' # "none"
      <4>1. wszElement' = <<name, FALSE>>
        BY <2>1, <3>1, Zenon
      <4> QED
        BY <4>1, Zenon DEF Fresh
    <3> QED
      BY <3>1
  <2>3. /\ \/ open' = Append(open, name) /\ leaf' = (name \notin Arrays)
           \/ leaf' = FALSE /\ UNCHANGED open
        /\ arrayType' = IF name \in Arrays THEN name ELSE arrayType
        /\ Starts(name)
    BY DEF ReadElement, Opens
  <2> QED
    BY <2>2, <2>3
<1>3. UNCHANGED idSent /\ PrintedAsSent'
  <2>1. UNCHANGED idSent
    BY <1>1
  <2> QED
    BY <1>1, <2>1 DEF MxInv, PrintedAsSent, RecordsAsSent, TextsAsLabelled
<1>4. CASE Between /\ name \in Arrays /\ rank' = 0 /\ record' = record + 1
  <2>1. (open' = <<name>> \/ open' = <<>>) /\ leaf' = FALSE /\ arrayType' = name /\ name \in Kinds
    BY <1>2, <1>4, Tuples DEF Between
  <2>2. \A a, b : <<a, b>> # open'
    BY <2>1, Tuples
  <2>3. TreeInv'
    BY <1>1, <1>4, <2>1 DEF TreeInv, Between, Within
  <2>4. ArrayInv'
    BY <2>1, <2>2, Tuples DEF ArrayInv, Within, Inside
  <2>5. NameInv'
    BY <1>4, <2>1, <2>2 DEF NameInv, Inside
  <2>6. SentInv'
    <3>1. \A f \in Kept : lastSent'[f] <= record' /\ lastSent'[f] # record'
      BY <1>1, <1>4
    <3> QED
      BY <1>1, <3>1 DEF SentInv
  <2> QED
    BY <1>1, <1>3, <2>3, <2>4, <2>5, <2>6 DEF MxInv
<1>5. CASE Between /\ name = "Name" /\ UNCHANGED <<rank, record>>
  <2>1. (open' = <<"Name">> \/ (open' = <<>> /\ leaf' = FALSE)) /\ arrayType' = arrayType
    BY <1>1, <1>2, <1>5, Tuples DEF Between
  <2>2. \A array \in Kinds : ~Within(array)' /\ ~Inside(array)'
    <3>1. \A a \in Kinds : <<a>> # open'
      <4>1. "Name" \notin Kinds
        BY DEF Kinds
      <4> QED
        BY <2>1, <4>1, Tuples
    <3>2. \A a, b : <<a, b>> # open'
      BY <2>1, Tuples
    <3> QED
      BY <3>1, <3>2 DEF Within, Inside
  <2>3. TreeInv'
    BY <1>1, <1>5, <2>1, <2>2, Tuples DEF TreeInv, Between, Aside
  <2>4. ArrayInv' /\ SentInv'
    BY <1>1, <1>5, <2>1, <2>2 DEF ArrayInv, SentInv
  <2>5. NameInv'
    BY <1>2, <1>5, <2>2 DEF NameInv, Label
  <2> QED
    BY <1>1, <1>3, <2>3, <2>4, <2>5 DEF MxInv
<1>6. ASSUME InRecord, NEW k \in DOMAIN Contents(Last(open)), k > rank,
             name = Contents(Last(open))[k], rank' = k, UNCHANGED record
      PROVE  MxInv'
  <2> DEFINE array == Last(open)
  <2>1. array \in Kinds /\ Within(array)
    <3>1. ~Between /\ Last(open) \in Kinds
      BY <1>6 DEF InRecord, Between
    <3>2. ~Aside
      BY <1>1, <3>1, Tuples DEF Aside
    <3>3. \A a \in Kinds : ~Inside(a)
      BY <3>1, OnePlace, ContentsType DEF Inside
    <3>4. PICK a \in Kinds : Within(a)
      BY <3>1, <3>2, <3>3 DEF MxInv, TreeInv
    <3> QED
      BY <3>1, <3>4, OnePlace
  <2>2. PICK a \in Kinds : a = array
    BY <2>1
  <2> HIDE DEF array
  <2>3. /\ Within(a) /\ arrayType = a /\ open = <<a>> /\ k \in DOMAIN Contents(a)
        /\ name = Contents(a)[k]
    BY <1>6, <2>1, <2>2 DEF MxInv, ArrayInv, Within, array
  <2>4. k \in Nat /\ name \notin Kinds
    BY <2>3, ContentsType
  <2>5. (open' = <<a, name>> \/ (open' = <<a>> /\ leaf' = FALSE)) /\ arrayType' = a
    BY <1>2, <2>3, <2>4, Tuples
  <2>6. Fresh(wszElement', name)
    BY <1>2, <2>5 DEF Kinds
  <2>7. \/ Inside(a)'
        \/ Within(a)' /\ leaf' = FALSE
    BY <1>6, <2>3, <2>5 DEF Inside, Within
  <2>8. ~Between' /\ ~Aside' /\ \A b \in Kinds : Inside(b)' \/ Within(b)' => b = a
    <3>1. \A b : open' = <<b>> => b = a
      BY <2>5, Tuples
    <3>2. \A b, c : open' = <<b, c>> => b = a
      BY <2>5, Tuples
    <3>3. open' # <<>>
      BY <2>5, Tuples
    <3>4. open' # <<"Name">>
      BY <1>1, <3>1
    <3> QED
      BY <3>1, <3>2, <3>3, <3>4 DEF Between, Aside, Inside, Within
  <2>w. Inside(a)' => \A b : ~Within(b)'
    BY Tuples DEF Inside, Within
  <2>9. TreeInv'
    BY <1>1, <1>6, <2>4, <2>7, <2>8, <2>w DEF TreeInv
  <2>10. ArrayInv'
    BY <2>5, <2>8 DEF ArrayInv
  <2>11. NameInv'
    <3>1. ~Used(wszElement', "Comments") /\ ~Used(wszElement', "MapID")
      BY <2>6, LocalNames
    <3> QED
      BY <1>6, <2>3, <2>6, <2>8, <3>1 DEF NameInv, Label
  <2>12. SentInv'
    <3>1. \A f \in Kept : lastSent[f] = record =>
            \E j \in DOMAIN Contents(a) : j <= rank /\ f = Contents(a)[j]
      BY <2>3 DEF MxInv, SentInv
    <3>2. \A j \in DOMAIN Contents(a) : j <= rank => j <= k
      BY <1>1, <1>6, <2>4, ContentsType
    <3> QED
      BY <1>1, <1>6, <2>8, <3>1, <3>2 DEF SentInv
  <2> QED
    BY <1>1, <1>3, <2>9, <2>10, <2>11, <2>12 DEF MxInv
<1> QED
  BY <1>2, <1>4, <1>5, <1>6 DEF Starts, Between

(* The end of a text, of another element or of a record.                    *)
LEMMA EndStep ==
  ASSUME Arrays \subseteq Kinds, MxInv, ReadEndElement
  PROVE  MxInv'
<1>1. /\ record \in Nat /\ rank \in Nat /\ field \in [Kept -> Nat] /\ open # <<>>
      /\ arrayType \in Kinds \cup {"none"} /\ "Name" \notin Kinds
      /\ open' = Front(open) /\ leaf' = FALSE
      /\ arrayType' = IF Last(open) \in Arrays THEN "none" ELSE arrayType
      /\ UNCHANGED <<rank, record, lastSent, field, pnTrackId, labelled, idSent>>
      /\ lastSent \in [Kept -> Nat] /\ \A f \in Kept : lastSent[f] <= record
      /\ \A f \in Kept : field[f] = Latest(f, lastSent)
  BY DEF MxInv, TreeInv, ArrayInv, SentInv, ReadEndElement, Kinds
<1>2. NameInv'
  BY <1>1 DEF NameInv
<1>3. printed' = IF Last(open) \in {"TrackObject", "Replay"}
                 THEN [array |-> Last(open), record |-> record, lastSent |-> lastSent,
                       field |-> field]
                 ELSE printed
  BY DEF ReadEndElement
<1>4. RecordsAsSent /\ TextsAsLabelled
  BY DEF MxInv, PrintedAsSent
<1>5. TextsAsLabelled'
  BY <1>1, <1>4 DEF TextsAsLabelled
<1>6. ASSUME open' = <<>> PROVE TreeInv' /\ ArrayInv' /\ SentInv'
  <2>1. \A a : ~Within(a)' /\ ~Inside(a)'
    BY <1>6, Tuples DEF Within, Inside
  <2> QED
    BY <1>1, <1>6, <2>1 DEF TreeInv, ArrayInv, SentInv, Between
<1>7. CASE Aside
  <2>1. open' = <<>> /\ Last(open) = "Name"
    BY <1>1, <1>7, Tuples DEF Aside
  <2>2. UNCHANGED printed
    BY <1>3, <2>1
  <2> QED
    BY <1>1, <1>2, <1>4, <1>5, <1>6, <2>1, <2>2 DEF MxInv, PrintedAsSent, RecordsAsSent
<1>8. ASSUME NEW array \in Kinds, Within(array) PROVE MxInv'
  <2>1. open' = <<>> /\ Last(open) = array
    BY <1>1, <1>8, OnePlace
  <2>3. RecordsAsSent'
    <3>1. CASE array \in {"TrackObject", "Replay"}
      <4>1. /\ printed'.array = array /\ printed'.lastSent = lastSent /\ printed'.field = field
        BY <1>3, <2>1, <3>1
      <4>2. KeptFor(array) \subseteq Kept
        BY DEF KeptFor, Kept
      <4> QED
        BY <1>1, <4>1, <4>2 DEF RecordsAsSent
    <3>2. CASE array \notin {"TrackObject", "Replay"}
      <4>1. UNCHANGED printed
        BY <1>3, <2>1, <3>2
      <4> QED
        BY <1>4, <4>1 DEF RecordsAsSent
    <3> QED
      BY <3>1, <3>2
  <2> QED
    BY <1>1, <1>2, <1>5, <1>6, <2>1, <2>3 DEF MxInv, PrintedAsSent
<1>9. ASSUME NEW array \in Kinds, Inside(array) PROVE MxInv'
  <2>1. /\ open' = <<array>> /\ Last(open) = Contents(array)[rank] /\ arrayType = array
        /\ rank \in DOMAIN Contents(array)
    BY <1>1, <1>9, OnePlace DEF MxInv, ArrayInv, Inside
  <2>2. Last(open) \notin Kinds
    BY <2>1, ContentsType
  <2>3. UNCHANGED <<printed, arrayType>>
    BY <1>1, <1>3, <2>2 DEF Kinds
  <2>4. /\ ~Between' /\ ~Aside' /\ Within(array)' /\ \A a \in Kinds : ~Inside(a)'
        /\ \A a \in Kinds : Within(a)' => a = array
    BY <1>1, <2>1, Tuples DEF Between, Aside, Within, Inside
  <2>5. TreeInv' /\ ArrayInv'
    BY <1>1, <2>1, <2>3, <2>4 DEF TreeInv, ArrayInv
  <2>6. SentInv'
    <3>1. \A f \in Kept : lastSent[f] = record =>
            \E k \in DOMAIN Contents(array) : k <= rank /\ f = Contents(array)[k]
      BY <1>9 DEF MxInv, SentInv
    <3> QED
      BY <1>1, <2>4, <3>1 DEF SentInv
  <2>7. PrintedAsSent'
    BY <1>4, <1>5, <2>3 DEF PrintedAsSent, RecordsAsSent
  <2> QED
    BY <1>1, <1>2, <2>5, <2>6, <2>7 DEF MxInv
<1> QED
  BY <1>1, <1>7, <1>8, <1>9 DEF MxInv, TreeInv, Between

-----------------------------------------------------------------------------
LEMMA PrintedInit == MxInit => MxInv
<1> SUFFICES ASSUME MxInit PROVE MxInv
  OBVIOUS
<1>1. /\ open = <<>> /\ leaf = FALSE /\ rank = 0 /\ record = 0
      /\ lastSent = [f \in Kept |-> 0]
      /\ arrayType = "none" /\ field = [f \in Kept |-> 0] /\ pnTrackId = 0 /\ idSent = 0
      /\ printed.array = "none"
      /\ labelled.label = "none" /\ labelled.element = "none"
  BY DEF MxInit, NothingPrinted, NothingLabelled, NeverSent
<1>2. \A a : ~Within(a) /\ ~Inside(a)
  BY <1>1, Tuples DEF Within, Inside
<1>3. TreeInv /\ ArrayInv /\ NameInv /\ SentInv
  BY <1>1, <1>2 DEF TreeInv, ArrayInv, NameInv, SentInv, Between, Latest, Kept
<1>4. PrintedAsSent
  BY <1>1 DEF PrintedAsSent, RecordsAsSent, TextsAsLabelled, KeptFor
<1> QED
  BY <1>1, <1>3, <1>4 DEF MxInv

LEMMA PrintedStep ==
  ASSUME Arrays \subseteq Kinds, MxInv, [MxNext]_mxVars
  PROVE  MxInv'
<1>1. ASSUME \/ CreateStream \/ CreateXmlReader \/ SetProperty \/ SetInput
             \/ NodeFails \/ ReadStops \/ FreeAnswer \/ UNCHANGED mxVars
      PROVE  MxInv'
  <2>1. UNCHANGED <<answer, lastSent, arrayType, wszElement, output, idSent>>
    BY <1>1 DEF CreateStream, CreateXmlReader, SetProperty, SetInput, Prepare, NodeFails,
       ReadStops, FreeAnswer, mxVars
  <2> QED
    BY <2>1, OtherSteps
<1> QED
  BY <1>1, ElementStep, TextStep, EndStep DEF MxNext

(* Every record is printed with the texts that were sent last, its own if   *)
(* it has them, and every text under its own name, however many records the *)
(* answer has and wherever it breaks off.                                   *)
THEOREM MxAnswerPrintedAsSent ==
  ASSUME Arrays \subseteq Kinds
  PROVE  MxSpec => []PrintedAsSent
<1>1. MxInv /\ [MxNext]_mxVars => MxInv'
  BY PrintedStep
<1>2. MxInv => PrintedAsSent
  BY DEF MxInv
<1> QED
  BY PrintedInit, <1>1, <1>2, PTL DEF MxSpec

-----------------------------------------------------------------------------
LEMMA HeldStep ==
  ASSUME HeldInv, [MxNext]_mxVars
  PROVE  HeldInv'
<1>1. ASSUME UNCHANGED resources PROVE HeldInv'
  BY <1>1 DEF HeldInv, resources
<1>2. ASSUME NEW result, CleanUp(result), mxPc \in {"stream", "reader", "property", "input", "read"}
      PROVE  HeldInv'
  BY <1>2 DEF HeldInv, CleanUp
<1>3. ASSUME CreateStream \/ CreateXmlReader \/ SetProperty \/ SetInput PROVE HeldInv'
  <2>1. \/ mxPc = "stream" /\ mxPc' = "reader" /\ held' = held \cup {"stream"}
        \/ mxPc = "reader" /\ mxPc' = "property" /\ held' = held \cup {"reader"}
        \/ mxPc = "property" /\ mxPc' = "input" /\ held' = held \cup {}
        \/ mxPc = "input" /\ mxPc' = "read" /\ held' = held \cup {}
        \/ CleanUp("failed") /\ mxPc \in {"stream", "reader", "property", "input", "read"}
    BY <1>3 DEF CreateStream, CreateXmlReader, SetProperty, SetInput, Prepare
  <2> QED
    BY <1>2, <2>1 DEF HeldInv
<1>4. ASSUME NodeFails \/ ReadStops PROVE HeldInv'
  BY <1>2, <1>4 DEF NodeFails, ReadStops
<1>5. ASSUME FreeAnswer PROVE HeldInv'
  BY <1>5 DEF FreeAnswer, HeldInv
<1>6. ASSUME \/ \E name \in Names : ReadElement(name)
             \/ ReadText \/ ReadEndElement \/ UNCHANGED mxVars
      PROVE  HeldInv'
  BY <1>1, <1>6 DEF ReadElement, ReadText, ReadEndElement, mxVars
<1> QED
  BY <1>3, <1>4, <1>5, <1>6 DEF MxNext

(* Whatever fails, the reader goes before its stream and the stream before  *)
(* the memory it reads, and at the end nothing is left.                     *)
THEOREM MxAnswerReleased == MxSpec => []AnswerReleased
<1>1. MxInit => HeldInv
  BY DEF MxInit, HeldInv
<1>2. HeldInv /\ [MxNext]_mxVars => HeldInv'
  BY HeldStep
<1>3. HeldInv => AnswerReleased
  BY DEF HeldInv, AnswerReleased
<1> QED
  BY <1>1, <1>2, <1>3, PTL DEF MxSpec

-----------------------------------------------------------------------------
(* How an answer is cut into fields.  The reference of AnswerLines is a     *)
(* matter of the format and the answer alone; here it is stated as such.    *)
Received   == {Lines!Letter, Lines!Sep, Lines!Eol}
Characters == Received \cup {Lines!Nul}

BreaksIn(form) == IF form = "track" THEN {Lines!Sep} ELSE {Lines!Sep, Lines!Eol}
EndsOf(form, a) ==
  {p \in DOMAIN a : a[p] \in BreaksIn(form)}
    \cup (IF form = "track" THEN {Len(a) + 1} ELSE {})
StartIn(form, a, p) ==
  IF \E q \in EndsOf(form, a) : q < p
  THEN 1 + CHOOSE q \in EndsOf(form, a) : q < p /\ \A r \in EndsOf(form, a) : r < p => r <= q
  ELSE 1
LinesBefore(form, a, p) == {q \in EndsOf(form, a) : q < p /\ a[q] = Lines!Eol}
LineIn(form, a, p) ==
  IF form = "track" THEN 0 ELSE 1 + Cardinality(LinesBefore(form, a, p))
EndedIn(form, a, p) == form = "track" \/ \E q \in EndsOf(form, a) : q >= p /\ a[q] = Lines!Eol
CountsIn(form, a, p) ==
  EndedIn(form, a, p) /\ IF form = "records" THEN LineIn(form, a, p) > 1
                         ELSE ~(StartIn(form, a, p) = p)
SameLine(form, a, p) ==
  {q \in EndsOf(form, a) :
     q <= p /\ LineIn(form, a, q) = LineIn(form, a, p) /\ CountsIn(form, a, q)}
RecordOf(form, a, p) ==
  IF form = "records" THEN LineIn(form, a, p) - 1 ELSE LineIn(form, a, p)
FieldAt(form, a, p) ==
  [record |-> RecordOf(form, a, p), column |-> Cardinality(SameLine(form, a, p)),
   from   |-> StartIn(form, a, p), to |-> p]
Counted(form, a) == {q \in EndsOf(form, a) : CountsIn(form, a, q)}
OnlyLine(form, a) ==
  /\ form = "records" /\ a[Len(a)] = Lines!Eol
  /\ Cardinality({p \in EndsOf(form, a) : a[p] = Lines!Eol}) = 1

(* The fields before a place, and the columns of a line before a place.     *)
CountedBelow(form, a, p) == {q \in Counted(form, a) : q < p}
FieldsBelow(form, a, p) == {FieldAt(form, a, q) : q \in CountedBelow(form, a, p)}
Columns(form, a, l, p) == {q \in Counted(form, a) : l <= q /\ q < p}

(* A line from l to its end E, in the answer.                               *)
LineAt(form, a, l, E) ==
  /\ form \in Lines!Formats /\ a \in Seq(Received) /\ l \in Nat /\ E \in Nat
  /\ 1 <= l /\ l <= E
  /\ form = "track" => l = 1 /\ E = Len(a) + 1
  /\ form # "track" => /\ E <= Len(a) /\ a[E] = Lines!Eol
                       /\ \A r \in Nat : l <= r /\ r < E => a[r] # Lines!Eol
                       /\ l = 1 \/ a[l - 1] = Lines!Eol
Printed(form, a, l) == form = "records" => LineIn(form, a, l) > 1

(* The buffer: the answer with a NUL behind it; what it still holds of it.  *)
Buffer(a, b) == b \in Seq(Characters) /\ Len(b) = Len(a) + 1 /\ b[Len(a) + 1] = Lines!Nul
Uncut(a, b, p) == \A r \in Nat : p <= r /\ r <= Len(a) => b[r] = a[r]
Closed(a, b, p, E) == b[E] = Lines!Nul /\ \A r \in Nat : p <= r /\ r < E => b[r] = a[r]

(* A field of the line that starts at t and ends at s: it was cut off, and  *)
(* the static holds where the next one starts.                              *)
NoEnds(form, a, p, q) == \A r \in Nat : p <= r /\ r < q => r \notin EndsOf(form, a)
Begins(form, a, t) == t = 1 \/ t - 1 \in EndsOf(form, a)
Token(form, a, E, t, s) ==
  /\ s \in Nat /\ t <= s /\ s <= E /\ s \in EndsOf(form, a)
  /\ NoEnds(form, a, t, s) /\ Begins(form, a, t)
  /\ form # "records" => t < s
Remembers(form, E, s, l) ==
  l = IF form = "records" THEN (IF s = E THEN 0 ELSE s)
      ELSE (IF s = E THEN E ELSE s + 1)
CutOff(form, a, b, E, t, s, l) ==
  /\ Token(form, a, E, t, s) /\ Remembers(form, E, s, l)
  /\ Uncut(a, b, E + 1)
  /\ b[s] = Lines!Nul /\ \A r \in Nat : t <= r /\ r < s => b[r] = a[r]
  /\ s < E => Closed(a, b, s + 1, E)

(* While a line is cut: the fields before the token were printed, and the   *)
(* token is the next one -- or there is none left.                          *)
InLine(form, a, b, l, E, t, c, st, fs) ==
  \/ /\ t # 0 /\ t \in Nat /\ l <= t /\ t <= E
     /\ fs = FieldsBelow(form, a, t) /\ c = Cardinality(Columns(form, a, l, t))
     /\ \E s \in Nat : CutOff(form, a, b, E, t, s, st)
  \/ /\ t = 0
     /\ fs = FieldsBelow(form, a, E + 1)
     /\ st \in {0, E} /\ Uncut(a, b, E + 1)

-----------------------------------------------------------------------------
(* Where fields end.                                                        *)
LEMMA EndsFacts ==
  ASSUME NEW form, NEW a \in Seq(Received)
  PROVE  /\ Len(a) \in Nat
         /\ \A p \in EndsOf(form, a) : p \in Nat /\ 1 <= p /\ p <= Len(a) + 1
         /\ \A p \in Nat : p \in EndsOf(form, a) <=>
              \/ 1 <= p /\ p <= Len(a) /\ a[p] \in BreaksIn(form)
              \/ form = "track" /\ p = Len(a) + 1
<1>1. Len(a) \in Nat /\ DOMAIN a = 1..Len(a)
  OBVIOUS
<1>2. PICK n \in Nat : n = Len(a)
  BY <1>1
<1> QED
  BY <1>1, <1>2 DEF EndsOf

LEMMA EndsFinite ==
  ASSUME NEW form, NEW a \in Seq(Received), NEW S, S \subseteq EndsOf(form, a)
  PROVE  IsFiniteSet(S) /\ Cardinality(S) \in Nat
<1>1. PICK n \in Nat : n = Len(a)
  BY EndsFacts
<1>2. S \subseteq 1..(n + 1)
  BY <1>1, EndsFacts
<1>3. IsFiniteSet(1..(n + 1))
  BY FS_Interval
<1> QED
  BY <1>2, <1>3, FS_Subset, FS_CardinalityType

(* A line ends where a field ends, and before it only separators do.        *)
LEMMA LineFacts ==
  ASSUME NEW form, NEW a, NEW l, NEW E, LineAt(form, a, l, E)
  PROVE  /\ E \in EndsOf(form, a) /\ Begins(form, a, l) /\ E <= Len(a) + 1 /\ Len(a) \in Nat
         /\ \A r \in Nat : l <= r /\ r < E =>
              /\ a[r] \in Received /\ 1 <= r /\ r <= Len(a)
              /\ r \in EndsOf(form, a) <=> a[r] = Lines!Sep
<1>1. PICK n \in Nat : n = Len(a)
  BY EndsFacts DEF LineAt
<1>2. l \in Nat /\ E \in Nat /\ 1 <= l /\ l <= E /\ a \in Seq(Received)
  BY DEF LineAt
<1>3. form \in {"records", "replays", "track"}
  BY DEF LineAt, Lines!Formats
<1>4. \A p \in Nat : p \in EndsOf(form, a) <=>
        \/ 1 <= p /\ p <= n /\ a[p] \in BreaksIn(form)
        \/ form = "track" /\ p = n + 1
  BY <1>1, <1>2, EndsFacts
<1>5. \A r \in Nat : 1 <= r /\ r <= n => a[r] \in Received
  BY <1>1, <1>2
<1>6. CASE form = "track"
  <2>1. l = 1 /\ E = n + 1
    BY <1>1, <1>6 DEF LineAt
  <2>2. \A r \in Nat : 1 <= r /\ r <= n => (r \in EndsOf(form, a) <=> a[r] = Lines!Sep)
    BY <1>4, <1>6 DEF BreaksIn
  <2> QED
    BY <1>1, <1>4, <1>5, <1>6, <2>1, <2>2 DEF Begins
<1>7. CASE form # "track"
  <2>1. /\ E <= n /\ a[E] = Lines!Eol
        /\ \A r \in Nat : l <= r /\ r < E => a[r] # Lines!Eol
        /\ l = 1 \/ a[l - 1] = Lines!Eol
    BY <1>1, <1>7 DEF LineAt
  <2>2. \A p \in Nat : 1 <= p /\ p <= n /\ a[p] = Lines!Eol => p \in EndsOf(form, a)
    BY <1>4, <1>7 DEF BreaksIn
  <2>3. E \in EndsOf(form, a)
    BY <1>2, <2>1, <2>2
  <2>4. Begins(form, a, l)
    <3>1. CASE l = 1
      BY <3>1 DEF Begins
    <3>2. CASE l # 1
      <4>1. l - 1 \in Nat /\ 1 <= l - 1 /\ l - 1 <= n
        BY <1>2, <2>1, <3>2
      <4> QED
        BY <2>1, <2>2, <3>2, <4>1 DEF Begins
    <3> QED
      BY <3>1, <3>2
  <2>5. ASSUME NEW r \in Nat, l <= r, r < E
        PROVE  /\ a[r] \in Received /\ 1 <= r /\ r <= n
               /\ r \in EndsOf(form, a) <=> a[r] = Lines!Sep
    <3>1. 1 <= r /\ r <= n
      BY <1>2, <2>1, <2>5
    <3>2. a[r] # Lines!Eol
      BY <2>1, <2>5
    <3> QED
      BY <1>4, <1>5, <1>7, <3>1, <3>2 DEF BreaksIn
  <2> QED
    <3>1. E <= Len(a) + 1 /\ Len(a) \in Nat
      BY <1>1, <1>2, <2>1
    <3> QED
      BY <1>1, <2>3, <2>4, <2>5, <3>1
<1> QED
  BY <1>6, <1>7

(* A field starts behind the end before it.                                 *)
LEMMA StartFact ==
  ASSUME NEW form, NEW a \in Seq(Received), NEW t \in Nat, NEW s \in Nat,
         1 <= t, t <= s, NoEnds(form, a, t, s), Begins(form, a, t)
  PROVE  StartIn(form, a, s) = t
<1>1. \A p \in EndsOf(form, a) : p \in Nat /\ 1 <= p
  BY EndsFacts
<1>2. \A r \in EndsOf(form, a) : r < s => r <= t - 1
  BY <1>1 DEF NoEnds
<1>3. CASE t = 1
  <2>1. ~ \E q \in EndsOf(form, a) : q < s
    BY <1>1, <1>2, <1>3
  <2> QED
    BY <1>3, <2>1 DEF StartIn
<1>4. CASE t # 1
  <2>1. t - 1 \in EndsOf(form, a) /\ t - 1 < s
    BY <1>4 DEF Begins
  <2> DEFINE IsLast(q) == q < s /\ \A r \in EndsOf(form, a) : r < s => r <= q
  <2>2. IsLast(t - 1)
    BY <1>2, <2>1
  <2>3. ASSUME NEW q \in EndsOf(form, a), IsLast(q) PROVE q = t - 1
    <3>1. q \in Nat /\ q <= t - 1
      BY <1>1, <1>2, <2>3
    <3>2. t - 1 <= q
      BY <2>1, <2>3
    <3> QED
      BY <3>1, <3>2
  <2>4. PICK c : c = CHOOSE q \in EndsOf(form, a) : IsLast(q)
    OBVIOUS
  <2>5. c \in EndsOf(form, a) /\ IsLast(c)
    BY <2>1, <2>2, <2>4
  <2>6. c = t - 1
    BY <2>3, <2>5
  <2>7. StartIn(form, a, s) = 1 + c
    BY <2>1, <2>4 DEF StartIn
  <2> QED
    BY <2>6, <2>7
<1> QED
  BY <1>3, <1>4

-----------------------------------------------------------------------------
(* The number of a line.                                                    *)
LEMMA LineType ==
  ASSUME NEW form, NEW a \in Seq(Received), NEW p
  PROVE  /\ IsFiniteSet(LinesBefore(form, a, p))
         /\ Cardinality(LinesBefore(form, a, p)) \in Nat /\ LineIn(form, a, p) \in Nat
<1>1. LinesBefore(form, a, p) \subseteq EndsOf(form, a)
  BY DEF LinesBefore
<1>2. IsFiniteSet(LinesBefore(form, a, p)) /\ Cardinality(LinesBefore(form, a, p)) \in Nat
  BY <1>1, EndsFinite
<1> QED
  BY <1>2 DEF LineIn

LEMMA FirstLine ==
  ASSUME NEW form, NEW a \in Seq(Received), form # "track"
  PROVE  LineIn(form, a, 1) = 1
<1>1. LinesBefore(form, a, 1) = {}
  BY EndsFacts DEF LinesBefore
<1>2. PICK S : S = LinesBefore(form, a, 1)
  OBVIOUS
<1>3. IsFiniteSet(S) /\ S = {}
  BY <1>1, <1>2, FS_EmptySet
<1>4. Cardinality(S) = 0
  BY <1>3, FS_EmptySet
<1> QED
  BY <1>2, <1>4 DEF LineIn

LEMMA SameNumber ==
  ASSUME NEW form, NEW a, NEW l, NEW E, LineAt(form, a, l, E), NEW p \in Nat, l <= p, p <= E
  PROVE  LineIn(form, a, p) = LineIn(form, a, l)
<1>1. CASE form = "track"
  BY <1>1 DEF LineIn
<1>2. CASE form # "track"
  <2>1. /\ a \in Seq(Received) /\ l \in Nat /\ E \in Nat
        /\ \A r \in Nat : l <= r /\ r < E => a[r] # Lines!Eol
    BY <1>2 DEF LineAt
  <2>2. \A q \in EndsOf(form, a) : q \in Nat
    BY <2>1, EndsFacts
  <2>3. LinesBefore(form, a, p) = LinesBefore(form, a, l)
    BY <2>1, <2>2 DEF LinesBefore
  <2> QED
    BY <2>3 DEF LineIn
<1> QED
  BY <1>1, <1>2

LEMMA NextNumber ==
  ASSUME NEW form, NEW a, NEW l, NEW E, LineAt(form, a, l, E), form # "track"
  PROVE  LineIn(form, a, E + 1) = LineIn(form, a, l) + 1
<1>1. /\ a \in Seq(Received) /\ l \in Nat /\ E \in Nat /\ l <= E /\ a[E] = Lines!Eol
      /\ \A r \in Nat : l <= r /\ r < E => a[r] # Lines!Eol
  BY DEF LineAt
<1>2. E \in EndsOf(form, a)
  BY LineFacts
<1>3. \A q \in EndsOf(form, a) : q \in Nat
  BY <1>1, EndsFacts
<1>4. LinesBefore(form, a, E + 1) = LinesBefore(form, a, l) \cup {E}
  <2>1. ASSUME NEW q
        PROVE  q \in LinesBefore(form, a, E + 1) <=> q \in LinesBefore(form, a, l) \/ q = E
    <3>1. CASE q \in EndsOf(form, a)
      <4>1. q \in Nat
        BY <1>3, <3>1
      <4>2. a[q] = Lines!Eol => (q < E + 1 <=> q < l \/ q = E)
        BY <1>1, <4>1
      <4> QED
        BY <1>1, <3>1, <4>2 DEF LinesBefore
    <3>2. CASE q \notin EndsOf(form, a)
      BY <1>2, <3>2 DEF LinesBefore
    <3> QED
      BY <3>1, <3>2
  <2> QED
    BY <2>1
<1>5. E \notin LinesBefore(form, a, l)
  BY <1>1 DEF LinesBefore
<1>6. PICK S : S = LinesBefore(form, a, l)
  OBVIOUS
<1>7. IsFiniteSet(S) /\ Cardinality(S) \in Nat
  BY <1>1, <1>6, LineType
<1>8. Cardinality(S \cup {E}) = Cardinality(S) + 1
  BY <1>5, <1>6, <1>7, FS_AddElement
<1> QED
  BY <1>4, <1>6, <1>7, <1>8 DEF LineIn

LEMMA EarlierNumber ==
  ASSUME NEW form, NEW a, NEW l, NEW E, LineAt(form, a, l, E), NEW q \in EndsOf(form, a), q < l
  PROVE  LineIn(form, a, q) # LineIn(form, a, l)
<1>1. a \in Seq(Received) /\ l \in Nat /\ l <= E
  BY DEF LineAt
<1>2. q \in Nat /\ 1 <= q
  BY <1>1, EndsFacts
<1>3. form # "track" /\ l # 1
  BY <1>1, <1>2 DEF LineAt
<1>4. a[l - 1] = Lines!Eol /\ l - 1 \in EndsOf(form, a)
  BY <1>3, LineFacts DEF LineAt, Begins
<1>5. LinesBefore(form, a, q) \cup {l - 1} \subseteq LinesBefore(form, a, l)
  <2>1. \A r \in EndsOf(form, a) : r \in Nat
    BY <1>1, EndsFacts
  <2>2. \A r \in EndsOf(form, a) : r < q => r < l
    BY <1>1, <1>2, <2>1
  <2>3. LinesBefore(form, a, q) \subseteq LinesBefore(form, a, l)
    BY <2>2 DEF LinesBefore
  <2>4. l - 1 < l
    BY <1>1
  <2>5. l - 1 \in LinesBefore(form, a, l)
    BY <1>4, <2>4 DEF LinesBefore
  <2> QED
    BY <2>3, <2>5
<1>6. l - 1 \notin LinesBefore(form, a, q)
  BY <1>1, <1>2 DEF LinesBefore
<1>7. PICK S : S = LinesBefore(form, a, q)
  OBVIOUS
<1>8. PICK T : T = LinesBefore(form, a, l)
  OBVIOUS
<1>9. IsFiniteSet(S) /\ Cardinality(S) \in Nat /\ IsFiniteSet(T) /\ Cardinality(T) \in Nat
  BY <1>1, <1>7, <1>8, LineType
<1>10. Cardinality(S \cup {l - 1}) = Cardinality(S) + 1
  BY <1>6, <1>7, <1>9, FS_AddElement
<1>11. Cardinality(S \cup {l - 1}) <= Cardinality(T)
  BY <1>5, <1>7, <1>8, <1>9, FS_Subset
<1>12. LineIn(form, a, q) = 1 + Cardinality(S) /\ LineIn(form, a, l) = 1 + Cardinality(T)
  BY <1>3, <1>7, <1>8 DEF LineIn
<1> QED
  BY <1>9, <1>10, <1>11, <1>12

-----------------------------------------------------------------------------
(* Which fields count, and their columns.                                   *)
LEMMA TokenCounts ==
  ASSUME NEW form, NEW a, NEW l, NEW E, LineAt(form, a, l, E), Printed(form, a, l),
         NEW t \in Nat, l <= t, NEW s, Token(form, a, E, t, s)
  PROVE  s \in Counted(form, a) /\ StartIn(form, a, s) = t
<1>1. a \in Seq(Received) /\ l \in Nat /\ E \in Nat /\ 1 <= l
  BY DEF LineAt
<1>2. /\ s \in Nat /\ t <= s /\ s <= E /\ s \in EndsOf(form, a)
      /\ NoEnds(form, a, t, s) /\ Begins(form, a, t)
      /\ form # "records" => t < s
  BY DEF Token
<1>3. StartIn(form, a, s) = t
  BY <1>1, <1>2, StartFact
<1>4. EndedIn(form, a, s)
  BY <1>2, LineFacts DEF EndedIn, LineAt
<1>5. LineIn(form, a, s) = LineIn(form, a, l)
  BY <1>1, <1>2, SameNumber
<1>6. CountsIn(form, a, s)
  BY <1>2, <1>3, <1>4, <1>5 DEF CountsIn, Printed
<1> QED
  BY <1>2, <1>3, <1>6 DEF Counted

LEMMA EmptyCountsNot ==
  ASSUME NEW form, NEW a \in Seq(Received), form # "records",
         NEW q \in Nat, 1 <= q, Begins(form, a, q)
  PROVE  q \notin Counted(form, a)
<1>1. NoEnds(form, a, q, q)
  BY DEF NoEnds
<1>2. StartIn(form, a, q) = q
  BY <1>1, StartFact
<1> QED
  BY <1>2 DEF Counted, CountsIn

LEMMA ColumnsOfField ==
  ASSUME NEW form, NEW a, NEW l, NEW E, LineAt(form, a, l, E),
         NEW s \in Nat, l <= s, s <= E
  PROVE  SameLine(form, a, s) = Columns(form, a, l, s + 1)
<1>1. a \in Seq(Received) /\ l \in Nat /\ E \in Nat
  BY DEF LineAt
<1>2. LineIn(form, a, s) = LineIn(form, a, l)
  BY SameNumber
<1>3. \A q \in EndsOf(form, a) : q \in Nat
  BY <1>1, EndsFacts
<1>4. ASSUME NEW q \in EndsOf(form, a)
      PROVE  q <= s /\ LineIn(form, a, q) = LineIn(form, a, s) <=> l <= q /\ q < s + 1
  <2>1. q \in Nat
    BY <1>3
  <2>2. CASE q < l
    BY <1>1, <1>2, <2>1, <2>2, EarlierNumber
  <2>3. CASE ~ (q < l)
    <3>1. l <= q
      BY <1>1, <2>1, <2>3
    <3>2. q <= s => LineIn(form, a, q) = LineIn(form, a, l)
      <4> SUFFICES ASSUME q <= s PROVE LineIn(form, a, q) = LineIn(form, a, l)
        OBVIOUS
      <4>1. q <= E
        BY <1>1, <2>1
      <4> QED
        BY <2>1, <3>1, <4>1, SameNumber
    <3> QED
      BY <1>2, <2>1, <3>1, <3>2
  <2> QED
    BY <2>2, <2>3
<1> QED
  BY <1>4 DEF SameLine, Columns, Counted

(* A token adds one field and one column.                                   *)
LEMMA TokenAdds ==
  ASSUME NEW form, NEW a, NEW l, NEW E, LineAt(form, a, l, E), Printed(form, a, l),
         NEW t \in Nat, l <= t, NEW s, Token(form, a, E, t, s)
  PROVE  /\ FieldsBelow(form, a, s + 1) = FieldsBelow(form, a, t) \cup {FieldAt(form, a, s)}
         /\ Cardinality(Columns(form, a, l, s + 1)) = Cardinality(Columns(form, a, l, t)) + 1
         /\ Cardinality(Columns(form, a, l, t)) \in Nat
<1>1. a \in Seq(Received) /\ l \in Nat
  BY DEF LineAt
<1>2. s \in Nat /\ t <= s /\ NoEnds(form, a, t, s)
  BY DEF Token
<1>3. s \in Counted(form, a)
  BY TokenCounts
<1>4. \A q \in Counted(form, a) : q \in Nat /\ q \in EndsOf(form, a)
  BY <1>1, EndsFacts DEF Counted
<1>5. \A q \in Counted(form, a) : q < s + 1 <=> q < t \/ q = s
  BY <1>2, <1>4 DEF NoEnds
<1>6. CountedBelow(form, a, s + 1) = CountedBelow(form, a, t) \cup {s}
  BY <1>3, <1>5 DEF CountedBelow
<1>7. FieldsBelow(form, a, s + 1) = FieldsBelow(form, a, t) \cup {FieldAt(form, a, s)}
  BY <1>6 DEF FieldsBelow
<1>8. Columns(form, a, l, s + 1) = Columns(form, a, l, t) \cup {s}
  <2>1. l <= s
    BY <1>1, <1>2
  <2>2. ASSUME NEW q
        PROVE  q \in Columns(form, a, l, s + 1) <=> q \in Columns(form, a, l, t) \/ q = s
    BY <1>3, <1>5, <2>1 DEF Columns
  <2> QED
    BY <2>2
<1>9. PICK S : S = Columns(form, a, l, t)
  OBVIOUS
<1>10. IsFiniteSet(S) /\ Cardinality(S) \in Nat
  <2>1. S \subseteq EndsOf(form, a)
    BY <1>4, <1>9 DEF Columns
  <2> QED
    BY <1>1, <2>1, EndsFinite
<1>11. s \notin S
  BY <1>2, <1>9 DEF Columns
<1>12. Cardinality(S \cup {s}) = Cardinality(S) + 1
  BY <1>10, <1>11, FS_AddElement
<1> QED
  BY <1>7, <1>8, <1>9, <1>10, <1>12

(* Where nothing counts, nothing is added.                                  *)
NoneCounts(form, a, p, q) == \A r \in Nat : p <= r /\ r < q => r \notin Counted(form, a)
LEMMA NothingAdded ==
  ASSUME NEW form, NEW a \in Seq(Received), NEW l \in Nat, NEW p \in Nat, NEW q \in Nat,
         p <= q, NoneCounts(form, a, p, q)
  PROVE  /\ FieldsBelow(form, a, q) = FieldsBelow(form, a, p)
         /\ Columns(form, a, l, q) = Columns(form, a, l, p)
<1>1. \A r \in Counted(form, a) : r \in Nat
  BY EndsFacts DEF Counted
<1>2. \A r \in Counted(form, a) : r < q <=> r < p
  BY <1>1 DEF NoneCounts
<1>3. CountedBelow(form, a, q) = CountedBelow(form, a, p)
  BY <1>2 DEF CountedBelow
<1> QED
  BY <1>2, <1>3 DEF FieldsBelow, Columns

LEMMA NoColumns ==
  ASSUME NEW form, NEW a \in Seq(Received), NEW l \in Nat
  PROVE  Cardinality(Columns(form, a, l, l)) = 0
<1>1. Columns(form, a, l, l) = {}
  <2>1. \A r \in Counted(form, a) : r \in Nat
    BY EndsFacts DEF Counted
  <2> QED
    BY <2>1 DEF Columns
<1> QED
  BY <1>1, FS_EmptySet

-----------------------------------------------------------------------------
(* Searching the buffer.                                                    *)
IsFirst(b, chars, p, q) ==
  /\ q \in Nat /\ p <= q /\ b[q] \in chars
  /\ \A r \in Nat : p <= r /\ r < q => b[r] \notin chars
FirstIn(b, chars, p) ==
  CHOOSE q \in p..Len(b) :
    /\ b[q] \in chars
    /\ \A r \in p..(q - 1) : b[r] \notin chars

LEMMA FirstExists ==
  ASSUME NEW b, NEW chars, NEW p \in Nat, NEW n \in Nat, p <= n, b[n] \in chars
  PROVE  \E q \in Nat : IsFirst(b, chars, p, q) /\ q <= n
<1> DEFINE S == {q \in Nat : p <= q /\ b[q] \in chars}
<1>1. S \subseteq Nat /\ S # {} /\ n \in S
  OBVIOUS
<1>2. \E m \in S : \A k \in S : m <= k
  <2> HIDE DEF S
  <2> QED
    BY <1>1, LeastNatural
<1>3. PICK m \in S : \A k \in S : m <= k
  BY <1>2
<1>4. m \in Nat /\ p <= m /\ b[m] \in chars /\ m <= n
  BY <1>1, <1>3
<1>5. \A r \in Nat : p <= r /\ r < m => b[r] \notin chars
  BY <1>3, <1>4
<1> QED
  BY <1>4, <1>5 DEF IsFirst

LEMMA FirstUnique ==
  ASSUME NEW b, NEW chars, NEW p \in Nat, NEW q, IsFirst(b, chars, p, q),
         Len(b) \in Nat, q <= Len(b)
  PROVE  FirstIn(b, chars, p) = q
<1> DEFINE Is(k) == b[k] \in chars /\ \A r \in p..(k - 1) : b[r] \notin chars
<1>1. /\ q \in Nat /\ p <= q /\ b[q] \in chars
      /\ \A r \in Nat : p <= r /\ r < q => b[r] \notin chars
  BY DEF IsFirst
<1>2. q \in p..Len(b)
  BY <1>1
<1>3. Is(q)
  BY <1>1
<1>4. ASSUME NEW k \in p..Len(b), Is(k) PROVE k = q
  <2>1. k \in Nat /\ p <= k
    BY <1>4
  <2>2. ~ (k < q)
    BY <1>1, <1>4, <2>1
  <2>3. ~ (q < k)
    <3> SUFFICES ASSUME q < k PROVE FALSE
      OBVIOUS
    <3>1. q \in p..(k - 1)
      BY <1>1, <2>1
    <3> QED
      BY <1>1, <1>4, <3>1
  <2> QED
    BY <1>1, <2>1, <2>2, <2>3
<1>5. PICK c : c = CHOOSE k \in p..Len(b) : Is(k)
  OBVIOUS
<1>6. c \in p..Len(b) /\ Is(c)
  BY <1>2, <1>3, <1>5
<1>7. c = q
  BY <1>4, <1>6
<1>8. FirstIn(b, chars, p) = c
  BY <1>5 DEF FirstIn
<1> QED
  BY <1>7, <1>8

(* What is found is the first one, if there is one.                         *)
LEMMA FirstFound ==
  ASSUME NEW b, Len(b) \in Nat, NEW chars, NEW p \in Nat, NEW n \in Nat,
         p <= n, n <= Len(b), b[n] \in chars
  PROVE  IsFirst(b, chars, p, FirstIn(b, chars, p)) /\ FirstIn(b, chars, p) <= n
<1>1. PICK q \in Nat : IsFirst(b, chars, p, q) /\ q <= n
  BY FirstExists
<1>2. q <= Len(b)
  BY <1>1
<1>3. FirstIn(b, chars, p) = q
  BY <1>1, <1>2, FirstUnique
<1> QED
  BY <1>1, <1>3

(* Cutting writes a NUL to one place.                                       *)
Cut(a, b, q, c) ==
  /\ a \in Seq(Received) /\ Buffer(a, b) /\ q \in Nat /\ 1 <= q /\ q <= Len(a) + 1
  /\ c = [b EXCEPT ![q] = Lines!Nul]
IsCut(n, b, q, c) ==
  c[q] = Lines!Nul /\ \A r \in Nat : 1 <= r /\ r <= n + 1 /\ r # q => c[r] = b[r]
LEMMA CutFacts ==
  ASSUME NEW a, NEW b, NEW q, NEW c, Cut(a, b, q, c)
  PROVE  Buffer(a, c) /\ IsCut(Len(a), b, q, c)
<1> USE DEF Cut
<1>1. PICK n \in Nat : n = Len(a)
  BY EndsFacts
<1>2. b \in Seq(Characters) /\ Len(b) = n + 1 /\ b[n + 1] = Lines!Nul
  BY <1>1 DEF Buffer
<1>3. q \in 1..Len(b) /\ Lines!Nul \in Characters
  BY <1>1, <1>2 DEF Characters
<1>4. c \in Seq(Characters) /\ Len(c) = Len(b)
  BY <1>2, <1>3, ExceptSeq
<1>5. \A r \in 1..Len(b) : c[r] = IF r = q THEN Lines!Nul ELSE b[r]
  BY <1>2, <1>3, ExceptSeq
<1>6. \A r \in Nat : 1 <= r /\ r <= n + 1 => c[r] = IF r = q THEN Lines!Nul ELSE b[r]
  BY <1>2, <1>5
<1>7. c[n + 1] = Lines!Nul
  BY <1>2, <1>6
<1>8. c[q] = Lines!Nul
  BY <1>1, <1>6
<1> QED
  BY <1>1, <1>2, <1>4, <1>6, <1>7, <1>8 DEF Buffer, IsCut

LEMMA CutKeeps ==
  ASSUME NEW a, NEW b, NEW q, NEW c, Cut(a, b, q, c), NEW p \in Nat, Uncut(a, b, p), q < p
  PROVE  Uncut(a, c, p)
<1>1. PICK n \in Nat : n = Len(a)
  BY EndsFacts DEF Cut
<1>2. \A r \in Nat : 1 <= r /\ r <= n + 1 /\ r # q => c[r] = b[r]
  BY <1>1, CutFacts DEF IsCut
<1>3. q \in Nat /\ 1 <= q
  BY DEF Cut
<1> QED
  BY <1>1, <1>2, <1>3 DEF Uncut

-----------------------------------------------------------------------------
(* The tokenizers.                                                          *)
EstrtokFrom(b, p, t, st, c) ==
  LET stop == FirstIn(b, {Lines!Sep, Lines!Nul}, p)
  IN  /\ t = p
      /\ st = IF b[stop] = Lines!Nul THEN Lines!NULL ELSE stop
      /\ c = [b EXCEPT ![stop] = Lines!Nul]
StrtokFrom(b, p, t, st, c) ==
  LET start == FirstIn(b, {Lines!Letter, Lines!Eol, Lines!Nul}, p)
      stop  == FirstIn(b, {Lines!Sep, Lines!Nul}, start)
  IN  IF b[start] = Lines!Nul
      THEN t = Lines!NULL /\ st = start /\ c = b
      ELSE /\ t = start
           /\ st = IF b[stop] = Lines!Nul THEN stop ELSE stop + 1
           /\ c = [b EXCEPT ![stop] = Lines!Nul]
TokenizeFrom(form, b, p, t, st, c) ==
  IF form = "records" THEN EstrtokFrom(b, p, t, st, c) ELSE StrtokFrom(b, p, t, st, c)

(* The next field from p on, or none.                                       *)
NextField(form, a, c, E, p, t, st) ==
  /\ Buffer(a, c)
  /\ \/ t = 0 /\ st \in {0, E} /\ Uncut(a, c, E + 1) /\ NoneCounts(form, a, p, E + 1)
     \/ /\ t # 0 /\ t \in Nat /\ p <= t /\ t <= E /\ NoneCounts(form, a, p, t)
        /\ \E s \in Nat : CutOff(form, a, c, E, t, s, st)

Distinct == Lines!Nul \notin Received /\ Lines!Sep # Lines!Letter /\ Lines!Sep # Lines!Eol
LEMMA DistinctCharacters == Distinct
BY DEF Distinct, Received, Lines!Letter, Lines!Sep, Lines!Eol, Lines!Nul

(* The state of a line when the search for a field starts at p.             *)
Ready(form, a, b, l, E, p) ==
  /\ LineAt(form, a, l, E) /\ Buffer(a, b) /\ Uncut(a, b, E + 1)
  /\ p \in Nat /\ l <= p /\ p <= E /\ Begins(form, a, p) /\ Closed(a, b, p, E)

LEMMA ReadyFacts ==
  ASSUME NEW form, NEW a, NEW b, NEW l, NEW E, NEW p, Ready(form, a, b, l, E, p)
  PROVE  /\ a \in Seq(Received) /\ l \in Nat /\ E \in Nat /\ p \in Nat /\ Len(a) \in Nat
         /\ 1 <= l /\ l <= p /\ p <= E /\ E <= Len(a) + 1
         /\ Len(b) = Len(a) + 1 /\ b[E] = Lines!Nul /\ E \in EndsOf(form, a)
         /\ \A r \in Nat : p <= r /\ r < E =>
              b[r] = a[r] /\ a[r] \in Received /\ (r \in EndsOf(form, a) <=> a[r] = Lines!Sep)
<1>1. LineAt(form, a, l, E) /\ p \in Nat /\ l <= p /\ p <= E /\ Closed(a, b, p, E)
      /\ Len(b) = Len(a) + 1
  BY DEF Ready, Buffer
<1>2. a \in Seq(Received) /\ l \in Nat /\ E \in Nat /\ 1 <= l
  BY <1>1 DEF LineAt
<1>3. \A r \in Nat : l <= r /\ r < E =>
        a[r] \in Received /\ (r \in EndsOf(form, a) <=> a[r] = Lines!Sep)
  BY <1>1, LineFacts
<1>4. E \in EndsOf(form, a) /\ E <= Len(a) + 1 /\ Len(a) \in Nat
  BY <1>1, LineFacts
<1>5. ASSUME NEW r \in Nat, p <= r, r < E
      PROVE  b[r] = a[r] /\ a[r] \in Received /\ (r \in EndsOf(form, a) <=> a[r] = Lines!Sep)
  <2>1. l <= r
    BY <1>1, <1>2, <1>5
  <2>2. b[r] = a[r]
    BY <1>1, <1>5 DEF Closed
  <2> QED
    BY <1>3, <1>5, <2>1, <2>2
<1> QED
  BY <1>1, <1>2, <1>4, <1>5 DEF Closed

(* A token ends at the first separator or NUL.                              *)
LEMMA CutsToken ==
  ASSUME NEW form, NEW a, NEW b, NEW l, NEW E, NEW p, Ready(form, a, b, l, E, p),
         NEW t \in Nat, p <= t, t <= E, Begins(form, a, t),
         form # "records" => t < E /\ a[t] # Lines!Sep,
         NEW s, s = FirstIn(b, {Lines!Sep, Lines!Nul}, t),
         NEW c, c = [b EXCEPT ![s] = Lines!Nul], NEW st, Remembers(form, E, s, st)
  PROVE  CutOff(form, a, c, E, t, s, st) /\ Buffer(a, c)
<1>1. PICK n \in Nat : n = Len(a)
  BY ReadyFacts
<1>2. /\ a \in Seq(Received) /\ l \in Nat /\ E \in Nat /\ p \in Nat
      /\ 1 <= l /\ l <= p /\ p <= E /\ E <= n + 1
      /\ Len(b) = n + 1 /\ b[E] = Lines!Nul /\ E \in EndsOf(form, a)
  BY <1>1, ReadyFacts
<1>3. \A r \in Nat : p <= r /\ r < E =>
        b[r] = a[r] /\ a[r] \in Received /\ (r \in EndsOf(form, a) <=> a[r] = Lines!Sep)
  BY ReadyFacts
<1>4. IsFirst(b, {Lines!Sep, Lines!Nul}, t, s) /\ s <= E
  BY <1>1, <1>2, FirstFound
<1>5. /\ s \in Nat /\ t <= s /\ b[s] \in {Lines!Sep, Lines!Nul}
      /\ \A r \in Nat : t <= r /\ r < s => b[r] \notin {Lines!Sep, Lines!Nul}
  BY <1>4 DEF IsFirst
<1>6. s \in EndsOf(form, a)
  <2>1. CASE s = E
    BY <1>2, <2>1
  <2>2. CASE s # E
    <3>1. p <= s /\ s < E
      BY <1>2, <1>4, <1>5, <2>2
    <3> QED
      BY <1>3, <1>5, <3>1, DistinctCharacters DEF Distinct
  <2> QED
    BY <2>1, <2>2
<1>7. NoEnds(form, a, t, s)
  <2> SUFFICES ASSUME NEW r \in Nat, t <= r, r < s PROVE r \notin EndsOf(form, a)
    BY DEF NoEnds
  <2>1. p <= r /\ r < E
    BY <1>2, <1>4, <1>5
  <2> QED
    BY <1>3, <1>5, <2>1
<1>8. ASSUME form # "records" PROVE t < s
  <2>1. t < E /\ a[t] # Lines!Sep
    BY <1>8
  <2>2. b[t] = a[t] /\ a[t] \in Received
    BY <1>3, <2>1
  <2>3. s # t
    BY <1>5, <2>1, <2>2, DistinctCharacters DEF Distinct
  <2> QED
    BY <1>5, <2>3
<1>9. Token(form, a, E, t, s)
  BY <1>4, <1>5, <1>6, <1>7, <1>8 DEF Token
<1>10. Buffer(a, b) /\ Uncut(a, b, E + 1)
  BY DEF Ready
<1>11. 1 <= s /\ s <= n + 1
  BY <1>2, <1>4, <1>5
<1>16. Cut(a, b, s, c)
  BY <1>1, <1>2, <1>5, <1>10, <1>11 DEF Cut
<1>12. /\ Buffer(a, c) /\ c[s] = Lines!Nul
       /\ \A r \in Nat : 1 <= r /\ r <= n + 1 /\ r # s => c[r] = b[r]
  <2>1. Buffer(a, c) /\ IsCut(Len(a), b, s, c)
    BY <1>16, CutFacts
  <2> QED
    BY <1>1, <2>1 DEF IsCut
<1>13. Uncut(a, c, E + 1)
  <2>1. s < E + 1 /\ E + 1 \in Nat
    BY <1>2, <1>4, <1>5
  <2> QED
    BY <1>10, <1>16, <2>1, CutKeeps
<1>14. \A r \in Nat : t <= r /\ r < s => c[r] = a[r]
  <2> SUFFICES ASSUME NEW r \in Nat, t <= r, r < s PROVE c[r] = a[r]
    OBVIOUS
  <2>1. p <= r /\ r < E /\ 1 <= r /\ r <= n + 1 /\ r # s
    BY <1>2, <1>4, <1>5
  <2> QED
    BY <1>3, <1>12, <2>1
<1>15. ASSUME s < E PROVE Closed(a, c, s + 1, E)
  <2>1. c[E] = Lines!Nul
    <3>1. 1 <= E /\ E # s
      BY <1>2, <1>15
    <3> QED
      BY <1>2, <1>12, <3>1
  <2>2. ASSUME NEW r \in Nat, s + 1 <= r, r < E PROVE c[r] = a[r]
    <3>1. p <= r /\ 1 <= r /\ r <= n + 1 /\ r # s
      BY <1>2, <1>5, <2>2
    <3> QED
      BY <1>3, <1>12, <2>2, <3>1
  <2> QED
    BY <2>1, <2>2 DEF Closed
<1> QED
  BY <1>9, <1>12, <1>13, <1>14, <1>15 DEF CutOff

(* A NUL is found at the end of the line, and nowhere before it.            *)
LEMMA NulIsEnd ==
  ASSUME NEW form, NEW a, NEW b, NEW l, NEW E, NEW p, Ready(form, a, b, l, E, p),
         NEW s \in Nat, p <= s, s <= E
  PROVE  b[s] = Lines!Nul <=> s = E
<1>1. E \in Nat /\ b[E] = Lines!Nul
  BY ReadyFacts
<1>2. ASSUME s # E PROVE b[s] # Lines!Nul
  <2>1. s < E
    BY <1>1, <1>2
  <2>2. b[s] = a[s] /\ a[s] \in Received
    BY <2>1, ReadyFacts
  <2> QED
    BY <2>2, DistinctCharacters DEF Distinct
<1> QED
  BY <1>1, <1>2

LEMMA EstrtokFinds ==
  ASSUME NEW a, NEW b, NEW l, NEW E, NEW p, Ready("records", a, b, l, E, p),
         NEW t, NEW st, NEW c, EstrtokFrom(b, p, t, st, c)
  PROVE  NextField("records", a, c, E, p, t, st)
<1>1. /\ a \in Seq(Received) /\ l \in Nat /\ E \in Nat /\ p \in Nat
      /\ 1 <= l /\ l <= p /\ p <= E /\ E <= Len(a) + 1 /\ Len(a) \in Nat
      /\ Len(b) = Len(a) + 1 /\ b[E] = Lines!Nul
  BY ReadyFacts
<1>2. PICK s : s = FirstIn(b, {Lines!Sep, Lines!Nul}, p)
  OBVIOUS
<1>3. t = p /\ st = (IF b[s] = Lines!Nul THEN Lines!NULL ELSE s) /\ c = [b EXCEPT ![s] = Lines!Nul]
  BY <1>2 DEF EstrtokFrom
<1>4. IsFirst(b, {Lines!Sep, Lines!Nul}, p, s) /\ s <= E
  BY <1>1, <1>2, FirstFound
<1>5. s \in Nat /\ p <= s
  BY <1>4 DEF IsFirst
<1>6. b[s] = Lines!Nul <=> s = E
  BY <1>4, <1>5, NulIsEnd
<1>7. Remembers("records", E, s, st)
  BY <1>3, <1>6 DEF Remembers, Lines!NULL
<1>8. Begins("records", a, p)
  BY DEF Ready
<1>9. CutOff("records", a, c, E, p, s, st) /\ Buffer(a, c)
  <2>1. PICK form : form = "records"
    OBVIOUS
  <2>2. Ready(form, a, b, l, E, p) /\ Begins(form, a, p) /\ Remembers(form, E, s, st)
    BY <1>7, <1>8, <2>1
  <2>3. form # "records" => p < E /\ a[p] # Lines!Sep
    BY <2>1
  <2>4. p \in Nat /\ p <= p /\ p <= E
    BY <1>1
  <2>5. CutOff(form, a, c, E, p, s, st) /\ Buffer(a, c)
    BY <1>2, <1>3, <2>2, <2>3, <2>4, CutsToken
  <2> QED
    BY <2>1, <2>5
<1>10. NoneCounts("records", a, p, p)
  BY <1>1 DEF NoneCounts
<1>11. p # 0
  BY <1>1
<1>12. NoneCounts("records", a, p, t) /\ CutOff("records", a, c, E, t, s, st) /\ Buffer(a, c)
  BY <1>3, <1>9, <1>10
<1>13. t # 0 /\ t \in Nat /\ p <= t /\ t <= E
  BY <1>1, <1>3, <1>11
<1> QED
  BY <1>5, <1>12, <1>13 DEF NextField

LEMMA StrtokFinds ==
  ASSUME NEW form, form # "records",
         NEW a, NEW b, NEW l, NEW E, NEW p, Ready(form, a, b, l, E, p),
         NEW t, NEW st, NEW c, StrtokFrom(b, p, t, st, c)
  PROVE  NextField(form, a, c, E, p, t, st)
<1>1. /\ a \in Seq(Received) /\ l \in Nat /\ E \in Nat /\ p \in Nat
      /\ 1 <= l /\ l <= p /\ p <= E /\ E <= Len(a) + 1 /\ Len(a) \in Nat
      /\ Len(b) = Len(a) + 1 /\ b[E] = Lines!Nul
  BY ReadyFacts
<1>2. \A r \in Nat : p <= r /\ r < E =>
        b[r] = a[r] /\ a[r] \in Received /\ (r \in EndsOf(form, a) <=> a[r] = Lines!Sep)
  BY ReadyFacts
<1>3. PICK q : q = FirstIn(b, {Lines!Letter, Lines!Eol, Lines!Nul}, p)
  OBVIOUS
<1>4. PICK s : s = FirstIn(b, {Lines!Sep, Lines!Nul}, q)
  OBVIOUS
<1>5. IF b[q] = Lines!Nul
      THEN t = Lines!NULL /\ st = q /\ c = b
      ELSE /\ t = q
           /\ st = IF b[s] = Lines!Nul THEN s ELSE s + 1
           /\ c = [b EXCEPT ![s] = Lines!Nul]
  BY <1>3, <1>4 DEF StrtokFrom
<1>6. IsFirst(b, {Lines!Letter, Lines!Eol, Lines!Nul}, p, q) /\ q <= E
  BY <1>1, <1>3, FirstFound
<1>7. /\ q \in Nat /\ p <= q /\ b[q] \in {Lines!Letter, Lines!Eol, Lines!Nul}
      /\ \A r \in Nat : p <= r /\ r < q => b[r] \notin {Lines!Letter, Lines!Eol, Lines!Nul}
  BY <1>6 DEF IsFirst
<1>8. ASSUME NEW r \in Nat, p <= r, r < q PROVE r \in EndsOf(form, a)
  <2>1. r < E
    BY <1>1, <1>6, <1>7, <1>8
  <2>2. b[r] \in Received /\ b[r] \notin {Lines!Letter, Lines!Eol, Lines!Nul}
    BY <1>2, <1>7, <1>8, <2>1
  <2> QED
    BY <1>2, <1>8, <2>1, <2>2 DEF Received
<1>9. Begins(form, a, p)
  BY DEF Ready
<1>10. ASSUME NEW r \in Nat, p <= r, r <= q PROVE Begins(form, a, r)
  <2>1. CASE r = p
    BY <1>9, <2>1
  <2>2. CASE r # p
    <3>1. r - 1 \in Nat /\ p <= r - 1 /\ r - 1 < q
      BY <1>1, <1>7, <1>10, <2>2
    <3> QED
      BY <1>8, <3>1 DEF Begins
  <2> QED
    BY <2>1, <2>2
<1>11. ASSUME NEW r \in Nat, p <= r, r <= q PROVE r \notin Counted(form, a)
  <2>1. Begins(form, a, r) /\ 1 <= r
    BY <1>1, <1>10, <1>11
  <2> QED
    BY <1>1, <2>1, EmptyCountsNot
<1>12. b[q] = Lines!Nul <=> q = E
  BY <1>6, <1>7, NulIsEnd
<1>13. CASE q = E
  <2>1. t = 0 /\ st = E /\ c = b
    BY <1>5, <1>12, <1>13 DEF Lines!NULL
  <2>2. Uncut(a, c, E + 1) /\ Buffer(a, c)
    BY <2>1 DEF Ready
  <2>3. NoneCounts(form, a, p, E + 1)
    BY <1>1, <1>11, <1>13 DEF NoneCounts
  <2> QED
    BY <2>1, <2>2, <2>3 DEF NextField
<1>14. CASE q # E
  <2>1. t = q /\ st = (IF b[s] = Lines!Nul THEN s ELSE s + 1) /\ c = [b EXCEPT ![s] = Lines!Nul]
    BY <1>5, <1>12, <1>14
  <2>2. q < E
    BY <1>1, <1>6, <1>7, <1>14
  <2>3. a[q] # Lines!Sep
    <3>1. b[q] = a[q]
      BY <1>2, <1>7, <2>2
    <3>2. b[q] \in {Lines!Letter, Lines!Eol}
      BY <1>7, <1>12, <1>14
    <3> QED
      BY <3>1, <3>2, DistinctCharacters DEF Distinct
  <2>4. IsFirst(b, {Lines!Sep, Lines!Nul}, q, s) /\ s <= E
    BY <1>1, <1>4, <1>7, <2>2, FirstFound
  <2>5. s \in Nat /\ q <= s
    BY <2>4 DEF IsFirst
  <2>6. b[s] = Lines!Nul <=> s = E
    <3>1. p <= s
      BY <1>1, <1>7, <2>5
    <3> QED
      BY <2>4, <2>5, <3>1, NulIsEnd
  <2>7. Remembers(form, E, s, st)
    BY <2>1, <2>6 DEF Remembers
  <2>8. CutOff(form, a, c, E, q, s, st) /\ Buffer(a, c)
    <3>1. Begins(form, a, q) /\ q <= E
      BY <1>7, <1>10, <1>6
    <3> QED
      BY <1>4, <1>7, <2>1, <2>2, <2>3, <2>7, <3>1, CutsToken
  <2>9. NoneCounts(form, a, p, q)
    BY <1>7, <1>11 DEF NoneCounts
  <2>10. t # 0 /\ t \in Nat /\ p <= t /\ t <= E
    BY <1>1, <1>6, <1>7, <2>1
  <2> QED
    BY <2>1, <2>5, <2>8, <2>9, <2>10 DEF NextField
<1> QED
  BY <1>13, <1>14

LEMMA TokenizeFinds ==
  ASSUME NEW form, NEW a, NEW b, NEW l, NEW E, NEW p, Ready(form, a, b, l, E, p),
         NEW t, NEW st, NEW c, TokenizeFrom(form, b, p, t, st, c)
  PROVE  NextField(form, a, c, E, p, t, st)
BY EstrtokFinds, StrtokFinds DEF TokenizeFrom

-----------------------------------------------------------------------------
(* The ends of lines.                                                       *)
FindIn(b, char, p) ==
  LET q == FirstIn(b, {char, Lines!Nul}, p) IN IF b[q] = char THEN q ELSE Lines!NULL
NoEol(a, p) == \A r \in Nat : p <= r /\ r <= Len(a) => a[r] # Lines!Eol
EolAt(a, p, e) ==
  /\ e \in Nat /\ p <= e /\ e <= Len(a) /\ a[e] = Lines!Eol
  /\ \A r \in Nat : p <= r /\ r < e => a[r] # Lines!Eol

LEMMA FindEol ==
  ASSUME NEW a \in Seq(Received), NEW b, Buffer(a, b),
         NEW p \in Nat, 1 <= p, p <= Len(a) + 1, Uncut(a, b, p)
  PROVE  \/ FindIn(b, Lines!Eol, p) = 0 /\ NoEol(a, p)
         \/ FindIn(b, Lines!Eol, p) # 0 /\ EolAt(a, p, FindIn(b, Lines!Eol, p))
<1>1. PICK n \in Nat : n = Len(a)
  BY EndsFacts
<1>2. Len(b) = n + 1 /\ b[n + 1] = Lines!Nul /\ \A r \in Nat : p <= r /\ r <= n => b[r] = a[r]
  BY <1>1 DEF Buffer, Uncut
<1>3. \A r \in Nat : 1 <= r /\ r <= n => a[r] \in Received
  BY <1>1
<1>4. PICK q : q = FirstIn(b, {Lines!Eol, Lines!Nul}, p)
  OBVIOUS
<1>5. IsFirst(b, {Lines!Eol, Lines!Nul}, p, q) /\ q <= n + 1
  BY <1>1, <1>2, <1>4, FirstFound
<1>6. /\ q \in Nat /\ p <= q /\ b[q] \in {Lines!Eol, Lines!Nul}
      /\ \A r \in Nat : p <= r /\ r < q => b[r] \notin {Lines!Eol, Lines!Nul}
  BY <1>5 DEF IsFirst
<1>7. FindIn(b, Lines!Eol, p) = IF b[q] = Lines!Eol THEN q ELSE 0
  BY <1>4 DEF FindIn, Lines!NULL
<1>8. ASSUME NEW r \in Nat, p <= r, r < q PROVE a[r] # Lines!Eol
  <2>1. r <= n
    BY <1>5, <1>6, <1>8
  <2> QED
    BY <1>2, <1>6, <1>8, <2>1
<1>9. Lines!Eol \in Received /\ Lines!Nul \notin Received
  BY DistinctCharacters DEF Distinct, Received
<1>10. CASE q = n + 1
  <2>1. b[q] # Lines!Eol
    BY <1>2, <1>9, <1>10
  <2>2. NoEol(a, p)
    BY <1>1, <1>8, <1>10 DEF NoEol
  <2> QED
    BY <1>7, <2>1, <2>2
<1>11. CASE q # n + 1
  <2>1. 1 <= q /\ q <= n
    BY <1>5, <1>6, <1>11
  <2>2. b[q] = a[q] /\ a[q] \in Received
    BY <1>2, <1>3, <1>6, <2>1
  <2>3. a[q] = Lines!Eol /\ b[q] = Lines!Eol
    BY <1>6, <1>9, <2>2
  <2>4. EolAt(a, p, q)
    BY <1>1, <1>6, <1>8, <2>1, <2>3 DEF EolAt
  <2> QED
    BY <1>7, <2>1, <2>3, <2>4
<1> QED
  BY <1>10, <1>11

(* Behind the last line end no field counts.                                *)
AllFields(form, a) == {FieldAt(form, a, p) : p \in Counted(form, a)}
LEMMA RestIgnored ==
  ASSUME NEW form, form # "track", NEW a \in Seq(Received), NEW p \in Nat, NoEol(a, p)
  PROVE  AllFields(form, a) = FieldsBelow(form, a, p)
<1>1. ASSUME NEW q \in Counted(form, a) PROVE q < p
  <2>1. PICK e \in EndsOf(form, a) : e >= q /\ a[e] = Lines!Eol
    BY <1>1 DEF Counted, CountsIn, EndedIn
  <2>2. e \in Nat /\ 1 <= e /\ e <= Len(a) /\ q \in Nat
    BY EndsFacts DEF Counted
  <2>3. e < p
    BY <2>1, <2>2 DEF NoEol
  <2> QED
    BY <2>1, <2>2, <2>3
<1>2. CountedBelow(form, a, p) = Counted(form, a)
  BY <1>1 DEF CountedBelow
<1> QED
  BY <1>2 DEF AllFields, FieldsBelow

LEMMA AllBelowEnd ==
  ASSUME NEW form, NEW a \in Seq(Received)
  PROVE  AllFields(form, a) = FieldsBelow(form, a, Len(a) + 1 + 1)
<1>1. \A q \in Counted(form, a) : q < Len(a) + 1 + 1
  BY EndsFacts DEF Counted
<1>2. CountedBelow(form, a, Len(a) + 1 + 1) = Counted(form, a)
  BY <1>1 DEF CountedBelow
<1> QED
  BY <1>2 DEF AllFields, FieldsBelow

LEMMA NoneBelowStart ==
  ASSUME NEW form, NEW a \in Seq(Received)
  PROVE  FieldsBelow(form, a, 1) = {}
<1>1. \A q \in Counted(form, a) : ~ (q < 1)
  BY EndsFacts DEF Counted
<1> QED
  BY <1>1 DEF CountedBelow, FieldsBelow

(* The first line, which is about the track.                                *)
LEMMA FirstLineFacts ==
  ASSUME NEW a \in Seq(Received), NEW e, EolAt(a, 1, e)
  PROVE  /\ LineIn("records", a, e + 1) = 2
         /\ FieldsBelow("records", a, e + 1) = {}
<1>1. e \in Nat /\ 1 <= e
  BY DEF EolAt
<1>2. LineAt("records", a, 1, e)
  BY DEF LineAt, EolAt, Lines!Formats
<1>3. LineIn("records", a, 1) = 1
  BY FirstLine
<1>4. LineIn("records", a, e + 1) = 2
  BY <1>2, <1>3, NextNumber
<1>5. ASSUME NEW q \in Counted("records", a), q < e + 1 PROVE FALSE
  <2>1. q \in Nat /\ 1 <= q
    BY EndsFacts DEF Counted
  <2>2. LineIn("records", a, q) = 1
    BY <1>1, <1>2, <1>3, <1>5, <2>1, SameNumber
  <2> QED
    BY <2>2 DEF Counted, CountsIn
<1>6. CountedBelow("records", a, e + 1) = {}
  BY <1>5 DEF CountedBelow
<1> QED
  BY <1>4, <1>6 DEF FieldsBelow

LEMMA OnlyLineFacts ==
  ASSUME NEW a \in Seq(Received), NEW e, EolAt(a, 1, e)
  PROVE  OnlyLine("records", a) <=> e = Len(a)
<1>1. PICK n \in Nat : n = Len(a)
  BY EndsFacts
<1>2. /\ e \in Nat /\ 1 <= e /\ e <= n /\ a[e] = Lines!Eol
      /\ \A r \in Nat : 1 <= r /\ r < e => a[r] # Lines!Eol
  BY <1>1 DEF EolAt
<1>3. \A p \in Nat : p \in EndsOf("records", a) <=> 1 <= p /\ p <= n /\ a[p] \in BreaksIn("records")
  BY <1>1, EndsFacts
<1>4. \A p \in EndsOf("records", a) : p \in Nat /\ 1 <= p /\ p <= n
  BY <1>1, <1>3, EndsFacts
<1>5. PICK S : S = {p \in EndsOf("records", a) : a[p] = Lines!Eol}
  OBVIOUS
<1>6. IsFiniteSet(S)
  BY <1>5, EndsFinite
<1>7. \A p \in Nat : p \in S <=> 1 <= p /\ p <= n /\ a[p] = Lines!Eol
  BY <1>3, <1>5 DEF BreaksIn
<1>8. OnlyLine("records", a) <=> a[n] = Lines!Eol /\ Cardinality(S) = 1
  BY <1>1, <1>5 DEF OnlyLine
<1>9. ASSUME OnlyLine("records", a) PROVE e = n
  <2>1. a[n] = Lines!Eol /\ Cardinality(S) = 1
    BY <1>8, <1>9
  <2>2. PICK x : S = {x}
    BY <1>6, <2>1, FS_Singleton
  <2>3. n \in S /\ e \in S
    BY <1>2, <1>7, <2>1
  <2> QED
    BY <2>2, <2>3
<1>10. ASSUME e = n PROVE OnlyLine("records", a)
  <2>1. \A p \in S : p = e
    <3> SUFFICES ASSUME NEW p \in S PROVE p = e
      OBVIOUS
    <3>1. p \in Nat /\ 1 <= p /\ p <= n /\ a[p] = Lines!Eol
      BY <1>4, <1>5
    <3> QED
      BY <1>2, <1>10, <3>1
  <2>2. S = {e}
    BY <1>2, <1>7, <2>1
  <2>3. Cardinality(S) = 1
    BY <2>2, FS_Singleton
  <2> QED
    BY <1>2, <1>8, <1>10, <2>3
<1> QED
  BY <1>1, <1>9, <1>10

-----------------------------------------------------------------------------
(* The model's definitions, in these terms.                                 *)
LEMMA FirstOfIs ==
  ASSUME NEW chars, NEW p
  PROVE  Lines!FirstOf(chars, p) = FirstIn(lpszData, chars, p)
BY DEF Lines!FirstOf, FirstIn

LEMMA FindIs ==
  ASSUME NEW char, NEW p
  PROVE  Lines!Find(char, p) = FindIn(lpszData, char, p)
BY FirstOfIs DEF Lines!Find, FindIn

LEMMA TokenizeIs ==
  ASSUME NEW str, Lines!Tokenize(str)
  PROVE  \/ /\ format = "records" /\ str = Lines!NULL /\ place = Lines!NULL
            /\ token' = Lines!NULL /\ place' = place /\ lpszData' = lpszData
         \/ /\ format # "records" \/ str # Lines!NULL \/ place # Lines!NULL
            /\ TokenizeFrom(format, lpszData,
                            IF str # Lines!NULL THEN str
                            ELSE IF format = "records" THEN place + 1 ELSE place,
                            token', place', lpszData')
<1>1. CASE format = "records"
  <2>1. Lines!Estrtok(str)
    BY <1>1 DEF Lines!Tokenize
  <2>2. CASE str = Lines!NULL /\ place = Lines!NULL
    BY <1>1, <2>1, <2>2 DEF Lines!Estrtok
  <2>3. CASE ~(str = Lines!NULL /\ place = Lines!NULL)
    <3>1. PICK p : p = IF str # Lines!NULL THEN str ELSE place + 1
      OBVIOUS
    <3>2. EstrtokFrom(lpszData, p, token', place', lpszData')
      BY <2>1, <2>3, <3>1, FirstOfIs DEF Lines!Estrtok, Lines!CutAt, EstrtokFrom
    <3> QED
      BY <1>1, <2>3, <3>1, <3>2 DEF TokenizeFrom
  <2> QED
    BY <2>2, <2>3
<1>2. CASE format # "records"
  <2>1. Lines!Strtok(str)
    BY <1>2 DEF Lines!Tokenize
  <2>2. PICK p : p = IF str # Lines!NULL THEN str ELSE place
    OBVIOUS
  <2>3. StrtokFrom(lpszData, p, token', place', lpszData')
    BY <2>1, <2>2, FirstOfIs DEF Lines!Strtok, Lines!CutAt, StrtokFrom
  <2> QED
    BY <1>2, <2>2, <2>3 DEF TokenizeFrom
<1> QED
  BY <1>1, <1>2

\* The instance has its own name for the cardinality of a set.
LEMMA CardinalityIs ==
  ASSUME NEW S PROVE Lines!Cardinality(S) = Cardinality(S)
BY DEF Lines!Cardinality, Cardinality

LEMMA ReferenceIs ==
  /\ Lines!ReferenceFields = AllFields(format, received)
  /\ (format = "records" /\ received[Len(received)] = Lines!Eol
        /\ Lines!Cardinality({p \in Lines!Ends : received[p] = Lines!Eol}) = 1)
     <=> OnlyLine(format, received)
<1>1. Lines!Ends = EndsOf(format, received)
  BY DEF Lines!Ends, Lines!Breaks, EndsOf, BreaksIn
<1>2. ASSUME NEW p PROVE Lines!StartOf(p) = StartIn(format, received, p)
  BY <1>1 DEF Lines!StartOf, StartIn
<1>3. ASSUME NEW p PROVE Lines!LineOf(p) = LineIn(format, received, p)
  <2>1. {q \in Lines!Ends : q < p /\ received[q] = Lines!Eol} = LinesBefore(format, received, p)
    BY <1>1 DEF LinesBefore
  <2> QED
    BY <2>1, CardinalityIs DEF Lines!LineOf, LineIn
<1>4. ASSUME NEW p PROVE Lines!Ended(p) <=> EndedIn(format, received, p)
  BY <1>1 DEF Lines!Ended, EndedIn
<1>5. ASSUME NEW p PROVE Lines!Counts(p) <=> CountsIn(format, received, p)
  BY <1>2, <1>3, <1>4 DEF Lines!Counts, Lines!Empty, CountsIn
<1>6. ASSUME NEW p
      PROVE  {q \in Lines!Ends : q <= p /\ Lines!LineOf(q) = Lines!LineOf(p) /\ Lines!Counts(q)}
               = SameLine(format, received, p)
  BY <1>1, <1>3, <1>5 DEF SameLine
<1>7. {q \in Lines!Ends : Lines!Counts(q)} = Counted(format, received)
  BY <1>1, <1>5 DEF Counted
<1>8. ASSUME NEW p
      PROVE  [record |-> IF format = "records" THEN Lines!LineOf(p) - 1 ELSE Lines!LineOf(p),
              column |-> Lines!Cardinality({q \in Lines!Ends :
                           q <= p /\ Lines!LineOf(q) = Lines!LineOf(p) /\ Lines!Counts(q)}),
              from   |-> Lines!StartOf(p), to |-> p]
             = FieldAt(format, received, p)
  BY <1>2, <1>3, <1>6, CardinalityIs DEF FieldAt, RecordOf
<1>9. Lines!ReferenceFields = AllFields(format, received)
  <2>1. ASSUME NEW x
        PROVE  x \in Lines!ReferenceFields <=> \E p \in Counted(format, received) :
                                                x = FieldAt(format, received, p)
    BY <1>7, <1>8 DEF Lines!ReferenceFields
  <2>2. ASSUME NEW x
        PROVE  x \in AllFields(format, received) <=> \E p \in Counted(format, received) :
                                                x = FieldAt(format, received, p)
    BY DEF AllFields
  <2> QED
    BY <2>1, <2>2
<1> QED
  BY <1>1, <1>9, CardinalityIs DEF OnlyLine

-----------------------------------------------------------------------------
(* The parts of the invariant, by the state that a line is in.              *)
LinesTyped ==
  /\ format \in Lines!Formats /\ received \in Seq(Received) /\ received # <<>>
  /\ Buffer(received, lpszData) /\ column \in Nat /\ uRecords \in Nat

AtFirst ==
  /\ linesPc = "first" /\ format = "records" /\ lpsz = 1 /\ uRecords = 0
  /\ Uncut(received, lpszData, 1) /\ fields = {} /\ noRecords = FALSE
AtEmpty ==
  /\ linesPc = "empty" /\ format = "records" /\ uRecords = 0
  /\ lpsz \in Nat /\ EolAt(received, 1, lpsz - 1)
  /\ Uncut(received, lpszData, lpsz) /\ fields = {}
AtLine ==
  /\ linesPc = "line" /\ format # "track"
  /\ lpsz \in Nat /\ 1 <= lpsz /\ lpsz <= Len(received) + 1
  /\ lpsz = 1 \/ received[lpsz - 1] = Lines!Eol
  /\ RecordOf(format, received, lpsz) = uRecords + 1
  /\ Uncut(received, lpszData, lpsz)
  /\ fields = FieldsBelow(format, received, lpsz)
  /\ noRecords = OnlyLine(format, received)
OnLine(E) ==
  /\ LineAt(format, received, lpsz, E) /\ Printed(format, received, lpsz)
  /\ lpszNewLine = IF format = "track" THEN 0 ELSE E + 1
  /\ RecordOf(format, received, lpsz) = uRecords
  /\ noRecords = OnlyLine(format, received)
AtToken(E) ==
  /\ linesPc = "token" /\ OnLine(E)
  /\ fields = FieldsBelow(format, received, lpsz)
  /\ Closed(received, lpszData, lpsz, E) /\ Uncut(received, lpszData, E + 1)
AtNext(E) ==
  /\ linesPc = "next" /\ OnLine(E)
  /\ InLine(format, received, lpszData, lpsz, E, token, column, place, fields)
AtDone ==
  /\ linesPc = "done"
  /\ fields = AllFields(format, received)
  /\ noRecords = OnlyLine(format, received)

LinesInv ==
  \/ linesPc = "unused"
  \/ LinesTyped /\ (\/ AtFirst \/ AtEmpty \/ AtLine \/ AtDone
                    \/ \E E \in Nat : AtToken(E) \/ AtNext(E))

-----------------------------------------------------------------------------
(* The steps.                                                               *)
LEMMA LinesInit == AnswersInit => LinesInv
<1> SUFFICES ASSUME AnswersInit PROVE LinesInv
  OBVIOUS
<1>1. CASE NoLines
  BY <1>1 DEF NoLines, LinesInv
<1>2. CASE Lines!Init
  <2>1. /\ format \in Lines!Formats /\ received \in Lines!Answers
        /\ lpszData = Append(received, Lines!Nul)
        /\ lpsz = 1 /\ lpszNewLine = 0 /\ uRecords = 0 /\ column = 0
        /\ fields = {} /\ noRecords = FALSE
    BY <1>2 DEF Lines!Init, Lines!NULL
  <2>2. PICK n \in 1..MaxAnswer : received \in [1..n -> {Lines!Letter, Lines!Sep, Lines!Eol}]
    BY <2>1 DEF Lines!Answers
  <2>3. n \in Nat /\ 1 <= n
    BY <2>2
  <2>4. received \in Seq(Received) /\ Len(received) = n /\ received # <<>>
    <3>1. received \in [1..n -> Received]
      BY <2>2 DEF Received
    <3>2. received \in Seq(Received)
      BY <2>3, <3>1, IsASeq
    <3>3. DOMAIN received = 1..n
      BY <3>1
    <3>4. Len(received) = n
      BY <2>3, <3>2, <3>3, LenProperties
    <3> QED
      BY <2>3, <3>2, <3>4
  <2>5. received \in Seq(Characters) /\ Lines!Nul \in Characters
    <3>1. \A k \in 1..n : received[k] \in Characters
      BY <2>4 DEF Characters
    <3> QED
      BY <2>4, <3>1 DEF Characters
  <2>6. /\ lpszData \in Seq(Characters) /\ Len(lpszData) = n + 1 /\ lpszData[n + 1] = Lines!Nul
        /\ \A k \in 1..n : lpszData[k] = received[k]
    BY <2>1, <2>4, <2>5, AppendProperties
  <2>7. Buffer(received, lpszData) /\ Uncut(received, lpszData, 1)
    BY <2>4, <2>6 DEF Buffer, Uncut
  <2>8. LinesTyped
    BY <2>1, <2>4, <2>7 DEF LinesTyped
  <2>9. CASE format = "records"
    <3>1. linesPc = "first"
      BY <1>2, <2>9 DEF Lines!Init
    <3> QED
      BY <2>1, <2>7, <2>8, <2>9, <3>1 DEF LinesInv, AtFirst
  <2>10. CASE format = "replays"
    <3>1. linesPc = "line"
      BY <1>2, <2>10 DEF Lines!Init
    <3>2. RecordOf(format, received, 1) = 0 + 1
      BY <2>4, <2>10, FirstLine DEF RecordOf
    <3>3. FieldsBelow(format, received, 1) = {}
      BY <2>4, NoneBelowStart
    <3>4. OnlyLine(format, received) = FALSE
      BY <2>10 DEF OnlyLine
    <3>5. noRecords = OnlyLine(format, received)
      BY <2>1, <3>4
    <3>6. 1 <= Len(received) + 1
      BY <2>3, <2>4
    <3>7. AtLine
      BY <2>1, <2>7, <2>10, <3>1, <3>2, <3>3, <3>5, <3>6 DEF AtLine
    <3> QED
      BY <2>8, <3>7 DEF LinesInv
  <2>11. CASE format = "track"
    <3>1. linesPc = "token"
      BY <1>2, <2>11 DEF Lines!Init
    <3>2. LineAt(format, received, 1, n + 1)
      BY <2>3, <2>4, <2>11 DEF LineAt, Lines!Formats
    <3>3. Printed(format, received, 1) /\ RecordOf(format, received, 1) = 0
      BY <2>11 DEF Printed, RecordOf, LineIn
    <3>4. OnlyLine(format, received) = FALSE
      BY <2>11 DEF OnlyLine
    <3>5. OnLine(n + 1)
      BY <2>1, <2>11, <3>2, <3>3, <3>4 DEF OnLine
    <3>6. FieldsBelow(format, received, 1) = {}
      BY <2>4, NoneBelowStart
    <3>7. Closed(received, lpszData, 1, n + 1) /\ Uncut(received, lpszData, n + 1 + 1)
      BY <2>3, <2>4, <2>6 DEF Closed, Uncut
    <3>8. AtToken(n + 1)
      BY <2>1, <3>1, <3>5, <3>6, <3>7 DEF AtToken
    <3>9. n + 1 \in Nat
      BY <2>3
    <3> QED
      BY <2>8, <3>8, <3>9 DEF LinesInv
  <2> QED
    BY <2>1, <2>9, <2>10, <2>11 DEF Lines!Formats
<1> QED
  BY <1>1, <1>2 DEF AnswersInit

(* A line end that was found is cut off.                                    *)
LEMMA EolCut ==
  ASSUME LinesTyped, NEW p \in Nat, 1 <= p, Uncut(received, lpszData, p),
         NEW e, EolAt(received, p, e), Lines!CutAt(e)
  PROVE  /\ Buffer(received, lpszData') /\ Uncut(received, lpszData', e + 1)
         /\ Closed(received, lpszData', p, e)
<1>1. PICK a : a = received
  OBVIOUS
<1>2. PICK b : b = lpszData
  OBVIOUS
<1>3. PICK c : c = lpszData'
  OBVIOUS
<1>4. a \in Seq(Received) /\ Buffer(a, b) /\ Uncut(a, b, p) /\ c = [b EXCEPT ![e] = Lines!Nul]
  BY <1>1, <1>2, <1>3 DEF LinesTyped, Lines!CutAt
<1>5. PICK n \in Nat : n = Len(a)
  BY <1>4, EndsFacts
<1>6. e \in Nat /\ p <= e /\ e <= n
  BY <1>1, <1>5 DEF EolAt
<1>7. 1 <= e /\ e <= n + 1 /\ e + 1 \in Nat /\ e < e + 1
  BY <1>6
<1>13. Cut(a, b, e, c)
  BY <1>4, <1>5, <1>6, <1>7 DEF Cut
<1>8. /\ Buffer(a, c) /\ c[e] = Lines!Nul
      /\ \A r \in Nat : 1 <= r /\ r <= n + 1 /\ r # e => c[r] = b[r]
  <2>1. Buffer(a, c) /\ IsCut(Len(a), b, e, c)
    BY <1>13, CutFacts
  <2> QED
    BY <1>5, <2>1 DEF IsCut
<1>9. Uncut(a, b, e + 1)
  BY <1>4, <1>6 DEF Uncut
<1>10. Uncut(a, c, e + 1)
  BY <1>7, <1>9, <1>13, CutKeeps
<1>11. \A r \in Nat : p <= r /\ r < e => c[r] = a[r]
  BY <1>4, <1>5, <1>6, <1>8 DEF Uncut
<1>12. Closed(a, c, p, e)
  BY <1>8, <1>11 DEF Closed
<1> QED
  BY <1>1, <1>3, <1>8, <1>10, <1>12

LEMMA SkipFirstLineStep ==
  ASSUME LinesInv, Lines!SkipFirstLine
  PROVE  LinesInv'
<1>1. linesPc = "first"
  BY DEF Lines!SkipFirstLine
<1>2. LinesTyped /\ AtFirst
  BY <1>1 DEF LinesInv, AtEmpty, AtLine, AtDone, AtToken, AtNext
<1>3. /\ received' = received /\ format' = format /\ column' = column /\ uRecords' = uRecords
      /\ fields' = fields /\ noRecords' = noRecords
  BY DEF Lines!SkipFirstLine, Lines!input
<1>4. PICK e : e = Lines!Find(Lines!Eol, lpsz)
  OBVIOUS
<1>5. /\ lpsz = 1 /\ Uncut(received, lpszData, 1) /\ format = "records"
      /\ received \in Seq(Received) /\ Buffer(received, lpszData) /\ received # <<>>
  BY <1>2 DEF AtFirst, LinesTyped
<1>6. PICK n \in Nat : n = Len(received) /\ 1 <= n
  BY <1>5, EmptySeq
<1>7. e = FindIn(lpszData, Lines!Eol, 1)
  BY <1>4, <1>5, FindIs
<1>8. (e = 0 /\ NoEol(received, 1)) \/ (e # 0 /\ EolAt(received, 1, e))
  BY <1>5, <1>6, <1>7, FindEol
<1>9. CASE e = 0
  <2>1. linesPc' = "done" /\ lpszData' = lpszData
    BY <1>4, <1>9 DEF Lines!SkipFirstLine, Lines!NULL
  <2>2. LinesTyped'
    BY <1>2, <1>3, <2>1 DEF LinesTyped
  <2>3. NoEol(received, 1)
    BY <1>8, <1>9 DEF EolAt
  <2>4. AllFields("records", received) = FieldsBelow("records", received, 1)
    BY <1>5, <2>3, RestIgnored
  <2>5. AllFields("records", received) = {}
    BY <1>5, <2>4, NoneBelowStart
  <2>6. ~OnlyLine("records", received)
    BY <1>6, <2>3 DEF NoEol, OnlyLine
  <2>7. noRecords' = FALSE /\ fields' = {} /\ format' = "records"
    BY <1>2, <1>3 DEF AtFirst
  <2>8. OnlyLine("records", received) = FALSE
    BY <2>6 DEF OnlyLine
  <2>9. noRecords' = OnlyLine(format', received')
    BY <1>3, <2>7, <2>8
  <2>10. fields' = AllFields(format', received')
    BY <1>3, <2>5, <2>7
  <2>11. AtDone'
    BY <2>1, <2>9, <2>10 DEF AtDone
  <2> QED
    BY <2>2, <2>11 DEF LinesInv
<1>10. CASE e # 0
  <2>1. linesPc' = "empty" /\ lpsz' = e + 1 /\ Lines!CutAt(e)
    BY <1>4, <1>10 DEF Lines!SkipFirstLine, Lines!NULL
  <2>2. EolAt(received, 1, e)
    BY <1>8, <1>10
  <2>3. Buffer(received, lpszData') /\ Uncut(received, lpszData', e + 1)
    BY <1>2, <1>5, <2>1, <2>2, EolCut
  <2>4. e \in Nat /\ e + 1 \in Nat /\ e + 1 - 1 = e
    BY <2>2 DEF EolAt
  <2>5. LinesTyped'
    BY <1>2, <1>3, <2>3 DEF LinesTyped
  <2>6. AtEmpty'
    BY <1>2, <1>3, <2>1, <2>2, <2>3, <2>4 DEF AtEmpty, AtFirst
  <2> QED
    BY <2>5, <2>6 DEF LinesInv
<1> QED
  BY <1>9, <1>10

LEMMA CheckRecordsStep ==
  ASSUME LinesInv, Lines!CheckRecords
  PROVE  LinesInv'
<1>1. linesPc = "empty" /\ linesPc' = "line" /\ noRecords' = (lpszData[lpsz] = Lines!Nul)
  BY DEF Lines!CheckRecords
<1>2. LinesTyped /\ AtEmpty
  BY <1>1 DEF LinesInv, AtFirst, AtLine, AtDone, AtToken, AtNext
<1>3. /\ received' = received /\ format' = format /\ column' = column /\ uRecords' = uRecords
      /\ fields' = fields /\ lpszData' = lpszData /\ lpsz' = lpsz
  BY DEF Lines!CheckRecords, Lines!input, Lines!line
<1>4. LinesTyped'
  BY <1>2, <1>3 DEF LinesTyped
<1>5. /\ format = "records" /\ uRecords = 0 /\ lpsz \in Nat /\ EolAt(received, 1, lpsz - 1)
      /\ Uncut(received, lpszData, lpsz) /\ fields = {}
      /\ received \in Seq(Received) /\ Buffer(received, lpszData)
  BY <1>2 DEF AtEmpty, LinesTyped
<1>6. PICK n \in Nat : n = Len(received)
  BY <1>5, EndsFacts
<1>7. PICK e : e = lpsz - 1
  OBVIOUS
<1>8. /\ EolAt(received, 1, e) /\ e \in Nat /\ lpsz = e + 1 /\ 1 <= e /\ e <= n
      /\ received[e] = Lines!Eol
  BY <1>5, <1>6, <1>7 DEF EolAt
<1>9. LineIn("records", received, e + 1) = 2 /\ FieldsBelow("records", received, e + 1) = {}
  BY <1>5, <1>8, FirstLineFacts
<1>10. RecordOf(format, received, lpsz) = uRecords + 1
  BY <1>5, <1>8, <1>9 DEF RecordOf
<1>11. lpszData[lpsz] = Lines!Nul <=> e = n
  <2>1. CASE e = n
    BY <1>5, <1>6, <1>8, <2>1 DEF Buffer
  <2>2. CASE e # n
    <3>1. lpsz <= n /\ 1 <= lpsz
      BY <1>8, <2>2
    <3>2. lpszData[lpsz] = received[lpsz]
      BY <1>5, <1>6, <3>1 DEF Uncut
    <3>3. received[lpsz] \in Received
      BY <1>5, <1>6, <3>1
    <3> QED
      BY <2>2, <3>2, <3>3, DistinctCharacters DEF Distinct
  <2> QED
    BY <2>1, <2>2
<1>12. OnlyLine("records", received) <=> e = n
  BY <1>5, <1>6, <1>8, OnlyLineFacts
<1>13. noRecords' = OnlyLine(format, received)
  <2>1. OnlyLine(format, received) \in BOOLEAN
    BY DEF OnlyLine
  <2> QED
    BY <1>1, <1>5, <1>11, <1>12, <2>1
<1>14. received[lpsz - 1] = Lines!Eol /\ 1 <= lpsz /\ lpsz <= n + 1
  BY <1>7, <1>8
<1>15. fields = FieldsBelow(format, received, lpsz)
  BY <1>5, <1>8, <1>9
<1>16. AtLine'
  BY <1>1, <1>3, <1>5, <1>6, <1>10, <1>13, <1>14, <1>15 DEF AtLine
<1> QED
  BY <1>4, <1>16 DEF LinesInv

LEMMA NextLineStep ==
  ASSUME LinesInv, Lines!NextLine
  PROVE  LinesInv'
<1>1. linesPc = "line" /\ uRecords' = uRecords + 1 /\ column' = 0
  BY DEF Lines!NextLine
<1>2. LinesTyped /\ AtLine
  BY <1>1 DEF LinesInv, AtFirst, AtEmpty, AtDone, AtToken, AtNext
<1>3. /\ received' = received /\ format' = format
      /\ fields' = fields /\ noRecords' = noRecords /\ lpsz' = lpsz
  BY DEF Lines!NextLine, Lines!input
<1>4. PICK e : e = Lines!Find(Lines!Eol, lpsz)
  OBVIOUS
<1>5. /\ received \in Seq(Received) /\ Buffer(received, lpszData)
      /\ lpsz \in Nat /\ 1 <= lpsz /\ lpsz <= Len(received) + 1
      /\ Uncut(received, lpszData, lpsz) /\ format # "track" /\ uRecords \in Nat
      /\ lpsz = 1 \/ received[lpsz - 1] = Lines!Eol
      /\ RecordOf(format, received, lpsz) = uRecords + 1
      /\ fields = FieldsBelow(format, received, lpsz)
      /\ noRecords = OnlyLine(format, received)
  BY <1>2 DEF AtLine, LinesTyped
<1>6. e = FindIn(lpszData, Lines!Eol, lpsz)
  BY <1>4, FindIs
<1>7. (e = 0 /\ NoEol(received, lpsz)) \/ (e # 0 /\ EolAt(received, lpsz, e))
  BY <1>5, <1>6, FindEol
<1>8. uRecords' \in Nat /\ column' \in Nat
  BY <1>1, <1>5
<1>9. CASE e = 0
  <2>1. linesPc' = "done" /\ lpszData' = lpszData
    BY <1>4, <1>9 DEF Lines!NextLine, Lines!NULL
  <2>2. LinesTyped'
    BY <1>2, <1>3, <1>8, <2>1 DEF LinesTyped
  <2>3. NoEol(received, lpsz)
    BY <1>7, <1>9
  <2>4. AllFields(format, received) = FieldsBelow(format, received, lpsz)
    BY <1>5, <2>3, RestIgnored
  <2>5. AtDone'
    BY <1>3, <1>5, <2>1, <2>4 DEF AtDone
  <2> QED
    BY <2>2, <2>5 DEF LinesInv
<1>10. CASE e # 0
  <2>1. linesPc' = "token" /\ lpszNewLine' = e + 1 /\ Lines!CutAt(e)
    BY <1>4, <1>10 DEF Lines!NextLine, Lines!NULL
  <2>2. EolAt(received, lpsz, e)
    BY <1>7, <1>10
  <2>3. /\ Buffer(received, lpszData') /\ Uncut(received, lpszData', e + 1)
        /\ Closed(received, lpszData', lpsz, e)
    BY <1>2, <1>5, <2>1, <2>2, EolCut
  <2>4. LinesTyped'
    BY <1>2, <1>3, <1>8, <2>3 DEF LinesTyped
  <2>5. e \in Nat
    BY <2>2 DEF EolAt
  <2>6. LineAt(format, received, lpsz, e)
    BY <1>2, <1>5, <2>2 DEF LineAt, EolAt, LinesTyped
  <2>7. Printed(format, received, lpsz)
    <3>1. LineIn(format, received, lpsz) \in Nat
      BY <1>5, LineType
    <3> QED
      BY <1>5, <3>1 DEF Printed, RecordOf
  <2>8. OnLine(e)'
    BY <1>1, <1>3, <1>5, <2>1, <2>6, <2>7 DEF OnLine
  <2>9. AtToken(e)'
    BY <1>3, <1>5, <2>1, <2>3, <2>8 DEF AtToken
  <2> QED
    BY <2>4, <2>5, <2>9 DEF LinesInv
<1> QED
  BY <1>9, <1>10

(* The next token, printed or not, carries the line on.                     *)
LEMMA NextFieldIs ==
  ASSUME NEW form, NEW a, NEW l, NEW E, LineAt(form, a, l, E), NEW p \in Nat, l <= p, p <= E,
         NEW c, NEW t, NEW st, NextField(form, a, c, E, p, t, st),
         NEW k, k = Cardinality(Columns(form, a, l, p))
  PROVE  InLine(form, a, c, l, E, t, k, st, FieldsBelow(form, a, p))
<1>1. a \in Seq(Received) /\ l \in Nat /\ E \in Nat
  BY DEF LineAt
<1>2. CASE t = 0
  <2>1. st \in {0, E} /\ Uncut(a, c, E + 1) /\ NoneCounts(form, a, p, E + 1)
    BY <1>2 DEF NextField
  <2>2. PICK q \in Nat : q = E + 1 /\ p <= q
    BY <1>1
  <2>3. NoneCounts(form, a, p, q)
    BY <2>1, <2>2
  <2>4. /\ FieldsBelow(form, a, q) = FieldsBelow(form, a, p)
        /\ Columns(form, a, l, q) = Columns(form, a, l, p)
    <3>1. p \in Nat /\ q \in Nat /\ p <= q
      BY <2>2
    <3> QED
      BY ONLY <1>1, <2>3, <3>1, NothingAdded
  <2>5. FieldsBelow(form, a, E + 1) = FieldsBelow(form, a, p)
    BY <2>2, <2>4
  <2> QED
    BY <1>2, <2>1, <2>5 DEF InLine
<1>3. CASE t # 0
  <2>1. /\ t \in Nat /\ p <= t /\ t <= E /\ NoneCounts(form, a, p, t)
        /\ \E s \in Nat : CutOff(form, a, c, E, t, s, st)
    BY <1>3 DEF NextField
  <2>2. /\ FieldsBelow(form, a, t) = FieldsBelow(form, a, p)
        /\ Columns(form, a, l, t) = Columns(form, a, l, p)
    BY <1>1, <2>1, NothingAdded
  <2>3. l <= t
    BY <1>1, <2>1
  <2> QED
    BY <1>3, <2>1, <2>2, <2>3 DEF InLine
<1> QED
  BY <1>2, <1>3

LEMMA OnLineStays ==
  ASSUME NEW E, OnLine(E),
         UNCHANGED <<format, received, lpsz, lpszNewLine, uRecords, noRecords>>
  PROVE  OnLine(E)'
BY DEF OnLine

LEMMA FirstTokenStep ==
  ASSUME LinesInv, Lines!FirstToken
  PROVE  LinesInv'
<1>1. linesPc = "token" /\ linesPc' = "next" /\ column' = 0 /\ Lines!Tokenize(lpsz)
  BY DEF Lines!FirstToken
<1>2. LinesTyped /\ \E E \in Nat : AtToken(E)
  BY <1>1 DEF LinesInv, AtFirst, AtEmpty, AtLine, AtDone, AtNext
<1>3. UNCHANGED <<format, received, lpsz, lpszNewLine, uRecords, fields, noRecords>>
  BY DEF Lines!FirstToken, Lines!input, Lines!line
<1>4. PICK E \in Nat : AtToken(E)
  BY <1>2
<1>5. /\ OnLine(E) /\ fields = FieldsBelow(format, received, lpsz)
      /\ Closed(received, lpszData, lpsz, E) /\ Uncut(received, lpszData, E + 1)
      /\ LineAt(format, received, lpsz, E)
      /\ received \in Seq(Received) /\ Buffer(received, lpszData)
  BY <1>2, <1>4 DEF AtToken, OnLine, LinesTyped
<1>6. lpsz \in Nat /\ 1 <= lpsz /\ lpsz <= E
  BY <1>5 DEF LineAt
<1>7. Begins(format, received, lpsz)
  BY <1>5, LineFacts
<1>8. Ready(format, received, lpszData, lpsz, E, lpsz)
  BY <1>5, <1>6, <1>7 DEF Ready
<1>9. lpsz # Lines!NULL
  BY <1>6 DEF Lines!NULL
<1>10. TokenizeFrom(format, lpszData, lpsz, token', place', lpszData')
  BY <1>1, <1>9, TokenizeIs
<1>11. NextField(format, received, lpszData', E, lpsz, token', place')
  BY <1>8, <1>10, TokenizeFinds
<1>12. Cardinality(Columns(format, received, lpsz, lpsz)) = column'
  BY <1>1, <1>5, <1>6, NoColumns
<1>13. InLine(format, received, lpszData', lpsz, E, token', column', place', fields)
  BY <1>5, <1>6, <1>11, <1>12, NextFieldIs
<1>14. OnLine(E)'
  BY <1>3, <1>5, OnLineStays
<1>15. AtNext(E)'
  BY <1>1, <1>3, <1>13, <1>14 DEF AtNext
<1>16. LinesTyped'
  BY <1>1, <1>2, <1>3, <1>11 DEF LinesTyped, NextField
<1> QED
  BY <1>15, <1>16 DEF LinesInv

(* The field that is printed is the reference's.                            *)
LEMMA FieldIs ==
  ASSUME LinesTyped, NEW E \in Nat, OnLine(E), NEW t, t = token, t \in Nat, lpsz <= t,
         column = Cardinality(Columns(format, received, lpsz, t)),
         NEW s \in Nat, CutOff(format, received, lpszData, E, t, s, place)
  PROVE  Lines!Field = FieldAt(format, received, s)
<1>1. /\ LineAt(format, received, lpsz, E) /\ Printed(format, received, lpsz)
      /\ RecordOf(format, received, lpsz) = uRecords
      /\ received \in Seq(Received) /\ Buffer(received, lpszData)
  BY DEF OnLine, LinesTyped
<1>2. lpsz \in Nat /\ 1 <= lpsz /\ E <= Len(received) + 1 /\ Len(received) \in Nat
  BY <1>1, LineFacts DEF LineAt
<1>3. /\ Token(format, received, E, t, s) /\ t <= s /\ s <= E
      /\ lpszData[s] = Lines!Nul
      /\ \A r \in Nat : t <= r /\ r < s => lpszData[r] = received[r]
  BY DEF CutOff, Token
<1>4. lpsz <= s
  BY <1>2, <1>3
<1>5. StartIn(format, received, s) = t
  BY <1>1, <1>3, TokenCounts
<1>6. RecordOf(format, received, s) = uRecords
  BY <1>1, <1>3, <1>4, SameNumber DEF RecordOf
<1>7. Cardinality(SameLine(format, received, s)) = column + 1
  <2>1. SameLine(format, received, s) = Columns(format, received, lpsz, s + 1)
    BY <1>1, <1>3, <1>4, ColumnsOfField
  <2>2. Cardinality(Columns(format, received, lpsz, s + 1))
          = Cardinality(Columns(format, received, lpsz, t)) + 1
    BY <1>1, <1>3, TokenAdds
  <2> QED
    BY <2>1, <2>2
<1>8. Lines!FirstOf({Lines!Nul}, t) = s
  <2>1. ASSUME NEW r \in Nat, t <= r, r < s PROVE lpszData[r] \notin {Lines!Nul}
    <3>1. lpsz <= r /\ r < E
      BY <1>2, <1>3, <2>1
    <3>2. received[r] \in Received
      BY <1>1, <3>1, LineFacts
    <3> QED
      BY <1>3, <2>1, <3>2, DistinctCharacters DEF Distinct
  <2>2. IsFirst(lpszData, {Lines!Nul}, t, s)
    BY <1>3, <2>1 DEF IsFirst
  <2>3. Len(lpszData) \in Nat /\ s <= Len(lpszData)
    BY <1>1, <1>2, <1>3 DEF Buffer
  <2>4. FirstIn(lpszData, {Lines!Nul}, t) = s
    BY <2>2, <2>3, FirstUnique
  <2> QED
    BY <2>4, FirstOfIs
<1> QED
  BY <1>5, <1>6, <1>7, <1>8 DEF Lines!Field, FieldAt

(* Going on behind a field: with the rest of the line, or at its end.       *)
LEMMA GoesOn ==
  ASSUME LinesTyped, NEW E \in Nat, OnLine(E), NEW t \in Nat, lpsz <= t,
         NEW s \in Nat, CutOff(format, received, lpszData, E, t, s, place),
         Lines!Tokenize(Lines!NULL)
  PROVE  /\ Buffer(received, lpszData')
         /\ \/ s = E /\ token' = 0 /\ place' \in {0, E} /\ Uncut(received, lpszData', E + 1)
            \/ s < E /\ NextField(format, received, lpszData', E, s + 1, token', place')
<1>1. /\ LineAt(format, received, lpsz, E)
      /\ received \in Seq(Received) /\ Buffer(received, lpszData)
  BY DEF OnLine, LinesTyped
<1>2. /\ lpsz \in Nat /\ 1 <= lpsz /\ E <= Len(received) + 1 /\ Len(received) \in Nat
      /\ E \in EndsOf(format, received)
  BY <1>1, LineFacts DEF LineAt
<1>3. /\ t <= s /\ s <= E /\ s \in EndsOf(format, received)
      /\ Remembers(format, E, s, place)
      /\ Uncut(received, lpszData, E + 1) /\ lpszData[s] = Lines!Nul
      /\ s < E => Closed(received, lpszData, s + 1, E)
  BY DEF CutOff, Token
<1>4. 1 <= s /\ lpsz <= s + 1 /\ s + 1 \in Nat /\ s + 1 - 1 = s
  BY <1>2, <1>3
<1>5. CASE s = E
  <2>1. CASE format = "records"
    <3>1. place = Lines!NULL
      BY <1>3, <1>5, <2>1 DEF Remembers, Lines!NULL
    <3>2. token' = Lines!NULL /\ place' = place /\ lpszData' = lpszData
      BY <2>1, <3>1, TokenizeIs
    <3> QED
      BY <1>1, <1>3, <1>5, <3>1, <3>2 DEF Lines!NULL
  <2>2. CASE format # "records"
    <3>1. place = E
      BY <1>3, <1>5, <2>2 DEF Remembers
    <3>2. StrtokFrom(lpszData, E, token', place', lpszData')
      BY <2>2, <3>1, TokenizeIs DEF TokenizeFrom
    <3>3. IsFirst(lpszData, {Lines!Letter, Lines!Eol, Lines!Nul}, E, E)
      BY <1>3, <1>5 DEF IsFirst
    <3>4. Len(lpszData) \in Nat /\ E <= Len(lpszData)
      BY <1>1, <1>2 DEF Buffer
    <3>5. FirstIn(lpszData, {Lines!Letter, Lines!Eol, Lines!Nul}, E) = E
      BY <3>3, <3>4, FirstUnique
    <3>6. token' = Lines!NULL /\ place' = E /\ lpszData' = lpszData
      BY <1>3, <1>5, <3>2, <3>5 DEF StrtokFrom
    <3> QED
      BY <1>1, <1>3, <1>5, <3>6 DEF Lines!NULL
  <2> QED
    BY <2>1, <2>2
<1>6. CASE s # E
  <2>1. s < E /\ s + 1 <= E
    BY <1>3, <1>6
  <2>2. Begins(format, received, s + 1)
    BY <1>3, <1>4 DEF Begins
  <2>3. Ready(format, received, lpszData, lpsz, E, s + 1)
    BY <1>1, <1>3, <1>4, <2>1, <2>2 DEF Ready
  <2>4. TokenizeFrom(format, lpszData, s + 1, token', place', lpszData')
    <3>1. CASE format = "records"
      <4>1. place = s /\ s # Lines!NULL
        BY <1>3, <1>4, <1>6, <3>1 DEF Remembers, Lines!NULL
      <4> QED
        BY <3>1, <4>1, TokenizeIs
    <3>2. CASE format # "records"
      <4>1. place = s + 1
        BY <1>3, <1>6, <3>2 DEF Remembers
      <4> QED
        BY <3>2, <4>1, TokenizeIs
    <3> QED
      BY <3>1, <3>2
  <2>5. NextField(format, received, lpszData', E, s + 1, token', place')
    BY <2>3, <2>4, TokenizeFinds
  <2>6. Buffer(received, lpszData')
    BY <2>5 DEF NextField
  <2> QED
    BY <2>1, <2>5, <2>6
<1> QED
  BY <1>5, <1>6

LEMMA NextTokenStep ==
  ASSUME LinesInv, Lines!NextToken
  PROVE  LinesInv'
<1>1. /\ linesPc = "next" /\ linesPc' = "next" /\ token # 0
      /\ column' = column + 1 /\ fields' = fields \cup {Lines!Field}
      /\ Lines!Tokenize(Lines!NULL)
  BY DEF Lines!NextToken, Lines!NULL
<1>2. LinesTyped /\ \E E \in Nat : AtNext(E)
  BY <1>1 DEF LinesInv, AtFirst, AtEmpty, AtLine, AtDone, AtToken
<1>3. UNCHANGED <<format, received, lpsz, lpszNewLine, uRecords, noRecords>>
  BY DEF Lines!NextToken, Lines!input, Lines!line
<1>4. PICK E \in Nat : AtNext(E)
  BY <1>2
<1>5. /\ OnLine(E) /\ LineAt(format, received, lpsz, E) /\ Printed(format, received, lpsz)
      /\ InLine(format, received, lpszData, lpsz, E, token, column, place, fields)
  BY <1>4 DEF AtNext, OnLine
<1>6. PICK t : t = token
  OBVIOUS
<1>7. /\ t \in Nat /\ lpsz <= t /\ t <= E /\ fields = FieldsBelow(format, received, t)
      /\ column = Cardinality(Columns(format, received, lpsz, t))
      /\ \E s \in Nat : CutOff(format, received, lpszData, E, t, s, place)
  BY <1>1, <1>5, <1>6 DEF InLine
<1>8. PICK s \in Nat : CutOff(format, received, lpszData, E, t, s, place)
  BY <1>7
<1>9. Lines!Field = FieldAt(format, received, s)
  BY <1>2, <1>5, <1>6, <1>7, <1>8, FieldIs
<1>10. Token(format, received, E, t, s) /\ t <= s /\ s <= E
  BY <1>8 DEF CutOff, Token
<1>11. /\ fields' = FieldsBelow(format, received, s + 1)
       /\ column' = Cardinality(Columns(format, received, lpsz, s + 1)) /\ column' \in Nat
  <2>1. /\ FieldsBelow(format, received, s + 1)
             = FieldsBelow(format, received, t) \cup {FieldAt(format, received, s)}
        /\ Cardinality(Columns(format, received, lpsz, s + 1))
             = Cardinality(Columns(format, received, lpsz, t)) + 1
        /\ Cardinality(Columns(format, received, lpsz, t)) \in Nat
    BY <1>5, <1>7, <1>10, TokenAdds
  <2> QED
    BY <1>1, <1>7, <1>9, <2>1
<1>12. /\ Buffer(received, lpszData')
       /\ \/ s = E /\ token' = 0 /\ place' \in {0, E} /\ Uncut(received, lpszData', E + 1)
          \/ s < E /\ NextField(format, received, lpszData', E, s + 1, token', place')
  BY <1>1, <1>2, <1>5, <1>7, <1>8, GoesOn
<1>13. InLine(format, received, lpszData', lpsz, E, token', column', place', fields')
  <2>1. CASE s = E
    BY <1>11, <1>12, <2>1 DEF InLine
  <2>2. CASE s # E
    <3>1. s + 1 \in Nat /\ lpsz <= s + 1 /\ s + 1 <= E
      BY <1>5, <1>7, <1>10, <2>2 DEF LineAt
    <3>2. NextField(format, received, lpszData', E, s + 1, token', place')
      BY <1>12, <2>2
    <3> QED
      BY <1>5, <1>11, <3>1, <3>2, NextFieldIs
  <2> QED
    BY <2>1, <2>2
<1>14. OnLine(E)'
  BY <1>3, <1>5, OnLineStays
<1>15. AtNext(E)'
  BY <1>1, <1>3, <1>13, <1>14 DEF AtNext
<1>16. LinesTyped'
  BY <1>2, <1>3, <1>11, <1>12 DEF LinesTyped
<1> QED
  BY <1>15, <1>16 DEF LinesInv

LEMMA EndLineStep ==
  ASSUME LinesInv, Lines!EndLine
  PROVE  LinesInv'
<1>1. /\ linesPc = "next" /\ token = 0 /\ lpsz' = lpszNewLine
      /\ linesPc' = IF lpszNewLine = 0 THEN "done" ELSE "line"
  BY DEF Lines!EndLine, Lines!NULL
<1>2. LinesTyped /\ \E E \in Nat : AtNext(E)
  BY <1>1 DEF LinesInv, AtFirst, AtEmpty, AtLine, AtDone, AtToken
<1>3. UNCHANGED <<format, received, lpszData, lpszNewLine, uRecords, column, fields, noRecords>>
  BY DEF Lines!EndLine, Lines!input
<1>4. PICK E \in Nat : AtNext(E)
  BY <1>2
<1>5. /\ LineAt(format, received, lpsz, E)
      /\ lpszNewLine = (IF format = "track" THEN 0 ELSE E + 1)
      /\ RecordOf(format, received, lpsz) = uRecords
      /\ noRecords = OnlyLine(format, received)
      /\ fields = FieldsBelow(format, received, E + 1)
      /\ Uncut(received, lpszData, E + 1)
  BY <1>1, <1>4 DEF AtNext, OnLine, InLine
<1>6. LinesTyped'
  BY <1>2, <1>3 DEF LinesTyped
<1>7. received \in Seq(Received) /\ uRecords \in Nat
  BY <1>2 DEF LinesTyped
<1>8. CASE format = "track"
  <2>1. E = Len(received) + 1
    BY <1>5, <1>8 DEF LineAt
  <2>2. AllFields(format, received) = FieldsBelow(format, received, E + 1)
    BY <1>7, <2>1, AllBelowEnd
  <2>3. AtDone'
    BY <1>1, <1>3, <1>5, <1>8, <2>2 DEF AtDone
  <2> QED
    BY <1>6, <2>3 DEF LinesInv
<1>9. CASE format # "track"
  <2>1. lpsz' = E + 1 /\ linesPc' = "line"
    BY <1>1, <1>5, <1>9
  <2>2. E <= Len(received) /\ received[E] = Lines!Eol /\ Len(received) \in Nat
    BY <1>5, <1>9, LineFacts DEF LineAt
  <2>3. LineIn(format, received, E + 1) = LineIn(format, received, lpsz) + 1
    BY <1>5, <1>9, NextNumber
  <2>4. RecordOf(format, received, E + 1) = uRecords + 1
    <3>1. LineIn(format, received, lpsz) \in Nat
      BY <1>7, LineType
    <3> QED
      BY <1>5, <2>3, <3>1 DEF RecordOf
  <2>5. /\ E + 1 \in Nat /\ 1 <= E + 1 /\ E + 1 <= Len(received) + 1
        /\ received[E + 1 - 1] = Lines!Eol
    BY <2>2
  <2>6. AtLine'
    BY <1>3, <1>5, <1>9, <2>1, <2>4, <2>5 DEF AtLine
  <2> QED
    BY <1>6, <2>6 DEF LinesInv
<1> QED
  BY <1>8, <1>9

LEMMA LinesStep == LinesInv /\ [AnswersNext]_<<vars, linesVars, mxVars>> => LinesInv'
<1> SUFFICES ASSUME LinesInv, [AnswersNext]_<<vars, linesVars, mxVars>> PROVE LinesInv'
  OBVIOUS
<1>1. CASE UNCHANGED linesVars
  <2>1. UNCHANGED <<format, received, lpszData, linesPc, lpsz, lpszNewLine, uRecords, place,
                    token, column, fields, noRecords>>
    BY <1>1 DEF linesVars
  <2>2. LinesTyped' <=> LinesTyped
    BY <2>1 DEF LinesTyped
  <2>3. (AtFirst' <=> AtFirst) /\ (AtEmpty' <=> AtEmpty)
    BY <2>1 DEF AtFirst, AtEmpty
  <2>4. (AtLine' <=> AtLine) /\ (AtDone' <=> AtDone)
    BY <2>1 DEF AtLine, AtDone
  <2>5. ASSUME NEW E \in Nat
        PROVE  (AtToken(E)' <=> AtToken(E)) /\ (AtNext(E)' <=> AtNext(E))
    BY <2>1 DEF AtToken, AtNext, OnLine
  <2> QED
    BY <2>1, <2>2, <2>3, <2>4, <2>5 DEF LinesInv
<1>2. CASE Lines!Next
  BY <1>2, SkipFirstLineStep, CheckRecordsStep, NextLineStep, FirstTokenStep, NextTokenStep,
     EndLineStep DEF Lines!Next
<1> QED
  BY <1>1, <1>2 DEF AnswersNext

LEMMA LinesShown == LinesInv => FieldsAsSplit
<1> SUFFICES ASSUME LinesInv PROVE FieldsAsSplit
  OBVIOUS
<1>1. Lines!StaysInLine
  <2> SUFFICES ASSUME linesPc = "next"
               PROVE  /\ token # Lines!NULL => lpsz <= token /\ token <= Lines!LineEnd
                      /\ place # Lines!NULL => lpsz <= place /\ place <= Lines!LineEnd
    BY DEF Lines!StaysInLine
  <2>1. LinesTyped /\ \E E \in Nat : AtNext(E)
    BY DEF LinesInv, AtFirst, AtEmpty, AtLine, AtDone, AtToken
  <2>2. PICK E \in Nat : AtNext(E)
    BY <2>1
  <2>3. /\ LineAt(format, received, lpsz, E)
        /\ lpszNewLine = (IF format = "track" THEN 0 ELSE E + 1)
        /\ InLine(format, received, lpszData, lpsz, E, token, column, place, fields)
    BY <2>2 DEF AtNext, OnLine
  <2>4. Lines!LineEnd = E
    <3>1. CASE format = "track"
      <4>1. E = Len(received) + 1 /\ Len(lpszData) = Len(received) + 1
        BY <2>1, <2>3, <3>1 DEF LineAt, LinesTyped, Buffer
      <4> QED
        BY <2>3, <3>1, <4>1 DEF Lines!LineEnd, Lines!NULL
    <3>2. CASE format # "track"
      BY <2>3, <3>2 DEF Lines!LineEnd, Lines!NULL
    <3> QED
      BY <3>1, <3>2
  <2>5. lpsz \in Nat /\ lpsz <= E
    BY <2>3 DEF LineAt
  <2>6. CASE token = 0
    BY <2>3, <2>4, <2>5, <2>6 DEF InLine, Lines!NULL
  <2>7. CASE token # 0
    <3>1. /\ token \in Nat /\ lpsz <= token /\ token <= E
          /\ \E s \in Nat : CutOff(format, received, lpszData, E, token, s, place)
      BY <2>3, <2>7 DEF InLine
    <3>2. PICK s \in Nat : CutOff(format, received, lpszData, E, token, s, place)
      BY <3>1
    <3>3. token <= s /\ s <= E /\ Remembers(format, E, s, place)
      BY <3>2 DEF CutOff, Token
    <3>4. place # 0 => lpsz <= place /\ place <= E
      BY <2>5, <3>1, <3>3 DEF Remembers
    <3> QED
      BY <2>4, <3>1, <3>4 DEF Lines!NULL
  <2> QED
    BY <2>6, <2>7
<1>2. linesPc = "done" =>
        /\ fields = Lines!ReferenceFields
        /\ noRecords <=> /\ format = "records" /\ received[Len(received)] = Lines!Eol
                         /\ Lines!Cardinality({p \in Lines!Ends : received[p] = Lines!Eol}) = 1
  <2> SUFFICES ASSUME linesPc = "done"
               PROVE  /\ fields = Lines!ReferenceFields
                      /\ noRecords <=>
                           /\ format = "records" /\ received[Len(received)] = Lines!Eol
                           /\ Lines!Cardinality({p \in Lines!Ends : received[p] = Lines!Eol}) = 1
    OBVIOUS
  <2>1. AtDone
    BY DEF LinesInv, AtFirst, AtEmpty, AtLine, AtToken, AtNext
  <2> QED
    BY <2>1, ReferenceIs DEF AtDone
<1> QED
  BY <1>1, <1>2 DEF FieldsAsSplit, Lines!FieldsAsSplit

(* Whatever was received, however long: each answer is cut into exactly its *)
(* fields, under their own records and columns, the cutting never leaves    *)
(* its line, and "no records" is said when nothing follows the first line.  *)
THEOREM FieldsAlwaysAsSplit == AnswersSpec => []FieldsAsSplit
<1>1. LinesInv => FieldsAsSplit
  BY LinesShown
<1> QED
  BY LinesInit, LinesStep, <1>1, PTL DEF AnswersSpec
=============================================================================
