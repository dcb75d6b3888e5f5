--------------------------- MODULE AccountsProofs ---------------------------
(***************************************************************************)
(* Theorems about Accounts, for any dialogs, panels, names and bounds that *)
(* AccountsAssumption allows, with or without the foreign key.             *)
(***************************************************************************)
EXTENDS Accounts, FiniteSetTheorems, SequenceTheorems, TLAPS

(* Types *)

\* The parts of the type invariant: the table, the connections, the panels'
\* screens and the counts.
TableTypes == users \in Seq(Users) /\ told \in [Names -> Nat]

Requests(c) == IF c \in Dialogs THEN DialogRequests ELSE PanelRequests
Replies(c)  == IF c \in Dialogs THEN Answers ELSE PanelAnswers

LinkTypes ==
    /\ serverUp \in BOOLEAN
    /\ conn \in [Conns -> {"none", "open", "closing"}]
    /\ DOMAIN req = Conns
    /\ \A c \in Conns : req[c] \in Seq(Requests(c))
    /\ looked \in [Conns -> BOOLEAN]
    /\ DOMAIN ans = Conns
    /\ \A c \in Conns : ans[c] \in Seq(Replies(c))
    /\ \A c \in Conns : looked[c] => Serving(c, {"AUTH_REGISTER"})
    /\ ~serverUp => \A c \in Conns : req[c] = <<>> /\ conn[c] = "none"

ScreenTypes ==
    /\ list \in [Panels -> Seq(Status)]
    /\ box \in [Panels -> [id : Nat, kind : Reviews] \cup {NoBox}]

CountTypes ==
    /\ asks \in 0..MaxAsks
    /\ faults \in Nat
    /\ crashes \in Nat
    /\ faults + crashes <= MaxTroubles

Typed == TableTypes /\ LinkTypes /\ ScreenTypes /\ CountTypes

LEMMA TypeParts == TypeOK <=> Typed
  BY AccountsAssumption
     DEF TypeOK, Typed, TableTypes, LinkTypes, ScreenTypes, CountTypes, Requests, Replies, Conns,
         AccountsAssumption

LEMMA ReviewKinds == Reviews = {"APPROVE_USER", "REJECT_USER"}
  BY DEF Reviews, Verdict

\* Which requests a connection can carry, and so which branch of dowithuser its
\* worker takes.
LEMMA HeadRequest ==
  ASSUME LinkTypes, NEW c \in Conns, req[c] # <<>>
  PROVE  /\ Head(req[c]) \in Requests(c)
         /\ Tail(req[c]) \in Seq(Requests(c))
  BY HeadTailProperties DEF LinkTypes

LEMMA RegisterOfDialog ==
  ASSUME LinkTypes, NEW c \in Conns, Serving(c, {"AUTH_REGISTER", "AUTH_B"})
  PROVE  c \in Dialogs /\ Head(req[c]).name \in Names
<1>1. Head(req[c]) \in Requests(c)
  BY HeadRequest DEF Serving
<1>2. Head(req[c]).kind \in {"AUTH_REGISTER", "AUTH_B"}
  BY DEF Serving
<1>3. c \in Dialogs
  BY <1>1, <1>2, ReviewKinds DEF Requests, PanelRequests
<1>. QED  BY <1>1, <1>3 DEF Requests, DialogRequests

LEMMA ReviewOfPanel ==
  ASSUME LinkTypes, NEW c \in Conns, Serving(c, {"GET_PENDING_USERS"} \cup Reviews)
  PROVE  /\ c \in Panels
         /\ Head(req[c]).kind \in Reviews => Head(req[c]).id \in Nat
<1>1. Head(req[c]) \in Requests(c)
  BY HeadRequest DEF Serving
<1>2. Head(req[c]).kind \in {"GET_PENDING_USERS", "APPROVE_USER", "REJECT_USER"}
  BY ReviewKinds DEF Serving
<1>3. c \notin Dialogs
  BY <1>1, <1>2 DEF Requests, DialogRequests
<1>. QED  BY <1>1, <1>3, ReviewKinds DEF Requests, PanelRequests, Conns

\* writetofd, whether it ends the server or not.
LEMMA AnswerTypes ==
  ASSUME LinkTypes, CountTypes, faults' \in Nat, faults' + crashes <= MaxTroubles,
         NEW c \in Conns, req[c] # <<>>, NEW a \in Replies(c), Answer(c, a)
  PROVE  LinkTypes' /\ crashes' \in Nat /\ faults' + crashes' <= MaxTroubles
<1>1. CASE ServerDies
  <2>1. /\ serverUp' \in BOOLEAN
        /\ conn' \in [Conns -> {"none", "open", "closing"}]
        /\ looked' \in [Conns -> BOOLEAN]
        /\ DOMAIN req' = Conns
        /\ \A d \in Conns : req'[d] = <<>> /\ conn'[d] = "none" /\ ~looked'[d]
    BY <1>1 DEF ServerDies
  <2>2. DOMAIN ans' = Conns /\ \A d \in Conns : ans'[d] \in Seq(Replies(d))
    BY <1>1 DEF ServerDies, LinkTypes
  <2>3. \A d \in Conns : req'[d] \in Seq(Requests(d))
    BY <2>1, EmptySeq
  <2>4. crashes' = crashes + 1 /\ faults' + crashes < MaxTroubles
    BY <1>1 DEF ServerDies
  <2>5. crashes \in Nat /\ MaxTroubles \in Nat
    BY AccountsAssumption DEF CountTypes, AccountsAssumption
  <2>6. crashes' \in Nat /\ faults' + crashes' <= MaxTroubles
    BY <2>4, <2>5
  <2>. QED  BY <2>1, <2>2, <2>3, <2>6 DEF LinkTypes
<1>2. CASE /\ req' = [req EXCEPT ![c] = Tail(@)]
           /\ looked' = [looked EXCEPT ![c] = FALSE]
           /\ ans' = IF conn[c] = "open" THEN [ans EXCEPT ![c] = Append(@, a)] ELSE ans
           /\ UNCHANGED <<serverUp, conn, crashes>>
  <2>1. /\ DOMAIN req' = Conns
        /\ \A d \in Conns : req'[d] \in Seq(Requests(d))
    BY <1>2, HeadRequest DEF LinkTypes
  <2>2. /\ DOMAIN ans' = Conns
        /\ \A d \in Conns : ans'[d] \in Seq(Replies(d))
    BY <1>2, AppendProperties DEF LinkTypes
  <2>3. looked' \in [Conns -> BOOLEAN]
    BY <1>2 DEF LinkTypes
  <2>4. \A d \in Conns : looked'[d] => Serving(d, {"AUTH_REGISTER"})'
    BY <1>2 DEF LinkTypes, Serving
  <2>5. serverUp'
    BY <1>2 DEF LinkTypes
  <2>. QED  BY <1>2, <2>1, <2>2, <2>3, <2>4, <2>5 DEF LinkTypes, CountTypes
<1>. QED  BY <1>1, <1>2 DEF Answer

\* A request is sent and nothing else happens to the connections.
LEMMA SendTypes ==
  ASSUME LinkTypes, NEW c \in Conns, NEW r \in Requests(c), serverUp,
         req' = [req EXCEPT ![c] = Append(@, r)], UNCHANGED <<serverUp, looked>>,
         conn' \in [Conns -> {"none", "open", "closing"}],
         DOMAIN ans' = Conns, \A d \in Conns : ans'[d] \in Seq(Replies(d))
  PROVE  LinkTypes'
<1>1. /\ DOMAIN req' = Conns
      /\ \A d \in Conns : req'[d] \in Seq(Requests(d))
  BY AppendProperties DEF LinkTypes
<1>2. \A d \in Conns : req[d] # <<>> => req'[d] # <<>> /\ Head(req'[d]) = Head(req[d])
  BY AppendProperties DEF LinkTypes
<1>3. \A d \in Conns : looked'[d] => Serving(d, {"AUTH_REGISTER"})'
  BY <1>2 DEF LinkTypes, Serving
<1>. QED  BY <1>1, <1>3 DEF LinkTypes

\* A database call, failed or not, stays within the bound.
LEMMA DbCallTypes ==
  ASSUME CountTypes, NEW fails \in BOOLEAN, DbCall(fails)
  PROVE  faults' \in Nat /\ faults' + crashes <= MaxTroubles
<1>1. MaxTroubles \in Nat /\ faults \in Nat /\ crashes \in Nat
  BY AccountsAssumption DEF CountTypes, AccountsAssumption
<1>2. CASE fails
  BY <1>1, <1>2 DEF DbCall
<1>3. CASE ~fails
  BY <1>3 DEF DbCall, CountTypes
<1>. QED  BY <1>2, <1>3

\* A worker's action that answers its request after a database call.
LEMMA ServedTypes ==
  ASSUME LinkTypes, ScreenTypes, CountTypes, NEW c \in Conns, req[c] # <<>>,
         NEW a \in Replies(c), Answer(c, a), NEW fails \in BOOLEAN, DbCall(fails),
         UNCHANGED <<screen, asks>>
  PROVE  LinkTypes' /\ ScreenTypes' /\ CountTypes'
<1>1. LinkTypes' /\ crashes' \in Nat /\ faults' + crashes' <= MaxTroubles
  BY AnswerTypes, DbCallTypes
<1>2. faults' \in Nat
  BY DbCallTypes
<1>. QED  BY <1>1, <1>2 DEF ScreenTypes, CountTypes, screen

LEMMA RegisterLookupTypes ==
  ASSUME Typed, NEW c \in Conns, RegisterLookup(c)
  PROVE  Typed'
<1>. USE DEF Typed
<1>1. PICK fails \in BOOLEAN :
        /\ DbCall(fails)
        /\ IF fails \/ Row(Head(req[c]).name) = {}
           THEN /\ looked' = [looked EXCEPT ![c] = TRUE]
                /\ UNCHANGED <<serverUp, conn, req, ans, crashes>>
           ELSE Answer(c, [kind |-> "AUTH_REGISTER_FAILED"])
  BY DEF RegisterLookup
<1>2. TableTypes' /\ UNCHANGED <<screen, asks>> /\ Serving(c, {"AUTH_REGISTER"}) /\ req[c] # <<>>
  BY DEF RegisterLookup, TableTypes, Serving
<1>3. c \in Dialogs
  <2>1. Serving(c, {"AUTH_REGISTER", "AUTH_B"})
    BY <1>2 DEF Serving
  <2>. QED  BY <2>1, RegisterOfDialog
<1>4. [kind |-> "AUTH_REGISTER_FAILED"] \in Replies(c)
  BY <1>3 DEF Replies, Answers
<1>5. CASE fails \/ Row(Head(req[c]).name) = {}
  <2>1. LinkTypes'
    BY <1>1, <1>2, <1>5 DEF LinkTypes, Serving
  <2>2. CountTypes'
    BY <1>1, <1>2, <1>5, DbCallTypes DEF CountTypes
  <2>. QED  BY <1>2, <2>1, <2>2 DEF ScreenTypes, screen
<1>6. CASE ~(fails \/ Row(Head(req[c]).name) = {})
  BY <1>1, <1>2, <1>4, <1>6, ServedTypes
<1>. QED  BY <1>5, <1>6

\* A row more keeps the table's type.
LEMMA InsertTypes ==
  ASSUME TableTypes, NEW n \in Names, InsertUser(n)
  PROVE  users' \in Seq(Users)
<1>1. [name |-> n, status |-> "pending"] \in Users
  BY DEF Users, Status
<1>. QED  BY <1>1, AppendProperties DEF InsertUser, TableTypes

LEMMA RegisterInsertTypes ==
  ASSUME Typed, NEW c \in Conns, RegisterInsert(c)
  PROVE  Typed'
<1>. USE DEF Typed
<1>. DEFINE n == Head(req[c]).name
<1>1. PICK fails \in BOOLEAN :
        /\ DbCall(fails)
        /\ IF fails \/ Row(n) # {}
           THEN /\ users' = users \/ (Row(n) = {} /\ InsertUser(n))
                /\ told' = told
                /\ Answer(c, [kind |-> "AUTH_REGISTER_FAILED"])
           ELSE /\ InsertUser(n)
                /\ told' = [told EXCEPT ![n] = @ + 1]
                /\ Answer(c, [kind |-> "AUTH_REGISTER_OK"])
  BY DEF RegisterInsert
<1>2. UNCHANGED <<screen, asks>> /\ Serving(c, {"AUTH_REGISTER"}) /\ req[c] # <<>>
  BY DEF RegisterInsert, Serving
<1>3. c \in Dialogs /\ n \in Names
  <2>1. Serving(c, {"AUTH_REGISTER", "AUTH_B"})
    BY <1>2 DEF Serving
  <2>. QED  BY <2>1, RegisterOfDialog
<1>4. /\ [kind |-> "AUTH_REGISTER_FAILED"] \in Replies(c)
      /\ [kind |-> "AUTH_REGISTER_OK"] \in Replies(c)
  BY <1>3 DEF Replies, Answers
<1>5. LinkTypes' /\ ScreenTypes' /\ CountTypes'
  BY <1>1, <1>2, <1>4, ServedTypes
<1>6. users' \in Seq(Users)
  BY <1>1, <1>3, InsertTypes DEF TableTypes
<1>7. told' \in [Names -> Nat]
  BY <1>1, <1>3 DEF TableTypes
<1>. QED  BY <1>5, <1>6, <1>7 DEF TableTypes

LEMMA ServeLoginTypes ==
  ASSUME Typed, NEW c \in Conns, ServeLogin(c)
  PROVE  Typed'
<1>. USE DEF Typed
<1>1. UNCHANGED <<users, told, screen, asks>> /\ Serving(c, {"AUTH_B"}) /\ req[c] # <<>>
  BY DEF ServeLogin, Serving
<1>2. c \in Dialogs
  <2>1. Serving(c, {"AUTH_REGISTER", "AUTH_B"})
    BY <1>1 DEF Serving
  <2>. QED  BY <2>1, RegisterOfDialog
<1>3. CASE Head(req[c]).cred = "unparsed"
  <2>1. req' = [req EXCEPT ![c] = Tail(@)] /\ UNCHANGED <<faults, serverUp, conn, looked, ans, crashes>>
    BY <1>3 DEF ServeLogin
  <2>2. DOMAIN req' = Conns /\ \A d \in Conns : req'[d] \in Seq(Requests(d))
    BY <2>1, <1>1, HeadRequest DEF LinkTypes
  <2>3. \A d \in Conns : looked'[d] => Serving(d, {"AUTH_REGISTER"})'
    <3>1. ~looked[c]
      BY <1>1 DEF LinkTypes, Serving
    <3>. QED  BY <2>1, <3>1 DEF LinkTypes, Serving
  <2>4. serverUp'
    BY <2>1, <1>1 DEF LinkTypes
  <2>. QED  BY <1>1, <2>1, <2>2, <2>3, <2>4 DEF LinkTypes, TableTypes, ScreenTypes, CountTypes, screen
<1>4. CASE Head(req[c]).cred # "unparsed"
  <2>1. PICK fails \in BOOLEAN :
          /\ DbCall(fails)
          /\ Answer(c, LoginAnswer(Head(req[c]), ~fails /\ Authenticate(Head(req[c]))))
    BY <1>4 DEF ServeLogin
  <2>2. LoginAnswer(Head(req[c]), ~fails /\ Authenticate(Head(req[c]))) \in Replies(c)
    BY <1>2 DEF LoginAnswer, Replies, Answers
  <2>. QED  BY <1>1, <2>1, <2>2, ServedTypes DEF TableTypes
<1>. QED  BY <1>3, <1>4

\* The list of all users, whatever their status.
LEMMA StatusesType ==
  ASSUME TableTypes
  PROVE  Statuses \in Seq(Status)
<1>1. Len(users) \in Nat /\ DOMAIN users = 1..Len(users)
  BY LenProperties DEF TableTypes
<1>2. \A i \in 1..Len(users) : users[i] \in Users
  BY ElementOfSeq DEF TableTypes
<1>3. \A i \in 1..Len(users) : users[i].status \in Status
  BY <1>2 DEF Users
<1>4. Statuses \in [1..Len(users) -> Status]
  BY <1>1, <1>3 DEF Statuses
<1>. QED  BY <1>1, <1>4, SeqDef

LEMMA ServeListTypes ==
  ASSUME Typed, NEW c \in Conns, ServeList(c)
  PROVE  Typed'
<1>. USE DEF Typed
<1>1. PICK fails \in BOOLEAN :
        /\ DbCall(fails)
        /\ Answer(c, [kind |-> "LIST", list |-> IF fails THEN <<>> ELSE Statuses])
  BY DEF ServeList
<1>2. /\ UNCHANGED <<users, told, screen, asks>>
      /\ Serving(c, {"GET_PENDING_USERS"} \cup Reviews) /\ req[c] # <<>>
  BY DEF ServeList, Serving
<1>3. c \in Panels /\ c \notin Dialogs
  BY <1>2, ReviewOfPanel, AccountsAssumption DEF AccountsAssumption
<1>4. Statuses \in Seq(Status)
  BY StatusesType
<1>5. (IF fails THEN <<>> ELSE Statuses) \in Seq(Status)
  BY <1>4, EmptySeq
<1>6. [kind |-> "LIST", list |-> IF fails THEN <<>> ELSE Statuses] \in Replies(c)
  BY <1>3, <1>5 DEF Replies, PanelAnswers
<1>. QED  BY <1>1, <1>2, <1>6, ServedTypes DEF TableTypes

LEMMA ServeReviewTypes ==
  ASSUME Typed, NEW c \in Conns, ServeReview(c)
  PROVE  Typed'
<1>. USE DEF Typed
<1>. DEFINE r == Head(req[c])
            updated == [users EXCEPT ![r.id].status = Verdict[r.kind]]
<1>1. PICK fails \in BOOLEAN :
        /\ DbCall(fails)
        /\ \/ Reviewable(r.id) /\ users' = updated
           \/ (fails \/ ~Reviewable(r.id)) /\ users' = users
        /\ Answer(c, ReviewAnswer(r, ~fails /\ Reviewable(r.id)))
  BY DEF ServeReview
<1>2. /\ UNCHANGED <<told, screen, asks>> /\ r.kind \in Reviews
      /\ Serving(c, {"GET_PENDING_USERS"} \cup Reviews) /\ req[c] # <<>>
  BY DEF ServeReview, Serving
<1>3. c \in Panels /\ c \notin Dialogs /\ r.id \in Nat
  BY <1>2, ReviewOfPanel, AccountsAssumption DEF AccountsAssumption
<1>4. ReviewAnswer(r, ~fails /\ Reviewable(r.id)) \in Replies(c)
  <2>1. (~fails /\ Reviewable(r.id)) \in BOOLEAN
    BY DEF Reviewable
  <2>. QED  BY <1>2, <1>3, <2>1 DEF Replies, PanelAnswers, ReviewAnswer
<1>5. Verdict[r.kind] \in Status
  BY <1>2, ReviewKinds DEF Verdict, Status
<1>6. users' \in Seq(Users)
  <2>1. ASSUME Reviewable(r.id)  PROVE updated \in Seq(Users)
    <3>1. r.id \in 1..Len(users)
      BY <2>1, LenProperties DEF Reviewable, TableTypes
    <3>2. users[r.id] \in Users /\ users \in Seq(Users)
      BY <3>1, ElementOfSeq DEF TableTypes
    <3>3. [users[r.id] EXCEPT !.status = Verdict[r.kind]] \in Users
      BY <1>5, <3>2 DEF Users
    <3>4. updated = [users EXCEPT ![r.id] = [users[r.id] EXCEPT !.status = Verdict[r.kind]]]
      OBVIOUS
    <3>5. updated \in Seq(Users)
      BY <3>1, <3>3, <3>4, <3>2, ExceptSeq
    <3>. QED  BY <3>5
  <2>. QED  BY <1>1, <2>1 DEF TableTypes
<1>7. LinkTypes' /\ ScreenTypes' /\ CountTypes'
  BY <1>1, <1>2, <1>4, ServedTypes
<1>. QED  BY <1>2, <1>6, <1>7 DEF TableTypes

LEMMA HangUpTypes ==
  ASSUME Typed, NEW c \in Conns, HangUp(c)
  PROVE  Typed'
  BY DEF Typed, HangUp, database, screen, TableTypes, LinkTypes, ScreenTypes, CountTypes, Serving

LEMMA RestartTypes ==
  ASSUME Typed, Restart
  PROVE  Typed'
  BY DEF Typed, Restart, database, screen, TableTypes, LinkTypes, ScreenTypes, CountTypes, Serving

LEMMA ReconnectTypes ==
  ASSUME Typed, NEW p \in Panels, Reconnect(p)
  PROVE  Typed'
<1>1. DOMAIN ans' = Conns /\ \A c \in Conns : ans'[c] \in Seq(Replies(c))
  BY EmptySeq DEF Typed, Reconnect, LinkTypes
<1>. QED
  BY <1>1 DEF Typed, Reconnect, database, screen, TableTypes, LinkTypes, ScreenTypes, CountTypes,
              Serving

\* onLoginClicked and onRegisterClicked, whatever they send.
LEMMA SubmitTypes ==
  ASSUME Typed, NEW d \in Dialogs, NEW r \in DialogRequests, Submit(d, r)
  PROVE  Typed'
<1>1. d \in Conns /\ r \in Requests(d) /\ serverUp
  BY DEF Conns, Requests, Submit
<1>2. DOMAIN ans' = Conns /\ \A c \in Conns : ans'[c] \in Seq(Replies(c))
  BY EmptySeq DEF Typed, Submit, LinkTypes
<1>3. conn' \in [Conns -> {"none", "open", "closing"}]
  BY DEF Typed, Submit, LinkTypes
<1>4. LinkTypes'
  BY <1>1, <1>2, <1>3, SendTypes DEF Typed, Submit
<1>5. asks' \in 0..MaxAsks
  <2>1. asks \in Nat /\ MaxAsks \in Nat /\ asks < MaxAsks /\ asks' = asks + 1
    BY AccountsAssumption DEF Typed, CountTypes, AccountsAssumption, Submit
  <2>. QED  BY <2>1
<1>. QED
  BY <1>4, <1>5 DEF Typed, Submit, database, screen, TableTypes, ScreenTypes, CountTypes

LEMMA SubmitRegisterTypes ==
  ASSUME Typed, NEW d \in Dialogs, SubmitRegister(d)
  PROVE  Typed'
  BY SubmitTypes DEF SubmitRegister, DialogRequests

LEMMA SubmitLoginTypes ==
  ASSUME Typed, NEW d \in Dialogs, SubmitLogin(d)
  PROVE  Typed'
  BY SubmitTypes DEF SubmitLogin, DialogRequests

LEMMA LeaveTypes ==
  ASSUME Typed, NEW d \in Dialogs, Leave(d)
  PROVE  Typed'
<1>1. DOMAIN ans' = Conns /\ \A c \in Conns : ans'[c] \in Seq(Replies(c))
  BY EmptySeq DEF Typed, Leave, LinkTypes
<1>. QED
  BY <1>1 DEF Typed, Leave, database, screen, TableTypes, LinkTypes, ScreenTypes, CountTypes, Serving

LEMMA ReceiveDialogTypes ==
  ASSUME Typed, NEW d \in Dialogs, ReceiveDialog(d)
  PROVE  Typed'
<1>1. CASE Leave(d)
  BY <1>1, LeaveTypes
<1>2. CASE /\ ans' = [ans EXCEPT ![d] = Tail(@)]
           /\ UNCHANGED <<database, serverUp, conn, req, looked, crashes, screen, told, asks>>
  <2>1. DOMAIN ans' = Conns /\ \A c \in Conns : ans'[c] \in Seq(Replies(c))
    BY <1>2, HeadTailProperties DEF Typed, ReceiveDialog, LinkTypes
  <2>. QED
    BY <1>2, <2>1 DEF Typed, database, screen, TableTypes, LinkTypes, ScreenTypes, CountTypes, Serving
<1>. QED  BY <1>1, <1>2 DEF ReceiveDialog

\* The panel sends a request: what it shows and what it is answered stay.
LEMMA PanelSendTypes ==
  ASSUME LinkTypes, NEW p \in Panels, conn[p] = "open", NEW r \in PanelRequests,
         Send(p, r), DOMAIN ans' = Conns, \A c \in Conns : ans'[c] \in Seq(Replies(c))
  PROVE  LinkTypes'
<1>1. p \in Conns /\ r \in Requests(p)
  BY AccountsAssumption DEF Conns, Requests, AccountsAssumption
<1>2. serverUp
  BY <1>1 DEF LinkTypes
<1>3. conn' \in [Conns -> {"none", "open", "closing"}]
  BY DEF Send, LinkTypes
<1>. QED  BY <1>1, <1>2, <1>3, SendTypes DEF Send

LEMMA LoadPendingUsersTypes ==
  ASSUME Typed, NEW p \in Panels, LoadPendingUsers(p)
  PROVE  Typed'
<1>1. [kind |-> "GET_PENDING_USERS"] \in PanelRequests
  BY DEF PanelRequests
<1>2. LinkTypes'
  BY <1>1, PanelSendTypes DEF Typed, LoadPendingUsers, LinkTypes
<1>. QED
  BY <1>2 DEF Typed, LoadPendingUsers, Send, database, screen, TableTypes, ScreenTypes, CountTypes

LEMMA ReviewClickedTypes ==
  ASSUME Typed, NEW p \in Panels, NEW k \in Clicks[p], ReviewClicked(p, k)
  PROVE  Typed'
<1>1. k \in Reviews
  BY ReviewKinds, AccountsAssumption DEF AccountsAssumption
<1>2. PICK i \in DOMAIN list[p] : box' = [box EXCEPT ![p] = [id |-> i, kind |-> k]]
  BY DEF ReviewClicked
<1>3. i \in Nat
  BY <1>2, LenProperties DEF Typed, ScreenTypes
<1>4. [id |-> i, kind |-> k] \in [id : Nat, kind : Reviews]
  BY <1>1, <1>3
<1>5. ScreenTypes'
  BY <1>2, <1>4 DEF Typed, ScreenTypes, ReviewClicked
<1>. QED
  BY <1>5 DEF Typed, ReviewClicked, database, link, TableTypes, LinkTypes, CountTypes, Serving

LEMMA BoxAnsweredTypes ==
  ASSUME Typed, NEW p \in Panels, BoxAnswered(p)
  PROVE  Typed'
<1>1. ScreenTypes'
  BY DEF Typed, ScreenTypes, BoxAnswered
<1>2. LinkTypes'
  <2>1. CASE /\ conn[p] = "open"
             /\ Send(p, [kind |-> box[p].kind, id |-> box[p].id])
             /\ UNCHANGED ans
    <3>1. box[p] \in [id : Nat, kind : Reviews]
      BY DEF Typed, ScreenTypes, BoxAnswered
    <3>2. [kind |-> box[p].kind, id |-> box[p].id] \in PanelRequests
      BY <3>1 DEF PanelRequests
    <3>. QED  BY <2>1, <3>2, PanelSendTypes DEF Typed, LinkTypes
  <2>2. CASE UNCHANGED link
    BY <2>2 DEF Typed, link, LinkTypes, Serving
  <2>. QED  BY <2>1, <2>2 DEF BoxAnswered
<1>3. UNCHANGED crashes
  BY DEF BoxAnswered, Send, link
<1>. QED  BY <1>1, <1>2, <1>3 DEF Typed, BoxAnswered, database, TableTypes, CountTypes

LEMMA ReceivePanelTypes ==
  ASSUME Typed, NEW p \in Panels, ReceivePanel(p)
  PROVE  Typed'
<1>1. p \in Conns /\ p \notin Dialogs
  BY AccountsAssumption DEF Conns, AccountsAssumption
<1>2. ans[p] \in Seq(PanelAnswers) /\ ans[p] # <<>>
  BY <1>1 DEF Typed, LinkTypes, Replies, ReceivePanel
<1>3. Head(ans[p]) \in PanelAnswers /\ Tail(ans[p]) \in Seq(PanelAnswers)
  BY <1>2, HeadTailProperties
<1>4. DOMAIN ans' = Conns /\ \A c \in Conns : ans'[c] \in Seq(Replies(c))
  BY <1>1, <1>3 DEF Typed, LinkTypes, Replies, ReceivePanel
<1>5. ScreenTypes'
  <2>1. Head(ans[p]).kind = "LIST" => Head(ans[p]).list \in Seq(Status)
    BY <1>3, ReviewKinds DEF PanelAnswers
  <2>. QED  BY <2>1 DEF Typed, ScreenTypes, ReceivePanel
<1>6. LinkTypes'
  <2>1. CASE conn[p] = "open" /\ Send(p, [kind |-> "GET_PENDING_USERS"])
    <3>1. [kind |-> "GET_PENDING_USERS"] \in PanelRequests
      BY DEF PanelRequests
    <3>. QED  BY <1>4, <2>1, <3>1, PanelSendTypes DEF Typed
  <2>2. CASE UNCHANGED <<serverUp, conn, req, looked, crashes>>
    BY <1>4, <2>2 DEF Typed, LinkTypes, Serving
  <2>. QED  BY <2>1, <2>2 DEF ReceivePanel
<1>7. UNCHANGED crashes
  BY DEF ReceivePanel, Send
<1>. QED  BY <1>5, <1>6, <1>7 DEF Typed, ReceivePanel, database, TableTypes, CountTypes

-----------------------------------------------------------------------------
(* Type correctness *)

LEMMA TypedInit == Init => Typed
<1>. SUFFICES ASSUME Init  PROVE Typed
  OBVIOUS
<1>1. TableTypes
  BY EmptySeq DEF Init, TableTypes
<1>2. LinkTypes
  BY EmptySeq DEF Init, LinkTypes
<1>3. ScreenTypes
  BY EmptySeq DEF Init, ScreenTypes
<1>4. CountTypes
  BY AccountsAssumption DEF Init, CountTypes, AccountsAssumption
<1>. QED  BY <1>1, <1>2, <1>3, <1>4 DEF Typed

\* The steps of the system, one by one.
LEMMA Steps ==
  ASSUME Next
  PROVE  \/ \E c \in Conns : \/ RegisterLookup(c) \/ RegisterInsert(c) \/ ServeLogin(c)
                             \/ ServeList(c) \/ ServeReview(c) \/ HangUp(c)
         \/ \E d \in Dialogs : \/ SubmitRegister(d) \/ SubmitLogin(d)
                               \/ ReceiveDialog(d) \/ Quit(d)
         \/ \E p \in Panels : \/ LoadPendingUsers(p) \/ BoxAnswered(p) \/ ReceivePanel(p)
                              \/ Reconnect(p) \/ \E k \in Clicks[p] : ReviewClicked(p, k)
         \/ Restart
  BY DEF Next, Worker, Dialog, Panel

LEMMA TypedNext ==
  ASSUME Typed, [Next]_vars
  PROVE  Typed'
<1>1. CASE UNCHANGED vars
  BY <1>1 DEF vars, database, link, screen, Typed, TableTypes, LinkTypes, ScreenTypes, CountTypes,
              Serving
<1>2. CASE \E c \in Conns : \/ RegisterLookup(c) \/ RegisterInsert(c) \/ ServeLogin(c)
                            \/ ServeList(c) \/ ServeReview(c) \/ HangUp(c)
  BY <1>2, RegisterLookupTypes, RegisterInsertTypes, ServeLoginTypes, ServeListTypes,
     ServeReviewTypes, HangUpTypes
<1>3. CASE \E d \in Dialogs : \/ SubmitRegister(d) \/ SubmitLogin(d) \/ ReceiveDialog(d) \/ Quit(d)
  BY <1>3, SubmitRegisterTypes, SubmitLoginTypes, ReceiveDialogTypes, LeaveTypes DEF Quit
<1>4. CASE \E p \in Panels : \/ LoadPendingUsers(p) \/ BoxAnswered(p) \/ ReceivePanel(p)
                             \/ Reconnect(p) \/ \E k \in Clicks[p] : ReviewClicked(p, k)
  BY <1>4, LoadPendingUsersTypes, BoxAnsweredTypes, ReceivePanelTypes, ReconnectTypes,
     ReviewClickedTypes
<1>5. CASE Restart
  BY <1>5, RestartTypes
<1>. QED  BY <1>1, <1>2, <1>3, <1>4, <1>5, Steps

LEMMA TypedAlways == Spec => []Typed
<1>1. Init => Typed
  BY TypedInit
<1>2. Typed /\ [Next]_vars => Typed'
  BY TypedNext
<1>. QED  BY <1>1, <1>2, PTL DEF Spec

\* Type correctness: in particular a registration that passed the lookup is still
\* the first request of its connection when the INSERT runs, whatever the other
\* workers, a failing database and the server's deaths do in between.
THEOREM AccountsTypeCorrect == Spec => []TypeOK
<1>1. Typed => TypeOK
  BY TypeParts
<1>. QED  BY <1>1, TypedAlways, PTL

-----------------------------------------------------------------------------
(* What a step can do to the table *)

\* A free name gets a row, and the registration may be told so.
RowAdded ==
    \E n \in Names :
        /\ Row(n) = {}
        /\ InsertUser(n)
        /\ told' = told \/ told' = [told EXCEPT ![n] = @ + 1]

\* A pending user gets the verdict of the request that p's worker serves.
RowReviewed(p) ==
    LET r == Head(req[p]) IN
    /\ r.kind \in Reviews
    /\ Reviewable(r.id)
    /\ users' = [users EXCEPT ![r.id].status = Verdict[r.kind]]
    /\ told' = told

TableStep == UNCHANGED <<users, told>> \/ RowAdded \/ \E p \in Panels : RowReviewed(p)

LEMMA RegisterInsertTable ==
  ASSUME Typed, NEW c \in Conns, RegisterInsert(c)
  PROVE  TableStep
<1>1. Serving(c, {"AUTH_REGISTER", "AUTH_B"})
  BY DEF RegisterInsert, Serving
<1>2. Head(req[c]).name \in Names
  BY <1>1, RegisterOfDialog DEF Typed
<1>. QED  BY <1>2 DEF RegisterInsert, TableStep, RowAdded

LEMMA ServeReviewTable ==
  ASSUME Typed, NEW c \in Conns, ServeReview(c)
  PROVE  TableStep
<1>1. Serving(c, {"GET_PENDING_USERS"} \cup Reviews) /\ Head(req[c]).kind \in Reviews
  BY DEF ServeReview, Serving
<1>2. c \in Panels
  BY <1>1, ReviewOfPanel DEF Typed
<1>. QED  BY <1>1, <1>2 DEF ServeReview, TableStep, RowReviewed

LEMMA StepOfTable ==
  ASSUME Typed, [Next]_vars
  PROVE  TableStep
<1>1. CASE UNCHANGED vars
  BY <1>1 DEF vars, database, TableStep
<1>2. CASE \E c \in Conns : \/ RegisterLookup(c) \/ RegisterInsert(c) \/ ServeLogin(c)
                            \/ ServeList(c) \/ ServeReview(c) \/ HangUp(c)
  BY <1>2, RegisterInsertTable, ServeReviewTable
     DEF TableStep, RegisterLookup, ServeLogin, ServeList, HangUp, database
<1>3. CASE \E d \in Dialogs : \/ SubmitRegister(d) \/ SubmitLogin(d) \/ ReceiveDialog(d) \/ Quit(d)
  BY <1>3 DEF TableStep, SubmitRegister, SubmitLogin, Submit, ReceiveDialog, Quit, Leave, database
<1>4. CASE \E p \in Panels : \/ LoadPendingUsers(p) \/ BoxAnswered(p) \/ ReceivePanel(p)
                             \/ Reconnect(p) \/ \E k \in Clicks[p] : ReviewClicked(p, k)
  BY <1>4
     DEF TableStep, LoadPendingUsers, BoxAnswered, ReceivePanel, Reconnect, ReviewClicked, database
<1>5. CASE Restart
  BY <1>5 DEF TableStep, Restart, database
<1>. QED  BY <1>1, <1>2, <1>3, <1>4, <1>5, Steps

\* The rows after a row was added, or one was reviewed.
LEMMA RowsAfterInsert ==
  ASSUME TableTypes, NEW n \in Names, InsertUser(n)
  PROVE  /\ Len(users) \in Nat
         /\ DOMAIN users = 1..Len(users)
         /\ DOMAIN users' = 1..(Len(users) + 1)
         /\ \A i \in DOMAIN users : users'[i] = users[i]
         /\ users'[Len(users) + 1] = [name |-> n, status |-> "pending"]
<1>1. [name |-> n, status |-> "pending"] \in Users
  BY DEF Users, Status
<1>2. Len(users) \in Nat /\ DOMAIN users = 1..Len(users)
  BY LenProperties DEF TableTypes
<1>3. users' \in Seq(Users) /\ Len(users') = Len(users) + 1
  BY <1>1, AppendProperties DEF InsertUser, TableTypes
<1>4. DOMAIN users' = 1..(Len(users) + 1)
  BY <1>3, LenProperties
<1>5. /\ \A i \in 1..Len(users) : users'[i] = users[i]
      /\ users'[Len(users) + 1] = [name |-> n, status |-> "pending"]
  BY <1>1, AppendProperties DEF InsertUser, TableTypes
<1>. QED  BY <1>2, <1>4, <1>5

LEMMA RowsAfterReview ==
  ASSUME TableTypes, NEW p \in Panels, RowReviewed(p)
  PROVE  /\ DOMAIN users' = DOMAIN users
         /\ Head(req[p]).id \in DOMAIN users
         /\ users[Head(req[p]).id].status = "pending"
         /\ users'[Head(req[p]).id].status = Verdict[Head(req[p]).kind]
         /\ \A i \in DOMAIN users : /\ users'[i].name = users[i].name
                                    /\ i # Head(req[p]).id => users'[i] = users[i]
<1>1. DOMAIN users' = DOMAIN users
  BY DEF RowReviewed
<1>2. Head(req[p]).id \in DOMAIN users /\ users[Head(req[p]).id].status = "pending"
  BY DEF RowReviewed, Reviewable
<1>3. users[Head(req[p]).id] \in Users
  BY <1>2, ElementOfSeq, LenProperties DEF TableTypes
<1>4. users'[Head(req[p]).id] = [users[Head(req[p]).id] EXCEPT !.status = Verdict[Head(req[p]).kind]]
  BY <1>2 DEF RowReviewed
<1>5. \A i \in DOMAIN users : i # Head(req[p]).id => users'[i] = users[i]
  BY DEF RowReviewed
<1>6. /\ users'[Head(req[p]).id].name = users[Head(req[p]).id].name
      /\ users'[Head(req[p]).id].status = Verdict[Head(req[p]).kind]
  BY <1>3, <1>4 DEF Users
<1>. QED  BY <1>1, <1>2, <1>5, <1>6

\* No row is lost or renamed and no verdict is changed.
Stands ==
    \A i \in DOMAIN users :
        /\ i \in DOMAIN users'
        /\ users'[i].name = users[i].name
        /\ users[i].status # "pending" => users'[i].status = users[i].status

LEMMA TableStands ==
  ASSUME TableTypes, TableStep
  PROVE  Stands
<1>1. CASE UNCHANGED <<users, told>>
  BY <1>1 DEF Stands
<1>2. CASE RowAdded
  <2>1. PICK n \in Names : InsertUser(n)
    BY <1>2 DEF RowAdded
  <2>2. /\ Len(users) \in Nat
        /\ DOMAIN users = 1..Len(users)
        /\ DOMAIN users' = 1..(Len(users) + 1)
        /\ \A i \in DOMAIN users : users'[i] = users[i]
    BY <2>1, RowsAfterInsert
  <2>3. DOMAIN users \subseteq DOMAIN users'
    BY <2>2
  <2>. QED  BY <2>2, <2>3 DEF Stands
<1>3. CASE \E p \in Panels : RowReviewed(p)
  BY <1>3, RowsAfterReview DEF Stands
<1>. QED  BY <1>1, <1>2, <1>3 DEF TableStep

\* A verdict stands, for any number of panels and whatever is left on their
\* screens and under way: the condition status = 'pending' of the UPDATE is what
\* keeps it, and no other request writes the column.
THEOREM VerdictStands == Spec => VerdictsStand
<1>1. Typed /\ [Next]_vars => [Stands]_vars
  <2>. SUFFICES ASSUME Typed, [Next]_vars  PROVE Stands
    OBVIOUS
  <2>. QED  BY StepOfTable, TableStands DEF Typed
<1>. QED  BY <1>1, TypedAlways, PTL DEF Spec, VerdictsStand, Stands

-----------------------------------------------------------------------------
(* One account per name *)

\* What a registration is told and what the table holds, for one name.
OneAccount(n) == told[n] <= Cardinality(Row(n)) /\ Cardinality(Row(n)) <= 1

LEMMA OneAccountNext ==
  ASSUME TableTypes, TableStep, NEW m \in Names, OneAccount(m)
  PROVE  OneAccount(m)'
<1>. USE DEF OneAccount
<1>1. CASE UNCHANGED <<users, told>>
  BY <1>1 DEF Row
<1>2. CASE RowAdded
  <2>1. PICK n \in Names : /\ Row(n) = {}
                           /\ InsertUser(n)
                           /\ told' = told \/ told' = [told EXCEPT ![n] = @ + 1]
    BY <1>2 DEF RowAdded
  <2>2. /\ Len(users) \in Nat
        /\ DOMAIN users = 1..Len(users)
        /\ DOMAIN users' = 1..(Len(users) + 1)
        /\ \A i \in DOMAIN users : users'[i] = users[i]
        /\ users'[Len(users) + 1].name = n
    <3>1. InsertUser(n)
      BY <2>1
    <3>2. users'[Len(users) + 1] = [name |-> n, status |-> "pending"]
      BY <3>1, RowsAfterInsert
    <3>. QED  BY <3>1, <3>2, RowsAfterInsert
  <2>3. /\ DOMAIN users' = DOMAIN users \cup {Len(users) + 1}
        /\ Len(users) + 1 \notin DOMAIN users
    BY <2>2
  <2>4. CASE m = n
    <3>1. Row(m)' = {Len(users) + 1}
      <4>1. \A i \in DOMAIN users : users'[i].name # m
        BY <2>1, <2>2, <2>4 DEF Row
      <4>. QED  BY <2>2, <2>3, <2>4, <4>1 DEF Row
    <3>2. Cardinality(Row(m)') = 1 /\ Cardinality(Row(m)) = 0
      BY <3>1, <2>1, <2>4, FS_Singleton, FS_EmptySet
    <3>3. told[m] = 0
      BY <3>2 DEF TableTypes
    <3>4. told'[m] \in {0, 1}
      BY <2>1, <2>4, <3>3 DEF TableTypes
    <3>. QED  BY <3>2, <3>4
  <2>5. CASE m # n
    <3>1. Row(m)' = Row(m)
      BY <2>2, <2>3, <2>5 DEF Row
    <3>2. told'[m] = told[m]
      BY <2>1, <2>5 DEF TableTypes
    <3>. QED  BY <3>1, <3>2
  <2>. QED  BY <2>4, <2>5
<1>3. CASE \E p \in Panels : RowReviewed(p)
  <2>1. Row(m)' = Row(m)
    BY <1>3, RowsAfterReview DEF Row
  <2>2. told' = told
    BY <1>3 DEF RowReviewed
  <2>. QED  BY <2>1, <2>2
<1>. QED  BY <1>1, <1>2, <1>3 DEF TableStep

\* However many registrations race for a name, however many lookups fail and
\* however often the server dies between the lookup and the INSERT, a name has at
\* most one account and at most one registration was told that it made it.
THEOREM OneAccountEach == Spec => []OneAccountPerName
<1>1. Init => OneAccountPerName
  <2>. SUFFICES ASSUME Init, NEW n \in Names
                PROVE  told[n] <= Cardinality(Row(n)) /\ Cardinality(Row(n)) <= 1
    BY DEF OneAccountPerName
  <2>1. Row(n) = {} /\ told[n] = 0
    BY DEF Init, Row
  <2>. QED  BY <2>1, FS_EmptySet
<1>2. Typed /\ OneAccountPerName /\ [Next]_vars => OneAccountPerName'
  BY StepOfTable, OneAccountNext DEF Typed, OneAccountPerName, OneAccount
<1>. QED  BY <1>1, <1>2, TypedAlways, PTL DEF Spec

-----------------------------------------------------------------------------
(* Where what is under way to a panel comes from *)

OldAnswer(c, a)  == \E j \in DOMAIN ans[c] : a = ans[c][j]
OldRequest(c, r) == \E j \in DOMAIN req[c] : r = req[c][j]

\* The answers a panel's worker can give: a list read in this step, or the answer
\* to a review, which is a success only if this step changed the row.
NewAnswer(p, a) ==
    \/ a.kind = "LIST" /\ (a.list = <<>> \/ a.list = Statuses)
    \/ /\ Serving(p, Reviews)
       /\ \E fails \in BOOLEAN :
            /\ DbCall(fails)
            /\ a = ReviewAnswer(Head(req[p]), ~fails /\ Reviewable(Head(req[p]).id))
       /\ a.ok => RowReviewed(p)

AnswerStep == \A p \in Panels : \A i \in DOMAIN ans'[p] :
                OldAnswer(p, ans'[p][i]) \/ NewAnswer(p, ans'[p][i])

LEMMA TailElements ==
  ASSUME NEW S, NEW s \in Seq(S), s # <<>>
  PROVE  \A i \in DOMAIN Tail(s) : \E j \in DOMAIN s : Tail(s)[i] = s[j]
<1>1. Len(s) \in Nat /\ DOMAIN s = 1..Len(s) /\ Len(s) # 0
  BY LenProperties, EmptySeq
<1>2. Tail(s) \in Seq(S) /\ Len(Tail(s)) = Len(s) - 1
  BY HeadTailProperties
<1>3. DOMAIN Tail(s) = 1..(Len(s) - 1)
  BY <1>2, LenProperties
<1>4. \A i \in 1..Len(Tail(s)) : Tail(s)[i] = s[i + 1]
  BY HeadTailProperties
<1>5. \A i \in DOMAIN Tail(s) : i + 1 \in DOMAIN s /\ Tail(s)[i] = s[i + 1]
  BY <1>1, <1>2, <1>3, <1>4
<1>. QED  BY <1>5

LEMMA AppendElements ==
  ASSUME NEW S, NEW s \in Seq(S), NEW e \in S
  PROVE  \A i \in DOMAIN Append(s, e) : Append(s, e)[i] = e \/ \E j \in DOMAIN s : Append(s, e)[i] = s[j]
<1>1. Len(s) \in Nat /\ DOMAIN s = 1..Len(s)
  BY LenProperties
<1>2. /\ Append(s, e) \in Seq(S)
      /\ Len(Append(s, e)) = Len(s) + 1
      /\ \A i \in 1..Len(s) : Append(s, e)[i] = s[i]
      /\ Append(s, e)[Len(s) + 1] = e
  BY AppendProperties
<1>3. DOMAIN Append(s, e) = 1..(Len(s) + 1)
  BY <1>2, LenProperties
<1>4. \A i \in DOMAIN Append(s, e) : i = Len(s) + 1 \/ i \in DOMAIN s
  BY <1>1, <1>3
<1>. QED  BY <1>1, <1>2, <1>4

LEMMA AnsweredAnswers ==
  ASSUME LinkTypes, NEW c \in Conns, NEW a \in Replies(c), Answer(c, a)
  PROVE  \A d \in Conns : \A i \in DOMAIN ans'[d] :
            OldAnswer(d, ans'[d][i]) \/ (d = c /\ ans'[d][i] = a)
<1>1. CASE ServerDies
  BY <1>1 DEF ServerDies, OldAnswer, LinkTypes
<1>2. CASE ans' = [ans EXCEPT ![c] = Append(@, a)]
  BY <1>2, AppendElements DEF OldAnswer, LinkTypes
<1>3. CASE ans' = ans
  BY <1>3 DEF OldAnswer
<1>. QED  BY <1>1, <1>2, <1>3 DEF Answer

LEMMA ServeListAnswer ==
  ASSUME Typed, NEW c \in Conns, ServeList(c)
  PROVE  AnswerStep
<1>1. PICK fails \in BOOLEAN :
        Answer(c, [kind |-> "LIST", list |-> IF fails THEN <<>> ELSE Statuses])
  BY DEF ServeList
<1>2. Serving(c, {"GET_PENDING_USERS"} \cup Reviews)
  BY DEF ServeList, Serving
<1>3. c \in Panels /\ c \notin Dialogs
  BY <1>2, ReviewOfPanel, AccountsAssumption DEF AccountsAssumption, Typed
<1>4. Statuses \in Seq(Status)
  BY StatusesType DEF Typed
<1>5. (IF fails THEN <<>> ELSE Statuses) \in Seq(Status)
  BY <1>4, EmptySeq
<1>6. [kind |-> "LIST", list |-> IF fails THEN <<>> ELSE Statuses] \in Replies(c)
  BY <1>3, <1>5 DEF Replies, PanelAnswers
<1>. QED  BY <1>1, <1>6, AnsweredAnswers DEF Typed, AnswerStep, NewAnswer, Conns

LEMMA ServeReviewAnswer ==
  ASSUME Typed, NEW c \in Conns, ServeReview(c)
  PROVE  AnswerStep
<1>1. PICK fails \in BOOLEAN :
        /\ DbCall(fails)
        /\ ~fails /\ Reviewable(Head(req[c]).id) => RowReviewed(c)
        /\ Answer(c, ReviewAnswer(Head(req[c]), ~fails /\ Reviewable(Head(req[c]).id)))
  BY DEF ServeReview, RowReviewed, Serving
<1>2. Serving(c, {"GET_PENDING_USERS"} \cup Reviews) /\ Serving(c, Reviews)
  BY DEF ServeReview, Serving
<1>3. c \in Panels /\ c \notin Dialogs /\ Head(req[c]).kind \in Reviews /\ Head(req[c]).id \in Nat
  BY <1>2, ReviewOfPanel, AccountsAssumption DEF AccountsAssumption, Typed, Serving
<1>4. PICK ok \in BOOLEAN : ok = (~fails /\ Reviewable(Head(req[c]).id))
  BY DEF Reviewable
<1>5. ReviewAnswer(Head(req[c]), ok) \in Replies(c) /\ ReviewAnswer(Head(req[c]), ok).ok = ok
  BY <1>3 DEF Replies, PanelAnswers, ReviewAnswer
<1>6. NewAnswer(c, ReviewAnswer(Head(req[c]), ok))
  BY <1>1, <1>2, <1>4, <1>5 DEF NewAnswer
<1>7. \A d \in Conns : \A i \in DOMAIN ans'[d] :
         OldAnswer(d, ans'[d][i]) \/ (d = c /\ ans'[d][i] = ReviewAnswer(Head(req[c]), ok))
  BY <1>1, <1>4, <1>5, AnsweredAnswers DEF Typed
<1>. QED  BY <1>6, <1>7 DEF AnswerStep, Conns

\* The other answers go to dialogs, or there is none.
LEMMA DialogAnswer ==
  ASSUME Typed, NEW c \in Conns, RegisterLookup(c) \/ RegisterInsert(c) \/ ServeLogin(c)
  PROVE  AnswerStep
<1>1. Serving(c, {"AUTH_REGISTER", "AUTH_B"})
  BY DEF RegisterLookup, RegisterInsert, ServeLogin, Serving
<1>2. c \in Dialogs /\ c \notin Panels
  BY <1>1, RegisterOfDialog, AccountsAssumption DEF Typed, AccountsAssumption
<1>3. \/ UNCHANGED ans
      \/ Answer(c, [kind |-> "AUTH_REGISTER_FAILED"])
      \/ Answer(c, [kind |-> "AUTH_REGISTER_OK"])
      \/ Answer(c, [kind |-> "AUTH_OK"])
      \/ Answer(c, [kind |-> "AUTH_FAILED"])
  BY DEF RegisterLookup, RegisterInsert, ServeLogin, LoginAnswer
<1>4. /\ [kind |-> "AUTH_REGISTER_FAILED"] \in Replies(c)
      /\ [kind |-> "AUTH_REGISTER_OK"] \in Replies(c)
      /\ [kind |-> "AUTH_OK"] \in Replies(c)
      /\ [kind |-> "AUTH_FAILED"] \in Replies(c)
  BY <1>2 DEF Replies, Answers
<1>5. CASE UNCHANGED ans
  BY <1>5 DEF AnswerStep, OldAnswer
<1>6. CASE \E a \in Replies(c) : Answer(c, a)
  <2>1. \A p \in Panels : p \in Conns /\ p # c
    BY <1>2 DEF Conns
  <2>. QED  BY <1>6, <2>1, AnsweredAnswers DEF Typed, AnswerStep
<1>. QED  BY <1>3, <1>4, <1>5, <1>6

LEMMA StepOfAnswers ==
  ASSUME Typed, [Next]_vars
  PROVE  AnswerStep
<1>1. CASE UNCHANGED ans
  BY <1>1 DEF AnswerStep, OldAnswer
<1>2. CASE \E c \in Conns : \/ RegisterLookup(c) \/ RegisterInsert(c) \/ ServeLogin(c)
                            \/ ServeList(c) \/ ServeReview(c) \/ HangUp(c)
  BY <1>1, <1>2, DialogAnswer, ServeListAnswer, ServeReviewAnswer DEF HangUp
<1>3. CASE \E d \in Dialogs : \/ SubmitRegister(d) \/ SubmitLogin(d) \/ ReceiveDialog(d) \/ Quit(d)
  <2>1. PICK d \in Dialogs : \E e : ans' = ans \/ ans' = [ans EXCEPT ![d] = e]
    BY <1>3 DEF SubmitRegister, SubmitLogin, Submit, ReceiveDialog, Quit, Leave
  <2>2. d \notin Panels
    BY AccountsAssumption DEF AccountsAssumption
  <2>3. \A p \in Panels : ans'[p] = ans[p]
    BY <2>1, <2>2 DEF Typed, LinkTypes, Conns
  <2>. QED  BY <2>3 DEF AnswerStep, OldAnswer
<1>4. ASSUME NEW p \in Panels, ReceivePanel(p)  PROVE AnswerStep
  <2>1. p \in Conns
    BY DEF Conns
  <2>2. \A i \in DOMAIN Tail(ans[p]) : \E j \in DOMAIN ans[p] : Tail(ans[p])[i] = ans[p][j]
    BY <1>4, <2>1, TailElements DEF ReceivePanel, Typed, LinkTypes
  <2>3. ans' = [ans EXCEPT ![p] = Tail(@)]
    BY <1>4 DEF ReceivePanel
  <2>. QED  BY <2>1, <2>2, <2>3 DEF AnswerStep, OldAnswer, Typed, LinkTypes, Conns
<1>5. ASSUME NEW p \in Panels, Reconnect(p)  PROVE AnswerStep
  BY <1>5 DEF Reconnect, AnswerStep, OldAnswer, Typed, LinkTypes, Conns
<1>6. CASE \E p \in Panels : \/ LoadPendingUsers(p) \/ BoxAnswered(p) \/ ReceivePanel(p)
                             \/ Reconnect(p) \/ \E k \in Clicks[p] : ReviewClicked(p, k)
  BY <1>1, <1>4, <1>5, <1>6 DEF LoadPendingUsers, BoxAnswered, ReviewClicked, link
<1>. QED  BY <1>1, <1>2, <1>3, <1>6, Steps DEF vars, link, Restart

-----------------------------------------------------------------------------
(* What administrators are told *)

\* A user who has the status the answer's review gives.
Decided(a) == a.id \in DOMAIN users /\ users[a.id].status = Verdict[a.kind]

\* An administrator who is told of a success decided the status, and it stays so
\* for as long as the answer is under way, for any number of panels that review
\* the same users at the same time.
THEOREM ConfirmedHolds == Spec => []ConfirmedReviewHolds
<1>1. Init => ConfirmedReviewHolds
  BY DEF Init, ConfirmedReviewHolds, Conns
<1>2. Typed /\ ConfirmedReviewHolds /\ [Next]_vars => ConfirmedReviewHolds'
  <2>. SUFFICES ASSUME Typed, ConfirmedReviewHolds, [Next]_vars,
                       NEW p \in Panels, NEW i \in DOMAIN ans'[p],
                       ans'[p][i].kind \in Reviews, ans'[p][i].ok
                PROVE  /\ ans'[p][i].id \in DOMAIN users'
                       /\ users'[ans'[p][i].id].status = Verdict[ans'[p][i].kind]
    BY DEF ConfirmedReviewHolds, Reviews
  <2>1. Stands
    BY StepOfTable, TableStands DEF Typed
  <2>2. CASE OldAnswer(p, ans'[p][i])
    <3>1. Decided(ans'[p][i])
      BY <2>2 DEF OldAnswer, ConfirmedReviewHolds, Decided
    <3>2. Verdict[ans'[p][i].kind] # "pending"
      BY ReviewKinds DEF Verdict
    <3>. QED  BY <2>1, <3>1, <3>2 DEF Stands, Decided
  <2>3. CASE NewAnswer(p, ans'[p][i])
    <3>1. ans'[p][i].kind # "LIST"
      BY ReviewKinds
    <3>2. PICK ok : ans'[p][i] = ReviewAnswer(Head(req[p]), ok)
      BY <2>3, <3>1 DEF NewAnswer
    <3>3. /\ ans'[p][i].id = Head(req[p]).id
          /\ ans'[p][i].kind = Head(req[p]).kind
      BY <3>2 DEF ReviewAnswer
    <3>4. RowReviewed(p)
      BY <2>3, <3>1 DEF NewAnswer
    <3>. QED  BY <3>3, <3>4, RowsAfterReview DEF Typed
  <2>. QED  BY <2>2, <2>3, StepOfAnswers DEF AnswerStep
<1>. QED  BY <1>1, <1>2, TypedAlways, PTL DEF Spec

-----------------------------------------------------------------------------
(* Without the foreign key of table.sql:14: why a review is refused *)

\* Every user a panel shows, asks about or has sent a request for is in the table.
KnownUsers(l) == DOMAIN l \subseteq DOMAIN users

Known ==
    \A p \in Panels :
        /\ KnownUsers(list[p])
        /\ box[p] # NoBox => box[p].id \in DOMAIN users
        /\ \A i \in DOMAIN req[p] : req[p][i].kind \in Reviews => req[p][i].id \in DOMAIN users
        /\ \A i \in DOMAIN ans[p] : ans[p][i].kind = "LIST" => KnownUsers(ans[p][i].list)

\* Where a panel's requests and its screen come from.
RequestStep == \A p \in Panels : \A i \in DOMAIN req'[p] :
                  LET r == req'[p][i] IN
                  \/ OldRequest(p, r)
                  \/ r.kind = "GET_PENDING_USERS"
                  \/ box[p] # NoBox /\ r.id = box[p].id

ScreenStep == \A p \in Panels :
    /\ \/ list'[p] = list[p]
       \/ \E j \in DOMAIN ans[p] : ans[p][j].kind = "LIST" /\ list'[p] = ans[p][j].list
    /\ \/ box'[p] = box[p]
       \/ box'[p] = NoBox
       \/ box'[p].id \in DOMAIN list[p]

LEMMA AnsweredRequests ==
  ASSUME LinkTypes, NEW c \in Conns, req[c] # <<>>, NEW a, Answer(c, a)
  PROVE  RequestStep
<1>1. CASE ServerDies
  BY <1>1 DEF ServerDies, RequestStep, Conns
<1>2. CASE req' = [req EXCEPT ![c] = Tail(@)]
  <2>1. \A i \in DOMAIN Tail(req[c]) : OldRequest(c, Tail(req[c])[i])
    BY TailElements DEF OldRequest, LinkTypes
  <2>. QED  BY <1>2, <2>1 DEF RequestStep, OldRequest, LinkTypes, Conns
<1>. QED  BY <1>1, <1>2 DEF Answer

LEMMA SentRequests ==
  ASSUME LinkTypes, NEW c \in Conns, NEW r \in Requests(c), req' = [req EXCEPT ![c] = Append(@, r)],
         c \in Dialogs \/ r.kind = "GET_PENDING_USERS" \/ (box[c] # NoBox /\ r.id = box[c].id)
  PROVE  RequestStep
<1>1. \A i \in DOMAIN Append(req[c], r) :
         Append(req[c], r)[i] = r \/ OldRequest(c, Append(req[c], r)[i])
  BY AppendElements DEF OldRequest, LinkTypes
<1>2. c \in Dialogs => c \notin Panels
  BY AccountsAssumption DEF AccountsAssumption
<1>. QED  BY <1>1, <1>2 DEF RequestStep, OldRequest, LinkTypes, Conns

LEMMA StepOfRequests ==
  ASSUME Typed, [Next]_vars
  PROVE  RequestStep
<1>1. CASE UNCHANGED req
  BY <1>1 DEF RequestStep, OldRequest
<1>2. ASSUME NEW c \in Conns, req[c] # <<>>, req' = [req EXCEPT ![c] = Tail(@)]
      PROVE RequestStep
  <2>1. \A i \in DOMAIN Tail(req[c]) : OldRequest(c, Tail(req[c])[i])
    BY <1>2, TailElements DEF OldRequest, Typed, LinkTypes
  <2>. QED  BY <1>2, <2>1 DEF RequestStep, OldRequest, Typed, LinkTypes, Conns
<1>3. CASE \E c \in Conns : \/ RegisterLookup(c) \/ RegisterInsert(c) \/ ServeLogin(c)
                            \/ ServeList(c) \/ ServeReview(c) \/ HangUp(c)
  <2>1. PICK c \in Conns : \/ UNCHANGED req
                           \/ req[c] # <<>> /\ \E a : Answer(c, a)
                           \/ req[c] # <<>> /\ req' = [req EXCEPT ![c] = Tail(@)]
    BY <1>3 DEF RegisterLookup, RegisterInsert, ServeLogin, ServeList, ServeReview, HangUp, Serving
  <2>. QED  BY <1>1, <1>2, <2>1, AnsweredRequests DEF Typed
<1>4. CASE \E d \in Dialogs : \/ SubmitRegister(d) \/ SubmitLogin(d) \/ ReceiveDialog(d) \/ Quit(d)
  <2>1. PICK d \in Dialogs : UNCHANGED req \/ \E r \in DialogRequests : req' = [req EXCEPT ![d] = Append(@, r)]
    BY <1>4 DEF SubmitRegister, SubmitLogin, Submit, ReceiveDialog, Quit, Leave, DialogRequests
  <2>2. d \in Conns /\ Requests(d) = DialogRequests
    BY DEF Conns, Requests
  <2>. QED  BY <1>1, <2>1, <2>2, SentRequests DEF Typed
<1>5. ASSUME NEW p \in Panels, BoxAnswered(p)  PROVE RequestStep
  <2>1. p \in Conns /\ Requests(p) = PanelRequests
    BY AccountsAssumption DEF Conns, Requests, AccountsAssumption
  <2>2. box[p] # NoBox /\ box[p] \in [id : Nat, kind : Reviews]
    BY <1>5 DEF BoxAnswered, Typed, ScreenTypes
  <2>3. /\ [kind |-> box[p].kind, id |-> box[p].id] \in PanelRequests
        /\ [kind |-> box[p].kind, id |-> box[p].id].id = box[p].id
    BY <2>2 DEF PanelRequests
  <2>. QED  BY <1>1, <1>5, <2>1, <2>2, <2>3, SentRequests DEF BoxAnswered, Send, link, Typed
<1>6. ASSUME NEW p \in Panels, req' = [req EXCEPT ![p] = Append(@, [kind |-> "GET_PENDING_USERS"])]
      PROVE RequestStep
  <2>1. p \in Conns /\ [kind |-> "GET_PENDING_USERS"] \in Requests(p)
    BY AccountsAssumption DEF Conns, Requests, PanelRequests, AccountsAssumption
  <2>. QED  BY <1>6, <2>1, SentRequests DEF Typed
<1>7. CASE \E p \in Panels : \/ LoadPendingUsers(p) \/ BoxAnswered(p) \/ ReceivePanel(p)
                             \/ Reconnect(p) \/ \E k \in Clicks[p] : ReviewClicked(p, k)
  BY <1>1, <1>5, <1>6, <1>7 DEF LoadPendingUsers, ReceivePanel, Send, Reconnect, ReviewClicked, link
<1>. QED  BY <1>1, <1>3, <1>4, <1>7, Steps DEF vars, link, Restart

LEMMA StepOfScreens ==
  ASSUME Typed, [Next]_vars
  PROVE  ScreenStep
<1>1. CASE UNCHANGED screen
  BY <1>1 DEF ScreenStep, screen
<1>2. ASSUME NEW p \in Panels, ReceivePanel(p)  PROVE ScreenStep
  <2>1. p \in Conns /\ ans[p] \in Seq(Replies(p)) /\ ans[p] # <<>>
    BY <1>2 DEF Conns, ReceivePanel, Typed, LinkTypes
  <2>2. 1 \in DOMAIN ans[p] /\ Head(ans[p]) = ans[p][1]
    <3>1. Len(ans[p]) \in Nat /\ DOMAIN ans[p] = 1..Len(ans[p]) /\ Len(ans[p]) # 0
      BY <2>1, LenProperties, EmptySeq
    <3>. QED  BY <2>1, <3>1, HeadTailProperties
  <2>. QED  BY <1>2, <2>2 DEF ReceivePanel, ScreenStep, Typed, ScreenTypes
<1>3. ASSUME NEW p \in Panels, NEW k \in Clicks[p], ReviewClicked(p, k)  PROVE ScreenStep
  BY <1>3 DEF ReviewClicked, ScreenStep, Typed, ScreenTypes
<1>4. ASSUME NEW p \in Panels, BoxAnswered(p)  PROVE ScreenStep
  BY <1>4 DEF BoxAnswered, ScreenStep, Typed, ScreenTypes
<1>5. CASE \E c \in Conns : \/ RegisterLookup(c) \/ RegisterInsert(c) \/ ServeLogin(c)
                            \/ ServeList(c) \/ ServeReview(c) \/ HangUp(c)
  BY <1>1, <1>5 DEF RegisterLookup, RegisterInsert, ServeLogin, ServeList, ServeReview, HangUp
<1>6. CASE \E d \in Dialogs : \/ SubmitRegister(d) \/ SubmitLogin(d) \/ ReceiveDialog(d) \/ Quit(d)
  BY <1>1, <1>6 DEF SubmitRegister, SubmitLogin, Submit, ReceiveDialog, Quit, Leave
<1>7. CASE \E p \in Panels : \/ LoadPendingUsers(p) \/ BoxAnswered(p) \/ ReceivePanel(p)
                             \/ Reconnect(p) \/ \E k \in Clicks[p] : ReviewClicked(p, k)
  BY <1>1, <1>2, <1>3, <1>4, <1>7 DEF LoadPendingUsers, Reconnect
<1>. QED  BY <1>1, <1>5, <1>6, <1>7, Steps DEF vars, Restart

LEMMA KnownNext ==
  ASSUME Typed, Known, [Next]_vars
  PROVE  Known'
<1>1. DOMAIN users \subseteq DOMAIN users'
  BY StepOfTable, TableStands DEF Typed, Stands
<1>. SUFFICES ASSUME NEW p \in Panels
              PROVE  /\ DOMAIN list'[p] \subseteq DOMAIN users'
                     /\ box'[p] # NoBox => box'[p].id \in DOMAIN users'
                     /\ \A i \in DOMAIN req'[p] :
                           req'[p][i].kind \in Reviews => req'[p][i].id \in DOMAIN users'
                     /\ \A i \in DOMAIN ans'[p] :
                           ans'[p][i].kind = "LIST" => DOMAIN ans'[p][i].list \subseteq DOMAIN users'
  BY DEF Known, KnownUsers, Reviews
<1>2. DOMAIN list'[p] \subseteq DOMAIN users'
  BY <1>1, StepOfScreens DEF ScreenStep, Known, KnownUsers
<1>3. box'[p] # NoBox => box'[p].id \in DOMAIN users'
  BY <1>1, StepOfScreens DEF ScreenStep, Known, KnownUsers
<1>4. \A i \in DOMAIN req'[p] : req'[p][i].kind \in Reviews => req'[p][i].id \in DOMAIN users'
  BY <1>1, StepOfRequests, ReviewKinds DEF RequestStep, OldRequest, Known
<1>5. ASSUME NEW i \in DOMAIN ans'[p], ans'[p][i].kind = "LIST"
      PROVE  DOMAIN ans'[p][i].list \subseteq DOMAIN users'
  <2>1. CASE OldAnswer(p, ans'[p][i])
    BY <1>1, <1>5, <2>1 DEF OldAnswer, Known, KnownUsers
  <2>2. CASE NewAnswer(p, ans'[p][i])
    <3>1. ans'[p][i].list = <<>> \/ ans'[p][i].list = Statuses
      <4>1. ASSUME NEW ok, ans'[p][i] = ReviewAnswer(Head(req[p]), ok), Serving(p, Reviews)
            PROVE FALSE
        BY <1>5, <4>1, ReviewKinds DEF ReviewAnswer, Serving
      <4>. QED  BY <2>2, <4>1 DEF NewAnswer
    <3>2. DOMAIN Statuses = DOMAIN users
      BY DEF Statuses
    <3>. QED  BY <1>1, <3>1, <3>2
  <2>. QED  BY <2>1, <2>2, StepOfAnswers DEF AnswerStep
<1>. QED  BY <1>2, <1>3, <1>4, <1>5

\* The count of failed calls never goes down.
LEMMA FaultsGrow ==
  ASSUME Typed, [Next]_vars
  PROVE  faults' = 0 => faults = 0
<1>0. faults \in Nat
  BY DEF Typed, CountTypes
<1>1. CASE UNCHANGED faults
  BY <1>1
<1>2. ASSUME NEW fails \in BOOLEAN, DbCall(fails)  PROVE faults' = 0 => faults = 0
  BY <1>0, <1>2 DEF DbCall
<1>3. CASE \E c \in Conns : \/ RegisterLookup(c) \/ RegisterInsert(c) \/ ServeLogin(c)
                            \/ ServeList(c) \/ ServeReview(c) \/ HangUp(c)
  BY <1>1, <1>2, <1>3
     DEF RegisterLookup, RegisterInsert, ServeLogin, ServeList, ServeReview, HangUp, database
<1>4. CASE \E d \in Dialogs : \/ SubmitRegister(d) \/ SubmitLogin(d) \/ ReceiveDialog(d) \/ Quit(d)
  BY <1>1, <1>4 DEF SubmitRegister, SubmitLogin, Submit, ReceiveDialog, Quit, Leave, database
<1>5. CASE \E p \in Panels : \/ LoadPendingUsers(p) \/ BoxAnswered(p) \/ ReceivePanel(p)
                             \/ Reconnect(p) \/ \E k \in Clicks[p] : ReviewClicked(p, k)
  BY <1>1, <1>5 DEF LoadPendingUsers, BoxAnswered, ReceivePanel, Reconnect, ReviewClicked, database
<1>. QED  BY <1>1, <1>3, <1>4, <1>5, Steps DEF vars, database, Restart

\* Where the key of table.sql is not enforced and no call fails, an administrator
\* is refused only for a user whom somebody has reviewed before: no refusal can
\* come from a list that is out of date in another way.
THEOREM RefusedReviewed ==
  ASSUME ~ReviewerKey
  PROVE  Spec => []RefusedWasReviewed
<1>1. Init => Known /\ RefusedWasReviewed
  BY DEF Init, Known, KnownUsers, RefusedWasReviewed, Conns
<1>2. Typed /\ Known /\ [Next]_vars => Known'
  BY KnownNext
<1>3. Typed /\ Known /\ RefusedWasReviewed /\ [Next]_vars => RefusedWasReviewed'
  <2>. SUFFICES ASSUME Typed, Known, RefusedWasReviewed, [Next]_vars, faults' = 0,
                       NEW p \in Panels, NEW i \in DOMAIN ans'[p],
                       ans'[p][i].kind \in Reviews, ~ans'[p][i].ok
                PROVE  /\ ans'[p][i].id \in DOMAIN users'
                       /\ users'[ans'[p][i].id].status # "pending"
    BY DEF RefusedWasReviewed, Reviews
  <2>1. Stands
    BY StepOfTable, TableStands DEF Typed
  <2>2. /\ ans'[p][i].id \in DOMAIN users
        /\ users[ans'[p][i].id].status # "pending"
    <3>1. CASE OldAnswer(p, ans'[p][i])
      BY <3>1, FaultsGrow DEF OldAnswer, RefusedWasReviewed
    <3>2. CASE NewAnswer(p, ans'[p][i])
      <4>1. ans'[p][i].kind # "LIST"
        BY ReviewKinds
      <4>2. Serving(p, Reviews)
        BY <3>2, <4>1 DEF NewAnswer
      <4>3. PICK fails \in BOOLEAN :
              /\ DbCall(fails)
              /\ ans'[p][i] = ReviewAnswer(Head(req[p]), ~fails /\ Reviewable(Head(req[p]).id))
        BY <3>2, <4>1 DEF NewAnswer
      <4>4. ~fails
        BY <4>3 DEF DbCall, Typed, CountTypes
      <4>5. /\ ans'[p][i].id = Head(req[p]).id
            /\ ~Reviewable(Head(req[p]).id)
        <5>1. ans'[p][i] = ReviewAnswer(Head(req[p]), Reviewable(Head(req[p]).id))
          BY <4>3, <4>4 DEF Reviewable
        <5>2. PICK ok \in BOOLEAN : ok = Reviewable(Head(req[p]).id)
          BY DEF Reviewable
        <5>3. ans'[p][i].id = Head(req[p]).id /\ ans'[p][i].ok = ok
          BY <5>1, <5>2 DEF ReviewAnswer
        <5>. QED  BY <5>2, <5>3
      <4>6. Head(req[p]) = req[p][1] /\ 1 \in DOMAIN req[p]
        <5>1. p \in Conns /\ req[p] \in Seq(Requests(p)) /\ req[p] # <<>>
          BY <4>2 DEF Typed, LinkTypes, Conns, Serving
        <5>2. Len(req[p]) \in Nat /\ DOMAIN req[p] = 1..Len(req[p]) /\ Len(req[p]) # 0
          BY <5>1, LenProperties, EmptySeq
        <5>. QED  BY <5>1, <5>2, HeadTailProperties
      <4>7. Head(req[p]).id \in DOMAIN users
        BY <4>2, <4>6 DEF Known, Serving
      <4>. QED  BY <4>5, <4>7 DEF Reviewable
    <3>. QED  BY <3>1, <3>2, StepOfAnswers DEF AnswerStep
  <2>. QED  BY <2>1, <2>2 DEF Stands
<1>. QED  BY <1>1, <1>2, <1>3, TypedAlways, PTL DEF Spec

-----------------------------------------------------------------------------
(* With the foreign key of table.sql:14 *)

NobodyReviewed == \A i \in DOMAIN users : users[i].status = "pending"

\* Where the database enforces the key, no user is ever approved or rejected,
\* whatever administrators do: reviewed_by is always -1, and the UPDATE fails.
THEOREM KeyStopsReviews ==
  ASSUME ReviewerKey
  PROVE  Spec => []NobodyReviewed
<1>1. Init => NobodyReviewed
  BY DEF Init, NobodyReviewed
<1>2. Typed /\ NobodyReviewed /\ [Next]_vars => NobodyReviewed'
  <2>. SUFFICES ASSUME Typed, NobodyReviewed, [Next]_vars  PROVE NobodyReviewed'
    OBVIOUS
  <2>1. CASE UNCHANGED <<users, told>>
    BY <2>1 DEF NobodyReviewed
  <2>2. CASE RowAdded
    <3>1. PICK n \in Names : InsertUser(n)
      BY <2>2 DEF RowAdded
    <3>2. /\ Len(users) \in Nat
          /\ DOMAIN users = 1..Len(users)
          /\ DOMAIN users' = 1..(Len(users) + 1)
          /\ \A i \in DOMAIN users : users'[i] = users[i]
          /\ users'[Len(users) + 1] = [name |-> n, status |-> "pending"]
      BY <3>1, RowsAfterInsert DEF Typed
    <3>3. DOMAIN users' = DOMAIN users \cup {Len(users) + 1}
      BY <3>2
    <3>4. users'[Len(users) + 1].status = "pending"
      BY <3>2
    <3>. QED  BY <3>2, <3>3, <3>4 DEF NobodyReviewed
  <2>3. ~(\E p \in Panels : RowReviewed(p))
    BY DEF RowReviewed, Reviewable
  <2>. QED  BY <2>1, <2>2, <2>3, StepOfTable DEF TableStep
<1>. QED  BY <1>1, <1>2, TypedAlways, PTL DEF Spec

=============================================================================
