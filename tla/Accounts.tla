------------------------------ MODULE Accounts ------------------------------
(***************************************************************************)
(* Accounts: registration, login and the approval of pending users.        *)
(*   - server/auth.cpp on the tables of server/table.sql: every call opens *)
(*     a database connection of its own and runs one statement at a time,  *)
(*     without a transaction;                                              *)
(*   - server/userdeal.cpp:290-623: a worker thread per client connection  *)
(*     that reads one request, runs it and writes the answer;              *)
(*   - client/dialog.cpp: the login and registration pages, which close    *)
(*     their connection on most answers;                                   *)
(*   - client/adminpanel.cpp: the administration panel, whose list of      *)
(*     users is as old as its last refresh and whose question box keeps    *)
(*     the user it was opened for.                                         *)
(*                                                                         *)
(* The connection that an administrator's login leaves open is a panel of  *)
(* its own.  Users with the role admin do not register (dialog.cpp has no  *)
(* button for it) and are not listed, so `users` holds the others only.    *)
(***************************************************************************)
EXTENDS Naturals, Sequences, FiniteSets

CONSTANTS
    Dialogs,     \* connections opened by the login and registration pages
    Panels,      \* connections of administration panels
    Names,       \* user names
    Clicks,      \* per panel: the verdicts its administrator gives
    ReviewerKey, \* whether the database enforces table.sql:14
    PipeLen,     \* bound: messages under way on a connection
    MaxAsks,     \* bound: registrations and logins
    MaxTroubles, \* bound: failed database calls and deaths of the server
    NoBox        \* no question box is open

ASSUME AccountsAssumption ==
    /\ Dialogs \cap Panels = {}
    /\ Clicks \in [Panels -> SUBSET {"APPROVE_USER", "REJECT_USER"}]
    /\ ReviewerKey \in BOOLEAN
    /\ PipeLen \in Nat \ {0}
    /\ MaxAsks \in Nat
    /\ MaxTroubles \in Nat
    /\ NoBox \notin [id : Nat, kind : {"APPROVE_USER", "REJECT_USER"}]

Conns == Dialogs \cup Panels

VARIABLES
    users,     \* the table users: user i is its i-th row
    serverUp,  \* the server process runs
    conn,      \* per connection: "none", "open", "closing" (only by the client)
    req,       \* per connection: requests on their way or being served
    looked,    \* per connection: isUsernameExists has let the registration pass
    ans,       \* per connection: answers on their way
    list,      \* per panel: m_allUsers, the statuses it was told last
    box,       \* per panel: the question box on the screen, or NoBox
    told,      \* per name: registrations that were answered OK (history)
    asks,      \* registrations and logins so far
    faults,    \* failed database calls so far
    crashes    \* deaths of the server so far

database == <<users, faults>>
link     == <<serverUp, conn, req, looked, ans, crashes>>
screen   == <<list, box>>
vars     == <<database, link, screen, told, asks>>

-----------------------------------------------------------------------------
(* Types *)

Status  == {"pending", "approved", "rejected"}
Verdict == [APPROVE_USER |-> "approved", REJECT_USER |-> "rejected"]
Reviews == DOMAIN Verdict

\* What the login page sends: the right password and role, wrong ones, or a text
\* that sscanf does not split into three fields (userdeal.cpp:327).
Credentials == {"right", "wrong", "unparsed"}

DialogRequests ==
    [kind : {"AUTH_REGISTER"}, name : Names]
        \cup [kind : {"AUTH_B"}, name : Names, cred : Credentials]
PanelRequests == [kind : {"GET_PENDING_USERS"}] \cup [kind : Reviews, id : Nat]

Users == [name : Names, status : Status]
Row(n) == {i \in DOMAIN users : users[i].name = n}
Statuses == [i \in DOMAIN users |-> users[i].status]

Init ==
    /\ users = <<>>
    /\ serverUp = TRUE
    /\ conn = [c \in Conns |-> IF c \in Panels THEN "open" ELSE "none"]
    /\ req = [c \in Conns |-> <<>>]
    /\ looked = [c \in Conns |-> FALSE]
    /\ ans = [c \in Conns |-> <<>>]
    /\ list = [p \in Panels |-> <<>>]
    /\ box = [p \in Panels |-> NoBox]
    /\ told = [n \in Names |-> 0]
    /\ asks = 0
    /\ faults = 0
    /\ crashes = 0

-----------------------------------------------------------------------------
(* The connections *)

\* The bound on what is under way on a connection.
HasRoom(c) == Len(req[c]) + Len(ans[c]) < PipeLen

\* Faulty variant: a registration's step survives the server.
ServerDiesMidLookup ==
    /\ faults' + crashes < MaxTroubles
    /\ crashes' = crashes + 1
    /\ serverUp' = FALSE
    /\ conn' = [c \in Conns |-> "none"]
    /\ req' = [c \in Conns |-> <<>>]
    /\ looked' = looked
    /\ ans' = [c \in Conns |-> <<>>]

\* Nothing stops SIGPIPE in the server: an answer written to a client that is
\* gone may end the process and with it every connection.  What had been
\* written may still be read (`kept`).  The tables stay.
ServerDies ==
    /\ faults' + crashes < MaxTroubles
    /\ crashes' = crashes + 1
    /\ serverUp' = FALSE
    /\ conn' = [c \in Conns |-> "none"]
    /\ req' = [c \in Conns |-> <<>>]
    /\ looked' = [c \in Conns |-> FALSE]
    /\ \E kept \in {{}, Conns} : ans' = [c \in Conns |-> IF c \in kept THEN ans[c] ELSE <<>>]

\* writetofd: the answer to the request c's worker has served.
Answer(c, a) ==
    \/ /\ req' = [req EXCEPT ![c] = Tail(@)]
       /\ looked' = [looked EXCEPT ![c] = FALSE]
       /\ ans' = IF conn[c] = "open" THEN [ans EXCEPT ![c] = Append(@, a)] ELSE ans
       /\ UNCHANGED <<serverUp, conn, crashes>>
    \/ /\ conn[c] = "closing"
       /\ ServerDies

\* A worker at the first request of its connection.
Serving(c, kinds) == req[c] # <<>> /\ Head(req[c]).kind \in kinds

\* The worker reads end of file, closes and goes back to accept.
HangUp(c) ==
    /\ conn[c] = "closing"
    /\ req[c] = <<>>
    /\ conn' = [conn EXCEPT ![c] = "none"]
    /\ UNCHANGED <<database, serverUp, req, looked, ans, crashes, screen, told, asks>>

\* The server is started again.
Restart ==
    /\ ~serverUp
    /\ serverUp' = TRUE
    /\ UNCHANGED <<database, conn, req, looked, ans, crashes, screen, told, asks>>

\* MyTcpSocket reconnects a panel in the background.
Reconnect(p) ==
    /\ serverUp
    /\ conn[p] = "none"
    /\ conn' = [conn EXCEPT ![p] = "open"]
    /\ ans' = [ans EXCEPT ![p] = <<>>]
    /\ UNCHANGED <<database, serverUp, req, looked, crashes, screen, told, asks>>

-----------------------------------------------------------------------------
(* The database calls of a worker.  Each may fail (a database connection of  *)
(* its own each time): `fails` says so and is taken from the bound.          *)

DbCall(fails) ==
    /\ fails => faults + crashes < MaxTroubles
    /\ faults' = IF fails THEN faults + 1 ELSE faults

\* isUsernameExists: any failure counts as "does not exist".
RegisterLookup(c) ==
    /\ Serving(c, {"AUTH_REGISTER"})
    /\ ~looked[c]
    /\ \E fails \in BOOLEAN :
         /\ DbCall(fails)
         /\ IF fails \/ Row(Head(req[c]).name) = {}
            THEN /\ looked' = [looked EXCEPT ![c] = TRUE]
                 /\ UNCHANGED <<serverUp, conn, req, ans, crashes>>
            ELSE Answer(c, [kind |-> "AUTH_REGISTER_FAILED"])
    /\ UNCHANGED <<users, screen, told, asks>>

InsertUser(n) == users' = Append(users, [name |-> n, status |-> "pending"])

\* Faulty variant: the column is not UNIQUE, the lookup is all there is.
RegisterInsertTwice(c) ==
    LET n == Head(req[c]).name IN
    /\ Serving(c, {"AUTH_REGISTER"})
    /\ looked[c]
    /\ DbCall(FALSE)
    /\ InsertUser(n)
    /\ told' = [told EXCEPT ![n] = @ + 1]
    /\ Answer(c, [kind |-> "AUTH_REGISTER_OK"])
    /\ UNCHANGED <<screen, asks>>

\* The INSERT of registerUser.  A name taken since the lookup violates UNIQUE
\* (table.sql:7); a failing call may have inserted the row all the same.
RegisterInsert(c) ==
    LET n == Head(req[c]).name IN
    /\ Serving(c, {"AUTH_REGISTER"})
    /\ looked[c]
    /\ \E fails \in BOOLEAN :
         /\ DbCall(fails)
         /\ IF fails \/ Row(n) # {}
            THEN /\ users' = users \/ (Row(n) = {} /\ InsertUser(n))
                 /\ told' = told
                 /\ Answer(c, [kind |-> "AUTH_REGISTER_FAILED"])
            ELSE /\ InsertUser(n)
                 /\ told' = [told EXCEPT ![n] = @ + 1]
                 /\ Answer(c, [kind |-> "AUTH_REGISTER_OK"])
    /\ UNCHANGED <<screen, asks>>

LoginAnswer(r, good) ==
    IF good THEN [kind |-> "AUTH_OK"] ELSE [kind |-> "AUTH_FAILED"]

\* The tests of authenticateUser on the row it has read: the password, the role
\* and the status, which only shuts out rejected users.
Authenticate(r) ==
    \E i \in Row(r.name) : r.cred = "right" /\ users[i].status # "rejected"

\* AUTH_B; a request that does not parse is dropped without an answer.
ServeLogin(c) ==
    LET r == Head(req[c]) IN
    /\ Serving(c, {"AUTH_B"})
    /\ IF r.cred = "unparsed"
       THEN /\ req' = [req EXCEPT ![c] = Tail(@)]
            /\ UNCHANGED <<faults, serverUp, conn, looked, ans, crashes>>
       ELSE \E fails \in BOOLEAN :
              /\ DbCall(fails)
              /\ Answer(c, LoginAnswer(r, ~fails /\ Authenticate(r)))
    /\ UNCHANGED <<users, screen, told, asks>>

\* Faulty variant: only the users still to be reviewed (getPendingUser).
ServeListPending(p) ==
    /\ Serving(p, {"GET_PENDING_USERS"})
    /\ DbCall(FALSE)
    /\ Answer(p, [kind |-> "LIST",
                  list |-> [i \in {j \in DOMAIN users : users[j].status = "pending"} |->
                                users[i].status]])
    /\ UNCHANGED <<users, screen, told, asks>>

\* GET_PENDING_USERS: getAllUsers, which returns no users when a call fails.
ServeList(p) ==
    /\ Serving(p, {"GET_PENDING_USERS"})
    /\ \E fails \in BOOLEAN :
         /\ DbCall(fails)
         /\ Answer(p, [kind |-> "LIST", list |-> IF fails THEN <<>> ELSE Statuses])
    /\ UNCHANGED <<users, screen, told, asks>>

\* Faulty variant: UPDATE without AND status = 'pending'.
ReviewableAlways(i) == i \in DOMAIN users /\ ~ReviewerKey

\* Faulty variant: the test of the id is off by one.
ReviewableAboveOne(i) ==
    i > 1 /\ i \in DOMAIN users /\ users[i].status = "pending" /\ ~ReviewerKey

\* The rows that the UPDATE of approveUser and rejectUser changes: reviewed_by is
\* always -1 (userdeal.cpp:527-528), which is no user's id.
Reviewable(i) == i \in DOMAIN users /\ users[i].status = "pending" /\ ~ReviewerKey

ReviewAnswer(r, ok) == [kind |-> r.kind, id |-> r.id, ok |-> ok]

\* Faulty variant: any UPDATE that was executed is a success.
ServeReviewUncounted(p) ==
    LET r == Head(req[p]) IN
    /\ Serving(p, Reviews)
    /\ DbCall(FALSE)
    /\ users' = IF Reviewable(r.id) THEN [users EXCEPT ![r.id].status = Verdict[r.kind]] ELSE users
    /\ Answer(p, ReviewAnswer(r, TRUE))
    /\ UNCHANGED <<screen, told, asks>>

\* APPROVE_USER and REJECT_USER: a success only if a row was changed.  A failing
\* call may have changed it.
ServeReview(p) ==
    LET r == Head(req[p])
        updated == [users EXCEPT ![r.id].status = Verdict[r.kind]]
    IN
    /\ Serving(p, Reviews)
    /\ \E fails \in BOOLEAN :
         /\ DbCall(fails)
         /\ \/ Reviewable(r.id) /\ users' = updated
            \/ (fails \/ ~Reviewable(r.id)) /\ users' = users
         /\ Answer(p, ReviewAnswer(r, ~fails /\ Reviewable(r.id)))
    /\ UNCHANGED <<screen, told, asks>>

-----------------------------------------------------------------------------
(* The login and registration pages *)

\* onLoginClicked and onRegisterClicked: connect if need be and send.  Nothing
\* stops a second click while no answer has come.
Submit(d, r) ==
    /\ asks < MaxAsks
    /\ asks' = asks + 1
    /\ serverUp
    /\ HasRoom(d) \/ conn[d] = "none"
    /\ conn[d] # "closing"
    /\ conn' = [conn EXCEPT ![d] = "open"]
    /\ req' = [req EXCEPT ![d] = Append(@, r)]
    /\ ans' = IF conn[d] = "none" THEN [ans EXCEPT ![d] = <<>>] ELSE ans
    /\ UNCHANGED <<database, serverUp, looked, crashes, screen, told>>

SubmitRegister(d) == \E n \in Names : Submit(d, [kind |-> "AUTH_REGISTER", name |-> n])

SubmitLogin(d) ==
    \E n \in Names, cred \in Credentials :
        Submit(d, [kind |-> "AUTH_B", name |-> n, cred |-> cred])

\* disconnectFromHost; what is still under way to the page is lost.
Leave(d) ==
    /\ conn' = [conn EXCEPT ![d] = IF @ = "open" THEN "closing" ELSE @]
    /\ ans' = [ans EXCEPT ![d] = <<>>]
    /\ UNCHANGED <<database, serverUp, req, looked, crashes, screen, told, asks>>

\* onLoginSuccess, onLoginFailed and onRegisterSuccess disconnect,
\* onRegisterFailed does not.
ReceiveDialog(d) ==
    /\ ans[d] # <<>>
    /\ IF Head(ans[d]).kind = "AUTH_REGISTER_FAILED"
       THEN /\ ans' = [ans EXCEPT ![d] = Tail(@)]
            /\ UNCHANGED <<database, serverUp, conn, req, looked, crashes, screen, told, asks>>
       ELSE Leave(d)

\* The user closes the program, an answer or none.
Quit(d) == conn[d] = "open" /\ Leave(d)

-----------------------------------------------------------------------------
(* The administration panel *)

Send(p, r) ==
    /\ req' = [req EXCEPT ![p] = Append(@, r)]
    /\ UNCHANGED <<serverUp, conn, looked, crashes>>

\* loadPendingUsers, from the refresh button or the 30 s timer.  isConnected only
\* says that there is a socket object: without a connection the request is lost.
LoadPendingUsers(p) ==
    /\ conn[p] = "open"
    /\ HasRoom(p)
    /\ Send(p, [kind |-> "GET_PENDING_USERS"])
    /\ UNCHANGED <<database, ans, screen, told, asks>>

\* approveButtonClicked and rejectButtonClicked, up to the question: the user
\* selected must be pending in the list shown.
ReviewClicked(p, k) ==
    /\ box[p] = NoBox
    /\ \E i \in DOMAIN list[p] :
         /\ list[p][i] = "pending"
         /\ box' = [box EXCEPT ![p] = [id |-> i, kind |-> k]]
    /\ UNCHANGED <<database, link, list, told, asks>>

\* The question is answered Yes or No.  The list may have been replaced under
\* the box; the request names the user the question was about.
BoxAnswered(p) ==
    /\ box[p] # NoBox
    /\ box' = [box EXCEPT ![p] = NoBox]
    /\ \/ /\ conn[p] = "open"
          /\ HasRoom(p)
          /\ Send(p, [kind |-> box[p].kind, id |-> box[p].id])
          /\ UNCHANGED ans
       \/ UNCHANGED link
    /\ UNCHANGED <<database, list, told, asks>>

\* handleServerResponse: a list replaces the one shown; after a review that
\* succeeded the panel asks for the list again.
ReceivePanel(p) ==
    LET a == Head(ans[p]) IN
    /\ ans[p] # <<>>
    /\ ans' = [ans EXCEPT ![p] = Tail(@)]
    /\ list' = IF a.kind = "LIST" THEN [list EXCEPT ![p] = a.list] ELSE list
    /\ IF a.kind \in Reviews /\ conn[p] = "open" /\ a.ok
       THEN Send(p, [kind |-> "GET_PENDING_USERS"])
       ELSE UNCHANGED <<serverUp, conn, req, looked, crashes>>
    /\ UNCHANGED <<database, box, told, asks>>

-----------------------------------------------------------------------------
Worker(c) ==
    RegisterLookup(c) \/ RegisterInsert(c) \/ ServeLogin(c)
        \/ ServeList(c) \/ ServeReview(c) \/ HangUp(c)

Dialog(d) == SubmitRegister(d) \/ SubmitLogin(d) \/ ReceiveDialog(d) \/ Quit(d)

Panel(p) ==
    \/ LoadPendingUsers(p) \/ BoxAnswered(p) \/ ReceivePanel(p) \/ Reconnect(p)
    \/ \E k \in Clicks[p] : ReviewClicked(p, k)

Next ==
    \/ \E c \in Conns : Worker(c)
    \/ \E d \in Dialogs : Dialog(d)
    \/ \E p \in Panels : Panel(p)
    \/ Restart

Spec == Init /\ [][Next]_vars

\* Worker threads are scheduled, the server is started again when it has died,
\* and a panel reads what comes, reconnects and refreshes by its timer (strong
\* fairness: only the bound on messages under way holds the timer up).  Nothing
\* is assumed of users.
Fairness ==
    /\ \A c \in Conns : WF_vars(Worker(c))
    /\ \A p \in Panels :
         WF_vars(ReceivePanel(p)) /\ WF_vars(Reconnect(p)) /\ SF_vars(LoadPendingUsers(p))
    /\ WF_vars(Restart)

FairSpec == Spec /\ Fairness

-----------------------------------------------------------------------------
(* Properties *)

Answers ==
    [kind : {"AUTH_REGISTER_OK", "AUTH_REGISTER_FAILED", "AUTH_OK", "AUTH_FAILED"}]
PanelAnswers ==
    [kind : {"LIST"}, list : Seq(Status)] \cup [kind : Reviews, id : Nat, ok : BOOLEAN]

\* Every variable keeps to its type; a name looked up is being registered, and
\* without a server there is nothing to serve and nobody connected.
TypeOK ==
    /\ users \in Seq(Users)
    /\ serverUp \in BOOLEAN
    /\ conn \in [Conns -> {"none", "open", "closing"}]
    /\ DOMAIN req = Conns
    /\ \A d \in Dialogs : req[d] \in Seq(DialogRequests)
    /\ \A p \in Panels : req[p] \in Seq(PanelRequests)
    /\ looked \in [Conns -> BOOLEAN]
    /\ DOMAIN ans = Conns
    /\ \A d \in Dialogs : ans[d] \in Seq(Answers)
    /\ \A p \in Panels : ans[p] \in Seq(PanelAnswers)
    /\ list \in [Panels -> Seq(Status)]
    /\ box \in [Panels -> [id : Nat, kind : Reviews] \cup {NoBox}]
    /\ told \in [Names -> Nat]
    /\ asks \in 0..MaxAsks
    /\ faults \in Nat
    /\ crashes \in Nat
    /\ faults + crashes <= MaxTroubles
    /\ \A c \in Conns : looked[c] => Serving(c, {"AUTH_REGISTER"})
    /\ ~serverUp => \A c \in Conns : req[c] = <<>> /\ conn[c] = "none"

\* Of the registrations that race for a name at most one makes an account, and
\* exactly that one may be told so: isUsernameExists and INSERT are two
\* statements (auth.cpp:267 and 348), and a failing lookup lets everyone pass.
OneAccountPerName ==
    \A n \in Names : told[n] <= Cardinality(Row(n)) /\ Cardinality(Row(n)) <= 1

\* A verdict stands: whatever lists and boxes are left on the panels, a user who
\* was approved or rejected never gets the other verdict, and is never forgotten.
VerdictsStand ==
    [][\A i \in DOMAIN users :
          /\ i \in DOMAIN users'
          /\ users'[i].name = users[i].name
          /\ users[i].status # "pending" => users'[i].status = users[i].status]_vars

\* An administrator who is told that the review succeeded decided the user's
\* status: of two who review the same user the other one is told of the failure.
ConfirmedReviewHolds ==
    \A p \in Panels : \A i \in DOMAIN ans[p] :
        LET a == ans[p][i] IN
        a.kind \in Reviews /\ a.ok =>
            a.id \in DOMAIN users /\ users[a.id].status = Verdict[a.kind]

\* While the database answers, a review fails only because the user has been
\* reviewed already ("true only when changed from pending", auth.cpp:684).
RefusedWasReviewed ==
    faults = 0 =>
        \A p \in Panels : \A i \in DOMAIN ans[p] :
            LET a == ans[p][i] IN
            a.kind \in Reviews /\ ~a.ok => a.id \in DOMAIN users /\ users[a.id].status # "pending"

\* A panel comes to show every verdict, again and again: whether it was another
\* panel's, the answer was lost with the server or the database failed when the
\* panel asked, a later refresh brings it.
PanelsShowVerdicts ==
    []<>(\A p \in Panels : \A i \in DOMAIN users :
            users[i].status # "pending" =>
                i \in DOMAIN list[p] /\ list[p][i] = users[i].status)

=============================================================================
