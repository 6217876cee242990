------------------------------ MODULE Accounts ------------------------------
(***************************************************************************)
(* UsersService and AuthService: registration, profile changes, removal    *)
(* and login, by the requests of AuthController and UsersController.  An   *)
(* action is the code between two awaits, as in Files.                     *)
(*                                                                         *)
(* A token is signed and stored nowhere: it stays valid until it expires,  *)
(* whatever happens to the account it names, and through stops of the      *)
(* server.  A password is told apart from others, but not from its hash.   *)
(***************************************************************************)
EXTENDS Naturals, FiniteSets

CONSTANTS
    UserIds,      \* the uuids create() may draw
    Emails,
    Passwords,
    Clients,      \* requests in flight
    Changes,      \* bodies of PATCH, Null for a member that is not sent
    Null

ASSUME AccountsAssumption ==
    /\ IsFiniteSet(Clients)
    /\ Clients \cap UserIds = {}
    /\ Null \notin UserIds \cup Emails \cup Passwords
    /\ Changes \subseteq [email : Emails \cup {Null}, password : Passwords \cup {Null}]

VARIABLES
    users,      \* the User rows, by id
    born,       \* ids drawn so far: uuidv4 never draws one twice
    token,      \* whether a token that has not expired is in circulation
    proc,       \* the handlers' local state
    moved,      \* users whose address a PATCH was to change (history)
    latest,     \* the password that each user was given last, Null once
                \* removed (history)
    raced       \* users with two writers at a time (history)

history == <<moved, latest, raced>>
vars == <<users, born, token, proc, history>>

(* The table has no constraint but its key: an address is any column. *)
NoRow == [email |-> Null, password |-> Null]
Row   == [email : Emails, password : Passwords] \cup {NoRow}

Idle    == [at |-> "idle", user |-> Null, row |-> NoRow, token |-> FALSE, sent |-> Null]
Process == [at : {"idle", "create", "update", "compare"}, user : UserIds \cup {Null},
            row : Row, token : BOOLEAN, sent : Passwords \cup {Null}]

At(c, step) == proc[c].at = step
Finish(c)   == proc' = [proc EXCEPT ![c] = Idle]

(* The requests that are about to save the row of a user. *)
Writers(u) == {c \in Clients : At(c, "update") /\ proc[c].user = u}

Init ==
    /\ users = [u \in UserIds |-> NoRow]
    /\ born = {}
    /\ token = FALSE
    /\ proc = [c \in Clients |-> Idle]
    /\ moved = {}
    /\ latest = [u \in UserIds |-> Null]
    /\ raced = {}

-----------------------------------------------------------------------------
(* Lookups *)

findByEmail(email) == {u \in UserIds : users[u].email = email}

(* JwtStrategy looks at the signature and the expiry of a token only: any  *)
(* token in circulation opens the requests of UsersController.             *)
Authorized == token

-----------------------------------------------------------------------------
(* Variants with a plausible mistake, to put in the place of the actions   *)
(* whose names they begin with.                                            *)

CreateCheckNot(c) ==
    /\ At(c, "idle")
    /\ \E email \in Emails, password \in Passwords :
          proc' = [proc EXCEPT ![c] =
              [Idle EXCEPT !.at = "create", !.token = TRUE,
                           !.row = [email |-> email, password |-> password]]]
    /\ UNCHANGED <<users, born, token, history>>

(* A body without a password empties the column. *)
ChangedWhole(row, change) ==
    [email    |-> IF change.email = Null THEN row.email ELSE change.email,
     password |-> change.password]

-----------------------------------------------------------------------------
(* POST /auth/register, which answers with a token, and POST /users        *)

CreateCheck(c) ==
    /\ At(c, "idle")
    /\ \E email \in Emails, password \in Passwords, register \in BOOLEAN :
          /\ register \/ Authorized
          /\ findByEmail(email) = {}
          /\ proc' = [proc EXCEPT ![c] =
              [Idle EXCEPT !.at = "create", !.token = register,
                           !.row = [email |-> email, password |-> password]]]
    /\ UNCHANGED <<users, born, token, history>>

CreateSave(c) ==
    LET row == proc[c].row
    IN  /\ At(c, "create")
        /\ \E u \in UserIds \ born :
              /\ users' = [users EXCEPT ![u] = row]
              /\ born' = born \cup {u}
              /\ token' = (token \/ proc[c].token)
              /\ latest' = [latest EXCEPT ![u] = row.password]
        /\ Finish(c)
        /\ UNCHANGED <<moved, raced>>

(* PATCH /users/:id.  {...user, ...updateUserDto}, with the password hashed *)
(* when the body has one.                                                   *)

Changed(row, change) ==
    [email    |-> IF change.email = Null THEN row.email ELSE change.email,
     password |-> IF change.password = Null THEN row.password ELSE change.password]

UpdateLoad(c) ==
    /\ At(c, "idle")
    /\ Authorized
    /\ \E u \in UserIds, change \in Changes :
          /\ users[u] # NoRow
          /\ proc' = [proc EXCEPT ![c] =
                [Idle EXCEPT !.at = "update", !.user = u, !.row = Changed(users[u], change),
                             !.sent = change.password]]
          /\ moved' = IF change.email = Null THEN moved ELSE moved \cup {u}
          /\ raced' = IF Writers(u) = {} THEN raced ELSE raced \cup {u}
    /\ UNCHANGED <<users, born, token, latest>>

(* save() inserts a row that is no longer there. *)
UpdateSave(c) ==
    LET u == proc[c].user
    IN  /\ At(c, "update")
        /\ users' = [users EXCEPT ![u] = proc[c].row]
        /\ latest' = [latest EXCEPT ![u] = IF proc[c].sent = Null THEN @ ELSE proc[c].sent]
        /\ Finish(c)
        /\ UNCHANGED <<born, token, moved, raced>>

(* DELETE /users/:id, one statement.  One that affects no row answers that *)
(* there is no such user.                                                  *)
Remove ==
    /\ Authorized
    /\ \E u \in UserIds :
          /\ users[u] # NoRow
          /\ users' = [users EXCEPT ![u] = NoRow]
          /\ latest' = [latest EXCEPT ![u] = Null]
          /\ raced' = IF Writers(u) = {} THEN raced ELSE raced \cup {u}
    /\ UNCHANGED <<born, token, proc, moved>>

(* POST /auth/login: the row is read, then bcrypt compares. *)

LoginLoad(c) ==
    /\ At(c, "idle")
    /\ \E email \in Emails, password \in Passwords : \E u \in findByEmail(email) :
          proc' = [proc EXCEPT ![c] = [Idle EXCEPT !.at = "compare",
                                          !.token = (users[u].password = password)]]
    /\ UNCHANGED <<users, born, token, history>>

LoginCompare(c) ==
    /\ At(c, "compare")
    /\ token' = (token \/ proc[c].token)
    /\ Finish(c)
    /\ UNCHANGED <<users, born, history>>

-----------------------------------------------------------------------------

TokenExpires ==
    /\ token
    /\ token' = FALSE
    /\ UNCHANGED <<users, born, proc, history>>

CallFails(c) ==
    /\ ~At(c, "idle")
    /\ Finish(c)
    /\ UNCHANGED <<users, born, token, history>>

Crash ==
    /\ proc' = [c \in Clients |-> Idle]
    /\ UNCHANGED <<users, born, token, history>>

Handle(c) ==
    \/ CreateCheck(c) \/ CreateSave(c)
    \/ UpdateLoad(c) \/ UpdateSave(c)
    \/ LoginLoad(c) \/ LoginCompare(c)

Next ==
    \/ \E c \in Clients : Handle(c) \/ CallFails(c)
    \/ Remove \/ TokenExpires \/ Crash

Spec == Init /\ [][Next]_vars

-----------------------------------------------------------------------------
(* Properties *)

HandlerOK(p) ==
    /\ p \in Process
    /\ IF p.at = "update" THEN p.user \in UserIds ELSE p.user = Null
    /\ p.at \in {"create", "update"} => p.row # NoRow

(* The table and the handlers have the shape the actions rely on. *)
TypeOK ==
    /\ users \in [UserIds -> Row]
    /\ born \in SUBSET UserIds
    /\ token \in BOOLEAN
    /\ DOMAIN proc = Clients
    /\ \A c \in Clients : HandlerOK(proc[c])
    /\ moved \in SUBSET UserIds /\ raced \in SUBSET UserIds
    /\ latest \in [UserIds -> Passwords \cup {Null}]

(* Nothing but the lookup in create() keeps an address to one account, and *)
(* the lookup comes two awaits before the save.  Only requests in flight   *)
(* together can register the same address: as many accounts as there are   *)
(* requests at a time may share one, however many are served in the end,   *)
(* and whatever is removed and saved again in between.  A PATCH that       *)
(* changes an address is not checked at all and stays out of the count.    *)
FewShareAddress ==
    \A email \in Emails : Cardinality(findByEmail(email) \ moved) <= Cardinality(Clients)

(* A user whose row is never written by two requests at a time keeps the   *)
(* password it was given last, and stays away when removed: update() saves *)
(* the whole row it loaded, and inserts one that is gone.                  *)
WritesStay == \A u \in UserIds \ raced : users[u].password = latest[u]

=============================================================================
