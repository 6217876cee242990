--------------------------- MODULE AccountsProofs ---------------------------
(***************************************************************************)
(* Theorems about Accounts, for any number of users, addresses and         *)
(* requests in flight, crashes and failed calls.                           *)
(***************************************************************************)
EXTENDS Accounts, FiniteSetTheorems, TLAPS

(* An id that was not drawn yet has left no trace. *)
BornInv ==
    \A u \in UserIds \ born :
        users[u] = NoRow /\ latest[u] = Null /\ Writers(u) = {} /\ u \notin raced

(* The one request that is about to save a user's row has the password of  *)
(* the table in it, or the one it was sent.                                *)
WritesInv ==
    \A u \in UserIds \ raced :
        /\ users[u].password = latest[u]
        /\ \A c \in Writers(u) :
              /\ Writers(u) = {c}
              /\ proc[c].row.password =
                    (IF proc[c].sent = Null THEN latest[u] ELSE proc[c].sent)

(* What may come to have an address, or has it already: accounts in the    *)
(* table, accounts that an update is about to save, and registrations that *)
(* have passed the lookup.                                                 *)
Holders(email) ==
    {u \in UserIds : \/ users[u].email = email
                     \/ \E c \in Writers(u) : proc[c].row.email = email} \ moved
Creators(email) == {c \in Clients : At(c, "create") /\ proc[c].row.email = email}
Claims(email)   == Holders(email) \cup Creators(email)

Few(S) == IsFiniteSet(S) /\ Cardinality(S) <= Cardinality(Clients)

ShareInv == \A email \in Emails : Few(Claims(email))

IInv == TypeOK /\ BornInv /\ WritesInv /\ ShareInv

-----------------------------------------------------------------------------
(* Rows and handlers *)

LEMMA RowKinds ==
    ASSUME AccountsAssumption
    PROVE  /\ NoRow \in Row
           /\ \A x \in Row : x # NoRow => x.email \in Emails /\ x.password \in Passwords
           /\ \A x \in Row : x.email \in Emails => x # NoRow
           /\ \A e \in Emails, p \in Passwords :
                [email |-> e, password |-> p] \in Row \ {NoRow}
    BY DEF AccountsAssumption, Row, NoRow

LEMMA ChangedRow ==
    ASSUME AccountsAssumption, NEW row \in Row, row # NoRow, NEW change \in Changes
    PROVE  /\ Changed(row, change) \in Row \ {NoRow}
           /\ change.email = Null => Changed(row, change).email = row.email
           /\ Changed(row, change).password =
                 (IF change.password = Null THEN row.password ELSE change.password)
           /\ change.password \in Passwords \cup {Null}
<1>1. change.email \in Emails \cup {Null} /\ change.password \in Passwords \cup {Null}
    BY DEF AccountsAssumption
<1>2. row.email \in Emails /\ row.password \in Passwords
    BY RowKinds
<1> QED BY <1>1, <1>2, RowKinds DEF Changed

LEMMA IdleOK == ASSUME AccountsAssumption PROVE HandlerOK(Idle)
    BY RowKinds DEF HandlerOK, Process, Idle

LEMMA MoveOne ==
    ASSUME TypeOK, NEW c \in Clients, NEW p, HandlerOK(p),
           proc' = [proc EXCEPT ![c] = p]
    PROVE  /\ DOMAIN proc' = Clients
           /\ \A d \in Clients : HandlerOK(proc'[d])
           /\ proc'[c] = p
           /\ \A d \in Clients \ {c} : proc'[d] = proc[d]
    BY DEF TypeOK

-----------------------------------------------------------------------------
(* TypeOK *)

LEMMA TypeInit == ASSUME AccountsAssumption, Init PROVE TypeOK
    BY IdleOK, RowKinds DEF Init, TypeOK

LEMMA TypeStep == ASSUME AccountsAssumption, TypeOK, [Next]_vars PROVE TypeOK'
<1>1. ASSUME NEW c \in Clients, CreateCheck(c) PROVE TypeOK'
    <2>1. PICK email \in Emails, password \in Passwords, register \in BOOLEAN :
             proc' = [proc EXCEPT ![c] =
                [Idle EXCEPT !.at = "create", !.token = register,
                             !.row = [email |-> email, password |-> password]]]
        BY <1>1 DEF CreateCheck
    <2>2. HandlerOK([Idle EXCEPT !.at = "create", !.token = register,
                             !.row = [email |-> email, password |-> password]])
        BY RowKinds DEF HandlerOK, Process, Idle
    <2> QED BY <1>1, <2>1, <2>2, MoveOne DEF CreateCheck, TypeOK, history
<1>2. ASSUME NEW c \in Clients, CreateSave(c) PROVE TypeOK'
    <2>1. proc[c].row \in Row \ {NoRow} /\ proc[c].token \in BOOLEAN
        BY <1>2 DEF CreateSave, TypeOK, HandlerOK, Process, At
    <2>2. proc[c].row.password \in Passwords
        BY <2>1, RowKinds
    <2> QED BY <1>2, <2>1, <2>2, MoveOne, IdleOK DEF CreateSave, Finish, TypeOK
<1>3. ASSUME NEW c \in Clients, UpdateLoad(c) PROVE TypeOK'
    <2>1. PICK u \in UserIds, change \in Changes :
             /\ users[u] # NoRow
             /\ proc' = [proc EXCEPT ![c] =
                  [Idle EXCEPT !.at = "update", !.user = u, !.row = Changed(users[u], change),
                               !.sent = change.password]]
             /\ moved' = IF change.email = Null THEN moved ELSE moved \cup {u}
             /\ raced' = IF Writers(u) = {} THEN raced ELSE raced \cup {u}
        BY <1>3 DEF UpdateLoad
    <2>2. Changed(users[u], change) \in Row \ {NoRow} /\ change.password \in Passwords \cup {Null}
        BY <2>1, ChangedRow DEF TypeOK
    <2>3. HandlerOK([Idle EXCEPT !.at = "update", !.user = u, !.row = Changed(users[u], change),
                                 !.sent = change.password])
        BY <2>2 DEF HandlerOK, Process, Idle
    <2> QED BY <1>3, <2>1, <2>3, MoveOne DEF UpdateLoad, TypeOK
<1>4. ASSUME NEW c \in Clients, UpdateSave(c) PROVE TypeOK'
    <2>1. proc[c].row \in Row /\ proc[c].user \in UserIds
            /\ proc[c].sent \in Passwords \cup {Null}
        BY <1>4 DEF UpdateSave, TypeOK, HandlerOK, Process, At
    <2> QED BY <1>4, <2>1, MoveOne, IdleOK DEF UpdateSave, Finish, TypeOK
<1>5. CASE Remove
    BY <1>5, RowKinds DEF Remove, TypeOK
<1>6. ASSUME NEW c \in Clients, LoginLoad(c) PROVE TypeOK'
    <2>1. PICK email \in Emails, password \in Passwords, u \in UserIds :
             proc' = [proc EXCEPT ![c] = [Idle EXCEPT !.at = "compare",
                                             !.token = (users[u].password = password)]]
        BY <1>6 DEF LoginLoad, findByEmail
    <2>2. HandlerOK([Idle EXCEPT !.at = "compare", !.token = (users[u].password = password)])
        BY RowKinds DEF HandlerOK, Process, Idle
    <2> QED BY <1>6, <2>1, <2>2, MoveOne DEF LoginLoad, TypeOK, history
<1>7. ASSUME NEW c \in Clients, LoginCompare(c) PROVE TypeOK'
    <2>1. proc[c].token \in BOOLEAN
        BY DEF TypeOK, HandlerOK, Process
    <2> QED BY <1>7, <2>1, MoveOne, IdleOK DEF LoginCompare, Finish, TypeOK, history
<1>8. ASSUME NEW c \in Clients, CallFails(c) PROVE TypeOK'
    BY <1>8, MoveOne, IdleOK DEF CallFails, Finish, TypeOK, history
<1>9. CASE Crash
    BY <1>9, IdleOK DEF Crash, TypeOK, history
<1>10. CASE TokenExpires
    BY <1>10 DEF TokenExpires, TypeOK, history
<1>11. CASE UNCHANGED vars
    BY <1>11 DEF vars, history, TypeOK
<1> QED BY <1>1, <1>2, <1>3, <1>4, <1>5, <1>6, <1>7, <1>8, <1>9, <1>10, <1>11 DEF Next, Handle

-----------------------------------------------------------------------------
(* Steps *)

LEMMA FewerIsFew ==
    ASSUME AccountsAssumption, NEW S, Few(S), NEW T \in SUBSET S
    PROVE  Few(T)
<1>1. IsFiniteSet(T) /\ Cardinality(T) <= Cardinality(S)
    BY FS_Subset DEF Few
<1>2. /\ Cardinality(S) \in Nat /\ Cardinality(T) \in Nat
      /\ Cardinality(Clients) \in Nat
    BY <1>1, FS_CardinalityType DEF AccountsAssumption, Few
<1> QED BY <1>1, <1>2 DEF Few

(* No step but create()'s lookup and save adds a claim to an address. *)
LEMMA ClaimsShrink ==
    ASSUME AccountsAssumption, ShareInv, \A email \in Emails : Claims(email)' \subseteq Claims(email)
    PROVE  ShareInv'
<1>1. ASSUME NEW email \in Emails PROVE Few(Claims(email)')
    <2>1. Few(Claims(email))
        BY DEF ShareInv
    <2> QED BY <2>1, FewerIsFew
<1> QED BY <1>1 DEF ShareInv

(* A step that leaves the tables alone, and in which requests that are     *)
(* about to save a user's row stay as they are or end.                     *)
LEMMA QuietInv ==
    ASSUME IInv, UNCHANGED <<users, born, history>>,
           \A c \in Clients : At(c, "update")' => proc'[c] = proc[c]
    PROVE  BornInv' /\ WritesInv'
<1>1. \A u : Writers(u)' \subseteq Writers(u)
    BY DEF Writers, At
<1>2. \A u : \A c \in Writers(u)' : proc'[c] = proc[c]
    BY DEF Writers
<1>3. users' = users /\ born' = born /\ latest' = latest /\ raced' = raced
    BY DEF history
<1> QED BY <1>1, <1>2, <1>3 DEF IInv, BornInv, WritesInv

LEMMA QuietClaims ==
    ASSUME AccountsAssumption, IInv, UNCHANGED <<users, history>>,
           \A c \in Clients : At(c, "update")' \/ At(c, "create")' => proc'[c] = proc[c]
    PROVE  ShareInv'
<1>1. \A email : Claims(email)' \subseteq Claims(email)
    BY DEF Claims, Holders, Creators, Writers, At, history
<1> QED BY <1>1, ClaimsShrink DEF IInv

(* An address that no account has: every claim to it belongs to a request  *)
(* of its own.  The state is the one after the lookup.                     *)
LEMMA UnclaimedAddress ==
    ASSUME AccountsAssumption, TypeOK', NEW email \in Emails, findByEmail(email)' = {}
    PROVE  Few(Claims(email)')
<1> DEFINE owner == [c \in Clients |-> IF At(c, "update")' THEN proc'[c].user ELSE c]
           T     == {owner[c] : c \in Clients}
<1>1. owner \in Surjection(Clients, T)
    BY DEF Surjection
<1>2. Few(T)
    BY <1>1, FS_Surjection DEF AccountsAssumption, Few
<1>3. Claims(email)' \in SUBSET T
    <2>1. ASSUME NEW u \in Holders(email)' PROVE u \in T
        <3>1. u \in UserIds /\ users'[u].email # email
            BY DEF Holders, findByEmail
        <3>2. PICK c \in Writers(u)' : proc'[c].row.email = email
            BY <2>1, <3>1 DEF Holders
        <3>3. c \in Clients /\ owner[c] = u
            BY <3>2 DEF Writers
        <3> QED BY <3>3
    <2>2. ASSUME NEW c \in Creators(email)' PROVE c \in T
        <3>1. c \in Clients /\ owner[c] = c
            BY DEF Creators, At
        <3> QED BY <3>1
    <2> QED BY <2>1, <2>2 DEF Claims
<1> QED BY <1>2, <1>3, FewerIsFew

LEMMA CreateCheckInv ==
    ASSUME AccountsAssumption, IInv, TypeOK', NEW c \in Clients, CreateCheck(c)
    PROVE  IInv'
<1>1. PICK email \in Emails, password \in Passwords, register \in BOOLEAN :
         /\ findByEmail(email) = {}
         /\ proc' = [proc EXCEPT ![c] =
              [Idle EXCEPT !.at = "create", !.token = register,
                           !.row = [email |-> email, password |-> password]]]
    BY DEF CreateCheck
<1>2. /\ UNCHANGED <<users, born, history>> /\ At(c, "idle")
      /\ proc'[c].at = "create" /\ proc'[c].row.email = email
      /\ \A d \in Clients \ {c} : proc'[d] = proc[d]
    BY <1>1 DEF CreateCheck, IInv, TypeOK, Idle
<1>3. BornInv' /\ WritesInv'
    BY <1>2, QuietInv DEF At
<1>4. ASSUME NEW e \in Emails PROVE Few(Claims(e)')
    <2>1. CASE e = email
        <3>1. findByEmail(e)' = {}
            BY <1>1, <1>2, <2>1 DEF findByEmail
        <3> QED BY <3>1, UnclaimedAddress
    <2>2. CASE e # email
        <3>1. Claims(e)' \subseteq Claims(e)
            BY <1>2, <2>2 DEF Claims, Holders, Creators, Writers, At, history
        <3>2. Few(Claims(e))
            BY DEF IInv, ShareInv
        <3> QED BY <3>1, <3>2, FewerIsFew
    <2> QED BY <2>1, <2>2
<1> QED BY <1>3, <1>4 DEF IInv, ShareInv

(* The claim of the request becomes one of the new account. *)
LEMMA CreateSaveInv ==
    ASSUME AccountsAssumption, IInv, TypeOK', NEW c \in Clients, CreateSave(c)
    PROVE  IInv'
<1> DEFINE row == proc[c].row
<1>1. PICK u \in UserIds \ born :
         /\ users' = [users EXCEPT ![u] = row]
         /\ born' = born \cup {u}
         /\ latest' = [latest EXCEPT ![u] = row.password]
    BY DEF CreateSave
<1>2. /\ At(c, "create") /\ proc'[c] = Idle
      /\ \A d \in Clients \ {c} : proc'[d] = proc[d]
      /\ moved' = moved /\ raced' = raced
      /\ users'[u] = row /\ latest'[u] = row.password
      /\ \A v \in UserIds \ {u} : users'[v] = users[v] /\ latest'[v] = latest[v]
    BY <1>1 DEF CreateSave, Finish, IInv, TypeOK
<1>3. \A v \in UserIds : Writers(v)' = Writers(v)
    BY <1>2 DEF Writers, At, Idle
<1>4. Writers(u) = {} /\ \A v \in UserIds : \A d \in Writers(v) : proc'[d] = proc[d]
    BY <1>1, <1>2 DEF IInv, BornInv, Writers, At
<1>5. BornInv'
    BY <1>1, <1>2, <1>3 DEF IInv, BornInv
<1>6. WritesInv'
    BY <1>2, <1>3, <1>4 DEF IInv, WritesInv
<1>7. ASSUME NEW e \in Emails PROVE Few(Claims(e)')
    <2>1. Few(Claims(e))
        BY DEF IInv, ShareInv
    <2>2. CASE row.email = e
        <3>1. c \in Claims(e)
            BY <1>2, <2>2 DEF Claims, Creators
        <3>2. Claims(e)' \subseteq (Claims(e) \ {c}) \cup {u}
            <4>1. Holders(e)' \subseteq (Holders(e) \ {c}) \cup {u}
                BY <1>2, <1>3, <1>4 DEF Holders, AccountsAssumption
            <4>2. Creators(e)' \subseteq Creators(e) \ {c}
                BY <1>2 DEF Creators, At, Idle
            <4> QED BY <4>1, <4>2 DEF Claims
        <3>3. /\ IsFiniteSet(Claims(e) \ {c})
              /\ Cardinality(Claims(e) \ {c}) = Cardinality(Claims(e)) - 1
            BY <2>1, <3>1, FS_RemoveElement DEF Few
        <3>4. /\ IsFiniteSet((Claims(e) \ {c}) \cup {u})
              /\ Cardinality((Claims(e) \ {c}) \cup {u}) \in
                    {Cardinality(Claims(e) \ {c}), Cardinality(Claims(e) \ {c}) + 1}
            BY <3>3, FS_AddElement
        <3>5. /\ Cardinality(Claims(e)) \in Nat /\ Cardinality(Claims(e) \ {c}) \in Nat
              /\ Cardinality(Clients) \in Nat
            BY <2>1, <3>3, FS_CardinalityType DEF AccountsAssumption, Few
        <3>6. Few((Claims(e) \ {c}) \cup {u})
            BY <2>1, <3>3, <3>4, <3>5 DEF Few
        <3> QED BY <3>2, <3>6, FewerIsFew
    <2>3. CASE row.email # e
        <3>1. Claims(e)' \subseteq Claims(e)
            BY <1>2, <1>3, <1>4, <2>3 DEF Claims, Holders, Creators, At, Idle
        <3> QED BY <2>1, <3>1, FewerIsFew
    <2> QED BY <2>2, <2>3
<1> QED BY <1>5, <1>6, <1>7 DEF IInv, ShareInv

(* The row in memory has the address of the table, or the user counts as   *)
(* moved from now on; the user is raced unless nobody else is writing.     *)
LEMMA UpdateLoadInv ==
    ASSUME AccountsAssumption, IInv, TypeOK', NEW c \in Clients, UpdateLoad(c)
    PROVE  IInv'
<1>1. PICK u \in UserIds, change \in Changes :
         /\ users[u] # NoRow
         /\ proc' = [proc EXCEPT ![c] =
              [Idle EXCEPT !.at = "update", !.user = u, !.row = Changed(users[u], change),
                           !.sent = change.password]]
         /\ moved' = IF change.email = Null THEN moved ELSE moved \cup {u}
         /\ raced' = IF Writers(u) = {} THEN raced ELSE raced \cup {u}
    BY DEF UpdateLoad
<1>2. /\ users' = users /\ born' = born /\ latest' = latest /\ ~At(c, "update")
      /\ proc'[c] = [Idle EXCEPT !.at = "update", !.user = u,
                        !.row = Changed(users[u], change), !.sent = change.password]
      /\ \A d \in Clients \ {c} : proc'[d] = proc[d]
    BY <1>1 DEF UpdateLoad, IInv, TypeOK, At
<1>3. /\ proc'[c].at = "update" /\ proc'[c].user = u /\ proc'[c].sent = change.password
      /\ proc'[c].row = Changed(users[u], change)
    BY <1>2 DEF Idle
<1>4. /\ change.email = Null => proc'[c].row.email = users[u].email
      /\ proc'[c].row.password =
            (IF change.password = Null THEN users[u].password ELSE change.password)
    BY <1>1, <1>3, ChangedRow DEF IInv, TypeOK
<1>5. /\ Writers(u)' = Writers(u) \cup {c}
      /\ \A v \in UserIds \ {u} : Writers(v)' = Writers(v)
      /\ \A v \in UserIds : \A d \in Writers(v) : proc'[d] = proc[d]
    <2>1. \A d \in Clients \ {c} : \A v : d \in Writers(v)' <=> d \in Writers(v)
        BY <1>2 DEF Writers, At
    <2>2. \A v : c \notin Writers(v) /\ (c \in Writers(v)' <=> v = u)
        BY <1>2, <1>3 DEF Writers, At
    <2>3. \A v : Writers(v) \subseteq Clients /\ Writers(v)' \subseteq Clients
        BY DEF Writers
    <2> QED BY <1>2, <2>1, <2>2, <2>3
<1>6. u \in born
    BY <1>1 DEF IInv, BornInv
<1>7. BornInv'
    BY <1>1, <1>2, <1>5, <1>6 DEF IInv, BornInv
<1>8. WritesInv'
    <2>1. SUFFICES ASSUME NEW v \in UserIds \ raced'
                   PROVE  /\ users[v].password = latest[v]
                          /\ \A d \in Writers(v)' :
                                /\ Writers(v)' = {d}
                                /\ proc'[d].row.password =
                                     (IF proc'[d].sent = Null THEN latest[v] ELSE proc'[d].sent)
        BY <1>2 DEF WritesInv
    <2>2. v \notin raced
        BY <1>1
    <2>3. CASE v = u
        <3>1. Writers(u) = {}
            BY <1>1, <2>1, <2>3
        <3> QED BY <1>3, <1>4, <1>5, <2>2, <2>3, <3>1 DEF IInv, WritesInv
    <2>4. CASE v # u
        BY <1>5, <2>2, <2>4 DEF IInv, WritesInv
    <2> QED BY <2>3, <2>4
<1>9. ASSUME NEW e \in Emails PROVE Claims(e)' \subseteq Claims(e)
    <2>1. Creators(e)' \subseteq Creators(e)
        BY <1>2, <1>3 DEF Creators, At
    <2>2. ASSUME NEW v \in Holders(e)' PROVE v \in Holders(e)
        <3>1. v \in UserIds /\ v \notin moved /\ (v = u => change.email = Null)
            BY <1>1, <2>2 DEF Holders
        <3>2. CASE users[v].email = e
            BY <3>1, <3>2 DEF Holders
        <3>3. CASE users[v].email # e
            <4>1. PICK d \in Writers(v)' : proc'[d].row.email = e
                BY <1>2, <2>2, <3>3 DEF Holders
            <4>2. d # c
                BY <1>3, <1>4, <3>1, <3>3, <4>1 DEF Writers
            <4>3. d \in Writers(v) /\ proc[d].row.email = e
                BY <1>2, <1>5, <3>1, <4>1, <4>2
            <4> QED BY <3>1, <4>3 DEF Holders
        <3> QED BY <3>2, <3>3
    <2> QED BY <2>1, <2>2 DEF Claims
<1> QED BY <1>7, <1>8, <1>9, ClaimsShrink DEF IInv

LEMMA UpdateSaveInv ==
    ASSUME AccountsAssumption, IInv, TypeOK', NEW c \in Clients, UpdateSave(c)
    PROVE  IInv'
<1>u. PICK u \in UserIds : u = proc[c].user
    BY DEF UpdateSave, IInv, TypeOK, HandlerOK, At
<1>1. /\ c \in Writers(u)
      /\ users'[u] = proc[c].row
      /\ latest'[u] = (IF proc[c].sent = Null THEN latest[u] ELSE proc[c].sent)
      /\ \A v \in UserIds \ {u} : users'[v] = users[v] /\ latest'[v] = latest[v]
      /\ born' = born /\ moved' = moved /\ raced' = raced
      /\ proc'[c] = Idle /\ \A d \in Clients \ {c} : proc'[d] = proc[d]
    BY <1>u DEF UpdateSave, Finish, IInv, TypeOK, Writers, At
<1>2. /\ Writers(u)' = Writers(u) \ {c}
      /\ \A v \in UserIds \ {u} : Writers(v)' = Writers(v)
      /\ \A v \in UserIds : \A d \in Writers(v)' : proc'[d] = proc[d]
    <2>1. \A d \in Clients \ {c} : \A v : d \in Writers(v)' <=> d \in Writers(v)
        BY <1>1 DEF Writers, At
    <2>2. \A v : c \notin Writers(v)' /\ (c \in Writers(v) => v = u)
        BY <1>u, <1>1 DEF Writers, At, Idle
    <2>3. \A v : Writers(v) \subseteq Clients /\ Writers(v)' \subseteq Clients
        BY DEF Writers
    <2>4. Writers(u)' = Writers(u) \ {c}
        BY <2>1, <2>2, <2>3
    <2>5. \A v \in UserIds \ {u} : Writers(v)' = Writers(v)
        BY <2>1, <2>2, <2>3
    <2>6. \A v \in UserIds : \A d \in Writers(v)' : proc'[d] = proc[d]
        BY <1>1, <2>2, <2>3
    <2> QED BY <2>4, <2>5, <2>6
<1>3. u \in born
    BY <1>1 DEF IInv, BornInv
<1>4. BornInv'
    BY <1>1, <1>2, <1>3 DEF IInv, BornInv
<1>5. WritesInv'
    <2>1. SUFFICES ASSUME NEW v \in UserIds \ raced
                   PROVE  /\ users'[v].password = latest'[v]
                          /\ \A d \in Writers(v)' :
                                /\ Writers(v)' = {d}
                                /\ proc'[d].row.password =
                                     (IF proc'[d].sent = Null THEN latest'[v] ELSE proc'[d].sent)
        BY <1>1 DEF WritesInv
    <2>2. CASE v = u
        <3>1. Writers(u) = {c} /\ users'[u].password = latest'[u]
            BY <1>1, <2>2 DEF IInv, WritesInv
        <3> QED BY <1>2, <2>2, <3>1
    <2>3. CASE v # u
        BY <1>1, <1>2, <2>3 DEF IInv, WritesInv
    <2> QED BY <2>2, <2>3
<1>6. ASSUME NEW e \in Emails PROVE Claims(e)' \subseteq Claims(e)
    <2>1. Creators(e)' \subseteq Creators(e)
        BY <1>1 DEF Creators, At, Idle
    <2>2. Holders(e)' \subseteq Holders(e)
        BY <1>1, <1>2 DEF Holders
    <2> QED BY <2>1, <2>2 DEF Claims
<1> QED BY <1>4, <1>5, <1>6, ClaimsShrink DEF IInv

LEMMA RemoveInv ==
    ASSUME AccountsAssumption, IInv, TypeOK', Remove
    PROVE  IInv'
<1>1. PICK u \in UserIds :
         /\ users[u] # NoRow
         /\ users' = [users EXCEPT ![u] = NoRow]
         /\ latest' = [latest EXCEPT ![u] = Null]
         /\ raced' = IF Writers(u) = {} THEN raced ELSE raced \cup {u}
    BY DEF Remove
<1>2. /\ users'[u] = NoRow /\ latest'[u] = Null
      /\ \A v \in UserIds \ {u} : users'[v] = users[v] /\ latest'[v] = latest[v]
      /\ born' = born /\ moved' = moved /\ proc' = proc /\ raced \subseteq raced'
    BY <1>1 DEF Remove, IInv, TypeOK
<1>3. u \in born /\ (u \notin raced' => Writers(u) = {})
    BY <1>1 DEF IInv, BornInv
<1>4. \A v : Writers(v)' = Writers(v)
    BY <1>2 DEF Writers, At
<1>5. BornInv'
    BY <1>1, <1>2, <1>3, <1>4 DEF IInv, BornInv
<1>6. WritesInv'
    BY <1>2, <1>3, <1>4 DEF IInv, WritesInv, NoRow
<1>7. ASSUME NEW e \in Emails PROVE Claims(e)' \subseteq Claims(e)
    <2>1. Holders(e)' \subseteq Holders(e)
        BY <1>2, <1>4 DEF Holders, NoRow, AccountsAssumption
    <2> QED BY <1>2, <2>1 DEF Claims, Creators, At
<1> QED BY <1>5, <1>6, <1>7, ClaimsShrink DEF IInv

LEMMA EndsInv ==
    ASSUME AccountsAssumption, IInv, TypeOK', UNCHANGED <<users, born, history>>,
           \A c \in Clients : At(c, "update")' \/ At(c, "create")' => proc'[c] = proc[c]
    PROVE  IInv'
    BY QuietInv, QuietClaims DEF IInv

-----------------------------------------------------------------------------

LEMMA InitInv == ASSUME AccountsAssumption, Init PROVE IInv
<1>1. \A u : Writers(u) = {}
    BY DEF Init, Writers, At, Idle
<1>2. BornInv /\ WritesInv
    BY <1>1 DEF Init, BornInv, WritesInv, NoRow
<1>3. ASSUME NEW e \in Emails PROVE Few(Claims(e))
    <2>1. Claims(e) = {}
        BY <1>1 DEF Claims, Holders, Creators, Init, NoRow, At, Idle, AccountsAssumption
    <2> QED BY <2>1, FS_EmptySet, FS_CardinalityType DEF Few, AccountsAssumption
<1> QED BY <1>2, <1>3, TypeInit DEF IInv, ShareInv

LEMMA NextInv == ASSUME AccountsAssumption, IInv, [Next]_vars PROVE IInv'
<1>1. TypeOK'
    BY TypeStep DEF IInv
<1>2. ASSUME NEW c \in Clients, CreateCheck(c) \/ CreateSave(c) \/ UpdateLoad(c) \/ UpdateSave(c)
      PROVE  IInv'
    BY <1>1, <1>2, CreateCheckInv, CreateSaveInv, UpdateLoadInv, UpdateSaveInv
<1>3. ASSUME NEW c \in Clients, LoginLoad(c) \/ LoginCompare(c) \/ CallFails(c)
      PROVE  IInv'
    <2>1. UNCHANGED <<users, born, history>>
        BY <1>3 DEF LoginLoad, LoginCompare, CallFails
    <2>2. /\ proc'[c].at \in {"idle", "compare"}
          /\ \A d \in Clients \ {c} : proc'[d] = proc[d]
        <3>1. CASE LoginLoad(c)
            <4>1. PICK b : proc' = [proc EXCEPT ![c] = [Idle EXCEPT !.at = "compare", !.token = b]]
                BY <3>1 DEF LoginLoad
            <4> QED BY <4>1 DEF Idle, IInv, TypeOK
        <3>2. CASE LoginCompare(c) \/ CallFails(c)
            BY <3>2 DEF LoginCompare, CallFails, Finish, Idle, IInv, TypeOK
        <3> QED BY <1>3, <3>1, <3>2
    <2> QED BY <1>1, <2>1, <2>2, EndsInv DEF At
<1>4. CASE Remove
    BY <1>1, <1>4, RemoveInv
<1>5. CASE Crash
    BY <1>1, <1>5, EndsInv DEF Crash, At, Idle
<1>6. CASE TokenExpires \/ UNCHANGED vars
    BY <1>1, <1>6, EndsInv DEF TokenExpires, vars, history
<1> QED BY <1>2, <1>3, <1>4, <1>5, <1>6 DEF Next, Handle

(* The invariant behind the theorems below holds in every state, however   *)
(* requests, failures and stops interleave (UsersService, AuthService).    *)
THEOREM InductiveInvariant == ASSUME AccountsAssumption PROVE Spec => []IInv
<1>1. Init => IInv
    BY InitInv
<1>2. IInv /\ [Next]_vars => IInv'
    BY NextInv
<1> QED BY <1>1, <1>2, PTL DEF Spec

(* TypeOK holds: a request that is about to save a user has its row.       *)
THEOREM TypeCorrect == ASSUME AccountsAssumption PROVE Spec => []TypeOK
<1>1. IInv => TypeOK
    BY DEF IInv
<1> QED BY <1>1, InductiveInvariant, PTL

(* As many accounts may share an address as there are requests at a time,  *)
(* and no more (create); with one request at a time an address is unique.  *)
THEOREM AddressesShared == ASSUME AccountsAssumption PROVE Spec => []FewShareAddress
<1>1. ASSUME IInv, NEW email \in Emails
      PROVE  Cardinality(findByEmail(email) \ moved) <= Cardinality(Clients)
    <2>1. Few(Claims(email))
        BY <1>1 DEF IInv, ShareInv
    <2>2. (findByEmail(email) \ moved) \in SUBSET Claims(email)
        BY DEF findByEmail, Claims, Holders
    <2> QED BY <2>1, <2>2, FewerIsFew DEF Few
<1>2. IInv => FewShareAddress
    BY <1>1 DEF FewShareAddress
<1> QED BY <1>2, InductiveInvariant, PTL

(* What is written of a user stays written unless two requests write the   *)
(* same user at a time (update, remove).                                   *)
THEOREM WritesKept == ASSUME AccountsAssumption PROVE Spec => []WritesStay
<1>1. IInv => WritesStay
    BY DEF IInv, WritesInv, WritesStay
<1> QED BY <1>1, InductiveInvariant, PTL

=============================================================================
