--------------------------- MODULE AccountsProofs ---------------------------
(***************************************************************************)
(* Proofs about Accounts for any requests, passwords in clear and requests *)
(* that die.  What keeps accounts of one address apart is who a password   *)
(* belongs to: a hash was made for one account, by the request that        *)
(* created it or by one that reset it, and never comes back once a reset   *)
(* has replaced it.                                                        *)
(***************************************************************************)
EXTENDS Accounts, TLAPS

\* What a request is doing tells what it was asked for.
StageTellsOp ==
  \A r \in Requests :
    /\ at[r] = "create" => op[r] \in {"register", "google"}
    /\ at[r] \in {"lookup", "mail"} => op[r] \in {"register", "resend", "forgot"}
    /\ at[r] = "update" => op[r] \in {"reset", "verify"}
    /\ at[r] = "store" => op[r] \in {"login", "google"}
    /\ at[r] = "compare" => op[r] = "refresh"
    /\ at[r] = "reload" => op[r] = "me"

\* A request has found one row at most.
OneRead == \A r \in Requests : \A u, v \in read[r] : u = v

Types == TypeOK /\ StageTellsOp /\ OneRead

\* A hash was made for the account i: by the request that created it, which has
\* left that step, or by a reset of it that is through.
Belongs(i, p) ==
  p \in Requests =>
    \/ op[p] \in {"register", "google"} /\ i = p /\ at[p] \notin {"idle", "create"}
    \/ op[p] = "reset" /\ at[p] = "done" /\ \E v \in read[p] : v.id = i

\* Wherever a password is kept, it stands beside the account it was made for.
PasswordsOwned ==
  /\ \A u \in users : Belongs(u.id, u.password)
  /\ \A r \in Requests : \A u \in read[r] : Belongs(u.id, u.password)
  /\ \A t \in mails : Belongs(t.id, t.password)

\* Tokens come out of the mailbox, and one that was accepted is signed with
\* the password that was read.
TokensChecked ==
  \A r \in Requests :
    /\ token[r] \subseteq mails
    /\ at[r] = "update" =>
         /\ token[r] # {}
         /\ \A t \in token[r], v \in read[r] :
              t.purpose = op[r] /\ t.password = v.password

\* A reset that is through has replaced the password its token was signed with.
ResetsReplace ==
  \A q \in Requests : op[q] = "reset" /\ at[q] = "done" =>
    \A t \in token[q], u \in users :
      t.password \in Requests => u.password # t.password

Invariant ==
  /\ Types /\ PasswordsOwned /\ TokensChecked /\ ResetsReplace
  /\ OwnMailVerifies /\ SessionsStayApart

\* What a request may do next.
RequestStep(r) ==
  \/ FindByEmail(r) \/ CreateUser(r) \/ AdminCreate(r)
  \/ FindUser(r) \/ SendMail(r) \/ CheckToken(r) \/ UpdateUser(r)
  \/ GetAuthenticatedUser(r) \/ StoreRefreshToken(r)
  \/ FindSession(r) \/ CompareToken(r) \/ GetMe(r)
  \/ PatchPassword(r) \/ Remove(r) \/ RequestFails(r)

-----------------------------------------------------------------------------
(* Types *)

LEMMA InitTypes == Init => Types
<1> SUFFICES ASSUME Init PROVE Types
    OBVIOUS
<1>1. TypeOK
  <2>1. at \in [Requests -> Standing]
    BY DEF Init, Standing
  <2>2. /\ read \in [Requests -> SUBSET Rows]
        /\ token \in [Requests -> SUBSET Tokens]
    BY DEF Init
  <2>3. faults \in 0 .. MaxFaults
    BY FaultsAssumption DEF Init
  <2> QED  BY <2>1, <2>2, <2>3 DEF Init, TypeOK
<1>2. StageTellsOp /\ OneRead
  BY DEF Init, StageTellsOp, OneRead
<1> QED  BY <1>1, <1>2 DEF Types

\* A step of a request moves it from one standing to another.
LEMMA MoveTypes ==
  ASSUME TypeOK, NEW r \in Requests, NEW from, NEW to \in Standing,
         Move(r, from, to)
  PROVE  /\ at' \in [Requests -> Standing]
         /\ at[r] = from /\ at'[r] = to
         /\ \A q \in Requests \ {r} : at'[q] = at[q]
BY DEF TypeOK, Move

\* Where a step of a request may lead, when it reads the account or nothing.
LEMMA StandingTypes ==
  ASSUME Types, NEW r \in Requests, NEW from, NEW to \in Standing,
         Move(r, from, to), op' = op,
         to = "create" => op[r] \in {"register", "google"},
         to \in {"lookup", "mail"} => op[r] \in {"register", "resend", "forgot"},
         to = "update" => op[r] \in {"reset", "verify"},
         to = "store" => op[r] \in {"login", "google"},
         to = "compare" => op[r] = "refresh",
         to = "reload" => op[r] = "me",
         \/ read' = read
         \/ \E S : /\ read' = [read EXCEPT ![r] = S]
                  /\ S \subseteq Rows /\ \A u, v \in S : u = v
  PROVE  /\ StageTellsOp' /\ OneRead'
         /\ at' \in [Requests -> Standing] /\ read' \in [Requests -> SUBSET Rows]
<1> USE DEF Types, TypeOK
<1>1. StageTellsOp' /\ at' \in [Requests -> Standing]
  BY MoveTypes DEF StageTellsOp
<1>2. OneRead' /\ read' \in [Requests -> SUBSET Rows]
  <2>1. CASE read' = read
    BY <2>1 DEF OneRead
  <2>2. ASSUME NEW S, read' = [read EXCEPT ![r] = S],
               S \subseteq Rows, \A u, v \in S : u = v
        PROVE  OneRead' /\ read' \in [Requests -> SUBSET Rows]
    BY <2>2 DEF OneRead
  <2> QED  BY <2>1, <2>2
<1> QED  BY <1>1, <1>2

\* The step of a request keeps the types; a step that has an account written
\* leaves one of the address.
LEMMA RequestTypes ==
  ASSUME Types, NEW r \in Requests, RequestStep(r)
  PROVE  Types'
<1> USE DEF Types, Standing, Running
<1>t. TypeOK
  OBVIOUS
<1>u. users \subseteq Rows /\ \A u, v \in users : u = v
  BY <1>t DEF TypeOK
<1>k. ASSUME UNCHANGED <<stored, mails, op, token, faults>>,
             users' \subseteq Rows, \A u, v \in users' : u = v,
             at' \in [Requests -> Standing], read' \in [Requests -> SUBSET Rows]
      PROVE  TypeOK'
  BY <1>k, <1>t DEF TypeOK
<1>1. CASE FindByEmail(r)
  <2>1. \E to \in {"create", "refused", "store"} :
          /\ Move(r, "idle", to)
          /\ to = "create" => op[r] \in {"register", "google"}
          /\ to = "store" => op[r] = "google"
    BY <1>1 DEF FindByEmail
  <2>2. /\ read' = [read EXCEPT ![r] = users]
        /\ UNCHANGED <<users, stored, mails, op, token, faults>>
    BY <1>1 DEF FindByEmail
  <2> QED  BY <2>1, <2>2, <1>k, <1>u, StandingTypes
<1>2. CASE CreateUser(r)
  <2> DEFINE row == [id |-> r, password |-> r, isVerified |-> op[r] = "google"]
  <2>1. row \in Rows
    BY DEF Rows, Passwords
  <2>2. UNCHANGED <<stored, mails, op, token, faults>>
    BY <1>2 DEF CreateUser
  <2>3. CASE EmailFree
    <3>1. users' = {row} /\ read' = [read EXCEPT ![r] = {row}]
      BY <1>2, <2>3 DEF CreateUser, EmailFree
    <3>2. Move(r, "create", IF op[r] = "google" THEN "store" ELSE "lookup")
      BY <1>2, <2>3 DEF CreateUser
    <3>3. op[r] \in {"register", "google"}
      BY <1>2 DEF CreateUser
    <3> HIDE DEF row
    <3> QED  BY <2>1, <2>2, <3>1, <3>2, <3>3, <1>k, StandingTypes
  <2>4. CASE ~EmailFree
    BY <1>2, <2>2, <2>4, <1>k, <1>u, StandingTypes DEF CreateUser
  <2> QED  BY <2>3, <2>4
<1>3. CASE AdminCreate(r)
  <2>1. UNCHANGED <<stored, mails, op, token, faults, read>>
    BY <1>3 DEF AdminCreate
  <2>2. users' \subseteq Rows /\ \A u, v \in users' : u = v
    <3>1. CASE EmailFree
      <4>1. PICK p \in Plain :
              users' = {[id |-> r, password |-> p, isVerified |-> TRUE]}
        BY <1>3, <3>1 DEF AdminCreate, EmailFree
      <4> QED  BY <4>1 DEF Rows, Passwords
    <3>2. CASE ~EmailFree
      BY <1>3, <1>u, <3>2 DEF AdminCreate
    <3> QED  BY <3>1, <3>2
  <2>3. \E to \in {"done", "refused"} : Move(r, "idle", to)
    BY <1>3 DEF AdminCreate
  <2> QED  BY <2>1, <2>2, <2>3, <1>k, StandingTypes
<1>4. CASE FindUser(r)
  <2>1. PICK from \in {"lookup", "idle"} : FindForMail(r, from)
    BY <1>4 DEF FindUser
  <2>2. op[r] \in {"register", "resend", "forgot"}
    BY <1>4 DEF FindUser
  <2>3. \E to \in {"failed", "refused", "mail"} : Move(r, from, to)
    BY <2>1 DEF FindForMail
  <2>4. /\ read' = [read EXCEPT ![r] = users]
        /\ UNCHANGED <<users, stored, mails, op, token, faults>>
    BY <2>1 DEF FindForMail
  <2> QED  BY <2>2, <2>3, <2>4, <1>k, <1>u, StandingTypes
<1>5. CASE SendMail(r)
  <2>1. mails' \subseteq Tokens
    <3>1. read[r] \subseteq Rows /\ mails \subseteq Tokens
      BY <1>t DEF TypeOK
    <3>2. Signed(r) \subseteq Tokens
      BY <3>1 DEF Signed, Rows, Tokens
    <3> QED  BY <1>5, <3>1, <3>2 DEF SendMail
  <2>2. Move(r, "mail", "done") /\ UNCHANGED <<users, stored, op, read, token, faults>>
    BY <1>5 DEF SendMail
  <2> QED  BY <2>1, <2>2, <1>t, StandingTypes DEF TypeOK
<1>6. CASE CheckToken(r)
  <2>1. PICK t \in mails : token' = [token EXCEPT ![r] = {t}]
    BY <1>6 DEF CheckToken
  <2>2. token' \in [Requests -> SUBSET Tokens]
    BY <2>1, <1>t DEF TypeOK
  <2>3. /\ \E to \in {"update", "refused"} : Move(r, "idle", to)
        /\ op[r] \in {"reset", "verify"}
    BY <1>6 DEF CheckToken
  <2>4. /\ read' = [read EXCEPT ![r] = users]
        /\ UNCHANGED <<users, stored, mails, op, faults>>
    BY <1>6 DEF CheckToken
  <2>5. /\ StageTellsOp' /\ OneRead'
        /\ at' \in [Requests -> Standing] /\ read' \in [Requests -> SUBSET Rows]
    BY <2>3, <2>4, <1>u, StandingTypes
  <2> QED  BY <2>2, <2>4, <2>5, <1>t DEF TypeOK
<1>7. CASE UpdateUser(r)
  <2>1. users' \subseteq Rows /\ \A u, v \in users' : u = v
    <3>1. \A u \in users : Written(r, u) \in Rows
      BY <1>u DEF Written, Rows, Passwords
    <3>2. users' = (users \ Target(r)) \cup {Written(r, u) : u \in Target(r)}
      BY <1>7 DEF UpdateUser
    <3>3. Target(r) \subseteq users
      BY DEF Target
    <3> QED  BY <1>u, <3>1, <3>2, <3>3
  <2>2. UNCHANGED <<stored, mails, op, read, token, faults>>
    BY <1>7 DEF UpdateUser
  <2>3. \E to \in {"failed", "done"} : Move(r, "update", to)
    BY <1>7 DEF UpdateUser
  <2> QED  BY <2>1, <2>2, <2>3, <1>k, StandingTypes
<1>8. CASE GetAuthenticatedUser(r)
  <2>1. /\ op[r] = "login"
        /\ \E to \in {"store", "refused"} : Move(r, "idle", to)
        /\ read' = [read EXCEPT ![r] = users]
        /\ UNCHANGED <<users, stored, mails, op, token, faults>>
    BY <1>8 DEF GetAuthenticatedUser
  <2> QED  BY <2>1, <1>k, <1>u, StandingTypes
<1>9. CASE StoreRefreshToken(r)
  <2>1. stored' \subseteq Requests
    BY <1>9, <1>t DEF StoreRefreshToken, TypeOK, Rows
  <2>2. Move(r, "store", "done") /\ UNCHANGED <<users, mails, op, read, token, faults>>
    BY <1>9 DEF StoreRefreshToken
  <2> QED  BY <2>1, <2>2, <1>t, StandingTypes DEF TypeOK
<1>10. CASE FindSession(r)
  <2>1. PICK id \in LoggedIn : read' = [read EXCEPT ![r] = OfId(id)]
    BY <1>10 DEF FindSession
  <2>2. \E to \in {"reload", "compare", "refused"} :
          /\ Move(r, "idle", to)
          /\ to = "reload" => op[r] = "me"
          /\ to = "compare" => op[r] = "refresh"
    BY <1>10 DEF FindSession
  <2>3. UNCHANGED <<users, stored, mails, op, token, faults>>
    BY <1>10 DEF FindSession
  <2>4. OfId(id) \subseteq Rows /\ \A u, v \in OfId(id) : u = v
    BY <1>u DEF OfId
  <2> QED  BY <2>1, <2>2, <2>3, <2>4, <1>k, <1>u, StandingTypes
<1>11. CASE CompareToken(r)
  <2>1. PICK to \in {"done", "refused"} : Move(r, "compare", to)
    BY <1>11 DEF CompareToken
  <2>2. UNCHANGED <<users, stored, mails, op, read, token, faults>>
    BY <1>11 DEF CompareToken
  <2>3. /\ StageTellsOp' /\ OneRead'
        /\ at' \in [Requests -> Standing] /\ read' \in [Requests -> SUBSET Rows]
    BY <2>1, <2>2, StandingTypes
  <2> QED  BY <2>2, <2>3, <1>t DEF TypeOK
<1>12. CASE GetMe(r)
  <2>1. /\ Move(r, "reload", "done")
        /\ read' = [read EXCEPT ![r] = users]
        /\ UNCHANGED <<users, stored, mails, op, token, faults>>
    BY <1>12 DEF GetMe
  <2>2. /\ StageTellsOp' /\ OneRead'
        /\ at' \in [Requests -> Standing] /\ read' \in [Requests -> SUBSET Rows]
    BY <2>1, <1>u, StandingTypes
  <2> QED  BY <2>1, <2>2, <1>t DEF TypeOK
<1>13. CASE PatchPassword(r) \/ Remove(r)
  <2>1. Move(r, "idle", "done") /\ UNCHANGED <<stored, mails, op, read, token, faults>>
    BY <1>13 DEF PatchPassword, Remove
  <2>2. users' \subseteq Rows /\ \A u, v \in users' : u = v
    BY <1>13, <1>u DEF PatchPassword, Remove, Rows, Passwords
  <2> QED  BY <2>1, <2>2, <1>k, StandingTypes
<1>14. CASE RequestFails(r)
  <2>1. /\ Move(r, at[r], "failed")
        /\ UNCHANGED <<users, stored, mails, op, read, token>>
    BY <1>14 DEF RequestFails, Move
  <2>2. faults' \in 0 .. MaxFaults
    BY <1>14, <1>t, FaultsAssumption DEF RequestFails, TypeOK
  <2> QED  BY <2>1, <2>2, <1>t, StandingTypes DEF TypeOK
<1> QED  BY <1>1, <1>2, <1>3, <1>4, <1>5, <1>6, <1>7, <1>8, <1>9, <1>10,
            <1>11, <1>12, <1>13, <1>14 DEF RequestStep

LEMMA TypeStep == Types /\ [Next]_vars => Types'
<1> SUFFICES ASSUME Types, [Next]_vars PROVE Types'
    OBVIOUS
<1>1. CASE ExpireToken \/ UNCHANGED vars
  <2>1. UNCHANGED <<users, mails, op, at, read, token, faults>>
    BY <1>1 DEF ExpireToken, vars
  <2>2. stored' \subseteq Requests
    BY <1>1 DEF ExpireToken, vars, Types, TypeOK
  <2> QED  BY <2>1, <2>2 DEF Types, TypeOK, StageTellsOp, OneRead
<1> QED  BY <1>1, RequestTypes DEF Next, RequestStep

-----------------------------------------------------------------------------
(* What every step of a request has in common *)

\* A step of a request is its own, never goes back to its beginning, never
\* follows its end and drops no mail.
LEMMA Frame ==
  ASSUME Types, NEW r \in Requests, RequestStep(r)
  PROVE  /\ op' = op /\ mails \subseteq mails'
         /\ \A q \in Requests \ {r} :
              at'[q] = at[q] /\ read'[q] = read[q] /\ token'[q] = token[q]
         /\ at[r] \in Running \cup {"idle"} /\ at'[r] # "idle"
         /\ at'[r] = "create" => at[r] = "idle"
<1> USE DEF Types, TypeOK, RequestStep
<1>1. op' = op /\ mails \subseteq mails'
  BY DEF FindByEmail, CreateUser, AdminCreate, FindUser, FindForMail, SendMail,
         CheckToken, UpdateUser, GetAuthenticatedUser, StoreRefreshToken,
         FindSession, CompareToken, GetMe, PatchPassword, Remove, RequestFails
<1>2. \E from \in Running \cup {"idle"}, to \in Standing \ {"idle"} :
        Move(r, from, to) /\ (to = "create" => from = "idle")
  <2> USE DEF Running, Standing
  <2>1. CASE FindByEmail(r) \/ AdminCreate(r) \/ CheckToken(r)
              \/ GetAuthenticatedUser(r) \/ FindSession(r)
              \/ PatchPassword(r) \/ Remove(r)
    BY <2>1 DEF FindByEmail, AdminCreate, CheckToken, GetAuthenticatedUser,
                FindSession, PatchPassword, Remove
  <2>2. CASE CreateUser(r) \/ SendMail(r) \/ UpdateUser(r)
              \/ StoreRefreshToken(r) \/ CompareToken(r) \/ GetMe(r)
    BY <2>2 DEF CreateUser, SendMail, UpdateUser, StoreRefreshToken,
                CompareToken, GetMe
  <2>3. CASE FindUser(r)
    BY <2>3 DEF FindUser, FindForMail
  <2>4. CASE RequestFails(r)
    <3>1. at[r] \in Running /\ Move(r, at[r], "failed")
      BY <2>4 DEF RequestFails, Move
    <3> QED  BY <3>1
  <2> QED  BY <2>1, <2>2, <2>3, <2>4
<1>3. \A q \in Requests \ {r} : read'[q] = read[q]
  BY DEF FindByEmail, CreateUser, AdminCreate, FindUser, FindForMail, SendMail,
         CheckToken, UpdateUser, GetAuthenticatedUser, StoreRefreshToken,
         FindSession, CompareToken, GetMe, PatchPassword, Remove, RequestFails
<1>4. \A q \in Requests \ {r} : token'[q] = token[q]
  BY DEF FindByEmail, CreateUser, AdminCreate, FindUser, FindForMail, SendMail,
         CheckToken, UpdateUser, GetAuthenticatedUser, StoreRefreshToken,
         FindSession, CompareToken, GetMe, PatchPassword, Remove, RequestFails
<1> QED  BY <1>1, <1>2, <1>3, <1>4, MoveTypes

\* A password belongs to its account for ever.
LEMMA BelongsForever ==
  ASSUME Types, NEW r \in Requests, RequestStep(r), NEW i, NEW p, Belongs(i, p)
  PROVE  Belongs(i, p)'
<1> SUFFICES ASSUME p \in Requests PROVE Belongs(i, p)'
    BY DEF Belongs
<1>1. at[p] = "done" => p # r
  BY Frame DEF Running
<1>2. at[p] \notin {"idle", "create"} => at'[p] \notin {"idle", "create"}
  BY Frame
<1>3. at[p] = "done" => at'[p] = "done" /\ read'[p] = read[p]
  BY <1>1, Frame
<1> QED  BY <1>2, <1>3, Frame DEF Belongs

\* Two accounts never have a hash in common.
LEMMA OneOwner ==
  ASSUME Types, NEW i, NEW j, NEW p \in Requests, Belongs(i, p), Belongs(j, p)
  PROVE  i = j
BY DEF Types, OneRead, Belongs

\* Nothing belongs to a request that is still about to make it.
LEMMA NothingYet ==
  ASSUME NEW i, NEW p \in Requests, Belongs(i, p)
  PROVE  /\ at[p] = "create" => op[p] \notin {"register", "google"}
         /\ at[p] # "update" \/ op[p] # "reset"
BY DEF Belongs

-----------------------------------------------------------------------------
(* The rows after a step *)

\* A row that a step leaves was there, or is the row that r creates, or has
\* been given a password in clear or the hash of r, which resets it.
LEMMA RowsAfter ==
  ASSUME Types, NEW r \in Requests, RequestStep(r), NEW u \in users'
  PROVE  \/ \E w \in users : u.id = w.id /\ u.password = w.password
         \/ u.password \in Plain
         \/ /\ op[r] \in {"register", "google"} /\ at[r] = "create"
            /\ u.id = r /\ u.password = r
         \/ /\ op[r] = "reset" /\ at[r] = "update" /\ at'[r] = "done"
            /\ u.password = r /\ read' = read /\ \E v \in read[r] : v.id = u.id
<1> USE DEF Types, TypeOK
<1>1. CASE CreateUser(r)
  <2>1. CASE EmailFree
    <3>1. u = [id |-> r, password |-> r, isVerified |-> op[r] = "google"]
      BY <1>1, <2>1 DEF CreateUser, EmailFree
    <3> QED  BY <1>1, <3>1 DEF CreateUser, Move
  <2>2. CASE ~EmailFree
    BY <1>1, <2>2 DEF CreateUser
  <2> QED  BY <2>1, <2>2
<1>2. CASE AdminCreate(r)
  <2>1. CASE EmailFree
    <3>1. PICK p \in Plain :
            users' = users \cup {[id |-> r, password |-> p, isVerified |-> TRUE]}
      BY <1>2, <2>1 DEF AdminCreate
    <3>2. u \in users \/ u = [id |-> r, password |-> p, isVerified |-> TRUE]
      BY <3>1
    <3> QED  BY <3>2
  <2>2. CASE ~EmailFree
    BY <1>2, <2>2 DEF AdminCreate
  <2> QED  BY <2>1, <2>2
<1>3. CASE UpdateUser(r)
  <2>1. u \in users \/ \E w \in Target(r) : u = Written(r, w)
    BY <1>3 DEF UpdateUser
  <2>2. ASSUME NEW w \in Target(r), u = Written(r, w)
        PROVE  /\ w \in users /\ w.id = u.id /\ \E v \in read[r] : v.id = u.id
               /\ IF op[r] = "reset" THEN u.password = r
                                    ELSE u.password = w.password
    <3>1. w \in Rows /\ w \in users /\ \E v \in read[r] : w.id = v.id
      BY DEF Target
    <3> QED  BY <2>2, <3>1 DEF Written, Rows
  <2>3. ASSUME Target(r) # {}
        PROVE  at[r] = "update" /\ at'[r] = "done" /\ read' = read
    BY <1>3, <2>3 DEF UpdateUser, Move
  <2> QED  BY <2>1, <2>2, <2>3
<1>4. CASE PatchPassword(r)
  <2>1. PICK p \in Plain : users' = {[w EXCEPT !.password = p] : w \in users}
    BY <1>4 DEF PatchPassword
  <2>2. PICK w \in users : u = [w EXCEPT !.password = p]
    BY <2>1
  <2>3. w \in Rows
    OBVIOUS
  <2> QED  BY <2>2, <2>3 DEF Rows
<1>5. CASE Remove(r)
  BY <1>5 DEF Remove
<1>6. ASSUME users' = users
      PROVE  \E w \in users : u.id = w.id /\ u.password = w.password
  BY <1>6
<1> QED
  BY <1>1, <1>2, <1>3, <1>4, <1>5, <1>6
  DEF RequestStep, FindByEmail, FindUser, FindForMail, SendMail, CheckToken,
      GetAuthenticatedUser, StoreRefreshToken, FindSession, CompareToken, GetMe,
      RequestFails

\* What a request has read was read before, or is a row that is there now.
LEMMA ReadAfter ==
  ASSUME Types, NEW r \in Requests, RequestStep(r)
  PROVE  read'[r] \subseteq read[r] \/ read'[r] \subseteq users'
<1> USE DEF Types, TypeOK
<1>1. CASE CreateUser(r)
  BY <1>1 DEF CreateUser
<1>2. CASE FindSession(r)
  <2>1. PICK id \in LoggedIn : read' = [read EXCEPT ![r] = OfId(id)]
    BY <1>2 DEF FindSession
  <2>2. read'[r] = OfId(id) /\ users' = users
    BY <1>2, <2>1 DEF FindSession
  <2> QED  BY <2>2 DEF OfId
<1>3. CASE \/ FindByEmail(r) \/ FindUser(r) \/ CheckToken(r)
           \/ GetAuthenticatedUser(r) \/ GetMe(r)
  BY <1>3 DEF FindByEmail, FindUser, FindForMail, CheckToken,
              GetAuthenticatedUser, GetMe
<1>4. ASSUME read' = read PROVE read'[r] \subseteq read[r]
  BY <1>4
<1> QED
  BY <1>1, <1>2, <1>3, <1>4
  DEF RequestStep, AdminCreate, SendMail, UpdateUser, StoreRefreshToken,
      CompareToken, PatchPassword, Remove, RequestFails

\* A mail is signed with what its request has read.
LEMMA MailsAfter ==
  ASSUME Types, NEW r \in Requests, RequestStep(r), NEW t \in mails' \ mails
  PROVE  \E u \in read[r] : t.id = u.id /\ t.password = u.password
<1>1. SendMail(r)
  BY DEF RequestStep, FindByEmail, CreateUser, AdminCreate, FindUser,
         FindForMail, CheckToken, UpdateUser, GetAuthenticatedUser,
         StoreRefreshToken, FindSession, CompareToken, GetMe, PatchPassword,
         Remove, RequestFails
<1>2. t \in Signed(r)
  BY <1>1 DEF SendMail
<1> QED  BY <1>2 DEF Signed

LEMMA PasswordsOwnedStep ==
  ASSUME Types, PasswordsOwned, NEW r \in Requests, RequestStep(r)
  PROVE  PasswordsOwned'
<1>1. \A u \in users' : Belongs(u.id, u.password)'
  <2> SUFFICES ASSUME NEW u \in users' PROVE Belongs(u.id, u.password)'
      OBVIOUS
  <2>1. CASE \E w \in users : u.id = w.id /\ u.password = w.password
    BY <2>1, BelongsForever DEF PasswordsOwned
  <2>2. CASE u.password \in Plain
    BY <2>2, PlainAssumption DEF Belongs
  <2>3. CASE /\ op[r] \in {"register", "google"} /\ at[r] = "create"
             /\ u.id = r /\ u.password = r
    BY <2>3, Frame DEF Belongs
  <2>4. CASE /\ op[r] = "reset" /\ at[r] = "update" /\ at'[r] = "done"
             /\ u.password = r /\ read' = read /\ \E v \in read[r] : v.id = u.id
    BY <2>4, Frame DEF Belongs
  <2> QED  BY <2>1, <2>2, <2>3, <2>4, RowsAfter
<1>2. ASSUME NEW q \in Requests, NEW u \in read'[q]
      PROVE  Belongs(u.id, u.password)'
  <2>1. CASE u \in read[q]
    BY <2>1, BelongsForever DEF PasswordsOwned
  <2>2. CASE u \notin read[q]
    BY <1>1, <1>2, <2>2, Frame, ReadAfter
  <2> QED  BY <2>1, <2>2
<1>3. ASSUME NEW t \in mails' PROVE Belongs(t.id, t.password)'
  <2>1. CASE t \in mails
    BY <2>1, BelongsForever DEF PasswordsOwned
  <2>2. CASE t \notin mails
    <3>1. PICK u \in read[r] : t.id = u.id /\ t.password = u.password
      BY <2>2, MailsAfter
    <3> QED  BY <3>1, BelongsForever DEF PasswordsOwned
  <2> QED  BY <2>1, <2>2
<1> QED  BY <1>1, <1>2, <1>3 DEF PasswordsOwned

-----------------------------------------------------------------------------
(* Tokens *)

\* Only CheckToken takes a token, and only it leads to an update.
LEMMA TokensAfter ==
  ASSUME Types, NEW r \in Requests, RequestStep(r)
  PROVE  \/ token'[r] = token[r] /\ at'[r] # "update"
         \/ /\ at[r] = "idle" /\ op[r] \in {"reset", "verify"}
            /\ users' = users /\ read'[r] = users /\ mails' = mails
            /\ at'[r] \in {"update", "refused"}
            /\ \E t \in mails :
                 /\ token'[r] = {t}
                 /\ at'[r] = "update" => \E u \in users : Acceptable(r, t, u)
<1> USE DEF Types, TypeOK
<1>1. CASE CheckToken(r)
  <2>1. PICK t \in mails :
          /\ token' = [token EXCEPT ![r] = {t}]
          /\ \/ /\ \E u \in users : Acceptable(r, t, u)
                /\ Move(r, "idle", "update")
             \/ Move(r, "idle", "refused")
    BY <1>1 DEF CheckToken
  <2>2. token'[r] = {t}
    BY <2>1
  <2>3. /\ at[r] = "idle" /\ at'[r] \in {"update", "refused"}
        /\ at'[r] = "update" => \E u \in users : Acceptable(r, t, u)
    BY <2>1 DEF Move
  <2>4. read'[r] = users /\ users' = users /\ mails' = mails
    BY <1>1 DEF CheckToken
  <2> QED  BY <1>1, <2>2, <2>3, <2>4 DEF CheckToken
<1>2. CASE ~CheckToken(r)
  <2>1. token' = token
    BY <1>2 DEF RequestStep, FindByEmail, CreateUser, AdminCreate, FindUser,
                FindForMail, SendMail, UpdateUser, GetAuthenticatedUser,
                StoreRefreshToken, FindSession, CompareToken, GetMe,
                PatchPassword, Remove, RequestFails
  <2>2. \E from, to : Move(r, from, to) /\ to # "update"
    <3>1. CASE FindUser(r)
      BY <3>1 DEF FindUser, FindForMail
    <3>2. CASE RequestFails(r)
      <4>1. Move(r, at[r], "failed")
        BY <3>2 DEF RequestFails, Move
      <4> QED  BY <4>1
    <3>3. CASE ~FindUser(r) /\ ~RequestFails(r)
      BY <1>2, <3>3
         DEF RequestStep, FindByEmail, CreateUser, AdminCreate, SendMail,
             UpdateUser, GetAuthenticatedUser, StoreRefreshToken, FindSession,
             CompareToken, GetMe, PatchPassword, Remove
    <3> QED  BY <3>1, <3>2, <3>3
  <2> QED  BY <2>1, <2>2 DEF Move
<1> QED  BY <1>1, <1>2

LEMMA TokensCheckedStep ==
  ASSUME Types, TokensChecked, NEW r \in Requests, RequestStep(r)
  PROVE  TokensChecked'
<1> SUFFICES ASSUME NEW q \in Requests
             PROVE  /\ token'[q] \subseteq mails'
                    /\ at'[q] = "update" =>
                         /\ token'[q] # {}
                         /\ \A t \in token'[q], v \in read'[q] :
                              t.purpose = op'[q] /\ t.password = v.password
    BY DEF TokensChecked
<1>1. CASE q # r
  BY <1>1, Frame DEF TokensChecked
<1>2. CASE q = r /\ token'[r] = token[r] /\ at'[r] # "update"
  BY <1>2, Frame DEF TokensChecked
<1>3. CASE q = r /\ ~(token'[r] = token[r] /\ at'[r] # "update")
  <2>1. PICK t \in mails :
          /\ token'[r] = {t}
          /\ at'[r] = "update" => \E u \in users : Acceptable(r, t, u)
    BY <1>3, TokensAfter
  <2>2. read'[r] = users /\ mails' = mails /\ op' = op
    BY <1>3, TokensAfter, Frame
  <2>3. \A u, v \in users : u = v
    BY DEF Types, TypeOK
  <2> QED  BY <1>3, <2>1, <2>2, <2>3 DEF Acceptable, Matches
<1> QED  BY <1>1, <1>2, <1>3

\* A reset ends by giving the account its own hash, and nobody can give it the
\* one of the token again.
LEMMA ResetsReplaceStep ==
  ASSUME Types, PasswordsOwned, TokensChecked, ResetsReplace,
         NEW r \in Requests, RequestStep(r)
  PROVE  ResetsReplace'
<1> SUFFICES ASSUME NEW q \in Requests, op'[q] = "reset", at'[q] = "done",
                    NEW t \in token'[q], NEW u \in users',
                    t.password \in Requests, u.password = t.password
             PROVE  FALSE
    BY DEF ResetsReplace
<1>1. op[q] = "reset" /\ token'[q] = token[q] /\ t \in mails
  <2>1. op[q] = "reset"
    BY Frame
  <2>2. token'[q] = token[q]
    BY Frame, TokensAfter
  <2> QED  BY <2>1, <2>2 DEF TokensChecked
<1>2. Belongs(t.id, t.password)
  BY <1>1 DEF PasswordsOwned
<1>3. \E w \in users : u.id = w.id /\ u.password = w.password
  <2>1. u.password \notin Plain
    BY PlainAssumption
  <2>2. ~(op[r] \in {"register", "google"} /\ at[r] = "create" /\ u.password = r)
    BY <1>2 DEF Belongs
  <2>3. ~(op[r] = "reset" /\ at[r] = "update" /\ u.password = r)
    BY <1>2 DEF Belongs
  <2> QED  BY <2>1, <2>2, <2>3, RowsAfter
<1>4. PICK w \in users : u.id = w.id /\ u.password = w.password
  BY <1>3
<1>5. at[q] # "done"
  BY <1>1, <1>4 DEF ResetsReplace
<1>6. q = r
  BY <1>5, Frame
<1>7. UpdateUser(r) /\ Target(r) # {}
  <2>1. UpdateUser(r)
    <3>1. at[r] \notin {"mail", "store", "compare", "reload", "create", "lookup"}
      BY <1>1, <1>6 DEF Types, StageTellsOp
    <3>2. ~RequestFails(r) /\ ~FindUser(r) /\ ~CheckToken(r)
      <4>1. ~RequestFails(r)
        BY <1>6 DEF RequestFails, Types, TypeOK
      <4>2. ~FindUser(r)
        BY <1>1, <1>6 DEF FindUser
      <4>3. ~CheckToken(r)
        BY <1>6 DEF CheckToken, Move, Types, TypeOK
      <4> QED  BY <4>1, <4>2, <4>3
    <3> QED
      BY <1>1, <1>6, <3>1, <3>2
      DEF RequestStep, FindByEmail, CreateUser, AdminCreate, SendMail,
          GetAuthenticatedUser, StoreRefreshToken, FindSession, CompareToken,
          GetMe, PatchPassword, Remove, Move
  <2>2. Target(r) # {}
    BY <1>6, <2>1 DEF UpdateUser, Move, Types, TypeOK
  <2> QED  BY <2>1, <2>2
<1>8. u.password = r
  <2>1. users = Target(r) /\ Target(r) \subseteq Rows
    BY <1>7 DEF Target, Types, TypeOK
  <2>2. PICK v \in Target(r) : u = Written(r, v)
    BY <1>7, <2>1 DEF UpdateUser
  <2>3. v \in Rows
    BY <2>1
  <2> QED  BY <1>1, <1>6, <2>2, <2>3 DEF Written, Rows
<1>9. at[r] = "update"
  BY <1>7 DEF UpdateUser, Move
<1> QED  BY <1>1, <1>2, <1>6, <1>8, <1>9 DEF Belongs

-----------------------------------------------------------------------------
(* Verification *)

\* What a step makes of the rows: it keeps who is verified, and an account that
\* registered becomes so by an update that a verification has come to.
LEMMA VerifiedAfter ==
  ASSUME Types, NEW r \in Requests, RequestStep(r), NEW u \in users'
  PROVE  /\ \A w \in users : w.id = u.id /\ w.isVerified => u.isVerified
         /\ u.isVerified /\ op[u.id] = "register" =>
              \/ \E w \in users : w.id = u.id /\ w.isVerified
              \/ /\ op[r] = "verify" /\ at[r] = "update"
                 /\ \E v \in read[r] : v.id = u.id
<1> DEFINE Kept == /\ \A w \in users : w.id = u.id /\ w.isVerified => u.isVerified
                   /\ u.isVerified /\ op[u.id] = "register" =>
                        \E w \in users : w.id = u.id /\ w.isVerified
<1>s. users \subseteq Rows /\ \A v, w \in users : v = w
  BY DEF Types, TypeOK
<1>0. ASSUME u \in users PROVE Kept
  BY <1>0, <1>s
<1>1. CASE CreateUser(r)
  <2>1. CASE EmailFree
    <3>1. u = [id |-> r, password |-> r, isVerified |-> op[r] = "google"]
      BY <1>1, <2>1 DEF CreateUser, EmailFree
    <3>2. u.id = r /\ (u.isVerified => op[r] = "google")
      BY <3>1
    <3>3. users = {}
      BY <2>1 DEF EmailFree
    <3> QED  BY <3>2, <3>3
  <2>2. CASE ~EmailFree
    BY <1>0, <1>1, <2>2 DEF CreateUser
  <2> QED  BY <2>1, <2>2
<1>2. CASE AdminCreate(r)
  <2>1. CASE EmailFree
    <3>1. PICK p \in Plain :
            users' = users \cup {[id |-> r, password |-> p, isVerified |-> TRUE]}
      BY <1>2, <2>1 DEF AdminCreate
    <3>2. users = {} /\ u = [id |-> r, password |-> p, isVerified |-> TRUE]
      BY <2>1, <3>1 DEF EmailFree
    <3>3. op[u.id] = "create"
      BY <1>2, <3>2 DEF AdminCreate
    <3> QED  BY <3>2, <3>3
  <2>2. CASE ~EmailFree
    BY <1>0, <1>2, <2>2 DEF AdminCreate
  <2> QED  BY <2>1, <2>2
<1>3. CASE UpdateUser(r)
  <2>1. u \in users \/ \E w \in Target(r) : u = Written(r, w)
    BY <1>3 DEF UpdateUser
  <2>2. ASSUME NEW w \in Target(r), u = Written(r, w)
        PROVE  /\ w \in users /\ w.id = u.id /\ \E v \in read[r] : v.id = u.id
               /\ w.isVerified => u.isVerified
               /\ op[r] = "reset" => u.isVerified = w.isVerified
    <3>1. w \in Rows /\ w \in users /\ \E v \in read[r] : w.id = v.id
      BY <1>s DEF Target
    <3> QED  BY <2>2, <3>1 DEF Written, Rows
  <2>3. at[r] = "update" /\ op[r] \in {"reset", "verify"}
    BY <1>3 DEF UpdateUser, Move, Types, StageTellsOp
  <2> QED  BY <1>0, <1>s, <2>1, <2>2, <2>3
<1>4. CASE PatchPassword(r)
  <2>1. PICK p \in Plain : users' = {[w EXCEPT !.password = p] : w \in users}
    BY <1>4 DEF PatchPassword
  <2>2. PICK w \in users : u = [w EXCEPT !.password = p]
    BY <2>1
  <2>3. u.id = w.id /\ u.isVerified = w.isVerified
    BY <1>s, <2>2 DEF Rows
  <2> QED  BY <1>s, <2>3
<1>5. CASE Remove(r)
  BY <1>5 DEF Remove
<1>6. ASSUME users' = users PROVE Kept
  BY <1>0, <1>6
<1> QED
  BY <1>1, <1>2, <1>3, <1>4, <1>5, <1>6
  DEF RequestStep, FindByEmail, FindUser, FindForMail, SendMail, CheckToken,
      GetAuthenticatedUser, StoreRefreshToken, FindSession, CompareToken, GetMe,
      RequestFails

\* The token of a verification was signed with a hash, and with it for the
\* account whose hash it is.
LEMMA OwnMailStep ==
  ASSUME Types, PasswordsOwned, TokensChecked, OwnMailVerifies,
         NEW r \in Requests, RequestStep(r)
  PROVE  OwnMailVerifies'
<1> SUFFICES ASSUME NEW u \in users', u.isVerified, op'[u.id] = "register"
             PROVE  \E t \in mails' : /\ t.purpose = "verify"
                                      /\ t.id = u.id \/ t.password \in Plain
    BY DEF OwnMailVerifies
<1>1. op[u.id] = "register" /\ mails \subseteq mails'
  BY Frame
<1>2. CASE \E w \in users : w.id = u.id /\ w.isVerified
  BY <1>1, <1>2 DEF OwnMailVerifies
<1>3. CASE /\ op[r] = "verify" /\ at[r] = "update"
           /\ \E v \in read[r] : v.id = u.id
  <2>1. PICK v \in read[r] : v.id = u.id
    BY <1>3
  <2>2. PICK t \in token[r] : TRUE
    BY <1>3 DEF TokensChecked
  <2>3. t \in mails /\ t.purpose = "verify" /\ t.password = v.password
    BY <1>3 DEF TokensChecked
  <2>4. t.password \in Requests \cup Plain
    BY <2>3 DEF Types, TypeOK, Tokens, Passwords
  <2>5. t.password \in Requests => t.id = v.id
    BY <2>3, OneOwner DEF PasswordsOwned
  <2> QED  BY <1>1, <2>1, <2>3, <2>4, <2>5
<1> QED  BY <1>1, <1>2, <1>3, VerifiedAfter

-----------------------------------------------------------------------------
(* Sessions *)

LEMMA SessionsStep ==
  ASSUME Types, SessionsStayApart, NEW r \in Requests, RequestStep(r)
  PROVE  SessionsStayApart'
<1>1. LoggedIn \subseteq LoggedIn'
  <2>1. \A q \in Requests : at[q] = "done" =>
          q # r /\ at'[q] = "done" /\ read'[q] = read[q] /\ op'[q] = op[q]
    BY Frame DEF Running
  <2> QED  BY <2>1 DEF LoggedIn
<1> SUFFICES ASSUME NEW q \in Requests,
                    \/ op'[q] = "refresh" /\ at'[q] \in {"compare", "done"}
                    \/ op'[q] = "me" /\ at'[q] = "reload"
             PROVE  {u.id : u \in read'[q]} \subseteq LoggedIn'
    BY DEF SessionsStayApart
<1>2. CASE q # r
  <2>1. {u.id : u \in read[q]} \subseteq LoggedIn
    BY <1>2, Frame DEF SessionsStayApart
  <2> QED  BY <1>1, <1>2, <2>1, Frame
<1>3. CASE q = r
  <2>1. op[r] \in {"refresh", "me"}
    BY <1>3, Frame
  <2>2. at[r] \in {"idle", "compare", "reload"}
    BY <2>1, Frame DEF Types, StageTellsOp, Running
  <2>3. FindSession(r) \/ CompareToken(r)
    <3>1. ~RequestFails(r)
      BY <1>3 DEF RequestFails, Types, TypeOK
    <3>2. ~GetMe(r)
      <4>1. GetMe(r) => at'[r] = "done" /\ at[r] = "reload"
        BY DEF GetMe, Move, Types, TypeOK
      <4>2. at[r] = "reload" => op[r] = "me"
        BY DEF Types, StageTellsOp
      <4> QED  BY <1>3, <4>1, <4>2, Frame
    <3>3. ~FindUser(r)
      BY <2>1 DEF FindUser
    <3> QED
      BY <2>1, <2>2, <3>1, <3>2, <3>3
      DEF RequestStep, FindByEmail, CreateUser, AdminCreate, SendMail,
          CheckToken, UpdateUser, GetAuthenticatedUser, StoreRefreshToken,
          PatchPassword, Remove, Move
  <2>4. CASE FindSession(r)
    <3>1. PICK id \in LoggedIn : read' = [read EXCEPT ![r] = OfId(id)]
      BY <2>4 DEF FindSession
    <3>2. read'[r] = OfId(id)
      BY <3>1 DEF Types, TypeOK
    <3> QED  BY <1>1, <1>3, <3>2 DEF OfId
  <2>5. CASE CompareToken(r)
    <3>1. at[r] = "compare" /\ read' = read
      BY <2>5 DEF CompareToken, Move
    <3>2. op[r] = "refresh"
      BY <3>1 DEF Types, StageTellsOp
    <3> QED  BY <1>1, <1>3, <3>1, <3>2 DEF SessionsStayApart
  <2> QED  BY <2>3, <2>4, <2>5
<1> QED  BY <1>2, <1>3

-----------------------------------------------------------------------------
(* Theorems *)

LEMMA InitInvariant == Init => Invariant
<1> SUFFICES ASSUME Init PROVE Invariant
    OBVIOUS
<1>1. Types
  BY InitTypes
<1>2. /\ PasswordsOwned /\ TokensChecked /\ ResetsReplace
      /\ OwnMailVerifies /\ SessionsStayApart
  BY DEF Init, PasswordsOwned, TokensChecked, ResetsReplace, OwnMailVerifies,
         SessionsStayApart
<1> QED  BY <1>1, <1>2 DEF Invariant

LEMMA InvariantStep == Invariant /\ [Next]_vars => Invariant'
<1> SUFFICES ASSUME Invariant, [Next]_vars PROVE Invariant'
    OBVIOUS
<1>1. Types'
  BY TypeStep DEF Invariant
<1>2. ASSUME NEW r \in Requests, RequestStep(r) PROVE Invariant'
  BY <1>1, <1>2, PasswordsOwnedStep, TokensCheckedStep, ResetsReplaceStep,
     OwnMailStep, SessionsStep DEF Invariant
<1>3. CASE ExpireToken \/ UNCHANGED vars
  <2>1. UNCHANGED <<users, mails, op, at, read, token>>
    BY <1>3 DEF ExpireToken, vars
  <2>2. PasswordsOwned' /\ TokensChecked' /\ ResetsReplace'
    BY <2>1 DEF Invariant, PasswordsOwned, Belongs, TokensChecked, ResetsReplace
  <2>3. OwnMailVerifies' /\ SessionsStayApart'
    BY <2>1 DEF Invariant, OwnMailVerifies, SessionsStayApart, LoggedIn
  <2> QED  BY <1>1, <2>2, <2>3 DEF Invariant
<1> QED  BY <1>2, <1>3 DEF Next, RequestStep

\* Whatever requests of AuthService and UserController about one address
\* overlap or die: passwords, tokens and sessions stay with their account.
THEOREM AccountInvariantHolds == Spec => []Invariant
<1> QED  BY InitInvariant, InvariantStep, PTL DEF Spec

\* Registrations, Google logins and administrators create one account of an
\* address at most, and every variable keeps its type.
THEOREM AccountsTypeCorrect == Spec => []TypeOK
<1>1. Invariant => TypeOK
  BY DEF Invariant, Types
<1> QED  BY <1>1, AccountInvariantHolds, PTL

\* verifyAccount verifies an account by a mail sent for this very account.
THEOREM OwnMailAlwaysVerifies == Spec => []OwnMailVerifies
<1>1. Invariant => OwnMailVerifies
  BY DEF Invariant
<1> QED  BY <1>1, AccountInvariantHolds, PTL

\* Refreshes and getMe are let in to an account that somebody logged in to,
\* never by the tokens of one that was removed before it.
THEOREM SessionsAlwaysStayApart == Spec => []SessionsStayApart
<1>1. Invariant => SessionsStayApart
  BY DEF Invariant
<1> QED  BY <1>1, AccountInvariantHolds, PTL

\* No resetPassword, PATCH or second registration undoes a verification.
THEOREM VerificationAlwaysSticks == Spec => VerificationSticks
<1>1. Invariant /\ [Next]_vars
        => [\A u \in users, v \in users' :
              u.id = v.id /\ u.isVerified => v.isVerified]_vars
  <2> SUFFICES ASSUME Invariant, [Next]_vars, NEW u \in users, NEW v \in users',
                      u.id = v.id, u.isVerified
               PROVE  v.isVerified
      OBVIOUS
  <2>1. ASSUME NEW r \in Requests, RequestStep(r) PROVE v.isVerified
    BY <2>1, VerifiedAfter DEF Invariant
  <2>2. ASSUME users' = users PROVE v.isVerified
    BY <2>2 DEF Invariant, Types, TypeOK
  <2> QED  BY <2>1, <2>2 DEF Next, RequestStep, ExpireToken, vars
<1> QED  BY <1>1, AccountInvariantHolds, PTL DEF Spec, VerificationSticks

\* Once resetPassword has come through with a token, the token is refused.
THEOREM UsedTokensStayRefused == Spec => UsedTokensRefused
<1>1. Invariant /\ [Next]_vars
        => [\A r \in Requests : at[r] = "idle" /\ at'[r] = "update" =>
              token'[r] \cap Used = {}]_vars
  <2> SUFFICES ASSUME Invariant, [Next]_vars, NEW r \in Requests,
                      at[r] = "idle", at'[r] = "update", NEW t \in token'[r],
                      t \in Used
               PROVE  FALSE
      OBVIOUS
  <2>1. RequestStep(r)
    <3>1. ASSUME NEW q \in Requests \ {r}, RequestStep(q) PROVE FALSE
      BY <3>1, Frame DEF Invariant
    <3>2. at' # at
      OBVIOUS
    <3> QED  BY <3>1, <3>2 DEF Next, RequestStep, ExpireToken, vars
  <2>2. t \in mails /\ \E u \in users : Acceptable(r, t, u)
    BY <2>1, TokensAfter DEF Invariant
  <2>3. PICK u \in users : t.password = u.password
    BY <2>2 DEF Acceptable, Matches
  <2>4. PICK q \in Requests : /\ op[q] = "reset" /\ at[q] = "done"
                             /\ t \in token[q] /\ t.password \notin Plain
    BY DEF Used
  <2>5. t.password \in Requests
    BY <2>2, <2>4 DEF Invariant, Types, TypeOK, Tokens, Passwords
  <2> QED  BY <2>3, <2>4, <2>5 DEF Invariant, ResetsReplace
<1> QED  BY <1>1, AccountInvariantHolds, PTL DEF Spec, UsedTokensRefused
=============================================================================
