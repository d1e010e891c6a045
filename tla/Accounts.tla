------------------------------ MODULE Accounts ------------------------------
(***************************************************************************)
(* The account of one e-mail address: AuthService registers it, verifies   *)
(* it and resets its password by mailed tokens, Google logins create it,   *)
(* logins open sessions on it, and UserController lets administrators      *)
(* create, change and remove it.                                           *)
(* Other addresses have rows of their own and share nothing with it.       *)
(*                                                                         *)
(* Requests are cut at their awaits, as in OrderLifecycle.  A request      *)
(* creates at most one row and one hash, so its name stands for both:      *)
(* hashes are salted, and no two requests produce the same.                *)
(***************************************************************************)
EXTENDS Naturals

CONSTANTS
  Requests,  \* HTTP requests about the address
  Plain,     \* passwords in clear, as POST and PATCH user store them
  MaxFaults  \* bound: requests that die between two of their steps

ASSUME PlainAssumption == Plain \cap Requests = {}
ASSUME FaultsAssumption == MaxFaults \in Nat

VARIABLES
  users,  \* the rows with this e-mail
  stored, \* the ids with a refresh token in the cache
  mails,  \* the tokens in the mailbox of the address
  op,     \* op[r]: what the request asks for
  at,     \* at[r]: where it stands
  read,   \* read[r]: the row it has found, as a set of at most one
  token,  \* token[r]: the token it came with, as a set of at most one
  faults

vars == <<users, stored, mails, op, at, read, token, faults>>

Passwords == Requests \cup Plain
Rows == [id : Requests, password : Passwords, isVerified : BOOLEAN]

\* A token is a signature with a secret made of the row it was issued for:
\* the password to reset it, the password and isVerified to verify it.  Its
\* id is not in the payload; properties use it.
Tokens == [purpose : {"reset", "verify"}, password : Passwords, id : Requests]

Operations == {"register", "google", "create", "resend", "forgot", "reset",
               "verify", "patch", "remove", "login", "refresh", "me"}
Running == {"create", "lookup", "mail", "update", "store", "compare",
            "reload"}
Standing == Running \cup {"idle", "done", "refused", "failed"}

Init ==
  /\ users = {}
  /\ stored = {}
  /\ mails = {}
  /\ op \in [Requests -> Operations]
  /\ at = [r \in Requests |-> "idle"]
  /\ read = [r \in Requests |-> {}]
  /\ token = [r \in Requests |-> {}]
  /\ faults = 0

Move(r, from, to) ==
  /\ at[r] = from
  /\ at' = [at EXCEPT ![r] = to]

-----------------------------------------------------------------------------
(* register, validateGoogleLogin, POST user *)

(* Both look for the address before they hash a password.  A Google login
   that finds an account, verified or not, is a login of its owner. *)
FindByEmail(r) ==
  /\ \/ /\ op[r] = "register"
        /\ Move(r, "idle", IF users = {} THEN "create" ELSE "refused")
     \/ /\ op[r] = "google"
        /\ Move(r, "idle", IF users = {} THEN "create" ELSE "store")
  /\ read' = [read EXCEPT ![r] = users]
  /\ UNCHANGED <<users, stored, mails, op, token, faults>>

\* Variant: email without its unique constraint.
EmailNotUnique == users \subseteq Rows

EmailFree == users = {}

(* The unique e-mail makes a second create throw.  Registration goes on to
   mail a verification token, for which it reads the row again. *)
CreateUser(r) ==
  LET row == [id |-> r, password |-> r, isVerified |-> op[r] = "google"] IN
  /\ op[r] \in {"register", "google"}
  /\ IF EmailFree
       THEN /\ users' = users \cup {row}
            /\ read' = [read EXCEPT ![r] = {row}]
            /\ Move(r, "create", IF op[r] = "google" THEN "store" ELSE "lookup")
       ELSE /\ Move(r, "create", "refused")
            /\ UNCHANGED <<users, read>>
  /\ UNCHANGED <<stored, mails, op, token, faults>>

(* An administrator's account is verified, and its password is not hashed. *)
AdminCreate(r) ==
  /\ op[r] = "create"
  /\ IF EmailFree
       THEN /\ \E p \in Plain :
                 users' = users \cup {[id |-> r, password |-> p,
                                       isVerified |-> TRUE]}
            /\ Move(r, "idle", "done")
       ELSE /\ Move(r, "idle", "refused")
            /\ UNCHANGED users
  /\ UNCHANGED <<stored, mails, op, read, token, faults>>

-----------------------------------------------------------------------------
(* sendVerificationEmail, forgotPassword *)

(* sendVerificationEmail refuses a verified account, and both throw on the
   missing row of an unknown address. *)
FindForMail(r, from) ==
  LET refused == op[r] # "forgot" /\ \E u \in users : u.isVerified IN
  /\ Move(r, from, CASE users = {} -> "failed"
                     [] refused -> "refused"
                     [] OTHER -> "mail")
  /\ read' = [read EXCEPT ![r] = users]
  /\ UNCHANGED <<users, stored, mails, op, token, faults>>

FindUser(r) ==
  \/ op[r] = "register" /\ FindForMail(r, "lookup")
  \/ op[r] \in {"resend", "forgot"} /\ FindForMail(r, "idle")

\* The token is signed with what was read.
Signed(r) ==
  {[purpose |-> IF op[r] = "forgot" THEN "reset" ELSE "verify",
    password |-> u.password, id |-> u.id] : u \in read[r]}

SendMail(r) ==
  /\ Move(r, "mail", "done")
  /\ mails' = mails \cup Signed(r)
  /\ UNCHANGED <<users, stored, op, read, token, faults>>

-----------------------------------------------------------------------------
(* resetPassword, verifyAccount *)

\* Variant: tokens are signed with a secret of the configuration.
HasPurpose(t, u) == t.purpose \in {"reset", "verify"}

\* The signature is checked with a secret made of the row as it is now, so
\* what was signed with another password is refused.
Matches(t, u) == t.password = u.password

\* What a request may do with the row that it finds.
Acceptable(r, t, u) ==
  /\ t.purpose = op[r]
  /\ op[r] = "verify" => ~u.isVerified
  /\ Matches(t, u)

(* The row is read and the token checked against it; a token may also have
   expired. *)
CheckToken(r) ==
  /\ op[r] \in {"reset", "verify"}
  /\ \E t \in mails :
       /\ token' = [token EXCEPT ![r] = {t}]
       /\ \/ /\ \E u \in users : Acceptable(r, t, u)
             /\ Move(r, "idle", "update")
          \/ Move(r, "idle", "refused")
  /\ read' = [read EXCEPT ![r] = users]
  /\ UNCHANGED <<users, stored, mails, op, faults>>

\* Variant: the row is found by its e-mail once more.
WithEmail(r) == {u \in users : read[r] # {}}

\* The row that is updated is the one with the id that was read.
Target(r) == {u \in users : \E v \in read[r] : u.id = v.id}

\* Variant: the whole row is written back as it was read.
WrittenBack(r, u) ==
  CHOOSE w \in Rows :
    \E v \in read[r] :
      w = IF op[r] = "reset" THEN [v EXCEPT !.password = r]
                             ELSE [v EXCEPT !.isVerified = TRUE]

\* The one column that the request writes.
Written(r, u) ==
  IF op[r] = "reset" THEN [u EXCEPT !.password = r]
                     ELSE [u EXCEPT !.isVerified = TRUE]

(* Hashing comes between the check and the update, which throws when the row
   is gone. *)
UpdateUser(r) ==
  /\ Move(r, "update", IF Target(r) = {} THEN "failed" ELSE "done")
  /\ users' = (users \ Target(r)) \cup {Written(r, u) : u \in Target(r)}
  /\ UNCHANGED <<stored, mails, op, read, token, faults>>

-----------------------------------------------------------------------------
(* Sessions: login, getAuthenticatedUser, getUserIfRefreshTokenMatched *)

(* The account has to be verified and its hash to match the password; what
   administrators stored in clear matches nothing. *)
GetAuthenticatedUser(r) ==
  /\ op[r] = "login"
  /\ \/ /\ \E u \in users : u.isVerified /\ u.password \notin Plain
        /\ Move(r, "idle", "store")
     \/ Move(r, "idle", "refused")
  /\ read' = [read EXCEPT ![r] = users]
  /\ UNCHANGED <<users, stored, mails, op, token, faults>>

(* The tokens of a login carry the id of its account; the cache has the last
   refresh token of each. *)
StoreRefreshToken(r) ==
  /\ Move(r, "store", "done")
  /\ stored' = stored \cup {u.id : u \in read[r]}
  /\ UNCHANGED <<users, mails, op, read, token, faults>>

\* The accounts that logins, once through, have given tokens for.
LoggedIn ==
  UNION {{u.id : u \in read[q]} : q \in {p \in Requests : op[p] \in {"login", "google"}
                                                        /\ at[p] = "done"}}

\* Variant: the account is the one of the address.
OfAddress(id) == users

OfId(id) == {u \in users : u.id = id}

(* A refresh or a request of a user brings a token of a login, and its account
   is looked for; a refresh looks for the token in the cache then.  Only the
   guard of a refresh minds that a token has expired. *)
FindSession(r) ==
  /\ op[r] \in {"refresh", "me"}
  /\ \E id \in LoggedIn :
       /\ read' = [read EXCEPT ![r] = OfId(id)]
       /\ \/ /\ OfId(id) # {}
             /\ Move(r, "idle", IF op[r] = "me" THEN "reload" ELSE "compare")
          \/ /\ OfId(id) = {} \/ op[r] = "refresh"
             /\ Move(r, "idle", "refused")
  /\ UNCHANGED <<users, stored, mails, op, token, faults>>

(* bcrypt compares the beginning of a token, which tells accounts apart but
   not the logins of one. *)
CompareToken(r) ==
  /\ Move(r, "compare", IF \E u \in read[r] : u.id \in stored
                          THEN "done" ELSE "refused")
  /\ UNCHANGED <<users, stored, mails, op, read, token, faults>>

(* getMe reads the account again, by its address. *)
GetMe(r) ==
  /\ Move(r, "reload", "done")
  /\ read' = [read EXCEPT ![r] = users]
  /\ UNCHANGED <<users, stored, mails, op, token, faults>>

(* Entries of the cache expire. *)
ExpireToken ==
  /\ \E id \in stored : stored' = stored \ {id}
  /\ UNCHANGED <<users, mails, op, at, read, token, faults>>

-----------------------------------------------------------------------------
(* PATCH and DELETE user/:id, with the id that the account has *)

PatchPassword(r) ==
  /\ op[r] = "patch"
  /\ Move(r, "idle", "done")
  /\ \E p \in Plain : users' = {[u EXCEPT !.password = p] : u \in users}
  /\ UNCHANGED <<stored, mails, op, read, token, faults>>

Remove(r) ==
  /\ op[r] = "remove"
  /\ Move(r, "idle", "done")
  /\ users' = {}
  /\ UNCHANGED <<stored, mails, op, read, token, faults>>

(* The process, or a call of the request, fails between two steps. *)
RequestFails(r) ==
  /\ faults < MaxFaults
  /\ faults' = faults + 1
  /\ at[r] \in Running
  /\ at' = [at EXCEPT ![r] = "failed"]
  /\ UNCHANGED <<users, stored, mails, op, read, token>>

Next ==
  \/ ExpireToken
  \/ \E r \in Requests :
       \/ FindByEmail(r) \/ CreateUser(r) \/ AdminCreate(r)
       \/ FindUser(r) \/ SendMail(r)
       \/ CheckToken(r) \/ UpdateUser(r)
       \/ GetAuthenticatedUser(r) \/ StoreRefreshToken(r)
       \/ FindSession(r) \/ CompareToken(r) \/ GetMe(r)
       \/ PatchPassword(r) \/ Remove(r)
       \/ RequestFails(r)

Spec == Init /\ [][Next]_vars

-----------------------------------------------------------------------------
(* Properties *)

\* Every variable stays in its domain, and an address has one account at most,
\* whatever registrations and logins overlap.
TypeOK ==
  /\ users \subseteq Rows
  /\ \A u, v \in users : u = v
  /\ stored \subseteq Requests
  /\ mails \subseteq Tokens
  /\ op \in [Requests -> Operations]
  /\ at \in [Requests -> Standing]
  /\ read \in [Requests -> SUBSET Rows]
  /\ token \in [Requests -> SUBSET Tokens]
  /\ faults \in 0 .. MaxFaults

\* An account that registered is verified by a mail that was sent for this very
\* account: verifications under way, when the account is removed and the
\* address registered again, do not verify the new one.  Only a password in
\* clear, given to both by PATCH, makes them exchangeable.
OwnMailVerifies ==
  \A u \in users :
    u.isVerified /\ op[u.id] = "register"
      => \E t \in mails : /\ t.purpose = "verify"
                          /\ t.id = u.id \/ t.password \in Plain

\* Guards let in to accounts that somebody has logged in to: the tokens of an
\* account that was removed open no account of the same address that comes
\* after it, not even when the removal falls into a refresh.  What getMe shows
\* behind its guard is the account of the address.
SessionsStayApart ==
  \A r \in Requests :
    \/ op[r] = "refresh" /\ at[r] \in {"compare", "done"}
    \/ op[r] = "me" /\ at[r] = "reload"
    => {u.id : u \in read[r]} \subseteq LoggedIn

\* Resets that read the account before it was verified do not undo it: a row
\* once verified stays verified.
VerificationSticks ==
  [][\A u \in users, v \in users' :
       u.id = v.id /\ u.isVerified => v.isVerified]_vars

\* The tokens that have done their reset.  A password in clear may be set
\* again, and with it a token for it would come back to life.
Used ==
  {t \in UNION {token[r] : r \in {q \in Requests : op[q] = "reset"
                                                   /\ at[q] = "done"}} :
     t.password \notin Plain}

\* Once a reset is through, no later request is accepted with its token,
\* though requests that were accepted before it may still finish.
UsedTokensRefused ==
  [][\A r \in Requests :
       at[r] = "idle" /\ at'[r] = "update" => token'[r] \cap Used = {}]_vars
=============================================================================
