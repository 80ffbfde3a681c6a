--------------------------- MODULE Billing_proofs ---------------------------
(***************************************************************************)
(* Proofs about SignIn and Billing, for any number of people, requests and *)
(* accounts: types, that nobody is signed in to another person's account,  *)
(* why a sign-in is refused, that the webhook knows whoever pays, and that *)
(* the status column follows Stripe.                                       *)
(***************************************************************************)
EXTENDS Billing, TLAPS, FiniteSetTheorems, SequenceTheorems

(* The identities of a row are p's.                                        *)
Of(row, p) == /\ row.phone \in {p, Null}
              /\ row.email[1] \in {p, Null}
              /\ row.apple \in {p, Null}

(* Ids are given in order: an id not given yet has no account.             *)
IdsInv == \A i \in AccountIds : made < i => users[i] = Nobody

RowsInv == \A i \in AccountIds : Exists(i) => \E p \in People : Of(users[i], p)

(* An id that is out is never given to another account.                    *)
TokensInv == \A t \in tokens : t[2] <= made /\ Of(users[t[2]], t[1])

LoginInv ==
  \A s \in Slots : login[s].at # "idle" =>
    /\ login[s].person \in People
    /\ login[s].row # Nobody /\ Of(login[s].row, login[s].person)
    /\ login[s].at = "update" =>
         /\ login[s].id \in 1..made
         /\ Of(users[login[s].id], login[s].person)

IdentityInv == SignInTypeOK /\ IdsInv /\ RowsInv /\ TokensInv /\ LoginInv

-----------------------------------------------------------------------------
(* The empty row is a row, without an address.                             *)
LEMMA NobodyType == Nobody \in User /\ NoEmail[1] = Null
  BY DEF Nobody, NoEmail, User

(* The empty row holds nobody's identity, so it may become p's.            *)
LEMMA NobodyIsAnyones == ASSUME NEW p PROVE Of(Nobody, p)
  BY DEF Of, Nobody, NoEmail

(* The slot of no request.                                                 *)
LEMMA IdleType == Idle \in Login /\ Idle.at = "idle"
  BY NobodyType, SignInAssumption DEF Idle, Login

(* A row that is not Nobody and is p's has exactly the holder p.           *)
LEMMA HolderIsOwner ==
  ASSUME NEW row \in User, NEW p \in People, row # Nobody, Of(row, p)
  PROVE  Holders(row) = {p}
<1>1. p # Null
  BY SignInAssumption
<1>2. row.phone # Null \/ row.email # NoEmail \/ row.apple # Null
  BY DEF User, Nobody
<1>3. row.email # NoEmail => row.email[1] # Null
  BY SignInAssumption DEF User, Emails, NoEmail
<1> QED
  BY <1>1, <1>2, <1>3 DEF Of, Holders

(* What a look-up finds is the account of the person who asked.            *)
LEMMA FoundIsMine ==
  ASSUME IdentityInv, NEW p \in People, NEW i \in Accounts,
         \/ users[i].phone = p \/ users[i].apple = p
         \/ users[i].email = <<p, "own">> \/ users[i].email = <<p, "relay">>
  PROVE  Of(users[i], p) /\ i \in 1..made /\ i \in AccountIds
<1>1. i \in AccountIds /\ users[i] # Nobody
  BY DEF Accounts, Exists
<1>2. PICK o \in People : Of(users[i], o)
  BY <1>1 DEF IdentityInv, RowsInv, Exists
<1>3. o = p
  BY <1>2, SignInAssumption DEF Of
<1>4. ~ (made < i)
  BY <1>1 DEF IdentityInv, IdsInv
<1>5. i <= made /\ i >= 1
  BY <1>1, <1>4, SignInAssumption
     DEF AccountIds, IdentityInv, SignInTypeOK
<1> QED
  BY <1>1, <1>2, <1>3, <1>5, SignInAssumption
     DEF AccountIds, IdentityInv, SignInTypeOK

(* Nothing but the raced mark of a request changes in Raced.               *)
LEMMA RacedKeeps ==
  ASSUME login \in [Slots -> Login], NEW p
  PROVE  /\ Raced(login, p) \in [Slots -> Login]
         /\ \A s \in Slots : /\ Raced(login, p)[s].at = login[s].at
                             /\ Raced(login, p)[s].person = login[s].person
                             /\ Raced(login, p)[s].row = login[s].row
                             /\ Raced(login, p)[s].id = login[s].id
  BY DEF Raced, Login

-----------------------------------------------------------------------------
(* The inductive invariant holds before the first sign-in.                *)
THEOREM InitIdentity == SignInInit => IdentityInv
<1> SUFFICES ASSUME SignInInit PROVE IdentityInv
  OBVIOUS
<1> USE DEF SignInInit
<1>1. SignInTypeOK
  BY NobodyType, IdleType, SignInAssumption DEF SignInTypeOK
<1>2. IdsInv /\ RowsInv /\ TokensInv
  BY DEF IdsInv, RowsInv, TokensInv, Exists
<1>3. LoginInv
  BY IdleType DEF LoginInv
<1> QED
  BY <1>1, <1>2, <1>3 DEF IdentityInv

(* A request that starts for p, with an identity of p, and what it found.  *)
LEMMA StartKeeps ==
  ASSUME IdentityInv, NEW s \in Slots, NEW p \in People,
         NEW row \in User, row # Nobody, Of(row, p),
         NEW at \in {"apple_id", "insert", "update"},
         NEW id \in 0..MaxAccounts,
         at = "update" => id \in 1..made /\ Of(users[id], p),
         Start(s, at, p, row, id), UNCHANGED <<users, made>>
  PROVE  /\ login' \in [Slots -> Login]
         /\ LoginInv'
<1> DEFINE new == [at |-> at, person |-> p, row |-> row, id |-> id,
                   raced |-> FALSE, split |-> FALSE]
<1>1. login' = [login EXCEPT ![s] = new]
  BY DEF Start
<1>2. login' \in [Slots -> Login]
  BY <1>1 DEF IdentityInv, SignInTypeOK, Login
<1>3. LoginInv'
  BY <1>1 DEF LoginInv, IdentityInv, SignInTypeOK
<1> QED
  BY <1>2, <1>3

(* verify_otp issues a token for an account found by p's phone only.       *)
LEMMA PhoneStep ==
  ASSUME IdentityInv, NEW s \in Slots, NEW p \in People, PhoneSignIn(s, p)
  PROVE  IdentityInv'
<1> DEFINE row == [Nobody EXCEPT !.phone = p]
<1>1. row \in User /\ row # Nobody /\ Of(row, p)
  BY SignInAssumption DEF Nobody, User, NoEmail, Of
<1>2. CASE /\ \E i \in ByPhone(p) : tokens' = tokens \union {<<p, i>>}
           /\ UNCHANGED login
  <2>1. PICK i \in ByPhone(p) : tokens' = tokens \union {<<p, i>>}
    BY <1>2
  <2>2. Of(users[i], p) /\ i \in 1..made /\ i \in AccountIds
    BY FoundIsMine DEF ByPhone
  <2>3. UNCHANGED <<users, made, login>>
    BY <1>2 DEF PhoneSignIn
  <2>4. SignInTypeOK' /\ IdsInv' /\ RowsInv' /\ LoginInv'
    BY <2>1, <2>2, <2>3
       DEF IdentityInv, SignInTypeOK, IdsInv, RowsInv, LoginInv, Exists
  <2>5. TokensInv'
    BY <2>1, <2>2, <2>3 DEF IdentityInv, TokensInv
  <2> QED
    BY <2>4, <2>5 DEF IdentityInv
<1>3. CASE Start(s, "insert", p, row, 0) /\ UNCHANGED tokens
  <2>1. UNCHANGED <<users, made, tokens>>
    BY <1>3 DEF PhoneSignIn
  <2>2. 0 \in 0..MaxAccounts
    BY SignInAssumption
  <2>3. login' \in [Slots -> Login] /\ LoginInv'
    BY <1>1, <1>3, <2>1, <2>2, StartKeeps
  <2> QED
    BY <2>1, <2>3
       DEF IdentityInv, SignInTypeOK, IdsInv, RowsInv, TokensInv, Exists
<1> QED
  BY <1>2, <1>3 DEF PhoneSignIn

(* The look-ups by address and by Apple id only move the request.          *)
LEMMA LookupStep ==
  ASSUME IdentityInv, login' \in [Slots -> Login], LoginInv',
         UNCHANGED <<users, made, tokens>>
  PROVE  IdentityInv'
  BY DEF IdentityInv, SignInTypeOK, IdsInv, RowsInv, TokensInv, Exists

(* Ids of accounts.                                                        *)
LEMMA AccountIdBounds ==
  ASSUME NEW i \in AccountIds PROVE i \in 0..MaxAccounts
  BY SignInAssumption DEF AccountIds

(* The Google look-up.                                                     *)
LEMMA GoogleStep ==
  ASSUME IdentityInv, NEW s \in Slots, NEW p \in People, GoogleSignIn(s, p)
  PROVE  IdentityInv'
<1> DEFINE row == [Nobody EXCEPT !.email = <<p, "own">>]
<1>1. row \in User /\ row # Nobody /\ Of(row, p)
  BY SignInAssumption DEF Nobody, User, NoEmail, Of, Emails
<1>2. UNCHANGED <<users, made, tokens>>
  BY DEF GoogleSignIn
<1>3. CASE \E i \in ByEmail(<<p, "own">>) : Start(s, "update", p, row, i)
  <2>1. PICK i \in ByEmail(<<p, "own">>) : Start(s, "update", p, row, i)
    BY <1>3
  <2>2. Of(users[i], p) /\ i \in 1..made /\ i \in AccountIds
    BY FoundIsMine DEF ByEmail
  <2>3. login' \in [Slots -> Login] /\ LoginInv'
    BY <1>1, <1>2, <2>1, <2>2, AccountIdBounds, StartKeeps
  <2> QED
    BY <1>2, <2>3, LookupStep
<1>4. CASE Start(s, "insert", p, row, 0)
  <2>1. 0 \in 0..MaxAccounts
    BY SignInAssumption
  <2>2. login' \in [Slots -> Login] /\ LoginInv'
    BY <1>1, <1>2, <1>4, <2>1, StartKeeps
  <2> QED
    BY <1>2, <2>2, LookupStep
<1> QED
  BY <1>3, <1>4 DEF GoogleSignIn

(* Apple's look-up by address, which is skipped without one.               *)
LEMMA AppleEmailStep ==
  ASSUME IdentityInv, NEW s \in Slots, NEW p \in People,
         NEW e \in AppleEmails(p), AppleByEmail(s, p, e)
  PROVE  IdentityInv'
<1> DEFINE row == [phone |-> Null, email |-> e, apple |-> p]
<1>0. e = NoEmail \/ e = <<p, "own">> \/ e = <<p, "relay">>
  BY DEF AppleEmails
<1>1. row \in User /\ row # Nobody /\ Of(row, p)
  <2>1. e \in Emails \union {<<Null, "own">>} /\ e[1] \in {p, Null}
    BY <1>0 DEF Emails, NoEmail
  <2> QED
    BY <2>1, SignInAssumption DEF User, Of, Nobody
<1>2. UNCHANGED <<users, made, tokens>>
  BY DEF AppleByEmail
<1>3. CASE /\ e # NoEmail
           /\ \E i \in ByEmail(e) : Start(s, "update", p, row, i)
  <2>1. PICK i \in ByEmail(e) : Start(s, "update", p, row, i)
    BY <1>3
  <2>2. e = <<p, "own">> \/ e = <<p, "relay">>
    BY <1>3 DEF AppleEmails
  <2>3. Of(users[i], p) /\ i \in 1..made /\ i \in AccountIds
    BY <2>2, FoundIsMine DEF ByEmail
  <2>4. login' \in [Slots -> Login] /\ LoginInv'
    BY <1>1, <1>2, <2>1, <2>3, AccountIdBounds, StartKeeps
  <2> QED
    BY <1>2, <2>4, LookupStep
<1>4. CASE Start(s, "apple_id", p, row, 0)
  <2>1. 0 \in 0..MaxAccounts
    BY SignInAssumption
  <2>2. login' \in [Slots -> Login] /\ LoginInv'
    BY <1>1, <1>2, <1>4, <2>1, StartKeeps
  <2> QED
    BY <1>2, <2>2, LookupStep
<1> QED
  BY <1>3, <1>4 DEF AppleByEmail

(* Apple's look-up by id.                                                  *)
LEMMA AppleIdStep ==
  ASSUME IdentityInv, NEW s \in Slots, AppleById(s)
  PROVE  IdentityInv'
<1> DEFINE p == login[s].person
<1>1. UNCHANGED <<users, made, tokens>> /\ login[s].at = "apple_id"
  BY DEF AppleById
<1>2. p \in People
  BY <1>1 DEF IdentityInv, LoginInv
<1>3. CASE \E i \in ByApple(p) :
             login' = [login EXCEPT ![s].at = "update", ![s].id = i]
  <2>1. PICK i \in ByApple(p) :
          login' = [login EXCEPT ![s].at = "update", ![s].id = i]
    BY <1>3
  <2>2. Of(users[i], p) /\ i \in 1..made /\ i \in AccountIds
    BY <1>2, FoundIsMine DEF ByApple
  <2>3. login' \in [Slots -> Login]
    <3>1. login \in [Slots -> Login] /\ i \in 0..MaxAccounts
      BY <2>2, AccountIdBounds DEF IdentityInv, SignInTypeOK
    <3>2. [login[s] EXCEPT !.at = "update", !.id = i] \in Login
      BY <3>1 DEF Login
    <3> QED
      BY <2>1, <3>1, <3>2
  <2>4. LoginInv'
    BY <1>1, <2>1, <2>2 DEF IdentityInv, SignInTypeOK, LoginInv, Login
  <2> QED
    BY <1>1, <2>3, <2>4, LookupStep
<1>4. CASE login' = [login EXCEPT ![s].at = "insert"]
  <2>1. login' \in [Slots -> Login] /\ LoginInv'
    BY <1>1, <1>4 DEF IdentityInv, SignInTypeOK, LoginInv, Login
  <2> QED
    BY <1>1, <2>1, LookupStep
<1> QED
  BY <1>3, <1>4 DEF AppleById

(* The row of an update after its commit is still p's, and an account's.   *)
LEMMA LinkedType ==
  ASSUME IdentityInv, NEW s \in Slots, login[s].at = "update",
         Exists(login[s].id)
  PROVE  LET q == login[s] IN
         /\ Linked(q) \in User /\ Of(Linked(q), q.person)
         /\ q.id \in AccountIds /\ q.id <= made /\ q.person \in People
<1> DEFINE q == login[s]
<1>1. /\ q.person \in People /\ q.id \in 1..made
      /\ Of(users[q.id], q.person) /\ Of(q.row, q.person)
  BY DEF IdentityInv, LoginInv
<1>2. /\ q.id \in AccountIds /\ q.id <= made
      /\ users[q.id] \in User /\ q.row \in User
  BY <1>1, SignInAssumption DEF IdentityInv, SignInTypeOK, AccountIds, Login
<1>3. \/ Linked(q) = users[q.id]
      \/ /\ Linked(q) = [users[q.id] EXCEPT !.apple = q.row.apple]
  BY DEF Linked
<1>4. Linked(q) \in User /\ Of(Linked(q), q.person)
  BY <1>1, <1>2, <1>3 DEF User, Of
<1> QED
  BY <1>1, <1>2, <1>4

(* A request that goes idle, while others may be marked as raced.          *)
LEMMA IdleAgain ==
  ASSUME login \in [Slots -> Login], NEW s \in Slots, NEW p,
         \/ login' = [Raced(login, p) EXCEPT ![s] = Idle]
         \/ login' = [login EXCEPT ![s] = Idle]
         \/ login' = Raced(login, p)
  PROVE  /\ login' \in [Slots -> Login]
         /\ \A o \in Slots : \/ login'[o].at = "idle"
                             \/ /\ login'[o].at = login[o].at
                                /\ login'[o].person = login[o].person
                                /\ login'[o].row = login[o].row
                                /\ login'[o].id = login[o].id
<1>1. /\ Raced(login, p) \in [Slots -> Login]
      /\ \A o \in Slots : /\ Raced(login, p)[o].at = login[o].at
                          /\ Raced(login, p)[o].person = login[o].person
                          /\ Raced(login, p)[o].row = login[o].row
                          /\ Raced(login, p)[o].id = login[o].id
  BY RacedKeeps
<1> QED
  BY <1>1, IdleType

(* A new version of one account's row keeps the invariant.                 *)
LEMMA RowStep ==
  ASSUME IdentityInv, NEW i \in AccountIds, NEW p \in People, NEW row \in User,
         Of(row, p), users' = [users EXCEPT ![i] = row],
         made' \in 0..MaxAccounts, made <= made', i <= made',
         \/ tokens' = tokens
         \/ tokens' = tokens \union {<<p, i>>},
         made < i \/ Of(users[i], p),
         \A o \in People : i <= made /\ Of(users[i], o) => Of(row, o),
         login' \in [Slots -> Login],
         \A o \in Slots : \/ login'[o].at = "idle"
                          \/ /\ login'[o].at = login[o].at
                             /\ login'[o].person = login[o].person
                             /\ login'[o].row = login[o].row
                             /\ login'[o].id = login[o].id
  PROVE  IdentityInv'
<1> USE SignInAssumption DEF AccountIds
<1>1. SignInTypeOK'
  BY DEF IdentityInv, SignInTypeOK
<1>2. IdsInv'
  BY DEF IdentityInv, SignInTypeOK, IdsInv
<1>3. RowsInv'
  BY DEF IdentityInv, SignInTypeOK, RowsInv, Exists
<1>4. TokensInv'
  <2> SUFFICES ASSUME NEW t \in tokens'
               PROVE  t[2] <= made' /\ Of(users'[t[2]], t[1])
    BY DEF TokensInv
  <2>1. CASE t \in tokens
    <3>1. t[1] \in People /\ t[2] \in AccountIds
      BY <2>1 DEF IdentityInv, SignInTypeOK
    <3>2. t[2] <= made /\ Of(users[t[2]], t[1])
      BY <2>1 DEF IdentityInv, TokensInv
    <3>3. made \in 0..MaxAccounts
      BY DEF IdentityInv, SignInTypeOK
    <3> QED
      BY <3>1, <3>2, <3>3 DEF IdentityInv, SignInTypeOK
  <2>2. CASE t = <<p, i>>
    BY <2>2 DEF IdentityInv, SignInTypeOK
  <2> QED
    BY <2>1, <2>2
<1>5. LoginInv'
  <2> SUFFICES ASSUME NEW o \in Slots, login'[o].at # "idle"
               PROVE  /\ login'[o].person \in People
                      /\ login'[o].row # Nobody
                      /\ Of(login'[o].row, login'[o].person)
                      /\ login'[o].at = "update" =>
                           /\ login'[o].id \in 1..made'
                           /\ Of(users'[login'[o].id], login'[o].person)
    BY DEF LoginInv
  <2>1. /\ login[o].at # "idle" /\ login'[o].at = login[o].at
        /\ login'[o].person = login[o].person
        /\ login'[o].row = login[o].row /\ login'[o].id = login[o].id
    OBVIOUS
  <2>2. /\ login[o].person \in People /\ login[o].row # Nobody
        /\ Of(login[o].row, login[o].person)
    BY <2>1 DEF IdentityInv, LoginInv
  <2>3. ASSUME login[o].at = "update"
        PROVE  /\ login[o].id \in 1..made'
               /\ Of(users'[login[o].id], login[o].person)
    <3>1. login[o].id \in 1..made /\ Of(users[login[o].id], login[o].person)
      BY <2>1, <2>3 DEF IdentityInv, LoginInv
    <3>2. made \in 0..MaxAccounts
      BY DEF IdentityInv, SignInTypeOK
    <3> QED
      BY <2>2, <3>1, <3>2 DEF IdentityInv, SignInTypeOK
  <2> QED
    BY <2>1, <2>2, <2>3
<1> QED
  BY <1>1, <1>2, <1>3, <1>4, <1>5 DEF IdentityInv

(* The insert of a row whose identities are the requester's.               *)
LEMMA CommitInsertStep ==
  ASSUME IdentityInv, NEW s \in Slots, CommitInsert(s)
  PROVE  IdentityInv'
<1> DEFINE q == login[s]
<1> USE SignInAssumption
<1>1. /\ q.at = "insert" /\ made < MaxAccounts /\ made' = made + 1
      /\ users' = [users EXCEPT ![made + 1] = q.row]
      /\ tokens' = tokens \union {<<q.person, made + 1>>}
      /\ login' = [Raced(login, q.person) EXCEPT ![s] = Idle]
  BY DEF CommitInsert
<1>2. /\ made \in 0..MaxAccounts /\ login \in [Slots -> Login]
  BY DEF IdentityInv, SignInTypeOK
<1>3. /\ made + 1 \in AccountIds /\ made' \in 0..MaxAccounts
      /\ made <= made' /\ made + 1 <= made' /\ made < made + 1
      /\ ~ (made + 1 <= made)
  BY <1>1, <1>2 DEF AccountIds
<1>4. q.row \in User /\ q.person \in People /\ Of(q.row, q.person)
  BY <1>1, <1>2 DEF IdentityInv, LoginInv, Login
<1>5. /\ login' \in [Slots -> Login]
      /\ \A o \in Slots : \/ login'[o].at = "idle"
                          \/ /\ login'[o].at = login[o].at
                             /\ login'[o].person = login[o].person
                             /\ login'[o].row = login[o].row
                             /\ login'[o].id = login[o].id
  BY <1>1, <1>2, IdleAgain
<1> HIDE DEF q
<1> QED
  BY <1>1, <1>3, <1>4, <1>5, RowStep

(* The update that may add an Apple id to the account found.               *)
LEMMA CommitUpdateStep ==
  ASSUME IdentityInv, NEW s \in Slots, CommitUpdate(s)
  PROVE  IdentityInv'
<1> DEFINE q == login[s]
           i == q.id
           p == q.person
           row == Linked(q)
<1>1. /\ q.at = "update" /\ Exists(i) /\ made' = made
      /\ users' = [users EXCEPT ![i] = row]
      /\ tokens' = tokens \union {<<p, i>>}
  BY DEF CommitUpdate
<1>2. \/ login' = [Raced(login, p) EXCEPT ![s] = Idle]
      \/ login' = [login EXCEPT ![s] = Idle]
  BY DEF CommitUpdate
<1>3. /\ made \in 0..MaxAccounts /\ login \in [Slots -> Login]
  BY DEF IdentityInv, SignInTypeOK
<1>4. /\ row \in User /\ Of(row, p)
      /\ i \in AccountIds /\ i <= made /\ p \in People
  BY <1>1, LinkedType
<1>5. Of(users[i], p)
  BY <1>1 DEF IdentityInv, LoginInv
<1>6. \A o \in People : i <= made /\ Of(users[i], o) => Of(row, o)
  <2>1. users[i] # Nobody /\ users[i] \in User
    BY <1>1, <1>4 DEF Exists, IdentityInv, SignInTypeOK
  <2>2. Holders(users[i]) = {p}
    BY <1>4, <1>5, <2>1, HolderIsOwner
  <2>3. ASSUME NEW o \in People, Of(users[i], o) PROVE o = p
    <3>1. Holders(users[i]) = {o}
      BY <2>1, <2>3, HolderIsOwner
    <3> QED
      BY <2>2, <3>1
  <2> QED
    BY <1>4, <2>3
<1>7. /\ login' \in [Slots -> Login]
      /\ \A o \in Slots : \/ login'[o].at = "idle"
                          \/ /\ login'[o].at = login[o].at
                             /\ login'[o].person = login[o].person
                             /\ login'[o].row = login[o].row
                             /\ login'[o].id = login[o].id
  BY <1>2, <1>3, IdleAgain
<1>8. made' \in 0..MaxAccounts /\ made <= made' /\ i <= made'
  BY <1>1, <1>3, <1>4
<1> HIDE DEF row, i, p, q
<1> QED
  BY <1>1, <1>4, <1>5, <1>6, <1>7, <1>8, RowStep

(* A refused commit changes the request alone.                             *)
LEMMA RefusedStep ==
  ASSUME IdentityInv, NEW s \in Slots, login[s].at # "idle", Refused(s)
  PROVE  IdentityInv'
<1>1. UNCHANGED <<users, made, tokens>>
  BY DEF Refused
<1> DEFINE known == {i \in Accounts :
                  \/ /\ login[s].row.email # NoEmail
                     /\ users[i].email = login[s].row.email
                  \/ /\ login[s].row.apple # Null
                     /\ users[i].apple = login[s].row.apple}
           b == Cardinality(known) > 1
<1>2. login' = [login EXCEPT ![s].at = "refused", ![s].split = b]
  BY DEF Refused
<1>3. b \in BOOLEAN
  OBVIOUS
<1> HIDE DEF b
<1>4. /\ login' \in [Slots -> Login]
      /\ \A o \in Slots \ {s} : login'[o] = login[o]
      /\ login'[s].at = "refused" /\ login'[s].person = login[s].person
      /\ login'[s].row = login[s].row
  BY <1>2, <1>3, ZenonT(30) DEF IdentityInv, SignInTypeOK, Login
<1>5. LoginInv'
  BY <1>1, <1>4 DEF IdentityInv, LoginInv
<1> QED
  BY <1>1, <1>4, <1>5, LookupStep

(* A lost request leaves its slot.                                         *)
LEMMA LostStep ==
  ASSUME IdentityInv, NEW s \in Slots, Lost(s)
  PROVE  IdentityInv'
<1>1. UNCHANGED <<users, made, tokens>> /\ login' = [login EXCEPT ![s] = Idle]
  BY DEF Lost
<1>2. login' \in [Slots -> Login] /\ LoginInv'
  BY <1>1, IdleType DEF IdentityInv, SignInTypeOK, LoginInv
<1> QED
  BY <1>1, <1>2, LookupStep

(* The deletion empties a row.                                             *)
LEMMA DeleteStep ==
  ASSUME IdentityInv, NEW p \in People, NEW i \in AccountIds,
         DeleteAccount(p, i)
  PROVE  IdentityInv'
<1>1. /\ <<p, i>> \in tokens /\ users' = [users EXCEPT ![i] = Nobody]
      /\ login' = Raced(login, p) /\ made' = made /\ tokens' = tokens
  BY DEF DeleteAccount, Authenticated
<1>2. /\ made \in 0..MaxAccounts /\ login \in [Slots -> Login]
  BY DEF IdentityInv, SignInTypeOK
<1>3. i <= made /\ Of(users[i], p)
  BY <1>1 DEF IdentityInv, TokensInv
<1>4. /\ login' \in [Slots -> Login]
      /\ \A o \in Slots : \/ login'[o].at = "idle"
                          \/ /\ login'[o].at = login[o].at
                             /\ login'[o].person = login[o].person
                             /\ login'[o].row = login[o].row
                             /\ login'[o].id = login[o].id
  BY <1>1, <1>2, RacedKeeps
<1>5. Nobody \in User /\ \A o \in People : Of(Nobody, o)
  BY NobodyType, NobodyIsAnyones
<1>6. made <= made'
  BY <1>1, <1>2, SignInAssumption
<1> QED
  BY <1>1, <1>2, <1>3, <1>4, <1>5, <1>6, RowStep

-----------------------------------------------------------------------------
(* Every step of sign-in keeps the invariant: one case per action.         *)
LEMMA NextIdentity == IdentityInv /\ [SignInNext]_signInVars => IdentityInv'
<1> SUFFICES ASSUME IdentityInv, [SignInNext]_signInVars PROVE IdentityInv'
  OBVIOUS
<1>1. ASSUME NEW s \in Slots, NEW p \in People, PhoneSignIn(s, p)
      PROVE  IdentityInv'
  BY <1>1, PhoneStep
<1>2. ASSUME NEW s \in Slots, NEW p \in People, GoogleSignIn(s, p)
      PROVE  IdentityInv'
  BY <1>2, GoogleStep
<1>3. ASSUME NEW s \in Slots, NEW p \in People, NEW e \in AppleEmails(p),
             AppleByEmail(s, p, e)
      PROVE  IdentityInv'
  BY <1>3, AppleEmailStep
<1>4. ASSUME NEW s \in Slots, AppleById(s) PROVE IdentityInv'
  BY <1>4, AppleIdStep
<1>5. ASSUME NEW s \in Slots, CommitInsert(s) PROVE IdentityInv'
  BY <1>5, CommitInsertStep
<1>6. ASSUME NEW s \in Slots, CommitUpdate(s) PROVE IdentityInv'
  BY <1>6, CommitUpdateStep
<1>7. ASSUME NEW s \in Slots, InsertRefused(s) PROVE IdentityInv'
  BY <1>7, RefusedStep DEF InsertRefused
<1>8. ASSUME NEW s \in Slots, UpdateRefused(s) PROVE IdentityInv'
  BY <1>8, RefusedStep DEF UpdateRefused
<1>9. ASSUME NEW s \in Slots, Lost(s) PROVE IdentityInv'
  BY <1>9, LostStep
<1>10. ASSUME NEW p \in People, NEW i \in AccountIds, DeleteAccount(p, i)
       PROVE  IdentityInv'
  BY <1>10, DeleteStep
<1>11. CASE UNCHANGED signInVars
  BY <1>11 DEF signInVars, IdentityInv, SignInTypeOK, IdsInv, RowsInv,
               TokensInv, LoginInv, Exists
<1> QED
  BY <1>1, <1>2, <1>3, <1>4, <1>5, <1>6, <1>7, <1>8, <1>9, <1>10, <1>11
     DEF SignInNext

(* The invariant implies the property the run checks.                      *)
LEMMA IdentityMeansOwnAccount == IdentityInv => NobodyEntersAnothersAccount
<1> SUFFICES ASSUME IdentityInv PROVE NobodyEntersAnothersAccount
  OBVIOUS
<1>1. ASSUME NEW i \in Accounts
      PROVE  \E p \in People : Holders(users[i]) = {p}
  <2>1. i \in AccountIds /\ users[i] # Nobody /\ users[i] \in User
    BY DEF Accounts, Exists, IdentityInv, SignInTypeOK
  <2>2. PICK p \in People : Of(users[i], p)
    BY <2>1 DEF IdentityInv, RowsInv, Exists
  <2> QED
    BY <2>1, <2>2, HolderIsOwner
<1>2. ASSUME NEW t \in tokens, Exists(t[2])
      PROVE  Holders(users[t[2]]) = {t[1]}
  <2>1. t[1] \in People /\ t[2] \in AccountIds /\ Of(users[t[2]], t[1])
    BY DEF IdentityInv, SignInTypeOK, TokensInv
  <2>2. users[t[2]] \in User /\ users[t[2]] # Nobody
    BY <1>2, <2>1 DEF IdentityInv, SignInTypeOK, Exists
  <2> QED
    BY <2>1, <2>2, HolderIsOwner
<1> QED
  BY <1>1, <1>2 DEF NobodyEntersAnothersAccount

(* Sign-in keeps its types, and signs people in to their own accounts.     *)
THEOREM SignInSafe ==
  SignInSpec => [](SignInTypeOK /\ NobodyEntersAnothersAccount)
<1>1. IdentityInv => SignInTypeOK
  BY DEF IdentityInv
<1> QED
  BY <1>1, InitIdentity, NextIdentity, IdentityMeansOwnAccount, PTL
     DEF SignInSpec

(* Each step of the composition is one of sign-in's or leaves what belongs *)
(* to sign-in alone.                                                       *)
LEMMA BillingIsSignIn == BillingSpec => SignInSpec
<1>1. BillingInit => SignInInit
  BY DEF BillingInit
<1>2. [BillingNext]_<<signInVars, billingVars>> => [SignInNext]_signInVars
  BY DEF BillingNext
<1> QED
  BY <1>1, <1>2, PTL DEF BillingSpec, SignInSpec

(* So the composition with the payments keeps the same promises.           *)
THEOREM BillingKeepsIdentities ==
  BillingSpec => [](SignInTypeOK /\ NobodyEntersAnothersAccount)
  BY BillingIsSignIn, SignInSafe, PTL

-----------------------------------------------------------------------------
(* Why a sign-in is refused.                                               *)

(* The unique columns of the table.                                        *)
UniqueInv == \A i \in Accounts : Unique(users[i], i)

(* What a request has found, or not found, is still so unless the person's *)
(* accounts have changed meanwhile.                                        *)
Fresh(q) ==
  /\ q.at = "apple_id" =>
       /\ q.row.phone = Null
       /\ q.row.email # NoEmail => ByEmail(q.row.email) = {}
  /\ q.at = "insert" => Unique(q.row, 0)
  /\ q.at = "update" =>
       /\ Exists(q.id)
       /\ q.row.apple # Null =>
            \/ users[q.id].apple = q.row.apple
            \/ q.row.email # NoEmail /\ users[q.id].email = q.row.email
  /\ q.at = "refused" => q.split

FreshInv == \A s \in Slots : login[s].raced \/ Fresh(login[s])

RefusalInv == IdentityInv /\ UniqueInv /\ FreshInv

(* Nothing has been looked up before the first sign-in.                    *)
LEMMA InitRefusal == SignInInit => RefusalInv
<1> SUFFICES ASSUME SignInInit PROVE RefusalInv
  OBVIOUS
<1>1. UniqueInv
  BY DEF SignInInit, UniqueInv, Accounts, Exists
<1>2. FreshInv
  BY DEF SignInInit, FreshInv, Fresh, Idle
<1> QED
  BY <1>1, <1>2, InitIdentity DEF RefusalInv

(* A row whose unique columns are free keeps the table's.                  *)
LEMMA UniqueStep ==
  ASSUME IdentityInv, UniqueInv, NEW i \in AccountIds, NEW row \in User,
         users' = [users EXCEPT ![i] = row], row = Nobody \/ Unique(row, i)
  PROVE  UniqueInv'
<1>1. users \in [AccountIds -> User]
  BY DEF IdentityInv, SignInTypeOK
<1>2. ASSUME NEW j \in Accounts', NEW k \in Accounts', j # k
      PROVE  /\ users'[j].phone # Null => users'[k].phone # users'[j].phone
             /\ users'[j].email # NoEmail => users'[k].email # users'[j].email
             /\ users'[j].apple # Null => users'[k].apple # users'[j].apple
  <2>1. j \in AccountIds /\ k \in AccountIds
    BY DEF Accounts
  <2>2. /\ j # i => j \in Accounts /\ users'[j] = users[j]
        /\ k # i => k \in Accounts /\ users'[k] = users[k]
    BY <1>1, <1>2, <2>1 DEF Accounts, Exists
  <2>3. CASE j = i
    <3>1. users'[j] = row /\ row # Nobody
      BY <1>1, <2>3 DEF Accounts, Exists
    <3> QED
      BY <1>2, <2>2, <2>3, <3>1 DEF Unique
  <2>4. CASE k = i
    <3>1. users'[k] = row /\ row # Nobody
      BY <1>1, <2>4 DEF Accounts, Exists
    <3>2. j \in Accounts \ {i} /\ users'[j] = users[j]
      BY <1>2, <2>2, <2>4
    <3>3. /\ row.phone # Null => users[j].phone # row.phone
          /\ row.email # NoEmail => users[j].email # row.email
          /\ row.apple # Null => users[j].apple # row.apple
      BY <3>1, <3>2 DEF Unique
    <3> QED
      BY <3>1, <3>2, <3>3
  <2>5. CASE j # i /\ k # i
    BY <1>2, <2>2, <2>5 DEF UniqueInv, Unique
  <2> QED
    BY <2>3, <2>4, <2>5
<1> QED
  BY <1>2 DEF UniqueInv, Unique

(* Two people share no identity.                                           *)
LEMMA Strangers ==
  ASSUME NEW p \in People, NEW r \in People, p # r,
         NEW row \in User, Of(row, p), NEW mine \in User, Of(mine, r)
  PROVE  /\ mine.phone # Null => row.phone # mine.phone
         /\ mine.email # NoEmail => row.email # mine.email
         /\ mine.apple # Null => row.apple # mine.apple
<1>1. p # Null /\ r # Null
  BY SignInAssumption
<1>2. mine.email # NoEmail => mine.email[1] # Null
  BY SignInAssumption DEF User, Emails, NoEmail
<1> QED
  BY <1>1, <1>2 DEF Of

(* A step on p's account i leaves what another person's request knows.     *)
LEMMA FreshOfOthers ==
  ASSUME IdentityInv, NEW i \in AccountIds, NEW p \in People, NEW row \in User,
         Of(row, p), users' = [users EXCEPT ![i] = row],
         made < i \/ Of(users[i], p),
         NEW q \in Login, NEW r \in People, r # p, Of(q.row, r),
         q.at = "update" => q.id \in 1..made /\ Of(users[q.id], r),
         Fresh(q)
  PROVE  Fresh(q)'
<1>1. /\ users \in [AccountIds -> User] /\ made \in 0..MaxAccounts
      /\ q.row \in User
  BY DEF IdentityInv, SignInTypeOK, Login
<1>2. /\ q.row.phone # Null => row.phone # q.row.phone
      /\ q.row.email # NoEmail => row.email # q.row.email
      /\ q.row.apple # Null => row.apple # q.row.apple
  BY <1>1, Strangers
<1>3. \A j \in Accounts' : j # i => j \in Accounts /\ users'[j] = users[j]
  BY <1>1 DEF Accounts, Exists
<1>4. users'[i] = row
  BY <1>1
<1>5. q.row.email # NoEmail /\ ByEmail(q.row.email) = {}
        => ByEmail(q.row.email)' = {}
  BY <1>2, <1>3, <1>4 DEF ByEmail
<1>6. Unique(q.row, 0) => Unique(q.row, 0)'
  <2>1. 0 \notin AccountIds
    BY SignInAssumption DEF AccountIds
  <2> QED
    BY <1>2, <1>3, <1>4, <2>1 DEF Unique, Accounts
<1>7. ASSUME q.at = "update" PROVE q.id # i /\ q.id \in AccountIds
  <2>1. q.id \in 1..made /\ Of(users[q.id], r) /\ Exists(q.id)
    BY <1>7 DEF Fresh
  <2>2. q.id \in AccountIds
    BY <1>1, <2>1, SignInAssumption DEF AccountIds
  <2>3. Holders(users[q.id]) = {r}
    BY <1>1, <2>1, <2>2, HolderIsOwner DEF Exists
  <2>4. ASSUME q.id = i PROVE FALSE
    <3>1. Of(users[i], p)
      BY <1>1, <2>1, <2>4, SignInAssumption DEF AccountIds
    <3>2. Holders(users[i]) = {p}
      BY <1>1, <2>1, <2>4, <3>1, HolderIsOwner DEF Exists
    <3> QED
      BY <2>3, <2>4, <3>2
  <2> QED
    BY <2>2, <2>4
<1>8. q.at = "update" => (users[q.id] = users'[q.id])
  BY <1>1, <1>7
<1> QED
  BY <1>5, <1>6, <1>8 DEF Fresh, Exists

(* A step on p's account that marks p's requests keeps FreshInv.           *)
LEMMA FreshStep ==
  ASSUME IdentityInv, FreshInv, NEW i \in AccountIds, NEW p \in People,
         NEW row \in User, Of(row, p), users' = [users EXCEPT ![i] = row],
         made < i \/ Of(users[i], p),
         \A o \in Slots :
           \/ login'[o] = Idle
           \/ login'[o].raced
           \/ /\ login'[o] = login[o]
              /\ login[o].person # p \/ login[o].at = "refused"
  PROVE  FreshInv'
<1> SUFFICES ASSUME NEW o \in Slots, ~ login'[o].raced
             PROVE  Fresh(login[o])'
  BY DEF FreshInv
<1>1. CASE login'[o] = Idle
  BY <1>1 DEF Idle, Fresh
<1>2. CASE login'[o] = login[o]
  <2>1. PICK q \in Login : q = login[o]
    BY DEF IdentityInv, SignInTypeOK
  <2>2. Fresh(q) /\ q = login'[o]
    BY <1>2, <2>1 DEF FreshInv
  <2>3. CASE q.at \in {"idle", "refused"}
    BY <2>2, <2>3 DEF Fresh
  <2>4. CASE q.at \notin {"idle", "refused"}
    <3>1. /\ q.person \in People /\ Of(q.row, q.person)
          /\ q.at = "update" =>
               q.id \in 1..made /\ Of(users[q.id], q.person)
      BY <2>1, <2>4 DEF IdentityInv, LoginInv
    <3>2. PICK r \in People : r = q.person
      BY <3>1
    <3>3. r # p \/ login'[o] = Idle
      BY <1>2, <2>1, <2>2, <2>4, <3>2
    <3>4. r # p
      BY <2>2, <2>4, <3>3 DEF Idle
    <3>5. Fresh(q)'
      BY <2>2, <3>1, <3>2, <3>4, FreshOfOthers
    <3> QED
      BY <2>2, <3>5 DEF Fresh
  <2> QED
    BY <2>3, <2>4
<1> QED
  BY <1>1, <1>2

(* Raced marks the requests of p that are not over.                        *)
LEMMA RacedMarks ==
  ASSUME login \in [Slots -> Login], NEW p, NEW o \in Slots
  PROVE  \/ Raced(login, p)[o].raced
         \/ /\ Raced(login, p)[o] = login[o]
            /\ login[o].person # p \/ login[o].at = "refused"
  BY DEF Raced, Login

(* A request may be in any new state that is fresh, or marked.             *)
LEMMA LoginFresh ==
  ASSUME IdentityInv, FreshInv, NEW s \in Slots, NEW new,
         login' = [login EXCEPT ![s] = new], users' = users,
         Fresh(new) \/ new.raced
  PROVE  FreshInv'
<1> SUFFICES ASSUME NEW o \in Slots, ~ login'[o].raced
             PROVE  Fresh(login[o])'
  BY DEF FreshInv
<1>1. login'[o] = IF o = s THEN new ELSE login[o]
  BY DEF IdentityInv, SignInTypeOK
<1>2. Fresh(login'[o])
  BY <1>1 DEF FreshInv
<1> QED
  BY <1>2 DEF Fresh, Unique, ByEmail, Accounts, Exists

(* The empty row claims no unique column.                                  *)
LEMMA UniqueUnchanged == ASSUME UniqueInv, users' = users PROVE UniqueInv'
  BY DEF UniqueInv, Unique, Accounts, Exists

(* The look-ups record what they find.                                     *)
LEMMA PhoneFresh ==
  ASSUME RefusalInv, NEW s \in Slots, NEW p \in People, PhoneSignIn(s, p)
  PROVE  FreshInv'
<1> USE DEF RefusalInv
<1>1. users' = users
  BY DEF PhoneSignIn
<1>2. CASE UNCHANGED login
  BY <1>1, <1>2
     DEF FreshInv, Fresh, Unique, ByEmail, Accounts, Exists
<1>3. CASE /\ ByPhone(p) = {}
           /\ Start(s, "insert", p, [Nobody EXCEPT !.phone = p], 0)
  <2> DEFINE row == [Nobody EXCEPT !.phone = p]
             new == [at |-> "insert", person |-> p, row |-> row, id |-> 0,
                     raced |-> FALSE, split |-> FALSE]
  <2>1. row.email = NoEmail /\ row.apple = Null /\ row.phone = p
    BY DEF Nobody
  <2>2. Unique(row, 0)
    BY <1>3, <2>1 DEF Unique, ByPhone
  <2>3. Fresh(new)
    BY <2>2 DEF Fresh
  <2>4. login' = [login EXCEPT ![s] = new]
    BY <1>3 DEF Start
  <2> HIDE DEF new
  <2> QED
    BY <1>1, <2>3, <2>4, LoginFresh
<1> QED
  BY <1>2, <1>3 DEF PhoneSignIn

LEMMA GoogleFresh ==
  ASSUME RefusalInv, NEW s \in Slots, NEW p \in People, GoogleSignIn(s, p)
  PROVE  FreshInv'
<1> USE DEF RefusalInv
<1> DEFINE row == [Nobody EXCEPT !.email = <<p, "own">>]
           new(at, id) == [at |-> at, person |-> p, row |-> row, id |-> id,
                           raced |-> FALSE, split |-> FALSE]
<1>1. users' = users
  BY DEF GoogleSignIn
<1>2. row.phone = Null /\ row.apple = Null /\ row.email = <<p, "own">>
  BY DEF Nobody
<1>3. ASSUME NEW i \in ByEmail(<<p, "own">>), Start(s, "update", p, row, i)
      PROVE  FreshInv'
  <2>1. Fresh(new("update", i))
    BY <1>2 DEF Fresh, ByEmail, Accounts
  <2>2. login' = [login EXCEPT ![s] = new("update", i)]
    BY <1>3 DEF Start
  <2> HIDE DEF new
  <2> QED
    BY <1>1, <2>1, <2>2, LoginFresh
<1>4. ASSUME ByEmail(<<p, "own">>) = {}, Start(s, "insert", p, row, 0)
      PROVE  FreshInv'
  <2>1. Unique(row, 0)
    BY <1>2, <1>4 DEF Unique, ByEmail
  <2>2. Fresh(new("insert", 0))
    BY <2>1 DEF Fresh
  <2>3. login' = [login EXCEPT ![s] = new("insert", 0)]
    BY <1>4 DEF Start
  <2> HIDE DEF new
  <2> QED
    BY <1>1, <2>2, <2>3, LoginFresh
<1> QED
  BY <1>3, <1>4 DEF GoogleSignIn

LEMMA AppleEmailFresh ==
  ASSUME RefusalInv, NEW s \in Slots, NEW p \in People,
         NEW e \in AppleEmails(p), AppleByEmail(s, p, e)
  PROVE  FreshInv'
<1> USE DEF RefusalInv
<1> DEFINE row == [phone |-> Null, email |-> e, apple |-> p]
           new(at, id) == [at |-> at, person |-> p, row |-> row, id |-> id,
                           raced |-> FALSE, split |-> FALSE]
<1>1. users' = users
  BY DEF AppleByEmail
<1>2. ASSUME e # NoEmail, NEW i \in ByEmail(e), Start(s, "update", p, row, i)
      PROVE  FreshInv'
  <2>1. Fresh(new("update", i))
    BY <1>2 DEF Fresh, ByEmail, Accounts
  <2>2. login' = [login EXCEPT ![s] = new("update", i)]
    BY <1>2 DEF Start
  <2> HIDE DEF new
  <2> QED
    BY <1>1, <2>1, <2>2, LoginFresh
<1>3. ASSUME e = NoEmail \/ ByEmail(e) = {}, Start(s, "apple_id", p, row, 0)
      PROVE  FreshInv'
  <2>1. Fresh(new("apple_id", 0))
    BY <1>3 DEF Fresh
  <2>2. login' = [login EXCEPT ![s] = new("apple_id", 0)]
    BY <1>3 DEF Start
  <2> HIDE DEF new
  <2> QED
    BY <1>1, <2>1, <2>2, LoginFresh
<1> QED
  BY <1>2, <1>3 DEF AppleByEmail

LEMMA AppleIdFresh ==
  ASSUME RefusalInv, NEW s \in Slots, AppleById(s)
  PROVE  FreshInv'
<1> USE DEF RefusalInv
<1>1. PICK q \in Login : q = login[s]
  BY DEF IdentityInv, SignInTypeOK
<1>2. /\ users' = users /\ q.at = "apple_id"
      /\ q.person \in People /\ q.row.apple \in {q.person, Null}
  BY <1>1 DEF AppleById, IdentityInv, LoginInv, Of
<1>3. q.raced \/ Fresh(q)
  BY <1>1 DEF FreshInv
<1>4. ASSUME NEW i \in ByApple(q.person),
             login' = [login EXCEPT ![s].at = "update", ![s].id = i]
      PROVE  FreshInv'
  <2> DEFINE new == [q EXCEPT !.at = "update", !.id = i]
  <2>1. login' = [login EXCEPT ![s] = new]
    BY <1>1, <1>4 DEF IdentityInv, SignInTypeOK
  <2>2. /\ new.at = "update" /\ new.id = i /\ new.row = q.row
        /\ new.raced = q.raced
    BY DEF Login
  <2>3. Fresh(new)
    BY <1>2, <2>2 DEF Fresh, ByApple, Accounts
  <2> HIDE DEF new
  <2> QED
    BY <1>2, <2>1, <2>3, LoginFresh
<1>5. ASSUME ByApple(q.person) = {}, login' = [login EXCEPT ![s].at = "insert"]
      PROVE  FreshInv'
  <2> DEFINE new == [q EXCEPT !.at = "insert"]
  <2>1. login' = [login EXCEPT ![s] = new]
    BY <1>1, <1>5 DEF IdentityInv, SignInTypeOK
  <2>2. new.at = "insert" /\ new.row = q.row /\ new.raced = q.raced
    BY DEF Login
  <2>3. ASSUME Fresh(q) PROVE Unique(q.row, 0)
    BY <1>2, <1>5, <2>3 DEF Fresh, Unique, ByApple, ByEmail
  <2>4. Fresh(new) \/ new.raced
    BY <1>3, <2>2, <2>3 DEF Fresh
  <2> HIDE DEF new
  <2> QED
    BY <1>2, <2>1, <2>4, LoginFresh
<1> QED
  BY <1>1, <1>4, <1>5 DEF AppleById

-----------------------------------------------------------------------------
(* The commits write rows that the database accepts as unique.             *)
LEMMA CommitInsertRefusal ==
  ASSUME RefusalInv, NEW s \in Slots, CommitInsert(s)
  PROVE  UniqueInv' /\ FreshInv'
<1> USE SignInAssumption DEF RefusalInv
<1>1. PICK q \in Login : q = login[s]
  BY DEF IdentityInv, SignInTypeOK
<1>2. /\ q.at = "insert" /\ made < MaxAccounts
      /\ users' = [users EXCEPT ![made + 1] = q.row]
      /\ Unique(q.row, 0)
      /\ login' = [Raced(login, q.person) EXCEPT ![s] = Idle]
  BY <1>1 DEF CommitInsert
<1>3. made \in 0..MaxAccounts /\ login \in [Slots -> Login]
  BY DEF IdentityInv, SignInTypeOK
<1>4. PICK i \in AccountIds : i = made + 1
  BY <1>2, <1>3 DEF AccountIds
<1>5. q.row \in User /\ q.person \in People /\ Of(q.row, q.person)
  BY <1>1, <1>2 DEF IdentityInv, LoginInv, Login
<1>6. Unique(q.row, i)
  BY <1>2 DEF Unique, Accounts, AccountIds
<1>7. UniqueInv'
  BY <1>2, <1>4, <1>5, <1>6, UniqueStep
<1>8. \A o \in Slots : \/ login'[o] = Idle
                       \/ login'[o].raced
                       \/ /\ login'[o] = login[o]
                          /\ \/ login[o].person # q.person
                             \/ login[o].at = "refused"
  BY <1>2, <1>3, RacedMarks, RacedKeeps
<1>9. FreshInv'
  <2>1. PICK p \in People, row \in User : p = q.person /\ row = q.row
    BY <1>5
  <2>2. users' = [users EXCEPT ![i] = row] /\ Of(row, p) /\ made < i
    BY <1>2, <1>3, <1>4, <1>5, <2>1
  <2> QED
    BY <1>8, <2>1, <2>2, FreshStep
<1> QED
  BY <1>7, <1>9

LEMMA CommitUpdateRefusal ==
  ASSUME RefusalInv, NEW s \in Slots, CommitUpdate(s)
  PROVE  UniqueInv' /\ FreshInv'
<1> USE DEF RefusalInv
<1>1. PICK q \in Login : q = login[s]
  BY DEF IdentityInv, SignInTypeOK
<1>2. /\ q.at = "update" /\ Exists(q.id) /\ Unique(Linked(q), q.id)
      /\ users' = [users EXCEPT ![q.id] = Linked(q)]
      /\ login' = [(IF Linked(q) # users[q.id] THEN Raced(login, q.person)
                                           ELSE login) EXCEPT ![s] = Idle]
  BY <1>1 DEF CommitUpdate
<1>3. login \in [Slots -> Login] /\ users \in [AccountIds -> User]
  BY DEF IdentityInv, SignInTypeOK
<1>4. /\ Linked(q) \in User /\ Of(Linked(q), q.person)
      /\ q.id \in AccountIds /\ q.person \in People
  BY <1>1, <1>2, LinkedType
<1>5. PICK i \in AccountIds : i = q.id
  BY <1>4
<1>6. PICK row \in User : row = Linked(q)
  BY <1>4
<1>7. Of(users[i], q.person)
  BY <1>1, <1>2, <1>5 DEF IdentityInv, LoginInv
<1>8. UniqueInv'
  BY <1>2, <1>5, <1>6, UniqueStep
<1>9. CASE row # users[i]
  <2>1. \A o \in Slots : \/ login'[o] = Idle
                         \/ login'[o].raced
                         \/ /\ login'[o] = login[o]
                            /\ \/ login[o].person # q.person
                               \/ login[o].at = "refused"
    BY <1>2, <1>3, <1>5, <1>6, <1>9, RacedMarks, RacedKeeps
  <2> QED
    BY <1>2, <1>4, <1>5, <1>6, <1>7, <1>8, <2>1, FreshStep
<1>10. CASE row = users[i]
  <2>1. users' = users /\ login' = [login EXCEPT ![s] = Idle]
    BY <1>2, <1>3, <1>5, <1>6, <1>10
  <2>2. Fresh(Idle)
    BY DEF Fresh, Idle
  <2> QED
    BY <1>8, <2>1, <2>2, LoginFresh
<1> QED
  BY <1>8, <1>9, <1>10

LEMMA DeleteRefusal ==
  ASSUME RefusalInv, NEW p \in People, NEW i \in AccountIds,
         DeleteAccount(p, i)
  PROVE  UniqueInv' /\ FreshInv'
<1> USE DEF RefusalInv
<1>1. /\ <<p, i>> \in tokens /\ users' = [users EXCEPT ![i] = Nobody]
      /\ login' = Raced(login, p)
  BY DEF DeleteAccount, Authenticated
<1>2. Of(users[i], p)
  BY <1>1 DEF IdentityInv, TokensInv
<1>3. login \in [Slots -> Login]
  BY DEF IdentityInv, SignInTypeOK
<1>4. \A o \in Slots : \/ login'[o].raced
                       \/ /\ login'[o] = login[o]
                          /\ \/ login[o].person # p
                             \/ login[o].at = "refused"
  BY <1>1, <1>3, RacedMarks
<1>5. Nobody \in User /\ Of(Nobody, p)
  BY NobodyType, NobodyIsAnyones
<1>6. UniqueInv'
  BY <1>1, <1>5, UniqueStep
<1>7. FreshInv'
  BY <1>1, <1>2, <1>4, <1>5, FreshStep
<1> QED
  BY <1>6, <1>7

-----------------------------------------------------------------------------
(* Two accounts are more than one.                                         *)
LEMMA TwoAreMany ==
  ASSUME NEW S \in SUBSET AccountIds, NEW i \in S, NEW j \in S, i # j
  PROVE  Cardinality(S) > 1
<1>1. IsFiniteSet(AccountIds)
  BY FS_Interval, SignInAssumption DEF AccountIds
<1>2. IsFiniteSet(S)
  BY <1>1, FS_Subset
<1>3. {i, j} \in SUBSET S
  OBVIOUS
<1>4. Cardinality({i, j}) <= Cardinality(S)
  BY <1>2, <1>3, FS_Subset
<1>5. IsFiniteSet({i}) /\ Cardinality({i}) = 1
  BY FS_Singleton
<1>6. Cardinality({i} \cup {j}) = 2
  BY <1>5, FS_AddElement
<1>7. {i} \cup {j} = {i, j}
  OBVIOUS
<1>8. Cardinality(S) \in Nat
  BY <1>2, FS_CardinalityType
<1> QED
  BY <1>4, <1>6, <1>7, <1>8

(* A fresh request is refused only when the Apple id is another account's. *)
LEMMA RefusedFresh ==
  ASSUME RefusalInv, NEW s \in Slots, InsertRefused(s) \/ UpdateRefused(s)
  PROVE  FreshInv'
<1> USE DEF RefusalInv
<1>1. PICK q \in Login : q = login[s]
  BY DEF IdentityInv, SignInTypeOK
<1> DEFINE known == {i \in Accounts :
                  \/ q.row.email # NoEmail /\ users[i].email = q.row.email
                  \/ q.row.apple # Null /\ users[i].apple = q.row.apple}
           b == Cardinality(known) > 1
           new == [q EXCEPT !.at = "refused", !.split = b]
<1>2. login' = [login EXCEPT ![s].at = "refused", ![s].split = b]
      /\ users' = users
  BY <1>1 DEF Refused, InsertRefused, UpdateRefused
<1>3. login' = [login EXCEPT ![s] = new]
  BY <1>1, <1>2 DEF IdentityInv, SignInTypeOK
<1>4. new.at = "refused" /\ new.split = b /\ new.raced = q.raced
  BY DEF Login
<1>5. ASSUME ~ q.raced PROVE b
  <2>1. Fresh(q)
    BY <1>1, <1>5 DEF FreshInv
  <2>2. /\ q.at = "update" /\ Exists(q.id)
        /\ ~ Unique(Linked(q), q.id)
    BY <1>1, <2>1 DEF Fresh, InsertRefused, UpdateRefused
  <2>3. q.id \in AccountIds /\ q.id \in Accounts
    BY <1>1, <2>2, LinkedType DEF Accounts
  <2>4. Unique(users[q.id], q.id)
    BY <2>3 DEF UniqueInv
  <2>5. /\ Linked(q) = [users[q.id] EXCEPT !.apple = q.row.apple]
        /\ q.row.apple # Null /\ users[q.id].apple = Null
    BY <2>2, <2>4 DEF Linked
  <2>6. PICK mine \in User : mine = users[q.id]
    BY <2>3 DEF IdentityInv, SignInTypeOK
  <2>7. /\ Linked(q).phone = mine.phone /\ Linked(q).email = mine.email
        /\ Linked(q).apple = q.row.apple
    BY <2>5, <2>6 DEF User
  <2>8. PICK j \in Accounts \ {q.id} : users[j].apple = q.row.apple
    BY <2>2, <2>4, <2>6, <2>7 DEF Unique
  <2>9. q.row.email # NoEmail /\ users[q.id].email = q.row.email
    BY <2>1, <2>2, <2>5 DEF Fresh
  <2>10. q.id \in known /\ j \in known /\ j # q.id
    BY <2>3, <2>5, <2>8, <2>9
  <2>11. known \in SUBSET AccountIds
    BY DEF Accounts
  <2> HIDE DEF known
  <2> QED
    BY <2>10, <2>11, TwoAreMany
<1>6. Fresh(new) \/ new.raced
  BY <1>4, <1>5 DEF Fresh
<1> HIDE DEF new
<1> QED
  BY <1>2, <1>3, <1>6, LoginFresh

-----------------------------------------------------------------------------
(* Every step of sign-in keeps what the refusals rest on.                  *)
LEMMA NextRefusal == RefusalInv /\ [SignInNext]_signInVars => RefusalInv'
<1> SUFFICES ASSUME RefusalInv, [SignInNext]_signInVars
             PROVE  UniqueInv' /\ FreshInv'
  BY NextIdentity DEF RefusalInv
<1>1. ASSUME NEW s \in Slots, NEW p \in People,
             \/ PhoneSignIn(s, p) \/ GoogleSignIn(s, p)
             \/ \E e \in AppleEmails(p) : AppleByEmail(s, p, e)
      PROVE  UniqueInv' /\ FreshInv'
  <2>1. users' = users
    BY <1>1 DEF PhoneSignIn, GoogleSignIn, AppleByEmail
  <2>2. UniqueInv'
    BY <2>1, UniqueUnchanged DEF RefusalInv
  <2> QED
    BY <1>1, <2>2, PhoneFresh, GoogleFresh, AppleEmailFresh
<1>2. ASSUME NEW s \in Slots,
             AppleById(s) \/ InsertRefused(s) \/ UpdateRefused(s)
      PROVE  UniqueInv' /\ FreshInv'
  <2>1. users' = users
    BY <1>2 DEF AppleById, InsertRefused, UpdateRefused, Refused
  <2>2. UniqueInv'
    BY <2>1, UniqueUnchanged DEF RefusalInv
  <2> QED
    BY <1>2, <2>2, AppleIdFresh, RefusedFresh
<1>3. ASSUME NEW s \in Slots, CommitInsert(s) \/ CommitUpdate(s)
      PROVE  UniqueInv' /\ FreshInv'
  BY <1>3, CommitInsertRefusal, CommitUpdateRefusal
<1>4. ASSUME NEW s \in Slots, Lost(s) PROVE UniqueInv' /\ FreshInv'
  <2>1. users' = users /\ login' = [login EXCEPT ![s] = Idle]
    BY <1>4 DEF Lost
  <2>2. Fresh(Idle)
    BY DEF Fresh, Idle
  <2> QED
    BY <2>1, <2>2, LoginFresh, UniqueUnchanged DEF RefusalInv
<1>5. ASSUME NEW p \in People, NEW i \in AccountIds, DeleteAccount(p, i)
      PROVE  UniqueInv' /\ FreshInv'
  BY <1>5, DeleteRefusal
<1>6. CASE UNCHANGED signInVars
  BY <1>6 DEF signInVars, RefusalInv, UniqueInv, FreshInv, Fresh, Unique,
              ByEmail, Accounts, Exists
<1> QED
  BY <1>1, <1>2, <1>3, <1>4, <1>5, <1>6 DEF SignInNext

(* What the run checks: a sign-in is refused only when another request     *)
(* changed the person's accounts or the identities already are two.        *)
THEOREM SignInRefusals == SignInSpec => []RefusedOnlyWhenRacedOrSplit
<1>1. RefusalInv => RefusedOnlyWhenRacedOrSplit
  BY DEF RefusalInv, FreshInv, Fresh, RefusedOnlyWhenRacedOrSplit
<1> QED
  BY <1>1, InitRefusal, NextRefusal, PTL DEF SignInSpec

(* The same beside the payments.                                           *)
THEOREM BillingRefusals == BillingSpec => []RefusedOnlyWhenRacedOrSplit
  BY BillingIsSignIn, SignInRefusals, PTL

-----------------------------------------------------------------------------
(* What the payments keep.                                                 *)

Statuses == {"none", "active", "past_due", "cancelled"}
StripeRow == [of : AccountIds, open : {0, 1}, active : Nat, past_due : Nat]
Marks == SUBSET {"overlap", "double", "recovery", "order"}

BillingTypes ==
  /\ billing \in [AccountIds -> [customer : Nat, status : Statuses]]
  /\ checkout \in [Slots -> [at : {"idle", "create", "store", "session"},
                             id : Nat, customer : Nat]]
  /\ stripe \in Seq(StripeRow)
  /\ muddled \in Seq(Marks) /\ Len(muddled) = Len(stripe)
  /\ outbox \subseteq [n : Nat, type : EventTypes, customer : Customers]
  /\ events \in Nat
  /\ hook \in [Hooks -> [at : {"idle", "found"}, event : Nat, id : Nat,
                         type : EventTypes \union {"none"}, was : Statuses]]

(* A customer belongs to the account that asked for it, under an id that   *)
(* is out, and a checkout knows its customer.                              *)
CustomerPart ==
  /\ \A c \in Customers : stripe[c].of <= made
  /\ \A i \in AccountIds : billing[i].customer # NoCustomer =>
       /\ billing[i].customer \in Customers
       /\ stripe[billing[i].customer].of = i
  /\ \A s \in Slots : checkout[s].at # "idle" =>
       checkout[s].id \in AccountIds /\ checkout[s].id <= made
  /\ \A s \in Slots : checkout[s].at \in {"store", "session"} =>
       /\ checkout[s].customer \in Customers
       /\ stripe[checkout[s].customer].of = checkout[s].id

(* The webhook finds the account of customer c, or is excused.             *)
Known(c) == \/ billing[stripe[c].of].customer = c
            \/ "overlap" \in muddled[c]
            \/ ~ Exists(stripe[c].of)

(* Who can pay, pays or has paid is known to the webhook.                  *)
KnownPart ==
  /\ \A s \in Slots : checkout[s].at = "session" => Known(checkout[s].customer)
  /\ \A c \in Customers :
       stripe[c].open = 1 \/ Live(c) > 0 \/ (\E e \in outbox : e.customer = c)
         => Known(c)

PaymentInv == IdentityInv /\ BillingTypes /\ CustomerPart /\ KnownPart

-----------------------------------------------------------------------------
(* A sequence with one element replaced, and one with an element added.    *)
LEMMA RowSet ==
  ASSUME NEW T, NEW f \in Seq(T), NEW c \in DOMAIN f, NEW v \in T
  PROVE  /\ [f EXCEPT ![c] = v] \in Seq(T)
         /\ Len([f EXCEPT ![c] = v]) = Len(f)
         /\ DOMAIN [f EXCEPT ![c] = v] = DOMAIN f
         /\ [f EXCEPT ![c] = v][c] = v
         /\ \A d \in DOMAIN f \ {c} : [f EXCEPT ![c] = v][d] = f[d]
<1>1. DOMAIN f = 1 .. Len(f)
  BY LenProperties
<1> QED
  BY <1>1, ExceptSeq

LEMMA RowAdded ==
  ASSUME NEW T, NEW f \in Seq(T), NEW v \in T
  PROVE  /\ Append(f, v) \in Seq(T)
         /\ Len(Append(f, v)) = Len(f) + 1
         /\ DOMAIN Append(f, v) = DOMAIN f \union {Len(f) + 1}
         /\ Append(f, v)[Len(f) + 1] = v
         /\ \A d \in DOMAIN f : Append(f, v)[d] = f[d]
  OBVIOUS

(* The customers are those with a row and with marks.                      *)
LEMMA CustomerTypes ==
  ASSUME BillingTypes
  PROVE  /\ stripe \in [Customers -> StripeRow]
         /\ muddled \in [Customers -> Marks]
         /\ Customers = 1 .. Len(stripe) /\ Len(stripe) \in Nat
         /\ NoCustomer \notin Customers
<1>1. /\ stripe \in Seq(StripeRow) /\ muddled \in Seq(Marks)
      /\ Len(muddled) = Len(stripe)
  BY DEF BillingTypes
<1>2. /\ Len(stripe) \in Nat /\ DOMAIN stripe = 1 .. Len(stripe)
      /\ stripe \in [1 .. Len(stripe) -> StripeRow]
      /\ muddled \in [1 .. Len(stripe) -> Marks]
  BY <1>1, LenProperties
<1> QED
  BY <1>2 DEF Customers, NoCustomer

(* The row of customer c becomes one with the same owner.                  *)
Becomes(c, open, active, past_due) ==
  stripe' = [stripe EXCEPT ![c] =
    [of |-> stripe[c].of, open |-> open, active |-> active,
     past_due |-> past_due]]

LEMMA BecomesKeeps ==
  ASSUME BillingTypes, NEW c \in Customers, NEW open \in {0, 1},
         NEW active \in Nat, NEW past_due \in Nat,
         Becomes(c, open, active, past_due)
  PROVE  /\ stripe' \in Seq(StripeRow) /\ Len(stripe') = Len(stripe)
         /\ Customers' = Customers
         /\ stripe'[c].of = stripe[c].of
         /\ stripe'[c].open = open
         /\ stripe'[c].active = active /\ stripe'[c].past_due = past_due
         /\ \A d \in Customers \ {c} : stripe'[d] = stripe[d]
<1> DEFINE row == [of |-> stripe[c].of, open |-> open, active |-> active,
                   past_due |-> past_due]
<1>1. stripe \in Seq(StripeRow) /\ c \in DOMAIN stripe
  BY DEF BillingTypes, Customers
<1>2. row \in StripeRow
  BY CustomerTypes DEF StripeRow
<1>3. stripe' = [stripe EXCEPT ![c] = row]
  BY DEF Becomes
<1>4. /\ stripe' \in Seq(StripeRow) /\ Len(stripe') = Len(stripe)
      /\ DOMAIN stripe' = DOMAIN stripe /\ stripe'[c] = row
      /\ \A d \in DOMAIN stripe \ {c} : stripe'[d] = stripe[d]
  <2> HIDE DEF row
  <2> QED
    BY <1>1, <1>2, <1>3, RowSet
<1> QED
  BY <1>4 DEF Customers

(* What Stripe does to a customer, and CreateSession for one.              *)
LEMMA StripeRowSteps ==
  ASSUME BillingTypes, NEW c \in Customers
  PROVE  /\ \A s \in Slots : checkout[s].customer = c /\ CreateSession(s) =>
              Becomes(c, 1, stripe[c].active, stripe[c].past_due)
         /\ Pay(c) =>
              Becomes(c, 0, stripe[c].active + 1, stripe[c].past_due)
         /\ PaymentFails(c) =>
              Becomes(c, stripe[c].open, stripe[c].active - 1,
                      stripe[c].past_due + 1)
         /\ Recovers(c) =>
              Becomes(c, stripe[c].open, stripe[c].active + 1,
                      stripe[c].past_due - 1)
         /\ End(c, "active") =>
              Becomes(c, stripe[c].open, stripe[c].active - 1,
                      stripe[c].past_due)
         /\ End(c, "past_due") =>
              Becomes(c, stripe[c].open, stripe[c].active,
                      stripe[c].past_due - 1)
<1>1. stripe \in [Customers -> StripeRow]
  BY CustomerTypes
<1>2. stripe[c] = [of |-> stripe[c].of, open |-> stripe[c].open,
                   active |-> stripe[c].active,
                   past_due |-> stripe[c].past_due]
  BY <1>1 DEF StripeRow
<1>3. ASSUME NEW s \in Slots, checkout[s].customer = c, CreateSession(s)
      PROVE  Becomes(c, 1, stripe[c].active, stripe[c].past_due)
  <2>1. stripe' = [stripe EXCEPT ![c].open = 1]
    BY <1>3 DEF CreateSession
  <2>2. [stripe[c] EXCEPT !.open = 1] =
          [of |-> stripe[c].of, open |-> 1, active |-> stripe[c].active,
           past_due |-> stripe[c].past_due]
    BY <1>1 DEF StripeRow
  <2> QED
    BY <1>1, <2>1, <2>2 DEF Becomes
<1>4. Pay(c) => Becomes(c, 0, stripe[c].active + 1, stripe[c].past_due)
  BY <1>1, <1>2 DEF Pay, Becomes, StripeRow
<1>5. PaymentFails(c) =>
        Becomes(c, stripe[c].open, stripe[c].active - 1,
                stripe[c].past_due + 1)
  BY <1>1, <1>2 DEF PaymentFails, Becomes, StripeRow
<1>6. Recovers(c) =>
        Becomes(c, stripe[c].open, stripe[c].active + 1,
                stripe[c].past_due - 1)
  BY <1>1, <1>2 DEF Recovers, Becomes, StripeRow
<1>7. End(c, "active") =>
        Becomes(c, stripe[c].open, stripe[c].active - 1, stripe[c].past_due)
  BY <1>1, <1>2 DEF End, Becomes, StripeRow
<1>8. End(c, "past_due") =>
        Becomes(c, stripe[c].open, stripe[c].active, stripe[c].past_due - 1)
  BY <1>1, <1>2 DEF End, Becomes, StripeRow
<1> QED
  BY <1>3, <1>4, <1>5, <1>6, <1>7, <1>8


(* A customer given one more mark.                                         *)
Marked(c, mark) == muddled' = [muddled EXCEPT ![c] = @ \union {mark}]

LEMMA MarkedKeeps ==
  ASSUME BillingTypes, NEW c \in Customers,
         NEW mark \in {"overlap", "double", "recovery", "order"},
         Marked(c, mark)
  PROVE  /\ muddled' \in Seq(Marks) /\ Len(muddled') = Len(muddled)
         /\ \A d \in Customers : muddled[d] \subseteq muddled'[d]
         /\ mark \in muddled'[c]
         /\ \A d \in Customers \ {c} : muddled'[d] = muddled[d]
<1>1. /\ muddled \in Seq(Marks) /\ Customers = DOMAIN muddled
      /\ muddled[c] \in Marks
  BY CustomerTypes DEF BillingTypes
<1>2. PICK v \in Marks : v = muddled[c] \union {mark}
  BY <1>1 DEF Marks
<1>3. muddled' = [muddled EXCEPT ![c] = v]
  BY <1>2 DEF Marked
<1>4. /\ muddled' \in Seq(Marks) /\ Len(muddled') = Len(muddled)
      /\ muddled'[c] = v
      /\ \A d \in DOMAIN muddled \ {c} : muddled'[d] = muddled[d]
  BY <1>1, <1>3, RowSet
<1> QED
  BY <1>1, <1>2, <1>4

(* What no step of the payments undoes: a customer keeps its account, and  *)
(* a mark stays.                                                           *)
Lasting ==
  /\ Customers \subseteq Customers'
  /\ \A c \in Customers : /\ stripe'[c].of = stripe[c].of
                          /\ muddled[c] \subseteq muddled'[c]

LEMMA SameStripe ==
  ASSUME BillingTypes, stripe' = stripe, muddled' = muddled PROVE Lasting
  BY DEF Lasting, Customers

(* What Stripe does of its own accord, in terms of the numbers it changes. *)
StripeActs(c) ==
  Pay(c) \/ PaymentFails(c) \/ Recovers(c) \/ End(c, "active")
    \/ End(c, "past_due")

LEMMA StripeTypes ==
  ASSUME BillingTypes, NEW c \in Customers, StripeActs(c)
  PROVE  /\ BillingTypes' /\ Lasting /\ Customers' = Customers
         /\ UNCHANGED <<billing, checkout, hook>>
         /\ \A d \in Customers \ {c} : /\ stripe'[d] = stripe[d]
                                       /\ muddled'[d] = muddled[d]
         /\ stripe[c].open = 1 \/ Live(c) > 0
         /\ stripe'[c].open = 1 => stripe[c].open = 1
         /\ \A e \in outbox' : e \in outbox \/ e.customer = c
<1>1. /\ stripe[c].of \in AccountIds /\ stripe[c].open \in {0, 1}
      /\ stripe[c].active \in Nat /\ stripe[c].past_due \in Nat
      /\ events \in Nat
  BY CustomerTypes DEF StripeRow, BillingTypes
<1>2. \E open \in {0, 1}, active \in Nat, past_due \in Nat :
        /\ Becomes(c, open, active, past_due)
        /\ open = 1 => stripe[c].open = 1
  <2>1. CASE Pay(c)
    <3>1. Becomes(c, 0, stripe[c].active + 1, stripe[c].past_due)
      BY <2>1, StripeRowSteps
    <3>2. stripe[c].active + 1 \in Nat
      BY <1>1
    <3> QED
      BY <1>1, <3>1, <3>2
  <2>2. CASE PaymentFails(c)
    <3>1. Becomes(c, stripe[c].open, stripe[c].active - 1,
                  stripe[c].past_due + 1)
      BY <2>2, StripeRowSteps
    <3>2. stripe[c].active - 1 \in Nat /\ stripe[c].past_due + 1 \in Nat
      BY <1>1, <2>2 DEF PaymentFails
    <3> QED
      BY <1>1, <3>1, <3>2
  <2>3. CASE Recovers(c)
    <3>1. Becomes(c, stripe[c].open, stripe[c].active + 1,
                  stripe[c].past_due - 1)
      BY <2>3, StripeRowSteps
    <3>2. stripe[c].active + 1 \in Nat /\ stripe[c].past_due - 1 \in Nat
      BY <1>1, <2>3 DEF Recovers
    <3> QED
      BY <1>1, <3>1, <3>2
  <2>4. CASE End(c, "active")
    <3>1. Becomes(c, stripe[c].open, stripe[c].active - 1,
                  stripe[c].past_due)
      BY <2>4, StripeRowSteps
    <3>2. stripe[c].active - 1 \in Nat
      BY <1>1, <2>4 DEF End
    <3> QED
      BY <1>1, <3>1, <3>2
  <2>5. CASE End(c, "past_due")
    <3>1. Becomes(c, stripe[c].open, stripe[c].active,
                  stripe[c].past_due - 1)
      BY <2>5, StripeRowSteps
    <3>2. stripe[c].past_due - 1 \in Nat
      BY <1>1, <2>5 DEF End
    <3> QED
      BY <1>1, <3>1, <3>2
  <2> QED
    BY <2>1, <2>2, <2>3, <2>4, <2>5 DEF StripeActs
<1>3. PICK open \in {0, 1}, active \in Nat, past_due \in Nat :
        /\ Becomes(c, open, active, past_due)
        /\ open = 1 => stripe[c].open = 1
  BY <1>2
<1>4. /\ stripe' \in Seq(StripeRow) /\ Len(stripe') = Len(stripe)
      /\ Customers' = Customers
      /\ stripe'[c].of = stripe[c].of
      /\ stripe'[c].open = open
      /\ \A d \in Customers \ {c} : stripe'[d] = stripe[d]
  BY <1>3, BecomesKeeps
<1>5. \/ muddled' = muddled
      \/ Marked(c, "double") \/ Marked(c, "recovery")
  BY DEF StripeActs, Pay, PaymentFails, Recovers, End, Marked
<1>6. /\ muddled' \in Seq(Marks) /\ Len(muddled') = Len(muddled)
      /\ \A d \in Customers : muddled[d] \subseteq muddled'[d]
      /\ \A d \in Customers \ {c} : muddled'[d] = muddled[d]
  <2>1. CASE muddled' = muddled
    BY <2>1 DEF BillingTypes
  <2>2. ASSUME NEW mark \in {"double", "recovery"}, Marked(c, mark)
        PROVE  /\ muddled' \in Seq(Marks) /\ Len(muddled') = Len(muddled)
               /\ \A d \in Customers : muddled[d] \subseteq muddled'[d]
               /\ \A d \in Customers \ {c} : muddled'[d] = muddled[d]
    BY <2>2, MarkedKeeps
  <2> QED
    BY <1>5, <2>1, <2>2
<1>7. /\ UNCHANGED <<billing, checkout, hook>>
      /\ \/ UNCHANGED <<outbox, events>>
         \/ \E type \in EventTypes : Send(type, c)
  BY DEF StripeActs, Pay, PaymentFails, Recovers, End, StripeStep, EventTypes
<1>8. /\ events' \in Nat
      /\ outbox' \subseteq [n : Nat, type : EventTypes, customer : Customers]
      /\ \A e \in outbox' : e \in outbox \/ e.customer = c
  <2>1. CASE UNCHANGED <<outbox, events>>
    BY <2>1 DEF BillingTypes
  <2>2. ASSUME NEW type \in EventTypes, Send(type, c)
        PROVE  /\ events' \in Nat
               /\ outbox' \subseteq
                    [n : Nat, type : EventTypes, customer : Customers]
               /\ \A e \in outbox' : e \in outbox \/ e.customer = c
    BY <1>1, <2>2 DEF Send, BillingTypes
  <2> QED
    BY <1>7, <2>1, <2>2
<1>9. BillingTypes'
  BY <1>4, <1>6, <1>7, <1>8 DEF BillingTypes
<1>10. stripe[c].open = 1 \/ Live(c) > 0
  BY <1>1 DEF StripeActs, Pay, PaymentFails, Recovers, End, Live
<1>11. Lasting
  BY <1>4, <1>6 DEF Lasting
<1> QED
  BY <1>3, <1>4, <1>6, <1>7, <1>8, <1>9, <1>10, <1>11


(* A known customer stays known while its account keeps it, or the change  *)
(* is marked as an overlap, or the account is gone for good.               *)
LEMMA KnownStays ==
  ASSUME Lasting, NEW c \in Customers, Known(c),
         Exists(stripe[c].of)' => Exists(stripe[c].of),
         \/ billing'[stripe[c].of].customer = billing[stripe[c].of].customer
         \/ "overlap" \in muddled'[c]
  PROVE  Known(c)'
<1>1. stripe'[c].of = stripe[c].of /\ muddled[c] \subseteq muddled'[c]
  BY DEF Lasting
<1> QED
  BY <1>1 DEF Known

(* The requests that hold no customer.                                     *)
LEMMA NotAskedType ==
  /\ NotAsked \in [at : {"idle", "create", "store", "session"},
                   id : Nat, customer : Nat]
  /\ NotAsked.at = "idle"
  BY DEF NotAsked, NoCustomer

(* Stripe's own steps are about a customer the webhook knows.              *)
LEMMA StripePayment ==
  ASSUME PaymentInv, UNCHANGED signInVars, NEW c \in Customers, StripeActs(c)
  PROVE  PaymentInv'
<1>1. /\ BillingTypes' /\ Lasting /\ Customers' = Customers
      /\ UNCHANGED <<billing, checkout, hook>>
      /\ \A d \in Customers \ {c} : /\ stripe'[d] = stripe[d]
                                    /\ muddled'[d] = muddled[d]
      /\ stripe[c].open = 1 \/ Live(c) > 0
      /\ stripe'[c].open = 1 => stripe[c].open = 1
      /\ \A e \in outbox' : e \in outbox \/ e.customer = c
  BY StripeTypes DEF PaymentInv
<1>2. IdentityInv' /\ users' = users /\ made' = made
  BY NextIdentity DEF PaymentInv, signInVars
<1>3. \A d \in Customers : stripe'[d].of = stripe[d].of
  BY <1>1 DEF Lasting
<1>4. CustomerPart'
  BY <1>1, <1>2, <1>3 DEF PaymentInv, CustomerPart
<1>5. Known(c)
  BY <1>1 DEF PaymentInv, KnownPart
<1>6. \A d \in Customers : Known(d) => Known(d)'
  <2> SUFFICES ASSUME NEW d \in Customers, Known(d) PROVE Known(d)'
    OBVIOUS
  <2>1. Exists(stripe[d].of)' => Exists(stripe[d].of)
    BY <1>2, <1>3 DEF Exists
  <2> QED
    BY <1>1, <2>1, KnownStays
<1>7. \A s \in Slots :
        checkout'[s].at = "session" => Known(checkout[s].customer)'
  <2> SUFFICES ASSUME NEW s \in Slots, checkout'[s].at = "session"
               PROVE  Known(checkout[s].customer)'
    OBVIOUS
  <2>1. PICK d \in Customers : d = checkout[s].customer
    BY <1>1 DEF PaymentInv, CustomerPart
  <2>2. Known(d)'
    BY <1>1, <1>6, <2>1 DEF PaymentInv, KnownPart
  <2> QED
    BY <1>1, <2>1, <2>2 DEF Known
<1>8. ASSUME NEW d \in Customers',
             \/ stripe'[d].open = 1 \/ Live(d)' > 0
             \/ \E e \in outbox' : e.customer = d
      PROVE  Known(d)'
  <2>1. CASE d = c
    BY <1>5, <1>6, <2>1
  <2>2. CASE d # c
    <3>1. stripe'[d] = stripe[d] /\ d \in Customers
      BY <1>1, <2>2
    <3>2. \/ stripe[d].open = 1 \/ Live(d) > 0
          \/ \E e \in outbox : e.customer = d
      BY <1>1, <1>8, <2>2, <3>1 DEF Live
    <3> QED
      BY <1>6, <3>1, <3>2 DEF PaymentInv, KnownPart
  <2> QED
    BY <2>1, <2>2
<1>9. KnownPart'
  BY <1>1, <1>7, <1>8 DEF KnownPart
<1> QED
  BY <1>1, <1>2, <1>4, <1>9 DEF PaymentInv

(* create_checkout up to the session: it holds its account's customer.     *)
LEMMA BeginPayment ==
  ASSUME PaymentInv, UNCHANGED signInVars, NEW s \in Slots,
         NEW p \in People, NEW i \in AccountIds, BeginCheckout(s, p, i)
  PROVE  PaymentInv'
<1>1. PICK at \in {"create", "session"} :
        /\ at = IF billing[i].customer = NoCustomer THEN "create"
                ELSE "session"
        /\ checkout' = [checkout EXCEPT ![s] =
             [at |-> at, id |-> i, customer |-> billing[i].customer]]
  BY DEF BeginCheckout
<1>2. /\ UNCHANGED <<billing, stripe, outbox, events, hook, muddled>>
      /\ <<p, i>> \in tokens
  BY DEF BeginCheckout, Authenticated
<1>3. /\ IdentityInv' /\ users' = users /\ made' = made
      /\ i <= made /\ i \in Nat
  BY <1>2, NextIdentity, SignInAssumption
     DEF PaymentInv, signInVars, IdentityInv, TokensInv, AccountIds
<1>4. BillingTypes'
  BY <1>1, <1>2, <1>3 DEF PaymentInv, BillingTypes, Customers
<1>5. billing[i].customer # NoCustomer =>
        /\ billing[i].customer \in Customers
        /\ stripe[billing[i].customer].of = i
  BY DEF PaymentInv, CustomerPart
<1>6. CustomerPart'
  BY <1>1, <1>2, <1>3, <1>5
     DEF PaymentInv, CustomerPart, BillingTypes, Customers
<1>7. ASSUME NEW o \in Slots, checkout'[o].at = "session"
      PROVE  Known(checkout[o].customer)'
  <2>1. Known(checkout'[o].customer)
    <3>1. CASE o = s
      BY <1>1, <1>5, <1>7, <3>1 DEF PaymentInv, BillingTypes, Known
    <3>2. CASE o # s
      BY <1>1, <1>7, <3>2 DEF PaymentInv, BillingTypes, KnownPart
    <3> QED
      BY <3>1, <3>2
  <2> QED
    BY <1>2, <1>3, <2>1 DEF Known, Exists
<1>8. KnownPart'
  BY <1>2, <1>3, <1>7
     DEF PaymentInv, KnownPart, Known, Live, Customers, Exists
<1> QED
  BY <1>3, <1>4, <1>6, <1>8 DEF PaymentInv


(* stripe.Customer.create: the new customer has no session and no events.  *)
LEMMA CustomerTypesGrow ==
  ASSUME PaymentInv, NEW s \in Slots, CreateCustomer(s)
  PROVE  LET c == Len(stripe) + 1
         IN /\ BillingTypes' /\ Lasting
            /\ UNCHANGED <<billing, outbox, events, hook>>
            /\ Customers' = Customers \union {c} /\ c \notin Customers
            /\ stripe'[c].of = checkout[s].id /\ stripe'[c].open = 0
            /\ stripe'[c].active = 0 /\ stripe'[c].past_due = 0
            /\ muddled'[c] = {}
            /\ \A d \in Customers : /\ stripe'[d] = stripe[d]
                                    /\ muddled'[d] = muddled[d]
            /\ checkout'[s].at = "store" /\ checkout'[s].customer = c
            /\ checkout'[s].id = checkout[s].id
            /\ \A o \in Slots \ {s} : checkout'[o] = checkout[o]
            /\ checkout[s].id \in AccountIds /\ checkout[s].id <= made
<1>1. checkout[s].id \in AccountIds /\ checkout[s].id <= made
  BY DEF PaymentInv, CustomerPart, CreateCustomer
<1>2. PICK new \in StripeRow :
        new = [of |-> checkout[s].id, open |-> 0, active |-> 0,
               past_due |-> 0]
  BY <1>1 DEF StripeRow
<1>3. PICK c \in Nat : c = Len(stripe) + 1
  BY CustomerTypes DEF PaymentInv
<1>4. /\ stripe' = Append(stripe, new) /\ muddled' = Append(muddled, {})
      /\ checkout' = [checkout EXCEPT ![s].at = "store", ![s].customer = c]
      /\ UNCHANGED <<billing, outbox, events, hook>>
  BY <1>2, <1>3 DEF CreateCustomer
<1>5. stripe \in Seq(StripeRow) /\ muddled \in Seq(Marks)
      /\ Len(muddled) = Len(stripe)
  BY DEF PaymentInv, BillingTypes
<1>6. /\ stripe' \in Seq(StripeRow) /\ Len(stripe') = Len(stripe) + 1
      /\ Customers' = Customers \union {c} /\ stripe'[c] = new
      /\ \A d \in Customers : stripe'[d] = stripe[d]
  BY <1>3, <1>4, <1>5, RowAdded DEF Customers
<1>7. {} \in Marks /\ DOMAIN muddled = Customers
  BY CustomerTypes DEF Marks, PaymentInv
<1>8. /\ muddled' \in Seq(Marks) /\ Len(muddled') = Len(muddled) + 1
      /\ muddled'[c] = {}
      /\ \A d \in Customers : muddled'[d] = muddled[d]
  BY <1>3, <1>4, <1>5, <1>7, RowAdded
<1>9. c \notin Customers
  BY <1>3, CustomerTypes DEF PaymentInv
<1>10. /\ checkout' \in [Slots -> [at : {"idle", "create", "store", "session"},
                                   id : Nat, customer : Nat]]
       /\ checkout'[s].at = "store" /\ checkout'[s].customer = c
       /\ checkout'[s].id = checkout[s].id
       /\ \A o \in Slots \ {s} : checkout'[o] = checkout[o]
  BY <1>4, ZenonT(30) DEF PaymentInv, BillingTypes
<1>11. BillingTypes'
  BY <1>4, <1>5, <1>6, <1>8, <1>10 DEF PaymentInv, BillingTypes
<1>12. Lasting
  BY <1>6, <1>8 DEF Lasting
<1>13. /\ stripe'[c].of = checkout[s].id /\ stripe'[c].open = 0
       /\ stripe'[c].active = 0 /\ stripe'[c].past_due = 0
  BY <1>2, <1>6
<1> QED
  BY <1>1, <1>3, <1>4, <1>6, <1>8, <1>9, <1>10, <1>11, <1>12, <1>13

LEMMA CreatePayment ==
  ASSUME PaymentInv, UNCHANGED signInVars, NEW s \in Slots, CreateCustomer(s)
  PROVE  PaymentInv'
<1>1. PICK c \in Nat : c = Len(stripe) + 1
  BY CustomerTypes DEF PaymentInv
<1>2. /\ BillingTypes' /\ Lasting
      /\ UNCHANGED <<billing, outbox, events, hook>>
      /\ Customers' = Customers \union {c} /\ c \notin Customers
      /\ stripe'[c].of = checkout[s].id /\ stripe'[c].open = 0
      /\ stripe'[c].active = 0 /\ stripe'[c].past_due = 0
      /\ \A d \in Customers : /\ stripe'[d] = stripe[d]
                              /\ muddled'[d] = muddled[d]
      /\ checkout'[s].at = "store" /\ checkout'[s].customer = c
      /\ checkout'[s].id = checkout[s].id
      /\ \A o \in Slots \ {s} : checkout'[o] = checkout[o]
      /\ checkout[s].id \in AccountIds /\ checkout[s].id <= made
  BY <1>1, CustomerTypesGrow
<1>3. IdentityInv' /\ users' = users /\ made' = made
  BY NextIdentity DEF PaymentInv, signInVars
<1>4. CustomerPart'
  BY <1>2, <1>3 DEF PaymentInv, CustomerPart
<1>5. \A d \in Customers : Known(d) => Known(d)'
  BY <1>2, <1>3 DEF Known, Exists
<1>6. ASSUME NEW o \in Slots, checkout'[o].at = "session"
      PROVE  Known(checkout[o].customer)'
  <2>1. o # s /\ checkout'[o] = checkout[o]
    BY <1>2, <1>6
  <2>2. PICK d \in Customers : d = checkout[o].customer
    BY <1>6, <2>1 DEF PaymentInv, CustomerPart
  <2>3. Known(d)'
    BY <1>5, <1>6, <2>1, <2>2 DEF PaymentInv, KnownPart
  <2> QED
    BY <2>1, <2>2, <2>3 DEF Known
<1>7. ASSUME NEW d \in Customers',
             \/ stripe'[d].open = 1 \/ Live(d)' > 0
             \/ \E e \in outbox' : e.customer = d
      PROVE  Known(d)'
  <2>1. d # c
    BY <1>2, <1>7 DEF Live, PaymentInv, BillingTypes
  <2>2. d \in Customers /\ stripe'[d] = stripe[d]
    BY <1>2, <2>1
  <2> QED
    BY <1>2, <1>5, <1>7, <2>2 DEF PaymentInv, KnownPart, Live
<1>8. KnownPart'
  BY <1>6, <1>7 DEF KnownPart
<1> QED
  BY <1>2, <1>3, <1>4, <1>8 DEF PaymentInv

(* The commit of a new customer: the one it replaces, and the new one, are *)
(* marked.                                                                 *)
LEMMA StoreTypes ==
  ASSUME PaymentInv, NEW s \in Slots, StoreCustomer(s)
  PROVE  LET i == checkout[s].id
             c == checkout[s].customer
             old == billing[i].customer
         IN /\ BillingTypes' /\ Lasting
            /\ UNCHANGED <<stripe, outbox, events, hook>>
            /\ Exists(i) /\ i \in AccountIds /\ c \in Customers
            /\ stripe[c].of = i
            /\ billing'[i].customer = c
            /\ billing'[i].status = billing[i].status
            /\ \A j \in AccountIds \ {i} : billing'[j] = billing[j]
            /\ old # NoCustomer => /\ "overlap" \in muddled'[c]
                                   /\ "overlap" \in muddled'[old]
            /\ \A d \in Customers \ {c, old} : muddled'[d] = muddled[d]
            /\ old = NoCustomer => muddled' = muddled
            /\ checkout'[s].at = "session" /\ checkout'[s].id = i
            /\ checkout'[s].customer = c
            /\ \A o \in Slots \ {s} : checkout'[o] = checkout[o]
<1> DEFINE i == checkout[s].id
           c == checkout[s].customer
           old == billing[i].customer
<1>1. /\ i \in AccountIds /\ c \in Customers /\ stripe[c].of = i /\ Exists(i)
      /\ old # NoCustomer => old \in Customers
  BY DEF PaymentInv, CustomerPart, StoreCustomer
<1>2. /\ billing' = [billing EXCEPT ![i].customer = c]
      /\ checkout' = [checkout EXCEPT ![s].at = "session"]
      /\ UNCHANGED <<stripe, outbox, events, hook>>
  BY DEF StoreCustomer
<1>3. /\ billing' \in [AccountIds -> [customer : Nat, status : Statuses]]
      /\ billing'[i].status = billing[i].status
      /\ \A j \in AccountIds \ {i} : billing'[j] = billing[j]
  <2>1. c \in Nat
    BY <1>1, CustomerTypes DEF PaymentInv
  <2>2. billing \in [AccountIds -> [customer : Nat, status : Statuses]]
    BY DEF PaymentInv, BillingTypes
  <2> HIDE DEF i, c
  <2> QED
    BY <1>1, <1>2, <2>1, <2>2
<1>4. /\ checkout' \in [Slots -> [at : {"idle", "create", "store", "session"},
                                  id : Nat, customer : Nat]]
      /\ checkout'[s].at = "session" /\ checkout'[s].id = i
      /\ checkout'[s].customer = c
      /\ \A o \in Slots \ {s} : checkout'[o] = checkout[o]
  BY <1>2 DEF PaymentInv, BillingTypes
<1>5. /\ muddled \in Seq(Marks) /\ Len(muddled) = Len(stripe)
      /\ muddled \in [Customers -> Marks] /\ Len(stripe) \in Nat
      /\ Customers = 1 .. Len(stripe)
  BY CustomerTypes DEF PaymentInv, BillingTypes
<1>6. /\ muddled' \in Seq(Marks) /\ Len(muddled') = Len(muddled)
      /\ \A d \in Customers : muddled[d] \subseteq muddled'[d]
      /\ old # NoCustomer => /\ "overlap" \in muddled'[c]
                             /\ "overlap" \in muddled'[old]
      /\ \A d \in Customers \ {c, old} : muddled'[d] = muddled[d]
      /\ old = NoCustomer => muddled' = muddled
  <2>1. CASE old = NoCustomer
    BY <1>5, <2>1 DEF StoreCustomer
  <2>2. CASE old # NoCustomer
    <3>1. muddled' = [d \in Customers |->
                        IF d \in {old, c} THEN muddled[d] \union {"overlap"}
                                          ELSE muddled[d]]
      BY <2>2 DEF StoreCustomer
    <3>2. muddled' \in [1 .. Len(stripe) -> Marks]
      BY <1>5, <3>1 DEF Marks
    <3>3. muddled' \in Seq(Marks)
      BY <1>5, <3>2, SeqDef
    <3>4. Len(muddled') \in Nat /\ 1 .. Len(muddled') = 1 .. Len(stripe)
      BY <3>2, <3>3, LenProperties
    <3>5. Len(muddled') = Len(stripe)
      BY <1>5, <3>4
    <3> QED
      BY <1>1, <1>5, <2>2, <3>1, <3>3, <3>5
  <2> QED
    BY <2>1, <2>2
<1>7. BillingTypes' /\ Lasting
  BY <1>2, <1>3, <1>4, <1>5, <1>6
     DEF PaymentInv, BillingTypes, Customers, Lasting
<1> QED
  BY <1>1, <1>2, <1>3, <1>4, <1>6, <1>7

LEMMA StorePayment ==
  ASSUME PaymentInv, UNCHANGED signInVars, NEW s \in Slots, StoreCustomer(s)
  PROVE  PaymentInv'
<1>1. PICK i \in AccountIds, c \in Customers :
        i = checkout[s].id /\ c = checkout[s].customer
  BY StoreTypes
<1>2. PICK old : old = billing[i].customer
  OBVIOUS
<1>3. /\ BillingTypes' /\ Lasting
      /\ UNCHANGED <<stripe, outbox, events, hook>>
      /\ stripe[c].of = i
      /\ billing'[i].customer = c
      /\ \A j \in AccountIds \ {i} : billing'[j] = billing[j]
      /\ old # NoCustomer => /\ "overlap" \in muddled'[c]
                             /\ "overlap" \in muddled'[old]
      /\ checkout'[s].at = "session" /\ checkout'[s].id = i
      /\ checkout'[s].customer = c
      /\ \A o \in Slots \ {s} : checkout'[o] = checkout[o]
  BY <1>1, <1>2, StoreTypes
<1>4. /\ IdentityInv' /\ users' = users /\ made' = made
      /\ Customers' = Customers
  BY <1>3, NextIdentity DEF PaymentInv, signInVars, Customers
<1>5. CustomerPart'
  BY <1>1, <1>3, <1>4 DEF PaymentInv, CustomerPart
<1>6. Known(c)'
  BY <1>3 DEF Known
<1>7. ASSUME NEW d \in Customers, Known(d) PROVE Known(d)'
  <2>1. Exists(stripe[d].of)' => Exists(stripe[d].of)
    BY <1>3, <1>4 DEF Exists
  <2>2. stripe[d].of \in AccountIds
    BY CustomerTypes DEF PaymentInv, StripeRow
  <2>3. CASE stripe[d].of # i
    BY <1>3, <1>7, <2>1, <2>2, <2>3, KnownStays
  <2>4. CASE stripe[d].of = i /\ old = d
    <3>1. "overlap" \in muddled'[d]
      BY <1>3, <2>4, CustomerTypes DEF PaymentInv
    <3> QED
      BY <3>1 DEF Known
  <2>5. CASE stripe[d].of = i /\ old # d
    <3>1. "overlap" \in muddled[d] \/ ~ Exists(stripe[d].of)
      BY <1>2, <1>7, <2>5 DEF Known
    <3> QED
      BY <1>3, <2>1, <3>1 DEF Known, Lasting
  <2> QED
    BY <2>3, <2>4, <2>5
<1>8. ASSUME NEW o \in Slots, checkout'[o].at = "session"
      PROVE  Known(checkout[o].customer)'
  <2>1. CASE o = s
    BY <1>3, <1>6, <2>1 DEF Known
  <2>2. CASE o # s
    <3>1. checkout'[o] = checkout[o]
      BY <1>3, <2>2
    <3>2. PICK d \in Customers : d = checkout[o].customer
      BY <1>8, <3>1 DEF PaymentInv, CustomerPart
    <3>3. Known(d)'
      BY <1>7, <1>8, <3>1, <3>2 DEF PaymentInv, KnownPart
    <3> QED
      BY <3>1, <3>2, <3>3 DEF Known
  <2> QED
    BY <2>1, <2>2
<1>9. KnownPart'
  BY <1>3, <1>4, <1>7, <1>8 DEF PaymentInv, KnownPart, Live
<1> QED
  BY <1>3, <1>4, <1>5, <1>9 DEF PaymentInv


(* A checkout that gets its session, or none.                              *)
LEMMA CheckoutEnds ==
  ASSUME PaymentInv, UNCHANGED signInVars, NEW s \in Slots,
         CreateSession(s) \/ CheckoutFails(s)
  PROVE  /\ PaymentInv' /\ Customers' = Customers
         /\ UNCHANGED <<billing, outbox, events, hook, muddled>>
         /\ \A d \in Customers : /\ stripe'[d].of = stripe[d].of
                                 /\ stripe'[d].active = stripe[d].active
                                 /\ stripe'[d].past_due = stripe[d].past_due
<1>1. /\ UNCHANGED <<billing, outbox, events, hook, muddled>>
      /\ checkout' = [checkout EXCEPT ![s] = NotAsked]
  BY DEF CreateSession, CheckoutFails
<1>2. /\ stripe' \in Seq(StripeRow) /\ Len(stripe') = Len(stripe)
      /\ Customers' = Customers
      /\ \A d \in Customers :
           /\ stripe'[d].of = stripe[d].of
           /\ stripe'[d].active = stripe[d].active
           /\ stripe'[d].past_due = stripe[d].past_due
           /\ stripe'[d].open = 1 => stripe[d].open = 1 \/ Known(d)
  <2>1. CASE CreateSession(s)
    <3>1. PICK c \in Customers : c = checkout[s].customer
      BY <2>1 DEF CreateSession, PaymentInv, CustomerPart
    <3>2. Known(c)
      BY <2>1, <3>1 DEF CreateSession, PaymentInv, KnownPart
    <3>3. PICK active \in Nat, past_due \in Nat :
            active = stripe[c].active /\ past_due = stripe[c].past_due
      BY CustomerTypes DEF PaymentInv, StripeRow
    <3>4. Becomes(c, 1, active, past_due)
      BY <2>1, <3>1, <3>3, StripeRowSteps DEF PaymentInv
    <3>5. BillingTypes /\ 1 \in {0, 1}
      BY DEF PaymentInv
    <3>6. /\ stripe' \in Seq(StripeRow) /\ Len(stripe') = Len(stripe)
          /\ Customers' = Customers
          /\ stripe'[c].of = stripe[c].of
          /\ stripe'[c].active = active /\ stripe'[c].past_due = past_due
          /\ \A d \in Customers \ {c} : stripe'[d] = stripe[d]
      BY <3>4, <3>5, BecomesKeeps
    <3> QED
      BY <3>2, <3>3, <3>6
  <2>2. CASE CheckoutFails(s)
    BY <2>2 DEF CheckoutFails, PaymentInv, BillingTypes, Customers
  <2> QED
    BY <2>1, <2>2
<1>3. IdentityInv' /\ users' = users /\ made' = made
  BY NextIdentity DEF PaymentInv, signInVars
<1>4. /\ checkout' \in [Slots -> [at : {"idle", "create", "store", "session"},
                                  id : Nat, customer : Nat]]
      /\ checkout'[s].at = "idle"
      /\ \A o \in Slots \ {s} : checkout'[o] = checkout[o]
  BY <1>1, NotAskedType DEF PaymentInv, BillingTypes
<1>5. BillingTypes'
  BY <1>1, <1>2, <1>4 DEF PaymentInv, BillingTypes
<1>6. CustomerPart'
  BY <1>1, <1>2, <1>3, <1>4 DEF PaymentInv, CustomerPart
<1>7. \A d \in Customers : Known(d) => Known(d)'
  BY <1>1, <1>2, <1>3 DEF Known, Exists
<1>8. ASSUME NEW o \in Slots, checkout'[o].at = "session"
      PROVE  Known(checkout[o].customer)'
  <2>1. checkout'[o] = checkout[o]
    BY <1>4, <1>8
  <2>2. PICK d \in Customers : d = checkout[o].customer
    BY <1>8, <2>1 DEF PaymentInv, CustomerPart
  <2>3. Known(d)'
    BY <1>7, <1>8, <2>1, <2>2 DEF PaymentInv, KnownPart
  <2> QED
    BY <2>1, <2>2, <2>3 DEF Known
<1>9. KnownPart'
  BY <1>1, <1>2, <1>7, <1>8 DEF PaymentInv, KnownPart, Live
<1> QED
  BY <1>1, <1>2, <1>3, <1>5, <1>6, <1>9 DEF PaymentInv

-----------------------------------------------------------------------------
(* What the webhook writes for an event.                                   *)
LEMMA StatusOfTypes ==
  /\ StatusOf("completed") = "active"
  /\ StatusOf("deleted") = "cancelled"
  /\ StatusOf("payment_failed") = "past_due"
  /\ \A type \in EventTypes : StatusOf(type) \in Statuses
  BY DEF StatusOf, EventTypes, Statuses

(* Events are numbered, and a webhook request is about one that was sent   *)
(* and the account of its customer.                                        *)
EventPart ==
  /\ \A e \in outbox : e.n <= events
  /\ \A e, f \in outbox : e.n = f.n => e = f
  /\ \A h \in Hooks : hook[h].at = "found" =>
       /\ hook[h].event <= events /\ hook[h].type \in EventTypes
       /\ hook[h].id \in AccountIds
       /\ billing[hook[h].id].customer # NoCustomer
       /\ \A e \in outbox :
            e.n = hook[h].event => stripe[e.customer].of = hook[h].id

WebhookInv == PaymentInv /\ EventPart

(* The webhook writes the status column, and events are answered.          *)
WebhookActs(h) ==
  (\E e \in outbox : Receive(h, e)) \/ Record(h) \/ HookFails(h)

LEMMA NoHookType ==
  /\ NoHook \in [at : {"idle", "found"}, event : Nat, id : Nat,
                 type : EventTypes \union {"none"}, was : Statuses]
  /\ NoHook.at = "idle"
  BY DEF NoHook, Statuses

(* Receiving an event: for the holder's account, or for nobody's.          *)
LEMMA ReceiveTypes ==
  ASSUME BillingTypes, NEW h \in Hooks, NEW e \in outbox, Receive(h, e)
  PROVE  /\ BillingTypes' /\ Lasting /\ Customers' = Customers
         /\ UNCHANGED <<billing, checkout, stripe, events>>
         /\ hook[h].at = "idle"
         /\ outbox' \subseteq outbox
         /\ \A d \in Customers \ {e.customer} : muddled'[d] = muddled[d]
         /\ Overtakes(e) => "order" \in muddled'[e.customer]
         /\ ~ Overtakes(e) => muddled' = muddled
         /\ \/ \E i \in HolderOf(e.customer) :
                 /\ hook' = [hook EXCEPT ![h] =
                       [at |-> "found", event |-> e.n, id |-> i,
                        type |-> e.type, was |-> billing[i].status]]
                 /\ UNCHANGED outbox
            \/ /\ HolderOf(e.customer) = {} /\ outbox' = outbox \ {e}
               /\ UNCHANGED hook
<1>1. /\ e.n \in Nat /\ e.type \in EventTypes /\ e.customer \in Customers
  BY DEF BillingTypes
<1>2. PICK c \in Customers : c = e.customer
  BY <1>1
<1>3. UNCHANGED <<billing, checkout, stripe, events>> /\ hook[h].at = "idle"
  BY DEF Receive
<1>4. \/ \E i \in HolderOf(e.customer) :
           /\ hook' = [hook EXCEPT ![h] =
                 [at |-> "found", event |-> e.n, id |-> i,
                  type |-> e.type, was |-> billing[i].status]]
           /\ UNCHANGED outbox
      \/ /\ HolderOf(e.customer) = {} /\ outbox' = outbox \ {e}
         /\ UNCHANGED hook
  BY DEF Receive
<1>5. IF Overtakes(e) THEN Marked(c, "order") ELSE muddled' = muddled
  BY <1>2 DEF Receive, Marked
<1>6. /\ muddled' \in Seq(Marks) /\ Len(muddled') = Len(muddled)
      /\ \A d \in Customers : muddled[d] \subseteq muddled'[d]
      /\ \A d \in Customers \ {c} : muddled'[d] = muddled[d]
      /\ Overtakes(e) => "order" \in muddled'[c]
      /\ ~ Overtakes(e) => muddled' = muddled
  <2>1. CASE Overtakes(e)
    BY <1>5, <2>1, MarkedKeeps
  <2>2. CASE ~ Overtakes(e)
    BY <1>5, <2>2 DEF BillingTypes
  <2> QED
    BY <2>1, <2>2
<1>7. hook' \in [Hooks -> [at : {"idle", "found"}, event : Nat, id : Nat,
                           type : EventTypes \union {"none"}, was : Statuses]]
  <2>1. ASSUME NEW i \in HolderOf(e.customer)
        PROVE  i \in AccountIds /\ i \in Nat /\ billing[i].status \in Statuses
    BY SignInAssumption DEF HolderOf, Accounts, AccountIds, BillingTypes
  <2>2. hook \in [Hooks -> [at : {"idle", "found"}, event : Nat, id : Nat,
                            type : EventTypes \union {"none"}, was : Statuses]]
    BY DEF BillingTypes
  <2>3. CASE UNCHANGED hook
    BY <2>2, <2>3
  <2>4. ASSUME NEW i \in HolderOf(e.customer),
               hook' = [hook EXCEPT ![h] =
                 [at |-> "found", event |-> e.n, id |-> i,
                  type |-> e.type, was |-> billing[i].status]]
        PROVE  hook' \in [Hooks ->
                 [at : {"idle", "found"}, event : Nat, id : Nat,
                  type : EventTypes \union {"none"}, was : Statuses]]
    <3> DEFINE new == [at |-> "found", event |-> e.n, id |-> i,
                       type |-> e.type, was |-> billing[i].status]
    <3>1. new \in [at : {"idle", "found"}, event : Nat, id : Nat,
                   type : EventTypes \union {"none"}, was : Statuses]
      BY <1>1, <2>1
    <3>2. hook' = [hook EXCEPT ![h] = new]
      BY <2>4
    <3> HIDE DEF new
    <3> QED
      BY <2>2, <3>1, <3>2
  <2> QED
    BY <1>4, <2>3, <2>4
<1>8. outbox' \subseteq outbox
  BY <1>4
<1>9. BillingTypes' /\ Lasting /\ Customers' = Customers
  BY <1>3, <1>6, <1>7, <1>8 DEF BillingTypes, Lasting, Customers
<1> QED
  BY <1>2, <1>3, <1>4, <1>6, <1>8, <1>9

(* Recording a status leaves the customer column alone.                    *)
LEMMA RecordTypes ==
  ASSUME BillingTypes, EventPart, NEW h \in Hooks, Record(h) \/ HookFails(h)
  PROVE  /\ BillingTypes' /\ Lasting /\ Customers' = Customers
         /\ UNCHANGED <<checkout, stripe, events, muddled>>
         /\ hook' = [hook EXCEPT ![h] = NoHook]
         /\ outbox' \subseteq outbox
         /\ \A i \in AccountIds : billing'[i].customer = billing[i].customer
<1>1. /\ UNCHANGED <<checkout, stripe, events, muddled>>
      /\ hook' = [hook EXCEPT ![h] = NoHook] /\ outbox' \subseteq outbox
  BY DEF Record, HookFails
<1>2. /\ billing' \in [AccountIds -> [customer : Nat, status : Statuses]]
      /\ \A i \in AccountIds : billing'[i].customer = billing[i].customer
  <2>1. CASE billing' = billing
    BY <2>1 DEF BillingTypes
  <2>2. CASE /\ hook[h].at = "found"
             /\ billing' = [billing EXCEPT ![hook[h].id].status =
                              StatusOf(hook[h].type)]
    <3>1. PICK status \in Statuses, j \in AccountIds :
            status = StatusOf(hook[h].type) /\ j = hook[h].id
      BY <2>2, StatusOfTypes DEF EventPart
    <3>2. billing' = [billing EXCEPT ![j].status = status]
      BY <2>2, <3>1
    <3>3. billing \in [AccountIds -> [customer : Nat, status : Statuses]]
      BY DEF BillingTypes
    <3> QED
      BY <3>2, <3>3
  <2> QED
    BY <2>1, <2>2 DEF Record, HookFails
<1>3. hook' \in [Hooks -> [at : {"idle", "found"}, event : Nat, id : Nat,
                           type : EventTypes \union {"none"}, was : Statuses]]
  BY <1>1, NoHookType DEF BillingTypes
<1>4. BillingTypes' /\ Lasting /\ Customers' = Customers
  BY <1>1, <1>2, <1>3 DEF BillingTypes, Lasting, Customers
<1> QED
  BY <1>1, <1>2, <1>4

LEMMA WebhookPayment ==
  ASSUME WebhookInv, UNCHANGED signInVars, NEW h \in Hooks, WebhookActs(h)
  PROVE  PaymentInv'
<1>1. /\ BillingTypes' /\ Lasting /\ Customers' = Customers
      /\ UNCHANGED <<checkout, stripe, events>>
      /\ outbox' \subseteq outbox
      /\ \A i \in AccountIds : billing'[i].customer = billing[i].customer
  BY ReceiveTypes, RecordTypes DEF WebhookActs, WebhookInv, PaymentInv
<1>2. IdentityInv' /\ users' = users /\ made' = made
  BY NextIdentity DEF WebhookInv, PaymentInv, signInVars
<1>3. CustomerPart'
  BY <1>1, <1>2 DEF WebhookInv, PaymentInv, CustomerPart
<1>4. ASSUME NEW d \in Customers, Known(d) PROVE Known(d)'
  <2>1. stripe[d].of \in AccountIds
    BY CustomerTypes DEF WebhookInv, PaymentInv, StripeRow
  <2>2. Exists(stripe[d].of)' => Exists(stripe[d].of)
    BY <1>1, <1>2 DEF Exists
  <2> QED
    BY <1>1, <1>4, <2>1, <2>2, KnownStays
<1>5. ASSUME NEW o \in Slots, checkout'[o].at = "session"
      PROVE  Known(checkout[o].customer)'
  <2>1. PICK d \in Customers : d = checkout[o].customer
    BY <1>1, <1>5 DEF WebhookInv, PaymentInv, CustomerPart
  <2>2. Known(d)'
    BY <1>1, <1>4, <1>5, <2>1 DEF WebhookInv, PaymentInv, KnownPart
  <2> QED
    BY <1>1, <2>1, <2>2 DEF Known
<1>6. KnownPart'
  BY <1>1, <1>4, <1>5 DEF WebhookInv, PaymentInv, KnownPart, Live
<1> QED
  BY <1>1, <1>2, <1>3, <1>6 DEF PaymentInv


-----------------------------------------------------------------------------
(* Sign-in gives ids out in order, and an account that is gone stays gone. *)
LEMMA GoneStays ==
  ASSUME IdentityInv, SignInNext
  PROVE  /\ made <= made'
         /\ \A i \in AccountIds : i <= made /\ Exists(i)' => Exists(i)
<1>1. /\ made \in 0..MaxAccounts /\ users \in [AccountIds -> User]
      /\ MaxAccounts \in Nat
  BY SignInAssumption DEF IdentityInv, SignInTypeOK
<1>2. CASE users' = users /\ made' = made
  BY <1>1, <1>2 DEF Exists
<1>3. ASSUME NEW s \in Slots, CommitInsert(s)
      PROVE  /\ made <= made'
             /\ \A i \in AccountIds : i <= made /\ Exists(i)' => Exists(i)
  <2>1. /\ made' = made + 1
        /\ users' = [users EXCEPT ![made + 1] = login[s].row]
    BY <1>3 DEF CommitInsert
  <2> QED
    BY <1>1, <2>1 DEF Exists, AccountIds
<1>4. ASSUME NEW s \in Slots, CommitUpdate(s)
      PROVE  /\ made <= made'
             /\ \A i \in AccountIds : i <= made /\ Exists(i)' => Exists(i)
  <2>1. /\ made' = made /\ Exists(login[s].id)
        /\ users' = [users EXCEPT ![login[s].id] = Linked(login[s])]
    BY <1>4 DEF CommitUpdate
  <2> QED
    BY <1>1, <2>1 DEF Exists
<1>5. ASSUME NEW p \in People, NEW i \in AccountIds, DeleteAccount(p, i)
      PROVE  /\ made <= made'
             /\ \A j \in AccountIds : j <= made /\ Exists(j)' => Exists(j)
  <2>1. made' = made /\ users' = [users EXCEPT ![i] = Nobody]
    BY <1>5 DEF DeleteAccount
  <2> QED
    BY <1>1, <2>1 DEF Exists
<1>6. \/ users' = users /\ made' = made
      \/ \E s \in Slots : CommitInsert(s) \/ CommitUpdate(s)
      \/ \E p \in People, i \in AccountIds : DeleteAccount(p, i)
  BY DEF SignInNext, PhoneSignIn, GoogleSignIn, AppleByEmail, AppleById,
         InsertRefused, UpdateRefused, Refused, Lost
<1> QED
  BY <1>2, <1>3, <1>4, <1>5, <1>6

(* So a sign-in beside the payments excuses no customer the less.          *)
LEMMA SignInPayment ==
  ASSUME PaymentInv, SignInNext, UNCHANGED billingVars
  PROVE  PaymentInv'
<1>1. /\ IdentityInv' /\ made <= made' /\ made \in Nat /\ made' \in Nat
      /\ \A i \in AccountIds : i <= made /\ Exists(i)' => Exists(i)
  BY NextIdentity, GoneStays, SignInAssumption
     DEF PaymentInv, IdentityInv, SignInTypeOK
<1>2. /\ UNCHANGED <<billing, checkout, stripe, outbox, events, hook, muddled>>
      /\ Customers' = Customers
  BY DEF billingVars, Customers
<1>3. BillingTypes'
  BY <1>2 DEF PaymentInv, BillingTypes
<1>4. /\ \A c \in Customers :
           stripe[c].of \in AccountIds /\ stripe[c].of \in Nat
      /\ \A i \in AccountIds : i \in Nat
  BY CustomerTypes, SignInAssumption DEF PaymentInv, StripeRow, AccountIds
<1>5. CustomerPart'
  BY <1>1, <1>2, <1>4 DEF PaymentInv, CustomerPart
<1>6. ASSUME NEW c \in Customers, Known(c) PROVE Known(c)'
  <2>1. stripe[c].of <= made /\ stripe[c].of \in AccountIds
    BY <1>4 DEF PaymentInv, CustomerPart
  <2>2. Exists(stripe[c].of)' => Exists(stripe[c].of)
    BY <1>1, <1>2, <2>1 DEF Exists
  <2> QED
    BY <1>2, <1>6, <2>2 DEF Known
<1>7. ASSUME NEW o \in Slots, checkout'[o].at = "session"
      PROVE  Known(checkout[o].customer)'
  <2>1. PICK d \in Customers : d = checkout[o].customer
    BY <1>2, <1>7 DEF PaymentInv, CustomerPart
  <2>2. Known(d)'
    BY <1>2, <1>6, <1>7, <2>1 DEF PaymentInv, KnownPart
  <2> QED
    BY <1>2, <2>1, <2>2 DEF Known
<1>8. KnownPart'
  BY <1>2, <1>6, <1>7 DEF PaymentInv, KnownPart, Live
<1> QED
  BY <1>1, <1>3, <1>5, <1>8 DEF PaymentInv

(* The customer of an event keeps its account.                             *)
LEMMA EventOwners ==
  ASSUME BillingTypes, Lasting
  PROVE  \A e \in outbox : /\ e.customer \in Customers /\ e.n \in Nat
                           /\ stripe'[e.customer].of = stripe[e.customer].of
  BY DEF BillingTypes, Lasting

(* Events keep their numbers, and the requests their accounts.             *)
LEMMA StripeEvents ==
  ASSUME WebhookInv, NEW c \in Customers, StripeActs(c)
  PROVE  EventPart'
<1>1. /\ UNCHANGED <<billing, hook>> /\ events \in Nat
      /\ outbox \subseteq [n : Nat, type : EventTypes, customer : Customers]
      /\ hook \in [Hooks -> [at : {"idle", "found"}, event : Nat, id : Nat,
                             type : EventTypes \union {"none"},
                             was : Statuses]]
  BY DEF StripeActs, Pay, PaymentFails, Recovers, End, StripeStep,
         WebhookInv, PaymentInv, BillingTypes
<1>0. \A e \in outbox : stripe'[e.customer].of = stripe[e.customer].of
  BY StripeTypes, EventOwners DEF WebhookInv, PaymentInv
<1>2. CASE UNCHANGED <<outbox, events>>
  BY <1>0, <1>1, <1>2 DEF WebhookInv, EventPart
<1>3. ASSUME NEW type \in EventTypes, Send(type, c) PROVE EventPart'
  <2> DEFINE new == [n |-> events + 1, type |-> type, customer |-> c]
  <2>1. /\ events' = events + 1 /\ outbox' = outbox \union {new}
        /\ new.n = events'
    BY <1>3 DEF Send
  <2> HIDE DEF new
  <2>2. \A e \in outbox : e.n \in Nat /\ e.n <= events
    BY <1>1 DEF WebhookInv, EventPart
  <2>3. /\ \A e \in outbox' : e.n <= events'
        /\ \A e, f \in outbox' : e.n = f.n => e = f
    BY <1>1, <2>1, <2>2 DEF WebhookInv, EventPart
  <2>4. ASSUME NEW h \in Hooks, hook[h].at = "found"
        PROVE  /\ hook[h].event <= events'
               /\ \A e \in outbox' : e.n = hook[h].event =>
                    stripe'[e.customer].of = hook[h].id
    <3>1. /\ hook[h].event \in Nat /\ hook[h].event <= events
          /\ \A e \in outbox :
               e.n = hook[h].event => stripe[e.customer].of = hook[h].id
      BY <1>1, <2>4 DEF WebhookInv, EventPart
    <3> QED
      BY <1>0, <1>1, <2>1, <3>1
  <2> QED
    BY <1>1, <2>3, <2>4 DEF WebhookInv, EventPart
<1>4. \/ UNCHANGED <<outbox, events>>
      \/ \E type \in EventTypes : Send(type, c)
  BY DEF StripeActs, Pay, PaymentFails, Recovers, End, EventTypes
<1> QED
  BY <1>2, <1>3, <1>4

LEMMA WebhookEvents ==
  ASSUME WebhookInv, NEW h \in Hooks, WebhookActs(h)
  PROVE  EventPart'
<1>1. /\ outbox' \subseteq outbox /\ events' = events
      /\ \A i \in AccountIds : billing'[i].customer = billing[i].customer
  BY ReceiveTypes, RecordTypes DEF WebhookActs, WebhookInv, PaymentInv
<1>0. /\ \A e \in outbox : stripe'[e.customer].of = stripe[e.customer].of
      /\ stripe' = stripe
  BY ReceiveTypes, RecordTypes, EventOwners
     DEF WebhookActs, WebhookInv, PaymentInv
<1>2. hook \in [Hooks -> [at : {"idle", "found"}, event : Nat, id : Nat,
                          type : EventTypes \union {"none"}, was : Statuses]]
  BY DEF WebhookInv, PaymentInv, BillingTypes
<1>3. CASE Record(h) \/ HookFails(h)
  <2>1. hook' = [hook EXCEPT ![h] = NoHook]
    BY <1>3, RecordTypes DEF WebhookInv, PaymentInv
  <2> QED
    BY <1>0, <1>1, <1>2, <2>1, NoHookType DEF WebhookInv, EventPart
<1>4. CASE UNCHANGED hook
  BY <1>0, <1>1, <1>4 DEF WebhookInv, EventPart
<1>5. ASSUME NEW e \in outbox, NEW i \in HolderOf(e.customer),
             hook' = [hook EXCEPT ![h] =
               [at |-> "found", event |-> e.n, id |-> i, type |-> e.type,
                was |-> billing[i].status]]
      PROVE  EventPart'
  <2>1. /\ e.type \in EventTypes /\ e.customer # NoCustomer /\ e.n <= events
    BY CustomerTypes DEF WebhookInv, PaymentInv, BillingTypes, EventPart
  <2>2. i \in AccountIds /\ billing[i].customer # NoCustomer
    BY <2>1 DEF HolderOf, Accounts
  <2>3. e.customer \in Customers /\ stripe[e.customer].of = i
    BY <2>1, <2>2 DEF HolderOf, WebhookInv, PaymentInv, CustomerPart,
                      BillingTypes
  <2>4. \A f \in outbox' : f.n = e.n => stripe'[f.customer].of = i
    BY <1>0, <1>1, <2>3 DEF WebhookInv, EventPart
  <2>5. hook'[h] = [at |-> "found", event |-> e.n, id |-> i,
                    type |-> e.type, was |-> billing[i].status]
    BY <1>2, <1>5
  <2>6. /\ hook'[h].event = e.n /\ hook'[h].id = i /\ hook'[h].type = e.type
        /\ \A g \in Hooks \ {h} : hook'[g] = hook[g]
    BY <1>2, <1>5, <2>5
  <2>7. ASSUME NEW g \in Hooks, hook'[g].at = "found"
        PROVE  /\ hook'[g].event <= events' /\ hook'[g].type \in EventTypes
               /\ hook'[g].id \in AccountIds
               /\ billing'[hook'[g].id].customer # NoCustomer
               /\ \A f \in outbox' : f.n = hook'[g].event =>
                    stripe'[f.customer].of = hook'[g].id
    <3>1. CASE g = h
      BY <1>1, <2>1, <2>2, <2>4, <2>6, <3>1
    <3>2. CASE g # h
      BY <1>0, <1>1, <2>6, <2>7, <3>2 DEF WebhookInv, EventPart
    <3> QED
      BY <3>1, <3>2
  <2> QED
    BY <1>1, <2>7 DEF WebhookInv, EventPart
<1>6. \/ Record(h) \/ HookFails(h) \/ UNCHANGED hook
      \/ \E e \in outbox : \E i \in HolderOf(e.customer) :
           hook' = [hook EXCEPT ![h] =
             [at |-> "found", event |-> e.n, id |-> i, type |-> e.type,
              was |-> billing[i].status]]
  BY DEF WebhookActs, Receive
<1> QED
  BY <1>3, <1>4, <1>5, <1>6

LEMMA CheckoutEvents ==
  ASSUME WebhookInv, UNCHANGED signInVars, NEW s \in Slots,
         \/ \E p \in People, i \in AccountIds : BeginCheckout(s, p, i)
         \/ CreateCustomer(s) \/ StoreCustomer(s) \/ CreateSession(s)
         \/ CheckoutFails(s)
  PROVE  EventPart'
<1>1. UNCHANGED <<outbox, events, hook>>
  BY DEF BeginCheckout, CreateCustomer, StoreCustomer, CreateSession,
         CheckoutFails
<1>2. Lasting
  <2>1. CASE UNCHANGED <<stripe, muddled>>
    BY <2>1, SameStripe DEF WebhookInv, PaymentInv
  <2>2. CASE CreateSession(s) \/ CheckoutFails(s)
    <3>1. /\ Customers' = Customers /\ UNCHANGED muddled
          /\ \A d \in Customers : stripe'[d].of = stripe[d].of
      BY <2>2, CheckoutEnds DEF WebhookInv
    <3> QED
      BY <3>1 DEF Lasting
  <2> QED
    BY <2>1, <2>2, CustomerTypesGrow, StoreTypes
       DEF BeginCheckout, CheckoutFails, WebhookInv
<1>3. \A e \in outbox : stripe'[e.customer].of = stripe[e.customer].of
  BY <1>2, EventOwners DEF WebhookInv, PaymentInv
<1>4. CASE billing' = billing
  BY <1>1, <1>4, <1>3 DEF WebhookInv, EventPart
<1>5. CASE StoreCustomer(s)
  <2>1. PICK i \in AccountIds, c \in Customers :
          /\ i = checkout[s].id /\ c = checkout[s].customer
          /\ billing'[i].customer = c
          /\ \A j \in AccountIds \ {i} : billing'[j] = billing[j]
    BY <1>5, StoreTypes DEF WebhookInv
  <2>2. c # NoCustomer
    BY CustomerTypes DEF WebhookInv, PaymentInv
  <2> QED
    BY <1>1, <1>3, <2>1, <2>2 DEF WebhookInv, EventPart
<1> QED
  BY <1>4, <1>5
     DEF BeginCheckout, CreateCustomer, CreateSession, CheckoutFails

-----------------------------------------------------------------------------
(* The steps of the composition, by what they may touch.                   *)
LEMMA BillingSteps ==
  ASSUME [BillingNext]_<<signInVars, billingVars>>
  PROVE  \/ SignInNext /\ UNCHANGED billingVars
         \/ UNCHANGED <<signInVars, billingVars>>
         \/ /\ UNCHANGED signInVars
            /\ \/ \E s \in Slots :
                    \/ \E p \in People, i \in AccountIds :
                         BeginCheckout(s, p, i)
                    \/ CreateCustomer(s) \/ StoreCustomer(s)
                    \/ CreateSession(s) \/ CheckoutFails(s)
               \/ \E c \in Customers : StripeActs(c)
               \/ \E h \in Hooks : WebhookActs(h)
<1>1. ASSUME NEW c \in Customers,
             \/ Pay(c) \/ PaymentFails(c) \/ Recovers(c)
             \/ \E field \in {"active", "past_due"} : End(c, field)
      PROVE  StripeActs(c)
  BY <1>1 DEF StripeActs
<1>2. CASE BillingStep /\ UNCHANGED signInVars
  BY <1>1, <1>2 DEF BillingStep, WebhookActs
<1> QED
  BY <1>2 DEF BillingNext

LEMMA InitWebhook == BillingInit => WebhookInv
<1> SUFFICES ASSUME BillingInit PROVE WebhookInv
  OBVIOUS
<1> USE DEF BillingInit
<1>1. IdentityInv
  BY InitIdentity
<1>2. Customers = {} /\ Len(stripe) = 0 /\ Len(muddled) = 0
  BY DEF Customers
<1>3. stripe \in Seq(StripeRow) /\ muddled \in Seq(Marks)
  BY EmptySeq
<1>4. /\ billing \in [AccountIds -> [customer : Nat, status : Statuses]]
      /\ \A i \in AccountIds : billing[i].customer = NoCustomer
  BY DEF NoCustomer, Statuses
<1>5. BillingTypes
  BY <1>2, <1>3, <1>4, NotAskedType, NoHookType DEF BillingTypes
<1>6. CustomerPart
  BY <1>2, <1>4, NotAskedType DEF CustomerPart
<1>7. KnownPart
  BY <1>2, NotAskedType DEF KnownPart
<1>8. EventPart
  BY NoHookType DEF EventPart
<1> QED
  BY <1>1, <1>5, <1>6, <1>7, <1>8 DEF WebhookInv, PaymentInv

LEMMA NextWebhook ==
  WebhookInv /\ [BillingNext]_<<signInVars, billingVars>> => WebhookInv'
<1> SUFFICES ASSUME WebhookInv, [BillingNext]_<<signInVars, billingVars>>
             PROVE  PaymentInv' /\ EventPart'
  BY DEF WebhookInv
<1>0. PaymentInv
  BY DEF WebhookInv
<1>1. CASE SignInNext /\ UNCHANGED billingVars
  BY <1>0, <1>1, SignInPayment DEF billingVars, WebhookInv, EventPart
<1>2. CASE UNCHANGED <<signInVars, billingVars>>
  <2>1. /\ UNCHANGED <<users, made, tokens, login, billing, checkout, stripe,
                       outbox, events, hook, muddled>>
    BY <1>2 DEF signInVars, billingVars
  <2>2. IdentityInv'
    BY <1>0, <1>2, NextIdentity DEF PaymentInv
  <2>3. BillingTypes' /\ CustomerPart' /\ KnownPart'
    BY <1>0, <2>1 DEF PaymentInv, BillingTypes, CustomerPart, KnownPart,
                      Known, Live, Customers, Exists
  <2> QED
    BY <2>1, <2>2, <2>3 DEF WebhookInv, PaymentInv, EventPart
<1>3. ASSUME UNCHANGED signInVars, NEW s \in Slots,
             \/ \E p \in People, i \in AccountIds : BeginCheckout(s, p, i)
             \/ CreateCustomer(s) \/ StoreCustomer(s) \/ CreateSession(s)
             \/ CheckoutFails(s)
      PROVE  PaymentInv' /\ EventPart'
  <2>1. EventPart'
    BY <1>3, CheckoutEvents
  <2>2. PaymentInv'
    BY <1>0, <1>3, BeginPayment, CreatePayment, StorePayment, CheckoutEnds
  <2> QED
    BY <2>1, <2>2
<1>4. ASSUME UNCHANGED signInVars, NEW c \in Customers, StripeActs(c)
      PROVE  PaymentInv' /\ EventPart'
  BY <1>0, <1>4, StripePayment, StripeEvents
<1>5. ASSUME UNCHANGED signInVars, NEW h \in Hooks, WebhookActs(h)
      PROVE  PaymentInv' /\ EventPart'
  BY <1>5, WebhookPayment, WebhookEvents
<1> QED
  BY <1>1, <1>2, <1>3, <1>4, <1>5, BillingSteps

(* Whoever pays is known to the webhook, unless checkouts of the account   *)
(* overlapped or the account is gone, however requests, payments, sign-ins *)
(* and deletions interleave (subscriptions.py:50-58).                      *)
THEOREM PaymentsAreKnown == BillingSpec => []PaymentReachesAccount
<1>1. WebhookInv => PaymentReachesAccount
  BY DEF WebhookInv, PaymentInv, KnownPart, Known, PaymentReachesAccount
<1> QED
  BY <1>1, InitWebhook, NextWebhook, PTL DEF BillingSpec

-----------------------------------------------------------------------------
(* How the status column follows Stripe.                                   *)

(* An account without a customer has no status, and a customer with more   *)
(* than one subscription is marked.                                        *)
ColumnPart ==
  /\ \A i \in AccountIds :
       billing[i].customer = NoCustomer => billing[i].status = "none"
  /\ \A c \in Customers : muddled[c] = {} => Live(c) <= 1

(* Stripe's view of customer c is the one this status names.               *)
Agrees(status, c) ==
  /\ status = "active" <=> stripe[c].active > 0
  /\ status = "past_due" <=> stripe[c].past_due > 0

(* The events of customer c not answered, and the requests about account i.*)
Sent(c) == {e \in outbox : e.customer = c}
HandlersOf(i) == {h \in Hooks : hook[h].at = "found" /\ hook[h].id = i}

(* Request h handles the oldest event of customer c there is, which is     *)
(* answered only once its status is recorded.                              *)
Oldest(h, i, c) ==
  /\ \A e \in Sent(c) : hook[h].event <= e.n
  /\ \A e \in outbox : e.n = hook[h].event =>
       e.type = hook[h].type /\ e.customer = c
  /\ \/ \E e \in outbox : e.n = hook[h].event
     \/ billing[i].status = StatusOf(hook[h].type)
  /\ hook[h].was = StatusOf(hook[h].type) =>
       billing[i].status = StatusOf(hook[h].type)
  /\ Sent(c) = {} => Agrees(StatusOf(hook[h].type), c)

(* The last event, or the status once all are handled, is Stripe's view.   *)
InStep(c, i) ==
  /\ \A h \in HandlersOf(i) : Oldest(h, i, c)
  /\ \A g, h \in HandlersOf(i) : /\ hook[g].event = hook[h].event
                                 /\ hook[g].type = hook[h].type
  /\ \A e \in Sent(c) :
       (\A f \in Sent(c) : f.n <= e.n) => Agrees(StatusOf(e.type), c)
  /\ Sent(c) = {} /\ HandlersOf(i) = {} => Agrees(billing[i].status, c)

Holds(c) == Exists(stripe[c].of) /\ billing[stripe[c].of].customer = c

(* Unless something is muddled, the account that holds a customer is in    *)
(* step with it.                                                           *)
StepPart ==
  \A c \in Customers : muddled[c] = {} /\ Holds(c) => InStep(c, stripe[c].of)

StatusInv == WebhookInv /\ ColumnPart /\ StepPart

-----------------------------------------------------------------------------
(* A customer whose events, requests and numbers a step leaves alone stays *)
(* in step.                                                                *)
LEMMA StaysInStep ==
  ASSUME NEW c \in Customers, NEW i \in AccountIds, InStep(c, i),
         /\ stripe'[c].active = stripe[c].active
         /\ stripe'[c].past_due = stripe[c].past_due,
         billing'[i].status = billing[i].status,
         Sent(c)' = Sent(c), HandlersOf(i)' = HandlersOf(i),
         \A h \in HandlersOf(i) :
           /\ hook'[h] = hook[h]
           /\ \A e \in outbox' : e.n = hook[h].event => e \in outbox
  PROVE  InStep(c, i)'
<1>1. \A status : Agrees(status, c)' <=> Agrees(status, c)
  BY DEF Agrees
<1>2. ASSUME NEW h \in HandlersOf(i) PROVE Oldest(h, i, c)'
  <2>1. Oldest(h, i, c)
    BY <1>2 DEF InStep
  <2>2. PICK q : q = hook[h] /\ q = hook'[h]
    BY <1>2
  <2>3. (\E e \in outbox : e.n = q.event) => \E e \in outbox' : e.n = q.event
    <3> SUFFICES ASSUME NEW e \in outbox, e.n = q.event
                 PROVE  e \in outbox'
      OBVIOUS
    <3>1. e \in Sent(c)
      BY <2>1, <2>2 DEF Oldest, Sent
    <3> QED
      BY <3>1 DEF Sent
  <2>4. \A e \in outbox' : e.n = q.event => e \in outbox
    BY <1>2, <2>2
  <2>5. \A e \in Sent(c)' : q.event <= e.n
    BY <2>1, <2>2 DEF Oldest
  <2>6. \A e \in outbox' : e.n = q.event => e.type = q.type /\ e.customer = c
    BY <2>1, <2>2, <2>4 DEF Oldest
  <2>7. \/ \E e \in outbox' : e.n = q.event
        \/ billing'[i].status = StatusOf(q.type)
    BY <2>1, <2>2, <2>3 DEF Oldest
  <2>8. q.was = StatusOf(q.type) => billing'[i].status = StatusOf(q.type)
    BY <2>1, <2>2 DEF Oldest
  <2>9. Sent(c)' = {} => Agrees(StatusOf(q.type), c)'
    BY <1>1, <2>1, <2>2 DEF Oldest
  <2> QED
    BY <2>2, <2>5, <2>6, <2>7, <2>8, <2>9 DEF Oldest
<1>3. \A g, h \in HandlersOf(i) : /\ hook'[g].event = hook'[h].event
                                  /\ hook'[g].type = hook'[h].type
  BY DEF InStep
<1>4. \A e \in Sent(c) :
        (\A f \in Sent(c) : f.n <= e.n) => Agrees(StatusOf(e.type), c)'
  BY <1>1 DEF InStep
<1>5. PICK status : status = billing[i].status /\ status = billing'[i].status
  OBVIOUS
<1>6. Sent(c) = {} /\ HandlersOf(i) = {} => Agrees(status, c)'
  BY <1>1, <1>5 DEF InStep
<1> QED
  BY <1>2, <1>3, <1>4, <1>5, <1>6 DEF InStep


(* A step on sign-in's variables, or on a request's, or on the sessions.   *)
LEMMA QuietStatus ==
  ASSUME StatusInv, UNCHANGED <<billing, outbox, hook, muddled>>,
         Customers' = Customers,
         \A c \in Customers : /\ stripe'[c].of = stripe[c].of
                              /\ stripe'[c].active = stripe[c].active
                              /\ stripe'[c].past_due = stripe[c].past_due,
         \A i \in AccountIds : i <= made /\ Exists(i)' => Exists(i)
  PROVE  ColumnPart' /\ StepPart'
<1>1. ColumnPart'
  BY DEF StatusInv, ColumnPart, Live
<1>2. ASSUME NEW c \in Customers, muddled[c] = {}, Holds(c)'
      PROVE  InStep(c, stripe[c].of)'
  <2>1. PICK i \in AccountIds :
          i = stripe[c].of /\ i = stripe'[c].of /\ i <= made
    BY CustomerTypes
       DEF StatusInv, WebhookInv, PaymentInv, CustomerPart, StripeRow
  <2>2. Exists(i)' /\ Exists(i)
    BY <1>2, <2>1 DEF Holds, Exists
  <2>3. InStep(c, i)
    BY <1>2, <2>1, <2>2 DEF Holds, StatusInv, StepPart
  <2>4. Sent(c)' = Sent(c) /\ HandlersOf(i)' = HandlersOf(i)
    BY DEF Sent, HandlersOf
  <2>5. InStep(c, i)'
    BY <2>3, <2>4, StaysInStep
  <2> QED
    BY <2>1, <2>5
<1> QED
  BY <1>1, <1>2 DEF StepPart

(* The first customer of an account has no events yet, and no status.      *)
LEMMA CheckoutStatus ==
  ASSUME StatusInv, UNCHANGED signInVars, NEW s \in Slots,
         \/ \E p \in People, i \in AccountIds : BeginCheckout(s, p, i)
         \/ CreateCustomer(s) \/ StoreCustomer(s) \/ CreateSession(s)
         \/ CheckoutFails(s)
  PROVE  ColumnPart' /\ StepPart'
<1>0. \A i \in AccountIds : Exists(i)' => Exists(i)
  BY DEF signInVars, Exists
<1>1. CASE \/ \E p \in People, i \in AccountIds : BeginCheckout(s, p, i)
           \/ CreateSession(s) \/ CheckoutFails(s)
  <2>1. /\ UNCHANGED <<billing, outbox, hook, muddled>>
        /\ Customers' = Customers
        /\ \A c \in Customers : /\ stripe'[c].of = stripe[c].of
                                /\ stripe'[c].active = stripe[c].active
                                /\ stripe'[c].past_due = stripe[c].past_due
    <3>1. CASE CreateSession(s) \/ CheckoutFails(s)
      BY <3>1, CheckoutEnds DEF StatusInv, WebhookInv
    <3>2. CASE \E p \in People, i \in AccountIds : BeginCheckout(s, p, i)
      BY <3>2 DEF BeginCheckout, Customers
    <3> QED
      BY <1>1, <3>1, <3>2
  <2> QED
    BY <1>0, <2>1, QuietStatus
<1>2. CASE CreateCustomer(s)
  <2>1. PICK n \in Nat : n = Len(stripe) + 1
    BY CustomerTypes DEF StatusInv, WebhookInv, PaymentInv
  <2>2. /\ UNCHANGED <<billing, outbox, hook>>
        /\ Customers' = Customers \union {n} /\ n \notin Customers
        /\ stripe'[n].of = checkout[s].id
        /\ stripe'[n].active = 0 /\ stripe'[n].past_due = 0
        /\ \A d \in Customers : /\ stripe'[d] = stripe[d]
                                /\ muddled'[d] = muddled[d]
        /\ checkout[s].id \in AccountIds
    BY <1>2, <2>1, CustomerTypesGrow DEF StatusInv, WebhookInv
  <2>3. ColumnPart'
    BY <2>2 DEF StatusInv, ColumnPart, Live
  <2>4. ASSUME NEW c \in Customers', muddled'[c] = {}, Holds(c)'
        PROVE  InStep(c, stripe[c].of)'
    <3>1. c \in Customers
      <4>1. billing[checkout[s].id].customer # n
        <5>1. billing[checkout[s].id].customer = NoCustomer
                \/ billing[checkout[s].id].customer \in Customers
          BY <2>2 DEF StatusInv, WebhookInv, PaymentInv, CustomerPart
        <5>2. n # NoCustomer
          BY <2>1, CustomerTypes
             DEF NoCustomer, StatusInv, WebhookInv, PaymentInv
        <5> QED
          BY <2>2, <5>1, <5>2
      <4> QED
        BY <2>2, <2>4, <4>1 DEF Holds
    <3>2. PICK i \in AccountIds : i = stripe[c].of /\ i = stripe'[c].of
      BY <2>2, <3>1, CustomerTypes
         DEF StatusInv, WebhookInv, PaymentInv, StripeRow
    <3>3. InStep(c, i)
      BY <1>0, <2>2, <2>4, <3>1, <3>2 DEF Holds, Exists, StatusInv, StepPart
    <3>4. Sent(c)' = Sent(c) /\ HandlersOf(i)' = HandlersOf(i)
      BY <2>2 DEF Sent, HandlersOf
    <3>5. InStep(c, i)'
      BY <2>2, <3>1, <3>3, <3>4, StaysInStep
    <3> QED
      BY <3>2, <3>5
  <2> QED
    BY <2>3, <2>4 DEF StepPart
<1>3. CASE StoreCustomer(s)
  <2>1. PICK i \in AccountIds, n \in Customers :
          i = checkout[s].id /\ n = checkout[s].customer
    BY <1>3, StoreTypes DEF StatusInv, WebhookInv
  <2>2. PICK old : old = billing[i].customer
    OBVIOUS
  <2>3. /\ UNCHANGED <<stripe, outbox, hook>>
        /\ Exists(i) /\ stripe[n].of = i
        /\ billing'[i].customer = n
        /\ billing'[i].status = billing[i].status
        /\ \A j \in AccountIds \ {i} : billing'[j] = billing[j]
        /\ old # NoCustomer => /\ "overlap" \in muddled'[n]
                               /\ "overlap" \in muddled'[old]
        /\ old = NoCustomer => muddled' = muddled
        /\ Customers' = Customers /\ Lasting
    BY <1>3, <2>1, <2>2, StoreTypes DEF StatusInv, WebhookInv, Customers
  <2>4. n # NoCustomer
    BY CustomerTypes DEF StatusInv, WebhookInv, PaymentInv
  <2>5. \A c \in Customers : muddled'[c] = {} => muddled[c] = {}
    BY <2>3 DEF Lasting
  <2>6. ColumnPart'
    BY <2>3, <2>4, <2>5 DEF StatusInv, ColumnPart, Live
  <2>7. ASSUME NEW c \in Customers, muddled'[c] = {}, Holds(c)'
        PROVE  InStep(c, stripe[c].of)'
    <3>1. PICK j \in AccountIds : j = stripe[c].of
      BY CustomerTypes DEF StatusInv, WebhookInv, PaymentInv, StripeRow
    <3>2. CASE j # i
      <4>1. billing'[j] = billing[j]
        BY <2>3, <3>2
      <4>2. InStep(c, j)
        BY <1>0, <2>3, <2>5, <2>7, <3>1, <4>1
           DEF Holds, Exists, StatusInv, StepPart
      <4>3. Sent(c)' = Sent(c) /\ HandlersOf(j)' = HandlersOf(j)
        BY <2>3 DEF Sent, HandlersOf
      <4>4. InStep(c, j)'
        BY <2>3, <4>1, <4>2, <4>3, StaysInStep
      <4> QED
        BY <2>3, <3>1, <4>4
    <3>3. CASE j = i
      <4>1. c = n /\ old = NoCustomer /\ muddled[c] = {}
        BY <2>3, <2>5, <2>7, <3>1, <3>3 DEF Holds
      <4>2. ~ Known(c)
        BY <2>2, <2>3, <2>4, <4>1 DEF Known
      <4>3. ~ (Live(c) > 0) /\ Sent(c) = {}
        BY <4>2 DEF Sent, StatusInv, WebhookInv, PaymentInv, KnownPart
      <4>4. stripe[c].active = 0 /\ stripe[c].past_due = 0
        BY <4>3, CustomerTypes
           DEF Live, StatusInv, WebhookInv, PaymentInv, StripeRow
      <4>5. HandlersOf(i) = {}
        BY <2>2, <4>1
           DEF HandlersOf, StatusInv, WebhookInv, EventPart
      <4>6. billing[i].status = "none"
        BY <2>2, <4>1 DEF StatusInv, ColumnPart
      <4>7. /\ Sent(c)' = {} /\ HandlersOf(i)' = {}
            /\ billing'[i].status = "none"
            /\ stripe'[c].active = 0 /\ stripe'[c].past_due = 0
        BY <2>3, <4>3, <4>4, <4>5, <4>6 DEF Sent, HandlersOf
      <4>8. InStep(c, i)'
        BY <4>7 DEF InStep, Agrees
      <4> QED
        BY <2>3, <3>1, <3>3, <4>8
    <3> QED
      BY <3>2, <3>3
  <2> QED
    BY <2>3, <2>6, <2>7 DEF StepPart
<1> QED
  BY <1>1, <1>2, <1>3


(* What Stripe sends is the newest event, and tells its view of the        *)
(* customer, if there was one subscription at most.                        *)
LEMMA NewEvent ==
  ASSUME StatusInv, NEW c \in Customers, StripeActs(c), muddled'[c] = {}
  PROVE  \E type \in EventTypes :
           /\ Send(type, c)
           /\ Live(c)' <= 1
           /\ Agrees(StatusOf(type), c)'
<1>1. /\ stripe[c].open \in {0, 1}
      /\ stripe[c].active \in Nat /\ stripe[c].past_due \in Nat
      /\ BillingTypes /\ muddled[c] \in Marks
  BY CustomerTypes DEF StatusInv, WebhookInv, PaymentInv, StripeRow
<1>2. muddled[c] = {} /\ Live(c) <= 1
  <2>1. muddled[c] \subseteq muddled'[c]
    BY <1>1, StripeTypes DEF Lasting
  <2> QED
    BY <2>1 DEF StatusInv, ColumnPart
<1>3. ~ Recovers(c)
  <2>1. ASSUME Recovers(c) PROVE "recovery" \in muddled'[c]
    <3>1. Marked(c, "recovery")
      BY <2>1 DEF Recovers, Marked
    <3> QED
      BY <1>1, <3>1, MarkedKeeps
  <2> QED
    BY <2>1
<1>4. CASE Pay(c)
  <2>1. Live(c) = 0
    <3>1. ASSUME Live(c) # 0 PROVE "double" \in muddled'[c]
      <4>1. Marked(c, "double")
        BY <1>4, <3>1 DEF Pay, Marked
      <4> QED
        BY <1>1, <4>1, MarkedKeeps
    <3> QED
      BY <3>1
  <2>2. stripe[c].active = 0 /\ stripe[c].past_due = 0
    BY <1>1, <2>1 DEF Live
  <2>3. stripe'[c].active = 1 /\ stripe'[c].past_due = 0
    <3>1. Becomes(c, 0, 1, 0)
      BY <1>1, <1>4, <2>2, StripeRowSteps
    <3> QED
      BY <1>1, <3>1, BecomesKeeps
  <2>4. Send("completed", c) /\ "completed" \in EventTypes
    BY <1>4 DEF Pay, EventTypes
  <2>5. Live(c)' <= 1 /\ Agrees(StatusOf("completed"), c)'
    BY <2>3, StatusOfTypes DEF Live, Agrees
  <2> QED
    BY <2>4, <2>5
<1>5. CASE PaymentFails(c)
  <2>1. stripe[c].active = 1 /\ stripe[c].past_due = 0
    BY <1>1, <1>2, <1>5 DEF Live, PaymentFails
  <2>2. stripe'[c].active = 0 /\ stripe'[c].past_due = 1
    <3>1. PICK open \in {0, 1} : open = stripe[c].open
      BY <1>1
    <3>2. Becomes(c, open, 0, 1)
      BY <1>1, <1>5, <2>1, <3>1, StripeRowSteps
    <3> QED
      BY <1>1, <3>2, BecomesKeeps
  <2>3. Send("payment_failed", c) /\ "payment_failed" \in EventTypes
    BY <1>5 DEF PaymentFails, EventTypes
  <2>4. Live(c)' <= 1 /\ Agrees(StatusOf("payment_failed"), c)'
    BY <2>2, StatusOfTypes DEF Live, Agrees
  <2> QED
    BY <2>3, <2>4
<1>6. CASE End(c, "active") \/ End(c, "past_due")
  <2>1. stripe'[c].active = 0 /\ stripe'[c].past_due = 0
    <3>1. PICK open \in {0, 1} : open = stripe[c].open
      BY <1>1
    <3>2. CASE End(c, "active")
      <4>1. stripe[c].active = 1 /\ stripe[c].past_due = 0
        BY <1>1, <1>2, <3>2 DEF Live, End
      <4>2. Becomes(c, open, 0, 0)
        BY <1>1, <3>1, <3>2, <4>1, StripeRowSteps
      <4> QED
        BY <1>1, <4>2, BecomesKeeps
    <3>3. CASE End(c, "past_due")
      <4>1. stripe[c].active = 0 /\ stripe[c].past_due = 1
        BY <1>1, <1>2, <3>3 DEF Live, End
      <4>2. Becomes(c, open, 0, 0)
        BY <1>1, <3>1, <3>3, <4>1, StripeRowSteps
      <4> QED
        BY <1>1, <4>2, BecomesKeeps
    <3> QED
      BY <1>6, <3>2, <3>3
  <2>2. Send("deleted", c) /\ "deleted" \in EventTypes
    BY <1>6 DEF End, EventTypes
  <2>3. Live(c)' <= 1 /\ Agrees(StatusOf("deleted"), c)'
    BY <2>1, StatusOfTypes DEF Live, Agrees
  <2> QED
    BY <2>2, <2>3
<1> QED
  BY <1>3, <1>4, <1>5, <1>6 DEF StripeActs

LEMMA StripeStatus ==
  ASSUME StatusInv, UNCHANGED signInVars, NEW c \in Customers, StripeActs(c)
  PROVE  ColumnPart' /\ StepPart'
<1>1. /\ Lasting /\ Customers' = Customers
      /\ UNCHANGED <<billing, checkout, hook>>
      /\ \A d \in Customers \ {c} : /\ stripe'[d] = stripe[d]
                                    /\ muddled'[d] = muddled[d]
      /\ \A e \in outbox' : e \in outbox \/ e.customer = c
  BY StripeTypes DEF StatusInv, WebhookInv, PaymentInv
<1>2. \A i : Exists(i)' <=> Exists(i)
  BY DEF signInVars, Exists
<1>3. /\ outbox \subseteq [n : Nat, type : EventTypes, customer : Customers]
      /\ events \in Nat /\ \A e \in outbox : e.n <= events
      /\ hook \in [Hooks -> [at : {"idle", "found"}, event : Nat, id : Nat,
                             type : EventTypes \union {"none"},
                             was : Statuses]]
      /\ \A h \in Hooks : hook[h].at = "found" => hook[h].event <= events
  BY DEF StatusInv, WebhookInv, PaymentInv, BillingTypes, EventPart
<1>4. \/ UNCHANGED <<outbox, events>>
      \/ \E type \in EventTypes : Send(type, c)
  BY DEF StripeActs, Pay, PaymentFails, Recovers, End, EventTypes
<1>5. /\ outbox \subseteq outbox'
      /\ \A h \in Hooks, e \in outbox' :
           hook[h].at = "found" /\ e.n = hook[h].event => e \in outbox
  BY <1>3, <1>4 DEF Send
<1>6. ColumnPart'
  <2>1. ASSUME NEW d \in Customers, muddled'[d] = {} PROVE Live(d)' <= 1
    <3>1. CASE d = c
      BY <2>1, <3>1, NewEvent
    <3>2. CASE d # c
      BY <1>1, <2>1, <3>2 DEF StatusInv, ColumnPart, Live
    <3> QED
      BY <3>1, <3>2
  <2> QED
    BY <1>1, <2>1 DEF StatusInv, ColumnPart
<1>7. ASSUME NEW d \in Customers, muddled'[d] = {}, Holds(d)'
      PROVE  InStep(d, stripe[d].of)'
  <2>1. PICK i \in AccountIds : i = stripe[d].of /\ i = stripe'[d].of
    BY <1>1, CustomerTypes
       DEF StatusInv, WebhookInv, PaymentInv, StripeRow, Lasting
  <2>2. InStep(d, i)
    <3>1. Holds(d) /\ muddled[d] = {}
      BY <1>1, <1>2, <1>7, <2>1 DEF Holds, Lasting
    <3> QED
      BY <2>1, <3>1 DEF StatusInv, StepPart
  <2>3. HandlersOf(i)' = HandlersOf(i)
    BY <1>1 DEF HandlersOf
  <2>4. CASE d # c
    <3>1. Sent(d)' = Sent(d)
      BY <1>1, <1>5, <2>4 DEF Sent
    <3>2. InStep(d, i)'
      <4>1. /\ stripe'[d].active = stripe[d].active
            /\ stripe'[d].past_due = stripe[d].past_due
            /\ billing'[i].status = billing[i].status
        BY <1>1, <2>4
      <4>2. \A h \in HandlersOf(i) :
              /\ hook'[h] = hook[h]
              /\ \A e \in outbox' : e.n = hook[h].event => e \in outbox
        BY <1>1, <1>5 DEF HandlersOf
      <4> QED
        BY <2>2, <2>3, <3>1, <4>1, <4>2, StaysInStep
    <3> QED
      BY <2>1, <3>2
  <2>5. CASE d = c
    <3>1. PICK type \in EventTypes :
            Send(type, c) /\ Agrees(StatusOf(type), c)'
      BY <1>7, <2>5, NewEvent
    <3>2. PICK new : new = [n |-> events + 1, type |-> type, customer |-> c]
      OBVIOUS
    <3>3. new.n = events + 1 /\ new.type = type /\ new.customer = c
      BY <3>2
    <3>4. outbox' = outbox \union {new}
      BY <3>2, <3>1 DEF Send
    <3>5. /\ Sent(c)' = Sent(c) \union {new}
          /\ \A e \in Sent(c) : e.n \in Nat /\ e.n < new.n
      BY <1>3, <3>3, <3>4 DEF Sent
    <3>6. ASSUME NEW h \in HandlersOf(i) PROVE Oldest(h, i, c)'
      <4>1. Oldest(h, i, c) /\ h \in Hooks /\ hook[h].at = "found"
        BY <2>2, <2>5, <3>6 DEF InStep, HandlersOf
      <4>2. PICK q : /\ q = hook[h] /\ q = hook'[h] /\ q.event < new.n
                     /\ q.event \in Nat
        BY <1>1, <1>3, <3>3, <4>1
      <4>3. /\ \A e \in Sent(c)' : q.event <= e.n
            /\ Sent(c)' # {}
        BY <1>3, <3>3, <3>5, <4>1, <4>2 DEF Oldest
      <4>4. \A e \in outbox' : e.n = q.event =>
              e.type = q.type /\ e.customer = c
        BY <1>3, <3>3, <3>4, <4>1, <4>2 DEF Oldest
      <4>5. /\ \/ \E e \in outbox' : e.n = q.event
               \/ billing'[i].status = StatusOf(q.type)
            /\ q.was = StatusOf(q.type) =>
                 billing'[i].status = StatusOf(q.type)
        BY <1>1, <1>5, <4>1, <4>2 DEF Oldest
      <4> QED
        BY <4>2, <4>3, <4>4, <4>5 DEF Oldest
    <3>7. \A g, h \in HandlersOf(i) : /\ hook'[g].event = hook'[h].event
                                      /\ hook'[g].type = hook'[h].type
      BY <1>1, <2>2 DEF InStep
    <3>8. ASSUME NEW e \in Sent(c)', \A f \in Sent(c)' : f.n <= e.n
          PROVE  Agrees(StatusOf(e.type), c)'
      <4>1. e = new
        BY <1>3, <3>3, <3>5, <3>8
      <4> QED
        BY <3>1, <3>3, <4>1
    <3>9. Sent(c)' # {}
      BY <3>5
    <3>10. InStep(c, i)'
      BY <2>3, <3>6, <3>7, <3>8, <3>9 DEF InStep
    <3> QED
      BY <2>1, <2>5, <3>10
  <2> QED
    BY <2>4, <2>5
<1> QED
  BY <1>1, <1>6, <1>7 DEF StepPart


(* Receiving an event in order: the request handles the oldest one.        *)
LEMMA ReceiveStatus ==
  ASSUME StatusInv, UNCHANGED signInVars, NEW h0 \in Hooks, NEW e0 \in outbox,
         Receive(h0, e0)
  PROVE  ColumnPart' /\ StepPart'
<1>1. /\ Lasting /\ Customers' = Customers
      /\ UNCHANGED <<billing, checkout, stripe, events>>
      /\ hook[h0].at = "idle" /\ outbox' \subseteq outbox
      /\ \A d \in Customers \ {e0.customer} : muddled'[d] = muddled[d]
      /\ Overtakes(e0) => "order" \in muddled'[e0.customer]
      /\ ~ Overtakes(e0) => muddled' = muddled
  BY ReceiveTypes DEF StatusInv, WebhookInv, PaymentInv
<1>2. \A i : Exists(i)' <=> Exists(i)
  BY DEF signInVars, Exists
<1>3. /\ outbox \subseteq [n : Nat, type : EventTypes, customer : Customers]
      /\ e0.customer \in Customers /\ e0.n \in Nat
      /\ hook \in [Hooks -> [at : {"idle", "found"}, event : Nat, id : Nat,
                             type : EventTypes \union {"none"},
                             was : Statuses]]
  BY DEF StatusInv, WebhookInv, PaymentInv, BillingTypes
<1>4. ColumnPart'
  <2>1. \A d \in Customers : muddled'[d] = {} => muddled[d] = {}
    BY <1>1 DEF Lasting
  <2> QED
    BY <1>1, <2>1 DEF StatusInv, ColumnPart, Live
<1>5. ASSUME NEW d \in Customers, muddled'[d] = {}, Holds(d)'
      PROVE  InStep(d, stripe[d].of)'
  <2>1. PICK i \in AccountIds : i = stripe[d].of /\ i = stripe'[d].of
    BY <1>1, CustomerTypes DEF StatusInv, WebhookInv, PaymentInv, StripeRow
  <2>2. Holds(d) /\ muddled[d] = {} /\ InStep(d, i)
    <3>1. Holds(d) /\ muddled[d] = {}
      BY <1>1, <1>2, <1>5, <2>1 DEF Holds, Lasting
    <3> QED
      BY <2>1, <3>1 DEF StatusInv, StepPart
  <2>3. i \in HolderOf(d)
    BY <2>1, <2>2 DEF Holds, HolderOf, Accounts
  <2>4. \A h \in HandlersOf(i) : h # h0
    BY <1>1 DEF HandlersOf
  <2>5. ASSUME HolderOf(e0.customer) = {}, outbox' = outbox \ {e0},
               UNCHANGED hook
        PROVE  InStep(d, i)'
    <3>1. d # e0.customer
      BY <2>3, <2>5
    <3>2. Sent(d)' = Sent(d) /\ HandlersOf(i)' = HandlersOf(i)
      BY <2>5, <3>1 DEF Sent, HandlersOf
    <3> QED
      BY <1>1, <2>2, <2>5, <3>2, StaysInStep
  <2>6. ASSUME NEW j \in HolderOf(e0.customer), UNCHANGED outbox,
               hook' = [hook EXCEPT ![h0] =
                 [at |-> "found", event |-> e0.n, id |-> j,
                  type |-> e0.type, was |-> billing[j].status]]
        PROVE  InStep(d, i)'
    <3>1. PICK q : q = [at |-> "found", event |-> e0.n, id |-> j,
                        type |-> e0.type, was |-> billing[j].status]
      OBVIOUS
    <3>2. /\ q.at = "found" /\ q.event = e0.n /\ q.id = j
          /\ q.type = e0.type /\ q.was = billing[j].status
      BY <3>1
    <3>3. hook'[h0] = q /\ \A h \in Hooks \ {h0} : hook'[h] = hook[h]
      BY <1>3, <2>6, <3>1
    <3>4. Sent(d)' = Sent(d)
      BY <2>6 DEF Sent
    <3>5. CASE d # e0.customer
      <4>1. i # j
        BY <2>3, <2>6, <3>5 DEF HolderOf
      <4>2. HandlersOf(i)' = HandlersOf(i)
        BY <1>1, <3>2, <3>3, <4>1 DEF HandlersOf
      <4>3. \A h \in HandlersOf(i) :
              /\ hook'[h] = hook[h]
              /\ \A e \in outbox' : e.n = hook[h].event => e \in outbox
        BY <2>4, <2>6, <3>3 DEF HandlersOf
      <4> QED
        BY <1>1, <2>2, <3>4, <4>2, <4>3, StaysInStep
    <3>6. CASE d = e0.customer
      <4>1. i = j
        <5>1. j \in AccountIds /\ billing[j].customer = d /\ d # NoCustomer
          BY <2>6, <3>6, CustomerTypes
             DEF HolderOf, Accounts, StatusInv, WebhookInv, PaymentInv
        <5> QED
          BY <2>1, <5>1
             DEF StatusInv, WebhookInv, PaymentInv, CustomerPart
      <4>2. ~ Overtakes(e0)
        BY <1>1, <1>5, <3>6
      <4>3. \A e \in Sent(d) : e0.n <= e.n
        BY <1>3, <3>6, <4>2 DEF Overtakes, Sent
      <4>4. \A h \in HandlersOf(i) :
              hook[h].event = e0.n /\ hook[h].type = e0.type
        <5> SUFFICES ASSUME NEW h \in HandlersOf(i)
                     PROVE  hook[h].event = e0.n /\ hook[h].type = e0.type
          OBVIOUS
        <5>1. /\ h \in Hooks /\ hook[h].at = "found" /\ hook[h].id = i
              /\ Oldest(h, i, d)
          BY <2>2 DEF HandlersOf, InStep
        <5>2. e0 \in Sent(d)
          BY <3>6 DEF Sent
        <5>3. hook[h].event <= e0.n
          BY <5>1, <5>2 DEF Oldest
        <5>4. ~ (hook[h].event < e0.n)
          BY <2>3, <3>6, <4>2, <5>1 DEF Overtakes
        <5>5. hook[h].event = e0.n
          BY <1>3, <5>1, <5>3, <5>4
        <5> QED
          BY <5>1, <5>5 DEF Oldest
      <4>5. HandlersOf(i)' = HandlersOf(i) \union {h0}
        BY <3>2, <3>3, <4>1, <2>4 DEF HandlersOf
      <4>6. Sent(d)' # {} /\ e0 \in Sent(d)
        BY <3>4, <3>6 DEF Sent
      <4>7. \A e \in outbox : e.n = e0.n => e = e0
        BY DEF StatusInv, WebhookInv, EventPart
      <4>8. ASSUME NEW h \in HandlersOf(i)' PROVE Oldest(h, i, d)'
        <5>1. PICK r : r = hook'[h]
          OBVIOUS
        <5>2. r.event = e0.n /\ r.type = e0.type
          <6>1. CASE h = h0
            BY <3>2, <3>3, <5>1, <6>1
          <6>2. CASE h # h0
            BY <3>3, <4>4, <4>5, <4>8, <5>1, <6>2 DEF HandlersOf
          <6> QED
            BY <6>1, <6>2
        <5>3. r.was = StatusOf(r.type) => billing'[i].status = StatusOf(r.type)
          <6>1. CASE h = h0
            BY <1>1, <3>2, <3>3, <4>1, <5>1, <6>1
          <6>2. CASE h # h0
            <7>1. h \in HandlersOf(i) /\ r = hook[h]
              BY <3>3, <4>5, <4>8, <5>1, <6>2 DEF HandlersOf
            <7> QED
              BY <1>1, <2>2, <7>1 DEF InStep, Oldest
          <6> QED
            BY <6>1, <6>2
        <5>4. \A e \in Sent(d)' : r.event <= e.n
          BY <3>4, <4>3, <5>2
        <5>5. \A e \in outbox' : e.n = r.event =>
                e.type = r.type /\ e.customer = d
          BY <2>6, <3>6, <4>7, <5>2
        <5>6. \E e \in outbox' : e.n = r.event
          BY <2>6, <5>2
        <5> QED
          BY <4>6, <5>1, <5>3, <5>4, <5>5, <5>6 DEF Oldest
      <4>9. \A g, h \in HandlersOf(i)' : /\ hook'[g].event = hook'[h].event
                                         /\ hook'[g].type = hook'[h].type
        <5>1. \A h \in HandlersOf(i)' :
                hook'[h].event = e0.n /\ hook'[h].type = e0.type
          BY <3>2, <3>3, <4>4, <4>5 DEF HandlersOf
        <5> QED
          BY <5>1
      <4>10. \A status : Agrees(status, d)' <=> Agrees(status, d)
        BY <1>1 DEF Agrees
      <4>11. ASSUME NEW e \in Sent(d)', \A f \in Sent(d)' : f.n <= e.n
             PROVE  Agrees(StatusOf(e.type), d)'
        BY <2>2, <3>4, <4>10, <4>11 DEF InStep
      <4> QED
        BY <4>6, <4>8, <4>9, <4>11 DEF InStep
    <3> QED
      BY <3>5, <3>6
  <2> QED
    BY <2>1, <2>5, <2>6 DEF Receive
<1> QED
  BY <1>1, <1>4, <1>5 DEF StepPart


(* What a request leaves behind: the status of its event, or an event that *)
(* will come again.                                                        *)
LEMMA AnswerStatus ==
  ASSUME StatusInv, UNCHANGED signInVars, NEW h0 \in Hooks,
         Record(h0) \/ HookFails(h0)
  PROVE  ColumnPart' /\ StepPart'
<1>1. /\ Lasting /\ Customers' = Customers
      /\ UNCHANGED <<checkout, stripe, events, muddled>>
      /\ hook' = [hook EXCEPT ![h0] = NoHook] /\ outbox' \subseteq outbox
      /\ \A i \in AccountIds : billing'[i].customer = billing[i].customer
  BY RecordTypes DEF StatusInv, WebhookInv, PaymentInv
<1>2. \A i : Exists(i)' <=> Exists(i)
  BY DEF signInVars, Exists
<1>3. /\ outbox \subseteq [n : Nat, type : EventTypes, customer : Customers]
      /\ billing \in [AccountIds -> [customer : Nat, status : Statuses]]
      /\ hook \in [Hooks -> [at : {"idle", "found"}, event : Nat, id : Nat,
                             type : EventTypes \union {"none"},
                             was : Statuses]]
  BY DEF StatusInv, WebhookInv, PaymentInv, BillingTypes
<1>4. hook'[h0].at = "idle" /\ \A h \in Hooks \ {h0} : hook'[h] = hook[h]
  BY <1>1, <1>3, NoHookType
<1>5. PICK q : q = hook[h0]
  OBVIOUS
<1>6. /\ q.at = "found" /\ q.id \in AccountIds
      /\ billing[q.id].customer # NoCustomer
  BY <1>3, <1>5 DEF Record, HookFails, StatusInv, WebhookInv, EventPart
<1>7. \A i \in AccountIds \ {q.id} : billing'[i] = billing[i]
  BY <1>3, <1>5 DEF Record, HookFails
<1>8. ColumnPart'
  BY <1>1, <1>6, <1>7 DEF StatusInv, ColumnPart, Live
<1>9. ASSUME NEW d \in Customers, muddled[d] = {}, Holds(d)'
      PROVE  InStep(d, stripe[d].of)'
  <2>1. PICK i \in AccountIds : i = stripe[d].of /\ i = stripe'[d].of
    BY <1>1, CustomerTypes DEF StatusInv, WebhookInv, PaymentInv, StripeRow
  <2>2. InStep(d, i)
    <3>1. Holds(d)
      BY <1>1, <1>2, <1>9, <2>1 DEF Holds
    <3> QED
      BY <1>9, <2>1, <3>1 DEF StatusInv, StepPart
  <2>3. HandlersOf(i)' = HandlersOf(i) \ {h0}
    BY <1>4 DEF HandlersOf
  <2>4. \A status : Agrees(status, d)' <=> Agrees(status, d)
    BY <1>1 DEF Agrees
  <2>5. outbox' = outbox \/ outbox' = {e \in outbox : e.n # q.event}
    BY <1>5 DEF Record, HookFails
  <2>6. CASE i # q.id
    <3>1. HandlersOf(i)' = HandlersOf(i)
      BY <1>5, <2>3, <2>6 DEF HandlersOf
    <3>2. ASSUME NEW e \in Sent(d) PROVE e \in outbox'
      <4>1. e.n # q.event
        BY <1>5, <1>6, <2>1, <2>6
           DEF Sent, StatusInv, WebhookInv, EventPart
      <4> QED
        BY <2>5, <4>1 DEF Sent
    <3>3. Sent(d)' = Sent(d)
      BY <1>1, <3>2 DEF Sent
    <3>4. \A h \in HandlersOf(i) :
            /\ hook'[h] = hook[h]
            /\ \A e \in outbox' : e.n = hook[h].event => e \in outbox
      BY <1>1, <1>4, <3>1, <2>3 DEF HandlersOf
    <3>5. InStep(d, i)'
      BY <1>1, <1>7, <2>2, <2>6, <3>1, <3>3, <3>4, StaysInStep
    <3> QED
      BY <2>1, <3>5
  <2>7. CASE i = q.id
    <3>1. h0 \in HandlersOf(i) /\ Oldest(h0, i, d)
      BY <1>5, <1>6, <2>2, <2>7 DEF HandlersOf, InStep
    <3>2. PICK new : new = StatusOf(q.type)
      OBVIOUS
    <3>3. CASE HookFails(h0)
      <4>1. UNCHANGED <<billing, outbox>> /\ Sent(d)' = Sent(d)
        BY <3>3 DEF HookFails, Sent
      <4>2. ASSUME NEW h \in HandlersOf(i)' PROVE Oldest(h, i, d)'
        <5>1. h \in HandlersOf(i) /\ hook'[h] = hook[h]
          BY <1>4, <2>3, <4>2 DEF HandlersOf
        <5>2. Oldest(h, i, d)
          BY <2>2, <5>1 DEF InStep
        <5> QED
          BY <2>4, <4>1, <5>1, <5>2 DEF Oldest
      <4>3. \A g, h \in HandlersOf(i)' : /\ hook'[g].event = hook'[h].event
                                         /\ hook'[g].type = hook'[h].type
        BY <1>4, <2>2, <2>3 DEF InStep, HandlersOf
      <4>4. ASSUME NEW e \in Sent(d)', \A f \in Sent(d)' : f.n <= e.n
            PROVE  Agrees(StatusOf(e.type), d)'
        BY <2>2, <2>4, <4>1, <4>4 DEF InStep
      <4>5. ASSUME Sent(d)' = {}
            PROVE  billing'[i].status = new /\ Agrees(new, d)'
        <5>1. Sent(d) = {}
          BY <4>1, <4>5
        <5>2. ~ \E e \in outbox : e.n = q.event
          BY <1>5, <3>1, <5>1 DEF Oldest, Sent
        <5>3. billing[i].status = new /\ Agrees(new, d)
          BY <1>5, <3>1, <3>2, <5>1, <5>2 DEF Oldest
        <5> QED
          BY <2>4, <4>1, <5>3
      <4> QED
        BY <2>1, <4>2, <4>3, <4>4, <4>5 DEF InStep
    <3>4. CASE Record(h0)
      <4>1. billing'[i].status = new
        <5>1. CASE q.was = new /\ UNCHANGED billing
          BY <1>5, <3>1, <3>2, <5>1 DEF Oldest
        <5>2. CASE billing' = [billing EXCEPT ![i].status = new]
          BY <1>3, <5>2
        <5> QED
          BY <1>5, <2>7, <3>2, <3>4, <5>1, <5>2 DEF Record
      <4>2. Sent(d)' \subseteq Sent(d)
        BY <1>1 DEF Sent
      <4>3. /\ \A e \in Sent(d) : e.n \in Nat /\ q.event <= e.n
            /\ \A e \in outbox : e.n = q.event =>
                 e.type = q.type /\ e.customer = d
            /\ \A e \in Sent(d) : e \in Sent(d)' \/ e.n = q.event
            /\ q.event \in Nat
        BY <1>3, <1>5, <2>5, <3>1 DEF Oldest, Sent
      <4>4. ASSUME Sent(d)' = {} PROVE Agrees(new, d)'
        <5>1. CASE Sent(d) = {}
          BY <1>5, <2>4, <3>1, <3>2, <5>1 DEF Oldest
        <5>2. ASSUME NEW e \in Sent(d) PROVE Agrees(new, d)'
          <6>1. \A f \in Sent(d) : f.n = q.event
            BY <4>3, <4>4
          <6>2. e.n = q.event /\ e.type = q.type
            BY <4>3, <6>1 DEF Sent
          <6>3. \A f \in Sent(d) : f.n <= e.n
            BY <4>3, <6>1, <6>2
          <6>4. Agrees(StatusOf(e.type), d)
            BY <2>2, <6>3 DEF InStep
          <6> QED
            BY <2>4, <3>2, <6>2, <6>4
        <5> QED
          BY <5>1, <5>2
      <4>5. ASSUME NEW h \in HandlersOf(i)' PROVE Oldest(h, i, d)'
        <5>1. h \in HandlersOf(i) /\ hook'[h] = hook[h]
          BY <1>4, <2>3, <4>5 DEF HandlersOf
        <5>2. Oldest(h, i, d)
          BY <2>2, <5>1 DEF InStep
        <5>3. hook[h].event = q.event /\ hook[h].type = q.type
          BY <1>5, <2>2, <3>1, <5>1 DEF InStep
        <5>4. PICK r : /\ r = hook[h] /\ r = hook'[h]
                       /\ r.event = q.event /\ r.type = q.type
          BY <5>1, <5>3
        <5>5. \A e \in Sent(d)' : r.event <= e.n
          BY <4>2, <4>3, <5>4
        <5>6. \A e \in outbox' : e.n = r.event =>
                e.type = r.type /\ e.customer = d
          BY <1>1, <4>3, <5>4
        <5>7. billing'[i].status = StatusOf(r.type)
          BY <3>2, <4>1, <5>4
        <5>8. Sent(d)' = {} => Agrees(StatusOf(r.type), d)'
          BY <3>2, <4>4, <5>4
        <5> QED
          BY <5>4, <5>5, <5>6, <5>7, <5>8 DEF Oldest
      <4>6. \A g, h \in HandlersOf(i)' : /\ hook'[g].event = hook'[h].event
                                         /\ hook'[g].type = hook'[h].type
        BY <1>4, <2>2, <2>3 DEF InStep, HandlersOf
      <4>7. ASSUME NEW e \in Sent(d)', \A f \in Sent(d)' : f.n <= e.n
            PROVE  Agrees(StatusOf(e.type), d)'
        <5>1. e \in Sent(d) /\ \A f \in Sent(d) : f.n <= e.n
          BY <4>2, <4>3, <4>7
        <5>2. Agrees(StatusOf(e.type), d)
          BY <2>2, <5>1 DEF InStep
        <5> QED
          BY <2>4, <5>2
      <4> QED
        BY <2>1, <4>1, <4>4, <4>5, <4>6, <4>7 DEF InStep
    <3> QED
      BY <3>3, <3>4
  <2> QED
    BY <2>6, <2>7
<1> QED
  BY <1>1, <1>8, <1>9 DEF StepPart

-----------------------------------------------------------------------------
LEMMA InitStatus == BillingInit => StatusInv
<1> SUFFICES ASSUME BillingInit PROVE StatusInv
  OBVIOUS
<1>1. Customers = {} /\ \A i \in AccountIds : billing[i].status = "none"
  BY DEF BillingInit, Customers
<1> QED
  BY <1>1, InitWebhook DEF StatusInv, ColumnPart, StepPart

LEMMA NextStatus ==
  StatusInv /\ [BillingNext]_<<signInVars, billingVars>> => StatusInv'
<1> SUFFICES ASSUME StatusInv, [BillingNext]_<<signInVars, billingVars>>
             PROVE  ColumnPart' /\ StepPart'
  BY NextWebhook DEF StatusInv
<1>1. CASE SignInNext /\ UNCHANGED billingVars
  <2>1. \A i \in AccountIds : i <= made /\ Exists(i)' => Exists(i)
    BY <1>1, GoneStays DEF StatusInv, WebhookInv, PaymentInv
  <2>2. UNCHANGED <<billing, outbox, hook, muddled, stripe>>
    BY <1>1 DEF billingVars
  <2> QED
    BY <2>1, <2>2, QuietStatus DEF Customers
<1>2. CASE UNCHANGED <<signInVars, billingVars>>
  <2>1. UNCHANGED <<users, billing, outbox, hook, muddled, stripe>>
    BY <1>2 DEF billingVars, signInVars
  <2> QED
    BY <2>1, QuietStatus DEF Customers, Exists
<1>3. ASSUME UNCHANGED signInVars, NEW h \in Hooks, WebhookActs(h)
      PROVE  ColumnPart' /\ StepPart'
  BY <1>3, ReceiveStatus, AnswerStatus DEF WebhookActs
<1> QED
  BY <1>1, <1>2, <1>3, CheckoutStatus, StripeStatus, BillingSteps

(* When every event has been answered in order the status column is        *)
(* Stripe's view, whatever was repeated, lost or interleaved on the way    *)
(* (subscriptions.py:107-131).                                             *)
THEOREM StatusIsStripes == BillingSpec => []StatusFollowsStripe
<1>1. ASSUME StatusInv PROVE StatusFollowsStripe
  <2> SUFFICES ASSUME NEW c \in Customers, Settled(c), muddled[c] = {},
                      NEW i \in HolderOf(c)
               PROVE  Agrees(billing[i].status, c)
    BY DEF StatusFollowsStripe, Agrees
  <2>1. i \in AccountIds /\ Exists(i) /\ billing[i].customer = c
    BY DEF HolderOf, Accounts
  <2>2. stripe[c].of = i
    BY <1>1, <2>1, CustomerTypes
       DEF StatusInv, WebhookInv, PaymentInv, CustomerPart
  <2>3. InStep(c, i)
    BY <1>1, <2>1, <2>2 DEF Holds, StatusInv, StepPart
  <2>4. Sent(c) = {} /\ HandlersOf(i) = {}
    BY DEF Settled, Sent, HandlersOf
  <2> QED
    BY <2>3, <2>4 DEF InStep
<1> QED
  BY <1>1, InitStatus, NextStatus, PTL DEF BillingSpec
=============================================================================
