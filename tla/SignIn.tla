------------------------------- MODULE SignIn -------------------------------
(***************************************************************************)
(* Sign-in (app/api/routes/auth.py): an account is found or created by     *)
(* phone number, by the e-mail address of a Google account, or by the      *)
(* e-mail address and the user id of an Apple account.                     *)
(*                                                                         *)
(* Supabase and Apple vouch for what a person presents, so a refused token *)
(* (401) changes nothing and is left out.  A request looks accounts up and *)
(* commits in separate steps; other sign-ins, and the deletion of an       *)
(* account, come between them.  The unique columns of table users make the *)
(* database refuse a commit.                                               *)
(***************************************************************************)
EXTENDS Naturals, FiniteSets

CONSTANTS
  People,       \* a person has one phone number, Google and Apple account
  Null,         \* the null of a column
  Slots,        \* the requests that can be in flight at once
  MaxAccounts   \* bound on the accounts ever created

ASSUME SignInAssumption == Null \notin People /\ MaxAccounts \in Nat

VARIABLES
  users,        \* users[i]: the row of table users with id i
  made,         \* ids given to accounts: ids are never used again
  tokens,       \* the JWTs issued: who asked for it, for which account
  login         \* login[s]: the sign-in request in slot s

signInVars == <<users, made, tokens, login>>

AccountIds == 1..MaxAccounts

(* A person's own address, as Google gives it, or Apple's private relay.   *)
Emails == People \X {"own", "relay"}

(* The identity columns; phone numbers and Apple ids are named after their *)
(* owner.  Names and auth_provider decide nothing.                         *)
User == [phone : People \union {Null},
         email : Emails \union {<<Null, "own">>},
         apple : People \union {Null}]

NoEmail == <<Null, "own">>
Nobody == [phone |-> Null, email |-> NoEmail, apple |-> Null]

(* An account has at least one identity: Nobody is no account.             *)
Exists(i) == users[i] # Nobody
Accounts == {i \in AccountIds : Exists(i)}

ByPhone(p) == {i \in Accounts : users[i].phone = p}
ByEmail(e) == {i \in Accounts : users[i].email = e}
ByApple(p) == {i \in Accounts : users[i].apple = p}

Idle == [at |-> "idle", person |-> Null, row |-> Nobody, id |-> 0,
         raced |-> FALSE, split |-> FALSE]

(* A request's row: what it inserts, or what it looks for and adds.        *)
Login == [at     : {"idle", "apple_id", "insert", "update", "refused"},
          person : People \union {Null},
          row    : User,
          id     : 0..MaxAccounts,
          raced  : BOOLEAN,   \* the person's accounts changed meanwhile
          split  : BOOLEAN]   \* refused: the identities are two accounts'

Free(s) == login[s].at \in {"idle", "refused"}

(* Another request of the person p has changed the person's accounts.      *)
Raced(l, p) ==
  [s \in Slots |-> IF l[s].person = p /\ l[s].at # "refused"
                   THEN [l[s] EXCEPT !.raced = TRUE] ELSE l[s]]

Start(s, at, p, row, id) ==
  login' = [login EXCEPT ![s] =
    [at |-> at, person |-> p, row |-> row, id |-> id,
     raced |-> FALSE, split |-> FALSE]]
-----------------------------------------------------------------------------
(* verify_otp: the account with this phone number is signed in at once, a  *)
(* new one waits for its commit.                                           *)
PhoneSignIn(s, p) ==
  /\ Free(s)
  /\ \/ \E i \in ByPhone(p) : /\ tokens' = tokens \union {<<p, i>>}
                              /\ UNCHANGED login
     \/ /\ ByPhone(p) = {}
        /\ Start(s, "insert", p, [Nobody EXCEPT !.phone = p], 0)
        /\ UNCHANGED tokens
  /\ UNCHANGED <<users, made>>

(* _google_social_auth: an address is required.                            *)
GoogleSignIn(s, p) ==
  LET row == [Nobody EXCEPT !.email = <<p, "own">>]
  IN /\ Free(s)
     /\ \/ \E i \in ByEmail(<<p, "own">>) : Start(s, "update", p, row, i)
        \/ ByEmail(<<p, "own">>) = {} /\ Start(s, "insert", p, row, 0)
     /\ UNCHANGED <<users, made, tokens>>

(* What Apple's token may carry: no address, the person's, or a relay.     *)
AppleEmails(p) == {NoEmail, <<p, "own">>, <<p, "relay">>}

(* Faulty variant: looked up even when the token has no address, which     *)
(* finds an account that has none.                                         *)
AppleByEmailAlways(s, p, e) ==
  LET row == [phone |-> Null, email |-> e, apple |-> p]
  IN /\ Free(s)
     /\ \/ \E i \in ByEmail(e) : Start(s, "update", p, row, i)
        \/ ByEmail(e) = {} /\ Start(s, "apple_id", p, row, 0)
     /\ UNCHANGED <<users, made, tokens>>

(* _apple_social_auth, first look-up: by e-mail, if the token has one.     *)
AppleByEmail(s, p, e) ==
  LET row == [phone |-> Null, email |-> e, apple |-> p]
  IN /\ Free(s)
     /\ \/ e # NoEmail /\ \E i \in ByEmail(e) : Start(s, "update", p, row, i)
        \/ /\ e = NoEmail \/ ByEmail(e) = {}
           /\ Start(s, "apple_id", p, row, 0)
     /\ UNCHANGED <<users, made, tokens>>

(* Faulty variant: no fallback to the Apple id.                            *)
AppleByIdSkipped(s) ==
  /\ login[s].at = "apple_id"
  /\ login' = [login EXCEPT ![s].at = "insert"]
  /\ UNCHANGED <<users, made, tokens>>

(* Second look-up, if the first found nobody: by the Apple id.             *)
AppleById(s) ==
  LET q == login[s]
  IN /\ q.at = "apple_id"
     /\ \/ \E i \in ByApple(q.person) :
             login' = [login EXCEPT ![s].at = "update", ![s].id = i]
        \/ ByApple(q.person) = {} /\ login' = [login EXCEPT ![s].at = "insert"]
     /\ UNCHANGED <<users, made, tokens>>

(* The unique columns of the row are free of other accounts.               *)
Unique(row, id) ==
  \A i \in Accounts \ {id} :
    /\ row.phone # Null => users[i].phone # row.phone
    /\ row.email # NoEmail => users[i].email # row.email
    /\ row.apple # Null => users[i].apple # row.apple

(* The commit raises, and the answer is 500.                               *)
Refused(s) ==
  LET q == login[s]
      known == {i \in Accounts :
                  \/ q.row.email # NoEmail /\ users[i].email = q.row.email
                  \/ q.row.apple # Null /\ users[i].apple = q.row.apple}
  IN /\ login' = [login EXCEPT ![s].at = "refused",
                               ![s].split = Cardinality(known) > 1]
     /\ UNCHANGED <<users, made, tokens>>

CommitInsert(s) ==
  LET q == login[s]
  IN /\ q.at = "insert"
     /\ made < MaxAccounts
     /\ Unique(q.row, 0)
     /\ made' = made + 1
     /\ users' = [users EXCEPT ![made + 1] = q.row]
     /\ tokens' = tokens \union {<<q.person, made + 1>>}
     /\ login' = [Raced(login, q.person) EXCEPT ![s] = Idle]

InsertRefused(s) ==
  login[s].at = "insert" /\ ~ Unique(login[s].row, 0) /\ Refused(s)

(* What the update makes of the account as it was loaded: an Apple id is   *)
(* added if there was none, an e-mail address never.                       *)
Linked(q) ==
  IF q.row.apple # Null /\ users[q.id].apple = Null
  THEN [users[q.id] EXCEPT !.apple = q.row.apple] ELSE users[q.id]

CommitUpdate(s) ==
  LET q == login[s]
  IN /\ q.at = "update"
     /\ Exists(q.id) /\ Unique(Linked(q), q.id)
     /\ users' = [users EXCEPT ![q.id] = Linked(q)]
     /\ tokens' = tokens \union {<<q.person, q.id>>}
     /\ login' = [(IF Linked(q) # users[q.id] THEN Raced(login, q.person)
                                              ELSE login) EXCEPT ![s] = Idle]
     /\ UNCHANGED made

(* The Apple id is another account's, or the account is gone: its update   *)
(* or its refresh raises.                                                  *)
UpdateRefused(s) ==
  LET q == login[s]
  IN /\ q.at = "update"
     /\ ~ (Exists(q.id) /\ Unique(Linked(q), q.id))
     /\ Refused(s)

(* The connection or the process is lost before the commit.                *)
Lost(s) ==
  /\ ~ Free(s)
  /\ login' = [login EXCEPT ![s] = Idle]
  /\ UNCHANGED <<users, made, tokens>>

(* get_required_user: a token is good while its account exists.            *)
Authenticated(p, i) == <<p, i>> \in tokens /\ Exists(i)

(* delete_account of users.py, here in one step; AccountData looks inside. *)
DeleteAccount(p, i) ==
  /\ Authenticated(p, i)
  /\ users' = [users EXCEPT ![i] = Nobody]
  /\ login' = Raced(login, p)
  /\ UNCHANGED <<made, tokens>>
-----------------------------------------------------------------------------
SignInInit ==
  /\ users = [i \in AccountIds |-> Nobody]
  /\ made = 0
  /\ tokens = {}
  /\ login = [s \in Slots |-> Idle]

SignInNext ==
  \/ \E s \in Slots, p \in People :
       \/ PhoneSignIn(s, p) \/ GoogleSignIn(s, p)
       \/ \E e \in AppleEmails(p) : AppleByEmail(s, p, e)
  \/ \E s \in Slots :
       \/ AppleById(s) \/ CommitInsert(s) \/ InsertRefused(s)
       \/ CommitUpdate(s) \/ UpdateRefused(s) \/ Lost(s)
  \/ \E p \in People, i \in AccountIds : DeleteAccount(p, i)

SignInSpec == SignInInit /\ [][SignInNext]_signInVars
-----------------------------------------------------------------------------
(* Whose identities an account holds.                                      *)
Holders(row) == {row.phone, row.email[1], row.apple} \ {Null}

SignInTypeOK ==
  /\ users \in [AccountIds -> User]
  /\ made \in 0..MaxAccounts
  /\ tokens \subseteq People \X AccountIds
  /\ login \in [Slots -> Login]

(* However sign-ins by phone, Google and Apple and deletions overlap,      *)
(* nobody is given a token for an account that holds another person's      *)
(* identity, and no account mixes two people's (auth.py:254-294).          *)
NobodyEntersAnothersAccount ==
  /\ \A i \in Accounts : \E p \in People : Holders(users[i]) = {p}
  /\ \A t \in tokens : Exists(t[2]) => Holders(users[t[2]]) = {t[1]}

(* A sign-in fails only when the person's accounts changed under it, or    *)
(* the address and the Apple id it presents already are two accounts.      *)
(* The latter lasts: Apple without an address, then Google, then Apple     *)
(* with the address is refused every time (auth.py:285).                   *)
RefusedOnlyWhenRacedOrSplit ==
  \A s \in Slots : login[s].at = "refused" => login[s].raced \/ login[s].split
=============================================================================
