------------------------------ MODULE Sessions ------------------------------
(* Passwords and what they vouch for: accounts.Service's Login,            *)
(* ChangePassword, ResetPassword, CreateToken, DeleteToken and Logout, the *)
(* check on every request (Authenticate), and the console's                *)
(* ForcePasswordChange and SetBanned, statement by statement.              *)
(*                                                                         *)
(* A session carries a fingerprint of the password hash it was minted      *)
(* under and is judged against the current one; an API token carries       *)
(* nothing and must be deleted. Each request runs once, each statement is  *)
(* an action; what a transaction wrote is in its locals until it commits,  *)
(* and the row lock on the user is `holder`.                               *)
EXTENDS Naturals, Sequences

CONSTANTS
  Requests,       \* requests to the service and to the console
  Users,
  Passwords,      \* what a user may type
  Imported,       \* the users whose first hash is a bcrypt hash of an import
  None,
  MaxCodes        \* how many reset codes may be mailed (bound)

ASSUME SessionConstants ==
  /\ Imported \subseteq Users
  /\ None \notin Requests \cup Users \cup Passwords
  /\ MaxCodes \in Nat

VARIABLES
  hash,       \* users.password_hash
  forced,     \* users.must_change_password
  banned,     \* users.banned
  sessions,   \* the sessions table
  tokens,     \* the api_tokens table
  codes,      \* the user of each email_token of purpose "reset", in id order
  spent,      \* those with consumed_at set
  holder,     \* the transaction that holds the user's row, or None
  pc,         \* the next statement of each request
  call,       \* what the request is asked to do
  read,       \* the password hash it read, or wrote since
  doomed      \* the rows its transaction has deleted

vars == <<hash, forced, banned, sessions, tokens, codes, spent, holder, pc, call, read, doomed>>

Tables == <<hash, forced, banned, sessions, tokens, codes, spent, holder>>

-----------------------------------------------------------------------------
(* Hashes, and what is compared with them *)

(* What Hash mints: Argon2id over a fresh salt, named here by the request  *)
(* that draws it, for none mints two.                                      *)
Hash(p, r) == [pw |-> p, legacy |-> FALSE, salt |-> r]

(* The hash a user comes with: of an import, bcrypt.                       *)
FirstHash(u, p) == [pw |-> p, legacy |-> u \in Imported, salt |-> None]

Hashes == [pw : Passwords, legacy : BOOLEAN, salt : Requests \cup {None}]

(* Verify's two results: the password is right, in either format, and its  *)
(* hash is not what would be minted today.                                 *)
Verify(h, p) == h.pw = p
NeedsRehash(h) == h.legacy

(* The fingerprint of a session: a digest of the whole hash, salt included.*)
(* Slip: a digest of the password.                                         *)
FingerprintOfPassword(h) == h.pw
Fingerprint(h) == h

(* GetSession answers with the current hash: a session whose fingerprint   *)
(* no longer matches is as good as none.                                   *)
Matches(s) == s.fp = Fingerprint(hash[s.user])

(* The credential of a request: a session that matches, or an API token.   *)
(* (Expiry is a WHERE clause: an expired row is one that is not there.)    *)
GetSession(u) == {s \in sessions : s.user = u}
GetAPIToken(u) == {t \in tokens : t.user = u}
Presents(u) == (\E s \in GetSession(u) : Matches(s)) \/ GetAPIToken(u) # {}

(* Both kinds of credential end in one read of the user.                   *)
LoadPrincipal(u) == [banned |-> banned[u], forced |-> forced[u]]

-----------------------------------------------------------------------------
(* Requests *)

Calls == [op : {"login"}, user : Users, pw : Passwords]
           \cup [op : {"change"}, user : Users, pw : Passwords, next : Passwords]
           \cup [op : {"reset"}, user : Users, code : 1..MaxCodes, next : Passwords]
           \cup [op : {"token", "force", "ban"}, user : Users]

Labels == {"start", "principal", "read", "rehash", "mint", "insert",
           "consume", "update", "sessions", "tokens", "commit", "done"}

InTransaction == {"update", "sessions", "tokens", "commit"}

At(r, label) == pc[r] = label
Go(r, label) == pc' = [pc EXCEPT ![r] = label]
User(r) == call[r].user

(* A request reaches its handler. Changing a password and minting a token  *)
(* are behind Authenticate; a reset carries a code that was mailed.        *)
FirstLabel == [login |-> "read", change |-> "principal", token |-> "principal",
               reset |-> "consume", force |-> "update", ban |-> "update"]

Arrive(r) ==
  /\ At(r, "start")
  /\ \E c \in Calls :
       /\ c.op = "reset" => c.code \in DOMAIN codes /\ codes[c.code] = c.user
       /\ c.op \in {"change", "token"} => Presents(c.user)
       /\ call' = [call EXCEPT ![r] = c]
       /\ Go(r, FirstLabel[c.op])
  /\ UNCHANGED <<Tables, read, doomed>>

(* Every way out that changes nothing more: a refusal, an error, a lost    *)
(* connection. An open transaction is rolled back.                         *)
Leave(r) ==
  /\ pc[r] \notin {"start", "done"}
  /\ Go(r, "done")
  /\ holder' = [u \in Users |-> IF holder[u] = r THEN None ELSE holder[u]]
  /\ UNCHANGED <<hash, forced, banned, sessions, tokens, codes, spent, call, read, doomed>>

(* The walls: nobody banned passes, and one who must change the password   *)
(* may do only that.                                                       *)
Admit(r) ==
  /\ At(r, "principal")
  /\ LET p == LoadPrincipal(User(r)) IN
       /\ ~p.banned
       /\ call[r].op = "token" => ~p.forced
  /\ Go(r, IF call[r].op = "token" THEN "insert" ELSE "read")
  /\ UNCHANGED <<Tables, call, read, doomed>>

(* Login and ChangePassword read the user outside any transaction and      *)
(* verify the password against what they read. A login of a banned user    *)
(* stops here, and one under an old format goes on to its rehash.          *)
GetUser(u) == [hash |-> hash[u], banned |-> banned[u]]

ReadUser(r) ==
  /\ At(r, "read")
  /\ LET user == GetUser(User(r)) IN
       /\ Verify(user.hash, call[r].pw)
       /\ call[r].op = "login" => ~user.banned
       /\ read' = [read EXCEPT ![r] = user.hash]
       /\ Go(r, CASE call[r].op = "change" -> "update"
                  [] call[r].op = "login" /\ NeedsRehash(user.hash) -> "rehash"
                  [] call[r].op = "login" /\ ~NeedsRehash(user.hash) -> "mint")
  /\ UNCHANGED <<Tables, call, doomed>>

(* UpdatePasswordHash, a statement of its own: whatever the hash is by     *)
(* now, it is replaced. The session will be of the hash written here.      *)
Rehash(r) ==
  /\ At(r, "rehash")
  /\ holder[User(r)] = None
  /\ LET h == Hash(call[r].pw, r) IN
       /\ hash' = [hash EXCEPT ![User(r)] = h]
       /\ read' = [read EXCEPT ![r] = h]
  /\ Go(r, "mint")
  /\ UNCHANGED <<forced, banned, sessions, tokens, codes, spent, holder, call, doomed>>

(* The upgrade fails: it is logged, and the old hash goes on being used.   *)
RehashFails(r) ==
  /\ At(r, "rehash")
  /\ Go(r, "mint")
  /\ UNCHANGED <<Tables, call, read, doomed>>

(* CreateSession on the pool, which ends a login.                          *)
Mint(r) ==
  /\ At(r, "mint")
  /\ sessions' = sessions \cup {[id |-> r, user |-> User(r), fp |-> Fingerprint(read[r])]}
  /\ Go(r, "done")
  /\ UNCHANGED <<hash, forced, banned, tokens, codes, spent, holder, call, read, doomed>>

(* CreateAPIToken, one statement. Its foreign key takes KEY SHARE of the   *)
(* user's row, which an update of the password does not keep out. `under`  *)
(* and `beside` are for the properties: the hash in force, and whoever     *)
(* held the row.                                                           *)
InsertToken(r) ==
  /\ At(r, "insert")
  /\ tokens' = tokens \cup
       {[id |-> r, user |-> User(r), under |-> hash[User(r)], beside |-> holder[User(r)]]}
  /\ Go(r, "done")
  /\ UNCHANGED <<hash, forced, banned, sessions, codes, spent, holder, call, read, doomed>>

-----------------------------------------------------------------------------
(* Transactions *)

(* ConsumeEmailToken: of two that present one code, the second waits for   *)
(* the first and finds it spent.                                           *)
Consuming(c) == \E r \in Requests :
  pc[r] \in InTransaction /\ call[r].op = "reset" /\ call[r].code = c

Consume(r) ==
  /\ At(r, "consume")
  /\ ~Consuming(call[r].code)
  /\ call[r].code \notin spent
  /\ Go(r, "update")
  /\ UNCHANGED <<Tables, call, read, doomed>>

(* The UPDATE of the user's row, unconditional in each of the four, and    *)
(* what each of them deletes next.                                         *)
AfterUpdate == [change |-> "tokens", reset |-> "tokens", force |-> "sessions", ban |-> "sessions"]

Update(r) ==
  /\ At(r, "update")
  /\ holder[User(r)] = None
  /\ holder' = [holder EXCEPT ![User(r)] = r]
  /\ Go(r, AfterUpdate[call[r].op])
  /\ UNCHANGED <<hash, forced, banned, sessions, tokens, codes, spent, call, read, doomed>>

(* Slip: the API tokens are forgotten.                                     *)
SkipTokens(r) ==
  /\ At(r, "tokens")
  /\ Go(r, "commit")
  /\ UNCHANGED <<Tables, call, read, doomed>>

(* DeleteUserSessions and DeleteUserAPITokens: the rows committed by now.  *)
SweepSessions(r) ==
  /\ At(r, "sessions")
  /\ doomed' = [doomed EXCEPT ![r] = @ \cup {s \in sessions : s.user = User(r)}]
  /\ Go(r, IF call[r].op = "force" THEN "tokens" ELSE "commit")
  /\ UNCHANGED <<Tables, call, read>>

SweepTokens(r) ==
  /\ At(r, "tokens")
  /\ doomed' = [doomed EXCEPT ![r] = @ \cup {t \in tokens : t.user = User(r)}]
  /\ Go(r, "commit")
  /\ UNCHANGED <<Tables, call, read>>

Release(r) == holder' = [holder EXCEPT ![User(r)] = None]

(* ChangePassword commits: the new hash, no forced change pending, the     *)
(* tokens gone and a session of the new hash in place of the caller's.     *)
CommitChange(r) ==
  /\ At(r, "commit") /\ call[r].op = "change"
  /\ LET h == Hash(call[r].next, r) IN
       /\ hash' = [hash EXCEPT ![User(r)] = h]
       /\ sessions' = sessions \cup {[id |-> r, user |-> User(r), fp |-> Fingerprint(h)]}
  /\ forced' = [forced EXCEPT ![User(r)] = FALSE]
  /\ tokens' = tokens \ doomed[r]
  /\ Release(r) /\ Go(r, "done")
  /\ UNCHANGED <<banned, codes, spent, call, read, doomed>>

(* ResetPassword commits: the same, and the code is spent; no session.     *)
CommitReset(r) ==
  /\ At(r, "commit") /\ call[r].op = "reset"
  /\ hash' = [hash EXCEPT ![User(r)] = Hash(call[r].next, r)]
  /\ forced' = [forced EXCEPT ![User(r)] = FALSE]
  /\ tokens' = tokens \ doomed[r]
  /\ spent' = spent \cup {call[r].code}
  /\ Release(r) /\ Go(r, "done")
  /\ UNCHANGED <<banned, sessions, codes, call, read, doomed>>

(* ForcePasswordChange and SetBanned commit. (The lock on the roster of    *)
(* admins, which a ban takes first, is AdminRoster's.)                     *)
CommitForce(r) ==
  /\ At(r, "commit") /\ call[r].op = "force"
  /\ forced' = [forced EXCEPT ![User(r)] = TRUE]
  /\ sessions' = sessions \ doomed[r]
  /\ tokens' = tokens \ doomed[r]
  /\ Release(r) /\ Go(r, "done")
  /\ UNCHANGED <<hash, banned, codes, spent, call, read, doomed>>

CommitBan(r) ==
  /\ At(r, "commit") /\ call[r].op = "ban"
  /\ banned' = [banned EXCEPT ![User(r)] = TRUE]
  /\ sessions' = sessions \ doomed[r]
  /\ Release(r) /\ Go(r, "done")
  /\ UNCHANGED <<hash, forced, tokens, codes, spent, call, read, doomed>>

-----------------------------------------------------------------------------
(* Single statements *)

(* RequestPasswordReset: the code and the mail that carries it, together.  *)
RequestReset(u) ==
  /\ Len(codes) < MaxCodes
  /\ codes' = Append(codes, u)
  /\ UNCHANGED <<hash, forced, banned, sessions, tokens, spent, holder, pc, call, read, doomed>>

(* Logout deletes the session of the cookie, matching or not.              *)
Logout(s) ==
  /\ sessions' = sessions \ {s}
  /\ UNCHANGED <<hash, forced, banned, tokens, codes, spent, holder, pc, call, read, doomed>>

(* DeleteToken names the token and its owner in one WHERE clause.          *)
DeleteToken(u, t) ==
  /\ Presents(u) /\ t.user = u
  /\ tokens' = tokens \ {t}
  /\ UNCHANGED <<hash, forced, banned, sessions, codes, spent, holder, pc, call, read, doomed>>

Unban(u) ==
  /\ banned[u] /\ holder[u] = None
  /\ banned' = [banned EXCEPT ![u] = FALSE]
  /\ UNCHANGED <<hash, forced, sessions, tokens, codes, spent, holder, pc, call, read, doomed>>

-----------------------------------------------------------------------------
Init ==
  /\ \E own \in [Users -> Passwords] : hash = [u \in Users |-> FirstHash(u, own[u])]
  /\ forced = [u \in Users |-> FALSE]
  /\ banned = [u \in Users |-> FALSE]
  /\ sessions = {[id |-> None, user |-> u, fp |-> Fingerprint(hash[u])] : u \in Users}
  /\ tokens = {[id |-> None, user |-> u, under |-> hash[u], beside |-> None] : u \in Users}
  /\ codes = <<>> /\ spent = {}
  /\ holder = [u \in Users |-> None]
  /\ pc = [r \in Requests |-> "start"]
  /\ call = [r \in Requests |-> None]
  /\ read = [r \in Requests |-> None]
  /\ doomed = [r \in Requests |-> {}]

Step(r) ==
  \/ Arrive(r) \/ Leave(r) \/ Admit(r) \/ ReadUser(r)
  \/ Rehash(r) \/ RehashFails(r) \/ Mint(r) \/ InsertToken(r)
  \/ Consume(r) \/ Update(r) \/ SweepSessions(r) \/ SweepTokens(r)
  \/ CommitChange(r) \/ CommitReset(r) \/ CommitForce(r) \/ CommitBan(r)

Next ==
  \/ \E r \in Requests : Step(r)
  \/ \E u \in Users : RequestReset(u) \/ Unban(u)
  \/ \E s \in sessions : Logout(s)
  \/ \E u \in Users, t \in tokens : DeleteToken(u, t)

Spec == Init /\ [][Next]_vars

-----------------------------------------------------------------------------
SessionRows == [id : Requests \cup {None}, user : Users, fp : Hashes]
TokenRows == [id : Requests \cup {None}, user : Users, under : Hashes,
              beside : Requests \cup {None}]

(* Every variable keeps to the type of the column or local it stands for.  *)
TypeOK ==
  /\ hash \in [Users -> Hashes]
  /\ forced \in [Users -> BOOLEAN] /\ banned \in [Users -> BOOLEAN]
  /\ sessions \subseteq SessionRows /\ tokens \subseteq TokenRows
  /\ codes \in Seq(Users) /\ Len(codes) <= MaxCodes /\ spent \subseteq DOMAIN codes
  /\ holder \in [Users -> Requests \cup {None}]
  /\ pc \in [Requests -> Labels]
  /\ call \in [Requests -> Calls \cup {None}]
  /\ read \in [Requests -> Hashes \cup {None}]
  /\ doomed \in [Requests -> SUBSET (SessionRows \cup TokenRows)]

(* A session that a new password has ended never works again, even if the  *)
(* old password is chosen again or put back: migration 00007 promises that *)
(* changing a password invalidates the other sessions for free.            *)
StaysEnded == \A s \in sessions \cap sessions' : ~Matches(s) => ~Matches(s)'
EndedStaysEnded == [][StaysEnded]_vars

(* No API token outlives a change or reset of the password, except one     *)
(* inserted while that very transaction held the row: everything committed *)
(* before it began is swept with it.                                       *)
OutlivedOnlyBeside ==
  \A t \in tokens :
    LET w == hash[t.user].salt IN
      w = t.under.salt \/ call[w].op = "login" \/ t.beside = w

(* A login never changes a password: "The password itself has not changed",*)
(* auth.sql on UpdatePasswordHash.                                         *)
LoginKeepsPassword == [][\A u \in Users :
  hash'[u] # hash[u] /\ call[hash'[u].salt].op = "login" => hash'[u].pw = hash[u].pw]_vars

-----------------------------------------------------------------------------
(* Why the first two hold: what is known of a request by where it is.      *)
CallFits ==
  \A r \in Requests :
    /\ pc[r] # "start" =>
         /\ call[r] \in Calls
         /\ call[r].op = "reset" => call[r].code \in DOMAIN codes
    /\ pc[r] = "principal" => call[r].op \in {"change", "token"}
    /\ pc[r] = "read" => call[r].op \in {"login", "change"}
    /\ pc[r] \in {"rehash", "mint"} => call[r].op = "login" /\ read[r] \in Hashes
    /\ pc[r] = "insert" => call[r].op = "token"
    /\ pc[r] = "consume" => call[r].op = "reset"
    /\ pc[r] = "update" => call[r].op \in {"change", "reset", "force", "ban"}
    /\ pc[r] = "sessions" => call[r].op \in {"force", "ban"}
    /\ pc[r] = "tokens" => call[r].op \in {"change", "reset", "force"}

(* A hash is nowhere to be found before the request that draws its salt    *)
(* has written it: no row can match a password that is still to come.      *)
Drawn(h) == h.salt = None \/ pc[h.salt] \in {"mint", "done"}

DrawnOnce ==
  /\ \A u \in Users : Drawn(hash[u])
  /\ \A s \in sessions : Drawn(s.fp)
  /\ \A r \in Requests : pc[r] \in {"rehash", "mint"} => Drawn(read[r])

(* From its update to its commit a transaction holds the user's row.       *)
RowHeld == \A r \in Requests : pc[r] \in InTransaction \ {"update"} => holder[User(r)] = r

(* Once it has swept the tokens, the ones left were inserted beside it.    *)
Swept ==
  \A r \in Requests :
    pc[r] = "commit" /\ call[r].op \in {"change", "reset"} =>
      \A t \in tokens : t.user = User(r) => t \in doomed[r] \/ t.beside = r

(* Under a first hash there are only the tokens that were made under it.   *)
FirstIsFirst == \A t \in tokens : hash[t.user].salt = None => t.under.salt = None

Inv == CallFits /\ DrawnOnce /\ RowHeld /\ Swept /\ FirstIsFirst /\ OutlivedOnlyBeside
=============================================================================
