----------------------------- MODULE MailCodes ------------------------------
(* Addresses and the codes that prove them: accounts.Service's Register,   *)
(* ResendVerification, ConfirmEmail, ChangeEmail and ConfirmEmailChange,   *)
(* with the console's SetVerified and VerifyAll beside them.               *)
(*                                                                         *)
(* A code is a row of email_tokens and the mail that carries it, inserted  *)
(* by one transaction. Requests go on for ever; what a transaction wrote   *)
(* is in its locals until it commits, its row lock is `holder`, and a      *)
(* unique index makes whoever claims an address wait for whoever claims it *)
(* uncommitted.                                                            *)
EXTENDS Naturals, Sequences

CONSTANTS
  Requests,
  Users,
  Addresses,
  None,
  MaxCodes        \* how many codes may be mailed (bound)

(* What is taken of the constants: who instantiates this assumes it.         *)
CodeConstants == None \notin Requests \cup Users \cup Addresses /\ MaxCodes \in Nat

VARIABLES
  email,      \* users.email, None for a user not registered yet
  pending,    \* users.pending_email
  verified,   \* users.verified
  codes,      \* the email_tokens in id order, each with the address it went to
  spent,      \* the numbers of those consumed
  holder,     \* the transaction that holds the user's row
  pc, call,   \* the next statement of each request, and what it is asked
  read,       \* the address it read, or is about to make live
  first       \* what a user registered with (for the properties)

vars == <<email, pending, verified, codes, spent, holder, pc, call, read, first>>
Tables == <<email, pending, verified, codes, spent, first>>

-----------------------------------------------------------------------------
Purposes == {"verify", "email_change"}
Codes == [user : Users, purpose : Purposes, to : Addresses]

Calls == [op : {"register"}, user : Users, to : Addresses, verified : BOOLEAN]
           \cup [op : {"resend"}, user : Users]
           \cup [op : {"change"}, user : Users, to : Addresses]
           \cup [op : Purposes, user : Users, code : 1..MaxCodes]

FirstLabel == [register |-> "insert", resend |-> "read", change |-> "look",
               verify |-> "consume", email_change |-> "consume"]
Labels == {"idle", "insert", "read", "look", "consume", "send", "queue", "apply", "commit"}

At(r, label) == pc[r] = label
Go(r, label) == pc' = [pc EXCEPT ![r] = label]
User(r) == call[r].user
Registered(u) == email[u] # None

(* What the mail gives its reader: the code of a user, whatever it is for. *)
Arrive(r) ==
  /\ At(r, "idle")
  /\ \E c \in Calls :
       /\ Registered(c.user) <=> c.op # "register"
       /\ c.op \in Purposes => c.code \in DOMAIN codes /\ codes[c.code].user = c.user
       /\ call' = [call EXCEPT ![r] = c]
       /\ Go(r, FirstLabel[c.op])
  /\ UNCHANGED <<Tables, holder, read>>

Finish(r) ==
  /\ Go(r, "idle")
  /\ call' = [call EXCEPT ![r] = None]
  /\ read' = [read EXCEPT ![r] = None]
  /\ holder' = [u \in Users |-> IF holder[u] = r THEN None ELSE holder[u]]

(* A refusal, an error or a lost connection: an open transaction is rolled *)
(* back, and a code it consumed is as good as new.                         *)
Leave(r) == ~At(r, "idle") /\ Finish(r) /\ UNCHANGED Tables

(* enqueueTokenEmail: the digest stored and the mail queued, in the        *)
(* caller's transaction.                                                   *)
Mail(u, purpose, to) ==
  /\ Len(codes) < MaxCodes
  /\ codes' = Append(codes, [user |-> u, purpose |-> purpose, to |-> to])

(* users_email_uniq and users_pending_email_uniq, as an insertion sees     *)
(* them: a key in flight is waited for, a committed one is a violation.    *)
ClaimsLive(q, a) ==
  /\ At(q, "commit")
  /\ \/ call[q].op = "register" /\ call[q].to = a
     \/ call[q].op = "email_change" /\ read[q] = a
ClaimsPending(q, a) == At(q, "commit") /\ call[q].op = "change" /\ call[q].to = a

FreeLive(r, u, a) == /\ \A q \in Requests \ {r} : ~ClaimsLive(q, a)
                     /\ \A v \in Users \ {u} : email[v] # a
FreePending(r, u, a) == /\ \A q \in Requests \ {r} : ~ClaimsPending(q, a)
                        /\ \A v \in Users \ {u} : pending[v] # a

LockRow(r) == holder[User(r)] = None /\ holder' = [holder EXCEPT ![User(r)] = r]

-----------------------------------------------------------------------------
(* Register: CreateUser under the unique index, and the verification mail  *)
(* in the same transaction unless the settings ask for none.               *)
InsertUser(r) ==
  /\ At(r, "insert")
  /\ ~Registered(User(r))
  /\ FreeLive(r, User(r), call[r].to)
  /\ LockRow(r)
  /\ Go(r, "commit")
  /\ UNCHANGED <<Tables, call, read>>

(* Slip: the mail is left to a transaction of its own.                     *)
RegisterWithoutMail(r) ==
  /\ At(r, "commit") /\ call[r].op = "register"
  /\ email' = [email EXCEPT ![User(r)] = call[r].to]
  /\ first' = [first EXCEPT ![User(r)] = [to |-> call[r].to, verified |-> call[r].verified]]
  /\ verified' = [verified EXCEPT ![User(r)] = call[r].verified]
  /\ Finish(r)
  /\ UNCHANGED <<pending, codes, spent>>

CommitRegister(r) ==
  /\ At(r, "commit") /\ call[r].op = "register"
  /\ email' = [email EXCEPT ![User(r)] = call[r].to]
  /\ first' = [first EXCEPT ![User(r)] = [to |-> call[r].to, verified |-> call[r].verified]]
  /\ verified' = [verified EXCEPT ![User(r)] = call[r].verified]
  /\ IF call[r].verified THEN UNCHANGED codes
                         ELSE Mail(User(r), "verify", call[r].to)
  /\ Finish(r)
  /\ UNCHANGED <<pending, spent>>

(* ResendVerification: the address is read before the transaction.         *)
ReadForResend(r) ==
  /\ At(r, "read")
  /\ ~verified[User(r)]
  /\ read' = [read EXCEPT ![r] = email[User(r)]]
  /\ Go(r, "send")
  /\ UNCHANGED <<Tables, holder, call>>

CommitResend(r) ==
  /\ At(r, "send")
  /\ Mail(User(r), "verify", read[r])
  /\ Finish(r)
  /\ UNCHANGED <<email, pending, verified, spent, first>>

(* ChangeEmail: refused if the address is anybody's, then queued.          *)
LookForOwner(r) ==
  /\ At(r, "look")
  /\ \A v \in Users : email[v] # call[r].to
  /\ Go(r, "queue")
  /\ UNCHANGED <<Tables, holder, call, read>>

SetPendingEmail(r) ==
  /\ At(r, "queue")
  /\ FreePending(r, User(r), call[r].to)
  /\ LockRow(r)
  /\ Go(r, "commit")
  /\ UNCHANGED <<Tables, call, read>>

CommitChange(r) ==
  /\ At(r, "commit") /\ call[r].op = "change"
  /\ pending' = [pending EXCEPT ![User(r)] = call[r].to]
  /\ Mail(User(r), "email_change", call[r].to)
  /\ Finish(r)
  /\ UNCHANGED <<email, verified, spent, first>>

(* ConsumeEmailToken: right purpose, not spent, and one at a time.         *)
Spending(r) == pc[r] \in {"apply", "commit"} /\ call[r].op \in Purposes
InFlight(c) == \E q \in Requests : Spending(q) /\ call[q].code = c

(* Slip: whatever it was mailed for.                                       *)
ConsumeAnyPurpose(r) ==
  /\ At(r, "consume")
  /\ ~InFlight(call[r].code) /\ call[r].code \notin spent
  /\ Go(r, "apply")
  /\ UNCHANGED <<Tables, holder, call, read>>

ConsumeEmailToken(r) ==
  /\ At(r, "consume")
  /\ ~InFlight(call[r].code) /\ call[r].code \notin spent
  /\ codes[call[r].code].purpose = call[r].op
  /\ Go(r, "apply")
  /\ UNCHANGED <<Tables, holder, call, read>>

(* MarkUserVerified, or the promotion of what is pending by now.           *)
MarkUserVerified(r) ==
  /\ At(r, "apply") /\ call[r].op = "verify"
  /\ LockRow(r)
  /\ Go(r, "commit")
  /\ UNCHANGED <<Tables, call, read>>

Promote(r) ==
  /\ At(r, "apply") /\ call[r].op = "email_change"
  /\ pending[User(r)] # None
  /\ FreeLive(r, User(r), pending[User(r)])
  /\ LockRow(r)
  /\ read' = [read EXCEPT ![r] = pending[User(r)]]
  /\ Go(r, "commit")
  /\ UNCHANGED <<Tables, call>>

CommitConfirm(r) ==
  /\ At(r, "commit") /\ call[r].op \in Purposes
  /\ verified' = [verified EXCEPT ![User(r)] = TRUE]
  /\ IF call[r].op = "email_change"
       THEN /\ email' = [email EXCEPT ![User(r)] = read[r]]
            /\ pending' = [pending EXCEPT ![User(r)] = None]
       ELSE UNCHANGED <<email, pending>>
  /\ spent' = spent \cup {call[r].code}
  /\ Finish(r)
  /\ UNCHANGED <<codes, first>>

(* The console's repair, for one user or for all.                          *)
SetVerified(u, v) ==
  /\ Registered(u) /\ holder[u] = None
  /\ verified' = [verified EXCEPT ![u] = v]
  /\ UNCHANGED <<email, pending, codes, spent, holder, pc, call, read, first>>

VerifyAll ==
  /\ \A u \in Users : Registered(u) /\ ~verified[u] => holder[u] = None
  /\ verified' = [u \in Users |-> verified[u] \/ Registered(u)]
  /\ UNCHANGED <<email, pending, codes, spent, holder, pc, call, read, first>>

-----------------------------------------------------------------------------
Init ==
  /\ email = [u \in Users |-> None] /\ pending = [u \in Users |-> None]
  /\ verified = [u \in Users |-> FALSE]
  /\ codes = <<>> /\ spent = {}
  /\ holder = [u \in Users |-> None]
  /\ pc = [r \in Requests |-> "idle"]
  /\ call = [r \in Requests |-> None] /\ read = [r \in Requests |-> None]
  /\ first = [u \in Users |-> None]

Next ==
  \/ \E r \in Requests :
       \/ Arrive(r) \/ Leave(r) \/ InsertUser(r) \/ CommitRegister(r)
       \/ ReadForResend(r) \/ CommitResend(r)
       \/ LookForOwner(r) \/ SetPendingEmail(r) \/ CommitChange(r)
       \/ ConsumeEmailToken(r) \/ MarkUserVerified(r) \/ Promote(r) \/ CommitConfirm(r)
  \/ \E u \in Users, v \in BOOLEAN : SetVerified(u, v)
  \/ VerifyAll

Spec == Init /\ [][Next]_vars

-----------------------------------------------------------------------------
(* Every variable keeps to the type of the column or local it stands for.  *)
TypeOK ==
  /\ email \in [Users -> Addresses \cup {None}]
  /\ first \in [Users -> [to : Addresses, verified : BOOLEAN] \cup {None}]
  /\ pending \in [Users -> Addresses \cup {None}] /\ verified \in [Users -> BOOLEAN]
  /\ codes \in Seq(Codes) /\ Len(codes) <= MaxCodes /\ spent \subseteq DOMAIN codes
  /\ holder \in [Users -> Requests \cup {None}]
  /\ pc \in [Requests -> Labels] /\ call \in [Requests -> Calls \cup {None}]
  /\ read \in [Requests -> Addresses \cup {None}]

(* A live address changes only by spending a code that was mailed for such *)
(* a change of that user's, one not spent before: never by the code of a   *)
(* registration or of somebody else (ConfirmEmailChange; migration 00020). *)
FlipSpends == \A u \in Users :
  Registered(u) /\ email'[u] # email[u] =>
    \E c \in spent' \ spent : codes[c].user = u /\ codes[c].purpose = "email_change"
FlipSpendsItsCode == [][FlipSpends]_vars

(* Whoever registered unverified was mailed the code to verify with, to    *)
(* the address given: the account and the mail commit together or not at   *)
(* all (Register; nobody is left behind the wall of the unverified).       *)
NobodyStranded ==
  \A u \in Users : Registered(u) /\ ~first[u].verified =>
    [user |-> u, purpose |-> "verify", to |-> first[u].to] \in {codes[c] : c \in DOMAIN codes}

-----------------------------------------------------------------------------
(* Why: what a request was let in with stays so, whoever is about to       *)
(* commit holds the row, and a code that is being spent is unspent and     *)
(* nobody else's.                                                          *)
Asked == \A r \in Requests : pc[r] # "idle" =>
  /\ call[r] \in Calls
  /\ pc[r] = "insert" => call[r].op = "register"
  /\ pc[r] \in {"read", "send"} => call[r].op = "resend"
  /\ pc[r] \in {"look", "queue"} => call[r].op = "change"
  /\ pc[r] \in {"consume", "apply"} => call[r].op \in Purposes
  /\ pc[r] = "commit" => call[r].op # "resend"
  /\ call[r].op # "register" => Registered(User(r))
  /\ call[r].op \in Purposes => call[r].code \in DOMAIN codes /\ codes[call[r].code].user = User(r)

RowHeld == \A r \in Requests : pc[r] = "commit" =>
  /\ holder[User(r)] = r
  /\ call[r].op = "register" => ~Registered(User(r))
  /\ call[r].op = "email_change" => read[r] # None

Known == \A r \in Requests : pc[r] = "send" => read[r] # None

Unspent == \A r \in Requests : Spending(r) =>
  /\ call[r].code \notin spent /\ codes[call[r].code].purpose = call[r].op
  /\ \A q \in Requests : Spending(q) /\ call[q].code = call[r].code => q = r

Inv == Asked /\ RowHeld /\ Known /\ Unspent /\ NobodyStranded
=============================================================================
