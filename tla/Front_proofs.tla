---------------------------- MODULE Front_proofs ----------------------------
(***************************************************************************)
(* Theorems about the front of the house, in the order of the file: what   *)
(* passwords vouch for, the access policy, imports, the streams, and the   *)
(* budgets of the credential routes. They hold for any number of requests, *)
(* users, clients, publishers, rows and windows, for any event and any     *)
(* viewer in it, any archive and any limit.                                *)
(***************************************************************************)
EXTENDS MCFront, Data_proofs

-----------------------------------------------------------------------------
(* Types, which hold together with what is known of a request by where it  *)
(* is: a statement reads its arguments from the call.                      *)

Fits == TypeOK /\ CallFits

(* What each kind of call carries.                                         *)
LEMMA CallCarries ==
  ASSUME NEW c \in Calls
  PROVE  /\ c.user \in Users
         /\ c.op \in {"login", "change", "reset", "token", "force", "ban"}
         /\ c.op \in {"login", "change"} => c.pw \in Passwords
         /\ c.op \in {"change", "reset"} => c.next \in Passwords
         /\ c.op = "reset" => c.code \in 1..MaxCodes
  BY DEF Calls

(* Where a request of each kind starts, and goes after its update.         *)
LEMMA Routes ==
  /\ FirstLabel["login"] = "read" /\ FirstLabel["change"] = "principal"
  /\ FirstLabel["token"] = "principal" /\ FirstLabel["reset"] = "consume"
  /\ FirstLabel["force"] = "update" /\ FirstLabel["ban"] = "update"
  /\ AfterUpdate["change"] = "tokens" /\ AfterUpdate["reset"] = "tokens"
  /\ AfterUpdate["force"] = "sessions" /\ AfterUpdate["ban"] = "sessions"
  BY DEF FirstLabel, AfterUpdate

(* A hash that is minted or that a user came with is a hash.               *)
LEMMA HashType ==
  ASSUME NEW p \in Passwords, NEW r \in Requests
  PROVE  Hash(p, r) \in Hashes /\ Hash(p, r).salt = r /\ Hash(p, r).pw = p
  BY DEF Hash, Hashes

LEMMA FirstHashType ==
  ASSUME NEW p \in Passwords, NEW u \in Users
  PROVE  FirstHash(u, p) \in Hashes /\ FirstHash(u, p).salt = None
  BY DEF FirstHash, Hashes

(* The arguments of a statement.                                           *)
LEMMA Arguments ==
  ASSUME Fits, NEW r \in Requests, pc[r] # "start"
  PROVE  /\ User(r) \in Users /\ call[r].user = User(r)
         /\ call[r] \in Calls
         /\ call[r].op \in {"login", "change"} => call[r].pw \in Passwords
         /\ call[r].op \in {"change", "reset"} => call[r].next \in Passwords
         /\ hash[User(r)] \in Hashes
  BY CallCarries DEF Fits, TypeOK, CallFits, User

(* A statement changes nothing of another request, and of its own call only *)
(* when the request arrives.                                               *)
LEMMA StepFrame ==
  ASSUME Fits, NEW r \in Requests, Step(r)
  PROVE  /\ \A t \in Requests \ {r} :
              pc'[t] = pc[t] /\ call'[t] = call[t] /\ read'[t] = read[t] /\ doomed'[t] = doomed[t]
         /\ pc[r] # "start" => call' = call
         /\ pc[r] # "done" /\ pc'[r] # "start"
         /\ pc[r] = "mint" => pc'[r] = "done"
         /\ codes' = codes
<1> USE DEF Fits, TypeOK, At, Go
<1>1. CASE Arrive(r)
  <2>1. PICK c \in Calls : pc' = [pc EXCEPT ![r] = FirstLabel[c.op]] /\ call' = [call EXCEPT ![r] = c]
    BY <1>1 DEF Arrive
  <2>2. FirstLabel[c.op] # "start"
    BY CallCarries, Routes
  <2> QED BY <1>1, <2>1, <2>2 DEF Arrive, Tables
<1>2. CASE Leave(r)
  BY <1>2 DEF Leave
<1>3. CASE Admit(r)
  BY <1>3 DEF Admit, Tables
<1>4. CASE ReadUser(r)
  <2>1. call[r].op \in {"login", "change"}
    BY <1>4 DEF ReadUser, CallFits
  <2>2. /\ pc' = [pc EXCEPT ![r] = CASE call[r].op = "change" -> "update"
                  [] call[r].op = "login" /\ NeedsRehash(hash[User(r)]) -> "rehash"
                  [] call[r].op = "login" /\ ~NeedsRehash(hash[User(r)]) -> "mint"]
        /\ read' = [read EXCEPT ![r] = hash[User(r)]]
    BY <1>4 DEF ReadUser, GetUser
  <2>3. pc'[r] # "start"
    BY <2>1, <2>2
  <2> QED BY <1>4, <2>2, <2>3 DEF ReadUser, Tables
<1>5. CASE Rehash(r)
  BY <1>5 DEF Rehash
<1>6. CASE RehashFails(r)
  BY <1>6 DEF RehashFails, Tables
<1>7. CASE Mint(r)
  BY <1>7 DEF Mint
<1>8. CASE InsertToken(r)
  BY <1>8 DEF InsertToken
<1>9. CASE Consume(r)
  BY <1>9 DEF Consume, Tables
<1>10. CASE Update(r)
  <2>1. AfterUpdate[call[r].op] # "start"
    BY <1>10, Routes DEF Update, CallFits
  <2> QED BY <1>10, <2>1 DEF Update
<1>11. CASE SweepSessions(r)
  BY <1>11 DEF SweepSessions, Tables
<1>12. CASE SweepTokens(r)
  BY <1>12 DEF SweepTokens, Tables
<1>13. CASE CommitChange(r)
  BY <1>13 DEF CommitChange
<1>14. CASE CommitReset(r)
  BY <1>14 DEF CommitReset
<1>15. CASE CommitForce(r)
  BY <1>15 DEF CommitForce
<1>16. CASE CommitBan(r)
  BY <1>16 DEF CommitBan
<1> QED BY <1>1, <1>2, <1>3, <1>4, <1>5, <1>6, <1>7, <1>8, <1>9, <1>10, <1>11, <1>12, <1>13,
           <1>14, <1>15, <1>16 DEF Step

(* What CallFits says of one request, to be shown of the one that moves.   *)
FitsOne(r) ==
  /\ pc[r] # "start" =>
       /\ call[r] \in Calls
       /\ call[r].op = "reset" => call[r].code \in DOMAIN codes
  /\ pc[r] = "principal" => call[r].op \in {"change", "token"}
  /\ pc[r] = "read" => call[r].op \in {"login", "change"}
  /\ pc[r] \in {"rehash", "mint"} => call[r].op = "login" /\ read[r] \in Hashes
  /\ pc[r] = "insert" => call[r].op = "token"
  /\ pc[r] = "consume" => call[r].op = "reset"
  /\ pc[r] = "update" => call[r].op \in {"change", "reset", "force", "ban"}
  /\ pc[r] = "sessions" => call[r].op \in {"force", "ban"}
  /\ pc[r] = "tokens" => call[r].op \in {"change", "reset", "force"}

LEMMA OneByOne == CallFits <=> \A r \in Requests : FitsOne(r)
  BY DEF CallFits, FitsOne

LEMMA StepFits ==
  ASSUME Fits, NEW r \in Requests, Step(r)
  PROVE  FitsOne(r)'
<1> USE DEF Fits, TypeOK, At, Go, FitsOne
<1>0. FitsOne(r)
  BY OneByOne
<1>1. CASE Arrive(r)
  <2>1. PICK c \in Calls : /\ c.op = "reset" => c.code \in DOMAIN codes
                           /\ pc' = [pc EXCEPT ![r] = FirstLabel[c.op]]
                           /\ call' = [call EXCEPT ![r] = c]
    BY <1>1 DEF Arrive
  <2>2. call'[r] = c /\ pc'[r] = FirstLabel[c.op] /\ codes' = codes
    BY <1>1, <2>1 DEF Arrive, Tables
  <2>3. c.op \in {"login", "change", "reset", "token", "force", "ban"}
    BY CallCarries
  <2> QED BY <2>1, <2>2, <2>3, Routes
<1>2. CASE Leave(r)
  BY <1>0, <1>2 DEF Leave
<1>3. CASE Admit(r)
  BY <1>0, <1>3 DEF Admit, Tables
<1>4. CASE ReadUser(r)
  <2>1. call[r].op \in {"login", "change"} /\ hash[User(r)] \in Hashes
    BY <1>0, <1>4, Arguments DEF ReadUser
  <2>2. /\ pc' = [pc EXCEPT ![r] = CASE call[r].op = "change" -> "update"
                  [] call[r].op = "login" /\ NeedsRehash(hash[User(r)]) -> "rehash"
                  [] call[r].op = "login" /\ ~NeedsRehash(hash[User(r)]) -> "mint"]
        /\ read' = [read EXCEPT ![r] = hash[User(r)]]
        /\ UNCHANGED <<call, codes>>
    BY <1>4 DEF ReadUser, GetUser, Tables
  <2>3. read'[r] \in Hashes /\ call'[r] = call[r]
    BY <2>1, <2>2
  <2>4. \/ pc'[r] = "update" /\ call[r].op = "change"
        \/ pc'[r] \in {"rehash", "mint"} /\ call[r].op = "login"
    BY <2>1, <2>2
  <2> QED BY <1>0, <1>4, <2>2, <2>3, <2>4 DEF ReadUser
<1>5. CASE Rehash(r)
  <2>1. Hash(call[r].pw, r) \in Hashes
    BY <1>0, <1>5, Arguments, HashType DEF Rehash
  <2>2. read' = [read EXCEPT ![r] = Hash(call[r].pw, r)]
    BY <1>5 DEF Rehash
  <2>3. read'[r] \in Hashes
    BY <2>1, <2>2
  <2> QED BY <1>0, <1>5, <2>3 DEF Rehash
<1>6. CASE RehashFails(r)
  BY <1>0, <1>6 DEF RehashFails, Tables
<1>7. CASE Mint(r)
  BY <1>0, <1>7 DEF Mint
<1>8. CASE InsertToken(r)
  BY <1>0, <1>8 DEF InsertToken
<1>9. CASE Consume(r)
  BY <1>0, <1>9 DEF Consume, Tables
<1>10. CASE Update(r)
  BY <1>0, <1>10, Routes DEF Update
<1>11. CASE SweepSessions(r)
  BY <1>0, <1>11 DEF SweepSessions, Tables
<1>12. CASE SweepTokens(r)
  BY <1>0, <1>12 DEF SweepTokens, Tables
<1>13. CASE CommitChange(r)
  BY <1>0, <1>13 DEF CommitChange
<1>14. CASE CommitReset(r)
  BY <1>0, <1>14 DEF CommitReset
<1>15. CASE CommitForce(r)
  BY <1>0, <1>15 DEF CommitForce
<1>16. CASE CommitBan(r)
  BY <1>0, <1>16 DEF CommitBan
<1> QED BY <1>1, <1>2, <1>3, <1>4, <1>5, <1>6, <1>7, <1>8, <1>9, <1>10, <1>11, <1>12, <1>13,
           <1>14, <1>15, <1>16 DEF Step

LEMMA StepType ==
  ASSUME Fits, NEW r \in Requests, Step(r)
  PROVE  TypeOK'
<1> USE DEF Fits, TypeOK, At, Go
<1>0. pc[r] # "start" => User(r) \in Users /\ hash[User(r)] \in Hashes
  BY Arguments
<1>1. CASE Arrive(r)
  <2>1. PICK c \in Calls : pc' = [pc EXCEPT ![r] = FirstLabel[c.op]] /\ call' = [call EXCEPT ![r] = c]
    BY <1>1 DEF Arrive
  <2>2. FirstLabel[c.op] \in Labels
    BY CallCarries, Routes DEF Labels
  <2> QED BY <1>1, <2>1, <2>2 DEF Arrive, Tables
<1>2. CASE Leave(r)
  BY <1>2 DEF Leave, Labels
<1>3. CASE Admit(r)
  BY <1>3 DEF Admit, Tables, Labels
<1>4. CASE ReadUser(r)
  <2>1. call[r].op \in {"login", "change"}
    BY <1>4 DEF ReadUser, CallFits
  <2>2. /\ pc' = [pc EXCEPT ![r] = CASE call[r].op = "change" -> "update"
                  [] call[r].op = "login" /\ NeedsRehash(hash[User(r)]) -> "rehash"
                  [] call[r].op = "login" /\ ~NeedsRehash(hash[User(r)]) -> "mint"]
        /\ read' = [read EXCEPT ![r] = hash[User(r)]]
    BY <1>4 DEF ReadUser, GetUser
  <2>3. pc' \in [Requests -> Labels]
    BY <2>1, <2>2 DEF Labels
  <2> QED BY <1>0, <1>4, <2>2, <2>3 DEF ReadUser, Tables
<1>5. CASE Rehash(r)
  <2>1. Hash(call[r].pw, r) \in Hashes
    BY <1>5, Arguments, HashType DEF Rehash, CallFits
  <2>2. hash' = [hash EXCEPT ![User(r)] = Hash(call[r].pw, r)]
    BY <1>5 DEF Rehash
  <2>3. read' = [read EXCEPT ![r] = Hash(call[r].pw, r)]
    BY <1>5 DEF Rehash
  <2>4. hash' \in [Users -> Hashes] /\ read' \in [Requests -> Hashes \cup {None}]
    BY <2>1, <2>2, <2>3
  <2> QED BY <1>5, <2>4 DEF Rehash, Labels
<1>6. CASE RehashFails(r)
  BY <1>6 DEF RehashFails, Tables, Labels
<1>7. CASE Mint(r)
  <2>1. read[r] \in Hashes /\ User(r) \in Users
    BY <1>0, <1>7 DEF Mint, CallFits
  <2>2. [id |-> r, user |-> User(r), fp |-> Fingerprint(read[r])] \in SessionRows
    BY <2>1 DEF SessionRows, Fingerprint
  <2>3. sessions' \subseteq SessionRows
    BY <1>7, <2>2 DEF Mint
  <2> QED BY <1>7, <2>3 DEF Mint, Labels
<1>8. CASE InsertToken(r)
  <2>1. [id |-> r, user |-> User(r), under |-> hash[User(r)], beside |-> holder[User(r)]] \in TokenRows
    BY <1>0, <1>8 DEF InsertToken, TokenRows
  <2>2. tokens' \subseteq TokenRows
    BY <1>8, <2>1 DEF InsertToken
  <2> QED BY <1>8, <2>2 DEF InsertToken, Labels
<1>9. CASE Consume(r)
  BY <1>9 DEF Consume, Tables, Labels
<1>10. CASE Update(r)
  <2>1. AfterUpdate[call[r].op] \in Labels
    BY <1>10, Routes DEF Update, CallFits, Labels
  <2> QED BY <1>0, <1>10, <2>1 DEF Update
<1>11. CASE SweepSessions(r)
  <2>1. {s \in sessions : s.user = User(r)} \subseteq SessionRows
    OBVIOUS
  <2>2. doomed' \in [Requests -> SUBSET (SessionRows \cup TokenRows)]
    BY <1>11, <2>1 DEF SweepSessions
  <2> QED BY <1>11, <2>2 DEF SweepSessions, Tables, Labels
<1>12. CASE SweepTokens(r)
  <2>1. {t \in tokens : t.user = User(r)} \subseteq TokenRows
    OBVIOUS
  <2>2. doomed' \in [Requests -> SUBSET (SessionRows \cup TokenRows)]
    BY <1>12, <2>1 DEF SweepTokens
  <2> QED BY <1>12, <2>2 DEF SweepTokens, Tables, Labels
<1>13. CASE CommitChange(r)
  <2>1. Hash(call[r].next, r) \in Hashes /\ User(r) \in Users
    BY <1>13, Arguments, HashType DEF CommitChange
  <2>2. hash' = [hash EXCEPT ![User(r)] = Hash(call[r].next, r)]
    BY <1>13 DEF CommitChange
  <2>3. hash' \in [Users -> Hashes]
    BY <2>1, <2>2
  <2>4. [id |-> r, user |-> User(r), fp |-> Fingerprint(Hash(call[r].next, r))] \in SessionRows
    BY <2>1 DEF SessionRows, Fingerprint
  <2>5. sessions' \subseteq SessionRows
    BY <1>13, <2>4 DEF CommitChange
  <2> QED BY <1>13, <2>3, <2>5 DEF CommitChange, Labels, Release
<1>14. CASE CommitReset(r)
  <2>1. Hash(call[r].next, r) \in Hashes /\ call[r].code \in DOMAIN codes
    BY <1>14, Arguments, HashType DEF CommitReset, CallFits
  <2>2. hash' = [hash EXCEPT ![User(r)] = Hash(call[r].next, r)]
    BY <1>14 DEF CommitReset
  <2>3. hash' \in [Users -> Hashes]
    BY <2>1, <2>2
  <2> QED BY <1>14, <2>1, <2>3 DEF CommitReset, Labels, Release
<1>15. CASE CommitForce(r)
  BY <1>15 DEF CommitForce, Labels, Release
<1>16. CASE CommitBan(r)
  BY <1>16 DEF CommitBan, Labels, Release
<1> QED BY <1>1, <1>2, <1>3, <1>4, <1>5, <1>6, <1>7, <1>8, <1>9, <1>10, <1>11, <1>12, <1>13,
           <1>14, <1>15, <1>16 DEF Step

(* What is asked and what is revoked in one statement.                     *)
Elsewhere ==
  \/ \E u \in Users : RequestReset(u) \/ Unban(u)
  \/ \E s \in sessions : Logout(s)
  \/ \E u \in Users, t \in tokens : DeleteToken(u, t)

LEMMA ElsewhereFrame ==
  ASSUME TypeOK, Elsewhere
  PROVE  /\ UNCHANGED <<hash, holder, pc, call, read, doomed>>
         /\ sessions' \subseteq sessions /\ tokens' \subseteq tokens
         /\ DOMAIN codes \subseteq DOMAIN codes'
         /\ TypeOK'
<1> USE SessionConstants DEF TypeOK
<1>1. ASSUME NEW u \in Users, RequestReset(u)
      PROVE  /\ codes' \in Seq(Users) /\ Len(codes') <= MaxCodes /\ DOMAIN codes \subseteq DOMAIN codes'
             /\ UNCHANGED <<hash, forced, banned, sessions, tokens, spent, holder, pc, call, read, doomed>>
  <2>1. codes' = Append(codes, u) /\ Len(codes) < MaxCodes
    BY <1>1 DEF RequestReset
  <2>2. codes' \in Seq(Users) /\ Len(codes') = Len(codes) + 1
    BY <2>1
  <2>3. DOMAIN codes = 1..Len(codes) /\ DOMAIN codes' = 1..Len(codes') /\ Len(codes) \in Nat
    BY <2>2
  <2> QED BY <1>1, <2>1, <2>2, <2>3 DEF RequestReset
<1>2. ASSUME NEW u \in Users, RequestReset(u) PROVE TypeOK'
  BY <1>1, <1>2
<1>3. CASE \E u \in Users : RequestReset(u)
  BY <1>1, <1>2, <1>3
<1>4. CASE \E u \in Users : Unban(u)
  BY <1>4 DEF Unban
<1>5. CASE \E s \in sessions : Logout(s)
  BY <1>5 DEF Logout
<1>6. CASE \E u \in Users, t \in tokens : DeleteToken(u, t)
  BY <1>6 DEF DeleteToken
<1> QED BY <1>3, <1>4, <1>5, <1>6 DEF Elsewhere

LEMMA InitFits == Init => Fits
<1> SUFFICES ASSUME Init PROVE Fits
  OBVIOUS
<1> USE SessionConstants
<1>1. hash \in [Users -> Hashes]
  BY FirstHashType DEF Init
<1>2. sessions \subseteq SessionRows
  BY <1>1 DEF Init, SessionRows, Fingerprint
<1>3. tokens \subseteq TokenRows
  BY <1>1 DEF Init, TokenRows
<1>4. codes \in Seq(Users) /\ Len(codes) = 0
  BY DEF Init
<1> QED BY <1>1, <1>2, <1>3, <1>4 DEF Init, Fits, TypeOK, CallFits, Labels

LEMMA NextFits == Fits /\ [Next]_vars => Fits'
<1> SUFFICES ASSUME Fits, [Next]_vars PROVE Fits'
  OBVIOUS
<1>1. ASSUME NEW r \in Requests, Step(r) PROVE Fits'
  <2>1. \A t \in Requests \ {r} : FitsOne(t)'
    BY <1>1, StepFrame, OneByOne DEF Fits, FitsOne
  <2>2. \A t \in Requests : FitsOne(t)'
    BY <1>1, <2>1, StepFits
  <2>3. CallFits'
    BY <2>2 DEF CallFits, FitsOne
  <2> QED BY <1>1, <2>3, StepType DEF Fits
<1>2. CASE Elsewhere
  <2>1. \A t \in Requests : FitsOne(t)'
    BY <1>2, ElsewhereFrame, OneByOne DEF Fits, FitsOne
  <2>2. CallFits'
    BY <2>1 DEF CallFits, FitsOne
  <2> QED BY <1>2, <2>2, ElsewhereFrame DEF Fits
<1>3. CASE UNCHANGED vars
  BY <1>3 DEF Fits, TypeOK, CallFits, vars
<1> QED BY <1>1, <1>2, <1>3 DEF Next, Elsewhere

(* Type correctness: every row names a user and carries a hash the service *)
(* could have minted, a code is spent only once it was mailed, and a       *)
(* statement's arguments are those of its own kind of call.                *)
THEOREM SessionTypeCorrect == Spec => [](TypeOK /\ CallFits)
  BY InitFits, NextFits, PTL DEF Spec, Fits

-----------------------------------------------------------------------------
(* Hashes *)

(* The three statements that write a hash give it the salt of their own    *)
(* request, which has drawn none before.                                   *)
LEMMA HashMoves ==
  ASSUME Fits, NEW r \in Requests, Step(r)
  PROVE  \/ hash' = hash
         \/ /\ pc[r] \in {"rehash", "commit"} /\ pc'[r] \in {"mint", "done"}
            /\ \E h \in Hashes : h.salt = r /\ hash' = [hash EXCEPT ![User(r)] = h]
<1> USE DEF Fits, TypeOK, At, Go
<1>1. CASE Rehash(r)
  <2>1. Hash(call[r].pw, r) \in Hashes /\ Hash(call[r].pw, r).salt = r
    BY <1>1, Arguments, HashType DEF Rehash, CallFits
  <2> QED BY <1>1, <2>1 DEF Rehash
<1>2. CASE CommitChange(r)
  <2>1. Hash(call[r].next, r) \in Hashes /\ Hash(call[r].next, r).salt = r
    BY <1>2, Arguments, HashType DEF CommitChange
  <2> QED BY <1>2, <2>1 DEF CommitChange
<1>3. CASE CommitReset(r)
  <2>1. Hash(call[r].next, r) \in Hashes /\ Hash(call[r].next, r).salt = r
    BY <1>3, Arguments, HashType DEF CommitReset
  <2> QED BY <1>3, <2>1 DEF CommitReset
<1> QED BY <1>1, <1>2, <1>3 DEF Step, Arrive, Leave, Admit, ReadUser, RehashFails, Mint, InsertToken,
           Consume, Update, SweepSessions, SweepTokens, CommitForce, CommitBan, Tables

(* Once drawn, drawn for good.                                             *)
LEMMA StaysDrawn ==
  ASSUME Fits, NEW r \in Requests, Step(r), NEW h \in Hashes, Drawn(h)
  PROVE  Drawn(h)'
<1>1. h.salt \in Requests \cup {None}
  BY DEF Hashes
<1>2. CASE h.salt = None
  BY <1>2 DEF Drawn
<1>3. CASE h.salt = r
  BY <1>2, <1>3, StepFrame DEF Drawn
<1>4. CASE h.salt \in Requests \ {r}
  BY <1>4, StepFrame DEF Drawn
<1> QED BY <1>1, <1>2, <1>3, <1>4

(* What a request draws when it writes is drawn from then on, and was not  *)
(* before.                                                                 *)
LEMMA FreshlyDrawn ==
  ASSUME NEW r \in Requests, NEW h \in Hashes, h.salt = r
  PROVE  /\ pc'[r] \in {"mint", "done"} => Drawn(h)'
         /\ pc[r] \notin {"mint", "done"} => ~Drawn(h)
  BY SessionConstants DEF Drawn

(* Every hash a statement leaves somewhere is one that was there before, or *)
(* its own.                                                                *)
LEMMA StepDrawn ==
  ASSUME Fits, DrawnOnce, NEW r \in Requests, Step(r)
  PROVE  DrawnOnce'
<1> USE DEF Fits, TypeOK
<1>1. ASSUME NEW u \in Users PROVE Drawn(hash[u])'
  <2>1. PICK h \in Hashes : h = hash[u] /\ Drawn(h)
    BY DEF DrawnOnce
  <2>2. Drawn(h)'
    BY <2>1, StaysDrawn
  <2>3. CASE hash'[u] = h
    BY <2>2, <2>3 DEF Drawn
  <2>4. CASE hash'[u] # h
    <3>1. PICK g \in Hashes : g.salt = r /\ hash' = [hash EXCEPT ![User(r)] = g]
      BY <2>1, <2>4, HashMoves
    <3>2. hash'[u] = g /\ pc'[r] \in {"mint", "done"}
      BY <2>1, <2>4, <3>1, HashMoves
    <3> QED BY <3>1, <3>2, FreshlyDrawn DEF Drawn
  <2> QED BY <2>3, <2>4
<1>2. ASSUME NEW s \in sessions PROVE Drawn(s.fp)'
  <2>1. PICK h \in Hashes : h = s.fp
    BY DEF SessionRows
  <2> QED BY <2>1, StaysDrawn DEF DrawnOnce, Drawn
<1>3. ASSUME NEW s \in sessions', s \notin sessions PROVE Drawn(s.fp)'
  <2>1. CASE Mint(r)
    <3>1. s.fp = read[r] /\ pc[r] = "mint"
      BY <1>3, <2>1 DEF Mint, Fingerprint, At
    <3>2. PICK h \in Hashes : h = read[r] /\ Drawn(h)
      BY <3>1 DEF CallFits, DrawnOnce
    <3> QED BY <3>1, <3>2, StaysDrawn DEF Drawn
  <2>2. CASE CommitChange(r)
    <3>1. s.fp = Hash(call[r].next, r) /\ pc'[r] = "done"
      BY <1>3, <2>2 DEF CommitChange, Fingerprint, Go
    <3>2. s.fp.salt = r
      BY <3>1 DEF Hash
    <3> QED BY <3>1, <3>2 DEF Drawn
  <2> QED BY <1>3, <2>1, <2>2 DEF Step, Arrive, Leave, Admit, ReadUser, Rehash, RehashFails,
             InsertToken, Consume, Update, SweepSessions, SweepTokens, CommitReset, CommitForce,
             CommitBan, Tables
<1>4. ASSUME NEW t \in Requests, pc'[t] \in {"rehash", "mint"} PROVE Drawn(read[t])'
  <2>1. CASE t # r
    <3>1. pc[t] \in {"rehash", "mint"} /\ read'[t] = read[t]
      BY <1>4, <2>1, StepFrame
    <3>2. PICK h \in Hashes : h = read[t] /\ Drawn(h)
      BY <3>1 DEF CallFits, DrawnOnce
    <3> QED BY <3>1, <3>2, StaysDrawn DEF Drawn
  <2>2. CASE t = r /\ ReadUser(r)
    <3>1. User(r) \in Users
      BY <2>2, Arguments DEF ReadUser, At
    <3>2. PICK h \in Hashes : h = hash[User(r)] /\ Drawn(h)
      BY <3>1 DEF DrawnOnce
    <3>3. read'[t] = h
      BY <2>2, <3>2 DEF ReadUser, GetUser
    <3> QED BY <3>2, <3>3, StaysDrawn DEF Drawn
  <2>3. CASE t = r /\ Rehash(r)
    <3>1. read'[t] = Hash(call[r].pw, r) /\ pc'[r] = "mint"
      BY <2>3 DEF Rehash, Go
    <3>2. read'[t].salt = r
      BY <3>1 DEF Hash
    <3> QED BY <3>1, <3>2 DEF Drawn
  <2>4. CASE t = r /\ RehashFails(r)
    <3>1. pc[t] = "rehash" /\ read'[t] = read[t]
      BY <2>4 DEF RehashFails, At
    <3>2. PICK h \in Hashes : h = read[t] /\ Drawn(h)
      BY <3>1 DEF CallFits, DrawnOnce
    <3> QED BY <3>1, <3>2, StaysDrawn DEF Drawn
  <2>5. CASE t = r /\ Arrive(r)
    <3>1. FirstLabel[call'[r].op] \notin {"rehash", "mint"} /\ pc'[r] = FirstLabel[call'[r].op]
      BY <2>5, CallCarries, Routes DEF Arrive, Go
    <3> QED BY <1>4, <2>5, <3>1
  <2>6. CASE t = r /\ Update(r)
    <3>1. pc'[r] \notin {"rehash", "mint"}
      BY <2>6, Routes DEF Update, At, Go, CallFits
    <3> QED BY <1>4, <2>6, <3>1
  <2> QED BY <1>4, <2>1, <2>2, <2>3, <2>4, <2>5, <2>6 DEF Step, Leave, Admit, Mint, InsertToken,
             Consume, SweepSessions, SweepTokens, CommitChange, CommitReset, CommitForce, CommitBan,
             Go
<1> QED BY <1>1, <1>2, <1>3, <1>4 DEF DrawnOnce

(* A password that a session was ended by stays out of its reach: every    *)
(* hash still to come has a salt no session carries.                       *)
LEMMA EndedStep ==
  ASSUME Fits, DrawnOnce, NEW r \in Requests, Step(r), NEW s \in sessions, ~Matches(s)
  PROVE  ~Matches(s)'
<1> USE DEF Fits, TypeOK
<1>1. s.fp \in Hashes /\ s.user \in Users /\ s.fp # hash[s.user] /\ Drawn(s.fp)
  BY DEF SessionRows, Matches, Fingerprint, DrawnOnce
<1>2. CASE hash' = hash
  BY <1>1, <1>2 DEF Matches, Fingerprint
<1>3. CASE hash' # hash
  <2>1. PICK g \in Hashes : g.salt = r /\ hash' = [hash EXCEPT ![User(r)] = g]
    BY <1>3, HashMoves
  <2>2. ~Drawn(g)
    BY <1>3, <2>1, HashMoves, FreshlyDrawn
  <2>3. s.fp # g
    BY <1>1, <2>2
  <2> QED BY <1>1, <2>1, <2>3 DEF Matches, Fingerprint
<1> QED BY <1>2, <1>3

-----------------------------------------------------------------------------
(* Transactions and the rows they sweep *)

Holding == InTransaction \ {"update"}

(* The row of a user changes hands between a transaction that takes it     *)
(* free and the same one's end.                                            *)
LEMMA HolderMoves ==
  ASSUME Fits, NEW r \in Requests, Step(r)
  PROVE  /\ \A u \in Users : holder[u] \in Requests \ {r} =>
              (u = User(r) /\ pc[r] \in Holding) \/ holder'[u] = holder[u]
         /\ pc'[r] \in Holding => \/ holder'[User(r)] = r
                                  \/ pc[r] \in Holding /\ holder' = holder
         /\ pc'[r] \in Holding => pc[r] \in InTransaction
<1> USE SessionConstants DEF Fits, TypeOK, At, Go, Holding, InTransaction
<1>1. CASE Arrive(r)
  <2>1. FirstLabel[call'[r].op] \notin Holding /\ pc'[r] = FirstLabel[call'[r].op]
    BY <1>1, CallCarries, Routes DEF Arrive
  <2> QED BY <1>1, <2>1 DEF Arrive, Tables
<1>2. CASE Leave(r)
  BY <1>2 DEF Leave
<1>3. CASE ReadUser(r)
  <2>1. holder' = holder /\ pc[r] = "read"
    BY <1>3 DEF ReadUser, Tables
  <2>2. pc'[r] \notin Holding
    BY <1>3 DEF ReadUser, CallFits
  <2> QED BY <2>1, <2>2
<1>4. CASE Update(r)
  <2>1. holder' = [holder EXCEPT ![User(r)] = r] /\ holder[User(r)] = None /\ User(r) \in Users
    BY <1>4, Arguments DEF Update
  <2> QED BY <1>4, <2>1 DEF Update
<1>5. CASE CommitChange(r) \/ CommitReset(r) \/ CommitForce(r) \/ CommitBan(r)
  <2>1. holder' = [holder EXCEPT ![User(r)] = None] /\ pc[r] = "commit" /\ pc'[r] = "done"
    BY <1>5 DEF CommitChange, CommitReset, CommitForce, CommitBan, Release
  <2> QED BY <2>1
<1> QED BY <1>1, <1>2, <1>3, <1>4, <1>5 DEF Step, Admit, Rehash, RehashFails, Mint, InsertToken,
           Consume, SweepSessions, SweepTokens, Tables

LEMMA StepRowHeld ==
  ASSUME Fits, RowHeld, NEW r \in Requests, Step(r)
  PROVE  RowHeld'
<1> SUFFICES ASSUME NEW t \in Requests, pc'[t] \in Holding PROVE holder'[User(t)'] = t
  BY DEF RowHeld, Holding
<1> USE DEF Fits, TypeOK
<1>1. CASE t = r
  <2>1. pc[r] \in InTransaction /\ call' = call
    BY <1>1, HolderMoves, StepFrame DEF InTransaction
  <2>2. User(r)' = User(r)
    BY <2>1 DEF User
  <2> QED BY <1>1, <2>1, <2>2, HolderMoves DEF RowHeld, Holding
<1>2. CASE t # r
  <2>1. pc[t] \in Holding /\ call'[t] = call[t]
    BY <1>2, StepFrame
  <2>2. User(t)' = User(t) /\ User(t) \in Users /\ holder[User(t)] = t
    BY <2>1, Arguments DEF User, RowHeld, Holding, InTransaction
  <2>3. ~(User(t) = User(r) /\ pc[r] \in Holding)
    BY <1>2, <2>2 DEF RowHeld, Holding
  <2> QED BY <1>2, <2>2, <2>3, HolderMoves
<1> QED BY <1>1, <1>2

(* A token that appears is of the hash in force, and notes who holds the   *)
(* row.                                                                    *)
LEMMA TokenMoves ==
  ASSUME Fits, NEW r \in Requests, Step(r), NEW t \in tokens', t \notin tokens
  PROVE  /\ t.user \in Users /\ t.under = hash[t.user] /\ t.beside = holder[t.user]
         /\ UNCHANGED <<hash, holder, call, doomed>> /\ pc'[r] = "done"
<1>1. InsertToken(r)
  BY DEF Step, Arrive, Leave, Admit, ReadUser, Rehash, RehashFails, Mint, Consume, Update,
         SweepSessions, SweepTokens, CommitChange, CommitReset, CommitForce, CommitBan, Tables
<1>2. t = [id |-> r, user |-> User(r), under |-> hash[User(r)], beside |-> holder[User(r)]]
  BY <1>1 DEF InsertToken
<1>3. User(r) \in Users
  BY <1>1, Arguments DEF InsertToken, At
<1> QED BY <1>1, <1>2, <1>3 DEF InsertToken, Go, Fits, TypeOK

(* Where the rows still to be deleted are collected, and used.             *)
LEMMA DoomedMoves ==
  ASSUME Fits, NEW r \in Requests, Step(r)
  PROVE  pc'[r] = "commit" =>
           \/ /\ doomed'[r] = doomed[r] \cup {t \in tokens : t.user = User(r)}
              /\ tokens' = tokens
           \/ call[r].op = "ban"
<1> USE DEF Fits, TypeOK, At, Go
<1>1. CASE Arrive(r)
  <2>1. FirstLabel[call'[r].op] # "commit" /\ pc'[r] = FirstLabel[call'[r].op]
    BY <1>1, CallCarries, Routes DEF Arrive
  <2> QED BY <2>1
<1>2. CASE ReadUser(r)
  BY <1>2 DEF ReadUser, CallFits
<1>3. CASE Update(r)
  BY <1>3, Routes DEF Update, CallFits
<1>4. CASE SweepSessions(r)
  BY <1>4 DEF SweepSessions, CallFits
<1>5. CASE SweepTokens(r)
  BY <1>5 DEF SweepTokens, Tables
<1> QED BY <1>1, <1>2, <1>3, <1>4, <1>5 DEF Step, Leave, Admit, Rehash, RehashFails, Mint,
           InsertToken, Consume, CommitChange, CommitReset, CommitForce, CommitBan

LEMMA StepSwept ==
  ASSUME Fits, RowHeld, Swept, NEW r \in Requests, Step(r)
  PROVE  Swept'
<1> SUFFICES ASSUME NEW q \in Requests, pc'[q] = "commit", call'[q].op \in {"change", "reset"},
                    NEW t \in tokens', t.user = User(q)'
             PROVE  t \in doomed'[q] \/ t.beside = q
  BY DEF Swept
<1> USE DEF Fits, TypeOK
<1>1. CASE q = r
  <2>1. call' = call
    BY <1>1, StepFrame, HolderMoves DEF Holding, InTransaction
  <2>2. doomed'[r] = doomed[r] \cup {x \in tokens : x.user = User(r)} /\ tokens' = tokens
    BY <1>1, <2>1, DoomedMoves
  <2>3. t \in tokens /\ t.user = User(r)
    BY <1>1, <2>1, <2>2 DEF User
  <2> QED BY <1>1, <2>2, <2>3
<1>2. CASE q # r
  <2>1. pc[q] = "commit" /\ call'[q] = call[q] /\ doomed'[q] = doomed[q]
    BY <1>2, StepFrame
  <2>2. User(q)' = User(q)
    BY <2>1 DEF User
  <2>3. CASE t \in tokens
    BY <2>1, <2>2, <2>3 DEF Swept
  <2>4. CASE t \notin tokens
    <3>1. t.beside = holder[User(q)]
      BY <2>2, <2>4, TokenMoves
    <3> QED BY <2>1, <3>1 DEF RowHeld, InTransaction
  <2> QED BY <2>3, <2>4
<1> QED BY <1>1, <1>2

(* The tokens of a user whose password a request has just written: the     *)
(* ones inserted while it held the row, unless the request is a login.     *)
LEMMA WrittenSweeps ==
  ASSUME Fits, RowHeld, Swept, NEW r \in Requests, Step(r), hash' # hash,
         NEW t \in tokens', t.user = User(r)
  PROVE  call[r].op = "login" \/ t.beside = r
<1> USE DEF Fits, TypeOK, At
<1>1. CASE Rehash(r)
  BY <1>1 DEF Rehash, CallFits
<1>2. CASE CommitChange(r) \/ CommitReset(r)
  <2>1. tokens' = tokens \ doomed[r] /\ pc[r] = "commit" /\ call[r].op \in {"change", "reset"}
    BY <1>2 DEF CommitChange, CommitReset
  <2> QED BY <2>1 DEF Swept
<1> QED BY <1>1, <1>2 DEF Step, Arrive, Leave, Admit, ReadUser, RehashFails, Mint, InsertToken,
           Consume, Update, SweepSessions, SweepTokens, CommitForce, CommitBan, Tables

LEMMA StepFirstIsFirst ==
  ASSUME Fits, FirstIsFirst, NEW r \in Requests, Step(r)
  PROVE  FirstIsFirst'
<1> SUFFICES ASSUME NEW t \in tokens', hash'[t.user].salt = None PROVE t.under.salt = None
  BY DEF FirstIsFirst
<1> USE SessionConstants DEF Fits, TypeOK
<1>1. CASE t \notin tokens
  BY <1>1, TokenMoves
<1>2. CASE t \in tokens
  <2>1. t.user \in Users
    BY <1>2 DEF TokenRows
  <2>2. hash'[t.user] = hash[t.user]
    <3>1. CASE hash' # hash
      <4>1. PICK g \in Hashes : g.salt = r /\ hash' = [hash EXCEPT ![User(r)] = g]
        BY <3>1, HashMoves
      <4>2. g.salt # None
        BY <4>1
      <4>3. t.user # User(r)
        BY <2>1, <4>1, <4>2
      <4> QED BY <2>1, <4>1, <4>3
    <3> QED BY <3>1
  <2> QED BY <1>2, <2>2 DEF FirstIsFirst
<1> QED BY <1>1, <1>2

(* What OutlivedOnlyBeside says of one token.                              *)
Outlived(t, w) == w = t.under.salt \/ call[w].op = "login" \/ t.beside = w

LEMMA StepOutlived ==
  ASSUME Fits, DrawnOnce, RowHeld, Swept, FirstIsFirst, OutlivedOnlyBeside, NEW r \in Requests, Step(r)
  PROVE  OutlivedOnlyBeside'
<1> SUFFICES ASSUME NEW t \in tokens' PROVE Outlived(t, hash[t.user].salt)'
  BY DEF OutlivedOnlyBeside, Outlived
<1> USE DEF Fits, TypeOK
<1>1. CASE t \notin tokens
  BY <1>1, TokenMoves DEF Outlived
<1>2. CASE t \in tokens
  <2>1. t.user \in Users /\ Outlived(t, hash[t.user].salt)
    BY <1>2 DEF TokenRows, OutlivedOnlyBeside, Outlived
  <2>2. PICK h \in Hashes : h = hash[t.user] /\ Drawn(h)
    BY <2>1 DEF DrawnOnce
  <2>3. h.salt \in Requests \cup {None}
    BY DEF Hashes
  <2>4. CASE hash'[t.user] = hash[t.user]
    <3>1. CASE h.salt = None
      BY <1>2, <2>2, <2>4, <3>1 DEF FirstIsFirst, Outlived
    <3>2. CASE h.salt \in Requests
      <4>1. pc[h.salt] # "start"
        BY <2>2, <3>2, SessionConstants DEF Drawn
      <4>2. call'[h.salt] = call[h.salt]
        BY <3>2, <4>1, StepFrame
      <4> QED BY <2>1, <2>2, <2>4, <4>2 DEF Outlived
    <3> QED BY <2>3, <3>1, <3>2
  <2>5. CASE hash'[t.user] # hash[t.user]
    <3>1. PICK g \in Hashes : g.salt = r /\ hash' = [hash EXCEPT ![User(r)] = g]
      BY <2>5, HashMoves
    <3>2. t.user = User(r) /\ hash'[t.user] = g
      BY <2>1, <2>5, <3>1
    <3>3. pc[r] # "start"
      BY <2>5, HashMoves
    <3>4. call[r].op = "login" \/ t.beside = r
      BY <2>5, <3>2, WrittenSweeps
    <3> QED BY <3>1, <3>2, <3>3, <3>4, StepFrame DEF Outlived
  <2> QED BY <2>4, <2>5
<1> QED BY <1>1, <1>2

-----------------------------------------------------------------------------
LEMMA InitInv == Init => Inv
<1> SUFFICES ASSUME Init PROVE Inv
  OBVIOUS
<1>1. CallFits /\ Fits
  BY InitFits DEF Fits
<1>2. \A u \in Users : hash[u].salt = None
  BY FirstHashType DEF Init
<1>3. DrawnOnce /\ FirstIsFirst /\ OutlivedOnlyBeside
  BY <1>2 DEF Init, DrawnOnce, Drawn, FirstIsFirst, OutlivedOnlyBeside, Fingerprint
<1> QED BY <1>1, <1>3 DEF Init, Inv, RowHeld, Swept, InTransaction

LEMMA NextInv == TypeOK /\ Inv /\ [Next]_vars => (TypeOK /\ Inv)'
<1> SUFFICES ASSUME TypeOK, Inv, [Next]_vars PROVE (TypeOK /\ Inv)'
  OBVIOUS
<1>1. Fits'
  BY NextFits DEF Inv, Fits
<1>2. CASE \E r \in Requests : Step(r)
  BY <1>1, <1>2, StepDrawn, StepRowHeld, StepSwept, StepFirstIsFirst, StepOutlived DEF Inv, Fits
<1>3. CASE Elsewhere
  <2>1. DrawnOnce' /\ RowHeld' /\ Swept' /\ FirstIsFirst' /\ OutlivedOnlyBeside'
    BY <1>3, ElsewhereFrame
       DEF Inv, DrawnOnce, Drawn, RowHeld, Swept, FirstIsFirst, OutlivedOnlyBeside, User
  <2> QED BY <1>1, <2>1 DEF Inv, Fits
<1>4. CASE UNCHANGED vars
  <2>1. DrawnOnce' /\ RowHeld' /\ Swept' /\ FirstIsFirst' /\ OutlivedOnlyBeside'
    BY <1>4 DEF vars, Inv, DrawnOnce, Drawn, RowHeld, Swept, FirstIsFirst, OutlivedOnlyBeside, User
  <2> QED BY <1>1, <2>1 DEF Inv, Fits
<1> QED BY <1>2, <1>3, <1>4 DEF Next, Elsewhere

(* What is known of a request by where it is, of the salts that are drawn, *)
(* of the row a transaction holds and of the tokens it leaves.             *)
THEOREM SessionInvariant == Spec => [](TypeOK /\ Inv)
<1>1. Init => TypeOK /\ Inv
  BY InitFits, InitInv DEF Fits
<1> QED BY <1>1, NextInv, PTL DEF Spec

(* No API token outlives a change or a reset of its user's password, but   *)
(* one inserted while that very transaction held the row                   *)
(* (ChangePassword and ResetPassword, DeleteUserAPITokens).                *)
THEOREM TokensAreSwept == Spec => []OutlivedOnlyBeside
  BY SessionInvariant, PTL DEF Inv

(* A session that a new password has ended never works again, whatever     *)
(* password is chosen or put back (migration 00007, the fingerprint of     *)
(* GetSession).                                                            *)
THEOREM EndedForGood == Spec => EndedStaysEnded
<1>1. TypeOK /\ Inv /\ [Next]_vars => [StaysEnded]_vars
  <2> SUFFICES ASSUME TypeOK, Inv, Next PROVE StaysEnded
    BY DEF StaysEnded, Matches, vars
  <2> SUFFICES ASSUME NEW s \in sessions, ~Matches(s) PROVE ~Matches(s)'
    BY DEF StaysEnded
  <2>1. CASE \E r \in Requests : Step(r)
    BY <2>1, EndedStep DEF Inv, Fits
  <2>2. CASE Elsewhere
    BY <2>2, ElsewhereFrame DEF Matches
  <2> QED BY <2>1, <2>2 DEF Next, Elsewhere
<1> QED BY <1>1, SessionInvariant, PTL DEF Spec, EndedStaysEnded

-----------------------------------------------------------------------------
(* Policy, for every event and every viewer. *)

(* The first refusal of a list of gates, and of none.                      *)
LEMMA FirstOne ==
  ASSUME NEW s, NEW k \in DOMAIN s, DOMAIN s \subseteq Int, ~s[k].allow,
         \A j \in DOMAIN s : j < k => s[j].allow
  PROVE  P!FirstDenied(s) = s[k]
<1> DEFINE denied == {i \in DOMAIN s : ~s[i].allow}
<1>1. k \in denied /\ \A j \in denied : k <= j
  OBVIOUS
<1>2. \A x \in denied : (\A j \in denied : x <= j) => x = k
  BY <1>1
<1>3. P!Min(denied) = k
  BY <1>1, <1>2 DEF P!Min
<1> QED BY <1>1, <1>3 DEF P!FirstDenied

LEMMA FirstNone ==
  ASSUME NEW s, \A j \in DOMAIN s : s[j].allow
  PROVE  P!FirstDenied(s) = P!Allow
<1>1. {i \in DOMAIN s : ~s[i].allow} = {}
  OBVIOUS
<1> QED BY <1>1 DEF P!FirstDenied

LEMMA FirstOfTwo ==
  ASSUME NEW a, NEW b
  PROVE  P!FirstDenied(<<a, b>>) = IF ~a.allow THEN a ELSE IF ~b.allow THEN b ELSE P!Allow
<1> DEFINE s == <<a, b>>
<1>1. DOMAIN s = {1, 2} /\ s[1] = a /\ s[2] = b
  OBVIOUS
<1> HIDE DEF s
<1>2. CASE ~a.allow
  <2>1. P!FirstDenied(s) = s[1]
    BY <1>1, <1>2, FirstOne
  <2> QED BY <1>1, <1>2, <2>1 DEF s
<1>3. CASE a.allow /\ ~b.allow
  <2>1. P!FirstDenied(s) = s[2]
    BY <1>1, <1>3, FirstOne
  <2> QED BY <1>1, <1>3, <2>1 DEF s
<1>4. CASE a.allow /\ b.allow
  <2>1. P!FirstDenied(s) = P!Allow
    BY <1>1, <1>4, FirstNone
  <2> QED BY <1>4, <2>1 DEF s
<1> QED BY <1>2, <1>3, <1>4

LEMMA FirstOfThree ==
  ASSUME NEW a, NEW b, NEW c
  PROVE  P!FirstDenied(<<a, b, c>>) =
           IF ~a.allow THEN a ELSE IF ~b.allow THEN b ELSE IF ~c.allow THEN c ELSE P!Allow
<1> DEFINE s == <<a, b, c>>
<1>1. DOMAIN s = {1, 2, 3} /\ s[1] = a /\ s[2] = b /\ s[3] = c
  OBVIOUS
<1> HIDE DEF s
<1>2. CASE ~a.allow
  <2>1. P!FirstDenied(s) = s[1]
    BY <1>1, <1>2, FirstOne
  <2> QED BY <1>1, <1>2, <2>1 DEF s
<1>3. CASE a.allow /\ ~b.allow
  <2>1. P!FirstDenied(s) = s[2]
    BY <1>1, <1>3, FirstOne
  <2> QED BY <1>1, <1>3, <2>1 DEF s
<1>4. CASE a.allow /\ b.allow /\ ~c.allow
  <2>1. P!FirstDenied(s) = s[3]
    BY <1>1, <1>4, FirstOne
  <2> QED BY <1>1, <1>4, <2>1 DEF s
<1>5. CASE a.allow /\ b.allow /\ c.allow
  <2>1. P!FirstDenied(s) = P!Allow
    BY <1>1, <1>5, FirstNone
  <2> QED BY <1>5, <2>1 DEF s
<1> QED BY <1>2, <1>3, <1>4, <1>5

(* Decide is its gates in their order: the first that refuses, if one does. *)
LEMMA Decided ==
  ASSUME NEW e, NEW q, NEW r
  PROVE  P!Decide(e, q, r) =
           IF ~P!SetupGate(e, q, r).allow THEN P!SetupGate(e, q, r)
           ELSE IF ~P!BanGate(e, q, r).allow THEN P!BanGate(e, q, r)
           ELSE IF ~P!PasswordGate(e, q, r).allow THEN P!PasswordGate(e, q, r)
           ELSE IF ~P!ModeGate(e, q, r).allow THEN P!ModeGate(e, q, r)
           ELSE IF ~P!AdminGate(e, q, r).allow THEN P!AdminGate(e, q, r)
           ELSE IF ~P!VisibilityGate(e, q, r).allow THEN P!VisibilityGate(e, q, r)
           ELSE IF ~P!AuthGate(e, q, r).allow THEN P!AuthGate(e, q, r)
           ELSE IF ~P!VerifiedGate(e, q, r).allow THEN P!VerifiedGate(e, q, r)
           ELSE IF ~P!ProfileGate(e, q, r).allow THEN P!ProfileGate(e, q, r)
           ELSE IF ~P!TeamGate(e, q, r).allow THEN P!TeamGate(e, q, r)
           ELSE IF ~P!ClockGate(e, q, r).allow THEN P!ClockGate(e, q, r)
           ELSE IF ~P!EnrollmentGate(e, q, r).allow THEN P!EnrollmentGate(e, q, r)
           ELSE IF ~P!PauseGate(e, q, r).allow THEN P!PauseGate(e, q, r)
           ELSE P!Allow
<1> DEFINE s == <<P!SetupGate(e, q, r), P!BanGate(e, q, r), P!PasswordGate(e, q, r),
                  P!ModeGate(e, q, r), P!AdminGate(e, q, r), P!VisibilityGate(e, q, r),
                  P!AuthGate(e, q, r), P!VerifiedGate(e, q, r), P!ProfileGate(e, q, r),
                  P!TeamGate(e, q, r), P!ClockGate(e, q, r), P!EnrollmentGate(e, q, r), P!PauseGate(e, q, r)>>
<1>1. DOMAIN s = {1, 2, 3, 4, 5, 6, 7, 8, 9, 10, 11, 12, 13}
  OBVIOUS
<1>2. /\ s[1] = P!SetupGate(e, q, r)
      /\ s[2] = P!BanGate(e, q, r)
      /\ s[3] = P!PasswordGate(e, q, r)
      /\ s[4] = P!ModeGate(e, q, r)
      /\ s[5] = P!AdminGate(e, q, r)
      /\ s[6] = P!VisibilityGate(e, q, r)
      /\ s[7] = P!AuthGate(e, q, r)
      /\ s[8] = P!VerifiedGate(e, q, r)
      /\ s[9] = P!ProfileGate(e, q, r)
      /\ s[10] = P!TeamGate(e, q, r)
      /\ s[11] = P!ClockGate(e, q, r)
      /\ s[12] = P!EnrollmentGate(e, q, r)
      /\ s[13] = P!PauseGate(e, q, r)
  OBVIOUS
<1>3. P!Decide(e, q, r) = P!FirstDenied(s)
  BY DEF P!Decide
<1> HIDE DEF s
<1>4. ASSUME NEW i \in 1..13, ~s[i].allow, \A j \in 1..(i - 1) : s[j].allow
      PROVE  P!FirstDenied(s) = s[i]
  BY <1>1, <1>4, FirstOne
<1>5. (\A i \in 1..13 : s[i].allow) => P!FirstDenied(s) = P!Allow
  BY <1>1, FirstNone
<1>6. \/ \A i \in 1..13 : s[i].allow
      \/ \E i \in 1..13 : ~s[i].allow /\ \A j \in 1..(i - 1) : s[j].allow
  OBVIOUS
<1> QED BY <1>2, <1>3, <1>4, <1>5, <1>6

(* What each gate says when it refuses, and what it knows when it does not. *)
LEMMA SetupSays ==
  ASSUME NEW e, NEW q, NEW r
  PROVE  /\ P!SetupGate(e, q, r).allow <=>
              /\ r.class # "unknown" /\ (e.setup \/ r.class \in {"setup", "themeAsset"})
              /\ ~(e.setup /\ r.class = "setup")
         /\ P!SetupGate(e, q, r).redirect # "" =>
              P!SetupGate(e, q, r).redirect = "/setup" /\ ~e.setup
<1> DEFINE a == P!DenyIf(r.class = "unknown", P!NotFound)
           b == P!DenyIf(~e.setup /\ r.class \notin {"setup", "themeAsset"}, P!Deny(0, "/setup", "setup-incomplete"))
           c == P!DenyIf(e.setup /\ r.class = "setup", P!NotFound)
<1>1. P!SetupGate(e, q, r) = P!FirstDenied(<<a, b, c>>)
  BY DEF P!SetupGate
<1>2. /\ a.allow <=> ~(r.class = "unknown")
      /\ a.redirect = IF r.class = "unknown"
                       THEN "" ELSE ""
  BY DEF P!Allow, P!Deny, P!DenyIf, P!NotFound, P!AuthRequired
<1>3. /\ b.allow <=> ~(~e.setup /\ r.class \notin {"setup", "themeAsset"})
      /\ b.redirect = IF ~e.setup /\ r.class \notin {"setup", "themeAsset"}
                       THEN "/setup" ELSE ""
  BY DEF P!Allow, P!Deny, P!DenyIf, P!NotFound, P!AuthRequired
<1>4. /\ c.allow <=> ~(e.setup /\ r.class = "setup")
      /\ c.redirect = IF e.setup /\ r.class = "setup"
                       THEN "" ELSE ""
  BY DEF P!Allow, P!Deny, P!DenyIf, P!NotFound, P!AuthRequired
<1>5. P!Allow.allow /\ P!Allow.redirect = ""
  BY DEF P!Allow
<1> HIDE DEF a, b, c
<1>6. P!FirstDenied(<<a, b, c>>) =
         IF ~a.allow THEN a ELSE IF ~b.allow THEN b ELSE IF ~c.allow THEN c ELSE P!Allow
  BY FirstOfThree
<1> QED BY <1>1, <1>2, <1>3, <1>4, <1>5, <1>6

LEMMA BanSays ==
  ASSUME NEW e, NEW q, NEW r
  PROVE  /\ ~(q.authed /\ (q.banned \/ q.teamBanned)) => P!BanGate(e, q, r).allow
         /\ P!BanGate(e, q, r).redirect = ""
<1> DEFINE a == P!DenyIf(q.banned, P!Deny(403, "", "banned"))
           b == P!DenyIf(q.teamBanned, P!Deny(403, "", "team-banned"))
<1>1. P!BanGate(e, q, r) = IF q.authed /\ r.class \notin P!ExemptFromBan THEN P!FirstDenied(<<a, b>>) ELSE P!Allow
  BY DEF P!BanGate
<1>2. /\ a.allow <=> ~(q.banned)
      /\ a.redirect = IF q.banned
                       THEN "" ELSE ""
  BY DEF P!Allow, P!Deny, P!DenyIf, P!NotFound, P!AuthRequired
<1>3. /\ b.allow <=> ~(q.teamBanned)
      /\ b.redirect = IF q.teamBanned
                       THEN "" ELSE ""
  BY DEF P!Allow, P!Deny, P!DenyIf, P!NotFound, P!AuthRequired
<1>4. P!Allow.allow /\ P!Allow.redirect = ""
  BY DEF P!Allow
<1> HIDE DEF a, b
<1>5. P!FirstDenied(<<a, b>>) =
         IF ~a.allow THEN a ELSE IF ~b.allow THEN b ELSE P!Allow
  BY FirstOfTwo
<1> QED BY <1>1, <1>2, <1>3, <1>4, <1>5

LEMMA PasswordSays ==
  ASSUME NEW e, NEW q, NEW r
  PROVE  /\ P!PasswordGate(e, q, r).allow <=>
              ~(q.authed /\ q.forced /\ r.class \notin P!ExemptFromPasswordChange)
         /\ P!PasswordGate(e, q, r).redirect # "" =>
              /\ P!PasswordGate(e, q, r).redirect = "/change-password"
              /\ q.authed /\ r.class \notin P!ExemptFromPasswordChange
BY DEF P!Allow, P!Deny, P!DenyIf, P!NotFound, P!AuthRequired, P!PasswordGate

LEMMA ModeSays ==
  ASSUME NEW e, NEW q, NEW r
  PROVE  /\ P!ModeGate(e, q, r).allow <=> P!AvailableIn(r.class, e.mode)
         /\ P!ModeGate(e, q, r).redirect = ""
BY DEF P!Allow, P!Deny, P!DenyIf, P!NotFound, P!AuthRequired, P!ModeGate

LEMMA AdminSays ==
  ASSUME NEW e, NEW q, NEW r
  PROVE  /\ P!AdminGate(e, q, r).allow <=> (r.class \in P!AdminOnly => q.admin)
         /\ P!AdminGate(e, q, r).redirect = ""
BY DEF P!Allow, P!Deny, P!DenyIf, P!NotFound, P!AuthRequired, P!AdminGate

LEMMA CheckVisSays ==
  ASSUME NEW e \in P!Events, NEW q, NEW what \in {"registration", "challenge", "account", "score"}
  PROVE  /\ P!CheckVis(what, e, q).redirect # "" =>
              P!CheckVis(what, e, q).redirect = "/login" /\ ~q.authed
         /\ what = "account" /\ P!CheckVis(what, e, q).allow =>
              \/ e.account = "public"
              \/ e.account = "private" /\ q.authed
              \/ e.account = "admins" /\ q.admin
<1>1. e.account \in {"public", "private", "admins"} /\ e.account = e["account"]
  BY DEF P!Events, P!Vis
<1> QED BY <1>1 DEF P!Allow, P!Deny, P!DenyIf, P!NotFound, P!AuthRequired, P!CheckVis

LEMMA VisibilitySays ==
  ASSUME NEW e \in P!Events, NEW q, NEW r
  PROVE  /\ P!VisibilityGate(e, q, r).redirect # "" =>
              /\ P!VisibilityGate(e, q, r).redirect = "/login" /\ ~q.authed
              /\ P!VisibilityGates(r.class) # << >>
         /\ P!VisibilityGates(r.class) = << >> => P!VisibilityGate(e, q, r).allow
         /\ r.class \in {"accountDetail", "teamDetail"} =>
              P!VisibilityGate(e, q, r) = P!FirstDenied(<<P!CheckVis("account", e, q)>>)
<1> DEFINE kinds == P!VisibilityGates(r.class)
           s == [i \in DOMAIN kinds |-> P!CheckVis(kinds[i], e, q)]
<1>1. P!VisibilityGate(e, q, r) = P!FirstDenied(s)
  BY DEF P!VisibilityGate
<1>2. kinds \in {<<"registration">>, <<"challenge">>, <<"challenge", "account">>, <<"account", "score">>,
                 <<"account">>, << >>}
  BY DEF P!VisibilityGates
<1>3. /\ DOMAIN kinds \subseteq {1, 2}
      /\ \A i \in DOMAIN kinds : kinds[i] \in {"registration", "challenge", "account", "score"}
  BY <1>2
<1>4. kinds = << >> => DOMAIN kinds = {}
  OBVIOUS
<1>5. r.class \in {"accountDetail", "teamDetail"} => s = <<P!CheckVis("account", e, q)>>
  <2> SUFFICES ASSUME r.class \in {"accountDetail", "teamDetail"}
               PROVE  s = <<P!CheckVis("account", e, q)>>
    OBVIOUS
  <2>1. kinds = <<"account">>
    BY DEF P!VisibilityGates
  <2> QED BY <2>1
<1> HIDE DEF kinds
<1>6. P!FirstDenied(s) = P!Allow \/ \E i \in DOMAIN kinds : P!FirstDenied(s) = P!CheckVis(kinds[i], e, q)
  <2>1. DOMAIN s = DOMAIN kinds /\ \A i \in DOMAIN kinds : s[i] = P!CheckVis(kinds[i], e, q)
    OBVIOUS
  <2> HIDE DEF s
  <2>2. CASE \A i \in DOMAIN s : s[i].allow
    BY <2>2, FirstNone
  <2>3. CASE 1 \in DOMAIN s /\ ~s[1].allow
    <3>1. P!FirstDenied(s) = s[1]
      BY <1>3, <2>1, <2>3, FirstOne
    <3> QED BY <2>1, <2>3, <3>1
  <2>4. CASE 2 \in DOMAIN s /\ ~s[2].allow /\ (1 \in DOMAIN s => s[1].allow)
    <3>1. P!FirstDenied(s) = s[2]
      BY <1>3, <2>1, <2>4, FirstOne
    <3> QED BY <2>1, <2>4, <3>1
  <2> QED BY <1>3, <2>1, <2>2, <2>3, <2>4
<1>7. kinds = << >> => P!FirstDenied(s) = P!Allow
  BY <1>4, <1>6
<1> HIDE DEF s
<1>8. P!FirstDenied(s).redirect # "" =>
        P!FirstDenied(s).redirect = "/login" /\ ~q.authed /\ kinds # << >>
  <2>1. P!Allow.redirect = ""
    BY DEF P!Allow
  <2>2. ASSUME NEW i \in DOMAIN kinds, P!FirstDenied(s) = P!CheckVis(kinds[i], e, q),
               P!FirstDenied(s).redirect # ""
        PROVE  P!FirstDenied(s).redirect = "/login" /\ ~q.authed
    <3>1. P!CheckVis(kinds[i], e, q).redirect # "" =>
            P!CheckVis(kinds[i], e, q).redirect = "/login" /\ ~q.authed
      BY <1>3, CheckVisSays
    <3> QED BY <2>2, <3>1
  <2> QED BY <1>6, <1>7, <2>1, <2>2
<1>9. P!VisibilityGates(r.class) = << >> => P!VisibilityGate(e, q, r).allow
  <2>1. P!Allow.allow
    BY DEF P!Allow
  <2> HIDE DEF kinds
  <2>2. kinds = << >> => P!VisibilityGate(e, q, r).allow
    BY <1>1, <1>7, <2>1
  <2> QED BY <2>2 DEF kinds
<1>10. P!VisibilityGate(e, q, r).redirect # "" =>
         /\ P!VisibilityGate(e, q, r).redirect = "/login" /\ ~q.authed
         /\ P!VisibilityGates(r.class) # << >>
  BY <1>1, <1>8 DEF kinds
<1>11. r.class \in {"accountDetail", "teamDetail"} =>
         P!VisibilityGate(e, q, r) = P!FirstDenied(<<P!CheckVis("account", e, q)>>)
  BY <1>1, <1>5
<1> QED BY <1>9, <1>10, <1>11

LEMMA AuthSays ==
  ASSUME NEW e, NEW q, NEW r
  PROVE  /\ P!AuthGate(e, q, r).allow <=>
              /\ r.class \in P!RequiresAuth => q.authed
              /\ ~(r.class = "register" /\ q.authed)
         /\ P!AuthGate(e, q, r).redirect # "" =>
              \/ P!AuthGate(e, q, r).redirect = "/login" /\ ~q.authed /\ r.class \in P!RequiresAuth
              \/ P!AuthGate(e, q, r).redirect = "/challenges" /\ r.class = "register"
<1> DEFINE a == P!DenyIf(r.class \in P!RequiresAuth /\ ~q.authed,
                    IF r.class = "challengeAttempt" THEN P!Deny(403, "", "authentication-required")
                                                    ELSE P!AuthRequired)
           b == P!DenyIf(r.class = "register" /\ q.authed, P!Deny(0, "/challenges", "already-authed"))
<1>1. P!AuthGate(e, q, r) = P!FirstDenied(<<a, b>>)
  BY DEF P!AuthGate
<1>2. /\ a.allow <=> ~(r.class \in P!RequiresAuth /\ ~q.authed)
      /\ a.redirect = IF r.class \in P!RequiresAuth /\ ~q.authed
                       THEN IF r.class = "challengeAttempt" THEN "" ELSE "/login" ELSE ""
  BY DEF P!Allow, P!Deny, P!DenyIf, P!NotFound, P!AuthRequired
<1>3. /\ b.allow <=> ~(r.class = "register" /\ q.authed)
      /\ b.redirect = IF r.class = "register" /\ q.authed
                       THEN "/challenges" ELSE ""
  BY DEF P!Allow, P!Deny, P!DenyIf, P!NotFound, P!AuthRequired
<1>4. P!Allow.allow /\ P!Allow.redirect = ""
  BY DEF P!Allow
<1> HIDE DEF a, b
<1>5. P!FirstDenied(<<a, b>>) =
         IF ~a.allow THEN a ELSE IF ~b.allow THEN b ELSE P!Allow
  BY FirstOfTwo
<1> QED BY <1>1, <1>2, <1>3, <1>4, <1>5 DEF P!RequiresAuth, P!TeamRoutes

LEMMA VerifiedSays ==
  ASSUME NEW e, NEW q, NEW r
  PROVE  /\ r.class \notin P!RequiresVerified => P!VerifiedGate(e, q, r).allow
         /\ P!VerifiedGate(e, q, r).redirect # "" =>
              P!VerifiedGate(e, q, r).redirect = "/confirm" /\ r.class \in P!RequiresVerified
BY DEF P!Allow, P!Deny, P!DenyIf, P!NotFound, P!AuthRequired, P!VerifiedGate

LEMMA ProfileSays ==
  ASSUME NEW e, NEW q, NEW r
  PROVE  /\ r.class \notin P!RequiresCompleteProfile => P!ProfileGate(e, q, r).allow
         /\ P!ProfileGate(e, q, r).redirect # "" =>
              /\ P!ProfileGate(e, q, r).redirect = "/settings" /\ q.authed
              /\ r.class \in P!RequiresCompleteProfile
<1> DEFINE a == P!DenyIf(~q.profile, P!Deny(0, "/settings", "incomplete-profile"))
           b == P!DenyIf(e.mode = "teams" /\ ~q.teamless /\ ~q.teamProfile,
                    P!Deny(403, "", "incomplete-team-profile"))
<1>1. P!ProfileGate(e, q, r) = IF r.class \in P!RequiresCompleteProfile /\ q.authed /\ ~q.admin THEN P!FirstDenied(<<a, b>>) ELSE P!Allow
  BY DEF P!ProfileGate
<1>2. /\ a.allow <=> ~(~q.profile)
      /\ a.redirect = IF ~q.profile
                       THEN "/settings" ELSE ""
  BY DEF P!Allow, P!Deny, P!DenyIf, P!NotFound, P!AuthRequired
<1>3. /\ b.allow <=> ~(e.mode = "teams" /\ ~q.teamless /\ ~q.teamProfile)
      /\ b.redirect = IF e.mode = "teams" /\ ~q.teamless /\ ~q.teamProfile
                       THEN "" ELSE ""
  BY DEF P!Allow, P!Deny, P!DenyIf, P!NotFound, P!AuthRequired
<1>4. P!Allow.allow /\ P!Allow.redirect = ""
  BY DEF P!Allow
<1> HIDE DEF a, b
<1>5. P!FirstDenied(<<a, b>>) =
         IF ~a.allow THEN a ELSE IF ~b.allow THEN b ELSE P!Allow
  BY FirstOfTwo
<1> QED BY <1>1, <1>2, <1>3, <1>4, <1>5

LEMMA TeamSays ==
  ASSUME NEW e, NEW q, NEW r
  PROVE  /\ r.class \notin P!RequiresTeam \cup {"teamCreate"} => P!TeamGate(e, q, r).allow
         /\ P!TeamGate(e, q, r).redirect # "" =>
              /\ P!TeamGate(e, q, r).redirect = "/team"
              /\ r.class \in P!RequiresTeam /\ e.mode = "teams" /\ q.teamless
<1> DEFINE a == P!DenyIf(r.class \in P!RequiresTeam /\ e.mode = "teams" /\ q.teamless /\ ~q.admin,
                    P!Deny(403, "/team", "team-required"))
           b == P!DenyIf(r.class = "teamCreate" /\ ~e.teamCreation /\ ~q.admin,
                    P!Deny(403, "", "team-creation-disabled"))
           c == P!DenyIf(r.class = "teamCreate" /\ ~q.teamless, P!Deny(403, "", "already-on-team"))
<1>1. P!TeamGate(e, q, r) = P!FirstDenied(<<a, b, c>>)
  BY DEF P!TeamGate
<1>2. /\ a.allow <=> ~(r.class \in P!RequiresTeam /\ e.mode = "teams" /\ q.teamless /\ ~q.admin)
      /\ a.redirect = IF r.class \in P!RequiresTeam /\ e.mode = "teams" /\ q.teamless /\ ~q.admin
                       THEN "/team" ELSE ""
  BY DEF P!Allow, P!Deny, P!DenyIf, P!NotFound, P!AuthRequired
<1>3. /\ b.allow <=> ~(r.class = "teamCreate" /\ ~e.teamCreation /\ ~q.admin)
      /\ b.redirect = IF r.class = "teamCreate" /\ ~e.teamCreation /\ ~q.admin
                       THEN "" ELSE ""
  BY DEF P!Allow, P!Deny, P!DenyIf, P!NotFound, P!AuthRequired
<1>4. /\ c.allow <=> ~(r.class = "teamCreate" /\ ~q.teamless)
      /\ c.redirect = IF r.class = "teamCreate" /\ ~q.teamless
                       THEN "" ELSE ""
  BY DEF P!Allow, P!Deny, P!DenyIf, P!NotFound, P!AuthRequired
<1>5. P!Allow.allow /\ P!Allow.redirect = ""
  BY DEF P!Allow
<1> HIDE DEF a, b, c
<1>6. P!FirstDenied(<<a, b, c>>) =
         IF ~a.allow THEN a ELSE IF ~b.allow THEN b ELSE IF ~c.allow THEN c ELSE P!Allow
  BY FirstOfThree
<1> QED BY <1>1, <1>2, <1>3, <1>4, <1>5, <1>6 DEF P!RequiresTeam, P!RequiresCompleteProfile

LEMMA ClockSays ==
  ASSUME NEW e \in P!Events, NEW q, NEW r
  PROVE  /\ r.class \notin P!TimeGated => P!ClockGate(e, q, r).allow
         /\ P!ClockGate(e, q, r).redirect # "" =>
              /\ P!ClockGate(e, q, r).redirect = "/team"
              /\ r.class \in P!TimeGated /\ e.mode = "teams" /\ q.teamless
<1>1. e.phase \in {"before", "running", "ended"}
  BY DEF P!Events, P!Phases
<1> QED BY <1>1 DEF P!Allow, P!Deny, P!DenyIf, P!NotFound, P!AuthRequired, P!ClockGate

LEMMA LastSay ==
  ASSUME NEW e, NEW q, NEW r
  PROVE  /\ r.class \notin P!ClosesAtEnd => P!EnrollmentGate(e, q, r).allow
         /\ P!EnrollmentGate(e, q, r).redirect = ""
         /\ r.class # "challengeAttempt" => P!PauseGate(e, q, r).allow
         /\ P!PauseGate(e, q, r).redirect = ""
BY DEF P!Allow, P!Deny, P!DenyIf, P!NotFound, P!AuthRequired, P!EnrollmentGate, P!PauseGate

LEMMA WallSays ==
  ASSUME NEW q
  PROVE  /\ P!BanWall(q).allow => ~(q.authed /\ (q.banned \/ q.teamBanned))
         /\ P!BanWall(q).redirect = ""
<1> DEFINE a == P!DenyIf(q.banned, P!Deny(403, "", "banned"))
           b == P!DenyIf(q.teamBanned, P!Deny(403, "", "team-banned"))
<1>1. P!BanWall(q) = IF q.authed THEN P!FirstDenied(<<a, b>>) ELSE P!Allow
  BY DEF P!BanWall
<1>2. /\ a.allow <=> ~q.banned
      /\ a.redirect = ""
  BY DEF P!Allow, P!Deny, P!DenyIf
<1>3. /\ b.allow <=> ~q.teamBanned
      /\ b.redirect = ""
  BY DEF P!Allow, P!Deny, P!DenyIf
<1>4. P!Allow.allow /\ P!Allow.redirect = ""
  BY DEF P!Allow
<1> HIDE DEF a, b
<1>5. P!FirstDenied(<<a, b>>) =
        IF ~a.allow THEN a ELSE IF ~b.allow THEN b ELSE P!Allow
  BY FirstOfTwo
<1> QED BY <1>1, <1>2, <1>3, <1>4, <1>5

(* Where somebody past the ban wall is let in: the forms the refusals name. *)
LEMMA LandingOpens ==
  ASSUME NEW e \in P!Events, NEW q, P!BanWall(q).allow,
         NEW c \in {"setup", "login", "confirm", "accountSelf", "teamSelf", "passwordChange"},
         e.setup <=> c # "setup",
         c \in {"confirm", "accountSelf", "teamSelf"} => ~(q.authed /\ q.forced),
         c \in {"accountSelf", "teamSelf", "passwordChange"} => q.authed,
         c = "teamSelf" => e.mode = "teams"
  PROVE  P!Decide(e, q, Plain(c)).allow
<1> DEFINE r == Plain(c)
<1>1. r.class = c
  BY DEF Plain
<1> HIDE DEF r
<1>2. P!SetupGate(e, q, r).allow
  BY <1>1, SetupSays
<1>3. P!BanGate(e, q, r).allow
  BY BanSays, WallSays
<1>4. P!PasswordGate(e, q, r).allow
  BY <1>1, PasswordSays DEF P!ExemptFromPasswordChange
<1>5. P!ModeGate(e, q, r).allow
  BY <1>1, ModeSays DEF P!AvailableIn, P!TeamRoutes
<1>6. P!AdminGate(e, q, r).allow
  BY <1>1, AdminSays DEF P!AdminOnly
<1>7. P!VisibilityGate(e, q, r).allow
  BY <1>1, VisibilitySays DEF P!VisibilityGates
<1>8. P!AuthGate(e, q, r).allow
  BY <1>1, AuthSays DEF P!RequiresAuth, P!TeamRoutes
<1>9. P!VerifiedGate(e, q, r).allow
  BY <1>1, VerifiedSays DEF P!RequiresVerified, P!TimeGated, P!RequiresCompleteProfile, P!MutatesScore
<1>10. P!ProfileGate(e, q, r).allow
  BY <1>1, ProfileSays DEF P!RequiresCompleteProfile
<1>11. P!TeamGate(e, q, r).allow
  BY <1>1, TeamSays DEF P!RequiresTeam, P!RequiresCompleteProfile
<1>12. P!ClockGate(e, q, r).allow
  BY <1>1, ClockSays DEF P!TimeGated, P!RequiresCompleteProfile, P!MutatesScore
<1>13. P!EnrollmentGate(e, q, r).allow /\ P!PauseGate(e, q, r).allow
  BY <1>1, LastSay DEF P!ClosesAtEnd
<1>14. P!Allow.allow
  BY DEF P!Allow
<1>15. P!Decide(e, q, r).allow
  BY <1>2, <1>3, <1>4, <1>5, <1>6, <1>7, <1>8, <1>9, <1>10, <1>11, <1>12, <1>13, <1>14, Decided
<1> QED BY <1>15 DEF r

(* Where a refusal leads, whoever is refused.                              *)
LEMMA RefusalLands ==
  ASSUME NEW e \in P!Events, NEW q \in P!Viewers, P!BanWall(q).allow, NEW c \in P!Classes,
         NEW to, to = P!Decide(e, q, Plain(c)).redirect, to # ""
  PROVE  \/ to = "/challenges" /\ c = "register"
         \/ to \in DOMAIN Landing /\ P!Decide(e, q, Plain(Landing[to])).allow
<1> DEFINE r == Plain(c)
<1>1. r.class = c
  BY DEF Plain
<1>2. to = P!Decide(e, q, r).redirect
  OBVIOUS
<1>3. /\ Landing["/login"] = "login" /\ Landing["/confirm"] = "confirm" /\ Landing["/settings"] = "accountSelf"
      /\ Landing["/team"] = "teamSelf" /\ Landing["/change-password"] = "passwordChange"
      /\ Landing["/setup"] = "setup"
      /\ {"/login", "/confirm", "/settings", "/team", "/change-password", "/setup"} \subseteq DOMAIN Landing
  BY DEF Landing
<1>4. q.teamless => q.authed
  <2>1. ~P!Nobody.teamless
    BY DEF P!Nobody
  <2> QED BY <2>1 DEF P!Viewers
<1> HIDE DEF r
<1>6. CASE ~P!SetupGate(e, q, r).allow
  <2>1. to = "/setup" /\ ~e.setup
    BY <1>2, <1>6, Decided, SetupSays
  <2> QED BY <1>3, <2>1, LandingOpens
<1>7. CASE c \in {"setup", "themeAsset"} /\ P!SetupGate(e, q, r).allow
  <2>1. P!PasswordGate(e, q, r).redirect = ""
    BY <1>1, <1>7, PasswordSays DEF P!ExemptFromPasswordChange
  <2>2. P!VisibilityGate(e, q, r).redirect = ""
    BY <1>1, <1>7, VisibilitySays DEF P!VisibilityGates
  <2>3. P!AuthGate(e, q, r).redirect = ""
    BY <1>1, <1>7, AuthSays DEF P!RequiresAuth, P!TeamRoutes
  <2>4. P!VerifiedGate(e, q, r).redirect = ""
    BY <1>1, <1>7, VerifiedSays DEF P!RequiresVerified, P!TimeGated, P!RequiresCompleteProfile, P!MutatesScore
  <2>5. P!ProfileGate(e, q, r).redirect = "" /\ P!TeamGate(e, q, r).redirect = ""
    BY <1>1, <1>7, ProfileSays, TeamSays DEF P!RequiresTeam, P!RequiresCompleteProfile
  <2>6. P!ClockGate(e, q, r).redirect = ""
    BY <1>1, <1>7, ClockSays DEF P!TimeGated, P!RequiresCompleteProfile, P!MutatesScore
  <2>7. P!Allow.redirect = ""
    BY DEF P!Allow
  <2> QED BY <1>2, <1>7, <2>1, <2>2, <2>3, <2>4, <2>5, <2>6, <2>7, Decided,
             BanSays, ModeSays, AdminSays, LastSay
<1>8. CASE c \notin {"setup", "themeAsset"} /\ P!SetupGate(e, q, r).allow
  <2>1. e.setup
    BY <1>1, <1>8, SetupSays
  <2>2. CASE ~P!PasswordGate(e, q, r).allow /\ to = P!PasswordGate(e, q, r).redirect
    <3>1. to = "/change-password" /\ q.authed
      BY <2>2, PasswordSays
    <3> QED BY <1>3, <2>1, <3>1, LandingOpens
  <2>3. ASSUME P!PasswordGate(e, q, r).allow, c \notin P!ExemptFromPasswordChange
        PROVE  ~(q.authed /\ q.forced)
    BY <1>1, <2>3, PasswordSays
  <2>4. CASE to = "/login" /\ ~q.authed
    BY <1>3, <2>1, <2>4, LandingOpens
  <2>5. CASE to = P!VisibilityGate(e, q, r).redirect
    BY <2>4, <2>5, VisibilitySays
  <2>6. CASE to = P!AuthGate(e, q, r).redirect
    BY <1>1, <2>4, <2>6, AuthSays
  <2>7. CASE P!PasswordGate(e, q, r).allow /\ to = P!VerifiedGate(e, q, r).redirect
    <3>1. to = "/confirm" /\ c \in P!RequiresVerified
      BY <1>1, <2>7, VerifiedSays
    <3>2. c \notin P!ExemptFromPasswordChange
      BY <3>1 DEF P!RequiresVerified, P!TimeGated, P!RequiresCompleteProfile, P!MutatesScore, P!ExemptFromPasswordChange
    <3> QED BY <1>3, <2>1, <2>3, <2>7, <3>1, <3>2, LandingOpens
  <2>8. CASE P!PasswordGate(e, q, r).allow /\ to = P!ProfileGate(e, q, r).redirect
    <3>1. to = "/settings" /\ q.authed /\ c \in P!RequiresCompleteProfile
      BY <1>1, <2>8, ProfileSays
    <3>2. c \notin P!ExemptFromPasswordChange
      BY <3>1 DEF P!RequiresCompleteProfile, P!ExemptFromPasswordChange
    <3> QED BY <1>3, <2>1, <2>3, <2>8, <3>1, <3>2, LandingOpens
  <2>9. CASE /\ P!PasswordGate(e, q, r).allow
             /\ to = P!TeamGate(e, q, r).redirect \/ to = P!ClockGate(e, q, r).redirect
    <3>1. to = "/team" /\ q.teamless /\ e.mode = "teams" /\ c \in P!RequiresTeam \cup P!TimeGated
      BY <1>1, <2>9, TeamSays, ClockSays
    <3>2. c \notin P!ExemptFromPasswordChange
      BY <3>1 DEF P!RequiresTeam, P!TimeGated, P!RequiresCompleteProfile, P!MutatesScore, P!ExemptFromPasswordChange
    <3> QED BY <1>3, <1>4, <2>1, <2>3, <2>9, <3>1, <3>2, LandingOpens
  <2>10. P!Allow.redirect = ""
    BY DEF P!Allow
  <2>11. \/ ~P!PasswordGate(e, q, r).allow /\ to = P!PasswordGate(e, q, r).redirect
         \/ /\ P!PasswordGate(e, q, r).allow
            /\ to \in {P!VisibilityGate(e, q, r).redirect, P!AuthGate(e, q, r).redirect,
                       P!VerifiedGate(e, q, r).redirect, P!ProfileGate(e, q, r).redirect,
                       P!TeamGate(e, q, r).redirect, P!ClockGate(e, q, r).redirect}
    BY <1>2, <1>8, <2>10, Decided, BanSays, ModeSays, AdminSays, LastSay
  <2> QED BY <2>2, <2>5, <2>6, <2>7, <2>8, <2>9, <2>11
<1> QED BY <1>6, <1>7, <1>8

(* Who a request is decided for, by what it carries.                       *)
Bearer(cred, p) == IF cred \in {"cookie", "token"} THEN p ELSE P!Nobody

LEMMA DecisionOfNone == ASSUME NEW e, NEW q, NEW r, P!Decide(e, q, r).allow
                        PROVE  P!Decide(e, q, r).redirect = ""
<1>1. P!Allow.redirect = ""
  BY DEF P!Allow
<1> QED BY <1>1, Decided

(* The chain in front: nobody is redirected by it, and past it Decide has  *)
(* the word.                                                               *)
LEMMA ServeSays ==
  ASSUME NEW e, NEW cred \in P!Credentials, NEW p, NEW r, r.safe
  PROVE  LET q == Bearer(cred, p)
             answer == P!Serve(e, cred, p, r)
         IN IF cred \in {"deadToken", "unchecked"} \/ ~P!BanWall(q).allow
              THEN ~answer.allow /\ answer.redirect = ""
              ELSE /\ answer.allow <=> P!Decide(e, q, r).allow
                   /\ answer.redirect = P!Decide(e, q, r).redirect
<1> DEFINE q == Bearer(cred, p)
           a == P!Authenticate(cred, p)
           answer == P!Serve(e, cred, p, r)
<1>1. CASE cred \in {"deadToken", "unchecked"}
  <2>1. ~a.ok
    BY <1>1 DEF P!Authenticate
  <2>2. answer = P!Deny(a.status, "", "credential")
    BY <2>1 DEF P!Serve
  <2>3. \A x : ~P!Deny(x, "", "credential").allow /\ P!Deny(x, "", "credential").redirect = ""
    BY DEF P!Deny
  <2> HIDE DEF a, answer
  <2>4. ~answer.allow /\ answer.redirect = ""
    BY <2>2, <2>3
  <2> QED BY <1>1, <2>4 DEF answer
<1>2. CASE cred \notin {"deadToken", "unchecked"}
  <2>1. a.ok /\ a.principal = q
    BY <1>2 DEF P!Authenticate, P!Credentials, Bearer
  <2>2. P!CSRF(a.method, r) = P!Allow
    BY DEF P!CSRF, P!DenyIf
  <2>3. answer = P!FirstDenied(<<P!BanWall(q), P!Allow, P!Decide(e, q, r)>>)
    BY <2>1, <2>2 DEF P!Serve
  <2>4. answer = IF ~P!BanWall(q).allow THEN P!BanWall(q)
                 ELSE IF ~P!Allow.allow THEN P!Allow
                 ELSE IF ~P!Decide(e, q, r).allow THEN P!Decide(e, q, r) ELSE P!Allow
    BY <2>3, FirstOfThree
  <2>5. P!Allow.allow /\ P!Allow.redirect = ""
    BY DEF P!Allow
  <2> HIDE DEF q, a, answer
  <2>6. P!BanWall(q).redirect = ""
    BY WallSays
  <2>7. P!Decide(e, q, r).allow => P!Decide(e, q, r).redirect = ""
    BY DecisionOfNone
  <2>8. IF ~P!BanWall(q).allow
          THEN ~answer.allow /\ answer.redirect = ""
          ELSE /\ answer.allow <=> P!Decide(e, q, r).allow
               /\ answer.redirect = P!Decide(e, q, r).redirect
    BY <2>4, <2>5, <2>6, <2>7
  <2> QED BY <1>2, <2>8 DEF q, answer
<1> QED BY <1>1, <1>2

(* What was let through passed the gates of admins and of accounts.        *)
LEMMA ServedPassed ==
  ASSUME NEW e \in P!Events, NEW cred \in P!Credentials, NEW p, NEW r, r.safe,
         P!Serve(e, cred, p, r).allow
  PROVE  LET q == Bearer(cred, p)
         IN /\ r.class \in P!AdminOnly => q.admin
            /\ r.class \in {"accountDetail", "teamDetail"} =>
                 \/ e.account = "public"
                 \/ e.account = "private" /\ q.authed
                 \/ e.account = "admins" /\ q.admin
<1> DEFINE q == Bearer(cred, p)
<1>1. P!Decide(e, q, r).allow
  BY ServeSays
<1> HIDE DEF q
<1>2. P!AdminGate(e, q, r).allow /\ P!VisibilityGate(e, q, r).allow
  BY <1>1, Decided
<1>3. r.class \in P!AdminOnly => q.admin
  BY <1>2, AdminSays
<1>4. ASSUME r.class \in {"accountDetail", "teamDetail"}
      PROVE  P!CheckVis("account", e, q).allow
  <2> DEFINE s == <<P!CheckVis("account", e, q)>>
  <2>1. P!FirstDenied(s).allow
    BY <1>2, <1>4, VisibilitySays
  <2>2. DOMAIN s = {1} /\ s[1] = P!CheckVis("account", e, q)
    OBVIOUS
  <2> HIDE DEF s
  <2>3. SUFFICES ASSUME ~s[1].allow PROVE FALSE
    BY <2>2
  <2>4. P!FirstDenied(s) = s[1]
    BY <2>2, <2>3, FirstOne
  <2> QED BY <2>1, <2>3, <2>4
<1>5. r.class \in {"accountDetail", "teamDetail"} =>
        \/ e.account = "public"
        \/ e.account = "private" /\ q.authed
        \/ e.account = "admins" /\ q.admin
  BY <1>4, CheckVisSays
<1> QED BY <1>3, <1>5 DEF q

(* An event with a freeze, and somebody who can be looking.                *)
PageFits == focus = "decisions" => page \in {e \in P!Events : e.freeze} \X P!Viewers

LEMMA PageHolds == FrontSpec => []PageFits
<1>1. FrontInit => PageFits
  BY InputsAreReal DEF FrontInit, PageFits
<1>2. PageFits /\ [FrontNext]_all => PageFits'
  BY DEF PageFits, FrontNext, Credentials, Budgets, Play, Streaming, all, inputs
<1> QED BY <1>1, <1>2, PTL DEF FrontSpec

LEMMA PageRedirects == PageFits => RedirectsLand
<1> SUFFICES ASSUME PageFits, focus = "decisions"
             PROVE  RedirectsLand
  BY DEF RedirectsLand
<1> DEFINE e == page[1]
           p == page[2]
<1>1. e \in P!Events /\ p \in P!Viewers
  BY DEF PageFits
<1> HIDE DEF e, p
<1>2. ASSUME NEW cred \in Carries(p), NEW c \in P!Classes,
             P!Serve(e, cred, p, Plain(c)).redirect # ""
      PROVE  LET to == P!Serve(e, cred, p, Plain(c)).redirect
             IN \/ to \in DOMAIN Landing /\ P!Serve(e, cred, p, Plain(Landing[to])).allow
                \/ to = "/challenges" /\ c = "register"
  <2> DEFINE q == Bearer(cred, p)
             to == P!Serve(e, cred, p, Plain(c)).redirect
  <2>1. cred \in P!Credentials
    BY DEF Carries, P!Credentials
  <2>2. \A d : Plain(d).safe
    BY DEF Plain
  <2>3. q \in P!Viewers
    BY <1>1 DEF Bearer, P!Viewers
  <2>4. /\ P!BanWall(q).allow /\ to = P!Decide(e, q, Plain(c)).redirect
        /\ cred \notin {"deadToken", "unchecked"}
    BY <1>2, <2>1, <2>2, ServeSays
  <2>5. \A d : P!Decide(e, q, Plain(d)).allow => P!Serve(e, cred, p, Plain(d)).allow
    BY <2>1, <2>2, <2>4, ServeSays
  <2>6. to # ""
    BY <1>2
  <2> HIDE DEF q, to
  <2>7. \/ to = "/challenges" /\ c = "register"
        \/ to \in DOMAIN Landing /\ P!Decide(e, q, Plain(Landing[to])).allow
    BY <1>1, <2>3, <2>4, <2>6, RefusalLands
  <2>8. to \in DOMAIN Landing \/ to = "/challenges"
    BY <2>7
  <2> QED BY <2>5, <2>7 DEF to
<1>3. \A cred \in Carries(p), c \in P!Classes :
        LET Answer(d) == P!Serve(e, cred, p, Plain(d))
            Lands(l) == Answer(Landing[l]).allow
            to == Answer(c).redirect
            next == Answer("challengeList").redirect
        IN to # "" => \/ Lands(to)
                      \/ to = "/challenges" /\ (next # "" => Lands(next))
  <2> TAKE cred \in Carries(p), c \in P!Classes
  <2> DEFINE Answer(d) == P!Serve(e, cred, p, Plain(d))
             to == Answer(c).redirect
             next == Answer("challengeList").redirect
  <2>1. to # "" => Answer(Landing[to]).allow \/ to = "/challenges"
    BY <1>2
  <2>2. "challengeList" \in P!Classes
    BY DEF P!Classes
  <2>3. next # "" => Answer(Landing[next]).allow
    BY <1>2, <2>2
  <2> QED BY <2>1, <2>3
<1> QED BY <1>3 DEF RedirectsLand, e, p

(* Wherever a refusal sends its caller, there they are let in.             *)
THEOREM RedirectsLandHolds == FrontSpec => []RedirectsLand
BY PageHolds, PageRedirects, PTL

LEMMA PageWithholds == PageFits => WithheldStaysWithheld
<1> SUFFICES ASSUME PageFits, focus = "decisions"
             PROVE  WithheldStaysWithheld
  BY DEF WithheldStaysWithheld
<1> DEFINE e == page[1]
           p == page[2]
           red == P!NewRedactor(e, p)
           Served(r) == \E cred \in Carries(p) : P!Serve(e, cred, p, r).allow
<1>1. e \in P!Events /\ e.freeze /\ p \in P!Viewers
  BY DEF PageFits
<1>2. ~P!Nobody.admin /\ ~P!Nobody.authed
  BY DEF P!Nobody
<1>3. Carries(p) \subseteq P!Credentials
  BY DEF Carries, P!Credentials
<1> HIDE DEF e, p
<1>4. ASSUME NEW r, r.safe, Served(r), r.class \in P!AdminOnly
      PROVE  p.admin
  BY <1>1, <1>2, <1>3, <1>4, ServedPassed DEF Bearer
<1>5. ASSUME NEW r, r.safe, Served(r), r.class \in {"accountDetail", "teamDetail"}
      PROVE  P!Visible(e.account, p)
  BY <1>1, <1>2, <1>3, <1>5, ServedPassed DEF Bearer, P!Visible
<1>6. /\ red.scores <=> P!Visible(e.score, p)
      /\ red.accounts <=> P!Visible(e.account, p)
  BY DEF P!NewRedactor
<1>7. ASSUME NEW c \in P!Classes, NEW r \in Asked(c), ~P!Frozen(e, p, r), Served(r)
      PROVE  p.admin
  <2>1. /\ r.class = c /\ r.safe
        /\ r.surface = IF c \in P!AdminOnly THEN "admin" ELSE "public"
    BY DEF Asked
  <2>2. P!FreezeExempt(p, r)
    BY <1>1, <1>7 DEF P!Frozen
  <2>3. CASE c \in P!AdminOnly
    BY <1>4, <1>7, <2>1, <2>3
  <2>4. CASE c \notin P!AdminOnly
    BY <2>1, <2>2, <2>4 DEF P!FreezeExempt, P!AdminOnly
  <2> QED BY <2>3, <2>4
<1> HIDE DEF red
<1>8. P!ShowsSolveList(red) => P!ShowsSolveCount(red)
  BY DEF P!ShowsSolveList, P!ShowsSolveCount
<1>9. P!ShowsOwnPlace(red) => P!ShowsAccount(red)
  BY DEF P!ShowsOwnPlace, P!ShowsAccount
<1>10. ASSUME NEW c \in {"accountDetail", "teamDetail"}, Served(Plain(c))
       PROVE  \A shown \in {P!ShowsAccount(red), P!ShowsProfileHistory(red), P!ShowsContribution(red)} :
                shown => P!ShowsSolveCount(red)
  <2>1. Plain(c).safe /\ Plain(c).class = c
    BY DEF Plain
  <2>2. red.accounts
    BY <1>5, <1>6, <1>10, <2>1
  <2> QED BY <2>2 DEF P!ShowsAccount, P!ShowsProfileHistory, P!ShowsContribution, P!ShowsSolveCount
<1> HIDE DEF Served
<1> QED BY <1>7, <1>8, <1>9, <1>10 DEF WithheldStaysWithheld, e, p, red, Served

(* What is withheld on one surface is not read off another.                *)
THEOREM WithheldHolds == FrontSpec => []WithheldStaysWithheld
BY PageHolds, PageWithholds, PTL

-----------------------------------------------------------------------------
(* Imports, of any archive. *)

LEMMA ImportMeasures == \A S : /\ I!IsFiniteSet(S) <=> IsFiniteSet(S)
                               /\ I!Cardinality(S) = Cardinality(S)
<1> TAKE S
<1>1. I!IsFiniteSet(S) <=> IsFiniteSet(S)
  BY DEF I!IsFiniteSet, IsFiniteSet
<1>2. I!Cardinality(S) = Cardinality(S)
  BY DEF I!Cardinality, Cardinality
<1> QED BY <1>1, <1>2

(* A solve as it is planned.                                               *)
Stamped(a, s) ==
  [id |-> s.id, submission |-> s.id, ch |-> s.ch, user |-> s.user, team |-> s.team,
   value |-> I!ValueOf(a, s.ch), date |-> I!Row(I!Correct(a), s.id).date]
Planned(a, s) ==
  [id |-> s.id, user |-> s.user, team |-> s.team, ch |-> s.ch, type |-> s.type, date |-> s.date,
   account |-> IF s.type = "correct" THEN I!AccountID(I!UserMode(a), s) ELSE None]

(* What a plan that is not refused holds.                                  *)
LEMMA PlanHolds ==
  ASSUME NEW a, I!Translate(a).ok
  PROVE  LET t == I!Translate(a).tables
         IN  /\ t.solves = {Stamped(a, s) : s \in a.solves} /\ t.awards = a.awards
             /\ t.submissions = {Planned(a, s) : s \in a.submissions}
             /\ t.challenges = {I!ImportedChallenge(a, c) : c \in a.challenges}
             /\ I!Ids(a.solves) = I!Ids(I!Correct(a))
             /\ \A c \in a.challenges : c.type = "dynamic" => ~I!MisScored(a, c)
<1> DEFINE s == I!Stages(a)
           t == I!Translate(a).tables
<1>1. /\ s.solves.ok /\ s.awards.ok /\ s.submissions.ok /\ s.challenges.ok
      /\ t.solves = s.solves.rows /\ t.awards = s.awards.rows /\ t.submissions = s.submissions.rows
      /\ t.challenges = s.challenges.rows
  BY DEF I!Translate, I!Stages
<1>2. /\ s.solves = I!TranslateSolves(a) /\ s.awards = I!TranslateAwards(a)
      /\ s.submissions = I!TranslateSubmissions(a) /\ s.challenges = I!TranslateChallenges(a)
  BY DEF I!Stages
<1> HIDE DEF s, t
<1>a. ASSUME NEW why PROVE ~I!Refused(why).ok
  BY DEF I!Refused
<1>b. ASSUME NEW rs PROVE I!Mapped(rs).rows = rs
  BY DEF I!Mapped
<1>c. ASSUME NEW cond, NEW why, NEW rs, I!RefuseIf(cond, why, rs).ok PROVE I!RefuseIf(cond, why, rs).rows = rs
  BY <1>a, <1>b, <1>c DEF I!RefuseIf
<1>3. t.solves = {Stamped(a, x) : x \in a.solves} /\ I!Ids(a.solves) = I!Ids(I!Correct(a))
  <2>1. I!TranslateSolves(a).ok /\ t.solves = I!TranslateSolves(a).rows
    BY <1>1, <1>2
  <2> DEFINE cond == (\E x \in a.solves : x.user = None) \/ I!Ids(a.solves) # I!Ids(I!Correct(a))
  <2>2. I!TranslateSolves(a) = IF cond THEN I!Refused("solve") ELSE I!Mapped({Stamped(a, x) : x \in a.solves})
    BY DEF I!TranslateSolves, Stamped
  <2>3. ~cond => I!Ids(a.solves) = I!Ids(I!Correct(a))
    OBVIOUS
  <2> HIDE DEF cond
  <2>4. ~cond
    BY <1>a, <2>1, <2>2
  <2> QED BY <1>b, <2>1, <2>2, <2>3, <2>4
<1>4. t.awards = a.awards
  <2>1. I!TranslateAwards(a).ok /\ t.awards = I!TranslateAwards(a).rows
    BY <1>1, <1>2
  <2> QED BY <1>c, <2>1 DEF I!TranslateAwards
<1>5. t.submissions = {Planned(a, x) : x \in a.submissions}
  <2>1. I!TranslateSubmissions(a).ok /\ t.submissions = I!TranslateSubmissions(a).rows
    BY <1>1, <1>2
  <2>2. I!TranslateSubmissions(a).rows = {Planned(a, x) : x \in a.submissions}
    BY <1>c, <2>1 DEF I!TranslateSubmissions, Planned
  <2> QED BY <2>1, <2>2
<1>6. /\ t.challenges = {I!ImportedChallenge(a, c) : c \in a.challenges}
      /\ \A c \in a.challenges : c.type = "dynamic" => ~I!MisScored(a, c)
  <2>1. I!TranslateChallenges(a).ok /\ t.challenges = I!TranslateChallenges(a).rows
    BY <1>1, <1>2
  <2> DEFINE cond == \/ \E c \in a.challenges : c.type \notin {"standard", "dynamic"}
                     \/ \E c \in a.challenges : c.type = "dynamic" /\ I!MisScored(a, c)
  <2>2. I!TranslateChallenges(a) = IF cond THEN I!Refused("challenge")
                                   ELSE I!Mapped({I!ImportedChallenge(a, c) : c \in a.challenges})
    BY DEF I!TranslateChallenges
  <2>3. ~cond => \A c \in a.challenges : c.type = "dynamic" => ~I!MisScored(a, c)
    OBVIOUS
  <2> HIDE DEF cond
  <2>4. ~cond
    BY <1>a, <2>1, <2>2
  <2> QED BY <1>b, <2>1, <2>2, <2>3, <2>4
<1> QED BY <1>3, <1>4, <1>5, <1>6 DEF t

(* What Load lets through.                                                 *)
LEMMA LoadHolds ==
  ASSUME NEW a, I!Succeeds(a)
  PROVE  LET t == I!Translate(a).tables
         IN  /\ I!Translate(a).ok
             /\ I!Keyed(t.solves) /\ I!Keyed(t.submissions)
             /\ \A s \in t.solves : s.ch \in I!Ids(t.challenges) /\ s.user \in I!Ids(t.users)
             /\ \A s \in t.submissions : s.ch \in I!Ids(t.challenges) /\ s.user \in I!Ids(t.users)
             /\ \A u \in t.users : u.team # None => u.team \in I!Ids(t.teams)
<1> DEFINE t == I!Translate(a).tables
<1>1. I!Translate(a).ok /\ I!CopyAll(t) /\ I!ValidateFKs(t)
  BY DEF I!Succeeds, I!Load
<1>2. "solves" \in DOMAIN t \ {"config"} /\ "submissions" \in DOMAIN t \ {"config"}
  BY DEF I!Translate, I!Stages
<1> HIDE DEF t
<1>3. I!Keyed(t.solves) /\ I!Keyed(t.submissions)
  <2>1. I!Keyed(t["solves"]) /\ I!Keyed(t["submissions"])
    BY <1>1, <1>2 DEF I!CopyAll
  <2> QED BY <2>1
<1>4. /\ I!SolvesWithoutParent(t) = {} /\ I!SubmissionsWithoutParent(t) = {} /\ I!UsersWithoutTeam(t) = {}
  BY <1>1 DEF I!ValidateFKs
<1>5. \A s \in t.solves : s.ch \in I!Ids(t.challenges) /\ s.user \in I!Ids(t.users)
  BY <1>4 DEF I!SolvesWithoutParent
<1>6. \A s \in t.submissions : s.ch \in I!Ids(t.challenges) /\ s.user \in I!Ids(t.users)
  BY <1>4 DEF I!SubmissionsWithoutParent
<1>7. \A u \in t.users : u.team # None => u.team \in I!Ids(t.teams)
  BY <1>4 DEF I!UsersWithoutTeam
<1> QED BY <1>1, <1>3, <1>5, <1>6, <1>7 DEF t

LEMMA ReferencesKept == ASSUME NEW a PROVE I!ProbedReferencesHold(a)
  BY LoadHolds DEF I!ProbedReferencesHold

(* A parameter is a number where it is not missing.                        *)
LEMMA ParamType ==
  ASSUME NEW a, I!IsArchive(a), NEW c \in a.challenges, NEW f \in {"value", "initial", "minimum", "decay"}
  PROVE  I!Param(a, c, f) \in Int \cup {None}
<1>1. c[f] \in Int \cup {None}
  BY DEF I!IsArchive, I!Nullable
<1>2. I!DynamicRow(a, c)[f] \in Int \cup {None}
  <2>1. CASE c.id \in I!Ids(a.dynamics)
    <3>1. I!Row(a.dynamics, c.id) \in a.dynamics
      BY <2>1 DEF I!Ids, I!Row
    <3> QED BY <2>1, <3>1 DEF I!DynamicRow, I!IsArchive, I!Nullable
  <2>2. CASE c.id \notin I!Ids(a.dynamics)
    BY <2>2 DEF I!DynamicRow, I!NoDynamic
  <2> QED BY <2>1, <2>2
<1> QED BY <1>1, <1>2 DEF I!Param, I!FirstNonNil

LEMMA CurvesKept == ASSUME NEW a, I!IsArchive(a) PROVE I!CurvesAreSound(a)
<1> SUFFICES ASSUME I!Succeeds(a), NEW d \in I!Translate(a).tables.challenges, d.type = "dynamic"
             PROVE  I!CD!Validate(d.curve)
  BY DEF I!CurvesAreSound
<1>1. PICK c \in a.challenges : d = I!ImportedChallenge(a, c)
  BY LoadHolds, PlanHolds
<1> DEFINE initial == I!Param(a, c, "initial")
           minimum == I!Param(a, c, "minimum")
           decay == I!Param(a, c, "decay")
<1>2. /\ c.type = "dynamic"
      /\ d.curve = [function |-> I!FunctionOf(a, c), initial |-> initial, minimum |-> minimum, decay |-> decay]
  BY <1>1 DEF I!ImportedChallenge
<1>3. ~I!MisScored(a, c)
  BY <1>2, LoadHolds, PlanHolds
<1>4. initial \in Int /\ minimum \in Int /\ decay \in Int
  BY <1>3, ParamType DEF I!MisScored
<1>5. ~(decay <= 0) /\ ~(minimum < 0) /\ ~(initial < minimum) /\ I!FunctionOf(a, c) \in {"linear", "logarithmic"}
  BY <1>3 DEF I!MisScored
<1> HIDE DEF initial, minimum, decay
<1>6. initial >= 0 /\ minimum >= 0 /\ minimum <= initial /\ decay >= 1
  BY <1>4, <1>5
<1> QED BY <1>2, <1>5, <1>6 DEF I!CD!Validate, I!CD!DecayFunctions

(* What a solve is stamped with is what the source counted it for.         *)
LEMMA StampedWorth ==
  ASSUME NEW a, I!IsArchive(a), I!Succeeds(a), NEW s \in a.solves
  PROVE  I!ValueOf(a, s.ch) = I!SourceValue(a, s) /\ I!ValueOf(a, s.ch) \in Int
<1>1. Stamped(a, s) \in I!Translate(a).tables.solves /\ Stamped(a, s).ch = s.ch
  BY LoadHolds, PlanHolds DEF Stamped
<1>2. s.ch \in I!Ids(I!Translate(a).tables.challenges)
  BY <1>1, LoadHolds
<1>3. s.ch \in I!Ids(a.challenges)
  <2>1. PICK d \in I!Translate(a).tables.challenges : d.id = s.ch
    BY <1>2 DEF I!Ids
  <2>2. PICK c \in a.challenges : d = I!ImportedChallenge(a, c)
    BY <2>1, LoadHolds, PlanHolds
  <2>3. c.id = s.ch
    BY <2>1, <2>2 DEF I!ImportedChallenge
  <2> QED BY <2>3 DEF I!Ids
<1> DEFINE c == I!Row(a.challenges, s.ch)
           d == I!DynamicRow(a, c)
<1>4. c \in a.challenges
  BY <1>3 DEF I!Ids, I!Row
<1>5. I!ValueOf(a, s.ch) = I!CurrentValue(a, c)
  BY <1>3 DEF I!ValueOf
<1>6. /\ I!Param(a, c, "value") = IF d.value # None THEN d.value ELSE c.value
      /\ c.value \in Int \cup {None}
  BY <1>4 DEF I!Param, I!FirstNonNil, I!IsArchive, I!Nullable
<1>7. /\ I!Param(a, c, "value") \in Int \cup {None} /\ I!Param(a, c, "initial") \in Int \cup {None}
      /\ c.type = "dynamic" => I!Param(a, c, "initial") # None
  <2>1. c.type = "dynamic" => ~I!MisScored(a, c)
    BY <1>4, LoadHolds, PlanHolds
  <2>2. I!Param(a, c, "value") \in Int \cup {None} /\ I!Param(a, c, "initial") \in Int \cup {None}
    BY <1>4, ParamType
  <2> QED BY <2>1, <2>2 DEF I!MisScored
<1> HIDE DEF c, d
<1>8. I!SourceValue(a, s) = IF c.type = "dynamic" /\ d.value # None THEN d.value
                            ELSE IF c.value # None THEN c.value
                            ELSE IF c.type = "dynamic" THEN I!Param(a, c, "initial") ELSE 0
  BY DEF I!SourceValue, c, d
<1> QED BY <1>5, <1>6, <1>7, <1>8 DEF I!CurrentValue, I!FirstNonNil

(* The sums of a scoreboard, by the functions they sum.                    *)
LEMMA ImportedSum ==
  ASSUME NEW S, IsFiniteSet(S)
  PROVE  I!Sum(S, LAMBDA s : s.value) = Total([s \in S |-> s.value], S)
<1> DEFINE f == [s \in S |-> s.value]
           Fold(g) == g = [s \in SUBSET S |-> IF s = {} THEN 0
                             ELSE (CHOOSE x \in s : TRUE).value + g[s \ {CHOOSE x \in s : TRUE}]]
<1>1. I!Sum(S, LAMBDA s : s.value) = (CHOOSE g : Fold(g))[S]
  BY DEF I!Sum, I!MapThenSumSet, I!MapThenFoldSet
<1>2. ASSUME NEW s \in SUBSET S, s # {}
      PROVE  f[Pick(s)] = (CHOOSE x \in s : TRUE).value
  <2>1. Pick(s) \in S
    BY <1>2, PickIn
  <2> QED BY <2>1 DEF Pick
<1>3. ASSUME NEW g PROVE Fold(g) <=> Sums(f, S, g)
  <2>1. \A s \in SUBSET S :
          (IF s = {} THEN 0 ELSE (CHOOSE x \in s : TRUE).value + g[s \ {CHOOSE x \in s : TRUE}])
            = (IF s = {} THEN 0 ELSE f[Pick(s)] + g[s \ {Pick(s)}])
    BY <1>2 DEF Pick
  <2> HIDE DEF f
  <2>2. [s \in SUBSET S |-> IF s = {} THEN 0
                            ELSE (CHOOSE x \in s : TRUE).value + g[s \ {CHOOSE x \in s : TRUE}]]
          = [s \in SUBSET S |-> IF s = {} THEN 0 ELSE f[Pick(s)] + g[s \ {Pick(s)}]]
    BY <2>1
  <2> QED BY <2>2 DEF Sums
<1> HIDE DEF f, Fold
<1>4. PICK g : Sums(f, S, g)
  BY SumsExist
<1>5. Fold(CHOOSE h : Fold(h))
  BY <1>3, <1>4
<1>6. (CHOOSE h : Fold(h))[S] = Total(f, S)
  BY <1>3, <1>5, TotalOf
<1> QED BY <1>1, <1>6 DEF f

LEMMA SourceSum ==
  ASSUME NEW a, NEW S, IsFiniteSet(S)
  PROVE  I!Sum(S, LAMBDA s : I!SourceValue(a, s)) = Total([s \in S |-> I!SourceValue(a, s)], S)
<1> DEFINE f == [s \in S |-> I!SourceValue(a, s)]
           Worth1(s) == I!SourceValue(a, s)
           Fold(g) == g = [s \in SUBSET S |-> IF s = {} THEN 0
                             ELSE Worth1(CHOOSE x \in s : TRUE) + g[s \ {CHOOSE x \in s : TRUE}]]
<1>1. I!Sum(S, LAMBDA s : I!SourceValue(a, s)) = (CHOOSE g : Fold(g))[S]
  BY DEF I!Sum, I!MapThenSumSet, I!MapThenFoldSet
<1>2. ASSUME NEW s \in SUBSET S, s # {}
      PROVE  f[Pick(s)] = Worth1(CHOOSE x \in s : TRUE)
  <2>1. Pick(s) \in S
    BY <1>2, PickIn
  <2> QED BY <2>1 DEF Pick
<1> HIDE DEF f, Worth1
<1>3. ASSUME NEW g PROVE Fold(g) <=> Sums(f, S, g)
  <2>1. \A s \in SUBSET S :
          (IF s = {} THEN 0 ELSE Worth1(CHOOSE x \in s : TRUE) + g[s \ {CHOOSE x \in s : TRUE}])
            = (IF s = {} THEN 0 ELSE f[Pick(s)] + g[s \ {Pick(s)}])
    BY <1>2 DEF Pick
  <2>2. [s \in SUBSET S |-> IF s = {} THEN 0
                            ELSE Worth1(CHOOSE x \in s : TRUE) + g[s \ {CHOOSE x \in s : TRUE}]]
          = [s \in SUBSET S |-> IF s = {} THEN 0 ELSE f[Pick(s)] + g[s \ {Pick(s)}]]
    BY <2>1
  <2> QED BY <2>2 DEF Sums
<1> HIDE DEF Fold
<1>4. PICK g : Sums(f, S, g)
  BY SumsExist
<1>5. Fold(CHOOSE h : Fold(h))
  BY <1>3, <1>4
<1>6. (CHOOSE h : Fold(h))[S] = Total(f, S)
  BY <1>3, <1>5, TotalOf
<1> QED BY <1>1, <1>6 DEF f

(* Stamping keeps rows apart, and finite sets finite.                      *)
LEMMA StampedApart ==
  ASSUME NEW a, I!IsArchive(a)
  PROVE  /\ \A s, r \in a.solves : Stamped(a, s) = Stamped(a, r) => s = r
         /\ IsFiniteSet({Stamped(a, s) : s \in a.solves})
<1>1. ASSUME NEW s \in a.solves, NEW r \in a.solves, Stamped(a, s) = Stamped(a, r) PROVE s = r
  <2>1. /\ s \in [id : Int, user : I!Nullable(Int), team : I!Nullable(Int), ch : Int]
        /\ r \in [id : Int, user : I!Nullable(Int), team : I!Nullable(Int), ch : Int]
    BY DEF I!IsArchive
  <2>2. s.id = r.id /\ s.user = r.user /\ s.team = r.team /\ s.ch = r.ch
    BY <1>1 DEF Stamped
  <2> QED BY <2>1, <2>2
<1> DEFINE f == [s \in a.solves |-> Stamped(a, s)]
<1>2. {Stamped(a, s) : s \in a.solves} = {f[s] : s \in a.solves}
  OBVIOUS
<1>3. IsFiniteSet(a.solves)
  BY ImportMeasures DEF I!IsArchive
<1> HIDE DEF f
<1>4. IsFiniteSet({f[s] : s \in a.solves})
  BY <1>3, ImageFinite
<1> QED BY <1>1, <1>2, <1>4

LEMMA ScoresKept ==
  ASSUME NEW a, I!IsArchive(a), I!Succeeds(a), NEW m, NEW x
  PROVE  I!ScoreAt(I!Translate(a).tables.solves, I!Translate(a).tables.awards, m, x, LAMBDA s : s.value)
           = I!ScoreAt(a.solves, a.awards, m, x, LAMBDA s : I!SourceValue(a, s))
<1> DEFINE t == I!Translate(a).tables
           S == {s \in a.solves : I!AccountID(m, s) = x}
           T == {s \in t.solves : I!AccountID(m, s) = x}
           W == {w \in a.awards : I!AccountID(m, w) = x}
           V == {w \in t.awards : I!AccountID(m, w) = x}
           f == [s \in S |-> I!SourceValue(a, s)]
           g == [s \in T |-> s.value]
           to == [s \in S |-> Stamped(a, s)]
<1>1. t.solves = {Stamped(a, s) : s \in a.solves} /\ t.awards = a.awards
  BY LoadHolds, PlanHolds
<1>2. IsFiniteSet(a.solves) /\ IsFiniteSet(a.awards) /\ IsFiniteSet(t.solves)
  BY <1>1, ImportMeasures, StampedApart DEF I!IsArchive
<1>3. IsFiniteSet(S) /\ IsFiniteSet(T) /\ IsFiniteSet(W)
  <2> HIDE DEF t
  <2> QED BY <1>2, FS_Subset
<1>4. ASSUME NEW s \in S
      PROVE  /\ to[s] \in T /\ f[s] \in Int /\ f[s] = g[to[s]]
  <2>1. to[s] = Stamped(a, s) /\ Stamped(a, s) \in t.solves /\ Stamped(a, s).value = I!ValueOf(a, s.ch)
    BY <1>1 DEF Stamped
  <2>2. I!AccountID(m, Stamped(a, s)) = x
    BY DEF I!AccountID, Stamped
  <2>3. f[s] = I!SourceValue(a, s) /\ f[s] = I!ValueOf(a, s.ch) /\ I!ValueOf(a, s.ch) \in Int
    BY StampedWorth
  <2> HIDE DEF t, f, to
  <2> QED BY <2>1, <2>2, <2>3
<1>5. \A r \in T : \E s \in S : to[s] = r
  <2> SUFFICES ASSUME NEW r \in T PROVE \E s \in S : to[s] = r
    OBVIOUS
  <2>1. PICK s \in a.solves : r = Stamped(a, s)
    BY <1>1
  <2>2. I!AccountID(m, s) = x
    BY <2>1 DEF I!AccountID, Stamped
  <2> QED BY <2>1, <2>2
<1>6. \A s, r \in S : to[s] = to[r] => s = r
  BY StampedApart
<1>7. to \in [S -> T]
  <2>1. to = [s \in S |-> to[s]]
    OBVIOUS
  <2> HIDE DEF to
  <2> QED BY <1>4, <2>1
<1>8. Total(f, S) = Total(g, T)
  <2> HIDE DEF f, g, to, S, T
  <2> QED BY <1>3, <1>4, <1>5, <1>6, <1>7, TotalOnto
<1>9. /\ I!ScoreAt(t.solves, t.awards, m, x, LAMBDA s : s.value)
           = I!Sum(T, LAMBDA s : s.value) + I!Sum(V, LAMBDA w : w.value)
      /\ I!ScoreAt(a.solves, a.awards, m, x, LAMBDA s : I!SourceValue(a, s))
           = I!Sum(S, LAMBDA s : I!SourceValue(a, s)) + I!Sum(W, LAMBDA w : w.value)
  BY DEF I!ScoreAt
<1>10. V = W
  BY <1>1
<1> HIDE DEF S, T, W, V
<1>11. I!Sum(T, LAMBDA s : s.value) = Total([s \in T |-> s.value], T)
  BY <1>3, ImportedSum
<1>12. I!Sum(W, LAMBDA s : s.value) = Total([s \in W |-> s.value], W)
  BY <1>3, ImportedSum
<1>13. I!Sum(V, LAMBDA s : s.value) = Total([s \in V |-> s.value], V)
  BY <1>3, <1>10, ImportedSum
<1>14. I!Sum(S, LAMBDA s : I!SourceValue(a, s)) = Total([s \in S |-> I!SourceValue(a, s)], S)
  BY <1>3, SourceSum
<1> HIDE DEF f, g
<1> QED BY <1>8, <1>9, <1>10, <1>11, <1>12, <1>13, <1>14 DEF f, g

(* As many solves as right answers.                                        *)
LEMMA EachAnswerSolved ==
  ASSUME NEW a, I!IsArchive(a), I!Succeeds(a)
  PROVE  LET t == I!Translate(a).tables
         IN  I!Cardinality(t.solves) = I!Cardinality({s \in t.submissions : s.type = "correct"})
<1> DEFINE t == I!Translate(a).tables
           S == t.solves
           T == {s \in t.submissions : s.type = "correct"}
           Of(s) == CHOOSE r \in T : r.id = s.id
           to == [s \in S |-> Of(s)]
<1>1. /\ S = {Stamped(a, s) : s \in a.solves} /\ t.submissions = {Planned(a, s) : s \in a.submissions}
      /\ I!Ids(a.solves) = I!Ids(I!Correct(a)) /\ I!Keyed(S) /\ I!Keyed(t.submissions)
  BY LoadHolds, PlanHolds
<1>2. IsFiniteSet(S)
  BY <1>1, StampedApart
<1>3. \A s \in S : \E r \in T : r.id = s.id
  <2> SUFFICES ASSUME NEW s \in a.solves PROVE \E r \in T : r.id = s.id
    BY <1>1 DEF Stamped
  <2>1. s.id \in I!Ids(I!Correct(a))
    BY <1>1 DEF I!Ids
  <2>2. PICK q \in I!Correct(a) : q.id = s.id
    BY <2>1 DEF I!Ids
  <2>3. Planned(a, q) \in T /\ Planned(a, q).id = s.id
    BY <1>1, <2>2 DEF I!Correct, Planned
  <2> QED BY <2>3
<1>4. \A r \in T : \E s \in S : r.id = s.id
  <2> SUFFICES ASSUME NEW r \in T PROVE \E s \in S : r.id = s.id
    OBVIOUS
  <2>1. PICK q \in a.submissions : r = Planned(a, q)
    BY <1>1
  <2>2. q \in I!Correct(a) /\ q.id = r.id
    BY <2>1 DEF I!Correct, Planned
  <2>3. r.id \in I!Ids(a.solves)
    BY <1>1, <2>2 DEF I!Ids
  <2>4. PICK s \in a.solves : s.id = r.id
    BY <2>3 DEF I!Ids
  <2>5. Stamped(a, s) \in S /\ Stamped(a, s).id = r.id
    BY <1>1, <2>4 DEF Stamped
  <2> QED BY <2>5
<1>5. (\A s, r \in S : s.id = r.id => s = r) /\ (\A s, r \in T : s.id = r.id => s = r)
  BY <1>1 DEF I!Keyed
<1> HIDE DEF S, T
<1>6. \A s \in S : to[s] \in T /\ to[s].id = s.id
  BY <1>3
<1> HIDE DEF to
<1>7. to \in [S -> T]
  <2>1. to = [s \in S |-> to[s]]
    BY DEF to
  <2> QED BY <1>6, <2>1
<1>8. to \in Bijection(S, T)
  <2>1. \A s, r \in S : to[s] = to[r] => s = r
    BY <1>5, <1>6
  <2>2. \A r \in T : \E s \in S : to[s] = r
    BY <1>4, <1>5, <1>6
  <2> QED BY <1>7, <2>1, <2>2 DEF Bijection, Injection, Surjection, IsInjective
<1>9. Cardinality(T) = Cardinality(S)
  BY <1>2, <1>8, FS_Bijection DEF ExistsBijection
<1> QED BY <1>9, ImportMeasures DEF S, T

LEMMA BoardKeptByImport == ASSUME NEW a, I!IsArchive(a) PROVE I!ScoreboardKept(a)
<1> SUFFICES ASSUME I!Succeeds(a) PROVE I!ScoreboardKept(a)
  BY DEF I!ScoreboardKept
<1>1. \A x : I!ScoreAt(I!Translate(a).tables.solves, I!Translate(a).tables.awards, I!UserMode(a), x, LAMBDA s : s.value)
               = I!ScoreAt(a.solves, a.awards, I!UserMode(a), x, LAMBDA s : I!SourceValue(a, s))
  BY ScoresKept
<1> QED BY <1>1, EachAnswerSolved DEF I!ScoreboardKept

ArchiveFits == focus = "imports" => I!IsArchive(archive)

(* An archive that is imported is the game it was, whatever archive it is:  *)
(* scores, curves and references (Translate, copyAll, validateFKs).        *)
THEOREM ImportIsSoundHolds == FrontSpec => []ImportIsSound
<1>1. FrontInit => ArchiveFits
  BY ArchivesAreReal DEF FrontInit, ArchiveFits
<1>2. ArchiveFits /\ [FrontNext]_all => ArchiveFits'
  BY DEF ArchiveFits, FrontNext, Credentials, Budgets, Play, Streaming, inputs, all
<1>3. ArchiveFits => ImportIsSound
  BY BoardKeptByImport, CurvesKept, ReferencesKept DEF ArchiveFits, ImportIsSound
<1> QED BY <1>1, <1>2, <1>3, PTL DEF FrontSpec

-----------------------------------------------------------------------------
(* The live streams, for any number of clients, publishers and rows. *)

LEMMA StreamConstants ==
  /\ MaxId \in Nat /\ MaxConnects \in Nat /\ MaxId + 1 \in Nat /\ Buffer \in Nat \ {0}
BY FrontConstants DEF F!FeedConstants

(* What a queue holds, with one more at its end and one less at its head.  *)
LEMMA QueueGrows ==
  ASSUME NEW S, NEW s \in Seq(S), NEW x \in S
  PROVE  F!ToSet(Append(s, x)) = F!ToSet(s) \cup {x}
<1>1. F!ToSet(s) \cup {x} \subseteq F!ToSet(Append(s, x))
  <2>1. Append(s, x)[Len(s) + 1] = x /\ \A i \in DOMAIN s : Append(s, x)[i] = s[i] /\ i \in DOMAIN Append(s, x)
    OBVIOUS
  <2>2. Len(s) + 1 \in DOMAIN Append(s, x)
    OBVIOUS
  <2> QED BY <2>1, <2>2 DEF F!ToSet
<1>2. F!ToSet(Append(s, x)) \subseteq F!ToSet(s) \cup {x}
  <2>1. \A i \in DOMAIN Append(s, x) : i = Len(s) + 1 \/ i \in DOMAIN s
    OBVIOUS
  <2> QED BY <2>1 DEF F!ToSet
<1> QED BY <1>1, <1>2

LEMMA QueueShrinks ==
  ASSUME NEW S, NEW s \in Seq(S), s # << >>
  PROVE  /\ F!ToSet(s) = F!ToSet(Tail(s)) \cup {Head(s)}
         /\ Head(s) \in S /\ Tail(s) \in Seq(S) /\ Len(Tail(s)) = Len(s) - 1
<1>1. Len(s) \in Nat \ {0} /\ Len(Tail(s)) = Len(s) - 1 /\ Tail(s) \in Seq(S) /\ Head(s) = s[1] /\ s[1] \in S
  OBVIOUS
<1>2. \A i \in DOMAIN Tail(s) : Tail(s)[i] = s[i + 1] /\ i + 1 \in DOMAIN s
  OBVIOUS
<1>3. \A i \in DOMAIN s : i = 1 \/ (i - 1 \in DOMAIN Tail(s) /\ Tail(s)[i - 1] = s[i])
  OBVIOUS
<1>4. F!ToSet(s) \subseteq F!ToSet(Tail(s)) \cup {Head(s)}
  BY <1>1, <1>3 DEF F!ToSet
<1>5. Head(s) \in F!ToSet(s)
  BY <1>1 DEF F!ToSet
<1>6. F!ToSet(Tail(s)) \subseteq F!ToSet(s)
  BY <1>2 DEF F!ToSet
<1> QED BY <1>1, <1>4, <1>5, <1>6

LEMMA RoomForOne ==
  ASSUME NEW S, NEW s \in Seq(S), NEW x \in S, NEW most \in Nat, Len(s) <= most, Len(s) # most
  PROVE  Append(s, x) \in Seq(S) /\ Len(Append(s, x)) <= most
<1>1. Append(s, x) \in Seq(S) /\ Len(Append(s, x)) = Len(s) + 1
  OBVIOUS
<1>2. \A k \in Nat : k <= most /\ k # most => k + 1 <= most
  OBVIOUS
<1>3. Len(s) \in Nat
  OBVIOUS
<1> QED BY <1>1, <1>2, <1>3

LEMMA FansOut ==
  ASSUME F!TypeOK, NEW id \in F!Ids, F!Broadcast(id)
  PROVE  /\ chan' \in [Clients -> Seq(F!Ids)] /\ \A c \in Clients : Len(chan'[c]) <= Buffer
         /\ subscribed' \subseteq subscribed
         /\ \A c \in subscribed' : F!ToSet(chan'[c]) = F!ToSet(chan[c]) \cup {id}
<1>1. subscribed' \subseteq subscribed /\ subscribed \subseteq Clients
  BY DEF F!TypeOK, F!Broadcast
<1>2. /\ chan \in [Clients -> Seq(F!Ids)]
      /\ \A c \in Clients : Len(chan[c]) <= Buffer
  BY DEF F!TypeOK
<1>3. ASSUME NEW c \in Clients
      PROVE  /\ chan'[c] \in Seq(F!Ids) /\ Len(chan'[c]) <= Buffer
             /\ c \in subscribed' => chan'[c] = Append(chan[c], id)
  <2>1. CASE c \in subscribed /\ Len(chan[c]) # Buffer
    <3>1. chan'[c] = Append(chan[c], id)
      BY <2>1 DEF F!Broadcast
    <3>2. chan[c] \in Seq(F!Ids) /\ Len(chan[c]) <= Buffer /\ Len(chan[c]) # Buffer
      BY <1>2, <2>1
    <3>3. Append(chan[c], id) \in Seq(F!Ids) /\ Len(Append(chan[c], id)) <= Buffer
      BY <3>2, RoomForOne, StreamConstants
    <3> QED BY <3>1, <3>2, <3>3
  <2>2. CASE ~(c \in subscribed /\ Len(chan[c]) # Buffer)
    <3>1. chan'[c] = chan[c] /\ c \notin subscribed'
      BY <2>2 DEF F!Broadcast
    <3> QED BY <1>2, <3>1
  <2> QED BY <2>1, <2>2
<1>4. chan' = [c \in Clients |-> chan'[c]]
  BY DEF F!Broadcast
<1>5. chan' \in [Clients -> Seq(F!Ids)]
  BY <1>3, <1>4
<1>6. ASSUME NEW c \in subscribed'
      PROVE  F!ToSet(chan'[c]) = F!ToSet(chan[c]) \cup {id}
  <2>1. chan[c] \in Seq(F!Ids) /\ chan'[c] = Append(chan[c], id)
    BY <1>1, <1>2, <1>3, <1>6
  <2> QED BY <2>1, QueueGrows
<1> QED BY <1>1, <1>3, <1>5, <1>6

LEMMA StreamStarts == F!Init => F!TypeOK /\ F!Inv
<1> SUFFICES ASSUME F!Init PROVE F!TypeOK /\ F!Inv
  OBVIOUS
<1>1. << >> \in Seq(F!Ids) /\ Len(<< >>) = 0
  OBVIOUS
<1>2. /\ chan \in [Clients -> Seq(F!Ids)] /\ \A c \in Clients : Len(chan[c]) <= Buffer
      /\ wire \in Seq(F!Ids)
  BY <1>1, StreamConstants DEF F!Init
<1>3. /\ held \in [Publishers -> 0..MaxId] /\ nextId \in 0..MaxId /\ latest \in 0..MaxId
      /\ lastID \in 0..MaxId + 1
  BY StreamConstants DEF F!Init
<1>4. /\ written \in [Clients -> SUBSET F!Ids] /\ withheld \in [Clients -> SUBSET F!Ids]
      /\ since \in [Clients -> SUBSET F!Ids] /\ tie \in [Clients -> {"early", "steady", "broken"}]
      /\ step \in [Clients -> {"away", "replaying", "live"}]
  BY DEF F!Init
<1>5. F!TypeOK
  BY <1>2, <1>3, <1>4, FrontConstants DEF F!Init, F!TypeOK, F!FeedConstants
<1>6. F!Inv
  BY DEF F!Init, F!Inv, F!SteadyMeansUp
<1> QED BY <1>5, <1>6

LEMMA LatestType == ASSUME F!TypeOK PROVE F!LatestNotificationID \in 0..MaxId
<1>1. rows \subseteq 1..MaxId
  BY DEF F!TypeOK, F!Ids
<1>2. CASE rows = {}
  BY <1>2, StreamConstants DEF F!LatestNotificationID
<1>3. CASE rows # {}
  <2>1. rows \in SUBSET (0..MaxId)
    BY <1>1, StreamConstants
  <2>2. \E m \in rows : \A id \in rows : id <= m
    BY <1>3, <2>1, GreatestNumber, StreamConstants
  <2>3. F!LatestNotificationID \in rows
    BY <1>3, <2>2 DEF F!LatestNotificationID
  <2> QED BY <2>1, <2>3
<1> QED BY <1>2, <1>3

LEMMA StreamType == ASSUME F!TypeOK, F!Next PROVE F!TypeOK'
<1> USE StreamConstants
<1>1. ASSUME NEW p \in Publishers, F!InsertNotification(p) PROVE F!TypeOK'
  BY <1>1 DEF F!InsertNotification, F!TypeOK, F!pump, F!fanned, F!streams, F!bounds
<1>2. ASSUME NEW p \in Publishers, F!Publish(p) PROVE F!TypeOK'
  <2>1. held[p] \in F!Ids
    BY <1>2 DEF F!Publish, F!TypeOK, F!Ids
  <2>2. wire' \in Seq(F!Ids)
    <3>1. \A s \in Seq(F!Ids) : Append(s, held[p]) \in Seq(F!Ids)
      BY <2>1
    <3> QED BY <1>2, <3>1 DEF F!Publish, F!TypeOK
  <2>3. rows' \subseteq F!Ids /\ held' \in [Publishers -> 0..MaxId]
    BY <1>2, <2>1 DEF F!Publish, F!TypeOK
  <2> QED BY <1>2, <2>2, <2>3 DEF F!Publish, F!TypeOK, F!fanned, F!streams, F!bounds
<1>3. ASSUME NEW p \in Publishers, F!Rollback(p) PROVE F!TypeOK'
  BY <1>3 DEF F!Rollback, F!TypeOK, F!pump, F!fanned, F!streams, F!bounds
<1>4. ASSUME F!Session PROVE F!TypeOK'
  BY <1>4 DEF F!Session, F!TypeOK, F!table, F!fanned, F!streams, F!bounds
<1>5. ASSUME F!LatestID PROVE F!TypeOK'
  BY <1>5, LatestType DEF F!LatestID, F!TypeOK, F!table, F!fanned, F!streams, F!bounds
<1>6. ASSUME NEW id \in 0..MaxId PROVE F!TypeOK => F!Advance(id) \in 0..MaxId + 1
  BY DEF F!Advance, F!TypeOK
<1>7. ASSUME F!After PROVE F!TypeOK'
  BY <1>6, <1>7 DEF F!After, F!TypeOK, F!table, F!fanned, F!streams, F!bounds, F!NotificationsAfter
<1>8. ASSUME F!CatchUp PROVE F!TypeOK'
  <2>1. PICK id \in missed : missed' = missed \ {id} /\ lastID' = F!Advance(id) /\ F!Broadcast(id)
    BY <1>8 DEF F!CatchUp
  <2>2. id \in F!Ids
    BY DEF F!TypeOK
  <2>3. /\ chan' \in [Clients -> Seq(F!Ids)] /\ \A c \in Clients : Len(chan'[c]) <= Buffer
        /\ subscribed' \subseteq subscribed
    BY <2>1, <2>2, FansOut
  <2>4. lastID' \in 0..MaxId + 1
    BY <1>6, <2>1, <2>2 DEF F!Ids
  <2> QED BY <1>8, <2>1, <2>3, <2>4 DEF F!CatchUp, F!TypeOK, F!table, F!streams, F!bounds
<1>9. ASSUME F!Deliver PROVE F!TypeOK'
  <2>1. Head(wire) \in F!Ids /\ Tail(wire) \in Seq(F!Ids)
    BY <1>9, QueueShrinks DEF F!Deliver, F!TypeOK
  <2>2. /\ chan' \in [Clients -> Seq(F!Ids)] /\ \A c \in Clients : Len(chan'[c]) <= Buffer
        /\ subscribed' \subseteq subscribed
    BY <1>9, <2>1, FansOut DEF F!Deliver
  <2>3. lastID' \in 0..MaxId + 1
    <3>1. Head(wire) \in 0..MaxId /\ lastID \in 0..MaxId + 1
      BY <2>1 DEF F!TypeOK, F!Ids
    <3>2. F!Advance(Head(wire)) \in 0..MaxId + 1
      BY <1>6, <3>1
    <3> QED BY <1>9, <3>1, <3>2 DEF F!Deliver
  <2> QED BY <1>9, <2>1, <2>2, <2>3 DEF F!Deliver, F!TypeOK, F!table, F!streams, F!bounds
<1>10. ASSUME F!DeliverFails PROVE F!TypeOK'
  BY <1>10, QueueShrinks DEF F!DeliverFails, F!TypeOK, F!table, F!fanned, F!Break
<1>11. ASSUME F!SessionEnds PROVE F!TypeOK'
  BY <1>11 DEF F!SessionEnds, F!TypeOK, F!table, F!fanned, F!Break
<1>12. ASSUME F!CloseAll PROVE F!TypeOK'
  BY <1>12 DEF F!CloseAll, F!TypeOK, F!table, F!bounds, F!Break
<1>13. ASSUME NEW c \in Clients, F!Subscribe(c) PROVE F!TypeOK'
  BY <1>13 DEF F!Subscribe, F!TypeOK, F!table, F!pump, F!Subscribed
<1>14. ASSUME NEW c \in Clients, F!Recent(c) PROVE F!TypeOK'
  BY <1>14 DEF F!Recent, F!TypeOK, F!table, F!pump, F!fanned, F!RecentNotifications
<1>15. ASSUME NEW c \in Clients, F!Stream(c) PROVE F!TypeOK'
  <2>1. chan[c] \in Seq(F!Ids) /\ chan[c] # << >> /\ Len(chan[c]) <= Buffer
    BY <1>15 DEF F!Stream, F!TypeOK
  <2>2. Head(chan[c]) \in F!Ids /\ Tail(chan[c]) \in Seq(F!Ids) /\ Len(Tail(chan[c])) = Len(chan[c]) - 1
    BY <2>1, QueueShrinks
  <2>3. Len(Tail(chan[c])) <= Buffer
    BY <2>1, <2>2
  <2>4. chan' \in [Clients -> Seq(F!Ids)] /\ \A d \in Clients : Len(chan'[d]) <= Buffer
    BY <1>15, <2>2, <2>3 DEF F!Stream, F!TypeOK
  <2>5. written' \in [Clients -> SUBSET F!Ids] /\ withheld' \in [Clients -> SUBSET F!Ids]
    <3>1. \/ written' = [written EXCEPT ![c] = @ \cup {Head(chan[c])}] /\ withheld' = withheld
          \/ withheld' = [withheld EXCEPT ![c] = @ \cup {Head(chan[c])}] /\ written' = written
      BY <1>15 DEF F!Stream
    <3>2. /\ written \in [Clients -> SUBSET F!Ids] /\ withheld \in [Clients -> SUBSET F!Ids]
          /\ {Head(chan[c])} \subseteq F!Ids
      BY <2>2 DEF F!TypeOK
    <3>3. ASSUME NEW f \in [Clients -> SUBSET F!Ids]
          PROVE  [f EXCEPT ![c] = @ \cup {Head(chan[c])}] \in [Clients -> SUBSET F!Ids]
      BY <3>2
    <3> QED BY <3>1, <3>2, <3>3
  <2> QED BY <1>15, <2>4, <2>5 DEF F!Stream, F!TypeOK, F!table, F!pump, F!bounds
<1>16. ASSUME NEW c \in Clients, F!StreamEnds(c) \/ F!Unsubscribe(c) PROVE F!TypeOK'
  <2>1. F!Gone(c) /\ subscribed' \subseteq subscribed
    BY <1>16 DEF F!StreamEnds, F!Unsubscribe
  <2>2. << >> \in Seq(F!Ids) /\ Len(<< >>) <= Buffer
    OBVIOUS
  <2>3. chan' \in [Clients -> Seq(F!Ids)] /\ \A d \in Clients : Len(chan'[d]) <= Buffer
    BY <2>1, <2>2 DEF F!Gone, F!TypeOK
  <2> QED BY <2>1, <2>3 DEF F!Gone, F!TypeOK, F!table, F!pump, F!bounds
<1>17. ASSUME F!SetFreeze PROVE F!TypeOK'
  BY <1>17 DEF F!SetFreeze, F!TypeOK, F!table, F!pump, F!fanned, F!streams, F!bounds
<1> QED BY <1>1, <1>2, <1>3, <1>4, <1>5, <1>7, <1>8, <1>9, <1>10, <1>11, <1>12, <1>13, <1>14, <1>15, <1>16, <1>17 DEF F!Next

(* A row is owed to a client until it has been handed to it: no step takes  *)
(* one away, and a row that comes to be is on the wire.                    *)
LEMMA StreamOwes ==
  ASSUME F!TypeOK, F!TypeOK', F!Inv, F!Next
  PROVE  F!Inv'
<1>1. /\ F!SteadyMeansUp /\ \A c \in subscribed : F!Owed(c)
      /\ subscribed \subseteq Clients /\ wire \in Seq(F!Ids)
      /\ chan \in [Clients -> Seq(F!Ids)]
  BY DEF F!Inv, F!TypeOK
<1>2. ASSUME UNCHANGED <<conn, tie, since>>, subscribed' \subseteq subscribed,
             rows' \subseteq rows \cup F!ToSet(wire)' \/ conn # "up",
             conn = "up" => \A c \in subscribed' :
               F!Handed(c) \cup F!ToSet(wire) \subseteq F!Handed(c)' \cup F!ToSet(wire)'
      PROVE  F!Inv'
  <2>1. F!SteadyMeansUp'
    BY <1>1, <1>2 DEF F!SteadyMeansUp
  <2>2. ASSUME NEW c \in subscribed', conn' = "up", tie'[c] = "steady"
        PROVE  rows' \ since'[c] \subseteq F!Handed(c)' \cup F!ToSet(wire)'
    <3>1. rows \ since[c] \subseteq F!Handed(c) \cup F!ToSet(wire)
      BY <1>1, <1>2, <2>2 DEF F!Owed
    <3> QED BY <1>2, <2>2, <3>1
  <2> QED BY <2>1, <2>2 DEF F!Inv, F!Owed
<1>3. ASSUME \A c \in Clients : tie'[c] # "steady"
      PROVE  F!Inv'
  <2>1. subscribed' \subseteq Clients
    BY DEF F!TypeOK
  <2> QED BY <1>3, <2>1 DEF F!Inv, F!SteadyMeansUp, F!Owed
<1>4. ASSUME conn # "up", UNCHANGED tie
      PROVE  F!Inv'
  BY <1>1, <1>3, <1>4 DEF F!SteadyMeansUp
<1>5. ASSUME NEW id \in F!Ids, F!Broadcast(id), UNCHANGED <<rows, conn, tie, since, written, withheld>>,
             F!ToSet(wire) \subseteq F!ToSet(wire)' \cup {id}
      PROVE  F!Inv'
  <2>1. /\ subscribed' \subseteq subscribed
        /\ \A c \in subscribed' : F!ToSet(chan'[c]) = F!ToSet(chan[c]) \cup {id}
    BY <1>5, FansOut
  <2>2. \A c \in subscribed' : F!Handed(c) \cup F!ToSet(wire) \subseteq F!Handed(c)' \cup F!ToSet(wire)'
    BY <1>5, <2>1 DEF F!Handed
  <2> QED BY <1>2, <1>5, <2>1, <2>2
<1>6. ASSUME NEW p \in Publishers, F!InsertNotification(p) \/ F!Rollback(p) PROVE F!Inv'
  BY <1>2, <1>6 DEF F!InsertNotification, F!Rollback, F!pump, F!fanned, F!streams, F!Handed
<1>7. ASSUME NEW p \in Publishers, F!Publish(p) PROVE F!Inv'
  <2>1. held[p] \in F!Ids
    BY <1>7 DEF F!Publish, F!TypeOK, F!Ids
  <2>2. F!ToSet(Append(wire, held[p])) = F!ToSet(wire) \cup {held[p]}
    BY <1>1, <2>1, QueueGrows
  <2>3. conn = "up" => wire' = Append(wire, held[p])
    BY <1>7 DEF F!Publish, F!Hears
  <2> QED BY <1>2, <1>7, <2>2, <2>3 DEF F!Publish, F!fanned, F!streams, F!Handed
<1>8. ASSUME F!Session \/ F!LatestID \/ F!After PROVE F!Inv'
  BY <1>4, <1>8 DEF F!Session, F!LatestID, F!After, F!streams
<1>9. ASSUME F!CatchUp PROVE F!Inv'
  <2>1. PICK id \in missed : F!Broadcast(id)
    BY <1>9 DEF F!CatchUp
  <2>2. id \in F!Ids
    BY DEF F!TypeOK
  <2> QED BY <1>5, <1>9, <2>1, <2>2 DEF F!CatchUp, F!table, F!streams
<1>10. ASSUME F!Deliver PROVE F!Inv'
  <2>1. Head(wire) \in F!Ids /\ F!ToSet(wire) = F!ToSet(Tail(wire)) \cup {Head(wire)}
    BY <1>1, <1>10, QueueShrinks DEF F!Deliver
  <2>2. F!ToSet(wire)' = F!ToSet(Tail(wire)) /\ F!Broadcast(Head(wire))
    BY <1>10 DEF F!Deliver
  <2> QED BY <1>5, <1>10, <2>1, <2>2 DEF F!Deliver, F!table, F!streams
<1>11. ASSUME F!DeliverFails \/ F!SessionEnds \/ F!CloseAll PROVE F!Inv'
  <2>1. tie' = F!Break(Clients)
    BY <1>11 DEF F!DeliverFails, F!SessionEnds, F!CloseAll
  <2> QED BY <1>3, <2>1 DEF F!Break
<1>12. ASSUME NEW c \in Clients, F!Subscribe(c) PROVE F!Inv'
  <2>1. /\ tie'[c] = "steady" => conn = "up"
        /\ since'[c] = rows
        /\ \A d \in Clients \ {c} : /\ tie'[d] = tie[d] /\ since'[d] = since[d] /\ chan'[d] = chan[d]
                                   /\ written'[d] = written[d] /\ withheld'[d] = withheld[d]
        /\ subscribed' \subseteq subscribed \cup {c}
        /\ UNCHANGED <<rows, conn, wire>>
    BY <1>12 DEF F!Subscribe, F!TypeOK, F!Subscribed, F!table, F!pump
  <2>2. F!SteadyMeansUp'
    BY <1>1, <2>1 DEF F!SteadyMeansUp
  <2>3. F!Owed(c)'
    BY <2>1 DEF F!Owed
  <2>4. ASSUME NEW d \in subscribed' \ {c} PROVE F!Owed(d)'
    <3>1. d \in subscribed /\ d \in Clients /\ F!Owed(d)
      BY <1>1, <2>1
    <3> QED BY <2>1, <2>4, <3>1 DEF F!Owed, F!Handed
  <2> QED BY <2>2, <2>3, <2>4 DEF F!Inv
<1>13. ASSUME NEW c \in Clients, F!Recent(c) PROVE F!Inv'
  <2>1. \A d \in Clients : written[d] \subseteq written'[d]
    <3>1. \/ written' = [written EXCEPT ![c] = @ \cup F!RecentNotifications]
          \/ written' = written
      BY <1>13 DEF F!Recent
    <3>2. written \in [Clients -> SUBSET F!Ids]
      BY DEF F!TypeOK
    <3> QED BY <3>1, <3>2
  <2> QED BY <1>1, <1>2, <1>13, <2>1 DEF F!Recent, F!table, F!pump, F!fanned, F!Handed
<1>14. ASSUME NEW c \in Clients, F!Stream(c) PROVE F!Inv'
  <2>1. F!ToSet(chan[c]) = F!ToSet(Tail(chan[c])) \cup {Head(chan[c])}
    BY <1>1, <1>14, QueueShrinks DEF F!Stream
  <2>2. \/ written' = [written EXCEPT ![c] = @ \cup {Head(chan[c])}] /\ withheld' = withheld
        \/ withheld' = [withheld EXCEPT ![c] = @ \cup {Head(chan[c])}] /\ written' = written
    BY <1>14 DEF F!Stream
  <2>3. /\ F!Handed(c) = F!Handed(c)'
        /\ \A d \in Clients \ {c} : F!Handed(d)' = F!Handed(d)
    BY <1>14, <2>1, <2>2 DEF F!Stream, F!TypeOK, F!Handed
  <2> QED BY <1>1, <1>2, <1>14, <2>3 DEF F!Stream, F!table, F!pump
<1>15. ASSUME NEW c \in Clients, F!StreamEnds(c) \/ F!Unsubscribe(c) PROVE F!Inv'
  <2>1. F!Gone(c) /\ c \notin subscribed' /\ subscribed' \subseteq subscribed
    BY <1>15 DEF F!StreamEnds, F!Unsubscribe
  <2>2. \A d \in subscribed' : F!Handed(d)' = F!Handed(d)
    BY <1>1, <2>1 DEF F!Gone, F!Handed
  <2> QED BY <1>2, <2>1, <2>2 DEF F!Gone, F!table, F!pump
<1>16. ASSUME F!SetFreeze PROVE F!Inv'
  BY <1>2, <1>16 DEF F!SetFreeze, F!table, F!pump, F!fanned, F!streams, F!Handed
<1> QED BY <1>6, <1>7, <1>8, <1>9, <1>10, <1>11, <1>12, <1>13, <1>14, <1>15, <1>16 DEF F!Next

StreamFits == focus = "stream" => F!TypeOK /\ F!Inv

(* The streams keep their types, and every client what it is owed.         *)
THEOREM StreamInvariant == FrontSpec => []StreamFits
<1>1. FrontInit => StreamFits
  BY StreamStarts DEF FrontInit, StreamFits
<1>2. StreamFits /\ [FrontNext]_all => StreamFits'
  <2> SUFFICES ASSUME StreamFits, [FrontNext]_all, focus' = "stream"
               PROVE  F!TypeOK' /\ F!Inv'
    BY DEF StreamFits
  <2>1. CASE Streaming
    BY <2>1, StreamType, StreamOwes DEF Streaming, StreamFits
  <2>2. CASE UNCHANGED all
    <3>1. UNCHANGED F!vars /\ focus = "stream"
      BY <2>2 DEF all, inputs, shared, stream, F!vars, F!table, F!pump, F!fanned, F!streams, F!bounds
    <3>2. F!TypeOK /\ F!Inv
      BY <3>1 DEF StreamFits
    <3>3. F!TypeOK'
      BY <3>1, <3>2 DEF F!TypeOK, F!vars, F!table, F!pump, F!fanned, F!streams, F!bounds
    <3>4. F!Inv'
      BY <3>1, <3>2 DEF F!Inv, F!SteadyMeansUp, F!Owed, F!Handed, F!vars, F!table, F!pump, F!fanned,
                        F!streams, F!bounds
    <3> QED BY <3>3, <3>4
  <2>3. focus = "stream"
    BY DEF FrontNext, Credentials, Budgets, Play, Streaming, all, inputs
  <2> QED BY <2>1, <2>2, <2>3 DEF FrontNext, Credentials, Budgets, Play
<1> QED BY <1>1, <1>2, PTL DEF FrontSpec

(* Who connects to a working pump and sees no outage misses nothing.       *)
THEOREM SteadyHolds == FrontSpec => []SteadyMissesNothing
<1>1. StreamFits => SteadyMissesNothing
  BY DEF StreamFits, SteadyMissesNothing, F!SteadyMissesNothing, F!Inv, F!Owed
<1> QED BY <1>1, StreamInvariant, PTL

-----------------------------------------------------------------------------
(* The budgets, for any number of callers, buckets and windows, and any limits. *)

LEMMA LimiterLimits ==
  /\ GeneralLimit \in Nat /\ TargetLimit \in Nat /\ FailureLimit \in Nat /\ FloodLimit \in Nat /\ LastWindow \in Nat
  /\ L!Windows \subseteq Nat /\ None \notin L!Windows /\ None \notin L!Calls
  /\ None \notin Targets /\ IsFiniteSet(Callers)
  /\ L!Limit \in [L!Budgets -> Nat]
<1>1. L!LimiterConstants
  BY FrontConstants
<1> QED BY <1>1 DEF L!LimiterConstants, L!Windows, L!IsFiniteSet, IsFiniteSet, L!Limit, L!Budgets

(* Callers are finitely many, and are counted.                             *)
LEMMA CallersCount ==
  ASSUME NEW S, S \subseteq Callers
  PROVE  /\ L!Cardinality(S) = Cardinality(S) /\ L!Cardinality(S) \in Nat
         /\ \A T : T \subseteq S => L!Cardinality(T) <= L!Cardinality(S)
         /\ \A r \in Callers \ S : L!Cardinality(S \cup {r}) = L!Cardinality(S) + 1
         /\ \A r \in S : L!Cardinality(S) >= 1 /\ L!Cardinality(S \ {r}) = L!Cardinality(S) - 1
<1>1. \A T : L!Cardinality(T) = Cardinality(T)
  BY DEF L!Cardinality, Cardinality
<1>2. IsFiniteSet(S)
  BY LimiterLimits, FS_Subset
<1>3. Cardinality(S) \in Nat
  BY <1>2, FS_CardinalityType
<1>4. \A T : T \subseteq S => Cardinality(T) <= Cardinality(S)
  BY <1>2, FS_Subset
<1>5. \A r \in Callers \ S : Cardinality(S \cup {r}) = Cardinality(S) + 1
  BY <1>2, FS_AddElement
<1>6. \A r \in S : Cardinality(S) >= 1 /\ Cardinality(S \ {r}) = Cardinality(S) - 1
  <2> SUFFICES ASSUME NEW r \in S PROVE Cardinality(S) >= 1 /\ Cardinality(S \ {r}) = Cardinality(S) - 1
    OBVIOUS
  <2>1. IsFiniteSet(S \ {r}) /\ Cardinality(S \ {r}) = Cardinality(S) - 1
    BY <1>2, FS_RemoveElement
  <2>2. Cardinality(S \ {r}) \in Nat
    BY <2>1, FS_CardinalityType
  <2> QED BY <1>3, <2>1, <2>2
<1> QED BY <1>1, <1>3, <1>4, <1>5, <1>6

LEMMA LimiterStarts == L!Init => L!TypeOK /\ L!Inv
<1> SUFFICES ASSUME L!Init PROVE L!TypeOK /\ L!Inv
  OBVIOUS
<1>1. L!TypeOK
  BY LimiterLimits DEF L!Init, L!TypeOK, L!Nowhere, L!Windows
<1>2. \A r \in Callers : L!InTurn(r)
  BY DEF L!Init, L!InTurn, L!At, L!Nowhere, L!Ahead
<1>3. \A b, w : L!Kept(b, w) = {} /\ L!LetThrough(b, w) = {} /\ L!StraysInto(b, w) = {} /\ L!Unrefunded(b, w) = {}
  BY DEF L!Init, L!Kept, L!LetThrough, L!StraysInto, L!Unrefunded, L!SpentIn
<1>4. L!Cardinality({}) = 0
  BY FS_EmptySet DEF L!Cardinality, Cardinality
<1>5. \A b \in L!Buckets, w \in L!Windows : n[b, w] = 0
  BY DEF L!Init
<1>6. \A b \in L!Buckets : b.budget \in L!Budgets /\ L!Limit[b.budget] \in Nat
  BY LimiterLimits DEF L!Buckets
<1>7. L!SuccessIsFree
  BY <1>3, <1>4, <1>5 DEF L!SuccessIsFree
<1>8. \A b \in L!Buckets, w \in L!Windows :
        /\ L!Cardinality(L!Kept(b, w)) <= n[b, w] + L!Cardinality(L!StraysInto(b, w))
        /\ L!Cardinality(L!LetThrough(b, w)) <= L!Limit[b.budget] + L!Cardinality(L!StraysInto(b, w))
  <2> SUFFICES ASSUME NEW b \in L!Buckets, NEW w \in L!Windows
               PROVE  /\ L!Cardinality(L!Kept(b, w)) <= n[b, w] + L!Cardinality(L!StraysInto(b, w))
                      /\ L!Cardinality(L!LetThrough(b, w)) <= L!Limit[b.budget] + L!Cardinality(L!StraysInto(b, w))
    OBVIOUS
  <2>1. n[b, w] = 0 /\ L!Limit[b.budget] \in Nat
    BY <1>5, <1>6
  <2>2. L!Cardinality(L!Kept(b, w)) = 0 /\ L!Cardinality(L!LetThrough(b, w)) = 0 /\ L!Cardinality(L!StraysInto(b, w)) = 0
    BY <1>3, <1>4
  <2> DEFINE kept == L!Cardinality(L!Kept(b, w))
             through == L!Cardinality(L!LetThrough(b, w))
             strays == L!Cardinality(L!StraysInto(b, w))
             counter == n[b, w]
             limit == L!Limit[b.budget]
  <2>3. kept = 0 /\ through = 0 /\ strays = 0 /\ counter = 0 /\ limit \in Nat
    BY <2>1, <2>2
  <2> HIDE DEF kept, through, strays, counter, limit
  <2>4. kept <= counter + strays /\ through <= limit + strays
    BY <2>3
  <2> QED BY <2>4 DEF kept, through, strays, counter, limit
<1> QED BY <1>1, <1>2, <1>7, <1>8 DEF L!Inv

(* Whose bucket is whose: a call names one bucket of each budget.          *)
LEMMA BucketOf ==
  ASSUME NEW c \in L!Calls, NEW x \in L!Budgets
  PROVE  L!Bucket(c, x) \in L!Buckets /\ L!Bucket(c, x).budget = x
BY DEF L!Bucket, L!Buckets, L!Calls, L!TargetKey

LEMMA LimiterType == ASSUME L!TypeOK, L!Inv, L!Next PROVE L!TypeOK'
<1>1. ASSUME NEW r \in Callers, step[r] # "idle"
      PROVE  call[r] \in L!Calls
  BY <1>1 DEF L!Inv, L!InTurn, L!At, L!TypeOK
<1>2. ASSUME NEW r \in Callers, NEW x \in L!Budgets, NEW label, L!At(r, x), L!Allow(r, x, label),
             label \in {"handler"} \cup L!Budgets
      PROVE  L!TypeOK'
  <2>1. L!Bucket(call[r], x) \in L!Buckets
    BY <1>1, <1>2, BucketOf DEF L!At, L!Budgets
  <2>2. <<L!Bucket(call[r], x), now>> \in L!Buckets \X L!Windows /\ now \in L!Windows
    BY <2>1 DEF L!TypeOK
  <2>3. n' \in [L!Buckets \X L!Windows -> Nat]
    <3> DEFINE k == <<L!Bucket(call[r], x), now>>
    <3>1. n' = [n EXCEPT ![k] = n[k] + 1]
      BY <1>2 DEF L!Allow, L!Bump
    <3>2. k \in L!Buckets \X L!Windows /\ n \in [L!Buckets \X L!Windows -> Nat]
      BY <2>2 DEF L!TypeOK
    <3> HIDE DEF k
    <3> QED BY <3>1, <3>2
  <2>4. spent' \in [Callers -> [L!Budgets -> L!Windows \cup {None}]]
    BY <1>2, <2>2 DEF L!Allow, L!TypeOK
  <2> QED BY <1>2, <2>3, <2>4 DEF L!Allow, L!Go, L!TypeOK
<1>3. ASSUME NEW r \in Callers, NEW x \in L!Budgets, NEW label, L!Refund(r, x, label),
             step[r] # "idle", label \in {"refundTarget", "done"}
      PROVE  L!TypeOK'
  <2>1. L!Bucket(call[r], x) \in L!Buckets
    BY <1>1, <1>3, BucketOf
  <2> QED BY <1>3, <2>1, LimiterLimits DEF L!Refund, L!RefundRateLimit, L!Go, L!TypeOK
<1>4. CASE L!Roll
  BY <1>4, LimiterLimits DEF L!Roll, L!TypeOK, L!Windows
<1>5. ASSUME NEW r \in Callers, L!Arrive(r) \/ L!LimiterFails(r) \/ L!Handle(r) \/ L!RefundFails(r)
      PROVE  L!TypeOK'
  BY <1>5 DEF L!Arrive, L!LimiterFails, L!Handle, L!RefundFails, L!Go, L!TypeOK, L!Budgets
<1>6. ASSUME NEW r \in Callers, L!SpendGeneral(r) \/ L!SpendFlood(r) \/ L!SpendFailure(r) \/ L!SpendTarget(r)
      PROVE  L!TypeOK'
  BY <1>2, <1>6 DEF L!SpendGeneral, L!SpendFlood, L!SpendFailure, L!SpendTarget, L!Budgets
<1>7. ASSUME NEW r \in Callers, L!RefundFailure(r) \/ L!RefundTarget(r)
      PROVE  L!TypeOK'
  BY <1>3, <1>7 DEF L!RefundFailure, L!RefundTarget, L!Budgets, L!At
<1> QED BY <1>4, <1>5, <1>6, <1>7 DEF L!Next

LEMMA TurnKept ==
  ASSUME L!TypeOK, \A q \in Callers : L!InTurn(q), L!Next
  PROVE  \A q \in Callers : L!InTurn(q)'
<1>1. ASSUME NEW q \in Callers, step'[q] = step[q], call'[q] = call[q], spent'[q] = spent[q], back'[q] = back[q]
      PROVE  L!InTurn(q)'
  BY <1>1 DEF L!InTurn, L!At
<1>2. ASSUME NEW r \in Callers, NEW x \in L!Budgets, NEW label, L!At(r, x), L!Allow(r, x, label),
             <<x, label>> \in {<<"general", "handler">>, <<"flood", "failure">>, <<"failure", "target">>,
                               <<"target", "handler">>},
             NEW q \in Callers
      PROVE  L!InTurn(q)'
  <2>1. CASE q # r
    BY <1>1, <1>2, <2>1 DEF L!Allow, L!Go, L!TypeOK
  <2>2. CASE q = r
    <3>1. L!InTurn(r) /\ step[r] = x /\ call'[r] = call[r] /\ back'[r] = back[r] /\ step'[r] \in {label, "denied"}
      BY <1>2 DEF L!Allow, L!Go, L!At, L!TypeOK
    <3>2. \A y \in L!Budgets : y # x => spent'[r][y] = spent[r][y]
      BY <1>2 DEF L!Allow, L!TypeOK
    <3>3. x \in L!Budgets /\ step'[r] \notin {"idle", "refundFailure", "refundTarget"}
      BY <1>2, <3>1 DEF L!Budgets
    <3>4. \A y \in L!Budgets : back[r][y] = None
      BY <3>1, <3>3 DEF L!InTurn, L!Budgets
    <3>5. step'[r] \in DOMAIN L!Ahead => \A y \in L!Ahead[step'[r]] : spent'[r][y] = None
      BY <1>2, <3>1, <3>2 DEF L!InTurn, L!Ahead, L!Budgets
    <3> QED BY <2>2, <3>1, <3>3, <3>4, <3>5 DEF L!InTurn, L!At, L!Budgets
  <2> QED BY <2>1, <2>2
<1>3. ASSUME NEW r \in Callers, NEW x \in L!Budgets, NEW label, L!Refund(r, x, label),
             \/ step[r] = "refundFailure" /\ x = "failure" /\ label = "refundTarget"
             \/ step[r] = "refundTarget" /\ x = "target" /\ label = "done",
             NEW q \in Callers
      PROVE  L!InTurn(q)'
  <2>1. CASE q # r
    BY <1>1, <1>3, <2>1 DEF L!Refund, L!Go, L!TypeOK
  <2>2. CASE q = r
    BY <1>3, <2>2 DEF L!Refund, L!Go, L!TypeOK, L!InTurn, L!At, L!Ahead, L!Budgets
  <2> QED BY <2>1, <2>2
<1>4. CASE L!Roll
  BY <1>1, <1>4 DEF L!Roll
<1>5. ASSUME NEW r \in Callers, L!Arrive(r) \/ L!LimiterFails(r) \/ L!Handle(r) \/ L!RefundFails(r),
             NEW q \in Callers
      PROVE  L!InTurn(q)'
  <2>1. CASE q # r
    BY <1>1, <1>5, <2>1 DEF L!Arrive, L!LimiterFails, L!Handle, L!RefundFails, L!Go, L!TypeOK
  <2>2. CASE q = r
    <3>1. L!InTurn(r) /\ step' = [step EXCEPT ![r] = step'[r]]
      BY <1>5 DEF L!Arrive, L!LimiterFails, L!Handle, L!RefundFails, L!Go, L!TypeOK
    <3>2. CASE L!Arrive(r)
      BY <2>2, <3>1, <3>2, LimiterLimits DEF L!Arrive, L!Go, L!TypeOK, L!InTurn, L!At, L!Ahead, L!Budgets
    <3>3. CASE L!LimiterFails(r)
      BY <2>2, <3>1, <3>3 DEF L!LimiterFails, L!Go, L!TypeOK, L!InTurn, L!At, L!Ahead, L!Budgets
    <3>4. CASE L!Handle(r)
      BY <2>2, <3>1, <3>4 DEF L!Handle, L!Go, L!TypeOK, L!InTurn, L!At, L!Ahead, L!Budgets
    <3>5. CASE L!RefundFails(r)
      BY <2>2, <3>1, <3>5 DEF L!RefundFails, L!Go, L!TypeOK, L!InTurn, L!At, L!Ahead, L!Budgets
    <3> QED BY <1>5, <3>2, <3>3, <3>4, <3>5
  <2> QED BY <2>1, <2>2
<1>6. ASSUME NEW r \in Callers, L!SpendGeneral(r) \/ L!SpendFlood(r) \/ L!SpendFailure(r) \/ L!SpendTarget(r)
      PROVE  \A q \in Callers : L!InTurn(q)'
  BY <1>2, <1>6 DEF L!SpendGeneral, L!SpendFlood, L!SpendFailure, L!SpendTarget, L!Budgets
<1>7. ASSUME NEW r \in Callers, L!RefundFailure(r) \/ L!RefundTarget(r)
      PROVE  \A q \in Callers : L!InTurn(q)'
  BY <1>3, <1>7 DEF L!RefundFailure, L!RefundTarget, L!Budgets, L!At
<1> QED BY <1>4, <1>5, <1>6, <1>7 DEF L!Next

(* What Inv says of one bucket in one window.                              *)
Covered(b, w) ==
  /\ L!Cardinality(L!Kept(b, w)) <= n[b, w] + L!Cardinality(L!StraysInto(b, w))
  /\ b.budget \in {"failure", "target"} =>
       L!Cardinality(L!LetThrough(b, w)) <= L!Limit[b.budget] + L!Cardinality(L!StraysInto(b, w))
Free(b, w) ==
  (\A v \in L!Windows : L!StraysInto(b, v) = {}) => n[b, w] = L!Cardinality(L!Unrefunded(b, w))

LEMMA InvByBucket ==
  L!Inv <=> /\ \A r \in Callers : L!InTurn(r)
            /\ \A b \in L!Buckets, w \in L!Windows : Covered(b, w) /\ Free(b, w)
BY DEF L!Inv, L!SuccessIsFree, Covered, Free

LEMMA CountsAreCounts ==
  ASSUME L!TypeOK, NEW b \in L!Buckets, NEW w \in L!Windows
  PROVE  /\ n[b, w] \in Nat /\ L!Limit[b.budget] \in Nat
         /\ L!Kept(b, w) \subseteq Callers /\ L!LetThrough(b, w) \subseteq Callers
         /\ L!StraysInto(b, w) \subseteq Callers /\ L!Unrefunded(b, w) \subseteq Callers
         /\ L!Cardinality(L!Kept(b, w)) \in Nat /\ L!Cardinality(L!LetThrough(b, w)) \in Nat
         /\ L!Cardinality(L!StraysInto(b, w)) \in Nat /\ L!Cardinality(L!Unrefunded(b, w)) \in Nat
<1>1. n[b, w] \in Nat
  BY DEF L!TypeOK
<1>2. b.budget \in L!Budgets /\ L!Limit[b.budget] \in Nat
  BY LimiterLimits DEF L!Buckets
<1>3. /\ L!Kept(b, w) \subseteq Callers /\ L!LetThrough(b, w) \subseteq Callers
      /\ L!StraysInto(b, w) \subseteq Callers /\ L!Unrefunded(b, w) \subseteq Callers
  BY DEF L!Kept, L!LetThrough, L!StraysInto, L!Unrefunded
<1> QED BY <1>1, <1>2, <1>3, CallersCount

(* Arithmetic of the two bounds.                                           *)
LEMMA BoundsAdd ==
  ASSUME NEW kept \in Nat, NEW counter \in Nat, NEW strays \in Nat, NEW limit \in Nat, kept <= counter + strays
  PROVE  /\ kept + 1 <= (counter + 1) + strays
         /\ counter + 1 <= limit => kept + 1 <= limit + strays
         /\ kept <= (IF counter > 0 THEN counter - 1 ELSE 0) + (strays + 1)
         /\ \A k \in Nat : k = kept - 1 => k <= (IF counter > 0 THEN counter - 1 ELSE 0) + strays
         /\ \A fewer \in Nat : fewer <= kept => fewer <= counter + strays /\ fewer <= counter + (strays + 1)
OBVIOUS

(* A step that neither counts nor lets through in a bucket.                *)
LEMMA Unmoved ==
  ASSUME L!TypeOK, L!Inv, NEW b \in L!Buckets, NEW w \in L!Windows,
         n'[b, w] = n[b, w], L!Kept(b, w)' = L!Kept(b, w),
         b.budget \in {"failure", "target"} => L!LetThrough(b, w)' \subseteq L!LetThrough(b, w),
         L!StraysInto(b, w)' = L!StraysInto(b, w),
         (\A v \in L!Windows : L!StraysInto(b, v)' = {}) => L!Unrefunded(b, w)' = L!Unrefunded(b, w),
         \A v \in L!Windows : L!StraysInto(b, v) \subseteq L!StraysInto(b, v)'
  PROVE  Covered(b, w)' /\ Free(b, w)'
<1>1. Covered(b, w) /\ Free(b, w)
  BY InvByBucket
<1>2. b.budget \in {"failure", "target"} =>
        L!Cardinality(L!LetThrough(b, w)') <= L!Cardinality(L!LetThrough(b, w))
  BY CountsAreCounts, CallersCount
<1>3. Free(b, w)'
  BY <1>1 DEF Free
<1>4. /\ L!Cardinality(L!LetThrough(b, w)) \in Nat
      /\ b.budget \in {"failure", "target"} => L!Cardinality(L!LetThrough(b, w)') \in Nat
      /\ L!Cardinality(L!StraysInto(b, w)) \in Nat /\ L!Limit[b.budget] \in Nat
  BY CountsAreCounts, CallersCount
<1>5. Covered(b, w)'
  <2> DEFINE after == L!Cardinality(L!LetThrough(b, w)')
             through == L!Cardinality(L!LetThrough(b, w))
             strays == L!Cardinality(L!StraysInto(b, w))
             limit == L!Limit[b.budget]
  <2>1. CASE b.budget \in {"failure", "target"}
    <3>1. after <= through /\ after \in Nat /\ through \in Nat /\ strays \in Nat /\ limit \in Nat
      BY <1>2, <1>4, <2>1
    <3> HIDE DEF after, through, strays, limit
    <3>2. through <= limit + strays => after <= limit + strays
      BY <3>1, BoundsAdd
    <3> QED BY <1>1, <3>2 DEF Covered, after, through, limit, strays
  <2>2. CASE b.budget \notin {"failure", "target"}
    BY <1>1, <2>2 DEF Covered
  <2> QED BY <2>1, <2>2
<1> QED BY <1>3, <1>5

(* A request that does not move stands where it stood in every count.      *)
LEMMA Alike ==
  ASSUME NEW q \in Callers, NEW b, NEW w, call'[q] = call[q], spent'[q] = spent[q], back'[q] = back[q]
  PROVE  /\ L!SpentIn(q, b, w)' <=> L!SpentIn(q, b, w)
         /\ q \in L!Kept(b, w)' <=> q \in L!Kept(b, w)
         /\ q \in L!StraysInto(b, w)' <=> q \in L!StraysInto(b, w)
         /\ q \in L!Unrefunded(b, w)' <=> q \in L!Unrefunded(b, w)
         /\ step'[q] = step[q] => (q \in L!LetThrough(b, w)' <=> q \in L!LetThrough(b, w))
<1>1. L!SpentIn(q, b, w)' <=> L!SpentIn(q, b, w)
  BY DEF L!SpentIn
<1>2. q \in L!Kept(b, w)' <=> q \in L!Kept(b, w)
  BY <1>1 DEF L!Kept
<1>3. q \in L!StraysInto(b, w)' <=> q \in L!StraysInto(b, w)
  BY DEF L!StraysInto
<1>4. q \in L!Unrefunded(b, w)' <=> q \in L!Unrefunded(b, w)
  BY <1>1 DEF L!Unrefunded
<1>5. step'[q] = step[q] => (q \in L!LetThrough(b, w)' <=> q \in L!LetThrough(b, w))
  BY <1>2 DEF L!LetThrough, L!Handled, L!At
<1> QED BY <1>1, <1>2, <1>3, <1>4, <1>5

LEMMA SpendCounts ==
  ASSUME L!TypeOK, L!Inv, NEW r \in Callers, NEW x \in L!Budgets, NEW label, L!At(r, x), L!Allow(r, x, label),
         <<x, label>> \in {<<"general", "handler">>, <<"flood", "failure">>, <<"failure", "target">>,
                           <<"target", "handler">>},
         NEW b \in L!Buckets, NEW w \in L!Windows
  PROVE  Covered(b, w)' /\ Free(b, w)'
<1> DEFINE hit == b = L!Bucket(call[r], x) /\ w = now
<1>1. /\ L!InTurn(r) /\ step[r] = x /\ call[r] # None /\ call[r] \in L!Calls
      /\ spent[r][x] = None /\ \A y \in L!Budgets : back[r][y] = None
  <2>1. L!InTurn(r) /\ step[r] = x
    BY DEF L!Inv, L!At
  <2>2. x \in DOMAIN L!Ahead /\ x \in L!Ahead[x] /\ x \notin {"idle", "refundTarget", "done"}
    BY DEF L!Ahead, L!Budgets
  <2> QED BY <2>1, <2>2 DEF L!InTurn, L!At, L!TypeOK
<1>2. /\ call' = call /\ back' = back /\ step'[r] = (IF n[L!Bucket(call[r], x), now] + 1 <= L!Limit[x] THEN label ELSE "denied")
      /\ spent'[r][x] = now /\ (\A y \in L!Budgets : y # x => spent'[r][y] = spent[r][y])
      /\ \A q \in Callers : q # r => spent'[q] = spent[q] /\ step'[q] = step[q]
  BY DEF L!Allow, L!Go, L!TypeOK
<1>3. b.budget \in L!Budgets /\ now \in L!Windows /\ None \notin L!Windows
  BY LimiterLimits DEF L!Buckets, L!TypeOK
<1>4. L!Bucket(call[r], x) \in L!Buckets /\ L!Bucket(call[r], x).budget = x
  BY <1>1, BucketOf
<1>5. L!SpentIn(r, b, w)' <=> hit \/ L!SpentIn(r, b, w)
  <2>1. CASE b.budget = x
    BY <1>1, <1>2, <1>3, <1>4, <2>1 DEF L!SpentIn
  <2>2. CASE b.budget # x
    BY <1>2, <1>3, <1>4, <2>2 DEF L!SpentIn
  <2> QED BY <2>1, <2>2
<1>6. hit => ~L!SpentIn(r, b, w)
  BY <1>1, <1>3, <1>4 DEF L!SpentIn
<1>7. \A v \in L!Windows : L!StraysInto(b, v)' = L!StraysInto(b, v)
  <2> SUFFICES ASSUME NEW v \in L!Windows PROVE L!StraysInto(b, v)' = L!StraysInto(b, v)
    OBVIOUS
  <2>1. r \notin L!StraysInto(b, v) /\ r \notin L!StraysInto(b, v)'
    BY <1>1, <1>2, <1>3 DEF L!StraysInto
  <2>2. \A q \in Callers : q # r => (q \in L!StraysInto(b, v)' <=> q \in L!StraysInto(b, v))
    BY <1>2, Alike
  <2> QED BY <2>1, <2>2 DEF L!StraysInto
<1>8. \A q \in Callers : q # r => /\ q \in L!Kept(b, w)' <=> q \in L!Kept(b, w)
                                  /\ q \in L!Unrefunded(b, w)' <=> q \in L!Unrefunded(b, w)
                                  /\ q \in L!LetThrough(b, w)' <=> q \in L!LetThrough(b, w)
  BY <1>2, Alike
<1>9. CASE hit
  <2>1. L!Kept(b, w)' = L!Kept(b, w) \cup {r} /\ r \notin L!Kept(b, w)
    <3>1. r \in L!Kept(b, w)'
      BY <1>1, <1>2, <1>3, <1>5, <1>9 DEF L!Kept
    <3>2. r \notin L!Kept(b, w)
      BY <1>6, <1>9 DEF L!Kept
    <3> QED BY <1>8, <3>1, <3>2 DEF L!Kept
  <2>2. L!Unrefunded(b, w)' = L!Unrefunded(b, w) \cup {r} /\ r \notin L!Unrefunded(b, w)
    <3>1. r \in L!Unrefunded(b, w)'
      BY <1>1, <1>2, <1>3, <1>5, <1>9 DEF L!Unrefunded
    <3>2. r \notin L!Unrefunded(b, w)
      BY <1>6, <1>9 DEF L!Unrefunded
    <3> QED BY <1>8, <3>1, <3>2 DEF L!Unrefunded
  <2>3. n'[b, w] = n[b, w] + 1
    <3> DEFINE k == <<b, w>>
    <3>1. n' = [n EXCEPT ![k] = n[k] + 1]
      BY <1>9 DEF L!Allow, L!Bump
    <3>2. k \in L!Buckets \X L!Windows /\ n \in [L!Buckets \X L!Windows -> Nat]
      BY DEF L!TypeOK
    <3> HIDE DEF k
    <3>3. n'[k] = n[k] + 1
      BY <3>1, <3>2
    <3> QED BY <3>3 DEF k
  <2>4. Covered(b, w) /\ Free(b, w)
    BY InvByBucket
  <2> DEFINE kept == L!Cardinality(L!Kept(b, w))
             strays == L!Cardinality(L!StraysInto(b, w))
             counter == n[b, w]
             limit == L!Limit[b.budget]
  <2>5. kept \in Nat /\ counter \in Nat /\ strays \in Nat /\ limit \in Nat /\ kept <= counter + strays
    BY <2>4, CountsAreCounts DEF Covered
  <2>6. L!Cardinality(L!Kept(b, w)') = kept + 1
    BY <2>1, CallersCount, CountsAreCounts
  <2>7. L!Cardinality(L!Unrefunded(b, w)') = L!Cardinality(L!Unrefunded(b, w)) + 1
    BY <2>2, CallersCount, CountsAreCounts
  <2>8. Free(b, w)'
    BY <1>7, <2>3, <2>4, <2>7 DEF Free
  <2>9. b.budget \in {"failure", "target"} => L!Cardinality(L!LetThrough(b, w)') <= limit + strays
    <3>1. CASE step'[r] = "denied"
      <4>1. L!LetThrough(b, w)' \subseteq L!LetThrough(b, w)
        BY <1>8, <3>1 DEF L!LetThrough, L!Handled, L!At, L!Kept
      <4>2. L!Cardinality(L!LetThrough(b, w)') <= L!Cardinality(L!LetThrough(b, w))
        BY <4>1, CountsAreCounts, CallersCount
      <4>3. L!Cardinality(L!LetThrough(b, w)) \in Nat /\ L!Cardinality(L!LetThrough(b, w)') \in Nat
        BY <4>1, CountsAreCounts, CallersCount
      <4> DEFINE through == L!Cardinality(L!LetThrough(b, w))
                 after == L!Cardinality(L!LetThrough(b, w)')
      <4> HIDE DEF through, after, strays, limit
      <4>4. through <= limit + strays => after <= limit + strays
        BY <2>5, <4>2, <4>3, BoundsAdd DEF through, after
      <4> QED BY <2>4, <4>4 DEF Covered, through, after, strays, limit
    <3>2. CASE step'[r] # "denied"
      <4>1. counter + 1 <= limit
        BY <1>2, <1>4, <1>9, <3>2
      <4>2. L!LetThrough(b, w)' \subseteq L!Kept(b, w)'
        BY DEF L!LetThrough
      <4>3. L!Kept(b, w)' \subseteq Callers
        BY DEF L!Kept
      <4>4. L!Cardinality(L!LetThrough(b, w)') <= kept + 1 /\ L!Cardinality(L!LetThrough(b, w)') \in Nat
        BY <2>6, <4>2, <4>3, CallersCount
      <4> DEFINE after == L!Cardinality(L!LetThrough(b, w)')
      <4> HIDE DEF after, kept, counter, strays, limit
      <4>5. after <= limit + strays
        BY <2>5, <4>1, <4>4, BoundsAdd DEF after
      <4> QED BY <4>5 DEF after
    <3> QED BY <3>1, <3>2
  <2>10. kept + 1 <= (counter + 1) + strays
    <3> HIDE DEF kept, counter, strays, limit
    <3> QED BY <2>5, BoundsAdd
  <2>11. Covered(b, w)'
    BY <1>7, <2>3, <2>6, <2>9, <2>10 DEF Covered
  <2> QED BY <2>8, <2>11
<1>10. CASE ~hit
  <2>1. n'[b, w] = n[b, w]
    <3> DEFINE k == <<b, w>>
               o == <<L!Bucket(call[r], x), now>>
    <3>1. n' = [n EXCEPT ![o] = n[o] + 1] /\ k # o
      BY <1>10 DEF L!Allow, L!Bump
    <3>2. k \in L!Buckets \X L!Windows /\ n \in [L!Buckets \X L!Windows -> Nat]
      BY DEF L!TypeOK
    <3> HIDE DEF k, o
    <3>3. n'[k] = n[k]
      BY <3>1, <3>2
    <3> QED BY <3>3 DEF k
  <2>2. L!SpentIn(r, b, w)' <=> L!SpentIn(r, b, w)
    BY <1>5, <1>10
  <2>3. L!Kept(b, w)' = L!Kept(b, w)
    <3>1. r \in L!Kept(b, w)' <=> r \in L!Kept(b, w)
      BY <1>2, <2>2 DEF L!Kept
    <3> QED BY <1>8, <3>1 DEF L!Kept
  <2>4. L!Unrefunded(b, w)' = L!Unrefunded(b, w)
    <3>1. r \in L!Unrefunded(b, w)' <=> r \in L!Unrefunded(b, w)
      BY <1>2, <2>2 DEF L!Unrefunded
    <3> QED BY <1>8, <3>1 DEF L!Unrefunded
  <2>5. ASSUME b.budget \in {"failure", "target"}, r \in L!LetThrough(b, w)'
        PROVE  r \in L!LetThrough(b, w)
    <3>1. r \in L!Kept(b, w) /\ spent[r][b.budget] # None
      BY <1>3, <2>3, <2>5 DEF L!LetThrough, L!Kept, L!SpentIn
    <3>2. step'[r] = "handler" \/ (step'[r] = "target" /\ b.budget = "failure")
      BY <1>2, <2>5 DEF L!LetThrough, L!Handled, L!At
    <3>3. x = "target" /\ b.budget = "failure"
      <4>1. \A y \in L!Ahead[x] : spent[r][y] = None
        BY <1>1 DEF L!InTurn, L!Ahead, L!Budgets
      <4>2. x \in {"general", "target"} \/ (x = "failure" /\ b.budget = "failure")
        BY <1>2, <3>2
      <4>3. b.budget \notin L!Ahead[x]
        BY <3>1, <4>1
      <4> QED BY <1>3, <2>5, <4>2, <4>3 DEF L!Ahead
    <3> QED BY <1>1, <3>1, <3>3 DEF L!LetThrough, L!At
  <2>6. b.budget \in {"failure", "target"} => L!LetThrough(b, w)' \subseteq L!LetThrough(b, w)
    BY <1>8, <2>5 DEF L!LetThrough, L!Kept
  <2> QED BY <1>7, <2>1, <2>3, <2>4, <2>6, Unmoved
<1> QED BY <1>9, <1>10

LEMMA RefundCounts ==
  ASSUME L!TypeOK, L!Inv, NEW r \in Callers, NEW x \in L!Budgets, NEW label, L!Refund(r, x, label),
         \/ step[r] = "refundFailure" /\ x = "failure" /\ label = "refundTarget"
         \/ step[r] = "refundTarget" /\ x = "target" /\ label = "done",
         NEW b \in L!Buckets, NEW w \in L!Windows
  PROVE  Covered(b, w)' /\ Free(b, w)'
<1> DEFINE ours == b = L!Bucket(call[r], x)
           hit == ours /\ w = now
<1>1. L!InTurn(r) /\ call[r] # None /\ call[r] \in L!Calls /\ back[r][x] = None
  <2>1. L!InTurn(r)
    BY DEF L!Inv
  <2> QED BY <2>1 DEF L!InTurn, L!At, L!TypeOK, L!Budgets
<1>2. /\ call' = call /\ spent' = spent /\ step'[r] = label /\ back'[r][x] = now
      /\ \A y \in L!Budgets : y # x => back'[r][y] = back[r][y]
      /\ \A q \in Callers : q # r => back'[q] = back[q] /\ step'[q] = step[q]
  BY DEF L!Refund, L!Go, L!TypeOK
<1>3. b.budget \in L!Budgets /\ now \in L!Windows /\ None \notin L!Windows
  BY LimiterLimits DEF L!Buckets, L!TypeOK
<1>4. L!Bucket(call[r], x) \in L!Buckets /\ L!Bucket(call[r], x).budget = x
  BY <1>1, BucketOf
<1>5. \A v : L!SpentIn(r, b, v)' <=> L!SpentIn(r, b, v)
  BY <1>2 DEF L!SpentIn
<1>6. ours => b.budget = x
  BY <1>4
<1>7. ~ours => \/ b.budget # x
               \/ L!Bucket(call[r], b.budget) # b
  OBVIOUS
<1>8. \A v \in L!Windows : \A q \in Callers : q # r =>
        /\ q \in L!Kept(b, v)' <=> q \in L!Kept(b, v)
        /\ q \in L!Unrefunded(b, v)' <=> q \in L!Unrefunded(b, v)
        /\ q \in L!StraysInto(b, v)' <=> q \in L!StraysInto(b, v)
        /\ q \in L!LetThrough(b, v)' <=> q \in L!LetThrough(b, v)
  BY <1>2, Alike
(* What is not refunded into this window is as it was. *)
<1>9. ASSUME NEW v \in L!Windows, ~(ours /\ v = now)
      PROVE  /\ L!Kept(b, v)' = L!Kept(b, v) /\ L!StraysInto(b, v)' = L!StraysInto(b, v)
  <2>1. r \in L!Kept(b, v)' <=> r \in L!Kept(b, v)
    <3>1. CASE b.budget = x
      BY <1>1, <1>2, <1>3, <1>5, <1>9, <3>1 DEF L!Kept, L!SpentIn
    <3>2. CASE b.budget # x
      BY <1>2, <1>3, <1>5, <3>2 DEF L!Kept
    <3> QED BY <3>1, <3>2
  <2>2. r \in L!StraysInto(b, v)' <=> r \in L!StraysInto(b, v)
    <3>1. CASE b.budget = x
      BY <1>1, <1>2, <1>3, <1>9, <3>1 DEF L!StraysInto
    <3>2. CASE b.budget # x
      BY <1>2, <1>3, <3>2 DEF L!StraysInto
    <3> QED BY <3>1, <3>2
  <2> QED BY <1>8, <2>1, <2>2 DEF L!Kept, L!StraysInto
<1>10. \A v \in L!Windows : L!StraysInto(b, v) \subseteq L!StraysInto(b, v)'
  <2> SUFFICES ASSUME NEW v \in L!Windows, ours, v = now PROVE L!StraysInto(b, v) \subseteq L!StraysInto(b, v)'
    BY <1>9
  <2>1. r \notin L!StraysInto(b, v)
    BY <1>1, <1>3, <1>6 DEF L!StraysInto
  <2> QED BY <1>8, <2>1 DEF L!StraysInto
<1>11. L!LetThrough(b, w)' \cap L!Kept(b, w) \subseteq L!LetThrough(b, w)
  <2>1. r \in L!LetThrough(b, w)' \cap L!Kept(b, w) => r \in L!LetThrough(b, w)
    BY DEF L!LetThrough, L!Handled
  <2> QED BY <1>8, <2>1 DEF L!LetThrough, L!Kept
<1>12. CASE ~ours
  <2>1. n'[b, w] = n[b, w]
    <3> DEFINE k == <<b, w>>
               o == <<L!Bucket(call[r], x), now>>
    <3>1. n' = [n EXCEPT ![o] = IF n[o] > 0 THEN n[o] - 1 ELSE 0] /\ k # o
      BY <1>12 DEF L!Refund, L!RefundRateLimit
    <3>2. k \in L!Buckets \X L!Windows /\ n \in [L!Buckets \X L!Windows -> Nat]
      BY DEF L!TypeOK
    <3> HIDE DEF k, o
    <3>3. n'[k] = n[k]
      BY <3>1, <3>2
    <3> QED BY <3>3 DEF k
  <2>2. L!Kept(b, w)' = L!Kept(b, w) /\ L!StraysInto(b, w)' = L!StraysInto(b, w)
    BY <1>9, <1>12
  <2>3. L!Unrefunded(b, w)' = L!Unrefunded(b, w)
    <3>1. r \in L!Unrefunded(b, w)' <=> r \in L!Unrefunded(b, w)
      <4>1. CASE b.budget = x
        BY <1>5, <1>12, <4>1 DEF L!Unrefunded, L!SpentIn
      <4>2. CASE b.budget # x
        BY <1>2, <1>3, <1>5, <4>2 DEF L!Unrefunded
      <4> QED BY <4>1, <4>2
    <3> QED BY <1>8, <3>1 DEF L!Unrefunded
  <2>4. L!LetThrough(b, w)' \subseteq L!LetThrough(b, w)
    BY <1>11, <2>2 DEF L!LetThrough
  <2> QED BY <1>10, <2>1, <2>2, <2>3, <2>4, Unmoved
<1>13. CASE ours /\ w # now
  <2>1. n'[b, w] = n[b, w]
    <3> DEFINE k == <<b, w>>
               o == <<L!Bucket(call[r], x), now>>
    <3>1. n' = [n EXCEPT ![o] = IF n[o] > 0 THEN n[o] - 1 ELSE 0] /\ k # o
      BY <1>13 DEF L!Refund, L!RefundRateLimit
    <3>2. k \in L!Buckets \X L!Windows /\ n \in [L!Buckets \X L!Windows -> Nat]
      BY DEF L!TypeOK
    <3> HIDE DEF k, o
    <3>3. n'[k] = n[k]
      BY <3>1, <3>2
    <3> QED BY <3>3 DEF k
  <2>2. L!Kept(b, w)' = L!Kept(b, w) /\ L!StraysInto(b, w)' = L!StraysInto(b, w)
    BY <1>9, <1>13
  <2>3. ASSUME \A v \in L!Windows : L!StraysInto(b, v)' = {}
        PROVE  L!Unrefunded(b, w)' = L!Unrefunded(b, w)
    <3>1. spent[r][x] = now
      <4>1. PICK v \in L!Windows : v = now
        BY <1>3
      <4>2. r \notin L!StraysInto(b, v)'
        BY <2>3
      <4> QED BY <1>1, <1>2, <1>6, <1>13, <4>1, <4>2 DEF L!StraysInto
    <3>2. r \notin L!Unrefunded(b, w) /\ r \notin L!Unrefunded(b, w)'
      BY <1>5, <1>6, <1>13, <3>1 DEF L!Unrefunded, L!SpentIn
    <3> QED BY <1>8, <3>2 DEF L!Unrefunded
  <2>4. L!LetThrough(b, w)' \subseteq L!LetThrough(b, w)
    BY <1>11, <2>2 DEF L!LetThrough
  <2> QED BY <1>10, <2>1, <2>2, <2>3, <2>4, Unmoved
<1>14. CASE hit
  <2> DEFINE kept == L!Cardinality(L!Kept(b, w))
             strays == L!Cardinality(L!StraysInto(b, w))
             through == L!Cardinality(L!LetThrough(b, w))
             after == L!Cardinality(L!LetThrough(b, w)')
             limit == L!Limit[b.budget]
             counter == n[b, w]
  <2>1. n'[b, w] = IF counter > 0 THEN counter - 1 ELSE 0
    <3> DEFINE k == <<b, w>>
    <3>1. n' = [n EXCEPT ![k] = IF n[k] > 0 THEN n[k] - 1 ELSE 0]
      BY <1>14 DEF L!Refund, L!RefundRateLimit
    <3>2. k \in L!Buckets \X L!Windows /\ n \in [L!Buckets \X L!Windows -> Nat]
      BY DEF L!TypeOK
    <3> HIDE DEF k
    <3>3. n'[k] = IF n[k] > 0 THEN n[k] - 1 ELSE 0
      BY <3>1, <3>2
    <3> QED BY <3>3 DEF k
  <2>2. Covered(b, w) /\ Free(b, w)
    BY InvByBucket
  <2>3. /\ kept \in Nat /\ counter \in Nat /\ strays \in Nat /\ limit \in Nat /\ through \in Nat
        /\ kept <= counter + strays
    BY <2>2, CountsAreCounts DEF Covered
  <2>4. ASSUME L!LetThrough(b, w)' \subseteq L!LetThrough(b, w)
        PROVE  b.budget \in {"failure", "target"} => after <= limit + strays /\ after <= limit + (strays + 1)
    <3>1. after <= through /\ after \in Nat
      BY <2>4, CountsAreCounts, CallersCount
    <3>2. b.budget \in {"failure", "target"} => through <= limit + strays
      BY <2>2 DEF Covered
    <3> HIDE DEF through, after, strays, limit
    <3>3. through <= limit + strays => after <= limit + strays /\ after <= limit + (strays + 1)
      BY <2>3, <3>1, BoundsAdd
    <3> QED BY <3>2, <3>3
  <2>5. CASE spent[r][x] = now
    <3>1. L!SpentIn(r, b, w)
      BY <1>1, <1>6, <1>14, <2>5 DEF L!SpentIn
    <3>2. r \in L!Kept(b, w) /\ r \notin L!Kept(b, w)' /\ r \in L!Unrefunded(b, w) /\ r \notin L!Unrefunded(b, w)'
      BY <1>1, <1>2, <1>3, <1>6, <1>14, <3>1 DEF L!Kept, L!Unrefunded
    <3>3. L!Kept(b, w)' = L!Kept(b, w) \ {r} /\ L!Unrefunded(b, w)' = L!Unrefunded(b, w) \ {r}
      BY <1>8, <3>2 DEF L!Kept, L!Unrefunded
    <3>4. L!StraysInto(b, w)' = L!StraysInto(b, w)
      <4>1. r \notin L!StraysInto(b, w) /\ r \notin L!StraysInto(b, w)'
        BY <1>2, <1>6, <1>14, <2>5 DEF L!StraysInto
      <4> QED BY <1>8, <4>1 DEF L!StraysInto
    <3>5. L!Cardinality(L!Kept(b, w)') = kept - 1 /\ L!Cardinality(L!Kept(b, w)') \in Nat
      BY <3>2, <3>3, CountsAreCounts, CallersCount
    <3>6. L!Cardinality(L!Kept(b, w)') <= n'[b, w] + strays
      <4> DEFINE fewer == L!Cardinality(L!Kept(b, w)')
      <4>1. fewer = kept - 1 /\ fewer \in Nat
        BY <3>5
      <4> HIDE DEF fewer, kept, counter, strays
      <4>2. fewer <= (IF counter > 0 THEN counter - 1 ELSE 0) + strays
        BY <2>3, <4>1, BoundsAdd
      <4> QED BY <2>1, <4>2 DEF fewer
    <3>7. Free(b, w)'
      <4> SUFFICES ASSUME \A v \in L!Windows : L!StraysInto(b, v)' = {}
                   PROVE  n'[b, w] = L!Cardinality(L!Unrefunded(b, w)')
        BY DEF Free
      <4>1. \A v \in L!Windows : L!StraysInto(b, v) = {}
        BY <1>10
      <4> DEFINE free == L!Cardinality(L!Unrefunded(b, w))
      <4>2. counter = free
        BY <2>2, <4>1 DEF Free
      <4>3. L!Cardinality(L!Unrefunded(b, w)') = free - 1 /\ free >= 1 /\ free \in Nat
        BY <3>2, <3>3, CountsAreCounts, CallersCount
      <4> HIDE DEF free, counter
      <4>4. (IF counter > 0 THEN counter - 1 ELSE 0) = free - 1
        BY <4>2, <4>3
      <4> QED BY <2>1, <4>3, <4>4
    <3>8. L!LetThrough(b, w)' \subseteq L!LetThrough(b, w)
      BY <1>11, <3>3 DEF L!LetThrough
    <3>9. Covered(b, w)'
      BY <2>4, <3>4, <3>6, <3>8 DEF Covered
    <3> QED BY <3>7, <3>9
  <2>6. CASE spent[r][x] # now
    <3>1. L!Kept(b, w)' = L!Kept(b, w)
      <4>1. ~L!SpentIn(r, b, w)
        BY <1>6, <1>14, <2>6 DEF L!SpentIn
      <4>2. r \notin L!Kept(b, w) /\ r \notin L!Kept(b, w)'
        BY <1>5, <4>1 DEF L!Kept
      <4> QED BY <1>8, <4>2 DEF L!Kept
    <3>2. L!StraysInto(b, w)' = L!StraysInto(b, w) \cup {r} /\ r \notin L!StraysInto(b, w)
      <4>1. r \in L!StraysInto(b, w)' /\ r \notin L!StraysInto(b, w)
        BY <1>1, <1>2, <1>3, <1>6, <1>14, <2>6 DEF L!StraysInto
      <4> QED BY <1>8, <4>1 DEF L!StraysInto
    <3>3. L!Cardinality(L!StraysInto(b, w)') = strays + 1
      BY <3>2, CountsAreCounts, CallersCount
    <3>4. kept <= n'[b, w] + (strays + 1)
      <4> HIDE DEF kept, counter, strays
      <4>1. kept <= (IF counter > 0 THEN counter - 1 ELSE 0) + (strays + 1)
        BY <2>3, BoundsAdd
      <4> QED BY <2>1, <4>1
    <3>5. L!LetThrough(b, w)' \subseteq L!LetThrough(b, w)
      BY <1>11, <3>1 DEF L!LetThrough
    <3>6. Covered(b, w)'
      BY <2>4, <3>1, <3>3, <3>4, <3>5 DEF Covered
    <3>7. Free(b, w)'
      BY <1>3, <1>14, <3>2 DEF Free
    <3> QED BY <3>6, <3>7
  <2> QED BY <2>5, <2>6
<1> QED BY <1>12, <1>13, <1>14

LEMMA StillCounts ==
  ASSUME L!TypeOK, L!Inv, \A q \in Callers : L!InTurn(q)',
         \/ L!Roll
         \/ UNCHANGED <<n, step, call, spent, back>>
         \/ \E r \in Callers : L!Arrive(r) \/ L!LimiterFails(r) \/ L!Handle(r) \/ L!RefundFails(r),
         NEW b \in L!Buckets, NEW w \in L!Windows
  PROVE  Covered(b, w)' /\ Free(b, w)'
<1>1. n' = n /\ spent' = spent /\ back' = back
  BY DEF L!Roll, L!Arrive, L!LimiterFails, L!Handle, L!RefundFails
<1>2. b.budget \in L!Budgets /\ None \notin L!Windows
  BY LimiterLimits DEF L!Buckets
<1>3. ASSUME NEW q \in Callers
      PROVE  \/ call'[q] = call[q]
             \/ \A y \in L!Budgets : spent[q][y] = None /\ back[q][y] = None
  <2>1. CASE L!Arrive(q)
    <3>1. L!InTurn(q) /\ step[q] = "idle"
      BY <2>1 DEF L!Inv, L!Arrive, L!At
    <3> QED BY <3>1 DEF L!InTurn, L!Ahead
  <2>2. CASE ~L!Arrive(q)
    BY <2>2 DEF L!Roll, L!Arrive, L!LimiterFails, L!Handle, L!RefundFails, L!TypeOK
  <2> QED BY <2>1, <2>2
<1>4. ASSUME NEW q \in Callers, NEW v \in L!Windows
      PROVE  /\ q \in L!Kept(b, v)' <=> q \in L!Kept(b, v)
             /\ q \in L!StraysInto(b, v)' <=> q \in L!StraysInto(b, v)
             /\ q \in L!Unrefunded(b, v)' <=> q \in L!Unrefunded(b, v)
  <2>1. CASE call'[q] = call[q]
    BY <1>1, <2>1, Alike
  <2>2. CASE \A y \in L!Budgets : spent[q][y] = None /\ back[q][y] = None
    BY <1>1, <1>2, <2>2 DEF L!Kept, L!StraysInto, L!Unrefunded, L!SpentIn
  <2> QED BY <1>3, <2>1, <2>2
<1>5. ASSUME NEW q \in L!LetThrough(b, w)'
      PROVE  q \in L!LetThrough(b, w)
  <2>1. q \in Callers /\ q \in L!Kept(b, w)
    BY <1>4 DEF L!LetThrough, L!Kept
  <2>2. step'[q] \in {"handler", "refundFailure", "refundTarget", "done"} \/ (b.budget = "failure" /\ step'[q] = "target")
    BY <1>5 DEF L!LetThrough, L!Handled, L!At
  <2>3. step[q] \in {"handler", "refundFailure", "refundTarget", "done"} \/ (b.budget = "failure" /\ step[q] = "target")
    BY <2>1, <2>2 DEF L!Roll, L!Arrive, L!LimiterFails, L!Handle, L!RefundFails, L!TypeOK, L!Go, L!At
  <2> QED BY <2>1, <2>3 DEF L!LetThrough, L!Handled, L!At
<1>6. \A v \in L!Windows : /\ L!Kept(b, v)' = L!Kept(b, v) /\ L!StraysInto(b, v)' = L!StraysInto(b, v)
                           /\ L!Unrefunded(b, v)' = L!Unrefunded(b, v)
  BY <1>4 DEF L!Kept, L!StraysInto, L!Unrefunded
<1> QED BY <1>1, <1>5, <1>6, Unmoved

LEMMA LimiterKept ==
  ASSUME L!TypeOK, L!Inv, L!Next \/ UNCHANGED <<n, step, call, spent, back>>
  PROVE  L!Inv'
<1>1. \A q \in Callers : L!InTurn(q)'
  <2>1. CASE L!Next
    BY <2>1, TurnKept DEF L!Inv
  <2>2. CASE UNCHANGED <<n, step, call, spent, back>>
    BY <2>2 DEF L!Inv, L!InTurn, L!At
  <2> QED BY <2>1, <2>2
<1>2. ASSUME NEW b \in L!Buckets, NEW w \in L!Windows
      PROVE  Covered(b, w)' /\ Free(b, w)'
  <2>1. ASSUME NEW r \in Callers, L!SpendGeneral(r) \/ L!SpendFlood(r) \/ L!SpendFailure(r) \/ L!SpendTarget(r)
        PROVE  Covered(b, w)' /\ Free(b, w)'
    BY <2>1, SpendCounts DEF L!SpendGeneral, L!SpendFlood, L!SpendFailure, L!SpendTarget, L!Budgets
  <2>2. ASSUME NEW r \in Callers, L!RefundFailure(r) \/ L!RefundTarget(r)
        PROVE  Covered(b, w)' /\ Free(b, w)'
    BY <2>2, RefundCounts DEF L!RefundFailure, L!RefundTarget, L!Budgets, L!At
  <2> QED BY <1>1, <2>1, <2>2, StillCounts DEF L!Next
<1>3. L!Inv' <=> /\ \A r \in Callers : L!InTurn(r)'
                 /\ \A b \in L!Buckets, w \in L!Windows : Covered(b, w)' /\ Free(b, w)'
  BY DEF L!Inv, L!SuccessIsFree, Covered, Free
<1> QED BY <1>1, <1>2, <1>3

LimiterFits == focus = "budgets" => L!TypeOK /\ L!Inv

(* In every state of the limiter a request has spent each budget it came   *)
(* to once, and each counter is short of its spenders by strayed refunds   *)
(* at most: what both bounds rest on.                                      *)
THEOREM LimiterInvariant == FrontSpec => []LimiterFits
<1>1. FrontInit => LimiterFits
  BY LimiterStarts DEF FrontInit, LimiterFits
<1>2. LimiterFits /\ [FrontNext]_all => LimiterFits'
  <2> SUFFICES ASSUME LimiterFits, [FrontNext]_all, focus' = "budgets"
               PROVE  L!TypeOK' /\ L!Inv'
    BY DEF LimiterFits
  <2>1. focus = "budgets" /\ L!TypeOK /\ L!Inv
    BY DEF LimiterFits, FrontNext, Credentials, Play, Streaming, Budgets, all, inputs
  <2>2. CASE Budgets
    BY <2>1, <2>2, LimiterType, LimiterKept DEF Budgets
  <2>3. CASE UNCHANGED all
    <3>1. UNCHANGED <<n, now, step, call, spent, back>>
      BY <2>3 DEF all, shared, budgets
    <3>2. L!TypeOK'
      BY <2>1, <3>1 DEF L!TypeOK
    <3>3. L!Inv'
      BY <2>1, <3>1, LimiterKept
    <3> QED BY <3>2, <3>3
  <2> QED BY <2>1, <2>2, <2>3 DEF FrontNext, Credentials, Play, Streaming
<1> QED BY <1>1, <1>2, PTL DEF FrontSpec

(* The budgets hold: no more wrong answers get past a window than it allows *)
(* and its strayed refunds make up for, and success is free without these. *)
THEOREM BudgetsAreKept == FrontSpec => []BudgetsHold
<1>1. LimiterFits => BudgetsHold
  <2> SUFFICES ASSUME focus = "budgets", L!TypeOK, L!Inv PROVE L!FailuresBounded /\ L!SuccessIsFree
    BY DEF LimiterFits, BudgetsHold
  <2>1. L!SuccessIsFree
    BY DEF L!Inv
  <2>2. ASSUME NEW b \in {x \in L!Buckets : x.budget \in {"failure", "target"}}, NEW w \in L!Windows
        PROVE  L!Cardinality({r \in L!Handled : /\ L!Credentials(r) /\ L!SpentIn(r, b, w)
                                                /\ ~call[r].legitimate \/ call[r].route = "silent"})
                 <= L!Limit[b.budget] + L!Cardinality(L!StraysInto(b, w))
    <3> DEFINE wrong == {r \in L!Handled : /\ L!Credentials(r) /\ L!SpentIn(r, b, w)
                                           /\ ~call[r].legitimate \/ call[r].route = "silent"}
               few == L!Cardinality(wrong)
               through == L!Cardinality(L!LetThrough(b, w))
               strays == L!Cardinality(L!StraysInto(b, w))
               limit == L!Limit[b.budget]
    <3>1. wrong \subseteq L!LetThrough(b, w)
      <4> SUFFICES ASSUME NEW r \in wrong PROVE r \in L!LetThrough(b, w)
        OBVIOUS
      <4>1. L!InTurn(r) /\ r \in Callers /\ r \in L!Handled
        BY DEF L!Inv, L!Handled
      <4>2. back[r][b.budget] = None
        BY <4>1 DEF L!InTurn, L!Buckets
      <4>3. None \notin L!Windows
        BY LimiterLimits
      <4> QED BY <4>1, <4>2, <4>3 DEF L!LetThrough, L!Kept
    <3>2. few <= through /\ few \in Nat /\ through \in Nat /\ strays \in Nat /\ limit \in Nat
      BY <3>1, CountsAreCounts, CallersCount
    <3>3. through <= limit + strays
      BY DEF L!Inv
    <3> HIDE DEF few, through, strays, limit
    <3>4. few <= limit + strays
      BY <3>2, <3>3, BoundsAdd
    <3> QED BY <3>4 DEF few, strays, limit
  <2> QED BY <2>1, <2>2 DEF L!FailuresBounded
<1> QED BY <1>1, LimiterInvariant, PTL
=============================================================================
