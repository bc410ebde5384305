-------------------------------- MODULE Auth --------------------------------
(***************************************************************************)
(* Users and sessions of the relay: Authenticator                          *)
(* (src/GoTunnel/internal/auth/auth.go), its MemoryStore                   *)
(* (auth/store_memory.go) and the handlers that call them                  *)
(* (relay/enterprise.go).                                                  *)
(*                                                                         *)
(* Every method of the store is atomic, but one of Authenticator reads a   *)
(* user, works on the copy and saves the whole copy back, so calls         *)
(* overlap.  The copies of a user share the array that BackupCodes points  *)
(* to, and VerifyMFA removes a code from that array in place, before it    *)
(* saves; the array of each EnableMFA is therefore a variable of its own,  *)
(* and a user has its number and a length.                                 *)
(***************************************************************************)
EXTENDS Naturals, Sequences

CONSTANTS Call,         \* requests under way
          Name, Email,  \* what users and identity providers choose from
          Code,         \* the backup codes of one EnableMFA, a sequence
          MaxUser,      \* bound on users
          MaxToken,     \* bound on sessions
          MaxGen        \* bound on EnableMFA

ASSUME AuAssumption == /\ {MaxUser, MaxToken, MaxGen} \subseteq Nat
                       /\ Code \in Seq(Nat) /\ Len(Code) > 0
                       /\ \A i, j \in DOMAIN Code : Code[i] = Code[j] => i = j   \* random codes
                       /\ "none" \notin Name \cup Email

VARIABLES auUser,       \* usersByID
          auByEmail,    \* userIDsByEmail
          auByName,     \* userIDsByName
          auSess,       \* sessionsByToken
          auArr,        \* auArr[g]: the array of the g-th EnableMFA
          auCall,       \* auCall[c]: what request c works on
          auMade,       \* users, sessions and setups made so far
          auOwner,      \* auOwner[g]: the user of the g-th EnableMFA
          auUses,       \* auUses[g][k]: how often code k was accepted
          auRaced       \* users whose requests overlapped

auVars == <<auUser, auByEmail, auByName, auSess, auArr, auCall, auMade, auOwner, auUses, auRaced>>

UserId == 1..MaxUser
Token == 1..MaxToken
Gen == 1..MaxGen
CodeSet == {Code[i] : i \in DOMAIN Code}

\* gen is 0 while MFA is disabled; len is the length of BackupCodes.
NoUser == [id |-> 0, name |-> "none", email |-> "none", gen |-> 0, len |-> 0]
NoSess == [user |-> 0, mfa |-> FALSE]
NoCall == [pc |-> "idle", user |-> NoUser, token |-> 0]

AuTypeOK ==
    /\ \A i \in UserId : auUser[i].id \in {0, i} /\ auUser[i].gen \in 0..MaxGen /\ auUser[i].len \in 0..Len(Code)
    /\ auByEmail \in [Email -> {0} \cup UserId]
    /\ auByName \in [Name -> {0} \cup UserId]
    /\ auSess \in [Token -> [user : {0} \cup UserId, mfa : BOOLEAN]]
    /\ auArr \in [Gen -> [DOMAIN Code -> CodeSet]]
    /\ \A c \in Call : auCall[c].pc \in {"idle", "create", "ssoCreate", "saveSession", "saveVerified", "saveUser"}

AuInit ==
    /\ auUser = [i \in UserId |-> NoUser]
    /\ auByEmail = [e \in Email |-> 0]
    /\ auByName = [n \in Name |-> 0]
    /\ auSess = [t \in Token |-> NoSess]
    /\ auArr = [g \in Gen |-> Code]
    /\ auCall = [c \in Call |-> NoCall]
    /\ auMade = [user |-> 0, token |-> 0, gen |-> 0]
    /\ auOwner = [g \in Gen |-> 0]
    /\ auUses = [g \in Gen |-> [k \in CodeSet |-> 0]]
    /\ auRaced = {}

-----------------------------------------------------------------------------
Accepts(u) == auByEmail[u.email] \in {0, u.id} /\ auByName[u.name] \in {0, u.id}

SaveUserNoEmailCheck(u) ==
    IF auByName[u.name] \notin {0, u.id} THEN UNCHANGED <<auUser, auByEmail, auByName>>
    ELSE /\ auUser' = [auUser EXCEPT ![u.id] = u]
         /\ auByEmail' = [e \in Email |-> IF e = u.email THEN u.id ELSE IF e = auUser[u.id].email THEN 0 ELSE auByEmail[e]]
         /\ auByName' = [n \in Name |-> IF n = u.name THEN u.id ELSE IF n = auUser[u.id].name THEN 0 ELSE auByName[n]]

\* MemoryStore.SaveUser: refused when another user has the email or the name.
SaveUser(u) ==
    IF ~Accepts(u) THEN UNCHANGED <<auUser, auByEmail, auByName>>
    ELSE /\ auUser' = [auUser EXCEPT ![u.id] = u]
         /\ auByEmail' = [e \in Email |-> IF e = u.email THEN u.id ELSE IF e = auUser[u.id].email THEN 0 ELSE auByEmail[e]]
         /\ auByName' = [n \in Name |-> IF n = u.name THEN u.id ELSE IF n = auUser[u.id].name THEN 0 ELSE auByName[n]]

\* The requests that hold a copy of user i.
Holding(i) == {c \in Call : auCall[c].pc # "idle" /\ auCall[c].user.id = i}

\* Request c reads user u and goes on with a copy at pc.
Take(c, u, pc, token) ==
    /\ auCall[c].pc = "idle"
    /\ auCall' = [auCall EXCEPT ![c] = [pc |-> pc, user |-> u, token |-> token]]
    /\ auRaced' = IF u.id # 0 /\ Holding(u.id) # {} THEN auRaced \cup {u.id} ELSE auRaced

Named(n, e) == [NoUser EXCEPT !.name = n, !.email = e]

\* CreateUser up to its two lookups.
CreateUser(c, n, e) ==
    /\ auByName[n] = 0 /\ auByEmail[e] = 0
    /\ Take(c, Named(n, e), "create", 0)
    /\ UNCHANGED <<auUser, auByEmail, auByName, auSess, auArr, auMade, auOwner, auUses>>

\* handleLogin and AuthenticateWithPassword up to the password.
AuthenticateWithPassword(c, n) ==
    /\ auByName[n] # 0
    /\ Take(c, auUser[auByName[n]], "saveSession", 0)
    /\ UNCHANGED <<auUser, auByEmail, auByName, auSess, auArr, auMade, auOwner, auUses>>

\* ValidateToken: the claims of a token that passes its checks name a user; one
\* that does not ends the request.
ValidateToken(n, e) == Named(n, e)

\* handleSSOLogin and AuthenticateWithSSO: the user of the token is found by
\* email or else created.
AuthenticateWithSSO(c, n, e) ==
    /\ IF auByEmail[e] # 0 THEN Take(c, auUser[auByEmail[e]], "saveSession", 0)
       ELSE Take(c, ValidateToken(n, e), "ssoCreate", 0)
    /\ UNCHANGED <<auUser, auByEmail, auByName, auSess, auArr, auMade, auOwner, auUses>>

\* SaveUser of a user that is new.
SaveNewUser(c) ==
    LET i == auMade.user + 1
        u == [auCall[c].user EXCEPT !.id = i]
    IN  /\ auCall[c].pc \in {"create", "ssoCreate"}
        /\ i <= MaxUser
        /\ SaveUser(u)
        /\ auMade' = [auMade EXCEPT !.user = i]
        /\ auCall' = [auCall EXCEPT ![c] = IF auCall[c].pc = "ssoCreate" /\ Accepts(u)
                                           THEN [pc |-> "saveSession", user |-> u, token |-> 0] ELSE NoCall]
        /\ UNCHANGED <<auSess, auArr, auOwner, auUses, auRaced>>

\* SaveSession of a new session.
SaveSession(c) ==
    LET t == auMade.token + 1
    IN  /\ auCall[c].pc = "saveSession"
        /\ t <= MaxToken
        /\ auSess' = [auSess EXCEPT ![t] = [user |-> auCall[c].user.id, mfa |-> FALSE]]
        /\ auMade' = [auMade EXCEPT !.token = t]
        /\ auCall' = [auCall EXCEPT ![c].pc = "saveUser"]
        /\ UNCHANGED <<auUser, auByEmail, auByName, auArr, auOwner, auUses, auRaced>>

\* The copy is saved back at the end of a login, VerifyMFA, EnableMFA or
\* DisableMFA; a user deleted meanwhile is there again.
SaveUserBack(c) ==
    /\ auCall[c].pc = "saveUser"
    /\ SaveUser(auCall[c].user)
    /\ auCall' = [auCall EXCEPT ![c] = NoCall]
    /\ UNCHANGED <<auSess, auArr, auMade, auOwner, auUses, auRaced>>

-----------------------------------------------------------------------------
\* VerifySession can accept the token; a session that has expired is refused.
Valid(t) == auSess[t].user # 0 /\ auUser[auSess[t].user].id # 0

\* The array is not moved up: the last code is lost, not the used one.
RemovedLast(a, i, len) == a

\* append(codes[:i], codes[i+1:]...) on the shared array.
Removed(a, i, len) == [j \in DOMAIN a |-> IF i <= j /\ j < len THEN a[j + 1] ELSE a[j]]

\* handleMFAVerify and VerifyMFA up to the code: a TOTP code, or the first
\* backup code that matches, which is removed.
VerifyMFA(c, t, k) ==
    LET u == auUser[auSess[t].user]
        a == auArr[u.gen]
        at == {i \in 1..u.len : a[i] = k /\ \A j \in 1..(i - 1) : a[j] # k}
    IN  /\ auSess[t].user # 0
        /\ u.id # 0
        /\ u.gen # 0
        /\ \/ /\ k = 0
              /\ Take(c, u, "saveVerified", t)
              /\ UNCHANGED <<auArr, auUses>>
           \/ \E i \in at :
              /\ Take(c, [u EXCEPT !.len = @ - 1], "saveVerified", t)
              /\ auArr' = [auArr EXCEPT ![u.gen] = Removed(a, i, u.len)]
              /\ auUses' = [auUses EXCEPT ![u.gen][k] = IF @ < 2 THEN @ + 1 ELSE @]
        /\ UNCHANGED <<auUser, auByEmail, auByName, auSess, auMade, auOwner>>

\* SaveSession of the session read before, verified now.
SaveVerified(c) ==
    /\ auCall[c].pc = "saveVerified"
    /\ auSess' = [auSess EXCEPT ![auCall[c].token] = [user |-> auCall[c].user.id, mfa |-> TRUE]]
    /\ auCall' = [auCall EXCEPT ![c].pc = "saveUser"]
    /\ UNCHANGED <<auUser, auByEmail, auByName, auArr, auMade, auOwner, auUses, auRaced>>

\* EnableMFA up to SaveUser.
EnableMFA(c, i) ==
    LET g == auMade.gen + 1
        u == auUser[i]
    IN  /\ u.id # 0
        /\ u.gen = 0
        /\ g <= MaxGen
        /\ Take(c, [u EXCEPT !.gen = g, !.len = Len(Code)], "saveUser", 0)
        /\ auMade' = [auMade EXCEPT !.gen = g]
        /\ auOwner' = [auOwner EXCEPT ![g] = u.id]
        /\ UNCHANGED <<auUser, auByEmail, auByName, auSess, auArr, auUses>>

\* authorizePermission, for a user who has the permission.
Authorized(t) == Valid(t) /\ (auUser[auSess[t].user].gen # 0 => auSess[t].mfa)

\* handleMFASetup.
HandleMFASetup(c, t) == Authorized(t) /\ EnableMFA(c, auSess[t].user)

\* DisableMFA up to SaveUser.
DisableMFA(c, i) ==
    /\ auUser[i].id # 0
    /\ Take(c, [auUser[i] EXCEPT !.gen = 0, !.len = 0], "saveUser", 0)
    /\ UNCHANGED <<auUser, auByEmail, auByName, auSess, auArr, auMade, auOwner, auUses>>

Drop(tokens) == auSess' = [t \in Token |-> IF t \in tokens THEN NoSess ELSE auSess[t]]
SessionsOf(i) == {t \in Token : auSess[t].user = i}

\* Logout, LogoutAll, VerifySession of an expired session and
\* CleanupExpiredSessions: some sessions are dropped.
DropSessions(tokens) ==
    /\ \E t \in tokens : auSess[t] # NoSess
    /\ Drop(tokens)
    /\ UNCHANGED <<auUser, auByEmail, auByName, auArr, auCall, auMade, auOwner, auUses, auRaced>>

DeleteUserKeepsName(i) ==
    /\ auUser[i].id # 0
    /\ auByEmail' = [auByEmail EXCEPT ![auUser[i].email] = 0]
    /\ auUser' = [auUser EXCEPT ![i] = NoUser]
    /\ Drop(SessionsOf(i))
    /\ auRaced' = IF Holding(i) # {} THEN auRaced \cup {i} ELSE auRaced
    /\ UNCHANGED <<auByName, auArr, auCall, auMade, auOwner, auUses>>

\* MemoryStore.DeleteUser.
DeleteUser(i) ==
    /\ auUser[i].id # 0
    /\ auByEmail' = [auByEmail EXCEPT ![auUser[i].email] = 0]
    /\ auByName' = [auByName EXCEPT ![auUser[i].name] = 0]
    /\ auUser' = [auUser EXCEPT ![i] = NoUser]
    /\ Drop(SessionsOf(i))
    /\ auRaced' = IF Holding(i) # {} THEN auRaced \cup {i} ELSE auRaced
    /\ UNCHANGED <<auArr, auCall, auMade, auOwner, auUses>>

AuNext ==
    \/ \E c \in Call : \/ \E n \in Name, e \in Email : CreateUser(c, n, e) \/ AuthenticateWithSSO(c, n, e)
                       \/ \E n \in Name : AuthenticateWithPassword(c, n)
                       \/ SaveNewUser(c) \/ SaveSession(c) \/ SaveUserBack(c) \/ SaveVerified(c)
                       \/ \E t \in Token : HandleMFASetup(c, t) \/ \E k \in {0} \cup CodeSet : VerifyMFA(c, t, k)
                       \/ \E i \in UserId : DisableMFA(c, i)
    \/ \E tokens \in SUBSET Token : DropSessions(tokens)
    \/ \E i \in UserId : DeleteUser(i)

AuSpec == AuInit /\ [][AuNext]_auVars

-----------------------------------------------------------------------------
\* The indexes by email and by name and the users agree, and no two users share
\* either, although CreateUser and AuthenticateWithSSO look before they save and
\* a login may save back a user that was deleted (store_memory.go:27-47, 92-108).
IndexesAgree ==
    /\ \A i \in UserId : auUser[i].id # 0 => auByEmail[auUser[i].email] = i /\ auByName[auUser[i].name] = i
    /\ \A e \in Email : auByEmail[e] # 0 => auUser[auByEmail[e]].email = e
    /\ \A n \in Name : auByName[n] # 0 => auUser[auByName[n]].name = n

\* "Remove used backup code": a backup code is accepted once, also in another
\* session and whatever logins lie between, if requests of the user do not
\* overlap (auth.go:406-429).
CodeUsedOnce ==
    \A g \in Gen : auOwner[g] \notin auRaced => \A k \in CodeSet : auUses[g][k] <= 1
=============================================================================
