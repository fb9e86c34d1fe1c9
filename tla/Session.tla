------------------------------ MODULE Session -------------------------------
(***************************************************************************)
(* The services of src/service/service_basic.c over the caches of          *)
(* src/service/cache.c and the table of users of src/model/user.c:         *)
(* registration with and without a verification code, login, logout,       *)
(* change and deletion of a user.  Each runs on a worker of the pool, and  *)
(* each access to a cache (under its spin lock) and each statement on the  *)
(* table is a step, with those of other workers in between.                *)
(*                                                                         *)
(* A live token is one in the token cache.  The table keeps the token of   *)
(* each user too, so that the next login finds the one it has to end; the  *)
(* caches are lost when the server stops, the table is not.  A request     *)
(* that is refused before it changed anything is no step.                  *)
(***************************************************************************)
EXTENDS Naturals, FiniteSetsExt

CONSTANTS
  Accounts,       \* accounts; a phone number is the account it registers
  Tokens,         \* bound: the tokens srand_get_uuid may return, no two alike
  Workers,        \* threads of the pool
  LastId,         \* bound: registrations
  Patient,        \* does an account have one client, which waits for its answers?
                  \* (An administrator who deletes the account waits for nobody.)
  Blank,          \* the token " " of a user who has logged out
  None

ASSUME SessionAssumption ==
  /\ LastId \in Nat /\ Patient \in BOOLEAN
  /\ Blank \notin Tokens /\ None \notin Tokens \cup Accounts

VARIABLES
  user,           \* the table: rows with an id, an account and a token
  nextId,         \* its AUTO_INCREMENT
  tokenCache,     \* the User per live token, with its age
  commonCache,    \* the verification code per phone number
  work,           \* the request each worker is at
  owner,          \* history: the account each token was made for
  told,           \* history: the tokens the clients of an account were answered and
                  \* that no service has deleted since
  failed,         \* history: accounts a login of which failed after it made a token
  crossed         \* history: accounts a deletion of which overlapped another request

caches  == <<tokenCache, commonCache>>
history == <<owner, told, failed, crossed>>
vars    == <<user, nextId, caches, work, history>>

Idle == [pc |-> "idle", account |-> None, id |-> 0, token |-> None]

EmptyCache == [t \in {} |-> Idle]

Init ==
  /\ user = {} /\ nextId = 1
  /\ tokenCache = EmptyCache
  /\ commonCache = [a \in Accounts |-> "none"]
  /\ work = [w \in Workers |-> Idle]
  /\ owner = [t \in Tokens |-> None]
  /\ told = [a \in Accounts |-> {}]
  /\ failed = {} /\ crossed = {}

-----------------------------------------------------------------------------
(* What the services are made of                                           *)

Live    == DOMAIN tokenCache
Rows(a) == {r \in user : r.account = a}
Unused  == {t \in Tokens : owner[t] = None}

\* The requests about an account that are under way, and those of them that delete it
Busy(a)     == \E w \in Workers : work[w].account = a
Deletion    == {"deleteCache", "deleteRow"}
Deleting(a) == \E w \in Workers : work[w].account = a /\ work[w].pc \in Deletion
Serving(a)  == \E w \in Workers : work[w].account = a /\ work[w].pc \notin Deletion

\* The worker takes up a request for an account and comes to pc.
Starts(w, a, pc, id, token) ==
  /\ work[w] = Idle
  /\ work' = [work EXCEPT ![w] = [pc |-> pc, account |-> a, id |-> id, token |-> token]]
  /\ UNCHANGED <<user, nextId, caches, owner, told, failed>>

\* It is one of the account's client.
Begins(w, a, pc, id, token) ==
  /\ Patient => ~ Serving(a)
  /\ Starts(w, a, pc, id, token)
  /\ crossed' = IF Deleting(a) THEN crossed \cup {a} ELSE crossed

Goes(w, from, to) == work[w].pc = from /\ work' = [work EXCEPT ![w].pc = to]
Ends(w, from)     == work[w].pc = from /\ work' = [work EXCEPT ![w] = Idle]

\* cacheInsert: dictAdd refuses a key that is there, which a new token never is.
CacheToken(t, id) ==
  tokenCache' = [u \in Live \cup {t} |-> IF u = t THEN [id |-> id, fresh |-> TRUE] ELSE tokenCache[u]]

CacheDelete(t) == tokenCache' = [u \in Live \ {t} |-> tokenCache[u]]

\* UserModify: the statement changes no row if the user is gone.
SetToken(id, t) ==
  user' = {IF r.id = id THEN [r EXCEPT !.token = t] ELSE r : r \in user}

Issue(w, t) ==
  /\ t \in Unused
  /\ owner' = [owner EXCEPT ![t] = work[w].account]

Answer(a, t) == told' = [told EXCEPT ![a] = @ \cup {t}]
Withdraw(t)  == told' = [a \in Accounts |-> told[a] \ {t}]

-----------------------------------------------------------------------------
(* userRegister and verifyAfter                                            *)

RegisterCounts(w, a) ==
  /\ Rows(a) = {}
  /\ Begins(w, a, "insertSelect", 0, None)

\* verifyBefore, with "regist" for a new and "login" for a known phone number
VerifyBeforeCounts(w, a) ==
  /\ Begins(w, a, "codeInsert", 0, None)

\* cacheInsert refuses the new code while there is an old one, expired or not.
VerifyBeforeInserts(w) ==
  LET a == work[w].account IN
  /\ Ends(w, "codeInsert")
  /\ commonCache' = [commonCache EXCEPT ![a] = IF @ = "none" THEN "fresh" ELSE @]
  /\ UNCHANGED <<user, nextId, tokenCache, history>>

\* The code the client sends is the one in the cache and has not expired.
VerifyAfterQueries(w, a) ==
  /\ commonCache[a] = "fresh"
  /\ Begins(w, a, "codeDelete", 0, None)

VerifyAfterDeletes(w) ==
  /\ Goes(w, "codeDelete", "insertSelect")
  /\ commonCache' = [commonCache EXCEPT ![work[w].account] = "none"]
  /\ UNCHANGED <<user, nextId, tokenCache, history>>

\* UserInsert: first it looks whether the account is there already, ...
InsertSelects(w) ==
  /\ IF Rows(work[w].account) = {} THEN Goes(w, "insertSelect", "insert") ELSE Ends(w, "insertSelect")
  /\ UNCHANGED <<user, nextId, caches, history>>

\* ... then it inserts the row, with the token that was made before, ...
Inserts_SameId(w) ==                                                \* MUTANT
  \E t \in Tokens :
    /\ work[w].pc = "insert" /\ nextId <= LastId
    /\ Issue(w, t)
    /\ work' = [work EXCEPT ![w].pc = "insertId", ![w].token = t]
    /\ user' = user \cup {[id |-> nextId, account |-> work[w].account, token |-> t]}
    /\ UNCHANGED <<nextId, caches, told, failed, crossed>>

Inserts(w) ==
  \E t \in Tokens :
    /\ work[w].pc = "insert" /\ nextId <= LastId
    /\ Issue(w, t)
    /\ work' = [work EXCEPT ![w].pc = "insertId", ![w].token = t]
    /\ user' = user \cup {[id |-> nextId, account |-> work[w].account, token |-> t]}
    /\ nextId' = nextId + 1
    /\ UNCHANGED <<caches, told, failed, crossed>>

\* ... and then it asks for the id; the row may have been deleted meanwhile.
InsertAsks(w) ==
  LET rows == Rows(work[w].account) IN
  /\ IF rows = {} THEN Ends(w, "insertId")
     ELSE /\ work[w].pc = "insertId"
          /\ work' = [work EXCEPT ![w].pc = "cache", ![w].id = Min({r.id : r \in rows})]
  /\ UNCHANGED <<user, nextId, caches, history>>

RegisterCaches_Not(w) ==                                            \* MUTANT
  /\ Ends(w, "cache")
  /\ Answer(work[w].account, work[w].token)
  /\ UNCHANGED <<user, nextId, caches, owner, failed, crossed>>

RegisterCaches(w) ==
  /\ Ends(w, "cache")
  /\ CacheToken(work[w].token, work[w].id)
  /\ Answer(work[w].account, work[w].token)
  /\ UNCHANGED <<user, nextId, commonCache, owner, failed, crossed>>

-----------------------------------------------------------------------------
(* userLogin                                                               *)

\* "ret != 1": an account that is there twice cannot log in.
LoginSelects(w, a) ==
  \E r \in Rows(a) :
    /\ Rows(a) = {r}
    /\ Begins(w, a, "loginDelete", r.id, r.token)

LoginDeletes_Not(w) ==                                              \* MUTANT
  /\ Goes(w, "loginDelete", "loginInsert")
  /\ UNCHANGED <<user, nextId, caches, history>>

\* The old token, if the row had one.
LoginDeletes(w) ==
  /\ Goes(w, "loginDelete", "loginInsert")
  /\ CacheDelete(work[w].token)
  /\ Withdraw(work[w].token)
  /\ UNCHANGED <<user, nextId, commonCache, owner, failed, crossed>>

LoginInserts(w) ==
  \E t \in Tokens :
    /\ work[w].pc = "loginInsert"
    /\ Issue(w, t)
    /\ work' = [work EXCEPT ![w].pc = "loginModify", ![w].token = t]
    /\ CacheToken(t, work[w].id)
    /\ UNCHANGED <<user, nextId, commonCache, told, failed, crossed>>

LoginModifies_Not(w) ==                                             \* MUTANT
  /\ Ends(w, "loginModify")
  /\ Answer(work[w].account, work[w].token)
  /\ UNCHANGED <<user, nextId, caches, owner, failed, crossed>>

LoginModifies(w) ==
  /\ Ends(w, "loginModify")
  /\ SetToken(work[w].id, work[w].token)
  /\ IF \E r \in user : r.id = work[w].id
     THEN Answer(work[w].account, work[w].token) ELSE UNCHANGED told
  /\ UNCHANGED <<nextId, caches, owner, failed, crossed>>

-----------------------------------------------------------------------------
(* The services for which a token is shown                                 *)

\* A client shows a token it was told.  The User the cache has for it is used
\* after the lock was released.
ShowsToken(w, t, fresh, pc) ==
  /\ t \in Live /\ owner[t] # None /\ t \in told[owner[t]]
  /\ tokenCache[t].fresh = fresh
  /\ Begins(w, owner[t], pc, tokenCache[t].id, t)

\* userStatus, userLogout, userModify and userDelete: the token is out of date.
StatusQueries(w, t) == ShowsToken(w, t, FALSE, "statusDelete")
LogoutQueries(w, t) == ShowsToken(w, t, TRUE, "logoutDelete")
ModifyQueries(w, t) == ShowsToken(w, t, TRUE, "modifyUpdate")

StatusDeletes(w) ==
  /\ Ends(w, "statusDelete")
  /\ CacheDelete(work[w].token) /\ Withdraw(work[w].token)
  /\ UNCHANGED <<user, nextId, commonCache, owner, failed, crossed>>

LogoutDeletes(w) ==
  /\ Goes(w, "logoutDelete", "logoutModify")
  /\ CacheDelete(work[w].token) /\ Withdraw(work[w].token)
  /\ UNCHANGED <<user, nextId, commonCache, owner, failed, crossed>>

LogoutModifies(w) ==
  /\ Ends(w, "logoutModify")
  /\ SetToken(work[w].id, Blank)
  /\ UNCHANGED <<nextId, caches, history>>

\* updateObj and the new time stamp: they go to freed memory if the session was
\* deleted meanwhile, which the model does not follow.
ModifyUpdates(w) ==
  LET t == work[w].token IN
  /\ Goes(w, "modifyUpdate", "modifyModify")
  /\ tokenCache' = [u \in Live |-> IF u = t THEN [tokenCache[u] EXCEPT !.fresh = TRUE] ELSE tokenCache[u]]
  /\ UNCHANGED <<user, nextId, commonCache, history>>

\* filter.token is the token shown, so it is written to the table again.
Modifies(w) ==
  /\ Ends(w, "modifyModify")
  /\ SetToken(work[w].id, work[w].token)
  /\ UNCHANGED <<nextId, caches, history>>

\* userDelete, of an account by an administrator, whatever its client asks meanwhile
DeleteSelects(w, a) ==
  \E r \in Rows(a) :
    /\ Rows(a) = {r}
    /\ Starts(w, a, "deleteCache", r.id, r.token)
    /\ crossed' = IF Busy(a) THEN crossed \cup {a} ELSE crossed

DeleteCaches(w) ==
  /\ Goes(w, "deleteCache", "deleteRow")
  /\ CacheDelete(work[w].token) /\ Withdraw(work[w].token)
  /\ UNCHANGED <<user, nextId, commonCache, owner, failed, crossed>>

DeleteRow(w) ==
  /\ Ends(w, "deleteRow")
  /\ user' = {r \in user : r.id # work[w].id}
  /\ UNCHANGED <<nextId, caches, history>>

-----------------------------------------------------------------------------
(* Time, failures and restarts                                             *)

TokenExpires(t) ==
  /\ t \in Live /\ tokenCache[t].fresh
  /\ tokenCache' = [tokenCache EXCEPT ![t].fresh = FALSE]
  /\ UNCHANGED <<user, nextId, commonCache, work, history>>

CodeExpires(a) ==
  /\ commonCache[a] = "fresh"
  /\ commonCache' = [commonCache EXCEPT ![a] = "old"]
  /\ UNCHANGED <<user, nextId, tokenCache, work, history>>

Statements == {"insertSelect", "insert", "insertId", "loginModify", "logoutModify",
               "modifyModify", "deleteRow"}

\* A statement fails: the service answers an error and undoes nothing.
StatementFails(w) ==
  /\ \E s \in Statements : Ends(w, s)
  /\ failed' = IF work[w].pc = "loginModify" THEN failed \cup {work[w].account} ELSE failed
  /\ UNCHANGED <<user, nextId, caches, owner, told, crossed>>

\* The server stops at any moment and is started again: "user token cache, left
\* out for now": no token of the table is loaded.
Restart ==
  /\ tokenCache' = EmptyCache
  /\ commonCache' = [a \in Accounts |-> "none"]
  /\ work' = [w \in Workers |-> Idle]
  /\ told' = [a \in Accounts |-> {}]
  /\ failed' = {}
  /\ UNCHANGED <<user, nextId, owner, crossed>>

-----------------------------------------------------------------------------
Request(w) ==
  \/ \E a \in Accounts : \/ RegisterCounts(w, a) \/ VerifyBeforeCounts(w, a)
                         \/ VerifyAfterQueries(w, a) \/ LoginSelects(w, a) \/ DeleteSelects(w, a)
  \/ \E t \in Tokens : StatusQueries(w, t) \/ LogoutQueries(w, t) \/ ModifyQueries(w, t)

Continue(w) ==
  \/ VerifyBeforeInserts(w) \/ VerifyAfterDeletes(w)
  \/ InsertSelects(w) \/ Inserts(w) \/ InsertAsks(w) \/ RegisterCaches(w)
  \/ LoginDeletes(w) \/ LoginInserts(w) \/ LoginModifies(w)
  \/ StatusDeletes(w) \/ LogoutDeletes(w) \/ LogoutModifies(w)
  \/ ModifyUpdates(w) \/ Modifies(w) \/ DeleteCaches(w) \/ DeleteRow(w)
  \/ StatementFails(w)

Next ==
  \/ \E w \in Workers : Request(w) \/ Continue(w)
  \/ \E t \in Tokens : TokenExpires(t)
  \/ \E a \in Accounts : CodeExpires(a)
  \/ Restart

Spec == Init /\ [][Next]_vars

-----------------------------------------------------------------------------
(* Properties                                                              *)

\* The variables stay in their ranges, and an id is of one row.
TypeOK ==
  /\ user \subseteq [id : 1..LastId, account : Accounts, token : Tokens \cup {Blank}]
  /\ \A r, s \in user : r.id = s.id => r = s
  /\ nextId \in 1..LastId + 1
  /\ Live \subseteq Tokens
  /\ \A t \in Live : tokenCache[t] \in [id : 1..LastId, fresh : BOOLEAN]
  /\ commonCache \in [Accounts -> {"none", "fresh", "old"}]
  /\ \A w \in Workers : work[w].account \in Accounts \cup {None} /\ work[w].id \in 0..LastId
  /\ owner \in [Tokens -> Accounts \cup {None}]
  /\ told \in [Accounts -> SUBSET Tokens]
  /\ failed \subseteq Accounts /\ crossed \subseteq Accounts

LiveOf(a) == {t \in Live : owner[t] = a}

\* service_basic.c:284: "if there is an old token, first delete the old token":
\* when the requests for an account are done it has one live token at most,
\* whatever was registered, logged in and out, expired or restarted before,
\* unless a statement failed in a login or a deletion overlapped a request.
OneLiveToken ==
  \A a \in Accounts \ (failed \cup crossed) : ~ Busy(a) => Cardinality(LiveOf(a)) <= 1

\* The table knows the live token of each user, so that the next login or the
\* deletion of the user ends it, with the same two exceptions: a deletion
\* between the steps of a login leaves a live token without a row.
TableKnowsToken ==
  \A a \in Accounts \ (failed \cup crossed) : ~ Busy(a) => LiveOf(a) \subseteq {r.token : r \in Rows(a)}

\* A token a client was answered is live until a service ends it or the server
\* stops, and is a session of its user, unless a deletion of the account
\* overlapped another request for it.
AnswerHonored ==
  \A a \in Accounts \ crossed : ~ Busy(a) =>
    \A t \in told[a] : t \in Live /\ \E r \in Rows(a) : r.id = tokenCache[t].id
=============================================================================
