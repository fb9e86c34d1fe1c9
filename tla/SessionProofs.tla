---------------------------- MODULE SessionProofs ----------------------------
(***************************************************************************)
(* What the services of Session promise, for any number of accounts,       *)
(* tokens, workers and registrations.                                      *)
(*                                                                         *)
(* The types hold whatever requests overlap, and so does OwnInv: what a    *)
(* worker has in hand is of the account it works for.  The rest needs      *)
(* Patient, and is an invariant of each account that was not crossed by    *)
(* its deletion (AccountInv): its rows, its live tokens, what its client   *)
(* was told and the worker that serves it.  A step is about one account,   *)
(* crossed or not, and leaves the invariant of the others as it is.        *)
(***************************************************************************)
EXTENDS Session, Extremes, FiniteSetTheorems, TLAPS

\* Where a worker has a row of the table and the token in it.
WithRow == {"cache", "loginDelete", "deleteCache", "statusDelete", "logoutDelete",
            "modifyUpdate", "modifyModify"}

\* Where it has ended the session of a row.
Ended == {"loginInsert", "logoutModify", "deleteRow"}

Pcs == {"idle", "codeInsert", "codeDelete", "insertSelect", "insert", "insertId", "loginModify"}
         \cup WithRow \cup Ended

Jobs == [pc : Pcs, account : Accounts \cup {None}, id : 0..LastId, token : Tokens \cup {Blank, None}]

\* The table, with ids that were given out once.
UserOK ==
  /\ user \subseteq [id : 1..LastId, account : Accounts, token : Tokens \cup {Blank}]
  /\ nextId \in 1..LastId + 1
  /\ \A r, s \in user : r.id = s.id => r = s
  /\ \A r \in user : r.id < nextId

\* Tokens in the cache were made for somebody.
CacheOK ==
  /\ Live \subseteq Tokens
  /\ tokenCache \in [Live -> [id : 1..LastId, fresh : BOOLEAN]]
  /\ commonCache \in [Accounts -> {"none", "fresh", "old"}]
  /\ owner \in [Tokens -> Accounts \cup {None}]
  /\ \A t \in Live : owner[t] # None

\* What a worker knows is of the kind its next step needs.
JobOK(w) ==
  /\ work[w].pc = "idle" <=> work[w] = Idle
  /\ work[w].pc = "idle" <=> work[w].account = None
  /\ work[w].pc \in {"insertId", "loginModify", "cache", "statusDelete", "logoutDelete",
                     "modifyUpdate", "modifyModify"} => work[w].token \in Tokens /\ owner[work[w].token] # None
  /\ work[w].pc \in WithRow \cup Ended \cup {"loginModify"} => work[w].id \in 1..LastId

JobsOK == work \in [Workers -> Jobs] /\ \A w \in Workers : JobOK(w)

TypeInv ==
  /\ UserOK /\ CacheOK /\ JobsOK
  /\ told \in [Accounts -> SUBSET Tokens] /\ failed \subseteq Accounts /\ crossed \subseteq Accounts

\* An id in hand was given out, and the row that has it, if there is one, is the account's.
Fits(id, a) == id < nextId /\ \A r \in user : r.id = id => r.account = a

\* A token is in the rows, the answers and the jobs of its account only, and an
\* id leads to no row of another.
OwnRows  == \A r \in user : r.token \in Tokens => owner[r.token] = r.account
OwnTold  == \A a \in Accounts : \A t \in told[a] : owner[t] = a
OwnWork  == \A w \in Workers : /\ work[w].token \in Tokens => owner[work[w].token] = work[w].account
                              /\ Fits(work[w].id, work[w].account)
OwnCache == \A t \in Live : Fits(tokenCache[t].id, owner[t])
OwnInv   == OwnRows /\ OwnTold /\ OwnWork /\ OwnCache

\* An account has one row at most, and the token in it was made for the account.
RowInv(a) ==
  /\ \A r, s \in Rows(a) : r = s
  /\ \A r \in Rows(a) : r.token \in Tokens => owner[r.token] = a

\* What the client was told is live, and in the table.
ToldInv(a) ==
  \A t \in told[a] : t \in Live /\ \E r \in Rows(a) : r.token = t /\ r.id = tokenCache[t].id

\* A live token is in the table, but for a login that has not written it yet.
LiveInv(a) ==
  a \notin failed /\ (\A w \in Workers : work[w].account = a => work[w].pc # "loginModify") =>
    \A t \in LiveOf(a) : \E r \in Rows(a) : r.token = t

\* What the worker of the account may rely on: nobody else is at it.
ServeInv(a, w) ==
  /\ work[w].pc = "insert" => Rows(a) = {}
  /\ work[w].pc = "insertId" => owner[work[w].token] = a /\ \E r \in Rows(a) : r.token = work[w].token
  /\ work[w].pc \in WithRow => \E r \in Rows(a) : r.id = work[w].id /\ r.token = work[w].token
  /\ work[w].pc \in Ended \cup {"loginModify"} => (\E r \in Rows(a) : r.id = work[w].id) /\ told[a] = {}
  /\ work[w].pc \in Ended /\ a \notin failed => LiveOf(a) = {}
  /\ work[w].pc = "loginModify" =>
       /\ work[w].token \in LiveOf(a) /\ tokenCache[work[w].token].id = work[w].id
       /\ a \notin failed => LiveOf(a) = {work[w].token}

AccountInv(a) ==
  /\ RowInv(a) /\ ToldInv(a) /\ LiveInv(a)
  /\ \A w \in Workers : work[w].account = a => ServeInv(a, w)
  /\ \A v, w \in Workers : work[v].account = a /\ work[w].account = a => v = w

AccountsInv == \A a \in Accounts \ crossed : AccountInv(a)

-----------------------------------------------------------------------------
(* What the pieces of the services do.                                     *)

\* The worker of w comes to pc with what it knows; the others stay where they are.
Moves(w, pc) ==
  /\ work' \in [Workers -> Jobs] /\ \A v \in Workers : v # w => work'[v] = work[v]
  /\ work'[w].pc = pc /\ work'[w].account = work[w].account
  /\ work'[w].id = work[w].id /\ work'[w].token = work[w].token

Stops(w) ==
  /\ work' \in [Workers -> Jobs] /\ \A v \in Workers : v # w => work'[v] = work[v]
  /\ work'[w] = Idle

\* A request is taken up by an idle worker.
LEMMA StartsFields ==
  ASSUME JobsOK, NEW w \in Workers, NEW a \in Accounts, NEW pc \in Pcs, NEW id \in 0..LastId,
         NEW t \in Tokens \cup {Blank, None}, Starts(w, a, pc, id, t)
  PROVE  /\ work' \in [Workers -> Jobs] /\ \A v \in Workers : v # w => work'[v] = work[v]
         /\ work[w] = Idle
         /\ work'[w].pc = pc /\ work'[w].account = a /\ work'[w].id = id /\ work'[w].token = t
<1>1. [pc |-> pc, account |-> a, id |-> id, token |-> t] \in Jobs
  BY DEF Jobs
<1> QED BY <1>1 DEF Starts, JobsOK

\* One that goes on keeps what it knows.
LEMMA GoesFields ==
  ASSUME JobsOK, NEW w \in Workers, NEW from, NEW to \in Pcs, Goes(w, from, to)
  PROVE  work[w].pc = from /\ Moves(w, to)
<1>1. work \in [Workers -> Jobs] /\ work' = [work EXCEPT ![w].pc = to] /\ work[w].pc = from
  BY DEF Goes, JobsOK
<1> QED BY ONLY <1>1, w \in Workers, to \in Pcs DEF Jobs, Moves

\* One that ends is idle again.
LEMMA EndsFields ==
  ASSUME JobsOK, NEW w \in Workers, NEW from, Ends(w, from)
  PROVE  work[w].pc = from /\ Stops(w)
<1>1. Idle \in Jobs
  BY SessionAssumption DEF Idle, Jobs, Pcs
<1> QED BY <1>1 DEF Ends, JobsOK, Stops

\* cacheDelete
LEMMA CacheDeleteFields ==
  ASSUME NEW t, CacheDelete(t)
  PROVE  /\ Live' = Live \ {t} /\ \A u \in Live' : tokenCache'[u] = tokenCache[u]
         /\ tokenCache' = [u \in Live' |-> tokenCache'[u]]
BY DEF CacheDelete, Live

\* cacheInsert
LEMMA CacheTokenFields ==
  ASSUME NEW t, NEW id, CacheToken(t, id)
  PROVE  /\ Live' = Live \cup {t} /\ tokenCache' = [u \in Live' |-> tokenCache'[u]]
         /\ tokenCache'[t] = [id |-> id, fresh |-> TRUE]
         /\ \A u \in Live : u # t => tokenCache'[u] = tokenCache[u]
BY DEF CacheToken, Live

\* UserModify changes tokens only.
LEMMA SetTokenFields ==
  ASSUME UserOK, NEW id, NEW t \in Tokens \cup {Blank}, SetToken(id, t)
  PROVE  /\ \A r \in user' : /\ r \in [id : 1..LastId, account : Accounts, token : Tokens \cup {Blank}]
                             /\ \E q \in user : /\ r.id = q.id /\ r.account = q.account
                                                /\ r.id = id => r.token = t
                                                /\ r.id # id => r = q
         /\ \A q \in user : /\ q.id # id => q \in user'
                            /\ q.id = id => \E r \in user' : r.id = id /\ r.account = q.account /\ r.token = t
<1> DEFINE R == [id : 1..LastId, account : Accounts, token : Tokens \cup {Blank}]
           g(q) == [q EXCEPT !.token = t]
<1>1. \A q \in R : g(q) \in R /\ g(q).id = q.id /\ g(q).account = q.account /\ g(q).token = t
  OBVIOUS
<1>2. user' = {IF q.id = id THEN g(q) ELSE q : q \in user} /\ user \subseteq R
  BY DEF SetToken, UserOK
<1> HIDE DEF R, g
<1>3. \A r \in user' : r \in R /\ \E q \in user : /\ r.id = q.id /\ r.account = q.account
                                                  /\ r.id = id => r.token = t
                                                  /\ r.id # id => r = q
  BY <1>1, <1>2
<1>4. ASSUME NEW q \in user
      PROVE  /\ q.id # id => q \in user'
             /\ q.id = id => \E r \in user' : r.id = id /\ r.account = q.account /\ r.token = t
  <2>1. CASE q.id # id
    BY <1>2, <2>1
  <2>2. CASE q.id = id
    <3>1. g(q) \in user'
      BY <1>2, <2>2
    <3> QED BY <1>1, <1>2, <2>2, <3>1
  <2> QED BY <2>1, <2>2
<1> QED BY <1>3, <1>4 DEF R

\* ... so that the ids stay unique.
LEMMA SetTokenOK ==
  ASSUME UserOK, NEW id, NEW t \in Tokens \cup {Blank}, SetToken(id, t), nextId' = nextId
  PROVE  UserOK'
<1>0. LastId \in Nat
  BY SessionAssumption
<1>1. user' \subseteq [id : 1..LastId, account : Accounts, token : Tokens \cup {Blank}]
  BY SetTokenFields
<1>2. ASSUME NEW r \in user', NEW s \in user', r.id = s.id
      PROVE  r = s
  <2>1. PICK p \in user : /\ r.id = p.id /\ r.account = p.account /\ (r.id = id => r.token = t)
                          /\ r.id # id => r = p
    BY SetTokenFields
  <2>2. PICK q \in user : /\ s.id = q.id /\ s.account = q.account /\ (s.id = id => s.token = t)
                          /\ s.id # id => s = q
    BY SetTokenFields
  <2>3. p = q
    BY <1>2, <2>1, <2>2 DEF UserOK
  <2>4. r.account = s.account /\ r.token = s.token
    BY <1>2, <2>1, <2>2, <2>3
  <2> QED BY <1>1, <1>2, <2>4
<1>3. \A r \in user' : r.id < nextId
  <2> SUFFICES ASSUME NEW r \in user' PROVE r.id < nextId
    OBVIOUS
  <2>1. \E q \in user : r.id = q.id
    BY SetTokenFields
  <2> QED BY <2>1 DEF UserOK
<1> QED BY <1>1, <1>2, <1>3 DEF UserOK

\* A job that goes on is one of its kind, ...
LEMMA JobMoves ==
  ASSUME JobsOK, \A t \in Tokens : owner[t] # None => owner'[t] = owner[t],
         NEW w \in Workers, NEW pc \in Pcs, Moves(w, pc), pc # "idle", work[w].pc # "idle",
         pc \in {"insertId", "loginModify", "cache", "statusDelete", "logoutDelete",
                 "modifyUpdate", "modifyModify"} => work[w].token \in Tokens /\ owner[work[w].token] # None,
         pc \in WithRow \cup Ended \cup {"loginModify"} => work[w].id \in 1..LastId
  PROVE  JobsOK'
<1>1. ASSUME NEW v \in Workers, v # w
      PROVE  JobOK(v)'
  <2>1. JobOK(v) /\ work'[v] = work[v]
    BY <1>1 DEF JobsOK, Moves
  <2> QED BY <2>1 DEF JobOK
<1>2. JobOK(w)'
  <2>1. JobOK(w)
    BY DEF JobsOK
  <2>2. work'[w] # Idle
    BY DEF Moves, Idle
  <2> QED BY <2>1, <2>2 DEF JobOK, Moves
<1> QED BY <1>1, <1>2 DEF JobsOK, Moves

\* ... and one that ends is none.
LEMMA JobStops ==
  ASSUME JobsOK, \A t \in Tokens : owner[t] # None => owner'[t] = owner[t],
         NEW w \in Workers, Stops(w)
  PROVE  JobsOK'
<1>1. ASSUME NEW v \in Workers, v # w
      PROVE  JobOK(v)'
  <2>1. JobOK(v) /\ work'[v] = work[v]
    BY <1>1 DEF JobsOK, Stops
  <2> QED BY <2>1 DEF JobOK
<1>2. JobOK(w)'
  BY DEF JobOK, Stops, Idle, WithRow, Ended
<1> QED BY <1>1, <1>2 DEF JobsOK, Stops

\* One that is taken up is of the kind its first step needs.
LEMMA JobStarts ==
  ASSUME JobsOK,
         NEW w \in Workers, NEW a \in Accounts, NEW pc \in Pcs, NEW id \in 0..LastId,
         NEW t \in Tokens \cup {Blank, None}, Starts(w, a, pc, id, t), pc # "idle",
         pc \in {"insertId", "loginModify", "cache", "statusDelete", "logoutDelete",
                 "modifyUpdate", "modifyModify"} => t \in Tokens /\ owner[t] # None,
         pc \in WithRow \cup Ended \cup {"loginModify"} => id \in 1..LastId
  PROVE  JobsOK'
<1>0. /\ work' \in [Workers -> Jobs] /\ \A v \in Workers : v # w => work'[v] = work[v]
      /\ work'[w].pc = pc /\ work'[w].account = a /\ work'[w].id = id /\ work'[w].token = t
      /\ UNCHANGED owner
  BY StartsFields DEF Starts
<1>1. ASSUME NEW v \in Workers, v # w
      PROVE  JobOK(v)'
  <2>1. JobOK(v) /\ work'[v] = work[v]
    BY <1>0, <1>1 DEF JobsOK
  <2> QED BY <1>0, <2>1 DEF JobOK
<1>2. JobOK(w)'
  <2>1. work'[w] # Idle /\ a # None
    BY <1>0, SessionAssumption DEF Idle
  <2> QED BY <1>0, <2>1 DEF JobOK
<1> QED BY <1>0, <1>1, <1>2 DEF JobsOK

-----------------------------------------------------------------------------
(* The types.                                                              *)

\* A token stays that of the account it was made for.
LEMMA OwnerGrows ==
  ASSUME TypeInv, [Next]_vars
  PROVE  \A t \in Tokens : owner[t] # None => owner'[t] = owner[t]
<1>1. ASSUME NEW w \in Workers, NEW t \in Tokens, Issue(w, t)
      PROVE  \A u \in Tokens : owner[u] # None => owner'[u] = owner[u]
  BY <1>1 DEF Issue, Unused, TypeInv, CacheOK
<1>2. CASE UNCHANGED owner
  BY <1>2
<1>3. CASE \E w \in Workers : Inserts(w) \/ LoginInserts(w)
  BY <1>1, <1>3 DEF Inserts, LoginInserts
<1>4. ASSUME NEW w \in Workers, Request(w)
      PROVE  UNCHANGED owner
  BY <1>4 DEF Request, Begins, Starts, RegisterCounts, VerifyBeforeCounts, VerifyAfterQueries, LoginSelects,
     DeleteSelects, StatusQueries, LogoutQueries, ModifyQueries, ShowsToken
<1>5. ASSUME NEW w \in Workers, Continue(w)
      PROVE  UNCHANGED owner \/ Inserts(w) \/ LoginInserts(w)
  BY <1>5 DEF Continue, VerifyBeforeInserts, VerifyAfterDeletes, InsertSelects, InsertAsks, RegisterCaches,
     LoginDeletes, LoginModifies, StatusDeletes, LogoutDeletes, LogoutModifies, ModifyUpdates, Modifies, DeleteCaches,
     DeleteRow, StatementFails, history
<1> QED
  BY <1>2, <1>3, <1>4, <1>5 DEF Next, TokenExpires, CodeExpires, Restart, vars, history

\* A new token is nobody's yet, and then the account's.
LEMMA IssueFields ==
  ASSUME TypeInv, NEW w \in Workers, work[w].account \in Accounts, NEW t \in Tokens, Issue(w, t)
  PROVE  /\ owner' \in [Tokens -> Accounts \cup {None}] /\ owner[t] = None /\ owner'[t] = work[w].account
         /\ \A u \in Tokens : u # t => owner'[u] = owner[u]
         /\ owner'[t] # None /\ t \notin Live
BY SessionAssumption DEF Issue, Unused, TypeInv, CacheOK

\* A request for an account comes to its first step with nothing in hand, with a
\* row, or with a token that a client was told.  If it does not cross a deletion
\* and its client is patient, nobody else is at the account.
Taken(w, a, pc, id, t) ==
  /\ Starts(w, a, pc, id, t)
  /\ crossed' \in {crossed, crossed \cup {a}}
  /\ Patient /\ a \notin crossed' => ~ Busy(a)
  /\ \/ pc \in {"insertSelect", "codeInsert", "codeDelete"} /\ id = 0 /\ t = None
     \/ pc \in {"loginDelete", "deleteCache"} /\ \E r \in Rows(a) : r.id = id /\ r.token = t
     \/ /\ pc \in {"statusDelete", "logoutDelete", "modifyUpdate"}
        /\ t \in Live /\ owner[t] = a /\ t \in told[a] /\ id = tokenCache[t].id

First == {"codeInsert", "codeDelete", "insertSelect", "loginDelete", "deleteCache", "statusDelete",
          "logoutDelete", "modifyUpdate"}

LEMMA RequestTaken ==
  ASSUME TypeInv, NEW w \in Workers, Request(w)
  PROVE  \E a \in Accounts, pc \in First, id \in 0..LastId, t \in Tokens \cup {Blank, None} : Taken(w, a, pc, id, t)
<1>1. LastId \in Nat /\ UserOK /\ CacheOK
  BY SessionAssumption DEF TypeInv
<1>2. ASSUME NEW a \in Accounts, NEW pc, NEW id, NEW t, Begins(w, a, pc, id, t)
      PROVE  /\ Starts(w, a, pc, id, t) /\ crossed' \in {crossed, crossed \cup {a}}
             /\ Patient /\ a \notin crossed' => ~ Busy(a)
  BY <1>2 DEF Begins, Busy, Serving, Deleting
<1>3. ASSUME NEW a \in Accounts, RegisterCounts(w, a) \/ VerifyBeforeCounts(w, a) \/ VerifyAfterQueries(w, a)
      PROVE  \E pc \in First : Taken(w, a, pc, 0, None)
  <2>1. \E pc \in {"insertSelect", "codeInsert", "codeDelete"} : Begins(w, a, pc, 0, None)
    BY <1>3 DEF RegisterCounts, VerifyBeforeCounts, VerifyAfterQueries
  <2> QED BY <1>2, <2>1 DEF Taken, First
<1>4. ASSUME NEW a \in Accounts, LoginSelects(w, a)
      PROVE  \E pc \in First, r \in Rows(a) : Taken(w, a, pc, r.id, r.token)
  <2>1. \E r \in Rows(a) : Begins(w, a, "loginDelete", r.id, r.token)
    BY <1>4 DEF LoginSelects
  <2> QED BY <1>2, <2>1 DEF Taken, First
<1>5. ASSUME NEW a \in Accounts, DeleteSelects(w, a)
      PROVE  \E pc \in First, r \in Rows(a) : Taken(w, a, pc, r.id, r.token)
  <2>1. \E r \in Rows(a) : /\ Starts(w, a, "deleteCache", r.id, r.token)
                           /\ crossed' = IF Busy(a) THEN crossed \cup {a} ELSE crossed
    BY <1>5 DEF DeleteSelects
  <2> QED BY <2>1 DEF Taken, First
<1>6. ASSUME NEW t \in Tokens, StatusQueries(w, t) \/ LogoutQueries(w, t) \/ ModifyQueries(w, t)
      PROVE  \E pc \in First : Taken(w, owner[t], pc, tokenCache[t].id, t) /\ t \in Live
  <2>1. /\ t \in Live /\ owner[t] # None /\ t \in told[owner[t]]
        /\ \E pc \in {"statusDelete", "logoutDelete", "modifyUpdate"} :
             Begins(w, owner[t], pc, tokenCache[t].id, t)
    BY <1>6 DEF StatusQueries, LogoutQueries, ModifyQueries, ShowsToken
  <2>2. owner[t] \in Accounts
    BY <1>1, <2>1 DEF CacheOK
  <2> QED BY <1>2, <2>1, <2>2 DEF Taken, First
<1>7. \A a \in Accounts : \A r \in Rows(a) : r.id \in 0..LastId /\ r.token \in Tokens \cup {Blank, None}
  BY <1>1 DEF UserOK, Rows
<1>8. \A t \in Live : t \in Tokens \cup {Blank, None} /\ tokenCache[t].id \in 0..LastId /\ owner[t] \in Accounts
  BY <1>1 DEF CacheOK
<1>9. 0 \in 0..LastId /\ None \in Tokens \cup {Blank, None}
  BY <1>1
<1>10. CASE \E a \in Accounts : RegisterCounts(w, a) \/ VerifyBeforeCounts(w, a) \/ VerifyAfterQueries(w, a)
  BY <1>3, <1>9, <1>10
<1>11. CASE \E a \in Accounts : LoginSelects(w, a) \/ DeleteSelects(w, a)
  BY <1>4, <1>5, <1>7, <1>11
<1>12. CASE \E t \in Tokens : StatusQueries(w, t) \/ LogoutQueries(w, t) \/ ModifyQueries(w, t)
  BY <1>6, <1>8, <1>12
<1> QED BY <1>10, <1>11, <1>12 DEF Request

\* A request is taken up.
LEMMA TypeRequest ==
  ASSUME TypeInv, NEW w \in Workers, Request(w)
  PROVE  TypeInv'
<1>1. LastId \in Nat /\ UserOK /\ CacheOK /\ JobsOK
  BY SessionAssumption DEF TypeInv
<1>2. PICK a \in Accounts, pc \in First, id \in 0..LastId, t \in Tokens \cup {Blank, None} : Taken(w, a, pc, id, t)
  BY RequestTaken
<1>3. Starts(w, a, pc, id, t) /\ crossed' \subseteq Accounts
  BY <1>2 DEF Taken, TypeInv
<1>4. pc \in {"statusDelete", "logoutDelete", "modifyUpdate"} => t \in Tokens /\ owner[t] # None
  BY <1>1, <1>2 DEF Taken, CacheOK
<1>5. pc \in WithRow => id \in 1..LastId
  <2>1. \A r \in Rows(a) : r.id \in 1..LastId
    BY <1>1 DEF UserOK, Rows
  <2>2. t \in Live => tokenCache[t].id \in 1..LastId
    BY <1>1 DEF CacheOK
  <2> QED BY <1>2, <2>1, <2>2 DEF Taken, WithRow
<1>6. pc \in Pcs /\ pc \notin {"idle", "insertId", "loginModify", "cache"} \cup Ended
  BY DEF First, Pcs, WithRow, Ended
<1>7. JobsOK'
  <2>1. pc \in {"insertId", "loginModify", "cache", "statusDelete", "logoutDelete",
               "modifyUpdate", "modifyModify"} => t \in Tokens /\ owner[t] # None
    BY <1>4 DEF First
  <2>2. pc \in WithRow \cup Ended \cup {"loginModify"} => id \in 1..LastId
    BY <1>5, <1>6
  <2>3. pc \in Pcs /\ pc # "idle"
    BY <1>6
  <2> QED BY ONLY <1>1, <1>3, <2>1, <2>2, <2>3, JobStarts, w \in Workers, a \in Accounts, id \in 0..LastId,
                  t \in Tokens \cup {Blank, None}
<1>8. UNCHANGED <<user, nextId, tokenCache, commonCache, owner, told, failed>>
  BY <1>3 DEF Starts, caches
<1> QED BY <1>1, <1>3, <1>7, <1>8 DEF TypeInv, UserOK, CacheOK, Live

\* Only a request crosses a deletion.
LEMMA CrossedKept ==
  ASSUME \/ \E w \in Workers : Continue(w)
         \/ Restart \/ (\E t \in Tokens : TokenExpires(t)) \/ (\E a \in Accounts : CodeExpires(a))
  PROVE  UNCHANGED crossed
BY DEF Continue, VerifyBeforeInserts, VerifyAfterDeletes, InsertSelects, Inserts, InsertAsks, RegisterCaches,
   LoginDeletes, LoginInserts, LoginModifies, StatusDeletes, LogoutDeletes, LogoutModifies, ModifyUpdates, Modifies,
   DeleteCaches, DeleteRow, StatementFails, TokenExpires, CodeExpires, Restart, history

\* The id a service asks for is that of a row.
LEMMA AskedId ==
  ASSUME UserOK, NEW rows \in SUBSET user, rows # {}
  PROVE  \E r \in rows : Min({q.id : q \in rows}) = r.id
<1> DEFINE S == {q.id : q \in rows}
<1>1. S \in SUBSET Nat /\ S # {}
  BY SessionAssumption DEF UserOK
<1> HIDE DEF S
<1>2. Min(S) \in S
  BY <1>1, MinIsLeast
<1> QED BY <1>2 DEF S

\* A worker goes on with its request.
LEMMA TypeContinue ==
  ASSUME TypeInv, [Next]_vars, NEW w \in Workers, Continue(w)
  PROVE  TypeInv'
<1>1. /\ LastId \in Nat /\ UserOK /\ CacheOK /\ JobsOK /\ told \in [Accounts -> SUBSET Tokens]
      /\ failed \subseteq Accounts /\ crossed' \subseteq Accounts
  BY SessionAssumption, CrossedKept DEF TypeInv
<1>2. /\ work[w] \in Jobs /\ JobOK(w)
      /\ \A t \in Tokens : owner[t] # None => owner'[t] = owner[t]
  BY <1>1, OwnerGrows DEF JobsOK
<1>a. ASSUME UNCHANGED <<user, nextId>> PROVE UserOK'
  BY <1>1, <1>a DEF UserOK
<1>b. ASSUME UNCHANGED <<caches, owner>> PROVE CacheOK'
  BY <1>1, <1>b DEF CacheOK, caches, Live
<1>c. ASSUME NEW t, CacheDelete(t), UNCHANGED <<commonCache, owner>> PROVE CacheOK'
  <2>1. /\ Live' = Live \ {t} /\ \A u \in Live' : tokenCache'[u] = tokenCache[u]
        /\ tokenCache' = [u \in Live' |-> tokenCache'[u]]
    BY <1>c, CacheDeleteFields
  <2> QED BY <1>1, <1>c, <2>1 DEF CacheOK
<1>d. ASSUME NEW t, Withdraw(t) PROVE told' \in [Accounts -> SUBSET Tokens]
  BY <1>1, <1>d DEF Withdraw
<1>e. ASSUME NEW a \in Accounts, NEW t \in Tokens, Answer(a, t) PROVE told' \in [Accounts -> SUBSET Tokens]
  BY <1>1, <1>e DEF Answer
<1>f. ASSUME NEW t \in Tokens, NEW id \in 1..LastId, CacheToken(t, id), UNCHANGED commonCache,
             owner' \in [Tokens -> Accounts \cup {None}], owner'[t] # None,
             \A u \in Tokens : u # t => owner'[u] = owner[u]
      PROVE  CacheOK'
  <2>1. /\ Live' = Live \cup {t} /\ tokenCache' = [u \in Live' |-> tokenCache'[u]]
        /\ tokenCache'[t] = [id |-> id, fresh |-> TRUE]
        /\ \A u \in Live : u # t => tokenCache'[u] = tokenCache[u]
    BY <1>f, CacheTokenFields
  <2>2. ASSUME NEW u \in Live' PROVE tokenCache'[u] \in [id : 1..LastId, fresh : BOOLEAN]
    <3>1. CASE u = t
      <4>1. [id |-> id, fresh |-> TRUE] \in [id : 1..LastId, fresh : BOOLEAN]
        OBVIOUS
      <4>2. tokenCache'[u] = [id |-> id, fresh |-> TRUE]
        BY <2>1, <3>1
      <4> QED BY ONLY <4>1, <4>2
    <3>2. CASE u # t
      <4>1. u \in Live /\ tokenCache'[u] = tokenCache[u]
        BY <2>1, <3>2
      <4> QED BY <1>1, <4>1 DEF CacheOK
    <3> QED BY <3>1, <3>2
  <2>3. tokenCache' \in [Live' -> [id : 1..LastId, fresh : BOOLEAN]]
    BY <2>1, <2>2
  <2>4. Live' \subseteq Tokens
    BY <1>1, <2>1 DEF CacheOK
  <2>5. ASSUME NEW u \in Live' PROVE owner'[u] # None
    <3>1. CASE u = t
      BY <1>f, <3>1
    <3>2. CASE u # t
      <4>1. u \in Live /\ u \in Tokens /\ owner[u] # None
        BY <1>1, <2>1, <3>2 DEF CacheOK
      <4> QED BY <1>f, <3>2, <4>1
    <3> QED BY <3>1, <3>2
  <2> QED BY <1>1, <1>f, <2>3, <2>4, <2>5 DEF CacheOK
<1>g. ASSUME NEW from, NEW to \in Pcs, Goes(w, from, to), to # "idle", from # "idle",
             to \in {"insertId", "loginModify", "cache", "statusDelete", "logoutDelete",
                     "modifyUpdate", "modifyModify"} => work[w].token \in Tokens /\ owner[work[w].token] # None,
             to \in WithRow \cup Ended \cup {"loginModify"} => work[w].id \in 1..LastId
      PROVE  JobsOK'
  <2>1. work[w].pc = from /\ Moves(w, to)
    BY <1>1, <1>g, GoesFields
  <2> QED BY <1>1, <1>2, <1>g, <2>1, JobMoves
<1>h. ASSUME NEW from, Ends(w, from) PROVE JobsOK' /\ work[w].pc = from
  <2>1. work[w].pc = from /\ Stops(w)
    BY <1>1, <1>h, EndsFields
  <2> QED BY <1>1, <1>2, <2>1, JobStops
<1>3. CASE VerifyBeforeInserts(w)
  <2>1. commonCache' \in [Accounts -> {"none", "fresh", "old"}]
    BY <1>1, <1>3 DEF VerifyBeforeInserts, CacheOK
  <2> QED BY <1>1, <1>3, <1>a, <1>h, <2>1 DEF VerifyBeforeInserts, history, TypeInv, CacheOK, Live
<1>4. CASE VerifyAfterDeletes(w)
  <2>1. commonCache' \in [Accounts -> {"none", "fresh", "old"}]
    BY <1>1, <1>4 DEF VerifyAfterDeletes, CacheOK
  <2>2. JobsOK'
    BY <1>4, <1>g DEF VerifyAfterDeletes, Pcs, WithRow, Ended
  <2> QED BY <1>1, <1>4, <1>a, <2>1, <2>2 DEF VerifyAfterDeletes, history, TypeInv, CacheOK, Live
<1>5. CASE InsertSelects(w)
  <2>1. JobsOK'
    BY <1>5, <1>g, <1>h DEF InsertSelects, Pcs, WithRow, Ended
  <2> QED BY <1>1, <1>5, <1>a, <1>b, <2>1 DEF InsertSelects, history, TypeInv
<1>6. CASE Inserts(w)
  <2>1. PICK t \in Tokens :
          /\ work[w].pc = "insert" /\ nextId <= LastId
          /\ Issue(w, t)
          /\ work' = [work EXCEPT ![w].pc = "insertId", ![w].token = t]
          /\ user' = user \cup {[id |-> nextId, account |-> work[w].account, token |-> t]}
          /\ nextId' = nextId + 1
          /\ UNCHANGED <<caches, told, failed>>
    BY <1>6 DEF Inserts
  <2>2. work[w].account \in Accounts
    BY <1>2, <2>1 DEF JobOK, Jobs
  <2>3. /\ owner' \in [Tokens -> Accounts \cup {None}] /\ owner'[t] # None /\ t \notin Live
        /\ \A u \in Tokens : u # t => owner'[u] = owner[u]
    BY <2>1, <2>2, IssueFields
  <2>4. UserOK'
    BY <1>1, <2>1, <2>2 DEF UserOK
  <2>5. CacheOK'
    BY <1>1, <2>1, <2>3 DEF CacheOK, caches, Live
  <2>6. /\ work' \in [Workers -> Jobs] /\ \A v \in Workers : v # w => work'[v] = work[v]
        /\ work'[w].pc = "insertId" /\ work'[w].account = work[w].account /\ work'[w].token = t
    <3>1. work \in [Workers -> Jobs] /\ work' = [work EXCEPT ![w].pc = "insertId", ![w].token = t] /\ "insertId" \in Pcs
      BY <1>1, <2>1 DEF JobsOK, Pcs
    <3> QED BY ONLY <3>1, t \in Tokens, w \in Workers DEF Jobs
  <2>7. ASSUME NEW v \in Workers PROVE JobOK(v)'
    <3>1. CASE v = w
      BY <2>2, <2>3, <2>6, <3>1, SessionAssumption DEF JobOK, Idle, WithRow, Ended
    <3>2. CASE v # w
      <4>1. JobOK(v) /\ work'[v] = work[v]
        BY <1>1, <2>6, <3>2 DEF JobsOK
      <4> QED BY <1>2, <4>1 DEF JobOK
    <3> QED BY <3>1, <3>2
  <2> QED BY <1>1, <2>1, <2>4, <2>5, <2>6, <2>7 DEF TypeInv, JobsOK
<1>7. CASE InsertAsks(w)
  <2>1. CASE Rows(work[w].account) = {}
    BY <1>1, <1>7, <1>a, <1>b, <1>h, <2>1 DEF InsertAsks, history, TypeInv
  <2>2. CASE Rows(work[w].account) # {}
    <3> DEFINE rows == Rows(work[w].account)
               i == Min({r.id : r \in rows})
    <3>1. work[w].pc = "insertId" /\ work' = [work EXCEPT ![w].pc = "cache", ![w].id = i]
      BY <1>7, <2>2 DEF InsertAsks
    <3>2. i \in 1..LastId
      <4>1. rows \in SUBSET user /\ \A r \in user : r.id \in 1..LastId
        BY <1>1 DEF Rows, UserOK
      <4> HIDE DEF rows
      <4>2. \E r \in rows : i = r.id
        BY <1>1, <2>2, <4>1, AskedId DEF rows
      <4> QED BY <4>1, <4>2
    <3> HIDE DEF i
    <3>3. /\ work' \in [Workers -> Jobs] /\ \A v \in Workers : v # w => work'[v] = work[v]
          /\ work'[w].pc = "cache" /\ work'[w].account = work[w].account /\ work'[w].token = work[w].token
          /\ work'[w].id = i
      <4>1. work \in [Workers -> Jobs] /\ "cache" \in Pcs /\ i \in 0..LastId
        BY <1>1, <3>2 DEF JobsOK, Pcs, WithRow
      <4> QED BY ONLY <3>1, <4>1, w \in Workers DEF Jobs
    <3>4. ASSUME NEW v \in Workers PROVE JobOK(v)'
      <4>1. CASE v = w
        <5>1. work[w].account # None /\ work[w].token \in Tokens /\ owner[work[w].token] # None
          BY <1>2, <3>1 DEF JobOK
        <5>2. work'[w].pc # "idle" /\ work'[w] # Idle
          BY <3>3 DEF Idle
        <5> QED BY <1>2, <3>2, <3>3, <4>1, <5>1, <5>2 DEF JobOK
      <4>2. CASE v # w
        <5>1. JobOK(v) /\ work'[v] = work[v]
          BY <1>1, <3>3, <4>2 DEF JobsOK
        <5> QED BY <1>2, <5>1 DEF JobOK
      <4> QED BY <4>1, <4>2
    <3> QED BY <1>1, <1>7, <1>a, <1>b, <3>3, <3>4 DEF InsertAsks, history, TypeInv, JobsOK
  <2> QED BY <2>1, <2>2
<1>8. CASE RegisterCaches(w)
  <2>1. /\ Ends(w, "cache") /\ CacheToken(work[w].token, work[w].id) /\ Answer(work[w].account, work[w].token)
        /\ UNCHANGED <<user, nextId, commonCache, owner, failed, crossed>>
    BY <1>8 DEF RegisterCaches
  <2>2. JobsOK' /\ work[w].pc = "cache"
    BY <1>h, <2>1
  <2>3. /\ work[w].token \in Tokens /\ work[w].id \in 1..LastId /\ work[w].account \in Accounts
        /\ owner[work[w].token] # None
    BY <1>2, <2>2 DEF JobOK, Jobs, WithRow
  <2>4. CacheOK'
    <3>1. owner' = owner /\ commonCache' = commonCache /\ CacheToken(work[w].token, work[w].id)
      BY <2>1
    <3>2. owner \in [Tokens -> Accounts \cup {None}]
      BY <1>1 DEF CacheOK
    <3> QED BY <1>f, <2>3, <3>1, <3>2
  <2> QED BY <1>1, <1>a, <1>e, <2>1, <2>2, <2>3, <2>4 DEF TypeInv
<1>9. CASE LoginDeletes(w)
  <2>1. /\ Goes(w, "loginDelete", "loginInsert") /\ CacheDelete(work[w].token) /\ Withdraw(work[w].token)
        /\ UNCHANGED <<user, nextId, commonCache, owner, failed, crossed>>
    BY <1>9 DEF LoginDeletes
  <2>2. work[w].id \in 1..LastId
    BY <1>2, <2>1 DEF Goes, JobOK, WithRow
  <2>3. JobsOK'
    BY <1>g, <2>1, <2>2 DEF Pcs, WithRow, Ended
  <2> QED BY <1>1, <1>a, <1>c, <1>d, <2>1, <2>3 DEF TypeInv
<1>10. CASE LoginInserts(w)
  <2>1. PICK t \in Tokens :
          /\ work[w].pc = "loginInsert"
          /\ Issue(w, t)
          /\ work' = [work EXCEPT ![w].pc = "loginModify", ![w].token = t]
          /\ CacheToken(t, work[w].id)
          /\ UNCHANGED <<user, nextId, commonCache, told, failed>>
    BY <1>10 DEF LoginInserts
  <2>2. work[w].account \in Accounts /\ work[w].id \in 1..LastId
    BY <1>2, <2>1 DEF JobOK, Jobs, Ended
  <2>3. /\ owner' \in [Tokens -> Accounts \cup {None}] /\ owner'[t] # None
        /\ \A u \in Tokens : u # t => owner'[u] = owner[u]
    BY <2>1, <2>2, IssueFields
  <2>5. CacheOK'
    BY <1>f, <2>1, <2>2, <2>3
  <2>6. /\ work' \in [Workers -> Jobs] /\ \A v \in Workers : v # w => work'[v] = work[v]
        /\ work'[w].pc = "loginModify" /\ work'[w].account = work[w].account /\ work'[w].token = t
        /\ work'[w].id = work[w].id
    <3>1. work \in [Workers -> Jobs] /\ work' = [work EXCEPT ![w].pc = "loginModify", ![w].token = t] /\ "loginModify" \in Pcs
      BY <1>1, <2>1 DEF JobsOK, Pcs
    <3> QED BY ONLY <3>1, t \in Tokens, w \in Workers DEF Jobs
  <2>7. ASSUME NEW v \in Workers PROVE JobOK(v)'
    <3>1. CASE v = w
      BY <2>2, <2>3, <2>6, <3>1, SessionAssumption DEF JobOK, Idle
    <3>2. CASE v # w
      <4>1. JobOK(v) /\ work'[v] = work[v]
        BY <1>1, <2>6, <3>2 DEF JobsOK
      <4> QED BY <1>2, <4>1 DEF JobOK
    <3> QED BY <3>1, <3>2
  <2> QED BY <1>1, <1>a, <2>1, <2>5, <2>6, <2>7 DEF TypeInv, JobsOK
<1>11. CASE LoginModifies(w)
  <2>1. /\ Ends(w, "loginModify") /\ SetToken(work[w].id, work[w].token)
        /\ Answer(work[w].account, work[w].token) \/ UNCHANGED told
        /\ UNCHANGED <<nextId, caches, owner, failed, crossed>>
    BY <1>11 DEF LoginModifies
  <2>2. JobsOK' /\ work[w].pc = "loginModify"
    BY <1>h, <2>1
  <2>3. work[w].token \in Tokens /\ work[w].account \in Accounts
    BY <1>2, <2>2 DEF JobOK, Jobs
  <2>4. UserOK'
    BY <1>1, <2>1, <2>3, SetTokenOK
  <2> QED BY <1>1, <1>b, <1>e, <2>1, <2>2, <2>3, <2>4 DEF TypeInv
<1>12. CASE StatusDeletes(w)
  BY <1>1, <1>12, <1>a, <1>c, <1>d, <1>h DEF StatusDeletes, TypeInv
<1>13. CASE LogoutDeletes(w)
  <2>1. /\ Goes(w, "logoutDelete", "logoutModify") /\ CacheDelete(work[w].token) /\ Withdraw(work[w].token)
        /\ UNCHANGED <<user, nextId, commonCache, owner, failed, crossed>>
    BY <1>13 DEF LogoutDeletes
  <2>2. work[w].id \in 1..LastId
    BY <1>2, <2>1 DEF Goes, JobOK, WithRow
  <2>3. JobsOK'
    BY <1>g, <2>1, <2>2 DEF Pcs, WithRow, Ended
  <2> QED BY <1>1, <1>a, <1>c, <1>d, <2>1, <2>3 DEF TypeInv
<1>14. CASE LogoutModifies(w)
  <2>1. Ends(w, "logoutModify") /\ SetToken(work[w].id, Blank) /\ UNCHANGED <<nextId, caches, history>>
    BY <1>14 DEF LogoutModifies
  <2>2. UserOK'
    BY <1>1, <2>1, SetTokenOK
  <2> QED BY <1>1, <1>b, <1>h, <2>1, <2>2 DEF history, TypeInv
<1>15. CASE ModifyUpdates(w)
  <2>1. /\ Goes(w, "modifyUpdate", "modifyModify")
        /\ tokenCache' = [u \in Live |-> IF u = work[w].token THEN [tokenCache[u] EXCEPT !.fresh = TRUE] ELSE tokenCache[u]]
        /\ UNCHANGED <<user, nextId, commonCache, history>>
    BY <1>15 DEF ModifyUpdates
  <2>2. work[w].id \in 1..LastId /\ work[w].token \in Tokens /\ owner[work[w].token] # None
    BY <1>2, <2>1 DEF Goes, JobOK, WithRow
  <2>3. JobsOK'
    BY <1>g, <2>1, <2>2 DEF Pcs, WithRow, Ended
  <2>4. Live' = Live
    BY <2>1 DEF Live
  <2>5. tokenCache' \in [Live -> [id : 1..LastId, fresh : BOOLEAN]]
    BY <1>1, <2>1 DEF CacheOK
  <2>6. CacheOK'
    BY <1>1, <2>1, <2>4, <2>5 DEF CacheOK, history
  <2> QED BY <1>1, <1>a, <2>1, <2>3, <2>6 DEF history, TypeInv
<1>16. CASE Modifies(w)
  <2>1. Ends(w, "modifyModify") /\ SetToken(work[w].id, work[w].token) /\ UNCHANGED <<nextId, caches, history>>
    BY <1>16 DEF Modifies
  <2>2. JobsOK' /\ work[w].pc = "modifyModify"
    BY <1>h, <2>1
  <2>3. work[w].token \in Tokens
    BY <1>2, <2>2 DEF JobOK
  <2>4. UserOK'
    BY <1>1, <2>1, <2>3, SetTokenOK
  <2> QED BY <1>1, <1>b, <2>1, <2>2, <2>4 DEF history, TypeInv
<1>17. CASE DeleteCaches(w)
  <2>1. /\ Goes(w, "deleteCache", "deleteRow") /\ CacheDelete(work[w].token) /\ Withdraw(work[w].token)
        /\ UNCHANGED <<user, nextId, commonCache, owner, failed, crossed>>
    BY <1>17 DEF DeleteCaches
  <2>2. work[w].id \in 1..LastId
    BY <1>2, <2>1 DEF Goes, JobOK, WithRow
  <2>3. JobsOK'
    BY <1>g, <2>1, <2>2 DEF Pcs, WithRow, Ended
  <2> QED BY <1>1, <1>a, <1>c, <1>d, <2>1, <2>3 DEF TypeInv
<1>18. CASE DeleteRow(w)
  <2>1. UserOK'
    BY <1>1, <1>18 DEF DeleteRow, UserOK
  <2> QED BY <1>1, <1>18, <1>b, <1>h, <2>1 DEF DeleteRow, history, TypeInv
<1>19. CASE StatementFails(w)
  <2>1. /\ \E s \in Statements : Ends(w, s)
        /\ failed' = IF work[w].pc = "loginModify" THEN failed \cup {work[w].account} ELSE failed
        /\ UNCHANGED <<user, nextId, caches, owner, told>>
    BY <1>19 DEF StatementFails
  <2>2. JobsOK'
    BY <1>h, <2>1
  <2>3. failed' \subseteq Accounts
    BY <1>1, <1>2, <2>1 DEF JobOK, Jobs
  <2> QED BY <1>1, <1>a, <1>b, <2>1, <2>2, <2>3 DEF TypeInv
<1> QED BY <1>3, <1>4, <1>5, <1>6, <1>7, <1>8, <1>9, <1>10, <1>11, <1>12, <1>13, <1>14, <1>15, <1>16, <1>17,
           <1>18, <1>19 DEF Continue

\* Time passes or the server is started again.
LEMMA TypeTime ==
  ASSUME TypeInv, Restart \/ (\E t \in Tokens : TokenExpires(t)) \/ (\E a \in Accounts : CodeExpires(a))
  PROVE  TypeInv'
<1>1. /\ LastId \in Nat /\ UserOK /\ CacheOK /\ JobsOK /\ told \in [Accounts -> SUBSET Tokens]
      /\ failed \subseteq Accounts /\ crossed' \subseteq Accounts
  BY SessionAssumption, CrossedKept DEF TypeInv
<1>2. CASE Restart
  <2>1. Idle \in Jobs /\ Idle.pc = "idle" /\ Idle.account = None
    BY <1>1 DEF Idle, Jobs, Pcs
  <2>2. JobsOK'
    <3>1. work' = [w \in Workers |-> Idle]
      BY <1>2 DEF Restart
    <3> QED BY <2>1, <3>1 DEF JobsOK, JobOK, WithRow, Ended
  <2>3. Live' = {} /\ tokenCache' = [t \in {} |-> Idle]
    BY <1>2 DEF Restart, EmptyCache, Live
  <2>4. CacheOK'
    BY <1>1, <1>2, <2>3 DEF Restart, CacheOK
  <2> QED BY <1>1, <1>2, <2>2, <2>4 DEF Restart, TypeInv, UserOK
<1>3. ASSUME NEW t \in Tokens, TokenExpires(t)
      PROVE  TypeInv'
  <2>1. /\ t \in Live /\ tokenCache' = [tokenCache EXCEPT ![t].fresh = FALSE]
        /\ UNCHANGED <<user, nextId, commonCache, work, owner, told, failed>>
    BY <1>3 DEF TokenExpires, history
  <2>2. tokenCache \in [Live -> [id : 1..LastId, fresh : BOOLEAN]]
    BY <1>1 DEF CacheOK
  <2>3. tokenCache' \in [Live -> [id : 1..LastId, fresh : BOOLEAN]]
    BY ONLY <2>1, <2>2
  <2>4. Live' = Live
    BY <2>3 DEF Live
  <2> QED BY <1>1, <2>1, <2>3, <2>4 DEF TypeInv, UserOK, CacheOK, JobsOK, JobOK
<1>4. ASSUME NEW a \in Accounts, CodeExpires(a)
      PROVE  TypeInv'
  BY <1>1, <1>4 DEF CodeExpires, history, TypeInv, UserOK, CacheOK, JobsOK, JobOK, Live
<1> QED BY <1>2, <1>3, <1>4

\* Every step keeps the types, ...
LEMMA TypeNext ==
  ASSUME TypeInv, [Next]_vars
  PROVE  TypeInv'
<1>1. CASE UNCHANGED vars
  BY <1>1 DEF vars, caches, history, TypeInv, UserOK, CacheOK, JobsOK, JobOK, Live
<1> QED BY <1>1, TypeRequest, TypeContinue, TypeTime DEF Next

\* ... which hold from the start.
LEMMA TypeAlways == Spec => []TypeInv
<1>1. Init => TypeInv
  <2> SUFFICES ASSUME Init PROVE TypeInv
    OBVIOUS
  <2>0. LastId \in Nat
    BY SessionAssumption
  <2>1. Idle \in Jobs /\ Idle.pc = "idle" /\ Idle.account = None
    BY <2>0 DEF Idle, Jobs, Pcs
  <2>2. JobsOK
    <3>1. work = [w \in Workers |-> Idle]
      BY DEF Init
    <3> QED BY <2>1, <3>1 DEF JobsOK, JobOK, WithRow, Ended
  <2>3. Live = {} /\ tokenCache = [t \in {} |-> Idle]
    BY DEF Init, EmptyCache, Live
  <2>4. CacheOK
    BY <2>3 DEF Init, CacheOK
  <2> QED BY <2>0, <2>2, <2>4 DEF Init, TypeInv, UserOK
<1>2. TypeInv /\ [Next]_vars => TypeInv'
  BY TypeNext
<1> QED BY <1>1, <1>2, PTL DEF Spec

\* The types, for whatever requests overlap.
THEOREM TypeCorrect == Spec => []TypeOK
<1>1. TypeInv => TypeOK
  BY DEF TypeInv, TypeOK, UserOK, CacheOK, JobsOK, Jobs
<1> QED BY <1>1, TypeAlways, PTL

-----------------------------------------------------------------------------
(* What a worker has in hand is of its account.                            *)

\* A step of another account leaves this one as it is.
Apart(b) ==
  /\ Rows(b)' = Rows(b) /\ told'[b] = told[b] /\ LiveOf(b)' = LiveOf(b)
  /\ \A t \in LiveOf(b) : tokenCache'[t].id = tokenCache[t].id
  /\ b \in failed' <=> b \in failed

\* ... its rows, what its client was told, and its live tokens.
RowsApart(b) == Rows(b)' = Rows(b)
ToldApart(b) == told'[b] = told[b]
LiveApart(b) == LiveOf(b)' = LiveOf(b) /\ \A t \in LiveOf(b) : tokenCache'[t].id = tokenCache[t].id

\* Rows keep their ids and accounts, and a new one has a new id, ...
LEMMA TableGrows ==
  ASSUME TypeInv, [Next]_vars
  PROVE  /\ nextId' >= nextId
         /\ \A r \in user' : (\E q \in user : r.id = q.id /\ r.account = q.account) \/ r.id >= nextId
<1>1. UserOK /\ nextId \in Nat /\ JobsOK
  BY SessionAssumption DEF TypeInv, UserOK
<1>2. CASE UNCHANGED <<user, nextId>>
  BY <1>1, <1>2
<1>3. CASE \E w \in Workers : Inserts(w)
  <2>1. nextId' = nextId + 1 /\ \E w \in Workers, t \in Tokens :
          user' = user \cup {[id |-> nextId, account |-> work[w].account, token |-> t]}
    BY <1>3 DEF Inserts
  <2> QED BY <1>1, <2>1
<1>4. ASSUME NEW w \in Workers, LoginModifies(w) \/ LogoutModifies(w) \/ Modifies(w)
      PROVE  /\ nextId' >= nextId
             /\ \A r \in user' : \E q \in user : r.id = q.id /\ r.account = q.account
  <2>1. nextId' = nextId /\ \E t \in {work[w].token, Blank} : SetToken(work[w].id, t)
    BY <1>4 DEF LoginModifies, LogoutModifies, Modifies
  <2>2. PICK t \in {work[w].token, Blank} : SetToken(work[w].id, t)
    BY <2>1
  <2> DEFINE g(q) == [q EXCEPT !.token = t]
  <2>3. \A q \in user : g(q).id = q.id /\ g(q).account = q.account
    BY <1>1 DEF UserOK
  <2>4. user' = {IF q.id = work[w].id THEN g(q) ELSE q : q \in user}
    BY <2>2 DEF SetToken
  <2> HIDE DEF g
  <2>5. \A r \in user' : \E q \in user : r.id = q.id /\ r.account = q.account
    BY <2>3, <2>4
  <2> QED BY <1>1, <2>1, <2>5
<1>5. CASE \E w \in Workers : DeleteRow(w)
  BY <1>1, <1>5 DEF DeleteRow
<1>6. CASE UNCHANGED vars
  BY <1>2, <1>6 DEF vars
<1>7. ASSUME NEW w \in Workers, Request(w)
      PROVE  UNCHANGED <<user, nextId>>
  BY <1>7 DEF Request, Begins, Starts, RegisterCounts, VerifyBeforeCounts, VerifyAfterQueries, LoginSelects,
     DeleteSelects, StatusQueries, LogoutQueries, ModifyQueries, ShowsToken
<1>8. ASSUME NEW w \in Workers, Continue(w)
      PROVE  \/ UNCHANGED <<user, nextId>> \/ Inserts(w) \/ DeleteRow(w)
             \/ LoginModifies(w) \/ LogoutModifies(w) \/ Modifies(w)
  BY <1>8 DEF Continue, VerifyBeforeInserts, VerifyAfterDeletes, InsertSelects, InsertAsks, RegisterCaches,
     LoginDeletes, LoginInserts, StatusDeletes, LogoutDeletes, ModifyUpdates, DeleteCaches, StatementFails
<1> QED
  BY <1>2, <1>3, <1>4, <1>5, <1>6, <1>7, <1>8 DEF Next, TokenExpires, CodeExpires, Restart

\* ... so that an id in hand stays of its account.
FitsNext(id, a) == id < nextId' /\ \A r \in user' : r.id = id => r.account = a

LEMMA FitsKept ==
  ASSUME TypeInv, [Next]_vars, NEW id \in Nat, NEW a, Fits(id, a)
  PROVE  FitsNext(id, a)
<1>1. nextId \in Nat /\ nextId' \in Nat
  BY SessionAssumption, TypeNext DEF TypeInv, UserOK
<1>2. /\ nextId' >= nextId
      /\ \A r \in user' : (\E q \in user : r.id = q.id /\ r.account = q.account) \/ r.id >= nextId
  BY TableGrows
<1> QED BY <1>1, <1>2 DEF Fits, FitsNext

\* The rows ...
LEMMA OwnRowsStep ==
  ASSUME TypeInv, OwnInv, [Next]_vars, NEW w \in Workers, Continue(w)
  PROVE  OwnRows' /\ \A b \in Accounts : b # work[w].account => RowsApart(b)
<1>1. /\ UserOK /\ JobsOK /\ OwnRows /\ \A t \in Tokens : owner[t] # None => owner'[t] = owner[t]
      /\ \A r \in user : r.account \in Accounts /\ r.account # None
  BY SessionAssumption, OwnerGrows DEF TypeInv, OwnInv, UserOK
<1>2. /\ work[w].token \in Tokens => owner[work[w].token] = work[w].account
      /\ \A r \in user : r.id = work[w].id => r.account = work[w].account
  BY DEF OwnInv, OwnWork, Fits
<1>3. CASE UNCHANGED user
  BY <1>1, <1>3 DEF OwnRows, RowsApart, Rows
<1>4. CASE Inserts(w)
  <2>1. PICK t \in Tokens : /\ Issue(w, t) /\ work[w].pc = "insert"
                            /\ user' = user \cup {[id |-> nextId, account |-> work[w].account, token |-> t]}
    BY <1>4 DEF Inserts
  <2>2. work[w].account \in Accounts
    BY <1>1, <2>1 DEF JobsOK, JobOK, Jobs
  <2>3. owner'[t] = work[w].account
    BY <2>1, <2>2, IssueFields
  <2>4. PICK row : row = [id |-> nextId, account |-> work[w].account, token |-> t]
    OBVIOUS
  <2>5. row.account = work[w].account /\ row.token = t /\ user' = user \cup {row}
    BY <2>1, <2>4
  <2>6. OwnRows'
    <3>1. \A r \in user : r.token \in Tokens => owner'[r.token] = r.account
      BY <1>1 DEF OwnRows
    <3> QED BY <2>3, <2>5, <3>1 DEF OwnRows
  <2>7. \A b \in Accounts : b # work[w].account => RowsApart(b)
    BY <2>5 DEF RowsApart, Rows
  <2> QED BY <2>6, <2>7
<1>5. CASE LoginModifies(w) \/ LogoutModifies(w) \/ Modifies(w)
  <2>1. PICK t : SetToken(work[w].id, t) /\ (t = Blank \/ (t = work[w].token /\ t \in Tokens))
    <3>1. CASE LogoutModifies(w)
      BY <3>1 DEF LogoutModifies
    <3>2. CASE LoginModifies(w) \/ Modifies(w)
      <4>1. work[w].pc \in {"loginModify", "modifyModify"} /\ SetToken(work[w].id, work[w].token)
        BY <3>2 DEF LoginModifies, Modifies, Ends
      <4> QED BY <1>1, <4>1 DEF JobsOK, JobOK
    <3> QED BY <1>5, <3>1, <3>2
  <2>2. t \in Tokens => owner[t] = work[w].account
    BY <1>2, <2>1, SessionAssumption
  <2>3. /\ \A r \in user' : \E q \in user : /\ r.id = q.id /\ r.account = q.account
                                            /\ r.id = work[w].id => r.token = t
                                            /\ r.id # work[w].id => r = q
        /\ \A q \in user : q.id # work[w].id => q \in user'
    BY <1>1, <2>1, SetTokenFields
  <2>4. OwnRows'
    <3> SUFFICES ASSUME NEW r \in user', r.token \in Tokens PROVE owner'[r.token] = r.account
      BY DEF OwnRows
    <3>1. PICK q \in user : /\ r.id = q.id /\ r.account = q.account
                            /\ r.id = work[w].id => r.token = t
                            /\ r.id # work[w].id => r = q
      BY <2>3
    <3>2. CASE r.id = work[w].id
      BY <1>1, <1>2, <2>2, <3>1, <3>2
    <3>3. CASE r.id # work[w].id
      BY <1>1, <3>1, <3>3 DEF OwnRows
    <3> QED BY <3>2, <3>3
  <2>5. ASSUME NEW b \in Accounts, b # work[w].account
        PROVE  RowsApart(b)
    <3>1. \A r \in user' : r.account = b => r \in user
      BY <1>2, <2>3, <2>5
    <3>2. \A r \in user : r.account = b => r \in user'
      BY <1>2, <2>3, <2>5
    <3> QED BY <3>1, <3>2 DEF RowsApart, Rows
  <2> QED BY <2>4, <2>5
<1>6. CASE DeleteRow(w)
  <2>1. user' = {r \in user : r.id # work[w].id}
    BY <1>6 DEF DeleteRow
  <2> QED BY <1>1, <1>2, <2>1 DEF OwnRows, RowsApart, Rows
<1> QED
  BY <1>3, <1>4, <1>5, <1>6 DEF Continue, VerifyBeforeInserts, VerifyAfterDeletes, InsertSelects, InsertAsks,
     RegisterCaches, LoginDeletes, LoginInserts, StatusDeletes, LogoutDeletes, ModifyUpdates, DeleteCaches,
     StatementFails

\* ... what the client was told ...
LEMMA OwnToldStep ==
  ASSUME TypeInv, OwnInv, [Next]_vars, NEW w \in Workers, Continue(w)
  PROVE  OwnTold' /\ \A b \in Accounts : b # work[w].account => ToldApart(b)
<1>1. /\ JobsOK /\ OwnTold /\ told \in [Accounts -> SUBSET Tokens] /\ None \notin Accounts
      /\ \A t \in Tokens : owner[t] # None => owner'[t] = owner[t]
  BY SessionAssumption, OwnerGrows DEF TypeInv, OwnInv
<1>2. work[w].token \in Tokens => owner[work[w].token] = work[w].account
  BY DEF OwnInv, OwnWork
<1>0. \A a \in Accounts : \A t \in told[a] : owner[t] = a /\ owner'[t] = a
  <2> SUFFICES ASSUME NEW a \in Accounts, NEW t \in told[a] PROVE owner[t] = a /\ owner'[t] = a
    OBVIOUS
  <2>1. t \in Tokens /\ owner[t] = a /\ a # None
    BY <1>1 DEF OwnTold
  <2> QED BY <1>1, <2>1
<1>3. CASE UNCHANGED told
  BY <1>0, <1>3 DEF OwnTold, ToldApart
<1>4. CASE Withdraw(work[w].token)
  <2>1. \A a \in Accounts : told'[a] = told[a] \ {work[w].token}
    BY <1>4 DEF Withdraw
  <2>2. \A b \in Accounts : b # work[w].account => work[w].token \notin told[b]
    BY <1>0, <1>1, <1>2
  <2> QED BY <1>0, <2>1, <2>2 DEF OwnTold, ToldApart
<1>5. CASE Answer(work[w].account, work[w].token) /\ work[w].pc \in {"cache", "loginModify"}
  <2>1. work[w].token \in Tokens
    BY <1>1, <1>5 DEF JobsOK, JobOK
  <2>2. \A b \in Accounts : told'[b] = IF b = work[w].account THEN told[b] \cup {work[w].token} ELSE told[b]
    BY <1>1, <1>5 DEF Answer
  <2>3. owner'[work[w].token] = work[w].account
    <3>1. work[w].account # None
      BY <1>1, <1>5 DEF JobsOK, JobOK
    <3> QED BY <1>1, <1>2, <2>1, <3>1
  <2>4. OwnTold'
    <3> SUFFICES ASSUME NEW a \in Accounts, NEW t \in told'[a] PROVE owner'[t] = a
      BY DEF OwnTold
    <3>1. t \in told[a] \/ (a = work[w].account /\ t = work[w].token)
      BY <2>2
    <3> QED BY <1>0, <2>3, <3>1
  <2> QED BY <2>2, <2>4 DEF ToldApart
<1> QED
  BY <1>3, <1>4, <1>5 DEF Continue, VerifyBeforeInserts, VerifyAfterDeletes, InsertSelects, Inserts, InsertAsks,
     RegisterCaches, LoginDeletes, LoginInserts, LoginModifies, StatusDeletes, LogoutDeletes, LogoutModifies,
     ModifyUpdates, Modifies, DeleteCaches, DeleteRow, StatementFails, Ends, history

\* ... the sessions ...
LEMMA OwnCacheStep ==
  ASSUME TypeInv, OwnInv, [Next]_vars, NEW w \in Workers, Continue(w)
  PROVE  OwnCache' /\ \A b \in Accounts : b # work[w].account => LiveApart(b)
<1>1. /\ JobsOK /\ CacheOK /\ OwnCache /\ \A t \in Tokens : owner[t] # None => owner'[t] = owner[t]
  BY OwnerGrows DEF TypeInv, OwnInv
<1>2. /\ work[w].token \in Tokens => owner[work[w].token] = work[w].account
      /\ Fits(work[w].id, work[w].account)
  BY DEF OwnInv, OwnWork
<1>3. \A t \in Live : t \in Tokens /\ owner'[t] = owner[t] /\ tokenCache[t].id \in Nat
  BY <1>1, SessionAssumption DEF CacheOK
<1>4. \A t \in Live : FitsNext(tokenCache[t].id, owner[t])
  BY <1>1, <1>3, FitsKept DEF OwnCache
<1>5. work[w].id \in Nat /\ FitsNext(work[w].id, work[w].account)
  BY <1>1, <1>2, FitsKept, SessionAssumption DEF JobsOK, Jobs
<1>6. ASSUME Live' \subseteq Live, \A t \in Live' : tokenCache'[t].id = tokenCache[t].id
      PROVE  OwnCache'
  <2>1. \A t \in Live' : FitsNext(tokenCache'[t].id, owner'[t])
    BY <1>3, <1>4, <1>6
  <2> QED BY <2>1 DEF OwnCache, Fits, FitsNext
<1>7. ASSUME NEW t \in Tokens, CacheToken(t, work[w].id), owner'[t] = work[w].account,
             t \notin Live \/ owner[t] = work[w].account, \A u \in Tokens : u # t => owner'[u] = owner[u]
      PROVE  OwnCache' /\ \A b \in Accounts : b # work[w].account => LiveApart(b)
  <2>0. PICK i : i = work[w].id /\ CacheToken(t, i)
    BY <1>7
  <2>1. /\ Live' = Live \cup {t} /\ tokenCache'[t].id = work[w].id
        /\ \A u \in Live : u # t => tokenCache'[u] = tokenCache[u]
    <3>1. /\ Live' = Live \cup {t} /\ tokenCache'[t] = [id |-> i, fresh |-> TRUE]
          /\ \A u \in Live : u # t => tokenCache'[u] = tokenCache[u]
      BY <2>0, CacheTokenFields
    <3> QED BY <2>0, <3>1
  <2>2. OwnCache'
    <3>1. \A u \in Live' : FitsNext(tokenCache'[u].id, owner'[u])
      BY <1>3, <1>4, <1>5, <1>7, <2>1
    <3> QED BY <3>1 DEF OwnCache, Fits, FitsNext
  <2>3. ASSUME NEW b \in Accounts, b # work[w].account
        PROVE  LiveApart(b)
    <3>1. t \notin LiveOf(b) /\ t \notin LiveOf(b)'
      BY <1>7, <2>3 DEF LiveOf
    <3>2. LiveOf(b)' = LiveOf(b)
      BY <1>3, <2>1, <3>1 DEF LiveOf
    <3>3. \A u \in LiveOf(b) : u \in Live /\ u # t
      BY <3>1 DEF LiveOf
    <3> QED BY <2>1, <3>2, <3>3 DEF LiveApart
  <2> QED BY <2>2, <2>3
<1>8. CASE UNCHANGED tokenCache \/ ModifyUpdates(w)
  <2>1. Live' = Live /\ \A t \in Live : tokenCache'[t].id = tokenCache[t].id
    <3>1. \A t \in Live : tokenCache[t] \in [id : 1..LastId, fresh : BOOLEAN]
      BY <1>1 DEF CacheOK
    <3>2. CASE ModifyUpdates(w)
      <4>1. tokenCache' = [u \in Live |-> IF u = work[w].token THEN [tokenCache[u] EXCEPT !.fresh = TRUE]
                                                               ELSE tokenCache[u]]
        BY <3>2 DEF ModifyUpdates
      <4>2. \A u \in Live : [tokenCache[u] EXCEPT !.fresh = TRUE].id = tokenCache[u].id
        BY <3>1
      <4>3. Live' = Live
        BY <4>1 DEF Live
      <4> QED BY <4>1, <4>2, <4>3
    <3> QED BY <1>8, <3>2 DEF Live
  <2>2. \A b \in Accounts : LiveOf(b)' = LiveOf(b)
    BY <1>3, <2>1 DEF LiveOf
  <2>3. \A b \in Accounts : LiveOf(b) \subseteq Live
    BY DEF LiveOf
  <2> QED BY <1>6, <2>1, <2>2, <2>3 DEF LiveApart
<1>9. CASE CacheDelete(work[w].token)
  <2>1. Live' = Live \ {work[w].token} /\ \A u \in Live' : tokenCache'[u] = tokenCache[u]
    BY <1>9, CacheDeleteFields
  <2>2. ASSUME NEW b \in Accounts, b # work[w].account
        PROVE  LiveApart(b)
    <3>1. work[w].token \notin LiveOf(b)
      BY <1>2, <1>3, <2>2 DEF LiveOf
    <3>2. LiveOf(b)' = LiveOf(b)
      BY <1>3, <2>1, <3>1 DEF LiveOf
    <3>3. \A u \in LiveOf(b) : u \in Live'
      BY <2>1, <3>1 DEF LiveOf
    <3> QED BY <2>1, <3>2, <3>3 DEF LiveApart
  <2> QED BY <1>6, <2>1, <2>2
<1>10. CASE RegisterCaches(w)
  <2>1. work[w].pc = "cache" /\ CacheToken(work[w].token, work[w].id) /\ UNCHANGED owner
    BY <1>10 DEF RegisterCaches, Ends
  <2>2. PICK t \in Tokens : t = work[w].token
    BY <1>1, <2>1 DEF JobsOK, JobOK
  <2> QED BY <1>2, <1>7, <2>1, <2>2
<1>11. CASE LoginInserts(w)
  <2>1. PICK t \in Tokens : work[w].pc = "loginInsert" /\ Issue(w, t) /\ CacheToken(t, work[w].id)
    BY <1>11 DEF LoginInserts
  <2>2. work[w].account \in Accounts
    BY <1>1, <2>1 DEF JobsOK, JobOK, Jobs
  <2>3. owner'[t] = work[w].account /\ t \notin Live /\ \A u \in Tokens : u # t => owner'[u] = owner[u]
    BY <2>1, <2>2, IssueFields
  <2> QED BY <1>7, <2>1, <2>3
<1> QED
  BY <1>8, <1>9, <1>10, <1>11 DEF Continue, VerifyBeforeInserts, VerifyAfterDeletes, InsertSelects, Inserts,
     InsertAsks, LoginDeletes, LoginModifies, StatusDeletes, LogoutDeletes, LogoutModifies, Modifies, DeleteCaches,
     DeleteRow, StatementFails, caches

\* A worker whose next job fits, with the others where they were.
LEMMA OwnWorkers ==
  ASSUME TypeInv, OwnInv, [Next]_vars, NEW w \in Workers, \A v \in Workers : v # w => work'[v] = work[v],
         work'[w].token \in Tokens => owner'[work'[w].token] = work'[w].account,
         FitsNext(work'[w].id, work'[w].account)
  PROVE  OwnWork'
<1>1. JobsOK /\ OwnWork /\ \A t \in Tokens : owner[t] # None => owner'[t] = owner[t]
  BY OwnerGrows DEF TypeInv, OwnInv
<1>2. ASSUME NEW v \in Workers, v # w
      PROVE  /\ work'[v].token \in Tokens => owner'[work'[v].token] = work'[v].account
             /\ FitsNext(work'[v].id, work'[v].account)
  <2>1. /\ work'[v] = work[v] /\ work[v].id \in Nat
        /\ work[v].token \in Tokens => owner[work[v].token] = work[v].account
        /\ Fits(work[v].id, work[v].account)
    BY <1>1, <1>2, SessionAssumption DEF JobsOK, Jobs, OwnWork
  <2>2. FitsNext(work[v].id, work[v].account)
    BY <2>1, FitsKept
  <2>3. work[v].token \in Tokens => work[v].account # None
    BY <1>1, <1>2, SessionAssumption DEF JobsOK, JobOK, Idle
  <2> QED BY <1>1, <2>1, <2>2, <2>3
<1> QED BY <1>2 DEF OwnWork, Fits, FitsNext

\* An idle worker has nothing in hand.
LEMMA IdleFits ==
  ASSUME TypeInv'
  PROVE  FitsNext(0, None) /\ None \notin Tokens
BY SessionAssumption DEF TypeInv, UserOK, FitsNext

\* ... and the worker.
LEMMA OwnWorkStep ==
  ASSUME TypeInv, OwnInv, [Next]_vars, NEW w \in Workers, Continue(w)
  PROVE  /\ OwnWork' /\ \A v \in Workers : v # w => work'[v] = work[v]
         /\ work'[w].account \in {work[w].account, None}
<1>1. /\ JobsOK /\ UserOK /\ \A t \in Tokens : owner[t] # None => owner'[t] = owner[t]
  BY OwnerGrows DEF TypeInv
<1>2. /\ work[w].token \in Tokens => owner[work[w].token] = work[w].account
      /\ Fits(work[w].id, work[w].account) /\ work[w].id \in Nat
  BY <1>1, SessionAssumption DEF OwnInv, OwnWork, JobsOK, Jobs
<1>3. FitsNext(work[w].id, work[w].account)
  BY <1>2, FitsKept
<1>4. work \in [Workers -> Jobs] /\ (work[w].token \in Tokens => work[w].account # None)
  BY <1>1, SessionAssumption DEF JobsOK, JobOK, Idle
<1>5. ASSUME \/ work' = [work EXCEPT ![w] = Idle] \/ \E pc \in Pcs : work' = [work EXCEPT ![w].pc = pc]
      PROVE  /\ OwnWork' /\ \A v \in Workers : v # w => work'[v] = work[v]
             /\ work'[w].account \in {work[w].account, None}
  <2>1. CASE work' = [work EXCEPT ![w] = Idle]
    <3>1. work'[w] = Idle /\ \A v \in Workers : v # w => work'[v] = work[v]
      BY <1>4, <2>1
    <3>2. work'[w].id = 0 /\ work'[w].account = None /\ work'[w].token = None
      BY <3>1 DEF Idle
    <3> QED BY <3>1, <3>2, IdleFits, TypeNext, OwnWorkers
  <2>2. ASSUME NEW pc \in Pcs, work' = [work EXCEPT ![w].pc = pc]
        PROVE  /\ OwnWork' /\ \A v \in Workers : v # w => work'[v] = work[v]
               /\ work'[w].account \in {work[w].account, None}
    <3>1. /\ \A v \in Workers : v # w => work'[v] = work[v]
          /\ work'[w].id = work[w].id /\ work'[w].account = work[w].account /\ work'[w].token = work[w].token
      BY ONLY <1>4, <2>2, w \in Workers DEF Jobs
    <3>2. work'[w].token \in Tokens => owner'[work'[w].token] = work'[w].account
      BY <1>1, <1>2, <1>4, <3>1
    <3>3. FitsNext(work'[w].id, work'[w].account)
      BY <1>3, <3>1
    <3> QED BY <3>1, <3>2, <3>3, OwnWorkers
  <2> QED BY <1>5, <2>1, <2>2
<1>6. CASE Inserts(w) \/ LoginInserts(w)
  <2>1. PICK t \in Tokens, pc \in Pcs : /\ Issue(w, t) /\ work' = [work EXCEPT ![w].pc = pc, ![w].token = t]
                                        /\ work[w].pc \in {"insert", "loginInsert"}
    BY <1>6 DEF Inserts, LoginInserts, Pcs
  <2>2. work[w].account \in Accounts
    BY <1>1, <2>1 DEF JobsOK, JobOK, Jobs
  <2>3. owner'[t] = work[w].account
    BY <2>1, <2>2, IssueFields
  <2>4. /\ \A v \in Workers : v # w => work'[v] = work[v]
        /\ work'[w].id = work[w].id /\ work'[w].account = work[w].account /\ work'[w].token = t
    BY ONLY <1>4, <2>1, w \in Workers DEF Jobs
  <2> QED BY <1>3, <2>3, <2>4, OwnWorkers
<1>7. CASE InsertAsks(w)
  <2>1. CASE Rows(work[w].account) = {}
    BY <1>5, <1>7, <2>1 DEF InsertAsks, Ends
  <2>2. CASE Rows(work[w].account) # {}
    <3>1. PICK i : /\ i = Min({r.id : r \in Rows(work[w].account)})
                   /\ work' = [work EXCEPT ![w].pc = "cache", ![w].id = i]
      BY <1>7, <2>2 DEF InsertAsks
    <3>2. Rows(work[w].account) \in SUBSET user
      BY DEF Rows
    <3>3. PICK r \in Rows(work[w].account) : i = r.id
      BY <1>1, <2>2, <3>1, <3>2, AskedId
    <3>4. i \in Nat /\ Fits(i, work[w].account)
      BY <1>1, <3>3, SessionAssumption DEF UserOK, Rows, Fits
    <3>5. FitsNext(i, work[w].account)
      BY <3>4, FitsKept
    <3>6. /\ \A v \in Workers : v # w => work'[v] = work[v]
          /\ work'[w].id = i /\ work'[w].account = work[w].account /\ work'[w].token = work[w].token
      BY ONLY <1>4, <3>1, w \in Workers DEF Jobs
    <3> QED BY <1>1, <1>2, <1>4, <3>5, <3>6, OwnWorkers
  <2> QED BY <2>1, <2>2
<1>8. CASE \/ \E from, to \in Pcs : Goes(w, from, to)
           \/ \E from \in Pcs : Ends(w, from)
  BY <1>5, <1>8 DEF Goes, Ends
<1>9. ASSUME StatementFails(w)
      PROVE  \E from \in Pcs : Ends(w, from)
  BY <1>9 DEF StatementFails, Statements, Pcs, WithRow, Ended
<1> QED
  BY <1>6, <1>7, <1>8, <1>9 DEF Continue, VerifyBeforeInserts, VerifyAfterDeletes, InsertSelects, RegisterCaches,
     LoginDeletes, LoginModifies, StatusDeletes, LogoutDeletes, LogoutModifies, ModifyUpdates, Modifies, DeleteCaches,
     DeleteRow, Pcs, WithRow, Ended

\* A request that goes on keeps all this, and is apart from the other accounts.
LEMMA OwnContinue ==
  ASSUME TypeInv, OwnInv, [Next]_vars, NEW w \in Workers, Continue(w)
  PROVE  OwnInv' /\ \A b \in Accounts : b # work[w].account => Apart(b)
<1>1. failed' \in {failed, failed \cup {work[w].account}}
  BY DEF Continue, VerifyBeforeInserts, VerifyAfterDeletes, InsertSelects, Inserts, InsertAsks, RegisterCaches,
     LoginDeletes, LoginInserts, LoginModifies, StatusDeletes, LogoutDeletes, LogoutModifies, ModifyUpdates, Modifies,
     DeleteCaches, DeleteRow, StatementFails, history
<1>2. ASSUME NEW b \in Accounts, b # work[w].account
      PROVE  Apart(b)
  <2>1. RowsApart(b) /\ ToldApart(b) /\ LiveApart(b)
    BY <1>2, OwnRowsStep, OwnToldStep, OwnCacheStep
  <2> QED BY <1>1, <1>2, <2>1 DEF Apart, RowsApart, ToldApart, LiveApart
<1> QED BY <1>2, OwnRowsStep, OwnToldStep, OwnCacheStep, OwnWorkStep DEF OwnInv

\* So do a request that is taken up, ...
LEMMA OwnRequest ==
  ASSUME TypeInv, OwnInv, [Next]_vars, NEW w \in Workers, Request(w)
  PROVE  OwnInv'
<1>1. JobsOK /\ UserOK /\ CacheOK /\ OwnRows /\ OwnTold /\ OwnCache /\ LastId \in Nat
  BY SessionAssumption DEF TypeInv, OwnInv
<1>2. PICK a \in Accounts, pc \in First, id \in 0..LastId, t \in Tokens \cup {Blank, None} : Taken(w, a, pc, id, t)
  BY RequestTaken
<1>3. UNCHANGED <<user, nextId, tokenCache, owner, told>> /\ Starts(w, a, pc, id, t)
  BY <1>2 DEF Taken, Starts, caches
<1>4. pc \in Pcs
  BY DEF First, Pcs, WithRow
<1>5. /\ \A v \in Workers : v # w => work'[v] = work[v]
      /\ work'[w].account = a /\ work'[w].id = id /\ work'[w].token = t
  BY <1>1, <1>3, <1>4, StartsFields
<1>6. id \in Nat /\ Fits(id, a) /\ (t \in Tokens => owner[t] = a)
  <2>1. CASE id = 0 /\ t = None
    BY <1>1, <2>1, SessionAssumption DEF Fits, UserOK
  <2>2. CASE \E r \in Rows(a) : r.id = id /\ r.token = t
    BY <1>1, <2>2 DEF Fits, UserOK, Rows, OwnRows
  <2>3. CASE t \in Live /\ owner[t] = a /\ id = tokenCache[t].id
    BY <1>1, <2>3 DEF OwnCache
  <2> QED BY <1>2, <2>1, <2>2, <2>3 DEF Taken
<1>7. FitsNext(id, a)
  BY <1>6, FitsKept
<1>8. OwnWork'
  BY <1>3, <1>5, <1>6, <1>7, OwnWorkers
<1> QED BY <1>1, <1>3, <1>8 DEF OwnInv, OwnRows, OwnTold, OwnCache, Live, Fits

\* ... time and a restart.
LEMMA OwnTime ==
  ASSUME TypeInv, OwnInv, [Next]_vars,
         Restart \/ (\E t \in Tokens : TokenExpires(t)) \/ (\E a \in Accounts : CodeExpires(a))
  PROVE  OwnInv'
<1>1. /\ UserOK /\ CacheOK /\ OwnRows /\ OwnTold /\ OwnCache /\ OwnWork /\ UNCHANGED <<user, nextId, owner>>
  BY DEF TypeInv, OwnInv, Restart, TokenExpires, CodeExpires, history
<1>2. CASE Restart
  <2>1. Live' = {} /\ (\A a \in Accounts : told'[a] = {}) /\ \A v \in Workers : work'[v] = Idle
    BY <1>2 DEF Restart, EmptyCache, Live
  <2>2. /\ \A v \in Workers : work'[v].id = 0 /\ work'[v].account = None /\ work'[v].token = None
        /\ FitsNext(0, None) /\ None \notin Tokens
    BY <2>1, IdleFits, TypeNext DEF Idle
  <2> QED BY <1>1, <2>1, <2>2 DEF OwnInv, OwnRows, OwnTold, OwnCache, OwnWork, Fits, FitsNext
<1>3. CASE (\E t \in Tokens : TokenExpires(t)) \/ (\E a \in Accounts : CodeExpires(a))
  <2>1. UNCHANGED <<work, told>>
    BY <1>3 DEF TokenExpires, CodeExpires, history
  <2>2. Live' = Live /\ \A t \in Live : tokenCache'[t].id = tokenCache[t].id
    <3>1. ASSUME NEW t \in Tokens, TokenExpires(t)
          PROVE  <2>2!:
      <4>1. tokenCache \in [Live -> [id : 1..LastId, fresh : BOOLEAN]]
        BY <1>1 DEF CacheOK
      <4>2. t \in Live /\ tokenCache' = [tokenCache EXCEPT ![t].fresh = FALSE]
        BY <3>1 DEF TokenExpires
      <4>3. /\ tokenCache' \in [Live -> [id : 1..LastId, fresh : BOOLEAN]]
            /\ \A u \in Live : tokenCache'[u].id = tokenCache[u].id
        BY ONLY <4>1, <4>2
      <4> QED BY <4>3 DEF Live
    <3>2. ASSUME NEW a \in Accounts, CodeExpires(a)
          PROVE  <2>2!:
      BY <3>2 DEF CodeExpires, Live
    <3> QED BY <1>3, <3>1, <3>2
  <2> QED BY <1>1, <2>1, <2>2 DEF OwnInv, OwnRows, OwnTold, OwnCache, OwnWork, Fits
<1> QED BY <1>2, <1>3

\* It holds whatever requests overlap.
LEMMA OwnAlways == Spec => []OwnInv
<1>1. Init => OwnInv
  <2> SUFFICES ASSUME Init PROVE OwnInv
    OBVIOUS
  <2>1. /\ user = {} /\ nextId = 1 /\ Live = {} /\ (\A a \in Accounts : told[a] = {})
        /\ \A w \in Workers : work[w] = Idle
    BY DEF Init, EmptyCache, Live
  <2>2. \A w \in Workers : work[w].id = 0 /\ work[w].token = None
    BY <2>1 DEF Idle
  <2> QED BY <2>1, <2>2, SessionAssumption DEF OwnInv, OwnRows, OwnTold, OwnCache, OwnWork, Fits
<1>2. TypeInv /\ OwnInv /\ [Next]_vars => OwnInv'
  <2> SUFFICES ASSUME TypeInv, OwnInv, [Next]_vars PROVE OwnInv'
    OBVIOUS
  <2>1. CASE UNCHANGED vars
    BY <2>1 DEF vars, caches, history, OwnInv, OwnRows, OwnTold, OwnCache, OwnWork, Fits, Live
  <2> QED BY <2>1, OwnRequest, OwnContinue, OwnTime DEF Next
<1> QED BY <1>1, <1>2, TypeAlways, PTL DEF Spec

-----------------------------------------------------------------------------
(* One account at a time.                                                  *)

\* What a client was told is its account's.
LEMMA ToldOwn ==
  ASSUME TypeInv, NEW a \in Accounts, AccountInv(a), NEW t \in told[a]
  PROVE  t \in LiveOf(a) /\ \E r \in Rows(a) : r.token = t /\ r.id = tokenCache[t].id
<1>1. t \in Live /\ t \in Tokens
  BY DEF AccountInv, ToldInv, TypeInv, CacheOK
<1>2. PICK r \in Rows(a) : r.token = t /\ r.id = tokenCache[t].id
  BY DEF AccountInv, ToldInv
<1>3. owner[t] = a
  BY <1>1, <1>2 DEF AccountInv, RowInv
<1> QED BY <1>1, <1>2, <1>3 DEF LiveOf

\* The invariant of an account survives the steps that are apart from it.
LEMMA Elsewhere ==
  ASSUME TypeInv, NEW b \in Accounts, AccountInv(b), Apart(b),
         \A t \in Tokens : owner[t] # None => owner'[t] = owner[t],
         \A w \in Workers : /\ work'[w].account = b <=> work[w].account = b
                            /\ work[w].account = b => work'[w] = work[w]
  PROVE  AccountInv(b)'
<1>0. b # None
  BY SessionAssumption
<1>a. /\ Rows(b)' = Rows(b) /\ told'[b] = told[b] /\ LiveOf(b)' = LiveOf(b)
      /\ \A t \in LiveOf(b) : tokenCache'[t].id = tokenCache[t].id
      /\ b \in failed' <=> b \in failed
  BY DEF Apart
<1>1. RowInv(b)'
  <2>1. \A r \in Rows(b) : r.token \in Tokens => owner'[r.token] = b
    BY <1>0 DEF AccountInv, RowInv
  <2> QED BY <1>a, <2>1 DEF AccountInv, RowInv
<1>2. ToldInv(b)'
  <2> SUFFICES ASSUME NEW t \in told[b]
               PROVE  t \in Live' /\ \E r \in Rows(b) : r.token = t /\ r.id = tokenCache'[t].id
    BY <1>a DEF ToldInv
  <2>1. t \in LiveOf(b) /\ \E r \in Rows(b) : r.token = t /\ r.id = tokenCache[t].id
    BY ToldOwn
  <2>2. t \in Live'
    BY <1>a, <2>1 DEF LiveOf
  <2> QED BY <1>a, <2>1, <2>2
<1>3. LiveInv(b)'
  BY <1>a DEF AccountInv, LiveInv
<1>4. ASSUME NEW w \in Workers, work'[w].account = b
      PROVE  ServeInv(b, w)'
  <2>1. ServeInv(b, w) /\ work'[w] = work[w]
    BY <1>4 DEF AccountInv
  <2>2. JobOK(w)
    BY DEF TypeInv, JobsOK
  <2>3. work[w].pc = "insertId" => owner'[work[w].token] = owner[work[w].token]
    BY <2>2 DEF JobOK
  <2> QED BY <1>a, <2>1, <2>3 DEF ServeInv
<1>5. \A v, w \in Workers : work'[v].account = b /\ work'[w].account = b => v = w
  BY DEF AccountInv
<1> QED BY <1>1, <1>2, <1>3, <1>4, <1>5 DEF AccountInv

\* A step of the worker w for the account a, which it alone serves.
LEMMA StepOfOne ==
  ASSUME TypeInv, AccountsInv, NEW w \in Workers, NEW a \in Accounts \ crossed, UNCHANGED crossed,
         \A v \in Workers : v # w => work'[v] = work[v] /\ work[v].account # a,
         work[w].account \in {a, None}, work'[w].account \in {a, None},
         \A t \in Tokens : owner[t] # None => owner'[t] = owner[t],
         \A b \in Accounts : b # a => Apart(b),
         RowInv(a)', ToldInv(a)', LiveInv(a)', work'[w].account = a => ServeInv(a, w)'
  PROVE  AccountsInv'
<1>1. AccountInv(a)'
  <2>1. \A v \in Workers : work'[v].account = a => v = w
    OBVIOUS
  <2> QED BY <2>1 DEF AccountInv
<1>2. ASSUME NEW b \in Accounts \ crossed, b # a
      PROVE  AccountInv(b)'
  <2>1. b # None /\ AccountInv(b) /\ Apart(b)
    BY <1>2, SessionAssumption DEF AccountsInv
  <2>2. \A v \in Workers : /\ work'[v].account = b <=> work[v].account = b
                           /\ work[v].account = b => work'[v] = work[v]
    BY <1>2, <2>1
  <2> QED BY <2>1, <2>2, Elsewhere
<1> QED BY <1>1, <1>2 DEF AccountsInv

\* One that changes neither the table nor what is live.
LEMMA QuietStep ==
  ASSUME TypeInv, AccountsInv, NEW w \in Workers, NEW a \in Accounts \ crossed, UNCHANGED crossed,
         \A v \in Workers : v # w => work'[v] = work[v] /\ work[v].account # a,
         work[w].account \in {a, None}, work'[w].account \in {a, None}, work[w].pc # "loginModify",
         UNCHANGED <<user, owner, told, failed>>, Live' = Live,
         \A t \in Live : tokenCache'[t].id = tokenCache[t].id,
         work'[w].account = a => work'[w].pc # "loginModify" /\ ServeInv(a, w)'
  PROVE  AccountsInv'
<1>1. \A b \in Accounts : Rows(b)' = Rows(b) /\ LiveOf(b)' = LiveOf(b)
  BY DEF Rows, LiveOf
<1>2. \A b \in Accounts : Apart(b)
  BY <1>1 DEF Apart, LiveOf
<1>3. RowInv(a) /\ ToldInv(a) /\ LiveInv(a)
  BY DEF AccountsInv, AccountInv
<1>4. RowInv(a)' /\ ToldInv(a)'
  BY <1>1, <1>3 DEF RowInv, ToldInv
<1>5. LiveInv(a)'
  BY <1>1, <1>3 DEF LiveInv
<1> QED BY <1>2, <1>4, <1>5, StepOfOne

\* The worker is the only one of its account.
LEMMA Alone ==
  ASSUME TypeInv, AccountsInv, NEW w \in Workers, work[w].pc # "idle", work[w].account \notin crossed
  PROVE  LET a == work[w].account IN
         /\ a \in Accounts \ crossed /\ AccountInv(a) /\ ServeInv(a, w)
         /\ \A v \in Workers : v # w => work[v].account # a
BY DEF TypeInv, JobsOK, JobOK, Jobs, AccountsInv, AccountInv

\* The step of an account that a deletion crossed is apart from the others.
LEMMA CrossedStep ==
  ASSUME TypeInv, OwnInv, AccountsInv, [Next]_vars, NEW w \in Workers, Continue(w), work[w].account \in crossed
  PROVE  AccountsInv'
<1>1. UNCHANGED crossed /\ \A t \in Tokens : owner[t] # None => owner'[t] = owner[t]
  BY CrossedKept, OwnerGrows
<1>2. ASSUME NEW b \in Accounts \ crossed
      PROVE  AccountInv(b)'
  <2>1. b # None /\ b # work[w].account /\ AccountInv(b)
    BY SessionAssumption DEF AccountsInv
  <2>2. Apart(b)
    BY <2>1, OwnContinue
  <2>3. \A v \in Workers : /\ work'[v].account = b <=> work[v].account = b
                           /\ work[v].account = b => work'[v] = work[v]
    BY <2>1, OwnWorkStep
  <2> QED BY <1>1, <2>1, <2>2, <2>3, Elsewhere
<1> QED BY <1>1, <1>2 DEF AccountsInv

\* UserModify of the account's row changes its token and no other row.
LEMMA SetTokenRows ==
  ASSUME TypeInv, NEW a \in Accounts, RowInv(a), NEW r \in Rows(a), NEW t \in Tokens \cup {Blank},
         SetToken(r.id, t)
  PROVE  /\ \A b \in Accounts : b # a => Rows(b)' = Rows(b)
         /\ \E s \in Rows(a)' : s.id = r.id /\ s.token = t
         /\ \A s \in Rows(a)' : s.id = r.id /\ s.token = t
         /\ \A s, q \in Rows(a)' : s = q
<1>1. UserOK /\ r \in user /\ r.account = a
  BY DEF TypeInv, Rows
<1>2. \A s \in user' : \E q \in user : /\ s.id = q.id /\ s.account = q.account
                                       /\ s.id = r.id => s.token = t
                                       /\ s.id # r.id => s = q
  BY <1>1, SetTokenFields
<1>3. \A q \in user : /\ q.id # r.id => q \in user'
                      /\ q.id = r.id => \E s \in user' : s.id = r.id /\ s.account = q.account /\ s.token = t
  BY <1>1, SetTokenFields
<1>4. \A q \in user : q.id = r.id => q = r
  BY <1>1 DEF UserOK
<1>5. ASSUME NEW b \in Accounts, b # a
      PROVE  Rows(b)' = Rows(b)
  BY <1>1, <1>2, <1>3, <1>4, <1>5 DEF Rows
<1>6. \E s \in Rows(a)' : s.id = r.id /\ s.token = t
  BY <1>1, <1>3 DEF Rows
<1>7. ASSUME NEW s \in Rows(a)'
      PROVE  s.id = r.id /\ s.token = t
  <2>1. PICK q \in user : /\ s.id = q.id /\ s.account = q.account /\ (s.id = r.id => s.token = t)
                          /\ s.id # r.id => s = q
    BY <1>2 DEF Rows
  <2>2. q \in Rows(a)
    BY <2>1 DEF Rows
  <2>3. q = r
    BY <2>2 DEF RowInv
  <2> QED BY <2>1, <2>3
<1>8. ASSUME NEW s \in Rows(a)', NEW q \in Rows(a)'
      PROVE  s = q
  <2>1. s.id = q.id /\ s \in user' /\ q \in user'
    BY <1>7 DEF Rows
  <2>2. /\ s \in [id : 1..LastId, account : Accounts, token : Tokens \cup {Blank}]
        /\ q \in [id : 1..LastId, account : Accounts, token : Tokens \cup {Blank}]
    BY <1>1, <2>1, SetTokenFields
  <2>3. s.account = a /\ q.account = a /\ s.token = q.token
    BY <1>7 DEF Rows
  <2> QED BY <2>1, <2>2, <2>3
<1> QED BY <1>5, <1>6, <1>7, <1>8

\* cacheDelete of a token of the account, or of none, and what its client was told of it.
LEMMA DeleteApart ==
  ASSUME TypeInv, OwnInv, NEW a \in Accounts, NEW t, t \in Tokens => owner[t] = a,
         CacheDelete(t), Withdraw(t), UNCHANGED <<user, owner, failed>>
  PROVE  /\ \A b \in Accounts : b # a => Apart(b)
         /\ Rows(a)' = Rows(a) /\ LiveOf(a)' = LiveOf(a) \ {t} /\ told'[a] = told[a] \ {t}
         /\ Live' = Live \ {t} /\ \A u \in Live' : tokenCache'[u] = tokenCache[u]
<1>0. Live \subseteq Tokens
  BY DEF TypeInv, CacheOK
<1>1. Live' = Live \ {t} /\ \A u \in Live' : tokenCache'[u] = tokenCache[u]
  BY CacheDeleteFields
<1>2. \A b \in Accounts : Rows(b)' = Rows(b) /\ LiveOf(b)' = LiveOf(b) \ {t} /\ told'[b] = told[b] \ {t}
  BY <1>1 DEF Rows, LiveOf, Withdraw
<1>3. ASSUME NEW b \in Accounts, b # a
      PROVE  Apart(b)
  <2>1. t \notin LiveOf(b)
    BY <1>0, <1>3 DEF LiveOf
  <2>2. t \notin told[b]
    BY <1>0, <1>3, SessionAssumption DEF OwnInv, OwnTold, TypeInv
  <2>3. LiveOf(b)' = LiveOf(b) /\ told'[b] = told[b] /\ Rows(b)' = Rows(b)
    BY <1>2, <2>1, <2>2
  <2>4. \A u \in LiveOf(b) : u \in Live'
    BY <1>1, <2>1 DEF LiveOf
  <2> QED BY <1>1, <2>3, <2>4 DEF Apart
<1> QED BY <1>1, <1>2, <1>3

\* cacheInsert of a token of the account.
LEMMA InsertApart ==
  ASSUME TypeInv, NEW a \in Accounts, NEW t \in Tokens, NEW id, CacheToken(t, id),
         owner'[t] = a, t \notin Live \/ owner[t] = a, \A u \in Tokens : u # t => owner'[u] = owner[u]
  PROVE  /\ \A b \in Accounts : b # a => /\ LiveOf(b)' = LiveOf(b)
                                         /\ \A u \in LiveOf(b) : tokenCache'[u].id = tokenCache[u].id
         /\ LiveOf(a)' = LiveOf(a) \cup {t}
         /\ Live' = Live \cup {t} /\ tokenCache'[t].id = id
         /\ \A u \in Live : u # t => tokenCache'[u] = tokenCache[u]
<1>0. Live \subseteq Tokens
  BY DEF TypeInv, CacheOK
<1>1. /\ Live' = Live \cup {t} /\ tokenCache'[t] = [id |-> id, fresh |-> TRUE]
      /\ \A u \in Live : u # t => tokenCache'[u] = tokenCache[u]
  BY CacheTokenFields
<1>2. ASSUME NEW b \in Accounts, b # a
      PROVE  /\ LiveOf(b)' = LiveOf(b)
             /\ \A u \in LiveOf(b) : tokenCache'[u].id = tokenCache[u].id
  <2>1. t \notin LiveOf(b) /\ t \notin LiveOf(b)'
    BY <1>2 DEF LiveOf
  <2>2. LiveOf(b)' = LiveOf(b)
    BY <1>0, <1>1, <2>1 DEF LiveOf
  <2>3. \A u \in LiveOf(b) : u \in Live /\ u # t
    BY <2>1 DEF LiveOf
  <2> QED BY <1>1, <2>2, <2>3
<1>3. LiveOf(a)' = LiveOf(a) \cup {t}
  BY <1>0, <1>1 DEF LiveOf
<1> QED BY <1>1, <1>2, <1>3

\* A patient client's requests find the account at rest, or cross a deletion.
LEMMA AccountsRequest ==
  ASSUME Patient, TypeInv, AccountsInv, NEW w \in Workers, Request(w)
  PROVE  AccountsInv'
<1>1. JobsOK /\ CacheOK
  BY DEF TypeInv
<1>2. PICK a \in Accounts, pc \in First, id \in 0..LastId, t \in Tokens \cup {Blank, None} : Taken(w, a, pc, id, t)
  BY RequestTaken
<1>3. /\ pc \in Pcs /\ pc \notin Ended \cup {"idle", "insert", "insertId", "loginModify"}
  BY DEF First, Pcs, WithRow, Ended
<1>4. Starts(w, a, pc, id, t)
  BY <1>2 DEF Taken
<1>5. /\ \A v \in Workers : v # w => work'[v] = work[v]
      /\ work[w] = Idle
      /\ work'[w].pc = pc /\ work'[w].account = a /\ work'[w].id = id /\ work'[w].token = t
  BY <1>1, <1>3, <1>4, StartsFields
<1>6. UNCHANGED <<user, owner, told, failed, tokenCache>>
  BY <1>4 DEF Starts, caches
<1>7. Live' = Live /\ \A b \in Accounts : Rows(b)' = Rows(b) /\ LiveOf(b)' = LiveOf(b)
  BY <1>6 DEF Rows, LiveOf, Live
<1>8. work[w].pc # "loginModify" /\ work[w].account = None
  BY <1>5 DEF Idle
<1>9. CASE a \in crossed'
  <2>1. ASSUME NEW b \in Accounts \ crossed'
        PROVE  AccountInv(b)'
    <3>1. b # a /\ b # None /\ AccountInv(b)
      BY <1>2, <1>9, SessionAssumption DEF Taken, AccountsInv
    <3>2. Apart(b)
      BY <1>6, <1>7 DEF Apart
    <3>3. \A v \in Workers : /\ work'[v].account = b <=> work[v].account = b
                             /\ work[v].account = b => work'[v] = work[v]
      BY <1>5, <1>8, <3>1
    <3> QED BY <1>6, <3>1, <3>2, <3>3, Elsewhere
  <2> QED BY <2>1 DEF AccountsInv
<1>10. CASE a \notin crossed'
  <2>1. UNCHANGED crossed /\ a \in Accounts \ crossed /\ ~ Busy(a)
    BY <1>2, <1>10 DEF Taken
  <2>2. pc \in WithRow => \E r \in Rows(a) : r.id = id /\ r.token = t
    <3>1. t \in told[a] => \E r \in Rows(a) : r.token = t /\ r.id = tokenCache[t].id
      BY <2>1, ToldOwn DEF AccountsInv
    <3> QED BY <1>2, <3>1 DEF Taken, WithRow
  <2>3. ServeInv(a, w)'
    BY <1>3, <1>5, <1>7, <2>2 DEF ServeInv
  <2>4. \A v \in Workers : work[v].account # a
    BY <2>1 DEF Busy
  <2> QED BY <1>3, <1>5, <1>6, <1>7, <1>8, <2>1, <2>3, <2>4, QuietStep
<1> QED BY <1>9, <1>10

\* A worker that goes on, or ends, before it has touched the table.
LEMMA QuietWorker ==
  ASSUME TypeInv, AccountsInv, UNCHANGED crossed, NEW w \in Workers, work[w].account \notin crossed, work[w].pc \notin {"idle", "loginModify"},
         UNCHANGED <<user, owner, told, failed>>, Live' = Live,
         \A t \in Live : tokenCache'[t].id = tokenCache[t].id,
         \/ Stops(w)
         \/ \E pc \in Pcs \ {"loginModify"} : Moves(w, pc) /\ ServeInv(work[w].account, w)'
  PROVE  AccountsInv'
<1> DEFINE a == work[w].account
<1>1. a \in Accounts \ crossed /\ AccountInv(a) /\ ServeInv(a, w) /\ \A v \in Workers : v # w => work[v].account # a
  BY Alone
<1> HIDE DEF a
<1>2. a # None /\ a = work[w].account
  BY <1>1, SessionAssumption DEF a
<1>3. CASE Stops(w)
  <2>1. work'[w].account = None /\ \A v \in Workers : v # w => work'[v] = work[v]
    BY <1>3 DEF Stops, Idle
  <2> QED BY <1>1, <1>2, <2>1, QuietStep
<1>4. ASSUME NEW pc \in Pcs \ {"loginModify"}, Moves(w, pc), ServeInv(work[w].account, w)'
      PROVE  AccountsInv'
  <2>1. work'[w].account = a /\ work'[w].pc = pc /\ \A v \in Workers : v # w => work'[v] = work[v]
    BY <1>2, <1>4 DEF Moves
  <2>2. work'[w].account = work[w].account
    BY <1>2, <2>1
  <2> QED BY <1>1, <1>2, <1>4, <2>1, <2>2, QuietStep
<1> QED BY <1>3, <1>4

\* The steps of a request that leave the table and the sessions as they are.
LEMMA AccountsQuiet ==
  ASSUME TypeInv, AccountsInv, UNCHANGED crossed, NEW w \in Workers, work[w].account \notin crossed,
         \/ VerifyBeforeInserts(w) \/ VerifyAfterDeletes(w) \/ InsertSelects(w)
         \/ ModifyUpdates(w) \/ Modifies(w) \/ (StatementFails(w) /\ work[w].pc # "loginModify")
  PROVE  AccountsInv'
<1>1. UserOK /\ CacheOK /\ JobsOK
  BY DEF TypeInv
<1>2. ASSUME work[w].pc # "idle"
      PROVE  ServeInv(work[w].account, w) /\ RowInv(work[w].account)
  BY <1>2, Alone DEF AccountInv
<1>3. CASE VerifyBeforeInserts(w)
  <2>1. Ends(w, "codeInsert") /\ UNCHANGED <<user, tokenCache, owner, told, failed>>
    BY <1>3 DEF VerifyBeforeInserts, history
  <2>2. work[w].pc = "codeInsert" /\ Stops(w)
    BY <1>1, <2>1, EndsFields
  <2> QED BY <2>1, <2>2, QuietWorker DEF Live
<1>4. CASE VerifyAfterDeletes(w)
  <2>1. Goes(w, "codeDelete", "insertSelect") /\ UNCHANGED <<user, tokenCache, owner, told, failed>>
    BY <1>4 DEF VerifyAfterDeletes, history
  <2>2. work[w].pc = "codeDelete" /\ Moves(w, "insertSelect")
    BY <1>1, <2>1, GoesFields DEF Pcs
  <2>3. ServeInv(work[w].account, w)'
    BY <2>2 DEF ServeInv, Moves, WithRow, Ended
  <2> QED BY <2>1, <2>2, <2>3, QuietWorker DEF Live, Pcs
<1>5. CASE InsertSelects(w)
  <2>1. UNCHANGED <<user, tokenCache, owner, told, failed>>
    BY <1>5 DEF InsertSelects, caches, history
  <2>2. CASE Rows(work[w].account) = {}
    <3>1. work[w].pc = "insertSelect" /\ Moves(w, "insert")
      BY <1>1, <1>5, <2>2, GoesFields DEF InsertSelects, Pcs
    <3>2. ServeInv(work[w].account, w)'
      BY <2>1, <2>2, <3>1 DEF ServeInv, Moves, WithRow, Ended, Rows
    <3> QED BY <2>1, <3>1, <3>2, QuietWorker DEF Live, Pcs
  <2>3. CASE Rows(work[w].account) # {}
    <3>1. work[w].pc = "insertSelect" /\ Stops(w)
      BY <1>1, <1>5, <2>3, EndsFields DEF InsertSelects
    <3> QED BY <2>1, <3>1, QuietWorker DEF Live
  <2> QED BY <2>2, <2>3
<1>6. CASE ModifyUpdates(w)
  <2>1. /\ Goes(w, "modifyUpdate", "modifyModify") /\ UNCHANGED <<user, owner, told, failed>>
        /\ tokenCache' = [u \in Live |-> IF u = work[w].token THEN [tokenCache[u] EXCEPT !.fresh = TRUE] ELSE tokenCache[u]]
    BY <1>6 DEF ModifyUpdates, history
  <2>2. work[w].pc = "modifyUpdate" /\ Moves(w, "modifyModify")
    BY <1>1, <2>1, GoesFields DEF Pcs, WithRow
  <2>3. ServeInv(work[w].account, w)'
    <3>1. ServeInv(work[w].account, w) /\ Rows(work[w].account)' = Rows(work[w].account)
      BY <1>2, <2>1, <2>2 DEF Rows, Moves
    <3> QED BY <2>2, <3>1 DEF ServeInv, Moves, WithRow, Ended
  <2>4. Live' = Live
    BY <2>1 DEF Live
  <2>5. ASSUME NEW t \in Live
        PROVE  tokenCache'[t].id = tokenCache[t].id
    <3>1. tokenCache[t] \in [id : 1..LastId, fresh : BOOLEAN]
      BY <1>1 DEF CacheOK
    <3> QED BY <2>1, <3>1
  <2> QED BY <2>1, <2>2, <2>3, <2>4, <2>5, QuietWorker DEF Pcs, WithRow
<1>7. CASE Modifies(w)
  <2>1. Ends(w, "modifyModify") /\ SetToken(work[w].id, work[w].token) /\ UNCHANGED <<tokenCache, owner, told, failed>>
    BY <1>7 DEF Modifies, caches, history
  <2>2. work[w].pc = "modifyModify" /\ Stops(w)
    BY <1>1, <2>1, EndsFields
  <2>3. PICK r \in Rows(work[w].account) : r.id = work[w].id /\ r.token = work[w].token
    BY <1>2, <2>2 DEF ServeInv, WithRow
  <2>4. r \in user /\ user \subseteq [id : 1..LastId, account : Accounts, token : Tokens \cup {Blank}]
    BY <1>1 DEF UserOK, Rows
  <2>5. \A q \in user : q.id = r.id => q = r
    BY <1>1, <2>4 DEF UserOK
  <2>6. [r EXCEPT !.token = r.token] = r
    BY <2>4
  <2>7. user' = {IF q.id = r.id THEN [q EXCEPT !.token = r.token] ELSE q : q \in user}
    BY <2>1, <2>3 DEF SetToken
  <2>8. \A q \in user : (IF q.id = r.id THEN [q EXCEPT !.token = r.token] ELSE q) = q
    BY <2>5, <2>6
  <2>9. user' = user
    BY <2>7, <2>8
  <2> QED BY <2>1, <2>2, <2>9, QuietWorker DEF Live
<1>8. CASE StatementFails(w) /\ work[w].pc # "loginModify"
  <2>1. /\ \E s \in Statements : Ends(w, s)
        /\ UNCHANGED <<user, tokenCache, owner, told, failed>>
    BY <1>8 DEF StatementFails, caches
  <2>2. work[w].pc # "idle" /\ Stops(w)
    BY <1>1, <2>1, EndsFields DEF Statements
  <2> QED BY <1>8, <2>1, <2>2, QuietWorker DEF Live
<1> QED BY <1>3, <1>4, <1>5, <1>6, <1>7, <1>8

\* The id of the new row is asked for, and the row is still there.
LEMMA AccountsAsks ==
  ASSUME TypeInv, AccountsInv, UNCHANGED crossed, NEW w \in Workers, work[w].account \notin crossed, InsertAsks(w)
  PROVE  AccountsInv'
<1>1. JobsOK /\ UserOK /\ UNCHANGED <<user, tokenCache, owner, told, failed>>
  BY DEF TypeInv, InsertAsks, caches, history
<1>2. work[w].pc = "insertId"
  BY DEF InsertAsks, Ends
<1>3. PICK a \in Accounts \ crossed : /\ work[w].account = a /\ AccountInv(a) /\ ServeInv(a, w)
                                     /\ \A v \in Workers : v # w => work[v].account # a
  BY <1>2, Alone
<1>4. PICK r \in Rows(a) : r.token = work[w].token
  BY <1>2, <1>3 DEF ServeInv
<1>5. PICK i : i = Min({q.id : q \in Rows(a)}) /\ work' = [work EXCEPT ![w].pc = "cache", ![w].id = i]
  BY <1>3, <1>4 DEF InsertAsks
<1>6. i = r.id
  <2>1. Rows(a) \in SUBSET user /\ Rows(a) # {}
    BY <1>4 DEF Rows
  <2>2. PICK q \in Rows(a) : i = q.id
    BY <1>1, <1>5, <2>1, AskedId
  <2> QED BY <1>3, <1>4, <2>2 DEF AccountInv, RowInv
<1>7. /\ \A v \in Workers : v # w => work'[v] = work[v]
      /\ work'[w].pc = "cache" /\ work'[w].account = a /\ work'[w].token = work[w].token /\ work'[w].id = i
  <2>1. work \in [Workers -> Jobs] /\ a = work[w].account
    BY <1>1, <1>3 DEF JobsOK
  <2> QED BY ONLY <1>5, <2>1, w \in Workers DEF Jobs
<1>8. ServeInv(a, w)'
  <2>1. Rows(a)' = Rows(a)
    BY <1>1 DEF Rows
  <2> QED BY <1>4, <1>6, <1>7, <2>1 DEF ServeInv, WithRow, Ended
<1>9. Live' = Live
  BY <1>1 DEF Live
<1> QED BY <1>1, <1>2, <1>3, <1>7, <1>8, <1>9, QuietStep

\* The steps that end the session of a row, and leave the account without one.
LEMMA AccountsDeletes ==
  ASSUME TypeInv, OwnInv, AccountsInv, UNCHANGED crossed, NEW w \in Workers, work[w].account \notin crossed, work[w].pc \in WithRow,
         CacheDelete(work[w].token), Withdraw(work[w].token), UNCHANGED <<user, owner, failed>>,
         Stops(w) \/ \E pc \in Ended : Moves(w, pc)
  PROVE  AccountsInv'
<1>1. work[w].pc # "idle" /\ work[w].pc # "loginModify"
  BY DEF WithRow
<1>2. PICK a \in Accounts \ crossed : /\ work[w].account = a /\ AccountInv(a) /\ ServeInv(a, w)
                                     /\ \A v \in Workers : v # w => work[v].account # a
  BY <1>1, Alone
<1>3. PICK r \in Rows(a) : r.id = work[w].id /\ r.token = work[w].token
  BY <1>2 DEF ServeInv
<1>4. PICK t : work[w].token = t /\ CacheDelete(t) /\ Withdraw(t) /\ r.token = t
  BY <1>3
<1>6. t \in Tokens => owner[t] = a
  BY <1>2, <1>4 DEF AccountInv, RowInv
<1>7. /\ \A b \in Accounts : b # a => Apart(b)
      /\ Rows(a)' = Rows(a) /\ LiveOf(a)' = LiveOf(a) \ {t} /\ told'[a] = told[a] \ {t}
  BY <1>2, <1>4, <1>6, DeleteApart
<1>8. told'[a] = {}
  <2>1. ASSUME NEW u \in told[a]
        PROVE  u = t
    <3>1. PICK s \in Rows(a) : s.token = u
      BY <1>2, <2>1, ToldOwn
    <3> QED BY <1>2, <1>4, <3>1 DEF AccountInv, RowInv
  <2> QED BY <1>7, <2>1
<1>9. a \notin failed => LiveOf(a)' = {}
  <2> SUFFICES ASSUME a \notin failed PROVE LiveOf(a)' = {}
    OBVIOUS
  <2>1. \A v \in Workers : work[v].account = a => work[v].pc # "loginModify"
    BY <1>1, <1>2
  <2>2. ASSUME NEW u \in LiveOf(a)
        PROVE  u = t
    <3>1. PICK s \in Rows(a) : s.token = u
      BY <1>2, <2>1, <2>2 DEF AccountInv, LiveInv
    <3> QED BY <1>2, <1>4, <3>1 DEF AccountInv, RowInv
  <2> QED BY <1>7, <2>2
<1>10. RowInv(a)' /\ ToldInv(a)' /\ LiveInv(a)'
  BY <1>2, <1>7, <1>8, <1>9 DEF AccountInv, RowInv, ToldInv, LiveInv
<1>11. /\ \A v \in Workers : v # w => work'[v] = work[v]
       /\ work'[w].account \in {a, None} /\ (work'[w].account = a => ServeInv(a, w)')
  <2>1. CASE Stops(w)
    <3>1. a # None
      BY <1>2, SessionAssumption
    <3> QED BY <2>1, <3>1 DEF Stops, Idle
  <2>2. ASSUME NEW pc \in Ended, Moves(w, pc)
        PROVE  <1>11!:
    <3>1. /\ \A v \in Workers : v # w => work'[v] = work[v]
          /\ work'[w].pc = pc /\ work'[w].account = a /\ work'[w].id = work[w].id
      BY <1>2, <2>2 DEF Moves
    <3>2. pc \notin WithRow \cup {"insert", "insertId", "loginModify"}
      BY DEF WithRow, Ended
    <3>3. ServeInv(a, w)'
      BY <1>3, <1>7, <1>8, <1>9, <3>1, <3>2 DEF ServeInv
    <3> QED BY <3>1, <3>3
  <2> QED BY <2>1, <2>2
<1> QED BY <1>2, <1>7, <1>10, <1>11, StepOfOne

\* A worker of the table that goes on or stops leaves the others where they are.
LEMMA OthersStay ==
  ASSUME NEW w \in Workers, NEW a \in Accounts, work[w].account = a, Stops(w) \/ \E pc \in Pcs : Moves(w, pc)
  PROVE  /\ \A v \in Workers : v # w => work'[v] = work[v]
         /\ work'[w].account \in {a, None} /\ (Stops(w) => work'[w].account # a)
BY SessionAssumption DEF Stops, Moves, Idle

\* A registration inserts the row of an account that has none.
LEMMA AccountsInserts ==
  ASSUME TypeInv, AccountsInv, UNCHANGED crossed, NEW w \in Workers, work[w].account \notin crossed, Inserts(w)
  PROVE  AccountsInv'
<1>1. PICK t \in Tokens : /\ work[w].pc = "insert" /\ nextId <= LastId /\ Issue(w, t)
                          /\ work' = [work EXCEPT ![w].pc = "insertId", ![w].token = t]
                          /\ user' = user \cup {[id |-> nextId, account |-> work[w].account, token |-> t]}
                          /\ UNCHANGED <<tokenCache, told, failed>>
  BY DEF Inserts, caches
<1>2. PICK a \in Accounts \ crossed : /\ work[w].account = a /\ AccountInv(a) /\ ServeInv(a, w)
                                     /\ \A v \in Workers : v # w => work[v].account # a
  BY <1>1, Alone
<1>3. Rows(a) = {} /\ told[a] = {}
  BY <1>1, <1>2, ToldOwn DEF ServeInv
<1>4. a \notin failed => LiveOf(a) = {}
  BY <1>1, <1>2, <1>3 DEF AccountInv, LiveInv
<1>5. /\ owner[t] = None /\ owner'[t] = a /\ t \notin Live /\ \A u \in Tokens : u # t => owner'[u] = owner[u]
  BY <1>1, <1>2, IssueFields
<1>6. ASSUME NEW b \in Accounts
      PROVE  LiveOf(b)' = LiveOf(b)
  <2>1. Live \subseteq Tokens /\ Live' = Live
    BY <1>1 DEF TypeInv, CacheOK, Live
  <2> QED BY <1>5, <2>1 DEF LiveOf
<1>7. /\ \A r \in Rows(a)' : r.token = t
      /\ \E r \in Rows(a)' : r.token = t
      /\ \A r, s \in Rows(a)' : r = s
  <2>1. PICK row : row = [id |-> nextId, account |-> a, token |-> t]
    OBVIOUS
  <2>2. row.account = a /\ row.token = t /\ user' = user \cup {row}
    BY <1>1, <1>2, <2>1
  <2>3. \A r \in user : r.account # a
    BY <1>3 DEF Rows
  <2>4. Rows(a)' = {row}
    BY <2>2, <2>3 DEF Rows
  <2> QED BY <2>2, <2>4
<1>8. ASSUME NEW b \in Accounts, b # a
      PROVE  Apart(b)
  <2>1. Rows(b)' = Rows(b)
    BY <1>1, <1>2, <1>8 DEF Rows
  <2> QED BY <1>1, <1>6, <2>1 DEF Apart
<1>9. RowInv(a)' /\ ToldInv(a)' /\ LiveInv(a)'
  BY <1>1, <1>3, <1>4, <1>5, <1>6, <1>7 DEF RowInv, ToldInv, LiveInv
<1>10. /\ \A v \in Workers : v # w => work'[v] = work[v]
       /\ work'[w].pc = "insertId" /\ work'[w].account = a /\ work'[w].token = t
  <2>1. work \in [Workers -> Jobs]
    BY DEF TypeInv, JobsOK
  <2> QED BY ONLY <1>1, <1>2, <2>1, w \in Workers DEF Jobs
<1>11. ServeInv(a, w)'
  BY <1>5, <1>7, <1>10 DEF ServeInv, WithRow, Ended
<1>12. \A u \in Tokens : owner[u] # None => owner'[u] = owner[u]
  BY <1>5
<1> QED BY <1>2, <1>8, <1>9, <1>10, <1>11, <1>12, StepOfOne

\* The session of a registration is that of the row.
LEMMA AccountsCaches ==
  ASSUME TypeInv, AccountsInv, UNCHANGED crossed, NEW w \in Workers, work[w].account \notin crossed, RegisterCaches(w)
  PROVE  AccountsInv'
<1>1. /\ Ends(w, "cache") /\ CacheToken(work[w].token, work[w].id) /\ Answer(work[w].account, work[w].token)
      /\ UNCHANGED <<user, owner, failed>> /\ JobsOK /\ told \in [Accounts -> SUBSET Tokens]
  BY DEF RegisterCaches, TypeInv
<1>2. work[w].pc = "cache" /\ Stops(w)
  BY <1>1, EndsFields
<1>3. PICK a \in Accounts \ crossed : /\ work[w].account = a /\ AccountInv(a) /\ ServeInv(a, w)
                                     /\ \A v \in Workers : v # w => work[v].account # a
  BY <1>2, Alone
<1>4. PICK r \in Rows(a) : r.id = work[w].id /\ r.token = work[w].token
  BY <1>2, <1>3 DEF ServeInv, WithRow
<1>5. PICK t \in Tokens : r.token = t /\ CacheToken(t, r.id) /\ told' = [told EXCEPT ![a] = @ \cup {t}]
  BY <1>1, <1>2, <1>3, <1>4 DEF JobsOK, JobOK, Answer
<1>6. owner[t] = a
  BY <1>3, <1>4, <1>5 DEF AccountInv, RowInv
<1>7. /\ \A b \in Accounts : b # a => /\ LiveOf(b)' = LiveOf(b)
                                      /\ \A u \in LiveOf(b) : tokenCache'[u].id = tokenCache[u].id
      /\ LiveOf(a)' = LiveOf(a) \cup {t} /\ Live' = Live \cup {t} /\ tokenCache'[t].id = r.id
      /\ \A u \in Live : u # t => tokenCache'[u] = tokenCache[u]
  BY <1>1, <1>5, <1>6, InsertApart
<1>8. \A b \in Accounts : Rows(b)' = Rows(b)
  BY <1>1 DEF Rows
<1>9. \A b \in Accounts : b # a => Apart(b)
  BY <1>1, <1>5, <1>7, <1>8 DEF Apart
<1>10. ToldInv(a)'
  <2> SUFFICES ASSUME NEW u \in told'[a]
               PROVE  u \in Live' /\ \E q \in Rows(a) : q.token = u /\ q.id = tokenCache'[u].id
    BY <1>8 DEF ToldInv
  <2>1. u = t \/ u \in told[a]
    BY <1>1, <1>5
  <2> QED BY <1>3, <1>4, <1>5, <1>7, <2>1 DEF AccountInv, ToldInv
<1>11. RowInv(a)'
  BY <1>1, <1>3, <1>8 DEF AccountInv, RowInv
<1>12. LiveInv(a)'
  <2>1. \A v \in Workers : work[v].account = a => work[v].pc # "loginModify"
    BY <1>2, <1>3
  <2>2. a \notin failed => \A u \in LiveOf(a) : \E q \in Rows(a) : q.token = u
    BY <1>3, <2>1 DEF AccountInv, LiveInv
  <2> QED BY <1>1, <1>4, <1>5, <1>7, <1>8, <2>2 DEF LiveInv
<1> QED BY <1>1, <1>2, <1>3, <1>9, <1>10, <1>11, <1>12, OthersStay, StepOfOne

\* A login makes the one session of the account.
LEMMA AccountsLogin ==
  ASSUME TypeInv, AccountsInv, UNCHANGED crossed, NEW w \in Workers, work[w].account \notin crossed, LoginInserts(w)
  PROVE  AccountsInv'
<1>1. PICK t \in Tokens : /\ work[w].pc = "loginInsert" /\ Issue(w, t)
                          /\ work' = [work EXCEPT ![w].pc = "loginModify", ![w].token = t]
                          /\ CacheToken(t, work[w].id) /\ UNCHANGED <<user, told, failed>>
  BY DEF LoginInserts
<1>2. PICK a \in Accounts \ crossed : /\ work[w].account = a /\ AccountInv(a) /\ ServeInv(a, w)
                                     /\ \A v \in Workers : v # w => work[v].account # a
  BY <1>1, Alone
<1>3. PICK r \in Rows(a) : r.id = work[w].id /\ told[a] = {} /\ (a \notin failed => LiveOf(a) = {})
  BY <1>1, <1>2 DEF ServeInv, Ended
<1>4. /\ owner[t] = None /\ owner'[t] = a /\ t \notin Live /\ \A u \in Tokens : u # t => owner'[u] = owner[u]
  BY <1>1, <1>2, IssueFields
<1>5. CacheToken(t, r.id)
  BY <1>1, <1>3
<1>6. /\ \A b \in Accounts : b # a => /\ LiveOf(b)' = LiveOf(b)
                                      /\ \A u \in LiveOf(b) : tokenCache'[u].id = tokenCache[u].id
      /\ LiveOf(a)' = LiveOf(a) \cup {t} /\ tokenCache'[t].id = r.id
  BY <1>4, <1>5, InsertApart
<1>7. \A b \in Accounts : Rows(b)' = Rows(b)
  BY <1>1 DEF Rows
<1>8. \A b \in Accounts : b # a => Apart(b)
  BY <1>1, <1>6, <1>7 DEF Apart
<1>9. /\ \A v \in Workers : v # w => work'[v] = work[v]
      /\ work'[w].pc = "loginModify" /\ work'[w].account = a /\ work'[w].token = t /\ work'[w].id = r.id
  <2>1. work \in [Workers -> Jobs]
    BY DEF TypeInv, JobsOK
  <2> QED BY ONLY <1>1, <1>2, <1>3, <2>1, w \in Workers DEF Jobs
<1>10. RowInv(a)'
  <2>1. a # None
    BY SessionAssumption
  <2> QED BY <1>2, <1>4, <1>7, <2>1 DEF AccountInv, RowInv
<1>11. ToldInv(a)' /\ LiveInv(a)'
  BY <1>1, <1>3, <1>9 DEF ToldInv, LiveInv
<1>12. ServeInv(a, w)'
  BY <1>1, <1>3, <1>6, <1>7, <1>9 DEF ServeInv, WithRow, Ended
<1>13. \A u \in Tokens : owner[u] # None => owner'[u] = owner[u]
  BY <1>4
<1> QED BY <1>2, <1>8, <1>9, <1>10, <1>11, <1>12, <1>13, StepOfOne

\* The steps that write the row of an account after its session: the login, ...
LEMMA AccountsModifies ==
  ASSUME TypeInv, AccountsInv, UNCHANGED crossed, NEW w \in Workers, work[w].account \notin crossed, LoginModifies(w)
  PROVE  AccountsInv'
<1>1. /\ Ends(w, "loginModify") /\ SetToken(work[w].id, work[w].token)
      /\ IF \E r \in user : r.id = work[w].id
         THEN Answer(work[w].account, work[w].token) ELSE UNCHANGED told
      /\ UNCHANGED <<tokenCache, owner, failed>> /\ JobsOK /\ told \in [Accounts -> SUBSET Tokens]
  BY DEF LoginModifies, TypeInv, caches
<1>2. work[w].pc = "loginModify" /\ Stops(w)
  BY <1>1, EndsFields
<1>3. PICK a \in Accounts \ crossed : /\ work[w].account = a /\ AccountInv(a) /\ ServeInv(a, w)
                                     /\ \A v \in Workers : v # w => work[v].account # a
  BY <1>2, Alone
<1>4. PICK r \in Rows(a) : r.id = work[w].id
  BY <1>2, <1>3 DEF ServeInv
<1>5. PICK t \in Tokens : t = work[w].token
  BY <1>2, <1>1 DEF JobsOK, JobOK
<1>6. /\ told[a] = {} /\ t \in LiveOf(a) /\ tokenCache[t].id = r.id
      /\ a \notin failed => LiveOf(a) = {t}
  BY <1>2, <1>3, <1>4, <1>5 DEF ServeInv
<1>7. told' = [told EXCEPT ![a] = @ \cup {t}]
  BY <1>1, <1>3, <1>4, <1>5 DEF Answer, Rows
<1>8. /\ \A b \in Accounts : b # a => Rows(b)' = Rows(b)
      /\ \E s \in Rows(a)' : s.id = r.id /\ s.token = t
      /\ \A s \in Rows(a)' : s.id = r.id /\ s.token = t
      /\ \A s, q \in Rows(a)' : s = q
  BY <1>1, <1>3, <1>4, <1>5, SetTokenRows DEF AccountInv
<1>9. \A b \in Accounts : LiveOf(b)' = LiveOf(b)
  BY <1>1 DEF LiveOf, Live
<1>10. \A b \in Accounts : b # a => Apart(b)
  BY <1>1, <1>7, <1>8, <1>9 DEF Apart
<1>11. owner[t] = a /\ t \in Live
  BY <1>6 DEF LiveOf
<1>12. RowInv(a)' /\ LiveInv(a)'
  BY <1>1, <1>6, <1>8, <1>9, <1>11 DEF RowInv, LiveInv
<1>13. ToldInv(a)'
  <2>1. told'[a] = {t} /\ Live' = Live
    BY <1>1, <1>6, <1>7 DEF Live
  <2> QED BY <1>1, <1>6, <1>8, <1>11, <2>1 DEF ToldInv
<1> QED BY <1>1, <1>2, <1>3, <1>10, <1>12, <1>13, OthersStay, StepOfOne

\* ... which may fail, ...
LEMMA AccountsFails ==
  ASSUME TypeInv, AccountsInv, UNCHANGED crossed, NEW w \in Workers, work[w].account \notin crossed, StatementFails(w), work[w].pc = "loginModify"
  PROVE  AccountsInv'
<1>1. /\ \E s \in Statements : Ends(w, s)
      /\ failed' = failed \cup {work[w].account}
      /\ UNCHANGED <<user, tokenCache, owner, told>> /\ JobsOK
  BY DEF StatementFails, TypeInv, caches
<1>2. Stops(w)
  BY <1>1, EndsFields
<1>3. PICK a \in Accounts \ crossed : /\ work[w].account = a /\ AccountInv(a) /\ ServeInv(a, w)
                                     /\ \A v \in Workers : v # w => work[v].account # a
  BY Alone
<1>4. \A b \in Accounts : Rows(b)' = Rows(b) /\ LiveOf(b)' = LiveOf(b)
  BY <1>1 DEF Rows, LiveOf, Live
<1>5. \A b \in Accounts : b # a => Apart(b)
  BY <1>1, <1>3, <1>4 DEF Apart
<1>6. RowInv(a)' /\ ToldInv(a)' /\ LiveInv(a)'
  <2>1. a \in failed' /\ Live' = Live
    BY <1>1, <1>3 DEF Live
  <2> QED BY <1>1, <1>3, <1>4, <2>1 DEF AccountInv, RowInv, ToldInv, LiveInv
<1> QED BY <1>1, <1>2, <1>3, <1>5, <1>6, OthersStay, StepOfOne

\* ... the logout, ...
LEMMA AccountsLogout ==
  ASSUME TypeInv, AccountsInv, UNCHANGED crossed, NEW w \in Workers, work[w].account \notin crossed, LogoutModifies(w)
  PROVE  AccountsInv'
<1>1. /\ Ends(w, "logoutModify") /\ SetToken(work[w].id, Blank)
      /\ UNCHANGED <<tokenCache, owner, told, failed>> /\ JobsOK
  BY DEF LogoutModifies, TypeInv, caches, history
<1>2. work[w].pc = "logoutModify" /\ Stops(w)
  BY <1>1, EndsFields
<1>3. PICK a \in Accounts \ crossed : /\ work[w].account = a /\ AccountInv(a) /\ ServeInv(a, w)
                                     /\ \A v \in Workers : v # w => work[v].account # a
  BY <1>2, Alone
<1>4. PICK r \in Rows(a) : r.id = work[w].id /\ told[a] = {} /\ (a \notin failed => LiveOf(a) = {})
  BY <1>2, <1>3 DEF ServeInv, Ended
<1>5. /\ \A b \in Accounts : b # a => Rows(b)' = Rows(b)
      /\ \A s \in Rows(a)' : s.id = r.id /\ s.token = Blank
      /\ \A s, q \in Rows(a)' : s = q
  BY <1>1, <1>3, <1>4, SetTokenRows DEF AccountInv
<1>6. \A b \in Accounts : LiveOf(b)' = LiveOf(b)
  BY <1>1 DEF LiveOf, Live
<1>7. \A b \in Accounts : b # a => Apart(b)
  BY <1>1, <1>5, <1>6 DEF Apart
<1>8. RowInv(a)' /\ ToldInv(a)' /\ LiveInv(a)'
  BY <1>1, <1>4, <1>5, <1>6, SessionAssumption DEF RowInv, ToldInv, LiveInv
<1> QED BY <1>1, <1>2, <1>3, <1>7, <1>8, OthersStay, StepOfOne

\* ... and the deletion.
LEMMA AccountsDeleteRow ==
  ASSUME TypeInv, AccountsInv, UNCHANGED crossed, NEW w \in Workers, work[w].account \notin crossed, DeleteRow(w)
  PROVE  AccountsInv'
<1>1. /\ Ends(w, "deleteRow") /\ user' = {r \in user : r.id # work[w].id}
      /\ UNCHANGED <<tokenCache, owner, told, failed>> /\ JobsOK /\ UserOK
  BY DEF DeleteRow, TypeInv, caches, history
<1>2. work[w].pc = "deleteRow" /\ Stops(w)
  BY <1>1, EndsFields
<1>3. PICK a \in Accounts \ crossed : /\ work[w].account = a /\ AccountInv(a) /\ ServeInv(a, w)
                                     /\ \A v \in Workers : v # w => work[v].account # a
  BY <1>2, Alone
<1>4. PICK r \in Rows(a) : r.id = work[w].id /\ told[a] = {} /\ (a \notin failed => LiveOf(a) = {})
  BY <1>2, <1>3 DEF ServeInv, Ended
<1>5. user' = user \ {r}
  <2>1. \A q \in user : q.id = r.id <=> q = r
    BY <1>1, <1>4 DEF UserOK, Rows
  <2> QED BY <1>1, <1>4, <2>1
<1>6. Rows(a)' = {} /\ \A b \in Accounts : b # a => Rows(b)' = Rows(b)
  <2>1. Rows(a)' = {}
    BY <1>3, <1>4, <1>5 DEF AccountInv, RowInv, Rows
  <2>2. \A b \in Accounts : b # a => Rows(b)' = Rows(b)
    BY <1>4, <1>5 DEF Rows
  <2> QED BY <2>1, <2>2
<1>7. \A b \in Accounts : LiveOf(b)' = LiveOf(b)
  BY <1>1 DEF LiveOf, Live
<1>8. \A b \in Accounts : b # a => Apart(b)
  BY <1>1, <1>6, <1>7 DEF Apart
<1>9. RowInv(a)' /\ ToldInv(a)' /\ LiveInv(a)'
  BY <1>1, <1>4, <1>6, <1>7 DEF RowInv, ToldInv, LiveInv
<1> QED BY <1>1, <1>2, <1>3, <1>8, <1>9, OthersStay, StepOfOne

\* Time changes neither the table nor what is live, and a restart ends everything.
LEMMA AccountsTime ==
  ASSUME TypeInv, AccountsInv, Restart \/ (\E t \in Tokens : TokenExpires(t)) \/ (\E a \in Accounts : CodeExpires(a))
  PROVE  AccountsInv'
<1>1. CASE Restart
  <2>1. /\ Live' = {} /\ (\A a \in Accounts : told'[a] = {}) /\ (\A w \in Workers : work'[w] = Idle)
        /\ UNCHANGED <<user, owner>>
    BY <1>1 DEF Restart, EmptyCache, Live
  <2>2. ASSUME NEW a \in Accounts \ crossed
        PROVE  AccountInv(a)'
    <3>1. AccountInv(a) /\ Rows(a)' = Rows(a) /\ LiveOf(a)' = {}
      BY <2>1 DEF AccountsInv, Rows, LiveOf
    <3>2. \A w \in Workers : work'[w].account # a
      BY <2>1, SessionAssumption DEF Idle
    <3> QED BY <2>1, <3>1, <3>2 DEF AccountInv, RowInv, ToldInv, LiveInv
  <2> QED BY <2>2, CrossedKept DEF AccountsInv
<1>2. CASE (\E t \in Tokens : TokenExpires(t)) \/ (\E a \in Accounts : CodeExpires(a))
  <2>1. UNCHANGED <<user, work, owner, told, failed>>
    BY <1>2 DEF TokenExpires, CodeExpires, history
  <2>2. Live' = Live /\ \A t \in Live : tokenCache'[t].id = tokenCache[t].id
    <3>1. ASSUME NEW t \in Tokens, TokenExpires(t)
          PROVE  <2>2!:
      <4>1. tokenCache \in [Live -> [id : 1..LastId, fresh : BOOLEAN]]
        BY DEF TypeInv, CacheOK
      <4>2. t \in Live /\ tokenCache' = [tokenCache EXCEPT ![t].fresh = FALSE]
        BY <3>1 DEF TokenExpires
      <4>3. /\ tokenCache' \in [Live -> [id : 1..LastId, fresh : BOOLEAN]]
            /\ \A u \in Live : tokenCache'[u].id = tokenCache[u].id
        BY ONLY <4>1, <4>2
      <4> QED BY <4>3 DEF Live
    <3>2. ASSUME NEW a \in Accounts, CodeExpires(a)
          PROVE  <2>2!:
      BY <3>2 DEF CodeExpires, Live
    <3> QED BY <1>2, <3>1, <3>2
  <2>3. ASSUME NEW a \in Accounts \ crossed
        PROVE  AccountInv(a)'
    <3>1. AccountInv(a)
      BY DEF AccountsInv
    <3>2. Rows(a)' = Rows(a) /\ LiveOf(a)' = LiveOf(a) /\ LiveOf(a) \subseteq Live
      BY <2>1, <2>2 DEF Rows, LiveOf
    <3>3. Apart(a)
      BY <2>1, <2>2, <3>2 DEF Apart
    <3> QED BY <2>1, <3>1, <3>3, Elsewhere
  <2> QED BY <2>3, CrossedKept DEF AccountsInv
<1> QED BY <1>1, <1>2

\* A step of a request that was taken up.
LEMMA AccountsContinue ==
  ASSUME TypeInv, OwnInv, AccountsInv, [Next]_vars, NEW w \in Workers, Continue(w)
  PROVE  AccountsInv'
<1>1. JobsOK /\ UNCHANGED crossed
  BY CrossedKept DEF TypeInv
<1>0. CASE work[w].account \in crossed
  BY <1>0, CrossedStep
<1> SUFFICES ASSUME work[w].account \notin crossed PROVE AccountsInv'
  BY <1>0
<1>2. CASE LoginDeletes(w)
  <2>1. /\ Goes(w, "loginDelete", "loginInsert") /\ CacheDelete(work[w].token) /\ Withdraw(work[w].token)
        /\ UNCHANGED <<user, owner, failed>>
    BY <1>2 DEF LoginDeletes
  <2>2. work[w].pc \in WithRow /\ Moves(w, "loginInsert")
    BY <1>1, <2>1, GoesFields DEF WithRow, Ended, Pcs
  <2> QED BY <2>1, <2>2, <1>1, AccountsDeletes DEF Ended
<1>3. CASE LogoutDeletes(w)
  <2>1. /\ Goes(w, "logoutDelete", "logoutModify") /\ CacheDelete(work[w].token) /\ Withdraw(work[w].token)
        /\ UNCHANGED <<user, owner, failed>>
    BY <1>3 DEF LogoutDeletes
  <2>2. work[w].pc \in WithRow /\ Moves(w, "logoutModify")
    BY <1>1, <2>1, GoesFields DEF WithRow, Ended, Pcs
  <2> QED BY <2>1, <2>2, <1>1, AccountsDeletes DEF Ended
<1>4. CASE DeleteCaches(w)
  <2>1. /\ Goes(w, "deleteCache", "deleteRow") /\ CacheDelete(work[w].token) /\ Withdraw(work[w].token)
        /\ UNCHANGED <<user, owner, failed>>
    BY <1>4 DEF DeleteCaches
  <2>2. work[w].pc \in WithRow /\ Moves(w, "deleteRow")
    BY <1>1, <2>1, GoesFields DEF WithRow, Ended, Pcs
  <2> QED BY <2>1, <2>2, <1>1, AccountsDeletes DEF Ended
<1>5. CASE StatusDeletes(w)
  <2>1. /\ Ends(w, "statusDelete") /\ CacheDelete(work[w].token) /\ Withdraw(work[w].token)
        /\ UNCHANGED <<user, owner, failed>>
    BY <1>5 DEF StatusDeletes
  <2>2. work[w].pc \in WithRow /\ Stops(w)
    BY <1>1, <2>1, EndsFields DEF WithRow
  <2> QED BY <2>1, <2>2, <1>1, AccountsDeletes
<1>6. CASE StatementFails(w)
  BY <1>1, <1>6, AccountsQuiet, AccountsFails
<1> QED
  BY <1>1, <1>2, <1>3, <1>4, <1>5, <1>6, AccountsQuiet, AccountsAsks, AccountsInserts, AccountsCaches, AccountsLogin,
     AccountsModifies, AccountsLogout, AccountsDeleteRow DEF Continue

\* The invariant of the accounts is kept by every step.
LEMMA AccountsNext ==
  ASSUME Patient, TypeInv, OwnInv, AccountsInv, [Next]_vars
  PROVE  AccountsInv'
<1>1. CASE UNCHANGED vars
  BY <1>1 DEF vars, caches, history, AccountsInv, AccountInv, RowInv, ToldInv, LiveInv, ServeInv, LiveOf, Live, Rows
<1> QED BY <1>1, AccountsRequest, AccountsContinue, AccountsTime DEF Next

-----------------------------------------------------------------------------
(* What the services promise to clients that wait for their answers.       *)

\* The invariant of the accounts.
LEMMA AccountsAlways == Spec => [](Patient => AccountsInv)
<1>1. Init => AccountsInv
  <2> SUFFICES ASSUME Init, NEW a \in Accounts \ crossed PROVE AccountInv(a)
    BY DEF AccountsInv
  <2>1. /\ user = {} /\ told[a] = {} /\ \A w \in Workers : work[w] = Idle
        /\ Live = {}
    BY DEF Init, EmptyCache, Live
  <2>2. Rows(a) = {} /\ LiveOf(a) = {} /\ \A w \in Workers : work[w].account # a
    BY <2>1, SessionAssumption DEF Rows, LiveOf, Idle
  <2> QED BY <2>1, <2>2 DEF AccountInv, RowInv, ToldInv, LiveInv
<1>2. TypeInv /\ OwnInv /\ (Patient => AccountsInv) /\ [Next]_vars => (Patient => AccountsInv)'
  BY AccountsNext
<1> QED BY <1>1, <1>2, TypeAlways, OwnAlways, PTL DEF Spec

\* A set all of whose members are alike has one member at most.
LEMMA OneAtMost ==
  ASSUME NEW S, \A x, y \in S : x = y
  PROVE  Cardinality(S) <= 1
<1>1. CASE S = {}
  BY <1>1, FS_EmptySet
<1>2. ASSUME NEW x \in S
      PROVE  Cardinality(S) <= 1
  <2>1. S = {x}
    OBVIOUS
  <2> QED BY <2>1, FS_Singleton
<1> QED BY <1>1, <1>2

\* Whatever the services did before, an account at rest has one session at most,
\* if its client waits for its answers, no login of it failed and no deletion of it
\* overlapped another request.
THEOREM OneTokenCorrect == Spec => [](Patient => OneLiveToken)
<1>1. AccountsInv => OneLiveToken
  <2> SUFFICES ASSUME AccountsInv, NEW a \in Accounts \ (failed \cup crossed), ~ Busy(a)
               PROVE  Cardinality(LiveOf(a)) <= 1
    BY DEF OneLiveToken
  <2>1. AccountInv(a) /\ \A w \in Workers : work[w].account # a
    BY DEF AccountsInv, Busy
  <2>2. \A t \in LiveOf(a) : \E r \in Rows(a) : r.token = t
    BY <2>1 DEF AccountInv, LiveInv
  <2>3. \A t, u \in LiveOf(a) : t = u
    BY <2>1, <2>2 DEF AccountInv, RowInv
  <2> QED BY <2>3, OneAtMost
<1> QED BY <1>1, AccountsAlways, PTL

\* The table knows the session of an account at rest, so that it can be ended, with
\* the same exceptions.
THEOREM TableCorrect == Spec => [](Patient => TableKnowsToken)
<1>1. AccountsInv => TableKnowsToken
  <2> SUFFICES ASSUME AccountsInv, NEW a \in Accounts \ (failed \cup crossed), ~ Busy(a)
               PROVE  LiveOf(a) \subseteq {r.token : r \in Rows(a)}
    BY DEF TableKnowsToken
  <2> QED BY DEF AccountsInv, Busy, AccountInv, LiveInv
<1> QED BY <1>1, AccountsAlways, PTL

\* What a client was told is a session of its user until a service ends it, unless a
\* deletion of the account overlapped another request.
THEOREM AnswerCorrect == Spec => [](Patient => AnswerHonored)
<1>1. AccountsInv => AnswerHonored
  BY DEF AccountsInv, AccountInv, ToldInv, AnswerHonored
<1> QED BY <1>1, AccountsAlways, PTL
=============================================================================
