------------------------------ MODULE Sessions ------------------------------
(***************************************************************************)
(* AuthService over SessionService: a session is a row of user_sessions    *)
(* and a copy of it in Redis, written one after the other by logins,       *)
(* refreshes and logouts that overlap.  A call is one request, and one     *)
(* action is what it does between two awaits.  The names of the callers'   *)
(* tokens and sessions are those of uuidv4: no two are equal.              *)
(***************************************************************************)
EXTENDS Integers, FiniteSets

CONSTANTS
  Users,
  Ids,      \* what uuidv4 returns: ids of session rows and ids put in tokens
  Calls,    \* requests; each runs once
  None,     \* the absence of a row, a key, a user or an id
  MaxAge,   \* config.session.maxAge, in ticks
  Failing,  \* calls to PostgreSQL and Redis may throw
  MaxTime   \* bound: ticks of the clock

ASSUME SessionAssumption ==
  /\ None \notin Users \cup Ids
  /\ MaxAge \in Nat \ {0}
  /\ Failing \in BOOLEAN
  /\ MaxTime \in Nat

VARIABLES
  now,       \* now         : the clock of the server and of the database
  isActive,  \* isActive[u] : users.is_active
  owner,     \* owner[s]    : user_sessions.user_id, None where there is no row
  expires,   \* expires[s]  : user_sessions.expires_at, 0 where there is no row
  key,       \* key[s]      : expiresAt of the Redis value session:s, or None
  tokens,    \* tokens      : [user, sid] of every token handed out
  pc,        \* pc[c]       : the await the call is at
  call,      \* call[c]     : the request
  user,      \* user[c]     : the user it is about, once it knows
  exp,       \* exp[c]      : the expiry it computed
  found,     \* found[c]    : the sessions it is about to remove
  spent,     \* spent       : ids that were generated
  granted    \* granted[s]  : the latest expiry the table ever held for s

table == <<owner, expires, granted>>
held == <<call, user, exp, found>>
vars == <<now, isActive, table, key, tokens, pc, held, spent>>

Times == 0..(MaxTime + MaxAge)

(* A request: its kind, the session it names, the id a login puts in the    *)
(* token; and, for the properties, whether that session was dead and its   *)
(* user inactive when it started.                                          *)
Request ==
  [kind : {"none", "login", "validate", "refresh", "logout", "logoutAll", "deactivate"},
   sid : Ids \cup {None}, tok : Ids \cup {None}, dead : BOOLEAN, off : BOOLEAN]

Init ==
  /\ now = 0
  /\ isActive = [u \in Users |-> TRUE]
  /\ owner = [s \in Ids |-> None]
  /\ expires = [s \in Ids |-> 0]
  /\ granted = [s \in Ids |-> 0]
  /\ key = [s \in Ids |-> None]
  /\ tokens = {}
  /\ pc = [c \in Calls |-> "idle"]
  /\ call = [c \in Calls |->
               [kind |-> "none", sid |-> None, tok |-> None, dead |-> FALSE, off |-> FALSE]]
  /\ user = [c \in Calls |-> None]
  /\ exp = [c \in Calls |-> 0]
  /\ found = [c \in Calls |-> {}]
  /\ spent = {}

Goto(c, at) == pc' = [pc EXCEPT ![c] = at]

Later(a, b) == IF a < b THEN b ELSE a

HasRow(s) == owner[s] # None

(* The row exists and expires_at > CURRENT_TIMESTAMP. *)
Live(s) == HasRow(s) /\ expires[s] > now

(* A session that had a row and has none any more. *)
Deleted(s) == s \in spent /\ granted[s] > 0 /\ ~HasRow(s)

DeleteRows(S) ==
  /\ owner' = [s \in Ids |-> IF s \in S THEN None ELSE owner[s]]
  /\ expires' = [s \in Ids |-> IF s \in S THEN 0 ELSE expires[s]]
  /\ UNCHANGED granted

(* Request c arrives. *)
Start(c, kind, s, t, dead, off) ==
  /\ pc[c] = "idle"
  /\ call' = [call EXCEPT ![c] =
               [kind |-> kind, sid |-> s, tok |-> t, dead |-> dead, off |-> off]]
  /\ UNCHANGED <<now, table, key, tokens>>

-----------------------------------------------------------------------------
(* login: findOrCreateUser returns a user whether active or not; the token *)
(* carries an id of generateSessionId, the row an id of createSession.     *)
StartLogin(c, u, t, s) ==
  /\ {t, s} \cap spent = {} /\ t # s
  /\ Start(c, "login", s, t, FALSE, FALSE)
  /\ spent' = spent \cup {t, s}
  /\ user' = [user EXCEPT ![c] = u]
  /\ exp' = [exp EXCEPT ![c] = now + MaxAge]
  /\ Goto(c, "insert")
  /\ UNCHANGED <<isActive, found>>

InsertRow(c) ==
  /\ pc[c] = "insert"
  /\ LET s == call[c].sid IN
       /\ owner' = [owner EXCEPT ![s] = user[c]]
       /\ expires' = [expires EXCEPT ![s] = exp[c]]
       /\ granted' = [granted EXCEPT ![s] = exp[c]]
  /\ Goto(c, "setKey")
  /\ UNCHANGED <<now, isActive, key, tokens, held, spent>>

SetKey(c) ==
  /\ pc[c] = "setKey"
  /\ key' = [key EXCEPT ![call[c].sid] = exp[c]]
  /\ tokens' = tokens \cup {[user |-> user[c], sid |-> call[c].tok]}
  /\ Goto(c, "done")
  /\ UNCHANGED <<now, isActive, table, held, spent>>

-----------------------------------------------------------------------------
(* validateToken with a token, refreshToken with the id of a session: both *)
(* begin with getSession, whose user is the token's in the one case and    *)
(* the row's in the other.                                                 *)
StartValidate(c, token) ==
  /\ Start(c, "validate", token.sid, None, Deleted(token.sid), ~isActive[token.user])
  /\ user' = [user EXCEPT ![c] = token.user]
  /\ Goto(c, "getKey")
  /\ UNCHANGED <<isActive, exp, found, spent>>

StartRefresh(c, s) ==
  /\ Start(c, "refresh", s, None, Deleted(s), HasRow(s) /\ ~isActive[owner[s]])
  /\ Goto(c, "getKey")
  /\ UNCHANGED <<isActive, user, exp, found, spent>>

(* mutant: the Redis value is left to its time to live *)
GetKeyUnchecked(c) ==
  /\ pc[c] = "getKey"
  /\ Goto(c, IF key[call[c].sid] # None THEN "getRow" ELSE "getLive")
  /\ UNCHANGED <<now, isActive, table, key, tokens, held, spent>>

GetKey(c) ==
  /\ pc[c] = "getKey"
  /\ LET k == key[call[c].sid] IN
       Goto(c, IF k # None /\ k > now THEN "getRow" ELSE "getLive")
  /\ UNCHANGED <<now, isActive, table, key, tokens, held, spent>>

(* The session was found: a refresh goes on with the row's user. *)
Found(c) ==
  /\ user' = IF call[c].kind = "refresh" THEN [user EXCEPT ![c] = owner[call[c].sid]] ELSE user
  /\ Goto(c, "getUser")

(* mutant: the Redis copy is as good as the row *)
GetRowTrusting(c) ==
  /\ pc[c] = "getRow"
  /\ IF HasRow(call[c].sid) THEN Found(c)
     ELSE /\ Goto(c, IF call[c].kind = "validate" THEN "getUser" ELSE "getLive")
          /\ UNCHANGED user
  /\ UNCHANGED <<now, isActive, table, key, tokens, call, exp, found, spent>>

(* Redis vouches for the expiry, so this SELECT does not ask for it. *)
GetRow(c) ==
  /\ pc[c] = "getRow"
  /\ IF HasRow(call[c].sid) THEN Found(c) ELSE Goto(c, "getLive") /\ UNCHANGED user
  /\ UNCHANGED <<now, isActive, table, key, tokens, call, exp, found, spent>>

GetLive(c) ==
  /\ pc[c] = "getLive"
  /\ IF Live(call[c].sid) THEN Found(c) ELSE Goto(c, "refused") /\ UNCHANGED user
  /\ UNCHANGED <<now, isActive, table, key, tokens, call, exp, found, spent>>

(* The user has been read: a validation ends, a refresh computes its expiry. *)
Admit(c) ==
  IF call[c].kind = "validate" THEN Goto(c, "accepted") /\ UNCHANGED exp
  ELSE Goto(c, "extend") /\ exp' = [exp EXCEPT ![c] = now + MaxAge]

(* mutant: deactivateUser has removed the sessions, so nobody asks *)
GetUserUnchecked(c) ==
  /\ pc[c] = "getUser"
  /\ Admit(c)
  /\ UNCHANGED <<now, isActive, table, key, tokens, call, user, found, spent>>

GetUser(c) ==
  /\ pc[c] = "getUser"
  /\ IF isActive[user[c]] THEN Admit(c) ELSE Goto(c, "refused") /\ UNCHANGED exp
  /\ UNCHANGED <<now, isActive, table, key, tokens, call, user, found, spent>>

-----------------------------------------------------------------------------

(* extendSession: the row, if it has not expired, then the Redis copy, if  *)
(* there is one; refreshToken stores and returns a token of the session.   *)
ExtendRow(c) ==
  /\ pc[c] = "extend"
  /\ LET s == call[c].sid IN
       IF Live(s)
       THEN /\ expires' = [expires EXCEPT ![s] = exp[c]]
            /\ granted' = [granted EXCEPT ![s] = Later(@, exp[c])]
            /\ Goto(c, "readKey")
       ELSE Goto(c, "refused") /\ UNCHANGED <<expires, granted>>
  /\ UNCHANGED <<now, isActive, owner, key, tokens, held, spent>>

ReadKey(c) ==
  /\ pc[c] = "readKey"
  /\ Goto(c, IF key[call[c].sid] # None THEN "writeKey" ELSE "setToken")
  /\ UNCHANGED <<now, isActive, table, key, tokens, held, spent>>

WriteKey(c) ==
  /\ pc[c] = "writeKey"
  /\ key' = [key EXCEPT ![call[c].sid] = exp[c]]
  /\ Goto(c, "setToken")
  /\ UNCHANGED <<now, isActive, table, tokens, held, spent>>

SetToken(c) ==
  /\ pc[c] = "setToken"
  /\ tokens' = tokens \cup {[user |-> user[c], sid |-> call[c].sid]}
  /\ Goto(c, "done")
  /\ UNCHANGED <<now, isActive, table, key, held, spent>>

-----------------------------------------------------------------------------
(* logout removes the Redis copy, then the row. *)
StartLogout(c, s) ==
  /\ Start(c, "logout", s, None, FALSE, FALSE)
  /\ found' = [found EXCEPT ![c] = {s}]
  /\ Goto(c, "delKeys")
  /\ UNCHANGED <<isActive, user, exp, spent>>

(* logoutAll; deactivateUser does the same once the user is inactive *)
StartLogoutAll(c, u) ==
  /\ Start(c, "logoutAll", None, None, FALSE, FALSE)
  /\ user' = [user EXCEPT ![c] = u]
  /\ Goto(c, "select")
  /\ UNCHANGED <<isActive, exp, found, spent>>

Deactivate(c, u) ==
  /\ Start(c, "deactivate", None, None, FALSE, FALSE)
  /\ isActive' = [isActive EXCEPT ![u] = FALSE]
  /\ user' = [user EXCEPT ![c] = u]
  /\ Goto(c, "select")
  /\ UNCHANGED <<exp, found, spent>>

OwnedBy(u) == {s \in Ids : owner[s] = u}

SelectIds(c) ==
  /\ pc[c] = "select"
  /\ found' = [found EXCEPT ![c] = OwnedBy(user[c])]
  /\ Goto(c, IF OwnedBy(user[c]) = {} THEN "delRows" ELSE "delKeys")
  /\ UNCHANGED <<now, isActive, table, key, tokens, call, user, exp, spent>>

DelKeys(c) ==
  /\ pc[c] = "delKeys"
  /\ key' = [s \in Ids |-> IF s \in found[c] THEN None ELSE key[s]]
  /\ Goto(c, "delRows")
  /\ UNCHANGED <<now, isActive, table, tokens, held, spent>>

(* one session by its id, or whatever the user owns by now *)
DelRows(c) ==
  /\ pc[c] = "delRows"
  /\ DeleteRows(IF call[c].kind = "logout" THEN found[c] ELSE OwnedBy(user[c]))
  /\ Goto(c, "done")
  /\ UNCHANGED <<now, isActive, key, tokens, held, spent>>

-----------------------------------------------------------------------------
(* cleanup_expired_sessions() *)
Cleanup ==
  /\ DeleteRows({s \in Ids : HasRow(s) /\ expires[s] < now})
  /\ UNCHANGED <<now, isActive, key, tokens, pc, held, spent>>

(* An await that throws: getSession turns the error into a null session,   *)
(* every other method lets the request fail where it is.                   *)
Fail(c) ==
  /\ Failing
  /\ pc[c] \notin {"idle", "done", "refused", "accepted", "failed"}
  /\ Goto(c, IF pc[c] \in {"getKey", "getRow", "getLive"} THEN "refused" ELSE "failed")
  /\ UNCHANGED <<now, isActive, table, key, tokens, held, spent>>

(* Redis drops a key: its time to live is over, or memory is short. *)
Evict(s) ==
  /\ key' = [key EXCEPT ![s] = None]
  /\ UNCHANGED <<now, isActive, table, tokens, pc, held, spent>>

Tick ==
  /\ now < MaxTime
  /\ now' = now + 1
  /\ UNCHANGED <<isActive, table, key, tokens, pc, held, spent>>

Next ==
  \/ \E c \in Calls :
       \/ \E u \in Users :
            \/ \E t, s \in Ids : StartLogin(c, u, t, s)
            \/ StartLogoutAll(c, u)
            \/ Deactivate(c, u)
       \/ \E token \in tokens : StartValidate(c, token)
       \/ \E s \in spent : StartRefresh(c, s) \/ StartLogout(c, s)
       \/ InsertRow(c) \/ SetKey(c)
       \/ GetKey(c) \/ GetRow(c) \/ GetLive(c) \/ GetUser(c)
       \/ ExtendRow(c) \/ ReadKey(c) \/ WriteKey(c) \/ SetToken(c)
       \/ SelectIds(c) \/ DelKeys(c) \/ DelRows(c)
       \/ Fail(c)
  \/ Cleanup
  \/ \E s \in Ids : Evict(s)
  \/ Tick

Spec == Init /\ [][Next]_vars

-----------------------------------------------------------------------------
(* TypeOK: every variable keeps its type; no expiry lies further ahead     *)
(* than one maxAge after the last tick.                                    *)
TypeOK ==
  /\ now \in 0..MaxTime
  /\ isActive \in [Users -> BOOLEAN]
  /\ owner \in [Ids -> Users \cup {None}]
  /\ expires \in [Ids -> Times]
  /\ key \in [Ids -> Times \cup {None}]
  /\ tokens \subseteq [user : Users, sid : Ids]
  /\ pc \in [Calls -> {"idle", "insert", "setKey", "getKey", "getRow", "getLive", "getUser",
                       "extend", "readKey", "writeKey", "setToken", "select", "delKeys",
                       "delRows", "accepted", "refused", "failed", "done"}]
  /\ call \in [Calls -> Request]
  /\ user \in [Calls -> Users \cup {None}]
  /\ exp \in [Calls -> Times]
  /\ found \in [Calls -> SUBSET Ids]
  /\ spent \subseteq Ids
  /\ granted \in [Ids -> Times]

(* A validation that says yes, or a refresh that extends. *)
LetIn(c) ==
  \/ pc[c] \in {"accepted", "extend", "readKey", "writeKey", "setToken"}
  \/ pc[c] = "done" /\ call[c].kind = "refresh"

(* LoggedOutStaysOut: a request that starts after its session was deleted  *)
(* is not let in, although a refresh that overlapped the logout may have   *)
(* written the Redis copy again after it was removed.                      *)
LoggedOutStaysOut == \A c \in Calls : LetIn(c) => ~call[c].dead

(* DeactivatedIsOut: a request that starts after its user was deactivated  *)
(* is not let in, although a login that overlapped deactivateUser may have *)
(* inserted a session after the user's sessions were removed.              *)
DeactivatedIsOut == \A c \in Calls : LetIn(c) => ~call[c].off

(* ExpiryIsGranted: when Redis or the row vouches that a session has not   *)
(* expired, the table has held an expiry that late for it: refreshes that  *)
(* overlap can leave the two copies apart, but neither runs ahead of every *)
(* expiry granted.                                                         *)
ExpiryIsGranted ==
  [][\A c \in Calls :
       \/ pc[c] = "getKey" /\ pc'[c] = "getRow"
       \/ pc[c] = "getLive" /\ pc'[c] = "getUser"
       => now < granted[call[c].sid]]_vars

-----------------------------------------------------------------------------
(* What the repository says of it and the code does not do.                *)

(* LoginTokenIsAccepted (docs/api/authentication.md:92): while no session  *)
(* was deleted, no time has passed, nobody was deactivated and no call     *)
(* failed, the token of a login is accepted.                               *)
LoginTokenIsAccepted ==
  \A c \in Calls :
    pc[c] = "refused" /\ call[c].kind = "validate" =>
      \/ now > 0
      \/ ~isActive[user[c]]
      \/ \E s \in Ids : Deleted(s)
      \/ \E d \in Calls : pc[d] = "failed"

(* SessionIsNotOutlived (database/migrations/002_add_users_and_sessions.sql:92): *)
(* Redis never vouches for a session longer than the table does.           *)
SessionIsNotOutlived ==
  \A s \in Ids : HasRow(s) /\ key[s] # None
                   /\ ~(\E c \in Calls : pc[c] \in {"readKey", "writeKey"}) =>
                 key[s] <= expires[s]
=============================================================================
