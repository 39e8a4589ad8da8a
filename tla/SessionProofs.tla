--------------------------- MODULE SessionProofs ---------------------------
(***************************************************************************)
(* Who is asking and what they may do, for every value of the constants:   *)
(* sessions that stay ended, accounts that stay locked out, sign-ons that  *)
(* are of their person's account, requests that are allowed what their     *)
(* account was allowed while they lasted, and offers that can be carried   *)
(* out.                                                                    *)
(***************************************************************************)
EXTENDS Sessions, Access, TLAPS

-----------------------------------------------------------------------------
(* Sessions.  Rows are inserted under ids never used before and never      *)
(* come back, so a session once deleted stays deleted whatever is written  *)
(* to Redis (DeadStays); the database alone lets a request in.             *)

(* What waits at each await is the request the code sends there. *)
LoginShape ==
  \A c \in Calls :
    /\ pc[c] \in {"insert", "setKey"} =>
         /\ call[c].kind = "login" /\ user[c] \in Users
         /\ call[c].sid \in Ids /\ call[c].tok \in Ids
    /\ pc[c] \in {"select", "delKeys", "delRows"} =>
         call[c].kind \in {"logout", "logoutAll", "deactivate"}

SessionShape ==
  \A c \in Calls :
    /\ pc[c] \in {"getKey", "getRow", "getLive", "getUser"} =>
         call[c].kind \in {"validate", "refresh"} /\ call[c].sid \in Ids
    /\ pc[c] \in {"extend", "readKey", "writeKey", "setToken"} =>
         call[c].kind = "refresh" /\ call[c].sid \in Ids
    /\ pc[c] \in {"getUser", "extend", "readKey", "writeKey", "setToken"} => user[c] \in Users
    /\ call[c].kind = "validate" => user[c] \in Users
    /\ call[c].dead \/ call[c].off =>
         call[c].kind \in {"validate", "refresh"} /\ call[c].sid \in Ids
    /\ pc[c] = "idle" => call[c].kind = "none"

(* A login inserts its row under an id that no row had. *)
InsertsAreFresh ==
  \A c \in Calls : pc[c] = "insert" =>
    /\ call[c].sid \in spent
    /\ granted[call[c].sid] = 0
    /\ exp[c] > 0
    /\ \A d \in Calls \ {c} : pc[d] = "insert" => call[d].sid # call[c].sid

(* Only sessions that were granted have a row or a Redis value, and neither  *)
(* a copy nor one about to be written outlives what was granted.             *)
WithinGrant ==
  /\ \A s \in Ids :
       /\ granted[s] > 0 => s \in spent
       /\ HasRow(s) => granted[s] > 0
       /\ expires[s] <= granted[s]
       /\ key[s] # None => key[s] <= granted[s]
  /\ \A c \in Calls : pc[c] \in {"setKey", "readKey", "writeKey"} =>
                        exp[c] <= granted[call[c].sid]

(* A call that started after its session was deleted finds no row. *)
DeadStays ==
  \A c \in Calls : call[c].dead =>
    Deleted(call[c].sid) /\ pc[c] # "getUser" /\ ~LetIn(c)

(* A call that started after its user was deactivated finds the user inactive. *)
OffStays ==
  \A c \in Calls : call[c].off =>
    /\ ~LetIn(c)
    /\ call[c].kind = "validate" => ~isActive[user[c]]
    /\ call[c].kind = "refresh" =>
         /\ granted[call[c].sid] > 0
         /\ HasRow(call[c].sid) => ~isActive[owner[call[c].sid]]
         /\ pc[c] = "getUser" => ~isActive[user[c]]

(* The inductive invariant. *)
IInv ==
  /\ TypeOK
  /\ LoginShape
  /\ SessionShape
  /\ InsertsAreFresh
  /\ WithinGrant
  /\ DeadStays
  /\ OffStays

(* No call has started and there is no session.                               *)
LEMMA InitInvariant == Init => IInv
  BY SessionAssumption
  DEF SessionAssumption, Init, IInv, TypeOK, LoginShape, SessionShape, InsertsAreFresh,
      WithinGrant, DeadStays, OffStays, LetIn, Deleted, HasRow, Request, Times, table, held

(* A login takes two ids that were never used, so no other pending insert has *)
(* its row's.                                                                 *)
LEMMA StartLoginKeeps == ASSUME IInv, NEW c \in Calls, NEW u \in Users, NEW t \in Ids,
                                 NEW s \in Ids,
                                 StartLogin(c, u, t, s)
      PROVE  IInv'
  BY SessionAssumption
  DEF SessionAssumption, IInv, TypeOK, LoginShape, SessionShape, InsertsAreFresh,
      WithinGrant, DeadStays, OffStays, LetIn, Deleted, HasRow, Request, Times, Start, Goto,
      table, held, StartLogin

(* The row is granted an expiry when it appears, under an id that had no row: *)
(* no call can have found it dead or its user inactive.                       *)
LEMMA InsertRowKeeps == ASSUME IInv, NEW c \in Calls, InsertRow(c) PROVE IInv'
  BY SessionAssumption
  DEF SessionAssumption, InsertRow, Goto, IInv, TypeOK, LoginShape, SessionShape,
      InsertsAreFresh, WithinGrant, DeadStays, OffStays, LetIn, Deleted, HasRow, Request,
      Times, table, held

(* The Redis copy holds the expiry the row was granted.                       *)
LEMMA SetKeyKeeps == ASSUME IInv, NEW c \in Calls, SetKey(c) PROVE IInv'
  BY SessionAssumption
  DEF SessionAssumption, SetKey, Goto, IInv, TypeOK, LoginShape, SessionShape,
      InsertsAreFresh, WithinGrant, DeadStays, OffStays, LetIn, Deleted, HasRow, Request,
      Times, table, held

(* A validation starts with the user of a token; what it remembers of the     *)
(* session and the user is what holds at that moment.                         *)
LEMMA StartValidateKeeps == ASSUME IInv, NEW c \in Calls, NEW token \in tokens,
                                    StartValidate(c, token)
      PROVE  IInv'
  BY SessionAssumption
  DEF SessionAssumption, IInv, TypeOK, LoginShape, SessionShape, InsertsAreFresh,
      WithinGrant, DeadStays, OffStays, LetIn, Deleted, HasRow, Request, Times, Start, Goto,
      table, held, StartValidate

(* A refresh starts with the id of a session that was generated.              *)
LEMMA StartRefreshKeeps == ASSUME IInv, NEW c \in Calls, NEW s \in spent, StartRefresh(c, s)
      PROVE  IInv'
  BY SessionAssumption
  DEF SessionAssumption, IInv, TypeOK, LoginShape, SessionShape, InsertsAreFresh,
      WithinGrant, DeadStays, OffStays, LetIn, Deleted, HasRow, Request, Times, Start, Goto,
      table, held, StartRefresh

(* Reading the Redis key only moves the call.                                 *)
LEMMA GetKeyKeeps == ASSUME IInv, NEW c \in Calls, GetKey(c) PROVE IInv'
  BY SessionAssumption
  DEF SessionAssumption, GetKey, Goto, IInv, TypeOK, LoginShape, SessionShape,
      InsertsAreFresh, WithinGrant, DeadStays, OffStays, LetIn, Deleted, HasRow, Request,
      Times, table, held

(* The row exists or the call goes on to ask for a live one; a refresh takes  *)
(* the row's user.                                                            *)
LEMMA GetRowKeeps == ASSUME IInv, NEW c \in Calls, GetRow(c) PROVE IInv'
  <1> DEFINE s == call[c].sid
  <1>1. pc[c] = "getRow" /\ s \in Ids /\ call[c].kind \in {"validate", "refresh"}
    BY DEF GetRow, IInv, SessionShape
  <1>2. CASE HasRow(s) /\ call[c].kind = "refresh"
    <2>1. owner[s] \in Users /\ user' = [user EXCEPT ![c] = owner[s]]
      BY <1>1, <1>2 DEF GetRow, Found, HasRow, IInv, TypeOK
    <2> QED
      BY <1>1, <1>2, <2>1, SessionAssumption
      DEF SessionAssumption, IInv, TypeOK, LoginShape, SessionShape, InsertsAreFresh,
          WithinGrant, DeadStays, OffStays, LetIn, Deleted, HasRow, Request, Times, table,
          held, GetRow, Found, Goto
  <1>3. CASE HasRow(s) /\ call[c].kind = "validate"
    <2>1. user' = user /\ user[c] \in Users
      BY <1>1, <1>3 DEF GetRow, Found, IInv, SessionShape
    <2> QED
      BY <1>1, <1>3, <2>1, SessionAssumption
      DEF SessionAssumption, IInv, TypeOK, LoginShape, SessionShape, InsertsAreFresh,
          WithinGrant, DeadStays, OffStays, LetIn, Deleted, HasRow, Request, Times, table,
          held, GetRow, Found, Goto
  <1>4. CASE ~HasRow(s)
    <2>1. pc' = [pc EXCEPT ![c] = "getLive"] /\ user' = user
      BY <1>4 DEF GetRow, Goto
    <2> QED
      BY <1>1, <1>4, <2>1, SessionAssumption
      DEF SessionAssumption, IInv, TypeOK, LoginShape, SessionShape, InsertsAreFresh,
          WithinGrant, DeadStays, OffStays, LetIn, Deleted, HasRow, Request, Times, table,
          held, GetRow
  <1> QED
    BY <1>1, <1>2, <1>3, <1>4

(* A live row is there, or the call is refused.                               *)
LEMMA GetLiveKeeps == ASSUME IInv, NEW c \in Calls, GetLive(c) PROVE IInv'
  <1> DEFINE s == call[c].sid
  <1>1. /\ pc[c] = "getLive" /\ s \in Ids /\ call[c].kind \in {"validate", "refresh"}
        /\ UNCHANGED <<now, isActive, owner, expires, granted, key, tokens, call, exp, found,
                       spent>>
    BY DEF GetLive, IInv, SessionShape, table
  <1>2. CASE Live(s) /\ call[c].kind = "refresh"
    <2>1. /\ owner[s] \in Users /\ user' = [user EXCEPT ![c] = owner[s]]
          /\ pc' = [pc EXCEPT ![c] = "getUser"]
      BY <1>1, <1>2 DEF GetLive, Found, Goto, Live, HasRow, IInv, TypeOK
    <2> QED
      BY <1>1, <1>2, <2>1
      DEF IInv, TypeOK, LoginShape, SessionShape, InsertsAreFresh, WithinGrant, DeadStays,
          OffStays, LetIn, Deleted, HasRow, Live
  <1>3. CASE Live(s) /\ call[c].kind = "validate"
    <2>1. user' = user /\ user[c] \in Users /\ pc' = [pc EXCEPT ![c] = "getUser"]
      BY <1>1, <1>3 DEF GetLive, Found, Goto, IInv, SessionShape
    <2> QED
      BY <1>1, <1>3, <2>1
      DEF IInv, TypeOK, LoginShape, SessionShape, InsertsAreFresh, WithinGrant, DeadStays,
          OffStays, LetIn, Deleted, HasRow, Live
  <1>4. CASE ~Live(s)
    <2>1. pc' = [pc EXCEPT ![c] = "refused"] /\ user' = user
      BY <1>4 DEF GetLive, Goto
    <2> QED
      BY <1>1, <1>4, <2>1
      DEF IInv, TypeOK, LoginShape, SessionShape, InsertsAreFresh, WithinGrant, DeadStays,
          OffStays, LetIn, Deleted, HasRow
  <1> QED
    BY <1>1, <1>2, <1>3, <1>4

(* The user is active and the call is let in, or it is refused: a call whose  *)
(* user was off finds the user inactive, one whose session was dead never     *)
(* comes here.                                                                *)
LEMMA GetUserKeeps == ASSUME IInv, NEW c \in Calls, GetUser(c) PROVE IInv'
  <1>1. CASE isActive[user[c]] /\ call[c].kind = "validate"
    BY <1>1, SessionAssumption
    DEF SessionAssumption, IInv, TypeOK, LoginShape, SessionShape, InsertsAreFresh,
        WithinGrant, DeadStays, OffStays, LetIn, Deleted, HasRow, Request, Times, table,
        held, GetUser, Admit, Goto
  <1>2. CASE isActive[user[c]] /\ call[c].kind # "validate"
    <2>1. /\ exp' = [exp EXCEPT ![c] = now + MaxAge] /\ now + MaxAge \in Times
          /\ pc' = [pc EXCEPT ![c] = "extend"]
      BY <1>2, SessionAssumption
      DEF SessionAssumption, GetUser, Admit, Goto, IInv, TypeOK, Times
    <2>2. pc[c] = "getUser" /\ call[c].kind = "refresh" /\ ~call[c].dead /\ ~call[c].off
      BY <1>2 DEF GetUser, IInv, SessionShape, DeadStays, OffStays
    <2>3. UNCHANGED <<now, isActive, owner, expires, granted, key, tokens, call, user, found,
                     spent>>
      BY DEF GetUser, table
    <2>4. user[c] \in Users /\ call[c].sid \in Ids
      BY <2>2 DEF IInv, SessionShape
    <2>5. TypeOK'
      BY <2>1, <2>2, <2>3 DEF IInv, TypeOK
    <2>6. LoginShape' /\ SessionShape' /\ InsertsAreFresh'
      BY <2>1, <2>2, <2>3, <2>4 DEF IInv, TypeOK, LoginShape, SessionShape, InsertsAreFresh
    <2>7. WithinGrant'
      BY <2>1, <2>2, <2>3 DEF IInv, TypeOK, WithinGrant, HasRow
    <2>8. DeadStays' /\ OffStays'
      BY <2>1, <2>2, <2>3
      DEF IInv, TypeOK, SessionShape, DeadStays, OffStays, LetIn, Deleted, HasRow
    <2> QED
      BY <2>5, <2>6, <2>7, <2>8 DEF IInv
  <1>3. CASE ~isActive[user[c]]
    <2>1. /\ pc[c] = "getUser" /\ pc' = [pc EXCEPT ![c] = "refused"]
          /\ UNCHANGED <<now, isActive, owner, expires, granted, key, tokens, call, user, exp,
                         found, spent>>
      BY <1>3 DEF GetUser, Goto, table
    <2> QED
      BY <2>1
      DEF IInv, TypeOK, LoginShape, SessionShape, InsertsAreFresh, WithinGrant, DeadStays,
          OffStays, LetIn, Deleted, HasRow
  <1> QED
    BY <1>1, <1>2, <1>3

(* The row is extended if it is live: what was granted only grows.            *)
LEMMA ExtendRowKeeps == ASSUME IInv, NEW c \in Calls, ExtendRow(c) PROVE IInv'
  <1> DEFINE s == call[c].sid
  <1>1. pc[c] = "extend" /\ s \in Ids /\ call[c].kind = "refresh" /\ user[c] \in Users
    BY DEF ExtendRow, IInv, SessionShape
  <1>2. CASE Live(s)
    <2> DEFINE g == Later(granted[s], exp[c])
    <2>1. /\ exp[c] \in Times /\ granted[s] \in Times
          /\ g \in Times /\ exp[c] <= g /\ granted[s] <= g
      BY <1>1, SessionAssumption DEF SessionAssumption, IInv, TypeOK, Times, Later
    <2>2. /\ pc' = [pc EXCEPT ![c] = "readKey"]
          /\ expires' = [expires EXCEPT ![s] = exp[c]]
          /\ granted' = [granted EXCEPT ![s] = g]
          /\ UNCHANGED <<now, isActive, owner, key, tokens, call, user, exp, found, spent>>
      BY <1>2 DEF ExtendRow, Goto, held
    <2>3. granted[s] > 0
      BY <1>1, <1>2 DEF Live, IInv, WithinGrant
    <2> HIDE DEF g
    <2>4. /\ \A r \in Ids : granted'[r] >= granted[r] /\ (granted'[r] > 0 <=> granted[r] > 0)
          /\ \A d \in Calls : pc'[d] = "insert" => pc[d] = "insert"
      <3>1. ASSUME NEW r \in Ids
            PROVE  granted'[r] >= granted[r] /\ (granted'[r] > 0 <=> granted[r] > 0)
        <4>1. CASE r = s
          BY <1>1, <2>1, <2>2, <2>3, <4>1, SessionAssumption
          DEF SessionAssumption, IInv, TypeOK, Times
        <4>2. CASE r # s
          BY <1>1, <2>1, <2>2, <4>2, SessionAssumption
          DEF SessionAssumption, IInv, TypeOK, Times
        <4> QED
          BY <4>1, <4>2
      <3> QED
        BY <1>1, <2>2, <3>1 DEF IInv, TypeOK
    <2>5. TypeOK' /\ LoginShape' /\ SessionShape'
      BY <1>1, <2>1, <2>2 DEF IInv, TypeOK, LoginShape, SessionShape
    <2>8. InsertsAreFresh'
      BY <1>1, <2>1, <2>2, <2>3 DEF IInv, TypeOK, LoginShape, InsertsAreFresh
    <2>6. WithinGrant'
      BY <1>1, <2>1, <2>2, <2>3, <2>4, SessionAssumption
      DEF SessionAssumption, IInv, TypeOK, Times, WithinGrant, HasRow, LoginShape,
          SessionShape
    <2>7. DeadStays' /\ OffStays'
      BY <1>1, <2>2, <2>4
      DEF IInv, TypeOK, SessionShape, DeadStays, OffStays, LetIn, Deleted, HasRow
    <2> QED
      BY <2>5, <2>6, <2>7, <2>8 DEF IInv
  <1>3. CASE ~Live(s)
    BY <1>1, <1>3, SessionAssumption
    DEF SessionAssumption, IInv, TypeOK, LoginShape, SessionShape, InsertsAreFresh,
        WithinGrant, DeadStays, OffStays, LetIn, Deleted, HasRow, Request, Times, table,
        held, ExtendRow, Goto
  <1> QED
    BY <1>2, <1>3

(* Reading the Redis key only moves the call.                                 *)
LEMMA ReadKeyKeeps == ASSUME IInv, NEW c \in Calls, ReadKey(c) PROVE IInv'
  BY SessionAssumption
  DEF SessionAssumption, ReadKey, Goto, IInv, TypeOK, LoginShape, SessionShape,
      InsertsAreFresh, WithinGrant, DeadStays, OffStays, LetIn, Deleted, HasRow, Request,
      Times, table, held

(* The Redis value is the expiry the table was given before.                  *)
LEMMA WriteKeyKeeps == ASSUME IInv, NEW c \in Calls, WriteKey(c) PROVE IInv'
  BY SessionAssumption
  DEF SessionAssumption, WriteKey, Goto, IInv, TypeOK, LoginShape, SessionShape,
      InsertsAreFresh, WithinGrant, DeadStays, OffStays, LetIn, Deleted, HasRow, Request,
      Times, table, held

(* The token of the refresh names a session and a user.                       *)
LEMMA SetTokenKeeps == ASSUME IInv, NEW c \in Calls, SetToken(c) PROVE IInv'
  BY SessionAssumption
  DEF SessionAssumption, SetToken, Goto, IInv, TypeOK, LoginShape, SessionShape,
      InsertsAreFresh, WithinGrant, DeadStays, OffStays, LetIn, Deleted, HasRow, Request,
      Times, table, held

(* A logout names the session it will remove.                                 *)
LEMMA StartLogoutKeeps == ASSUME IInv, NEW c \in Calls, NEW s \in spent, StartLogout(c, s)
      PROVE  IInv'
  BY SessionAssumption
  DEF SessionAssumption, IInv, TypeOK, LoginShape, SessionShape, InsertsAreFresh,
      WithinGrant, DeadStays, OffStays, LetIn, Deleted, HasRow, Request, Times, Start, Goto,
      table, held, StartLogout

(* A logout everywhere names its user.                                        *)
LEMMA StartLogoutAllKeeps == ASSUME IInv, NEW c \in Calls, NEW u \in Users,
                                     StartLogoutAll(c, u)
      PROVE  IInv'
  BY SessionAssumption
  DEF SessionAssumption, IInv, TypeOK, LoginShape, SessionShape, InsertsAreFresh,
      WithinGrant, DeadStays, OffStays, LetIn, Deleted, HasRow, Request, Times, Start, Goto,
      table, held, StartLogoutAll

(* An active user becomes inactive: what was off stays off.                   *)
LEMMA DeactivateKeeps == ASSUME IInv, NEW c \in Calls, NEW u \in Users, Deactivate(c, u)
      PROVE  IInv'
  BY SessionAssumption
  DEF SessionAssumption, IInv, TypeOK, LoginShape, SessionShape, InsertsAreFresh,
      WithinGrant, DeadStays, OffStays, LetIn, Deleted, HasRow, Request, Times, Start, Goto,
      table, held, Deactivate

(* Reading the user's sessions only moves the call.                           *)
LEMMA SelectIdsKeeps == ASSUME IInv, NEW c \in Calls, SelectIds(c) PROVE IInv'
  BY SessionAssumption
  DEF SessionAssumption, SelectIds, Goto, OwnedBy, IInv, TypeOK, LoginShape, SessionShape,
      InsertsAreFresh, WithinGrant, DeadStays, OffStays, LetIn, Deleted, HasRow, Request,
      Times, table, held

(* Redis values disappear.                                                    *)
LEMMA DelKeysKeeps == ASSUME IInv, NEW c \in Calls, DelKeys(c) PROVE IInv'
  <1>1. key' \in [Ids -> Times \cup {None}] /\ \A s \in Ids : key'[s] \in {None, key[s]}
    BY DEF DelKeys, IInv, TypeOK
  <1>2. /\ pc' = [pc EXCEPT ![c] = "delRows"] /\ pc[c] = "delKeys"
        /\ UNCHANGED <<now, isActive, owner, expires, granted, tokens, call, user, exp,
                       found, spent>>
    BY DEF DelKeys, Goto, table, held
  <1> QED
    BY <1>1, <1>2, SessionAssumption
    DEF SessionAssumption, IInv, TypeOK, LoginShape, SessionShape, InsertsAreFresh,
        WithinGrant, DeadStays, OffStays, LetIn, Deleted, HasRow, Request, Times, table,
        held

(* Rows disappear; what they were granted is remembered.                      *)
LEMMA DelRowsKeeps == ASSUME IInv, NEW c \in Calls, DelRows(c) PROVE IInv'
  <1>1. /\ owner' \in [Ids -> Users \cup {None}] /\ expires' \in [Ids -> Times]
        /\ \A s \in Ids : owner'[s] \in {None, owner[s]} /\ expires'[s] \in {0, expires[s]}
    BY SessionAssumption DEF SessionAssumption, DelRows, DeleteRows, IInv, TypeOK, Times
  <1>2. /\ pc' = [pc EXCEPT ![c] = "done"] /\ pc[c] = "delRows"
        /\ UNCHANGED <<now, isActive, key, granted, tokens, call, user, exp,
                       found, spent>>
    BY DEF DelRows, DeleteRows, Goto, held
  <1>3. call[c].kind \in {"logout", "logoutAll", "deactivate"} /\ ~call[c].dead /\ ~call[c].off
    BY <1>2 DEF IInv, LoginShape, SessionShape
  <1>4. TypeOK' /\ LoginShape' /\ SessionShape' /\ InsertsAreFresh'
    BY <1>1, <1>2, <1>3 DEF IInv, TypeOK, LoginShape, SessionShape, InsertsAreFresh
  <1>5. WithinGrant'
    BY <1>1, <1>2, SessionAssumption
    DEF SessionAssumption, IInv, TypeOK, Times, WithinGrant, HasRow
  <1>6. DeadStays' /\ OffStays'
    BY <1>1, <1>2, <1>3
    DEF IInv, TypeOK, SessionShape, DeadStays, OffStays, LetIn, Deleted, HasRow
  <1> QED
    BY <1>4, <1>5, <1>6 DEF IInv

(* An await that throws only moves the call.                                  *)
LEMMA FailKeeps == ASSUME IInv, NEW c \in Calls, Fail(c) PROVE IInv'
  BY SessionAssumption
  DEF SessionAssumption, Fail, Goto, IInv, TypeOK, LoginShape, SessionShape,
      InsertsAreFresh, WithinGrant, DeadStays, OffStays, LetIn, Deleted, HasRow, Request,
      Times, table, held

(* Rows disappear; what they were granted is remembered.                      *)
LEMMA CleanupKeeps == ASSUME IInv, Cleanup PROVE IInv'
  BY SessionAssumption
  DEF SessionAssumption, IInv, TypeOK, LoginShape, SessionShape, InsertsAreFresh,
      WithinGrant, DeadStays, OffStays, LetIn, Deleted, HasRow, Request, Times, Start, Goto,
      table, held, Cleanup, DeleteRows

(* A Redis value disappears.                                                  *)
LEMMA EvictKeeps == ASSUME IInv, NEW s \in Ids, Evict(s) PROVE IInv'
  BY SessionAssumption
  DEF SessionAssumption, IInv, TypeOK, LoginShape, SessionShape, InsertsAreFresh,
      WithinGrant, DeadStays, OffStays, LetIn, Deleted, HasRow, Request, Times, Start, Goto,
      table, held, Evict

(* Time passes: no state depends on it but what is read later.                *)
LEMMA TickKeeps == ASSUME IInv, Tick PROVE IInv'
  BY SessionAssumption
  DEF SessionAssumption, IInv, TypeOK, LoginShape, SessionShape, InsertsAreFresh,
      WithinGrant, DeadStays, OffStays, LetIn, Deleted, HasRow, Request, Times, Start, Goto,
      table, held, Tick

(* Nothing changes.                                                           *)
LEMMA StutterKeeps == ASSUME IInv, UNCHANGED vars PROVE IInv'
  BY SessionAssumption
  DEF SessionAssumption, IInv, TypeOK, LoginShape, SessionShape, InsertsAreFresh,
      WithinGrant, DeadStays, OffStays, LetIn, Deleted, HasRow, Request, Times, Start, Goto,
      table, held, vars

(* Every step keeps the invariant: one case per action. *)
LEMMA NextKeeps == ASSUME IInv, [Next]_vars PROVE IInv'
  <1>1. ASSUME NEW c \in Calls, NEW u \in Users,
               \/ \E t, s \in Ids : StartLogin(c, u, t, s)
               \/ StartLogoutAll(c, u)
               \/ Deactivate(c, u)
        PROVE  IInv'
    BY <1>1, StartLoginKeeps, StartLogoutAllKeeps, DeactivateKeeps
  <1>2. ASSUME NEW c \in Calls, \E token \in tokens : StartValidate(c, token)
        PROVE  IInv'
    BY <1>2, StartValidateKeeps
  <1>3. ASSUME NEW c \in Calls, NEW s \in spent, StartRefresh(c, s) \/ StartLogout(c, s)
        PROVE  IInv'
    BY <1>3, StartRefreshKeeps, StartLogoutKeeps
  <1>4. ASSUME NEW c \in Calls,
               \/ InsertRow(c) \/ SetKey(c)
               \/ GetKey(c) \/ GetRow(c) \/ GetLive(c) \/ GetUser(c)
        PROVE  IInv'
    BY <1>4, InsertRowKeeps, SetKeyKeeps, GetKeyKeeps, GetRowKeeps, GetLiveKeeps, GetUserKeeps
  <1>5. ASSUME NEW c \in Calls,
               ExtendRow(c) \/ ReadKey(c) \/ WriteKey(c) \/ SetToken(c)
        PROVE  IInv'
    BY <1>5, ExtendRowKeeps, ReadKeyKeeps, WriteKeyKeeps, SetTokenKeeps
  <1>6. ASSUME NEW c \in Calls, SelectIds(c) \/ DelKeys(c) \/ DelRows(c) \/ Fail(c)
        PROVE  IInv'
    BY <1>6, SelectIdsKeeps, DelKeysKeeps, DelRowsKeeps, FailKeeps
  <1>7. CASE Cleanup \/ (\E s \in Ids : Evict(s)) \/ Tick \/ UNCHANGED vars
    BY <1>7, CleanupKeeps, EvictKeeps, TickKeeps, StutterKeeps
  <1> QED
    BY <1>1, <1>2, <1>3, <1>4, <1>5, <1>6, <1>7 DEF Next

(* Whatever the callers do, the invariant holds in every state. *)
LEMMA Invariance == Spec => []IInv
  <1>1. Init => IInv
    BY InitInvariant
  <1>2. IInv /\ [Next]_vars => IInv'
    BY NextKeeps
  <1> QED
    BY <1>1, <1>2, PTL DEF Spec

(* Only the read of the key takes a call from getKey to getRow, and only   *)
(* the read of the live row takes it from getLive to getUser.              *)
LEMMA VouchingSteps ==
  ASSUME IInv, Next, NEW c \in Calls,
         \/ pc[c] = "getKey" /\ pc'[c] = "getRow"
         \/ pc[c] = "getLive" /\ pc'[c] = "getUser"
  PROVE  GetKey(c) \/ GetLive(c)
  <1>1. SUFFICES ASSUME ~GetKey(c), ~GetLive(c) PROVE FALSE
    OBVIOUS
  <1>2. DOMAIN pc = Calls
    BY DEF IInv, TypeOK
  <1>3. ASSUME NEW d \in Calls, NEW u \in Users,
               \/ \E t, s \in Ids : StartLogin(d, u, t, s)
               \/ StartLogoutAll(d, u)
               \/ Deactivate(d, u)
        PROVE  pc'[c] = pc[c] \/ pc'[c] = "refused"
    BY <1>2, <1>3 DEF StartLogin, StartLogoutAll, Deactivate, Start, Goto
  <1>4. ASSUME NEW d \in Calls, \E token \in tokens : StartValidate(d, token)
        PROVE  pc'[c] = pc[c] \/ pc'[c] = "refused"
    BY <1>2, <1>4 DEF StartValidate, Start, Goto
  <1>5. ASSUME NEW d \in Calls, NEW s \in spent, StartRefresh(d, s) \/ StartLogout(d, s)
        PROVE  pc'[c] = pc[c] \/ pc'[c] = "refused"
    BY <1>2, <1>5 DEF StartRefresh, StartLogout, Start, Goto
  <1>6. ASSUME NEW d \in Calls,
               \/ InsertRow(d) \/ SetKey(d)
               \/ GetKey(d) \/ GetRow(d) \/ GetLive(d) \/ GetUser(d)
        PROVE  pc'[c] = pc[c] \/ pc'[c] = "refused"
    BY <1>1, <1>2, <1>6
    DEF InsertRow, SetKey, GetKey, GetRow, GetLive, GetUser, Found, Admit, Goto
  <1>7. ASSUME NEW d \in Calls,
               \/ ExtendRow(d) \/ ReadKey(d) \/ WriteKey(d) \/ SetToken(d)
               \/ SelectIds(d) \/ DelKeys(d) \/ DelRows(d) \/ Fail(d)
        PROVE  pc'[c] = pc[c] \/ pc'[c] = "refused"
    BY <1>2, <1>7
    DEF ExtendRow, ReadKey, WriteKey, SetToken, SelectIds, DelKeys, DelRows, Fail, Goto
  <1>8. CASE Cleanup \/ (\E s \in Ids : Evict(s)) \/ Tick
    BY <1>8 DEF Cleanup, Evict, Tick
  <1> QED
    BY <1>1, <1>3, <1>4, <1>5, <1>6, <1>7, <1>8 DEF Next

-----------------------------------------------------------------------------
(* TypeCorrect: every variable keeps its type. *)
THEOREM TypeCorrect == Spec => []TypeOK
  BY Invariance, PTL DEF IInv

(* LogoutIsFinal: no request that starts after its session was deleted is  *)
(* let in, whatever the refreshes under way write back to Redis (logout,   *)
(* getSession and extendSession of SessionService).                        *)
THEOREM LogoutIsFinal == Spec => []LoggedOutStaysOut
  <1>1. IInv => LoggedOutStaysOut
    BY DEF IInv, DeadStays, LoggedOutStaysOut
  <1> QED
    BY <1>1, Invariance, PTL

(* DeactivationIsFinal: no request that starts after its user was          *)
(* deactivated is let in, even by a session a login inserts afterwards.    *)
THEOREM DeactivationIsFinal == Spec => []DeactivatedIsOut
  <1>1. IInv => DeactivatedIsOut
    BY DEF IInv, OffStays, DeactivatedIsOut
  <1> QED
    BY <1>1, Invariance, PTL

(* ExpiryNeedsGrant: neither Redis nor the row vouches for a session past  *)
(* the latest expiry the table ever held for it.                           *)
THEOREM ExpiryNeedsGrant == Spec => ExpiryIsGranted
  <1> DEFINE A == \A c \in Calls :
                    \/ pc[c] = "getKey" /\ pc'[c] = "getRow"
                    \/ pc[c] = "getLive" /\ pc'[c] = "getUser"
                    => now < granted[call[c].sid]
  <1>1. ASSUME IInv, [Next]_vars PROVE A \/ UNCHANGED vars
    <2> SUFFICES ASSUME Next, NEW c \in Calls,
                        \/ pc[c] = "getKey" /\ pc'[c] = "getRow"
                        \/ pc[c] = "getLive" /\ pc'[c] = "getUser"
                 PROVE  now < granted[call[c].sid]
      BY <1>1
    <2> DEFINE s == call[c].sid
    <2>1. s \in Ids
      BY <1>1 DEF IInv, SessionShape
    <2>2. /\ now \in Int /\ granted[s] \in Int /\ expires[s] \in Int
          /\ key[s] # None => key[s] \in Int
      BY <1>1, <2>1, SessionAssumption DEF SessionAssumption, IInv, TypeOK, Times
    <2>3. /\ expires[s] <= granted[s]
          /\ key[s] # None => key[s] <= granted[s]
      BY <1>1, <2>1 DEF IInv, WithinGrant
    <2>4. DOMAIN pc = Calls
      BY <1>1 DEF IInv, TypeOK
    <2>5. CASE GetKey(c)
      <3>1. key[s] # None /\ key[s] > now
        BY <2>4, <2>5 DEF GetKey, Goto
      <3> QED
        BY <2>2, <2>3, <3>1
    <2>6. CASE GetLive(c)
      BY <2>2, <2>3, <2>4, <2>6 DEF GetLive, Found, Goto, Live
    <2> QED
      BY <1>1, <2>5, <2>6, VouchingSteps
  <1>2. IInv /\ [Next]_vars => [A]_vars
    BY <1>1
  <1> QED
    BY <1>2, Invariance, PTL DEF Spec, ExpiryIsGranted

-----------------------------------------------------------------------------
(* Accounts.  An address and an identity belong to one account at most, an *)
(* identity to the account of its person; and a request knows of its       *)
(* account what was true at some moment since the request began.           *)

AccountRow ==
  [email : People, sso : Identities \cup {"none"}, roles : RoleSets, active : BOOLEAN]
VisitPlaces ==
  {"away", "by sso", "by email", "create", "link", "login", "validate", "user", "handle"}
Routes == {"me", "users", "dashboard", "logout", "logout all"}
VisitRecord ==
  [at : VisitPlaces, identity : Identities, account : Accounts \cup {NoAccount},
   roles : SUBSET UNION RoleSets, held : SUBSET UNION RoleSets, active : BOOLEAN,
   route : Routes \cup {"none"}, reply : Nat]

AccessTypeOK ==
  /\ users \in [Accounts -> AccountRow \cup {NoAccount}]
  /\ visit \in [Visits -> VisitRecord]

OneEach ==
  \A a, b \in Existing :
    \/ a = b
    \/ /\ users[a].email # users[b].email
       /\ users[a].sso = "none" \/ users[a].sso # users[b].sso

OwnIdentity ==
  \A a \in Existing : users[a].sso # "none" => users[a].email = PersonOf[users[a].sso]

Sound(t) ==
  /\ t.at \in {"link", "login", "validate", "user", "handle"} => t.account \in Existing
  /\ t.at \in {"link", "login"} => users[t.account].email = PersonOf[t.identity]
  /\ t.at \in {"validate", "user"} => users[t.account].roles \subseteq t.held
  /\ t.at = "validate" /\ users[t.account].active => t.active
  /\ t.at \in {"user", "handle"} => t.active
  /\ t.at = "handle" => t.roles \subseteq t.held
  /\ t.at # "away" => t.reply = 0

AccessInv ==
  /\ AccessTypeOK
  /\ OneEach
  /\ OwnIdentity
  /\ \A v \in Visits : Sound(visit[v])

LEMMA AwayType == Away \in VisitRecord /\ Away.at = "away" /\ Away.reply = 0
BY AccessAssumption DEF Away, VisitRecord, VisitPlaces

LEMMA AccessInitInv == AccessInit => AccessInv
<1> SUFFICES ASSUME AccessInit PROVE AccessInv
  OBVIOUS
<1>1. Existing = {}
  BY DEF AccessInit, Existing
<1>2. AccessTypeOK
  BY AwayType DEF AccessInit, AccessTypeOK
<1>3. \A v \in Visits : Sound(visit[v])
  BY AwayType DEF AccessInit, Sound
<1> QED BY <1>1, <1>2, <1>3 DEF AccessInv, OneEach, OwnIdentity

(* What is known of an existing account.                                   *)
LEMMA ExistingType ==
  ASSUME AccessTypeOK, NEW a \in Existing
  PROVE  a \in Accounts /\ users[a] \in AccountRow
BY DEF AccessTypeOK, Existing

(* A step of a request that changes no account.                            *)
LEMMA VisitStep ==
  ASSUME AccessInv, NEW v \in Visits, NEW t \in VisitRecord, Sound(t),
         visit' = [visit EXCEPT ![v] = t], UNCHANGED users
  PROVE  AccessInv'
<1>1. Existing' = Existing
  BY DEF Existing
<1>2. AccessTypeOK'
  BY DEF AccessInv, AccessTypeOK
<1>3. OneEach' /\ OwnIdentity'
  BY <1>1 DEF AccessInv, OneEach, OwnIdentity
<1>4. ASSUME NEW w \in Visits PROVE Sound(visit[w])'
  <2>1. Sound(visit'[w])
    BY DEF AccessInv, AccessTypeOK
  <2> QED BY <1>1, <2>1 DEF Sound
<1> QED BY <1>2, <1>3, <1>4 DEF AccessInv

(* A step that writes accounts: no account goes, changes its address or    *)
(* its roles, or is made active again, so that what requests know stands.  *)
LEMMA AccountStep ==
  ASSUME AccessInv, OneEach', OwnIdentity',
         users' \in [Accounts -> AccountRow \cup {NoAccount}],
         \A a \in Existing : /\ a \in Existing' /\ users'[a].email = users[a].email
                             /\ users'[a].roles = users[a].roles
                             /\ users'[a].active => users[a].active,
         NEW v \in Visits, NEW t \in VisitRecord, Sound(t)',
         visit' = visit \/ visit' = [visit EXCEPT ![v] = t]
  PROVE  AccessInv'
<1>1. AccessTypeOK'
  BY DEF AccessInv, AccessTypeOK
<1>2. ASSUME NEW w \in Visits PROVE Sound(visit[w])'
  <2>1. CASE visit'[w] = t
    BY <2>1 DEF Sound
  <2>2. CASE visit'[w] = visit[w]
    BY <2>2 DEF AccessInv, Sound
  <2> QED BY <2>1, <2>2 DEF AccessInv, AccessTypeOK
<1> QED BY <1>1, <1>2 DEF AccessInv

(* A request that is answered is away again.                               *)
LEMMA AnswerStep ==
  ASSUME AccessInv, NEW v \in Visits, NEW code \in Nat, Answers(v, code), UNCHANGED users
  PROVE  AccessInv'
<1> DEFINE t == [Away EXCEPT !.reply = code]
<1>1. t \in VisitRecord /\ Sound(t)
  BY AwayType DEF VisitRecord, Sound
<1> QED BY <1>1, VisitStep DEF Answers

(* The first queries of a sign-on.                                         *)
LEMMA StrategyStep ==
  ASSUME AccessInv, NEW v \in Visits, NEW i \in Identities, ConfigureStrategy(v, i)
  PROVE  AccessInv'
<1> DEFINE t == [Away EXCEPT !.at = "by sso", !.identity = i]
<1>1. t \in VisitRecord /\ Sound(t)
  BY AwayType DEF VisitRecord, VisitPlaces, Sound
<1> QED BY <1>1, VisitStep DEF ConfigureStrategy

(* An account that a query found becomes the account of the request.       *)
LEMMA FoundStep ==
  ASSUME AccessInv, NEW v \in Visits, NEW a \in Existing, NEW at \in {"link", "login"},
         visit[v].at # "away", users[a].email = PersonOf[visit[v].identity],
         visit' = [visit EXCEPT ![v].at = at, ![v].account = a, ![v].roles = users[a].roles],
         UNCHANGED users
  PROVE  AccessInv'
<1> DEFINE t == [visit[v] EXCEPT !.at = at, !.account = a, !.roles = users[a].roles]
<1>1. visit[v] \in VisitRecord /\ Sound(visit[v])
  BY DEF AccessInv, AccessTypeOK
<1>2. a \in Accounts /\ users[a].roles \subseteq UNION RoleSets
  BY ExistingType DEF AccessInv, AccountRow
<1>3. t \in VisitRecord
  BY <1>1, <1>2 DEF VisitRecord, VisitPlaces
<1>4. /\ t.at = at /\ t.account = a /\ t.identity = visit[v].identity
      /\ t.reply = visit[v].reply /\ visit[v].reply = 0
  BY <1>1 DEF VisitRecord, Sound
<1>5. Sound(t)
  BY <1>4 DEF Sound
<1>6. visit' = [visit EXCEPT ![v] = t]
  BY DEF AccessInv, AccessTypeOK
<1> QED BY <1>3, <1>5, <1>6, VisitStep

LEMMA BySsoStep ==
  ASSUME AccessInv, NEW v \in Visits, FindBySsoId(v)
  PROVE  AccessInv'
<1> DEFINE i == visit[v].identity
<1>1. visit[v] \in VisitRecord /\ Sound(visit[v]) /\ visit[v].at = "by sso" /\ UNCHANGED users
  BY DEF AccessInv, AccessTypeOK, FindBySsoId, VisitAt
<1>f. CASE SignOnFails(v)
  BY <1>f, AnswerStep DEF SignOnFails
<1>2. CASE visit' = [visit EXCEPT ![v].at = "by email"]
  <2> DEFINE t == [visit[v] EXCEPT !.at = "by email"]
  <2>1. t \in VisitRecord /\ Sound(t)
    BY <1>1 DEF VisitRecord, VisitPlaces, Sound
  <2> QED BY <1>1, <1>2, <2>1, VisitStep
<1>3. ASSUME NEW a \in BySsoId(i),
             visit' = [visit EXCEPT ![v].at = "login", ![v].account = a, ![v].roles = users[a].roles]
      PROVE  AccessInv'
  <2>1. i \in Identities /\ i # "none"
    BY <1>1, AccessAssumption DEF VisitRecord
  <2>2. a \in Existing /\ users[a].email = PersonOf[i]
    BY <2>1 DEF BySsoId, AccessInv, OwnIdentity
  <2> QED BY <1>1, <1>3, <2>2, FoundStep
<1> QED BY <1>f, <1>2, <1>3 DEF FindBySsoId

LEMMA ByEmailStep ==
  ASSUME AccessInv, NEW v \in Visits, FindByEmail(v)
  PROVE  AccessInv'
<1> DEFINE p == PersonOf[visit[v].identity]
<1>1. visit[v] \in VisitRecord /\ Sound(visit[v]) /\ visit[v].at = "by email" /\ UNCHANGED users
  BY DEF AccessInv, AccessTypeOK, FindByEmail, VisitAt
<1>f. CASE SignOnFails(v)
  BY <1>f, AnswerStep DEF SignOnFails
<1>2. CASE visit' = [visit EXCEPT ![v].at = "create"]
  <2> DEFINE t == [visit[v] EXCEPT !.at = "create"]
  <2>1. t \in VisitRecord /\ Sound(t)
    BY <1>1 DEF VisitRecord, VisitPlaces, Sound
  <2> QED BY <1>1, <1>2, <2>1, VisitStep
<1>3. ASSUME NEW a \in ByEmail(p),
             visit' = [visit EXCEPT ![v].at = "link", ![v].account = a, ![v].roles = users[a].roles]
      PROVE  AccessInv'
  <2>1. a \in Existing /\ users[a].email = p
    BY DEF ByEmail
  <2> QED BY <1>1, <1>3, <2>1, FoundStep
<1> QED BY <1>f, <1>2, <1>3 DEF FindByEmail

(* The identity is linked to the account with the address of its person.   *)
LEMMA LinkStep ==
  ASSUME AccessInv, NEW v \in Visits, LinkSsoId(v)
  PROVE  AccessInv'
<1> DEFINE a == visit[v].account
           i == visit[v].identity
<1>1. visit[v] \in VisitRecord /\ Sound(visit[v]) /\ visit[v].at = "link"
  BY DEF AccessInv, AccessTypeOK, LinkSsoId, VisitAt
<1>2. /\ a \in Existing /\ a \in Accounts /\ users[a] \in AccountRow
      /\ i \in Identities /\ i # "none" /\ users[a].email = PersonOf[i]
  BY <1>1, ExistingType, AccessAssumption DEF AccessInv, VisitRecord, Sound
<1>3. CASE SignOnFails(v)
  BY <1>3, AnswerStep DEF SignOnFails
<1>4. CASE /\ BySsoId(i) \subseteq {a}
           /\ users' = [users EXCEPT ![a].sso = i]
           /\ visit' = [visit EXCEPT ![v].at = "login"]
  <2>1. \A b \in Accounts : b # a => users'[b] = users[b]
    BY <1>4 DEF AccessInv, AccessTypeOK
  <2>2. /\ users'[a] \in AccountRow /\ users'[a].sso = i
        /\ users'[a].email = users[a].email /\ users'[a].roles = users[a].roles
        /\ users'[a].active = users[a].active
    BY <1>2, <1>4 DEF AccessInv, AccessTypeOK, AccountRow
  <2>3. users' \in [Accounts -> AccountRow \cup {NoAccount}]
    BY <1>4, <2>1, <2>2 DEF AccessInv, AccessTypeOK
  <2>4. NoAccount \notin AccountRow
    BY AccessAssumption DEF AccountRow
  <2>5. Existing' = Existing
    BY <1>2, <2>1, <2>2, <2>4 DEF Existing
  <2>6. \A b \in Existing : b # a => users[b].sso # i /\ users'[b] = users[b]
    BY <1>4, <2>1 DEF BySsoId, Existing
  <2>7. OneEach'
    BY <1>2, <2>2, <2>5, <2>6 DEF AccessInv, OneEach
  <2>8. OwnIdentity'
    BY <1>2, <2>2, <2>5, <2>6 DEF AccessInv, OwnIdentity
  <2>9. PICK t : /\ t = [visit[v] EXCEPT !.at = "login"] /\ t \in VisitRecord
                /\ t.at = "login" /\ t.account = a /\ t.identity = i /\ t.reply = 0
    <3> DEFINE u == [visit[v] EXCEPT !.at = "login"]
    <3>1. u \in VisitRecord /\ u.at = "login" /\ u.account = a /\ u.identity = i /\ u.reply = 0
      BY <1>1 DEF VisitRecord, VisitPlaces, Sound
    <3> QED BY <3>1
  <2>10. Sound(t)'
    BY <1>2, <2>2, <2>5, <2>9 DEF Sound
  <2>11. \A b \in Existing : /\ b \in Existing' /\ users'[b].email = users[b].email
                             /\ users'[b].roles = users[b].roles
                             /\ users'[b].active => users[b].active
    BY <2>2, <2>5, <2>6
  <2>12. visit' = [visit EXCEPT ![v] = t]
    BY <1>4, <2>9
  <2> QED BY <2>3, <2>7, <2>8, <2>9, <2>10, <2>11, <2>12, AccountStep
<1> QED BY <1>3, <1>4 DEF LinkSsoId

(* A row that is inserted has an address, and an identity, nobody has.     *)
LEMMA InsertedRow ==
  ASSUME AccessInv, NEW a \in Accounts \ Existing, NEW row \in AccountRow,
         users' = [users EXCEPT ![a] = row],
         \A b \in Existing : users[b].email # row.email,
         row.sso # "none" => /\ row.email = PersonOf[row.sso]
                             /\ \A b \in Existing : users[b].sso # row.sso
  PROVE  /\ users' \in [Accounts -> AccountRow \cup {NoAccount}]
         /\ Existing' = Existing \cup {a} /\ users'[a] = row
         /\ \A b \in Existing : users'[b] = users[b]
         /\ OneEach' /\ OwnIdentity'
<1>1. users' \in [Accounts -> AccountRow \cup {NoAccount}] /\ users'[a] = row
  BY DEF AccessInv, AccessTypeOK
<1>2. \A b \in Accounts : b # a => users'[b] = users[b]
  BY DEF AccessInv, AccessTypeOK
<1>3. NoAccount \notin AccountRow
  BY AccessAssumption DEF AccountRow
<1>4. Existing' = Existing \cup {a} /\ \A b \in Existing : users'[b] = users[b]
  BY <1>1, <1>2, <1>3 DEF Existing
<1>5. OneEach'
  BY <1>1, <1>4 DEF AccessInv, OneEach
<1>6. OwnIdentity'
  BY <1>1, <1>4 DEF AccessInv, OwnIdentity
<1> QED BY <1>1, <1>4, <1>5, <1>6

LEMMA CreateStep ==
  ASSUME AccessInv, NEW v \in Visits, FindOrCreateUser(v)
  PROVE  AccessInv'
<1> DEFINE i == visit[v].identity
<1>1. visit[v] \in VisitRecord /\ Sound(visit[v]) /\ visit[v].at = "create"
  BY DEF AccessInv, AccessTypeOK, FindOrCreateUser, VisitAt
<1>2. i \in Identities /\ i # "none" /\ PersonOf[i] \in People
  BY <1>1, AccessAssumption DEF VisitRecord
<1>3. CASE SignOnFails(v)
  BY <1>3, AnswerStep DEF SignOnFails
<1>4. ASSUME ByEmail(PersonOf[i]) = {}, BySsoId(i) = {},
             NEW a \in Accounts \ Existing, NEW roles \in MapSSORolesToUserRoles,
             users' = [users EXCEPT ![a] = Row(PersonOf[i], i, roles)],
             visit' = [visit EXCEPT ![v].at = "login", ![v].account = a, ![v].roles = roles]
      PROVE  AccessInv'
  <2> DEFINE row == Row(PersonOf[i], i, roles)
  <2>1. row \in AccountRow /\ row.email = PersonOf[i] /\ row.sso = i
    BY <1>2, <1>4 DEF Row, AccountRow, MapSSORolesToUserRoles
  <2>2. \A b \in Existing : users[b].email # row.email /\ users[b].sso # row.sso
    BY <1>4, <2>1 DEF ByEmail, BySsoId
  <2>3. /\ users' \in [Accounts -> AccountRow \cup {NoAccount}]
        /\ Existing' = Existing \cup {a} /\ users'[a] = row
        /\ \A b \in Existing : users'[b] = users[b]
        /\ OneEach' /\ OwnIdentity'
    BY <1>4, <2>1, <2>2, InsertedRow
  <2>4. PICK t : /\ t = [visit[v] EXCEPT !.at = "login", !.account = a, !.roles = roles]
                /\ t \in VisitRecord
                /\ t.at = "login" /\ t.account = a /\ t.identity = i /\ t.reply = 0
    <3> DEFINE u == [visit[v] EXCEPT !.at = "login", !.account = a, !.roles = roles]
    <3>1. u \in VisitRecord /\ u.at = "login" /\ u.account = a /\ u.identity = i /\ u.reply = 0
      BY <1>1, <1>4 DEF VisitRecord, VisitPlaces, Sound, MapSSORolesToUserRoles
    <3> QED BY <3>1
  <2>5. Sound(t)'
    BY <2>1, <2>3, <2>4 DEF Sound
  <2>6. visit' = [visit EXCEPT ![v] = t]
    BY <1>4, <2>4 DEF AccessInv, AccessTypeOK
  <2> QED BY <2>3, <2>4, <2>5, <2>6, AccountStep
<1> QED BY <1>3, <1>4 DEF FindOrCreateUser

LEMMA CreateUserStep ==
  ASSUME AccessInv, NEW p \in People, NEW roles \in RoleSets, CreateUser(p, roles, "none")
  PROVE  AccessInv'
<1> DEFINE row == Row(p, "none", roles)
<1>1. PICK a \in Accounts \ Existing : users' = [users EXCEPT ![a] = row]
  BY DEF CreateUser
<1>2. row \in AccountRow /\ row.email = p /\ row.sso = "none"
  BY DEF Row, AccountRow
<1>3. \A b \in Existing : users[b].email # row.email
  BY <1>2 DEF CreateUser, ByEmail
<1>4. /\ users' \in [Accounts -> AccountRow \cup {NoAccount}]
      /\ Existing' = Existing \cup {a}
      /\ \A b \in Existing : users'[b] = users[b]
      /\ OneEach' /\ OwnIdentity'
  BY <1>1, <1>2, <1>3, InsertedRow
<1>5. AccessTypeOK'
  BY <1>4 DEF CreateUser, AccessInv, AccessTypeOK
<1>6. ASSUME NEW w \in Visits PROVE Sound(visit[w])'
  BY <1>4 DEF CreateUser, AccessInv, Sound
<1> QED BY <1>4, <1>5, <1>6 DEF AccessInv

(* A request with a token: the account is read when the request begins, at *)
(* validateToken and again by getUserById.                                 *)
LEMMA BeginStep ==
  ASSUME AccessInv, NEW v \in Visits, NEW a \in Accounts, BeginVisit(v, a)
  PROVE  AccessInv'
<1>1. PICK roles \in RoleSets :
        visit' = [visit EXCEPT ![v] =
          [Away EXCEPT !.at = "validate", !.account = a, !.roles = roles,
                       !.held = users[a].roles, !.active = users[a].active]]
  BY DEF BeginVisit
<1> DEFINE t == [Away EXCEPT !.at = "validate", !.account = a, !.roles = roles,
                             !.held = users[a].roles, !.active = users[a].active]
<1>2. a \in Existing /\ users[a] \in AccountRow /\ UNCHANGED users
  BY ExistingType DEF BeginVisit, AccessInv
<1>3. t \in VisitRecord /\ Sound(t)
  BY <1>2, AwayType DEF VisitRecord, VisitPlaces, AccountRow, Sound
<1> QED BY <1>1, <1>2, <1>3, VisitStep

LEMMA ValidateStep ==
  ASSUME AccessInv, NEW v \in Visits, Validate(v)
  PROVE  AccessInv'
<1> DEFINE t == [visit[v] EXCEPT !.at = "user"]
<1>1. visit[v] \in VisitRecord /\ Sound(visit[v]) /\ visit[v].at = "validate" /\ UNCHANGED users
  BY DEF AccessInv, AccessTypeOK, Validate, VisitAt
<1>2. CASE Answers(v, 401)
  BY <1>1, <1>2, AnswerStep
<1>3. CASE users[visit[v].account].active /\ visit' = [visit EXCEPT ![v].at = "user"]
  <2>1. t \in VisitRecord /\ Sound(t)
    BY <1>1, <1>3 DEF VisitRecord, VisitPlaces, Sound
  <2> QED BY <1>1, <1>3, <2>1, VisitStep
<1> QED BY <1>2, <1>3 DEF Validate

LEMMA AuthenticateStep ==
  ASSUME AccessInv, NEW v \in Visits, Authenticate(v)
  PROVE  AccessInv'
<1> DEFINE t == [visit[v] EXCEPT !.at = "handle", !.roles = users[visit[v].account].roles]
<1>1. visit[v] \in VisitRecord /\ Sound(visit[v]) /\ visit[v].at = "user" /\ UNCHANGED users
  BY DEF AccessInv, AccessTypeOK, Authenticate, VisitAt
<1>2. users[visit[v].account] \in AccountRow
  BY <1>1, ExistingType DEF AccessInv, Sound
<1>3. t \in VisitRecord /\ Sound(t)
  BY <1>1, <1>2 DEF VisitRecord, VisitPlaces, AccountRow, Sound
<1>4. visit' = [visit EXCEPT ![v] = t]
  BY DEF Authenticate, AccessInv, AccessTypeOK
<1> QED BY <1>1, <1>3, <1>4, VisitStep

(* The handlers of the routes, and the end of a sign-on, change no account. *)
LEMMA HandleStep ==
  ASSUME AccessInv, NEW v \in Visits, UNCHANGED users,
         NEW route \in Routes, Handle(v, route)
  PROVE  /\ AccessInv'
         /\ visit'[v].route = route
         /\ visit'[v].reply = 200 => visit[v].roles \cap Required(route) # {}
<1> DEFINE code == IF visit[v].roles \cap Required(route) # {} THEN 200 ELSE 403
<1>1. code \in Nat /\ (code = 200 => visit[v].roles \cap Required(route) # {})
  OBVIOUS
<1>2. visit' = [visit EXCEPT ![v] = [Away EXCEPT !.route = route, !.reply = code]]
  BY DEF Handle, RequireRoles
<1> HIDE DEF code
<1>3. PICK t : /\ t = [Away EXCEPT !.route = route, !.reply = code]
               /\ t \in VisitRecord /\ t.at = "away" /\ t.route = route /\ t.reply = code
  <2> DEFINE u == [Away EXCEPT !.route = route, !.reply = code]
  <2>1. u \in VisitRecord /\ u.at = "away" /\ u.route = route /\ u.reply = code
    BY <1>1, AwayType DEF VisitRecord
  <2> QED BY <2>1
<1>4. visit' = [visit EXCEPT ![v] = t]
  BY <1>2, <1>3
<1>5. visit'[v] = t
  BY <1>4 DEF AccessInv, AccessTypeOK
<1>6. Sound(t)
  BY <1>3 DEF Sound
<1>7. AccessInv'
  BY <1>3, <1>4, <1>6, VisitStep
<1> QED BY <1>1, <1>3, <1>5, <1>7

LEMMA RequestStep ==
  ASSUME AccessInv, NEW v \in Visits,
         \/ CallbackOidc(v) \/ CallbackSaml(v) \/ GetProfile(v) \/ GetAdminUsers(v)
         \/ GetDashboard(v) \/ PostLogout(v) \/ PostLogoutAll(v)
  PROVE  AccessInv'
<1>1. UNCHANGED users
  BY DEF CallbackOidc, CallbackSaml, CompleteLogin, GetProfile, GetAdminUsers, GetDashboard,
         PostLogout, PostLogoutAll
<1>2. CASE Answers(v, 200) \/ Answers(v, 500)
  BY <1>1, <1>2, AnswerStep
<1>3. CASE \E route \in Routes : Handle(v, route)
  BY <1>1, <1>3, HandleStep
<1> QED BY <1>2, <1>3
        DEF CallbackOidc, CallbackSaml, CompleteLogin, GetProfile, GetAdminUsers, GetDashboard,
            PostLogout, PostLogoutAll, Routes

(* A request moves no other request.                                       *)
LEMMA OtherVisits ==
  ASSUME AccessInv, NEW v \in Visits, NEW w \in Visits, w # v, Visiting(w)
  PROVE  visit'[v] = visit[v]
<1> DEFINE Still == visit'[v] = visit[v]
<1>t. visit \in [Visits -> VisitRecord]
  BY DEF AccessInv, AccessTypeOK
<1>1. ASSUME NEW i \in Identities, ConfigureStrategy(w, i) PROVE Still
  BY <1>1, <1>t DEF ConfigureStrategy
<1>2. ASSUME NEW a \in Accounts, BeginVisit(w, a) PROVE Still
  BY <1>2, <1>t DEF BeginVisit
<1>3. ASSUME NEW code, Answers(w, code) PROVE Still
  BY <1>3, <1>t DEF Answers
<1>4. ASSUME NEW route, Handle(w, route) PROVE Still
  BY <1>4, <1>t DEF Handle
<1>5. CASE FindBySsoId(w)
  BY <1>3, <1>5, <1>t DEF FindBySsoId, SignOnFails
<1>6. CASE FindByEmail(w)
  BY <1>3, <1>6, <1>t DEF FindByEmail, SignOnFails
<1>7. CASE LinkSsoId(w)
  BY <1>3, <1>7, <1>t DEF LinkSsoId, SignOnFails
<1>8. CASE FindOrCreateUser(w)
  BY <1>3, <1>8, <1>t DEF FindOrCreateUser, SignOnFails
<1>9. CASE Validate(w) \/ Authenticate(w)
  BY <1>3, <1>9, <1>t DEF Validate, Authenticate
<1>10. CASE CallbackOidc(w) \/ CallbackSaml(w)
  BY <1>3, <1>10 DEF CallbackOidc, CallbackSaml, CompleteLogin
<1>11. CASE \/ GetProfile(w) \/ GetAdminUsers(w) \/ GetDashboard(w)
            \/ PostLogout(w) \/ PostLogoutAll(w)
  BY <1>4, <1>11 DEF GetProfile, GetAdminUsers, GetDashboard, PostLogout, PostLogoutAll
<1> QED BY <1>1, <1>2, <1>5, <1>6, <1>7, <1>8, <1>9, <1>10, <1>11 DEF Visiting

(* What is written to an account meanwhile: requests under way for it have *)
(* seen its new roles; and no account is made active.                      *)
LEMMA RolesStep ==
  ASSUME AccessInv, NEW a \in Accounts, NEW roles \in RoleSets, UpdateUserRoles(a, roles)
  PROVE  AccessInv'
<1>1. a \in Existing /\ users[a] \in AccountRow
  BY ExistingType DEF UpdateUserRoles, AccessInv
<1>2. /\ users' \in [Accounts -> AccountRow \cup {NoAccount}]
      /\ users'[a] = [users[a] EXCEPT !.roles = roles]
      /\ \A b \in Accounts : b # a => users'[b] = users[b]
  BY <1>1 DEF UpdateUserRoles, AccessInv, AccessTypeOK, AccountRow
<1>3. /\ users'[a] \in AccountRow /\ users'[a].roles = roles
      /\ users'[a].email = users[a].email /\ users'[a].sso = users[a].sso
      /\ users'[a].active = users[a].active
  BY <1>1, <1>2 DEF AccountRow
<1>4. NoAccount \notin AccountRow
  BY AccessAssumption DEF AccountRow
<1>5. Existing' = Existing
  BY <1>1, <1>2, <1>3, <1>4 DEF Existing
<1>6. \A b \in Existing : /\ users'[b].email = users[b].email
                          /\ users'[b].sso = users[b].sso
                          /\ users'[b].active = users[b].active
                          /\ b # a => users'[b].roles = users[b].roles
  BY <1>2, <1>3 DEF Existing
<1>7. OneEach' /\ OwnIdentity'
  BY <1>5, <1>6 DEF AccessInv, OneEach, OwnIdentity
<1>8. ASSUME NEW w \in Visits
      PROVE  /\ visit'[w] \in VisitRecord
             /\ \/ visit[w].account # a /\ visit'[w] = visit[w]
                \/ /\ visit[w].account = a
                   /\ visit'[w].at = visit[w].at /\ visit'[w].account = visit[w].account
                   /\ visit'[w].identity = visit[w].identity /\ visit'[w].roles = visit[w].roles
                   /\ visit'[w].active = visit[w].active /\ visit'[w].reply = visit[w].reply
                   /\ visit'[w].held = visit[w].held \cup roles
  BY <1>8 DEF UpdateUserRoles, Witness, AccessInv, AccessTypeOK, VisitRecord
<1>9. AccessTypeOK'
  <2>1. visit' = [w \in Visits |-> visit'[w]]
    BY DEF UpdateUserRoles, Witness
  <2> QED BY <1>2, <1>8, <2>1 DEF AccessTypeOK
<1>10. ASSUME NEW w \in Visits PROVE Sound(visit[w])'
  <2>1. Sound(visit[w])
    BY DEF AccessInv
  <2>2. CASE visit[w].account # a /\ visit'[w] = visit[w]
    BY <1>5, <1>6, <2>1, <2>2 DEF Sound
  <2>3. CASE visit[w].account = a /\ visit'[w] # visit[w]
    BY <1>3, <1>5, <1>6, <1>8, <2>1, <2>3 DEF Sound
  <2>4. CASE visit[w].account = a /\ visit'[w] = visit[w]
    BY <1>3, <1>5, <1>6, <1>8, <2>1, <2>4 DEF Sound
  <2> QED BY <1>8, <2>2, <2>3, <2>4
<1> QED BY <1>7, <1>9, <1>10 DEF AccessInv

LEMMA DeactivateStep ==
  ASSUME AccessInv, NEW a \in Accounts, DeactivateUser(a)
  PROVE  AccessInv'
<1>1. a \in Existing /\ users[a] \in AccountRow
  BY ExistingType DEF DeactivateUser, AccessInv
<1>2. /\ users' \in [Accounts -> AccountRow \cup {NoAccount}]
      /\ users'[a] = [users[a] EXCEPT !.active = FALSE]
      /\ \A b \in Accounts : b # a => users'[b] = users[b]
  BY <1>1 DEF DeactivateUser, AccessInv, AccessTypeOK, AccountRow
<1>3. /\ users'[a] \in AccountRow /\ users'[a].roles = users[a].roles
      /\ users'[a].email = users[a].email /\ users'[a].sso = users[a].sso
      /\ ~users'[a].active
  BY <1>1, <1>2 DEF AccountRow
<1>4. NoAccount \notin AccountRow
  BY AccessAssumption DEF AccountRow
<1>5. Existing' = Existing
  BY <1>1, <1>2, <1>3, <1>4 DEF Existing
<1>6. \A b \in Existing : /\ users'[b].email = users[b].email
                          /\ users'[b].sso = users[b].sso
                          /\ users'[b].roles = users[b].roles
                          /\ users'[b].active => users[b].active
  BY <1>2, <1>3 DEF Existing
<1>7. OneEach' /\ OwnIdentity'
  BY <1>5, <1>6 DEF AccessInv, OneEach, OwnIdentity
<1>8. UNCHANGED visit
  BY DEF DeactivateUser
<1>9. ASSUME NEW w \in Visits PROVE Sound(visit[w])'
  BY <1>5, <1>6, <1>8 DEF AccessInv, Sound
<1> QED BY <1>2, <1>7, <1>8, <1>9 DEF AccessInv, AccessTypeOK

LEMMA AccessNextInv == AccessInv /\ [AccessNext]_accessVars => AccessInv'
<1> SUFFICES ASSUME AccessInv, [AccessNext]_accessVars PROVE AccessInv'
  OBVIOUS
<1>1. ASSUME NEW v \in Visits, Visiting(v) PROVE AccessInv'
  BY <1>1, StrategyStep, BeginStep, BySsoStep, ByEmailStep, LinkStep, CreateStep, ValidateStep,
     AuthenticateStep, RequestStep DEF Visiting
<1>2. ASSUME NEW a \in Accounts, NEW roles \in RoleSets, UpdateUserRoles(a, roles) PROVE AccessInv'
  BY <1>2, RolesStep
<1>3. ASSUME NEW a \in Accounts, DeactivateUser(a) PROVE AccessInv'
  BY <1>3, DeactivateStep
<1>4. ASSUME NEW p \in People, NEW roles \in RoleSets, CreateUser(p, roles, "none") PROVE AccessInv'
  BY <1>4, CreateUserStep
<1>5. CASE UNCHANGED <<users, visit>>
  BY <1>5 DEF AccessInv, AccessTypeOK, OneEach, OwnIdentity, Sound, Existing
<1> QED BY <1>1, <1>2, <1>3, <1>4, <1>5 DEF AccessNext, InvalidateSessions, accessVars

THEOREM AccessInvariance == AccessSpec => []AccessInv
BY AccessInitInv, AccessNextInv, PTL DEF AccessSpec

(* However sign-ons overlap, findOrCreateUser gives each the one account   *)
(* with the address of its person: the constraints of the table refuse the *)
(* second INSERT, and a link needs the address.                            *)
THEOREM SignOnIsOwn == AccessSpec => []LoginIsOwn
<1>1. AccessInv => LoginIsOwn
  <2> SUFFICES ASSUME AccessInv, NEW v \in Visits, visit[v].at = "login"
               PROVE  ByEmail(PersonOf[visit[v].identity]) = {visit[v].account}
    BY DEF LoginIsOwn, VisitAt
  <2>1. /\ visit[v].account \in Existing
        /\ users[visit[v].account].email = PersonOf[visit[v].identity]
    BY DEF AccessInv, Sound
  <2> QED BY <2>1 DEF AccessInv, OneEach, ByEmail
<1> QED BY <1>1, AccessInvariance, PTL

(* What a route lets through, an account held while the request lasted:    *)
(* authenticate takes the roles from the row, not from the token.          *)
THEOREM AllowedWasHeld == AccessSpec => RightsAreCurrent
<1> DEFINE Rightly(v) ==
      VisitAt(v, "handle") /\ visit'[v].reply = 200 =>
        visit[v].active /\ visit[v].held \cap Required(visit'[v].route) # {}
<1>1. ASSUME AccessInv, [AccessNext]_accessVars, NEW v \in Visits, VisitAt(v, "handle"),
             visit'[v].reply = 200
      PROVE  visit[v].active /\ visit[v].held \cap Required(visit'[v].route) # {}
  <2>1. /\ visit[v] \in VisitRecord /\ visit[v].active /\ visit[v].reply = 0
        /\ visit[v].roles \subseteq visit[v].held
    BY <1>1 DEF VisitAt, AccessInv, AccessTypeOK, Sound
  <2>2. visit'[v].reply # visit[v].reply
    BY <1>1, <2>1
  <2>3. PICK route \in Routes :
          Handle(v, route) /\ UNCHANGED users
    <3>1. ASSUME NEW a \in Accounts, NEW roles \in RoleSets, UpdateUserRoles(a, roles) PROVE FALSE
      BY <2>1, <2>2, <3>1 DEF UpdateUserRoles, Witness, VisitRecord
    <3>2. ASSUME UNCHANGED visit PROVE FALSE
      BY <2>2, <3>2
    <3>3. ASSUME NEW w \in Visits, w # v, Visiting(w) PROVE FALSE
      BY <1>1, <2>2, <3>3, OtherVisits
    <3>4. ASSUME Visiting(v)
          PROVE  \E route \in Routes :
                   Handle(v, route) /\ UNCHANGED users
      BY <1>1, <3>4
         DEF Visiting, VisitAt, ConfigureStrategy, BeginVisit, FindBySsoId, FindByEmail, LinkSsoId,
             FindOrCreateUser, CallbackOidc, CallbackSaml, CompleteLogin, Validate, Authenticate,
             GetProfile, GetAdminUsers, GetDashboard, PostLogout, PostLogoutAll, Routes
    <3> QED BY <1>1, <3>1, <3>2, <3>3, <3>4
            DEF AccessNext, accessVars, DeactivateUser, InvalidateSessions, CreateUser
  <2>4. visit'[v].route = route /\ visit[v].roles \cap Required(route) # {}
    BY <1>1, <2>3, HandleStep
  <2> QED BY <2>1, <2>4
<1>2. AccessInv /\ [AccessNext]_accessVars => [\A v \in Visits : Rightly(v)]_accessVars
  BY <1>1
<1> QED BY <1>2, AccessInvariance, PTL DEF AccessSpec, RightsAreCurrent

-----------------------------------------------------------------------------
(* Offers.  The states of versions, and who is offered which decision.     *)

(* Which decision is offered to somebody, in which state: an administrator *)
(* has every role's rights, and no role has more than the state allows.    *)
Open(action, at) ==
  \/ action = "submit" /\ at \in {"draft", "changes_requested"}
  \/ action = "approve_staging" /\ at = "submitted"
  \/ action = "approve_production" /\ at \in {"approved_staging", "staging"}
  \/ action = "reject" /\ at \in {"submitted", "approved_staging", "staging"}
  \/ action = "deploy" /\ at = "approved_prod"

LEMMA OfferedWhenOpen ==
  ASSUME NEW at
  PROVE  Offered(at) = {MoveOf(action) : action \in {d \in Decisions : Open(d, at)}}
<1> DEFINE Offers == UNION {GetAllowedVersionActions(roles, owns, at) :
                              roles \in SUBSET UserRole, owns \in BOOLEAN}
<1>1. ASSUME NEW d \in Decisions, NEW roles \in SUBSET UserRole, NEW owns \in BOOLEAN,
             d \in GetAllowedVersionActions(roles, owns, at)
      PROVE  Open(d, at)
  BY <1>1 DEF GetAllowedVersionActions, Decisions, Open, CanEditVersion, CanSubmitVersion,
     CanApproveForStaging, CanApproveForProduction, CanRejectVersion, CanDeployVersion
<1>2. ASSUME NEW d \in Decisions, Open(d, at)
      PROVE  d \in GetAllowedVersionActions({"Admin"}, TRUE, at)
  BY <1>2 DEF GetAllowedVersionActions, Decisions, Open, CanEditModel, CanSubmitVersion,
     CanApproveForStaging, CanApproveForProduction, CanRejectVersion, CanDeployVersion
<1>3. {"Admin"} \in SUBSET UserRole /\ TRUE \in BOOLEAN
  BY DEF UserRole
<1>4. Offers \cap Decisions = {d \in Decisions : Open(d, at)}
  <2>1. ASSUME NEW d \in Decisions, Open(d, at)  PROVE d \in Offers
    <3>1. d \in GetAllowedVersionActions({"Admin"}, TRUE, at)
      BY <1>2, <2>1
    <3>2. ASSUME NEW roles \in SUBSET UserRole, NEW owns \in BOOLEAN
          PROVE  GetAllowedVersionActions(roles, owns, at) \subseteq Offers
      OBVIOUS
    <3> HIDE DEF Offers
    <3> QED BY <3>1, <3>2, <1>3
  <2>2. \A d \in Decisions : d \in Offers => Open(d, at)
    BY <1>1
  <2> QED BY <2>1, <2>2
<1> QED BY <1>4 DEF Offered

(* The two kinds of moves, in words of Open and of the trigger's list.     *)
LEMMA MovesOffered ==
  ASSUME NEW at, NEW to
  PROVE  to \in Offered(at) <=> \E d \in Decisions : Open(d, at) /\ to = MoveOf(d)
BY OfferedWhenOpen

(* Decision by decision, what is open is what the trigger accepts, but for *)
(* the two decisions of approved_staging.                                  *)
LEMMA OpenIsAccepted ==
  ASSUME NEW at \in VersionState, NEW d \in Decisions
  PROVE  /\ at # "approved_staging" => (Open(d, at) <=> MoveOf(d) \in Accepted(at))
         /\ at = "approved_staging" =>
              /\ MoveOf(d) \notin Accepted(at)
              /\ Open(d, at) <=> d \in {"approve_production", "reject"}
<1>1. CASE d = "submit"
  BY <1>1 DEF VersionState, MoveOf, Open, Accepted, ValidTransitions
<1>2. CASE d = "approve_staging"
  BY <1>2 DEF VersionState, MoveOf, Open, Accepted, ValidTransitions
<1>3. CASE d = "approve_production"
  BY <1>3 DEF VersionState, MoveOf, Open, Accepted, ValidTransitions
<1>4. CASE d = "reject"
  BY <1>4 DEF VersionState, MoveOf, Open, Accepted, ValidTransitions
<1>5. CASE d = "deploy"
  BY <1>5 DEF VersionState, MoveOf, Open, Accepted, ValidTransitions
<1> QED BY <1>1, <1>2, <1>3, <1>4, <1>5 DEF Decisions

(* What the trigger accepts leads to the target of a decision, or to one of *)
(* the three states no decision leads to.                                  *)
LEMMA AcceptedMoves ==
  ASSUME NEW at \in VersionState, NEW to \in Accepted(at)
  PROVE  \/ to \in {"staging", "deprecated", "retired"}
         \/ to \notin {"staging", "deprecated", "retired"} /\ \E d \in Decisions : to = MoveOf(d)
<1>1. \A d \in Decisions : MoveOf(d) \notin {"staging", "deprecated", "retired"}
  BY DEF Decisions, MoveOf
<1>2. to \in {"submitted", "approved_staging", "approved_prod", "changes_requested", "production",
              "staging", "deprecated", "retired"}
  BY DEF Accepted, ValidTransitions
<1>3. /\ MoveOf("submit") = "submitted" /\ MoveOf("approve_staging") = "approved_staging"
      /\ MoveOf("approve_production") = "approved_prod" /\ MoveOf("reject") = "changes_requested"
      /\ MoveOf("deploy") = "production"
  BY DEF MoveOf
<1> QED BY <1>2, <1>3 DEF Decisions

(* State by state, where the offers and the trigger part.                  *)
LEMMA OffersAndMoves ==
  ASSUME NEW at \in VersionState
  PROVE  /\ Offered(at) \ Accepted(at) =
              IF at = "approved_staging" THEN {"approved_prod", "changes_requested"} ELSE {}
         /\ Accepted(at) \ Offered(at) = Accepted(at) \cap {"staging", "deprecated", "retired"}
<1>1. \A to : to \in Offered(at) => to \notin {"staging", "deprecated", "retired"}
  BY MovesOffered DEF Decisions, MoveOf
<1>2. ASSUME at # "approved_staging", NEW to  PROVE to \in Offered(at) => to \in Accepted(at)
  BY <1>2, MovesOffered, OpenIsAccepted
<1>3. ASSUME at # "approved_staging", NEW to \in Accepted(at)
      PROVE  to \in Offered(at) \/ to \in {"staging", "deprecated", "retired"}
  BY <1>3, MovesOffered, OpenIsAccepted, AcceptedMoves
<1>4. ASSUME at = "approved_staging", NEW to
      PROVE  to \in Offered(at) <=> to \in {"approved_prod", "changes_requested"}
  <2>1. \A d \in Decisions : Open(d, at) <=> d \in {"approve_production", "reject"}
    BY <1>4, OpenIsAccepted
  <2>2. /\ {"approve_production", "reject"} \subseteq Decisions
        /\ MoveOf("approve_production") = "approved_prod" /\ MoveOf("reject") = "changes_requested"
    BY DEF Decisions, MoveOf
  <2> QED BY <2>1, <2>2, MovesOffered
<1>5. at = "approved_staging" => \A to : to \in Accepted(at) => to = "staging"
  BY DEF Accepted, ValidTransitions
<1>6. CASE at # "approved_staging"
  BY <1>1, <1>2, <1>3, <1>6
<1>7. CASE at = "approved_staging"
  BY <1>1, <1>4, <1>5, <1>7
<1> QED BY <1>6, <1>7

LEMMA LifecycleStaysTyped ==
  LifecycleType /\ [LifecycleNext]_lifecycleVars => LifecycleType'
<1> SUFFICES ASSUME LifecycleType, [LifecycleNext]_lifecycleVars  PROVE LifecycleType'
  OBVIOUS
<1>1. CASE UNCHANGED lifecycleVars
  BY <1>1 DEF LifecycleType, lifecycleVars
<1>2. ASSUME NEW v \in Versions, CreateVersion(v)  PROVE LifecycleType'
  BY <1>2 DEF LifecycleType, CreateVersion, VersionState, Movers
<1>3. ASSUME NEW v \in Versions, NEW to \in VersionState, NEW role \in Movers,
             UpdateVersionState(v, to, role)
      PROVE  LifecycleType'
  BY <1>3 DEF LifecycleType, UpdateVersionState
<1> QED BY <1>1, <1>2, <1>3 DEF LifecycleNext

(* Whatever moves versions are put through: in approved_staging alone the  *)
(* rules of AuthorizationService offer moves the trigger refuses, and what *)
(* the trigger accepts somebody is offered, but for the moves to staging,  *)
(* deprecated and retired.                                                 *)
THEOREM OffersFit ==
  LifecycleInit /\ [][LifecycleNext]_lifecycleVars => []OffersFollowLifecycle
<1>1. LifecycleInit => LifecycleType
  BY DEF LifecycleInit, LifecycleType, Movers
<1>2. LifecycleType => OffersFollowLifecycle
  BY OffersAndMoves DEF LifecycleType, OffersFollowLifecycle
<1> QED BY <1>1, <1>2, LifecycleStaysTyped, PTL
=============================================================================
