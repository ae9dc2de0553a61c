------------------------------ MODULE Accounts ------------------------------
(***************************************************************************)
(* The account service (pkg/ctrl): the users table, the keys it keeps in   *)
(* redis (verification codes, pending google-authenticator secrets, the    *)
(* one session of each account) and the tokens its clients hold.           *)
(*                                                                         *)
(* A handler is a sequence of calls to the database and to redis, and      *)
(* requests run concurrently with nothing around those calls: so a handler *)
(* is written here as the sequence of its steps, and a step of any request *)
(* may come between two steps of another.  pub.ctrl.go and user.ctrl.go    *)
(* are each a list of such sequences, the functions of common.go are their *)
(* steps.                                                                  *)
(*                                                                         *)
(* A client enters the codes that were sent to it, so a code matches when  *)
(* redis has one.  Times are kept as far as the code tells them apart:     *)
(* zero ("never"), at most 300 seconds ago ("recent") or "old".            *)
(*                                                                         *)
(* A mobile number is a spelling of it; Number is the spelling that        *)
(* MobileInput.Number gives, and some handlers store and look up the one   *)
(* the client used.                                                        *)
(***************************************************************************)
EXTENDS Integers, Sequences, FiniteSets

CONSTANTS
  Client,     \* browsers, each with the last token it was given
  Req,        \* requests that can be in flight at a time
  Account,    \* business ids (model.User.BID)
  Email, Mobile,
  Number,     \* MobileInput.Number
  None,       \* the empty string: no contact, no id
  Handler,    \* the handlers the clients use
  MaxLogin,   \* bound on session keys
  MaxFaults   \* bound on failed calls

ASSUME ConstantAssumption ==
  None \notin Email \cup Mobile \cup Account /\ MaxLogin \in Nat /\ MaxFaults \in Nat

(* Number's result is spelled as Number spells it. *)
ASSUME NumberAssumption ==
  /\ Number \in [Mobile -> Mobile]
  /\ \A c \in Mobile : Number[Number[c]] = Number[c]

Contact == Email \cup Mobile
Kind    == {"email", "mobile"}
Factor  == Kind \cup {"ga"}
Time    == {"never", "old", "recent"}

Other     == [k \in Kind |-> IF k = "email" THEN "mobile" ELSE "email"]
ContactOf == [k \in Kind |-> IF k = "email" THEN Email ELSE Mobile]

(* model.User, as far as the handlers below read or write it: Email and    *)
(* Mobile, LastEVTime, LastMVTime and LastGVTime, and whether Ga is set.   *)
Row == [contact : [Kind -> Contact \cup {None}], last : [Factor -> Time], ga : BOOLEAN]

NoRow == [contact |-> [k \in Kind |-> None], last |-> [f \in Factor |-> "never"],
          ga |-> FALSE]

(* model.TokenUser; sk is 0 for the empty string. *)
TokenUser == [bid : Account \cup {None}, contact : [Kind -> Contact \cup {None}],
              last : [Factor -> Time], sk : 0..MaxLogin]

NoToken == [bid |-> None, contact |-> NoRow.contact, last |-> NoRow.last, sk |-> 0]

VARIABLES
  exists,     \* the accounts that have a row in the users table
  user,       \* their rows
  wallet,     \* the ids the wallet server has bound to an address
  code,       \* redis "email:" and "mobile:": the contacts with a code
  gaKey,      \* redis "ga:": the accounts with a pending secret
  singleton,  \* redis "singleton:": the session key of each account
  token,      \* the token each client holds
  req,        \* the requests in flight
  logins,     \* session keys given out
  proven,     \* contacts whose code was ever entered
  entered,    \* ... in the last five minutes, and accounts whose ga code was
  newest,     \* the session key of each account's latest login
  faults      \* failed calls so far (only to bound them)

db    == <<exists, user, wallet>>
redis == <<code, gaKey, singleton>>
ghost == <<proven, entered, newest>>
vars  == <<db, redis, token, req, logins, ghost, faults>>

-----------------------------------------------------------------------------
(* The handlers.  A step is a function of common.go or a statement of the  *)
(* handler:                                                                *)
(*   free     ensureEmailNotReg / ensureMobileNotReg of the input          *)
(*   session  mustGetTu: the token's session is the one in redis           *)
(*   recent   recentToken                                                  *)
(*   load     dbUserByID, then the handler's tests of the row (admits)     *)
(*   find     dbUser by the input                                          *)
(*   known    tuDbOk                                                       *)
(*   match    the codes are read from redis and compared                   *)
(*   drop     ... and deleted                                              *)
(*   write    the UPDATE (writes)                                          *)
(*   send     sendEmailNStore / sendMobileNStore                           *)
(*   other    the same to the row's other contact, if that is verified     *)
(*   nick     ensureNickNotReg                                             *)
(*   status   the UPDATE of a column "status=?", which no table has        *)
(*   genGa    genGa                                                        *)
(*   bind     the wallet server's /bind                                    *)
(*   create   the INSERT                                                   *)
(*   reply    AToken: the session is stored and the token returned (sk)    *)
(*   sign     aToken: the token is returned and no session stored          *)

Handles(kind, admits, writes, sk, steps) ==
  [kind |-> kind, admits |-> admits, writes |-> writes, sk |-> sk, steps |-> steps]

(* pub.ctrl.go *)
PubMyEmail      == Handles("email", "any", "none", "none", <<"free", "send">>)
PubMyMobile     == Handles("mobile", "any", "none", "none", <<"free", "send">>)
VerifyEmail     == Handles("email", "any", "none", "fresh", <<"match", "drop", "reply">>)
VerifyMobile    == Handles("mobile", "any", "none", "fresh", <<"match", "drop", "reply">>)
SignIn          == Handles("both", "any", "none", "empty", <<"find", "sign">>)
Refresh         == Handles("email", "any", "none", "same", <<"session", "known", "reply">>)
ForgetE         == Handles("email", "any", "none", "none", <<"find">>)
ForgetM         == Handles("mobile", "any", "none", "none", <<"find">>)
ValidateEmail   == Handles("email", "any", "none", "none", <<"free">>)
ValidateMobile  == Handles("mobile", "any", "none", "none", <<"free">>)
ForgetSendEmailByEmail  == Handles("email", "any", "none", "none", <<"find", "send">>)
ForgetSendSMSByMobile   == Handles("mobile", "any", "none", "none", <<"find", "send">>)
ForgetSendSMSByEmail    == Handles("email", "any", "none", "none", <<"find", "other">>)
ForgetSendEmailByMobile == Handles("mobile", "any", "none", "none", <<"find", "other">>)
PresetPassword  == Handles("both", "any", "times", "matching",
                           <<"find", "match", "write", "drop", "reply">>)
PubResEmail     == Handles("email", "has", "none", "none", <<"load", "send">>)
PubResMobile    == Handles("mobile", "has", "none", "none", <<"load", "send">>)
PubRevEmail     == Handles("email", "has", "time", "renewed",
                           <<"load", "match", "write", "drop", "reply">>)
PubRevMobile    == Handles("mobile", "has", "time", "renewed",
                           <<"load", "match", "write", "drop", "reply">>)
PubVerifyGa     == Handles("ga", "ga", "time", "renewed", <<"load", "write", "reply">>)

(* user.ctrl.go *)
GenGa        == Handles("ga", "any", "none", "none", <<"session", "load", "genGa">>)
BindGa       == Handles("ga", "any", "bindGa", "kept",
                        <<"session", "load", "match", "write", "drop", "reply">>)
SignUp       == Handles("both", "any", "none", "kept",
                        <<"session", "free", "bind", "create", "reply">>)
ResEmail     == Handles("email", "has", "none", "none", <<"session", "load", "send">>)
ResMobile    == Handles("mobile", "has", "none", "none", <<"session", "load", "send">>)
RevEmail     == Handles("email", "has", "time", "kept",
                        <<"session", "load", "match", "write", "drop", "reply">>)
RevMobile    == Handles("mobile", "has", "time", "kept",
                        <<"session", "load", "match", "write", "drop", "reply">>)
MyEmail      == Handles("email", "unverified", "contact", "none",
                        <<"free", "session", "load", "write", "send">>)
MyMobile     == Handles("mobile", "unverified", "contact", "none",
                        <<"free", "session", "load", "write", "send">>)
VerifyGa     == Handles("ga", "ga", "time", "kept", <<"session", "load", "write", "reply">>)
MyNewEmail   == Handles("email", "verified", "none", "none",
                        <<"free", "session", "load", "send">>)
MyNewMobile  == Handles("mobile", "verified", "none", "none",
                        <<"free", "session", "load", "send">>)
ChangeEmail  == Handles("email", "only", "both", "kept",
                        <<"free", "session", "recent", "load", "match", "drop", "write", "reply">>)
ChangeMobile == Handles("mobile", "only", "both", "kept",
                        <<"free", "session", "recent", "load", "match", "drop", "write", "reply">>)
BindEmailBy  == Handles("email", "others", "both", "kept",
                        <<"free", "session", "load", "match", "drop", "write", "reply">>)
BindMobileBy == Handles("mobile", "others", "both", "kept",
                        <<"free", "session", "load", "match", "drop", "write", "reply">>)
UnbindGa     == Handles("ga", "any", "unbindGa", "kept",
                        <<"session", "load", "match", "write", "drop", "reply">>)

DoResetPassword == Handles("none", "reset", "password", "none",
                           <<"session", "load", "write">>)
ChangeNick   == Handles("none", "any", "nick", "kept",
                        <<"nick", "session", "load", "write", "reply">>)

(* inner-kyc.ctrl.go: an operator names the account.  (KycUserList is   *)
(* in Kyc.)                                                                *)
QueryUserByAddr   == Handles("operator", "any", "none", "none", <<"load">>)
KYC               == Handles("operator", "any", "firm", "none", <<"load", "write">>)
KycQueryById      == Handles("operator", "any", "none", "none", <<"load">>)
KycQueryByContact == Handles("both", "any", "none", "none", <<"find">>)
KycSetUserStatus  == Handles("operator", "any", "none", "none", <<"load", "status">>)

(* In what order a handler makes its calls, whichever are used: nothing is *)
(* bound for a visitor without a session, created before it is bound, or   *)
(* written or answered from a row that is not loaded.                      *)
Before(h, i, steps) == \E j \in 1..(i - 1) : h.steps[j] \in steps

CallsInOrder(h) ==
  /\ h.kind \in Kind \cup {"ga", "both", "none", "operator"}
  /\ h.steps \in Seq(STRING) \ {<<>>}
  /\ \A i \in 1..Len(h.steps) :
       /\ h.steps[i] = "bind" => Before(h, i, {"session"})
       /\ h.steps[i] = "create" => Before(h, i, {"bind"}) /\ ~Before(h, i, {"load", "find"})
       /\ h.steps[i] = "write" =>
            /\ Before(h, i, {"load", "find"})
            /\ h.writes \in {"contact", "both", "time", "times", "password", "nick", "firm",
                             "bindGa", "unbindGa"}
       /\ h.steps[i] \in {"reply", "sign"} =>
            /\ h.sk = "fresh" => h.kind \in Kind
            /\ h.sk \notin {"fresh", "same"} => Before(h, i, {"load", "find", "bind"})

(* A handler that gives a session to whoever proves to be its account. *)
IsLogin(h) == h = SignUp \/ h.sk \in {"fresh", "renewed", "matching"}

(* Its codes are those of the contact in the request. *)
TakesContact(h) == h.kind \in Kind /\ h.admits # "has" /\ h # Refresh

(* What a handler checks before what: it has the codes it compares, it     *)
(* loads one row, it writes and answers once, and what it writes or        *)
(* answers rests on a code it compared, on the row as it was tested, or on *)
(* the session.                                                            *)
ChecksInOrder(h) ==
  /\ h.admits = "has" => h.kind \in Kind
  /\ \A i \in 1..Len(h.steps) :
    LET step       == h.steps[i]
        Done(some) == Before(h, i, {some})
        Loaded     == Before(h, i, {"load", "find"})
    IN
    /\ step \in {"load", "find", "bind"} =>
         ~Before(h, i, {"load", "find", "bind", "create", "match", "write"})
    /\ step \in {"match", "send"} =>
         IF h.writes \in {"bindGa", "unbindGa", "times"} THEN Loaded
         ELSE IF h.admits = "has" THEN Done("load")
         ELSE TakesContact(h)
    /\ step = "other" => h.kind \in Kind /\ Loaded
    /\ step = "genGa" => Loaded
    /\ step = "create" => h = SignUp /\ Done("free")
    /\ step = "write" =>
         /\ ~Done("write")
         /\ h.writes \in {"contact", "both"} => TakesContact(h) /\ Done("free")
         /\ h.writes = "contact" => h.admits = "unverified" /\ Done("load")
         /\ h.writes = "time" =>
              /\ Done("load")
              /\ \/ h.kind = "ga" /\ h.admits = "ga"
                 \/ h.admits = "has" /\ Done("match")
         /\ h.writes \in {"both", "times", "bindGa", "unbindGa"} => Done("match")
         /\ h.writes = "password" => h.admits = "reset" /\ Done("load")
    /\ step \in {"reply", "sign"} =>
         /\ h.sk = "fresh" => TakesContact(h) /\ h.writes = "none" /\ Done("match")
         /\ h.sk \notin {"fresh", "same"} => Before(h, i, {"load", "find", "create"})
    /\ step = "reply" =>
         /\ ~Done("reply")
         /\ \/ IsLogin(h)
            \/ Done("session") /\ h.sk = "same"
            \/ Done("session") /\ h.kind # "operator" /\ ~Before(h, i, {"find", "bind"})

ASSUME HandlerAssumption == \A h \in Handler : CallsInOrder(h) /\ ChecksInOrder(h)

(* The contact in the request's body.  SignUp's is one besides the token's. *)
Inputs(h) ==
  CASE h = SignUp                                                  -> {None} \cup Contact
    [] h.kind \in {"ga", "none"} \/ h.admits = "has" \/ h = Refresh -> {None}
    [] h.kind = "operator"                                         -> Account
    [] h.kind = "both"                                             -> Contact
    [] OTHER                                                       -> ContactOf[h.kind]

Plain(c) == IF c \in Mobile THEN Number[c] ELSE c

(* The handlers that go on with Number() of the mobile in the body, the    *)
(* others with the mobile itself.                                          *)
Normalises(h) ==
  h \in {PubMyMobile, VerifyMobile, ForgetM, ValidateMobile, MyNewMobile, ChangeMobile,
         BindMobileBy, KycQueryByContact}

Idle == [busy |-> FALSE]

-----------------------------------------------------------------------------
TypeOK ==
  /\ exists \subseteq Account
  /\ user \in [Account -> Row]
  /\ wallet \subseteq Account
  /\ code \subseteq Contact
  /\ gaKey \subseteq Account
  /\ singleton \in [Account \cup {None} -> 0..MaxLogin]
  /\ token \in [Client -> TokenUser]
  /\ \A r \in Req :
       \/ req[r] = Idle
       \/ /\ req[r].busy
          /\ req[r].client \in Client
          /\ req[r].h \in Handler
          /\ req[r].token \in TokenUser
          /\ req[r].input \in Contact \cup Account \cup {None}
          /\ req[r].bid \in Account \cup {None}
          /\ req[r].user \in Row
          /\ req[r].todo # <<>>
  /\ logins \in 0..MaxLogin
  /\ proven \subseteq Contact
  /\ entered \subseteq Contact \cup Account
  /\ newest \in [Account \cup {None} -> 0..MaxLogin]
  /\ faults \in 0..MaxFaults

Init ==
  /\ exists = {}
  /\ user = [a \in Account |-> NoRow]
  /\ wallet = {}
  /\ code = {}
  /\ gaKey = {}
  /\ singleton = [a \in Account \cup {None} |-> 0]
  /\ token = [p \in Client |-> NoToken]
  /\ req = [r \in Req |-> Idle]
  /\ logins = 0
  /\ proven = {}
  /\ entered = {}
  /\ newest = [a \in Account \cup {None} |-> 0]
  /\ faults = 0

(* A client calls a handler with the token it holds, or the operator one   *)
(* of the inner-kyc handlers.                                              *)
Begin(r, p, h, c) ==
  /\ ~req[r].busy
  /\ req' = [req EXCEPT ![r] =
        [busy |-> TRUE, client |-> p, h |-> h, token |-> token[p],
         input |-> IF Normalises(h) THEN Plain(c) ELSE c,
         bid |-> IF h.kind = "operator" THEN c ELSE token[p].bid, user |-> NoRow, todo |-> h.steps]]
  /\ UNCHANGED <<db, redis, token, logins, ghost, faults>>

At(r, step) == req[r].busy /\ Head(req[r].todo) = step

(* Mutant: the last step does not end the request. *)
AdvanceOn(r, bid, u) ==
  req' = [req EXCEPT ![r].bid = bid, ![r].user = u, ![r].todo = Tail(@)]

(* On to the next step, with what this one loaded; the last one ends the   *)
(* request.                                                                *)
Advance(r, bid, u) ==
  req' = [req EXCEPT ![r] =
            IF Len(req[r].todo) = 1 THEN Idle
            ELSE [req[r] EXCEPT !.bid = bid, !.user = u, !.todo = Tail(req[r].todo)]]

Proceed(r) == Advance(r, req[r].bid, req[r].user)

-----------------------------------------------------------------------------
(* What a step requires. *)

Verified(u, f) == u.last[f] # "never"

(* The rows that dbUser... finds under a contact: only verified ones. *)
Registered(k, c) == {a \in exists : user[a].contact[k] = c /\ Verified(user[a], k)}

(* dbUser: an address with an @ is looked up as an email, any other as a   *)
(* mobile.                                                                 *)
FoundBy(c) == UNION {Registered(k, c) : k \in {k \in Kind : c \in ContactOf[k]}}

(* What SignUp registers: the token's contacts, the input besides them. *)
SignUpContacts(r) ==
  [k \in Kind |-> IF req[r].token.contact[k] # None THEN req[r].token.contact[k]
                  ELSE IF req[r].input \in ContactOf[k] THEN Plain(req[r].input) ELSE None]

(* Mutant: only SignUp looks whether a contact is another's. *)
IsFreeToMembers(r) ==
  req[r].h = SignUp =>
    \A k \in Kind : SignUpContacts(r)[k] # None => Registered(k, SignUpContacts(r)[k]) = {}

(* ensureEmailNotReg, ensureMobileNotReg.  SignUp refuses an input that is *)
(* not the one the token has.                                              *)
IsFree(r) ==
  IF req[r].h = SignUp
  THEN /\ \A k \in Kind : req[r].token.contact[k] # None /\ req[r].input \in ContactOf[k]
                         => req[r].input = req[r].token.contact[k]
       /\ \A k \in Kind : SignUpContacts(r)[k] # None => Registered(k, SignUpContacts(r)[k]) = {}
  ELSE Registered(req[r].h.kind, req[r].input) = {}

(* Mutant: the token's session is not compared with the one in redis. *)
InAnySession(r) == req[r].token # NoToken

(* sku. *)
InSession(r) ==
  /\ req[r].token # NoToken
  /\ singleton[req[r].token.bid] = req[r].token.sk

(* recentToken: no time in the token is past, zero passes. *)
IsRecent(r) == \A f \in Factor : req[r].token.last[f] # "old"

(* Mutant: the email's time is left out. *)
MayResetByMobile(u) ==
  /\ \E k \in Kind : Verified(u, k)
  /\ \A f \in Factor \ {"email"} : u.last[f] # "old"

(* DoResetPassword: each verified factor recently, the email or the mobile *)
(* among them.                                                             *)
MayReset(u) ==
  /\ \E k \in Kind : Verified(u, k)
  /\ \A f \in Factor : u.last[f] # "old"

(* Mutant: a verified contact may be replaced before the new one is. *)
AdmitsReplacing(h, u) ==
  CASE h.admits \in {"any", "unverified"} -> TRUE
    [] h.admits = "has"      -> u.contact[h.kind] # None
    [] h.admits = "verified" -> Verified(u, h.kind)
    [] h.admits = "ga"       -> u.ga
    [] h.admits = "only"     -> /\ Verified(u, h.kind)
                                /\ \A f \in Factor \ {h.kind} : ~Verified(u, f)
    [] h.admits = "others"   -> /\ \E f \in Factor \ {h.kind} : Verified(u, f)
                                /\ \A f \in Factor \ {h.kind} : u.last[f] # "old"
    [] h.admits = "reset"    -> MayReset(u)

(* The handlers' tests of the loaded row.  (A ga code is right when Ga is  *)
(* set.)                                                                   *)
Admits(h, u) ==
  CASE h.admits = "any"        -> TRUE
    [] h.admits = "has"        -> u.contact[h.kind] # None
    [] h.admits = "unverified" -> ~(Verified(u, h.kind) /\ u.contact[h.kind] # None)
    [] h.admits = "verified"   -> Verified(u, h.kind)
    [] h.admits = "ga"         -> u.ga
    [] h.admits = "only"       -> /\ Verified(u, h.kind)
                                  /\ \A f \in Factor \ {h.kind} : ~Verified(u, f)
    [] h.admits = "others"     -> /\ \E f \in Factor \ {h.kind} : Verified(u, f)
                                  /\ \A f \in Factor \ {h.kind} : u.last[f] # "old"
    [] h.admits = "reset"      -> MayReset(u)

IsLoaded(r) ==
  /\ req[r].bid \in exists
  /\ Admits(req[r].h, user[req[r].bid])
  /\ req[r].h = MyEmail => req[r].token.contact["mobile"] # None

(* tuDbOk: the email if it is verified, the mobile otherwise. *)
IsKnown(r) ==
  \E k \in Kind :
    /\ req[r].token.last[k] # "never"
    /\ k = "mobile" => req[r].token.last["email"] = "never"
    /\ Registered(k, req[r].token.contact[k]) # {}

(* Mutant: an account with a verified email is not asked for its mobile's. *)
CodesOfOne(r) ==
  IF req[r].h.writes \in {"bindGa", "unbindGa", "times"}
  THEN {req[r].user.contact[IF Verified(req[r].user, "email") THEN "email" ELSE "mobile"]}
  ELSE IF req[r].h.admits = "has" THEN {req[r].user.contact[req[r].h.kind]}
  ELSE {req[r].input}

(* The contacts whose codes the request has to bring: those of the row, or *)
(* the one in the input.                                                   *)
Codes(r) ==
  IF req[r].h.writes \in {"bindGa", "unbindGa", "times"}
  THEN {req[r].user.contact[k] : k \in {k \in Kind : Verified(req[r].user, k)}}
  ELSE IF req[r].h.admits = "has" THEN {req[r].user.contact[req[r].h.kind]}
  ELSE {req[r].input}

(* emailCodeExists, checkUserEmailCode, checkUserGCode and their likes. *)
CodesMatch(r) ==
  /\ Codes(r) \subseteq code
  /\ req[r].h.writes = "bindGa" => req[r].bid \in gaKey
  /\ req[r].h.writes = "times" /\ Verified(req[r].user, "ga") => req[r].user.ga

(* The google-authenticator code comes with the others. *)
MatchesGa(r) ==
  \/ req[r].h.writes = "bindGa"
  \/ req[r].h.writes = "times" /\ Verified(req[r].user, "ga")

Passes(r) ==
  LET step == Head(req[r].todo) IN
    /\ step = "free"    => IsFree(r)
    /\ step = "session" => InSession(r)
    /\ step = "recent"  => IsRecent(r)
    /\ step = "load"    => IsLoaded(r)
    /\ step = "find"    => FoundBy(req[r].input) # {}
    /\ step = "known"   => IsKnown(r)
    /\ step = "match"   => CodesMatch(r)
    /\ step = "create"  => req[r].bid \notin exists
    /\ step = "other"   => Verified(req[r].user, Other[req[r].h.kind])
    /\ step # "status"

(* The step's test fails: the handler answers with an error.  (Nicknames   *)
(* are not modelled: one is free or taken.)                                *)
Refuse(r) ==
  /\ req[r].busy
  /\ ~Passes(r) \/ At(r, "nick")
  /\ req' = [req EXCEPT ![r] = Idle]
  /\ UNCHANGED <<db, redis, token, logins, ghost, faults>>

(* A call to the database, redis, the wallet or the mail server fails. *)
RequestFails(r) ==
  /\ faults < MaxFaults
  /\ faults' = faults + 1
  /\ req[r].busy
  /\ req' = [req EXCEPT ![r] = Idle]
  /\ UNCHANGED <<db, redis, token, logins, ghost>>

-----------------------------------------------------------------------------
(* The steps. *)

(* Steps that only test. *)
Test(r) ==
  /\ \E step \in {"free", "session", "recent", "known", "nick"} : At(r, step)
  /\ Passes(r)
  /\ Proceed(r)
  /\ UNCHANGED <<db, redis, token, logins, ghost, faults>>

Load(r) ==
  /\ At(r, "load")
  /\ Passes(r)
  /\ Advance(r, req[r].bid, user[req[r].bid])
  /\ entered' = IF req[r].h.admits = "ga" THEN entered \cup {req[r].bid} ELSE entered
  /\ UNCHANGED <<db, redis, token, logins, proven, newest, faults>>

Find(r) ==
  /\ At(r, "find")
  /\ \E a \in FoundBy(req[r].input) : Advance(r, a, user[a])
  /\ UNCHANGED <<db, redis, token, logins, ghost, faults>>

Match(r) ==
  /\ At(r, "match")
  /\ Passes(r)
  /\ proven' = proven \cup Codes(r)
  /\ entered' = entered \cup Codes(r) \cup (IF MatchesGa(r) THEN {req[r].bid} ELSE {})
  /\ Proceed(r)
  /\ UNCHANGED <<db, redis, token, logins, newest, faults>>

Drop(r) ==
  /\ At(r, "drop")
  /\ code' = code \ Codes(r)
  /\ gaKey' = IF req[r].h.writes = "bindGa" THEN gaKey \ {req[r].bid} ELSE gaKey
  /\ Proceed(r)
  /\ UNCHANGED <<db, singleton, token, logins, ghost, faults>>

(* Mutant: the mobile's time is left out. *)
RenewedEmail(snapshot) ==
  [f \in Factor |-> IF Verified(snapshot, f) /\ f # "mobile" THEN "recent" ELSE "never"]

(* The times a handler stores for the factors it has checked: those the    *)
(* row did not have stay zero.                                             *)
Renewed(snapshot) ==
  [f \in Factor |-> IF Verified(snapshot, f) THEN "recent" ELSE "never"]

(* Mutant: the secret is cleared, its time is not. *)
WrittenKeepingGaTime(h, u, snapshot, c) ==
  CASE h.writes = "contact"  -> [u EXCEPT !.contact[h.kind] = c]
    [] h.writes = "both"     -> [u EXCEPT !.contact[h.kind] = c, !.last[h.kind] = "recent"]
    [] h.writes = "time"     -> [u EXCEPT !.last[h.kind] = "recent"]
    [] h.writes = "times"    -> [u EXCEPT !.last = Renewed(snapshot)]
    [] h.writes \in {"password", "nick", "firm"} -> u
    [] h.writes = "bindGa"   -> [u EXCEPT !.ga = TRUE,
                                          !.last = [Renewed(snapshot) EXCEPT !["ga"] = "recent"]]
    [] h.writes = "unbindGa" -> [u EXCEPT !.ga = FALSE, !.last = Renewed(snapshot)]

(* The UPDATE of a row u by a handler that has loaded it as snapshot: only *)
(* the columns it names change.  (Row leaves out the password, the         *)
(* nickname and the firm.)                                                 *)
Written(h, u, snapshot, c) ==
  CASE h.writes = "contact"  -> [u EXCEPT !.contact[h.kind] = c]
    [] h.writes = "both"     -> [u EXCEPT !.contact[h.kind] = c, !.last[h.kind] = "recent"]
    [] h.writes = "time"     -> [u EXCEPT !.last[h.kind] = "recent"]
    [] h.writes = "times"    -> [u EXCEPT !.last = Renewed(snapshot)]
    [] h.writes \in {"password", "nick", "firm"} -> u
    [] h.writes = "bindGa"   -> [u EXCEPT !.ga = TRUE,
                                          !.last = [Renewed(snapshot) EXCEPT !["ga"] = "recent"]]
    [] h.writes = "unbindGa" -> [u EXCEPT !.ga = FALSE,
                                          !.last = [Renewed(snapshot) EXCEPT !["ga"] = "never"]]

Write(r) ==
  /\ At(r, "write")
  /\ LET Update(u) == Written(req[r].h, u, req[r].user, req[r].input) IN
       /\ user' = [user EXCEPT ![req[r].bid] = Update(@)]
       /\ Advance(r, req[r].bid, Update(req[r].user))
  /\ UNCHANGED <<exists, wallet, redis, token, logins, ghost, faults>>

(* sendEmailNStore, sendMobileNStore. *)
Send(r) ==
  /\ \/ At(r, "send") /\ code' = code \cup Codes(r)
     \/ /\ At(r, "other")
        /\ Passes(r)
        /\ code' = code \cup {req[r].user.contact[Other[req[r].h.kind]]}
  /\ Proceed(r)
  /\ UNCHANGED <<db, gaKey, singleton, token, logins, ghost, faults>>

StoreGa(r) ==
  /\ At(r, "genGa")
  /\ gaKey' = gaKey \cup {req[r].bid}
  /\ Proceed(r)
  /\ UNCHANGED <<db, code, singleton, token, logins, ghost, faults>>

(* Mutant: SignUp goes on when the wallet has not answered with success. *)
BindUnchecked(r) ==
  /\ At(r, "bind")
  /\ \E a \in Account \ exists :
       /\ wallet' \in {wallet, wallet \cup {a}}
       /\ Advance(r, a, [contact |-> SignUpContacts(r), last |-> req[r].token.last, ga |-> FALSE])
  /\ UNCHANGED <<exists, user, redis, token, logins, ghost, faults>>

(* mustBid, and the wallet's address for the new id. *)
Bind(r) ==
  /\ At(r, "bind")
  /\ \E a \in Account \ exists :
       /\ wallet' = wallet \cup {a}
       /\ Advance(r, a, [contact |-> SignUpContacts(r), last |-> req[r].token.last, ga |-> FALSE])
  /\ UNCHANGED <<exists, user, redis, token, logins, ghost, faults>>

Create(r) ==
  /\ At(r, "create")
  /\ Passes(r)
  /\ exists' = exists \cup {req[r].bid}
  /\ user' = [user EXCEPT ![req[r].bid] = req[r].user]
  /\ Proceed(r)
  /\ UNCHANGED <<wallet, redis, token, logins, ghost, faults>>

(* The session key of the answer: a new one, or the one the token has. *)
NeedsKey(r) ==
  \/ req[r].h.sk = "fresh"
  \/ req[r].h.sk = "renewed" /\ req[r].token.sk = 0
  \/ req[r].h.sk = "matching" /\ req[r].token.bid # req[r].bid

(* Mutant: the visitor's token lacks the time of the verification. *)
VisitorUnverified(r, sk) ==
  [bid |-> None, contact |-> [NoRow.contact EXCEPT ![req[r].h.kind] = req[r].input],
   last |-> NoRow.last, sk |-> sk]

(* What VerifyEmail and VerifyMobile put in a visitor's token. *)
Visitor(r, sk) ==
  [bid |-> None, contact |-> [NoRow.contact EXCEPT ![req[r].h.kind] = req[r].input],
   last |-> [NoRow.last EXCEPT ![req[r].h.kind] = "recent"], sk |-> sk]

Answer(r, sk) ==
  CASE req[r].h.sk = "fresh" -> Visitor(r, sk)
    [] req[r].h.sk = "same"  -> req[r].token
    [] OTHER -> [bid |-> req[r].bid, contact |-> req[r].user.contact,
                 last |-> req[r].user.last, sk |-> sk]

(* AToken: the session goes to redis, the token to the client. *)
Reply(r) ==
  /\ At(r, "reply")
  /\ NeedsKey(r) => logins < MaxLogin
  /\ logins' = IF NeedsKey(r) THEN logins + 1 ELSE logins
  /\ LET sk     == IF NeedsKey(r) THEN logins + 1 ELSE req[r].token.sk
         answer == Answer(r, sk) IN
       /\ singleton' = [singleton EXCEPT ![answer.bid] = sk]
       /\ newest' = IF IsLogin(req[r].h) THEN [newest EXCEPT ![answer.bid] = sk] ELSE newest
       /\ token' = [token EXCEPT ![req[r].client] = answer]
  /\ Proceed(r)
  /\ UNCHANGED <<db, code, gaKey, proven, entered, faults>>

(* SignIn: a token without a session key, and no session. *)
Sign(r) ==
  /\ At(r, "sign")
  /\ token' = [token EXCEPT ![req[r].client] = Answer(r, 0)]
  /\ Proceed(r)
  /\ UNCHANGED <<db, redis, logins, ghost, faults>>

(* The client's cookie is erased, and it forgets its token: redis keeps    *)
(* the session.                                                            *)
SignOut(p) ==
  /\ token' = [token EXCEPT ![p] = NoToken]
  /\ UNCHANGED <<db, redis, req, logins, ghost, faults>>

-----------------------------------------------------------------------------
(* Five minutes pass: keys expire in redis, and what was recent is old.    *)

CodeExpires ==
  /\ \/ \E c \in code : code' = code \ {c} /\ UNCHANGED gaKey
     \/ \E a \in gaKey : gaKey' = gaKey \ {a} /\ UNCHANGED code
  /\ UNCHANGED <<db, singleton, token, req, logins, ghost, faults>>

(* skExpire after it was stored. *)
SessionExpires(a) ==
  /\ singleton[a] # 0
  /\ singleton' = [singleton EXCEPT ![a] = 0]
  /\ UNCHANGED <<db, code, gaKey, token, req, logins, ghost, faults>>

Aged(last) == [f \in Factor |-> IF last[f] = "recent" THEN "old" ELSE last[f]]

(* A request is answered within the five minutes: what it compared and     *)
(* then writes as "recent" still is.                                       *)
TimePasses ==
  /\ \A r \in Req : ~req[r].busy
  /\ user' = [a \in Account |-> [user[a] EXCEPT !.last = Aged(@)]]
  /\ token' = [p \in Client |-> [token[p] EXCEPT !.last = Aged(@)]]
  /\ code' = {}
  /\ gaKey' = {}
  /\ entered' = {}
  /\ UNCHANGED <<exists, wallet, singleton, req, logins, proven, newest, faults>>

-----------------------------------------------------------------------------
Step(r) ==
  \/ Test(r) \/ Load(r) \/ Find(r) \/ Match(r) \/ Drop(r) \/ Write(r)
  \/ Send(r) \/ StoreGa(r) \/ Bind(r) \/ Create(r) \/ Reply(r) \/ Sign(r)
  \/ Refuse(r) \/ RequestFails(r)

Next ==
  \/ \E r \in Req, p \in Client, h \in Handler : \E c \in Inputs(h) : Begin(r, p, h, c)
  \/ \E r \in Req : Step(r)
  \/ \E p \in Client : SignOut(p)
  \/ CodeExpires
  \/ \E a \in Account \cup {None} : SessionExpires(a)
  \/ TimePasses

Spec == Init /\ [][Next]_vars

-----------------------------------------------------------------------------
(* Properties. *)

(* No client signs up with the token of an account it has.  SignUp takes   *)
(* any token, and dates the new row with all the times in it; what is said *)
(* of google-authenticator below holds of clients that do not.             *)
VisitorsSignUp == \A r \in Req : At(r, "create") => req[r].token.bid = None

(* A contact that counts as verified is one whose code was entered: no     *)
(* sequence of binding, changing and verifying requests carries the time   *)
(* of one contact over to another (user.ctrl.go:511-613, 775-1090).        *)
ProvenContacts ==
  \A a \in exists, k \in Kind :
    Verified(user[a], k) => user[a].contact[k] \in proven

(* What a row or a token shows as verified in the last five minutes was:   *)
(* its code was entered in these minutes, by whatever handler, and no      *)
(* renewal, change or binding dates another factor along with its own      *)
(* (common.go:160-284; pub.ctrl.go:481-545; user.ctrl.go:94-153,           *)
(* 775-1164).                                                              *)
EarnedTimes ==
  LET Earned(id, u) ==
        /\ \A k \in Kind : u.last[k] = "recent" => u.contact[k] \in entered
        /\ u.last["ga"] = "recent" => id \in entered
  IN /\ \A a \in exists : Earned(a, user[a])
     /\ \A p \in Client : Earned(token[p].bid, token[p])

(* A password is about to be replaced only when the code of every factor   *)
(* that the account has verified was entered in the last five minutes, in  *)
(* the requests before (user.ctrl.go:1203-1247).                           *)
PasswordNeedsFactors ==
  \A r \in Req :
    At(r, "write") /\ req[r].h.writes = "password" =>
      LET a == req[r].bid IN
        /\ \A k \in Kind : Verified(user[a], k) => user[a].contact[k] \in entered
        /\ Verified(user[a], "ga") => a \in entered

(* An account asks for google-authenticator codes exactly when it has the  *)
(* secret to check them with (user.ctrl.go:94-153, 1105-1164).             *)
GaIsUsable == \A a \in exists : Verified(user[a], "ga") <=> user[a].ga

(* The session redis knows, if it knows one, is that of the latest login   *)
(* (common.go:60-70, 541-571): only it passes mustGetTu, and an older one  *)
(* does not put itself back without verifying a factor again.  Visitors    *)
(* have no id: the one that verified a contact last has the session of all.*)
NewestSessionWins == \A a \in Account \cup {None} : singleton[a] \in {0, newest[a]}

(* Every account has an address at the wallet, whatever step of SignUp     *)
(* fails (user.ctrl.go:237-275).                                           *)
AccountsHaveAddress == exists \subseteq wallet

(* Every account can be found by a verified contact: it can sign in, and   *)
(* recover its password (common.go:286-376).                               *)
AccountsCanSignIn == \A a \in exists : \E k \in Kind : Verified(user[a], k)

(* No request takes back that a contact of an account was verified, while  *)
(* it is the only one running (user.ctrl.go:94-153, 1105-1164,             *)
(* pub.ctrl.go:481-545: three handlers write the times of all factors).    *)
ContactsStayVerified ==
  [][\A a \in exists, k \in Kind : Verified(user[a], k) => Verified(user'[a], k)]_vars

(* A request that is the only one running gives no account a contact that  *)
(* another has verified, in the spelling it stores (common.go:430-464).    *)
NoContactTaken ==
  [][\A a \in Account, k \in Kind :
       LET c == user'[a].contact[k] IN
         c \notin {None, user[a].contact[k]} => Registered(k, c) \subseteq {a}]_vars

-----------------------------------------------------------------------------
(* What comments and documents say and the code does not do: each has a    *)
(* configuration with which TLC finds it violated (README.md, section 6).  *)

(* pub.ctrl.go:59: an address is not in the database twice.  (It is, when  *)
(* a second account was given it before the first had verified it.)        *)
ContactsUnique ==
  \A a, b \in exists, k \in Kind :
    /\ Verified(user[a], k)
    /\ Verified(user[b], k)
    /\ user[a].contact[k] = user[b].contact[k]
    => a = b

(* pub.ctrl.go:59, of a number however it is spelled.  (MyMobile stores    *)
(* and looks up the number as the client spelled it, the others as Number  *)
(* does.)                                                                  *)
NoNumberTaken ==
  [][\A a \in Account, c \in Mobile :
       /\ user'[a].contact["mobile"] = c
       /\ user[a].contact["mobile"] # c
       => \A d \in Mobile : Number[d] = Number[c] => Registered("mobile", d) \subseteq {a}]_vars

(* user.ctrl.go:158: a visitor with a verified contact has the token it    *)
(* signs up with, until its session expires.  (All visitors share one.)    *)
VisitorsCanSignUp ==
  \A p \in Client :
    token[p] # NoToken /\ token[p].bid = None => singleton[None] \in {0, token[p].sk}

=============================================================================
