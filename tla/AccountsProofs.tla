--------------------------- MODULE AccountsProofs ---------------------------
(***************************************************************************)
(* What Accounts does for any number of clients, accounts, contacts and    *)
(* failed calls, and for any handlers that make their calls and their      *)
(* tests in order (HandlerAssumption).                                     *)
(*                                                                         *)
(* Requests that overlap in any way: every account can be signed in to,    *)
(* has its address at the wallet, and redis, tokens and requests hold what *)
(* they should.  Handlers write from rows they loaded earlier, so what is  *)
(* in the table is not enough: every copy of a row, in a request or in a   *)
(* token, shows a verified contact too.  A copy is only made of a row that *)
(* does, a write dates at least the contacts that its copy shows, and time *)
(* makes no verified contact an unverified one.                            *)
(*                                                                         *)
(* One request at a time: the factors, sessions and contacts are what they *)
(* are shown as.                                                           *)
(***************************************************************************)
EXTENDS Accounts, TLAPS

(* Rows and tokens, but for what kind of contact is at which place. *)
Thing    == Contact \cup Account \cup {None}
AnyRow   == [contact : [Kind -> Thing], last : [Factor -> Time], ga : BOOLEAN]
AnyToken == [bid : Thing, contact : [Kind -> Thing], last : [Factor -> Time], sk : Nat]
Request  == [busy : {TRUE}, client : Client, h : Handler, token : AnyToken, input : Thing,
             bid : Thing, user : AnyRow, todo : Seq(STRING)]

(* It shows a verified contact. *)
SignsIn(x) == \E k \in Kind : x.last[k] # "never"

TokenOK(t) == t \in AnyToken /\ (t # NoToken => SignsIn(t))

(* The request is about to make its i-th call. *)
Place(q, i) ==
  /\ Len(q.todo) = Len(q.h.steps) - (i - 1)
  /\ \A j \in 1..Len(q.todo) : q.todo[j] = q.h.steps[i - 1 + j]

(* What it knows when it has made the calls before the i-th. *)
Knows(h, i, t, b, u, w) ==
  /\ Before(h, i, {"session"}) => t # NoToken
  /\ Before(h, i, {"load", "find", "bind"}) => b \in Account /\ SignsIn(u)
  /\ Before(h, i, {"bind"}) /\ ~Before(h, i, {"load", "find"}) => b \in w

InFlight(q, w) ==
  /\ q \in Request
  /\ TokenOK(q.token)
  /\ \E i \in 1..Len(q.h.steps) : Place(q, i) /\ Knows(q.h, i, q.token, q.bid, q.user, w)

TableInv ==
  /\ exists \subseteq wallet
  /\ wallet \subseteq Account
  /\ user \in [Account -> AnyRow]
  /\ \A a \in exists : SignsIn(user[a])

TokenInv ==
  /\ token \in [Client -> AnyToken]
  /\ \A p \in Client : TokenOK(token[p])
  /\ logins \in Nat

ReqInv ==
  /\ DOMAIN req = Req
  /\ \A r \in Req : req[r] = Idle \/ InFlight(req[r], wallet)

AInv == TableInv /\ TokenInv /\ ReqInv

-----------------------------------------------------------------------------
LEMMA IdleIsIdle == \A q, w : InFlight(q, w) => q # Idle /\ q.busy
<1> SUFFICES ASSUME NEW q, NEW w, InFlight(q, w) PROVE q # Idle /\ q.busy
  OBVIOUS
<1>1. q.busy = TRUE
  BY DEF InFlight, Request
<1>2. Idle.busy = FALSE
  BY DEF Idle
<1> QED
  BY <1>1, <1>2

(* A request that is busy is in flight. *)
LEMMA BusyInFlight ==
  ASSUME ReqInv, NEW r \in Req, req[r].busy
  PROVE  InFlight(req[r], wallet)
<1>1. Idle.busy = FALSE
  BY DEF Idle
<1> QED
  BY <1>1, Zenon DEF ReqInv

LEMMA NothingShown == ~SignsIn(NoRow) /\ NoRow \in AnyRow /\ TokenOK(NoToken)
<1>1. NoRow \in AnyRow
  BY DEF NoRow, AnyRow, Thing, Time
<1>2. NoToken \in AnyToken
  BY DEF NoToken, NoRow, AnyToken, Thing, Time
<1>3. ~SignsIn(NoRow)
  BY DEF SignsIn, NoRow, Factor
<1> QED
  BY <1>1, <1>2, <1>3 DEF TokenOK

LEMMA BeforeNext ==
  ASSUME NEW h, NEW i \in Nat \ {0}, NEW S
  PROVE  Before(h, i + 1, S) <=> Before(h, i, S) \/ h.steps[i] \in S
<1>1. 1..(i + 1 - 1) = (1..(i - 1)) \cup {i}
  OBVIOUS
<1> QED
  BY <1>1 DEF Before

(* What the i-th call adds to what is known. *)
LEMMA KnowsMore ==
  ASSUME NEW h, NEW i \in Nat \ {0}, NEW t, NEW b, NEW u, NEW b1, NEW u1,
         NEW w, NEW w1, w \subseteq w1,
         Knows(h, i, t, b, u, w),
         h.steps[i] = "session" => t # NoToken,
         h.steps[i] \notin {"load", "find", "bind"} => b1 = b /\ (SignsIn(u) => SignsIn(u1)),
         h.steps[i] \in {"load", "find", "bind"} => b1 \in Account /\ SignsIn(u1),
         h.steps[i] = "bind" => b1 \in w1
  PROVE  Knows(h, i + 1, t, b1, u1, w1)
<1>1. ASSUME NEW S PROVE Before(h, i + 1, S) <=> Before(h, i, S) \/ h.steps[i] \in S
  BY BeforeNext
<1>2. Before(h, i + 1, {"session"}) => t # NoToken
  BY <1>1 DEF Knows
<1>3. Before(h, i + 1, {"load", "find", "bind"}) => b1 \in Account /\ SignsIn(u1)
  <2>1. CASE h.steps[i] \in {"load", "find", "bind"}
    BY <2>1
  <2>2. CASE h.steps[i] \notin {"load", "find", "bind"}
    BY <2>2, <1>1 DEF Knows
  <2> QED
    BY <2>1, <2>2
<1>4. Before(h, i + 1, {"bind"}) /\ ~Before(h, i + 1, {"load", "find"}) => b1 \in w1
  <2>1. CASE h.steps[i] = "bind"
    BY <2>1
  <2>2. CASE h.steps[i] \in {"load", "find"}
    BY <2>2, <1>1
  <2>3. CASE h.steps[i] \notin {"load", "find", "bind"}
    BY <2>3, <1>1 DEF Knows
  <2> QED
    BY <2>1, <2>2, <2>3
<1> QED
  BY <1>2, <1>3, <1>4 DEF Knows, Before

(* Whatever the other requests are about to do, they still can. *)
LEMMA InFlightStays ==
  ASSUME NEW q, NEW w, NEW w1, InFlight(q, w), w \subseteq w1
  PROVE  InFlight(q, w1)
<1>1. PICK i \in 1..Len(q.h.steps) : Place(q, i) /\ Knows(q.h, i, q.token, q.bid, q.user, w)
  BY DEF InFlight
<1>2. Knows(q.h, i, q.token, q.bid, q.user, w1)
  BY <1>1 DEF Knows
<1> QED
  BY <1>1, <1>2 DEF InFlight

LEMMA RequestsStay ==
  ASSUME ReqInv, UNCHANGED req, wallet \subseteq wallet'
  PROVE  ReqInv'
BY InFlightStays DEF ReqInv

(* A request that begins, goes on or ends leaves the others as they are. *)
LEMMA OneRequest ==
  ASSUME ReqInv, NEW r \in Req, NEW q, req' = [req EXCEPT ![r] = q],
         wallet \subseteq wallet', q = Idle \/ InFlight(q, wallet')
  PROVE  ReqInv'
<1>1. DOMAIN req' = Req /\ req'[r] = q
  BY DEF ReqInv
<1>2. \A s \in Req : s # r => req'[s] = req[s]
  BY DEF ReqInv
<1>3. \A s \in Req : req[s] = Idle \/ InFlight(req[s], wallet')
  BY InFlightStays DEF ReqInv
<1> QED
  BY <1>1, <1>2, <1>3 DEF ReqInv

LEMMA TailIsShorter ==
  ASSUME NEW s \in Seq(STRING), s # <<>>
  PROVE  /\ Tail(s) \in Seq(STRING)
         /\ Len(Tail(s)) = Len(s) - 1
         /\ \A j \in 1..Len(s) - 1 : Tail(s)[j] = s[j + 1]
  OBVIOUS

(* The step after the i-th call: the request is over, or at the next one   *)
(* with what the call has loaded.                                          *)
LEMMA Advanced ==
  ASSUME ReqInv, NEW r \in Req, req[r].busy,
         NEW i \in 1..Len(req[r].h.steps), Place(req[r], i),
         NEW b \in Thing, NEW u \in AnyRow, Advance(r, b, u)
  PROVE  LET q == req'[r] IN
         /\ DOMAIN req' = Req /\ \A s \in Req : s # r => req'[s] = req[s]
         /\ req' = [req EXCEPT ![r] = q]
         /\ \/ q = Idle
            \/ /\ q \in Request
               /\ q.h = req[r].h /\ q.token = req[r].token /\ q.input = req[r].input
               /\ q.bid = b /\ q.user = u
               /\ i + 1 \in 1..Len(q.h.steps)
               /\ \A j \in 1..Len(q.h.steps) : Place(q, j) <=> j = i + 1
<1> DEFINE q == req[r]
           q1 == [q EXCEPT !.bid = b, !.user = u, !.todo = Tail(q.todo)]
           q2 == IF Len(q.todo) = 1 THEN Idle ELSE q1
<1>1. InFlight(q, wallet) /\ q \in Request /\ TokenOK(q.token)
  BY BusyInFlight DEF InFlight
<1>4. req' = [req EXCEPT ![r] = q2]
  BY DEF Advance
<1>5. /\ DOMAIN req' = Req /\ \A s \in Req : s # r => req'[s] = req[s]
      /\ req'[r] = q2
      /\ req' = [req EXCEPT ![r] = req'[r]]
  <2> HIDE DEF q2
  <2> QED
    BY <1>4 DEF ReqInv
<1>2. CASE Len(q.todo) = 1
  <2>1. q2 = Idle
    BY <1>2
  <2> HIDE DEF q2
  <2> QED
    BY <1>5, <2>1
<1>3. CASE Len(q.todo) # 1
  <2>1. q2 = q1
    BY <1>3
  <2>2. q.todo \in Seq(STRING) /\ q.h.steps \in Seq(STRING)
    BY <1>1, HandlerAssumption DEF Request, CallsInOrder
  <2>3. q.todo # <<>> /\ Len(q.todo) = Len(q.h.steps) - (i - 1)
    BY <2>2 DEF Place
  <2>4. i + 1 \in 1..Len(q.h.steps)
    BY <1>3, <2>2, <2>3
  <2> DEFINE rest == Tail(q.todo)
  <2>9. rest \in Seq(STRING) /\ Len(rest) = Len(q.todo) - 1
        /\ \A j \in 1..Len(q.todo) - 1 : rest[j] = q.todo[j + 1]
    BY <2>2, <2>3, TailIsShorter
  <2> HIDE DEF rest
  <2>5. q1 \in Request
    BY <1>1, <2>9 DEF Request, rest
  <2>6. /\ q1.h = q.h /\ q1.token = q.token /\ q1.input = q.input
        /\ q1.bid = b /\ q1.user = u /\ q1.todo = Tail(q.todo)
    BY <1>1 DEF Request
  <2>7. Place(q1, i + 1)
    <3>1. \A j \in 1..Len(rest) : rest[j] = q.h.steps[i + j]
      <4> SUFFICES ASSUME NEW j \in 1..Len(rest) PROVE rest[j] = q.h.steps[i + j]
        OBVIOUS
      <4>1. j + 1 \in 1..Len(q.todo) /\ j \in 1..Len(q.todo) - 1
        BY <2>2, <2>9
      <4>2. q.todo[j + 1] = q.h.steps[i - 1 + (j + 1)]
        BY <4>1 DEF Place
      <4> QED
        BY <4>1, <4>2, <2>9
    <3>2. q1.todo = rest /\ Len(rest) = Len(q1.h.steps) - (i + 1 - 1)
      BY <2>2, <2>3, <2>6, <2>9 DEF rest
    <3>3. \A j \in 1..Len(rest) : rest[j] = q1.h.steps[i + 1 - 1 + j]
      BY <3>1, <2>6, i + 1 - 1 = i
    <3> HIDE DEF q1
    <3> QED
      BY <3>2, <3>3 DEF Place
  <2>8. \A j \in 1..Len(q1.h.steps) : Place(q1, j) => j = i + 1
    <3>1. Len(q1.todo) \in Nat /\ Len(q1.h.steps) \in Nat
      BY <2>2, <2>6, <2>9 DEF rest
    <3> HIDE DEF q1
    <3> QED
      BY <2>7, <3>1 DEF Place
  <2> HIDE DEF q1, q2
  <2> QED
    BY <1>5, <2>1, <2>4, <2>5, <2>6, <2>7, <2>8
<1> QED
  BY <1>2, <1>3

LEMMA AdvanceInv ==
  ASSUME ReqInv, wallet \subseteq wallet', NEW r \in Req, req[r].busy,
         NEW i \in 1..Len(req[r].h.steps), Place(req[r], i),
         NEW b \in Thing, NEW u \in AnyRow, Advance(r, b, u),
         Knows(req[r].h, i + 1, req[r].token, b, u, wallet')
  PROVE  ReqInv'
<1> DEFINE q == req'[r]
<1>1. TokenOK(req[r].token)
  BY BusyInFlight DEF InFlight
<1>2. req' = [req EXCEPT ![r] = q]
  BY Advanced
<1>3. q = Idle \/ InFlight(q, wallet')
  BY <1>1, Advanced DEF InFlight
<1> HIDE DEF q
<1> QED
  BY <1>2, <1>3, OneRequest

(* The call a request is about to make, and what it knows by then. *)
LEMMA AtItsPlace ==
  ASSUME ReqInv, NEW r \in Req, NEW step, At(r, step)
  PROVE  /\ req[r] \in Request
         /\ TokenOK(req[r].token)
         /\ \E i \in 1..Len(req[r].h.steps) :
              /\ Place(req[r], i)
              /\ req[r].h.steps[i] = step
              /\ Knows(req[r].h, i, req[r].token, req[r].bid, req[r].user, wallet)
<1>1. InFlight(req[r], wallet)
  BY BusyInFlight DEF At
<1>2. PICK i \in 1..Len(req[r].h.steps) :
        /\ Place(req[r], i)
        /\ Knows(req[r].h, i, req[r].token, req[r].bid, req[r].user, wallet)
  BY <1>1 DEF InFlight
<1>3. req[r].todo \in Seq(STRING) /\ req[r].h.steps \in Seq(STRING)
  BY <1>1, HandlerAssumption DEF InFlight, Request, CallsInOrder
<1>4. 1 \in 1..Len(req[r].todo)
  BY <1>2, <1>3 DEF Place
<1>5. req[r].todo[1] = req[r].h.steps[i - 1 + 1]
  BY <1>2, <1>4 DEF Place
<1>6. Head(req[r].todo) = req[r].todo[1]
  BY <1>3, <1>4
<1>7. i - 1 + 1 = i
  OBVIOUS
<1> QED
  BY <1>1, <1>2, <1>5, <1>6, <1>7 DEF InFlight, At

(* What a call has to load for the request to go on with it. *)
LEMMA StepInv ==
  ASSUME ReqInv, wallet \subseteq wallet', NEW r \in Req, NEW step, At(r, step),
         NEW b \in Thing, NEW u \in AnyRow, Advance(r, b, u),
         step = "session" => req[r].token # NoToken,
         step \notin {"load", "find", "bind"} =>
           b = req[r].bid /\ (SignsIn(req[r].user) => SignsIn(u)),
         step \in {"load", "find", "bind"} => b \in Account /\ SignsIn(u),
         step = "bind" => b \in wallet'
  PROVE  ReqInv'
<1>1. PICK i \in 1..Len(req[r].h.steps) :
        /\ Place(req[r], i)
        /\ req[r].h.steps[i] = step
        /\ Knows(req[r].h, i, req[r].token, req[r].bid, req[r].user, wallet)
  BY AtItsPlace
<1>2. i \in Nat \ {0}
  OBVIOUS
<1>3. Knows(req[r].h, i + 1, req[r].token, b, u, wallet')
  BY <1>1, <1>2, KnowsMore
<1>4. req[r].busy
  BY DEF At
<1> QED
  BY <1>1, <1>3, <1>4, AdvanceInv

(* A call that loads nothing. *)
LEMMA ProceedInv ==
  ASSUME ReqInv, wallet \subseteq wallet', NEW r \in Req, NEW step, At(r, step),
         step \notin {"load", "find", "bind"}, Proceed(r),
         step = "session" => req[r].token # NoToken
  PROVE  ReqInv'
<1>1. req[r].bid \in Thing /\ req[r].user \in AnyRow
  BY AtItsPlace DEF Request
<1> QED
  BY <1>1, StepInv DEF Proceed

LEMMA EndInv ==
  ASSUME ReqInv, NEW r \in Req, req' = [req EXCEPT ![r] = Idle], UNCHANGED wallet
  PROVE  ReqInv'
BY OneRequest

-----------------------------------------------------------------------------
(* The steps, one lemma for each kind. *)

LEMMA BeginInv ==
  ASSUME AInv, NEW r \in Req, NEW p \in Client, NEW h \in Handler, NEW c \in Inputs(h),
         Begin(r, p, h, c)
  PROVE  AInv'
<1>1. CallsInOrder(h)
  BY HandlerAssumption
<1>2. c \in Thing
  <2>1. h.kind \in Kind => ContactOf[h.kind] \subseteq Contact
    BY DEF ContactOf, Contact, Kind
  <2> QED
    BY <1>1, <2>1 DEF CallsInOrder, Inputs, Thing, Contact
<1>3. Plain(c) \in Thing
  BY <1>2, NumberAssumption DEF Plain, Thing, Contact
<1>4. token[p] \in AnyToken /\ TokenOK(token[p]) /\ token[p].bid \in Thing
  BY DEF AInv, TokenInv, AnyToken
<1> DEFINE q == [busy |-> TRUE, client |-> p, h |-> h, token |-> token[p],
                 input |-> IF Normalises(h) THEN Plain(c) ELSE c,
                 bid |-> IF h.kind = "operator" THEN c ELSE token[p].bid,
                 user |-> NoRow, todo |-> h.steps]
<1>5. q \in Request
  <2>1. (IF Normalises(h) THEN Plain(c) ELSE c) \in Thing
    BY <1>2, <1>3
  <2>2. (IF h.kind = "operator" THEN c ELSE token[p].bid) \in Thing
    BY <1>2, <1>4
  <2>3. h.steps \in Seq(STRING)
    BY <1>1 DEF CallsInOrder
  <2> QED
    BY <1>4, <2>1, <2>2, <2>3, NothingShown DEF Request
<1>6. 1 \in 1..Len(h.steps)
  BY <1>1 DEF CallsInOrder
<1>7. Place(q, 1)
  BY <1>1 DEF Place, CallsInOrder
<1>8. \A t, b, u, w : Knows(h, 1, t, b, u, w)
  BY DEF Knows, Before
<1>9. InFlight(q, wallet')
  BY <1>4, <1>5, <1>6, <1>7, <1>8 DEF InFlight
<1>10. req' = [req EXCEPT ![r] = q] /\ wallet' = wallet
  BY DEF Begin, db
<1> HIDE DEF q
<1>11. ReqInv'
  BY <1>9, <1>10, OneRequest DEF AInv
<1> QED
  BY <1>11 DEF AInv, TableInv, TokenInv, Begin, db

(* Calls that only test, compare, send, store a code or drop one. *)
LEMMA QuietInv ==
  ASSUME AInv, NEW r \in Req,
         Test(r) \/ Match(r) \/ Drop(r) \/ Send(r) \/ StoreGa(r)
  PROVE  AInv'
<1>1. UNCHANGED <<db, token, logins>> /\ Proceed(r)
  BY DEF Test, Match, Drop, Send, StoreGa
<1>2. \E step : /\ At(r, step)
                /\ step \notin {"load", "find", "bind"}
                /\ step = "session" => req[r].token # NoToken
  <2>1. CASE Test(r)
    BY <2>1 DEF Test, Passes, InSession, At
  <2>2. CASE Match(r)
    BY <2>2 DEF Match
  <2>3. CASE Drop(r)
    BY <2>3 DEF Drop
  <2>4. CASE Send(r)
    <3>1. At(r, "send") \/ At(r, "other")
      BY <2>4, Zenon DEF Send
    <3> QED
      BY <3>1
  <2>5. CASE StoreGa(r)
    BY <2>5 DEF StoreGa
  <2> QED
    BY <2>1, <2>2, <2>3, <2>4, <2>5
<1>3. ReqInv'
  BY <1>1, <1>2, ProceedInv DEF AInv, db
<1> QED
  BY <1>1, <1>3 DEF AInv, TableInv, TokenInv, db

(* A row is copied from the table. *)
LEMMA ReadInv ==
  ASSUME AInv, NEW r \in Req, Load(r) \/ Find(r)
  PROVE  AInv'
<1>1. UNCHANGED <<db, token, logins>>
  BY DEF Load, Find
<1>2. \E step \in {"load", "find"}, a \in exists : At(r, step) /\ Advance(r, a, user[a])
  <2>1. CASE Load(r)
    BY <2>1 DEF Load, Passes, IsLoaded, At
  <2>2. CASE Find(r)
    BY <2>2 DEF Find, FoundBy, Registered
  <2> QED
    BY <2>1, <2>2
<1>3. PICK step \in {"load", "find"}, a \in exists : At(r, step) /\ Advance(r, a, user[a])
  BY <1>2
<1>4. a \in Account /\ a \in Thing /\ user[a] \in AnyRow /\ SignsIn(user[a])
  BY DEF AInv, TableInv, Thing
<1>5. ReqInv'
  BY <1>1, <1>3, <1>4, StepInv DEF AInv, db
<1> QED
  BY <1>1, <1>5 DEF AInv, TableInv, TokenInv, db

LEMMA RenewedSignsIn ==
  ASSUME NEW s \in AnyRow, SignsIn(s)
  PROVE  /\ Renewed(s) \in [Factor -> Time]
         /\ \E k \in Kind : Renewed(s)[k] # "never"
BY DEF Renewed, Verified, SignsIn, Factor, Time

(* No UPDATE leaves a row without a verified contact, when the handler has *)
(* loaded one.                                                             *)
LEMMA WrittenSignsIn ==
  ASSUME NEW h, NEW u \in AnyRow, NEW s \in AnyRow, NEW c \in Thing, SignsIn(s),
         h.writes \in {"contact", "both", "time", "times", "password", "nick", "firm",
                       "bindGa", "unbindGa"}
  PROVE  Written(h, u, s, c) \in AnyRow /\ (SignsIn(u) => SignsIn(Written(h, u, s, c)))
<1> USE DEF Kind, Factor
<1>1. u.contact \in [Kind -> Thing] /\ u.last \in [Factor -> Time] /\ u.ga \in BOOLEAN
  BY DEF AnyRow
<1>2. [u.last EXCEPT ![h.kind] = "recent"] \in [Factor -> Time]
  BY <1>1 DEF Time
<1>3. [u.contact EXCEPT ![h.kind] = c] \in [Kind -> Thing]
  BY <1>1
<1>4. CASE h.writes = "contact"
  <2>1. Written(h, u, s, c) = [u EXCEPT !.contact[h.kind] = c]
    BY <1>4 DEF Written
  <2> QED
    BY <1>1, <1>3, <2>1 DEF AnyRow, SignsIn
<1>5. CASE h.writes = "both"
  <2> DEFINE last == [u.last EXCEPT ![h.kind] = "recent"]
             contact == [u.contact EXCEPT ![h.kind] = c]
  <2>1. Written(h, u, s, c) = [contact |-> contact, last |-> last, ga |-> u.ga]
    BY <1>1, <1>5 DEF Written, AnyRow
  <2>2. SignsIn(u) => \E k \in Kind : last[k] # "never"
    BY <1>1 DEF SignsIn
  <2>3. last \in [Factor -> Time] /\ contact \in [Kind -> Thing]
    BY <1>2, <1>3
  <2> HIDE DEF last, contact
  <2> QED
    BY <1>1, <2>1, <2>2, <2>3 DEF AnyRow, SignsIn
<1>6. CASE h.writes = "time"
  <2>1. Written(h, u, s, c) = [u EXCEPT !.last[h.kind] = "recent"]
    BY <1>6 DEF Written
  <2> QED
    BY <1>1, <1>2, <2>1 DEF AnyRow, SignsIn
<1>7. CASE h.writes = "times"
  <2>1. Written(h, u, s, c) = [u EXCEPT !.last = Renewed(s)]
    BY <1>7 DEF Written
  <2> QED
    BY <1>1, <2>1, RenewedSignsIn DEF AnyRow, SignsIn
<1>8. CASE h.writes \in {"password", "nick", "firm"}
  BY <1>8 DEF Written
<1>9. CASE h.writes = "bindGa"
  <2> DEFINE last == [Renewed(s) EXCEPT !["ga"] = "recent"]
  <2>1. Written(h, u, s, c) = [contact |-> u.contact, last |-> last, ga |-> TRUE]
    BY <1>1, <1>9 DEF Written, AnyRow
  <2>2. \E k \in Kind : last[k] # "never"
    BY RenewedSignsIn
  <2>3. last \in [Factor -> Time]
    BY RenewedSignsIn DEF Time
  <2> HIDE DEF last
  <2> QED
    BY <1>1, <2>1, <2>2, <2>3 DEF AnyRow, SignsIn
<1>10. CASE h.writes = "unbindGa"
  <2> DEFINE last == [Renewed(s) EXCEPT !["ga"] = "never"]
  <2>1. Written(h, u, s, c) = [contact |-> u.contact, last |-> last, ga |-> FALSE]
    BY <1>1, <1>10 DEF Written, AnyRow
  <2>2. \E k \in Kind : last[k] # "never"
    BY RenewedSignsIn
  <2>3. last \in [Factor -> Time]
    BY RenewedSignsIn DEF Time
  <2> HIDE DEF last
  <2> QED
    BY <1>1, <2>1, <2>2, <2>3 DEF AnyRow, SignsIn
<1> QED
  BY <1>4, <1>5, <1>6, <1>7, <1>8, <1>9, <1>10

(* The UPDATE touches one row, and the request goes on with its copy of it. *)
LEMMA WriteInv ==
  ASSUME AInv, NEW r \in Req, Write(r)
  PROVE  AInv'
<1> DEFINE h == req[r].h
           Update(u) == Written(h, u, req[r].user, req[r].input)
<1>1. At(r, "write") /\ UNCHANGED <<exists, wallet, token, logins>>
  BY DEF Write, redis
<1>2. /\ user' = [user EXCEPT ![req[r].bid] = Update(user[req[r].bid])]
      /\ Advance(r, req[r].bid, Update(req[r].user))
  BY DEF Write
<1>3. PICK i \in 1..Len(h.steps) :
        /\ h.steps[i] = "write"
        /\ Knows(h, i, req[r].token, req[r].bid, req[r].user, wallet)
  BY <1>1, AtItsPlace DEF AInv
<1>4. h \in Handler /\ req[r].input \in Thing /\ req[r].bid \in Thing /\ req[r].user \in AnyRow
  BY <1>1, AtItsPlace DEF AInv, Request
<1>5. /\ Before(h, i, {"load", "find"})
      /\ h.writes \in {"contact", "both", "time", "times", "password", "nick", "firm",
                       "bindGa", "unbindGa"}
  BY <1>3, <1>4, HandlerAssumption DEF CallsInOrder
<1>6. SignsIn(req[r].user)
  BY <1>3, <1>5 DEF Knows, Before
<1>7. \A u \in AnyRow : Update(u) \in AnyRow /\ (SignsIn(u) => SignsIn(Update(u)))
  BY <1>4, <1>5, <1>6, WrittenSignsIn
<1> HIDE DEF Update
<1>8. ReqInv'
  BY <1>1, <1>2, <1>4, <1>6, <1>7, StepInv DEF AInv
<1>9. ASSUME NEW a \in Account
      PROVE  user'[a] \in AnyRow /\ (SignsIn(user[a]) => SignsIn(user'[a]))
  <2>1. user[a] \in AnyRow
    BY DEF AInv, TableInv
  <2>2. CASE a # req[r].bid
    BY <1>2, <2>1, <2>2 DEF AInv, TableInv
  <2>3. CASE a = req[r].bid
    BY <1>2, <1>7, <2>1, <2>3 DEF AInv, TableInv
  <2> QED
    BY <2>2, <2>3
<1> QED
  BY <1>1, <1>2, <1>8, <1>9 DEF AInv, TableInv, TokenInv

(* An id is bound for a visitor, who has verified a contact. *)
LEMMA BindInv ==
  ASSUME AInv, NEW r \in Req, Bind(r)
  PROVE  AInv'
<1>1. At(r, "bind") /\ UNCHANGED <<exists, user, token, logins>>
  BY DEF Bind
<1> DEFINE u == [contact |-> SignUpContacts(r), last |-> req[r].token.last, ga |-> FALSE]
<1>2. PICK a \in Account : wallet' = wallet \cup {a} /\ Advance(r, a, u)
  BY DEF Bind
<1>3. PICK i \in 1..Len(req[r].h.steps) :
        /\ req[r].h.steps[i] = "bind"
        /\ Knows(req[r].h, i, req[r].token, req[r].bid, req[r].user, wallet)
  BY <1>1, AtItsPlace DEF AInv
<1>4. req[r] \in Request /\ TokenOK(req[r].token)
  BY <1>1, AtItsPlace DEF AInv
<1>5. Before(req[r].h, i, {"session"})
  BY <1>3, <1>4, HandlerAssumption DEF CallsInOrder, Request
<1>6. SignsIn(req[r].token)
  BY <1>3, <1>4, <1>5 DEF Knows, TokenOK
<1>7. SignUpContacts(r) \in [Kind -> Thing]
  <2>1. \A k \in Kind : req[r].token.contact[k] \in Thing
    BY <1>4 DEF Request, AnyToken
  <2>2. req[r].input \in Thing /\ None \in Thing
    BY <1>4 DEF Request, Thing
  <2>3. Plain(req[r].input) \in Thing
    BY <2>2, NumberAssumption DEF Plain, Thing, Contact
  <2> QED
    BY <2>1, <2>2, <2>3 DEF SignUpContacts
<1>8. u \in AnyRow /\ SignsIn(u)
  BY <1>4, <1>6, <1>7 DEF AnyRow, SignsIn, Request, AnyToken
<1> HIDE DEF u
<1>9. ReqInv'
  BY <1>1, <1>2, <1>8, StepInv DEF AInv, Thing
<1> QED
  BY <1>1, <1>2, <1>9 DEF AInv, TableInv, TokenInv

(* The row that is inserted is the one whose id was bound. *)
LEMMA CreateInv ==
  ASSUME AInv, NEW r \in Req, Create(r)
  PROVE  AInv'
<1>1. /\ At(r, "create") /\ Proceed(r)
      /\ exists' = exists \cup {req[r].bid}
      /\ user' = [user EXCEPT ![req[r].bid] = req[r].user]
      /\ UNCHANGED <<wallet, token, logins>>
  BY DEF Create
<1>2. PICK i \in 1..Len(req[r].h.steps) :
        /\ req[r].h.steps[i] = "create"
        /\ Knows(req[r].h, i, req[r].token, req[r].bid, req[r].user, wallet)
  BY <1>1, AtItsPlace DEF AInv
<1>3. req[r].h \in Handler /\ req[r].user \in AnyRow
  BY <1>1, AtItsPlace DEF AInv, Request
<1>4. Before(req[r].h, i, {"bind"}) /\ ~Before(req[r].h, i, {"load", "find"})
  BY <1>2, <1>3, HandlerAssumption DEF CallsInOrder
<1>5. req[r].bid \in wallet /\ SignsIn(req[r].user)
  BY <1>2, <1>4 DEF Knows, Before
<1>6. ReqInv'
  BY <1>1, ProceedInv DEF AInv
<1> QED
  BY <1>1, <1>3, <1>5, <1>6 DEF AInv, TableInv, TokenInv

(* A token is signed for what was verified or loaded. *)
LEMMA AnswerOK ==
  ASSUME ReqInv, NEW r \in Req, NEW step \in {"reply", "sign"}, At(r, step), NEW sk \in Nat
  PROVE  TokenOK(Answer(r, sk))
<1> DEFINE h == req[r].h
<1>1. PICK i \in 1..Len(h.steps) :
        /\ h.steps[i] = step
        /\ Knows(h, i, req[r].token, req[r].bid, req[r].user, wallet)
  BY AtItsPlace
<1>2. req[r] \in Request /\ TokenOK(req[r].token) /\ h \in Handler
  BY AtItsPlace DEF Request
<1>3. /\ h.sk = "fresh" => h.kind \in Kind
      /\ h.sk \notin {"fresh", "same"} => Before(h, i, {"load", "find", "bind"})
  BY <1>1, <1>2, HandlerAssumption DEF CallsInOrder
<1>4. CASE h.sk = "fresh"
  <2> DEFINE contact == [NoRow.contact EXCEPT ![h.kind] = req[r].input]
             last    == [NoRow.last EXCEPT ![h.kind] = "recent"]
  <2>1. Answer(r, sk) = [bid |-> None, contact |-> contact, last |-> last, sk |-> sk]
    BY <1>4 DEF Answer, Visitor
  <2>2. contact \in [Kind -> Thing]
    BY <1>2, NothingShown DEF AnyRow, Request
  <2>3. last \in [Factor -> Time] /\ last[h.kind] # "never"
    BY <1>3, <1>4, NothingShown DEF AnyRow, Factor, Time
  <2> HIDE DEF contact, last
  <2> QED
    BY <1>3, <1>4, <2>1, <2>2, <2>3 DEF TokenOK, AnyToken, SignsIn, Thing
<1>5. CASE h.sk = "same"
  BY <1>2, <1>5 DEF Answer
<1>6. CASE h.sk \notin {"fresh", "same"}
  <2>1. Answer(r, sk) = [bid |-> req[r].bid, contact |-> req[r].user.contact,
                         last |-> req[r].user.last, sk |-> sk]
    BY <1>6 DEF Answer
  <2>2. SignsIn(req[r].user)
    BY <1>1, <1>3, <1>6 DEF Knows
  <2>3. req[r].bid \in Thing /\ req[r].user \in AnyRow
    BY <1>2 DEF Request
  <2> QED
    BY <2>1, <2>2, <2>3 DEF TokenOK, AnyToken, AnyRow, SignsIn
<1> QED
  BY <1>4, <1>5, <1>6

LEMMA AnswerInv ==
  ASSUME AInv, NEW r \in Req, Reply(r) \/ Sign(r)
  PROVE  AInv'
<1>1. UNCHANGED db /\ Proceed(r)
  BY DEF Reply, Sign
<1>2. \E step \in {"reply", "sign"}, sk \in Nat :
        At(r, step) /\ token' = [token EXCEPT ![req[r].client] = Answer(r, sk)]
  <2>1. CASE Reply(r)
    <3>1. At(r, "reply")
      BY <2>1 DEF Reply
    <3>2. req[r].token.sk \in Nat /\ logins \in Nat
      BY <3>1, AtItsPlace DEF AInv, TokenInv, Request, AnyToken
    <3> DEFINE sk == IF NeedsKey(r) THEN logins + 1 ELSE req[r].token.sk
    <3>3. token' = [token EXCEPT ![req[r].client] = Answer(r, sk)]
      BY <2>1 DEF Reply
    <3>4. sk \in Nat
      BY <3>2
    <3> HIDE DEF sk
    <3> QED
      BY <3>1, <3>3, <3>4
  <2>2. CASE Sign(r)
    BY <2>2 DEF Sign
  <2> QED
    BY <2>1, <2>2
<1>3. logins' \in Nat
  BY DEF AInv, TokenInv, Reply, Sign
<1>4. PICK step \in {"reply", "sign"}, sk \in Nat :
        At(r, step) /\ token' = [token EXCEPT ![req[r].client] = Answer(r, sk)]
  BY <1>2
<1>5. TokenOK(Answer(r, sk))
  BY <1>4, AnswerOK DEF AInv
<1>6. TokenInv'
  BY <1>3, <1>4, <1>5 DEF AInv, TokenInv, TokenOK
<1>7. ReqInv'
  BY <1>1, <1>4, ProceedInv DEF AInv, db
<1> QED
  BY <1>1, <1>6, <1>7 DEF AInv, TableInv, db

(* A request is refused or fails. *)
LEMMA EndedInv ==
  ASSUME AInv, NEW r \in Req, Refuse(r) \/ RequestFails(r)
  PROVE  AInv'
<1>1. req' = [req EXCEPT ![r] = Idle] /\ UNCHANGED <<db, token, logins>>
  BY DEF Refuse, RequestFails
<1> QED
  BY <1>1, EndInv DEF AInv, TableInv, TokenInv, db

LEMMA SignOutInv ==
  ASSUME AInv, NEW p \in Client, SignOut(p)
  PROVE  AInv'
<1>1. TokenInv'
  BY NothingShown DEF AInv, TokenInv, SignOut, TokenOK
<1>2. ReqInv'
  BY RequestsStay DEF AInv, SignOut, db
<1> QED
  BY <1>1, <1>2 DEF AInv, TableInv, SignOut, db

LEMMA ExpiryInv ==
  ASSUME AInv, CodeExpires \/ \E a \in Account \cup {None} : SessionExpires(a)
  PROVE  AInv'
<1>1. UNCHANGED <<db, token, req, logins>>
  BY DEF CodeExpires, SessionExpires
<1> QED
  BY <1>1, RequestsStay DEF AInv, TableInv, TokenInv, db

(* Time makes nothing that was verified unverified. *)
LEMMA AgedSignsIn ==
  ASSUME NEW last \in [Factor -> Time]
  PROVE  /\ Aged(last) \in [Factor -> Time]
         /\ \A f \in Factor : Aged(last)[f] # "never" <=> last[f] # "never"
BY DEF Aged, Time

LEMMA TimePassesInv ==
  ASSUME AInv, TimePasses
  PROVE  AInv'
<1>1. /\ user' = [a \in Account |-> [user[a] EXCEPT !.last = Aged(@)]]
      /\ token' = [p \in Client |-> [token[p] EXCEPT !.last = Aged(@)]]
      /\ UNCHANGED <<exists, wallet, req, logins>>
  BY DEF TimePasses
<1>2. TableInv'
  <2>1. \A u \in AnyRow : /\ [u EXCEPT !.last = Aged(@)] \in AnyRow
                          /\ SignsIn(u) => SignsIn([u EXCEPT !.last = Aged(@)])
    BY AgedSignsIn DEF AnyRow, SignsIn, Factor
  <2> QED
    BY <1>1, <2>1 DEF AInv, TableInv
<1>3. TokenInv'
  <2>1. ASSUME NEW t, TokenOK(t) PROVE TokenOK([t EXCEPT !.last = Aged(@)])
    <3>1. CASE t = NoToken
      <4>1. Aged(NoToken.last) = NoToken.last
        BY DEF Aged, NoToken, NoRow
      <4>2. [t EXCEPT !.last = Aged(@)] = NoToken
        BY <3>1, <4>1 DEF NoToken
      <4> QED
        BY <4>2, NothingShown
    <3>2. CASE t # NoToken
      <4>1. t.last \in [Factor -> Time]
        BY <2>1 DEF TokenOK, AnyToken
      <4> QED
        BY <2>1, <3>2, <4>1, AgedSignsIn DEF TokenOK, AnyToken, SignsIn, Factor
    <3> QED
      BY <3>1, <3>2
  <2> QED
    BY <1>1, <2>1 DEF AInv, TokenInv, TokenOK
<1>4. ReqInv'
  BY <1>1, RequestsStay DEF AInv
<1> QED
  BY <1>2, <1>3, <1>4 DEF AInv

-----------------------------------------------------------------------------
LEMMA InitAInv == Init => AInv
<1> SUFFICES ASSUME Init PROVE AInv
  OBVIOUS
<1>1. TableInv
  BY NothingShown DEF Init, TableInv
<1>2. TokenInv
  BY NothingShown DEF Init, TokenInv, TokenOK
<1>3. ReqInv
  BY DEF Init, ReqInv
<1> QED
  BY <1>1, <1>2, <1>3 DEF AInv

LEMMA NextAInv == AInv /\ [Next]_vars => AInv'
<1> SUFFICES ASSUME AInv, [Next]_vars PROVE AInv'
  OBVIOUS
<1>1. ASSUME NEW r \in Req, NEW p \in Client, NEW h \in Handler, NEW c \in Inputs(h),
             Begin(r, p, h, c)
      PROVE AInv'
  BY <1>1, BeginInv
<1>2. ASSUME NEW r \in Req, Step(r) PROVE AInv'
  <2>1. CASE Test(r) \/ Match(r) \/ Drop(r) \/ Send(r) \/ StoreGa(r)
    BY <2>1, QuietInv
  <2>2. CASE Load(r) \/ Find(r)
    BY <2>2, ReadInv
  <2>3. CASE Write(r)
    BY <2>3, WriteInv
  <2>4. CASE Bind(r)
    BY <2>4, BindInv
  <2>5. CASE Create(r)
    BY <2>5, CreateInv
  <2>6. CASE Reply(r) \/ Sign(r)
    BY <2>6, AnswerInv
  <2>7. CASE Refuse(r) \/ RequestFails(r)
    BY <2>7, EndedInv
  <2> QED
    BY <1>2, <2>1, <2>2, <2>3, <2>4, <2>5, <2>6, <2>7 DEF Step
<1>3. ASSUME NEW p \in Client, SignOut(p) PROVE AInv'
  BY <1>3, SignOutInv
<1>4. CASE CodeExpires \/ \E a \in Account \cup {None} : SessionExpires(a)
  BY <1>4, ExpiryInv
<1>5. CASE TimePasses
  BY <1>5, TimePassesInv
<1>6. CASE UNCHANGED vars
  BY <1>6, RequestsStay DEF vars, db, AInv, TableInv, TokenInv
<1> QED
  BY <1>1, <1>2, <1>3, <1>4, <1>5, <1>6 DEF Next

LEMMA SpecAInv == Spec => []AInv
BY InitAInv, NextAInv, PTL DEF Spec

(* Whatever requests overlap and whichever of their calls fail, an account *)
(* keeps a verified contact by which dbUser finds it                       *)
(* (common.go:286-376, user.ctrl.go:94-153, 1105-1164).                    *)
THEOREM EveryAccountSignsIn == Spec => []AccountsCanSignIn
<1>1. AInv => AccountsCanSignIn
  BY DEF AInv, TableInv, AccountsCanSignIn, SignsIn, Verified
<1> QED
  BY <1>1, SpecAInv, PTL

(* No account is inserted under an id that the wallet has not bound, with  *)
(* any number of sign-ups at once (user.ctrl.go:237-275).                  *)
THEOREM EveryAccountHasAddress == Spec => []AccountsHaveAddress
<1>1. AInv => AccountsHaveAddress
  BY DEF AInv, TableInv, AccountsHaveAddress
<1> QED
  BY <1>1, SpecAInv, PTL

-----------------------------------------------------------------------------
(* Types.  A contact that is shown as verified is one, in every row and in *)
(* every copy of a row: the UPDATE of a time comes after a test that the   *)
(* row has the contact, and no UPDATE takes a contact away.  So a request  *)
(* never sends a code to nobody, although others write to the row that it  *)
(* has loaded.                                                             *)

Shown(x) == \A k \in Kind : Verified(x, k) => x.contact[k] # None

StoreInv ==
  /\ code \subseteq Contact
  /\ gaKey \subseteq Account
  /\ singleton \in [Account \cup {None} -> 0..MaxLogin]
  /\ newest \in [Account \cup {None} -> 0..MaxLogin]
  /\ logins \in 0..MaxLogin
  /\ proven \subseteq Contact
  /\ entered \subseteq Contact \cup Account
  /\ faults \in 0..MaxFaults

RowInv ==
  /\ user \in [Account -> Row]
  /\ \A a \in Account : Shown(user[a])

HeldInv ==
  /\ token \in [Client -> TokenUser]
  /\ \A p \in Client : Shown(token[p])

(* A copy of a row has no contact that the row has not: rows E, U. *)
KeepsContacts(h, i, b, u, E, U) ==
  /\ Before(h, i, {"load"}) /\ h.admits = "has" => u.contact[h.kind] # None
  /\ Before(h, i, {"load", "find", "create"}) =>
       b \in E /\ \A k \in Kind : u.contact[k] # None => U[b].contact[k] # None

Holds(q, E, U) ==
  /\ q.token \in TokenUser /\ Shown(q.token)
  /\ q.bid \in Account \cup {None}
  /\ q.user \in Row /\ Shown(q.user)
  /\ TakesContact(q.h) => q.input \in ContactOf[q.h.kind]
  /\ \A i \in 1..Len(q.h.steps) : Place(q, i) => KeepsContacts(q.h, i, q.bid, q.user, E, U)

CopiesInv == \A r \in Req : req[r] # Idle => Holds(req[r], exists, user)

KInv == StoreInv /\ RowInv /\ HeldInv /\ CopiesInv

(* The table loses neither a row nor a contact of one. *)
TableKeeps ==
  /\ exists \subseteq exists'
  /\ \A a \in exists, k \in Kind : user[a].contact[k] # None => user'[a].contact[k] # None

LEMMA NothingHeld ==
  NoRow \in Row /\ Shown(NoRow) /\ NoToken \in TokenUser /\ Shown(NoToken)
<1>1. \A f \in Factor : NoRow.last[f] = "never"
  BY DEF NoRow
<1>2. NoRow \in Row /\ NoToken \in TokenUser
  BY ConstantAssumption DEF NoRow, NoToken, Row, TokenUser, Time
<1> QED
  BY <1>1, <1>2 DEF Shown, Verified, Factor, NoToken

LEMMA RowsAreRows == Row \subseteq AnyRow /\ Account \cup {None} \subseteq Thing
BY DEF Row, AnyRow, Thing

LEMMA HoldsOn ==
  ASSUME NEW q, Holds(q, exists, user), TableKeeps
  PROVE  Holds(q, exists', user')
<1> SUFFICES ASSUME NEW i \in 1..Len(q.h.steps), Place(q, i)
             PROVE  KeepsContacts(q.h, i, q.bid, q.user, exists', user')
  BY DEF Holds
<1>1. KeepsContacts(q.h, i, q.bid, q.user, exists, user)
  BY DEF Holds
<1> QED
  BY <1>1 DEF KeepsContacts, TableKeeps

LEMMA CopiesStay ==
  ASSUME CopiesInv, UNCHANGED req, TableKeeps
  PROVE  CopiesInv'
BY HoldsOn DEF CopiesInv

(* A request that begins or ends. *)
LEMMA OneCopy ==
  ASSUME ReqInv, CopiesInv, TableKeeps, NEW r \in Req, NEW q, req' = [req EXCEPT ![r] = q],
         q = Idle \/ Holds(q, exists', user')
  PROVE  CopiesInv'
<1>1. req'[r] = q /\ \A s \in Req : s # r => req'[s] = req[s]
  BY DEF ReqInv
<1> QED
  BY <1>1, HoldsOn DEF CopiesInv

(* A request that goes on. *)
LEMMA CopyAdvances ==
  ASSUME ReqInv, CopiesInv, TableKeeps, NEW r \in Req, NEW step, At(r, step),
         NEW b \in Account \cup {None}, NEW u \in Row, Shown(u), Advance(r, b, u),
         \A i \in 1..Len(req[r].h.steps) :
           Place(req[r], i) /\ req[r].h.steps[i] = step =>
             KeepsContacts(req[r].h, i + 1, b, u, exists', user')
  PROVE  CopiesInv'
<1> DEFINE q == req'[r]
<1>1. PICK i \in 1..Len(req[r].h.steps) : Place(req[r], i) /\ req[r].h.steps[i] = step
  BY AtItsPlace
<1>2. req[r].busy /\ b \in Thing /\ u \in AnyRow
  BY RowsAreRows DEF At
<1>3. /\ req' = [req EXCEPT ![r] = q]
      /\ \/ q = Idle
         \/ /\ q.h = req[r].h /\ q.token = req[r].token /\ q.input = req[r].input
            /\ q.bid = b /\ q.user = u
            /\ \A j \in 1..Len(q.h.steps) : Place(q, j) <=> j = i + 1
  BY <1>1, <1>2, Advanced
<1>4. Holds(req[r], exists, user)
  BY <1>2, BusyInFlight, IdleIsIdle DEF CopiesInv
<1>5. KeepsContacts(req[r].h, i + 1, b, u, exists', user')
  BY <1>1
<1>6. q = Idle \/ Holds(q, exists', user')
  BY <1>3, <1>4, <1>5 DEF Holds
<1> HIDE DEF q
<1> QED
  BY <1>3, <1>6, OneCopy

(* What a request knows is what it holds. *)
LEMMA HeldAt ==
  ASSUME ReqInv, CopiesInv, NEW r \in Req, NEW step, At(r, step)
  PROVE  /\ Holds(req[r], exists, user)
         /\ req[r] \in Request
         /\ CallsInOrder(req[r].h) /\ ChecksInOrder(req[r].h)
         /\ \E i \in 1..Len(req[r].h.steps) :
              /\ Place(req[r], i) /\ req[r].h.steps[i] = step
              /\ KeepsContacts(req[r].h, i, req[r].bid, req[r].user, exists, user)
              /\ Knows(req[r].h, i, req[r].token, req[r].bid, req[r].user, wallet)
<1>1. PICK i \in 1..Len(req[r].h.steps) :
        /\ Place(req[r], i) /\ req[r].h.steps[i] = step
        /\ Knows(req[r].h, i, req[r].token, req[r].bid, req[r].user, wallet)
  BY AtItsPlace
<1>2. req[r] \in Request
  BY AtItsPlace
<1>3. Holds(req[r], exists, user)
  BY BusyInFlight, IdleIsIdle DEF CopiesInv, At
<1>4. KeepsContacts(req[r].h, i, req[r].bid, req[r].user, exists, user)
  BY <1>1, <1>3 DEF Holds
<1>5. CallsInOrder(req[r].h) /\ ChecksInOrder(req[r].h)
  BY <1>2, HandlerAssumption DEF Request
<1> QED
  BY <1>1, <1>2, <1>3, <1>4, <1>5

(* A call that loads nothing and leaves the table as it is. *)
LEMMA CopyProceeds ==
  ASSUME ReqInv, CopiesInv, UNCHANGED <<exists, user>>, NEW r \in Req, NEW step, At(r, step),
         step \notin {"load", "find", "bind", "create", "write"}, Proceed(r)
  PROVE  CopiesInv'
<1>1. Holds(req[r], exists, user)
  BY HeldAt
<1>2. TableKeeps
  BY DEF TableKeeps
<1>3. ASSUME NEW i \in 1..Len(req[r].h.steps), Place(req[r], i), req[r].h.steps[i] = step
      PROVE  KeepsContacts(req[r].h, i + 1, req[r].bid, req[r].user, exists', user')
  <2>1. KeepsContacts(req[r].h, i, req[r].bid, req[r].user, exists, user)
    BY <1>1, <1>3 DEF Holds
  <2>2. \A S : Before(req[r].h, i + 1, S) <=> Before(req[r].h, i, S) \/ step \in S
    BY <1>3, BeforeNext
  <2> QED
    BY <2>1, <2>2 DEF KeepsContacts
<1> QED
  BY <1>1, <1>2, <1>3, CopyAdvances DEF Holds, Proceed

LEMMA CopyEnds ==
  ASSUME ReqInv, CopiesInv, UNCHANGED <<exists, user>>, NEW r \in Req,
         req' = [req EXCEPT ![r] = Idle]
  PROVE  CopiesInv'
BY OneCopy DEF TableKeeps

-----------------------------------------------------------------------------
(* What the steps do to the types. *)

LEMMA ContactsOfKinds ==
  ASSUME NEW k \in Kind
  PROVE  ContactOf[k] \subseteq Contact /\ None \notin ContactOf[k] /\ None \notin Contact
BY ConstantAssumption DEF ContactOf, Contact, Kind

LEMMA KBegin ==
  ASSUME AInv, KInv, NEW r \in Req, NEW p \in Client, NEW h \in Handler, NEW c \in Inputs(h),
         Begin(r, p, h, c)
  PROVE  KInv'
<1> DEFINE input == IF Normalises(h) THEN Plain(c) ELSE c
           bid   == IF h.kind = "operator" THEN c ELSE token[p].bid
           q == [busy |-> TRUE, client |-> p, h |-> h, token |-> token[p], input |-> input,
                 bid |-> bid, user |-> NoRow, todo |-> h.steps]
<1>1. req' = [req EXCEPT ![r] = q] /\ UNCHANGED <<db, redis, token, logins, ghost, faults>>
  BY DEF Begin
<1>2. token[p] \in TokenUser /\ Shown(token[p])
  BY DEF KInv, HeldInv
<1>3. bid \in Account \cup {None}
  <2>1. CASE h.kind = "operator"
    <3>1. h # SignUp /\ h # Refresh
      BY <2>1 DEF SignUp, Refresh, Handles
    <3> QED
      BY <2>1, <3>1 DEF Inputs
  <2>2. CASE h.kind # "operator"
    BY <1>2, <2>2 DEF TokenUser
  <2> QED
    BY <2>1, <2>2
<1>4. TakesContact(h) => input \in ContactOf[h.kind]
  <2> SUFFICES ASSUME TakesContact(h) PROVE input \in ContactOf[h.kind]
    OBVIOUS
  <2>1. h # SignUp
    BY DEF TakesContact, SignUp, Handles, Kind
  <2>2. c \in ContactOf[h.kind]
    BY <2>1 DEF TakesContact, Inputs, Kind
  <2>3. CASE Normalises(h)
    <3>1. h.kind = "mobile"
      BY <2>3 DEF Normalises, TakesContact, Kind, Handles, PubMyMobile, VerifyMobile, ForgetM,
                  ValidateMobile, MyNewMobile, ChangeMobile, BindMobileBy, KycQueryByContact
    <3>2. ContactOf[h.kind] = Mobile
      BY <3>1 DEF ContactOf, Kind
    <3> QED
      BY <2>2, <2>3, <3>2, NumberAssumption DEF Plain
  <2>4. CASE ~Normalises(h)
    BY <2>2, <2>4
  <2> QED
    BY <2>3, <2>4
<1>5. ASSUME NEW i \in 1..Len(h.steps), Place(q, i)
      PROVE  KeepsContacts(h, i, bid, NoRow, exists', user')
  <2>1. Len(h.steps) \in Nat
    BY HandlerAssumption DEF CallsInOrder
  <2>2. i = 1
    BY <1>5, <2>1 DEF Place
  <2> QED
    BY <2>2 DEF KeepsContacts, Before
<1> HIDE DEF input, bid
<1>6. Holds(q, exists', user')
  BY <1>2, <1>3, <1>4, <1>5, NothingHeld DEF Holds
<1>7. TableKeeps
  BY <1>1 DEF TableKeeps, db
<1> HIDE DEF q
<1>8. CopiesInv'
  BY <1>1, <1>6, <1>7, OneCopy DEF AInv, KInv
<1> QED
  BY <1>1, <1>8 DEF KInv, StoreInv, RowInv, HeldInv, db, redis, ghost

LEMMA CodesAreContacts ==
  ASSUME AInv, KInv, NEW r \in Req, NEW step \in {"match", "send"}, At(r, step)
  PROVE  Codes(r) \subseteq Contact
<1> DEFINE q == req[r]
<1>1. PICK i \in 1..Len(q.h.steps) :
        q.h.steps[i] = step /\ KeepsContacts(q.h, i, q.bid, q.user, exists, user)
  BY HeldAt DEF AInv, KInv
<1>2. Holds(q, exists, user) /\ ChecksInOrder(q.h)
  BY HeldAt DEF AInv, KInv
<1>3. q.user \in Row /\ Shown(q.user)
  BY <1>2 DEF Holds
<1>4. \A k \in Kind : q.user.contact[k] # None => q.user.contact[k] \in Contact
  BY <1>3 DEF Row
<1>5. CASE q.h.writes \in {"bindGa", "unbindGa", "times"}
  BY <1>3, <1>4, <1>5 DEF Codes, Shown
<1>6. CASE q.h.writes \notin {"bindGa", "unbindGa", "times"} /\ q.h.admits = "has"
  <2>1. Before(q.h, i, {"load"}) /\ q.h.kind \in Kind
    BY <1>1, <1>2, <1>6 DEF ChecksInOrder
  <2>2. q.user.contact[q.h.kind] # None
    BY <1>1, <1>6, <2>1 DEF KeepsContacts
  <2> QED
    BY <1>4, <1>6, <2>1, <2>2 DEF Codes
<1>7. CASE q.h.writes \notin {"bindGa", "unbindGa", "times"} /\ q.h.admits # "has"
  <2>1. TakesContact(q.h)
    BY <1>1, <1>2, <1>7 DEF ChecksInOrder
  <2>2. q.input \in Contact
    BY <1>2, <2>1, ContactsOfKinds DEF Holds, TakesContact
  <2> QED
    BY <1>7, <2>2 DEF Codes
<1> QED
  BY <1>5, <1>6, <1>7

LEMMA KQuiet ==
  ASSUME AInv, KInv, NEW r \in Req,
         Test(r) \/ Match(r) \/ Drop(r) \/ Send(r) \/ StoreGa(r)
  PROVE  KInv'
<1>1. UNCHANGED <<db, singleton, token, logins, newest, faults>> /\ Proceed(r)
  BY DEF Test, Match, Drop, Send, StoreGa, redis, ghost
<1>2. \E step : At(r, step) /\ step \notin {"load", "find", "bind", "create", "write"}
  <2>1. CASE Test(r)
    BY <2>1 DEF Test
  <2>2. CASE Match(r)
    BY <2>2 DEF Match
  <2>3. CASE Drop(r)
    BY <2>3 DEF Drop
  <2>4. CASE Send(r)
    <3>1. At(r, "send") \/ At(r, "other")
      BY <2>4, Zenon DEF Send
    <3> QED
      BY <3>1
  <2>5. CASE StoreGa(r)
    BY <2>5 DEF StoreGa
  <2> QED
    BY <2>1, <2>2, <2>3, <2>4, <2>5
<1>3. CopiesInv'
  BY <1>1, <1>2, CopyProceeds DEF AInv, KInv, db
<1>4. StoreInv'
  <2>1. CASE Test(r)
    BY <1>1, <2>1 DEF Test, KInv, StoreInv, redis, ghost
  <2>2. CASE Match(r)
    <3>1. Codes(r) \subseteq Contact
      BY <2>2, CodesAreContacts DEF Match
    <3>2. MatchesGa(r) => req[r].bid \in Account
      <4> SUFFICES ASSUME MatchesGa(r) PROVE req[r].bid \in Account
        OBVIOUS
      <4>1. PICK i \in 1..Len(req[r].h.steps) :
              /\ req[r].h.steps[i] = "match"
              /\ Knows(req[r].h, i, req[r].token, req[r].bid, req[r].user, wallet)
        BY <2>2, HeldAt DEF Match, AInv, KInv
      <4>2. Before(req[r].h, i, {"load", "find"})
        BY <2>2, <4>1, HeldAt DEF Match, AInv, KInv, ChecksInOrder, MatchesGa
      <4> QED
        BY <4>1, <4>2 DEF Knows, Before
    <3> QED
      BY <1>1, <2>2, <3>1, <3>2 DEF Match, KInv, StoreInv, redis
  <2>3. CASE Drop(r)
    BY <1>1, <2>3 DEF Drop, KInv, StoreInv, ghost
  <2>4. CASE Send(r)
    <3>1. code' \subseteq Contact
      <4>1. CASE At(r, "send") /\ code' = code \cup Codes(r)
        BY <4>1, CodesAreContacts DEF KInv, StoreInv
      <4>2. CASE /\ At(r, "other") /\ Passes(r)
                 /\ code' = code \cup {req[r].user.contact[Other[req[r].h.kind]]}
        <5>1. req[r].user \in Row /\ Shown(req[r].user) /\ req[r].h.kind \in Kind
          BY <4>2, HeldAt DEF AInv, KInv, Holds, ChecksInOrder
        <5>2. Verified(req[r].user, Other[req[r].h.kind]) /\ Other[req[r].h.kind] \in Kind
          BY <4>2, <5>1 DEF Passes, At, Other, Kind
        <5>3. req[r].user.contact[Other[req[r].h.kind]] \in Contact
          BY <5>1, <5>2 DEF Shown, Row
        <5> QED
          BY <4>2, <5>3 DEF KInv, StoreInv
      <4> QED
        BY <2>4, <4>1, <4>2 DEF Send
    <3> QED
      BY <1>1, <2>4, <3>1 DEF Send, KInv, StoreInv, ghost
  <2>5. CASE StoreGa(r)
    <3>1. PICK i \in 1..Len(req[r].h.steps) :
            /\ req[r].h.steps[i] = "genGa"
            /\ Knows(req[r].h, i, req[r].token, req[r].bid, req[r].user, wallet)
      BY <2>5, HeldAt DEF StoreGa, AInv, KInv
    <3>2. Before(req[r].h, i, {"load", "find"})
      BY <2>5, <3>1, HeldAt DEF StoreGa, AInv, KInv, ChecksInOrder
    <3>3. req[r].bid \in Account
      BY <3>1, <3>2 DEF Knows, Before
    <3> QED
      BY <1>1, <2>5, <3>3 DEF StoreGa, KInv, StoreInv, ghost
  <2> QED
    BY <2>1, <2>2, <2>3, <2>4, <2>5
<1> QED
  BY <1>1, <1>3, <1>4 DEF KInv, RowInv, HeldInv, db

LEMMA KRead ==
  ASSUME AInv, KInv, NEW r \in Req, Load(r) \/ Find(r)
  PROVE  KInv'
<1> DEFINE h == req[r].h
<1>1. UNCHANGED <<db, redis, token, logins, proven, newest, faults>>
  BY DEF Load, Find, ghost
<1>2. \E step \in {"load", "find"}, a \in exists :
        /\ At(r, step) /\ Advance(r, a, user[a])
        /\ step = "load" /\ h.admits = "has" => user[a].contact[h.kind] # None
        /\ entered' \subseteq entered \cup {a}
  <2>1. CASE Load(r)
    <3>1. /\ At(r, "load") /\ req[r].bid \in exists /\ Advance(r, req[r].bid, user[req[r].bid])
          /\ Admits(h, user[req[r].bid]) /\ entered' \subseteq entered \cup {req[r].bid}
      BY <2>1 DEF Load, Passes, IsLoaded, At
    <3>2. h.admits = "has" => user[req[r].bid].contact[h.kind] # None
      BY <3>1 DEF Admits
    <3> QED
      BY <3>1, <3>2
  <2>2. CASE Find(r)
    BY <2>2 DEF Find, FoundBy, Registered, ghost
  <2> QED
    BY <2>1, <2>2
<1>3. PICK step \in {"load", "find"}, a \in exists :
        /\ At(r, step) /\ Advance(r, a, user[a])
        /\ step = "load" /\ h.admits = "has" => user[a].contact[h.kind] # None
        /\ entered' \subseteq entered \cup {a}
  BY <1>2
<1>4. a \in Account /\ user[a] \in Row /\ Shown(user[a])
  BY DEF AInv, TableInv, KInv, RowInv
<1>5. ASSUME NEW i \in 1..Len(h.steps), Place(req[r], i), h.steps[i] = step
      PROVE  KeepsContacts(h, i + 1, a, user[a], exists', user')
  <2>1. ~Before(h, i, {"load"})
    BY <1>3, <1>5, HeldAt DEF AInv, KInv, ChecksInOrder, Before
  <2>2. Before(h, i + 1, {"load"}) => step = "load"
    BY <1>5, <2>1, BeforeNext
  <2> QED
    BY <1>1, <1>3, <2>2 DEF KeepsContacts, db
<1>6. TableKeeps
  BY <1>1 DEF TableKeeps, db
<1>7. CopiesInv'
  BY <1>3, <1>4, <1>5, <1>6, CopyAdvances DEF AInv, KInv
<1>8. StoreInv'
  BY <1>1, <1>3, <1>4 DEF KInv, StoreInv, redis
<1> QED
  BY <1>1, <1>7, <1>8 DEF KInv, RowInv, HeldInv, db

(* What an UPDATE makes of a row u, when s is the copy that was loaded. *)
Columns(h, u, s, c, w) ==
  /\ w \in Row
  /\ \A k \in Kind :
       w.contact[k] = IF h.writes \in {"contact", "both"} /\ k = h.kind THEN c ELSE u.contact[k]
  /\ h.writes \in {"contact", "password", "nick", "firm"} => w.last = u.last
  /\ h.writes \in {"both", "time"} =>
       \A f \in Factor : w.last[f] = IF f = h.kind THEN "recent" ELSE u.last[f]
  /\ h.writes \in {"times", "bindGa", "unbindGa"} =>
       \A k \in Kind : w.last[k] = IF Verified(s, k) THEN "recent" ELSE "never"
  /\ h.writes = "times" => w.last["ga"] = IF Verified(s, "ga") THEN "recent" ELSE "never"
  /\ h.writes = "bindGa" => w.last["ga"] = "recent" /\ w.ga = TRUE
  /\ h.writes = "unbindGa" => w.last["ga"] = "never" /\ w.ga = FALSE
  /\ h.writes \notin {"bindGa", "unbindGa"} => w.ga = u.ga

LEMMA WrittenColumns ==
  ASSUME NEW h, NEW u \in Row, NEW s \in Row, NEW c,
         h.writes \in {"contact", "both", "time", "times", "password", "nick", "firm",
                       "bindGa", "unbindGa"},
         h.writes \in {"contact", "both"} => c \in Contact
  PROVE  Columns(h, u, s, c, Written(h, u, s, c))
<1> DEFINE w == Written(h, u, s, c)
           both == [u.contact EXCEPT ![h.kind] = c]
           dated == [u.last EXCEPT ![h.kind] = "recent"]
           renewed == Renewed(s)
           bound == [renewed EXCEPT !["ga"] = "recent"]
           freed == [renewed EXCEPT !["ga"] = "never"]
<1>1. u = [contact |-> u.contact, last |-> u.last, ga |-> u.ga]
      /\ u.contact \in [Kind -> Contact \cup {None}] /\ u.last \in [Factor -> Time]
      /\ u.ga \in BOOLEAN
  BY DEF Row
<1>2. /\ h.writes \in {"contact", "both"} => both \in [Kind -> Contact \cup {None}]
      /\ \A k \in Kind : both[k] = IF k = h.kind THEN c ELSE u.contact[k]
  BY <1>1
<1>3. /\ dated \in [Factor -> Time]
      /\ \A f \in Factor : dated[f] = IF f = h.kind THEN "recent" ELSE u.last[f]
  BY <1>1 DEF Time
<1>4. /\ renewed \in [Factor -> Time]
      /\ \A f \in Factor : renewed[f] = IF Verified(s, f) THEN "recent" ELSE "never"
  BY DEF Renewed, Time
<1>0. "ga" \in Factor /\ Kind \subseteq Factor /\ "ga" \notin Kind
  BY DEF Factor, Kind
<1> HIDE DEF renewed
<1>5. /\ bound \in [Factor -> Time] /\ bound["ga"] = "recent"
      /\ \A k \in Kind : bound[k] = renewed[k]
  BY <1>0, <1>4 DEF Time
<1>50. /\ freed \in [Factor -> Time] /\ freed["ga"] = "never"
       /\ \A k \in Kind : freed[k] = renewed[k]
  BY <1>0, <1>4 DEF Time
<1>6. CASE h.writes = "contact"
  <2>1. w = [contact |-> both, last |-> u.last, ga |-> u.ga]
    BY <1>1, <1>6 DEF Written
  <2> HIDE DEF both, dated, bound, freed, w
  <2>2. w \in Row
    BY <1>1, <1>2, <1>6, <2>1 DEF Row
  <2>3. Columns(h, u, s, c, w)
    BY <1>2, <1>6, <2>1, <2>2 DEF Columns
  <2> QED
    BY <2>3 DEF w
<1>7. CASE h.writes = "both"
  <2>1. w = [contact |-> both, last |-> dated, ga |-> u.ga]
    BY <1>1, <1>7 DEF Written
  <2> HIDE DEF both, dated, bound, freed, w
  <2>2. w \in Row
    BY <1>1, <1>2, <1>3, <1>7, <2>1 DEF Row
  <2>3. Columns(h, u, s, c, w)
    BY <1>2, <1>3, <1>7, <2>1, <2>2 DEF Columns
  <2> QED
    BY <2>3 DEF w
<1>8. CASE h.writes = "time"
  <2>1. w = [contact |-> u.contact, last |-> dated, ga |-> u.ga]
    BY <1>1, <1>8 DEF Written
  <2> HIDE DEF both, dated, bound, freed, w
  <2>2. w \in Row
    BY <1>1, <1>3, <2>1 DEF Row
  <2>3. Columns(h, u, s, c, w)
    BY <1>3, <1>8, <2>1, <2>2 DEF Columns
  <2> QED
    BY <2>3 DEF w
<1>9. CASE h.writes = "times"
  <2>1. w = [contact |-> u.contact, last |-> renewed, ga |-> u.ga]
    BY <1>1, <1>9 DEF Written, renewed
  <2> HIDE DEF both, dated, bound, freed, w
  <2>2. w \in Row
    BY <1>1, <1>4, <2>1 DEF Row
  <2>3. Columns(h, u, s, c, w)
    BY <1>0, <1>4, <1>9, <2>1, <2>2 DEF Columns
  <2> QED
    BY <2>3 DEF w
<1>10. CASE h.writes \in {"password", "nick", "firm"}
  <2>1. w = u
    BY <1>10 DEF Written
  <2> HIDE DEF both, dated, bound, freed, w
  <2>3. Columns(h, u, s, c, w)
    BY <1>10, <2>1 DEF Columns
  <2> QED
    BY <2>3 DEF w
<1>11. CASE h.writes = "bindGa"
  <2>1. w = [contact |-> u.contact, last |-> bound, ga |-> TRUE]
    BY <1>1, <1>11 DEF Written, renewed
  <2> HIDE DEF both, dated, bound, freed, w
  <2>2. w \in Row
    BY <1>1, <1>5, <2>1 DEF Row
  <2>3. Columns(h, u, s, c, w)
    BY <1>0, <1>4, <1>5, <1>11, <2>1, <2>2 DEF Columns
  <2> QED
    BY <2>3 DEF w
<1>12. CASE h.writes = "unbindGa"
  <2>1. w = [contact |-> u.contact, last |-> freed, ga |-> FALSE]
    BY <1>1, <1>12 DEF Written, renewed
  <2> HIDE DEF both, dated, bound, freed, w
  <2>2. w \in Row
    BY <1>1, <1>50, <2>1 DEF Row
  <2>3. Columns(h, u, s, c, w)
    BY <1>0, <1>4, <1>50, <1>12, <2>1, <2>2 DEF Columns
  <2> QED
    BY <2>3 DEF w
<1> QED
  BY <1>6, <1>7, <1>8, <1>9, <1>10, <1>11, <1>12

(* It keeps the contacts, and shows none that is not there. *)
LEMMA WrittenShows ==
  ASSUME NEW h, NEW u \in Row, NEW s \in Row, NEW c, Shown(u), Shown(s),
         h.writes \in {"contact", "both", "time", "times", "password", "nick", "firm",
                       "bindGa", "unbindGa"},
         h.writes \in {"contact", "both"} => c \in Contact,
         h.writes = "time" /\ h.kind \in Kind => u.contact[h.kind] # None,
         \A k \in Kind : s.contact[k] # None => u.contact[k] # None
  PROVE  /\ Shown(Written(h, u, s, c))
         /\ \A k \in Kind : u.contact[k] # None => Written(h, u, s, c).contact[k] # None
<1> DEFINE w == Written(h, u, s, c)
<1>1. Columns(h, u, s, c, w)
  BY WrittenColumns
<1> HIDE DEF w
<1> USE <1>1 DEF Columns
<1>2. /\ u.contact \in [Kind -> Contact \cup {None}] /\ u.last \in [Factor -> Time]
      /\ None \notin Contact /\ "ga" \notin Kind
  BY ConstantAssumption DEF Row, Contact, Kind
<1>3. \A k \in Kind : u.contact[k] # None => w.contact[k] # None
  BY <1>1, <1>2
<1>4. ASSUME NEW k \in Kind, Verified(w, k) PROVE w.contact[k] # None
  <2>1. CASE h.writes \in {"times", "bindGa", "unbindGa"}
    <3>2. Verified(s, k)
      BY <1>4, <2>1 DEF Verified
    <3> QED
      BY <1>3, <3>2 DEF Shown
  <2>2. CASE h.writes \in {"contact", "password", "nick", "firm"}
    BY <1>1, <1>3, <1>4, <2>2 DEF Shown, Verified
  <2>3. CASE h.writes \in {"both", "time"}
    <3>1. CASE k = h.kind
      BY <1>1, <1>2, <1>3, <2>3, <3>1
    <3>2. CASE k # h.kind
      <4>1. w.last[k] = u.last[k]
        BY <1>1, <1>2, <2>3, <3>2 DEF Factor
      <4> QED
        BY <1>3, <1>4, <4>1 DEF Shown, Verified
    <3> QED
      BY <3>1, <3>2
  <2> QED
    BY <2>1, <2>2, <2>3
<1> QED
  BY <1>3, <1>4 DEF Shown, w

LEMMA KWrite ==
  ASSUME AInv, KInv, NEW r \in Req, Write(r)
  PROVE  KInv'
<1> DEFINE h == req[r].h
           a == req[r].bid
           s == req[r].user
           Update(u) == Written(h, u, s, req[r].input)
<1>1. /\ At(r, "write") /\ UNCHANGED <<exists, wallet, redis, token, logins, ghost, faults>>
      /\ user' = [user EXCEPT ![a] = Update(user[a])]
      /\ Advance(r, a, Update(s))
  BY DEF Write
<1>2. PICK i \in 1..Len(h.steps) :
        /\ Place(req[r], i) /\ h.steps[i] = "write"
        /\ KeepsContacts(h, i, a, s, exists, user)
        /\ Knows(h, i, req[r].token, a, s, wallet)
  BY <1>1, HeldAt DEF AInv, KInv
<1>3. Holds(req[r], exists, user) /\ CallsInOrder(h) /\ ChecksInOrder(h)
  BY <1>1, HeldAt DEF AInv, KInv
<1>4. /\ Before(h, i, {"load", "find"})
      /\ h.writes \in {"contact", "both", "time", "times", "password", "nick", "firm",
                       "bindGa", "unbindGa"}
  BY <1>2, <1>3 DEF CallsInOrder
<1>5. a \in exists /\ a \in Account /\ \A k \in Kind : s.contact[k] # None => user[a].contact[k] # None
  BY <1>2, <1>4 DEF KeepsContacts, Knows, Before
<1>6. s \in Row /\ Shown(s) /\ user[a] \in Row /\ Shown(user[a]) /\ a \in Account \cup {None}
  BY <1>3, <1>5 DEF Holds, KInv, RowInv
<1>7. h.writes \in {"contact", "both"} => req[r].input \in Contact
  BY <1>2, <1>3, ContactsOfKinds DEF ChecksInOrder, Holds, TakesContact
<1>8. h.writes = "time" /\ h.kind \in Kind => s.contact[h.kind] # None
  BY <1>2, <1>3 DEF ChecksInOrder, KeepsContacts, Kind
<1>9. /\ Update(s) \in Row /\ Shown(Update(s))
      /\ Update(user[a]) \in Row /\ Shown(Update(user[a]))
      /\ \A k \in Kind : user[a].contact[k] # None => Update(user[a]).contact[k] # None
      /\ \A k \in Kind : s.contact[k] # None => Update(s).contact[k] # None
  <2>1. Columns(h, s, s, req[r].input, Update(s))
        /\ Columns(h, user[a], s, req[r].input, Update(user[a]))
    BY <1>4, <1>6, <1>7, WrittenColumns
  <2>2. h.writes = "time" /\ h.kind \in Kind => user[a].contact[h.kind] # None
    BY <1>5, <1>8
  <2>3. /\ Shown(Update(user[a]))
        /\ \A k \in Kind : user[a].contact[k] # None => Update(user[a]).contact[k] # None
    BY <1>4, <1>5, <1>6, <1>7, <2>2, WrittenShows
  <2>4. /\ Shown(Update(s))
        /\ \A k \in Kind : s.contact[k] # None => Update(s).contact[k] # None
    BY <1>4, <1>6, <1>7, <1>8, WrittenShows
  <2> HIDE DEF Update
  <2> QED
    BY <2>1, <2>3, <2>4 DEF Columns
<1>10. \A k \in Kind : Update(s).contact[k] # None => Update(user[a]).contact[k] # None
  <2>1. /\ Columns(h, s, s, req[r].input, Update(s))
        /\ Columns(h, user[a], s, req[r].input, Update(user[a]))
    BY <1>4, <1>6, <1>7, WrittenColumns
  <2>2. s.contact \in [Kind -> Contact \cup {None}] /\ user[a].contact \in [Kind -> Contact \cup {None}]
    BY <1>6 DEF Row
  <2> HIDE DEF Update
  <2> QED
    BY <1>5, <2>1, <2>2 DEF Columns
<1> HIDE DEF Update
<1>11. user \in [Account -> Row] /\ exists \subseteq Account
  BY DEF AInv, TableInv, KInv, RowInv
<1>12. user'[a] = Update(user[a]) /\ \A b \in Account : b # a => user'[b] = user[b]
  BY <1>1, <1>5, <1>11
<1>13. TableKeeps
  BY <1>1, <1>9, <1>11, <1>12 DEF TableKeeps
<1>14. ASSUME NEW j \in 1..Len(h.steps), Place(req[r], j), h.steps[j] = "write"
       PROVE  KeepsContacts(h, j + 1, a, Update(s), exists', user')
  <2>1. KeepsContacts(h, j, a, s, exists, user)
    BY <1>3, <1>14 DEF Holds
  <2>2. Before(h, j + 1, {"load"}) <=> Before(h, j, {"load"})
    BY <1>14, BeforeNext
  <2>3. h.admits = "has" => h.kind \in Kind
    BY <1>3 DEF ChecksInOrder
  <2>4. Before(h, j + 1, {"load"}) /\ h.admits = "has" => Update(s).contact[h.kind] # None
    BY <1>9, <2>1, <2>2, <2>3 DEF KeepsContacts
  <2> QED
    BY <1>1, <1>5, <1>10, <1>12, <2>4 DEF KeepsContacts
<1>15. CopiesInv'
  BY <1>1, <1>6, <1>9, <1>13, <1>14, CopyAdvances DEF AInv, KInv
<1>16. RowInv'
  BY <1>1, <1>9, <1>11, <1>12 DEF KInv, RowInv
<1> QED
  BY <1>1, <1>15, <1>16 DEF KInv, StoreInv, HeldInv, redis, ghost

LEMMA SignUpContactsAre ==
  ASSUME NEW r \in Req, req[r].token \in TokenUser
  PROVE  /\ SignUpContacts(r) \in [Kind -> Contact \cup {None}]
         /\ \A k \in Kind : req[r].token.contact[k] # None =>
              SignUpContacts(r)[k] = req[r].token.contact[k]
<1>1. \A k \in Kind : req[r].token.contact[k] \in Contact \cup {None}
  BY DEF TokenUser
<1>2. ASSUME NEW k \in Kind, req[r].input \in ContactOf[k] PROVE Plain(req[r].input) \in Contact
  BY <1>2, ContactsOfKinds, NumberAssumption DEF Plain, Contact
<1> QED
  BY <1>1, <1>2 DEF SignUpContacts

LEMMA KBind ==
  ASSUME AInv, KInv, NEW r \in Req, Bind(r)
  PROVE  KInv'
<1> DEFINE u == [contact |-> SignUpContacts(r), last |-> req[r].token.last, ga |-> FALSE]
           h == req[r].h
<1>1. At(r, "bind") /\ UNCHANGED <<exists, user, redis, token, logins, ghost, faults>>
  BY DEF Bind
<1>2. PICK a \in Account : Advance(r, a, u)
  BY DEF Bind
<1>3. Holds(req[r], exists, user) /\ ChecksInOrder(h)
  BY <1>1, HeldAt DEF AInv, KInv
<1>4. req[r].token \in TokenUser /\ Shown(req[r].token)
  BY <1>3 DEF Holds
<1>5. u \in Row
  BY <1>4, SignUpContactsAre DEF Row, TokenUser
<1>6. Shown(u)
  BY <1>4, SignUpContactsAre DEF Shown, Verified
<1> HIDE DEF u
<1>7. ASSUME NEW i \in 1..Len(h.steps), Place(req[r], i), h.steps[i] = "bind"
      PROVE  KeepsContacts(h, i + 1, a, u, exists', user')
  <2>1. ~Before(h, i, {"load", "find", "bind", "create", "match", "write"})
    BY <1>3, <1>7 DEF ChecksInOrder
  <2>2. ~Before(h, i + 1, {"load"}) /\ ~Before(h, i + 1, {"load", "find", "create"})
    <3>1. ~Before(h, i, {"load"}) /\ ~Before(h, i, {"load", "find", "create"})
      BY <2>1 DEF Before
    <3> QED
      BY <1>7, <3>1, BeforeNext
  <2> QED
    BY <2>2 DEF KeepsContacts
<1>8. TableKeeps
  BY <1>1 DEF TableKeeps
<1>9. CopiesInv'
  BY <1>1, <1>2, <1>5, <1>6, <1>7, <1>8, CopyAdvances DEF AInv, KInv
<1> QED
  BY <1>1, <1>9 DEF KInv, StoreInv, RowInv, HeldInv, redis, ghost

LEMMA KCreate ==
  ASSUME AInv, KInv, NEW r \in Req, Create(r)
  PROVE  KInv'
<1> DEFINE h == req[r].h
           a == req[r].bid
           u == req[r].user
<1>1. /\ At(r, "create") /\ Passes(r) /\ Advance(r, a, u)
      /\ exists' = exists \cup {a}
      /\ user' = [user EXCEPT ![a] = u]
      /\ UNCHANGED <<wallet, redis, token, logins, ghost, faults>>
  BY DEF Create, Proceed
<1>2. Holds(req[r], exists, user) /\ CallsInOrder(h) /\ ChecksInOrder(h)
  BY <1>1, HeldAt DEF AInv, KInv
<1>3. PICK i \in 1..Len(h.steps) :
        h.steps[i] = "create" /\ Knows(h, i, req[r].token, a, u, wallet)
  BY <1>1, HeldAt DEF AInv, KInv
<1>4. a \in Account
  BY <1>2, <1>3 DEF CallsInOrder, Knows, Before
<1>5. a \notin exists
  BY <1>1 DEF Passes, At
<1>6. u \in Row /\ Shown(u)
  BY <1>2 DEF Holds
<1>7. user \in [Account -> Row] /\ exists \subseteq Account
  BY DEF AInv, TableInv, KInv, RowInv
<1>8. user'[a] = u /\ \A b \in Account : b # a => user'[b] = user[b]
  BY <1>1, <1>4, <1>7
<1>9. TableKeeps
  BY <1>1, <1>5, <1>7, <1>8 DEF TableKeeps
<1>10. h.admits # "has"
  BY <1>2, <1>3 DEF ChecksInOrder, SignUp, Handles
<1>11. \A j : KeepsContacts(h, j, a, u, exists', user')
  BY <1>1, <1>8, <1>10 DEF KeepsContacts
<1>12. CopiesInv'
  BY <1>1, <1>4, <1>6, <1>9, <1>11, CopyAdvances DEF AInv, KInv
<1>13. RowInv'
  BY <1>1, <1>4, <1>6, <1>7, <1>8 DEF KInv, RowInv
<1> QED
  BY <1>1, <1>12, <1>13 DEF KInv, StoreInv, HeldInv, redis, ghost

LEMMA AnswerHeld ==
  ASSUME AInv, KInv, NEW r \in Req, NEW step \in {"reply", "sign"}, At(r, step),
         NEW sk \in 0..MaxLogin
  PROVE  Answer(r, sk) \in TokenUser /\ Shown(Answer(r, sk))
<1> DEFINE h == req[r].h
<1>1. PICK i \in 1..Len(h.steps) : h.steps[i] = step
  BY HeldAt DEF AInv, KInv
<1>2. Holds(req[r], exists, user) /\ ChecksInOrder(h)
  BY HeldAt DEF AInv, KInv
<1>3. CASE h.sk = "fresh"
  <2> DEFINE contact == [NoRow.contact EXCEPT ![h.kind] = req[r].input]
             last    == [NoRow.last EXCEPT ![h.kind] = "recent"]
  <2>1. Answer(r, sk) = [bid |-> None, contact |-> contact, last |-> last, sk |-> sk]
    BY <1>3 DEF Answer, Visitor
  <2>2. h.kind \in Kind /\ req[r].input \in Contact /\ req[r].input # None
    BY <1>1, <1>2, <1>3, ContactsOfKinds DEF ChecksInOrder, Holds, TakesContact
  <2>3. contact \in [Kind -> Contact \cup {None}] /\ contact[h.kind] # None
    BY <2>2 DEF NoRow
  <2>4. last \in [Factor -> Time] /\ \A k \in Kind : last[k] # "never" => k = h.kind
    BY DEF NoRow, Time, Factor
  <2> HIDE DEF contact, last
  <2>5. Answer(r, sk) \in TokenUser
    BY <2>1, <2>3, <2>4 DEF TokenUser
  <2> QED
    BY <2>1, <2>3, <2>4, <2>5 DEF Shown, Verified
<1>4. CASE h.sk = "same"
  BY <1>2, <1>4 DEF Answer, Holds
<1>5. CASE h.sk \notin {"fresh", "same"}
  <2>1. Answer(r, sk) = [bid |-> req[r].bid, contact |-> req[r].user.contact,
                         last |-> req[r].user.last, sk |-> sk]
    BY <1>5 DEF Answer
  <2>2. /\ req[r].user.contact \in [Kind -> Contact \cup {None}]
        /\ req[r].user.last \in [Factor -> Time]
        /\ req[r].bid \in Account \cup {None}
    BY <1>2 DEF Holds, Row
  <2>3. Answer(r, sk) \in TokenUser
    BY <2>1, <2>2 DEF TokenUser
  <2> QED
    BY <1>2, <2>1, <2>3 DEF Shown, Verified, Holds
<1> QED
  BY <1>3, <1>4, <1>5

LEMMA KReply ==
  ASSUME AInv, KInv, NEW r \in Req, Reply(r)
  PROVE  KInv'
<1> DEFINE sk == IF NeedsKey(r) THEN logins + 1 ELSE req[r].token.sk
           answer == Answer(r, sk)
<1>1. /\ At(r, "reply") /\ Proceed(r)
      /\ NeedsKey(r) => logins < MaxLogin
      /\ logins' = IF NeedsKey(r) THEN logins + 1 ELSE logins
      /\ singleton' = [singleton EXCEPT ![answer.bid] = sk]
      /\ newest' = IF IsLogin(req[r].h) THEN [newest EXCEPT ![answer.bid] = sk] ELSE newest
      /\ token' = [token EXCEPT ![req[r].client] = answer]
      /\ UNCHANGED <<db, code, gaKey, proven, entered, faults>>
  BY DEF Reply
<1>2. logins \in 0..MaxLogin /\ MaxLogin \in Nat
  BY ConstantAssumption DEF KInv, StoreInv
<1>3. req[r].token.sk \in 0..MaxLogin
  BY <1>1, HeldAt DEF AInv, KInv, Holds, TokenUser
<1>4. sk \in 0..MaxLogin /\ logins' \in 0..MaxLogin
  BY <1>1, <1>2, <1>3
<1> HIDE DEF sk
<1>5. answer \in TokenUser /\ Shown(answer)
  BY <1>1, <1>4, AnswerHeld
<1> HIDE DEF answer
<1>6. StoreInv'
  BY <1>1, <1>4, <1>5 DEF KInv, StoreInv
<1>7. HeldInv'
  BY <1>1, <1>5 DEF KInv, HeldInv
<1>8. CopiesInv'
  BY <1>1, CopyProceeds DEF AInv, KInv, db
<1> QED
  BY <1>1, <1>6, <1>7, <1>8 DEF KInv, RowInv, db

LEMMA KSign ==
  ASSUME AInv, KInv, NEW r \in Req, Sign(r)
  PROVE  KInv'
<1> DEFINE answer == Answer(r, 0)
<1>1. /\ At(r, "sign") /\ Proceed(r)
      /\ token' = [token EXCEPT ![req[r].client] = answer]
      /\ UNCHANGED <<db, redis, logins, ghost, faults>>
  BY DEF Sign
<1>2. 0 \in 0..MaxLogin
  BY ConstantAssumption
<1>3. answer \in TokenUser /\ Shown(answer)
  BY <1>1, <1>2, AnswerHeld
<1> HIDE DEF answer
<1>4. HeldInv'
  BY <1>1, <1>3 DEF KInv, HeldInv
<1>5. CopiesInv'
  BY <1>1, CopyProceeds DEF AInv, KInv, db
<1> QED
  BY <1>1, <1>4, <1>5 DEF KInv, StoreInv, RowInv, db, redis, ghost

LEMMA KEnded ==
  ASSUME AInv, KInv, NEW r \in Req, Refuse(r) \/ RequestFails(r)
  PROVE  KInv'
<1>1. req' = [req EXCEPT ![r] = Idle] /\ UNCHANGED <<db, redis, token, logins, ghost>>
  BY DEF Refuse, RequestFails
<1>2. faults' \in 0..MaxFaults
  BY ConstantAssumption DEF Refuse, RequestFails, KInv, StoreInv
<1>3. CopiesInv'
  BY <1>1, CopyEnds DEF AInv, KInv, db
<1> QED
  BY <1>1, <1>2, <1>3 DEF KInv, StoreInv, RowInv, HeldInv, db, redis, ghost

LEMMA KSignOut ==
  ASSUME KInv, NEW p \in Client, SignOut(p)
  PROVE  KInv'
<1>1. HeldInv'
  BY NothingHeld DEF KInv, HeldInv, SignOut
<1>2. CopiesInv'
  BY CopiesStay DEF KInv, SignOut, db, TableKeeps
<1> QED
  BY <1>1, <1>2 DEF KInv, StoreInv, RowInv, SignOut, db, redis, ghost

LEMMA KExpiry ==
  ASSUME KInv, CodeExpires \/ \E a \in Account \cup {None} : SessionExpires(a)
  PROVE  KInv'
<1>1. UNCHANGED <<db, token, req, logins, ghost, faults>>
  BY DEF CodeExpires, SessionExpires
<1>2. StoreInv'
  <2>1. CASE CodeExpires
    BY <1>1, <2>1 DEF CodeExpires, KInv, StoreInv, ghost
  <2>2. ASSUME NEW a \in Account \cup {None}, SessionExpires(a) PROVE StoreInv'
    BY <1>1, <2>2, ConstantAssumption DEF SessionExpires, KInv, StoreInv, ghost
  <2> QED
    BY <2>1, <2>2
<1>3. CopiesInv'
  BY <1>1, CopiesStay DEF KInv, db, TableKeeps
<1> QED
  BY <1>1, <1>2, <1>3 DEF KInv, RowInv, HeldInv, db

(* Time changes the times only, and dates nothing. *)
LEMMA AgedTimes ==
  ASSUME NEW last \in [Factor -> Time]
  PROVE  /\ Aged(last) \in [Factor -> Time]
         /\ \A f \in Factor : Aged(last)[f] # "recent"
         /\ \A f \in Factor : Aged(last)[f] = "never" <=> last[f] = "never"
BY DEF Aged, Time

LEMMA AgedCopies ==
  ASSUME TimePasses, user \in [Account -> Row], token \in [Client -> TokenUser]
  PROVE  /\ user' \in [Account -> Row] /\ token' \in [Client -> TokenUser]
         /\ \A a \in Account :
              /\ user'[a].contact = user[a].contact /\ user'[a].ga = user[a].ga
              /\ \A f \in Factor : /\ user'[a].last[f] # "recent"
                                   /\ Verified(user'[a], f) <=> Verified(user[a], f)
         /\ \A p \in Client :
              /\ token'[p].contact = token[p].contact
              /\ token'[p].bid = token[p].bid /\ token'[p].sk = token[p].sk
              /\ \A f \in Factor : /\ token'[p].last[f] # "recent"
                                   /\ Verified(token'[p], f) <=> Verified(token[p], f)
<1>1. ASSUME NEW a \in Account
      PROVE  /\ user'[a] \in Row
             /\ user'[a].contact = user[a].contact /\ user'[a].ga = user[a].ga
             /\ user'[a].last = Aged(user[a].last) /\ user[a].last \in [Factor -> Time]
  <2>1. user[a] \in Row /\ user[a].last \in [Factor -> Time]
    BY DEF Row
  <2>2. user'[a] = [user[a] EXCEPT !.last = Aged(user[a].last)]
    BY DEF TimePasses
  <2>3. Aged(user[a].last) \in [Factor -> Time]
    BY <2>1, AgedTimes
  <2> QED
    BY <2>1, <2>2, <2>3 DEF Row
<1>2. ASSUME NEW p \in Client
      PROVE  /\ token'[p] \in TokenUser
             /\ token'[p].contact = token[p].contact
             /\ token'[p].bid = token[p].bid /\ token'[p].sk = token[p].sk
             /\ token'[p].last = Aged(token[p].last) /\ token[p].last \in [Factor -> Time]
  <2>1. token[p] \in TokenUser /\ token[p].last \in [Factor -> Time]
    BY DEF TokenUser
  <2>2. token'[p] = [token[p] EXCEPT !.last = Aged(token[p].last)]
    BY DEF TimePasses
  <2>3. Aged(token[p].last) \in [Factor -> Time]
    BY <2>1, AgedTimes
  <2> QED
    BY <2>1, <2>2, <2>3 DEF TokenUser
<1>3. user' \in [Account -> Row] /\ token' \in [Client -> TokenUser]
  BY <1>1, <1>2 DEF TimePasses
<1>4. ASSUME NEW a \in Account, NEW f \in Factor
      PROVE  user'[a].last[f] # "recent" /\ (Verified(user'[a], f) <=> Verified(user[a], f))
  BY <1>1, AgedTimes DEF Verified
<1>5. ASSUME NEW p \in Client, NEW f \in Factor
      PROVE  token'[p].last[f] # "recent" /\ (Verified(token'[p], f) <=> Verified(token[p], f))
  BY <1>2, AgedTimes DEF Verified
<1> QED
  BY <1>1, <1>2, <1>3, <1>4, <1>5

LEMMA KTime ==
  ASSUME AInv, KInv, TimePasses
  PROVE  KInv'
<1>1. user \in [Account -> Row] /\ token \in [Client -> TokenUser] /\ exists \subseteq Account
  BY DEF AInv, TableInv, KInv, RowInv, HeldInv
<1>2. Kind \subseteq Factor
  BY DEF Factor
<1>3. RowInv'
  BY <1>1, <1>2, AgedCopies DEF KInv, RowInv, Shown
<1>4. HeldInv'
  BY <1>1, <1>2, AgedCopies DEF KInv, HeldInv, Shown
<1>5. TableKeeps
  BY <1>1, AgedCopies DEF TableKeeps, TimePasses
<1>6. CopiesInv'
  BY <1>5, CopiesStay DEF KInv, TimePasses
<1>7. StoreInv'
  BY DEF KInv, StoreInv, TimePasses
<1> QED
  BY <1>3, <1>4, <1>6, <1>7 DEF KInv

LEMMA InitKInv == Init => KInv
<1> SUFFICES ASSUME Init PROVE KInv
  OBVIOUS
<1>1. StoreInv
  BY ConstantAssumption DEF Init, StoreInv
<1>2. RowInv /\ HeldInv
  BY NothingHeld DEF Init, RowInv, HeldInv
<1>3. CopiesInv
  BY DEF Init, CopiesInv
<1> QED
  BY <1>1, <1>2, <1>3 DEF KInv

LEMMA NextKInv == AInv /\ KInv /\ [Next]_vars => KInv'
<1> SUFFICES ASSUME AInv, KInv, [Next]_vars PROVE KInv'
  OBVIOUS
<1>1. ASSUME NEW r \in Req, NEW p \in Client, NEW h \in Handler, NEW c \in Inputs(h),
             Begin(r, p, h, c)
      PROVE KInv'
  BY <1>1, KBegin
<1>2. ASSUME NEW r \in Req, Step(r) PROVE KInv'
  <2>1. CASE Test(r) \/ Match(r) \/ Drop(r) \/ Send(r) \/ StoreGa(r)
    BY <2>1, KQuiet
  <2>2. CASE Load(r) \/ Find(r)
    BY <2>2, KRead
  <2>3. CASE Write(r)
    BY <2>3, KWrite
  <2>4. CASE Bind(r)
    BY <2>4, KBind
  <2>5. CASE Create(r)
    BY <2>5, KCreate
  <2>6. CASE Reply(r)
    BY <2>6, KReply
  <2>7. CASE Sign(r)
    BY <2>7, KSign
  <2>8. CASE Refuse(r) \/ RequestFails(r)
    BY <2>8, KEnded
  <2> QED
    BY <1>2, <2>1, <2>2, <2>3, <2>4, <2>5, <2>6, <2>7, <2>8 DEF Step
<1>3. ASSUME NEW p \in Client, SignOut(p) PROVE KInv'
  BY <1>3, KSignOut
<1>4. CASE CodeExpires \/ \E a \in Account \cup {None} : SessionExpires(a)
  BY <1>4, KExpiry
<1>5. CASE TimePasses
  BY <1>5, KTime
<1>6. CASE UNCHANGED vars
  <2>1. CopiesInv'
    BY <1>6, CopiesStay DEF KInv, vars, db, TableKeeps
  <2> QED
    BY <1>6, <2>1 DEF KInv, StoreInv, RowInv, HeldInv, vars, db, redis, ghost
<1> QED
  BY <1>1, <1>2, <1>3, <1>4, <1>5, <1>6 DEF Next

LEMMA SpecKInv == Spec => [](AInv /\ KInv)
BY InitAInv, NextAInv, InitKInv, NextKInv, PTL DEF Spec

(* What redis, the tokens and the requests hold is what they are meant to  *)
(* hold, however requests overlap; in particular no code is kept for       *)
(* nobody, and no secret or session for something that is no account       *)
(* (common.go:92-158, 541-620).                                            *)
THEOREM AccountTypesHold == Spec => []TypeOK
<1>1. AInv /\ KInv => TypeOK
  <2> SUFFICES ASSUME AInv, KInv PROVE TypeOK
    OBVIOUS
  <2>1. ASSUME NEW r \in Req, req[r] # Idle
        PROVE  /\ req[r].busy
               /\ req[r].client \in Client
               /\ req[r].h \in Handler
               /\ req[r].token \in TokenUser
               /\ req[r].input \in Contact \cup Account \cup {None}
               /\ req[r].bid \in Account \cup {None}
               /\ req[r].user \in Row
               /\ req[r].todo # <<>>
    <3>1. InFlight(req[r], wallet)
      BY <2>1, Zenon DEF AInv, ReqInv
    <3>2. req[r] \in Request /\ req[r].busy
      BY <3>1, IdleIsIdle DEF InFlight
    <3>3. Holds(req[r], exists, user)
      BY <2>1 DEF KInv, CopiesInv
    <3>4. PICK i \in 1..Len(req[r].h.steps) : Place(req[r], i)
      BY <3>1 DEF InFlight
    <3>5. req[r].todo \in Seq(STRING) /\ req[r].h.steps \in Seq(STRING)
      BY <3>2, HandlerAssumption DEF Request, CallsInOrder
    <3>6. req[r].todo # <<>>
      BY <3>4, <3>5 DEF Place
    <3> QED
      BY <3>2, <3>3, <3>6 DEF Holds, Request, Thing
  <2> QED
    BY <2>1 DEF AInv, TableInv, KInv, StoreInv, RowInv, HeldInv, TypeOK
<1> QED
  BY <1>1, SpecKInv, PTL

-----------------------------------------------------------------------------
(* One request at a time.  Then what a request has loaded is what is in    *)
(* the table until it writes, what it has compared still is what it        *)
(* compared, and the factors, the sessions and the contacts are what they  *)
(* are shown as.  (Of requests that overlap none of this holds: README.md, *)
(* section 6.)                                                             *)

OneAtATime == \A r, s \in Req : r = s

(* Its verified contacts had their codes entered, the recent ones          *)
(* recently.                                                               *)
ProvenRow(x) == \A k \in Kind : Verified(x, k) => x.contact[k] \in proven
EarnedRow(x) == \A k \in Kind : x.last[k] = "recent" => x.contact[k] \in entered

(* What the request r, about to make its i-th call, has of its session, of *)
(* its row and of the codes and contacts it has tested.                    *)
HasSession(r, i) ==
  LET q == req[r] IN
  /\ Before(q.h, i, {"session"}) /\ ~Before(q.h, i, {"reply"}) =>
       q.token.sk \in {0, newest[q.token.bid]}
  /\ ~Before(q.h, i, {"find", "bind"}) /\ q.h.kind # "operator" => q.bid = q.token.bid

HasRow(r, i) ==
  LET q == req[r] IN
  /\ Before(q.h, i, {"load", "find", "create"}) => q.bid \in exists /\ q.user = user[q.bid]
  /\ Before(q.h, i, {"load"}) /\ ~Before(q.h, i, {"write"}) => Admits(q.h, q.user)
  /\ Before(q.h, i, {"load"}) /\ q.h.admits = "ga" => q.bid \in entered
  /\ Before(q.h, i, {"bind"}) /\ ~Before(q.h, i, {"create"}) =>
       q.user = [contact |-> SignUpContacts(r), last |-> q.token.last, ga |-> FALSE]

HasTested(r, i) ==
  LET q == req[r] IN
  /\ Before(q.h, i, {"match"}) /\ ~Before(q.h, i, {"write"}) =>
       /\ Codes(r) \subseteq proven \cap entered
       /\ MatchesGa(r) => q.bid \in entered
  /\ Before(q.h, i, {"free"}) /\ ~Before(q.h, i, {"write", "create"}) => IsFree(r)

RestsOn(r, i) == HasSession(r, i) /\ HasRow(r, i) /\ HasTested(r, i)

TableEarned == \A a \in exists : ProvenRow(user[a]) /\ EarnedRow(user[a])
TokensEarned == \A p \in Client : ProvenRow(token[p]) /\ EarnedRow(token[p])

RestInv ==
  \A r \in Req : req[r] # Idle =>
    /\ ProvenRow(req[r].token) /\ EarnedRow(req[r].token)
    /\ \A i \in 1..Len(req[r].h.steps) : Place(req[r], i) => RestsOn(r, i)

OInv == TableEarned /\ TokensEarned /\ NewestSessionWins /\ RestInv

(* What a request has, and that it makes its calls in order. *)
LEMMA RestsAt ==
  ASSUME AInv, KInv, RestInv, NEW r \in Req, NEW step, At(r, step)
  PROVE  /\ Holds(req[r], exists, user)
         /\ req[r] \in Request
         /\ CallsInOrder(req[r].h) /\ ChecksInOrder(req[r].h)
         /\ ProvenRow(req[r].token) /\ EarnedRow(req[r].token)
         /\ \E i \in 1..Len(req[r].h.steps) :
              /\ Place(req[r], i) /\ req[r].h.steps[i] = step
              /\ RestsOn(r, i)
              /\ Knows(req[r].h, i, req[r].token, req[r].bid, req[r].user, wallet)
<1>1. PICK i \in 1..Len(req[r].h.steps) :
        /\ Place(req[r], i) /\ req[r].h.steps[i] = step
        /\ Knows(req[r].h, i, req[r].token, req[r].bid, req[r].user, wallet)
  BY HeldAt DEF AInv, KInv
<1>2. req[r] # Idle
  BY BusyInFlight, IdleIsIdle DEF AInv, At
<1>3. ProvenRow(req[r].token) /\ EarnedRow(req[r].token) /\ RestsOn(r, i)
  BY <1>1, <1>2 DEF RestInv
<1> QED
  BY <1>1, <1>3, HeldAt DEF AInv, KInv

(* A request that goes on. *)
LEMMA RestGoesOn ==
  ASSUME OneAtATime, AInv, KInv, RestInv, NEW r \in Req, NEW step, At(r, step),
         NEW b \in Account \cup {None}, NEW u \in Row, Advance(r, b, u),
         proven \subseteq proven', entered \subseteq entered',
         \A i \in 1..Len(req[r].h.steps) :
           /\ req[r].h.steps[i] = step /\ RestsOn(r, i)
           /\ Knows(req[r].h, i, req[r].token, req[r].bid, req[r].user, wallet)
           /\ req'[r].h = req[r].h /\ req'[r].token = req[r].token
           /\ req'[r].input = req[r].input /\ req'[r].bid = b /\ req'[r].user = u
           => RestsOn(r, i + 1)'
  PROVE  RestInv'
<1>1. PICK i \in 1..Len(req[r].h.steps) :
        /\ Place(req[r], i) /\ req[r].h.steps[i] = step /\ RestsOn(r, i)
        /\ Knows(req[r].h, i, req[r].token, req[r].bid, req[r].user, wallet)
  BY RestsAt
<1>2. req[r].busy /\ b \in Thing /\ u \in AnyRow
  BY RowsAreRows DEF At
<1>3. \/ req'[r] = Idle
      \/ /\ req'[r].h = req[r].h /\ req'[r].token = req[r].token
         /\ req'[r].input = req[r].input /\ req'[r].bid = b /\ req'[r].user = u
         /\ \A j \in 1..Len(req'[r].h.steps) : Place(req'[r], j) <=> j = i + 1
  BY <1>1, <1>2, Advanced DEF AInv
<1>4. (ProvenRow(req[r].token)' /\ EarnedRow(req[r].token)') \/ req'[r] = Idle
  BY <1>3, RestsAt DEF ProvenRow, EarnedRow
<1>5. ASSUME req'[r] # Idle, NEW j \in 1..Len(req'[r].h.steps), Place(req'[r], j)
      PROVE  RestsOn(r, j)'
  <2>1. j = i + 1
    BY <1>3, <1>5
  <2>2. RestsOn(r, i + 1)'
    BY <1>1, <1>3, <1>5
  <2> QED
    BY <2>1, <2>2
<1>6. \A s \in Req : s = r
  BY DEF OneAtATime
<1> QED
  BY <1>4, <1>5, <1>6 DEF RestInv

(* The tests of a request depend on what it holds. *)
LEMMA SameTests ==
  ASSUME NEW r, req'[r].h = req[r].h, req'[r].token = req[r].token,
         req'[r].input = req[r].input
  PROVE  /\ SignUpContacts(r)' = SignUpContacts(r)
         /\ req'[r].user = req[r].user =>
              Codes(r)' = Codes(r) /\ (MatchesGa(r)' <=> MatchesGa(r))
         /\ UNCHANGED <<exists, user>> => (IsFree(r)' <=> IsFree(r))
<1>1. SignUpContacts(r)' = SignUpContacts(r)
  BY DEF SignUpContacts
<1>2. req'[r].user = req[r].user => Codes(r)' = Codes(r) /\ (MatchesGa(r)' <=> MatchesGa(r))
  BY DEF Codes, MatchesGa, Verified
<1>3. UNCHANGED <<exists, user>> => (IsFree(r)' <=> IsFree(r))
  BY <1>1 DEF IsFree, Registered, Verified
<1> QED
  BY <1>1, <1>2, <1>3

(* A call that loads nothing and leaves the table as it is. *)
LEMMA RestProceeds ==
  ASSUME OneAtATime, AInv, KInv, RestInv, NEW r \in Req, NEW step, At(r, step),
         step \notin {"load", "find", "bind", "create", "write"}, Proceed(r),
         UNCHANGED <<exists, user>>, proven \subseteq proven', entered \subseteq entered',
         step # "reply" => UNCHANGED newest,
         step = "session" => req[r].token.sk \in {0, newest[req[r].token.bid]},
         step = "free" => IsFree(r),
         step = "match" => /\ Codes(r) \subseteq proven' \cap entered'
                           /\ MatchesGa(r) => req[r].bid \in entered'
  PROVE  RestInv'
<1> DEFINE q == req[r]
<1>1. q.bid \in Account \cup {None} /\ q.user \in Row
  BY RestsAt DEF Holds
<1>2. ASSUME NEW i \in 1..Len(q.h.steps), q.h.steps[i] = step, RestsOn(r, i),
             req'[r].h = q.h, req'[r].token = q.token, req'[r].input = q.input,
             req'[r].bid = q.bid, req'[r].user = q.user
      PROVE  RestsOn(r, i + 1)'
  <2>1. \A S : Before(q.h, i + 1, S) <=> Before(q.h, i, S) \/ step \in S
    BY <1>2, BeforeNext
  <2>2. HasSession(r, i + 1)'
    BY <1>2, <2>1 DEF HasSession, RestsOn
  <2>3. HasRow(r, i + 1)'
    BY <1>2, <2>1, SameTests DEF HasRow, RestsOn
  <2>4. HasTested(r, i + 1)'
    BY <1>2, <2>1, SameTests DEF HasTested, RestsOn
  <2> QED
    BY <2>2, <2>3, <2>4 DEF RestsOn
<1> QED
  BY <1>1, <1>2, RestGoesOn DEF Proceed

LEMMA RestStays ==
  ASSUME RestInv, UNCHANGED <<req, exists, user, newest, proven, entered>>
  PROVE  RestInv'
<1>1. ASSUME NEW r \in Req, NEW i, RestsOn(r, i) PROVE RestsOn(r, i)'
  <2>1. HasSession(r, i)'
    BY <1>1 DEF RestsOn, HasSession
  <2>2. HasRow(r, i)'
    BY <1>1, SameTests DEF RestsOn, HasRow
  <2>3. HasTested(r, i)'
    BY <1>1, SameTests DEF RestsOn, HasTested
  <2> QED
    BY <2>1, <2>2, <2>3 DEF RestsOn
<1>2. ASSUME NEW r \in Req, req[r] # Idle
      PROVE  ProvenRow(req[r].token)' /\ EarnedRow(req[r].token)'
  BY <1>2 DEF RestInv, ProvenRow, EarnedRow
<1> QED
  BY <1>1, <1>2 DEF RestInv

(* What grows leaves everything else that is earned as it is. *)
LEMMA EarnedStays ==
  ASSUME OInv, UNCHANGED <<exists, user, token>>, proven \subseteq proven',
         entered \subseteq entered'
  PROVE  TableEarned' /\ TokensEarned'
BY DEF OInv, TableEarned, TokensEarned, ProvenRow, EarnedRow, Verified

LEMMA OBegin ==
  ASSUME OneAtATime, AInv, KInv, OInv, NEW r \in Req, NEW p \in Client, NEW h \in Handler,
         NEW c \in Inputs(h), Begin(r, p, h, c)
  PROVE  OInv'
<1> DEFINE bid == IF h.kind = "operator" THEN c ELSE token[p].bid
           q == [busy |-> TRUE, client |-> p, h |-> h, token |-> token[p],
                 input |-> IF Normalises(h) THEN Plain(c) ELSE c,
                 bid |-> bid, user |-> NoRow, todo |-> h.steps]
<1>1. req' = [req EXCEPT ![r] = q] /\ UNCHANGED <<db, redis, token, logins, ghost, faults>>
  BY DEF Begin
<1>2. req'[r] = q
  BY <1>1 DEF AInv, ReqInv
<1>3. req'[r].h = h /\ req'[r].token = token[p] /\ req'[r].bid = bid /\ req'[r].todo = h.steps
  BY <1>2
<1> HIDE DEF q, bid
<1>4. ASSUME NEW i \in 1..Len(h.steps), Place(req'[r], i) PROVE RestsOn(r, i)'
  <2>1. Len(h.steps) \in Nat
    BY HandlerAssumption DEF CallsInOrder
  <2>2. i = 1
    BY <1>3, <1>4, <2>1 DEF Place
  <2>3. \A S : ~Before(h, i, S)
    BY <2>2 DEF Before
  <2> QED
    BY <1>3, <2>3 DEF RestsOn, HasSession, HasRow, HasTested, bid
<1>5. ProvenRow(token[p])' /\ EarnedRow(token[p])'
  BY <1>1 DEF OInv, TokensEarned, ProvenRow, EarnedRow, Verified, ghost
<1>6. ProvenRow(req[r].token)' /\ EarnedRow(req[r].token)'
  BY <1>1, <1>3, <1>5 DEF ProvenRow, EarnedRow, Verified
<1>7. RestInv'
  BY <1>3, <1>4, <1>6 DEF RestInv, OneAtATime
<1>8. TableEarned' /\ TokensEarned'
  BY <1>1, EarnedStays DEF ghost, db
<1>9. NewestSessionWins'
  BY <1>1 DEF OInv, NewestSessionWins, redis, ghost
<1> QED
  BY <1>7, <1>8, <1>9 DEF OInv

LEMMA OQuiet ==
  ASSUME OneAtATime, AInv, KInv, OInv, NEW r \in Req,
         Test(r) \/ Match(r) \/ Drop(r) \/ Send(r) \/ StoreGa(r)
  PROVE  OInv'
<1>1. UNCHANGED <<db, singleton, token, logins, newest, faults>> /\ Proceed(r)
  BY DEF Test, Match, Drop, Send, StoreGa, redis, ghost
<1>2. /\ proven \subseteq proven' /\ entered \subseteq entered'
      /\ \E step :
           /\ At(r, step) /\ step \notin {"load", "find", "bind", "create", "write", "reply"}
           /\ step = "session" => InSession(r)
           /\ step = "free" => IsFree(r)
           /\ step = "match" => /\ Codes(r) \subseteq proven' \cap entered'
                                /\ MatchesGa(r) => req[r].bid \in entered'
  <2>1. CASE Test(r)
    <3>1. PICK step \in {"free", "session", "recent", "known", "nick"} : At(r, step)
      BY <2>1 DEF Test
    <3>2. (step = "session" => InSession(r)) /\ (step = "free" => IsFree(r))
      BY <2>1, <3>1 DEF Test, Passes, At
    <3> QED
      BY <2>1, <3>1, <3>2 DEF Test, ghost
  <2>2. CASE Match(r)
    BY <2>2 DEF Match
  <2>3. CASE Drop(r)
    BY <2>3 DEF Drop, ghost
  <2>4. CASE Send(r)
    <3>1. At(r, "send") \/ At(r, "other")
      BY <2>4, Zenon DEF Send
    <3>2. proven \subseteq proven' /\ entered \subseteq entered'
      BY <2>4 DEF Send, ghost
    <3> QED
      BY <3>1, <3>2
  <2>5. CASE StoreGa(r)
    BY <2>5 DEF StoreGa, ghost
  <2> QED
    BY <2>1, <2>2, <2>3, <2>4, <2>5
<1>3. PICK step :
        /\ At(r, step) /\ step \notin {"load", "find", "bind", "create", "write", "reply"}
        /\ step = "session" => InSession(r)
        /\ step = "free" => IsFree(r)
        /\ step = "match" => /\ Codes(r) \subseteq proven' \cap entered'
                             /\ MatchesGa(r) => req[r].bid \in entered'
  BY <1>2
<1>4. step = "session" => req[r].token.sk \in {0, newest[req[r].token.bid]}
  <2>1. req[r].token.bid \in Account \cup {None}
    BY <1>3, RestsAt DEF OInv, Holds, TokenUser
  <2> QED
    BY <1>3, <2>1 DEF InSession, OInv, NewestSessionWins
<1>5. RestInv'
  BY <1>1, <1>2, <1>3, <1>4, RestProceeds DEF OInv, db
<1>6. TableEarned' /\ TokensEarned'
  BY <1>1, <1>2, EarnedStays DEF db
<1>7. NewestSessionWins'
  BY <1>1 DEF OInv, NewestSessionWins
<1> QED
  BY <1>5, <1>6, <1>7 DEF OInv

LEMMA ORead ==
  ASSUME OneAtATime, AInv, KInv, OInv, NEW r \in Req, Load(r) \/ Find(r)
  PROVE  OInv'
<1> DEFINE h == req[r].h
<1>1. UNCHANGED <<db, redis, token, logins, proven, newest, faults>>
  BY DEF Load, Find, ghost
<1>2. \E step \in {"load", "find"}, a \in exists :
        /\ At(r, step) /\ Advance(r, a, user[a])
        /\ step = "load" => a = req[r].bid /\ Admits(h, user[a])
        /\ step = "load" /\ h.admits = "ga" => a \in entered'
        /\ entered \subseteq entered'
  <2>1. CASE Load(r)
    BY <2>1 DEF Load, Passes, IsLoaded, At
  <2>2. CASE Find(r)
    BY <2>2 DEF Find, FoundBy, Registered, ghost
  <2> QED
    BY <2>1, <2>2
<1>3. PICK step \in {"load", "find"}, a \in exists :
        /\ At(r, step) /\ Advance(r, a, user[a])
        /\ step = "load" => a = req[r].bid /\ Admits(h, user[a])
        /\ step = "load" /\ h.admits = "ga" => a \in entered'
        /\ entered \subseteq entered'
  BY <1>2
<1>4. a \in Account /\ user[a] \in Row
  BY DEF AInv, TableInv, KInv, RowInv
<1>5. ChecksInOrder(h)
  BY <1>3, RestsAt DEF OInv
<1>6. ASSUME NEW i \in 1..Len(h.steps), h.steps[i] = step, RestsOn(r, i),
             req'[r].h = h, req'[r].token = req[r].token, req'[r].input = req[r].input,
             req'[r].bid = a, req'[r].user = user[a]
      PROVE  RestsOn(r, i + 1)'
  <2>1. \A S : Before(h, i + 1, S) <=> Before(h, i, S) \/ step \in S
    BY <1>6, BeforeNext
  <2>2. ~Before(h, i, {"load", "find", "bind", "create", "match", "write"})
    BY <1>5, <1>6 DEF ChecksInOrder
  <2>3. ~Before(h, i, {"load"}) /\ ~Before(h, i, {"bind"}) /\ ~Before(h, i, {"match"})
    BY <2>2 DEF Before
  <2>4. HasSession(r, i + 1)'
    BY <1>1, <1>3, <1>6, <2>1 DEF HasSession, RestsOn
  <2>5. HasRow(r, i + 1)'
    BY <1>1, <1>3, <1>6, <2>1, <2>3 DEF HasRow, db
  <2>6. HasTested(r, i + 1)'
    BY <1>1, <1>6, <2>1, <2>3, SameTests DEF HasTested, RestsOn, db
  <2> QED
    BY <2>4, <2>5, <2>6 DEF RestsOn
<1>7. RestInv'
  BY <1>1, <1>3, <1>4, <1>6, RestGoesOn DEF OInv
<1>8. TableEarned' /\ TokensEarned'
  BY <1>1, <1>3, EarnedStays DEF db
<1>9. NewestSessionWins'
  BY <1>1 DEF OInv, NewestSessionWins, redis
<1> QED
  BY <1>7, <1>8, <1>9 DEF OInv

(* An UPDATE is of the row as it was loaded, and what it changes rests on  *)
(* what the request has tested.                                            *)
LEMMA WriteRests ==
  ASSUME OneAtATime, AInv, KInv, OInv, NEW r \in Req, Write(r)
  PROVE  LET h == req[r].h
             a == req[r].bid
             c == req[r].input
             w == Written(h, user[a], user[a], c)
         IN
         /\ a \in exists /\ req[r].user = user[a]
         /\ user' = [user EXCEPT ![a] = w] /\ Advance(r, a, w)
         /\ Columns(h, user[a], user[a], c, w)
         /\ h.writes \in {"contact", "both", "time", "times", "password", "nick", "firm",
                          "bindGa", "unbindGa"}
         /\ h.writes \in {"contact", "both"} => h.kind \in Kind /\ Registered(h.kind, c) = {}
         /\ h.writes = "contact" => ~Verified(user[a], h.kind)
         /\ h.writes = "both" => c \in proven \cap entered
         /\ h.writes = "time" =>
              \/ h.kind = "ga" /\ a \in entered /\ user[a].ga
              \/ h.kind \in Kind /\ user[a].contact[h.kind] \in proven \cap entered
         /\ h.writes \in {"times", "bindGa", "unbindGa"} =>
              \A k \in Kind : Verified(user[a], k) => user[a].contact[k] \in proven \cap entered
         /\ h.writes = "times" /\ Verified(user[a], "ga") => a \in entered
         /\ h.writes = "bindGa" => a \in entered
<1> DEFINE h == req[r].h
           a == req[r].bid
           c == req[r].input
           w == Written(h, user[a], user[a], c)
<1>1. /\ At(r, "write")
      /\ user' = [user EXCEPT ![a] = Written(h, user[a], req[r].user, c)]
      /\ Advance(r, a, Written(h, req[r].user, req[r].user, c))
  BY DEF Write
<1>2. PICK i \in 1..Len(h.steps) :
        /\ h.steps[i] = "write" /\ RestsOn(r, i)
        /\ Knows(h, i, req[r].token, a, req[r].user, wallet)
  BY <1>1, RestsAt DEF OInv
<1>3. CallsInOrder(h) /\ ChecksInOrder(h) /\ Holds(req[r], exists, user)
  BY <1>1, RestsAt DEF OInv
<1>4. /\ Before(h, i, {"load", "find"})
      /\ h.writes \in {"contact", "both", "time", "times", "password", "nick", "firm",
                       "bindGa", "unbindGa"}
  BY <1>2, <1>3 DEF CallsInOrder
<1>5. /\ ~Before(h, i, {"write"})
      /\ h.writes \in {"contact", "both"} => TakesContact(h) /\ Before(h, i, {"free"})
      /\ h.writes = "contact" => h.admits = "unverified" /\ Before(h, i, {"load"})
      /\ h.writes = "time" =>
           /\ Before(h, i, {"load"})
           /\ \/ h.kind = "ga" /\ h.admits = "ga"
              \/ h.admits = "has" /\ Before(h, i, {"match"})
      /\ h.writes \in {"both", "times", "bindGa", "unbindGa"} => Before(h, i, {"match"})
      /\ h.admits = "has" => h.kind \in Kind
  BY <1>2, <1>3 DEF ChecksInOrder
<1>6. a \in exists /\ req[r].user = user[a]
  BY <1>2, <1>4 DEF RestsOn, HasRow, Before
<1>7. a \in Account /\ user[a] \in Row /\ Shown(user[a])
  BY <1>6 DEF AInv, TableInv, KInv, RowInv
<1>8. TakesContact(h) => h.kind \in Kind /\ c \in Contact /\ h # SignUp
  <2>1. SignUp.kind \notin Kind
    BY DEF SignUp, Handles, Kind
  <2> QED
    BY <1>3, <2>1, ContactsOfKinds DEF TakesContact, Holds
<1>9. Columns(h, user[a], user[a], c, w)
  BY <1>4, <1>5, <1>7, <1>8, WrittenColumns
<1>10. ~Before(h, i, {"create"})
  <2> SUFFICES ASSUME NEW j \in 1..(i - 1), h.steps[j] = "create" PROVE FALSE
    BY DEF Before
  <2>1. PICK l \in 1..(i - 1) : h.steps[l] \in {"load", "find"}
    BY <1>4 DEF Before
  <2>2. j \in 1..Len(h.steps) /\ l \in 1..Len(h.steps)
    BY <1>3 DEF CallsInOrder
  <2>3. ~Before(h, j, {"load", "find"})
    BY <1>3, <2>2 DEF CallsInOrder
  <2>4. ~Before(h, l, {"load", "find", "bind", "create", "match", "write"})
    BY <1>3, <2>1, <2>2 DEF ChecksInOrder
  <2>5. ~(l \in 1..(j - 1)) /\ ~(j \in 1..(l - 1))
    BY <2>1, <2>3, <2>4 DEF Before
  <2>6. l # j
    BY <2>1
  <2> QED
    BY <2>5, <2>6
<1>11. h.writes \in {"contact", "both"} => h.kind \in Kind /\ Registered(h.kind, c) = {}
  BY <1>2, <1>5, <1>8, <1>10 DEF RestsOn, HasTested, IsFree, Before
<1>12. h.writes = "contact" => ~Verified(user[a], h.kind)
  <2> SUFFICES ASSUME h.writes = "contact" PROVE ~Verified(user[a], h.kind)
    OBVIOUS
  <2>1. Admits(h, user[a]) /\ h.admits = "unverified"
    BY <1>2, <1>5, <1>6 DEF RestsOn, HasRow
  <2>2. ~(Verified(user[a], h.kind) /\ user[a].contact[h.kind] # None)
    BY <2>1 DEF Admits
  <2> QED
    BY <1>5, <1>7, <1>8, <2>2 DEF Shown
<1>13. Before(h, i, {"match"}) =>
         Codes(r) \subseteq proven \cap entered /\ (MatchesGa(r) => a \in entered)
  BY <1>2, <1>5 DEF RestsOn, HasTested
<1>14. h.writes = "both" => c \in proven \cap entered
  <2> SUFFICES ASSUME h.writes = "both" PROVE c \in proven \cap entered
    OBVIOUS
  <2>1. Codes(r) = {c}
    BY <1>5 DEF Codes, TakesContact
  <2> QED
    BY <1>5, <1>13, <2>1
<1>15. h.writes = "time" =>
         \/ h.kind = "ga" /\ a \in entered /\ user[a].ga
         \/ h.kind \in Kind /\ user[a].contact[h.kind] \in proven \cap entered
  <2>1. CASE h.writes = "time" /\ h.kind = "ga" /\ h.admits = "ga"
    <3>1. Admits(h, user[a]) /\ a \in entered
      BY <1>2, <1>5, <1>6, <2>1 DEF RestsOn, HasRow
    <3> QED
      BY <2>1, <3>1 DEF Admits
  <2>2. CASE h.writes = "time" /\ h.admits = "has" /\ Before(h, i, {"match"})
    <3>1. Codes(r) = {user[a].contact[h.kind]}
      BY <1>6, <2>2 DEF Codes
    <3> QED
      BY <1>5, <1>13, <2>2, <3>1
  <2> QED
    BY <1>5, <2>1, <2>2
<1>16. h.writes \in {"times", "bindGa", "unbindGa"} =>
         \A k \in Kind : Verified(user[a], k) => user[a].contact[k] \in proven \cap entered
  BY <1>5, <1>6, <1>13 DEF Codes
<1>17. /\ h.writes = "times" /\ Verified(user[a], "ga") => a \in entered
       /\ h.writes = "bindGa" => a \in entered
  BY <1>5, <1>6, <1>13 DEF MatchesGa
<1> HIDE DEF w
<1>18. user' = [user EXCEPT ![a] = w] /\ Advance(r, a, w)
  BY <1>1, <1>6 DEF w
<1> QED
  BY <1>4, <1>6, <1>9, <1>11, <1>12, <1>14, <1>15, <1>16, <1>17, <1>18 DEF w

LEMMA OWrite ==
  ASSUME OneAtATime, AInv, KInv, OInv, NEW r \in Req, Write(r)
  PROVE  OInv'
<1> DEFINE h == req[r].h
           a == req[r].bid
           c == req[r].input
           u == user[a]
           w == Written(h, u, u, c)
<1>1. /\ a \in exists /\ req[r].user = u
      /\ user' = [user EXCEPT ![a] = w] /\ Advance(r, a, w)
      /\ Columns(h, u, u, c, w)
      /\ h.writes \in {"contact", "both", "time", "times", "password", "nick", "firm",
                       "bindGa", "unbindGa"}
  BY WriteRests
<1>2. /\ h.writes \in {"contact", "both"} => h.kind \in Kind
      /\ h.writes = "contact" => ~Verified(u, h.kind)
      /\ h.writes = "both" => c \in proven \cap entered
      /\ h.writes = "time" =>
           \/ h.kind = "ga" /\ a \in entered /\ u.ga
           \/ h.kind \in Kind /\ u.contact[h.kind] \in proven \cap entered
      /\ h.writes \in {"times", "bindGa", "unbindGa"} =>
           \A k \in Kind : Verified(u, k) => u.contact[k] \in proven \cap entered
  BY WriteRests
<1> HIDE DEF w
<1>3. At(r, "write") /\ UNCHANGED <<exists, wallet, redis, token, logins, ghost, faults>>
  BY DEF Write
<1>4. user \in [Account -> Row] /\ a \in Account /\ u \in Row
  BY <1>1 DEF AInv, TableInv, KInv, RowInv
<1>5. user'[a] = w /\ w \in Row /\ \A b \in Account : b # a => user'[b] = user[b]
  BY <1>1, <1>4 DEF Columns
<1>6. ProvenRow(u) /\ EarnedRow(u)
  BY <1>1 DEF OInv, TableEarned
<1>7. "ga" \notin Kind /\ Kind \subseteq Factor
  BY DEF Kind, Factor
<1>8. ASSUME NEW k \in Kind
      PROVE  /\ Verified(w, k) => w.contact[k] \in proven
             /\ w.last[k] = "recent" => w.contact[k] \in entered
  <2>1. CASE h.writes = "contact"
    <3>1. w.last = u.last /\ (k # h.kind => w.contact[k] = u.contact[k])
      BY <1>1, <2>1 DEF Columns
    <3>2. k = h.kind => w.last[k] = "never"
      BY <1>2, <2>1, <3>1 DEF Verified
    <3> QED
      BY <1>6, <3>1, <3>2 DEF Verified, ProvenRow, EarnedRow
  <2>2. CASE h.writes \in {"both", "time"}
    <3>1. CASE k = h.kind
      BY <1>1, <1>2, <1>7, <2>2, <3>1 DEF Columns
    <3>2. CASE k # h.kind
      <4>1. w.last[k] = u.last[k] /\ w.contact[k] = u.contact[k]
        BY <1>1, <1>7, <2>2, <3>2 DEF Columns
      <4> QED
        BY <1>6, <4>1 DEF Verified, ProvenRow, EarnedRow
    <3> QED
      BY <3>1, <3>2
  <2>3. CASE h.writes \in {"times", "bindGa", "unbindGa"}
    <3>1. w.contact[k] = u.contact[k] /\ (w.last[k] # "never" => Verified(u, k))
      BY <1>1, <2>3 DEF Columns
    <3> QED
      BY <1>2, <2>3, <3>1 DEF Verified
  <2>4. CASE h.writes \in {"password", "nick", "firm"}
    <3>1. w.contact[k] = u.contact[k] /\ w.last[k] = u.last[k]
      BY <1>1, <2>4 DEF Columns
    <3> QED
      BY <1>6, <3>1 DEF Verified, ProvenRow, EarnedRow
  <2> QED
    BY <1>1, <2>1, <2>2, <2>3, <2>4
<1>9. TableEarned'
  <2> SUFFICES ASSUME NEW b \in exists
               PROVE  ProvenRow(user[b])' /\ EarnedRow(user[b])'
    BY <1>3 DEF TableEarned
  <2>1. CASE b = a
    BY <1>3, <1>5, <1>8, <2>1 DEF ProvenRow, EarnedRow, Verified, ghost
  <2>2. CASE b # a
    <3>1. b \in Account
      BY DEF AInv, TableInv
    <3>2. user'[b] = user[b]
      BY <1>5, <2>2, <3>1
    <3> QED
      BY <1>3, <3>2 DEF OInv, TableEarned, ProvenRow, EarnedRow, Verified, ghost
  <2> QED
    BY <2>1, <2>2
<1>10. TokensEarned' /\ NewestSessionWins'
  BY <1>3 DEF OInv, TokensEarned, NewestSessionWins, ProvenRow, EarnedRow, Verified, redis, ghost
<1>11. CallsInOrder(h) /\ ChecksInOrder(h)
  BY <1>3, RestsAt DEF OInv
<1>12. ASSUME NEW i \in 1..Len(h.steps), h.steps[i] = "write", RestsOn(r, i),
              req'[r].h = h, req'[r].token = req[r].token, req'[r].input = c,
              req'[r].bid = a, req'[r].user = w
       PROVE  RestsOn(r, i + 1)'
  <2>1. \A S : Before(h, i + 1, S) <=> Before(h, i, S) \/ "write" \in S
    BY <1>12, BeforeNext
  <2>2. ~Before(h, i, {"bind"})
    <3> SUFFICES ASSUME NEW j \in 1..(i - 1), h.steps[j] = "bind" PROVE FALSE
      BY DEF Before
    <3>1. PICK l \in 1..(i - 1) : h.steps[l] \in {"load", "find"}
      BY <1>11, <1>12 DEF CallsInOrder, Before
    <3>2. j \in 1..Len(h.steps) /\ l \in 1..Len(h.steps)
      BY <1>11 DEF CallsInOrder
    <3>3. /\ ~Before(h, j, {"load", "find", "bind", "create", "match", "write"})
          /\ ~Before(h, l, {"load", "find", "bind", "create", "match", "write"})
      BY <1>11, <3>1, <3>2 DEF ChecksInOrder
    <3>4. ~(l \in 1..(j - 1)) /\ ~(j \in 1..(l - 1))
      BY <3>1, <3>3 DEF Before
    <3>5. l # j
      BY <3>1
    <3> QED
      BY <3>4, <3>5
  <2>3. HasSession(r, i + 1)'
    BY <1>3, <1>12, <2>1 DEF HasSession, RestsOn, ghost
  <2>4. HasRow(r, i + 1)'
    BY <1>1, <1>3, <1>5, <1>12, <2>1, <2>2 DEF HasRow, RestsOn, ghost
  <2>5. HasTested(r, i + 1)'
    BY <1>12, <2>1 DEF HasTested
  <2> QED
    BY <2>3, <2>4, <2>5 DEF RestsOn
<1>13. RestInv'
  BY <1>1, <1>3, <1>4, <1>5, <1>12, RestGoesOn DEF OInv, ghost
<1> QED
  BY <1>9, <1>10, <1>13 DEF OInv

LEMMA OBind ==
  ASSUME OneAtATime, AInv, KInv, OInv, NEW r \in Req, Bind(r)
  PROVE  OInv'
<1> DEFINE u == [contact |-> SignUpContacts(r), last |-> req[r].token.last, ga |-> FALSE]
           h == req[r].h
<1>1. At(r, "bind") /\ UNCHANGED <<exists, user, redis, token, logins, ghost, faults>>
  BY DEF Bind
<1>2. PICK a \in Account : Advance(r, a, u)
  BY DEF Bind
<1>3. Holds(req[r], exists, user) /\ ChecksInOrder(h)
  BY <1>1, RestsAt DEF OInv
<1>4. u \in Row
  BY <1>3, SignUpContactsAre DEF Row, TokenUser, Holds
<1> HIDE DEF u
<1>5. ASSUME NEW i \in 1..Len(h.steps), h.steps[i] = "bind", RestsOn(r, i),
             req'[r].h = h, req'[r].token = req[r].token, req'[r].input = req[r].input,
             req'[r].bid = a, req'[r].user = u
      PROVE  RestsOn(r, i + 1)'
  <2>1. \A S : Before(h, i + 1, S) <=> Before(h, i, S) \/ "bind" \in S
    BY <1>5, BeforeNext
  <2>2. ~Before(h, i, {"load", "find", "bind", "create", "match", "write"})
    BY <1>3, <1>5 DEF ChecksInOrder
  <2>3. ~Before(h, i, {"load"}) /\ ~Before(h, i, {"load", "find", "create"})
        /\ ~Before(h, i, {"match"})
    BY <2>2 DEF Before
  <2>4. HasSession(r, i + 1)'
    BY <1>1, <1>5, <2>1 DEF HasSession, RestsOn, ghost
  <2>5. u = [contact |-> SignUpContacts(r)', last |-> req'[r].token.last, ga |-> FALSE]
    BY <1>5, SameTests DEF u
  <2>6. HasRow(r, i + 1)'
    BY <1>5, <2>1, <2>3, <2>5 DEF HasRow
  <2>7. HasTested(r, i + 1)'
    BY <1>1, <1>5, <2>1, <2>3, SameTests DEF HasTested, RestsOn
  <2> QED
    BY <2>4, <2>6, <2>7 DEF RestsOn
<1>6. RestInv'
  BY <1>1, <1>2, <1>4, <1>5, RestGoesOn DEF OInv, ghost
<1>7. TableEarned' /\ TokensEarned'
  BY <1>1, EarnedStays DEF ghost
<1>8. NewestSessionWins'
  BY <1>1 DEF OInv, NewestSessionWins, redis, ghost
<1> QED
  BY <1>6, <1>7, <1>8 DEF OInv

(* A row is inserted under a new id, with the contacts and the times of    *)
(* the token and contacts that are free.                                   *)
LEMMA CreateRests ==
  ASSUME OneAtATime, AInv, KInv, OInv, NEW r \in Req, Create(r)
  PROVE  LET a == req[r].bid
             u == req[r].user
         IN
         /\ a \in Account /\ a \notin exists /\ u \in Row
         /\ exists' = exists \cup {a} /\ user' = [user EXCEPT ![a] = u]
         /\ ProvenRow(u) /\ EarnedRow(u)
         /\ u.last = req[r].token.last /\ u.ga = FALSE
         /\ \A k \in Kind : u.contact[k] # None => Registered(k, u.contact[k]) = {}
<1> DEFINE h == req[r].h
           a == req[r].bid
           u == req[r].user
           t == req[r].token
<1>1. /\ At(r, "create") /\ Passes(r)
      /\ exists' = exists \cup {a} /\ user' = [user EXCEPT ![a] = u]
  BY DEF Create
<1>2. PICK i \in 1..Len(h.steps) :
        /\ h.steps[i] = "create" /\ RestsOn(r, i)
        /\ Knows(h, i, t, a, u, wallet)
  BY <1>1, RestsAt DEF OInv
<1>3. /\ CallsInOrder(h) /\ ChecksInOrder(h) /\ Holds(req[r], exists, user)
      /\ ProvenRow(t) /\ EarnedRow(t)
  BY <1>1, RestsAt DEF OInv
<1>4. Before(h, i, {"bind"}) /\ ~Before(h, i, {"load", "find"})
  BY <1>2, <1>3 DEF CallsInOrder
<1>5. a \in Account /\ u \in Row
  BY <1>2, <1>3, <1>4 DEF Knows, Before, Holds
<1>6. a \notin exists
  BY <1>1 DEF Passes, At
<1>7. ~Before(h, i, {"create"})
  BY <1>2, <1>6 DEF RestsOn, HasRow, Before
<1>8. ~Before(h, i, {"write"})
  <2> SUFFICES ASSUME NEW j \in 1..(i - 1), h.steps[j] = "write" PROVE FALSE
    BY DEF Before
  <2>1. j \in 1..Len(h.steps)
    BY <1>3 DEF CallsInOrder
  <2>2. Before(h, j, {"load", "find"})
    BY <1>3, <2>1 DEF CallsInOrder
  <2> QED
    BY <1>4, <2>2 DEF Before
<1>9. u = [contact |-> SignUpContacts(r), last |-> t.last, ga |-> FALSE]
  BY <1>2, <1>4, <1>7 DEF RestsOn, HasRow
<1>10. /\ \A k \in Kind : t.contact[k] # None => u.contact[k] = t.contact[k]
       /\ u.last = t.last /\ u.ga = FALSE /\ u.contact = SignUpContacts(r)
  BY <1>3, <1>9, SignUpContactsAre DEF Holds
<1>11. \A k \in Kind : Verified(u, k) => Verified(t, k) /\ u.contact[k] = t.contact[k]
  BY <1>3, <1>10 DEF Holds, Shown, Verified
<1>12. \A k \in Kind : u.last[k] = "recent" => Verified(u, k)
  BY DEF Verified
<1>13. ProvenRow(u) /\ EarnedRow(u)
  BY <1>3, <1>10, <1>11, <1>12 DEF ProvenRow, EarnedRow
<1>14. h = SignUp /\ IsFree(r)
  <2>1. h = SignUp /\ Before(h, i, {"free"})
    BY <1>2, <1>3 DEF ChecksInOrder
  <2>2. ~Before(h, i, {"write", "create"})
    BY <1>7, <1>8 DEF Before
  <2> QED
    BY <1>2, <2>1, <2>2 DEF RestsOn, HasTested
<1>15. \A k \in Kind : u.contact[k] # None => Registered(k, u.contact[k]) = {}
  BY <1>10, <1>14 DEF IsFree
<1> QED
  BY <1>1, <1>5, <1>6, <1>10, <1>13, <1>15

LEMMA OCreate ==
  ASSUME OneAtATime, AInv, KInv, OInv, NEW r \in Req, Create(r)
  PROVE  OInv'
<1> DEFINE h == req[r].h
           a == req[r].bid
           u == req[r].user
<1>1. /\ At(r, "create") /\ Advance(r, a, u)
      /\ UNCHANGED <<wallet, redis, token, logins, ghost, faults>>
  BY DEF Create, Proceed
<1>2. /\ a \in Account /\ a \notin exists /\ u \in Row
      /\ exists' = exists \cup {a} /\ user' = [user EXCEPT ![a] = u]
      /\ ProvenRow(u) /\ EarnedRow(u)
  BY CreateRests
<1>3. user \in [Account -> Row] /\ exists \subseteq Account
  BY DEF AInv, TableInv, KInv, RowInv
<1>4. user'[a] = u /\ \A b \in exists : user'[b] = user[b]
  BY <1>2, <1>3
<1>5. TableEarned'
  BY <1>1, <1>2, <1>4 DEF OInv, TableEarned, ProvenRow, EarnedRow, Verified, ghost
<1>6. TokensEarned' /\ NewestSessionWins'
  BY <1>1 DEF OInv, TokensEarned, NewestSessionWins, ProvenRow, EarnedRow, Verified, redis, ghost
<1>7. CallsInOrder(h) /\ ChecksInOrder(h)
  BY <1>1, RestsAt DEF OInv
<1>8. ASSUME NEW i \in 1..Len(h.steps), h.steps[i] = "create", RestsOn(r, i),
             req'[r].h = h, req'[r].token = req[r].token, req'[r].input = req[r].input,
             req'[r].bid = a, req'[r].user = u
      PROVE  RestsOn(r, i + 1)'
  <2>1. \A S : Before(h, i + 1, S) <=> Before(h, i, S) \/ "create" \in S
    BY <1>8, BeforeNext
  <2>2. ~Before(h, i, {"load"})
    BY <1>7, <1>8 DEF CallsInOrder, Before
  <2>3. HasSession(r, i + 1)'
    BY <1>1, <1>8, <2>1 DEF HasSession, RestsOn, ghost
  <2>4. HasRow(r, i + 1)'
    BY <1>2, <1>4, <1>8, <2>1, <2>2 DEF HasRow
  <2>5. HasTested(r, i + 1)'
    BY <1>1, <1>8, <2>1, SameTests DEF HasTested, RestsOn, ghost
  <2> QED
    BY <2>3, <2>4, <2>5 DEF RestsOn
<1>9. RestInv'
  BY <1>1, <1>2, <1>8, RestGoesOn DEF OInv, ghost
<1> QED
  BY <1>5, <1>6, <1>9 DEF OInv

(* What an answer shows as verified is: it is made of the contact whose    *)
(* code the request has compared, of the token, or of the row.             *)
LEMMA AnswerEarned ==
  ASSUME OneAtATime, AInv, KInv, OInv, NEW r \in Req, NEW step \in {"reply", "sign"},
         At(r, step), NEW sk
  PROVE  ProvenRow(Answer(r, sk)) /\ EarnedRow(Answer(r, sk))
<1> DEFINE h == req[r].h
           answer == Answer(r, sk)
<1>1. PICK i \in 1..Len(h.steps) : h.steps[i] = step /\ RestsOn(r, i)
  BY RestsAt DEF OInv
<1>2. /\ CallsInOrder(h) /\ ChecksInOrder(h) /\ Holds(req[r], exists, user)
      /\ ProvenRow(req[r].token) /\ EarnedRow(req[r].token)
  BY RestsAt DEF OInv
<1>3. CASE h.sk = "fresh"
  <2> DEFINE contact == [NoRow.contact EXCEPT ![h.kind] = req[r].input]
             last    == [NoRow.last EXCEPT ![h.kind] = "recent"]
  <2>1. TakesContact(h) /\ h.writes = "none" /\ Before(h, i, {"match"})
    BY <1>1, <1>2, <1>3 DEF ChecksInOrder
  <2>2. ~Before(h, i, {"write"})
    <3> SUFFICES ASSUME NEW j \in 1..(i - 1), h.steps[j] = "write" PROVE FALSE
      BY DEF Before
    <3>1. j \in 1..Len(h.steps)
      BY <1>2 DEF CallsInOrder
    <3> QED
      BY <1>2, <2>1, <3>1 DEF CallsInOrder
  <2>3. Codes(r) = {req[r].input}
    BY <2>1 DEF Codes, TakesContact
  <2>4. req[r].input \in proven \cap entered
    BY <1>1, <2>1, <2>2, <2>3 DEF RestsOn, HasTested
  <2>5. answer = [bid |-> None, contact |-> contact, last |-> last, sk |-> sk]
    BY <1>3 DEF Answer, Visitor
  <2>6. contact[h.kind] = req[r].input
    BY <2>1 DEF NoRow, TakesContact
  <2>7. \A k \in Kind : last[k] # "never" => k = h.kind
    BY DEF NoRow, Factor
  <2> HIDE DEF contact, last, answer
  <2>8. answer.contact = contact /\ answer.last = last
    BY <2>5
  <2>9. ProvenRow(answer) /\ EarnedRow(answer)
    BY <2>4, <2>6, <2>7, <2>8 DEF ProvenRow, EarnedRow, Verified
  <2> QED
    BY <2>9 DEF answer
<1>4. CASE h.sk = "same"
  BY <1>2, <1>4 DEF Answer
<1>5. CASE h.sk \notin {"fresh", "same"}
  <2>1. req[r].bid \in exists /\ req[r].user = user[req[r].bid]
    BY <1>1, <1>2, <1>5 DEF ChecksInOrder, RestsOn, HasRow
  <2>2. ProvenRow(req[r].user) /\ EarnedRow(req[r].user)
    BY <2>1 DEF OInv, TableEarned
  <2>3. answer = [bid |-> req[r].bid, contact |-> req[r].user.contact,
                  last |-> req[r].user.last, sk |-> sk]
    BY <1>5 DEF Answer
  <2> QED
    BY <2>2, <2>3 DEF ProvenRow, EarnedRow, Verified
<1> QED
  BY <1>3, <1>4, <1>5

LEMMA OReply ==
  ASSUME OneAtATime, AInv, KInv, OInv, NEW r \in Req, Reply(r)
  PROVE  OInv'
<1> DEFINE h == req[r].h
           sk == IF NeedsKey(r) THEN logins + 1 ELSE req[r].token.sk
           answer == Answer(r, sk)
<1>1. /\ At(r, "reply") /\ Proceed(r)
      /\ NeedsKey(r) => logins < MaxLogin
      /\ singleton' = [singleton EXCEPT ![answer.bid] = sk]
      /\ newest' = IF IsLogin(h) THEN [newest EXCEPT ![answer.bid] = sk] ELSE newest
      /\ token' = [token EXCEPT ![req[r].client] = answer]
      /\ UNCHANGED <<db, code, gaKey, proven, entered, faults>>
  BY DEF Reply
<1>2. PICK i \in 1..Len(h.steps) : h.steps[i] = "reply" /\ RestsOn(r, i)
  BY <1>1, RestsAt DEF OInv
<1>3. ChecksInOrder(h) /\ Holds(req[r], exists, user)
  BY <1>1, RestsAt DEF OInv
<1>4. ~IsLogin(h) => answer.bid = req[r].token.bid /\ sk = req[r].token.sk
  <2> SUFFICES ASSUME ~IsLogin(h)
               PROVE  answer.bid = req[r].token.bid /\ sk = req[r].token.sk
    OBVIOUS
  <2>1. h.sk \notin {"fresh", "renewed", "matching"}
    BY DEF IsLogin
  <2>2. sk = req[r].token.sk
    BY <2>1 DEF NeedsKey
  <2> HIDE DEF sk
  <2>3. CASE h.sk = "same"
    BY <2>2, <2>3 DEF Answer
  <2>4. CASE h.sk # "same"
    <3>1. h.kind # "operator" /\ ~Before(h, i, {"find", "bind"})
      BY <1>2, <1>3, <2>4 DEF ChecksInOrder
    <3>2. req[r].bid = req[r].token.bid
      BY <1>2, <3>1 DEF RestsOn, HasSession
    <3> QED
      BY <2>1, <2>2, <2>4, <3>2 DEF Answer
  <2> QED
    BY <2>3, <2>4
<1>5. ~IsLogin(h) => req[r].token.sk \in {0, newest[req[r].token.bid]}
  <2>1. ~IsLogin(h) => Before(h, i, {"session"}) /\ ~Before(h, i, {"reply"})
    BY <1>2, <1>3 DEF ChecksInOrder
  <2> QED
    BY <1>2, <2>1 DEF RestsOn, HasSession
<1>6. ProvenRow(answer) /\ EarnedRow(answer)
  BY <1>1, AnswerEarned
<1> HIDE DEF sk, answer
<1>7. /\ singleton \in [Account \cup {None} -> 0..MaxLogin]
      /\ newest \in [Account \cup {None} -> 0..MaxLogin]
      /\ token \in [Client -> TokenUser]
  BY DEF KInv, StoreInv, HeldInv
<1>8. NewestSessionWins'
  <2> SUFFICES ASSUME NEW a \in Account \cup {None} PROVE singleton'[a] \in {0, newest'[a]}
    BY DEF NewestSessionWins
  <2>1. singleton[a] \in {0, newest[a]}
    BY DEF OInv, NewestSessionWins
  <2>2. CASE a # answer.bid
    BY <1>1, <1>7, <2>1, <2>2
  <2>3. CASE a = answer.bid
    BY <1>1, <1>4, <1>5, <1>7, <2>3
  <2> QED
    BY <2>2, <2>3
<1>9. TokensEarned'
  <2> SUFFICES ASSUME NEW p \in Client PROVE ProvenRow(token[p])' /\ EarnedRow(token[p])'
    BY DEF TokensEarned
  <2>1. token'[p] = answer \/ token'[p] = token[p]
    BY <1>1, <1>7
  <2> QED
    BY <1>1, <1>6, <2>1 DEF OInv, TokensEarned, ProvenRow, EarnedRow, Verified
<1>10. TableEarned'
  BY <1>1 DEF OInv, TableEarned, ProvenRow, EarnedRow, Verified, db
<1>11. RestInv'
  BY <1>1, RestProceeds DEF OInv, db
<1> QED
  BY <1>8, <1>9, <1>10, <1>11 DEF OInv

LEMMA OSign ==
  ASSUME OneAtATime, AInv, KInv, OInv, NEW r \in Req, Sign(r)
  PROVE  OInv'
<1> DEFINE answer == Answer(r, 0)
<1>1. /\ At(r, "sign") /\ Proceed(r)
      /\ token' = [token EXCEPT ![req[r].client] = answer]
      /\ UNCHANGED <<db, redis, logins, ghost, faults>>
  BY DEF Sign
<1>2. ProvenRow(answer) /\ EarnedRow(answer)
  BY <1>1, AnswerEarned
<1> HIDE DEF answer
<1>3. TokensEarned'
  <2> SUFFICES ASSUME NEW p \in Client PROVE ProvenRow(token[p])' /\ EarnedRow(token[p])'
    BY DEF TokensEarned
  <2>1. token'[p] = answer \/ token'[p] = token[p]
    BY <1>1 DEF KInv, HeldInv
  <2> QED
    BY <1>1, <1>2, <2>1 DEF OInv, TokensEarned, ProvenRow, EarnedRow, Verified, ghost
<1>4. TableEarned' /\ NewestSessionWins'
  BY <1>1 DEF OInv, TableEarned, NewestSessionWins, ProvenRow, EarnedRow, Verified, db, redis, ghost
<1>5. RestInv'
  BY <1>1, RestProceeds DEF OInv, db, ghost
<1> QED
  BY <1>3, <1>4, <1>5 DEF OInv

LEMMA OEnded ==
  ASSUME OneAtATime, AInv, KInv, OInv, NEW r \in Req, Refuse(r) \/ RequestFails(r)
  PROVE  OInv'
<1>1. req' = [req EXCEPT ![r] = Idle] /\ UNCHANGED <<db, redis, token, logins, ghost>>
  BY DEF Refuse, RequestFails
<1>2. \A s \in Req : req'[s] = Idle
  BY <1>1 DEF OneAtATime, AInv, ReqInv
<1>3. TableEarned' /\ TokensEarned'
  BY <1>1, EarnedStays DEF db, ghost
<1> QED
  BY <1>1, <1>2, <1>3 DEF OInv, RestInv, NewestSessionWins, redis, ghost

LEMMA OAlone ==
  ASSUME OneAtATime, AInv, KInv, OInv,
         \/ \E p \in Client : SignOut(p)
         \/ CodeExpires
         \/ \E a \in Account \cup {None} : SessionExpires(a)
         \/ UNCHANGED vars
  PROVE  OInv'
<1>1. UNCHANGED <<db, req, ghost>>
  BY DEF SignOut, CodeExpires, SessionExpires, vars
<1>2. RestInv'
  BY <1>1, RestStays DEF OInv, db, ghost
<1>3. TableEarned'
  BY <1>1 DEF OInv, TableEarned, ProvenRow, EarnedRow, Verified, db, ghost
<1>4. ProvenRow(NoToken) /\ EarnedRow(NoToken)
  BY DEF ProvenRow, EarnedRow, Verified, NoToken, NoRow, Factor
<1>5. \A p \in Client : token'[p] = token[p] \/ token'[p] = NoToken
  BY DEF SignOut, CodeExpires, SessionExpires, vars, KInv, HeldInv
<1>6. TokensEarned'
  BY <1>1, <1>4, <1>5 DEF OInv, TokensEarned, ProvenRow, EarnedRow, Verified, ghost
<1>7. \A a \in Account \cup {None} : singleton'[a] = singleton[a] \/ singleton'[a] = 0
  BY DEF SignOut, CodeExpires, SessionExpires, vars, redis, KInv, StoreInv
<1>8. NewestSessionWins'
  BY <1>1, <1>7 DEF OInv, NewestSessionWins, ghost
<1> QED
  BY <1>2, <1>3, <1>6, <1>8 DEF OInv

LEMMA OTime ==
  ASSUME OneAtATime, AInv, KInv, OInv, TimePasses
  PROVE  OInv'
<1>1. user \in [Account -> Row] /\ token \in [Client -> TokenUser] /\ exists \subseteq Account
  BY DEF AInv, TableInv, KInv, RowInv, HeldInv
<1>2. UNCHANGED <<exists, singleton, req, proven, newest>>
  BY DEF TimePasses
<1>3. Kind \subseteq Factor
  BY DEF Factor
<1>4. TableEarned'
  <2> SUFFICES ASSUME NEW a \in exists PROVE ProvenRow(user[a])' /\ EarnedRow(user[a])'
    BY <1>2 DEF TableEarned
  <2>1. /\ user'[a].contact = user[a].contact
        /\ \A f \in Factor : /\ user'[a].last[f] # "recent"
                             /\ Verified(user'[a], f) <=> Verified(user[a], f)
    BY <1>1, AgedCopies
  <2> QED
    BY <1>2, <1>3, <2>1 DEF OInv, TableEarned, ProvenRow, EarnedRow
<1>5. TokensEarned'
  <2> SUFFICES ASSUME NEW p \in Client PROVE ProvenRow(token[p])' /\ EarnedRow(token[p])'
    BY DEF TokensEarned
  <2>1. /\ token'[p].contact = token[p].contact
        /\ \A f \in Factor : /\ token'[p].last[f] # "recent"
                             /\ Verified(token'[p], f) <=> Verified(token[p], f)
    BY <1>1, AgedCopies
  <2> QED
    BY <1>2, <1>3, <2>1 DEF OInv, TokensEarned, ProvenRow, EarnedRow
<1>6. \A r \in Req : req[r] = Idle
  BY IdleIsIdle DEF TimePasses, AInv, ReqInv
<1>7. RestInv'
  BY <1>2, <1>6 DEF RestInv
<1> QED
  BY <1>2, <1>4, <1>5, <1>7 DEF OInv, NewestSessionWins

LEMMA InitOInv == Init => OInv
<1> SUFFICES ASSUME Init PROVE OInv
  OBVIOUS
<1>1. TokensEarned
  BY DEF Init, TokensEarned, ProvenRow, EarnedRow, Verified, NoToken, NoRow, Factor
<1> QED
  BY <1>1 DEF Init, OInv, TableEarned, NewestSessionWins, RestInv

LEMMA NextOInv ==
  ASSUME OneAtATime
  PROVE  AInv /\ KInv /\ OInv /\ [Next]_vars => OInv'
<1> SUFFICES ASSUME AInv, KInv, OInv, [Next]_vars PROVE OInv'
  OBVIOUS
<1>1. ASSUME NEW r \in Req, NEW p \in Client, NEW h \in Handler, NEW c \in Inputs(h),
             Begin(r, p, h, c)
      PROVE OInv'
  BY <1>1, OBegin
<1>2. ASSUME NEW r \in Req, Step(r) PROVE OInv'
  <2>1. CASE Test(r) \/ Match(r) \/ Drop(r) \/ Send(r) \/ StoreGa(r)
    BY <2>1, OQuiet
  <2>2. CASE Load(r) \/ Find(r)
    BY <2>2, ORead
  <2>3. CASE Write(r)
    BY <2>3, OWrite
  <2>4. CASE Bind(r)
    BY <2>4, OBind
  <2>5. CASE Create(r)
    BY <2>5, OCreate
  <2>6. CASE Reply(r)
    BY <2>6, OReply
  <2>7. CASE Sign(r)
    BY <2>7, OSign
  <2>8. CASE Refuse(r) \/ RequestFails(r)
    BY <2>8, OEnded
  <2> QED
    BY <1>2, <2>1, <2>2, <2>3, <2>4, <2>5, <2>6, <2>7, <2>8 DEF Step
<1>3. CASE \/ \E p \in Client : SignOut(p)
           \/ CodeExpires
           \/ \E a \in Account \cup {None} : SessionExpires(a)
           \/ UNCHANGED vars
  BY <1>3, OAlone
<1>4. CASE TimePasses
  BY <1>4, OTime
<1> QED
  BY <1>1, <1>2, <1>3, <1>4 DEF Next

LEMMA SpecOInv ==
  ASSUME OneAtATime
  PROVE  Spec => [](AInv /\ KInv /\ OInv)
BY InitAInv, NextAInv, InitKInv, NextKInv, InitOInv, NextOInv, PTL DEF Spec

(* With one request at a time, a contact counts as verified only if its    *)
(* code was entered, through any sequence of handlers that compare codes   *)
(* before they write times (user.ctrl.go:511-613, 775-1090).               *)
THEOREM VerifiedContactsAreProven ==
  ASSUME OneAtATime
  PROVE  Spec => []ProvenContacts
<1>1. OInv => ProvenContacts
  BY DEF OInv, TableEarned, ProvenRow, ProvenContacts
<1> QED
  BY <1>1, SpecOInv, PTL

(* With one request at a time, no older login puts its session back        *)
(* (common.go:60-70, 541-571).                                             *)
THEOREM LatestLoginHasSession ==
  ASSUME OneAtATime
  PROVE  Spec => []NewestSessionWins
<1>1. OInv => NewestSessionWins
  BY DEF OInv
<1> QED
  BY <1>1, SpecOInv, PTL

(* What a request's step can change. *)
LEMMA StepFrame ==
  ASSUME NEW r \in Req, Step(r)
  PROVE  /\ UNCHANGED <<exists, user>> \/ Write(r) \/ Create(r)
         /\ UNCHANGED token \/ Reply(r) \/ Sign(r)
         /\ entered \subseteq entered'
<1>1. CASE Test(r) \/ Drop(r) \/ StoreGa(r) \/ Refuse(r) \/ RequestFails(r)
  BY <1>1 DEF Test, Drop, StoreGa, Refuse, RequestFails, db, ghost
<1>2. CASE Load(r) \/ Find(r) \/ Match(r)
  BY <1>2 DEF Load, Find, Match, db, ghost
<1>3. CASE Send(r)
  BY <1>3 DEF Send, db, ghost
<1>4. CASE Bind(r)
  BY <1>4 DEF Bind, ghost
<1>5. CASE Write(r) \/ Create(r)
  BY <1>5 DEF Write, Create, ghost
<1>6. CASE Reply(r) \/ Sign(r)
  BY <1>6 DEF Reply, Sign, db, ghost
<1> QED
  BY <1>1, <1>2, <1>3, <1>4, <1>5, <1>6 DEF Step

(* What writes to the table. *)
LEMMA TableSteps ==
  ASSUME [Next]_vars
  PROVE  \/ UNCHANGED <<exists, user>>
         \/ TimePasses
         \/ \E r \in Req : Write(r) \/ Create(r)
<1>1. ASSUME NEW r \in Req, NEW p \in Client, NEW h \in Handler, NEW c \in Inputs(h),
             Begin(r, p, h, c)
      PROVE  UNCHANGED <<exists, user>>
  BY <1>1 DEF Begin, db
<1>2. ASSUME NEW r \in Req, Step(r)
      PROVE  UNCHANGED <<exists, user>> \/ Write(r) \/ Create(r)
  BY <1>2, StepFrame
<1>3. CASE \/ \E p \in Client : SignOut(p)
           \/ CodeExpires
           \/ \E a \in Account \cup {None} : SessionExpires(a)
           \/ UNCHANGED vars
  BY <1>3 DEF SignOut, CodeExpires, SessionExpires, vars, db
<1> QED
  BY <1>1, <1>2, <1>3 DEF Next

LEMMA StaysVerified ==
  ASSUME OneAtATime, AInv, KInv, OInv, [Next]_vars, NEW a \in exists, NEW k \in Kind,
         Verified(user[a], k)
  PROVE  Verified(user'[a], k)
<1>1. user \in [Account -> Row] /\ token \in [Client -> TokenUser] /\ a \in Account
      /\ k \in Factor /\ k # "ga"
  BY DEF AInv, TableInv, KInv, RowInv, HeldInv, Factor, Kind
<1>2. CASE UNCHANGED <<exists, user>>
  BY <1>2
<1>3. CASE TimePasses
  BY <1>1, <1>3, AgedCopies
<1>4. ASSUME NEW r \in Req, Write(r) PROVE Verified(user'[a], k)
  <2> DEFINE h == req[r].h
             b == req[r].bid
             u == user[b]
             w == Written(h, u, u, req[r].input)
  <2>1. user' = [user EXCEPT ![b] = w] /\ Columns(h, u, u, req[r].input, w) /\ b \in exists
        /\ h.writes \in {"contact", "both", "time", "times", "password", "nick", "firm",
                         "bindGa", "unbindGa"}
    BY <1>4, WriteRests
  <2> HIDE DEF w
  <2>2. CASE b # a
    BY <1>1, <2>1, <2>2
  <2>3. CASE b = a
    <3>1. user'[a] = w
      BY <1>1, <2>1, <2>3
    <3>2. w.last[k] # "never"
      <4>1. CASE h.writes \in {"contact", "password", "nick", "firm"}
        BY <2>1, <2>3, <4>1 DEF Columns, Verified
      <4>2. CASE h.writes \in {"both", "time"}
        BY <1>1, <2>1, <2>3, <4>2 DEF Columns, Verified
      <4>3. CASE h.writes \in {"times", "bindGa", "unbindGa"}
        BY <2>1, <2>3, <4>3 DEF Columns
      <4> QED
        BY <2>1, <4>1, <4>2, <4>3
    <3> QED
      BY <3>1, <3>2 DEF Verified
  <2> QED
    BY <2>2, <2>3
<1>5. ASSUME NEW r \in Req, Create(r) PROVE Verified(user'[a], k)
  <2>1. req[r].bid \notin exists /\ user' = [user EXCEPT ![req[r].bid] = req[r].user]
    BY <1>5, CreateRests
  <2> QED
    BY <1>1, <2>1
<1> QED
  BY <1>2, <1>3, <1>4, <1>5, TableSteps

(* With one request at a time, no request takes back that a contact was    *)
(* verified, although three handlers write the times of all factors        *)
(* (user.ctrl.go:94-153, 1105-1164; pub.ctrl.go:481-545).                  *)
THEOREM VerifiedContactsStay ==
  ASSUME OneAtATime
  PROVE  Spec => ContactsStayVerified
<1>1. AInv /\ KInv /\ OInv /\ [Next]_vars =>
        [\A a \in exists, k \in Kind : Verified(user[a], k) => Verified(user'[a], k)]_vars
  BY StaysVerified
<1> QED
  BY <1>1, SpecOInv, PTL DEF Spec, ContactsStayVerified

LEMMA NewContactIsFree ==
  ASSUME OneAtATime, AInv, KInv, OInv, [Next]_vars, NEW a \in Account, NEW k \in Kind,
         user'[a].contact[k] \notin {None, user[a].contact[k]}
  PROVE  Registered(k, user'[a].contact[k]) \subseteq {a}
<1> DEFINE c == user'[a].contact[k]
<1>1. user \in [Account -> Row] /\ token \in [Client -> TokenUser] /\ exists \subseteq Account
  BY DEF AInv, TableInv, KInv, RowInv, HeldInv
<1>2. CASE UNCHANGED <<exists, user>>
  BY <1>2
<1>3. CASE TimePasses
  BY <1>1, <1>3, AgedCopies
<1>4. ASSUME NEW r \in Req, Write(r) PROVE Registered(k, c) \subseteq {a}
  <2> DEFINE h == req[r].h
             b == req[r].bid
             u == user[b]
             w == Written(h, u, u, req[r].input)
  <2>1. /\ user' = [user EXCEPT ![b] = w] /\ Columns(h, u, u, req[r].input, w) /\ b \in exists
        /\ h.writes \in {"contact", "both"} =>
             h.kind \in Kind /\ Registered(h.kind, req[r].input) = {}
    BY <1>4, WriteRests
  <2> HIDE DEF w
  <2>2. b = a /\ user'[a] = w
    BY <1>1, <2>1
  <2>3. h.writes \in {"contact", "both"} /\ k = h.kind /\ c = req[r].input
    BY <2>1, <2>2 DEF Columns
  <2> QED
    BY <2>1, <2>3
<1>5. ASSUME NEW r \in Req, Create(r) PROVE Registered(k, c) \subseteq {a}
  <2>1. /\ req[r].bid \in Account /\ user' = [user EXCEPT ![req[r].bid] = req[r].user]
        /\ \A l \in Kind : req[r].user.contact[l] # None =>
             Registered(l, req[r].user.contact[l]) = {}
    BY <1>5, CreateRests
  <2>2. req[r].bid = a /\ c = req[r].user.contact[k]
    BY <1>1, <2>1
  <2> QED
    BY <2>1, <2>2
<1> QED
  BY <1>2, <1>3, <1>4, <1>5, TableSteps

(* With one request at a time, no account is given a contact that another  *)
(* has verified: the test at the head of each handler covers the contact   *)
(* it writes (common.go:430-464).                                          *)
THEOREM NoContactIsTaken ==
  ASSUME OneAtATime
  PROVE  Spec => NoContactTaken
<1>1. AInv /\ KInv /\ OInv /\ [Next]_vars =>
        [\A a \in Account, k \in Kind :
           LET c == user'[a].contact[k] IN
             c \notin {None, user[a].contact[k]} => Registered(k, c) \subseteq {a}]_vars
  BY NewContactIsFree
<1> QED
  BY <1>1, SpecOInv, PTL DEF Spec, NoContactTaken

-----------------------------------------------------------------------------
(* Google-authenticator, for clients that sign up as visitors.  The times  *)
(* of a token go into the row that SignUp creates, which has no secret: so *)
(* a visitor's token must not have a time for it.                          *)

GaRow(a) ==
  /\ user[a].last["ga"] = "recent" => a \in entered
  /\ Verified(user[a], "ga") <=> user[a].ga

GaToken(t) ==
  /\ t.last["ga"] = "recent" => t.bid \in entered
  /\ t.bid = None => t.last["ga"] = "never"

GInv ==
  /\ \A a \in exists : GaRow(a)
  /\ \A p \in Client : GaToken(token[p])
  /\ \A r \in Req : req[r] # Idle => GaToken(req[r].token)

(* A request keeps the token it came with. *)
LEMMA TokenIsKept ==
  ASSUME AInv, NEW r \in Req, Step(r)
  PROVE  /\ \A s \in Req : s # r => req'[s] = req[s]
         /\ req[r] # Idle
         /\ req'[r] = Idle \/ req'[r].token = req[r].token
<1>1. /\ req[r].busy
      /\ \/ req' = [req EXCEPT ![r] = Idle]
         \/ \E b, u : Advance(r, b, u)
  <2>1. CASE Test(r) \/ Match(r) \/ Drop(r) \/ StoreGa(r) \/ Create(r) \/ Reply(r) \/ Sign(r)
    BY <2>1 DEF Test, Match, Drop, StoreGa, Create, Reply, Sign, Proceed, At
  <2>2. CASE Send(r)
    <3>1. At(r, "send") \/ At(r, "other")
      BY <2>2, Zenon DEF Send
    <3> QED
      BY <2>2, <3>1 DEF Send, Proceed, At
  <2>3. CASE Load(r) \/ Find(r) \/ Bind(r)
    BY <2>3 DEF Load, Find, Bind, At
  <2>4. CASE Write(r)
    BY <2>4 DEF Write, At
  <2>5. CASE Refuse(r) \/ RequestFails(r)
    BY <2>5 DEF Refuse, RequestFails
  <2> QED
    BY <2>1, <2>2, <2>3, <2>4, <2>5 DEF Step
<1>2. req[r] \in Request /\ req[r] # Idle
  BY <1>1, BusyInFlight, IdleIsIdle DEF AInv, InFlight
<1>3. CASE req' = [req EXCEPT ![r] = Idle]
  BY <1>2, <1>3 DEF AInv, ReqInv
<1>4. ASSUME NEW b, NEW u, Advance(r, b, u)
      PROVE  /\ \A s \in Req : s # r => req'[s] = req[s]
             /\ req'[r] = Idle \/ req'[r].token = req[r].token
  <2> DEFINE q1 == [req[r] EXCEPT !.bid = b, !.user = u, !.todo = Tail(req[r].todo)]
             q2 == IF Len(req[r].todo) = 1 THEN Idle ELSE q1
  <2>1. q1.token = req[r].token
    BY <1>2 DEF Request
  <2>2. q2 = Idle \/ q2 = q1
    OBVIOUS
  <2>3. req' = [req EXCEPT ![r] = q2]
    BY <1>4 DEF Advance
  <2> HIDE DEF q1, q2
  <2> QED
    BY <2>1, <2>2, <2>3 DEF AInv, ReqInv
<1> QED
  BY <1>1, <1>2, <1>3, <1>4

LEMMA AnswerGa ==
  ASSUME OneAtATime, AInv, KInv, OInv, GInv, NEW r \in Req, NEW step \in {"reply", "sign"},
         At(r, step), NEW sk
  PROVE  GaToken(Answer(r, sk))
<1> DEFINE h == req[r].h
<1>1. PICK i \in 1..Len(h.steps) : h.steps[i] = step /\ RestsOn(r, i)
  BY RestsAt DEF OInv
<1>2. ChecksInOrder(h)
  BY RestsAt DEF OInv
<1>3. CASE h.sk = "fresh"
  <2> DEFINE contact == [NoRow.contact EXCEPT ![h.kind] = req[r].input]
             last    == [NoRow.last EXCEPT ![h.kind] = "recent"]
  <2>1. h.kind \in Kind
    BY <1>1, <1>2, <1>3 DEF ChecksInOrder, TakesContact
  <2>2. Answer(r, sk) = [bid |-> None, contact |-> contact, last |-> last, sk |-> sk]
    BY <1>3 DEF Answer, Visitor
  <2>3. last["ga"] = "never"
    BY <2>1 DEF NoRow, Factor, Kind
  <2> HIDE DEF contact, last
  <2> QED
    BY <2>2, <2>3 DEF GaToken
<1>4. CASE h.sk = "same"
  <2>1. req[r] # Idle
    BY BusyInFlight, IdleIsIdle DEF AInv, At
  <2> QED
    BY <1>4, <2>1 DEF Answer, GInv
<1>5. CASE h.sk \notin {"fresh", "same"}
  <2>1. req[r].bid \in exists /\ req[r].user = user[req[r].bid]
    BY <1>1, <1>2, <1>5 DEF ChecksInOrder, RestsOn, HasRow
  <2>2. GaRow(req[r].bid) /\ req[r].bid # None
    BY <2>1, ConstantAssumption DEF GInv, AInv, TableInv
  <2>3. Answer(r, sk) = [bid |-> req[r].bid, contact |-> req[r].user.contact,
                         last |-> req[r].user.last, sk |-> sk]
    BY <1>5 DEF Answer
  <2> QED
    BY <2>1, <2>2, <2>3 DEF GaToken, GaRow
<1> QED
  BY <1>3, <1>4, <1>5

LEMMA GTable ==
  ASSUME OneAtATime, AInv, KInv, OInv, GInv, VisitorsSignUp, NEW r \in Req,
         Write(r) \/ Create(r)
  PROVE  \A a \in exists' : GaRow(a)'
<1>1. user \in [Account -> Row] /\ exists \subseteq Account /\ UNCHANGED entered
  BY DEF AInv, TableInv, KInv, RowInv, Write, Create, ghost
<1>2. CASE Write(r)
  <2> DEFINE h == req[r].h
             b == req[r].bid
             u == user[b]
             w == Written(h, u, u, req[r].input)
  <2>1. /\ user' = [user EXCEPT ![b] = w] /\ Columns(h, u, u, req[r].input, w) /\ b \in exists
        /\ h.writes \in {"contact", "both", "time", "times", "password", "nick", "firm",
                         "bindGa", "unbindGa"}
        /\ h.writes \in {"contact", "both"} => h.kind \in Kind /\ Registered(h.kind, req[r].input) = {}
        /\ h.writes = "time" =>
             \/ h.kind = "ga" /\ b \in entered /\ user[b].ga
             \/ h.kind \in Kind /\ user[b].contact[h.kind] \in proven \cap entered
        /\ h.writes = "times" /\ Verified(user[b], "ga") => b \in entered
        /\ h.writes = "bindGa" => b \in entered
    BY <1>2, WriteRests
  <2>2. exists' = exists
    BY <1>2 DEF Write
  <2> HIDE DEF w
  <2>3. GaRow(b) /\ u \in Row
    BY <1>1, <2>1 DEF GInv
  <2>4. /\ w.last["ga"] = "recent" => b \in entered
        /\ Verified(w, "ga") <=> w.ga
    <3>1. CASE h.writes \in {"contact", "password", "nick", "firm"}
      BY <2>1, <2>3, <3>1 DEF Columns, GaRow, Verified
    <3>2. CASE h.writes \in {"both", "time"}
      <4>1. w.ga = u.ga /\ w.last["ga"] = IF h.kind = "ga" THEN "recent" ELSE u.last["ga"]
        BY <2>1, <3>2 DEF Columns, Factor
      <4>2. h.kind = "ga" => b \in entered /\ u.ga
        BY <2>1, <3>2 DEF Kind
      <4> QED
        BY <2>3, <4>1, <4>2 DEF GaRow, Verified
    <3>3. CASE h.writes = "times"
      <4>1. w.ga = u.ga /\ w.last["ga"] = IF Verified(u, "ga") THEN "recent" ELSE "never"
        BY <2>1, <3>3 DEF Columns
      <4> QED
        BY <2>1, <2>3, <3>3, <4>1 DEF GaRow, Verified
    <3>4. CASE h.writes \in {"bindGa", "unbindGa"}
      BY <2>1, <3>4 DEF Columns, Verified
    <3> QED
      BY <2>1, <3>1, <3>2, <3>3, <3>4
  <2> QED
    BY <1>1, <2>1, <2>2, <2>4 DEF GInv, GaRow, Verified
<1>3. CASE Create(r)
  <2> DEFINE b == req[r].bid
             u == req[r].user
  <2>1. /\ b \in Account /\ b \notin exists
        /\ exists' = exists \cup {b} /\ user' = [user EXCEPT ![b] = u]
        /\ u.last = req[r].token.last /\ u.ga = FALSE
    BY <1>3, CreateRests
  <2>2. At(r, "create")
    BY <1>3 DEF Create
  <2>3. GaToken(req[r].token) /\ req[r].token.bid = None
    BY <2>2, BusyInFlight, IdleIsIdle DEF VisitorsSignUp, AInv, At, GInv
  <2> QED
    BY <1>1, <2>1, <2>3 DEF GInv, GaRow, GaToken, Verified
<1> QED
  BY <1>2, <1>3

LEMMA NextGInv ==
  ASSUME OneAtATime
  PROVE  AInv /\ KInv /\ OInv /\ GInv /\ VisitorsSignUp /\ [Next]_vars => GInv'
<1> SUFFICES ASSUME AInv, KInv, OInv, GInv, VisitorsSignUp, [Next]_vars PROVE GInv'
  OBVIOUS
<1>1. user \in [Account -> Row] /\ token \in [Client -> TokenUser] /\ exists \subseteq Account
  BY DEF AInv, TableInv, KInv, RowInv, HeldInv
<1>2. ASSUME NEW r \in Req, NEW p \in Client, NEW h \in Handler, NEW c \in Inputs(h),
             Begin(r, p, h, c)
      PROVE GInv'
  <2> DEFINE q == [busy |-> TRUE, client |-> p, h |-> h, token |-> token[p],
                   input |-> IF Normalises(h) THEN Plain(c) ELSE c,
                   bid |-> IF h.kind = "operator" THEN c ELSE token[p].bid,
                   user |-> NoRow, todo |-> h.steps]
  <2>1. req' = [req EXCEPT ![r] = q] /\ UNCHANGED <<db, redis, token, logins, ghost, faults>>
    BY <1>2 DEF Begin
  <2>2. q.token = token[p]
    OBVIOUS
  <2> HIDE DEF q
  <2>3. \A s \in Req : req'[s] = req[s] \/ req'[s].token = token[p]
    BY <2>1, <2>2 DEF AInv, ReqInv
  <2> QED
    BY <2>1, <2>3 DEF GInv, GaRow, GaToken, Verified, db, ghost
<1>3. ASSUME NEW r \in Req, Step(r) PROVE GInv'
  <2>1. \A s \in Req : req'[s] # Idle => req[s] # Idle /\ req'[s].token = req[s].token
    BY <1>3, TokenIsKept
  <2>2. entered \subseteq entered'
    BY <1>3, StepFrame
  <2>3. \A s \in Req : req'[s] # Idle => GaToken(req[s].token)'
    BY <2>1, <2>2 DEF GInv, GaToken
  <2>4. \A a \in exists' : GaRow(a)'
    <3>1. CASE Write(r) \/ Create(r)
      BY <3>1, GTable
    <3>2. CASE ~(Write(r) \/ Create(r))
      <4>1. UNCHANGED <<exists, user>>
        BY <1>3, <3>2, StepFrame
      <4> QED
        BY <2>2, <4>1 DEF GInv, GaRow, Verified
    <3> QED
      BY <3>1, <3>2
  <2>5. \A p \in Client : GaToken(token[p])'
    <3> SUFFICES ASSUME NEW p \in Client PROVE GaToken(token[p])'
      OBVIOUS
    <3>1. ASSUME NEW step \in {"reply", "sign"}, At(r, step), NEW sk,
                 token' = [token EXCEPT ![req[r].client] = Answer(r, sk)]
          PROVE  GaToken(token[p])'
      <4>1. GaToken(Answer(r, sk))
        BY <3>1, AnswerGa
      <4> DEFINE answer == Answer(r, sk)
      <4> HIDE DEF answer
      <4>2. token'[p] = answer \/ token'[p] = token[p]
        BY <1>1, <3>1 DEF answer
      <4>3. GaToken(answer) /\ GaToken(token[p])
        BY <4>1 DEF answer, GInv
      <4> QED
        BY <2>2, <4>2, <4>3 DEF GaToken
    <3>2. CASE Reply(r)
      <4>1. \E sk : token' = [token EXCEPT ![req[r].client] = Answer(r, sk)]
        BY <3>2 DEF Reply
      <4> QED
        BY <3>1, <3>2, <4>1 DEF Reply
    <3>3. CASE Sign(r)
      BY <3>1, <3>3 DEF Sign
    <3>4. CASE ~(Reply(r) \/ Sign(r))
      <4>1. UNCHANGED token
        BY <1>3, <3>4, StepFrame
      <4> QED
        BY <2>2, <4>1 DEF GInv, GaToken
    <3> QED
      BY <3>2, <3>3, <3>4
  <2> QED
    BY <2>3, <2>4, <2>5 DEF GInv
<1>4. CASE \/ \E p \in Client : SignOut(p)
           \/ CodeExpires
           \/ \E a \in Account \cup {None} : SessionExpires(a)
           \/ UNCHANGED vars
  <2>1. UNCHANGED <<db, req, ghost>>
    BY <1>4 DEF SignOut, CodeExpires, SessionExpires, vars
  <2>2. \A p \in Client : token'[p] = token[p] \/ token'[p] = NoToken
    BY <1>1, <1>4 DEF SignOut, CodeExpires, SessionExpires, vars
  <2>3. NoToken.last["ga"] = "never"
    BY DEF NoToken, NoRow, Factor
  <2> QED
    BY <2>1, <2>2, <2>3 DEF GInv, GaRow, GaToken, Verified, db, ghost
<1>5. CASE TimePasses
  <2>1. UNCHANGED <<exists, req>> /\ \A r \in Req : req[r] = Idle
    BY <1>5, IdleIsIdle DEF TimePasses, AInv, ReqInv
  <2>2. "ga" \in Factor
    BY DEF Factor
  <2>3. \A a \in exists : GaRow(a)'
    BY <1>1, <1>5, <2>2, AgedCopies DEF GInv, GaRow
  <2>4. \A p \in Client : GaToken(token[p])'
    BY <1>1, <1>5, <2>2, AgedCopies DEF GInv, GaToken, Verified
  <2> QED
    BY <2>1, <2>3, <2>4 DEF GInv
<1> QED
  BY <1>2, <1>3, <1>4, <1>5 DEF Next

LEMMA InitGInv == Init => GInv
BY DEF Init, GInv, GaToken, NoToken, NoRow, Factor

LEMMA SpecGInv ==
  ASSUME OneAtATime
  PROVE  Spec /\ []VisitorsSignUp => [](AInv /\ KInv /\ OInv /\ GInv)
<1>1. Spec => [](AInv /\ KInv /\ OInv)
  BY SpecOInv
<1>2. AInv /\ KInv /\ OInv /\ GInv /\ VisitorsSignUp /\ [Next]_vars => GInv'
  BY NextGInv
<1> QED
  BY <1>1, <1>2, InitGInv, PTL DEF Spec

(* With one request at a time, and clients that sign up as visitors, an    *)
(* account asks for google-authenticator codes exactly when it has the     *)
(* secret to check them with (user.ctrl.go:94-153, 1105-1164).             *)
THEOREM GaStaysUsable ==
  ASSUME OneAtATime
  PROVE  Spec /\ []VisitorsSignUp => []GaIsUsable
<1>1. GInv => GaIsUsable
  BY DEF GInv, GaRow, GaIsUsable
<1> QED
  BY <1>1, SpecGInv, PTL

(* With one request at a time, and clients that sign up as visitors, what  *)
(* a row or a token shows as verified in the last five minutes was         *)
(* (common.go:160-284; pub.ctrl.go:481-545; user.ctrl.go:94-153, 775-1164).*)
THEOREM TimesAreEarned ==
  ASSUME OneAtATime
  PROVE  Spec /\ []VisitorsSignUp => []EarnedTimes
<1>1. OInv /\ GInv => EarnedTimes
  BY DEF OInv, TableEarned, TokensEarned, EarnedRow, GInv, GaRow, GaToken, EarnedTimes
<1> QED
  BY <1>1, SpecGInv, PTL

(* With one request at a time, and clients that sign up as visitors, a     *)
(* password is replaced only when the code of every verified factor was    *)
(* entered in the five minutes before (user.ctrl.go:1203-1247).            *)
THEOREM PasswordsNeedFactors ==
  ASSUME OneAtATime
  PROVE  Spec /\ []VisitorsSignUp => []PasswordNeedsFactors
<1>1. AInv /\ KInv /\ OInv /\ GInv => PasswordNeedsFactors
  <2> SUFFICES ASSUME AInv, KInv, OInv, GInv, NEW r \in Req, At(r, "write"),
                      req[r].h.writes = "password"
               PROVE  LET a == req[r].bid IN
                        /\ \A k \in Kind : Verified(user[a], k) => user[a].contact[k] \in entered
                        /\ Verified(user[a], "ga") => a \in entered
    BY DEF PasswordNeedsFactors
  <2> DEFINE a == req[r].bid
             h == req[r].h
  <2>1. PICK i \in 1..Len(h.steps) : h.steps[i] = "write" /\ RestsOn(r, i)
    BY RestsAt DEF OInv
  <2>2. ChecksInOrder(h)
    BY RestsAt DEF OInv
  <2>3. Before(h, i, {"load"}) /\ h.admits = "reset" /\ ~Before(h, i, {"write"})
    BY <2>1, <2>2 DEF ChecksInOrder
  <2>4. a \in exists /\ Admits(h, user[a])
    BY <2>1, <2>3 DEF RestsOn, HasRow, Before
  <2>5. \A f \in Factor : user[a].last[f] # "old"
    BY <2>3, <2>4 DEF Admits, MayReset
  <2>6. user[a].last \in [Factor -> Time]
    BY <2>4 DEF AInv, TableInv, KInv, RowInv, Row
  <2>7. \A f \in Factor : Verified(user[a], f) => user[a].last[f] = "recent"
    BY <2>5, <2>6 DEF Verified, Time
  <2> QED
    BY <2>4, <2>7 DEF OInv, TableEarned, EarnedRow, GInv, GaRow, Factor
<1> QED
  BY <1>1, SpecGInv, PTL

=============================================================================
