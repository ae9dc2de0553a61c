-------------------------------- MODULE Kyc --------------------------------
(***************************************************************************)
(* An operator's requests to the account service (inner-kyc.ctrl.go).      *)
(* Each carries the time at which it was made, sealed with the service's   *)
(* key, and is served if that time is at most three seconds off.  The      *)
(* operator reads the list of users page by page (KycUserList), in the     *)
(* order of their ids, while users sign up; a page is a count and a query, *)
(* with nothing around them.                                               *)
(*                                                                         *)
(* The clock counts ticks, several of them a second, for the text of a     *)
(* time has whole seconds.  The operator's clock and the service's differ  *)
(* by a constant.                                                          *)
(***************************************************************************)
EXTENDS Ecies

CONSTANTS
  Curve,        \* the curve of the service's key
  SharedLen,    \* lengths of the shared x without its leading zeros
  PerSecond,    \* ticks of the clock in a second
  Skews,        \* by how much the service's clock may be ahead
  Limits,       \* page lengths that the operator asks for
  MaxClock,     \* bound on the time
  MaxRows       \* bound on the users

ASSUME KycAssumption ==
  /\ Curve \in {P256, P384, P521}
  /\ SharedLen \subseteq 0..MaxSharedKeyLength(Curve)
  /\ PerSecond \in Nat \ {0}
  /\ Skews \subseteq Int
  /\ Limits \subseteq Int
  /\ MaxClock \in Nat /\ MaxClock >= PerSecond
  /\ MaxRows \in Nat

Window == 3 * PerSecond

VARIABLES
  clock,     \* the operator's clock
  skew,      \* the service's clock less the operator's
  rows,      \* users in the table: ids 1..rows
  limit,     \* the page length the operator asks for
  page,      \* the page it asks for next
  request,   \* the request in flight
  seen,      \* ids in the pages it was given
  total,     \* the total in the last of them
  ended,     \* it has read the last page
  verdict    \* of the last request served: its delay, and whether it was let in

vars == <<clock, skew, rows, limit, page, request, seen, total, ended, verdict>>

NoRequest == [at |-> "none"]
NoVerdict == [delay |-> -1, ok |-> TRUE]

(* The text of a time: 29 characters, to the second. *)
TimeText(second) == Bytes(second, 29)

(* What comes out of the envelope of a time, for each x it may have been   *)
(* sealed with: the service opens it with the same.                        *)
Opened ==
  [x \in SharedLen |-> [s \in 0..MaxClock \div PerSecond |->
     Decrypt(Curve, x, Encrypt(Curve, x, TimeText(s)))]]

(* time.Parse of what Decrypt gives. *)
Parsed(m) == m \notin {Failed, Panic} /\ Len(m) = 29 /\ \A i \in 1..29 : m[i] = <<m[1][1], i>>

(* GetLimit. *)
GetLimit(asked) == IF asked < 10 \/ asked > 150 THEN 20 ELSE asked

(* GetFrom: the rows before the page. *)
GetFrom(p, asked) == ((IF p <= 0 THEN 1 ELSE p) - 1) * GetLimit(asked)

-----------------------------------------------------------------------------
TypeOK ==
  /\ clock \in 0..MaxClock
  /\ skew \in Skews
  /\ rows \in 0..MaxRows
  /\ limit \in Limits
  /\ page \in 1..MaxRows + 2
  /\ request.at \in {"none", "sent", "counted"}
  /\ \A i \in 1..Len(seen) : seen[i] \in 1..rows
  /\ total \in 0..MaxRows
  /\ ended \in BOOLEAN
  /\ verdict.ok \in BOOLEAN

Init ==
  /\ clock \in 0..PerSecond - 1
  /\ skew \in Skews
  /\ rows \in 0..MaxRows
  /\ limit \in Limits
  /\ page = 1
  /\ request = NoRequest
  /\ seen = <<>>
  /\ total = 0
  /\ ended = FALSE
  /\ verdict = NoVerdict

Tick ==
  /\ clock < MaxClock
  /\ clock' = clock + 1
  /\ UNCHANGED <<skew, rows, limit, page, request, seen, total, ended, verdict>>

(* SignUp (Accounts): a row with the next id. *)
SignUp ==
  /\ rows < MaxRows
  /\ rows' = rows + 1
  /\ UNCHANGED <<clock, skew, limit, page, request, seen, total, ended, verdict>>

(* The operator asks for its next page. *)
Ask ==
  /\ request = NoRequest
  /\ ~ended
  /\ \E x \in SharedLen :
       request' = [at |-> "sent", made |-> clock, verified |-> <<x, clock \div PerSecond>>]
  /\ UNCHANGED <<clock, skew, rows, limit, page, seen, total, ended, verdict>>

(* verify: three seconds at most on either side. *)
Timely(m) ==
  /\ Parsed(m)
  /\ clock + skew - m[1][1] * PerSecond \in -Window..Window

(* Validate does not let the request in. *)
Refuse ==
  /\ request.at = "sent"
  /\ ~Timely(Opened[request.verified[1]][request.verified[2]])
  /\ verdict' = [delay |-> clock - request.made, ok |-> FALSE]
  /\ request' = NoRequest
  /\ UNCHANGED <<clock, skew, rows, limit, page, seen, total, ended>>

(* ... or does, and the rows are counted. *)
Count ==
  /\ request.at = "sent"
  /\ Timely(Opened[request.verified[1]][request.verified[2]])
  /\ verdict' = [delay |-> clock - request.made, ok |-> TRUE]
  /\ request' = [at |-> "counted", total |-> rows]
  /\ UNCHANGED <<clock, skew, rows, limit, page, seen, total, ended>>

(* Mutant: the answer is padded to the page's length. *)
PageOfFull(from, n) == [i \in 1..n |-> from + i]

(* The ids that Offset(from) and Limit(n) leave of the table. *)
PageOf(from, n) ==
  [i \in 1..(IF rows <= from THEN 0 ELSE IF rows - from < n THEN rows - from ELSE n) |-> from + i]

(* Mutant: the answer repeats the limit that was asked for. *)
IsLastPageAsAsked == page * limit >= request.total

(* The answer's limit is the one that was used: the operator goes on until *)
(* the pages it has read hold the total.                                   *)
IsLastPage == page * GetLimit(limit) >= request.total

(* The page is read, and given to the operator with the total. *)
List ==
  /\ request.at = "counted"
  /\ seen' = seen \o PageOf(GetFrom(page, limit), GetLimit(limit))
  /\ ended' = IsLastPage
  /\ total' = request.total
  /\ page' = page + 1
  /\ request' = NoRequest
  /\ UNCHANGED <<clock, skew, rows, limit, verdict>>

(* The request or its answer is lost, or the database does not answer: the *)
(* operator will ask for the same page again.                              *)
Lose ==
  /\ request # NoRequest
  /\ request' = NoRequest
  /\ UNCHANGED <<clock, skew, rows, limit, page, seen, total, ended, verdict>>

Next == Tick \/ SignUp \/ Ask \/ Refuse \/ Count \/ List \/ Lose

Spec == Init /\ [][Next]_vars

-----------------------------------------------------------------------------
(* Properties. *)

(* Every request that arrives within two seconds is let in, and none that  *)
(* is more than three on the way, whatever part of a second the text of    *)
(* the time has dropped and whatever bytes the shared secret begins with;  *)
(* a clock that is behind is forgiven that part of a second more than one  *)
(* that is ahead (user.m.go:316-335, ecies.go:98-110, 137-160, 221-312).   *)
OnlyTimelyAreServed ==
  LET late == verdict.delay + skew IN
    /\ ~verdict.ok => late < -Window \/ late > 2 * PerSecond
    /\ verdict.ok /\ verdict # NoVerdict =>
         late > -Window - PerSecond /\ late <= Window

(* The pages give every user once, in order and without a gap, and the     *)
(* operator stops at the page with the last of the users that were         *)
(* counted: whatever length it has asked for, while users sign up between  *)
(* a page and the next and between its count and its query                 *)
(* (inner-kyc.ctrl.go:200-237, user.m.go:434-447).                         *)
ListIsWhole ==
  /\ seen = [i \in 1..Len(seen) |-> i]
  /\ ended => Len(seen) >= total

=============================================================================
