------------------------------ MODULE Collect ------------------------------
(***************************************************************************)
(* The collect service (services/collect.go): it turns the source rows of  *)
(* t_src_tx, tokens that arrived at users' addresses, into rows of         *)
(* t_transaction_task, and the part of the check service that follows a    *)
(* gas order up with a collect order (services/checkTx.go).                *)
(*                                                                         *)
(* A pass reads the Ready rows, merges those of one user and one token     *)
(* into the first of them, keeps the totals that reach the token's         *)
(* threshold, and then, for each, inserts an order and marks the row, in   *)
(* two transactions.  What happens to an order afterwards is module        *)
(* TxPipeline; here an order keeps what it was made from.                  *)
(*                                                                         *)
(* A token stands for a contract on a chain (f_addr, f_chain), a user for  *)
(* the address that received it (f_receiver).                              *)
(***************************************************************************)
EXTENDS Integers, Sequences, FiniteSets, SequencesExt

CONSTANTS
  SrcId,      \* row ids of t_src_tx
  User,       \* receiving addresses
  Token,      \* contracts, all of them listed in t_token
  Threshold,  \* t_token.f_threshold of each
  MaxCnt,     \* bound on the tokens of one source row
  MaxFaults   \* bound on failed calls and process exits

ASSUME CollectAssumption ==
  /\ IsFiniteSet(SrcId) /\ SrcId = 1..Cardinality(SrcId)
  /\ Threshold \in [Token -> Nat]
  /\ MaxCnt \in Nat \ {0}
  /\ MaxFaults \in Nat

(* types/enums.go; Absent is the state of an id not inserted yet.          *)
(* TxCollectedState is never given to a row.                               *)
Absent               == -1
TxReadyCollectState  == 0
TxCollectingState    == 1

GasTx     == 0
CollectTx == 1

(* Wei in units of 4*10^13: what a gas order pays the user (0x246139CA8000 *)
(* = 4*10^13), and the balance that spares the user a gas order            *)
(* (max_tx_fee = 4*10^14).                                                 *)
TopUp    == 1
MaxTxFee == 10

SrcRow == [user   : User,
           token  : Token,
           cnt    : Nat,      \* f_token_cnt
           origin : Nat,      \* f_token_cnt_origin
           state  : {TxReadyCollectState, TxCollectingState}]

(* A merged row in memory: the first row of its group, with the total.     *)
(* rows remembers which rows the total was made of; the code does not.     *)
Merged == [id : SrcId, user : User, token : Token, cnt : Nat, rows : SUBSET SrcId]

(* An order.  src is the row it was made from, rows the rows its amount    *)
(* was made of; paid: its transaction is on chain; ended: checked.         *)
Order == [type : {GasTx, CollectTx}, by : {"Collect", "Check"},
          user : User, token : Token, amount : Nat,
          src : SrcId, rows : SUBSET SrcId, paid : BOOLEAN, ended : BOOLEAN]

VARIABLES
  src,     \* t_src_tx
  orders,  \* what was inserted into t_transaction_task, in order
  funds,   \* each user's balance for gas, on chain
  pc,      \* where the collect service is: "idle", "query", "handle" or "mark"
  batch,   \* the merged rows it has still to handle, in memory
  check,   \* the gas order the check service follows up, 0 if none ...
  held,    \* ... and the source row it read for that, in memory
  lost,    \* rows whose order was not inserted and whose error was ignored
  faults   \* failed calls and process exits so far (only to bound them)

service == <<pc, batch>>
checker == <<check, held>>
vars    == <<src, orders, funds, service, checker, lost, faults>>

NoRow == [state |-> Absent]

TypeOK ==
  /\ src \in [SrcId -> SrcRow \cup {NoRow}]
  /\ orders \in Seq(Order)
  /\ funds \in [User -> Nat]
  /\ pc \in {"idle", "query", "handle", "mark"}
  /\ batch \in Seq(Merged)
  /\ check \in 0..Len(orders)
  /\ held \in SrcRow \cup {NoRow}
  /\ lost \subseteq SrcId
  /\ faults \in 0..MaxFaults

Init ==
  /\ src = [r \in SrcId |-> NoRow]
  /\ orders = <<>>
  /\ funds \in [User -> {0, MaxTxFee}]
  /\ pc = "idle"
  /\ batch = <<>>
  /\ check = 0
  /\ held = NoRow
  /\ lost = {}
  /\ faults = 0

Fault == faults < MaxFaults /\ faults' = faults + 1

-----------------------------------------------------------------------------
(* The world around the two services. *)

(* The crawler stores tokens that arrived, under the next id. *)
Crawl(r, u, k, c) ==
  /\ src[r].state = Absent
  /\ \A q \in SrcId : q < r => src[q].state # Absent
  /\ src' = [src EXCEPT ![r] = [user |-> u, token |-> k, cnt |-> c, origin |-> c,
                                state |-> TxReadyCollectState]]
  /\ UNCHANGED <<orders, funds, service, checker, lost, faults>>

(* An order's transaction is mined: gas reaches the user, or the user's    *)
(* transfer uses some.                                                     *)
OrderMined(i) ==
  /\ ~orders[i].paid
  /\ orders' = [orders EXCEPT ![i].paid = TRUE]
  /\ IF orders[i].type = GasTx
     THEN funds' = [funds EXCEPT ![orders[i].user] = @ + TopUp]
     ELSE /\ funds[orders[i].user] > 0
          /\ funds' = [funds EXCEPT ![orders[i].user] = @ - 1]
  /\ UNCHANGED <<src, service, checker, lost, faults>>

(* The scheduler starts a pass; the previous one is over. *)
Tick ==
  /\ pc = "idle"
  /\ pc' = "query"
  /\ UNCHANGED <<src, orders, funds, batch, checker, lost, faults>>

(* There is something in memory. *)
Crashable == pc # "idle" \/ check # 0

(* The process exits and starts again: everything in memory is gone. *)
Crash ==
  /\ Fault
  /\ Crashable
  /\ pc' = "idle"
  /\ batch' = <<>>
  /\ check' = 0
  /\ held' = NoRow
  /\ UNCHANGED <<src, orders, funds, lost>>

-----------------------------------------------------------------------------
(* A pass of the collect service: CollectService.Run. *)

Ready == {r \in SrcId : src[r].state = TxReadyCollectState}

Load(r) == [id |-> r, user |-> src[r].user, token |-> src[r].token,
            cnt |-> src[r].cnt, rows |-> {r}]

SameGroup(m, r) == m.user = src[r].user /\ m.token = src[r].token

(* Mutant: the contract is not compared. *)
MergeByUser(order) ==
  FoldLeft(LAMBDA ms, r :
             IF \E i \in DOMAIN ms : ms[i].user = src[r].user
             THEN [i \in DOMAIN ms |->
                     IF ms[i].user = src[r].user
                     THEN [ms[i] EXCEPT !.cnt = @ + src[r].cnt, !.rows = @ \cup {r}]
                     ELSE ms[i]]
             ELSE Append(ms, Load(r)),
           <<>>, order)

(* A row that is read adds its tokens to the first row of its group, in    *)
(* memory, or is the first of a new group.                                 *)
MergeInto(ms, r) ==
  IF \E i \in DOMAIN ms : SameGroup(ms[i], r)
  THEN [i \in DOMAIN ms |->
          IF SameGroup(ms[i], r)
          THEN [ms[i] EXCEPT !.cnt = @ + src[r].cnt, !.rows = @ \cup {r}]
          ELSE ms[i]]
  ELSE Append(ms, Load(r))

(* The loop over the rows read. *)
Merge(order) == FoldLeft(MergeInto, <<>>, order)

(* Mutant: a total has to be above the threshold. *)
EnoughExclusive(m) == m.cnt > Threshold[m.token]

(* Mutant: every total is handled. *)
EnoughAlways(m) == m.cnt >= 0

(* The total reaches the token's threshold. *)
Enough(m) == m.cnt >= Threshold[m.token]

(* The loop over the totals, which keeps those. *)
Due(ms) ==
  LET kept[n \in 0..Len(ms)] ==
        IF n = 0 THEN <<>>
        ELSE IF Enough(ms[n]) THEN Append(kept[n - 1], ms[n])
        ELSE kept[n - 1]
  IN kept[Len(ms)]

(* The rows are read, in an order the query does not state, merged and     *)
(* filtered.  Nothing to do ends the pass.                                 *)
Query ==
  /\ pc = "query"
  /\ \E order \in SetToSeqs(Ready) :
       LET due == Due(Merge(order)) IN
         /\ batch' = due
         /\ pc' = IF due = <<>> THEN "idle" ELSE "handle"
  /\ UNCHANGED <<src, orders, funds, checker, lost, faults>>

(* The query failed: Run returns its error. *)
QueryFails ==
  /\ Fault
  /\ pc = "query"
  /\ pc' = "idle"
  /\ UNCHANGED <<src, orders, funds, batch, checker, lost>>

(* Done with the first row of the batch; Run returns after the last. *)
NextOfBatch ==
  /\ batch' = Tail(batch)
  /\ pc' = IF Len(batch) = 1 THEN "idle" ELSE "handle"

(* handleAddTx: the order is a transfer of the whole total if the user can *)
(* pay for it, and gas for the user if not.                                *)
NewOrder(m) ==
  [type   |-> IF funds[m.user] >= MaxTxFee THEN CollectTx ELSE GasTx,
   by     |-> "Collect", user |-> m.user, token |-> m.token,
   amount |-> IF funds[m.user] >= MaxTxFee THEN m.cnt ELSE 0,
   src    |-> m.id, rows |-> m.rows, paid |-> FALSE, ended |-> FALSE]

(* Mutant: the row is marked before its order is inserted, and not after. *)
HandleMarksFirst ==
  /\ pc = "handle"
  /\ src' = [src EXCEPT ![Head(batch).id].state = TxCollectingState,
                        ![Head(batch).id].cnt = Head(batch).cnt]
  /\ pc' = "mark"
  /\ UNCHANGED <<orders, funds, batch, checker, lost, faults>>

Handle ==
  /\ pc = "handle"
  /\ orders' = Append(orders, NewOrder(Head(batch)))
  /\ pc' = "mark"
  /\ UNCHANGED <<src, funds, batch, checker, lost, faults>>

(* The balance could not be had: the row stays Ready. *)
HandleFails ==
  /\ Fault
  /\ pc = "handle"
  /\ NextOfBatch
  /\ UNCHANGED <<src, orders, funds, checker, lost>>

(* The insert failed; handleAddTx drops its error and returns nil. *)
InsertFails ==
  /\ Fault
  /\ pc = "handle"
  /\ lost' = lost \cup {Head(batch).id}
  /\ pc' = "mark"
  /\ UNCHANGED <<src, orders, funds, batch, checker>>

(* Mutant: the total is stored and the state is not. *)
MarkForgetsState ==
  /\ pc = "mark"
  /\ src' = [src EXCEPT ![Head(batch).id].cnt = Head(batch).cnt]
  /\ NextOfBatch
  /\ UNCHANGED <<orders, funds, checker, lost, faults>>

(* Mutant: every row of the group is given the merged count. *)
MarkWritesGroup ==
  /\ pc = "mark"
  /\ src' = [r \in SrcId |->
        IF r = Head(batch).id
        THEN [src[r] EXCEPT !.state = TxCollectingState, !.cnt = Head(batch).cnt]
        ELSE IF r \in Head(batch).rows THEN [src[r] EXCEPT !.cnt = Head(batch).cnt]
        ELSE src[r]]
  /\ NextOfBatch
  /\ UNCHANGED <<orders, funds, checker, lost, faults>>

(* Mutant: the row is marked as collected at once. *)
MarkCollected ==
  /\ pc = "mark"
  /\ src' = [src EXCEPT ![Head(batch).id].state = TxCollectingState + 1,
                        ![Head(batch).id].cnt = Head(batch).cnt]
  /\ NextOfBatch
  /\ UNCHANGED <<orders, funds, checker, lost, faults>>

(* UpdateCollectTx writes the row as it is in memory: with its new state,  *)
(* and with the total where its own count was.                             *)
Mark ==
  /\ pc = "mark"
  /\ src' = [src EXCEPT ![Head(batch).id].state = TxCollectingState,
                        ![Head(batch).id].cnt = Head(batch).cnt]
  /\ NextOfBatch
  /\ UNCHANGED <<orders, funds, checker, lost, faults>>

(* The transaction failed: Run returns, the rest of the batch is left. *)
MarkFails ==
  /\ Fault
  /\ pc = "mark"
  /\ batch' = <<>>
  /\ pc' = "idle"
  /\ UNCHANGED <<src, orders, funds, checker, lost>>

-----------------------------------------------------------------------------
(* Check of a gas order: CheckService.Check reads source row 1, inserts a  *)
(* collect order with its token and count, and ends the gas order.  (Row 1 *)
(* absent is a nil dereference: Crash.)                                    *)

CheckReads(i) ==
  /\ check = 0
  /\ orders[i].type = GasTx
  /\ ~orders[i].ended
  /\ src[1].state # Absent
  /\ check' = i
  /\ held' = src[1]
  /\ UNCHANGED <<src, orders, funds, service, lost, faults>>

CheckInserts ==
  /\ check # 0 /\ held # NoRow
  /\ orders' = Append(orders,
        [type |-> CollectTx, by |-> "Check",
         user |-> orders[check].user, token |-> held.token, amount |-> held.cnt,
         src |-> orders[check].src, rows |-> orders[check].rows,
         paid |-> FALSE, ended |-> FALSE])
  /\ held' = NoRow
  /\ UNCHANGED <<src, funds, service, check, lost, faults>>

(* The insert failed, and nobody looks at its error. *)
CheckInsertFails ==
  /\ Fault
  /\ check # 0 /\ held # NoRow
  /\ lost' = lost \cup {orders[check].src}
  /\ held' = NoRow
  /\ UNCHANGED <<src, orders, funds, service, check>>

(* The gas order is ended, in a transaction of its own. *)
CheckEnds ==
  /\ check # 0 /\ held = NoRow
  /\ orders' = [orders EXCEPT ![check].ended = TRUE]
  /\ check' = 0
  /\ UNCHANGED <<src, funds, service, held, lost, faults>>

(* That failed: a later pass of Check follows the order up again. *)
CheckEndFails ==
  /\ Fault
  /\ check # 0 /\ held = NoRow
  /\ check' = 0
  /\ UNCHANGED <<src, orders, funds, service, held, lost>>

-----------------------------------------------------------------------------
Next ==
  \/ \E r \in SrcId, u \in User, k \in Token, c \in 1..MaxCnt : Crawl(r, u, k, c)
  \/ \E i \in DOMAIN orders : OrderMined(i) \/ CheckReads(i)
  \/ Tick
  \/ Crash
  \/ Query
  \/ QueryFails
  \/ Handle
  \/ HandleFails
  \/ InsertFails
  \/ Mark
  \/ MarkFails
  \/ CheckInserts
  \/ CheckInsertFails
  \/ CheckEnds
  \/ CheckEndFails

Spec == Init /\ [][Next]_vars

(* The scheduler ticks, and a pass that has begun takes its next step.     *)
Fairness == /\ WF_vars(Tick)
            /\ WF_vars(Query)
            /\ WF_vars(Handle)
            /\ WF_vars(Mark)

FairSpec == Spec /\ Fairness

-----------------------------------------------------------------------------
(* Safety. *)

(* The tokens of a set of rows of t_src_tx. *)
Total(table, S) ==
  LET sum[n \in 0..Cardinality(SrcId)] ==
        IF n = 0 THEN 0 ELSE sum[n - 1] + (IF n \in S THEN table[n].origin ELSE 0)
  IN sum[Cardinality(SrcId)]

(* What a pass holds in memory adds up (collect.go:223-239): each total is *)
(* that of Ready rows of one user and one token, there is one total for    *)
(* the two, and none of the rows has been marked behind its back.          *)
BatchAddsUp ==
  /\ \A i \in DOMAIN batch :
       /\ batch[i].id \in batch[i].rows
       /\ batch[i].cnt = Total(src, batch[i].rows)
       /\ \A r \in batch[i].rows : SameGroup(batch[i], r) /\ r \in Ready
  /\ \A i, j \in DOMAIN batch :
       batch[i].user = batch[j].user /\ batch[i].token = batch[j].token => i = j

(* A row that is shown as being collected has its order in the table, and  *)
(* the count it shows is the amount a collect order was given; the only    *)
(* exception is an order whose insert failed (collect.go:205).  It is the  *)
(* order of the two transactions (collect.go:275-288) that keeps this      *)
(* through every crash.                                                    *)
CollectingIsOrdered ==
  \A r \in SrcId :
    src[r].state = TxCollectingState =>
      \/ r \in lost
      \/ \E i \in DOMAIN orders :
           /\ orders[i].by = "Collect"
           /\ orders[i].src = r
           /\ src[r].cnt = Total(src, orders[i].rows)
           /\ orders[i].type = CollectTx => orders[i].amount = src[r].cnt

(* A row that is still Ready has its own count, whatever totals were made  *)
(* of it in memory: a merge that is not carried out leaves no trace.       *)
ReadyKeepsCount == \A r \in Ready : src[r].cnt = src[r].origin

(* Only a failure makes a second order from the same row. *)
RepeatsNeedFaults ==
  \A r \in SrcId :
    Cardinality({i \in DOMAIN orders : orders[i].by = "Collect" /\ orders[i].src = r})
      <= 1 + faults

(* No order of the collect service is made for less than the threshold. *)
OrdersReachThreshold ==
  \A i \in DOMAIN orders :
    orders[i].by = "Collect" => Total(src, orders[i].rows) >= Threshold[orders[i].token]

(* A row that reaches the threshold by itself is collected in the end,     *)
(* whichever row stands for its group and whatever fails before failures   *)
(* come to an end (collect.go:242-257).                                    *)
LargeRowsCollected ==
  \A r \in SrcId :
    (r \in Ready /\ src[r].cnt >= Threshold[src[r].token])
      ~> src[r].state = TxCollectingState

-----------------------------------------------------------------------------
(* What comments and documents say and the code does not do: each has a    *)
(* configuration with which TLC finds it violated (README.md, section 6).  *)

(* collect.go:219,222: rows of one user and token are merged into one.     *)
(* (The rows merged into the first one stay Ready and are ordered again.)  *)
RowsOrderedOnce ==
  \A r \in SrcId :
    Cardinality({i \in DOMAIN orders : orders[i].by = "Collect" /\ r \in orders[i].rows})
      <= 1

(* table.sql:49: 1 means that the row is being collected.  (The error of a *)
(* failed insert is dropped, and the row is marked without an order.)      *)
CollectingHasOrder ==
  \A r \in SrcId :
    src[r].state = TxCollectingState =>
      \E i \in DOMAIN orders : r \in orders[i].rows

(* checkTx.go:80: a collect order that follows a gas order is for the      *)
(* tokens the gas was for.  (It is always for those of source row 1.)      *)
FollowUpMatches ==
  \A i \in DOMAIN orders :
    orders[i].by = "Check" =>
      /\ orders[i].token = src[orders[i].src].token
      /\ orders[i].amount = Total(src, orders[i].rows)

(* README.md: a gas order pays for one transfer, so that the user then has *)
(* enough for it.  (It pays a tenth of what handleAddTx asks for.)         *)
GasPaysTransfer ==
  [][\A u \in User : funds'[u] > funds[u] => funds'[u] >= MaxTxFee]_vars

=============================================================================
