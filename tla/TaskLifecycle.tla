--------------------------- MODULE TaskLifecycle ---------------------------
(***************************************************************************)
(* What the pipeline promises about one row of t_transaction_task, without *)
(* services, passes, memory, failures or a scheduler: its state moves one  *)
(* way through the states of types/enums.go, its nonce is fixed when it is *)
(* assembled, and it is sent to the node at most once, with that nonce,    *)
(* while it is in the state Sign and before it is shown as broadcast.      *)
(* TxPipeline implements this specification (TxPipeline!Lifecycle).        *)
(***************************************************************************)
EXTENDS Integers

CONSTANT TaskId

VARIABLES
  life,   \* kind, state and nonce of each row
  sent    \* the pairs <<row, nonce>> the node has accepted

lifeVars == <<life, sent>>

LInit ==
  /\ life \in [TaskId -> [type : {0, 1}, state : {-1}, nonce : {0}]]
  /\ sent = {}

(* A row appears in the state Init. *)
LInsert(t) ==
  /\ life[t].state = -1
  /\ \E type \in {0, 1} : life' = [life EXCEPT ![t] = [type |-> type, state |-> 0, nonce |-> 0]]
  /\ UNCHANGED sent

(* Init -> Assembly, with a nonce. *)
LAssemble(t) ==
  /\ life[t].state = 0
  /\ life'[t].nonce \in Nat
  /\ life' = [life EXCEPT ![t] =
        [type |-> life[t].type, state |-> 1, nonce |-> life'[t].nonce]]
  /\ UNCHANGED sent

(* Assembly -> Sign. *)
LSign(t) ==
  /\ life[t].state = 1
  /\ life' = [life EXCEPT ![t] =
        [type |-> life[t].type, state |-> 2, nonce |-> life[t].nonce]]
  /\ UNCHANGED sent

(* A signed row goes out, once. *)
LSend(t) ==
  /\ life[t].state = 2
  /\ \A x \in sent : x[1] # t
  /\ sent' = sent \cup {<<t, life[t].nonce>>}
  /\ UNCHANGED life

(* Sign -> Broadcast, only after it went out. *)
LBroadcast(t) ==
  /\ life[t].state = 2
  /\ <<t, life[t].nonce>> \in sent
  /\ life' = [life EXCEPT ![t] =
        [type |-> life[t].type, state |-> 3, nonce |-> life[t].nonce]]
  /\ UNCHANGED sent

(* Broadcast -> End for a gas row, -> Check for a collect row. *)
LCheck(t) ==
  /\ life[t].state = 3
  /\ life' = [life EXCEPT ![t] =
        [type |-> life[t].type, state |-> IF life[t].type = 0 THEN 5 ELSE 4,
         nonce |-> life[t].nonce]]
  /\ UNCHANGED sent

LNext ==
  \E t \in TaskId :
    LInsert(t) \/ LAssemble(t) \/ LSign(t) \/ LSend(t) \/ LBroadcast(t) \/ LCheck(t)

LSpec == LInit /\ [][LNext]_lifeVars

=============================================================================
