--------------------------- MODULE ProtocolProofs --------------------------
(***************************************************************************)
(* Six results about a conversation, for every value of the constants: the *)
(* key exchange agrees with the chat's state, the mailbox is handed over   *)
(* in order and at least once, the key that a side sends under is one that *)
(* its peer holds, two sides with no exchange share their key, what a side *)
(* still needs is under a key it holds (in chats that withdraw nothing),   *)
(* and the chat implements the abstract dialogue of its two sides.         *)
(***************************************************************************)
EXTENDS NumberProofs

----------------------------------------------------------------------------
(* The key exchange: ExchangeMatchesState is inductive next to TypeInv.    *)

\* ExchangeMatchesState for one side, in terms of its state and key fields.
Consistent(st, k) ==
  /\ st = "rekeying" <=> k.exchange_id # NoExchange
  /\ k.exchange_id # NoExchange <=> k.rekey_role # "none"
  /\ k.pending_key # NoKey <=> k.rekey_role = "accepted"
  /\ k.exchange_secret <=> k.rekey_role = "requested"

LEMMA ConsistentSides ==
  ExchangeMatchesState <=> \A p \in Side : Consistent(state[p], keys[p])
BY DEF ExchangeMatchesState, Consistent

LEMMA SameExchange ==
  ASSUME ExchangeMatchesState, UNCHANGED <<state, keys>>
  PROVE  ExchangeMatchesState'
BY DEF ExchangeMatchesState

LEMMA Updated ==
  ASSUME TypeOK, ExchangeMatchesState, NEW p \in Side, NEW st, NEW new,
         Consistent(st, new),
         state' = [state EXCEPT ![p] = st], keys' = [keys EXCEPT ![p] = new]
  PROVE  ExchangeMatchesState'
<1>1. \A q \in Side : Consistent(state[q], keys[q])
  BY ConsistentSides
<1>2. ASSUME NEW q \in Side PROVE Consistent(state[q], keys[q])'
  <2>1. CASE q = p
    <3>1. state'[q] = st /\ keys'[q] = new
      BY <2>1 DEF TypeOK
    <3> QED
      BY <3>1 DEF Consistent
  <2>2. CASE q # p
    <3>1. state'[q] = state[q] /\ keys'[q] = keys[q]
      BY <2>2 DEF TypeOK
    <3> QED
      BY <1>1, <3>1 DEF Consistent
  <2> QED
    BY <2>1, <2>2
<1> QED
  BY <1>2 DEF ExchangeMatchesState, Consistent

\* What each operation of rekey.py leaves in the key fields.
LEMMA EndedConsistent ==
  ASSUME NEW k \in KeyState, NEW new, NEW st, st # "rekeying"
  PROVE  /\ Consistent(st, clear(k))
         /\ Consistent(st, adopt_new_key(k, new))
         /\ Consistent(st, Committed(k))
         /\ Consistent(st, Scrubbed(k))
<1> DEFINE Plain(x) == /\ x.exchange_id = NoExchange /\ x.pending_key = NoKey
                       /\ x.exchange_secret = FALSE /\ x.rekey_role = "none"
<1>1. ASSUME NEW x, Plain(x) PROVE Consistent(st, x)
  BY <1>1 DEF Consistent
<1>2. Plain(clear(k))
  BY DEF clear, KeyState
<1>3. \A n : Plain(adopt_new_key(k, n)) /\ Plain(Scrubbed(k))
  BY DEF adopt_new_key, Scrubbed, clear, KeyState
<1>4. Plain(Committed(k))
  BY DEF Committed, adopt_new_key, clear, KeyState
<1> HIDE DEF Plain
<1> QED
  BY <1>1, <1>2, <1>3, <1>4

LEMMA BegunConsistent ==
  ASSUME NEW k \in KeyState, NEW e \in Nat, NEW new \in Nat
  PROVE  /\ k.pending_key = NoKey => Consistent("rekeying", Requested(k, e))
         /\ Consistent("rekeying", Accepted(k, e, new))
<1>1. e # NoExchange /\ new # NoKey
  BY DEF NoExchange, NoKey
<1>2. /\ Requested(k, e).exchange_id = e /\ Requested(k, e).exchange_secret = TRUE
      /\ Requested(k, e).rekey_role = "requested"
      /\ Requested(k, e).pending_key = k.pending_key
  BY DEF Requested, KeyState
<1>3. /\ Accepted(k, e, new).exchange_id = e
      /\ Accepted(k, e, new).exchange_secret = FALSE
      /\ Accepted(k, e, new).rekey_role = "accepted"
      /\ Accepted(k, e, new).pending_key = new
  BY DEF Accepted, KeyState
<1> QED
  BY <1>1, <1>2, <1>3 DEF Consistent

LEMMA CommitKeeps ==
  ASSUME TypeOK, ExchangeMatchesState, NEW p \in Side, NEW act, NEW a, NEW b,
         NEW key, NEW new, NEW st, NEW o,
         Commit(p, act, a, b, key, new, st, o), Consistent(st, new)
  PROVE  ExchangeMatchesState'
<1>1. state' = [state EXCEPT ![p] = st] /\ keys' = [keys EXCEPT ![p] = new]
  BY DEF Commit
<1> QED
  BY <1>1, Updated

LEMMA CloseKeeps ==
  ASSUME TypeOK, ExchangeMatchesState, NEW p \in Side, NEW reason,
         CloseChat(p, reason)
  PROVE  ExchangeMatchesState'
<1>1. keys[p] \in KeyState
  BY DEF TypeOK
<1>2. Consistent("closed", Scrubbed(keys[p]))
  BY <1>1, EndedConsistent
<1>3. /\ state' = [state EXCEPT ![p] = "closed"]
      /\ keys' = [keys EXCEPT ![p] = Scrubbed(keys[p])]
  BY DEF CloseChat
<1> QED
  BY <1>2, <1>3, Updated

LEMMA OwnConsistent ==
  ASSUME ExchangeMatchesState, NEW p \in Side
  PROVE  Consistent(state[p], keys[p])
BY ConsistentSides

LEMMA ApplicationKeeps ==
  ASSUME TypeInv, ExchangeMatchesState, NEW p \in Side, Application(p)
  PROVE  ExchangeMatchesState'
<1>0. TypeOK /\ Consistent(state[p], keys[p]) /\ keys[p] \in KeyState
  BY OwnConsistent DEF TypeInv, TypeOK
<1>1. CASE SendMessage(p)
  BY <1>0, <1>1, CommitKeeps DEF SendMessage
<1>2. CASE NotifyLayer(p)
  BY <1>0, <1>2, CommitKeeps DEF NotifyLayer
<1>3. CASE StartRekey(p)
  <2>1. PICK e \in ExchangeIds[p], o \in AnyOutcome :
          Commit(p, "request", e, 0, keys[p].key, Requested(keys[p], e), "rekeying", o)
    BY <1>3 DEF StartRekey
  <2>2. e \in Nat
    BY BoundsAssumption
  <2>3. keys[p].pending_key = NoKey
    <3>1. keys[p].exchange_id = NoExchange
      BY <1>3 DEF StartRekey
    <3> QED
      BY <1>0, <3>1 DEF Consistent
  <2>4. Consistent("rekeying", Requested(keys[p], e))
    BY <1>0, <2>2, <2>3, BegunConsistent
  <2> QED
    BY <1>0, <2>1, <2>4, CommitKeeps
<1>4. CASE BeginDelete(p) \/ BeginFlush(p)
  BY <1>4, SameExchange DEF BeginDelete, BeginFlush, chatVars
<1>5. CASE SendDelete(p)
  <2>1. \E act, a, o : Commit(p, act, a, 0, keys[p].key, keys[p], state[p], o)
    BY <1>5 DEF SendDelete
  <2> QED
    BY <1>0, <2>1, CommitKeeps
<1>6. CASE Close(p)
  BY <1>0, <1>6, CloseKeeps DEF Close
<1> QED
  BY <1>1, <1>2, <1>3, <1>4, <1>5, <1>6 DEF Application

\* A frame under the pending key completes the exchange; any other frame
\* leaves it alone.
LEMMA ReceiptKeeps ==
  ASSUME TypeInv, ExchangeMatchesState, NEW p \in Side, Open(p), NEW f, NEW c,
         NEW ready, Receipt(p, f, c, ready)
  PROVE  ExchangeMatchesState'
<1> DEFINE k == keys[p]
<1> DEFINE new == retire_previous_key_if_settled(Witnessed(k, f.key), c.gap_requested)
<1>0. TypeOK /\ Consistent(state[p], k) /\ k \in KeyState
  BY OwnConsistent DEF TypeInv, TypeOK
<1>1. keys' = [keys EXCEPT ![p] = new]
  BY DEF Receipt
<1> DEFINE Same(x, y) ==
      /\ x.exchange_id = y.exchange_id /\ x.pending_key = y.pending_key
      /\ x.exchange_secret = y.exchange_secret /\ x.rekey_role = y.rekey_role
<1>2. ASSUME NEW x, NEW y, NEW st, Same(x, y), Consistent(st, y)
      PROVE  Consistent(st, x)
  BY <1>2 DEF Consistent
<1>3. \A x \in KeyState : Same(retire_previous_key_if_settled(x, c.gap_requested), x)
  BY DEF retire_previous_key_if_settled, KeyState
<1>4. CASE k.pending_key # NoKey /\ f.key = k.pending_key
  <2>1. state' = [state EXCEPT ![p] = "ready"]
    BY <1>4 DEF Receipt
  <2>2. f.key \in Nat
    BY <1>0, <1>4 DEF KeyState, Key
  <2>3. adopt_new_key(k, f.key) \in KeyState
    BY <1>0, <2>2, AdoptType
  <2>4. /\ Witnessed(k, f.key) \in KeyState
        /\ Same(Witnessed(k, f.key), adopt_new_key(k, f.key))
    BY <1>4, <2>3 DEF Witnessed, KeyState
  <2>5. Consistent("ready", adopt_new_key(k, f.key))
    BY <1>0, EndedConsistent
  <2>6. Same(new, Witnessed(k, f.key))
    BY <1>3, <2>4
  <2> HIDE DEF Same, new, k
  <2>7. Consistent("ready", Witnessed(k, f.key))
    BY <1>2, <2>4, <2>5
  <2>8. Consistent("ready", new)
    BY <1>2, <2>6, <2>7
  <2> QED
    BY <1>0, <1>1, <2>1, <2>8, Updated
<1>5. CASE ~ (k.pending_key # NoKey /\ f.key = k.pending_key)
  <2>1. state' = [state EXCEPT ![p] = state[p]]
    BY <1>0, <1>5 DEF Receipt, TypeOK
  <2>2. Witnessed(k, f.key) \in KeyState /\ Same(Witnessed(k, f.key), k)
    BY <1>0, <1>5 DEF Witnessed, KeyState
  <2>3. Same(new, Witnessed(k, f.key))
    BY <1>3, <2>2
  <2> HIDE DEF Same, new, k
  <2>4. Consistent(state[p], Witnessed(k, f.key))
    BY <1>0, <1>2, <2>2
  <2>5. Consistent(state[p], new)
    BY <1>2, <2>3, <2>4
  <2> QED
    BY <1>0, <1>1, <2>1, <2>5, Updated
<1> QED
  BY <1>4, <1>5

LEMMA ReceiveKeeps ==
  ASSUME TypeInv, ExchangeMatchesState, NEW p \in Side, Receive(p)
  PROVE  ExchangeMatchesState'
<1>0. TypeOK
  BY DEF TypeInv
<1>1. ASSUME NEW f \in net, ReceiveNext(p, f) PROVE ExchangeMatchesState'
  <2>1. Open(p) /\ \E c, ready : Receipt(p, f, c, ready)
    BY <1>1 DEF ReceiveNext, Idle
  <2> QED
    BY <2>1, ReceiptKeeps
<1>2. ASSUME NEW f \in net, ReceiveEarly(p, f) PROVE ExchangeMatchesState'
  <2>1. Open(p) /\ \E c, ready : Receipt(p, f, c, ready)
    BY <1>2 DEF ReceiveEarly, Idle
  <2> QED
    BY <2>1, ReceiptKeeps
<1>3. ASSUME NEW f \in net, ReceiveRefused(p, f) PROVE ExchangeMatchesState'
  BY <1>0, <1>3, CloseKeeps DEF ReceiveRefused
<1>4. ASSUME NEW f \in net, ReceiveIgnored(p, f) PROVE ExchangeMatchesState'
  BY <1>4, SameExchange DEF ReceiveIgnored, vars, chatVars
<1>5. CASE Discarded(p)
  BY <1>0, <1>5, CloseKeeps DEF Discarded
<1> QED
  BY <1>1, <1>2, <1>3, <1>4, <1>5 DEF Receive

LEMMA DrainKeeps ==
  ASSUME TypeInv, ExchangeMatchesState, NEW p \in Side, Drain(p)
  PROVE  ExchangeMatchesState'
<1> DEFINE k == keys[p]
<1>0. TypeOK /\ Consistent(state[p], k) /\ k \in KeyState
  BY OwnConsistent DEF TypeInv, TypeOK
<1>1. ASSUME NEW act, NEW a, NEW b, NEW key, NEW new, NEW st,
             Reply(p, act, a, b, key, new, st), Consistent(st, new)
      PROVE  ExchangeMatchesState'
  BY <1>0, <1>1, CommitKeeps DEF Reply
<1>2. ASSUME Unanswered(p) PROVE ExchangeMatchesState'
  BY <1>2, SameExchange DEF Unanswered, chatVars
<1>3. CASE DeliverPlain(p) \/ DeliverNotifyLayer(p) \/ DeliverFlush(p)
  BY <1>3, SameExchange DEF DeliverPlain, DeliverNotifyLayer, DeliverFlush, chatVars
<1>4. CASE DeliverRequestKey(p)
  <2> DEFINE e == Mail(p).a
  <2>1. CASE Reply(p, "abort", e, 0, k.key, k, state[p])
    BY <1>0, <1>1, <2>1
  <2>2. CASE Unanswered(p)
    BY <1>2, <2>2
  <2>3. CASE /\ minted' = minted + 1
             /\ Reply(p, "accept", e, minted', k.key, Accepted(k, e, minted'), "rekeying")
    <3>1. minted' \in Nat
      BY <1>0, <2>3 DEF TypeOK
    <3>2. e \in Nat
      <4>1. Mail(p) \in Wrapper
        BY <1>4, MailFacts DEF DeliverRequestKey
      <4> QED
        BY <4>1 DEF Wrapper
    <3> HIDE DEF e, k
    <3>3. Consistent("rekeying", Accepted(k, e, minted'))
      BY <1>0, <3>1, <3>2, BegunConsistent
    <3> QED
      BY <1>1, <2>3, <3>3
  <2> QED
    BY <1>4, <2>1, <2>2, <2>3 DEF DeliverRequestKey
<1>5. CASE DeliverAcceptKey(p)
  <2>1. Consistent("ready", adopt_new_key(k, Mail(p).b))
    BY <1>0, EndedConsistent
  <2> QED
    BY <1>1, <1>2, <1>5, <2>1 DEF DeliverAcceptKey
<1>6. CASE DeliverCommitKey(p)
  <2>1. Consistent("ready", Committed(k))
    BY <1>0, EndedConsistent
  <2>2. CASE Unanswered(p)
    BY <1>2, <2>2
  <2>3. CASE Reply(p, "noop", 0, 0, k.pending_key, Committed(k), "ready")
    BY <1>1, <2>1, <2>3
  <2>4. CASE CloseChat(p, "commit")
    BY <1>0, <2>4, CloseKeeps
  <2> QED
    BY <1>6, <2>2, <2>3, <2>4 DEF DeliverCommitKey
<1>7. CASE DeliverAbortKey(p)
  BY <1>2, <1>7 DEF DeliverAbortKey
<1>8. CASE Pop(p)
  <2>1. CASE EndsExchange(k, Mail(p))
    <3> DEFINE st == IF state[p] = "rekeying" THEN "ready" ELSE state[p]
    <3>1. Consistent(st, clear(k))
      BY <1>0, EndedConsistent
    <3>2. keys' = [keys EXCEPT ![p] = clear(k)]
      BY <1>8, <2>1 DEF Pop
    <3>3. state' = [state EXCEPT ![p] = st]
      BY <1>0, <1>8, <2>1 DEF Pop, TypeOK
    <3> HIDE DEF st, k
    <3> QED
      BY <1>0, <3>1, <3>2, <3>3, Updated
  <2>2. CASE ~ EndsExchange(k, Mail(p))
    BY <1>8, <2>2, SameExchange DEF Pop
  <2> QED
    BY <2>1, <2>2
<1> QED
  BY <1>3, <1>4, <1>5, <1>6, <1>7, <1>8 DEF Drain

LEMMA WorkKeeps ==
  ASSUME TypeInv, ExchangeMatchesState, NEW p \in Side, Work(p) \/ Lifecycle(p)
  PROVE  ExchangeMatchesState'
<1>0. TypeOK /\ Consistent(state[p], keys[p])
  BY OwnConsistent DEF TypeInv
<1>1. CASE RetryPending(p)
  <2>1. UNCHANGED <<state, keys>> \/ CloseChat(p, "rejected")
    BY <1>1 DEF RetryPending, chatVars
  <2> QED
    BY <1>0, <2>1, SameExchange, CloseKeeps
<1>2. CASE RetryNothing(p)
  BY <1>2, SameExchange DEF RetryNothing, chatVars
<1>3. CASE Ask(p)
  <2>1. \/ UNCHANGED <<state, keys>>
        \/ \E a, b, o : Commit(p, "resend", a, b, keys[p].key, keys[p], state[p], o)
    BY <1>3 DEF Ask
  <2> QED
    BY <1>0, <2>1, SameExchange, CommitKeeps
<1>4. CASE ConfirmSwitch(p)
  BY <1>0, <1>4, CommitKeeps DEF ConfirmSwitch
<1>5. CASE Lifecycle(p)
  BY <1>5, SameExchange DEF Lifecycle, Crash, Start, ResumeDelivery, ResumeWork, chatVars
<1> QED
  BY <1>1, <1>2, <1>3, <1>4, <1>5 DEF Work

\* A chat is rekeying exactly while it holds an exchange, with the material of
\* its role, in every reachable state: requests, answers, aborts, collisions,
\* closes and crashes leave no half-finished exchange behind (rekey.py).
THEOREM ExchangeConsistent == Spec => []ExchangeMatchesState
<1>1. Init => ExchangeMatchesState
  <2>1. Consistent("ready", InitialKeys)
    BY DEF Consistent, InitialKeys
  <2>2. Init => \A p \in Side : state[p] = "ready" /\ keys[p] = InitialKeys
    BY DEF Init
  <2> QED
    BY <2>1, <2>2, ConsistentSides
<1>2. TypeInv /\ ExchangeMatchesState /\ [Next]_vars => ExchangeMatchesState'
  <2> SUFFICES ASSUME TypeInv, ExchangeMatchesState, [Next]_vars
               PROVE  ExchangeMatchesState'
    OBVIOUS
  <2>1. CASE Next
    BY <2>1, ApplicationKeeps, ReceiveKeeps, DrainKeeps, WorkKeeps DEF Next
  <2>2. CASE UNCHANGED vars
    BY <2>2, SameExchange DEF vars, chatVars
  <2> QED
    BY <2>1, <2>2
<1> QED
  BY <1>1, <1>2, TypeInit, TypeNext, PTL DEF Spec

----------------------------------------------------------------------------
(* The mailbox: AtLeastOnceInOrder is not inductive. A pop advances the    *)
(* head, so it needs to know that the head has been handed over.           *)
(* PopFollows says so: a pop is only ever the first step of an operation,  *)
(* and then the head is.                                                   *)

RestStep == [do : Steps \ {"pop"}, arg : Nat]

PopFollows ==
  \A p \in Side : Open(p) =>
    \/ todo[p] \in Seq(RestStep)
    \/ /\ todo[p] # <<>> /\ Tail(todo[p]) \in Seq(RestStep)
       /\ handed[p] = MailNumber(p) + 1

InOrder == AtLeastOnceInOrder /\ PopFollows

----------------------------------------------------------------------------
(* What the actions share *)

\* A step that hands nothing over and pops nothing.
LEMMA Quiet ==
  ASSUME InOrder, UNCHANGED handed,
         \A q \in Side : state'[q] # "closed" =>
           /\ Open(q) /\ MailNumber(q)' = MailNumber(q)
           /\ todo'[q] = todo[q] \/ todo'[q] \in Seq(RestStep)
  PROVE  InOrder'
<1>1. ASSUME NEW q \in Side, Open(q)'
      PROVE  /\ Open(q) /\ MailNumber(q)' = MailNumber(q) /\ handed'[q] = handed[q]
             /\ todo'[q] = todo[q] \/ todo'[q] \in Seq(RestStep)
  BY <1>1 DEF Open
<1>2. AtLeastOnceInOrder'
  BY <1>1 DEF InOrder, AtLeastOnceInOrder
<1>3. PopFollows'
  BY <1>1 DEF InOrder, PopFollows
<1> QED
  BY <1>2, <1>3 DEF InOrder

LEMMA SameNumber ==
  ASSUME UNCHANGED pending_deliveries, NEW q \in Side,
         seq'[q].in_seq_no = seq[q].in_seq_no
  PROVE  MailNumber(q)' = MailNumber(q)
BY DEF MailNumber

\* The same for a step of side p that leaves `rest` to do.
LEMMA QuietStep ==
  ASSUME TypeInv, InOrder, NEW p \in Side, Open(p), NEW rest,
         rest = todo[p] \/ rest \in Seq(RestStep),
         todo' = [todo EXCEPT ![p] = rest],
         UNCHANGED <<handed, pending_deliveries>>,
         \A q \in Side : seq'[q].in_seq_no = seq[q].in_seq_no,
         \A q \in Side : q # p => state'[q] = state[q]
  PROVE  InOrder'
<1>1. \A q \in Side : MailNumber(q)' = MailNumber(q)
  BY SameNumber
<1>2. \A q \in Side : todo'[q] = IF q = p THEN rest ELSE todo[q]
  BY DEF TypeInv, TypeOK
<1> QED
  BY <1>1, <1>2, Quiet DEF Open

\* What follows the running step never starts with a pop.
LEMMA RestOf ==
  ASSUME TypeInv, InOrder, NEW p \in Side, NEW step, At(p, step)
  PROVE  Open(p) /\ Tail(todo[p]) \in Seq(RestStep)
<1>1. Open(p) /\ todo[p] # <<>>
  BY DEF At
<1>2. todo[p] \in Seq(RestStep) => Tail(todo[p]) \in Seq(RestStep)
  BY <1>1
<1> QED
  BY <1>1, <1>2 DEF InOrder, PopFollows

LEMMA PlanRest ==
  ASSUME NEW mail, NEW answer, NEW due, NEW switched
  PROVE  Plan(mail, answer, due, switched) \in Seq(RestStep)
<1>1. \A s \in Steps \ {"pop"} : Do(s) \in RestStep
  BY DEF Do, RestStep
<1>2. /\ <<Do("drain")>> \in Seq(RestStep) /\ <<Do("retry")>> \in Seq(RestStep)
      /\ <<Do("ask")>> \in Seq(RestStep) /\ <<Do("noop")>> \in Seq(RestStep)
      /\ <<>> \in Seq(RestStep)
  BY <1>1 DEF Steps
<1>3. \A s, t \in Seq(RestStep) : s \o t \in Seq(RestStep)
  OBVIOUS
<1> QED
  BY <1>2, <1>3 DEF Plan

LEMMA HandOverOrder ==
  ASSUME TypeInv, InOrder, NEW p \in Side, Draining(p), HandOver(p),
         UNCHANGED pending_deliveries,
         \A q \in Side : seq'[q].in_seq_no = seq[q].in_seq_no,
         \A q \in Side : q # p => state'[q] = state[q]
  PROVE  InOrder'
<1>1. \A q \in Side : MailNumber(q)' = MailNumber(q)
  BY SameNumber
<1>2. Tail(todo[p]) \in Seq(RestStep)
  BY RestOf DEF Draining
<1> DEFINE t == <<Do("pop")>> \o Tail(todo[p])
<1>3. t # <<>> /\ Tail(t) \in Seq(RestStep)
  <2> DEFINE rest == Tail(todo[p])
  <2>1. rest \in Seq(RestStep)
    BY <1>2
  <2> HIDE DEF rest
  <2>2. /\ Len(<<Do("pop")>> \o rest) = 1 + Len(rest)
        /\ Tail(<<Do("pop")>> \o rest) = rest
        /\ Len(rest) \in Nat
    BY <2>1
  <2>3. <<Do("pop")>> \o rest # <<>>
    <3>1. Len(<<>>) = 0 /\ 1 + Len(rest) # 0
      BY <2>2
    <3> QED
      BY <2>2, <3>1
  <2>4. t = <<Do("pop")>> \o rest
    BY DEF rest
  <2> QED
    BY <2>1, <2>2, <2>3, <2>4
<1>4. /\ todo' = [todo EXCEPT ![p] = t]
      /\ handed' = [handed EXCEPT ![p] = MailNumber(p) + 1]
  BY DEF HandOver
<1> HIDE DEF t
<1>5. /\ todo'[p] = t /\ handed'[p] = MailNumber(p) + 1
      /\ \A q \in Side : q # p => todo'[q] = todo[q] /\ handed'[q] = handed[q]
  BY <1>4 DEF TypeInv, TypeOK
<1>6. ASSUME NEW q \in Side, Open(q)'
      PROVE  /\ handed'[q] \in {MailNumber(q)', MailNumber(q)' + 1}
             /\ \/ todo'[q] \in Seq(RestStep)
                \/ /\ todo'[q] # <<>> /\ Tail(todo'[q]) \in Seq(RestStep)
                   /\ handed'[q] = MailNumber(q)' + 1
  <2>1. CASE q = p
    BY <1>1, <1>3, <1>5, <2>1
  <2>2. CASE q # p
    <3>1. Open(q)
      BY <1>6, <2>2 DEF Open
    <3> QED
      BY <1>1, <1>5, <2>2, <3>1 DEF InOrder, AtLeastOnceInOrder, PopFollows
  <2> QED
    BY <2>1, <2>2
<1> QED
  BY <1>6 DEF InOrder, AtLeastOnceInOrder, PopFollows

LEMMA CloseOrder ==
  ASSUME TypeInv, InOrder, NEW p \in Side, NEW reason, CloseChat(p, reason),
         UNCHANGED handed
  PROVE  InOrder'
<1>1. /\ state' = [state EXCEPT ![p] = "closed"] /\ UNCHANGED seq
      /\ pending_deliveries' = [pending_deliveries EXCEPT ![p] = <<>>]
      /\ todo' = [todo EXCEPT ![p] = <<>>]
  BY DEF CloseChat
<1>2. state'[p] = "closed"
  BY <1>1 DEF TypeInv, TypeOK
<1>3. \A q \in Side : q # p =>
        /\ state'[q] = state[q] /\ todo'[q] = todo[q]
        /\ pending_deliveries'[q] = pending_deliveries[q]
  BY <1>1 DEF TypeInv, TypeOK
<1>4. \A q \in Side : q # p => MailNumber(q)' = MailNumber(q)
  BY <1>1, <1>3 DEF MailNumber
<1> QED
  BY <1>2, <1>3, <1>4, Quiet DEF Open

LEMMA CommitFacts ==
  ASSUME TypeInv, NEW p \in Side, NEW act, NEW a, NEW b, NEW key, NEW new, NEW st,
         NEW o, Commit(p, act, a, b, key, new, st, o)
  PROVE  /\ UNCHANGED pending_deliveries
         /\ \A q \in Side : q # p => state'[q] = state[q]
BY DEF Commit, TypeInv, TypeOK

LEMMA NoRest == <<>> \in Seq(RestStep)
OBVIOUS

\* A message of one step's own, after which the operation goes on with `rest`.
LEMMA CommitOrder ==
  ASSUME TypeInv, InOrder, NEW p \in Side, Open(p),
         NEW act, NEW a, NEW b, NEW key, NEW new, NEW st, NEW o, NEW rest,
         Commit(p, act, a, b, key, new, st, o), GoOn(p, o, rest),
         rest = todo[p] \/ rest \in Seq(RestStep),
         \A q \in Side : seq'[q].in_seq_no = seq[q].in_seq_no, UNCHANGED handed
  PROVE  InOrder'
<1> DEFINE t == IF Confirmed(o) THEN rest ELSE <<>>
<1>1. t = todo[p] \/ t \in Seq(RestStep)
  BY NoRest
<1>2. todo' = [todo EXCEPT ![p] = t]
  BY DEF GoOn
<1> HIDE DEF t
<1>3. /\ UNCHANGED <<handed, pending_deliveries>>
      /\ \A q \in Side : q # p => state'[q] = state[q]
  BY CommitFacts
<1> QED
  BY <1>1, <1>2, <1>3, QuietStep

----------------------------------------------------------------------------
(* The actions *)

LEMMA ApplicationOrder ==
  ASSUME TypeInv, InOrder, NEW p \in Side, Application(p)
  PROVE  InOrder'
<1>0. TypeOK /\ todo' = todo => todo' = [todo EXCEPT ![p] = todo[p]]
  BY DEF TypeOK
<1>1. TypeOK
  BY DEF TypeInv
<1>2. CASE SendMessage(p) \/ NotifyLayer(p)
  <2>1. /\ Open(p) /\ UNCHANGED <<todo, handed>> /\ seq' = Counted(p)
        /\ \E act, a, o : Commit(p, act, a, 0, keys[p].key, keys[p], state[p], o)
    BY <1>2 DEF SendMessage, NotifyLayer, Idle
  <2>2. \A q \in Side : seq'[q].in_seq_no = seq[q].in_seq_no
    BY <1>1, <2>1, CountedType
  <2>3. /\ UNCHANGED <<handed, pending_deliveries>>
        /\ \A q \in Side : q # p => state'[q] = state[q]
    BY <2>1, CommitFacts
  <2>4. todo' = [todo EXCEPT ![p] = todo[p]]
    BY <1>0, <1>1, <2>1
  <2> QED
    BY <2>1, <2>2, <2>3, <2>4, QuietStep
<1>3. CASE StartRekey(p)
  <2>1. /\ Open(p) /\ UNCHANGED handed /\ seq' = Counted(p)
        /\ \E e, new, o : /\ Commit(p, "request", e, 0, keys[p].key, new, "rekeying", o)
                          /\ GoOn(p, o, todo[p])
    BY <1>3 DEF StartRekey, Idle, At
  <2>2. \A q \in Side : seq'[q].in_seq_no = seq[q].in_seq_no
    BY <1>1, <2>1, CountedType
  <2> QED
    BY <2>1, <2>2, CommitOrder
<1>4. CASE BeginDelete(p) \/ BeginFlush(p)
  <2>1. /\ Open(p) /\ UNCHANGED <<chatVars, pending_deliveries, handed>>
        /\ \/ \E i \in SentActs(p, {"msg"}) :
                todo' = [todo EXCEPT ![p] = <<[do |-> "delete", arg |-> i - 1]>>]
           \/ todo' = [todo EXCEPT ![p] = <<Do("flush")>>]
    BY <1>4 DEF BeginDelete, BeginFlush, Idle, history
  <2>2. \A i \in SentActs(p, {"msg"}) :
          <<[do |-> "delete", arg |-> i - 1]>> \in Seq(RestStep)
    <3>1. \A i \in SentActs(p, {"msg"}) : i - 1 \in Nat
      BY <1>1 DEF SentActs, TypeOK
    <3> QED
      BY <3>1 DEF RestStep, Steps
  <2>3. <<Do("flush")>> \in Seq(RestStep)
    BY DEF Do, RestStep, Steps
  <2>4. PICK rest \in Seq(RestStep) : todo' = [todo EXCEPT ![p] = rest]
    BY <2>1, <2>2, <2>3
  <2>5. /\ \A q \in Side : seq'[q].in_seq_no = seq[q].in_seq_no
        /\ \A q \in Side : q # p => state'[q] = state[q]
        /\ UNCHANGED <<handed, pending_deliveries>>
    BY <2>1 DEF chatVars
  <2> QED
    BY <2>1, <2>4, <2>5, QuietStep
<1>5. CASE SendDelete(p)
  <2>1. /\ Open(p) /\ UNCHANGED handed /\ seq' = Counted(p)
        /\ \E act, a, o : /\ Commit(p, act, a, 0, keys[p].key, keys[p], state[p], o)
                          /\ GoOn(p, o, Tail(todo[p]))
    BY <1>5 DEF SendDelete, At
  <2>2. Tail(todo[p]) \in Seq(RestStep)
    BY <1>5, RestOf DEF SendDelete
  <2>3. \A q \in Side : seq'[q].in_seq_no = seq[q].in_seq_no
    BY <1>1, <2>1, CountedType
  <2> QED
    BY <2>1, <2>2, <2>3, CommitOrder
<1>6. CASE Close(p)
  BY <1>6, CloseOrder DEF Close, history
<1> QED
  BY <1>2, <1>3, <1>4, <1>5, <1>6 DEF Application

\* A receipt appends to the mailbox what it adds to the counter.
LEMMA ReceiptOrder ==
  ASSUME TypeInv, InOrder, NEW p \in Side, Open(p), NEW f, NEW c \in SeqState,
         NEW ready \in Seq(Wrapper), c.in_seq_no = seq[p].in_seq_no + Len(ready),
         Receipt(p, f, c, ready)
  PROVE  InOrder'
<1> DEFINE mail == pending_deliveries[p] \o ready
<1>1. /\ seq' = [seq EXCEPT ![p] = c]
      /\ pending_deliveries' = [pending_deliveries EXCEPT ![p] = mail]
      /\ UNCHANGED handed
      /\ \A q \in Side : q # p => state'[q] = state[q]
  BY DEF Receipt, Mailed, history, TypeInv, TypeOK
<1>2. PICK answer, due, switched :
        todo' = [todo EXCEPT ![p] = Plan(mail, answer, due, switched)]
  BY DEF Receipt, Mailed
<1>3. Plan(mail, answer, due, switched) \in Seq(RestStep)
  BY PlanRest
<1>4. /\ Len(mail) = Len(pending_deliveries[p]) + Len(ready)
      /\ Len(pending_deliveries[p]) \in Nat /\ Len(ready) \in Nat
  <2>1. pending_deliveries[p] \in Seq(Wrapper)
    BY DEF TypeInv, TypeOK
  <2> QED
    BY <2>1
<1>5. seq[p].in_seq_no \in Nat
  BY CounterType DEF TypeInv
<1> HIDE DEF mail
<1>6. \A q \in Side :
        /\ seq'[q] = IF q = p THEN c ELSE seq[q]
        /\ pending_deliveries'[q] = IF q = p THEN mail ELSE pending_deliveries[q]
        /\ todo'[q] = IF q = p THEN Plan(mail, answer, due, switched) ELSE todo[q]
  BY <1>1, <1>2 DEF TypeInv, TypeOK
<1>7. c.in_seq_no - Len(mail) = seq[p].in_seq_no - Len(pending_deliveries[p])
  BY <1>4, <1>5
<1>8. \A q \in Side : MailNumber(q)' = MailNumber(q)
  BY <1>6, <1>7 DEF MailNumber
<1> QED
  BY <1>1, <1>3, <1>6, <1>8, Quiet DEF Open

\* What a frame taken in order, or early, commits.
LEMMA ReceiptOf ==
  ASSUME TypeInv, NEW p \in Side, NEW f \in net, ReceiveNext(p, f) \/ ReceiveEarly(p, f)
  PROVE  \E c \in SeqState, ready \in Seq(Wrapper) :
           /\ Open(p) /\ f.to = p /\ c.in_seq_no = seq[p].in_seq_no + Len(ready)
           /\ Receipt(p, f, c, ready)
<1>0. TypeOK
  BY DEF TypeInv
<1>1. /\ queue_in[p] \in SUBSET Wrapper
      /\ seq[p] \in SeqState /\ seq[p].in_seq_no \in Nat
  BY <1>0, CounterType DEF TypeOK
<1>2. /\ f.w \in Wrapper /\ RawOut(f.w) \in Nat
      /\ Stored(f.w) \in Wrapper /\ RawOut(Stored(f.w)) = RawOut(f.w)
  BY <1>0, RawOutType, StoredType DEF TypeOK, Frame
<1>3. CASE ReceiveNext(p, f)
  <2> DEFINE Q == queue_in[p]
  <2>1. PICK m \in NextMissing(Q, RawOut(f.w)) :
          \E first \in FirstWaiting(Q, m) :
            Receipt(p, f, accept_next(seq[p], Q, f.w, m, first), Ready(Q, Stored(f.w), m))
    BY <1>3 DEF ReceiveNext
  <2>2. PICK first \in FirstWaiting(Q, m) :
          Receipt(p, f, accept_next(seq[p], Q, f.w, m, first), Ready(Q, Stored(f.w), m))
    BY <2>1
  <2>3. Open(p) /\ f.to = p /\ RawOut(f.w) = seq[p].in_seq_no
    BY <1>3 DEF ReceiveNext, Idle, Readable
  <2> DEFINE c == accept_next(seq[p], Q, f.w, m, first)
  <2> DEFINE ready == Ready(Q, Stored(f.w), m)
  <2>4. c \in SeqState /\ c.in_seq_no = m
    <3> HIDE DEF Q
    <3> QED BY <1>1, <1>2, AcceptNextType DEF Q
  <2>5. ready \in Seq(Wrapper) /\ Len(ready) = m - RawOut(f.w)
    <3>1. m \in NextMissing(Q, RawOut(Stored(f.w)))
      BY <1>2
    <3> QED
      BY <1>1, <1>2, <3>1, ReadyType
  <2>6. m \in Nat
    BY <1>1, <1>2, NextMissingFacts
  <2>7. c.in_seq_no = seq[p].in_seq_no + Len(ready)
    BY <1>1, <2>3, <2>4, <2>5, <2>6
  <2>8. Receipt(p, f, c, ready)
    BY <2>2
  <2> HIDE DEF c, ready
  <2> QED
    BY <2>3, <2>4, <2>5, <2>7, <2>8
<1>4. CASE ReceiveEarly(p, f)
  <2> DEFINE c == accept_early(seq[p], f.w)
  <2>1. Open(p) /\ f.to = p /\ Receipt(p, f, c, <<>>)
    BY <1>4 DEF ReceiveEarly, Idle, Readable
  <2>2. c \in SeqState /\ c.in_seq_no = seq[p].in_seq_no
    BY <1>1, <1>2, AcceptEarlyType
  <2>3. /\ <<>> \in Seq(Wrapper) /\ Len(<<>>) = 0
        /\ seq[p].in_seq_no + Len(<<>>) = seq[p].in_seq_no
    BY <1>1
  <2> HIDE DEF c
  <2> QED
    BY <2>1, <2>2, <2>3
<1> QED
  BY <1>3, <1>4

LEMMA ReceiveOrder ==
  ASSUME TypeInv, InOrder, NEW p \in Side, Receive(p)
  PROVE  InOrder'
<1>1. ASSUME NEW f \in net, ReceiveNext(p, f) \/ ReceiveEarly(p, f) PROVE InOrder'
  <2>1. PICK c \in SeqState, ready \in Seq(Wrapper) :
          /\ Open(p) /\ c.in_seq_no = seq[p].in_seq_no + Len(ready)
          /\ Receipt(p, f, c, ready)
    BY <1>1, ReceiptOf
  <2> QED
    BY <2>1, ReceiptOrder
<1>2. ASSUME NEW f \in net, ReceiveRefused(p, f) PROVE InOrder'
  BY <1>2, CloseOrder DEF ReceiveRefused, history
<1>3. ASSUME NEW f \in net, ReceiveIgnored(p, f) PROVE InOrder'
  <2>1. UNCHANGED <<state, seq, pending_deliveries, todo, handed>>
    BY <1>3 DEF ReceiveIgnored, vars, chatVars, storeVars, runVars, history
  <2> QED
    BY <2>1, Quiet, SameNumber DEF Open
<1>4. CASE Discarded(p)
  BY <1>4, CloseOrder DEF Discarded, history
<1> QED
  BY <1>1, <1>2, <1>3, <1>4 DEF Receive

LEMMA ReplyOrder ==
  ASSUME TypeInv, InOrder, NEW p \in Side, Draining(p), NEW act, NEW a, NEW b,
         NEW key, NEW new, NEW st, Reply(p, act, a, b, key, new, st)
  PROVE  InOrder'
<1>1. PICK o : /\ Commit(p, act, a, b, key, new, st, o)
               /\ \/ HandOver(p)
                  \/ todo' = [todo EXCEPT ![p] = <<>>] /\ UNCHANGED handed
  BY DEF Reply
<1>2. \A q \in Side : seq'[q].in_seq_no = seq[q].in_seq_no
  BY CountedType DEF Reply, TypeInv
<1>3. /\ UNCHANGED pending_deliveries
      /\ \A q \in Side : q # p => state'[q] = state[q]
  BY <1>1, CommitFacts
<1>4. CASE HandOver(p)
  BY <1>2, <1>3, <1>4, HandOverOrder
<1>5. CASE todo' = [todo EXCEPT ![p] = <<>>] /\ UNCHANGED handed
  <2>1. Open(p)
    BY DEF Draining, At
  <2> QED
    BY <1>2, <1>3, <1>5, <2>1, NoRest, QuietStep
<1> QED
  BY <1>1, <1>4, <1>5

LEMMA PopOrder ==
  ASSUME TypeInv, InOrder, NEW p \in Side, Pop(p)
  PROVE  InOrder'
<1> DEFINE box == pending_deliveries[p]
<1> DEFINE rest == Tail(todo[p])
<1> DEFINE t == IF Len(box) = 1 THEN rest ELSE <<Do("drain")>> \o rest
<1>1. /\ At(p, "pop") /\ box # <<>> /\ UNCHANGED <<seq, handed>>
      /\ pending_deliveries' = [pending_deliveries EXCEPT ![p] = Tail(box)]
      /\ todo' = [todo EXCEPT ![p] = t]
      /\ \A q \in Side : q # p => state'[q] = state[q]
  BY DEF Pop, history, TypeInv, TypeOK
<1>2. Open(p) /\ rest \in Seq(RestStep)
  BY <1>1, RestOf
<1>3. t \in Seq(RestStep)
  <2> HIDE DEF rest
  <2>1. <<Do("drain")>> \in Seq(RestStep)
    BY DEF Do, RestStep, Steps
  <2>2. <<Do("drain")>> \o rest \in Seq(RestStep)
    BY <1>2, <2>1
  <2> QED
    BY <1>2, <2>2
<1>4. handed[p] = MailNumber(p) + 1
  <2>1. todo[p] \notin Seq(RestStep)
    <3>1. todo[p] # <<>> /\ Head(todo[p]).do = "pop"
      BY <1>1 DEF At
    <3>2. todo[p] \in Seq(RestStep) => Head(todo[p]) \in RestStep
      BY <3>1
    <3> QED
      BY <3>1, <3>2 DEF RestStep
  <2> QED
    BY <1>2, <2>1 DEF InOrder, PopFollows
<1>5. seq[p].in_seq_no \in Nat /\ Len(Tail(box)) = Len(box) - 1 /\ Len(box) \in Nat
  <2>1. box \in Seq(Wrapper)
    BY DEF TypeInv, TypeOK
  <2>2. Len(Tail(box)) = Len(box) - 1 /\ Len(box) \in Nat
    <3> HIDE DEF box
    <3> QED BY <1>1, <2>1
  <2> QED
    BY <2>2, CounterType DEF TypeInv
<1> HIDE DEF t, rest
<1>6. \A q \in Side :
        /\ seq'[q] = seq[q] /\ handed'[q] = handed[q]
        /\ pending_deliveries'[q] = IF q = p THEN Tail(box) ELSE pending_deliveries[q]
        /\ todo'[q] = IF q = p THEN t ELSE todo[q]
  BY <1>1 DEF TypeInv, TypeOK
<1>7. MailNumber(p)' = MailNumber(p) + 1
  <2>1. MailNumber(p)' = seq[p].in_seq_no - Len(Tail(box))
    BY <1>6 DEF MailNumber
  <2>2. MailNumber(p) = seq[p].in_seq_no - Len(box)
    BY DEF MailNumber
  <2> DEFINE n == seq[p].in_seq_no
  <2> DEFINE l == Len(box)
  <2>3. n \in Nat /\ l \in Nat /\ Len(Tail(box)) = l - 1
    BY <1>5
  <2> HIDE DEF n, l
  <2>4. n - (l - 1) = (n - l) + 1
    BY <2>3
  <2> QED
    BY <2>1, <2>2, <2>3, <2>4 DEF n, l
<1>8. \A q \in Side : q # p => MailNumber(q)' = MailNumber(q)
  BY <1>6 DEF MailNumber
<1>9. ASSUME NEW q \in Side, Open(q)'
      PROVE  /\ handed'[q] \in {MailNumber(q)', MailNumber(q)' + 1}
             /\ \/ todo'[q] \in Seq(RestStep)
                \/ /\ todo'[q] # <<>> /\ Tail(todo'[q]) \in Seq(RestStep)
                   /\ handed'[q] = MailNumber(q)' + 1
  <2>1. CASE q = p
    BY <1>3, <1>4, <1>6, <1>7, <2>1
  <2>2. CASE q # p
    <3>1. Open(q)
      BY <1>1, <1>9, <2>2 DEF Open
    <3> QED
      BY <1>6, <1>8, <2>2, <3>1 DEF InOrder, AtLeastOnceInOrder, PopFollows
  <2> QED
    BY <2>1, <2>2
<1> QED
  BY <1>9 DEF InOrder, AtLeastOnceInOrder, PopFollows

LEMMA DrainOrder ==
  ASSUME TypeInv, InOrder, NEW p \in Side, Drain(p)
  PROVE  InOrder'
<1>1. ASSUME Draining(p), HandOver(p), UNCHANGED <<state, pending_deliveries>>,
             \A q \in Side : seq'[q].in_seq_no = seq[q].in_seq_no
      PROVE  InOrder'
  BY <1>1, HandOverOrder
<1>2. ASSUME Draining(p), Unanswered(p) PROVE InOrder'
  BY <1>1, <1>2 DEF Unanswered, chatVars, storeVars
<1>3. CASE DeliverPlain(p) \/ DeliverFlush(p)
  BY <1>1, <1>3 DEF DeliverPlain, DeliverFlush, chatVars, storeVars
<1>4. CASE DeliverNotifyLayer(p)
  <2>1. \A q \in Side : seq'[q].in_seq_no = seq[q].in_seq_no
    BY <1>4 DEF DeliverNotifyLayer, TypeInv, TypeOK, SeqState
  <2> QED
    BY <1>1, <1>4, <2>1 DEF DeliverNotifyLayer, storeVars
<1>5. CASE DeliverRequestKey(p)
  <2>1. Draining(p)
    BY <1>5 DEF DeliverRequestKey
  <2>2. \/ Unanswered(p)
        \/ \E act, a, b, key, new, st : Reply(p, act, a, b, key, new, st)
    BY <1>5 DEF DeliverRequestKey
  <2> QED
    BY <1>2, <2>1, <2>2, ReplyOrder
<1>6. CASE DeliverAcceptKey(p)
  <2>1. Draining(p)
    BY <1>6 DEF DeliverAcceptKey
  <2>2. \/ Unanswered(p)
        \/ \E act, a, b, key, new, st : Reply(p, act, a, b, key, new, st)
    BY <1>6 DEF DeliverAcceptKey
  <2> QED
    BY <1>2, <2>1, <2>2, ReplyOrder
<1>7. CASE DeliverCommitKey(p)
  <2>1. Draining(p)
    BY <1>7 DEF DeliverCommitKey
  <2>2. \/ Unanswered(p)
        \/ \E act, a, b, key, new, st : Reply(p, act, a, b, key, new, st)
        \/ CloseChat(p, "commit") /\ UNCHANGED history
    BY <1>7 DEF DeliverCommitKey
  <2> QED
    BY <1>2, <2>1, <2>2, ReplyOrder, CloseOrder DEF history
<1>8. CASE DeliverAbortKey(p)
  BY <1>2, <1>8 DEF DeliverAbortKey
<1>9. CASE Pop(p)
  BY <1>9, PopOrder
<1> QED
  BY <1>3, <1>4, <1>5, <1>6, <1>7, <1>8, <1>9 DEF Drain

LEMMA WorkOrder ==
  ASSUME TypeInv, InOrder, NEW p \in Side, Work(p)
  PROVE  InOrder'
<1>0. TypeOK
  BY DEF TypeInv
<1>1. CASE RetryPending(p)
  <2>1. /\ Retrying(p) /\ UNCHANGED handed
        /\ \/ /\ \/ todo' = [todo EXCEPT ![p] = Retried(p)]
                 \/ todo' = [todo EXCEPT ![p] = <<>>]
              /\ UNCHANGED <<state, seq, pending_deliveries>>
           \/ CloseChat(p, "rejected")
    BY <1>1 DEF RetryPending, history, chatVars
  <2>2. Open(p)
    BY <2>1 DEF Retrying, Idle, At, Draining
  <2>3. Retried(p) = todo[p] \/ Retried(p) \in Seq(RestStep)
    BY RestOf DEF Retried
  <2>4. CASE CloseChat(p, "rejected")
    BY <2>1, <2>4, CloseOrder
  <2>5. ASSUME NEW rest, rest = todo[p] \/ rest \in Seq(RestStep),
               todo' = [todo EXCEPT ![p] = rest],
               UNCHANGED <<state, seq, pending_deliveries>>
        PROVE  InOrder'
    BY <2>1, <2>2, <2>5, QuietStep
  <2> QED
    BY <2>1, <2>3, <2>4, <2>5, NoRest
<1>2. CASE RetryNothing(p)
  <2>1. /\ At(p, "retry") /\ todo' = [todo EXCEPT ![p] = Tail(todo[p])]
        /\ UNCHANGED <<state, seq, pending_deliveries, handed>>
    BY <1>2 DEF RetryNothing, chatVars, storeVars, history
  <2>2. Open(p) /\ Tail(todo[p]) \in Seq(RestStep)
    BY <2>1, RestOf
  <2> QED
    BY <2>1, <2>2, QuietStep
<1>3. CASE Ask(p)
  <2>1. Open(p) /\ Tail(todo[p]) \in Seq(RestStep)
    BY <1>3, RestOf DEF Ask
  <2>2. CASE /\ seq' = [seq EXCEPT ![p].resend_due = NoSpan]
             /\ todo' = [todo EXCEPT ![p] = Tail(@)]
             /\ UNCHANGED <<state, storeVars, history>>
    <3>1. \A q \in Side : seq'[q].in_seq_no = seq[q].in_seq_no
      BY <1>0, <2>2 DEF TypeOK, SeqState
    <3>2. /\ UNCHANGED <<handed, pending_deliveries, state>>
          /\ todo' = [todo EXCEPT ![p] = Tail(todo[p])]
      BY <2>2 DEF history, storeVars
    <3> QED
      BY <2>1, <3>1, <3>2, QuietStep
  <2>3. CASE /\ seq' = [Counted(p) EXCEPT ![p].resend_due = NoSpan]
             /\ UNCHANGED handed
             /\ \E a, b, o : /\ Commit(p, "resend", a, b, keys[p].key, keys[p], state[p], o)
                             /\ GoOn(p, o, Tail(todo[p]))
    <3>1. \A q \in Side : seq'[q].in_seq_no = seq[q].in_seq_no
      BY <1>0, <2>3 DEF TypeOK, SeqState, Counted
    <3> QED
      BY <2>1, <2>3, <3>1, CommitOrder
  <2> QED
    BY <1>3, <2>2, <2>3 DEF Ask
<1>4. CASE ConfirmSwitch(p)
  <2>1. /\ At(p, "noop") /\ UNCHANGED handed /\ seq' = Counted(p)
        /\ \E o : /\ Commit(p, "noop", 0, 0, keys[p].key, keys[p], state[p], o)
                  /\ GoOn(p, o, Tail(todo[p]))
    BY <1>4 DEF ConfirmSwitch
  <2>2. Open(p) /\ Tail(todo[p]) \in Seq(RestStep)
    BY <2>1, RestOf
  <2>3. \A q \in Side : seq'[q].in_seq_no = seq[q].in_seq_no
    BY <1>0, <2>1, CountedType
  <2> QED
    BY <2>1, <2>2, <2>3, CommitOrder
<1> QED
  BY <1>1, <1>2, <1>3, <1>4 DEF Work

\* A crash drops the running operation; the mailbox and the counter are stored.
LEMMA LifecycleOrder ==
  ASSUME TypeInv, InOrder, NEW p \in Side, Lifecycle(p)
  PROVE  InOrder'
<1>1. UNCHANGED <<state, seq, pending_deliveries, handed>>
  BY DEF Lifecycle, Crash, Start, ResumeDelivery, ResumeWork, chatVars, storeVars, history
<1>2. \/ UNCHANGED todo
      \/ todo' = [todo EXCEPT ![p] = <<>>]
      \/ \E mail, answer, due, switched :
           todo' = [todo EXCEPT ![p] = Plan(mail, answer, due, switched)]
  <2>1. CASE Crash(p)
    BY <2>1 DEF Crash
  <2>2. CASE Start(p)
    BY <2>2 DEF Start
  <2>3. CASE ResumeDelivery(p)
    BY <2>3 DEF ResumeDelivery
  <2>4. CASE ResumeWork(p)
    BY <2>4 DEF ResumeWork
  <2> QED
    BY <2>1, <2>2, <2>3, <2>4 DEF Lifecycle
<1>3. ASSUME NEW q \in Side PROVE todo'[q] = todo[q] \/ todo'[q] \in Seq(RestStep)
  <2>1. CASE UNCHANGED todo
    BY <2>1
  <2>2. ASSUME NEW rest \in Seq(RestStep), todo' = [todo EXCEPT ![p] = rest]
        PROVE  todo'[q] = todo[q] \/ todo'[q] \in Seq(RestStep)
    BY <2>2 DEF TypeInv, TypeOK
  <2> QED
    BY <1>2, <2>1, <2>2, NoRest, PlanRest
<1>4. \A q \in Side : MailNumber(q)' = MailNumber(q)
  BY <1>1 DEF MailNumber
<1> QED
  BY <1>1, <1>3, <1>4, Quiet DEF Open

LEMMA OrderInit == Init => InOrder
<1> SUFFICES ASSUME Init PROVE InOrder
  OBVIOUS
<1>1. \A p \in Side : /\ todo[p] = <<>> /\ handed[p] = 0 /\ seq[p] = InitialSeq
                      /\ pending_deliveries[p] = <<>>
  BY DEF Init
<1>2. \A p \in Side : MailNumber(p) = 0
  <2>1. InitialSeq.in_seq_no = 0 /\ Len(<<>>) = 0 /\ 0 - 0 = 0
    BY DEF InitialSeq
  <2> QED
    BY <1>1, <2>1 DEF MailNumber
<1> QED
  BY <1>1, <1>2, NoRest DEF InOrder, AtLeastOnceInOrder, PopFollows

LEMMA OrderNext == TypeInv /\ InOrder /\ [Next]_vars => InOrder'
<1> SUFFICES ASSUME TypeInv, InOrder, [Next]_vars PROVE InOrder'
  OBVIOUS
<1>1. CASE Next
  BY <1>1, ApplicationOrder, ReceiveOrder, DrainOrder, WorkOrder, LifecycleOrder DEF Next
<1>2. CASE UNCHANGED vars
  <2>1. UNCHANGED <<state, seq, pending_deliveries, todo, handed>>
    BY <1>2 DEF vars, chatVars, storeVars, runVars, history
  <2> QED
    BY <2>1, Quiet, SameNumber DEF Open
<1> QED
  BY <1>1, <1>2

\* Nothing leaves the mailbox before it is handed to the application, and only
\* its head is handed over, across every loss, failure and crash: the inbox of
\* receive.py delivers at least once and in order.
THEOREM DeliveredInOrder == Spec => []AtLeastOnceInOrder
<1>1. InOrder => AtLeastOnceInOrder
  BY DEF InOrder
<1> QED
  BY <1>1, OrderInit, OrderNext, TypeInit, TypeNext, PTL DEF Spec

----------------------------------------------------------------------------
(* The keys: SettledKeysAgree and SendKeyHeld look at keys only, and are   *)
(* far from inductive. KeyInv adds what the two sides have said to each    *)
(* other about their exchanges (SaidWell) and how the keys they hold, and  *)
(* those of what they may still send, follow from it (HeldWell). Its proof *)
(* takes any step as a move of one of nine kinds, shows that each kind     *)
(* keeps KeyInv, and then that every action is a move.                     *)

ExchangeActs == {"request", "accept", "commit", "abort"}

\* Entry i of what q has said is a request, an answer or the end of exchange e.
Req(q, i, e) ==
  i \in DOMAIN sent[q] /\ sent[q][i].act = "request" /\ sent[q][i].a = e
Acc(q, i, e, b) ==
  /\ i \in DOMAIN sent[q] /\ sent[q][i].act = "accept"
  /\ sent[q][i].a = e /\ sent[q][i].b = b
Com(q, i, e, b) ==
  /\ i \in DOMAIN sent[q] /\ sent[q][i].act = "commit"
  /\ sent[q][i].a = e /\ sent[q][i].b = b
Exch(q, i) == i \in DOMAIN sent[q] /\ sent[q][i].act \in ExchangeActs

\* Something q has sent, and may send again, is under key k.
UsedBy(q, k) ==
  \/ \E r \in retained_out[q] : r.key = k
  \/ \E f \in net : f.to = Peer(q) /\ f.key = k

\* The number of messages p has handled: the head counts before its pop.
Passed(p) == IF todo[p] # <<>> /\ Head(todo[p]).do = "pop"
               THEN MailNumber(p) + 1 ELSE MailNumber(p)

----------------------------------------------------------------------------
(* The exchanges as the two sides have spoken of them *)

\* No id is requested twice by one side, and no key offered twice.
RequestsDiffer(q) ==
  \A i, j, e \in Nat : Req(q, i, e) /\ Req(q, j, e) => i = j
OffersDiffer(p, q) ==
  \A i, j, d, e, b \in Nat : Acc(p, i, d, b) /\ Acc(q, j, e, b) => p = q /\ d = e
OffersMinted(p) == \A i, e, b \in Nat : Acc(p, i, e, b) => b <= minted

\* An answer is to a request that has been handled or is at the head.
AcceptAnswers(p) ==
  \A i, e, b \in Nat : Acc(p, i, e, b) =>
    \E n \in Nat : Req(Peer(p), n, e) /\ n <= MailNumber(p) + 1

\* A commit takes the key of an answer, and q has said nothing of any exchange
\* between its request and its commit.
CommitAnswers(q) ==
  \A i, e, b \in Nat : Com(q, i, e, b) =>
    /\ \E j \in Nat : Acc(Peer(q), j, e, b)
    /\ \E n \in Nat : /\ Req(q, n, e) /\ n < i
                      /\ \A m \in Nat : n < m /\ m < i => ~ Exch(q, m)

\* The request of a side that waits is the last it said of any exchange.
RequestLast(q) ==
  keys[q].rekey_role = "requested" =>
    /\ keys[q].previous_key = NoKey
    /\ \E n \in Nat : /\ Req(q, n, keys[q].exchange_id)
                      /\ \A m \in Nat : n < m => ~ Exch(q, m)

SaidWell(p) ==
  /\ RequestsDiffer(p) /\ OffersDiffer(p, p) /\ OffersDiffer(p, Peer(p))
  /\ OffersMinted(p) /\ AcceptAnswers(p) /\ CommitAnswers(p) /\ RequestLast(p)

----------------------------------------------------------------------------
(* The keys, relative to what has been said *)

Bounded(p) ==
  /\ keys[p].key <= minted /\ keys[p].previous_key <= minted
  /\ keys[p].pending_key <= minted
  /\ keys[p].pending_key # NoKey => keys[p].pending_key # keys[p].key
  /\ \A k \in Nat : UsedBy(p, k) => k <= minted

\* The pending key is the one p offered for its exchange.
PendingOffered(p) ==
  keys[p].pending_key # NoKey =>
    \E i \in Nat : Acc(p, i, keys[p].exchange_id, keys[p].pending_key)

\* While q waits, the answer on its way to it is still what the peer holds.
AnswerHeld(q) ==
  keys[q].rekey_role = "requested" /\ Open(Peer(q)) =>
    \A i, b \in Nat : Acc(Peer(q), i, keys[q].exchange_id, b)
                        => keys[Peer(q)].pending_key = b

\* A side that has adopted the key its peer holds as pending keeps the old one
\* and begins nothing until it hears the new one.
Ahead(p) ==
  keys[p].pending_key # NoKey /\ keys[Peer(p)].key = keys[p].pending_key =>
    /\ keys[Peer(p)].rekey_role = "none"
    /\ keys[Peer(p)].previous_key = keys[p].key
    /\ keys[Peer(p)].new_key_confirmed = FALSE
    /\ \E i, e \in Nat : Com(Peer(p), i, e, keys[p].pending_key)

\* Only a side that has adopted the pending key speaks of it or under it.
PeerUse(p) ==
  keys[p].pending_key # NoKey /\ Open(Peer(p)) =>
    /\ UsedBy(Peer(p), keys[p].pending_key) =>
         keys[Peer(p)].key = keys[p].pending_key
    /\ \A i, e \in Nat : Com(Peer(p), i, e, keys[p].pending_key) =>
         keys[Peer(p)].key = keys[p].pending_key
OwnUse(p) == keys[p].pending_key # NoKey => ~ UsedBy(p, keys[p].pending_key)

\* The commit of the exchange p has accepted is still to be handled.
CommitWaits(p) ==
  keys[p].pending_key # NoKey =>
    \A i, b \in Nat : Com(Peer(p), i, keys[p].exchange_id, b) => i > Passed(p)
PassedSaid(p) == Passed(p) <= Len(sent[Peer(p)])

KeysMeet(p) ==
  Open(p) /\ Open(Peer(p)) =>
    \/ keys[p].key = keys[Peer(p)].key
    \/ keys[Peer(p)].key = keys[p].pending_key
    \/ keys[p].key = keys[Peer(p)].pending_key

HeldWell(p) ==
  /\ Bounded(p) /\ PendingOffered(p) /\ AnswerHeld(p) /\ Ahead(p) /\ PeerUse(p)
  /\ OwnUse(p) /\ CommitWaits(p) /\ PassedSaid(p) /\ KeysMeet(p)

KeyInv == \A p \in Side : SaidWell(p) /\ HeldWell(p)

----------------------------------------------------------------------------
(* What one step of side x does to all this *)

\* x says one more thing; "msg" stands for whatever is of no exchange.
Adds(x, act, a, b) ==
  LET last == Len(sent[x]) + 1
  IN /\ \A i, e \in Nat :
          Req(x, i, e)' <=> Req(x, i, e) \/ (act = "request" /\ i = last /\ e = a)
     /\ \A i, e, c \in Nat :
          /\ Acc(x, i, e, c)' <=>
               Acc(x, i, e, c) \/ (act = "accept" /\ i = last /\ e = a /\ c = b)
          /\ Com(x, i, e, c)' <=>
               Com(x, i, e, c) \/ (act = "commit" /\ i = last /\ e = a /\ c = b)
     /\ \A i \in Nat : Exch(x, i)' <=> Exch(x, i) \/ (act \in ExchangeActs /\ i = last)
     /\ Len(sent'[x]) \in Nat /\ Len(sent'[x]) >= Len(sent[x])

\* The mailbox of x moves on, past no commit x could still use.
Advances(x) ==
  /\ MailNumber(x)' \in Nat /\ MailNumber(x)' >= MailNumber(x)
  /\ Passed(x)' \in Nat /\ Passed(x)' <= Len(sent[Peer(x)])
  /\ keys'[x].pending_key # NoKey =>
       \A i, b \in Nat : Com(Peer(x), i, keys'[x].exchange_id, b) =>
         i > Passed(x)' \/ i <= Passed(x)

Turn(x) ==
  LET y == Peer(x)
  IN /\ keys'[y] = keys[y] /\ (Open(y)' <=> Open(y)) /\ (Open(x)' => Open(x))
     /\ Adds(y, "msg", 0, 0) /\ Len(sent'[y]) = Len(sent[y])
     /\ Passed(y)' = Passed(y) /\ MailNumber(y)' = MailNumber(y)
     /\ Advances(x)
     /\ \A k \in Nat : UsedBy(y, k)' => UsedBy(y, k)
     /\ \A k \in Nat : UsedBy(x, k)' =>
          UsedBy(x, k) \/ k = keys[x].key \/ k = keys'[x].key

Same(x) == keys'[x] = keys[x] /\ Adds(x, "msg", 0, 0) /\ minted' = minted

Asks(x) ==
  \E e \in Nat :
    /\ keys[x].exchange_id = NoExchange /\ keys[x].previous_key = NoKey
    /\ \A i \in Nat : ~ Req(x, i, e)
    /\ keys'[x] = Requested(keys[x], e)
    /\ Adds(x, "request", e, 0) /\ minted' = minted

Joins(x) ==
  \E e \in Nat :
    /\ keys[x].rekey_role # "accepted" /\ keys[x].previous_key = NoKey
    /\ MailNumber(x) + 1 \in Nat /\ Req(Peer(x), MailNumber(x) + 1, e)
    /\ keys'[x] = Accepted(keys[x], e, minted + 1)
    /\ Adds(x, "accept", e, minted + 1) /\ minted' = minted + 1
    /\ Passed(x)' <= MailNumber(x) + 1

Refuses(x) ==
  /\ keys[x].previous_key # NoKey /\ keys'[x] = keys[x]
  /\ \E e \in Nat : Adds(x, "abort", e, 0)
  /\ minted' = minted

Adopts(x) ==
  \E e, b, j \in Nat :
    /\ Acc(Peer(x), j, e, b) /\ Open(x)
    /\ keys[x].exchange_id = e /\ keys[x].rekey_role = "requested"
    /\ keys'[x] = adopt_new_key(keys[x], b)
    /\ Adds(x, "commit", e, b) /\ minted' = minted

Follows(x) ==
  LET b == keys[x].pending_key
  IN /\ b # NoKey
     /\ UsedBy(Peer(x), b) \/ \E i, e \in Nat : Com(Peer(x), i, e, b)
     /\ keys'[x].key = b /\ keys'[x].previous_key \in {keys[x].key, NoKey}
     /\ keys'[x].exchange_id = NoExchange /\ keys'[x].rekey_role = "none"
     /\ keys'[x].pending_key = NoKey
     /\ Adds(x, "msg", 0, 0) /\ minted' = minted

Hears(x) ==
  /\ keys'[x].key = keys[x].key /\ keys'[x].pending_key = keys[x].pending_key
  /\ keys'[x].exchange_id = keys[x].exchange_id
  /\ keys'[x].rekey_role = keys[x].rekey_role
  /\ \/ keys'[x].new_key_confirmed = keys[x].new_key_confirmed
     \/ keys[x].key # NoKey /\ UsedBy(Peer(x), keys[x].key)
  /\ \/ keys'[x].previous_key = keys[x].previous_key
     \/ keys'[x].previous_key = NoKey /\ keys'[x].new_key_confirmed = TRUE
  /\ Adds(x, "msg", 0, 0) /\ minted' = minted

Ends(x) ==
  LET h == MailNumber(x) + 1
  IN /\ keys'[x] = clear(keys[x])
     /\ \/ keys[x].rekey_role # "accepted"
        \/ /\ h \in Nat /\ Exch(Peer(x), h) /\ Passed(x) = h
           /\ \A e \in Nat : ~ Req(Peer(x), h, e)
     /\ Adds(x, "msg", 0, 0) /\ minted' = minted

Closes(x) ==
  keys'[x] = Scrubbed(keys[x]) /\ ~ Open(x)' /\ Adds(x, "msg", 0, 0) /\ minted' = minted

Move(x) ==
  /\ Turn(x)
  /\ \/ Same(x) \/ Asks(x) \/ Joins(x) \/ Refuses(x) \/ Adopts(x)
     \/ Follows(x) \/ Hears(x) \/ Ends(x) \/ Closes(x)

----------------------------------------------------------------------------
(* Facts the cases share *)

\* What is said of an exchange has a number, and each entry is of one kind.
LEMMA Spoken ==
  ASSUME TypeOK, NEW q \in Side
  PROVE  /\ Len(sent[q]) \in Nat
         /\ \A i \in Nat : Exch(q, i) => i <= Len(sent[q]) /\ i >= 1
         /\ \A i, e \in Nat : Req(q, i, e) => Exch(q, i)
         /\ \A i, e, b \in Nat : Acc(q, i, e, b) => Exch(q, i)
         /\ \A i, e, b \in Nat : Com(q, i, e, b) => Exch(q, i)
         /\ \A i, d, e, b \in Nat : ~ (Req(q, i, d) /\ Com(q, i, e, b))
<1>1. sent[q] \in Seq([act : Acts, a : Nat, b : Nat])
  BY DEF TypeOK
<1>2. Len(sent[q]) \in Nat /\ DOMAIN sent[q] = 1 .. Len(sent[q])
  BY <1>1
<1> QED
  BY <1>2 DEF Exch, Req, Acc, Com, ExchangeActs

\* The key fields of a side, as numbers.
KeyFields(k) ==
  /\ k.key \in Nat \cup {NoKey} /\ k.pending_key \in Nat \cup {NoKey}
  /\ k.previous_key \in Nat \cup {NoKey} /\ k.exchange_id \in Int
  /\ k.new_key_confirmed \in BOOLEAN
  /\ k.rekey_role \in {"none", "requested", "accepted"}

KeySide(p) ==
  /\ KeyFields(keys[p]) /\ Consistent(state[p], keys[p])
  /\ keys[p].exchange_id = NoExchange \/ keys[p].exchange_id \in Nat
  /\ Open(p) => keys[p].key # NoKey
  /\ state[p] = "rekeying" => Open(p)
  /\ MailNumber(p) \in Nat /\ Passed(p) \in Nat

LEMMA KeySides ==
  ASSUME TypeInv, ExchangeMatchesState, KeyInv, NEW p \in Side
  PROVE  KeySide(p)
<1>1. TypeOK
  BY DEF TypeInv
<1>2. keys[p] \in KeyState /\ sent[p] \in Seq([act : Acts, a : Nat, b : Nat])
  BY <1>1 DEF TypeOK
<1>3. KeyFields(keys[p])
  BY <1>2 DEF KeyFields, KeyState, Key, Role
<1>4. Consistent(state[p], keys[p])
  BY ConsistentSides
<1>5. \A i \in DOMAIN sent[p] : sent[p][i].a \in Nat
  <2> DEFINE Entry == [act : Acts, a : Nat, b : Nat]
  <2>1. \A r \in Entry : r.a \in Nat
    OBVIOUS
  <2>2. sent[p] \in Seq(Entry)
    BY <1>2
  <2> HIDE DEF Entry
  <2>3. \A i \in DOMAIN sent[p] : sent[p][i] \in Entry
    BY <2>2, SeqMembers
  <2> QED
    BY <2>1, <2>3
<1>6. keys[p].exchange_id = NoExchange \/ keys[p].exchange_id \in Nat
  <2>1. CASE keys[p].rekey_role = "none"
    BY <2>1, <1>4 DEF Consistent
  <2>2. CASE keys[p].rekey_role = "requested"
    BY <2>2, <1>5 DEF KeyInv, SaidWell, RequestLast, Req
  <2>3. CASE keys[p].rekey_role = "accepted"
    BY <2>3, <1>4, <1>5 DEF KeyInv, HeldWell, PendingOffered, Acc, Consistent
  <2> QED
    BY <1>3, <2>1, <2>2, <2>3 DEF KeyFields
<1>7. MailNumber(p) \in Nat
  <2>1. /\ seq[p].in_seq_no \in Nat /\ Len(pending_deliveries[p]) \in Nat
        /\ Len(pending_deliveries[p]) <= seq[p].in_seq_no
    <3>1. pending_deliveries[p] \in Seq(Wrapper)
      BY <1>1 DEF TypeOK
    <3> QED
      BY <1>1, <3>1, CounterType DEF TypeInv, MailCounted
  <2> QED
    BY <2>1 DEF MailNumber
<1>8. Passed(p) \in Nat
  BY <1>7 DEF Passed
<1>9. (Open(p) => keys[p].key # NoKey) /\ (state[p] = "rekeying" => Open(p))
  BY DEF TypeInv, KeyHeld, Open
<1> QED
  BY <1>3, <1>4, <1>6, <1>7, <1>8, <1>9 DEF KeySide

LEMMA Sides ==
  ASSUME NEW x \in Side
  PROVE  /\ Peer(x) \in Side /\ Peer(x) # x /\ Peer(Peer(x)) = x
         /\ \A p \in Side : p = x \/ p = Peer(x)
BY DEF Side, Peer

----------------------------------------------------------------------------
(* What has been said stays well said *)

\* When x may say of an exchange what it says.
MaySay(x, act, a, b) ==
  /\ minted <= minted'
  /\ act = "request" => \A i \in Nat : ~ Req(x, i, a)
  /\ act = "accept" => /\ b = minted + 1 /\ minted' = b
                       /\ Req(Peer(x), MailNumber(x) + 1, a)
  /\ act = "commit" => /\ \E j \in Nat : Acc(Peer(x), j, a, b)
                       /\ \E n \in Nat : /\ Req(x, n, a)
                                         /\ \A m \in Nat : n < m => ~ Exch(x, m)

LEMMA SaidNext ==
  ASSUME TypeOK, KeyInv, NEW x \in Side, KeySide(x), KeySide(Peer(x)),
         minted' \in Nat, Turn(x), NEW act, NEW a \in Nat, NEW b \in Nat,
         Adds(x, act, a, b), MaySay(x, act, a, b), RequestLast(x)'
  PROVE  SaidWell(x)' /\ SaidWell(Peer(x))'
<1> DEFINE y == Peer(x)
<1>1. /\ y \in Side /\ Peer(y) = x /\ x # y
  BY Sides
<1>2. SaidWell(x) /\ SaidWell(y) /\ minted \in Nat
  BY <1>1 DEF KeyInv, TypeOK
<1>3. \A i, e, c \in Nat :
         /\ Req(y, i, e)' <=> Req(y, i, e)
         /\ Acc(y, i, e, c)' <=> Acc(y, i, e, c)
         /\ Com(y, i, e, c)' <=> Com(y, i, e, c)
         /\ Exch(y, i)' <=> Exch(y, i)
  BY DEF Turn, Adds, ExchangeActs
<1>4. /\ MailNumber(x)' >= MailNumber(x) /\ MailNumber(y)' = MailNumber(y)
      /\ keys'[y] = keys[y] /\ MailNumber(x)' \in Int
      /\ MailNumber(x) \in Nat /\ MailNumber(y) \in Nat
  BY DEF Turn, Advances, KeySide
<1> DEFINE last == Len(sent[x]) + 1
<1>5. last \in Nat /\ \A i \in Nat : Exch(x, i) => i < last
  BY Spoken
<1>6. \A i, e, c \in Nat :
         /\ Req(x, i, e)' <=> Req(x, i, e) \/ (act = "request" /\ i = last /\ e = a)
         /\ Acc(x, i, e, c)' <=>
              Acc(x, i, e, c) \/ (act = "accept" /\ i = last /\ e = a /\ c = b)
         /\ Com(x, i, e, c)' <=>
              Com(x, i, e, c) \/ (act = "commit" /\ i = last /\ e = a /\ c = b)
         /\ Exch(x, i)' => Exch(x, i) \/ i = last
  BY DEF Adds
<1>7. \A q \in {x, y} : \A i, e, c \in Nat :
         /\ Req(q, i, e) => Exch(q, i)
         /\ Acc(q, i, e, c) => Exch(q, i)
         /\ Com(q, i, e, c) => Exch(q, i)
  BY <1>1, Spoken
<1> HIDE DEF y, last
<1>8. RequestsDiffer(x)'
  BY <1>2, <1>6 DEF SaidWell, RequestsDiffer, MaySay
<1>9. RequestsDiffer(y)'
  BY <1>2, <1>3 DEF SaidWell, RequestsDiffer
<1>10. OffersMinted(x)' /\ OffersMinted(y)'
  BY <1>2, <1>3, <1>6 DEF SaidWell, OffersMinted, MaySay
<1>11. OffersDiffer(y, y)'
  BY <1>1, <1>2, <1>3 DEF SaidWell, OffersDiffer
<1>12. OffersDiffer(x, x)' /\ OffersDiffer(x, y)' /\ OffersDiffer(y, x)'
  <2>1. ASSUME NEW c \in Nat, c <= minted
        PROVE  ~ (act = "accept" /\ c = b)
    BY <2>1, <1>2 DEF MaySay
  <2>2. ASSUME NEW i \in Nat, NEW e \in Nat, NEW c \in Nat
        PROVE  /\ Acc(x, i, e, c) => c <= minted
               /\ Acc(y, i, e, c) => c <= minted
    BY <1>2 DEF SaidWell, OffersMinted
  <2>3. OffersDiffer(x, x)'
    BY <1>2, <1>6, <2>1, <2>2 DEF SaidWell, OffersDiffer
  <2>4. OffersDiffer(x, y)'
    BY <1>1, <1>2, <1>3, <1>6, <2>1, <2>2 DEF SaidWell, OffersDiffer
  <2>5. OffersDiffer(y, x)'
    BY <1>1, <1>2, <1>3, <1>6, <2>1, <2>2 DEF SaidWell, OffersDiffer
  <2> QED
    BY <2>3, <2>4, <2>5
<1>13. AcceptAnswers(x)'
  <2> SUFFICES ASSUME NEW i \in Nat, NEW e \in Nat, NEW c \in Nat, Acc(x, i, e, c)'
               PROVE  \E n \in Nat : Req(y, n, e)' /\ n <= MailNumber(x)' + 1
    BY DEF AcceptAnswers, y
  <2>1. CASE Acc(x, i, e, c)
    BY <2>1, <1>2, <1>3, <1>4 DEF SaidWell, AcceptAnswers, y
  <2>2. CASE act = "accept" /\ e = a
    BY <2>2, <1>3, <1>4 DEF MaySay, y
  <2> QED
    BY <1>6, <2>1, <2>2
<1>14. AcceptAnswers(y)'
  BY <1>1, <1>2, <1>3, <1>4, <1>6 DEF SaidWell, AcceptAnswers
<1>15. CommitAnswers(x)'
  <2> SUFFICES ASSUME NEW i \in Nat, NEW e \in Nat, NEW c \in Nat, Com(x, i, e, c)'
               PROVE  /\ \E j \in Nat : Acc(y, j, e, c)'
                      /\ \E n \in Nat : /\ Req(x, n, e)' /\ n < i
                                        /\ \A m \in Nat : n < m /\ m < i => ~ Exch(x, m)'
    BY DEF CommitAnswers, y
  <2>1. CASE Com(x, i, e, c)
    <3>1. i < last
      BY <2>1, <1>5, <1>7
    <3>2. \E j \in Nat : Acc(y, j, e, c)
      BY <2>1, <1>2 DEF SaidWell, CommitAnswers, y
    <3>3. PICK n \in Nat : /\ Req(x, n, e) /\ n < i
                           /\ \A m \in Nat : n < m /\ m < i => ~ Exch(x, m)
      BY <2>1, <1>2 DEF SaidWell, CommitAnswers
    <3>4. \A m \in Nat : n < m /\ m < i => ~ Exch(x, m)'
      BY <3>1, <3>3, <1>5, <1>6
    <3> QED
      BY <3>2, <3>3, <3>4, <1>3, <1>6
  <2>2. CASE act = "commit" /\ i = last /\ e = a /\ c = b
    <3>1. PICK n \in Nat : Req(x, n, a) /\ \A m \in Nat : n < m => ~ Exch(x, m)
      BY <2>2 DEF MaySay
    <3>2. n < last
      BY <3>1, <1>5, <1>7
    <3>3. \A m \in Nat : n < m /\ m < i => ~ Exch(x, m)'
      BY <2>2, <3>1, <1>5, <1>6
    <3>4. \E j \in Nat : Acc(y, j, e, c)
      BY <2>2 DEF MaySay, y
    <3> QED
      BY <2>2, <3>1, <3>2, <3>3, <3>4, <1>3, <1>6
  <2> QED
    BY <1>6, <2>1, <2>2
<1>16. CommitAnswers(y)'
  <2>1. ASSUME NEW e \in Nat, NEW c \in Nat
        PROVE  (\E j \in Nat : Acc(x, j, e, c)) => \E j \in Nat : Acc(x, j, e, c)'
    BY <1>6
  <2> QED
    BY <1>1, <1>2, <1>3, <2>1 DEF SaidWell, CommitAnswers
<1>17. RequestLast(y)'
  <2> SUFFICES ASSUME keys[y].rekey_role = "requested"
               PROVE  /\ keys[y].previous_key = NoKey
                      /\ \E n \in Nat : /\ Req(y, n, keys[y].exchange_id)'
                                        /\ \A m \in Nat : n < m => ~ Exch(y, m)'
    BY <1>4 DEF RequestLast
  <2>1. keys[y].exchange_id \in Nat
    BY DEF KeySide, Consistent, y
  <2>2. PICK n \in Nat : /\ Req(y, n, keys[y].exchange_id)
                         /\ \A m \in Nat : n < m => ~ Exch(y, m)
    BY <1>2 DEF SaidWell, RequestLast
  <2>3. Req(y, n, keys[y].exchange_id)' /\ \A m \in Nat : n < m => ~ Exch(y, m)'
    BY <1>3, <1>4, <2>1, <2>2
  <2>4. keys[y].previous_key = NoKey
    BY <1>2 DEF SaidWell, RequestLast
  <2> QED
    BY <2>3, <2>4
<1>18. SaidWell(x)'
  BY <1>8, <1>10, <1>12, <1>13, <1>15 DEF SaidWell, y
<1>19. SaidWell(y)'
  BY <1>1, <1>9, <1>10, <1>11, <1>12, <1>14, <1>16, <1>17 DEF SaidWell
<1> QED
  BY <1>18, <1>19 DEF y

----------------------------------------------------------------------------
(* What is held stays well held *)

\* What both sides of a step of x are known to be before it.
Before(x) ==
  /\ TypeOK /\ KeyInv /\ Turn(x)
  /\ KeySide(x) /\ KeySide(Peer(x))
  /\ minted \in Nat /\ minted' \in Nat /\ minted <= minted'

\* The facts most cases use, with y for the peer.
Around(x, y) ==
  /\ x \in Side /\ y \in Side /\ Peer(x) = y /\ Peer(y) = x /\ x # y
  /\ SaidWell(x) /\ SaidWell(y) /\ HeldWell(x) /\ HeldWell(y)
  /\ keys'[y] = keys[y] /\ (Open(y)' <=> Open(y)) /\ (Open(x)' => Open(x))
  /\ \A i, e, c \in Nat : /\ Req(y, i, e)' <=> Req(y, i, e)
                          /\ Acc(y, i, e, c)' <=> Acc(y, i, e, c)
                          /\ Com(y, i, e, c)' <=> Com(y, i, e, c)
  /\ \A k \in Nat : UsedBy(y, k)' => UsedBy(y, k)
  /\ \A k \in Nat : UsedBy(x, k)' =>
          UsedBy(x, k) \/ k = keys[x].key \/ k = keys'[x].key
  /\ minted \in Nat /\ minted' \in Nat /\ minted <= minted'

LEMMA AroundFacts ==
  ASSUME NEW x \in Side, Before(x)
  PROVE  Around(x, Peer(x))
<1>1. SaidWell(x) /\ SaidWell(Peer(x)) /\ HeldWell(x) /\ HeldWell(Peer(x))
  BY Sides DEF Before, KeyInv
<1>2. Turn(x)
  BY DEF Before
<1>3. Adds(Peer(x), "msg", 0, 0)
  BY <1>2 DEF Turn
<1>4. \A i, e, c \in Nat : /\ Req(Peer(x), i, e)' <=> Req(Peer(x), i, e)
                           /\ Acc(Peer(x), i, e, c)' <=> Acc(Peer(x), i, e, c)
                           /\ Com(Peer(x), i, e, c)' <=> Com(Peer(x), i, e, c)
  BY <1>3 DEF Adds
<1> QED
  BY <1>1, <1>2, <1>4, Sides DEF Before, Around, Turn

\* The peer of the acting side holds what it held.
LEMMA HeldCommon ==
  ASSUME NEW x \in Side, Before(x), NEW act, NEW a \in Nat, NEW b \in Nat,
         Adds(x, act, a, b)
  PROVE  /\ Bounded(Peer(x))' /\ PendingOffered(Peer(x))' /\ OwnUse(Peer(x))'
         /\ CommitWaits(Peer(x))' /\ PassedSaid(x)' /\ PassedSaid(Peer(x))'
<1> DEFINE y == Peer(x)
<1>1. Around(x, y) /\ KeySide(y)
  BY AroundFacts DEF Before
<1>2. Turn(x)
  BY DEF Before
<1>3. /\ Len(sent[x]) \in Nat /\ Len(sent[y]) \in Nat
      /\ Passed(y) \in Nat /\ Passed(y)' = Passed(y)
      /\ Passed(x)' \in Nat /\ Passed(x)' <= Len(sent[y])
      /\ Len(sent'[y]) = Len(sent[y])
  BY <1>1, <1>2, Spoken DEF Before, Turn, Advances, KeySide, Around
<1>4. Len(sent'[x]) >= Len(sent[x]) /\ Len(sent'[x]) \in Nat
  BY DEF Adds
<1> HIDE DEF y
<1>5. /\ keys[y].key \in Nat \cup {NoKey} /\ keys[y].pending_key \in Nat \cup {NoKey}
      /\ keys[y].previous_key \in Nat \cup {NoKey}
      /\ keys[y].pending_key # NoKey => keys[y].exchange_id \in Nat
  BY <1>1 DEF KeySide, KeyFields, Consistent
<1>6. Bounded(y)'
  BY <1>1, <1>5 DEF Around, HeldWell, Bounded, NoKey
<1>7. PendingOffered(y)'
  BY <1>1, <1>5 DEF Around, HeldWell, PendingOffered
<1>8. OwnUse(y)'
  BY <1>1, <1>5 DEF Around, HeldWell, OwnUse
<1>9. CommitWaits(y)'
  <2> SUFFICES ASSUME keys[y].pending_key # NoKey, NEW i \in Nat, NEW c \in Nat,
                      Com(x, i, keys[y].exchange_id, c)'
               PROVE  i > Passed(y)
    BY <1>1, <1>3 DEF Around, CommitWaits
  <2>1. Com(x, i, keys[y].exchange_id, c) \/ i = Len(sent[x]) + 1
    <3>1. \A e \in Nat : Com(x, i, e, c)' => Com(x, i, e, c) \/ i = Len(sent[x]) + 1
      BY DEF Adds
    <3> QED
      BY <1>1, <1>5, <3>1 DEF Around
  <2>2. CommitWaits(y) /\ PassedSaid(y)
    BY <1>1 DEF Around, HeldWell
  <2> QED
    BY <1>1, <1>3, <2>1, <2>2 DEF Around, CommitWaits, PassedSaid
<1>10. PassedSaid(x)' /\ PassedSaid(y)'
  BY <1>1, <1>3, <1>4 DEF Around, HeldWell, PassedSaid
<1> QED
  BY <1>6, <1>7, <1>8, <1>9, <1>10 DEF y

\* What each kind of step has to show besides.
Carried(x, y) ==
  /\ Bounded(x)' /\ PendingOffered(x)' /\ OwnUse(x)' /\ CommitWaits(x)'
  /\ AnswerHeld(x)' /\ AnswerHeld(y)' /\ Ahead(x)' /\ Ahead(y)'
  /\ PeerUse(x)' /\ PeerUse(y)' /\ KeysMeet(x)' /\ RequestLast(x)'

\* The fields of both sides, as numbers.
Fields(p) ==
  /\ keys[p].key \in Nat \cup {NoKey} /\ keys[p].pending_key \in Nat \cup {NoKey}
  /\ keys[p].previous_key \in Nat \cup {NoKey}
  /\ (keys[p].pending_key # NoKey) => (keys[p].exchange_id \in Nat /\ Open(p))
  /\ (keys[p].rekey_role = "requested") => (keys[p].exchange_id \in Nat /\ Open(p))
  /\ (keys[p].pending_key # NoKey) <=> (keys[p].rekey_role = "accepted")
  /\ (keys[p].exchange_id # NoExchange) <=> (keys[p].rekey_role # "none")
  /\ keys[p].rekey_role \in {"none", "requested", "accepted"}
  /\ Open(p) => keys[p].key # NoKey
  /\ Passed(p) \in Nat /\ MailNumber(p) \in Nat

Numbers(x) == Fields(x) /\ Fields(Peer(x))

LEMMA NumbersBefore ==
  ASSUME NEW x \in Side, Before(x)
  PROVE  Numbers(x)
<1>1. ASSUME NEW p \in Side, KeySide(p) PROVE Fields(p)
  BY <1>1 DEF KeySide, KeyFields, Consistent, Fields
<1> QED
  BY <1>1, Sides DEF Before, Numbers

\* No exchange begins, advances or ends.
LEMMA SteadyKept ==
  ASSUME NEW x \in Side, Before(x), NEW act \in {"msg", "abort"}, NEW a \in Nat,
         Adds(x, act, a, 0),
         keys'[x].key = keys[x].key, keys'[x].pending_key = keys[x].pending_key,
         keys'[x].exchange_id = keys[x].exchange_id,
         keys'[x].rekey_role = keys[x].rekey_role,
         \/ keys'[x].new_key_confirmed = keys[x].new_key_confirmed
         \/ keys[x].key # NoKey /\ UsedBy(Peer(x), keys[x].key),
         \/ keys'[x].previous_key = keys[x].previous_key
         \/ keys'[x].previous_key = NoKey /\ keys'[x].new_key_confirmed = TRUE,
         act = "abort" => keys[x].previous_key # NoKey
  PROVE  Carried(x, Peer(x))
<1> DEFINE y == Peer(x)
<1>1. Around(x, y) /\ Turn(x) /\ Numbers(x)
  BY AroundFacts, NumbersBefore DEF Before
<1>2. \A i, e, c \in Nat : /\ Req(x, i, e)' <=> Req(x, i, e)
                           /\ Acc(x, i, e, c)' <=> Acc(x, i, e, c)
                           /\ Com(x, i, e, c)' <=> Com(x, i, e, c)
  BY DEF Adds
<1>3. \A k \in Nat : UsedBy(x, k)' => UsedBy(x, k) \/ k = keys[x].key
  BY <1>1 DEF Around
<1>4. Numbers(y)
  BY <1>1 DEF Numbers, Around
<1> HIDE DEF y
<1>5. Bounded(x)'
  BY <1>1, <1>3 DEF Around, HeldWell, Bounded, Numbers, Fields, NoKey
<1>6. PendingOffered(x)'
  BY <1>1, <1>2 DEF Around, HeldWell, PendingOffered, Numbers, Fields
<1>7. OwnUse(x)'
  BY <1>1, <1>3 DEF Around, HeldWell, OwnUse, Bounded, Numbers, Fields
<1>8. CommitWaits(x)'
  <2>1. keys[x].pending_key # NoKey => keys[x].exchange_id \in Nat /\ Peer(x) = y
    BY <1>1 DEF Around, Numbers, Fields
  <2>2. keys[x].pending_key # NoKey =>
          /\ \A i, b \in Nat : Com(y, i, keys[x].exchange_id, b) => i > Passed(x)
          /\ \A i, b \in Nat : Com(y, i, keys[x].exchange_id, b) =>
               i > Passed(x)' \/ i <= Passed(x)
          /\ \A i, b \in Nat : Com(y, i, keys[x].exchange_id, b)'
               <=> Com(y, i, keys[x].exchange_id, b)
    BY <1>1, <2>1 DEF Around, HeldWell, CommitWaits, Turn, Advances
  <2>3. Passed(x) \in Nat /\ Passed(x)' \in Nat
    BY <1>1 DEF Numbers, Fields, Turn, Advances
  <2> QED
    BY <2>1, <2>2, <2>3 DEF CommitWaits
<1>9. AnswerHeld(x)'
  BY <1>1 DEF Around, HeldWell, AnswerHeld, Numbers, Fields
<1>10. AnswerHeld(y)'
  BY <1>1, <1>2, <1>4 DEF Around, HeldWell, AnswerHeld, Numbers, Fields
<1>11. Ahead(x)'
  BY <1>1 DEF Around, HeldWell, Ahead, Numbers, Fields
<1>12. Ahead(y)'
  BY <1>1, <1>2, <1>4 DEF Around, HeldWell, Ahead, OwnUse, Numbers, Fields
<1>13. PeerUse(x)'
  BY <1>1 DEF Around, HeldWell, PeerUse, Numbers, Fields
<1>14. PeerUse(y)'
  BY <1>1, <1>2, <1>3, <1>4 DEF Around, HeldWell, PeerUse, Numbers, Fields
<1>15. KeysMeet(x)'
  BY <1>1 DEF Around, HeldWell, KeysMeet
<1>16. RequestLast(x)'
  BY <1>1 DEF Around, SaidWell, RequestLast, Adds, Numbers, Fields, ExchangeActs
<1> QED
  BY <1>5, <1>6, <1>7, <1>8, <1>9, <1>10, <1>11, <1>12, <1>13, <1>14, <1>15, <1>16
     DEF Carried, y

\* x begins an exchange of its own.
LEMMA AsksKept ==
  ASSUME NEW x \in Side, Before(x), NEW e \in Nat, Adds(x, "request", e, 0),
         keys[x].exchange_id = NoExchange, keys[x].previous_key = NoKey,
         \A i \in Nat : ~ Req(x, i, e),
         keys'[x].key = keys[x].key, keys'[x].pending_key = keys[x].pending_key,
         keys'[x].previous_key = keys[x].previous_key,
         keys'[x].exchange_id = e, keys'[x].rekey_role = "requested"
  PROVE  Carried(x, Peer(x))
<1> DEFINE y == Peer(x)
<1>1. Around(x, y) /\ Turn(x) /\ Numbers(x)
  BY AroundFacts, NumbersBefore DEF Before
<1>2. \A i, d, c \in Nat : /\ Acc(x, i, d, c)' <=> Acc(x, i, d, c)
                           /\ Com(x, i, d, c)' <=> Com(x, i, d, c)
  BY DEF Adds
<1>3. \A k \in Nat : UsedBy(x, k)' => UsedBy(x, k) \/ k = keys[x].key
  BY <1>1 DEF Around
<1>4. Numbers(y)
  BY <1>1 DEF Numbers, Around
<1>5. keys[x].pending_key = NoKey /\ keys[x].rekey_role = "none"
  BY <1>1 DEF Numbers, Fields
<1>6. Len(sent[x]) \in Nat /\ \A i \in Nat : Exch(x, i) => i <= Len(sent[x])
  BY <1>1, Spoken DEF Before
<1> HIDE DEF y
<1>7. Bounded(x)'
  BY <1>1, <1>3 DEF Around, HeldWell, Bounded, Numbers, Fields, NoKey
<1>8. /\ PendingOffered(x)' /\ OwnUse(x)' /\ CommitWaits(x)' /\ Ahead(x)' /\ PeerUse(x)'
  BY <1>5 DEF PendingOffered, OwnUse, CommitWaits, Ahead, PeerUse
<1>9. AnswerHeld(x)'
  <2>1. ASSUME NEW i \in Nat, NEW b \in Nat, Acc(y, i, e, b) PROVE FALSE
    BY <2>1, <1>1 DEF Around, SaidWell, AcceptAnswers
  <2> QED
    BY <2>1, <1>1 DEF Around, AnswerHeld
<1>10. AnswerHeld(y)'
  BY <1>1, <1>2, <1>4 DEF Around, HeldWell, AnswerHeld, Numbers, Fields
<1>11. Ahead(y)'
  <2>1. ~ (keys[y].pending_key # NoKey /\ keys[x].key = keys[y].pending_key)
    <3>1. Ahead(y) /\ Peer(y) = x /\ (Open(y) => keys[y].key # NoKey)
          /\ (keys[y].pending_key # NoKey => Open(y))
      BY <1>1 DEF Around, HeldWell, Numbers, Fields
    <3> QED
      BY <3>1 DEF Ahead
  <2> QED
    BY <1>1, <2>1 DEF Around, Ahead
<1>12. PeerUse(y)'
  BY <1>1, <1>2, <1>3, <1>4 DEF Around, HeldWell, PeerUse, Numbers, Fields
<1>13. KeysMeet(x)'
  BY <1>1 DEF Around, HeldWell, KeysMeet
<1>14. RequestLast(x)'
  <2>0. PICK last \in Nat : last = Len(sent[x]) + 1
    BY <1>6
  <2>1. Req(x, last, e)'
    BY <2>0 DEF Adds
  <2>2. \A m \in Nat : last < m => ~ Exch(x, m)'
    BY <2>0, <1>6 DEF Adds
  <2> QED
    BY <2>1, <2>2 DEF RequestLast
<1> QED
  BY <1>7, <1>8, <1>9, <1>10, <1>11, <1>12, <1>13, <1>14 DEF Carried, y

\* x joins the exchange its peer has asked for, and offers a new key.
LEMMA JoinsKept ==
  ASSUME NEW x \in Side, Before(x), NEW e \in Nat, Adds(x, "accept", e, minted + 1),
         minted' = minted + 1,
         keys[x].rekey_role # "accepted", keys[x].previous_key = NoKey,
         Req(Peer(x), MailNumber(x) + 1, e), Passed(x)' <= MailNumber(x) + 1,
         keys'[x].key = keys[x].key, keys'[x].pending_key = minted + 1,
         keys'[x].previous_key = keys[x].previous_key,
         keys'[x].exchange_id = e, keys'[x].rekey_role = "accepted"
  PROVE  Carried(x, Peer(x))
<1> DEFINE y == Peer(x)
<1>1. Around(x, y) /\ Turn(x) /\ Numbers(x)
  BY AroundFacts, NumbersBefore DEF Before
<1>2. PICK new \in Nat : new = minted + 1
  BY DEF Before
<1>3. \A i, d, c \in Nat : /\ Acc(x, i, d, c)' => Acc(x, i, d, c) \/ (d = e /\ c = new)
                           /\ Com(x, i, d, c)' <=> Com(x, i, d, c)
  BY <1>2 DEF Adds
<1>4. \A k \in Nat : UsedBy(x, k)' => UsedBy(x, k) \/ k = keys[x].key
  BY <1>1 DEF Around
<1>5. Numbers(y) /\ new \in Nat /\ new > minted /\ minted' = new /\ minted \in Nat
      /\ keys'[x].pending_key = new
  BY <1>2, <1>1 DEF Numbers, Around
<1>6. keys[x].pending_key = NoKey
  BY <1>1 DEF Numbers, Fields
<1>7. Len(sent[x]) \in Nat /\ Passed(x)' \in Nat /\ MailNumber(x) \in Nat
  BY <1>1, Spoken DEF Before, Turn, Advances, Numbers, Fields
<1>8. \E i \in Nat : Acc(x, i, e, new)'
  <2>1. PICK last \in Nat : last = Len(sent[x]) + 1
    BY <1>7
  <2> QED
    BY <2>1, <1>2 DEF Adds
<1>9. ASSUME NEW i \in Nat, NEW d \in Nat, NEW c \in Nat, Acc(x, i, d, c)
      PROVE  c <= minted
  BY <1>1, <1>9 DEF Around, SaidWell, OffersMinted
<1>10. Peer(y) = x /\ Peer(x) = y
  BY <1>1 DEF Around
<1> HIDE DEF y
<1>11. Bounded(x)'
  BY <1>1, <1>4, <1>5 DEF Around, HeldWell, Bounded, Numbers, Fields, NoKey
<1>12. PendingOffered(x)'
  BY <1>5, <1>8 DEF PendingOffered
<1>13. OwnUse(x)'
  BY <1>1, <1>4, <1>5 DEF Around, HeldWell, OwnUse, Bounded, Numbers, Fields
<1>14. CommitWaits(x)'
  <2> SUFFICES ASSUME NEW i \in Nat, NEW c \in Nat, Com(y, i, e, c)
               PROVE  i > Passed(x)'
    BY <1>1, <1>10 DEF CommitWaits, Around
  <2>1. PICK n \in Nat : Req(y, n, e) /\ n < i
    BY <1>1 DEF Around, SaidWell, CommitAnswers
  <2>2. Req(y, MailNumber(x) + 1, e)
    BY DEF y
  <2>3. n = MailNumber(x) + 1
    <3>1. RequestsDiffer(y) /\ MailNumber(x) + 1 \in Nat
      BY <1>1, <1>7 DEF Around, SaidWell
    <3> QED
      BY <2>1, <2>2, <3>1 DEF RequestsDiffer
  <2> QED
    BY <2>1, <2>3, <1>7
<1>15. AnswerHeld(x)'
  BY DEF AnswerHeld
<1>16. AnswerHeld(y)'
  <2> SUFFICES ASSUME keys[y].rekey_role = "requested", Open(x), NEW i \in Nat, NEW c \in Nat,
                      Acc(x, i, keys[y].exchange_id, c)'
               PROVE  c = new
    BY <1>1, <1>5, <1>10 DEF AnswerHeld, Around
  <2>1. keys[y].exchange_id \in Nat
    BY <1>5 DEF Numbers, Fields
  <2>2. ~ Acc(x, i, keys[y].exchange_id, c)
    BY <1>1, <1>6, <1>10 DEF Around, HeldWell, AnswerHeld, NoKey
  <2> QED
    BY <1>1, <1>3, <2>1, <2>2 DEF Around
<1>17. Ahead(x)'
  <2>1. keys[y].key # new
    BY <1>1, <1>5 DEF Around, HeldWell, Bounded, Numbers, Fields, NoKey
  <2> QED
    BY <1>1, <1>5, <1>10, <2>1 DEF Around, Ahead
<1>18. Ahead(y)'
  <2>1. ~ (keys[y].pending_key # NoKey /\ keys[x].key = keys[y].pending_key)
    <3>1. Ahead(y) /\ Peer(y) = x /\ (Open(y) => keys[y].key # NoKey)
          /\ (keys[y].pending_key # NoKey => Open(y))
      BY <1>1, <1>5 DEF Around, HeldWell, Numbers, Fields
    <3> QED
      BY <3>1 DEF Ahead
  <2> QED
    BY <1>1, <2>1 DEF Around, Ahead
<1>19. PeerUse(x)'
  <2>1. ~ UsedBy(y, new)
    BY <1>1, <1>5 DEF Around, HeldWell, Bounded
  <2>2. \A i, d \in Nat : ~ Com(y, i, d, new)
    BY <1>1, <1>5, <1>9 DEF Around, SaidWell, CommitAnswers
  <2> QED
    BY <1>1, <1>5, <1>10, <2>1, <2>2 DEF Around, PeerUse
<1>20. PeerUse(y)'
  BY <1>1, <1>3, <1>4, <1>5 DEF Around, HeldWell, PeerUse, Numbers, Fields
<1>21. KeysMeet(x)'
  BY <1>1, <1>6 DEF Around, HeldWell, KeysMeet, Numbers, Fields
<1>22. RequestLast(x)'
  BY DEF RequestLast
<1> QED
  BY <1>11, <1>12, <1>13, <1>14, <1>15, <1>16, <1>17, <1>18, <1>19, <1>20, <1>21, <1>22
     DEF Carried, y

\* x, whose exchange has been answered, adopts the key and commits to it.
LEMMA AdoptsKept ==
  ASSUME NEW x \in Side, Before(x), NEW e \in Nat, NEW b \in Nat, NEW j \in Nat,
         Adds(x, "commit", e, b), Acc(Peer(x), j, e, b), Open(x),
         keys[x].exchange_id = e, keys[x].rekey_role = "requested",
         keys'[x].key = b, keys'[x].previous_key = keys[x].key,
         keys'[x].new_key_confirmed = FALSE, keys'[x].pending_key = NoKey,
         keys'[x].rekey_role = "none"
  PROVE  Carried(x, Peer(x))
<1> DEFINE y == Peer(x)
<1>1. Around(x, y) /\ Turn(x) /\ Numbers(x)
  BY AroundFacts, NumbersBefore DEF Before
<1>2. \A i, d, c \in Nat : /\ Acc(x, i, d, c)' <=> Acc(x, i, d, c)
                           /\ Com(x, i, d, c)' => Com(x, i, d, c) \/ c = b
                           /\ Com(x, i, d, c) => Com(x, i, d, c)'
  BY DEF Adds
<1>3. \A k \in Nat : UsedBy(x, k)' => UsedBy(x, k) \/ k = keys[x].key \/ k = b
  BY <1>1 DEF Around
<1>4. Fields(y) /\ Fields(x)
  BY <1>1 DEF Numbers, Around
<1>5. Len(sent[x]) \in Nat
  BY <1>1, Spoken DEF Before
<1>6. \E i \in Nat : Com(x, i, e, b)'
  <2>1. PICK last \in Nat : last = Len(sent[x]) + 1
    BY <1>5
  <2> QED
    BY <2>1 DEF Adds
<1>7. Peer(y) = x /\ Peer(x) = y /\ keys'[y] = keys[y]
  BY <1>1 DEF Around
\* The answer is what the peer holds, and it has not been adopted before.
<1>8. Open(y) => keys[y].pending_key = b
  BY <1>1, <1>7 DEF Around, HeldWell, AnswerHeld, y
<1> HIDE DEF y
<1>9. keys[x].pending_key = NoKey
  BY <1>4 DEF Fields
<1>10. ~ (keys[y].pending_key # NoKey /\ keys[x].key = keys[y].pending_key)
  BY <1>1, <1>7 DEF Around, HeldWell, Ahead
<1>11. keys[y].pending_key # NoKey => keys[x].key = keys[y].key
  <2> HAVE keys[y].pending_key # NoKey
  <2>1. Open(y) /\ keys[y].key # NoKey
    BY <1>4 DEF Fields
  <2> QED
    BY <1>1, <1>7, <1>9, <1>10, <2>1 DEF Around, HeldWell, KeysMeet
<1>12. Bounded(x)'
  <2>1. b <= minted
    BY <1>1 DEF Around, SaidWell, OffersMinted, y
  <2> QED
    BY <1>1, <1>3, <1>4, <2>1 DEF Around, HeldWell, Bounded, Fields, NoKey
<1>13. /\ PendingOffered(x)' /\ OwnUse(x)' /\ CommitWaits(x)' /\ Ahead(x)' /\ PeerUse(x)'
  BY DEF PendingOffered, OwnUse, CommitWaits, Ahead, PeerUse
<1>14. AnswerHeld(x)' /\ RequestLast(x)'
  BY DEF AnswerHeld, RequestLast
<1>15. AnswerHeld(y)'
  <2> SUFFICES ASSUME keys[y].rekey_role = "requested", NEW i \in Nat, NEW c \in Nat,
                      Acc(x, i, keys[y].exchange_id, c)'
               PROVE  FALSE
    BY <1>7 DEF AnswerHeld
  <2>1. keys[y].exchange_id \in Nat
    BY <1>4 DEF Fields
  <2>2. Acc(x, i, keys[y].exchange_id, c)
    BY <1>2, <1>7, <2>1
  <2> QED
    BY <1>1, <1>7, <1>9, <2>2 DEF Around, HeldWell, AnswerHeld, NoKey
<1>16. Ahead(y)'
  <2> SUFFICES ASSUME keys[y].pending_key # NoKey, b = keys[y].pending_key
               PROVE  /\ keys[x].key = keys[y].key
                      /\ \E i, d \in Nat : Com(x, i, d, b)'
    BY <1>7 DEF Ahead
  <2> QED
    BY <1>6, <1>11
<1>17. PeerUse(y)'
  <2> SUFFICES ASSUME keys[y].pending_key # NoKey, Open(x)'
               PROVE  /\ UsedBy(x, keys[y].pending_key)' => b = keys[y].pending_key
                      /\ \A i, d \in Nat : Com(x, i, d, keys[y].pending_key)' =>
                            b = keys[y].pending_key
    BY <1>7 DEF PeerUse
  <2>1. keys[y].pending_key \in Nat
    BY <1>4 DEF Fields
  <2>2. /\ ~ UsedBy(x, keys[y].pending_key)
        /\ \A i, d \in Nat : ~ Com(x, i, d, keys[y].pending_key)
    BY <1>1, <1>7, <1>10 DEF Around, HeldWell, PeerUse
  <2> QED
    BY <1>2, <1>3, <1>7, <1>10, <2>1, <2>2
<1>18. KeysMeet(x)'
  BY <1>1, <1>7, <1>8 DEF KeysMeet, Around
<1> QED
  BY <1>12, <1>13, <1>14, <1>15, <1>16, <1>17, <1>18 DEF Carried, y

\* x adopts the key it has pending, because its peer has spoken under it or
\* committed to it.
LEMMA FollowsKept ==
  ASSUME NEW x \in Side, Before(x), Adds(x, "msg", 0, 0), keys[x].pending_key # NoKey,
         \/ UsedBy(Peer(x), keys[x].pending_key)
         \/ \E i, e \in Nat : Com(Peer(x), i, e, keys[x].pending_key),
         keys'[x].key = keys[x].pending_key,
         keys'[x].previous_key \in {keys[x].key, NoKey},
         keys'[x].pending_key = NoKey, keys'[x].rekey_role = "none"
  PROVE  Carried(x, Peer(x))
<1> DEFINE y == Peer(x)
<1>1. Around(x, y) /\ Turn(x) /\ Numbers(x)
  BY AroundFacts, NumbersBefore DEF Before
<1>2. \A i, d, c \in Nat : /\ Acc(x, i, d, c)' <=> Acc(x, i, d, c)
                           /\ Com(x, i, d, c)' <=> Com(x, i, d, c)
  BY DEF Adds
<1>3. PICK b \in Nat : b = keys[x].pending_key
  BY <1>1 DEF Numbers, Fields
<1>4. \A k \in Nat : UsedBy(x, k)' => UsedBy(x, k) \/ k = keys[x].key \/ k = b
  BY <1>1, <1>3 DEF Around
<1>5. Fields(y) /\ Fields(x)
  BY <1>1 DEF Numbers, Around
<1>6. Peer(y) = x /\ Peer(x) = y /\ keys'[y] = keys[y]
  BY <1>1 DEF Around
\* The peer is ahead, so it waits for nothing.
<1>7. Open(y) => keys[y].key = b /\ keys[y].rekey_role = "none"
  BY <1>1, <1>3, <1>6 DEF Around, HeldWell, PeerUse, Ahead, y
<1> HIDE DEF y
<1>8. keys[y].pending_key = NoKey
  BY <1>5, <1>7 DEF Fields
<1>9. Bounded(x)'
  BY <1>1, <1>3, <1>4, <1>5 DEF Around, HeldWell, Bounded, Fields, NoKey
<1>10. /\ PendingOffered(x)' /\ OwnUse(x)' /\ CommitWaits(x)' /\ Ahead(x)' /\ PeerUse(x)'
  BY DEF PendingOffered, OwnUse, CommitWaits, Ahead, PeerUse
<1>11. AnswerHeld(x)' /\ RequestLast(x)'
  BY DEF AnswerHeld, RequestLast
<1>12. AnswerHeld(y)'
  <2>1. keys[y].rekey_role # "requested"
    BY <1>5, <1>7 DEF Fields
  <2> QED
    BY <1>6, <2>1 DEF AnswerHeld
<1>13. Ahead(y)' /\ PeerUse(y)'
  BY <1>6, <1>8 DEF Ahead, PeerUse
<1>14. KeysMeet(x)'
  BY <1>1, <1>3, <1>6, <1>7 DEF KeysMeet, Around
<1> QED
  BY <1>9, <1>10, <1>11, <1>12, <1>13, <1>14 DEF Carried, y

\* x leaves its exchange. If it has a key pending, the peer has refused the
\* exchange, and has not adopted that key.
LEMMA EndsKept ==
  ASSUME NEW x \in Side, Before(x), Ends(x),
         keys'[x].key = keys[x].key, keys'[x].previous_key = keys[x].previous_key,
         keys'[x].new_key_confirmed = keys[x].new_key_confirmed,
         keys'[x].exchange_id = NoExchange,
         keys'[x].pending_key = NoKey, keys'[x].rekey_role = "none"
  PROVE  Carried(x, Peer(x))
<1> DEFINE y == Peer(x)
<1>1. Around(x, y) /\ Turn(x) /\ Numbers(x)
  BY AroundFacts, NumbersBefore DEF Before
<1>2. \A i, d, c \in Nat : /\ Acc(x, i, d, c)' <=> Acc(x, i, d, c)
                           /\ Com(x, i, d, c)' <=> Com(x, i, d, c)
  BY DEF Ends, Adds
<1>3. \A k \in Nat : UsedBy(x, k)' => UsedBy(x, k) \/ k = keys[x].key
  BY <1>1 DEF Around
<1>4. Fields(y) /\ Fields(x)
  BY <1>1 DEF Numbers, Around
<1>5. Peer(y) = x /\ Peer(x) = y /\ keys'[y] = keys[y]
  BY <1>1 DEF Around
\* The head of the mailbox, if x had a key pending.
<1>6. ASSUME keys[x].pending_key # NoKey PROVE AnswerHeld(y)' /\ KeysMeet(x)'
  <2>1. keys[x].rekey_role = "accepted"
    BY <1>4, <1>6 DEF Fields
  <2>2. PICK h \in Nat : /\ h = MailNumber(x) + 1 /\ Exch(y, h) /\ Passed(x) = h
                         /\ \A e \in Nat : ~ Req(y, h, e)
    BY <2>1 DEF Ends
  <2>3. PICK e \in Nat : e = keys[x].exchange_id
    BY <1>4, <1>6 DEF Fields
  <2>4. PICK b \in Nat : b = keys[x].pending_key
    BY <1>4, <1>6 DEF Fields
  <2>5. PICK o \in Nat : Acc(x, o, e, b)
    BY <1>1, <1>6, <2>3, <2>4 DEF Around, HeldWell, PendingOffered
  <2>6. PICK n \in Nat : Req(y, n, e) /\ n < h
    <3>1. PICK n \in Nat : Req(y, n, e) /\ n <= h
      BY <1>1, <2>2, <2>5, <1>5 DEF Around, SaidWell, AcceptAnswers
    <3> QED
      BY <3>1, <2>2
  <2>7. \A m \in Nat : Req(y, m, e) => m = n
    BY <1>1, <2>3, <2>6 DEF Around, SaidWell, RequestsDiffer
  <2> HIDE DEF y
  <2>8. ~ (keys[y].rekey_role = "requested" /\ keys[y].exchange_id = e)
    BY <1>1, <2>2, <2>6, <2>7 DEF Around, SaidWell, RequestLast
  <2>9. keys[y].key # b
    <3> SUFFICES ASSUME keys[y].key = b PROVE FALSE
      OBVIOUS
    <3>1. PICK i \in Nat, d \in Nat : Com(y, i, d, b)
      BY <1>1, <1>5, <1>6, <2>4 DEF Around, HeldWell, Ahead
    <3>2. PICK k \in Nat : Acc(x, k, d, b)
      BY <1>1, <3>1 DEF Around, SaidWell, CommitAnswers
    <3>3. d = e
      BY <1>1, <2>5, <3>2 DEF Around, SaidWell, OffersDiffer
    <3>4. PICK r \in Nat : /\ Req(y, r, e) /\ r < i
                           /\ \A m \in Nat : r < m /\ m < i => ~ Exch(y, m)
      BY <1>1, <3>1, <3>3 DEF Around, SaidWell, CommitAnswers
    <3>5. i > h
      BY <1>1, <1>5, <1>6, <2>2, <2>3, <3>1, <3>3 DEF Around, HeldWell, CommitWaits
    <3> QED
      BY <2>2, <2>6, <2>7, <3>4, <3>5
  <2>10. AnswerHeld(y)'
    <3> SUFFICES ASSUME keys[y].rekey_role = "requested", Open(x), NEW i \in Nat,
                        NEW c \in Nat, Acc(x, i, keys[y].exchange_id, c)'
                 PROVE  FALSE
      BY <1>1, <1>5 DEF AnswerHeld, Around
    <3>1. PICK d \in Nat : d = keys[y].exchange_id
      BY <1>4 DEF Fields
    <3>2. Acc(x, i, d, c)
      BY <1>2, <1>5, <3>1
    <3>3. c = b
      BY <1>1, <1>5, <2>4, <3>1, <3>2 DEF Around, HeldWell, AnswerHeld
    <3>4. d = e
      BY <1>1, <2>5, <3>2, <3>3 DEF Around, SaidWell, OffersDiffer
    <3> QED
      BY <2>8, <3>1, <3>4
  <2>11. KeysMeet(x)'
    BY <1>1, <1>5, <2>4, <2>9 DEF Around, HeldWell, KeysMeet
  <2> QED
    BY <2>10, <2>11
<1>7. ASSUME keys[x].pending_key = NoKey PROVE AnswerHeld(y)' /\ KeysMeet(x)'
  <2>1. AnswerHeld(y)'
    <3> SUFFICES ASSUME keys[y].rekey_role = "requested", Open(x), NEW i \in Nat,
                        NEW c \in Nat, Acc(x, i, keys[y].exchange_id, c)'
                 PROVE  FALSE
      BY <1>1, <1>5 DEF AnswerHeld, Around
    <3>1. PICK d \in Nat : d = keys[y].exchange_id
      BY <1>4 DEF Fields
    <3>2. Acc(x, i, d, c)
      BY <1>2, <1>5, <3>1
    <3> QED
      BY <1>1, <1>5, <1>7, <3>1, <3>2 DEF Around, HeldWell, AnswerHeld, NoKey
  <2>2. KeysMeet(x)'
    BY <1>1, <1>5, <1>7 DEF Around, HeldWell, KeysMeet
  <2> QED
    BY <2>1, <2>2
<1>8. AnswerHeld(y)' /\ KeysMeet(x)'
  BY <1>6, <1>7
<1> HIDE DEF y
<1>9. Bounded(x)'
  BY <1>1, <1>3, <1>4 DEF Around, HeldWell, Bounded, Fields, NoKey
<1>10. /\ PendingOffered(x)' /\ OwnUse(x)' /\ CommitWaits(x)' /\ Ahead(x)' /\ PeerUse(x)'
  BY DEF PendingOffered, OwnUse, CommitWaits, Ahead, PeerUse
<1>11. AnswerHeld(x)' /\ RequestLast(x)'
  BY DEF AnswerHeld, RequestLast
<1>12. Ahead(y)'
  BY <1>1, <1>2, <1>4, <1>5 DEF Around, HeldWell, Ahead, Fields
<1>13. PeerUse(y)'
  BY <1>1, <1>2, <1>3, <1>4, <1>5 DEF Around, HeldWell, PeerUse, Fields
<1> QED
  BY <1>8, <1>9, <1>10, <1>11, <1>12, <1>13 DEF Carried, y

\* x closes: it holds no key any more.
LEMMA ClosesKept ==
  ASSUME NEW x \in Side, Before(x), Adds(x, "msg", 0, 0), ~ Open(x)',
         keys'[x].key = NoKey, keys'[x].previous_key = NoKey,
         keys'[x].pending_key = NoKey, keys'[x].rekey_role = "none"
  PROVE  Carried(x, Peer(x))
<1> DEFINE y == Peer(x)
<1>1. Around(x, y) /\ Turn(x) /\ Numbers(x)
  BY AroundFacts, NumbersBefore DEF Before
<1>2. \A k \in Nat : UsedBy(x, k)' => UsedBy(x, k) \/ k = keys[x].key \/ k = NoKey
  BY <1>1 DEF Around
<1>3. Fields(y) /\ Fields(x)
  BY <1>1 DEF Numbers, Around
<1>4. Peer(y) = x /\ Peer(x) = y /\ keys'[y] = keys[y]
  BY <1>1 DEF Around
<1> HIDE DEF y
<1>5. Bounded(x)'
  BY <1>1, <1>2, <1>3 DEF Around, HeldWell, Bounded, Fields, NoKey
<1>6. /\ PendingOffered(x)' /\ OwnUse(x)' /\ CommitWaits(x)' /\ Ahead(x)' /\ PeerUse(x)'
  BY DEF PendingOffered, OwnUse, CommitWaits, Ahead, PeerUse
<1>7. AnswerHeld(x)' /\ RequestLast(x)'
  BY DEF AnswerHeld, RequestLast
<1>8. AnswerHeld(y)' /\ PeerUse(y)' /\ KeysMeet(x)' /\ Ahead(y)'
  BY <1>4 DEF AnswerHeld, PeerUse, KeysMeet, Ahead
<1> QED
  BY <1>5, <1>6, <1>7, <1>8 DEF Carried, y

----------------------------------------------------------------------------
(* A move of any kind *)

LEMMA MoveKeeps ==
  ASSUME NEW x \in Side, Before(x), NEW act, NEW a \in Nat, NEW b \in Nat,
         Adds(x, act, a, b), MaySay(x, act, a, b), Carried(x, Peer(x))
  PROVE  KeyInv'
<1> DEFINE y == Peer(x)
<1>1. Around(x, y)
  BY AroundFacts
<1>2. SaidWell(x)' /\ SaidWell(y)'
  BY SaidNext DEF Before, Carried
<1>3. /\ Bounded(y)' /\ PendingOffered(y)' /\ OwnUse(y)' /\ CommitWaits(y)'
      /\ PassedSaid(x)' /\ PassedSaid(y)'
  BY HeldCommon
<1>4. Carried(x, y)
  OBVIOUS
<1>5. /\ x \in Side /\ y \in Side /\ Peer(x) = y /\ Peer(y) = x
      /\ \A p \in Side : p = x \/ p = y
  BY Sides
<1> HIDE DEF y
<1>6. KeysMeet(y)'
  BY <1>4, <1>5 DEF Carried, KeysMeet
<1>7. HeldWell(x)' /\ HeldWell(y)'
  BY <1>3, <1>4, <1>6 DEF HeldWell, Carried
<1> QED
  BY <1>2, <1>5, <1>7 DEF KeyInv

LEMMA KeyNextMove ==
  ASSUME NEW x \in Side, Before(x), Move(x)
  PROVE  KeyInv'
<1>1. minted \in Nat /\ minted' \in Nat /\ minted <= minted' /\ keys[x] \in KeyState
  BY DEF Before, TypeOK
<1>2. ASSUME Adds(x, "msg", 0, 0), Carried(x, Peer(x)) PROVE KeyInv'
  <2>1. MaySay(x, "msg", 0, 0)
    BY <1>1 DEF MaySay
  <2> QED
    BY <1>2, <2>1, MoveKeeps
<1>3. CASE Same(x)
  BY <1>2, <1>3, SteadyKept DEF Same
<1>4. CASE Asks(x)
  <2>1. PICK e \in Nat :
          /\ keys[x].exchange_id = NoExchange /\ keys[x].previous_key = NoKey
          /\ \A i \in Nat : ~ Req(x, i, e)
          /\ keys'[x] = Requested(keys[x], e)
          /\ Adds(x, "request", e, 0) /\ minted' = minted
    BY <1>4 DEF Asks
  <2>2. Carried(x, Peer(x))
    <3>1. /\ keys'[x].key = keys[x].key /\ keys'[x].pending_key = keys[x].pending_key
          /\ keys'[x].previous_key = keys[x].previous_key
          /\ keys'[x].exchange_id = e /\ keys'[x].rekey_role = "requested"
      BY <1>1, <2>1 DEF Requested, KeyState
    <3> QED
      BY <2>1, <3>1, AsksKept
  <2>3. MaySay(x, "request", e, 0)
    BY <1>1, <2>1 DEF MaySay
  <2> QED
    BY <2>1, <2>2, <2>3, MoveKeeps
<1>5. CASE Joins(x)
  <2>1. PICK e \in Nat :
          /\ keys[x].rekey_role # "accepted" /\ keys[x].previous_key = NoKey
          /\ Req(Peer(x), MailNumber(x) + 1, e)
          /\ keys'[x] = Accepted(keys[x], e, minted + 1)
          /\ Adds(x, "accept", e, minted + 1) /\ minted' = minted + 1
          /\ Passed(x)' <= MailNumber(x) + 1
    BY <1>5 DEF Joins
  <2>2. Carried(x, Peer(x))
    <3>1. /\ keys'[x].key = keys[x].key /\ keys'[x].pending_key = minted + 1
          /\ keys'[x].previous_key = keys[x].previous_key
          /\ keys'[x].exchange_id = e /\ keys'[x].rekey_role = "accepted"
      BY <1>1, <2>1 DEF Accepted, KeyState
    <3> QED
      BY <2>1, <3>1, JoinsKept
  <2>3. PICK b \in Nat : b = minted + 1
    BY <1>1
  <2>4. MaySay(x, "accept", e, b) /\ Adds(x, "accept", e, b)
    BY <1>1, <2>1, <2>3 DEF MaySay
  <2> QED
    BY <2>2, <2>4, MoveKeeps
<1>6. CASE Refuses(x)
  <2>1. PICK e \in Nat : Adds(x, "abort", e, 0)
    BY <1>6 DEF Refuses
  <2>2. Carried(x, Peer(x))
    BY <1>6, <2>1, SteadyKept DEF Refuses
  <2>3. MaySay(x, "abort", e, 0)
    BY <1>1 DEF MaySay
  <2> QED
    BY <2>1, <2>2, <2>3, MoveKeeps
<1>7. CASE Adopts(x)
  <2>1. PICK e \in Nat, b \in Nat, j \in Nat :
          /\ Acc(Peer(x), j, e, b) /\ Open(x)
          /\ keys[x].exchange_id = e /\ keys[x].rekey_role = "requested"
          /\ keys'[x] = adopt_new_key(keys[x], b)
          /\ Adds(x, "commit", e, b) /\ minted' = minted
    BY <1>7 DEF Adopts
  <2>2. Carried(x, Peer(x))
    <3>1. /\ keys'[x].key = b /\ keys'[x].previous_key = keys[x].key
          /\ keys'[x].new_key_confirmed = FALSE /\ keys'[x].pending_key = NoKey
          /\ keys'[x].rekey_role = "none"
      BY <1>1, <2>1 DEF adopt_new_key, clear, KeyState
    <3> QED
      BY <2>1, <3>1, AdoptsKept
  <2>3. MaySay(x, "commit", e, b)
    <3>1. RequestLast(x)
      BY Sides DEF Before, KeyInv, SaidWell
    <3> QED
      BY <1>1, <2>1, <3>1 DEF MaySay, RequestLast
  <2> QED
    BY <2>1, <2>2, <2>3, MoveKeeps
<1>8. CASE Follows(x)
  BY <1>2, <1>8, FollowsKept DEF Follows
<1>9. CASE Hears(x)
  BY <1>2, <1>9, SteadyKept DEF Hears
<1>10. CASE Ends(x)
  <2>1. Carried(x, Peer(x))
    <3>1. keys'[x] = clear(keys[x])
      BY <1>10 DEF Ends
    <3>2. /\ keys'[x].key = keys[x].key
          /\ keys'[x].previous_key = keys[x].previous_key
          /\ keys'[x].new_key_confirmed = keys[x].new_key_confirmed
          /\ keys'[x].exchange_id = NoExchange
          /\ keys'[x].pending_key = NoKey /\ keys'[x].rekey_role = "none"
      BY <1>1, <3>1 DEF clear, KeyState
    <3> QED
      BY <1>10, <3>2, EndsKept
  <2> QED
    BY <1>2, <1>10, <2>1 DEF Ends
<1>11. CASE Closes(x)
  <2>1. Carried(x, Peer(x))
    <3>1. keys'[x] = Scrubbed(keys[x]) /\ ~ Open(x)' /\ Adds(x, "msg", 0, 0)
      BY <1>11 DEF Closes
    <3>2. /\ keys'[x].key = NoKey /\ keys'[x].previous_key = NoKey
          /\ keys'[x].pending_key = NoKey /\ keys'[x].rekey_role = "none"
      BY <1>1, <3>1 DEF Scrubbed, clear, KeyState
    <3> QED
      BY <3>1, <3>2, ClosesKept
  <2> QED
    BY <1>2, <1>11, <2>1 DEF Closes
<1> QED
  BY <1>3, <1>4, <1>5, <1>6, <1>7, <1>8, <1>9, <1>10, <1>11 DEF Move

----------------------------------------------------------------------------
(* Every action is such a move. What is known before it:                   *)

Ground ==
  /\ TypeInv /\ NumberInv /\ InOrder /\ MailboxFaithful /\ ExchangeMatchesState
  /\ KeyInv

\* x leaves what its peer holds alone.
Apart(x) ==
  LET y == Peer(x)
  IN /\ keys'[y] = keys[y] /\ state'[y] = state[y] /\ sent'[y] = sent[y]
     /\ retained_out'[y] = retained_out[y] /\ todo'[y] = todo[y]
     /\ pending_deliveries'[y] = pending_deliveries[y]
     /\ seq'[y].in_seq_no = seq[y].in_seq_no

\* What x retains or puts on the server is under its key before or after.
Spends(x) ==
  /\ \A r \in retained_out'[x] :
       \/ \E s \in retained_out[x] : s.key = r.key
       \/ r.key = keys[x].key \/ r.key = keys'[x].key
  /\ \A f \in net' :
       \/ f \in net
       \/ /\ f.to = Peer(x)
          /\ \/ \E s \in retained_out[x] : s.key = f.key
             \/ f.key = keys[x].key \/ f.key = keys'[x].key

LEMMA SameSaid ==
  ASSUME TypeOK, NEW q \in Side, sent'[q] = sent[q]
  PROVE  Adds(q, "msg", 0, 0) /\ Len(sent'[q]) = Len(sent[q])
<1>1. Len(sent[q]) \in Nat
  BY Spoken
<1> QED
  BY <1>1 DEF Adds, Req, Acc, Com, Exch, ExchangeActs

LEMMA TurnFrom ==
  ASSUME TypeOK, NEW x \in Side, Apart(x), Spends(x), Advances(x), Open(x)' => Open(x)
  PROVE  Turn(x)
<1> DEFINE y == Peer(x)
<1>1. /\ y \in Side /\ y # x /\ Peer(y) = x
  BY Sides
<1>2. /\ keys'[y] = keys[y] /\ state'[y] = state[y] /\ sent'[y] = sent[y]
      /\ retained_out'[y] = retained_out[y] /\ todo'[y] = todo[y]
      /\ pending_deliveries'[y] = pending_deliveries[y]
      /\ seq'[y].in_seq_no = seq[y].in_seq_no
  BY DEF Apart
<1>3. Adds(y, "msg", 0, 0) /\ Len(sent'[y]) = Len(sent[y])
  BY <1>1, <1>2, SameSaid
<1>4. (Open(y)' <=> Open(y)) /\ MailNumber(y)' = MailNumber(y)
  BY <1>2 DEF Open, MailNumber
<1>5. Passed(y)' = Passed(y)
  BY <1>2, <1>4 DEF Passed
<1> HIDE DEF y
<1>6. \A k \in Nat : UsedBy(y, k)' => UsedBy(y, k)
  BY <1>1, <1>2 DEF UsedBy, Spends, y
<1>7. \A k \in Nat : UsedBy(x, k)' =>
        UsedBy(x, k) \/ k = keys[x].key \/ k = keys'[x].key
  BY DEF UsedBy, Spends
<1> QED
  BY <1>2, <1>3, <1>4, <1>5, <1>6, <1>7 DEF Turn, y

\* Passed and the number of the head, before a step.
LEMMA PassedFacts ==
  ASSUME Ground, NEW x \in Side
  PROVE  /\ MailNumber(x) \in Nat /\ Passed(x) \in Nat
         /\ MailNumber(x) <= Passed(x) /\ Passed(x) <= MailNumber(x) + 1
         /\ Passed(x) <= Len(sent[Peer(x)]) /\ Len(sent[Peer(x)]) \in Nat
         /\ todo[x] \in Seq(RestStep) => Passed(x) = MailNumber(x)
<1>1. MailNumber(x) \in Nat /\ Passed(x) \in Nat
  BY KeySides DEF Ground, KeySide
<1>2. Passed(x) <= Len(sent[Peer(x)])
  BY DEF Ground, KeyInv, HeldWell, PassedSaid
<1>3. Len(sent[Peer(x)]) \in Nat
  BY Sides, Spoken DEF Ground, TypeInv
<1>4. todo[x] \in Seq(RestStep) => ~ (todo[x] # <<>> /\ Head(todo[x]).do = "pop")
  <2>1. \A r \in RestStep : r.do # "pop"
    BY DEF RestStep
  <2>2. todo[x] \in Seq(RestStep) /\ todo[x] # <<>> => Head(todo[x]) \in RestStep
    OBVIOUS
  <2> QED
    BY <2>1, <2>2
<1> QED
  BY <1>1, <1>2, <1>3, <1>4 DEF Passed

\* A step that hands nothing over and pops nothing.
LEMMA RestAdvances ==
  ASSUME Ground, NEW x \in Side, MailNumber(x)' = MailNumber(x),
         todo'[x] = todo[x] \/ todo'[x] \in Seq(RestStep)
  PROVE  Advances(x) /\ Passed(x)' <= MailNumber(x) + 1
<1>1. /\ MailNumber(x) \in Nat /\ Passed(x) \in Nat
      /\ MailNumber(x) <= Passed(x) /\ Passed(x) <= MailNumber(x) + 1
      /\ Passed(x) <= Len(sent[Peer(x)]) /\ Len(sent[Peer(x)]) \in Nat
  BY PassedFacts
<1>2. Passed(x)' = Passed(x) \/ Passed(x)' = MailNumber(x)
  <2>1. CASE todo'[x] = todo[x]
    BY <2>1 DEF Passed
  <2>2. CASE todo'[x] \in Seq(RestStep)
    <3>1. \A r \in RestStep : r.do # "pop"
      BY DEF RestStep
    <3>2. todo'[x] # <<>> => Head(todo'[x]) \in RestStep
      BY <2>2
    <3> QED
      BY <3>1, <3>2 DEF Passed
  <2> QED
    BY <2>1, <2>2
<1> QED
  BY <1>1, <1>2 DEF Advances

----------------------------------------------------------------------------
(* The head of the mailbox is the next thing the peer has said *)

LEMMA HeadSaid ==
  ASSUME Ground, NEW x \in Side, pending_deliveries[x] # <<>>
  PROVE  \E n \in Nat :
           /\ n = MailNumber(x) + 1 /\ n \in DOMAIN sent[Peer(x)]
           /\ n <= Len(sent[Peer(x)])
           /\ sent[Peer(x)][n] \in [act : Acts, a : Nat, b : Nat]
           /\ Faithful(Mail(x), sent[Peer(x)][n])
<1> DEFINE said == sent[Peer(x)]
<1> DEFINE box == pending_deliveries[x]
<1> DEFINE M == [act : Acts, a : Nat, b : Nat]
<1>1. box \in Seq(Wrapper) /\ said \in Seq(M)
  BY Sides DEF Ground, TypeInv, TypeOK
<1>2. 1 \in DOMAIN box /\ Head(box) = box[1] /\ Len(box) \in Nat /\ Len(box) >= 1
  <2>1. box # <<>>
    OBVIOUS
  <2> HIDE DEF box
  <2> QED BY <1>1, <2>1
<1>3. Faithful(Mail(x), said[MailNumber(x) + 1 - 1 + 1])
  BY <1>2 DEF Ground, MailboxFaithful, Mail
<1>4. MailNumber(x) \in Nat
  BY PassedFacts
<1>5. MailNumber(x) + 1 <= Len(said)
  <2>1. /\ Peer(Peer(x)) = x /\ Peer(x) \in Side /\ seq[Peer(x)] \in SeqState
        /\ Numbered(Peer(x)) /\ seq[x] \in SeqState
    BY Sides DEF Ground, TypeInv, TypeOK, NumberInv
  <2>2. seq[x].in_seq_no <= Len(said)
    BY <2>1 DEF Numbered, Heard
  <2>3. seq[x].in_seq_no \in Nat
    BY <2>1, SeqFacts
  <2>4. MailNumber(x) = seq[x].in_seq_no - Len(box)
    BY DEF MailNumber
  <2>5. Len(said) \in Nat
    BY Sides, Spoken DEF Ground, TypeInv
  <2> HIDE DEF box, said
  <2> QED
    BY <1>2, <2>2, <2>3, <2>4, <2>5
<1>6. PICK n \in Nat : n = MailNumber(x) + 1
  BY <1>4
<1>7. MailNumber(x) + 1 - 1 + 1 = n
  BY <1>4, <1>6
<1>8. n \in DOMAIN said /\ said[n] \in M
  <2> HIDE DEF said, M
  <2>1. n <= Len(said)
    BY <1>5, <1>6
  <2> QED
    BY <1>1, <1>4, <1>6, <2>1
<1> QED
  BY <1>3, <1>5, <1>6, <1>7, <1>8

\* What the head says of an exchange, the peer has said, and the reverse.
LEMMA HeadActs ==
  ASSUME Ground, NEW x \in Side, pending_deliveries[x] # <<>>
  PROVE  \E n \in Nat :
           /\ n = MailNumber(x) + 1 /\ n <= Len(sent[Peer(x)])
           /\ Mail(x).act = "request" => Req(Peer(x), n, Mail(x).a)
           /\ Mail(x).act = "accept" => Acc(Peer(x), n, Mail(x).a, Mail(x).b)
           /\ Mail(x).act = "commit" => Com(Peer(x), n, Mail(x).a, Mail(x).b)
           /\ Mail(x).act = "abort" =>
                Exch(Peer(x), n) /\ \A e \in Nat : ~ Req(Peer(x), n, e)
           /\ \A e, b \in Nat : Com(Peer(x), n, e, b)
                                  => Mail(x).act = "commit" /\ Mail(x).a = e
           /\ Mail(x).act \in {"request", "accept", "commit"} =>
                Mail(x).a \in Nat /\ Mail(x).b \in Nat
<1>1. PICK n \in Nat :
           /\ n = MailNumber(x) + 1 /\ n \in DOMAIN sent[Peer(x)]
           /\ n <= Len(sent[Peer(x)])
           /\ sent[Peer(x)][n] \in [act : Acts, a : Nat, b : Nat]
           /\ Faithful(Mail(x), sent[Peer(x)][n])
  BY HeadSaid
<1> DEFINE m == sent[Peer(x)][n]
<1>2. m.a \in Nat /\ m.b \in Nat /\ n \in DOMAIN sent[Peer(x)]
  BY <1>1
<1>3. \/ Mail(x).act = m.act /\ Mail(x).a = m.a /\ Mail(x).b = m.b
      \/ m.act = "msg" /\ Mail(x).act = "delete"
      \/ m.act = "resend" /\ Mail(x).act = "noop"
  BY <1>1 DEF Faithful
<1> QED
  BY <1>1, <1>2, <1>3 DEF Req, Acc, Com, Exch, ExchangeActs

\* A step that hands the head over, unless it is the commit x waits for.
LEMMA HandOverAdvances ==
  ASSUME Ground, NEW x \in Side, Draining(x), todo'[x] = <<Do("pop")>> \o Tail(todo[x]),
         MailNumber(x)' = MailNumber(x),
         \/ keys'[x].pending_key = NoKey
         \/ ~ (Mail(x).act = "commit" /\ Mail(x).a = keys'[x].exchange_id),
         keys'[x].pending_key # NoKey => keys'[x].exchange_id \in Nat
  PROVE  Advances(x) /\ Passed(x)' <= MailNumber(x) + 1
<1>1. /\ MailNumber(x) \in Nat /\ Passed(x) \in Nat
      /\ MailNumber(x) <= Passed(x) /\ Passed(x) <= MailNumber(x) + 1
      /\ Passed(x) <= Len(sent[Peer(x)]) /\ Len(sent[Peer(x)]) \in Nat
  BY PassedFacts
<1>2. pending_deliveries[x] # <<>>
  BY DEF Draining
<1>3. PICK n \in Nat :
        /\ n = MailNumber(x) + 1 /\ n <= Len(sent[Peer(x)])
        /\ \A e, b \in Nat : Com(Peer(x), n, e, b)
                               => Mail(x).act = "commit" /\ Mail(x).a = e
  BY <1>2, HeadActs
<1>4. Passed(x)' \in {MailNumber(x), n}
  BY <1>3 DEF Passed
<1>5. ASSUME keys'[x].pending_key # NoKey, NEW i \in Nat, NEW b \in Nat,
             Com(Peer(x), i, keys'[x].exchange_id, b)
      PROVE  i > n \/ i <= MailNumber(x)
  <2>1. i # n
    BY <1>3, <1>5
  <2> QED
    BY <1>1, <1>3, <2>1
<1> QED
  BY <1>1, <1>3, <1>4, <1>5 DEF Advances

----------------------------------------------------------------------------
(* What the actions are made of *)

LEMMA AppendAdds ==
  ASSUME TypeOK, NEW x \in Side, NEW act, NEW a, NEW b,
         sent'[x] = Append(sent[x], [act |-> act, a |-> a, b |-> b])
  PROVE  Adds(x, act, a, b)
<1> DEFINE m == [act |-> act, a |-> a, b |-> b]
<1> DEFINE M == [act : Acts, a : Nat, b : Nat] \cup {m}
<1> DEFINE s == sent[x]
<1>1. s \in Seq(M) /\ m \in M
  <2>1. s \in Seq([act : Acts, a : Nat, b : Nat])
    BY DEF TypeOK
  <2> HIDE DEF m
  <2> QED BY <2>1, SeqWider
<1>2. /\ Len(s) \in Nat /\ DOMAIN s = 1 .. Len(s)
      /\ DOMAIN Append(s, m) = 1 .. Len(s) + 1
      /\ Len(Append(s, m)) = Len(s) + 1
      /\ \A i \in 1 .. Len(s) : Append(s, m)[i] = s[i]
      /\ Append(s, m)[Len(s) + 1] = m
  <2> HIDE DEF s, m, M
  <2> QED BY <1>1
<1>3. m.act = act /\ m.a = a /\ m.b = b
  OBVIOUS
<1>4. sent'[x] = Append(s, m)
  OBVIOUS
<1> HIDE DEF m, M
<1>5. PICK last \in Nat : last = Len(s) + 1
  BY <1>2
<1>6. \A i \in Nat : i \in DOMAIN sent'[x] <=> i \in DOMAIN s \/ i = last
  BY <1>2, <1>4, <1>5
<1>7. (\A i \in DOMAIN s : i # last /\ sent'[x][i] = s[i]) /\ sent'[x][last] = m
  BY <1>2, <1>4, <1>5
<1>8. Len(sent'[x]) \in Nat /\ Len(sent'[x]) >= Len(s)
  BY <1>2, <1>4
<1>9. Len(sent[x]) + 1 = last
  BY <1>5
<1> HIDE DEF s
<1>10. s = sent[x]
  BY DEF s
<1> QED
  BY <1>3, <1>6, <1>7, <1>8, <1>9, <1>10 DEF Adds, Req, Acc, Com, Exch, ExchangeActs

\* What is of no exchange is as good as an ordinary message.
LEMMA PlainAdds ==
  ASSUME NEW x, NEW act, NEW a, NEW b, Adds(x, act, a, b), act \notin ExchangeActs
  PROVE  Adds(x, "msg", 0, 0)
BY DEF Adds, ExchangeActs

LEMMA CommitMoves ==
  ASSUME TypeInv, NEW x \in Side, NEW act, NEW a, NEW b, NEW key, NEW new, NEW st, NEW o,
         Commit(x, act, a, b, key, new, st, o), key = keys[x].key \/ key = new.key,
         todo'[Peer(x)] = todo[Peer(x)],
         seq'[Peer(x)].in_seq_no = seq[Peer(x)].in_seq_no
  PROVE  Apart(x) /\ Spends(x) /\ Adds(x, act, a, b) /\ keys'[x] = new
<1>1. Peer(x) \in Side /\ Peer(x) # x /\ TypeOK
  BY Sides DEF TypeInv
<1> DEFINE r == [w |-> NewWrapper(x, act, a, b), key |-> key,
                 pending |-> TRUE, failures |-> 0]
<1>2. /\ keys' = [keys EXCEPT ![x] = new]
      /\ state' = [state EXCEPT ![x] = st]
      /\ retained_out' = [retained_out EXCEPT ![x] = @ \cup {Transmitted(r, o, new.key)}]
      /\ net' = net \cup (IF Arrives(o) THEN {FrameOf(x, r)} ELSE {})
      /\ sent' = [sent EXCEPT ![x] = Append(@, [act |-> act, a |-> a, b |-> b])]
      /\ UNCHANGED pending_deliveries
  BY DEF Commit
<1>3. Transmitted(r, o, new.key).key \in {key, new.key}
  BY DEF Transmitted, Withdrawn
<1>4. FrameOf(x, r).to = Peer(x) /\ FrameOf(x, r).key = key
  BY DEF FrameOf
<1> HIDE DEF r
<1>5. Apart(x)
  BY <1>1, <1>2 DEF Apart, TypeOK
<1>6. keys'[x] = new
  BY <1>1, <1>2 DEF TypeOK
<1>7. Spends(x)
  <2>1. \A s \in retained_out'[x] : s \in retained_out[x] \/ s = Transmitted(r, o, new.key)
    BY <1>1, <1>2 DEF TypeOK
  <2>2. \A f \in net' : f \in net \/ f = FrameOf(x, r)
    BY <1>2
  <2> QED
    BY <1>3, <1>4, <1>6, <2>1, <2>2 DEF Spends
<1>8. Adds(x, act, a, b)
  <2>1. sent'[x] = Append(sent[x], [act |-> act, a |-> a, b |-> b])
    BY <1>1, <1>2 DEF TypeOK
  <2> QED
    BY <1>1, <2>1, AppendAdds
<1> QED
  BY <1>5, <1>6, <1>7, <1>8

\* A message of no exchange, sent by an operation that goes on or stops.
LEMMA PlainMove ==
  ASSUME Ground, NEW x \in Side, Open(x), NEW act, NEW a, NEW b, NEW o,
         Commit(x, act, a, b, keys[x].key, keys[x], state[x], o), act \notin ExchangeActs,
         \A q \in Side : seq'[q].in_seq_no = seq[q].in_seq_no,
         \E rest : /\ todo' = [todo EXCEPT ![x] = rest]
                   /\ rest = todo[x] \/ rest \in Seq(RestStep),
         UNCHANGED minted
  PROVE  Move(x)
<1>1. TypeInv /\ TypeOK /\ Peer(x) \in Side /\ Peer(x) # x
  BY Sides DEF Ground, TypeInv
<1>2. /\ todo'[Peer(x)] = todo[Peer(x)]
      /\ todo'[x] = todo[x] \/ todo'[x] \in Seq(RestStep)
  BY <1>1 DEF TypeOK
<1>3. Apart(x) /\ Spends(x) /\ Adds(x, act, a, b) /\ keys'[x] = keys[x]
  BY <1>1, <1>2, CommitMoves
<1>4. MailNumber(x)' = MailNumber(x)
  BY SameNumber DEF Commit
<1>5. Turn(x)
  BY <1>1, <1>2, <1>3, <1>4, RestAdvances, TurnFrom
<1>6. Same(x)
  BY <1>3, PlainAdds DEF Same
<1> QED
  BY <1>5, <1>6 DEF Move

LEMMA CloseMove ==
  ASSUME Ground, NEW x \in Side, Open(x), NEW reason, CloseChat(x, reason),
         UNCHANGED <<minted, sent>>,
         \A f \in net' : \/ f \in net
                         \/ /\ f.to = Peer(x)
                            /\ \E s \in retained_out[x] : s.key = f.key
  PROVE  Move(x)
<1>1. TypeInv /\ TypeOK /\ Peer(x) \in Side /\ Peer(x) # x
  BY Sides DEF Ground, TypeInv
<1>2. /\ state' = [state EXCEPT ![x] = "closed"] /\ UNCHANGED seq
      /\ keys' = [keys EXCEPT ![x] = Scrubbed(@)]
      /\ retained_out' = [retained_out EXCEPT ![x] = {}]
      /\ pending_deliveries' = [pending_deliveries EXCEPT ![x] = <<>>]
      /\ todo' = [todo EXCEPT ![x] = <<>>]
  BY DEF CloseChat
<1>3. /\ state'[x] = "closed" /\ keys'[x] = Scrubbed(keys[x]) /\ retained_out'[x] = {}
      /\ pending_deliveries'[x] = <<>> /\ todo'[x] = <<>> /\ seq'[x] = seq[x]
  BY <1>1, <1>2 DEF TypeOK
<1>4. Apart(x)
  BY <1>1, <1>2 DEF Apart, TypeOK
<1>5. Spends(x)
  BY <1>3 DEF Spends
<1>6. keys'[x].pending_key = NoKey
  <2>1. keys[x] \in KeyState
    BY <1>1 DEF TypeOK
  <2> QED
    BY <1>3, <2>1 DEF Scrubbed, clear, KeyState
<1>7. Advances(x)
  <2> DEFINE k == seq[x].in_seq_no
  <2> DEFINE l == Len(pending_deliveries[x])
  <2>1. k \in Nat /\ l \in Nat
    <3>1. pending_deliveries[x] \in Seq(Wrapper)
      BY <1>1 DEF TypeOK
    <3> QED
      BY <1>1, <3>1, CounterType DEF TypeInv
  <2>2. k <= Len(sent[Peer(x)])
    <3>1. /\ Peer(Peer(x)) = x /\ Numbered(Peer(x))
      BY <1>1, Sides DEF Ground, NumberInv
    <3> QED
      BY <3>1 DEF Numbered, Heard
  <2>3. MailNumber(x) = k - l
    BY DEF MailNumber
  <2>4. MailNumber(x)' = k
    <3>1. Len(<<>>) = 0 /\ k - 0 = k
      BY <2>1
    <3> QED
      BY <1>3, <3>1 DEF MailNumber
  <2>5. Passed(x)' = MailNumber(x)'
    BY <1>3 DEF Passed
  <2> HIDE DEF k, l
  <2> QED
    BY <1>6, <2>1, <2>2, <2>3, <2>4, <2>5 DEF Advances
<1>8. Turn(x)
  BY <1>1, <1>4, <1>5, <1>7, TurnFrom
<1>9. Closes(x)
  BY <1>1, <1>3, SameSaid DEF Closes, Open
<1> QED
  BY <1>8, <1>9 DEF Move

\* A step that sends nothing and leaves the keys alone.
LEMMA StillMove ==
  ASSUME Ground, NEW x \in Side, UNCHANGED <<keys, sent, minted>>,
         \A q \in Side : q # x =>
           /\ state'[q] = state[q] /\ retained_out'[q] = retained_out[q]
           /\ todo'[q] = todo[q],
         Open(x)' => Open(x), UNCHANGED pending_deliveries,
         \A q \in Side : seq'[q].in_seq_no = seq[q].in_seq_no,
         Spends(x), Advances(x)
  PROVE  Move(x)
<1>1. TypeOK /\ Peer(x) \in Side /\ Peer(x) # x
  BY Sides DEF Ground, TypeInv
<1>2. Apart(x)
  BY <1>1 DEF Apart
<1>3. Turn(x)
  BY <1>1, <1>2, TurnFrom
<1>4. Same(x)
  BY <1>1, SameSaid DEF Same
<1> QED
  BY <1>3, <1>4 DEF Move

LEMMA ForgetSpends ==
  ASSUME TypeOK, NEW x \in Side, NEW raws, Forget(x, raws), UNCHANGED <<keys, net>>
  PROVE  Spends(x) /\ \A q \in Side : q # x => retained_out'[q] = retained_out[q]
<1>1. retained_out' = [retained_out EXCEPT ![x] =
                         rewrite_retained_as_deletes(@, raws, keys[x].key)]
  BY DEF Forget
<1>2. \A r \in retained_out[x] : Withdrawn(r, keys[x].key).key \in {r.key, keys[x].key}
  <2>1. \A r \in Item : Withdrawn(r, keys[x].key).key \in {r.key, keys[x].key}
    BY DEF Withdrawn, Item, Wrapper
  <2> QED
    BY <2>1 DEF TypeOK
<1>3. \A r \in rewrite_retained_as_deletes(retained_out[x], raws, keys[x].key) :
        (\E s \in retained_out[x] : s.key = r.key) \/ r.key = keys[x].key
  BY <1>2 DEF rewrite_retained_as_deletes
<1>4. retained_out'[x] = rewrite_retained_as_deletes(retained_out[x], raws, keys[x].key)
  BY <1>1 DEF TypeOK
<1>5. \A q \in Side : q # x => retained_out'[q] = retained_out[q]
  BY <1>1 DEF TypeOK
<1> QED
  BY <1>3, <1>4, <1>5 DEF Spends

\* A step that only moves on in its own list of steps.
LEMMA QuietMove ==
  ASSUME Ground, NEW x \in Side, NEW rest, rest = todo[x] \/ rest \in Seq(RestStep),
         todo' = [todo EXCEPT ![x] = rest],
         UNCHANGED <<state, keys, storeVars, net, minted, sent>>,
         \A q \in Side : seq'[q].in_seq_no = seq[q].in_seq_no
  PROVE  Move(x)
<1>1. TypeOK /\ UNCHANGED <<retained_out, pending_deliveries>>
  BY DEF Ground, TypeInv, storeVars
<1>2. /\ \A q \in Side : q # x => todo'[q] = todo[q]
      /\ todo'[x] = todo[x] \/ todo'[x] \in Seq(RestStep)
  BY <1>1 DEF TypeOK
<1>3. MailNumber(x)' = MailNumber(x)
  BY <1>1, SameNumber
<1>4. Advances(x) /\ Spends(x)
  BY <1>1, <1>2, <1>3, RestAdvances DEF Spends
<1> QED
  BY <1>1, <1>2, <1>4, StillMove DEF Open

LEMMA StutterMove ==
  ASSUME Ground, NEW x \in Side, UNCHANGED vars
  PROVE  Move(x)
<1>1. /\ UNCHANGED <<state, seq, keys, todo>> /\ UNCHANGED <<storeVars, net, minted, sent>>
  BY DEF vars, chatVars, runVars, history
<1>2. todo' = [todo EXCEPT ![x] = todo[x]]
  BY <1>1 DEF Ground, TypeInv, TypeOK
<1> QED
  BY <1>1, <1>2, QuietMove

----------------------------------------------------------------------------
(* The actions *)

LEMMA ApplicationMoves ==
  ASSUME Ground, NEW x \in Side, Application(x)
  PROVE  Move(x)
<1>1. TypeInv /\ TypeOK /\ InOrder
  BY DEF Ground, TypeInv
<1>2. todo' = todo => todo' = [todo EXCEPT ![x] = todo[x]]
  BY <1>1 DEF TypeOK
<1>3. CASE SendMessage(x) \/ NotifyLayer(x)
  <2>1. /\ Open(x) /\ UNCHANGED <<todo, minted>> /\ seq' = Counted(x)
        /\ \E act, a, o : /\ Commit(x, act, a, 0, keys[x].key, keys[x], state[x], o)
                          /\ act \notin ExchangeActs
    BY <1>3 DEF SendMessage, NotifyLayer, Idle, ExchangeActs
  <2>2. \A q \in Side : seq'[q].in_seq_no = seq[q].in_seq_no
    BY <1>1, <2>1, CountedType
  <2> QED
    BY <1>2, <2>1, <2>2, PlainMove
<1>4. CASE StartRekey(x)
  <2>1. PICK e \in ExchangeIds[x], o \in AnyOutcome :
          /\ \A i \in SentActs(x, {"request"}) : sent[x][i].a # e
          /\ Commit(x, "request", e, 0, keys[x].key, Requested(keys[x], e), "rekeying", o)
          /\ GoOn(x, o, todo[x])
    BY <1>4 DEF StartRekey
  <2>2. /\ Open(x) /\ seq' = Counted(x) /\ UNCHANGED minted
        /\ keys[x].exchange_id = NoExchange /\ keys[x].previous_key = NoKey
    BY <1>4 DEF StartRekey, Idle, At
  <2>3. \A q \in Side : seq'[q].in_seq_no = seq[q].in_seq_no
    BY <1>1, <2>2, CountedType
  <2>4. /\ todo'[Peer(x)] = todo[Peer(x)]
        /\ todo'[x] = todo[x] \/ todo'[x] \in Seq(RestStep)
    <3>1. Peer(x) # x /\ Peer(x) \in Side
      BY Sides
    <3> QED
      BY <1>1, <2>1, <3>1, NoRest DEF GoOn, TypeOK
  <2>5. Apart(x) /\ Spends(x) /\ Adds(x, "request", e, 0) /\ keys'[x] = Requested(keys[x], e)
    BY <1>1, <2>1, <2>3, <2>4, CommitMoves, Sides
  <2>6. MailNumber(x)' = MailNumber(x)
    BY <2>1, <2>3, SameNumber DEF Commit
  <2>7. Turn(x)
    BY <1>1, <2>2, <2>4, <2>5, <2>6, RestAdvances, TurnFrom
  <2>8. e \in Nat
    BY BoundsAssumption
  <2>9. \A i \in Nat : ~ Req(x, i, e)
    BY <2>1 DEF Req, SentActs
  <2> QED
    BY <2>2, <2>5, <2>7, <2>8, <2>9 DEF Move, Asks
<1>5. CASE BeginDelete(x) \/ BeginFlush(x)
  <2>1. /\ UNCHANGED <<chatVars, pending_deliveries, net, history>>
        /\ Open(x) /\ \E raws : Forget(x, raws)
        /\ \/ \E i \in SentActs(x, {"msg"}) :
                todo' = [todo EXCEPT ![x] = <<[do |-> "delete", arg |-> i - 1]>>]
           \/ todo' = [todo EXCEPT ![x] = <<Do("flush")>>]
    BY <1>5 DEF BeginDelete, BeginFlush, Idle
  <2>2. /\ \A q \in Side : q # x => todo'[q] = todo[q]
        /\ todo'[x] \in Seq(RestStep)
    <3>1. \A i \in SentActs(x, {"msg"}) :
            <<[do |-> "delete", arg |-> i - 1]>> \in Seq(RestStep)
      <4>1. \A i \in SentActs(x, {"msg"}) : i - 1 \in Nat
        BY <1>1 DEF SentActs, TypeOK
      <4> QED
        BY <4>1 DEF RestStep, Steps
    <3>2. <<Do("flush")>> \in Seq(RestStep)
      BY DEF Do, RestStep, Steps
    <3> QED
      BY <1>1, <2>1, <3>1, <3>2 DEF TypeOK
  <2>3. Spends(x) /\ \A q \in Side : q # x => retained_out'[q] = retained_out[q]
    BY <1>1, <2>1, ForgetSpends DEF chatVars
  <2>4. MailNumber(x)' = MailNumber(x)
    BY <2>1, SameNumber DEF chatVars
  <2>5. Advances(x)
    BY <2>2, <2>4, RestAdvances
  <2> QED
    BY <2>1, <2>2, <2>3, <2>5, StillMove DEF chatVars, history
<1>6. CASE SendDelete(x)
  <2>1. /\ Open(x) /\ UNCHANGED minted /\ seq' = Counted(x)
        /\ \E act, a, o : /\ Commit(x, act, a, 0, keys[x].key, keys[x], state[x], o)
                          /\ GoOn(x, o, Tail(todo[x]))
                          /\ act \notin ExchangeActs
    <3>1. Head(todo[x]).do \in {"delete", "flush"}
      BY <1>6 DEF SendDelete, At
    <3> QED
      BY <1>6, <3>1 DEF SendDelete, At, ExchangeActs
  <2>2. Tail(todo[x]) \in Seq(RestStep)
    BY <1>1, <1>6, RestOf DEF SendDelete
  <2>3. \A q \in Side : seq'[q].in_seq_no = seq[q].in_seq_no
    BY <1>1, <2>1, CountedType
  <2> QED
    BY <2>1, <2>2, <2>3, NoRest, PlainMove DEF GoOn
<1>7. CASE Close(x)
  BY <1>7, CloseMove DEF Close, Idle, history
<1> QED
  BY <1>3, <1>4, <1>5, <1>6, <1>7 DEF Application

\* What the key fields k may become by a frame under key `named`.
Heeds(k, named, new) ==
  \/ /\ k.pending_key # NoKey /\ named = k.pending_key
     /\ new.key = named /\ new.previous_key \in {k.key, NoKey}
     /\ new.exchange_id = NoExchange /\ new.rekey_role = "none"
     /\ new.pending_key = NoKey
  \/ /\ new.key = k.key /\ new.pending_key = k.pending_key
     /\ new.exchange_id = k.exchange_id /\ new.rekey_role = k.rekey_role
     /\ new.new_key_confirmed = k.new_key_confirmed \/ named = k.key
     /\ \/ new.previous_key = k.previous_key
        \/ new.previous_key = NoKey /\ new.new_key_confirmed = TRUE

LEMMA WitnessedKeys ==
  ASSUME NEW k \in KeyState, NEW named, NEW gap
  PROVE  Heeds(k, named, retire_previous_key_if_settled(Witnessed(k, named), gap))
<1> DEFINE new == retire_previous_key_if_settled(Witnessed(k, named), gap)
<1> DEFINE seen == Witnessed(k, named)
<1>1. /\ seen \in KeyState
      /\ \/ /\ k.pending_key # NoKey /\ named = k.pending_key
            /\ seen.key = named /\ seen.previous_key = k.key
            /\ seen.exchange_id = NoExchange /\ seen.rekey_role = "none"
            /\ seen.pending_key = NoKey
         \/ /\ ~ (k.pending_key # NoKey /\ named = k.pending_key)
            /\ seen.key = k.key /\ seen.pending_key = k.pending_key
            /\ seen.exchange_id = k.exchange_id /\ seen.rekey_role = k.rekey_role
            /\ seen.new_key_confirmed = k.new_key_confirmed \/ named = k.key
            /\ seen.previous_key = k.previous_key
  <2>1. CASE k.pending_key # NoKey /\ named = k.pending_key
    <3> DEFINE a == adopt_new_key(k, named)
    <3>1. a \in KeyState
      BY <2>1, AdoptType DEF KeyState, Key
    <3>2. /\ a.key = named /\ a.previous_key = k.key /\ a.pending_key = NoKey
          /\ a.exchange_id = NoExchange /\ a.rekey_role = "none"
      BY DEF adopt_new_key, clear, KeyState
    <3>3. seen = [a EXCEPT !.new_key_confirmed = TRUE]
      BY <2>1 DEF Witnessed
    <3> HIDE DEF a, seen
    <3> QED
      BY <2>1, <3>1, <3>2, <3>3 DEF KeyState
  <2>2. CASE ~ (k.pending_key # NoKey /\ named = k.pending_key)
    BY <2>2 DEF Witnessed, KeyState
  <2> QED
    BY <2>1, <2>2
<1> HIDE DEF seen
<1>2. \/ new = seen
      \/ new = [seen EXCEPT !.previous_key = NoKey] /\ seen.new_key_confirmed = TRUE
  <2>1. seen.new_key_confirmed \in BOOLEAN
    BY <1>1 DEF KeyState
  <2>2. new = retire_previous_key_if_settled(seen, gap)
    BY DEF seen
  <2> QED
    BY <2>1, <2>2 DEF retire_previous_key_if_settled
<1> HIDE DEF new
<1>3. \/ new = seen
      \/ /\ new.key = seen.key /\ new.pending_key = seen.pending_key
         /\ new.exchange_id = seen.exchange_id /\ new.rekey_role = seen.rekey_role
         /\ new.new_key_confirmed = seen.new_key_confirmed
         /\ new.previous_key = NoKey /\ new.new_key_confirmed = TRUE
  BY <1>1, <1>2 DEF KeyState
<1>4. Heeds(k, named, new)
  BY <1>1, <1>3 DEF Heeds
<1> QED
  BY <1>4 DEF new

LEMMA ReceiptMove ==
  ASSUME Ground, NEW x \in Side, Open(x), NEW f \in net, f.to = x, NEW c \in SeqState,
         NEW ready \in Seq(Wrapper), c.in_seq_no = seq[x].in_seq_no + Len(ready),
         Receipt(x, f, c, ready)
  PROVE  Move(x)
<1>1. TypeInv /\ TypeOK /\ Peer(x) \in Side /\ Peer(x) # x /\ Peer(Peer(x)) = x
  BY Sides DEF Ground, TypeInv
<1> DEFINE k == keys[x]
<1> DEFINE box == pending_deliveries[x] \o ready
<1> DEFINE answer == IF f.w.act = "resend"
                       THEN answer_resend(retained_out[x], f.w.a, f.w.b) ELSE {}
<1> DEFINE kept == forget_acknowledged(x, retained_out[x], c.peer_in_seq_no)
<1> DEFINE switched == k.pending_key # NoKey /\ f.key = k.pending_key
<1> DEFINE R == (kept \ answer) \cup {[r EXCEPT !.pending = TRUE] : r \in answer}
<1> DEFINE steps == Plan(box, answer, c.resend_due, switched)
<1>2. /\ seq' = [seq EXCEPT ![x] = c]
      /\ keys' = [keys EXCEPT ![x] = retire_previous_key_if_settled(
                                       Witnessed(@, f.key), c.gap_requested)]
      /\ state' = IF switched THEN [state EXCEPT ![x] = "ready"] ELSE state
      /\ retained_out' = [retained_out EXCEPT ![x] = R]
      /\ pending_deliveries' = [pending_deliveries EXCEPT ![x] = box]
      /\ todo' = [todo EXCEPT ![x] = steps]
      /\ UNCHANGED <<net, minted, sent>>
  BY DEF Receipt, Mailed, history
<1>3. answer \subseteq retained_out[x] /\ kept \subseteq retained_out[x]
  BY DEF answer_resend, forget_acknowledged
<1>4. steps \in Seq(RestStep)
  BY PlanRest
<1> HIDE DEF answer, kept, switched, steps, box
<1>5. /\ keys'[x] = retire_previous_key_if_settled(Witnessed(k, f.key), c.gap_requested)
      /\ pending_deliveries'[x] = box
      /\ seq'[x] = c /\ todo'[x] = steps /\ retained_out'[x] = R
  BY <1>1, <1>2 DEF TypeOK
<1>6. Apart(x)
  BY <1>1, <1>2 DEF Apart, TypeOK
<1>7. Spends(x)
  <2>1. \A r \in retained_out[x] : [r EXCEPT !.pending = TRUE].key = r.key
    <3>1. \A r \in Item : [r EXCEPT !.pending = TRUE].key = r.key
      BY DEF Item
    <3> QED
      BY <1>1, <3>1 DEF TypeOK
  <2>2. \A r \in R : \E s \in retained_out[x] : s.key = r.key
    BY <1>3, <2>1
  <2> HIDE DEF R
  <2> QED
    BY <1>2, <1>5, <2>2 DEF Spends
<1> HIDE DEF R
<1>8. MailNumber(x)' = MailNumber(x)
  <2>1. pending_deliveries[x] \in Seq(Wrapper) /\ seq[x].in_seq_no \in Nat
    BY <1>1, CounterType DEF TypeOK
  <2>2. Len(box) = Len(pending_deliveries[x]) + Len(ready)
        /\ Len(pending_deliveries[x]) \in Nat /\ Len(ready) \in Nat
    BY <2>1 DEF box
  <2>3. c.in_seq_no - Len(box) = seq[x].in_seq_no - Len(pending_deliveries[x])
    BY <2>1, <2>2
  <2> QED
    BY <1>5, <2>3 DEF MailNumber
<1>9. Advances(x)
  BY <1>5, <1>4, <1>8, RestAdvances
<1>10. Turn(x)
  BY <1>1, <1>6, <1>7, <1>9, TurnFrom
<1>11. Adds(x, "msg", 0, 0) /\ minted' = minted
  BY <1>1, <1>2, SameSaid
<1>12. UsedBy(Peer(x), f.key)
  BY <1>1 DEF UsedBy
<1>13. k \in KeyState /\ k.key # NoKey
  BY <1>1 DEF TypeOK, TypeInv, KeyHeld
<1> HIDE DEF k
<1>14. k = keys[x]
  BY DEF k
<1>15. Heeds(k, f.key, keys'[x])
  BY <1>5, <1>13, WitnessedKeys
<1>16. Follows(x) \/ Hears(x)
  BY <1>11, <1>12, <1>13, <1>14, <1>15 DEF Heeds, Follows, Hears
<1> QED
  BY <1>10, <1>16 DEF Move

LEMMA ReceiveMoves ==
  ASSUME Ground, NEW x \in Side, Receive(x)
  PROVE  Move(x)
<1>1. TypeInv
  BY DEF Ground
<1>2. CASE \E f \in net : ReceiveNext(x, f) \/ ReceiveEarly(x, f)
  <2>1. PICK f \in net, c \in SeqState, ready \in Seq(Wrapper) :
          /\ Open(x) /\ f.to = x /\ c.in_seq_no = seq[x].in_seq_no + Len(ready)
          /\ Receipt(x, f, c, ready)
    BY <1>1, <1>2, ReceiptOf
  <2> QED
    BY <2>1, ReceiptMove
<1>3. CASE \E f \in net : ReceiveRefused(x, f)
  BY <1>3, CloseMove DEF ReceiveRefused, Idle, history
<1>4. CASE \E f \in net : ReceiveIgnored(x, f)
  BY <1>4, StutterMove DEF ReceiveIgnored
<1>5. CASE Discarded(x)
  BY <1>5, CloseMove DEF Discarded, history, Retrying, Idle, At, Draining
<1> QED
  BY <1>2, <1>3, <1>4, <1>5 DEF Receive

\* An answer to the head, with the head handed over or left for later.
LEMMA ReplyMoves ==
  ASSUME Ground, NEW x \in Side, Draining(x), NEW act, NEW a, NEW b, NEW key, NEW new,
         NEW st, Reply(x, act, a, b, key, new, st), key = keys[x].key \/ key = new.key,
         \/ new.pending_key = NoKey
         \/ ~ (Mail(x).act = "commit" /\ Mail(x).a = new.exchange_id),
         new.pending_key # NoKey => new.exchange_id \in Nat
  PROVE  /\ Turn(x) /\ Adds(x, act, a, b) /\ keys'[x] = new
         /\ Passed(x)' <= MailNumber(x) + 1
<1>1. TypeInv /\ TypeOK /\ Peer(x) \in Side /\ Peer(x) # x
  BY Sides DEF Ground, TypeInv
<1>2. PICK o : /\ Commit(x, act, a, b, key, new, st, o) /\ seq' = Counted(x)
               /\ \/ HandOver(x)
                  \/ todo' = [todo EXCEPT ![x] = <<>>]
  BY DEF Reply
<1>3. \A q \in Side : seq'[q].in_seq_no = seq[q].in_seq_no
  BY <1>1, <1>2, CountedType
<1>4. /\ todo'[Peer(x)] = todo[Peer(x)]
      /\ todo'[x] = <<Do("pop")>> \o Tail(todo[x]) \/ todo'[x] \in Seq(RestStep)
  BY <1>1, <1>2, NoRest DEF HandOver, TypeOK
<1>5. Apart(x) /\ Spends(x) /\ Adds(x, act, a, b) /\ keys'[x] = new
  BY <1>1, <1>2, <1>3, <1>4, CommitMoves
<1>6. MailNumber(x)' = MailNumber(x)
  BY <1>2, <1>3, SameNumber DEF Commit
<1>7. Advances(x) /\ Passed(x)' <= MailNumber(x) + 1
  BY <1>4, <1>5, <1>6, RestAdvances, HandOverAdvances
<1>8. Open(x)
  BY DEF Draining, At
<1> QED
  BY <1>1, <1>5, <1>7, <1>8, TurnFrom

\* The head handed over, and nothing of it sent.
LEMMA HandedMove ==
  ASSUME Ground, NEW x \in Side, Draining(x), HandOver(x),
         UNCHANGED <<state, keys, pending_deliveries, net, minted, sent>>,
         \A q \in Side : seq'[q].in_seq_no = seq[q].in_seq_no,
         \/ UNCHANGED retained_out
         \/ \E raws : Forget(x, raws),
         \/ keys[x].pending_key = NoKey
         \/ ~ (Mail(x).act = "commit" /\ Mail(x).a = keys[x].exchange_id)
  PROVE  Move(x)
<1>1. TypeInv /\ TypeOK /\ Peer(x) \in Side /\ Peer(x) # x
  BY Sides DEF Ground, TypeInv
<1>2. todo' = [todo EXCEPT ![x] = <<Do("pop")>> \o Tail(todo[x])]
  BY DEF HandOver
<1>3. /\ \A q \in Side : q # x => todo'[q] = todo[q]
      /\ todo'[x] = <<Do("pop")>> \o Tail(todo[x])
  BY <1>1, <1>2 DEF TypeOK
<1>4. MailNumber(x)' = MailNumber(x)
  BY SameNumber
<1>5. keys[x].pending_key # NoKey => keys[x].exchange_id \in Nat
  BY KeySides DEF Ground, KeySide, Consistent
<1>6. Advances(x)
  BY <1>3, <1>4, <1>5, HandOverAdvances
<1>7. Spends(x) /\ \A q \in Side : q # x => retained_out'[q] = retained_out[q]
  BY <1>1, ForgetSpends DEF Spends
<1> QED
  BY <1>1, <1>3, <1>6, <1>7, StillMove DEF Open

\* A head whose handler neither sends nor saves.
LEMMA UnansweredMove ==
  ASSUME Ground, NEW x \in Side, Draining(x), Unanswered(x),
         \/ keys[x].pending_key = NoKey
         \/ ~ (Mail(x).act = "commit" /\ Mail(x).a = keys[x].exchange_id)
  PROVE  Move(x)
BY HandedMove DEF Unanswered, chatVars, storeVars

LEMMA RequestMove ==
  ASSUME Ground, NEW x \in Side, DeliverRequestKey(x)
  PROVE  Move(x)
<1>1. /\ Draining(x) /\ Mail(x).act = "request" /\ pending_deliveries[x] # <<>>
      /\ TypeInv /\ keys[x] \in KeyState /\ KeySide(x) /\ minted \in Nat
  BY KeySides DEF DeliverRequestKey, Draining, Ground, TypeInv, TypeOK
<1>2. PICK n \in Nat : /\ n = MailNumber(x) + 1 /\ Req(Peer(x), n, Mail(x).a)
                       /\ Mail(x).a \in Nat
  BY <1>1, HeadActs
<1>3. PICK e \in Nat : e = Mail(x).a
  BY <1>2
<1>4. keys[x].pending_key # NoKey => keys[x].exchange_id \in Nat
  BY <1>1 DEF KeySide, Consistent
<1>5. CASE /\ RequestOutcome(keys[x], e) = "abort"
           /\ Reply(x, "abort", e, 0, keys[x].key, keys[x], state[x])
           /\ UNCHANGED minted
  <2>1. Turn(x) /\ Adds(x, "abort", e, 0) /\ keys'[x] = keys[x]
    BY <1>1, <1>4, <1>5, ReplyMoves
  <2>2. keys[x].previous_key # NoKey
    BY <1>5 DEF RequestOutcome, resolve_collision
  <2> QED
    BY <1>5, <2>1, <2>2 DEF Move, Refuses
<1>6. CASE Unanswered(x)
  BY <1>1, <1>6, UnansweredMove
<1>7. CASE /\ RequestOutcome(keys[x], e) = "join_theirs"
           /\ minted' = minted + 1
           /\ Reply(x, "accept", e, minted + 1, keys[x].key,
                    Accepted(keys[x], e, minted + 1), "rekeying")
  <2> DEFINE new == Accepted(keys[x], e, minted + 1)
  <2>1. new.exchange_id = e /\ new.key = keys[x].key
    BY <1>1 DEF Accepted, KeyState
  <2>2. Reply(x, "accept", e, minted + 1, keys[x].key, new, "rekeying")
    BY <1>7
  <2> HIDE DEF new
  <2>3. /\ Turn(x) /\ Adds(x, "accept", e, minted + 1) /\ keys'[x] = new
        /\ Passed(x)' <= MailNumber(x) + 1
    BY <1>1, <2>1, <2>2, ReplyMoves
  <2>4. keys[x].previous_key = NoKey /\ keys[x].rekey_role # "accepted"
    <3>1. keys[x].previous_key = NoKey
      BY <1>7 DEF RequestOutcome
    <3>2. keys[x].exchange_id = NoExchange \/ keys[x].rekey_role = "requested"
      BY <1>7, <3>1 DEF RequestOutcome
    <3>3. keys[x].exchange_id = NoExchange => keys[x].rekey_role = "none"
      BY <1>1 DEF KeySide, Consistent
    <3> QED
      BY <3>1, <3>2, <3>3
  <2>5. MailNumber(x) + 1 \in Nat /\ Req(Peer(x), MailNumber(x) + 1, e)
    BY <1>2, <1>3
  <2>6. Joins(x)
    BY <1>7, <2>3, <2>4, <2>5 DEF Joins, new
  <2> QED
    BY <2>3, <2>6 DEF Move
<1> QED
  BY <1>3, <1>5, <1>6, <1>7 DEF DeliverRequestKey

LEMMA AcceptMove ==
  ASSUME Ground, NEW x \in Side, DeliverAcceptKey(x)
  PROVE  Move(x)
<1>1. /\ Draining(x) /\ Mail(x).act = "accept" /\ pending_deliveries[x] # <<>>
      /\ TypeInv /\ keys[x] \in KeyState /\ KeySide(x) /\ Open(x)
  BY KeySides DEF DeliverAcceptKey, Draining, At, Ground, TypeInv, TypeOK
<1>2. PICK n \in Nat : /\ n = MailNumber(x) + 1
                       /\ Acc(Peer(x), n, Mail(x).a, Mail(x).b)
                       /\ Mail(x).a \in Nat /\ Mail(x).b \in Nat
  BY <1>1, HeadActs
<1>3. PICK e \in Nat, b \in Nat : e = Mail(x).a /\ b = Mail(x).b
  BY <1>2
<1>4. CASE Unanswered(x)
  BY <1>1, <1>4, UnansweredMove
<1>5. CASE /\ AcceptMatches(keys[x], Mail(x))
           /\ Reply(x, "commit", e, b, keys[x].key, adopt_new_key(keys[x], b), "ready")
           /\ UNCHANGED minted
  <2> DEFINE new == adopt_new_key(keys[x], b)
  <2>1. new.pending_key = NoKey
    BY <1>1 DEF adopt_new_key, clear, KeyState
  <2>2. Reply(x, "commit", e, b, keys[x].key, new, "ready")
    BY <1>5
  <2> HIDE DEF new
  <2>3. Turn(x) /\ Adds(x, "commit", e, b) /\ keys'[x] = new
    BY <1>1, <2>1, <2>2, ReplyMoves
  <2>4. keys[x].exchange_id = e /\ keys[x].rekey_role = "requested"
    BY <1>1, <1>3, <1>5 DEF AcceptMatches, KeySide, Consistent
  <2>5. Acc(Peer(x), n, e, b)
    BY <1>2, <1>3
  <2>6. Adopts(x)
    BY <1>1, <1>5, <2>3, <2>4, <2>5 DEF Adopts, new
  <2> QED
    BY <2>3, <2>6 DEF Move
<1> QED
  BY <1>3, <1>4, <1>5 DEF DeliverAcceptKey

LEMMA CommitMove ==
  ASSUME Ground, NEW x \in Side, DeliverCommitKey(x)
  PROVE  Move(x)
<1>1. /\ Draining(x) /\ Mail(x).act = "commit" /\ pending_deliveries[x] # <<>>
      /\ TypeInv /\ keys[x] \in KeyState /\ KeySide(x) /\ Open(x)
  BY KeySides DEF DeliverCommitKey, Draining, At, Ground, TypeInv, TypeOK
<1>2. PICK n \in Nat : /\ n = MailNumber(x) + 1
                       /\ Com(Peer(x), n, Mail(x).a, Mail(x).b)
                       /\ Mail(x).a \in Nat /\ Mail(x).b \in Nat
  BY <1>1, HeadActs
<1>3. PICK e \in Nat, b \in Nat : e = Mail(x).a /\ b = Mail(x).b
  BY <1>2
<1>4. CASE ~ CommitMatches(keys[x], Mail(x)) /\ Unanswered(x)
  <2>1. \/ keys[x].pending_key = NoKey
        \/ ~ (Mail(x).act = "commit" /\ Mail(x).a = keys[x].exchange_id)
    BY <1>4 DEF CommitMatches
  <2> QED
    BY <1>1, <1>4, <2>1, UnansweredMove
<1>5. CASE /\ CommitMatches(keys[x], Mail(x)) /\ keys[x].pending_key = b
           /\ Reply(x, "noop", 0, 0, keys[x].pending_key, Committed(keys[x]), "ready")
           /\ UNCHANGED minted
  <2> DEFINE new == Committed(keys[x])
  <2>1. /\ new.key = b /\ new.previous_key = keys[x].key /\ new.pending_key = NoKey
        /\ new.exchange_id = NoExchange /\ new.rekey_role = "none"
    <3> DEFINE k == adopt_new_key(keys[x], b)
    <3>1. k \in KeyState
      BY <1>1, AdoptType
    <3>2. /\ k.key = b /\ k.previous_key = keys[x].key /\ k.pending_key = NoKey
          /\ k.exchange_id = NoExchange /\ k.rekey_role = "none"
      BY <1>1 DEF adopt_new_key, clear, KeyState
    <3>3. new = [k EXCEPT !.new_key_confirmed = TRUE]
      BY <1>5 DEF Committed
    <3> HIDE DEF k, new
    <3> QED
      BY <3>1, <3>2, <3>3 DEF KeyState
  <2>2. Reply(x, "noop", 0, 0, keys[x].pending_key, new, "ready")
    BY <1>5
  <2> HIDE DEF new
  <2>3. Turn(x) /\ Adds(x, "noop", 0, 0) /\ keys'[x] = new
    BY <1>1, <1>5, <2>1, <2>2, ReplyMoves
  <2>4. Adds(x, "msg", 0, 0)
    BY <2>3, PlainAdds DEF ExchangeActs
  <2>5. Com(Peer(x), n, e, keys[x].pending_key) /\ keys[x].pending_key # NoKey
    BY <1>2, <1>3, <1>5 DEF CommitMatches
  <2>6. Follows(x)
    BY <1>5, <2>1, <2>3, <2>4, <2>5 DEF Follows
  <2> QED
    BY <2>3, <2>6 DEF Move
<1>6. CASE CloseChat(x, "commit") /\ UNCHANGED <<net, history>>
  BY <1>1, <1>6, CloseMove DEF history
<1> QED
  BY <1>3, <1>4, <1>5, <1>6 DEF DeliverCommitKey

LEMMA PopMove ==
  ASSUME Ground, NEW x \in Side, Pop(x)
  PROVE  Move(x)
<1> DEFINE box == pending_deliveries[x]
<1> DEFINE rest == Tail(todo[x])
<1> DEFINE t == IF Len(box) = 1 THEN rest ELSE <<Do("drain")>> \o rest
<1> DEFINE ends == EndsExchange(keys[x], Mail(x))
<1>1. TypeInv /\ TypeOK /\ Peer(x) \in Side /\ Peer(x) # x /\ InOrder
  BY Sides DEF Ground, TypeInv
<1>2. /\ At(x, "pop") /\ box # <<>>
      /\ UNCHANGED <<seq, retained_out, net, minted, sent>>
      /\ pending_deliveries' = [pending_deliveries EXCEPT ![x] = Tail(box)]
      /\ todo' = [todo EXCEPT ![x] = t]
      /\ keys' = IF ends THEN [keys EXCEPT ![x] = clear(@)] ELSE keys
      /\ state' = IF ends /\ state[x] = "rekeying"
                    THEN [state EXCEPT ![x] = "ready"] ELSE state
  BY DEF Pop, history
<1>3. t \in Seq(RestStep)
  <2>1. rest \in Seq(RestStep)
    BY <1>1, <1>2, RestOf
  <2> HIDE DEF rest
  <2>2. <<Do("drain")>> \in Seq(RestStep)
    BY DEF Do, RestStep, Steps
  <2>3. <<Do("drain")>> \o rest \in Seq(RestStep)
    BY <2>1, <2>2
  <2> QED
    BY <2>1, <2>3
<1> HIDE DEF t
<1>4. Passed(x) = MailNumber(x) + 1
  BY <1>2 DEF At, Passed
<1>5. MailNumber(x)' = MailNumber(x) + 1
  <2> DEFINE k == seq[x].in_seq_no
  <2> DEFINE l == Len(box)
  <2>1. k \in Nat /\ l \in Nat /\ Len(Tail(box)) = l - 1
    <3>1. box \in Seq(Wrapper) /\ box # <<>>
      BY <1>1, <1>2 DEF TypeOK
    <3>2. Len(Tail(box)) = Len(box) - 1 /\ Len(box) \in Nat
      <4> HIDE DEF box
      <4> QED BY <3>1
    <3> QED
      BY <1>1, <3>2, CounterType
  <2>2. MailNumber(x)' = k - Len(Tail(box)) /\ MailNumber(x) = k - l
    BY <1>1, <1>2 DEF MailNumber, TypeOK
  <2> HIDE DEF k, l
  <2>3. k - (l - 1) = (k - l) + 1
    BY <2>1
  <2> QED
    BY <2>1, <2>2, <2>3
<1>6. Passed(x)' = MailNumber(x)'
  <2>1. todo'[x] \in Seq(RestStep)
    BY <1>1, <1>2, <1>3 DEF TypeOK
  <2>2. ~ (todo'[x] # <<>> /\ Head(todo'[x]).do = "pop")
    <3>1. \A r \in RestStep : r.do # "pop"
      BY DEF RestStep
    <3>2. todo'[x] # <<>> => Head(todo'[x]) \in RestStep
      BY <2>1
    <3> QED
      BY <3>1, <3>2
  <2> QED
    BY <2>2 DEF Passed
<1>7. Advances(x)
  <2>1. MailNumber(x) \in Nat /\ Passed(x) \in Nat /\ Passed(x) <= Len(sent[Peer(x)])
    BY PassedFacts
  <2> QED
    BY <1>4, <1>5, <1>6, <2>1 DEF Advances
<1>8. Apart(x) /\ Spends(x)
  BY <1>1, <1>2 DEF Apart, Spends, TypeOK
<1>9. Open(x)
  BY <1>2 DEF At
<1>10. Turn(x)
  BY <1>1, <1>7, <1>8, <1>9, TurnFrom
<1>11. Adds(x, "msg", 0, 0) /\ minted' = minted
  BY <1>1, <1>2, SameSaid
<1>12. CASE ~ ends
  BY <1>2, <1>10, <1>11, <1>12 DEF Move, Same
<1>13. CASE ends
  <2>1. keys'[x] = clear(keys[x])
    BY <1>1, <1>2, <1>13 DEF TypeOK
  <2>2. PICK n \in Nat :
           /\ n = MailNumber(x) + 1
           /\ Mail(x).act = "abort" =>
                Exch(Peer(x), n) /\ \A e \in Nat : ~ Req(Peer(x), n, e)
    BY <1>2, HeadActs
  <2>3. CASE Mail(x).act = "abort"
    BY <1>4, <1>10, <1>11, <2>1, <2>2, <2>3 DEF Move, Ends
  <2>4. CASE RequestOutcome(keys[x], Mail(x).a) = "abort_both"
    <3>1. keys[x].rekey_role # "accepted"
      BY <2>4 DEF RequestOutcome
    <3> QED
      BY <1>10, <1>11, <2>1, <3>1 DEF Move, Ends
  <2> QED
    BY <1>13, <2>3, <2>4 DEF EndsExchange
<1> QED
  BY <1>12, <1>13

LEMMA DrainMoves ==
  ASSUME Ground, NEW x \in Side, Drain(x)
  PROVE  Move(x)
<1>1. CASE DeliverPlain(x)
  <2>1. ~ (Mail(x).act = "commit" /\ Mail(x).a = keys[x].exchange_id)
    BY <1>1 DEF DeliverPlain
  <2> QED
    BY <1>1, <2>1, HandedMove DEF DeliverPlain, chatVars, storeVars
<1>2. CASE DeliverNotifyLayer(x)
  <2>1. \A q \in Side : seq'[q].in_seq_no = seq[q].in_seq_no
    BY <1>2 DEF DeliverNotifyLayer, Ground, TypeInv, TypeOK, SeqState
  <2>2. ~ (Mail(x).act = "commit" /\ Mail(x).a = keys[x].exchange_id)
    BY <1>2 DEF DeliverNotifyLayer
  <2> QED
    BY <1>2, <2>1, <2>2, HandedMove DEF DeliverNotifyLayer, storeVars
<1>3. CASE DeliverFlush(x)
  <2>1. ~ (Mail(x).act = "commit" /\ Mail(x).a = keys[x].exchange_id)
    BY <1>3 DEF DeliverFlush
  <2> QED
    BY <1>3, <2>1, HandedMove DEF DeliverFlush, chatVars
<1>4. CASE DeliverAbortKey(x)
  BY <1>4, UnansweredMove DEF DeliverAbortKey
<1> QED
  BY <1>1, <1>2, <1>3, <1>4, RequestMove, AcceptMove, CommitMove, PopMove DEF Drain

LEMMA RetryMove ==
  ASSUME Ground, NEW x \in Side, RetryPending(x)
  PROVE  Move(x)
<1>1. TypeInv /\ TypeOK /\ Peer(x) \in Side /\ Peer(x) # x /\ InOrder
  BY Sides DEF Ground, TypeInv
<1>2. Open(x)
  BY DEF RetryPending, Retrying, Idle, At, Draining
<1>3. PICK o \in [Pending(x) -> AnyOutcome], tried \in SUBSET Pending(x) :
        /\ net' = net \cup {FrameOf(x, r) : r \in {z \in tried : Arrives(o[z])}}
        /\ UNCHANGED <<minted, sent>>
        /\ \/ /\ retained_out' = [retained_out EXCEPT ![x] =
                   (@ \ Pending(x)) \cup
                     {Transmitted(r, o[r], keys[x].key) : r \in Pending(x)}]
              /\ \E rest \in {Retried(x), <<>>} : todo' = [todo EXCEPT ![x] = rest]
              /\ UNCHANGED <<chatVars, pending_deliveries>>
           \/ CloseChat(x, "rejected")
  BY DEF RetryPending, history
<1>4. \A f \in net' : \/ f \in net
                      \/ /\ f.to = Peer(x)
                         /\ \E s \in retained_out[x] : s.key = f.key
  BY <1>3 DEF FrameOf, Pending
<1>5. CASE CloseChat(x, "rejected")
  BY <1>2, <1>3, <1>4, <1>5, CloseMove
<1>6. CASE /\ retained_out' = [retained_out EXCEPT ![x] =
                   (@ \ Pending(x)) \cup
                     {Transmitted(r, o[r], keys[x].key) : r \in Pending(x)}]
           /\ \E rest \in {Retried(x), <<>>} : todo' = [todo EXCEPT ![x] = rest]
           /\ UNCHANGED <<chatVars, pending_deliveries>>
  <2>1. Spends(x)
    <3>1. \A r \in retained_out'[x] :
            \/ r \in retained_out[x]
            \/ \E s \in Pending(x) : r = Transmitted(s, o[s], keys[x].key)
      BY <1>1, <1>6 DEF TypeOK
    <3>2. ASSUME NEW s \in Pending(x)
          PROVE  Transmitted(s, o[s], keys[x].key).key \in {s.key, keys[x].key}
      <4>1. \A r \in Item : \A out :
              Transmitted(r, out, keys[x].key).key \in {r.key, keys[x].key}
        BY DEF Transmitted, Withdrawn, Item, Wrapper
      <4>2. s \in Item
        BY <1>1 DEF Pending, TypeOK
      <4> QED
        BY <4>1, <4>2
    <3>3. Pending(x) \subseteq retained_out[x]
      BY DEF Pending
    <3>4. \A r \in retained_out'[x] : \/ \E s \in retained_out[x] : s.key = r.key
                                     \/ r.key = keys[x].key
      BY <3>1, <3>2, <3>3
    <3> QED
      BY <1>4, <3>4 DEF Spends
  <2>2. /\ \A q \in Side : q # x => /\ todo'[q] = todo[q]
                                  /\ retained_out'[q] = retained_out[q]
        /\ todo'[x] = todo[x] \/ todo'[x] \in Seq(RestStep)
    <3>1. Retried(x) = todo[x] \/ Retried(x) \in Seq(RestStep)
      BY <1>1, RestOf DEF Retried
    <3> QED
      BY <1>1, <1>6, <3>1, NoRest DEF TypeOK
  <2>3. MailNumber(x)' = MailNumber(x)
    BY <1>6, SameNumber DEF chatVars
  <2>4. Advances(x)
    BY <2>2, <2>3, RestAdvances
  <2> QED
    BY <1>2, <1>3, <1>6, <2>1, <2>2, <2>4, StillMove DEF chatVars
<1> QED
  BY <1>3, <1>5, <1>6

LEMMA WorkMoves ==
  ASSUME Ground, NEW x \in Side, Work(x)
  PROVE  Move(x)
<1>1. TypeInv /\ TypeOK /\ InOrder
  BY DEF Ground, TypeInv
<1>2. CASE RetryNothing(x)
  <2>1. /\ At(x, "retry") /\ todo' = [todo EXCEPT ![x] = Tail(todo[x])]
        /\ UNCHANGED <<state, seq, keys, storeVars, net, minted, sent>>
    BY <1>2 DEF RetryNothing, chatVars, history
  <2>2. Tail(todo[x]) \in Seq(RestStep)
    BY <1>1, <2>1, RestOf
  <2> QED
    BY <2>1, <2>2, QuietMove
<1>3. CASE Ask(x)
  <2>1. Open(x) /\ Tail(todo[x]) \in Seq(RestStep)
    BY <1>1, <1>3, RestOf DEF Ask
  <2>2. CASE /\ seq' = [seq EXCEPT ![x].resend_due = NoSpan]
             /\ todo' = [todo EXCEPT ![x] = Tail(@)]
             /\ UNCHANGED <<state, keys, storeVars, net, history>>
    <3>1. \A q \in Side : seq'[q].in_seq_no = seq[q].in_seq_no
      BY <1>1, <2>2 DEF TypeOK, SeqState
    <3>2. todo' = [todo EXCEPT ![x] = Tail(todo[x])]
      BY <2>2
    <3> QED
      BY <2>1, <2>2, <3>1, <3>2, QuietMove DEF history
  <2>3. CASE /\ seq' = [Counted(x) EXCEPT ![x].resend_due = NoSpan]
             /\ UNCHANGED minted
             /\ \E a, b, o : /\ Commit(x, "resend", a, b, keys[x].key, keys[x], state[x], o)
                             /\ GoOn(x, o, Tail(todo[x]))
    <3>1. \A q \in Side : seq'[q].in_seq_no = seq[q].in_seq_no
      BY <1>1, <2>3 DEF TypeOK, SeqState, Counted
    <3>2. "resend" \notin ExchangeActs
      BY DEF ExchangeActs
    <3> QED
      BY <2>1, <2>3, <3>1, <3>2, NoRest, PlainMove DEF GoOn
  <2> QED
    BY <1>3, <2>2, <2>3 DEF Ask
<1>4. CASE ConfirmSwitch(x)
  <2>1. /\ At(x, "noop") /\ UNCHANGED minted /\ seq' = Counted(x)
        /\ \E o : /\ Commit(x, "noop", 0, 0, keys[x].key, keys[x], state[x], o)
                  /\ GoOn(x, o, Tail(todo[x]))
    BY <1>4 DEF ConfirmSwitch
  <2>2. Open(x) /\ Tail(todo[x]) \in Seq(RestStep)
    BY <1>1, <2>1, RestOf
  <2>3. \A q \in Side : seq'[q].in_seq_no = seq[q].in_seq_no
    BY <1>1, <2>1, CountedType
  <2>4. "noop" \notin ExchangeActs
    BY DEF ExchangeActs
  <2> QED
    BY <2>1, <2>2, <2>3, <2>4, NoRest, PlainMove DEF GoOn
<1> QED
  BY <1>2, <1>3, <1>4, RetryMove DEF Work

LEMMA LifecycleMoves ==
  ASSUME Ground, NEW x \in Side, Lifecycle(x)
  PROVE  Move(x)
<1>1. TypeOK
  BY DEF Ground, TypeInv
<1>2. UNCHANGED <<state, seq, keys, storeVars, net, minted, sent>>
  BY DEF Lifecycle, Crash, Start, ResumeDelivery, ResumeWork, chatVars, history
<1>3. \E rest : /\ rest = todo[x] \/ rest \in Seq(RestStep)
                /\ todo' = [todo EXCEPT ![x] = rest]
  <2>1. CASE Crash(x)
    BY <2>1, NoRest DEF Crash
  <2>2. CASE Start(x)
    <3>1. todo' = [todo EXCEPT ![x] = todo[x]]
      BY <1>1, <2>2 DEF Start, TypeOK
    <3> QED
      BY <3>1
  <2>3. CASE ResumeDelivery(x)
    BY <2>3, PlanRest DEF ResumeDelivery
  <2>4. CASE ResumeWork(x)
    BY <2>4, PlanRest DEF ResumeWork
  <2> QED
    BY <2>1, <2>2, <2>3, <2>4 DEF Lifecycle
<1> QED
  BY <1>2, <1>3, QuietMove

----------------------------------------------------------------------------
(* Together *)

LEMMA KeyInit == Init => KeyInv
<1> SUFFICES ASSUME Init, NEW p \in Side PROVE SaidWell(p) /\ HeldWell(p)
  BY DEF KeyInv
<1>1. /\ Peer(p) \in Side /\ keys[p] = InitialKeys /\ keys[Peer(p)] = InitialKeys
      /\ sent[p] = <<>> /\ sent[Peer(p)] = <<>> /\ retained_out[p] = {} /\ net = {}
      /\ minted = 0 /\ todo[p] = <<>> /\ seq[p].in_seq_no = 0
      /\ pending_deliveries[p] = <<>>
  <2>1. Peer(p) \in Side
    BY Sides
  <2> QED
    BY <2>1 DEF Init, InitialSeq
<1>2. \A q \in {p, Peer(p)} : \A i \in Nat :
        /\ ~ Exch(q, i)
        /\ \A e \in Nat : ~ Req(q, i, e)
        /\ \A e, b \in Nat : ~ Acc(q, i, e, b) /\ ~ Com(q, i, e, b)
  BY <1>1 DEF Exch, Req, Acc, Com
<1>3. \A k \in Nat : ~ UsedBy(p, k)
  BY <1>1 DEF UsedBy
<1>4. /\ keys[p].key = 0 /\ keys[Peer(p)].key = 0 /\ keys[p].pending_key = NoKey
      /\ keys[p].previous_key = NoKey /\ keys[p].rekey_role = "none"
      /\ keys[Peer(p)].rekey_role = "none"
  BY <1>1 DEF InitialKeys
<1>5. Passed(p) <= Len(sent[Peer(p)])
  <2>1. Len(<<>>) = 0 /\ 0 - 0 = 0
    OBVIOUS
  <2>2. MailNumber(p) = 0
    BY <1>1, <2>1 DEF MailNumber
  <2> QED
    BY <1>1, <2>1, <2>2 DEF Passed
<1>6. SaidWell(p)
  BY <1>1, <1>2, <1>4 DEF SaidWell, RequestsDiffer, OffersDiffer, OffersMinted,
     AcceptAnswers, CommitAnswers, RequestLast
<1>7. HeldWell(p)
  BY <1>1, <1>2, <1>3, <1>4, <1>5 DEF HeldWell, Bounded, PendingOffered, AnswerHeld, Ahead,
     PeerUse, OwnUse, CommitWaits, PassedSaid, KeysMeet, NoKey
<1> QED
  BY <1>6, <1>7

LEMMA MoveBefore ==
  ASSUME Ground, TypeInv', NEW x \in Side, Move(x)
  PROVE  Before(x)
<1>1. TypeOK /\ TypeOK' /\ Peer(x) \in Side
  BY Sides DEF Ground, TypeInv
<1>2. KeySide(x) /\ KeySide(Peer(x))
  BY <1>1, KeySides DEF Ground
<1>3. minted \in Nat /\ minted' \in Nat
  BY <1>1 DEF TypeOK
<1>4. minted <= minted'
  BY <1>3 DEF Move, Same, Asks, Joins, Refuses, Adopts, Follows, Hears, Ends, Closes
<1> QED
  BY <1>1, <1>2, <1>3, <1>4 DEF Before, Move, Ground

LEMMA KeyNext ==
  ASSUME Ground, TypeInv', [Next]_vars
  PROVE  KeyInv'
<1>1. PICK x \in Side : Move(x)
  <2>1. CASE UNCHANGED vars
    BY <2>1, StutterMove DEF Side
  <2>2. CASE Next
    <3>1. PICK x \in Side :
            Application(x) \/ Receive(x) \/ Drain(x) \/ Work(x) \/ Lifecycle(x)
      BY <2>2 DEF Next
    <3> QED
      BY <3>1, ApplicationMoves, ReceiveMoves, DrainMoves, WorkMoves, LifecycleMoves
  <2> QED
    BY <2>1, <2>2
<1>2. Before(x)
  BY <1>1, MoveBefore
<1> QED
  BY <1>1, <1>2, KeyNextMove

LEMMA KeysWell == Spec => []KeyInv
<1>1. TypeInv /\ TypeInv' /\ NumberInv /\ InOrder /\ MailboxFaithful /\ ExchangeMatchesState
        /\ KeyInv /\ [Next]_vars => KeyInv'
  BY KeyNext DEF Ground
<1>2. Spec => []InOrder
  BY OrderInit, OrderNext, TypeInit, TypeNext, PTL DEF Spec
<1> QED
  BY <1>1, <1>2, KeyInit, TypeInit, TypeNext, NumberInit, NumberNext, MailboxIsFaithful,
     ExchangeConsistent, PTL DEF Spec

\* Whatever two open sides hold, what either encrypts next is under a key that
\* the other holds: no exchange, collision, abort, loss or crash (rekey.py)
\* can leave one side speaking under a key its peer has never had or has
\* already forgotten.
THEOREM NextIsReadable == Spec => []SendKeyHeld
<1>1. TypeInv /\ KeyInv => SendKeyHeld
  <2> SUFFICES ASSUME TypeInv, KeyInv, NEW p \in Side, Open(p), Open(Peer(p))
               PROVE  keys[Peer(p)].key \in HeldKeys(keys[p])
    BY DEF SendKeyHeld
  <2>1. /\ Peer(p) \in Side /\ Peer(Peer(p)) = p
        /\ keys[p].key # NoKey /\ keys[Peer(p)].key # NoKey
    BY Sides DEF TypeInv, KeyHeld
  <2>2. CASE keys[p].key = keys[Peer(p)].key
    BY <2>1, <2>2 DEF HeldKeys
  <2>3. CASE keys[Peer(p)].key = keys[p].pending_key
    BY <2>1, <2>3 DEF HeldKeys
  <2>4. CASE keys[p].key = keys[Peer(p)].pending_key
    <3>1. keys[p].previous_key = keys[Peer(p)].key
      BY <2>1, <2>4 DEF KeyInv, HeldWell, Ahead
    <3> QED
      BY <2>1, <3>1 DEF HeldKeys
  <2> QED
    BY <2>1, <2>2, <2>3, <2>4 DEF KeyInv, HeldWell, KeysMeet
<1> QED
  BY <1>1, KeysWell, TypeInit, TypeNext, PTL DEF Spec

\* Two sides that hold one key each and no exchange hold the same key: an
\* exchange that has ended, however it ended, has ended alike on both sides
\* (rekey.py, for every number of exchanges, faults and crashes).
THEOREM SettledKeys == Spec => []SettledKeysAgree
<1>1. TypeInv /\ KeyInv /\ ExchangeMatchesState => SettledKeysAgree
  <2> SUFFICES ASSUME TypeInv, KeyInv, ExchangeMatchesState,
                      \A p \in Side : /\ Open(p) /\ keys[p].exchange_id = NoExchange
                                      /\ keys[p].previous_key = NoKey
               PROVE  keys["alice"].key = keys["bob"].key
    BY DEF SettledKeysAgree
  <2>1. \A p \in Side : keys[p].pending_key = NoKey /\ keys[p].key # NoKey
    BY DEF ExchangeMatchesState, TypeInv, KeyHeld
  <2>2. "alice" \in Side /\ "bob" \in Side /\ Peer("alice") = "bob"
    BY DEF Side, Peer
  <2> QED
    BY <2>1, <2>2 DEF KeyInv, HeldWell, KeysMeet
<1> QED
  BY <1>1, KeysWell, ExchangeConsistent, TypeInit, TypeNext, PTL DEF Spec

----------------------------------------------------------------------------
(* The frames: FramesReadable, for chats whose content is never withdrawn  *)
(* (Deleters = {} and no "rejected"). A withdrawn record is encrypted anew *)
(* in its old slot, and with that a frame under the new key may be older   *)
(* than the commit that brings it (run withdrawn_under_new_key). Without   *)
(* it keys only rise along the numbers of what a side has written, and the *)
(* previous key is let go once everything under it has been taken.         *)

\* A message q retains, or one the server holds from it, has number n and key k.
Under(q, n, k) ==
  \/ \E r \in retained_out[q] : RawOut(r.w) = n /\ r.key = k
  \/ \E f \in net : f.to = Peer(q) /\ RawOut(f.w) = n /\ f.key = k

\* p has yet to take number n.
Needed(p, n) == seq[p].in_seq_no <= n /\ \A x \in queue_in[p] : RawOut(x) # n

\* p has taken number m - 1 or something later.
Reached(p, m) == m <= seq[p].in_seq_no \/ \E x \in queue_in[p] : m <= RawOut(x)

\* FramesReadable, for one side.
CanRead(p) ==
  Open(p) => \A n, k \in Nat : Under(Peer(p), n, k) /\ Needed(p, n)
                                 => k \in HeldKeys(keys[p])

\* The later the number, the later the key; the present key is the last.
KeysInOrder(q) ==
  \A m, n, j, k \in Nat : Under(q, m, j) /\ Under(q, n, k) /\ m <= n => j <= k
KeyTop(q) == Open(q) => \A n, k \in Nat : Under(q, n, k) => k <= keys[q].key

\* What follows a commit is under the key it brings, or a later one.
AfterCommit(q) ==
  \A i, e, b \in Nat : Com(q, i, e, b) =>
    /\ Open(q) => b <= keys[q].key
    /\ \A n, k \in Nat : Under(q, n, k) /\ i <= n => b <= k

\* The key q is offered is new to it, and so is the one it offers.
AnswerNew(q) ==
  keys[q].rekey_role = "requested" =>
    \A i, b \in Nat : Acc(Peer(q), i, keys[q].exchange_id, b) => keys[q].key < b
KeysRise(p) ==
  /\ keys[p].pending_key # NoKey =>
       keys[p].key < keys[p].pending_key /\ keys[p].previous_key = NoKey
  /\ keys[p].previous_key # NoKey => keys[p].previous_key < keys[p].key

\* The key p has offered is used only after a commit that takes it.
UseFollows(p) ==
  keys[p].pending_key # NoKey /\ UsedBy(Peer(p), keys[p].pending_key) =>
    \E i, e \in Nat : Com(Peer(p), i, e, keys[p].pending_key)

\* Once the new key is confirmed, p has taken something later than all that is
\* under the previous one, and nothing more is going to be.
OldKeyDone(p) ==
  Open(p) /\ keys[p].previous_key # NoKey /\ keys[p].new_key_confirmed =>
    /\ Open(Peer(p)) => keys[p].previous_key < keys[Peer(p)].key
    /\ \E m \in Nat : /\ Reached(p, m)
                      /\ \A n \in Nat : Under(Peer(p), n, keys[p].previous_key) => n < m

\* Something that waits in the queue waits for a gap.
GapKnown(p) == queue_in[p] # {} => seq[p].gap_requested

ReadWell(p) ==
  /\ CanRead(p) /\ KeysInOrder(p) /\ KeyTop(p) /\ AfterCommit(p) /\ AnswerNew(p)
  /\ KeysRise(p) /\ UseFollows(p) /\ OldKeyDone(p) /\ GapKnown(p)

ReadInv == \A p \in Side : ReadWell(p)

----------------------------------------------------------------------------
(* What a step of side x does to all this, besides being a move *)

\* x writes at most one new message, under its key before or after.
Writes(x) ==
  /\ \A n, k \in Nat : Under(Peer(x), n, k)' => Under(Peer(x), n, k)
  /\ \E one \in {keys[x].key, keys'[x].key} :
       \A n, k \in Nat : Under(x, n, k)' =>
         Under(x, n, k) \/ (n = Len(sent[x]) /\ k = one /\ Open(x) /\ Open(x)')

\* x takes what it had not taken before, and its peer takes nothing.
Gathers(x) ==
  LET y == Peer(x)
  IN /\ queue_in'[y] = queue_in[y] /\ seq'[y].in_seq_no = seq[y].in_seq_no
     /\ seq'[y].gap_requested = seq[y].gap_requested
     /\ GapKnown(x) => GapKnown(x)'
     /\ Open(x)' => \A m \in Nat : /\ Needed(x, m)' => Needed(x, m)
                                   /\ Reached(x, m) => Reached(x, m)'

\* The head of the mailbox is the commit that x has waited for.
Obeys(x) ==
  /\ keys[x].pending_key # NoKey /\ keys'[x].key = keys[x].pending_key
  /\ keys'[x].previous_key = keys[x].key
  /\ \E i, e \in Nat : Com(Peer(x), i, e, keys[x].pending_key) /\ Reached(x, i)'

\* x has taken message n, which is under key j.
Witnesses(x) ==
  \E n, j \in Nat :
    /\ Under(Peer(x), n, j) /\ Reached(x, n)'
    /\ keys'[x] = retire_previous_key_if_settled(Witnessed(keys[x], j),
                                                 seq'[x].gap_requested)

\* What becomes of the previous key.
Steers(x) ==
  \/ /\ keys'[x].key = keys[x].key /\ keys'[x].previous_key = keys[x].previous_key
     /\ keys'[x].new_key_confirmed = keys[x].new_key_confirmed
  \/ keys'[x].previous_key = keys[x].key /\ keys'[x].new_key_confirmed = FALSE
  \/ keys'[x].previous_key = NoKey /\ ~ Open(x)'
  \/ Obeys(x)
  \/ Witnesses(x)

----------------------------------------------------------------------------


LEMMA UnderFacts ==
  ASSUME TypeInv, NumberInv, NEW q \in Side
  PROVE  /\ Len(sent[q]) \in Nat
         /\ \A n, k \in Nat : Under(q, n, k) => n < Len(sent[q]) /\ UsedBy(q, k)
         /\ \A k \in Nat : UsedBy(q, k) => \E n \in Nat : Under(q, n, k)
<1>1. TypeOK /\ seq[q] \in SeqState /\ Numbered(q)
  BY DEF TypeInv, TypeOK, NumberInv
<1>2. Len(sent[q]) \in Nat
  BY <1>1, Spoken
<1>3. \A w \in Written(q) : RawOut(w) \in Nat /\ RawOut(w) < Len(sent[q])
  BY <1>1, WrittenNumbers DEF Numbered, Fits
<1>4. /\ \A r \in retained_out[q] : r.w \in Written(q)
      /\ \A f \in net : f.to = Peer(q) => f.w \in Written(q)
  BY DEF Written
<1>5. \A n, k \in Nat : Under(q, n, k) => n < Len(sent[q]) /\ UsedBy(q, k)
  BY <1>3, <1>4 DEF Under, UsedBy
<1>6. \A k \in Nat : UsedBy(q, k) => \E n \in Nat : Under(q, n, k)
  BY <1>3, <1>4 DEF Under, UsedBy
<1> QED
  BY <1>2, <1>5, <1>6

\* What is known around a step of x.
Acted(x) ==
  /\ TypeInv /\ TypeInv' /\ NumberInv /\ KeyInv' /\ ReadInv
  /\ Before(x) /\ Move(x) /\ Writes(x) /\ Gathers(x) /\ Steers(x)

Near(x, y) ==
  /\ Around(x, y) /\ Numbers(x) /\ Fields(y) /\ Turn(x)
  /\ ReadWell(x) /\ ReadWell(y)
  /\ KeysMeet(y) /\ KeysMeet(y)' /\ Ahead(x) /\ Ahead(y) /\ Ahead(x)' /\ Ahead(y)'
  /\ Len(sent[x]) \in Nat
  /\ \A n, k \in Nat : Under(x, n, k) => n < Len(sent[x]) /\ UsedBy(x, k)
  /\ \A n, k \in Nat : Under(y, n, k) => UsedBy(y, k)
  /\ \A n, k \in Nat : Under(y, n, k)' => Under(y, n, k)
  /\ \E one \in {keys[x].key, keys'[x].key} :
       \A n, k \in Nat : Under(x, n, k)' =>
         Under(x, n, k) \/ (n = Len(sent[x]) /\ k = one /\ Open(x) /\ Open(x)')
  /\ Open(x)' => keys'[x].key \in Nat

LEMMA NearFacts ==
  ASSUME NEW x \in Side, Acted(x)
  PROVE  Near(x, Peer(x))
<1> DEFINE y == Peer(x)
<1>1. Around(x, y) /\ Numbers(x) /\ Turn(x)
  BY AroundFacts, NumbersBefore DEF Acted, Before
<1>2. y \in Side /\ Peer(y) = x
  BY Sides
<1>3. Fields(y)
  BY <1>1 DEF Numbers
<1>4. ReadWell(x) /\ ReadWell(y)
  BY <1>2 DEF Acted, ReadInv
<1>5. KeysMeet(y) /\ KeysMeet(y)' /\ Ahead(x) /\ Ahead(y) /\ Ahead(x)' /\ Ahead(y)'
  BY <1>2 DEF Acted, Before, KeyInv, HeldWell
<1>6. /\ Len(sent[x]) \in Nat
      /\ \A n, k \in Nat : Under(x, n, k) => n < Len(sent[x]) /\ UsedBy(x, k)
      /\ \A n, k \in Nat : Under(y, n, k) => UsedBy(y, k)
  BY <1>2, UnderFacts DEF Acted
<1>7. /\ \A n, k \in Nat : Under(y, n, k)' => Under(y, n, k)
      /\ \E one \in {keys[x].key, keys'[x].key} :
           \A n, k \in Nat : Under(x, n, k)' =>
             Under(x, n, k) \/ (n = Len(sent[x]) /\ k = one /\ Open(x) /\ Open(x)')
  BY DEF Acted, Writes
<1>8. Open(x)' => keys'[x].key \in Nat
  <2>1. keys'[x] \in KeyState /\ (Open(x)' => keys'[x].key # NoKey)
    BY DEF Acted, TypeInv, TypeOK, KeyHeld
  <2> QED
    BY <2>1 DEF KeyState, Key
<1> HIDE DEF y
<1> QED
  BY <1>1, <1>3, <1>4, <1>5, <1>6, <1>7, <1>8 DEF Near, y

----------------------------------------------------------------------------
(* The keys that x holds and offers, by the kind of move *)

\* What each kind has to show: the keys rise, and a key is let go only when
\* nothing that x needs is under it.
Rises(x) ==
  /\ KeysRise(x)' /\ AnswerNew(x)' /\ UseFollows(x)'
  /\ Open(x)' => keys[x].key <= keys'[x].key
  /\ \A i, e, b \in Nat : Acc(x, i, e, b)' => Acc(x, i, e, b) \/ b = minted + 1
  /\ \A i, e, b \in Nat : Com(x, i, e, b)' =>
       Com(x, i, e, b) \/ (i = Len(sent[x]) + 1 /\ b = keys'[x].key)

LetsGo(x) ==
  Open(x)' => \A n, k \in Nat :
    k \in HeldKeys(keys[x]) /\ Under(Peer(x), n, k) /\ Needed(x, n)'
      => k \in HeldKeys(keys'[x])

\* No exchange begins, advances or ends.
LEMMA SteadyRises ==
  ASSUME NEW x \in Side, Acted(x), NEW act \in {"msg", "abort"}, NEW a, NEW b,
         Adds(x, act, a, b),
         keys'[x].key = keys[x].key, keys'[x].pending_key = keys[x].pending_key,
         keys'[x].exchange_id = keys[x].exchange_id,
         keys'[x].rekey_role = keys[x].rekey_role,
         keys'[x].previous_key \in {keys[x].previous_key, NoKey}
  PROVE  Rises(x)
<1> DEFINE y == Peer(x)
<1>1. Near(x, y)
  BY NearFacts
<1>2. \A i, e, c \in Nat : /\ Acc(x, i, e, c)' <=> Acc(x, i, e, c)
                           /\ Com(x, i, e, c)' <=> Com(x, i, e, c)
  BY DEF Adds
<1>3. Numbers(x)
  BY <1>1 DEF Near
<1> HIDE DEF y
<1>4. KeysRise(x)'
  BY <1>1 DEF Near, ReadWell, KeysRise
<1>5. AnswerNew(x)'
  <2>1. /\ AnswerNew(x) /\ Peer(x) = y
        /\ \A i, e, c \in Nat : Acc(y, i, e, c)' <=> Acc(y, i, e, c)
        /\ keys[x].rekey_role = "requested" => keys[x].exchange_id \in Nat
    BY <1>1, <1>3 DEF Near, ReadWell, Around, Numbers, Fields
  <2> QED
    BY <2>1 DEF AnswerNew
<1>6. UseFollows(x)'
  <2>1. /\ UseFollows(x) /\ Peer(x) = y
        /\ \A k \in Nat : UsedBy(y, k)' => UsedBy(y, k)
        /\ \A i, e, c \in Nat : Com(y, i, e, c)' <=> Com(y, i, e, c)
        /\ keys[x].pending_key \in Nat \cup {NoKey}
    BY <1>1, <1>3 DEF Near, ReadWell, Around, Numbers, Fields
  <2> QED
    BY <2>1 DEF UseFollows
<1>7. Open(x)' => keys[x].key <= keys'[x].key
  BY <1>1 DEF Near
<1> QED
  BY <1>2, <1>4, <1>5, <1>6, <1>7 DEF Rises

LEMMA AsksRises ==
  ASSUME NEW x \in Side, Acted(x), NEW e \in Nat, Adds(x, "request", e, 0),
         keys[x].exchange_id = NoExchange,
         \A i \in Nat : ~ Req(x, i, e),
         keys'[x].key = keys[x].key, keys'[x].pending_key = keys[x].pending_key,
         keys'[x].previous_key = keys[x].previous_key,
         keys'[x].exchange_id = e
  PROVE  Rises(x)
<1> DEFINE y == Peer(x)
<1>1. Near(x, y)
  BY NearFacts
<1>2. \A i, d, c \in Nat : /\ Acc(x, i, d, c)' <=> Acc(x, i, d, c)
                           /\ Com(x, i, d, c)' <=> Com(x, i, d, c)
  BY DEF Adds
<1>3. keys[x].pending_key = NoKey
  BY <1>1 DEF Near, Numbers, Fields
<1> HIDE DEF y
<1>4. KeysRise(x)' /\ UseFollows(x)'
  BY <1>1, <1>3 DEF Near, ReadWell, KeysRise, UseFollows
<1>5. AnswerNew(x)'
  <2>1. ASSUME NEW i \in Nat, NEW b \in Nat, Acc(y, i, e, b) PROVE FALSE
    BY <2>1, <1>1 DEF Near, Around, SaidWell, AcceptAnswers
  <2> QED
    BY <2>1, <1>1 DEF Near, Around, AnswerNew
<1>6. Open(x)' => keys[x].key <= keys'[x].key
  BY <1>1 DEF Near
<1> QED
  BY <1>2, <1>4, <1>5, <1>6 DEF Rises

LEMMA JoinsRises ==
  ASSUME NEW x \in Side, Acted(x), NEW e \in Nat, Adds(x, "accept", e, minted + 1),
         keys[x].previous_key = NoKey,
         keys'[x].key = keys[x].key, keys'[x].pending_key = minted + 1,
         keys'[x].previous_key = keys[x].previous_key, keys'[x].rekey_role = "accepted"
  PROVE  Rises(x)
<1> DEFINE y == Peer(x)
<1>1. Near(x, y)
  BY NearFacts
<1>2. \A i, d, c \in Nat :
        /\ Acc(x, i, d, c)' => Acc(x, i, d, c) \/ c = minted + 1
        /\ Com(x, i, d, c)' => Com(x, i, d, c)
  BY DEF Adds
<1>3. minted \in Nat /\ keys[x].key <= minted /\ keys[x].key \in Nat \cup {NoKey}
      /\ \A k \in Nat : UsedBy(y, k) => k <= minted
  BY <1>1 DEF Near, Around, HeldWell, Bounded, Numbers, Fields
<1>4. KeysRise(x)'
  BY <1>3 DEF KeysRise, NoKey
<1> HIDE DEF y
<1>5. UseFollows(x)'
  <2>1. PICK b \in Nat : b = minted + 1
    BY <1>3
  <2>2. ~ UsedBy(y, b)'
    BY <1>1, <1>3, <2>1 DEF Near, Around
  <2> QED
    BY <1>1, <2>1, <2>2 DEF Near, Around, UseFollows
<1>6. AnswerNew(x)'
  BY DEF AnswerNew
<1>7. Open(x)' => keys[x].key <= keys'[x].key
  BY <1>1 DEF Near
<1> QED
  BY <1>2, <1>4, <1>5, <1>6, <1>7 DEF Rises

LEMMA AdoptsRises ==
  ASSUME NEW x \in Side, Acted(x), NEW e \in Nat, NEW b \in Nat, NEW j \in Nat,
         Adds(x, "commit", e, b), Acc(Peer(x), j, e, b), Open(x),
         keys[x].exchange_id = e, keys[x].rekey_role = "requested",
         keys'[x].key = b, keys'[x].previous_key = keys[x].key,
         keys'[x].pending_key = NoKey, keys'[x].rekey_role = "none"
  PROVE  Rises(x)
<1> DEFINE y == Peer(x)
<1>1. Near(x, y)
  BY NearFacts
<1>2. \A i, d, c \in Nat :
        /\ Acc(x, i, d, c)' => Acc(x, i, d, c)
        /\ Com(x, i, d, c)' => Com(x, i, d, c) \/ (i = Len(sent[x]) + 1 /\ c = b)
  BY DEF Adds
<1>3. keys[x].key < b /\ keys[x].key \in Nat
  <2>1. \A i, c \in Nat : Acc(y, i, keys[x].exchange_id, c) => keys[x].key < c
    BY <1>1 DEF Near, ReadWell, AnswerNew
  <2>2. Acc(y, j, e, b)
    OBVIOUS
  <2>3. keys[x].key \in Nat
    BY <1>1 DEF Near, Numbers, Fields
  <2> HIDE DEF y
  <2> QED
    BY <2>1, <2>2, <2>3
<1>4. KeysRise(x)' /\ UseFollows(x)' /\ AnswerNew(x)'
  BY <1>3 DEF KeysRise, UseFollows, AnswerNew
<1>5. Open(x)' => keys[x].key <= keys'[x].key
  BY <1>3
<1> QED
  BY <1>2, <1>3, <1>4, <1>5 DEF Rises

LEMMA FollowsRises ==
  ASSUME NEW x \in Side, Acted(x), Follows(x)
  PROVE  Rises(x)
<1> DEFINE y == Peer(x)
<1>1. Near(x, y)
  BY NearFacts
<1>2. \A i, d, c \in Nat :
        /\ Acc(x, i, d, c)' => Acc(x, i, d, c)
        /\ Com(x, i, d, c)' => Com(x, i, d, c)
  BY DEF Follows, Adds
<1>3. /\ keys[x].key < keys[x].pending_key /\ keys[x].key \in Nat \cup {NoKey}
      /\ keys[x].pending_key \in Nat
  BY <1>1 DEF Near, ReadWell, KeysRise, Numbers, Fields, Follows
<1>4. KeysRise(x)' /\ UseFollows(x)' /\ AnswerNew(x)'
  BY <1>3 DEF KeysRise, UseFollows, AnswerNew, Follows
<1>5. keys[x].key <= keys'[x].key
  BY <1>3 DEF Follows, NoKey
<1> QED
  BY <1>2, <1>4, <1>5 DEF Rises

\* x leaves its exchange, or the chat.
LEMMA LeavesRises ==
  ASSUME NEW x \in Side, Acted(x), Adds(x, "msg", 0, 0),
         keys'[x].pending_key = NoKey, keys'[x].rekey_role = "none",
         \/ /\ keys'[x].key = keys[x].key
            /\ keys'[x].previous_key = keys[x].previous_key
         \/ keys'[x].previous_key = NoKey /\ ~ Open(x)'
  PROVE  Rises(x)
<1>1. Near(x, Peer(x))
  BY NearFacts
<1>2. \A i, d, c \in Nat :
        /\ Acc(x, i, d, c)' => Acc(x, i, d, c)
        /\ Com(x, i, d, c)' => Com(x, i, d, c)
  BY DEF Adds
<1>3. KeysRise(x)' /\ UseFollows(x)' /\ AnswerNew(x)'
  BY <1>1 DEF Near, ReadWell, KeysRise, UseFollows, AnswerNew
<1>4. Open(x)' => keys[x].key <= keys'[x].key
  BY <1>1 DEF Near
<1> QED
  BY <1>2, <1>3, <1>4 DEF Rises

LEMMA MoveRises ==
  ASSUME NEW x \in Side, Acted(x)
  PROVE  Rises(x)
<1>1. keys[x] \in KeyState
  BY DEF Acted, Before, TypeOK
<1>2. CASE Same(x)
  BY <1>2, SteadyRises DEF Same
<1>3. CASE Asks(x)
  <2>1. PICK e \in Nat :
          /\ keys[x].exchange_id = NoExchange
          /\ \A i \in Nat : ~ Req(x, i, e)
          /\ keys'[x] = Requested(keys[x], e)
          /\ Adds(x, "request", e, 0)
    BY <1>3 DEF Asks
  <2>2. /\ keys'[x].key = keys[x].key /\ keys'[x].pending_key = keys[x].pending_key
        /\ keys'[x].previous_key = keys[x].previous_key
        /\ keys'[x].exchange_id = e
    BY <1>1, <2>1 DEF Requested, KeyState
  <2> QED
    BY <2>1, <2>2, AsksRises
<1>4. CASE Joins(x)
  <2>1. PICK e \in Nat :
          /\ keys[x].previous_key = NoKey
          /\ keys'[x] = Accepted(keys[x], e, minted + 1)
          /\ Adds(x, "accept", e, minted + 1)
    BY <1>4 DEF Joins
  <2>2. /\ keys'[x].key = keys[x].key /\ keys'[x].pending_key = minted + 1
        /\ keys'[x].previous_key = keys[x].previous_key
        /\ keys'[x].rekey_role = "accepted"
    BY <1>1, <2>1 DEF Accepted, KeyState
  <2> QED
    BY <2>1, <2>2, JoinsRises
<1>5. CASE Refuses(x)
  BY <1>5, SteadyRises DEF Refuses
<1>6. CASE Adopts(x)
  <2>1. PICK e \in Nat, b \in Nat, j \in Nat :
          /\ Acc(Peer(x), j, e, b) /\ Open(x)
          /\ keys[x].exchange_id = e /\ keys[x].rekey_role = "requested"
          /\ keys'[x] = adopt_new_key(keys[x], b)
          /\ Adds(x, "commit", e, b)
    BY <1>6 DEF Adopts
  <2>2. /\ keys'[x].key = b /\ keys'[x].previous_key = keys[x].key
        /\ keys'[x].pending_key = NoKey /\ keys'[x].rekey_role = "none"
    BY <1>1, <2>1 DEF adopt_new_key, clear, KeyState
  <2> QED
    BY <2>1, <2>2, AdoptsRises
<1>7. CASE Follows(x)
  BY <1>7, FollowsRises
<1>8. CASE Hears(x)
  BY <1>8, SteadyRises DEF Hears
<1>9. CASE Ends(x)
  <2>1. keys'[x] = clear(keys[x]) /\ Adds(x, "msg", 0, 0)
    BY <1>9 DEF Ends
  <2>2. /\ keys'[x].key = keys[x].key
        /\ keys'[x].previous_key = keys[x].previous_key
        /\ keys'[x].pending_key = NoKey /\ keys'[x].rekey_role = "none"
    BY <1>1, <2>1 DEF clear, KeyState
  <2> QED
    BY <2>1, <2>2, LeavesRises
<1>10. CASE Closes(x)
  <2>1. keys'[x] = Scrubbed(keys[x]) /\ ~ Open(x)' /\ Adds(x, "msg", 0, 0)
    BY <1>10 DEF Closes
  <2>2. /\ keys'[x].previous_key = NoKey
        /\ keys'[x].pending_key = NoKey /\ keys'[x].rekey_role = "none"
    BY <1>1, <2>1 DEF Scrubbed, clear, KeyState
  <2> QED
    BY <2>1, <2>2, LeavesRises
<1> QED
  BY <1>2, <1>3, <1>4, <1>5, <1>6, <1>7, <1>8, <1>9, <1>10 DEF Acted, Move

----------------------------------------------------------------------------
(* What both sides have written *)

LEMMA CommitStays ==
  ASSUME NEW x \in Side, Move(x)
  PROVE  \A i, e, b \in Nat : Com(x, i, e, b) => Com(x, i, e, b)'
<1>1. \E act, a, b : Adds(x, act, a, b)
  BY DEF Move, Same, Asks, Joins, Refuses, Adopts, Follows, Hears, Ends, Closes
<1> QED
  BY <1>1 DEF Adds

LEMMA PeerWrites ==
  ASSUME NEW x \in Side, Acted(x)
  PROVE  /\ KeysInOrder(Peer(x))' /\ KeyTop(Peer(x))' /\ AfterCommit(Peer(x))'
         /\ AnswerNew(Peer(x))' /\ KeysRise(Peer(x))' /\ UseFollows(Peer(x))'
         /\ GapKnown(Peer(x))'
<1> DEFINE y == Peer(x)
<1>1. Near(x, y) /\ Rises(x)
  BY NearFacts, MoveRises
<1>2. \A i, e, b \in Nat : Com(x, i, e, b) => Com(x, i, e, b)'
  BY CommitStays DEF Acted
<1>3. /\ queue_in'[y] = queue_in[y] /\ seq'[y].gap_requested = seq[y].gap_requested
  BY DEF Acted, Gathers
<1> HIDE DEF y
<1>4. /\ x \in Side /\ Peer(x) = y /\ Peer(y) = x /\ ReadWell(y)
      /\ keys'[y] = keys[y] /\ (Open(y)' <=> Open(y))
      /\ \A n, k \in Nat : Under(y, n, k)' => Under(y, n, k)
      /\ \A i, e, b \in Nat : Com(y, i, e, b)' => Com(y, i, e, b)
      /\ keys[y].key \in Nat \cup {NoKey} /\ keys[y].pending_key \in Nat \cup {NoKey}
      /\ keys[y].rekey_role = "requested" => keys[y].exchange_id \in Nat
      /\ minted \in Nat /\ keys[y].key <= minted
      /\ Ahead(y) /\ Ahead(y)'
      /\ \A k \in Nat : UsedBy(x, k)' =>
           UsedBy(x, k) \/ k = keys[x].key \/ k = keys'[x].key
  BY <1>1 DEF Near, Around, Fields, HeldWell, Bounded
<1>5. KeysInOrder(y)'
  BY <1>4 DEF ReadWell, KeysInOrder
<1>6. KeyTop(y)'
  BY <1>4 DEF ReadWell, KeyTop
<1>7. AfterCommit(y)'
  BY <1>4 DEF ReadWell, AfterCommit
<1>8. AnswerNew(y)'
  <2>1. ASSUME keys[y].rekey_role = "requested", NEW i \in Nat, NEW b \in Nat,
               Acc(x, i, keys[y].exchange_id, b)'
        PROVE  keys[y].key < b
    <3>1. PICK e \in Nat : e = keys[y].exchange_id
      BY <1>4, <2>1
    <3>2. Acc(x, i, e, b)'
      BY <1>4, <2>1, <3>1
    <3>3. Acc(x, i, e, b) \/ b = minted + 1
      BY <1>1, <3>2 DEF Rises
    <3>4. CASE Acc(x, i, e, b)
      BY <1>4, <2>1, <3>1, <3>4 DEF ReadWell, AnswerNew
    <3>5. CASE b = minted + 1
      BY <1>4, <3>5, <2>1 DEF NoKey
    <3> QED
      BY <3>3, <3>4, <3>5
  <2> QED
    BY <1>4, <2>1 DEF AnswerNew
<1>9. KeysRise(y)'
  BY <1>4 DEF ReadWell, KeysRise
<1>10. UseFollows(y)'
  <2>1. ASSUME NEW b \in Nat, b = keys[y].pending_key, UsedBy(x, b)'
        PROVE  \E i, e \in Nat : Com(x, i, e, b)'
    <3>1. b # NoKey
      BY DEF NoKey
    <3>2. CASE UsedBy(x, b)
      BY <1>2, <1>4, <2>1, <3>1, <3>2 DEF ReadWell, UseFollows
    <3>3. CASE b = keys[x].key
      BY <1>2, <1>4, <2>1, <3>1, <3>3 DEF Ahead
    <3>4. CASE b = keys'[x].key
      BY <1>4, <2>1, <3>1, <3>4 DEF Ahead
    <3> QED
      BY <1>4, <2>1, <3>2, <3>3, <3>4
  <2> QED
    BY <1>4, <2>1 DEF UseFollows
<1>11. GapKnown(y)'
  BY <1>3, <1>4 DEF ReadWell, GapKnown
<1> QED
  BY <1>5, <1>6, <1>7, <1>8, <1>9, <1>10, <1>11 DEF y

LEMMA OwnWrites ==
  ASSUME NEW x \in Side, Acted(x)
  PROVE  KeysInOrder(x)' /\ KeyTop(x)' /\ AfterCommit(x)' /\ GapKnown(x)'
<1>1. Near(x, Peer(x)) /\ Rises(x)
  BY NearFacts, MoveRises
<1>2. PICK one \in {keys[x].key, keys'[x].key} :
        \A n, k \in Nat : Under(x, n, k)' =>
          Under(x, n, k) \/ (n = Len(sent[x]) /\ k = one /\ Open(x) /\ Open(x)')
  BY <1>1 DEF Near
<1>3. /\ ReadWell(x) /\ Len(sent[x]) \in Nat
      /\ \A n, k \in Nat : Under(x, n, k) => n < Len(sent[x])
      /\ Open(x)' => Open(x)
      /\ Open(x) => keys[x].key \in Nat
      /\ Open(x)' => keys'[x].key \in Nat /\ keys[x].key <= keys'[x].key
  BY <1>1 DEF Near, Around, Rises, Numbers, Fields
<1>4. \A n, k \in Nat : Under(x, n, k) /\ Open(x) => k <= keys[x].key
  BY <1>3 DEF ReadWell, KeyTop
\* Whatever is new is under no key before the present one.
<1>5. Open(x)' => one \in Nat /\ keys[x].key <= one /\ one <= keys'[x].key
  BY <1>2, <1>3
<1>6. KeysInOrder(x)'
  <2> SUFFICES ASSUME NEW m \in Nat, NEW n \in Nat, NEW j \in Nat, NEW k \in Nat,
                      Under(x, m, j)', Under(x, n, k)', m <= n
               PROVE  j <= k
    BY DEF KeysInOrder
  <2>1. CASE Under(x, m, j) /\ Under(x, n, k)
    BY <1>3, <2>1 DEF ReadWell, KeysInOrder
  <2>2. CASE Under(x, m, j) /\ n = Len(sent[x]) /\ k = one /\ Open(x)'
    BY <1>3, <1>4, <1>5, <2>2
  <2>3. CASE m = Len(sent[x]) /\ Under(x, n, k)
    BY <1>3, <2>3
  <2>4. CASE j = one /\ k = one
    BY <2>4
  <2> QED
    BY <1>2, <2>1, <2>2, <2>3, <2>4
<1>7. KeyTop(x)'
  <2> SUFFICES ASSUME Open(x)', NEW n \in Nat, NEW k \in Nat, Under(x, n, k)'
               PROVE  k <= keys'[x].key
    BY DEF KeyTop
  <2>1. CASE Under(x, n, k)
    BY <1>3, <1>4, <2>1
  <2>2. CASE k = one
    BY <1>5, <2>2
  <2> QED
    BY <1>2, <2>1, <2>2
<1>8. AfterCommit(x)'
  <2> SUFFICES ASSUME NEW i \in Nat, NEW e \in Nat, NEW b \in Nat, Com(x, i, e, b)'
               PROVE  /\ Open(x)' => b <= keys'[x].key
                      /\ \A n, k \in Nat : Under(x, n, k)' /\ i <= n => b <= k
    BY DEF AfterCommit
  <2>1. Com(x, i, e, b) \/ (i = Len(sent[x]) + 1 /\ b = keys'[x].key)
    BY <1>1 DEF Rises
  <2>2. CASE Com(x, i, e, b)
    <3>1. /\ Open(x) => b <= keys[x].key
          /\ \A n, k \in Nat : Under(x, n, k) /\ i <= n => b <= k
      BY <1>3, <2>2 DEF ReadWell, AfterCommit
    <3>2. Open(x)' => b <= keys'[x].key /\ b <= one
      BY <1>3, <1>5, <3>1
    <3> QED
      BY <1>2, <3>1, <3>2
  <2>3. CASE i = Len(sent[x]) + 1 /\ b = keys'[x].key
    <3>1. Open(x)' => b <= keys'[x].key
      BY <2>3
    <3>2. ASSUME NEW n \in Nat, NEW k \in Nat, Under(x, n, k)', i <= n PROVE FALSE
      <4>1. n <= Len(sent[x])
        BY <1>2, <1>3, <3>2
      <4> QED
        BY <1>3, <2>3, <3>2, <4>1
    <3> QED
      BY <3>1, <3>2
  <2> QED
    BY <2>1, <2>2, <2>3
<1>9. GapKnown(x)'
  BY <1>3 DEF Acted, Gathers, ReadWell
<1> QED
  BY <1>6, <1>7, <1>8, <1>9

----------------------------------------------------------------------------
(* The previous key *)

\* Nothing under k is to come any more, and something later has been taken.
Past(x, k) ==
  /\ Open(Peer(x)) => k < keys[Peer(x)].key
  /\ \E m \in Nat : /\ Reached(x, m)'
                    /\ \A n \in Nat : Under(Peer(x), n, k) => n < m

\* The commit and the frame that x takes put what is under its old key behind.
LEMMA ObeyedPast ==
  ASSUME NEW x \in Side, Acted(x), Obeys(x)
  PROVE  Past(x, keys[x].key)
<1> DEFINE y == Peer(x)
<1>1. Near(x, y)
  BY NearFacts
<1>2. PICK b \in Nat : b = keys[x].pending_key
  BY <1>1 DEF Obeys, Near, Numbers, Fields
<1>3. PICK i \in Nat, e \in Nat : Com(y, i, e, b) /\ Reached(x, i)'
  BY <1>2 DEF Obeys
<1> HIDE DEF y
<1>4. keys[x].key < b /\ keys[x].key \in Nat \cup {NoKey}
  BY <1>1, <1>2 DEF Obeys, Near, ReadWell, KeysRise, Numbers, Fields
<1>5. /\ Open(y) => b <= keys[y].key
      /\ \A n, k \in Nat : Under(y, n, k) /\ i <= n => b <= k
  BY <1>1, <1>3 DEF Near, ReadWell, AfterCommit
<1>6. keys[y].key \in Nat \cup {NoKey}
  BY <1>1 DEF Near, Fields
<1>7. Open(y) => keys[x].key < keys[y].key
  BY <1>2, <1>4, <1>5, <1>6 DEF NoKey
<1>8. \A n \in Nat : Under(y, n, keys[x].key) => n < i
  <2> SUFFICES ASSUME NEW n \in Nat, Under(y, n, keys[x].key), i <= n
               PROVE  FALSE
    OBVIOUS
  <2>1. keys[x].key \in Nat
    <3>1. Open(x)
      BY <1>1 DEF Obeys, Near, Numbers, Fields
    <3> QED
      BY <1>1, <3>1 DEF Near, Numbers, Fields
  <2>2. b <= keys[x].key
    BY <1>5, <2>1
  <2> QED
    BY <1>4, <2>1, <2>2
<1> QED
  BY <1>3, <1>7, <1>8 DEF Past, y

\* What a frame tells: x holds all it held, and the key it replaces is past once
\* the new one is confirmed.
LEMMA WitnessPast ==
  ASSUME NEW x \in Side, Acted(x), Open(x)', NEW n \in Nat, NEW j \in Nat,
         Under(Peer(x), n, j), Reached(x, n)'
  PROVE  LET s == Witnessed(keys[x], j)
         IN /\ s \in KeyState /\ HeldKeys(keys[x]) \subseteq HeldKeys(s)
            /\ s.previous_key # NoKey /\ s.new_key_confirmed => Past(x, s.previous_key)
<1> DEFINE y == Peer(x)
<1> DEFINE s == Witnessed(keys[x], j)
<1>1. Near(x, y)
  BY NearFacts
<1>2. keys[x] \in KeyState
  BY DEF Acted, Before, TypeOK
<1>3. /\ keys[x].key \in Nat /\ keys[x].pending_key \in Nat \cup {NoKey}
      /\ keys[x].previous_key \in Nat \cup {NoKey}
      /\ KeysRise(x) /\ KeysInOrder(y) /\ KeyTop(y) /\ OldKeyDone(x)
      /\ keys[y].key \in Nat \cup {NoKey} /\ Open(x)
  BY <1>1 DEF Near, Around, Numbers, Fields, ReadWell
<1>4. Under(y, n, j) /\ Reached(x, n)'
  OBVIOUS
<1>5. \A m \in Nat : Reached(x, m) => Reached(x, m)'
  BY DEF Acted, Gathers
\* Whatever is under an earlier key has an earlier number.
<1>6. ASSUME NEW k \in Nat, k < j PROVE Past(x, k)
  <2> HIDE DEF y
  <2>1. Open(y) => j <= keys[y].key
    BY <1>3, <1>4 DEF KeyTop
  <2>2. Open(y) => k < keys[y].key
    BY <1>3, <1>6, <2>1 DEF NoKey
  <2>3. \A m \in Nat : Under(y, m, k) => m < n
    <3> SUFFICES ASSUME NEW m \in Nat, Under(y, m, k), n <= m PROVE FALSE
      OBVIOUS
    <3>1. j <= k
      BY <1>3, <1>4 DEF KeysInOrder
    <3> QED
      BY <1>6, <3>1
  <2> QED
    BY <1>4, <2>2, <2>3 DEF Past, y
<1>7. CASE keys[x].pending_key # NoKey /\ j = keys[x].pending_key
  <2> DEFINE a == adopt_new_key(keys[x], j)
  <2>1. a \in KeyState
    BY <1>2, AdoptType
  <2>2. /\ a.key = j /\ a.previous_key = keys[x].key /\ a.pending_key = NoKey
    BY <1>2 DEF adopt_new_key, clear, KeyState
  <2>3. s = [a EXCEPT !.new_key_confirmed = TRUE]
    BY <1>7 DEF Witnessed
  <2> HIDE DEF a, s
  <2>4. s \in KeyState /\ s.key = j /\ s.previous_key = keys[x].key /\ s.pending_key = NoKey
    BY <2>1, <2>2, <2>3 DEF KeyState
  <2>5. keys[x].previous_key = NoKey /\ keys[x].key < j
    BY <1>3, <1>7 DEF KeysRise
  <2>6. HeldKeys(keys[x]) \subseteq HeldKeys(s)
    BY <1>7, <2>4, <2>5 DEF HeldKeys
  <2>7. Past(x, s.previous_key)
    BY <1>3, <1>6, <2>4, <2>5
  <2> QED
    BY <2>4, <2>6, <2>7 DEF s
<1>8. CASE /\ ~ (keys[x].pending_key # NoKey /\ j = keys[x].pending_key)
           /\ j = keys[x].key /\ keys[x].previous_key # NoKey
  <2>1. s = [keys[x] EXCEPT !.new_key_confirmed = TRUE]
    BY <1>8 DEF Witnessed
  <2> HIDE DEF s
  <2>2. /\ s \in KeyState /\ s.key = keys[x].key /\ s.pending_key = keys[x].pending_key
        /\ s.previous_key = keys[x].previous_key
    BY <1>2, <2>1 DEF KeyState
  <2>3. Past(x, s.previous_key)
    <3>1. s.previous_key \in Nat /\ s.previous_key < j
      BY <1>3, <1>8, <2>2 DEF KeysRise
    <3> QED
      BY <1>6, <3>1
  <2> QED
    BY <2>2, <2>3 DEF HeldKeys, s
<1>9. CASE /\ ~ (keys[x].pending_key # NoKey /\ j = keys[x].pending_key)
           /\ ~ (j = keys[x].key /\ keys[x].previous_key # NoKey)
  <2>1. s = keys[x]
    BY <1>9 DEF Witnessed
  <2>2. keys[x].previous_key # NoKey /\ keys[x].new_key_confirmed
          => Past(x, keys[x].previous_key)
    BY <1>3, <1>5 DEF OldKeyDone, Past
  <2> HIDE DEF s
  <2> QED
    BY <1>2, <2>1, <2>2 DEF s
<1> QED
  BY <1>7, <1>8, <1>9

LEMMA OldKeysDone ==
  ASSUME NEW x \in Side, Acted(x)
  PROVE  OldKeyDone(x)' /\ OldKeyDone(Peer(x))'
<1> DEFINE y == Peer(x)
<1>1. Near(x, y) /\ Rises(x)
  BY NearFacts, MoveRises
<1>2. OldKeyDone(x)'
  <2>1. ASSUME Open(x)', keys'[x].previous_key # NoKey, keys'[x].new_key_confirmed,
               Past(x, keys'[x].previous_key)
        PROVE  OldKeyDone(x)'
    <3> HIDE DEF y
    <3>1. /\ Peer(x) = y /\ keys'[y] = keys[y] /\ (Open(y)' <=> Open(y))
          /\ \A n, k \in Nat : Under(y, n, k)' => Under(y, n, k)
      BY <1>1 DEF Near, Around
    <3>2. PICK k \in Nat : k = keys'[x].previous_key
      BY <2>1 DEF Acted, TypeInv, TypeOK, KeyState, Key
    <3> QED
      BY <2>1, <3>1, <3>2 DEF Past, OldKeyDone
  <2> SUFFICES ASSUME Open(x)', keys'[x].previous_key # NoKey, keys'[x].new_key_confirmed
               PROVE  Past(x, keys'[x].previous_key)
    BY <2>1 DEF OldKeyDone
  <2>2. Open(x) /\ OldKeyDone(x) /\ \A m \in Nat : Reached(x, m) => Reached(x, m)'
    BY <1>1 DEF Near, Around, ReadWell, Acted, Gathers
  <2>3. CASE /\ keys'[x].key = keys[x].key /\ keys'[x].previous_key = keys[x].previous_key
             /\ keys'[x].new_key_confirmed = keys[x].new_key_confirmed
    BY <2>2, <2>3 DEF OldKeyDone, Past
  <2>4. CASE Obeys(x)
    BY <2>4, ObeyedPast DEF Obeys
  <2>5. CASE Witnesses(x)
    <3>1. PICK n \in Nat, j \in Nat :
            /\ Under(Peer(x), n, j) /\ Reached(x, n)'
            /\ keys'[x] = retire_previous_key_if_settled(Witnessed(keys[x], j),
                                                         seq'[x].gap_requested)
      BY <2>5 DEF Witnesses
    <3> DEFINE s == Witnessed(keys[x], j)
    <3>2. /\ s \in KeyState
          /\ s.previous_key # NoKey /\ s.new_key_confirmed => Past(x, s.previous_key)
      BY <3>1, WitnessPast
    <3> HIDE DEF s
    <3>3. keys'[x] = s \/ keys'[x] = [s EXCEPT !.previous_key = NoKey]
      BY <3>1 DEF retire_previous_key_if_settled, s
    <3>4. keys'[x] = s
      BY <3>2, <3>3 DEF KeyState
    <3> QED
      BY <3>2, <3>4
  <2> QED
    BY <2>3, <2>4, <2>5 DEF Acted, Steers
<1>3. OldKeyDone(y)'
  <2> HIDE DEF y
  <2>1. /\ Peer(y) = x /\ keys'[y] = keys[y] /\ (Open(y)' <=> Open(y)) /\ OldKeyDone(y)
        /\ (Open(x)' => Open(x)) /\ KeysRise(y)
        /\ keys[y].previous_key \in Nat \cup {NoKey}
        /\ keys[x].key \in Nat \cup {NoKey}
        /\ Open(x)' => keys'[x].key \in Nat /\ keys[x].key <= keys'[x].key
    BY <1>1 DEF Near, Around, ReadWell, Fields, Numbers, Rises
  <2>2. PICK one \in {keys[x].key, keys'[x].key} :
          \A n, k \in Nat : Under(x, n, k)' =>
            Under(x, n, k) \/ (n = Len(sent[x]) /\ k = one /\ Open(x) /\ Open(x)')
    BY <1>1 DEF Near
  <2>3. \A m \in Nat : Reached(y, m)' <=> Reached(y, m)
    BY DEF Acted, Gathers, Reached, y
  <2> SUFFICES ASSUME Open(y), keys[y].previous_key # NoKey, keys[y].new_key_confirmed
               PROVE  /\ Open(x)' => keys[y].previous_key < keys'[x].key
                      /\ \E m \in Nat :
                           /\ Reached(y, m)'
                           /\ \A n \in Nat : Under(x, n, keys[y].previous_key)' => n < m
    BY <2>1 DEF OldKeyDone
  <2>4. PICK k \in Nat : k = keys[y].previous_key
    BY <2>1
  <2>5. /\ Open(x) => k < keys[x].key
        /\ \E m \in Nat : Reached(y, m) /\ \A n \in Nat : Under(x, n, k) => n < m
    BY <2>1, <2>4 DEF OldKeyDone
  <2>6. Open(x)' => k < keys'[x].key /\ k < keys[x].key
    BY <2>1, <2>5 DEF NoKey
  <2>7. \A n \in Nat : Under(x, n, k)' => Under(x, n, k)
    BY <2>2, <2>6
  <2> QED
    BY <2>1, <2>3, <2>4, <2>5, <2>6, <2>7
<1> QED
  BY <1>2, <1>3

----------------------------------------------------------------------------
(* What the two sides can read *)

\* x holds on to whatever it may still need to read.
LEMMA EndsLets ==
  ASSUME NEW x \in Side, Acted(x), Ends(x), keys[x].pending_key # NoKey
  PROVE  ~ UsedBy(Peer(x), keys[x].pending_key)
<1> DEFINE y == Peer(x)
<1>1. Near(x, y)
  BY NearFacts
<1>2. Around(x, y) /\ Fields(x) /\ Fields(y) /\ UseFollows(x)
  BY <1>1 DEF Near, Numbers, ReadWell
<1>3. keys[x].rekey_role = "accepted"
  BY <1>2 DEF Fields
<1>4. PICK h \in Nat : /\ h = MailNumber(x) + 1 /\ Exch(y, h) /\ Passed(x) = h
                       /\ \A e \in Nat : ~ Req(y, h, e)
  BY <1>3 DEF Ends
<1> HIDE DEF y
<1>5. PICK e \in Nat, b \in Nat : e = keys[x].exchange_id /\ b = keys[x].pending_key
  BY <1>2 DEF Fields
<1>6. PICK o \in Nat : Acc(x, o, e, b)
  BY <1>2, <1>5 DEF Around, HeldWell, PendingOffered
<1>7. PICK n \in Nat : Req(y, n, e) /\ n < h
  <2>1. PICK n \in Nat : Req(y, n, e) /\ n <= h
    BY <1>2, <1>4, <1>6 DEF Around, SaidWell, AcceptAnswers
  <2> QED
    BY <1>4, <2>1
<1>8. \A m \in Nat : Req(y, m, e) => m = n
  BY <1>2, <1>7 DEF Around, SaidWell, RequestsDiffer
<1> SUFFICES ASSUME UsedBy(y, b) PROVE FALSE
  BY <1>2, <1>5 DEF Around
<1>9. PICK i \in Nat, d \in Nat : Com(y, i, d, b)
  BY <1>2, <1>5 DEF Around, UseFollows
<1>10. PICK k \in Nat : Acc(x, k, d, b)
  BY <1>2, <1>9 DEF Around, SaidWell, CommitAnswers
<1>11. d = e
  BY <1>2, <1>6, <1>10 DEF Around, SaidWell, OffersDiffer
<1>12. PICK r \in Nat : /\ Req(y, r, e) /\ r < i
                        /\ \A m \in Nat : r < m /\ m < i => ~ Exch(y, m)
  BY <1>2, <1>9, <1>11 DEF Around, SaidWell, CommitAnswers
<1>13. i > h
  BY <1>2, <1>4, <1>5, <1>9, <1>11 DEF Around, HeldWell, CommitWaits
<1> QED
  BY <1>4, <1>7, <1>8, <1>12, <1>13

\* A key is retired when no gap is open: all before the next number is taken.
LEMMA WitnessLets ==
  ASSUME NEW x \in Side, Acted(x), GapKnown(x)', Witnesses(x)
  PROVE  LetsGo(x)
<1> DEFINE y == Peer(x)
<1> SUFFICES ASSUME Open(x)', NEW n \in Nat, NEW k \in Nat, k \in HeldKeys(keys[x]),
                    Under(y, n, k), Needed(x, n)'
             PROVE  k \in HeldKeys(keys'[x])
  BY DEF LetsGo
<1>1. PICK t \in Nat, j \in Nat :
        /\ Under(Peer(x), t, j) /\ Reached(x, t)'
        /\ keys'[x] = retire_previous_key_if_settled(Witnessed(keys[x], j),
                                                     seq'[x].gap_requested)
  BY DEF Witnesses
<1> DEFINE s == Witnessed(keys[x], j)
<1>2. /\ s \in KeyState /\ HeldKeys(keys[x]) \subseteq HeldKeys(s)
      /\ s.previous_key # NoKey /\ s.new_key_confirmed => Past(x, s.previous_key)
  BY <1>1, WitnessPast
<1>3. keys'[x] = retire_previous_key_if_settled(s, seq'[x].gap_requested)
  BY <1>1
<1> HIDE DEF s
<1>4. CASE keys'[x] = s
  BY <1>2, <1>4
<1>5. CASE /\ s.previous_key # NoKey /\ s.new_key_confirmed /\ ~ seq'[x].gap_requested
           /\ keys'[x] = [s EXCEPT !.previous_key = NoKey]
  <2>1. HeldKeys(s) \subseteq HeldKeys(keys'[x]) \cup {s.previous_key}
    BY <1>2, <1>5 DEF HeldKeys, KeyState
  <2>2. k # s.previous_key
    <3> SUFFICES ASSUME k = s.previous_key PROVE FALSE
      OBVIOUS
    <3>1. PICK m \in Nat : Reached(x, m)' /\ n < m
      BY <1>2, <1>5 DEF Past
    <3>2. m <= seq'[x].in_seq_no
      BY <1>5, <3>1 DEF GapKnown, Reached
    <3>3. seq'[x].in_seq_no <= n /\ seq'[x].in_seq_no \in Nat
      BY DEF Needed, Acted, TypeInv, TypeOK, SeqState
    <3> QED
      BY <3>1, <3>2, <3>3
  <2> QED
    BY <1>2, <2>1, <2>2
<1> QED
  BY <1>3, <1>4, <1>5 DEF retire_previous_key_if_settled

\* A key becomes pending, or previous, and no other is let go but a previous one.
LEMMA SteersLets ==
  ASSUME NEW x \in Side, Acted(x), GapKnown(x)', Follows(x) \/ Hears(x)
  PROVE  LetsGo(x)
<1>1. Near(x, Peer(x)) /\ Rises(x)
  BY NearFacts, MoveRises
<1>2. CASE Witnesses(x)
  BY <1>2, WitnessLets
<1>3. CASE ~ Witnesses(x)
  <2> SUFFICES ASSUME Open(x)' PROVE HeldKeys(keys[x]) \subseteq HeldKeys(keys'[x])
    BY DEF LetsGo
  <2>1. /\ KeysRise(x) /\ KeysRise(x)' /\ keys[x].key \in Nat /\ Open(x)
        /\ keys[x].pending_key \in Nat \cup {NoKey}
    BY <1>1 DEF Near, Around, ReadWell, Rises, Numbers, Fields
  <2>2. CASE Follows(x)
    <3>1. /\ keys[x].pending_key # NoKey /\ keys'[x].key = keys[x].pending_key
          /\ keys[x].previous_key = NoKey /\ keys[x].key < keys[x].pending_key
      BY <2>1, <2>2 DEF Follows, KeysRise
    <3>2. keys'[x].previous_key = keys[x].key
      BY <1>3, <2>1, <3>1 DEF Acted, Steers, Obeys
    <3> QED
      BY <3>1, <3>2 DEF HeldKeys
  <2>3. CASE Hears(x)
    <3>1. keys'[x].key = keys[x].key /\ keys'[x].pending_key = keys[x].pending_key
      BY <2>3 DEF Hears
    <3>2. keys'[x].previous_key # keys[x].key
      <4> SUFFICES ASSUME keys'[x].previous_key = keys[x].key PROVE FALSE
        OBVIOUS
      <4>1. keys[x].key # NoKey
        BY <2>1 DEF NoKey
      <4>2. keys'[x].previous_key < keys'[x].key
        BY <2>1, <4>1 DEF KeysRise
      <4> QED
        BY <2>1, <3>1, <4>2
    <3>3. keys'[x].previous_key = keys[x].previous_key
      BY <1>3, <3>2 DEF Acted, Steers, Obeys
    <3> QED
      BY <3>1, <3>3 DEF HeldKeys
  <2> QED
    BY <2>2, <2>3
<1> QED
  BY <1>2, <1>3

LEMMA MoveLets ==
  ASSUME NEW x \in Side, Acted(x), GapKnown(x)'
  PROVE  LetsGo(x)
<1> DEFINE y == Peer(x)
<1>1. Near(x, y)
  BY NearFacts
<1>2. keys[x] \in KeyState /\ Fields(x)
  BY <1>1 DEF Acted, Before, TypeOK, Near, Numbers
<1>3. ASSUME HeldKeys(keys[x]) \subseteq HeldKeys(keys'[x]) PROVE LetsGo(x)
  BY <1>3 DEF LetsGo
<1>4. CASE Same(x) \/ Refuses(x)
  BY <1>3, <1>4 DEF Same, Refuses
<1>5. CASE Asks(x)
  BY <1>2, <1>3, <1>5 DEF Asks, Requested, HeldKeys, KeyState
<1>6. CASE Joins(x)
  <2>1. keys[x].pending_key = NoKey
    BY <1>2, <1>6 DEF Joins, Fields
  <2>2. keys'[x].key = keys[x].key /\ keys'[x].previous_key = keys[x].previous_key
    BY <1>2, <1>6 DEF Joins, Accepted, KeyState
  <2> QED
    BY <1>3, <2>1, <2>2 DEF HeldKeys
<1>7. CASE Adopts(x)
  <2>1. keys[x].pending_key = NoKey /\ keys[x].previous_key = NoKey
    BY <1>1, <1>2, <1>7 DEF Adopts, Fields, Near, Around, SaidWell, RequestLast
  <2>2. keys'[x].previous_key = keys[x].key
    BY <1>2, <1>7 DEF Adopts, adopt_new_key, clear, KeyState
  <2> QED
    BY <1>3, <2>1, <2>2 DEF HeldKeys
<1>8. CASE Follows(x) \/ Hears(x)
  BY <1>8, SteersLets
<1>9. CASE Ends(x)
  <2>1. keys'[x] = clear(keys[x])
    BY <1>9 DEF Ends
  <2>2. keys'[x].key = keys[x].key /\ keys'[x].previous_key = keys[x].previous_key
    BY <1>2, <2>1 DEF clear, KeyState
  <2>3. \A n, k \in Nat : Under(y, n, k) /\ k \in HeldKeys(keys[x]) => k # keys[x].pending_key
    <3> SUFFICES ASSUME NEW n \in Nat, NEW k \in Nat, Under(y, n, k), k = keys[x].pending_key
                 PROVE  FALSE
      OBVIOUS
    <3>1. UsedBy(y, k) /\ k # NoKey
      BY <1>1 DEF Near, NoKey
    <3> QED
      BY <1>9, <3>1, EndsLets
  <2> QED
    BY <2>2, <2>3 DEF LetsGo, HeldKeys
<1>10. CASE Closes(x)
  BY <1>10 DEF Closes, LetsGo
<1> QED
  BY <1>4, <1>5, <1>6, <1>7, <1>8, <1>9, <1>10 DEF Acted, Move

LEMMA BothCanRead ==
  ASSUME NEW x \in Side, Acted(x), GapKnown(x)'
  PROVE  CanRead(x)' /\ CanRead(Peer(x))'
<1> DEFINE y == Peer(x)
<1>1. Near(x, y) /\ LetsGo(x)
  BY NearFacts, MoveLets
<1>2. CanRead(x)'
  <2>1. /\ Open(x)' => Open(x) /\ \A m \in Nat : Needed(x, m)' => Needed(x, m)
        /\ CanRead(x) /\ \A n, k \in Nat : Under(y, n, k)' => Under(y, n, k)
    BY <1>1 DEF Near, Around, ReadWell, Acted, Gathers
  <2> HIDE DEF y
  <2>2. Peer(x) = y
    BY DEF y
  <2> QED
    BY <1>1, <2>1, <2>2 DEF CanRead, LetsGo
<1>3. CanRead(y)'
  <2>1. \A m \in Nat : Needed(y, m)' <=> Needed(y, m)
    BY DEF Acted, Gathers, Needed
  <2> HIDE DEF y
  <2>2. /\ Peer(y) = x /\ Peer(x) = y /\ CanRead(y) /\ keys'[y] = keys[y]
        /\ (Open(y)' <=> Open(y))
        /\ KeysMeet(y) /\ KeysMeet(y)' /\ Ahead(x) /\ Ahead(x)'
        /\ Open(x)' => keys'[x].key \in Nat
        /\ Open(x) => keys[x].key \in Nat
        /\ Open(y) => keys[y].key # NoKey
    BY <1>1 DEF Near, Around, ReadWell, Numbers, Fields
  <2>3. PICK one \in {keys[x].key, keys'[x].key} :
          \A n, k \in Nat : Under(x, n, k)' =>
            Under(x, n, k) \/ (n = Len(sent[x]) /\ k = one /\ Open(x) /\ Open(x)')
    BY <1>1 DEF Near
  <2> SUFFICES ASSUME Open(y), NEW n \in Nat, NEW k \in Nat, Under(x, n, k)', Needed(y, n)
               PROVE  k \in HeldKeys(keys[y])
    BY <2>1, <2>2 DEF CanRead
  <2>4. k # NoKey
    BY DEF NoKey
  <2>5. CASE Under(x, n, k)
    BY <2>2, <2>5 DEF CanRead
  <2>6. CASE k = keys[x].key /\ Open(x)
    BY <2>2, <2>4, <2>6 DEF KeysMeet, Ahead, HeldKeys
  <2>7. CASE k = keys'[x].key /\ Open(x)'
    BY <2>2, <2>4, <2>7 DEF KeysMeet, Ahead, HeldKeys
  <2> QED
    BY <2>3, <2>5, <2>6, <2>7
<1> QED
  BY <1>2, <1>3

LEMMA ActedKeeps ==
  ASSUME NEW x \in Side, Acted(x)
  PROVE  ReadInv'
<1>1. KeysInOrder(x)' /\ KeyTop(x)' /\ AfterCommit(x)' /\ GapKnown(x)'
  BY OwnWrites
<1>2. AnswerNew(x)' /\ KeysRise(x)' /\ UseFollows(x)'
  BY MoveRises DEF Rises
<1>3. ReadWell(x)' /\ ReadWell(Peer(x))'
  BY <1>1, <1>2, PeerWrites, OldKeysDone, BothCanRead DEF ReadWell
<1> QED
  BY <1>3, Sides DEF ReadInv

LEMMA AllReadable == TypeInv /\ ReadInv => FramesReadable
<1> SUFFICES ASSUME TypeInv, ReadInv, NEW p \in Side, Open(p)
             PROVE  /\ \A f \in net : f.to = p /\ StillNeeded(p, f.w) =>
                         f.key \in HeldKeys(keys[p])
                    /\ \A r \in retained_out[Peer(p)] : StillNeeded(p, r.w) =>
                         r.key \in HeldKeys(keys[p])
  BY DEF FramesReadable
<1>1. Peer(p) \in Side /\ Peer(Peer(p)) = p /\ TypeOK
  BY Sides DEF TypeInv
<1>2. CanRead(p)
  BY DEF ReadInv, ReadWell
<1>3. \A f \in net : RawOut(f.w) \in Nat /\ f.key \in Nat
  BY <1>1, RawOutType DEF TypeOK, Frame
<1>4. \A r \in retained_out[Peer(p)] : RawOut(r.w) \in Nat /\ r.key \in Nat
  BY <1>1, RawOutType DEF TypeOK, Item
<1>5. \A w : StillNeeded(p, w) => Needed(p, RawOut(w))
  <2>1. seq[p].in_seq_no \in Nat
    BY <1>1, CounterType
  <2> QED
    BY <2>1 DEF StillNeeded, Needed
<1>6. \A f \in net : f.to = p => Under(Peer(p), RawOut(f.w), f.key)
  BY <1>1 DEF Under
<1>7. \A r \in retained_out[Peer(p)] : Under(Peer(p), RawOut(r.w), r.key)
  BY <1>1 DEF Under
<1> QED
  BY <1>2, <1>3, <1>4, <1>5, <1>6, <1>7 DEF CanRead

----------------------------------------------------------------------------
(* Chats without withdrawals: nobody deletes or flushes, and the server    *)
(* refuses no record.                                                      *)

NoWithdrawal == Deleters = {} /\ "rejected" \notin Outcomes

\* No step of an operation withdraws anything, and no message asks for it.
Plain(p) ==
  /\ todo[p] \in Seq(OtherStep)
  /\ \A i \in DOMAIN sent[p] : sent[p][i].act # "flush"

PlainInv == \A p \in Side : Plain(p)

\* What is known before a step.
Firm == Ground /\ NoWithdrawal /\ PlainInv

LEMMA PlainKept ==
  ASSUME TypeInv, PlainInv, NEW x \in Side, todo'[x] \in Seq(OtherStep),
         \/ sent'[x] = sent[x]
         \/ \E m : sent'[x] = Append(sent[x], m) /\ m.act # "flush",
         \A q \in Side : q # x => todo'[q] = todo[q] /\ sent'[q] = sent[q]
  PROVE  PlainInv'
<1>1. \A i \in DOMAIN sent'[x] : sent'[x][i].act # "flush"
  <2> DEFINE z == sent[x]
  <2>1. z \in Seq([act : Acts, a : Nat, b : Nat]) /\ \A i \in DOMAIN z : z[i].act # "flush"
    BY DEF TypeInv, TypeOK, PlainInv, Plain
  <2> SUFFICES ASSUME NEW m, sent'[x] = Append(z, m), m.act # "flush"
               PROVE  \A i \in DOMAIN sent'[x] : sent'[x][i].act # "flush"
    BY <2>1
  <2> HIDE DEF z
  <2> QED BY <2>1
<1>2. Plain(x)'
  BY <1>1 DEF Plain
<1>3. ASSUME NEW q \in Side, q # x PROVE Plain(q)'
  BY <1>3 DEF PlainInv, Plain
<1> QED
  BY <1>2, <1>3 DEF PlainInv

LEMMA PlainRest ==
  ASSUME PlainInv, NEW x \in Side, todo[x] # <<>>
  PROVE  /\ Tail(todo[x]) \in Seq(OtherStep) /\ Head(todo[x]) \in OtherStep
         /\ <<Do("pop")>> \o Tail(todo[x]) \in Seq(OtherStep)
         /\ <<Do("drain")>> \o Tail(todo[x]) \in Seq(OtherStep)
<1> DEFINE D == OtherStep
<1> DEFINE t == Tail(todo[x])
<1>1. todo[x] \in Seq(D)
  BY DEF PlainInv, Plain
<1>2. Do("pop") \in D /\ Do("drain") \in D
  BY DEF Do, OtherStep, Step, Steps
<1> HIDE DEF D
<1>3. t \in Seq(D) /\ Head(todo[x]) \in D
  BY <1>1
<1> HIDE DEF t
<1>4. <<Do("pop")>> \in Seq(D) /\ <<Do("drain")>> \in Seq(D)
  BY <1>2
<1>5. <<Do("pop")>> \o t \in Seq(D) /\ <<Do("drain")>> \o t \in Seq(D)
  BY <1>3, <1>4
<1> QED
  BY <1>3, <1>5 DEF D, t

\* A step of x alone that says nothing.
LEMMA OwnPlain ==
  ASSUME TypeInv, PlainInv, NEW x \in Side, UNCHANGED sent,
         NEW t, todo' = [todo EXCEPT ![x] = t],
         t = todo[x] \/ t \in Seq(OtherStep)
  PROVE  PlainInv'
<1>1. todo'[x] = t /\ \A q \in Side : q # x => todo'[q] = todo[q]
  BY TodoOf
<1>2. todo[x] \in Seq(OtherStep)
  BY DEF PlainInv, Plain
<1> QED
  BY <1>1, <1>2, PlainKept

----------------------------------------------------------------------------
(* The facts of a step, from what it writes, takes and does to the keys    *)

Faces(x) == Writes(x) /\ Gathers(x) /\ Steers(x)

\* x writes nothing that it has not written before.
Resends(x) ==
  /\ retained_out'[Peer(x)] = retained_out[Peer(x)]
  /\ \A r \in retained_out'[x] : \E s \in retained_out[x] : s.w = r.w /\ s.key = r.key
  /\ \A f \in net' :
       \/ f \in net
       \/ f.to = Peer(x) /\ \E s \in retained_out[x] : s.w = f.w /\ s.key = f.key

LEMMA ResendsWrites ==
  ASSUME NEW x \in Side, Resends(x)
  PROVE  Writes(x)
<1>1. Peer(x) \in Side /\ Peer(x) # x /\ Peer(Peer(x)) = x
  BY Sides
<1>2. \A n, k \in Nat : Under(Peer(x), n, k)' => Under(Peer(x), n, k)
  BY <1>1 DEF Under, Resends
<1>3. \A n, k \in Nat : Under(x, n, k)' => Under(x, n, k)
  BY <1>1 DEF Under, Resends
<1> QED
  BY <1>2, <1>3 DEF Writes

\* Neither side takes anything.
LEMMA HoldsGathers ==
  ASSUME NEW x \in Side, UNCHANGED queue_in,
         \A q \in Side : /\ seq'[q].in_seq_no = seq[q].in_seq_no
                         /\ seq'[q].gap_requested = seq[q].gap_requested
  PROVE  Gathers(x)
<1>1. Peer(x) \in Side
  BY Sides
<1> QED
  BY <1>1 DEF Gathers, GapKnown, Needed, Reached

LEMMA StillFaces ==
  ASSUME NEW x \in Side, Resends(x), UNCHANGED queue_in,
         \A q \in Side : /\ seq'[q].in_seq_no = seq[q].in_seq_no
                         /\ seq'[q].gap_requested = seq[q].gap_requested,
         keys'[x].key = keys[x].key, keys'[x].previous_key = keys[x].previous_key,
         keys'[x].new_key_confirmed = keys[x].new_key_confirmed
  PROVE  Faces(x)
BY ResendsWrites, HoldsGathers DEF Faces, Steers

LEMMA CloseFaces ==
  ASSUME Firm, NEW x \in Side, NEW reason, CloseChat(x, reason), UNCHANGED sent,
         \A f \in net' :
           \/ f \in net
           \/ f.to = Peer(x) /\ \E s \in retained_out[x] : s.w = f.w /\ s.key = f.key
  PROVE  PlainInv' /\ Faces(x)
<1>1. /\ TypeInv /\ TypeOK /\ PlainInv
      /\ Peer(x) \in Side /\ Peer(x) # x /\ Peer(Peer(x)) = x
  BY Sides DEF Firm, Ground, TypeInv
<1>2. /\ state' = [state EXCEPT ![x] = "closed"] /\ UNCHANGED seq
      /\ keys' = [keys EXCEPT ![x] = Scrubbed(@)]
      /\ queue_in' = [queue_in EXCEPT ![x] = {}]
      /\ retained_out' = [retained_out EXCEPT ![x] = {}]
      /\ todo' = [todo EXCEPT ![x] = <<>>]
  BY DEF CloseChat
<1>3. PlainInv'
  <2>1. <<>> \in Seq(OtherStep)
    OBVIOUS
  <2> QED
    BY <1>1, <1>2, <2>1, OwnPlain
<1>4. Writes(x)
  <2>1. Resends(x)
    BY <1>1, <1>2 DEF Resends, TypeOK
  <2> QED
    BY <2>1, ResendsWrites
<1>5. /\ queue_in'[x] = {} /\ ~ Open(x)' /\ seq' = seq
      /\ queue_in'[Peer(x)] = queue_in[Peer(x)] /\ keys'[x] = Scrubbed(keys[x])
  BY <1>1, <1>2 DEF TypeOK, Open
<1>6. Gathers(x)
  BY <1>1, <1>5 DEF Gathers, GapKnown
<1>7. Steers(x)
  <2>1. keys[x] \in KeyState
    BY <1>1 DEF TypeOK
  <2>2. Scrubbed(keys[x]).previous_key = NoKey
    BY <2>1 DEF Scrubbed, clear, KeyState
  <2> QED
    BY <1>5, <2>2 DEF Steers
<1> QED
  BY <1>3, <1>4, <1>6, <1>7 DEF Faces

\* What a commit writes, when the server refuses nothing.
LEMMA CommitWrites ==
  ASSUME Firm, NEW x \in Side, Open(x), NEW act \in Acts, NEW a \in Nat, NEW b \in Nat,
         NEW key \in Nat, NEW new, NEW st, NEW o \in AnyOutcome,
         Commit(x, act, a, b, key, new, st, o), st # "closed",
         key \in {keys[x].key, new.key}
  PROVE  Writes(x) /\ keys'[x] = new
<1> DEFINE v == NewWrapper(x, act, a, b)
<1> DEFINE r == [w |-> v, key |-> key, pending |-> TRUE, failures |-> 0]
<1> DEFINE t == Transmitted(r, o, new.key)
<1>1. /\ TypeInv /\ TypeOK /\ NumberInv /\ o # "rejected"
      /\ Peer(x) \in Side /\ Peer(x) # x /\ Peer(Peer(x)) = x
  BY Sides DEF Firm, Ground, TypeInv, NoWithdrawal, AnyOutcome
<1>2. /\ keys' = [keys EXCEPT ![x] = new] /\ state' = [state EXCEPT ![x] = st]
      /\ retained_out' = [retained_out EXCEPT ![x] = @ \cup {t}]
      /\ net' = net \cup (IF Arrives(o) THEN {FrameOf(x, r)} ELSE {})
  BY DEF Commit
<1>3. seq[x] \in SeqState /\ Numbered(x) /\ v \in Wrapper
  BY <1>1, NewWrapperType DEF TypeOK, NumberInv
<1>4. RawOut(v) = Len(sent[x])
  <2>1. RawOut(v) = seq[x].out_seq_no
    BY <1>3, SeqFacts, WireNumber DEF NewWrapper, RawOut
  <2> QED
    BY <1>3, <2>1 DEF Numbered
<1>5. t.w = v /\ t.key = key
  <2> HIDE DEF v
  <2> QED BY <1>1 DEF Transmitted
<1>6. FrameOf(x, r).to = Peer(x) /\ FrameOf(x, r).w = v /\ FrameOf(x, r).key = key
  BY DEF FrameOf
<1> HIDE DEF t, r, v
<1>7. keys'[x] = new /\ Open(x)'
  BY <1>1, <1>2 DEF TypeOK, Open
<1>8. \A n, k \in Nat : Under(Peer(x), n, k)' => Under(Peer(x), n, k)
  <2>1. retained_out'[Peer(x)] = retained_out[Peer(x)]
    BY <1>1, <1>2 DEF TypeOK
  <2>2. \A f \in net' : f.to = x => f \in net
    BY <1>1, <1>2, <1>6
  <2> QED
    BY <1>1, <2>1, <2>2 DEF Under
<1>9. \A n, k \in Nat : Under(x, n, k)' =>
        Under(x, n, k) \/ (n = Len(sent[x]) /\ k = key /\ Open(x) /\ Open(x)')
  <2>1. \A s \in retained_out'[x] : s \in retained_out[x] \/ s = t
    BY <1>1, <1>2 DEF TypeOK
  <2>2. \A f \in net' : f \in net \/ f = FrameOf(x, r)
    BY <1>2
  <2> QED
    BY <1>4, <1>5, <1>6, <1>7, <2>1, <2>2 DEF Under
<1> QED
  BY <1>7, <1>8, <1>9 DEF Writes

LEMMA CommitPlain ==
  ASSUME Firm, NEW x \in Side, NEW act, NEW a, NEW b, NEW key, NEW new, NEW st, NEW o,
         Commit(x, act, a, b, key, new, st, o), act # "flush",
         NEW u, todo' = [todo EXCEPT ![x] = u], u = todo[x] \/ u \in Seq(OtherStep)
  PROVE  PlainInv'
<1>1. TypeInv /\ PlainInv
  BY DEF Firm, Ground
<1>2. /\ sent'[x] = Append(sent[x], [act |-> act, a |-> a, b |-> b])
      /\ \A q \in Side : q # x => sent'[q] = sent[q]
  BY <1>1 DEF Commit, TypeInv, TypeOK
<1>3. todo'[x] = u /\ \A q \in Side : q # x => todo'[q] = todo[q]
  BY <1>1, TodoOf
<1>4. u \in Seq(OtherStep)
  BY <1>1 DEF PlainInv, Plain
<1> QED
  BY <1>1, <1>2, <1>3, <1>4, PlainKept

\* A message that leaves the keys alone.
LEMMA SentFaces ==
  ASSUME Firm, NEW x \in Side, Open(x), NEW act \in Acts, NEW a \in Nat, NEW b \in Nat,
         NEW new, NEW st, NEW o \in AnyOutcome, act # "flush",
         Commit(x, act, a, b, keys[x].key, new, st, o), st # "closed",
         NEW u, todo' = [todo EXCEPT ![x] = u], u = todo[x] \/ u \in Seq(OtherStep),
         new.key = keys[x].key, new.previous_key = keys[x].previous_key,
         new.new_key_confirmed = keys[x].new_key_confirmed,
         \A q \in Side : /\ seq'[q].in_seq_no = seq[q].in_seq_no
                         /\ seq'[q].gap_requested = seq[q].gap_requested
  PROVE  PlainInv' /\ Faces(x)
<1>1. PlainInv'
  BY CommitPlain
<1>2. keys[x].key \in Nat
  BY OpenFacts DEF Firm, Ground
<1>3. Writes(x) /\ keys'[x] = new
  BY <1>2, CommitWrites
<1>4. Gathers(x)
  BY HoldsGathers DEF Commit
<1>5. Steers(x)
  BY <1>3 DEF Steers
<1> QED
  BY <1>1, <1>3, <1>4, <1>5 DEF Faces

LEMMA CountedHolds ==
  ASSUME TypeOK, NEW x \in Side, seq' = Counted(x)
  PROVE  \A q \in Side : /\ seq'[q].in_seq_no = seq[q].in_seq_no
                         /\ seq'[q].gap_requested = seq[q].gap_requested
<1>1. seq \in [Side -> SeqState]
  BY DEF TypeOK
<1> DEFINE c == [seq[x] EXCEPT !.out_seq_no = @ + 1]
<1>2. c.in_seq_no = seq[x].in_seq_no /\ c.gap_requested = seq[x].gap_requested
  BY <1>1 DEF SeqState
<1>3. seq' = [seq EXCEPT ![x] = c]
  BY <1>1 DEF Counted
<1> HIDE DEF c
<1> QED
  BY <1>1, <1>2, <1>3

LEMMA ApplicationFaces ==
  ASSUME Firm, NEW x \in Side, Application(x)
  PROVE  PlainInv' /\ Faces(x)
<1>1. TypeInv /\ TypeOK /\ PlainInv /\ Deleters = {}
  BY DEF Firm, Ground, TypeInv, NoWithdrawal
<1>2. todo' = todo => todo' = [todo EXCEPT ![x] = todo[x]]
  BY <1>1 DEF TypeOK
<1>3. CASE SendMessage(x) \/ NotifyLayer(x)
  <2>1. PICK act \in {"msg", "notify"}, a \in {0, MAX_LAYER}, o \in AnyOutcome :
          Commit(x, act, a, 0, keys[x].key, keys[x], state[x], o)
    BY <1>3 DEF SendMessage, NotifyLayer
  <2>2. Open(x) /\ state[x] # "closed" /\ todo' = todo /\ seq' = Counted(x)
    BY <1>3 DEF SendMessage, NotifyLayer, Idle, Open
  <2>3. act \in Acts /\ act # "flush" /\ a \in Nat /\ 0 \in Nat
    BY <2>1 DEF Acts, MAX_LAYER
  <2>4. \A q \in Side : /\ seq'[q].in_seq_no = seq[q].in_seq_no
                        /\ seq'[q].gap_requested = seq[q].gap_requested
    BY <1>1, <2>2, CountedHolds
  <2> QED
    BY <1>2, <2>1, <2>2, <2>3, <2>4, SentFaces
<1>4. CASE StartRekey(x)
  <2>1. PICK e \in ExchangeIds[x], o \in AnyOutcome :
          /\ Commit(x, "request", e, 0, keys[x].key, Requested(keys[x], e), "rekeying", o)
          /\ GoOn(x, o, todo[x])
    BY <1>4 DEF StartRekey
  <2>2. Open(x) /\ seq' = Counted(x)
    BY <1>4 DEF StartRekey, Idle, At
  <2>3. "request" \in Acts /\ e \in Nat /\ 0 \in Nat /\ keys[x] \in KeyState
    BY <1>1, <2>2, BoundsAssumption, OpenFacts DEF Acts
  <2> DEFINE new == Requested(keys[x], e)
  <2>4. /\ new.key = keys[x].key /\ new.previous_key = keys[x].previous_key
        /\ new.new_key_confirmed = keys[x].new_key_confirmed
    BY <2>3 DEF Requested, KeyState
  <2> HIDE DEF new
  <2>5. Commit(x, "request", e, 0, keys[x].key, new, "rekeying", o)
    BY <2>1 DEF new
  <2>6. PICK u \in {todo[x], <<>>} : todo' = [todo EXCEPT ![x] = u]
    BY <2>1 DEF GoOn
  <2>7. u = todo[x] \/ u \in Seq(OtherStep)
    <3>1. <<>> \in Seq(OtherStep)
      OBVIOUS
    <3> QED
      BY <2>6, <3>1
  <2>8. \A q \in Side : /\ seq'[q].in_seq_no = seq[q].in_seq_no
                        /\ seq'[q].gap_requested = seq[q].gap_requested
    BY <1>1, <2>2, CountedHolds
  <2> QED
    BY <2>2, <2>3, <2>4, <2>5, <2>6, <2>7, <2>8, SentFaces
<1>5. ~ BeginDelete(x) /\ ~ BeginFlush(x)
  BY <1>1 DEF BeginDelete, BeginFlush
<1>6. ~ SendDelete(x)
  <2>1. todo[x] # <<>> => Head(todo[x]).do \notin {"delete", "flush"}
    BY <1>1, PlainRest DEF OtherStep
  <2> QED
    BY <2>1 DEF SendDelete, At
<1>7. CASE Close(x)
  BY <1>7, CloseFaces DEF Close, history
<1> QED
  BY <1>3, <1>4, <1>5, <1>6, <1>7 DEF Application

\* The handler of a frame: what it keeps, and what its key shows.
LEMMA ReceiptFaces ==
  ASSUME Firm, NEW x \in Side, NEW f \in net, f.to = x, NEW c, NEW ready,
         Receipt(x, f, c, ready), NEW Q, queue_in' = [queue_in EXCEPT ![x] = Q],
         \/ queue_in[x] # {} /\ ~ seq[x].gap_requested
         \/ Q = {}
         \/ c.gap_requested,
         \A m \in Nat :
           /\ c.in_seq_no <= m /\ (\A y \in Q : RawOut(y) # m) => Needed(x, m)
           /\ Reached(x, m) => m <= c.in_seq_no \/ \E y \in Q : m <= RawOut(y),
         RawOut(f.w) <= c.in_seq_no \/ \E y \in Q : RawOut(f.w) <= RawOut(y)
  PROVE  PlainInv' /\ Faces(x)
<1>1. /\ TypeInv /\ TypeOK /\ PlainInv
      /\ Peer(x) \in Side /\ Peer(x) # x /\ Peer(Peer(x)) = x
  BY Sides DEF Firm, Ground, TypeInv
<1> DEFINE answer == IF f.w.act = "resend"
                       THEN answer_resend(retained_out[x], f.w.a, f.w.b) ELSE {}
<1> DEFINE kept == forget_acknowledged(x, retained_out[x], c.peer_in_seq_no)
<1> DEFINE switched == keys[x].pending_key # NoKey /\ f.key = keys[x].pending_key
<1> DEFINE R == (kept \ answer) \cup {[r EXCEPT !.pending = TRUE] : r \in answer}
<1> DEFINE steps == Plan(Mailed(pending_deliveries[x], ready), answer, c.resend_due,
                         switched)
<1>2. /\ seq' = [seq EXCEPT ![x] = c]
      /\ keys' = [keys EXCEPT ![x] = retire_previous_key_if_settled(
                                       Witnessed(@, f.key), c.gap_requested)]
      /\ retained_out' = [retained_out EXCEPT ![x] = R]
      /\ todo' = [todo EXCEPT ![x] = steps]
      /\ UNCHANGED <<net, sent>>
  BY DEF Receipt, history
<1>3. answer \subseteq retained_out[x] /\ kept \subseteq retained_out[x]
  BY DEF answer_resend, forget_acknowledged
<1>4. steps \in Seq(OtherStep)
  BY PlanOthers
<1> HIDE DEF answer, kept, switched, steps
<1>5. PlainInv'
  BY <1>1, <1>2, <1>4, OwnPlain
<1>6. Writes(x)
  <2>1. \A r \in Item : [r EXCEPT !.pending = TRUE].w = r.w /\ [r EXCEPT !.pending = TRUE].key = r.key
    BY DEF Item
  <2>2. retained_out[x] \subseteq Item
    BY <1>1 DEF TypeOK
  <2>3. \A r \in R : \E s \in retained_out[x] : s.w = r.w /\ s.key = r.key
    BY <1>3, <2>1, <2>2
  <2> HIDE DEF R
  <2>4. retained_out'[x] = R /\ retained_out'[Peer(x)] = retained_out[Peer(x)]
    BY <1>1, <1>2 DEF TypeOK
  <2>5. Resends(x)
    BY <1>2, <2>3, <2>4 DEF Resends
  <2> QED
    BY <2>5, ResendsWrites
<1> HIDE DEF R
<1>7. /\ seq'[x] = c /\ seq'[Peer(x)] = seq[Peer(x)]
      /\ queue_in'[x] = Q /\ queue_in'[Peer(x)] = queue_in[Peer(x)]
      /\ keys'[x] = retire_previous_key_if_settled(Witnessed(keys[x], f.key),
                                                   seq'[x].gap_requested)
  BY <1>1, <1>2 DEF TypeOK
<1>8. Gathers(x)
  <2>1. GapKnown(x) => GapKnown(x)'
    BY <1>7 DEF GapKnown
  <2>2. \A m \in Nat : /\ Needed(x, m)' => Needed(x, m)
                       /\ Reached(x, m) => Reached(x, m)'
    <3> SUFFICES ASSUME NEW m \in Nat
                 PROVE  /\ Needed(x, m)' => Needed(x, m)
                        /\ Reached(x, m) => Reached(x, m)'
      OBVIOUS
    <3>1. Needed(x, m)' <=> c.in_seq_no <= m /\ \A y \in Q : RawOut(y) # m
      BY <1>7 DEF Needed
    <3>2. Reached(x, m)' <=> m <= c.in_seq_no \/ \E y \in Q : m <= RawOut(y)
      BY <1>7 DEF Reached
    <3> QED
      BY <3>1, <3>2
  <2> QED
    BY <1>7, <2>1, <2>2 DEF Gathers
<1>9. Witnesses(x)
  <2>1. f \in Frame
    BY <1>1 DEF TypeOK
  <2>2. RawOut(f.w) \in Nat /\ f.key \in Nat
    BY <2>1, RawOutType DEF Frame
  <2>3. Under(Peer(x), RawOut(f.w), f.key)
    BY <1>1 DEF Under
  <2>4. Reached(x, RawOut(f.w))'
    BY <1>7 DEF Reached
  <2> QED
    BY <1>7, <2>2, <2>3, <2>4 DEF Witnesses
<1> QED
  BY <1>5, <1>6, <1>8, <1>9 DEF Faces, Steers

LEMMA EarlyFaces ==
  ASSUME Firm, NEW x \in Side, NEW f \in net, ReceiveEarly(x, f)
  PROVE  PlainInv' /\ Faces(x)
<1> DEFINE c == accept_early(seq[x], f.w)
<1> DEFINE Q == queue_in[x] \cup {Stored(f.w)}
<1>1. /\ TypeOK /\ seq[x] \in SeqState /\ f.w \in Wrapper /\ f.to = x
      /\ queue_in' = [queue_in EXCEPT ![x] = Q] /\ Receipt(x, f, c, <<>>)
  BY DEF Firm, Ground, TypeInv, TypeOK, Frame, ReceiveEarly, Readable
<1>2. c.in_seq_no = seq[x].in_seq_no
  BY <1>1, AcceptEarlyType
<1>3. c.gap_requested = TRUE
  <2> DEFINE heard == [seq[x] EXCEPT !.layer = raise_remote_layer(@, f.w.layer)]
  <2>1. heard \in SeqState /\ heard.gap_requested = seq[x].gap_requested
    BY <1>1, RaiseType DEF SeqState, Wrapper
  <2>2. CASE seq[x].gap_requested
    <3>1. c = heard /\ seq[x].gap_requested \in BOOLEAN
      BY <1>1, <2>2 DEF accept_early, SeqState
    <3> HIDE DEF heard, c
    <3> QED
      BY <2>1, <2>2, <3>1
  <2>3. CASE ~ seq[x].gap_requested
    <3> DEFINE due == [start |-> 2 * seq[x].in_seq_no + (f.w.out_seq_no % 2),
                       end |-> f.w.out_seq_no - 2]
    <3>1. c = [heard EXCEPT !.gap_requested = TRUE, !.gap_end = RawOut(f.w),
                            !.resend_due = due]
      BY <2>3 DEF accept_early
    <3> HIDE DEF heard, c, due
    <3> QED
      BY <2>1, <3>1 DEF SeqState
  <2> QED
    BY <2>2, <2>3
<1>4. Stored(f.w) \in Q /\ RawOut(Stored(f.w)) = RawOut(f.w) /\ queue_in[x] \subseteq Q
      /\ RawOut(f.w) \in Nat
  BY <1>1, StoredType, RawOutType
<1> HIDE DEF c, Q
<1>5. \A m \in Nat :
        /\ c.in_seq_no <= m /\ (\A y \in Q : RawOut(y) # m) => Needed(x, m)
        /\ Reached(x, m) => m <= c.in_seq_no \/ \E y \in Q : m <= RawOut(y)
  BY <1>2, <1>4 DEF Needed, Reached
<1>6. \E y \in Q : RawOut(f.w) <= RawOut(y)
  BY <1>4
<1> QED
  BY <1>1, <1>3, <1>5, <1>6, ReceiptFaces

LEMMA NextFaces ==
  ASSUME Firm, NEW x \in Side, NEW f \in net, ReceiveNext(x, f)
  PROVE  PlainInv' /\ Faces(x)
<1> DEFINE B == queue_in[x]
<1> DEFINE n == RawOut(f.w)
<1>0. PICK m \in NextMissing(B, n) :
        /\ queue_in' = [queue_in EXCEPT ![x] = Waiting(@, m)]
        /\ \E first \in FirstWaiting(B, m) :
             Receipt(x, f, accept_next(seq[x], B, f.w, m, first), Ready(B, Stored(f.w), m))
  BY DEF ReceiveNext
<1>1. PICK first \in FirstWaiting(B, m) :
        /\ queue_in' = [queue_in EXCEPT ![x] = Waiting(B, m)]
        /\ Receipt(x, f, accept_next(seq[x], B, f.w, m, first), Ready(B, Stored(f.w), m))
  BY <1>0
<1> DEFINE c == accept_next(seq[x], B, f.w, m, first)
<1> DEFINE Q == Waiting(B, m)
<1>2. /\ seq[x] \in SeqState /\ f.w \in Wrapper /\ f.to = x /\ n = seq[x].in_seq_no
      /\ B \in SUBSET Wrapper /\ n \in Nat
  <2>1. f.w \in Wrapper
    BY DEF Firm, Ground, TypeInv, TypeOK, Frame
  <2> QED
    BY <2>1, RawOutType DEF Firm, Ground, TypeInv, TypeOK, ReceiveNext, Readable
<1>3. m \in Nat /\ m > n /\ \A y \in B : RawOut(y) # m /\ RawOut(y) \in Nat
  <2>1. m \in Nat /\ m > n
    BY <1>2, NextMissingFacts
  <2>2. \A y \in B : RawOut(y) # m
    BY DEF NextMissing
  <2> QED
    BY <1>2, <2>1, <2>2, RawOutType
<1>4. c.in_seq_no = m
  <2> HIDE DEF B
  <2> QED BY <1>2, AcceptNextType DEF B
<1>5. \/ B # {} /\ ~ seq[x].gap_requested
      \/ Q = {}
      \/ c.gap_requested
  <2> SUFFICES ASSUME Q # {}, seq[x].gap_requested PROVE c.gap_requested
    BY DEF Waiting
  <2> DEFINE last == Taken(B, f.w, m - 1)
  <2> DEFINE xx == f.w.out_seq_no % 2
  <2> DEFINE moved == [seq[x] EXCEPT !.layer = raise_remote_layer(@, f.w.layer),
                                     !.peer_in_seq_no = RawIn(last),
                                     !.wrapper_layer = last.layer,
                                     !.in_seq_no = m]
  <2> DEFINE due == [start |-> 2 * m + xx, end |-> 2 * (first - 1) + xx]
  <2>1. first # NoGap
    BY <1>3 DEF FirstWaiting, Waiting, NoGap
  <2>2. moved.gap_requested = seq[x].gap_requested
    BY <1>2 DEF SeqState
  <2>3. c = IF seq[x].gap_end = NoGap \/ m >= seq[x].gap_end
              THEN [moved EXCEPT !.gap_requested = TRUE, !.gap_end = first,
                                 !.resend_due = due]
            ELSE moved
    BY <2>1 DEF accept_next
  <2>4. [moved EXCEPT !.gap_requested = TRUE, !.gap_end = first,
                      !.resend_due = due].gap_requested = TRUE
    <3>1. "gap_requested" \in DOMAIN moved
      BY <1>2 DEF SeqState
    <3> HIDE DEF moved, due
    <3> QED
      BY <3>1
  <2> HIDE DEF moved, c, due
  <2> QED
    BY <2>2, <2>3, <2>4
<1>6. \A y \in B : y \in Q \/ RawOut(y) < m
  BY <1>3 DEF Waiting
<1>7. Q \subseteq B
  BY DEF Waiting
<1> HIDE DEF c, Q, n
<1>8. ASSUME NEW k \in Nat
      PROVE  /\ c.in_seq_no <= k /\ (\A y \in Q : RawOut(y) # k) => Needed(x, k)
             /\ Reached(x, k) => k <= c.in_seq_no \/ \E y \in Q : k <= RawOut(y)
  <2>1. seq[x].in_seq_no < m
    BY <1>2, <1>3
  <2>2. seq[x].in_seq_no \in Nat
    BY <1>2
  <2>3. ASSUME c.in_seq_no <= k, \A y \in Q : RawOut(y) # k PROVE Needed(x, k)
    <3>1. seq[x].in_seq_no <= k
      BY <1>3, <1>4, <2>1, <2>2, <2>3
    <3>2. \A y \in B : RawOut(y) # k
      BY <1>3, <1>4, <1>6, <2>3
    <3> QED
      BY <3>1, <3>2 DEF Needed
  <2>4. ASSUME Reached(x, k) PROVE k <= c.in_seq_no \/ \E y \in Q : k <= RawOut(y)
    <3>1. CASE k <= seq[x].in_seq_no
      BY <1>3, <1>4, <2>1, <2>2, <3>1
    <3>2. ASSUME NEW y \in B, k <= RawOut(y)
          PROVE  k <= c.in_seq_no \/ \E z \in Q : k <= RawOut(z)
      BY <1>3, <1>4, <1>6, <3>2
    <3> QED
      BY <2>4, <3>1, <3>2 DEF Reached
  <2> QED
    BY <2>3, <2>4
<1>9. n <= c.in_seq_no
  BY <1>2, <1>3, <1>4
<1>10. /\ queue_in' = [queue_in EXCEPT ![x] = Q]
       /\ Receipt(x, f, c, Ready(B, Stored(f.w), m))
  BY <1>1 DEF c, Q
<1>11. RawOut(f.w) <= c.in_seq_no
  BY <1>9 DEF n
<1> QED
  BY <1>2, <1>5, <1>8, <1>10, <1>11, ReceiptFaces

LEMMA ReceiveFaces ==
  ASSUME Firm, NEW x \in Side, Receive(x)
  PROVE  PlainInv' /\ Faces(x)
<1>1. CASE \E f \in net : ReceiveNext(x, f) \/ ReceiveEarly(x, f)
  BY <1>1, NextFaces, EarlyFaces
<1>2. CASE \E f \in net : ReceiveRefused(x, f)
  BY <1>2, CloseFaces DEF ReceiveRefused, history
<1>3. CASE \E f \in net : ReceiveIgnored(x, f)
  <2>1. UNCHANGED <<sent, retained_out, net, queue_in, seq, keys, todo>>
    BY <1>3 DEF ReceiveIgnored, vars, chatVars, storeVars, runVars, history
  <2>2. PlainInv'
    BY <2>1 DEF Firm, PlainInv, Plain
  <2> QED
    BY <2>1, <2>2, StillFaces DEF Resends
<1>4. CASE Discarded(x)
  BY <1>4, CloseFaces DEF Discarded, history
<1> QED
  BY <1>1, <1>2, <1>3, <1>4 DEF Receive

\* The head handed over, and nothing written or kept.
LEMMA PassFaces ==
  ASSUME Firm, NEW x \in Side, Draining(x), HandOver(x),
         UNCHANGED <<retained_out, net, keys, queue_in, sent>>,
         \A q \in Side : /\ seq'[q].in_seq_no = seq[q].in_seq_no
                         /\ seq'[q].gap_requested = seq[q].gap_requested
  PROVE  PlainInv' /\ Faces(x)
<1>1. TypeInv /\ PlainInv /\ todo[x] # <<>>
  BY DEF Firm, Ground, Draining, At
<1>2. todo' = [todo EXCEPT ![x] = <<Do("pop")>> \o Tail(todo[x])]
  BY DEF HandOver
<1>3. <<Do("pop")>> \o Tail(todo[x]) \in Seq(OtherStep)
  BY <1>1, PlainRest
<1>4. PlainInv'
  BY <1>1, <1>2, <1>3, OwnPlain
<1>5. Faces(x)
  BY StillFaces DEF Resends
<1> QED
  BY <1>4, <1>5

LEMMA UnansweredFaces ==
  ASSUME Firm, NEW x \in Side, Draining(x), Unanswered(x)
  PROVE  PlainInv' /\ Faces(x)
BY PassFaces DEF Unanswered, chatVars, storeVars

LEMMA ReplyFaces ==
  ASSUME Firm, NEW x \in Side, Draining(x),
         NEW act \in {"abort", "accept", "commit", "noop"}, NEW a \in Nat, NEW b \in Nat,
         NEW key \in Nat, NEW new, NEW st, Reply(x, act, a, b, key, new, st),
         st # "closed", key \in {keys[x].key, new.key}
  PROVE  PlainInv' /\ Writes(x) /\ Gathers(x) /\ keys'[x] = new /\ seq' = Counted(x)
<1>1. TypeInv /\ TypeOK /\ PlainInv /\ todo[x] # <<>> /\ Open(x)
  BY DEF Firm, Ground, TypeInv, Draining, At
<1>2. act \in Acts /\ act # "flush"
  BY DEF Acts
<1>3. PICK o \in AnyOutcome :
        /\ Commit(x, act, a, b, key, new, st, o) /\ seq' = Counted(x)
        /\ \/ HandOver(x)
           \/ todo' = [todo EXCEPT ![x] = <<>>]
  BY DEF Reply
<1>4. PlainInv'
  <2>1. /\ <<Do("pop")>> \o Tail(todo[x]) \in Seq(OtherStep)
        /\ <<>> \in Seq(OtherStep)
    BY <1>1, PlainRest
  <2>2. \E u \in Seq(OtherStep) : todo' = [todo EXCEPT ![x] = u]
    BY <1>3, <2>1 DEF HandOver
  <2> QED
    BY <1>2, <1>3, <2>2, CommitPlain
<1>5. Writes(x) /\ keys'[x] = new
  BY <1>1, <1>2, <1>3, CommitWrites
<1>6. Gathers(x)
  <2>1. UNCHANGED queue_in
    BY <1>3 DEF Commit
  <2> QED
    BY <1>1, <1>3, <2>1, CountedHolds, HoldsGathers
<1> QED
  BY <1>3, <1>4, <1>5, <1>6

LEMMA RequestFaces ==
  ASSUME Firm, NEW x \in Side, DeliverRequestKey(x)
  PROVE  PlainInv' /\ Faces(x)
<1>1. /\ Draining(x) /\ Mail(x).a \in Nat /\ keys[x].key \in Nat /\ minted \in Nat
      /\ keys[x] \in KeyState /\ state[x] # "closed"
  BY MailFacts, OpenFacts DEF DeliverRequestKey, Wrapper, Firm, Ground, TypeInv, TypeOK,
     Draining, At, Open
<1>2. CASE Unanswered(x)
  BY <1>1, <1>2, UnansweredFaces
<1>3. CASE Reply(x, "abort", Mail(x).a, 0, keys[x].key, keys[x], state[x])
  <2>1. PlainInv' /\ Writes(x) /\ Gathers(x) /\ keys'[x] = keys[x]
    BY <1>1, <1>3, ReplyFaces
  <2> QED
    BY <2>1 DEF Faces, Steers
<1>4. CASE Reply(x, "accept", Mail(x).a, minted + 1, keys[x].key,
                 Accepted(keys[x], Mail(x).a, minted + 1), "rekeying")
  <2> DEFINE new == Accepted(keys[x], Mail(x).a, minted + 1)
  <2>1. /\ new.key = keys[x].key /\ new.previous_key = keys[x].previous_key
        /\ new.new_key_confirmed = keys[x].new_key_confirmed
    BY <1>1 DEF Accepted, KeyState
  <2>2. Reply(x, "accept", Mail(x).a, minted + 1, keys[x].key, new, "rekeying")
    BY <1>4
  <2> HIDE DEF new
  <2>3. minted + 1 \in Nat
    BY <1>1
  <2>4. PlainInv' /\ Writes(x) /\ Gathers(x) /\ keys'[x] = new
    BY <1>1, <2>2, <2>3, ReplyFaces
  <2> QED
    BY <2>1, <2>4 DEF Faces, Steers
<1>5. \/ Unanswered(x)
      \/ Reply(x, "abort", Mail(x).a, 0, keys[x].key, keys[x], state[x])
      \/ Reply(x, "accept", Mail(x).a, minted + 1, keys[x].key,
               Accepted(keys[x], Mail(x).a, minted + 1), "rekeying")
  BY DEF DeliverRequestKey
<1> QED
  BY <1>2, <1>3, <1>4, <1>5

LEMMA AcceptFaces ==
  ASSUME Firm, NEW x \in Side, DeliverAcceptKey(x)
  PROVE  PlainInv' /\ Faces(x)
<1>1. /\ Draining(x) /\ Mail(x).a \in Nat /\ Mail(x).b \in Nat /\ keys[x].key \in Nat
      /\ keys[x] \in KeyState
  BY MailFacts, OpenFacts DEF DeliverAcceptKey, Wrapper, Firm, Ground, TypeInv, TypeOK,
     Draining, At
<1> DEFINE new == adopt_new_key(keys[x], Mail(x).b)
<1>2. new.previous_key = keys[x].key /\ new.new_key_confirmed = FALSE
  BY <1>1 DEF adopt_new_key, clear, KeyState
<1>3. \/ Unanswered(x)
      \/ Reply(x, "commit", Mail(x).a, Mail(x).b, keys[x].key, new, "ready")
  BY DEF DeliverAcceptKey
<1> HIDE DEF new
<1>4. CASE Unanswered(x)
  BY <1>1, <1>4, UnansweredFaces
<1>5. CASE Reply(x, "commit", Mail(x).a, Mail(x).b, keys[x].key, new, "ready")
  <2>1. PlainInv' /\ Writes(x) /\ Gathers(x) /\ keys'[x] = new
    BY <1>1, <1>5, ReplyFaces
  <2> QED
    BY <1>2, <2>1 DEF Faces, Steers
<1> QED
  BY <1>3, <1>4, <1>5

LEMMA CommitKeyFaces ==
  ASSUME Firm, NEW x \in Side, DeliverCommitKey(x)
  PROVE  PlainInv' /\ Faces(x)
<1>1. /\ Draining(x) /\ Mail(x).act = "commit" /\ pending_deliveries[x] # <<>>
      /\ TypeOK /\ keys[x] \in KeyState
  BY DEF DeliverCommitKey, Firm, Ground, TypeInv, TypeOK, Draining, At
<1>2. PICK n \in Nat : /\ n = MailNumber(x) + 1
                       /\ Com(Peer(x), n, Mail(x).a, Mail(x).b)
                       /\ Mail(x).a \in Nat /\ Mail(x).b \in Nat
  BY <1>1, HeadActs DEF Firm
<1>3. CASE Unanswered(x)
  BY <1>1, <1>3, UnansweredFaces
<1>4. CASE CloseChat(x, "commit") /\ UNCHANGED <<net, history>>
  BY <1>4, CloseFaces DEF history
<1>5. CASE /\ CommitMatches(keys[x], Mail(x)) /\ keys[x].pending_key = Mail(x).b
           /\ Reply(x, "noop", 0, 0, keys[x].pending_key, Committed(keys[x]), "ready")
  <2> DEFINE new == Committed(keys[x])
  <2> DEFINE b == keys[x].pending_key
  <2>1. b \in Nat /\ b # NoKey
    BY <1>2, <1>5 DEF CommitMatches
  <2>2. new.key = b /\ new.previous_key = keys[x].key
    <3> DEFINE k == adopt_new_key(keys[x], b)
    <3>1. k \in KeyState
      BY <1>1, <2>1, AdoptType
    <3>2. k.key = b /\ k.previous_key = keys[x].key
      BY <1>1 DEF adopt_new_key, clear, KeyState
    <3>3. new = [k EXCEPT !.new_key_confirmed = TRUE]
      BY <1>5 DEF Committed
    <3> HIDE DEF k, new
    <3> QED
      BY <3>1, <3>2, <3>3 DEF KeyState
  <2>3. Reply(x, "noop", 0, 0, b, new, "ready")
    BY <1>5
  <2> HIDE DEF new, b
  <2>4. PlainInv' /\ Writes(x) /\ Gathers(x) /\ keys'[x] = new /\ seq' = Counted(x)
    BY <1>1, <2>1, <2>2, <2>3, ReplyFaces
  <2>5. n <= seq'[x].in_seq_no
    <3>1. seq'[x].in_seq_no = seq[x].in_seq_no
      BY <1>1, <2>4, CountedHolds
    <3>2. Len(pending_deliveries[x]) \in Nat /\ Len(pending_deliveries[x]) >= 1
      <4> DEFINE box == pending_deliveries[x]
      <4>1. box \in Seq(Wrapper) /\ box # <<>>
        BY <1>1 DEF TypeOK
      <4> HIDE DEF box
      <4>2. Len(box) \in Nat /\ Len(box) >= 1
        BY <4>1
      <4> QED
        BY <4>2 DEF box
    <3>3. seq[x].in_seq_no \in Nat
      BY <1>1, CounterType
    <3> QED
      BY <1>2, <3>1, <3>2, <3>3 DEF MailNumber
  <2>6. Reached(x, n)'
    BY <2>5 DEF Reached
  <2>7. Com(Peer(x), n, Mail(x).a, keys[x].pending_key)
    BY <1>2, <1>5
  <2>8. Obeys(x)
    BY <1>2, <2>1, <2>2, <2>4, <2>6, <2>7 DEF Obeys, b
  <2> QED
    BY <2>4, <2>8 DEF Faces, Steers
<1> QED
  BY <1>3, <1>4, <1>5 DEF DeliverCommitKey

LEMMA PopFaces ==
  ASSUME Firm, NEW x \in Side, Pop(x)
  PROVE  PlainInv' /\ Faces(x)
<1>1. /\ TypeInv /\ TypeOK /\ PlainInv /\ todo[x] # <<>> /\ keys[x] \in KeyState
      /\ UNCHANGED <<sent, retained_out, net, queue_in, seq>>
  BY DEF Firm, Ground, TypeInv, TypeOK, Pop, At, history
<1>2. \E t \in {Tail(todo[x]), <<Do("drain")>> \o Tail(todo[x])} :
        todo' = [todo EXCEPT ![x] = t]
  BY DEF Pop
<1>3. PlainInv'
  BY <1>1, <1>2, PlainRest, OwnPlain
<1>4. keys'[x] = keys[x] \/ keys'[x] = clear(keys[x])
  BY <1>1 DEF Pop, TypeOK
<1>5. /\ clear(keys[x]).key = keys[x].key
      /\ clear(keys[x]).previous_key = keys[x].previous_key
      /\ clear(keys[x]).new_key_confirmed = keys[x].new_key_confirmed
  BY <1>1 DEF clear, KeyState
<1>6. Resends(x)
  BY <1>1 DEF Resends
<1>7. Faces(x)
  BY <1>1, <1>4, <1>5, <1>6, StillFaces
<1> QED
  BY <1>3, <1>7

LEMMA DrainFaces ==
  ASSUME Firm, NEW x \in Side, Drain(x)
  PROVE  PlainInv' /\ Faces(x)
<1>1. CASE DeliverPlain(x)
  BY <1>1, PassFaces DEF DeliverPlain, chatVars, storeVars
<1>2. CASE DeliverNotifyLayer(x)
  <2>1. \A q \in Side : /\ seq'[q].in_seq_no = seq[q].in_seq_no
                        /\ seq'[q].gap_requested = seq[q].gap_requested
    BY <1>2 DEF DeliverNotifyLayer, Firm, Ground, TypeInv, TypeOK, SeqState
  <2> QED
    BY <1>2, <2>1, PassFaces DEF DeliverNotifyLayer, storeVars
<1>3. ~ DeliverFlush(x)
  <2> SUFFICES ASSUME DeliverFlush(x) PROVE FALSE
    OBVIOUS
  <2>1. pending_deliveries[x] # <<>> /\ Mail(x).act = "flush" /\ Peer(x) \in Side
    BY Sides DEF DeliverFlush, Draining
  <2>2. PICK n \in DOMAIN sent[Peer(x)] : Faithful(Mail(x), sent[Peer(x)][n])
    BY <2>1, HeadSaid DEF Firm
  <2>3. sent[Peer(x)][n].act = "flush"
    BY <2>1, <2>2 DEF Faithful
  <2> QED
    BY <2>1, <2>3 DEF Firm, PlainInv, Plain
<1>4. CASE DeliverAbortKey(x)
  BY <1>4, UnansweredFaces DEF DeliverAbortKey
<1> QED
  BY <1>1, <1>2, <1>3, <1>4, RequestFaces, AcceptFaces, CommitKeyFaces, PopFaces DEF Drain

LEMMA RetryFaces ==
  ASSUME Firm, NEW x \in Side, RetryPending(x)
  PROVE  PlainInv' /\ Faces(x)
<1>1. /\ TypeInv /\ TypeOK /\ PlainInv /\ "rejected" \notin Outcomes
      /\ Peer(x) \in Side /\ Peer(x) # x
  BY Sides DEF Firm, Ground, TypeInv, NoWithdrawal
<1>2. PICK o \in [Pending(x) -> AnyOutcome], tried \in SUBSET Pending(x) :
        /\ net' = net \cup {FrameOf(x, r) : r \in {z \in tried : Arrives(o[z])}}
        /\ UNCHANGED sent
        /\ \/ /\ retained_out' = [retained_out EXCEPT ![x] =
                   (@ \ Pending(x)) \cup
                     {Transmitted(r, o[r], keys[x].key) : r \in Pending(x)}]
              /\ \E rest \in {Retried(x), <<>>} : todo' = [todo EXCEPT ![x] = rest]
              /\ UNCHANGED <<chatVars, queue_in>>
           \/ CloseChat(x, "rejected")
  BY DEF RetryPending, history
<1>3. Pending(x) \subseteq retained_out[x] /\ retained_out[x] \subseteq Item
  BY <1>1 DEF Pending, TypeOK
<1>4. \A f \in net' :
        \/ f \in net
        \/ f.to = Peer(x) /\ \E s \in retained_out[x] : s.w = f.w /\ s.key = f.key
  BY <1>2, <1>3 DEF FrameOf
<1>5. CASE CloseChat(x, "rejected")
  BY <1>2, <1>4, <1>5, CloseFaces
<1>6. CASE /\ retained_out' = [retained_out EXCEPT ![x] =
                 (@ \ Pending(x)) \cup
                   {Transmitted(r, o[r], keys[x].key) : r \in Pending(x)}]
           /\ \E rest \in {Retried(x), <<>>} : todo' = [todo EXCEPT ![x] = rest]
           /\ UNCHANGED <<chatVars, queue_in>>
  <2>1. ASSUME NEW r \in Pending(x)
        PROVE  /\ Transmitted(r, o[r], keys[x].key).w = r.w
               /\ Transmitted(r, o[r], keys[x].key).key = r.key
    <3>1. r \in Item /\ o[r] # "rejected"
      BY <1>1, <1>3 DEF AnyOutcome
    <3> QED
      BY <3>1 DEF Transmitted, Item
  <2>2. /\ retained_out'[Peer(x)] = retained_out[Peer(x)]
        /\ \A r \in retained_out'[x] :
             \/ r \in retained_out[x]
             \/ \E s \in Pending(x) : r = Transmitted(s, o[s], keys[x].key)
    BY <1>1, <1>6 DEF TypeOK
  <2>3. \A r \in retained_out'[x] : \E s \in retained_out[x] : s.w = r.w /\ s.key = r.key
    BY <1>3, <2>1, <2>2
  <2>4. Resends(x)
    BY <1>4, <2>2, <2>3 DEF Resends
  <2>5. Faces(x)
    BY <1>6, <2>4, StillFaces DEF chatVars
  <2>6. PlainInv'
    <3>1. Retried(x) = todo[x] \/ Retried(x) \in Seq(OtherStep)
      BY <1>1, PlainRest DEF Retried, At
    <3>2. <<>> \in Seq(OtherStep)
      OBVIOUS
    <3> QED
      BY <1>1, <1>2, <1>6, <3>1, <3>2, OwnPlain
  <2> QED
    BY <2>5, <2>6
<1> QED
  BY <1>2, <1>5, <1>6

LEMMA WorkFaces ==
  ASSUME Firm, NEW x \in Side, Work(x)
  PROVE  PlainInv' /\ Faces(x)
<1>1. TypeInv /\ TypeOK /\ PlainInv
  BY DEF Firm, Ground, TypeInv
<1>2. ASSUME UNCHANGED <<retained_out, net, keys, queue_in, sent>>, todo[x] # <<>>,
             todo' = [todo EXCEPT ![x] = Tail(@)],
             \A q \in Side : /\ seq'[q].in_seq_no = seq[q].in_seq_no
                             /\ seq'[q].gap_requested = seq[q].gap_requested
      PROVE  PlainInv' /\ Faces(x)
  <2>1. PlainInv'
    BY <1>1, <1>2, PlainRest, OwnPlain
  <2>2. Faces(x)
    BY <1>2, StillFaces DEF Resends
  <2> QED
    BY <2>1, <2>2
<1>3. ASSUME Open(x), todo[x] # <<>>, NEW act \in {"noop", "resend"},
             NEW a \in Nat, NEW b \in Nat, NEW o \in AnyOutcome,
             Commit(x, act, a, b, keys[x].key, keys[x], state[x], o),
             GoOn(x, o, Tail(todo[x])),
             \A q \in Side : /\ seq'[q].in_seq_no = seq[q].in_seq_no
                             /\ seq'[q].gap_requested = seq[q].gap_requested
      PROVE  PlainInv' /\ Faces(x)
  <2>1. act \in Acts /\ act # "flush" /\ state[x] # "closed"
    BY <1>3 DEF Acts, Open
  <2>2. PICK u \in {Tail(todo[x]), <<>>} : todo' = [todo EXCEPT ![x] = u]
    BY <1>3 DEF GoOn
  <2>3. u \in Seq(OtherStep)
    <3>1. Tail(todo[x]) \in Seq(OtherStep) /\ <<>> \in Seq(OtherStep)
      BY <1>1, <1>3, PlainRest
    <3> QED
      BY <2>2, <3>1
  <2> QED
    BY <1>3, <2>1, <2>2, <2>3, SentFaces
<1>4. CASE RetryNothing(x)
  BY <1>2, <1>4 DEF RetryNothing, At, chatVars, storeVars, history
<1>5. CASE ConfirmSwitch(x)
  <2>1. /\ Open(x) /\ todo[x] # <<>> /\ seq' = Counted(x)
        /\ \E o \in AnyOutcome :
             /\ Commit(x, "noop", 0, 0, keys[x].key, keys[x], state[x], o)
             /\ GoOn(x, o, Tail(todo[x]))
    BY <1>5 DEF ConfirmSwitch, At
  <2>2. \A q \in Side : /\ seq'[q].in_seq_no = seq[q].in_seq_no
                        /\ seq'[q].gap_requested = seq[q].gap_requested
    BY <1>1, <2>1, CountedHolds
  <2> QED
    BY <1>3, <2>1, <2>2
<1>6. CASE Ask(x)
  <2>1. Open(x) /\ todo[x] # <<>> /\ seq[x] \in SeqState
    BY <1>1, <1>6 DEF Ask, At, TypeOK
  <2>2. CASE /\ seq' = [seq EXCEPT ![x].resend_due = NoSpan]
             /\ todo' = [todo EXCEPT ![x] = Tail(@)]
             /\ UNCHANGED <<keys, storeVars, net, history>>
    <3>1. \A q \in Side : /\ seq'[q].in_seq_no = seq[q].in_seq_no
                          /\ seq'[q].gap_requested = seq[q].gap_requested
      BY <1>1, <2>2 DEF TypeOK, SeqState
    <3> QED
      BY <1>2, <2>1, <2>2, <3>1 DEF storeVars, history
  <2>3. CASE /\ seq[x].resend_due # NoSpan
             /\ seq' = [Counted(x) EXCEPT ![x].resend_due = NoSpan]
             /\ \E o \in AnyOutcome :
                  /\ Commit(x, "resend", MissingFrom(seq[x]), seq[x].resend_due.end,
                            keys[x].key, keys[x], state[x], o)
                  /\ GoOn(x, o, Tail(todo[x]))
    <3>1. \A q \in Side : /\ seq'[q].in_seq_no = seq[q].in_seq_no
                          /\ seq'[q].gap_requested = seq[q].gap_requested
      BY <1>1, <2>3 DEF TypeOK, SeqState, Counted
    <3>2. MissingFrom(seq[x]) \in Nat /\ seq[x].resend_due.end \in Nat
      BY <2>1, <2>3, DueNumbers DEF Firm, Ground
    <3> QED
      BY <1>3, <2>1, <2>3, <3>1, <3>2
  <2> QED
    BY <1>6, <2>2, <2>3 DEF Ask
<1> QED
  BY <1>4, <1>5, <1>6, RetryFaces DEF Work

LEMMA LifecycleFaces ==
  ASSUME Firm, NEW x \in Side, Lifecycle(x)
  PROVE  PlainInv' /\ Faces(x)
<1>1. TypeInv /\ TypeOK /\ PlainInv
  BY DEF Firm, Ground, TypeInv
<1>2. UNCHANGED <<seq, keys, retained_out, queue_in, net, sent>>
  BY DEF Lifecycle, Crash, Start, ResumeDelivery, ResumeWork, chatVars, storeVars, history
<1>3. Faces(x)
  BY <1>2, StillFaces DEF Resends
<1>4. \E t : /\ t = todo[x] \/ t \in Seq(OtherStep)
             /\ todo' = [todo EXCEPT ![x] = t]
  <2>1. CASE Crash(x)
    <3>1. <<>> \in Seq(OtherStep)
      OBVIOUS
    <3> QED
      BY <2>1, <3>1 DEF Crash
  <2>2. CASE Start(x)
    <3>1. todo' = [todo EXCEPT ![x] = todo[x]]
      BY <1>1, <2>2 DEF Start, TypeOK
    <3> QED
      BY <3>1
  <2>3. CASE ResumeDelivery(x)
    BY <2>3, PlanOthers DEF ResumeDelivery
  <2>4. CASE ResumeWork(x)
    BY <2>4, PlanOthers DEF ResumeWork
  <2> QED
    BY <2>1, <2>2, <2>3, <2>4 DEF Lifecycle
<1>5. PlainInv'
  BY <1>1, <1>2, <1>4, OwnPlain
<1> QED
  BY <1>3, <1>5

----------------------------------------------------------------------------
(* Together *)

LEMMA ReadInit == Init => ReadInv /\ PlainInv
<1> SUFFICES ASSUME Init, NEW p \in Side PROVE ReadWell(p) /\ Plain(p)
  BY DEF ReadInv, PlainInv
<1>1. /\ keys[p] = InitialKeys /\ sent[p] = <<>> /\ retained_out[p] = {} /\ net = {}
      /\ queue_in[p] = {} /\ todo[p] = <<>>
      /\ Peer(p) \in Side /\ retained_out[Peer(p)] = {}
  BY Sides DEF Init
<1>2. \A n, k \in Nat : ~ Under(p, n, k) /\ ~ Under(Peer(p), n, k)
  BY <1>1 DEF Under
<1>3. \A i, e, b \in Nat : ~ Com(p, i, e, b)
  BY <1>1 DEF Com
<1>4. /\ keys[p].pending_key = NoKey /\ keys[p].previous_key = NoKey
      /\ keys[p].rekey_role = "none"
  BY <1>1 DEF InitialKeys
<1>5. ReadWell(p)
  BY <1>1, <1>2, <1>3, <1>4 DEF ReadWell, CanRead, KeysInOrder, KeyTop, AfterCommit,
     AnswerNew, KeysRise, UseFollows, OldKeyDone, GapKnown
<1>6. Plain(p)
  BY <1>1 DEF Plain
<1> QED
  BY <1>5, <1>6

LEMMA ReadNext ==
  ASSUME Firm, ReadInv, TypeInv', [Next]_vars
  PROVE  ReadInv' /\ PlainInv'
<1>1. Ground
  BY DEF Firm
<1>2. PICK x \in Side : Move(x) /\ Faces(x) /\ PlainInv'
  <2>1. CASE UNCHANGED vars
    <3>1. PICK x \in Side : x = "alice"
      BY DEF Side
    <3>2. UNCHANGED <<seq, keys, retained_out, queue_in, net, sent, todo>>
      BY <2>1 DEF vars, chatVars, storeVars, runVars, history
    <3>3. Faces(x) /\ PlainInv'
      BY <3>2, StillFaces DEF Resends, Firm, PlainInv, Plain
    <3> QED
      BY <1>1, <2>1, <3>3, StutterMove
  <2>2. CASE Next
    <3>1. PICK x \in Side :
            Application(x) \/ Receive(x) \/ Drain(x) \/ Work(x) \/ Lifecycle(x)
      BY <2>2 DEF Next
    <3>2. Move(x)
      BY <1>1, <3>1, ApplicationMoves, ReceiveMoves, DrainMoves, WorkMoves, LifecycleMoves
    <3>3. Faces(x) /\ PlainInv'
      BY <3>1, ApplicationFaces, ReceiveFaces, DrainFaces, WorkFaces, LifecycleFaces
    <3> QED
      BY <3>2, <3>3
  <2> QED
    BY <2>1, <2>2
<1>3. Before(x)
  BY <1>1, <1>2, MoveBefore
<1>4. KeyInv'
  BY <1>1, KeyNext
<1>5. Acted(x)
  BY <1>1, <1>2, <1>3, <1>4 DEF Acted, Faces, Ground
<1> QED
  BY <1>2, <1>5, ActedKeeps

\* An open side can read whatever it still needs, on the server or in its peer's
\* outbox, however many exchanges have passed: a previous key is let go only when
\* everything under it has been taken (the two-key window of rekey.py). With
\* withdrawals this is false: outbox.py encrypts a withdrawn record anew, in its
\* old slot, under the present key.
THEOREM AllReadableUnlessWithdrawn ==
  ASSUME NoWithdrawal
  PROVE  Spec => []FramesReadable
<1>1. TypeInv /\ TypeInv' /\ NumberInv /\ InOrder /\ MailboxFaithful /\ ExchangeMatchesState
        /\ KeyInv /\ ReadInv /\ PlainInv /\ [Next]_vars => ReadInv' /\ PlainInv'
  BY ReadNext DEF Firm, Ground
<1>2. TypeInv /\ ReadInv => FramesReadable
  BY AllReadable
<1>3. Spec => []InOrder
  BY OrderInit, OrderNext, TypeInit, TypeNext, PTL DEF Spec
<1>4. Spec => []TypeInv /\ []NumberInv
  BY TypeInit, TypeNext, NumberInit, NumberNext, PTL DEF Spec
<1> QED
  BY <1>1, <1>2, <1>3, <1>4, ReadInit, KeysWell, MailboxIsFaithful, ExchangeConsistent,
     PTL DEF Spec

----------------------------------------------------------------------------
(* The dialogue: every step of a side is one of the steps of Dialogue, or   *)
(* leaves said, heard, given and ended alone.                               *)

\* The first of these steps is not a pop: nothing is being given.
NoPop(steps) == steps = <<>> \/ Head(steps).do # "pop"

LEMMA RestNoPop == ASSUME NEW steps \in Seq(RestStep) PROVE NoPop(steps)
<1>1. \A r \in RestStep : r.do # "pop"
  BY DEF RestStep
<1>2. steps # <<>> => Head(steps) \in RestStep
  OBVIOUS
<1> QED
  BY <1>1, <1>2 DEF NoPop

LEMMA NothingGiven ==
  /\ \A q \in Side : NoPop(todo[q]) \/ ~ Open(q) => BeingGiven(q) = {}
  /\ \A q \in Side : (NoPop(todo[q]) \/ ~ Open(q))' => BeingGiven(q)' = {}
BY DEF NoPop, BeingGiven

LEMMA OthersGiven ==
  ASSUME NEW q \in Side, state'[q] = state[q], todo'[q] = todo[q],
         pending_deliveries'[q] = pending_deliveries[q]
  PROVE  BeingGiven(q)' = BeingGiven(q)
BY DEF BeingGiven, Open, Mail

LEMMA ActingNoPop ==
  ASSUME NEW p \in Side,
         \/ Idle(p) \/ Retrying(p) \/ Draining(p)
         \/ \E s \in Steps \ {"pop"} : At(p, s)
  PROVE  Open(p) /\ NoPop(todo[p])
BY DEF Idle, Retrying, Draining, At, NoPop, Steps

\* A step that says nothing and hands nothing over.
LEMMA SilentTalk ==
  ASSUME UNCHANGED <<sent, handed>>,
         \A q \in Side : (Open(q)' <=> Open(q)) /\ BeingGiven(q)' = BeingGiven(q)
  PROVE  UNCHANGED Talk!talk
<1>1. {q \in Side : ~ Open(q)}' = {q \in Side : ~ Open(q)}
  OBVIOUS
<1>2. [q \in Side |-> BeingGiven(q)]' = [q \in Side |-> BeingGiven(q)]
  OBVIOUS
<1> QED
  BY <1>1, <1>2 DEF Talk!talk

\* The same when only p's operation moves on.
LEMMA SilentStep ==
  ASSUME TypeOK, NEW p \in Side, UNCHANGED <<sent, handed>>,
         NoPop(todo[p]), NoPop(todo'[p]),
         Open(p)' <=> Open(p),
         \A q \in Side : q # p =>
           /\ state'[q] = state[q] /\ todo'[q] = todo[q]
           /\ pending_deliveries'[q] = pending_deliveries[q]
  PROVE  UNCHANGED Talk!talk
<1>1. \A q \in Side : BeingGiven(q)' = BeingGiven(q)
  BY NothingGiven, OthersGiven
<1>2. \A q \in Side : Open(q)' <=> Open(q)
  BY DEF Open
<1> QED
  BY <1>1, <1>2, SilentTalk

LEMMA EndTalk ==
  ASSUME TypeOK, NEW p \in Side, Open(p), NEW reason, CloseChat(p, reason),
         UNCHANGED history
  PROVE  Talk!Next
<1>1. /\ state' = [state EXCEPT ![p] = "closed"] /\ todo' = [todo EXCEPT ![p] = <<>>]
      /\ pending_deliveries' = [pending_deliveries EXCEPT ![p] = <<>>]
      /\ UNCHANGED <<sent, handed>>
  BY DEF CloseChat, history
<1>2. /\ state'[p] = "closed"
      /\ \A q \in Side : q # p =>
           /\ state'[q] = state[q] /\ todo'[q] = todo[q]
           /\ pending_deliveries'[q] = pending_deliveries[q]
  BY <1>1 DEF TypeOK
<1>3. {q \in Side : ~ Open(q)}' = {q \in Side : ~ Open(q)} \cup {p}
  BY <1>2 DEF Open
<1>4. [q \in Side |-> BeingGiven(q)]' = [[q \in Side |-> BeingGiven(q)] EXCEPT ![p] = {}]
  <2>1. BeingGiven(p)' = {}
    BY <1>2, NothingGiven DEF Open
  <2> QED
    BY <1>2, <2>1, OthersGiven
<1>5. Talk!End(p)
  BY <1>1, <1>3, <1>4 DEF Talk!End
<1> QED
  BY <1>5 DEF Talk!Next

LEMMA SentGrows ==
  ASSUME TypeOK, NEW p \in Side, NEW act, NEW a, NEW b, NEW key, NEW new, NEW st, NEW o,
         Commit(p, act, a, b, key, new, st, o)
  PROVE  Talk!Grows(p)
<1> DEFINE m == [act |-> act, a |-> a, b |-> b]
<1> DEFINE s == sent[p]
<1> DEFINE M == [act : Acts, a : Nat, b : Nat] \cup {m}
<1>1. sent' = [sent EXCEPT ![p] = Append(s, m)]
  BY DEF Commit
<1>2. s \in Seq(M) /\ m \in M
  <2>1. s \in Seq([act : Acts, a : Nat, b : Nat])
    BY DEF TypeOK
  <2> HIDE DEF m
  <2> QED BY <2>1, SeqWider
<1>3. Len(Append(s, m)) = Len(s) + 1 /\ Append(s, m)[Len(s) + 1] = m
  <2> HIDE DEF s, m, M
  <2> QED BY <1>2
<1>4. sent'[p] = Append(s, m)
  BY <1>1 DEF TypeOK
<1> HIDE DEF m, M
<1> QED
  BY <1>1, <1>3, <1>4 DEF Talk!Grows

\* A message of p's own, after which its operation goes on with `rest`.
LEMMA SayTalk ==
  ASSUME TypeInv, NEW p \in Side, Open(p), NoPop(todo[p]),
         NEW act, NEW a, NEW b, NEW key, NEW new, NEW st, NEW o, NEW rest,
         Commit(p, act, a, b, key, new, st, o), st # "closed",
         todo' = [todo EXCEPT ![p] = rest], NoPop(rest), UNCHANGED handed
  PROVE  Talk!Next
<1>1. /\ TypeOK /\ UNCHANGED pending_deliveries
      /\ \A q \in Side : q # p => state'[q] = state[q] /\ todo'[q] = todo[q]
      /\ todo'[p] = rest
  BY CommitFacts DEF TypeInv, TypeOK
<1>2. state'[p] = st
  BY <1>1 DEF Commit, TypeOK
<1>3. {q \in Side : ~ Open(q)}' = {q \in Side : ~ Open(q)}
  BY <1>1, <1>2 DEF Open
<1>4. [q \in Side |-> BeingGiven(q)]' = [q \in Side |-> BeingGiven(q)]
  BY <1>1, NothingGiven, OthersGiven
<1>5. Talk!Grows(p)
  BY <1>1, SentGrows
<1>6. Talk!Say(p)
  BY <1>3, <1>4, <1>5 DEF Talk!Say
<1> QED
  BY <1>6 DEF Talk!Next

\* The head of the mailbox is handed over.
LEMMA HandOverMeets ==
  ASSUME Ground, NEW p \in Side, Draining(p), HandOver(p), UNCHANGED pending_deliveries,
         Open(p)', \A q \in Side : q # p => state'[q] = state[q]
  PROVE  Talk!Meets(p)
<1>1. TypeOK /\ Open(p) /\ pending_deliveries[p] # <<>>
  BY DEF Ground, TypeInv, Draining, At
<1>2. PICK n \in Nat : /\ n = MailNumber(p) + 1 /\ n \in DOMAIN sent[Peer(p)]
                       /\ n <= Len(sent[Peer(p)]) /\ Faithful(Mail(p), sent[Peer(p)][n])
  BY <1>1, HeadSaid
<1>3. /\ MailNumber(p) \in Nat /\ handed[p] \in {MailNumber(p), MailNumber(p) + 1}
      /\ Len(sent[Peer(p)]) \in Nat
  BY <1>1, PassedFacts DEF Ground, InOrder, AtLeastOnceInOrder
<1>4. n \in {handed[p], handed[p] + 1} \cap (1 .. Len(sent[Peer(p)]))
  BY <1>2, <1>3
<1>5. RawOut(Mail(p)) = n - 1
  <2> DEFINE box == pending_deliveries[p]
  <2>1. box \in Seq(Wrapper)
    BY <1>1 DEF TypeOK
  <2>2. 1 \in DOMAIN box /\ Head(box) = box[1]
    <3>1. box # <<>>
      BY <1>1
    <3> HIDE DEF box
    <3> QED BY <2>1, <3>1
  <2>3. RawOut(box[1]) = MailNumber(p) + 1 - 1
    BY <2>2 DEF Ground, MailboxFaithful
  <2> QED
    BY <1>2, <1>3, <2>2, <2>3 DEF Mail
<1>6. handed' = [handed EXCEPT ![p] = n]
  BY <1>2 DEF HandOver
<1>7. BeingGiven(p)' = {Mail(p)}
  <2>1. todo'[p] = <<Do("pop")>> \o Tail(todo[p])
    BY <1>1 DEF HandOver, TypeOK
  <2>2. Tail(todo[p]) \in Seq(Step) /\ Do("pop") \in Step
    <3>1. todo[p] \in Seq(Step) /\ todo[p] # <<>>
      BY <1>1 DEF TypeOK, Draining, At
    <3>2. Tail(todo[p]) \in Seq(Step)
      BY <3>1
    <3> QED
      BY <3>2 DEF Do, Step, Steps
  <2>3. \A t \in Seq(Step), x \in Step : <<x>> \o t # <<>> /\ Head(<<x>> \o t) = x
    OBVIOUS
  <2>4. todo'[p] # <<>> /\ Head(todo'[p]).do = "pop"
    BY <2>1, <2>2, <2>3 DEF Do
  <2>5. Mail(p)' = Mail(p)
    BY DEF Mail
  <2> QED
    BY <2>4, <2>5 DEF BeingGiven
<1>8. [q \in Side |-> BeingGiven(q)]' = [[q \in Side |-> BeingGiven(q)] EXCEPT ![p] = {Mail(p)}]
  <2>1. \A q \in Side : q # p => todo'[q] = todo[q]
    BY <1>1 DEF HandOver, TypeOK
  <2> QED
    BY <1>7, <2>1, OthersGiven
<1>9. Reads(Mail(p), sent[Peer(p)][n], n)
  BY <1>2, <1>5 DEF Reads
<1>10. Mail(p) \in [q \in Side |-> BeingGiven(q)]'[p]
  BY <1>7
<1> QED
  BY <1>4, <1>6, <1>8, <1>9, <1>10 DEF Talk!Meets

\* Nothing is said in return.
LEMMA HearTalk ==
  ASSUME Ground, NEW p \in Side, Draining(p), HandOver(p),
         UNCHANGED <<state, pending_deliveries, sent>>
  PROVE  Talk!Next
<1>1. /\ Open(p) /\ \A q \in Side : state'[q] = state[q]
      /\ \A q \in Side : Open(q)' <=> Open(q)
  BY DEF Draining, At, Open
<1>2. Talk!Meets(p)
  BY <1>1, HandOverMeets
<1>3. {q \in Side : ~ Open(q)}' = {q \in Side : ~ Open(q)}
  BY <1>1
<1>4. Talk!Hear(p)
  BY <1>2, <1>3 DEF Talk!Hear
<1> QED
  BY <1>1, <1>4 DEF Talk!Next

LEMMA ReplyTalk ==
  ASSUME Ground, NEW p \in Side, Draining(p), NEW act, NEW a, NEW b,
         NEW key, NEW new, NEW st, st # "closed", Reply(p, act, a, b, key, new, st)
  PROVE  Talk!Next
<1>0. TypeInv /\ TypeOK /\ Open(p) /\ NoPop(todo[p])
  BY ActingNoPop DEF Ground, TypeInv
<1>1. PICK o : /\ Commit(p, act, a, b, key, new, st, o)
               /\ \/ HandOver(p)
                  \/ todo' = [todo EXCEPT ![p] = <<>>] /\ UNCHANGED handed
  BY DEF Reply
<1>2. CASE HandOver(p)
  <2>1. UNCHANGED pending_deliveries /\ \A q \in Side : q # p => state'[q] = state[q]
    BY <1>0, <1>1, CommitFacts
  <2>2. state'[p] = st
    BY <1>0, <1>1 DEF Commit, TypeOK
  <2>3. Open(p)' /\ {q \in Side : ~ Open(q)}' = {q \in Side : ~ Open(q)}
    BY <1>0, <2>1, <2>2 DEF Open
  <2>4. Talk!Meets(p) /\ Talk!Grows(p)
    BY <1>0, <1>1, <1>2, <2>1, <2>3, HandOverMeets, SentGrows
  <2>5. Talk!Answer(p)
    BY <2>3, <2>4 DEF Talk!Answer
  <2> QED
    BY <1>0, <2>5 DEF Talk!Next
<1>3. CASE todo' = [todo EXCEPT ![p] = <<>>] /\ UNCHANGED handed
  BY <1>0, <1>1, <1>3, SayTalk DEF NoPop
<1> QED
  BY <1>1, <1>2, <1>3
LEMMA ApplicationTalk ==
  ASSUME Ground, NEW p \in Side, Application(p)
  PROVE  Talk!Next \/ UNCHANGED Talk!talk
<1>0. TypeInv /\ TypeOK /\ todo = [todo EXCEPT ![p] = todo[p]]
  BY DEF Ground, TypeInv, TypeOK
<1>1. state[p] # "closed" => \A rest : NoPop(rest) =>
        \A act, a, b, key, new, o :
          /\ Commit(p, act, a, b, key, new, state[p], o) /\ NoPop(todo[p])
          /\ todo' = [todo EXCEPT ![p] = rest] /\ UNCHANGED handed
          => Talk!Next
  BY <1>0, SayTalk DEF Open
<1>2. CASE SendMessage(p) \/ NotifyLayer(p)
  <2>1. Open(p) /\ NoPop(todo[p]) /\ UNCHANGED <<todo, handed>>
    BY <1>2, ActingNoPop DEF SendMessage, NotifyLayer
  <2>2. \E act, a, b, key, new, o : Commit(p, act, a, b, key, new, state[p], o)
    BY <1>2 DEF SendMessage, NotifyLayer
  <2> QED
    BY <1>0, <1>1, <2>1, <2>2 DEF Open
<1>3. CASE StartRekey(p)
  <2>1. Open(p) /\ NoPop(todo[p]) /\ UNCHANGED handed
    BY <1>3, ActingNoPop DEF StartRekey, Steps
  <2>2. PICK e, o : /\ Commit(p, "request", e, 0, keys[p].key,
                              Requested(keys[p], e), "rekeying", o)
                    /\ GoOn(p, o, todo[p])
    BY <1>3 DEF StartRekey
  <2>3. PICK rest : NoPop(rest) /\ todo' = [todo EXCEPT ![p] = rest]
    BY <2>1, <2>2 DEF GoOn, NoPop
  <2> QED
    BY <1>0, <2>1, <2>2, <2>3, SayTalk
<1>4. CASE BeginDelete(p) \/ BeginFlush(p)
  <2>1. /\ Open(p) /\ NoPop(todo[p])
        /\ UNCHANGED <<sent, handed, state, pending_deliveries>>
    BY <1>4, ActingNoPop DEF BeginDelete, BeginFlush, history, chatVars
  <2>2. PICK step : todo' = [todo EXCEPT ![p] = <<step>>] /\ step.do # "pop"
    <3>1. CASE BeginDelete(p)
      <4>1. PICK n : todo' = [todo EXCEPT ![p] = <<[do |-> "delete", arg |-> n]>>]
        BY <3>1 DEF BeginDelete
      <4>2. [do |-> "delete", arg |-> n].do # "pop"
        OBVIOUS
      <4> QED
        BY <4>1, <4>2
    <3>2. CASE BeginFlush(p)
      <4>1. todo' = [todo EXCEPT ![p] = <<Do("flush")>>]
        BY <3>2 DEF BeginFlush
      <4>2. Do("flush").do # "pop"
        BY DEF Do
      <4> QED
        BY <4>1, <4>2
    <3> QED
      BY <1>4, <3>1, <3>2
  <2>3. NoPop(todo'[p]) /\ \A q \in Side : q # p => todo'[q] = todo[q]
    BY <1>0, <2>2 DEF NoPop, TypeOK
  <2> QED
    BY <1>0, <2>1, <2>3, SilentStep DEF Open
<1>5. CASE SendDelete(p)
  <2>1. Open(p) /\ NoPop(todo[p]) /\ UNCHANGED handed /\ todo[p] # <<>>
    BY <1>5, ActingNoPop DEF SendDelete, Steps, At
  <2>2. PICK act, a, o : /\ Commit(p, act, a, 0, keys[p].key, keys[p], state[p], o)
                         /\ GoOn(p, o, Tail(todo[p]))
    BY <1>5 DEF SendDelete
  <2>3. NoPop(Tail(todo[p]))
    BY <1>5, RestOf, RestNoPop DEF SendDelete, Ground
  <2>4. PICK rest : NoPop(rest) /\ todo' = [todo EXCEPT ![p] = rest]
    BY <2>2, <2>3 DEF GoOn, NoPop
  <2> QED
    BY <1>1, <2>1, <2>2, <2>4 DEF Open
<1>6. CASE Close(p)
  BY <1>0, <1>6, ActingNoPop, EndTalk DEF Close
<1> QED
  BY <1>2, <1>3, <1>4, <1>5, <1>6 DEF Application

LEMMA ReceiveTalk ==
  ASSUME Ground, NEW p \in Side, Receive(p)
  PROVE  Talk!Next \/ UNCHANGED Talk!talk
<1>0. TypeInv /\ TypeOK
  BY DEF Ground, TypeInv
<1>1. ASSUME NEW f \in net, ReceiveNext(p, f) \/ ReceiveEarly(p, f)
      PROVE  UNCHANGED Talk!talk
  <2>1. PICK c, ready : Receipt(p, f, c, ready)
    BY <1>0, <1>1, ReceiptOf
  <2>2. PICK mail, answer, due, switched :
          /\ pending_deliveries' = [pending_deliveries EXCEPT ![p] = mail]
          /\ todo' = [todo EXCEPT ![p] = Plan(mail, answer, due, switched)]
          /\ state' = [state EXCEPT ![p] = "ready"] \/ UNCHANGED state
          /\ UNCHANGED <<sent, handed>>
    BY <2>1 DEF Receipt, history
  <2>3. Open(p) /\ NoPop(todo[p])
    BY <1>1, ActingNoPop DEF ReceiveNext, ReceiveEarly
  <2>4. NoPop(todo'[p])
    BY <1>0, <2>2, PlanRest, RestNoPop DEF TypeOK
  <2>5. /\ Open(p)' <=> Open(p)
        /\ \A q \in Side : q # p =>
             /\ state'[q] = state[q] /\ todo'[q] = todo[q]
             /\ pending_deliveries'[q] = pending_deliveries[q]
    BY <1>0, <2>2, <2>3 DEF Open, TypeOK
  <2> QED
    BY <1>0, <2>2, <2>3, <2>4, <2>5, SilentStep
<1>2. ASSUME NEW f \in net, ReceiveRefused(p, f) PROVE Talk!Next
  BY <1>0, <1>2, ActingNoPop, EndTalk DEF ReceiveRefused
<1>3. ASSUME NEW f \in net, ReceiveIgnored(p, f) PROVE UNCHANGED Talk!talk
  <2>1. UNCHANGED <<sent, handed, state, todo, pending_deliveries>>
    BY <1>3 DEF ReceiveIgnored, vars, chatVars, storeVars, runVars, history
  <2> QED
    BY <2>1, SilentTalk, OthersGiven DEF Open
<1>4. CASE Discarded(p)
  BY <1>0, <1>4, ActingNoPop, EndTalk DEF Discarded
<1> QED
  BY <1>1, <1>2, <1>3, <1>4 DEF Receive

\* The pop that ends a delivery.
LEMMA PopTalk ==
  ASSUME Ground, NEW p \in Side, Pop(p)
  PROVE  Talk!Next
<1>0. TypeInv /\ TypeOK /\ InOrder
  BY DEF Ground, TypeInv
<1>1. /\ At(p, "pop") /\ UNCHANGED <<sent, handed>>
      /\ \A q \in Side : q # p =>
           /\ state'[q] = state[q] /\ todo'[q] = todo[q]
           /\ pending_deliveries'[q] = pending_deliveries[q]
      /\ state'[p] = state[p] \/ state'[p] = "ready"
      /\ todo'[p] \in {Tail(todo[p]), <<Do("drain")>> \o Tail(todo[p])}
  BY <1>0 DEF Pop, history, TypeOK
<1>2. Open(p) /\ Tail(todo[p]) \in Seq(RestStep)
  BY <1>0, <1>1, RestOf
<1>3. todo'[p] \in Seq(RestStep)
  <2>1. <<Do("drain")>> \in Seq(RestStep)
    BY DEF Do, RestStep, Steps
  <2>2. \A s, t \in Seq(RestStep) : s \o t \in Seq(RestStep)
    OBVIOUS
  <2> QED
    BY <1>1, <1>2, <2>1, <2>2
<1>4. BeingGiven(p)' = {}
  BY <1>3, RestNoPop, NothingGiven
<1>5. [q \in Side |-> BeingGiven(q)]' = [[q \in Side |-> BeingGiven(q)] EXCEPT ![p] = {}]
  BY <1>1, <1>4, OthersGiven
<1>6. {q \in Side : ~ Open(q)}' = {q \in Side : ~ Open(q)}
  BY <1>1, <1>2 DEF Open
<1>7. Talk!Leave(p)
  BY <1>1, <1>5, <1>6 DEF Talk!Leave
<1> QED
  BY <1>2, <1>7 DEF Talk!Next

LEMMA DrainTalk ==
  ASSUME Ground, NEW p \in Side, Drain(p)
  PROVE  Talk!Next
<1>0. TypeInv /\ TypeOK
  BY DEF Ground, TypeInv
<1>1. CASE DeliverPlain(p) \/ DeliverNotifyLayer(p) \/ DeliverFlush(p)
  BY <1>1, HearTalk DEF DeliverPlain, DeliverNotifyLayer, DeliverFlush, chatVars, storeVars,
     history
<1>2. ASSUME Draining(p), Unanswered(p) PROVE Talk!Next
  BY <1>2, HearTalk DEF Unanswered, chatVars, storeVars
<1>3. Draining(p) => Open(p) /\ state[p] # "closed"
  BY DEF Draining, At, Open
<1>4. CASE DeliverRequestKey(p)
  <2>1. Draining(p)
    BY <1>4 DEF DeliverRequestKey
  <2>2. \/ Unanswered(p)
        \/ \E act, a, b, key, new, st : st # "closed" /\ Reply(p, act, a, b, key, new, st)
    BY <1>3, <1>4, <2>1 DEF DeliverRequestKey
  <2> QED
    BY <1>2, <2>1, <2>2, ReplyTalk
<1>5. CASE DeliverAcceptKey(p)
  <2>1. Draining(p)
    BY <1>5 DEF DeliverAcceptKey
  <2>2. \/ Unanswered(p)
        \/ \E act, a, b, key, new, st : st # "closed" /\ Reply(p, act, a, b, key, new, st)
    BY <1>3, <1>5, <2>1 DEF DeliverAcceptKey
  <2> QED
    BY <1>2, <2>1, <2>2, ReplyTalk
<1>6. CASE DeliverCommitKey(p)
  <2>1. Draining(p)
    BY <1>6 DEF DeliverCommitKey
  <2>2. \/ Unanswered(p)
        \/ \E act, a, b, key, new, st : st # "closed" /\ Reply(p, act, a, b, key, new, st)
        \/ CloseChat(p, "commit") /\ UNCHANGED history
    BY <1>3, <1>6, <2>1 DEF DeliverCommitKey
  <2> QED
    BY <1>0, <1>2, <1>3, <2>1, <2>2, ReplyTalk, EndTalk
<1>7. CASE DeliverAbortKey(p)
  BY <1>2, <1>7 DEF DeliverAbortKey
<1>8. CASE Pop(p)
  BY <1>8, PopTalk
<1> QED
  BY <1>1, <1>4, <1>5, <1>6, <1>7, <1>8 DEF Drain

LEMMA WorkTalk ==
  ASSUME Ground, NEW p \in Side, Work(p)
  PROVE  Talk!Next \/ UNCHANGED Talk!talk
<1>0. TypeInv /\ TypeOK /\ InOrder
  BY DEF Ground, TypeInv
\* Only the operation moves on.
<1>1. ASSUME NoPop(todo[p]), NEW rest, NoPop(rest), todo' = [todo EXCEPT ![p] = rest],
             UNCHANGED <<sent, handed, state, pending_deliveries>>
      PROVE  UNCHANGED Talk!talk
  <2>1. NoPop(todo'[p]) /\ \A q \in Side : q # p => todo'[q] = todo[q]
    BY <1>0, <1>1 DEF TypeOK
  <2> QED
    BY <1>0, <1>1, <2>1, SilentStep DEF Open
<1>2. NoPop(<<>>)
  BY DEF NoPop
<1>3. CASE RetryPending(p)
  <2>1. /\ Retrying(p) /\ UNCHANGED history
        /\ \/ /\ \/ todo' = [todo EXCEPT ![p] = Retried(p)]
                 \/ todo' = [todo EXCEPT ![p] = <<>>]
              /\ UNCHANGED <<state, pending_deliveries>>
           \/ CloseChat(p, "rejected")
    BY <1>3 DEF RetryPending, chatVars
  <2>2. Open(p) /\ NoPop(todo[p]) /\ NoPop(Retried(p))
    <3>1. Open(p) /\ NoPop(todo[p])
      BY <2>1, ActingNoPop
    <3> QED
      BY <1>0, <3>1, RestOf, RestNoPop DEF Retried
  <2> QED
    BY <1>0, <1>1, <1>2, <2>1, <2>2, EndTalk DEF history
<1>4. CASE RetryNothing(p)
  <2>1. /\ At(p, "retry") /\ todo' = [todo EXCEPT ![p] = Tail(todo[p])]
        /\ UNCHANGED <<sent, handed, state, pending_deliveries>>
    BY <1>4 DEF RetryNothing, chatVars, storeVars, history
  <2>2. NoPop(todo[p]) /\ NoPop(Tail(todo[p]))
    BY <1>0, <2>1, ActingNoPop, RestOf, RestNoPop DEF Steps
  <2> QED
    BY <1>1, <2>1, <2>2
<1>5. CASE Ask(p)
  <2>1. Open(p) /\ NoPop(todo[p]) /\ NoPop(Tail(todo[p]))
    BY <1>0, <1>5, ActingNoPop, RestOf, RestNoPop DEF Ask, Steps
  <2>2. \/ /\ todo' = [todo EXCEPT ![p] = Tail(todo[p])]
           /\ UNCHANGED <<sent, handed, state, pending_deliveries>>
        \/ /\ UNCHANGED handed
           /\ \E a, b, o : /\ Commit(p, "resend", a, b, keys[p].key, keys[p], state[p], o)
                           /\ GoOn(p, o, Tail(todo[p]))
    BY <1>5 DEF Ask, storeVars, history
  <2>3. CASE /\ UNCHANGED handed
             /\ \E a, b, o : /\ Commit(p, "resend", a, b, keys[p].key, keys[p], state[p], o)
                             /\ GoOn(p, o, Tail(todo[p]))
    <3>1. PICK a, b, o : /\ Commit(p, "resend", a, b, keys[p].key, keys[p], state[p], o)
                         /\ GoOn(p, o, Tail(todo[p]))
      BY <2>3
    <3>2. PICK rest : NoPop(rest) /\ todo' = [todo EXCEPT ![p] = rest]
      BY <1>2, <2>1, <3>1 DEF GoOn
    <3> QED
      BY <1>0, <2>1, <2>3, <3>1, <3>2, SayTalk DEF Open
  <2> QED
    BY <1>1, <2>1, <2>2, <2>3
<1>6. CASE ConfirmSwitch(p)
  <2>1. Open(p) /\ NoPop(todo[p]) /\ NoPop(Tail(todo[p])) /\ UNCHANGED handed
    BY <1>0, <1>6, ActingNoPop, RestOf, RestNoPop DEF ConfirmSwitch, Steps
  <2>2. PICK o : /\ Commit(p, "noop", 0, 0, keys[p].key, keys[p], state[p], o)
                 /\ GoOn(p, o, Tail(todo[p]))
    BY <1>6 DEF ConfirmSwitch
  <2>3. PICK rest : NoPop(rest) /\ todo' = [todo EXCEPT ![p] = rest]
    BY <1>2, <2>1, <2>2 DEF GoOn
  <2> QED
    BY <1>0, <2>1, <2>2, <2>3, SayTalk DEF Open
<1> QED
  BY <1>3, <1>4, <1>5, <1>6 DEF Work

\* A crash takes what was being given with it.
LEMMA LifecycleTalk ==
  ASSUME Ground, NEW p \in Side, Lifecycle(p)
  PROVE  Talk!Next \/ UNCHANGED Talk!talk
<1>0. TypeInv /\ TypeOK
  BY DEF Ground, TypeInv
<1>1. UNCHANGED <<state, pending_deliveries, sent, handed>>
  BY DEF Lifecycle, Crash, Start, ResumeDelivery, ResumeWork, chatVars, storeVars, history
<1>2. {q \in Side : ~ Open(q)}' = {q \in Side : ~ Open(q)}
  BY <1>1 DEF Open
<1>3. CASE Crash(p)
  <2>1. todo'[p] = <<>> /\ \A q \in Side : q # p => todo'[q] = todo[q]
    BY <1>0, <1>3 DEF Crash, TypeOK
  <2>2. BeingGiven(p)' = {}
    BY <2>1, NothingGiven DEF NoPop
  <2>3. CASE Open(p)
    <3>1. [q \in Side |-> BeingGiven(q)]' = [[q \in Side |-> BeingGiven(q)] EXCEPT ![p] = {}]
      BY <1>1, <2>1, <2>2, OthersGiven
    <3>2. Talk!Leave(p)
      BY <1>1, <1>2, <3>1 DEF Talk!Leave
    <3> QED
      BY <2>3, <3>2 DEF Talk!Next
  <2>4. CASE ~ Open(p)
    <3>1. \A q \in Side : BeingGiven(q)' = BeingGiven(q)
      BY <1>1, <2>1, <2>2, <2>4, OthersGiven, NothingGiven
    <3> QED
      BY <1>1, <3>1, SilentTalk DEF Open
  <2> QED
    BY <2>3, <2>4
<1>4. CASE Start(p)
  <2>1. UNCHANGED todo
    BY <1>4 DEF Start
  <2> QED
    BY <1>1, <2>1, SilentTalk, OthersGiven DEF Open
<1>5. CASE ResumeDelivery(p) \/ ResumeWork(p)
  <2>1. Open(p) /\ NoPop(todo[p])
    BY <1>5, ActingNoPop DEF ResumeDelivery, ResumeWork
  <2>2. PICK mail, answer, due, switched :
          todo' = [todo EXCEPT ![p] = Plan(mail, answer, due, switched)]
    <3>1. CASE ResumeDelivery(p)
      BY <3>1 DEF ResumeDelivery
    <3>2. CASE ResumeWork(p)
      BY <3>2 DEF ResumeWork
    <3> QED
      BY <1>5, <3>1, <3>2
  <2>3. NoPop(todo'[p]) /\ \A q \in Side : q # p => todo'[q] = todo[q]
    BY <1>0, <2>2, PlanRest, RestNoPop DEF TypeOK
  <2> QED
    BY <1>0, <1>1, <2>1, <2>3, SilentStep DEF Open
<1> QED
  BY <1>3, <1>4, <1>5 DEF Lifecycle

LEMMA TalkInit == Init => Talk!Init
<1> SUFFICES ASSUME Init PROVE Talk!Init
  OBVIOUS
<1>1. \A q \in Side : Open(q) /\ NoPop(todo[q])
  BY DEF Init, Open, NoPop
<1>2. [q \in Side |-> BeingGiven(q)] = [q \in Side |-> {}]
  BY <1>1, NothingGiven
<1>3. {q \in Side : ~ Open(q)} = {}
  BY <1>1
<1> QED
  BY <1>2, <1>3 DEF Init, Talk!Init

LEMMA TalkNext == Ground /\ [Next]_vars => [Talk!Next]_(Talk!talk)
<1> SUFFICES ASSUME Ground, [Next]_vars PROVE Talk!Next \/ UNCHANGED Talk!talk
  OBVIOUS
<1>1. CASE Next
  BY <1>1, ApplicationTalk, ReceiveTalk, DrainTalk, WorkTalk, LifecycleTalk DEF Next
<1>2. CASE UNCHANGED vars
  <2>1. UNCHANGED <<sent, handed, state, todo, pending_deliveries>>
    BY <1>2 DEF vars, chatVars, storeVars, runVars, history
  <2> QED
    BY <2>1, SilentTalk, OthersGiven DEF Open
<1> QED
  BY <1>1, <1>2

\* The chat implements the dialogue: whatever the server loses, repeats and
\* reorders, and whenever a process dies, the application on either side is given
\* what the other one's said, message by message, and nothing else (outbox.py
\* and receive.py together).
THEOREM DialogueImplemented == Spec => ImplementsDialogue
<1>1. TypeInv /\ NumberInv /\ InOrder /\ MailboxFaithful /\ ExchangeMatchesState /\ KeyInv
        /\ [Next]_vars => [Talk!Next]_(Talk!talk)
  BY TalkNext DEF Ground
<1>2. Spec => []InOrder
  BY OrderInit, OrderNext, TypeInit, TypeNext, PTL DEF Spec
<1> QED
  BY <1>1, <1>2, TalkInit, KeysWell, TypeInit, TypeNext, NumberInit, NumberNext,
     MailboxIsFaithful, ExchangeConsistent, PTL DEF Spec, ImplementsDialogue, Talk!Spec
=============================================================================
