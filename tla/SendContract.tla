---------------------------- MODULE SendContract ---------------------------
(***************************************************************************)
(* What the caller of send_message is told. The call first retries what is *)
(* pending (_send, outbox.py) and commits its own message only after that; *)
(* a failure of either raises SendPending, which the caller is to read as  *)
(* "stored, will be retried, do not send it again".                        *)
(***************************************************************************)
EXTENDS MCConversation

VARIABLE taken  \* calls of send_message that returned or raised SendPending

sendVars == <<vars, taken>>

SendInit == Init /\ taken = [p \in Side |-> 0]

\* send_message with nothing pending: the message is committed, then sent.
CallCommitted(p) ==
  /\ SendMessage(p)
  /\ taken' = [taken EXCEPT ![p] = @ + 1]

\* send_message stopped by an older record that fails once more.
CallStopped(p) ==
  /\ Idle(p) /\ taken[p] < MaxMessages[p]
  /\ RetryPending(p)
  /\ todo'[p] = <<>> /\ state'[p] # "closed"
  /\ \E r \in retained_out'[p] : r.pending
  /\ taken' = [taken EXCEPT ![p] = @ + 1]

SendNext ==
  \/ \E p \in Side : CallCommitted(p) \/ CallStopped(p)
  \/ (\E p \in Side : Receive(p) \/ Drain(p) \/ Work(p)) /\ UNCHANGED taken

SendSpec == SendInit /\ [][SendNext]_sendVars

\* manager.send_message: SendPending "when the message is stored but
\* unconfirmed": every call that was taken has its message in the outbox
\* history of that side.
TakenIsStored ==
  \A p \in Side : taken[p] <= Cardinality(SentActs(p, {"msg"}))
============================================================================
