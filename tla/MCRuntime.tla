------------------------------ MODULE MCRuntime ----------------------------
(* Start and stop of the manager and durable ingress in one run, with their *)
(* fairness: `subject`, chosen at the start, says which takes steps; no     *)
(* step that the other owes by its fairness is enabled where it stays.      *)
EXTENDS Lifecycle, Ingress

CONSTANT Subjects  \* the ones this run is about
VARIABLE subject

\* Messages of two chats; and, in another queue, one that is not about secret chats,
\* one that cannot be read, and the end of a chat.
Update(chat, sort) == [chat |-> chat, kind |-> sort]
Queues ==
  {<<Update("a", "message"), Update("b", "message")>>,
   <<Update("a", "unrelated"), Update("b", "unreadable")>>,
   <<Update("a", "terminal")>>}

RuntimeInit ==
  /\ subject \in Subjects
  /\ LifeInit
  /\ IngressInit /\ (subject # "ingress" => stream = CHOOSE s \in Streams : TRUE)

RuntimeNext ==
  /\ \/ subject = "life" /\ LifeNext /\ UNCHANGED ingressVars
     \/ subject = "ingress" /\ IngressNext /\ UNCHANGED lifeVars
  /\ UNCHANGED subject

runtimeVars == <<subject, lifeVars, ingressVars>>
RuntimeSpec == RuntimeInit /\ [][RuntimeNext]_runtimeVars
FairRuntime == RuntimeSpec /\ LifeFairness /\ IngressFairness
============================================================================
