---------------------------- MODULE MCScenarios ----------------------------
(* Several instances of Conversation in one run: `scenario`, chosen at the  *)
(* start, says which constants the conversation runs with.                  *)
EXTENDS MCConversation

CONSTANT Scenarios  \* the ones this run is about
VARIABLE scenario

\* Two messages one way and one the other, one faulty RPC and one crash.
Ordering == INSTANCE Conversation WITH
  MAX_RESEND_COUNT <- 1000, MaxMessages <- M21, ExchangeIds <- None,
  Announcers <- {}, Deleters <- {}, Closers <- {},
  Outcomes <- {"lost", "unknown", "dropped"}, MaxFaults <- 1, MaxCrashes <- 1

\* A recovery window of two wrappers and layer announcements from both sides.
Layers == INSTANCE Conversation WITH
  MAX_RESEND_COUNT <- 2, MaxMessages <- M20, ExchangeIds <- None,
  Announcers <- Side, Deleters <- {}, Closers <- {},
  Outcomes <- {}, MaxFaults <- 0, MaxCrashes <- 0

\* Deletions, a flush, and two RPCs that fail or are rejected for good.
Withdrawal == INSTANCE Conversation WITH
  MAX_RESEND_COUNT <- 1000, MaxMessages <- M20, ExchangeIds <- None,
  Announcers <- {}, Deleters <- {"alice"}, Closers <- {},
  Outcomes <- {"lost", "rejected"}, MaxFaults <- 2, MaxCrashes <- 0

\* One key exchange and one failing RPC.
Fault == INSTANCE Conversation WITH
  MAX_RESEND_COUNT <- 1000, MaxMessages <- M10, ExchangeIds <- AliceOnly,
  Announcers <- {}, Deleters <- {}, Closers <- {},
  Outcomes <- {"lost", "unknown"}, MaxFaults <- 1, MaxCrashes <- 0

\* Two failing RPCs, and either application may end the chat.
Endings == INSTANCE Conversation WITH
  MAX_RESEND_COUNT <- 1000, MaxMessages <- M10, ExchangeIds <- AliceOnly,
  Announcers <- {}, Deleters <- {}, Closers <- Side,
  Outcomes <- {"lost", "unknown"}, MaxFaults <- 2, MaxCrashes <- 0

\* Both sides may request with the same id, and a process dies.
Crashing == INSTANCE Conversation WITH
  MAX_RESEND_COUNT <- 1000, MaxMessages <- M10, ExchangeIds <- Same,
  Announcers <- {}, Deleters <- {}, Closers <- {},
  Outcomes <- {}, MaxFaults <- 0, MaxCrashes <- 1

\* Requests that collide, with unequal and equal ids, and a second request.
Colliding == INSTANCE Conversation WITH
  MAX_RESEND_COUNT <- 1000, MaxMessages <- M10, ExchangeIds <- BothTie,
  Announcers <- {}, Deleters <- {}, Closers <- {},
  Outcomes <- {}, MaxFaults <- 0, MaxCrashes <- 0

ScenarioNext ==
  /\ \/ scenario = "ordering" /\ Ordering!Next
     \/ scenario = "layers" /\ Layers!Next
     \/ scenario = "withdrawal" /\ Withdrawal!Next
     \/ scenario = "fault" /\ Fault!Next
     \/ scenario = "endings" /\ Endings!Next
     \/ scenario = "crashing" /\ Crashing!Next
     \/ scenario = "colliding" /\ Colliding!Next
  /\ UNCHANGED scenario

ScenarioInit == Init /\ scenario \in Scenarios

\* The fairness of Conversation, in the scenarios liveness is about.
FairScenarios ==
  /\ ScenarioInit /\ [][ScenarioNext]_<<vars, scenario>>
  /\ \A p \in Side :
       /\ WF_vars(scenario = "ordering" /\ Ordering!Applied(p))
       /\ WF_vars(scenario = "ordering" /\ Ordering!Drain(p))
       /\ WF_vars(scenario = "ordering" /\ (Ordering!Work(p) \/ Ordering!SendDelete(p)))
       /\ WF_vars(scenario = "ordering" /\ Ordering!Recovery(p))
       /\ WF_vars(scenario = "crashing" /\ Crashing!Applied(p))
       /\ WF_vars(scenario = "crashing" /\ Crashing!Drain(p))
       /\ WF_vars(scenario = "crashing" /\ (Crashing!Work(p) \/ Crashing!SendDelete(p)))
       /\ WF_vars(scenario = "crashing" /\ Crashing!Recovery(p))
       /\ WF_vars(scenario = "colliding" /\ Colliding!Applied(p))
       /\ WF_vars(scenario = "colliding" /\ Colliding!Drain(p))
       /\ WF_vars(scenario = "colliding" /\ (Colliding!Work(p) \/ Colliding!SendDelete(p)))
       /\ WF_vars(scenario = "colliding" /\ Colliding!Recovery(p))

\* Every hole is filled in the end, although the server confirmed a frame and
\* lost it: the one request for the hole and its answer both arrive.
HoleHealsInOrdering ==
  \A p \in Side : (scenario = "ordering" /\ queue_in[p] # {}) ~> queue_in[p] = {}

============================================================================
