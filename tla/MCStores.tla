------------------------------ MODULE MCStores -----------------------------
(* The file store, the bounded manager and the transient manager in one     *)
(* run: `subject`, chosen at the start, says which of them takes steps.     *)
EXTENDS Store, Custody, Transient

CONSTANT Subjects  \* the ones this run is about
VARIABLE subject

\* The chat of one process has two numbers each way, the other's has one.
Numbers == [p \in Process |-> IF p = "one" THEN 2 ELSE 1]

\* A message and a request that needs an answer; a deletion; an oversized frame.
SomeKinds == {<<"text", "request">>, <<"delete">>, <<"huge">>}

StoresInit ==
  /\ subject \in Subjects
  /\ StoreInit
  /\ CustodyInit /\ (subject # "custody" => kind = CHOOSE k \in Kinds : TRUE)
  /\ TransientInit /\ (subject # "transient" => listening)

StoresNext ==
  /\ \/ subject = "store" /\ StoreNext /\ UNCHANGED <<custodyVars, transientVars>>
     \/ subject = "custody" /\ CustodyNext /\ UNCHANGED <<storeVars, transientVars>>
     \/ subject = "transient" /\ TransientNext /\ UNCHANGED <<storeVars, custodyVars>>
  /\ UNCHANGED subject

StoresSpec == StoresInit /\ [][StoresNext]_<<subject, storeVars, custodyVars, transientVars>>
============================================================================
