----------------------------- MODULE Dialogue ------------------------------
(***************************************************************************)
(* What a secret chat promises the two applications, whatever the server,  *)
(* the network and the processes do: each side's messages form a log that  *)
(* only grows, and the other side is given them one after the other, none  *)
(* left out. Only the last one may be given again, after a failure or a    *)
(* restart. A side that has ended says and is given nothing more.          *)
(***************************************************************************)
EXTENDS Naturals, Sequences

CONSTANTS
  Side, Peer(_),
  Reads(_, _, _)  \* Reads(c, m, n): c may stand for m, which is message n

VARIABLES
  said,   \* said[p]: what p has said, in order
  heard,  \* heard[p]: how many messages of its peer p has been given
  given,  \* given[p]: what p is being given just now, if anything
  ended   \* the sides that take part no longer

talk == <<said, heard, given, ended>>

Init ==
  /\ said = [p \in Side |-> <<>>]
  /\ heard = [p \in Side |-> 0]
  /\ given = [p \in Side |-> {}]
  /\ ended = {}

Grows(p) ==
  LET last == Len(said[p]) + 1
  IN Len(said'[p]) = last /\ said' = [said EXCEPT ![p] = Append(@, said'[p][last])]

Meets(p) ==
  \E n \in {heard[p], heard[p] + 1} \cap (1 .. Len(said[Peer(p)])) :
    /\ heard' = [heard EXCEPT ![p] = n]
    /\ \E c \in given'[p] :
         /\ Reads(c, said[Peer(p)][n], n)
         /\ given' = [given EXCEPT ![p] = {c}]

Say(p) == Grows(p) /\ UNCHANGED <<heard, given, ended>>
Hear(p) == Meets(p) /\ UNCHANGED <<said, ended>>
\* The handler of a message answers it.
Answer(p) == Grows(p) /\ Meets(p) /\ UNCHANGED ended
\* The application is done with what it was given, or has died with it.
Leave(p) == given' = [given EXCEPT ![p] = {}] /\ UNCHANGED <<said, heard, ended>>
End(p) ==
  /\ ended' = ended \cup {p}
  /\ given' = [given EXCEPT ![p] = {}]
  /\ UNCHANGED <<said, heard>>

Next == \E p \in Side \ ended :
  Say(p) \/ Hear(p) \/ Answer(p) \/ Leave(p) \/ End(p)

Spec == Init /\ [][Next]_talk
============================================================================
